---------------------------- MODULE EventStream ----------------------------
(***************************************************************************)
(* From ingest to the browsers: the event bus, the task that forwards it   *)
(* to the hub, and the hub's two kinds of observers, websockets and        *)
(* server-sent event streams.  All of it runs in the event loop of the API *)
(* process; an action is what runs between two awaits.  Events are         *)
(* numbered in the order in which ingest publishes them.                   *)
(***************************************************************************)
EXTENDS Integers, Sequences, FiniteSets

CONSTANTS
  Sockets,    \* websocket connections
  Streams,    \* requests of GET /v1/events/stream
  BusSize,    \* EventBus.max_queue_size
  StreamSize, \* maxsize of the queue of a stream
  MaxEvents   \* bound: events published in a behaviour

ASSUME StreamAssumption ==
  /\ IsFiniteSet(Sockets) /\ IsFiniteSet(Streams) /\ Sockets \cap Streams = {}
  /\ BusSize \in Nat \ {0} /\ StreamSize \in Nat \ {0} /\ MaxEvents \in Nat

VARIABLES
  published,   \* events published so far
  bus,         \* the queue of the forwarder
  subscribed,  \* whether the bus still has that queue
  fwd,         \* the forwarder: "get", "send" or "done"
  event,       \* the event it broadcasts
  left,        \* sockets of its copy of connections it has not sent to yet
  stale,       \* sockets a send to which failed in this broadcast
  connections, \* EventStreamHub.connections
  subscribers, \* EventStreamHub.sse_subscribers
  queue,       \* the queue of each stream
  state,       \* observers: "new", "added" (not yet iterated), "open", "gone"
               \* (noticed by nobody yet), "closed"
  got,         \* history: what each observer received
  since        \* history: events published when each observer was added

hub       == <<connections, subscribers, queue>>
forwarder == <<fwd, event, left, stale>>
vars      == <<published, bus, subscribed, forwarder, hub, state, got, since>>

Observers == Sockets \cup Streams

----------------------------------------------------------------------------
(* EventBus and the forwarder. *)

\* Mutants: a queue that is longer than it may be; a full queue that loses the
\* event but keeps its subscriber.
PublishOneMore ==
  /\ published < MaxEvents
  /\ published' = published + 1
  /\ IF subscribed /\ Len(bus) <= BusSize
     THEN bus' = Append(bus, published') /\ UNCHANGED subscribed
     ELSE subscribed' = FALSE /\ UNCHANGED bus
  /\ UNCHANGED <<forwarder, hub, state, got, since>>

PublishLossy ==
  /\ published < MaxEvents
  /\ published' = published + 1
  /\ bus' = IF subscribed /\ Len(bus) < BusSize THEN Append(bus, published') ELSE bus
  /\ UNCHANGED <<subscribed, forwarder, hub, state, got, since>>

\* publish never waits: a full queue loses the event, and its subscriber.
Publish ==
  /\ published < MaxEvents
  /\ published' = published + 1
  /\ IF subscribed /\ Len(bus) < BusSize
     THEN bus' = Append(bus, published') /\ UNCHANGED subscribed
     ELSE subscribed' = FALSE /\ UNCHANGED bus
  /\ UNCHANGED <<forwarder, hub, state, got, since>>

\* queue.get(), and broadcast makes its copy of connections.
Take ==
  /\ fwd = "get" /\ bus # <<>>
  /\ event' = Head(bus) /\ bus' = Tail(bus)
  /\ left' = connections /\ fwd' = "send"
  /\ UNCHANGED <<published, subscribed, stale, hub, state, got, since>>

\* await send_json: it is received, fails, or goes to a peer that is gone.
Send(s) ==
  /\ fwd = "send" /\ s \in left
  /\ left' = left \ {s}
  /\ \/ /\ state[s] = "open"
        /\ got' = [got EXCEPT ![s] = Append(@, event)]
        /\ UNCHANGED stale
     \/ stale' = stale \cup {s} /\ UNCHANGED got
     \/ state[s] # "open" /\ UNCHANGED <<got, stale>>
  /\ UNCHANGED <<published, bus, subscribed, fwd, event, hub, state, since>>

\* Mutant: a socket that failed is kept.
KeptAll(failed) == connections

\* The connections that are kept, and the streams with room in their queue.
Kept(failed) == connections \ failed
HasRoom(c)   == Len(queue[c]) < StreamSize

\* The rest of broadcast, without an await.
FanOut ==
  /\ fwd = "send" /\ left = {}
  /\ connections' = Kept(stale)
  /\ queue' = [c \in Streams |->
                 IF c \in subscribers /\ Len(queue[c]) < StreamSize THEN Append(queue[c], event) ELSE queue[c]]
  /\ subscribers' = {c \in subscribers : HasRoom(c)}
  /\ fwd' = "get" /\ stale' = {}
  /\ UNCHANGED <<published, bus, subscribed, event, left, state, got, since>>

\* The task is cancelled, in get or in send, and unsubscribes.
Shutdown ==
  /\ fwd \in {"get", "send"}
  /\ fwd' = "done" /\ subscribed' = FALSE
  /\ UNCHANGED <<published, bus, event, left, stale, hub, state, got, since>>

----------------------------------------------------------------------------
(* event_stream_socket. *)

\* The first message authenticates the peer; nothing is awaited before the
\* connection is added.
JoinSocket(s) ==
  /\ s \in Sockets /\ state[s] = "new"
  /\ state' = [state EXCEPT ![s] = "open"]
  /\ connections' = connections \cup {s}
  /\ since' = [since EXCEPT ![s] = published]
  /\ UNCHANGED <<published, bus, subscribed, forwarder, subscribers, queue, got>>

\* It does not authenticate, or leaves before it does.
RefuseSocket(s) ==
  /\ s \in Sockets /\ state[s] = "new"
  /\ state' = [state EXCEPT ![s] = "closed"]
  /\ UNCHANGED <<published, bus, subscribed, forwarder, hub, got, since>>

\* Mutant: the handler forgets nothing.
LeaveSocketSilently(s) ==
  /\ s \in Sockets /\ state[s] = "gone"
  /\ state' = [state EXCEPT ![s] = "closed"]
  /\ UNCHANGED <<published, bus, subscribed, forwarder, hub, got, since>>

\* receive_text raises: finally.
LeaveSocket(s) ==
  /\ s \in Sockets /\ state[s] = "gone"
  /\ state' = [state EXCEPT ![s] = "closed"]
  /\ connections' = connections \ {s}
  /\ UNCHANGED <<published, bus, subscribed, forwarder, subscribers, queue, got, since>>

----------------------------------------------------------------------------
(* event_stream_sse. *)

\* The handler adds the queue and returns the response.
AddStream(c) ==
  /\ c \in Streams /\ state[c] = "new"
  /\ state' = [state EXCEPT ![c] = "added"]
  /\ subscribers' = subscribers \cup {c}
  /\ since' = [since EXCEPT ![c] = published]
  /\ UNCHANGED <<published, bus, subscribed, forwarder, connections, queue, got>>

\* The server iterates over stream(): from here on its finally will run.
OpenStream(c) ==
  /\ c \in Streams /\ state[c] = "added"
  /\ state' = [state EXCEPT ![c] = "open"]
  /\ UNCHANGED <<published, bus, subscribed, forwarder, hub, got, since>>

\* The client is gone before that: the generator never runs, nor its finally.
AbandonStream(c) ==
  /\ c \in Streams /\ state[c] = "added"
  /\ state' = [state EXCEPT ![c] = "closed"]
  /\ UNCHANGED <<published, bus, subscribed, forwarder, hub, got, since>>

\* One event is taken from the queue and yielded; a keepalive changes nothing.
Yield(c) ==
  /\ c \in Streams /\ state[c] = "open" /\ queue[c] # <<>>
  /\ got' = [got EXCEPT ![c] = Append(@, Head(queue[c]))]
  /\ queue' = [queue EXCEPT ![c] = Tail(@)]
  /\ UNCHANGED <<published, bus, subscribed, forwarder, connections, subscribers, state, since>>

\* is_disconnected, or the generator is closed: finally.
CloseStream(c) ==
  /\ c \in Streams /\ state[c] = "gone"
  /\ state' = [state EXCEPT ![c] = "closed"]
  /\ subscribers' = subscribers \ {c}
  /\ UNCHANGED <<published, bus, subscribed, forwarder, connections, queue, got, since>>

----------------------------------------------------------------------------

\* The peer of an observer is gone.
Disconnect(o) ==
  /\ state[o] = "open"
  /\ state' = [state EXCEPT ![o] = "gone"]
  /\ UNCHANGED <<published, bus, subscribed, forwarder, hub, got, since>>

\* The startup handler has scheduled the forwarder, and with it subscribe,
\* before the server accepts a request.
Init ==
  /\ published = 0 /\ bus = <<>> /\ subscribed = TRUE
  /\ fwd = "get" /\ event = 0 /\ left = {} /\ stale = {}
  /\ connections = {} /\ subscribers = {}
  /\ queue = [c \in Streams |-> <<>>]
  /\ state = [o \in Observers |-> "new"]
  /\ got = [o \in Observers |-> <<>>]
  /\ since = [o \in Observers |-> 0]

Forward == Take \/ FanOut \/ \E s \in Sockets : Send(s)
Handle(o) == OpenStream(o) \/ Yield(o) \/ LeaveSocket(o) \/ CloseStream(o)

Next ==
  \/ Publish \/ Forward \/ Shutdown
  \/ \E o \in Observers :
       \/ JoinSocket(o) \/ RefuseSocket(o) \/ AddStream(o) \/ AbandonStream(o) \/ Disconnect(o)
       \/ Handle(o)

Spec == Init /\ [][Next]_vars

\* The event loop runs every task that can run, and a send ends: a peer that
\* neither reads nor answers is disconnected by the server's pings.
Fairness == WF_vars(Forward) /\ \A o \in Observers : WF_vars(Handle(o))

FairSpec == Spec /\ Fairness

----------------------------------------------------------------------------
(* Properties. *)

Numbers == 1..MaxEvents

TypeOK ==
  /\ published \in 0..MaxEvents
  /\ bus \in Seq(Numbers) /\ Len(bus) <= BusSize
  /\ subscribed \in BOOLEAN
  /\ fwd \in {"get", "send", "done"} /\ event \in 0..MaxEvents
  /\ left \subseteq Sockets /\ stale \subseteq Sockets
  /\ connections \subseteq Sockets /\ subscribers \subseteq Streams
  /\ queue \in [Streams -> Seq(Numbers)] /\ \A c \in Streams : Len(queue[c]) <= StreamSize
  /\ state \in [Observers -> {"new", "added", "open", "gone", "closed"}]
  /\ got \in [Observers -> Seq(Numbers)]
  /\ since \in [Observers -> 0..MaxEvents]

\* What an observer received and what is queued for it.
View(o) == got[o] \o (IF o \in Streams THEN queue[o] ELSE <<>>)

\* No observer ever sees a gap, a repetition or a swap in the events: one that
\* falls behind is cut off instead, at the bus or at its own queue.
NoGapNoRepeat ==
  \A o \in Observers : \A i \in 1..(Len(View(o)) - 1) : View(o)[i + 1] = View(o)[i] + 1

\* Between broadcasts an observer that is still registered has missed nothing
\* that was published since it came and is not on the bus any more.
NoOneIsBehind ==
  fwd = "get" =>
    \A o \in connections \cup subscribers : state[o] \in {"added", "open"} =>
      \A e \in (since[o] + 1)..event : \E i \in DOMAIN View(o) : View(o)[i] = e

\* Whoever is registered sees one stretch of the events, up to the last one.
EachSeesAStretch == NoGapNoRepeat /\ NoOneIsBehind

\* An event reaches every observer that is registered when it is published, or
\* the observer leaves or is dropped, or the bus cuts off the forwarder.
EventArrives ==
  \A o \in Observers : \A e \in Numbers :
    o \in connections \cup subscribers /\ since[o] < e /\ published = e /\ subscribed ~>
      \/ \E i \in DOMAIN got[o] : got[o][i] = e
      \/ o \notin connections \cup subscribers
      \/ state[o] # "open" \/ ~subscribed

\* An observer that left is forgotten, unless it left before its generator ran.
GoneIsForgotten ==
  \A o \in Observers : state[o] = "gone" ~> o \notin connections \cup subscribers
=============================================================================
