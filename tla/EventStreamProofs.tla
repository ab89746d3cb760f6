------------------------- MODULE EventStreamProofs -------------------------
(***************************************************************************)
(* What the event bus and the hub keep, for any number of websockets and   *)
(* streams, any sizes of their queues and any order of the tasks.          *)
(***************************************************************************)
EXTENDS EventStream, SequenceTheorems, TLAPS

(* Why it holds. *)

\* The bus holds what comes after the event in hand, as long as it is
\* subscribed up to the last one.
BusInv ==
  /\ \A i \in 1..Len(bus) : bus[i] = event + i
  /\ event + Len(bus) <= published
  /\ subscribed => event + Len(bus) = published
  /\ fwd = "send" => event \in Numbers

\* Who is new has seen nothing and is not registered; a socket that can still
\* be sent to is registered, and is never half open as a stream can be.
NewInv ==
  /\ \A o \in Observers : state[o] = "new" =>
       View(o) = <<>> /\ o \notin connections \cup subscribers \cup left
  /\ \A s \in left : state[s] = "open" => s \in connections
  /\ \A s \in Sockets : state[s] # "added"

\* v is a stretch of the events, without a gap.
Stretch(v) == \A i \in 1..Len(v) : v[i] = v[1] + (i - 1)

\* v, seen by one that came after event s, is complete up to event e.
Complete(v, s, e) ==
  IF v = <<>> THEN s >= e ELSE v[1] <= s + 1 /\ v[Len(v)] = e

CaughtUp(o, e) == Complete(View(o), since[o], e)

\* Every registered stream is complete up to the last event that was fanned
\* out; every open socket up to the event in hand, or its turn is to come, or
\* it failed and is about to be dropped.
StretchInv ==
  /\ \A o \in Observers : Stretch(View(o))
  /\ \A c \in subscribers :
       /\ fwd = "get"  => CaughtUp(c, event)
       /\ fwd = "send" => CaughtUp(c, event - 1)
  /\ \A s \in connections : state[s] = "open" =>
       /\ fwd = "get" => CaughtUp(s, event)
       /\ fwd = "send" /\ s \in left => CaughtUp(s, event - 1)
       /\ fwd = "send" /\ s \notin left \cup stale => CaughtUp(s, event)

USE StreamAssumption

----------------------------------------------------------------------------
(* What an observer has seen, as a sequence. *)

LEMMA Kinds ==
  ASSUME NEW o \in Observers
  PROVE  (o \in Streams <=> o \notin Sockets) /\ (o \notin Streams <=> o \in Sockets)
BY DEF Observers

LEMMA ViewTyped ==
  ASSUME TypeOK, NEW o \in Observers
  PROVE  /\ View(o) \in Seq(Numbers) /\ got[o] \in Seq(Numbers)
         /\ o \in Streams => queue[o] \in Seq(Numbers) /\ View(o) = got[o] \o queue[o]
         /\ o \in Sockets => View(o) = got[o]
<1>1. got[o] \in Seq(Numbers) /\ (o \in Streams => queue[o] \in Seq(Numbers))
  BY DEF TypeOK
<1>2. CASE o \in Streams
  BY <1>1, <1>2, Kinds, ConcatProperties DEF View
<1>3. CASE o \in Sockets
  <2>1. View(o) = got[o] \o <<>>
    BY <1>3, Kinds DEF View
  <2>2. View(o) = got[o]
    BY <1>1, <2>1, ConcatEmptySeq
  <2>3. QED
    BY <1>1, <1>3, <2>2, Kinds
<1>4. QED
  BY <1>2, <1>3 DEF Observers

\* What is moved from a queue to its observer was seen before.
LEMMA MoveHead ==
  ASSUME NEW S, NEW s \in Seq(S), NEW t \in Seq(S), t # <<>>
  PROVE  Append(s, Head(t)) \o Tail(t) = s \o t
<1>1. /\ Head(t) = t[1] /\ Head(t) \in S /\ Tail(t) \in Seq(S) /\ Len(Tail(t)) = Len(t) - 1
      /\ Len(t) \in Nat \ {0} /\ \A i \in 1..(Len(t) - 1) : Tail(t)[i] = t[i + 1]
  BY HeadTailProperties, EmptySeq
<1>2. <<Head(t)>> \in Seq(S) /\ Len(<<Head(t)>>) = 1 /\ <<Head(t)>>[1] = t[1]
  BY <1>1
<1>3. <<Head(t)>> \o Tail(t) = t
  <2>1. PICK h \in Seq(S) : h = <<Head(t)>>
    BY <1>2
  <2>2. /\ h \o Tail(t) \in Seq(S) /\ Len(h \o Tail(t)) = Len(t)
        /\ \A i \in 1..Len(t) : (h \o Tail(t))[i] = IF i <= 1 THEN h[i] ELSE Tail(t)[i - 1]
    BY <1>1, <1>2, <2>1, ConcatProperties
  <2>3. ASSUME NEW i \in 1..Len(t) PROVE (h \o Tail(t))[i] = t[i]
    <3>1. CASE i = 1
      BY <1>1, <1>2, <2>1, <2>2, <3>1
    <3>2. CASE i # 1
      <4>1. i - 1 \in 1..(Len(t) - 1) /\ (i - 1) + 1 = i
        BY <1>1, <3>2
      <4>2. QED
        BY <1>1, <2>2, <3>2, <4>1
    <3>3. QED
      BY <3>1, <3>2
  <2>4. QED
    BY <2>1, <2>2, <2>3, SeqEqual
<1>4. (s \o <<Head(t)>>) \o Tail(t) = s \o (<<Head(t)>> \o Tail(t))
  BY <1>1, <1>2, ConcatAssociative
<1>5. QED
  BY <1>1, <1>3, <1>4, AppendIsConcat

\* What is put at the end of a queue is seen last.
LEMMA MoveLast ==
  ASSUME NEW S, NEW s \in Seq(S), NEW t \in Seq(S), NEW e \in S
  PROVE  s \o Append(t, e) = Append(s \o t, e)
<1>1. <<e>> \in Seq(S) /\ s \o t \in Seq(S)
  BY ConcatProperties
<1>2. s \o (t \o <<e>>) = (s \o t) \o <<e>>
  BY <1>1, ConcatAssociative
<1>3. QED
  BY <1>1, <1>2, AppendIsConcat

\* The next event continues a stretch that is complete up to the one before.
LEMMA Continue ==
  ASSUME NEW v \in Seq(Numbers), Stretch(v), NEW e \in Numbers, NEW s \in Nat, Complete(v, s, e - 1)
  PROVE  Stretch(Append(v, e)) /\ Complete(Append(v, e), s, e)
<1>1. /\ Append(v, e) \in Seq(Numbers) /\ Len(Append(v, e)) = Len(v) + 1 /\ Append(v, e) # <<>> /\ Len(v) \in Nat
      /\ \A i \in 1..Len(v) : Append(v, e)[i] = v[i]
      /\ Append(v, e)[Len(v) + 1] = e
  BY AppendProperties
<1>2. CASE v = <<>>
  BY <1>1, <1>2, EmptySeq DEF Stretch, Complete, Numbers
<1>3. CASE v # <<>>
  <2>1. Len(v) # 0 /\ v[1] \in Numbers /\ v[1] \in Int /\ e \in Int
    BY <1>1, <1>3, EmptySeq DEF Numbers
  <2>2. v[Len(v)] = v[1] + (Len(v) - 1) /\ v[Len(v)] = e - 1 /\ v[1] <= s + 1
    BY <1>1, <1>3, <2>1 DEF Stretch, Complete
  <2>3. e = v[1] + Len(v)
    BY <1>1, <2>1, <2>2
  <2>4. ASSUME NEW i \in 1..(Len(v) + 1) PROVE Append(v, e)[i] = v[1] + (i - 1)
    BY <1>1, <2>1, <2>3 DEF Stretch
  <2>5. Append(v, e)[1] = v[1]
    BY <1>1, <2>1
  <2>6. QED
    BY <1>1, <2>2, <2>4, <2>5 DEF Stretch, Complete
<1>4. QED
  BY <1>2, <1>3

----------------------------------------------------------------------------
(* Types, and the bus. *)

\* What a step takes from the bus.
LEMMA BusHead ==
  ASSUME TypeOK, bus # <<>>
  PROVE  /\ Head(bus) = bus[1] /\ Head(bus) \in Numbers /\ Len(bus) \in Nat \ {0}
         /\ Tail(bus) \in Seq(Numbers) /\ Len(Tail(bus)) = Len(bus) - 1
         /\ \A i \in 1..(Len(bus) - 1) : Tail(bus)[i] = bus[i + 1]
<1>1. bus \in Seq(Numbers)
  BY DEF TypeOK
<1>2. QED
  BY <1>1, HeadTailProperties, EmptySeq

\* What publish puts there.
LEMMA BusAppend ==
  ASSUME TypeOK, Publish
  PROVE  /\ published' = published + 1 /\ published' \in Numbers
         /\ \/ UNCHANGED bus /\ ~subscribed'
            \/ /\ bus' = Append(bus, published') /\ UNCHANGED subscribed /\ subscribed /\ Len(bus) < BusSize
               /\ bus' \in Seq(Numbers) /\ Len(bus') = Len(bus) + 1
               /\ \A i \in 1..Len(bus) : bus'[i] = bus[i]
               /\ bus'[Len(bus) + 1] = published'
<1>1. published' = published + 1 /\ published' \in Numbers
  BY DEF Publish, TypeOK, Numbers
<1>2. bus \in Seq(Numbers)
  BY DEF TypeOK
<1>3. CASE subscribed /\ Len(bus) < BusSize
  BY <1>1, <1>2, <1>3, AppendProperties DEF Publish
<1>4. CASE ~(subscribed /\ Len(bus) < BusSize)
  BY <1>1, <1>4 DEF Publish
<1>5. QED
  BY <1>3, <1>4

\* Types are kept by the bus, the hub and the observers.
LEMMA TypeNext ==
  ASSUME TypeOK, BusInv, [Next]_vars
  PROVE  TypeOK'
<1>1. CASE Publish
  <2>1. bus' \in Seq(Numbers) /\ Len(bus') <= BusSize /\ published' \in 0..MaxEvents /\ subscribed' \in BOOLEAN
    <3>1. bus' \in Seq(Numbers) /\ Len(bus') <= BusSize
      BY <1>1, BusAppend DEF TypeOK
    <3>2. published' \in 0..MaxEvents
      BY <1>1, BusAppend DEF Numbers
    <3>3. subscribed' \in BOOLEAN
      BY <1>1 DEF Publish, TypeOK
    <3>4. QED
      BY <3>1, <3>2, <3>3
  <2>2. QED
    BY <1>1, <2>1 DEF Publish, TypeOK, forwarder, hub
<1>2. CASE Take
  <2>1. bus' \in Seq(Numbers) /\ Len(bus') <= BusSize /\ event' \in 0..MaxEvents
    BY <1>2, BusHead DEF Take, TypeOK, Numbers
  <2>2. QED
    BY <1>2, <2>1 DEF Take, TypeOK, hub
<1>3. ASSUME NEW s \in Sockets, Send(s) PROVE TypeOK'
  <2>1. got' \in [Observers -> Seq(Numbers)]
    <3>1. got \in [Observers -> Seq(Numbers)] /\ s \in Observers /\ event \in Numbers
      BY <1>3 DEF TypeOK, Observers, BusInv, Send
    <3>2. Append(got[s], event) \in Seq(Numbers)
      BY <3>1, AppendProperties
    <3>3. got' \in {got, [got EXCEPT ![s] = Append(got[s], event)]}
      BY <1>3 DEF Send
    <3>4. QED
      BY <3>1, <3>2, <3>3
  <2>2. left' \subseteq Sockets /\ stale' \subseteq Sockets
    BY <1>3 DEF Send, TypeOK
  <2>3. QED
    BY <1>3, <2>1, <2>2 DEF Send, TypeOK, hub
<1>4. CASE FanOut
  <2>1. event \in Numbers /\ queue \in [Streams -> Seq(Numbers)]
    BY <1>4 DEF FanOut, BusInv, TypeOK
  <2>2. ASSUME NEW c \in Streams PROVE queue'[c] \in Seq(Numbers) /\ Len(queue'[c]) <= StreamSize
    <3>1. queue[c] \in Seq(Numbers) /\ Len(queue[c]) <= StreamSize
      BY <2>1 DEF TypeOK
    <3>2. Append(queue[c], event) \in Seq(Numbers) /\ Len(Append(queue[c], event)) = Len(queue[c]) + 1
      BY <2>1, <3>1, AppendProperties
    <3>3. QED
      BY <1>4, <3>1, <3>2 DEF FanOut
  <2>3. queue' \in [Streams -> Seq(Numbers)]
    BY <1>4, <2>2 DEF FanOut
  <2>4. connections' \subseteq Sockets /\ subscribers' \subseteq Streams
    BY <1>4 DEF FanOut, TypeOK, Kept
  <2>5. QED
    BY <1>4, <2>2, <2>3, <2>4 DEF FanOut, TypeOK
<1>5. CASE Shutdown
  BY <1>5 DEF Shutdown, TypeOK, hub
<1>6. ASSUME NEW o \in Observers, JoinSocket(o) \/ RefuseSocket(o) \/ LeaveSocket(o) PROVE TypeOK'
  <2>1. CASE JoinSocket(o)
    BY <2>1 DEF JoinSocket, TypeOK, forwarder
  <2>2. CASE RefuseSocket(o)
    BY <2>2 DEF RefuseSocket, TypeOK, forwarder, hub
  <2>3. CASE LeaveSocket(o)
    BY <2>3 DEF LeaveSocket, TypeOK, forwarder
  <2>4. QED
    BY <1>6, <2>1, <2>2, <2>3
<1>7. ASSUME NEW o \in Observers, AddStream(o) \/ OpenStream(o) \/ AbandonStream(o) \/ CloseStream(o) PROVE TypeOK'
  <2>1. CASE AddStream(o)
    BY <2>1 DEF AddStream, TypeOK, forwarder
  <2>2. CASE OpenStream(o) \/ AbandonStream(o)
    BY <2>2 DEF OpenStream, AbandonStream, TypeOK, forwarder, hub
  <2>3. CASE CloseStream(o)
    BY <2>3 DEF CloseStream, TypeOK, forwarder
  <2>4. QED
    BY <1>7, <2>1, <2>2, <2>3
<1>8. ASSUME NEW o \in Observers, Yield(o) PROVE TypeOK'
  <2>1. /\ queue \in [Streams -> Seq(Numbers)] /\ got \in [Observers -> Seq(Numbers)] /\ o \in Streams
        /\ queue[o] # <<>> /\ queue[o] \in Seq(Numbers) /\ got[o] \in Seq(Numbers)
    BY <1>8 DEF Yield, TypeOK
  <2>2. /\ Head(queue[o]) \in Numbers /\ Tail(queue[o]) \in Seq(Numbers)
        /\ Len(Tail(queue[o])) = Len(queue[o]) - 1 /\ Len(queue[o]) \in Nat
    BY <2>1, HeadTailProperties
  <2>3. Append(got[o], Head(queue[o])) \in Seq(Numbers)
    BY <2>1, <2>2, AppendProperties
  <2>4. queue' = [queue EXCEPT ![o] = Tail(queue[o])] /\ got' = [got EXCEPT ![o] = Append(got[o], Head(queue[o]))]
    BY <1>8 DEF Yield
  <2>5. queue' \in [Streams -> Seq(Numbers)] /\ got' \in [Observers -> Seq(Numbers)]
    BY <2>1, <2>2, <2>3, <2>4
  <2>6. \A c \in Streams : Len(queue'[c]) <= StreamSize
    <3>1. Len(queue[o]) - 1 <= StreamSize
      BY <2>1, <2>2 DEF TypeOK
    <3>2. QED
      BY <2>1, <2>2, <2>4, <3>1 DEF TypeOK
  <2>7. QED
    BY <1>8, <2>5, <2>6 DEF Yield, TypeOK, forwarder
<1>9. ASSUME NEW o \in Observers, Disconnect(o) PROVE TypeOK'
  BY <1>9 DEF Disconnect, TypeOK, forwarder, hub
<1>10. CASE UNCHANGED vars
  BY <1>10 DEF vars, forwarder, hub, TypeOK
<1>11. QED
  BY <1>1, <1>2, <1>3, <1>4, <1>5, <1>6, <1>7, <1>8, <1>9, <1>10 DEF Next, Forward, Handle

\* The queue of the forwarder has no gap.
LEMMA BusNext ==
  ASSUME TypeOK, BusInv, [Next]_vars
  PROVE  BusInv'
<1>1. CASE Publish
  <2>1. UNCHANGED <<event, fwd>>
    BY <1>1 DEF Publish, forwarder
  <2>2. published \in Int /\ event \in Int /\ Len(bus) \in Nat
    BY DEF TypeOK
  <2>3. QED
    BY <1>1, <2>1, <2>2, BusAppend DEF BusInv
<1>2. CASE Take
  <2>1. event' = event + 1 /\ event' \in Numbers /\ bus' = Tail(bus) /\ event \in Int
    BY <1>2, BusHead DEF Take, BusInv, TypeOK
  <2>2. /\ bus # <<>> /\ Len(bus') = Len(bus) - 1 /\ Len(bus) \in Nat \ {0} /\ published \in Int
        /\ \A i \in 1..Len(bus') : bus'[i] = bus[i + 1] /\ i + 1 \in 1..Len(bus)
    BY <1>2, <2>1, BusHead DEF Take, TypeOK
  <2>3. \A i \in 1..Len(bus') : bus'[i] = event' + i
    BY <2>1, <2>2 DEF BusInv
  <2>4. QED
    BY <1>2, <2>1, <2>2, <2>3 DEF Take, BusInv
<1>3. CASE UNCHANGED <<bus, event, published>> /\ (subscribed' => subscribed) /\ (fwd' = "send" => fwd = "send")
  BY <1>3 DEF BusInv
<1>4. CASE FanOut \/ Shutdown \/ \E s \in Sockets : Send(s)
  BY <1>3, <1>4 DEF FanOut, Shutdown, Send
<1>5. ASSUME NEW o \in Observers, JoinSocket(o) \/ RefuseSocket(o) \/ AddStream(o) \/ AbandonStream(o) \/ Disconnect(o) \/ Handle(o)
      PROVE  UNCHANGED <<bus, event, published, subscribed, fwd>>
  BY <1>5 DEF JoinSocket, RefuseSocket, AddStream, AbandonStream, Disconnect, Handle, OpenStream, Yield, LeaveSocket, CloseStream, forwarder
<1>6. QED
  BY <1>1, <1>2, <1>3, <1>4, <1>5 DEF Next, Forward, vars, forwarder

----------------------------------------------------------------------------
(* What is seen. *)

\* A view grows by the event in hand, at its end, or stays.
LEMMA ViewSend ==
  ASSUME TypeOK, BusInv, NEW s \in Sockets, Send(s), NEW o \in Observers
  PROVE  \/ View(o)' = View(o) /\ (o = s => s \in stale' \/ state[s] # "open")
         \/ View(o)' = Append(View(o), event) /\ o = s /\ state[s] = "open"
<1>1. UNCHANGED queue /\ got \in [Observers -> Seq(Numbers)] /\ s \in Observers
  BY DEF Send, hub, TypeOK, Observers
<1>2. CASE state[s] = "open" /\ got' = [got EXCEPT ![s] = Append(got[s], event)]
  <2>1. CASE o # s
    BY <1>1, <1>2, <2>1 DEF View
  <2>2. CASE o = s
    <3>1. got'[s] = Append(got[s], event) /\ event \in Numbers
      BY <1>1, <1>2 DEF Send, BusInv
    <3>2. s \notin Streams /\ View(s)' = got'[s] \o <<>> /\ View(s) = got[s]
      BY <1>1, Kinds, ViewTyped DEF View
    <3>3. Append(got[s], event) \in Seq(Numbers)
      BY <1>1, <3>1, AppendProperties
    <3>4. View(s)' = Append(got[s], event)
      BY <3>1, <3>2, <3>3, ConcatEmptySeq
    <3>5. QED
      BY <1>2, <2>2, <3>2, <3>4
  <2>3. QED
    BY <2>1, <2>2
<1>3. CASE UNCHANGED got /\ (s \in stale' \/ state[s] # "open")
  BY <1>1, <1>3 DEF View
<1>4. QED
  BY <1>2, <1>3 DEF Send

\* What fanning out adds to a view.
LEMMA ViewFanOut ==
  ASSUME TypeOK, BusInv, FanOut, NEW o \in Observers
  PROVE  View(o)' = IF o \in subscribers /\ HasRoom(o) THEN Append(View(o), event) ELSE View(o)
<1>1. UNCHANGED got /\ event \in Numbers /\ queue \in [Streams -> Seq(Numbers)] /\ subscribers \subseteq Streams
  BY DEF FanOut, BusInv, TypeOK
<1>2. CASE o \notin Streams
  BY <1>1, <1>2 DEF View
<1>3. CASE o \in Streams
  <2>1. queue'[o] = IF o \in subscribers /\ HasRoom(o) THEN Append(queue[o], event) ELSE queue[o]
    BY <1>3 DEF FanOut, HasRoom
  <2>2. View(o)' = got[o] \o queue'[o] /\ View(o) = got[o] \o queue[o]
    BY <1>1, <1>3 DEF View
  <2>3. got[o] \in Seq(Numbers) /\ queue[o] \in Seq(Numbers)
    BY <1>1, <1>3, ViewTyped
  <2>4. got[o] \o Append(queue[o], event) = Append(got[o] \o queue[o], event)
    <3>1. \A s, t \in Seq(Numbers) : \A e \in Numbers : s \o Append(t, e) = Append(s \o t, e)
      BY MoveLast
    <3>2. QED
      BY <1>1, <2>3, <3>1
  <2>5. QED
    BY <2>1, <2>2, <2>4
<1>4. QED
  BY <1>2, <1>3

\* A stream that yields moves the event, and has seen what it had.
LEMMA ViewYield ==
  ASSUME TypeOK, NEW c \in Observers, Yield(c), NEW o \in Observers
  PROVE  View(o)' = View(o)
<1>1. /\ queue \in [Streams -> Seq(Numbers)] /\ got \in [Observers -> Seq(Numbers)] /\ c \in Streams
      /\ queue[c] # <<>> /\ queue[c] \in Seq(Numbers) /\ got[c] \in Seq(Numbers)
  BY DEF Yield, TypeOK
<1>2. queue' = [queue EXCEPT ![c] = Tail(queue[c])] /\ got' = [got EXCEPT ![c] = Append(got[c], Head(queue[c]))]
  BY DEF Yield
<1>3. CASE o # c
  BY <1>1, <1>2, <1>3 DEF View
<1>4. CASE o = c
  <2>1. View(c)' = Append(got[c], Head(queue[c])) \o Tail(queue[c]) /\ View(c) = got[c] \o queue[c]
    BY <1>1, <1>2 DEF View
  <2>2. QED
    BY <1>1, <1>4, <2>1, MoveHead
<1>5. QED
  BY <1>3, <1>4

\* Only the forwarder adds to what is seen.
Idle(o) == RefuseSocket(o) \/ LeaveSocket(o) \/ OpenStream(o) \/ AbandonStream(o) \/ CloseStream(o) \/ Disconnect(o) \/ Yield(o)

\* The steps that leave every view as it is.
LEMMA ViewStays ==
  ASSUME TypeOK, NEW o \in Observers,
         Publish \/ Take \/ Shutdown \/ UNCHANGED vars \/ \E p \in Observers : JoinSocket(p) \/ AddStream(p) \/ Idle(p)
  PROVE  View(o)' = View(o)
<1>1. CASE UNCHANGED <<got, queue>>
  BY <1>1 DEF View
<1>2. CASE Publish \/ Take \/ Shutdown \/ UNCHANGED vars
  BY <1>1, <1>2 DEF Publish, Take, Shutdown, vars, hub
<1>3. ASSUME NEW p \in Observers, JoinSocket(p) \/ AddStream(p) \/ Idle(p) PROVE View(o)' = View(o)
  <2>1. CASE Yield(p)
    BY <2>1, ViewYield
  <2>2. CASE ~Yield(p)
    BY <1>1, <1>3, <2>2 DEF JoinSocket, AddStream, Idle, RefuseSocket, LeaveSocket, OpenStream, AbandonStream, CloseStream, Disconnect, hub
  <2>3. QED
    BY <2>1, <2>2
<1>4. QED
  BY <1>2, <1>3

\* What those steps leave alone.
LEMMA IdleStays ==
  ASSUME TypeOK, Publish \/ UNCHANGED vars \/ \E p \in Observers : Idle(p)
  PROVE  /\ UNCHANGED <<fwd, event, left, stale, since>> /\ subscribers' \subseteq subscribers /\ connections' \subseteq connections
         /\ \A o \in Observers : state'[o] = "new" => state[o] = "new"
         /\ \A s \in Sockets : state'[s] = "open" => state[s] = "open" /\ (s \in connections => s \in connections')
         /\ \A s \in Sockets : state'[s] = "added" => state[s] = "added"
<1>1. CASE Publish \/ UNCHANGED vars
  BY <1>1 DEF Publish, vars, forwarder, hub
<1>2. ASSUME NEW p \in Observers, RefuseSocket(p) \/ LeaveSocket(p) \/ Disconnect(p)
      PROVE  /\ UNCHANGED <<fwd, event, left, stale, since, subscribers>> /\ connections' \subseteq connections
             /\ \A o \in Observers : state'[o] = "new" => state[o] = "new"
             /\ \A s \in Sockets : state'[s] = "open" => state[s] = "open" /\ (s \in connections => s \in connections')
             /\ \A s \in Sockets : state'[s] = "added" => state[s] = "added"
  BY <1>2 DEF RefuseSocket, LeaveSocket, Disconnect, forwarder, hub, TypeOK, Observers
<1>3. ASSUME NEW p \in Observers, OpenStream(p) \/ AbandonStream(p) \/ CloseStream(p) \/ Yield(p)
      PROVE  /\ UNCHANGED <<fwd, event, left, stale, since, connections>> /\ subscribers' \subseteq subscribers
             /\ \A o \in Observers : state'[o] = "new" => state[o] = "new"
             /\ \A s \in Sockets : state'[s] = state[s]
  BY <1>3, Kinds DEF OpenStream, AbandonStream, CloseStream, Yield, forwarder, hub, TypeOK, Observers
<1>4. QED
  BY <1>1, <1>2, <1>3 DEF Idle, Observers

\* Nothing is sent to an observer that has not joined.
LEMMA NewNext ==
  ASSUME TypeOK, BusInv, NewInv, [Next]_vars
  PROVE  NewInv'
<1>1. CASE Publish \/ UNCHANGED vars \/ \E p \in Observers : Idle(p)
  <2>1. \A o \in Observers : View(o)' = View(o)
    BY <1>1, ViewStays
  <2>2. left \subseteq Sockets
    BY DEF TypeOK
  <2>3. QED
    BY <1>1, <2>1, <2>2, IdleStays DEF NewInv
<1>2. CASE Take \/ Shutdown
  <2>1. \A o \in Observers : View(o)' = View(o)
    BY <1>2, ViewStays
  <2>2. UNCHANGED <<state, connections, subscribers>> /\ left' \subseteq left \cup connections
    BY <1>2 DEF Take, Shutdown, hub
  <2>3. QED
    BY <2>1, <2>2 DEF NewInv
<1>3. ASSUME NEW s \in Sockets, Send(s) PROVE NewInv'
  <2>1. UNCHANGED <<state, connections, subscribers>> /\ left' \subseteq left
    BY <1>3 DEF Send, hub
  <2>2. ASSUME NEW o \in Observers, state[o] = "new" PROVE View(o)' = View(o)
    BY <1>3, <2>2, ViewSend
  <2>3. QED
    BY <2>1, <2>2 DEF NewInv
<1>4. CASE FanOut
  <2>1. UNCHANGED <<state, left>> /\ connections' \subseteq connections /\ subscribers' \subseteq subscribers /\ left = {}
    BY <1>4 DEF FanOut, Kept
  <2>2. ASSUME NEW o \in Observers, state[o] = "new" PROVE View(o)' = View(o)
    BY <1>4, <2>2, ViewFanOut DEF NewInv
  <2>3. QED
    BY <2>1, <2>2 DEF NewInv
<1>5. ASSUME NEW p \in Observers, JoinSocket(p) \/ AddStream(p) PROVE NewInv'
  <2>1. \A o \in Observers : View(o)' = View(o)
    BY <1>5, ViewStays
  <2>2. /\ state' = [state EXCEPT ![p] = IF p \in Sockets THEN "open" ELSE "added"] /\ UNCHANGED left
        /\ connections' = IF p \in Sockets THEN connections \cup {p} ELSE connections
        /\ subscribers' \subseteq subscribers \cup {p}
    BY <1>5, Kinds DEF JoinSocket, AddStream, forwarder
  <2>3. state \in [Observers -> {"new", "added", "open", "gone", "closed"}] /\ left \subseteq Sockets
    BY DEF TypeOK
  <2>4. /\ \A o \in Observers \ {p} : state'[o] = state[o]
        /\ state'[p] # "new" /\ (p \in Sockets => p \in connections')
        /\ (p \notin Sockets => state'[p] = "added")
        /\ connections \subseteq connections' /\ connections' \cup subscribers' \subseteq connections \cup subscribers \cup {p}
    BY <2>2, <2>3
  <2>5. \A o \in Observers : state'[o] = "new" => (View(o) = <<>>)' /\ o \notin connections' \cup subscribers' \cup left'
    BY <2>1, <2>2, <2>4 DEF NewInv
  <2>6. \A s \in left' : state'[s] = "open" => s \in connections'
    BY <2>2, <2>3, <2>4 DEF NewInv, Observers
  <2>7. \A s \in Sockets : state'[s] # "added"
    BY <2>2, <2>3, <2>4 DEF NewInv, Observers
  <2>8. QED
    BY <2>5, <2>6, <2>7 DEF NewInv
<1>6. QED
  BY <1>1, <1>2, <1>3, <1>4, <1>5 DEF Next, Forward, Handle, Idle

\* What is kept of the stretches when nothing is seen and nobody comes.
LEMMA NothingSeen ==
  ASSUME StretchInv, \A o \in Observers : View(o)' = View(o), TypeOK,
         UNCHANGED <<fwd, event, left, stale, since>>,
         subscribers' \subseteq subscribers, connections' \subseteq connections,
         \A s \in Sockets : state'[s] = "open" => state[s] = "open"
  PROVE  StretchInv'
<1>1. connections \subseteq Sockets /\ subscribers \subseteq Streams /\ Sockets \subseteq Observers /\ Streams \subseteq Observers
  BY DEF TypeOK, Observers
<1>2. QED
  BY <1>1 DEF StretchInv, CaughtUp

\* Every step keeps the stretches, and completes those it has to.
LEMMA StretchNext ==
  ASSUME TypeOK, BusInv, NewInv, StretchInv, [Next]_vars
  PROVE  StretchInv'
<1>a. /\ connections \subseteq Sockets /\ subscribers \subseteq Streams /\ Sockets \subseteq Observers /\ Streams \subseteq Observers
      /\ \A o \in Observers : since[o] \in Nat /\ View(o) \in Seq(Numbers)
  <2>1. \A o \in Observers : View(o) \in Seq(Numbers)
    BY ViewTyped
  <2>2. \A o \in Observers : since[o] \in Nat
    BY DEF TypeOK
  <2>3. QED
    BY <2>1, <2>2 DEF TypeOK, Observers
<1>1. CASE Publish \/ UNCHANGED vars \/ \E p \in Observers : Idle(p)
  BY <1>1, ViewStays, IdleStays, NothingSeen
<1>2. CASE Shutdown
  <2>1. \A o \in Observers : View(o)' = View(o)
    BY <1>2, ViewStays
  <2>2. fwd' = "done"
    BY <1>2 DEF Shutdown
  <2>3. QED
    BY <2>1, <2>2 DEF StretchInv
<1>3. CASE Take
  <2>1. \A o \in Observers : View(o)' = View(o)
    BY <1>3, ViewStays
  <2>2. /\ fwd = "get" /\ fwd' = "send" /\ left' = connections /\ UNCHANGED <<connections, subscribers, state, since, stale>>
        /\ event' = event + 1 /\ event \in Int
    BY <1>3, BusHead DEF Take, hub, BusInv, TypeOK
  <2>3. event' - 1 = event
    BY <2>2
  <2>4. \A o \in connections \cup subscribers : CaughtUp(o, event) <=> Complete(View(o)', since'[o], event' - 1)
    BY <1>a, <2>1, <2>2, <2>3 DEF CaughtUp
  <2>5. QED
    BY <1>a, <2>1, <2>2, <2>4 DEF StretchInv, CaughtUp
<1>4. ASSUME NEW s \in Sockets, Send(s) PROVE StretchInv'
  <2>1. /\ fwd = "send" /\ s \in left /\ left' = left \ {s} /\ stale \subseteq stale' /\ stale' \subseteq stale \cup {s}
        /\ UNCHANGED <<fwd, event, connections, subscribers, state, since>> /\ event \in Numbers
    BY <1>4 DEF Send, hub, BusInv
  <2>2. \A o \in Observers : o # s => View(o)' = View(o)
    BY <1>4, ViewSend
  <2>3. /\ Stretch(View(s)')
        /\ s \in connections /\ state[s] = "open" /\ s \notin stale' => Complete(View(s)', since[s], event)
    <3>1. CASE View(s)' = View(s) /\ (s \in stale' \/ state[s] # "open")
      BY <1>a, <3>1 DEF StretchInv
    <3>2. CASE View(s)' = Append(View(s), event) /\ state[s] = "open"
      <4>1. s \in connections
        BY <2>1, <3>2 DEF NewInv
      <4>2. Complete(View(s), since[s], event - 1) /\ Stretch(View(s))
        BY <1>a, <2>1, <3>2, <4>1 DEF StretchInv, CaughtUp
      <4>3. Stretch(Append(View(s), event)) /\ Complete(Append(View(s), event), since[s], event)
        BY <1>a, <2>1, <4>2, Continue
      <4>4. QED
        BY <3>2, <4>3
    <3>3. QED
      BY <1>4, <1>a, <3>1, <3>2, ViewSend
  <2>4. \A o \in Observers : Stretch(View(o)')
    BY <2>2, <2>3 DEF StretchInv
  <2>5. \A c \in subscribers' : Complete(View(c)', since'[c], event' - 1)
    <3>1. \A c \in subscribers : c \in Observers /\ c # s
      BY <1>a, Kinds
    <3>2. QED
      BY <2>1, <2>2, <3>1 DEF StretchInv, CaughtUp
  <2>6. \A t \in connections' : state'[t] = "open" =>
          /\ t \in left' => Complete(View(t)', since'[t], event' - 1)
          /\ t \notin left' \cup stale' => Complete(View(t)', since'[t], event')
    BY <1>a, <2>1, <2>2, <2>3 DEF StretchInv, CaughtUp
  <2>7. QED
    BY <2>1, <2>4, <2>5, <2>6 DEF StretchInv, CaughtUp
<1>5. CASE FanOut
  <2>1. /\ fwd = "send" /\ fwd' = "get" /\ left = {} /\ connections' = connections \ stale
        /\ subscribers' = {c \in subscribers : HasRoom(c)} /\ UNCHANGED <<event, state, since>> /\ event \in Numbers
    BY <1>5 DEF FanOut, Kept, BusInv
  <2>2. ASSUME NEW c \in Streams, c \in subscribers, HasRoom(c)
        PROVE  Stretch(View(c)') /\ Complete(View(c)', since[c], event)
    <3>1. View(c)' = Append(View(c), event)
      BY <1>5, <1>a, <2>2, ViewFanOut
    <3>2. Stretch(View(c)) /\ Complete(View(c), since[c], event - 1)
      BY <1>a, <2>1, <2>2 DEF StretchInv, CaughtUp
    <3>3. QED
      BY <1>a, <2>1, <3>1, <3>2, Continue
  <2>3. ASSUME NEW o \in Observers, ~(o \in subscribers /\ HasRoom(o)) PROVE View(o)' = View(o)
    BY <1>5, <2>3, ViewFanOut
  <2>4. \A o \in Observers : Stretch(View(o)')
    BY <1>a, <2>2, <2>3 DEF StretchInv
  <2>5. \A c \in subscribers' : Complete(View(c)', since'[c], event')
    BY <1>a, <2>1, <2>2
  <2>6. ASSUME NEW s \in connections', state'[s] = "open" PROVE Complete(View(s)', since'[s], event')
    <3>1. s \in connections /\ s \notin left \cup stale /\ state[s] = "open" /\ s \in Observers /\ s \notin subscribers
      BY <1>a, <2>1, <2>6, Kinds
    <3>2. QED
      BY <2>1, <2>3, <3>1 DEF StretchInv, CaughtUp
  <2>7. QED
    BY <2>1, <2>4, <2>5, <2>6 DEF StretchInv, CaughtUp
<1>6. ASSUME NEW p \in Observers, JoinSocket(p) \/ AddStream(p) PROVE StretchInv'
  <2>1. \A o \in Observers : View(o)' = View(o)
    BY <1>6, ViewStays
  <2>2. /\ UNCHANGED <<fwd, event, left, stale>> /\ since' = [since EXCEPT ![p] = published]
        /\ connections' \subseteq connections \cup {p} /\ subscribers' \subseteq subscribers \cup {p}
        /\ \A o \in Observers \ {p} : state'[o] = state[o]
    BY <1>6 DEF JoinSocket, AddStream, forwarder, TypeOK
  <2>3. View(p) = <<>> /\ p \notin left
    BY <1>6 DEF JoinSocket, AddStream, NewInv
  <2>4. since'[p] = published /\ (\A o \in Observers \ {p} : since'[o] = since[o]) /\ published >= event /\ published \in Int /\ event \in Int
    <3>1. event + Len(bus) <= published /\ Len(bus) \in Nat /\ event \in Int /\ published \in Int
      BY DEF BusInv, TypeOK
    <3>2. since \in [Observers -> 0..MaxEvents]
      BY DEF TypeOK
    <3>3. QED
      BY <2>2, <3>1, <3>2
  <2>5. Complete(View(p)', since'[p], event) /\ Complete(View(p)', since'[p], event - 1)
    BY <2>1, <2>3, <2>4 DEF Complete
  <2>6. \A o \in Observers : Stretch(View(o)')
    BY <2>1 DEF StretchInv
  <2>7. \A c \in subscribers' : (fwd' = "get" => Complete(View(c)', since'[c], event')) /\ (fwd' = "send" => Complete(View(c)', since'[c], event' - 1))
    BY <1>a, <2>1, <2>2, <2>4, <2>5 DEF StretchInv, CaughtUp
  <2>8. \A s \in connections' : state'[s] = "open" =>
          /\ fwd' = "get" => Complete(View(s)', since'[s], event')
          /\ fwd' = "send" /\ s \in left' => Complete(View(s)', since'[s], event' - 1)
          /\ fwd' = "send" /\ s \notin left' \cup stale' => Complete(View(s)', since'[s], event')
    BY <1>a, <2>1, <2>2, <2>4, <2>5 DEF StretchInv, CaughtUp
  <2>9. QED
    BY <2>6, <2>7, <2>8 DEF StretchInv, CaughtUp
<1>7. QED
  BY <1>1, <1>2, <1>3, <1>4, <1>5, <1>6 DEF Next, Forward, Handle, Idle

----------------------------------------------------------------------------
(* The theorems. *)

\* The invariants hold at the start.
LEMMA StreamInit ==
  ASSUME Init
  PROVE  TypeOK /\ BusInv /\ NewInv /\ StretchInv
<1>1. TypeOK
  <2>1. <<>> \in Seq(Numbers) /\ Len(<<>>) = 0
    BY EmptySeq
  <2>2. QED
    BY <2>1 DEF Init, TypeOK
<1>2. BusInv
  BY DEF Init, BusInv
<1>3. \A o \in Observers : View(o) = <<>>
  <2>1. <<>> \o <<>> = <<>>
    BY EmptySeq, ConcatEmptySeq
  <2>2. QED
    BY <2>1 DEF Init, View
<1>4. NewInv /\ StretchInv
  BY <1>3 DEF Init, NewInv, StretchInv, Stretch, Observers
<1>5. QED
  BY <1>1, <1>2, <1>4

\* They hold always.
LEMMA StreamInvariant == Spec => [](TypeOK /\ BusInv /\ NewInv /\ StretchInv)
<1>1. Init => TypeOK /\ BusInv /\ NewInv /\ StretchInv
  BY StreamInit
<1>2. (TypeOK /\ BusInv /\ NewInv /\ StretchInv) /\ [Next]_vars => (TypeOK /\ BusInv /\ NewInv /\ StretchInv)'
  BY TypeNext, BusNext, NewNext, StretchNext
<1>3. QED
  BY <1>1, <1>2, PTL DEF Spec

\* The variables of the bus, the forwarder, the hub and its observers keep their
\* types: no queue is ever longer than it may be.
THEOREM StreamIsTyped == Spec => []TypeOK
<1>1. QED
  BY StreamInvariant, PTL

\* A stretch that starts at or before the event after s and ends with event e
\* has every event between.
LEMMA StretchHasAll ==
  ASSUME NEW v \in Seq(Numbers), Stretch(v), NEW s \in Nat, NEW e \in Nat, Complete(v, s, e),
         NEW n \in (s + 1)..e
  PROVE  \E i \in DOMAIN v : v[i] = n
<1>1. v # <<>> /\ v[1] <= s + 1 /\ v[Len(v)] = e
  BY DEF Complete
<1>2. Len(v) \in Nat \ {0} /\ v[1] \in Int /\ DOMAIN v = 1..Len(v) /\ n \in Int
  BY <1>1, EmptySeq DEF Numbers
<1>3. e = v[1] + (Len(v) - 1)
  BY <1>1, <1>2 DEF Stretch
<1>4. n - v[1] + 1 \in 1..Len(v) /\ v[n - v[1] + 1] = v[1] + ((n - v[1] + 1) - 1)
  BY <1>1, <1>2, <1>3 DEF Stretch
<1>5. QED
  BY <1>2, <1>4

\* Whatever the sizes of the queues and however many observers come and go, no
\* websocket or stream sees a gap, a repetition or a swap in the events, and
\* between two broadcasts who is registered and still there has been given
\* everything that was taken off the bus since it came.
THEOREM ObserversSeeAStretch == Spec => []EachSeesAStretch
<1>1. TypeOK /\ NewInv /\ StretchInv => EachSeesAStretch
  <2>1. SUFFICES ASSUME TypeOK, NewInv, StretchInv PROVE EachSeesAStretch
    OBVIOUS
  <2>2. NoGapNoRepeat
    <3>1. ASSUME NEW o \in Observers, NEW i \in 1..(Len(View(o)) - 1)
          PROVE  View(o)[i + 1] = View(o)[i] + 1
      <4>1. View(o) \in Seq(Numbers) /\ Stretch(View(o))
        BY <2>1, ViewTyped DEF StretchInv
      <4>2. Len(View(o)) \in Nat /\ i \in 1..Len(View(o)) /\ i + 1 \in 1..Len(View(o)) /\ 1 \in 1..Len(View(o))
        BY <4>1
      <4>3. View(o)[1] \in Int
        BY <4>1, <4>2 DEF Numbers
      <4>4. QED
        BY <4>1, <4>2, <4>3 DEF Stretch
    <3>2. QED
      BY <3>1 DEF NoGapNoRepeat
  <2>3. ASSUME fwd = "get", NEW o \in connections \cup subscribers, state[o] \in {"added", "open"},
               NEW e \in (since[o] + 1)..event
        PROVE  \E i \in DOMAIN View(o) : View(o)[i] = e
    <3>1. o \in Observers /\ since[o] \in Nat /\ event \in Nat /\ (o \in connections => o \in Sockets)
      BY <2>1 DEF TypeOK, Observers
    <3>2. View(o) \in Seq(Numbers) /\ Stretch(View(o))
      BY <2>1, <3>1, ViewTyped DEF StretchInv
    <3>3. Complete(View(o), since[o], event)
      <4>1. CASE o \in subscribers
        BY <2>1, <2>3, <4>1 DEF StretchInv, CaughtUp
      <4>2. CASE o \in connections
        BY <2>1, <2>3, <3>1, <4>2 DEF StretchInv, CaughtUp, NewInv
      <4>3. QED
        BY <2>3, <4>1, <4>2
    <3>4. QED
      BY <3>1, <3>2, <3>3, StretchHasAll
  <2>4. QED
    BY <2>2, <2>3 DEF EachSeesAStretch, NoOneIsBehind
<1>2. QED
  BY <1>1, StreamInvariant, PTL
=============================================================================
