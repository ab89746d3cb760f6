-------------------------------- MODULE Relay --------------------------------
(***************************************************************************)
(* The way in: DurableRelay.ingest records an event, closes the batches    *)
(* that are due, adds the event to a batch of every matching route and     *)
(* queues one delivery per destination of a batch that is ready.  flush,   *)
(* called by the delivery worker, closes and queues batches as well.       *)
(*                                                                         *)
(* ingest and flush contain no await: a process runs one of them at a time *)
(* and pc[p] says where it is.  Two processes share the database, so one   *)
(* action is one statement of the store (one commit for a write).          *)
(*                                                                         *)
(* Deadlines are flags: an idle or a wait deadline runs until Expire makes *)
(* it past.  A message is a model value; IdOf and KeyOf give its event id  *)
(* and its dedupe key, and nothing else of its content matters here.       *)
(***************************************************************************)
EXTENDS Integers, FiniteSets, Sequences, Functions

CONSTANTS
  Procs,        \* processes on the database
  Ingesters,    \* those that serve inbound events
  Flushers,     \* those that call flush by themselves
  Messages,     \* inbound events
  IdOf, KeyOf,  \* event.id and event.dedupe_key of a message
  Routes,       \* route ids
  Matches,      \* Matches[m]: routes whose match accepts the message
  GroupOf,      \* GroupOf[m]: group_key of the message
  DestsOf,      \* DestsOf[r]: destinations of the route
  Policies,     \* aggregation policies an operator may set
  FirstPolicy,  \* FirstPolicy[r]: the policy the route starts with
  MaxSubmits,   \* bound: submissions of each message
  MaxBatches,   \* bound: batches created
  MaxChanges,   \* bound: route changes
  MaxFaults,    \* bound: crashes
  NoMessage, NoRoute

\* A policy: immediate stands for "enabled is False, or empty, or no limit set".
Policy == [immediate : BOOLEAN, maxEvents : Nat, idle : BOOLEAN, wait : BOOLEAN]

ASSUME RelayAssumption ==
  /\ Ingesters \subseteq Procs /\ Flushers \subseteq Procs
  /\ DOMAIN IdOf = Messages /\ DOMAIN KeyOf = Messages /\ DOMAIN GroupOf = Messages
  /\ Matches \in [Messages -> SUBSET Routes] /\ DOMAIN DestsOf = Routes
  /\ Policies \subseteq Policy /\ FirstPolicy \in [Routes -> Policies]
  /\ MaxBatches \in Nat /\ MaxChanges \in Nat /\ MaxFaults \in Nat
  /\ NoMessage \notin Messages /\ NoRoute \notin Routes

VARIABLES
  events,     \* the events table: recorded messages in order of insertion
  batches,    \* the batches and batch_events tables, in order of creation
  deliveries, \* the deliveries table: idempotency keys <<batch, destination>>
  sent,       \* history: what a successful delivery carried
  enabled,    \* routes that exist and are enabled
  existing,   \* routes that exist
  policy,     \* aggregation_json of each route
  pc,         \* where each process is
  msg,        \* the message it ingests, NoMessage in a flush by itself
  dup,        \* ingest's duplicate flag
  closing,    \* batches its flush_due has found due and not yet marked
  closed,     \* batches its flush_due has marked and flush not yet queued
  cur,        \* the batch in hand
  left,       \* destinations _queue_batch has still to insert
  todo,       \* matching routes ingest has still to serve
  via,        \* the route in hand
  snap,       \* policies as the route list was read
  answer,     \* what the sender of each message was told
  submits,    \* submissions of each message
  changes, faults

tables == <<events, batches, deliveries, sent>>
config == <<enabled, existing, policy, changes>>
locals == <<msg, dup, closing, closed, cur, left, todo, via, snap>>
sender == <<answer, submits>>
vars   == <<tables, config, pc, locals, sender, faults>>

BatchIds == 1..Len(batches)
Batch    == [route : Routes, group : Range(GroupOf), status : {"collecting", "ready"},
             members : SUBSET Range(IdOf), idle : {"none", "running", "past"},
             wait : {"none", "running", "past"}]
Goto(p, l) == pc' = [pc EXCEPT ![p] = l]

\* Batches are numbered as they are created: the first of a list by age.
Oldest(b, S) == b \in S /\ \A c \in S : b <= c

----------------------------------------------------------------------------
(* The store. *)

\* Mutant: the dedupe key is taken to be that of the group.
KeyKnownByGroup(m) == \E i \in DOMAIN events : GroupOf[events[i]] = GroupOf[m]

\* get_event_id_by_dedupe finds a row.
KeyKnown(m) == \E i \in DOMAIN events : KeyOf[events[i]] = KeyOf[m]

\* The SELECT of record_event finds a row.
RowKnown(m) ==
  \E i \in DOMAIN events : IdOf[events[i]] = IdOf[m] \/ KeyOf[events[i]] = KeyOf[m]

\* Mutant: a closed batch takes no event, and nobody notices.
AddedIfOpen(batch, m, pol) ==
  IF IdOf[m] \in batch.members \/ batch.status = "ready"
  THEN batch
  ELSE [batch EXCEPT !.members = @ \cup {IdOf[m]}]

\* add_batch_event: INSERT OR IGNORE, and only then the counter and the idle
\* deadline.  The status of the batch is not looked at.
Added(batch, m, pol) ==
  IF IdOf[m] \in batch.members
  THEN batch
  ELSE [batch EXCEPT !.members = @ \cup {IdOf[m]},
                     !.idle = IF pol.idle THEN "running" ELSE "none"]

Count(b) == Cardinality(batches[b].members)

\* Mutant: a status the other statements do not know.
MarkBatchClosed(b) == batches' = [batches EXCEPT ![b].status = "closed"]

\* mark_batch_ready: WHERE status='collecting'.
MarkBatchReady(b) ==
  batches' = [batches EXCEPT ![b].status = IF @ = "collecting" THEN "ready" ELSE @]

\* Mutant: the status is left out of the WHERE clause.
CollectingOrNot(r, g) == {b \in BatchIds : batches[b].route = r /\ batches[b].group = g}

\* find_collecting_batch: the oldest of the route and group.
Collecting(r, g) ==
  {b \in BatchIds : /\ batches[b].status = "collecting"
                    /\ batches[b].route = r /\ batches[b].group = g}

LimitReached(pol, n) == pol.maxEvents > 0 /\ n >= pol.maxEvents

Deleted == [immediate |-> TRUE, maxEvents |-> 0, idle |-> FALSE, wait |-> FALSE]
PolicyOf(r) == IF r \in existing THEN policy[r] ELSE Deleted

\* Mutant: the wait deadline is not looked at.
DueNowIdle(b) ==
  LET pol == PolicyOf(batches[b].route)
  IN  pol.immediate \/ LimitReached(pol, Count(b)) \/ batches[b].idle = "past"

\* The two tests of flush_due.
DueNow(b) ==
  LET pol == PolicyOf(batches[b].route)
  IN  \/ pol.immediate
      \/ LimitReached(pol, Count(b))
      \/ batches[b].idle = "past"
      \/ batches[b].wait = "past"

----------------------------------------------------------------------------
(* ingest, up to the flush. *)

\* A sender posts a message it has no answer for, or posts one again.
Submit(p, m) ==
  /\ p \in Ingesters /\ pc[p] = "idle"
  /\ submits[m] < MaxSubmits[m]
  /\ submits' = [submits EXCEPT ![m] = @ + 1]
  /\ msg' = [msg EXCEPT ![p] = m]
  /\ Goto(p, "lookup")
  /\ UNCHANGED <<tables, config, dup, closing, closed, cur, left, todo, via, snap, answer, faults>>

\* Mutant: every submission passes for a new event.
LookupSkipped(p) ==
  /\ pc[p] = "lookup"
  /\ Goto(p, "record")
  /\ UNCHANGED <<tables, config, locals, sender, faults>>

\* before = get_event_id_by_dedupe(...)
Lookup(p) ==
  /\ pc[p] = "lookup"
  /\ dup' = [dup EXCEPT ![p] = KeyKnown(msg[p])]
  /\ Goto(p, "record")
  /\ UNCHANGED <<tables, config, msg, closing, closed, cur, left, todo, via, snap, sender, faults>>

\* Mutant: ingest does not flush first.
AfterRecordNoFlush(p) == IF dup[p] THEN "duplicate" ELSE "match"

\* The flush of ingest comes before the new event is admitted.
AfterRecord(p) == IF dup[p] THEN "duplicate" ELSE "scan"

\* The SELECT of record_event; a row with the id or the key ends it.
CheckRow(p) ==
  /\ pc[p] = "record"
  /\ Goto(p, IF RowKnown(msg[p]) THEN AfterRecord(p) ELSE "insert")
  /\ UNCHANGED <<tables, config, locals, sender, faults>>

\* The INSERT of record_event.
InsertEvent(p) ==
  /\ pc[p] = "insert"
  /\ events' = Append(events, msg[p])
  /\ Goto(p, AfterRecord(p))
  /\ UNCHANGED <<batches, deliveries, sent, config, locals, sender, faults>>

Finish(p, reply) ==
  /\ answer' = [answer EXCEPT ![msg[p]] = IF @ = "accepted" THEN @ ELSE reply]
  /\ msg'  = [msg EXCEPT ![p] = NoMessage]
  /\ dup'  = [dup EXCEPT ![p] = FALSE]
  /\ snap' = [snap EXCEPT ![p] = FirstPolicy]
  /\ Goto(p, "idle")

\* The sender is told duplicate: true and nothing is routed.
AnswerDuplicate(p) ==
  /\ pc[p] = "duplicate"
  /\ Finish(p, "duplicate")
  /\ UNCHANGED <<tables, config, closing, closed, cur, left, todo, via, submits, faults>>

----------------------------------------------------------------------------
(* flush and flush_due. *)

BeginFlush(p) ==
  /\ p \in Flushers /\ pc[p] = "idle"
  /\ Goto(p, "scan")
  /\ UNCHANGED <<tables, config, locals, sender, faults>>

AfterFlush(p) == IF msg[p] = NoMessage THEN "idle" ELSE "match"

\* list_routes and list_collecting_batches: which batches are due is decided
\* on this reading.
Scan(p) ==
  /\ pc[p] = "scan"
  /\ closing' = [closing EXCEPT ![p] = {b \in BatchIds : batches[b].status = "collecting" /\ DueNow(b)}]
  /\ Goto(p, IF closing'[p] = {} THEN AfterFlush(p) ELSE "close")
  /\ UNCHANGED <<tables, config, msg, dup, closed, cur, left, todo, via, snap, sender, faults>>

\* mark_batch_ready; the batch is queued below even if another process was
\* first to mark it.
Close(p) ==
  /\ pc[p] = "close"
  /\ \E b \in closing[p] :
         /\ Oldest(b, closing[p])
         /\ MarkBatchReady(b)
         /\ closing' = [closing EXCEPT ![p] = @ \ {b}]
         /\ closed'  = [closed EXCEPT ![p] = @ \cup {b}]
  /\ Goto(p, IF closing'[p] = {} THEN "queue" ELSE "close")
  /\ UNCHANGED <<events, deliveries, sent, config, msg, dup, cur, left, todo, via, snap, sender, faults>>

\* Mutant: flush looks among the enabled routes.
QueueClosedEnabled(p) ==
  /\ pc[p] = "queue"
  /\ \E b \in closed[p] :
       LET r == batches[b].route
       IN  /\ Oldest(b, closed[p])
           /\ closed' = [closed EXCEPT ![p] = @ \ {b}]
           /\ cur'  = [cur EXCEPT ![p] = b]
           /\ left' = [left EXCEPT ![p] = IF r \in enabled THEN DestsOf[r] ELSE {}]
  /\ Goto(p, "deliver")
  /\ UNCHANGED <<tables, config, msg, dup, closing, todo, via, snap, sender, faults>>

\* flush looks the route of a closed batch up again; a batch of a deleted
\* route is dropped here.
QueueClosed(p) ==
  /\ pc[p] = "queue"
  /\ \E b \in closed[p] :
       LET r == batches[b].route
       IN  /\ Oldest(b, closed[p])
           /\ closed' = [closed EXCEPT ![p] = @ \ {b}]
           /\ cur'  = [cur EXCEPT ![p] = b]
           /\ left' = [left EXCEPT ![p] = IF r \in existing THEN DestsOf[r] ELSE {}]
  /\ Goto(p, "deliver")
  /\ UNCHANGED <<tables, config, msg, dup, closing, todo, via, snap, sender, faults>>

EndFlush(p) ==
  /\ pc[p] = "queue" /\ closed[p] = {}
  /\ Goto(p, AfterFlush(p))
  /\ UNCHANGED <<tables, config, locals, sender, faults>>

----------------------------------------------------------------------------
(* _queue_batch: one create_delivery, and one commit, per destination. *)

\* The next destination.
QueueOne(p) ==
  /\ pc[p] = "deliver"
  /\ \E d \in left[p] :
       /\ deliveries' = deliveries \cup {<<cur[p], d>>}
       /\ left' = [left EXCEPT ![p] = @ \ {d}]
  /\ UNCHANGED <<events, batches, sent, config, pc, msg, dup, closing, closed, cur, todo, via, snap, sender, faults>>

\* via tells the flush, where it is NoRoute, from the loop over the routes.
EndQueue(p) ==
  /\ pc[p] = "deliver" /\ left[p] = {}
  /\ Goto(p, IF via[p] = NoRoute THEN "queue" ELSE "routes")
  /\ via' = [via EXCEPT ![p] = NoRoute]
  /\ cur' = [cur EXCEPT ![p] = 0]
  /\ UNCHANGED <<tables, config, msg, dup, closing, closed, left, todo, snap, sender, faults>>

----------------------------------------------------------------------------
(* ingest, the loop over the matching routes: Aggregator.add. *)

\* matching_routes(event, list_routes(enabled_only=True))
MatchRoutes(p) ==
  /\ pc[p] = "match"
  /\ todo' = [todo EXCEPT ![p] = Matches[msg[p]] \cap enabled]
  /\ snap' = [snap EXCEPT ![p] = policy]
  /\ Goto(p, "routes")
  /\ UNCHANGED <<tables, config, msg, dup, closing, closed, cur, left, via, sender, faults>>

\* All matching routes are served: the sender is told the event is accepted.
AnswerAccepted(p) ==
  /\ pc[p] = "routes" /\ todo[p] = {}
  /\ Finish(p, "accepted")
  /\ UNCHANGED <<tables, config, closing, closed, cur, left, todo, via, submits, faults>>

\* The next route: find_collecting_batch decides whether a batch is reused.
\* The order of the routes does not matter to one another.
FindBatch(p) ==
  /\ pc[p] = "routes"
  /\ \E r \in todo[p] :
       LET open == Collecting(r, GroupOf[msg[p]])
       IN  /\ via'  = [via EXCEPT ![p] = r]
           /\ todo' = [todo EXCEPT ![p] = @ \ {r}]
           /\ \/ /\ ~snap[p][r].immediate
                 /\ \E b \in open : Oldest(b, open) /\ cur' = [cur EXCEPT ![p] = b]
                 /\ Goto(p, "append")
              \/ (open = {} \/ snap[p][r].immediate) /\ UNCHANGED cur /\ Goto(p, "create")
  /\ UNCHANGED <<tables, config, msg, dup, closing, closed, left, snap, sender, faults>>

\* create_batch, with the deadlines of the policy.
CreateBatch(p) ==
  /\ pc[p] = "create" /\ Len(batches) < MaxBatches
  /\ LET pol == snap[p][via[p]]
     IN  batches' = Append(batches,
           [route |-> via[p], group |-> GroupOf[msg[p]], status |-> "collecting", members |-> {},
            idle |-> IF pol.idle THEN "running" ELSE "none",
            wait |-> IF pol.wait THEN "running" ELSE "none"])
  /\ cur' = [cur EXCEPT ![p] = Len(batches')]
  /\ Goto(p, "append")
  /\ UNCHANGED <<events, deliveries, sent, config, msg, dup, closing, closed, left, todo, via, snap, sender, faults>>

AppendEvent(p) ==
  /\ pc[p] = "append"
  /\ batches' = [batches EXCEPT ![cur[p]] = Added(@, msg[p], snap[p][via[p]])]
  /\ Goto(p, "decide")
  /\ UNCHANGED <<events, deliveries, sent, config, locals, sender, faults>>

\* The batch is read again: is it full?
Decide(p) ==
  /\ pc[p] = "decide"
  /\ LET pol == snap[p][via[p]]
     IN  Goto(p, IF pol.immediate \/ LimitReached(pol, Count(cur[p])) THEN "mark" ELSE "peek")
  /\ UNCHANGED <<tables, config, locals, sender, faults>>

Mark(p) ==
  /\ pc[p] = "mark"
  /\ MarkBatchReady(cur[p])
  /\ Goto(p, "peek")
  /\ UNCHANGED <<events, deliveries, sent, config, locals, sender, faults>>

\* Mutant: the batch is queued whatever its status.
PeekAnyStatus(p) ==
  /\ pc[p] = "peek"
  /\ left' = [left EXCEPT ![p] = DestsOf[via[p]]]
  /\ Goto(p, "deliver")
  /\ UNCHANGED <<tables, config, msg, dup, closing, closed, cur, todo, via, snap, sender, faults>>

\* add returns the batch as it is now; a ready one is queued.
Peek(p) ==
  /\ pc[p] = "peek"
  /\ IF batches[cur[p]].status = "ready"
     THEN /\ left' = [left EXCEPT ![p] = DestsOf[via[p]]]
          /\ Goto(p, "deliver")
          /\ UNCHANGED <<via, cur>>
     ELSE /\ via' = [via EXCEPT ![p] = NoRoute]
          /\ cur' = [cur EXCEPT ![p] = 0]
          /\ Goto(p, "routes")
          /\ UNCHANGED left
  /\ UNCHANGED <<tables, config, msg, dup, closing, closed, todo, snap, sender, faults>>

----------------------------------------------------------------------------
(* The environment. *)

\* process_one reads batch_events and the request succeeds (module
\* DeliveryQueue has its failures).
Deliver(p, b, d) ==
  /\ p \in Flushers /\ pc[p] = "idle"
  /\ <<b, d>> \in deliveries /\ <<b, d>> \notin DOMAIN sent
  /\ sent' = [k \in DOMAIN sent \cup {<<b, d>>} |->
                IF k = <<b, d>> THEN batches[b].members ELSE sent[k]]
  /\ UNCHANGED <<events, batches, deliveries, config, pc, locals, sender, faults>>

\* A deadline passes.
Expire(b) ==
  /\ batches[b].status = "collecting"
  /\ \E f \in {"idle", "wait"} :
       /\ batches[b][f] = "running"
       /\ batches' = [batches EXCEPT ![b] = [@ EXCEPT ![f] = "past"]]
  /\ UNCHANGED <<events, deliveries, sent, config, pc, locals, sender, faults>>

\* The control plane changes, disables or deletes a route: a request of the
\* process that also serves the inbound events, so never in the middle of them.
ControlPlaneRuns == \E p \in Ingesters : pc[p] = "idle"

ChangePolicy(r) ==
  /\ ControlPlaneRuns /\ changes < MaxChanges /\ r \in existing
  /\ \E pol \in Policies \ {policy[r]} : policy' = [policy EXCEPT ![r] = pol]
  /\ changes' = changes + 1
  /\ UNCHANGED <<tables, enabled, existing, pc, locals, sender, faults>>

DisableRoute(r) ==
  /\ ControlPlaneRuns /\ changes < MaxChanges /\ r \in enabled
  /\ enabled' = enabled \ {r}
  /\ changes' = changes + 1
  /\ UNCHANGED <<tables, existing, policy, pc, locals, sender, faults>>

DeleteRoute(r) ==
  /\ ControlPlaneRuns /\ changes < MaxChanges /\ r \in existing
  /\ enabled' = enabled \ {r} /\ existing' = existing \ {r}
  /\ changes' = changes + 1
  /\ UNCHANGED <<tables, policy, pc, locals, sender, faults>>

\* A process stops in the middle and starts again; committed rows stay and
\* the sender has no answer.
Crash(p) ==
  /\ faults < MaxFaults /\ pc[p] # "idle"
  /\ Goto(p, "idle")
  /\ msg'     = [msg EXCEPT ![p] = NoMessage]
  /\ dup'     = [dup EXCEPT ![p] = FALSE]
  /\ closing' = [closing EXCEPT ![p] = {}]
  /\ closed'  = [closed EXCEPT ![p] = {}]
  /\ cur'     = [cur EXCEPT ![p] = 0]
  /\ left'    = [left EXCEPT ![p] = {}]
  /\ todo'    = [todo EXCEPT ![p] = {}]
  /\ via'     = [via EXCEPT ![p] = NoRoute]
  /\ snap'    = [snap EXCEPT ![p] = FirstPolicy]
  /\ faults'  = faults + 1
  /\ UNCHANGED <<tables, config, sender>>

----------------------------------------------------------------------------

Init ==
  /\ events = <<>> /\ batches = <<>> /\ deliveries = {} /\ sent = <<>>
  /\ enabled = Routes /\ existing = Routes /\ policy = FirstPolicy
  /\ pc      = [p \in Procs |-> "idle"]
  /\ msg     = [p \in Procs |-> NoMessage]
  /\ dup     = [p \in Procs |-> FALSE]
  /\ closing = [p \in Procs |-> {}]
  /\ closed  = [p \in Procs |-> {}]
  /\ cur     = [p \in Procs |-> 0]
  /\ left    = [p \in Procs |-> {}]
  /\ todo    = [p \in Procs |-> {}]
  /\ via     = [p \in Procs |-> NoRoute]
  /\ snap    = [p \in Procs |-> FirstPolicy]
  /\ answer  = [m \in Messages |-> "none"]
  /\ submits = [m \in Messages |-> 0]
  /\ changes = 0 /\ faults = 0

\* What a process does once ingest or flush has been called.
Run(p) ==
  \/ Lookup(p)
  \/ CheckRow(p)
  \/ InsertEvent(p)
  \/ AnswerDuplicate(p)
  \/ Scan(p)
  \/ Close(p)
  \/ QueueClosed(p)
  \/ EndFlush(p)
  \/ QueueOne(p)
  \/ EndQueue(p)
  \/ MatchRoutes(p)
  \/ AnswerAccepted(p)
  \/ FindBatch(p)
  \/ CreateBatch(p)
  \/ AppendEvent(p)
  \/ Decide(p)
  \/ Mark(p)
  \/ Peek(p)

Next ==
  \/ \E p \in Procs : Run(p) \/ BeginFlush(p) \/ Crash(p)
  \/ \E p \in Procs, m \in Messages : Submit(p, m)
  \/ \E p \in Procs, k \in deliveries : Deliver(p, k[1], k[2])
  \/ \E b \in BatchIds : Expire(b)
  \/ \E r \in Routes : ChangePolicy(r) \/ DisableRoute(r) \/ DeleteRoute(r)

Spec == Init /\ [][Next]_vars

\* The worker calls flush and process_one for ever, a call that has begun goes
\* on, deadlines pass and deliveries succeed in the end (DeliveryQueue!
\* EveryJobSettles has the bound on that).  Nothing makes senders send.
Fairness ==
  /\ \A p \in Procs : WF_vars(Run(p)) /\ WF_vars(BeginFlush(p))
  /\ WF_vars(\E b \in BatchIds : Expire(b))
  /\ \A p \in Flushers :
       SF_vars(\E k \in deliveries : Deliver(p, k[1], k[2]))

FairSpec == Spec /\ Fairness

----------------------------------------------------------------------------
(* Properties. *)

Pcs == {"idle", "lookup", "record", "insert", "duplicate", "scan", "close", "queue", "deliver",
        "match", "routes", "create", "append", "decide", "mark", "peek"}

TablesOK ==
  /\ events \in Seq(Messages) /\ batches \in Seq(Batch)
  /\ deliveries \subseteq BatchIds \X UNION Range(DestsOf)
  /\ DOMAIN sent \subseteq deliveries

ConfigOK ==
  /\ enabled \subseteq existing /\ existing \subseteq Routes
  /\ policy \in [Routes -> Policies] /\ changes \in Nat

LocalsOK ==
  /\ pc \in [Procs -> Pcs] /\ msg \in [Procs -> Messages \cup {NoMessage}] /\ dup \in [Procs -> BOOLEAN]
  /\ closing \in [Procs -> SUBSET BatchIds] /\ closed \in [Procs -> SUBSET BatchIds]
  /\ cur \in [Procs -> {0} \cup BatchIds] /\ left \in [Procs -> SUBSET UNION Range(DestsOf)]
  /\ todo \in [Procs -> SUBSET Routes] /\ via \in [Procs -> Routes \cup {NoRoute}]
  /\ snap \in [Procs -> [Routes -> Policies]]

SenderOK ==
  /\ answer \in [Messages -> {"none", "accepted", "duplicate"}] /\ submits \in [Messages -> Nat]
  /\ faults \in Nat

TypeOK == TablesOK /\ ConfigOK /\ LocalsOK /\ SenderOK

Member(m, b) == IdOf[m] \in batches[b].members

\* A delivery is queued only for a batch that is closed: neither a flush nor
\* ingest queues a batch that may still collect, wherever either is stopped.
QueuedWhenReady == \A k \in deliveries : batches[k[1]].status = "ready"

\* An event joins at most one batch of a route, however often its sender
\* repeats it and wherever a crash falls.
OneBatchPerRoute ==
  \A m \in Messages : \A b, c \in BatchIds :
    Member(m, b) /\ Member(m, c) /\ batches[b].route = batches[c].route => b = c

\* A route collects at most one batch per group: events that belong together
\* are not spread over batches that are open at the same time.
OneOpenBatch ==
  \A b \in BatchIds : batches[b].status = "collecting" =>
    Cardinality(Collecting(batches[b].route, batches[b].group)) = 1

\* Aggregation neither repeats an event nor spreads a group, whatever commits
\* of the two processes come in between.
EventsStayTogether == OneBatchPerRoute /\ OneOpenBatch

Limit(pol) == IF pol.immediate THEN 0 ELSE pol.maxEvents

\* A batch never outgrows max_events, even if a crash came between the event
\* that filled it and mark_batch_ready: the next ingest closes it first.
WithinMaxEvents ==
  \A b \in BatchIds :
    LET max == Limit(FirstPolicy[batches[b].route])
    IN  max > 0 => Count(b) <= max

\* A batch that is closed stays as it is: what its deliveries carry does not
\* depend on when they are sent (the flush in ingest is there for it,
\* relay.py: "prevents a late third message from being appended to a batch
\* whose quiet timeout already expired").
ClosedIsStable ==
  [][\A b \in BatchIds : batches[b].status = "ready" => batches'[b].members = batches[b].members]_vars

In(m, r)  == \E b \in BatchIds : batches[b].route = r /\ Member(m, b)
Routed(m) == \A r \in Matches[m] \cap enabled : In(m, r)

\* A sender that is told accepted can forget the event: it is in a batch of
\* every route that matches it.
AcceptedIsRouted == \A m \in Messages : answer[m] = "accepted" => Routed(m)

\* So can a sender that repeated an event it had no answer for and is told
\* duplicate.
AnsweredIsRouted == \A m \in Messages : answer[m] # "none" => Routed(m)

InHand(p, b) == pc[p] # "idle" /\ b \in closed[p] \cup {cur[p]}
Queued(b)    ==
  LET r == batches[b].route
  IN  r \in existing => \A d \in DestsOf[r] : <<b, d>> \in deliveries

\* A batch that is closed is queued for every destination of its route, or
\* some process is about to do it.
ReadyIsQueued ==
  \A b \in BatchIds : batches[b].status = "ready" => Queued(b) \/ \E p \in Procs : InHand(p, b)

\* Every accepted event is delivered to every destination of every route that
\* matches it and stays enabled, whatever policies the route goes through.
EventIsDelivered ==
  \A m \in Messages :
    answer[m] = "accepted" ~>
      \A r \in Matches[m] \cap enabled : \A d \in DestsOf[r] :
        \E k \in DOMAIN sent : k[2] = d /\ batches[k[1]].route = r /\ IdOf[m] \in sent[k]
=============================================================================
