----------------------------- MODULE RelayProofs -----------------------------
(***************************************************************************)
(* Proofs about Relay for every number of processes, messages, routes and  *)
(* destinations, every policy and every bound: first the invariants, then  *)
(* what each statement does to the tables, types, and one section for each *)
(* of what any deployment, one ingesting process, an instance without      *)
(* crashes and a single process guarantee.                                 *)
(***************************************************************************)
EXTENDS Relay, FiniteSetTheorems, SequenceTheorems, TLAPS

USE DEF BatchIds, tables, config, locals, sender

----------------------------------------------------------------------------
(* The parts of the inductive invariants, and what some theorems assume of   *)
(* the deployment or of the messages.                                        *)

OneIngester == \A p, q \in Ingesters : p = q
OneProcess  == \A p, q \in Procs : p = q

\* An event id comes with one dedupe key; a dedupe key names one event.
IdHasOneKey   == \A m, n \in Messages : IdOf[m] = IdOf[n] => KeyOf[m] = KeyOf[n]
KeyHasOneEvent ==
  \A m, n \in Messages : KeyOf[m] = KeyOf[n] => IdOf[m] = IdOf[n] /\ Matches[m] = Matches[n]

\* No change of a route touches the limit of its batches.
LimitsStay ==
  MaxChanges = 0 \/ \A r \in Routes : \A pol \in Policies : Limit(pol) = Limit(FirstPolicy[r])

\* p has a batch in hand and its message; it is in the loop over the routes;
\* it is in the flush that precedes the loop.
Adding     == {"append", "decide", "mark", "peek"}
InLoop(p)  == pc[p] = "routes" \/ via[p] # NoRoute
InFlush(p) == pc[p] \in {"scan", "close", "queue"} \/ (pc[p] = "deliver" /\ via[p] = NoRoute)

\* The locals of a process agree with the place where it is.
PlaceInv ==
  \A p \in Procs :
    /\ msg[p] # NoMessage => p \in Ingesters /\ pc[p] # "idle"
    /\ msg[p] = NoMessage => pc[p] = "idle" \/ InFlush(p)
    /\ pc[p] \in {"create"} \cup Adding => via[p] # NoRoute
    /\ via[p] # NoRoute => pc[p] \in {"create", "deliver"} \cup Adding
    /\ cur[p] # 0 <=> pc[p] \in {"deliver"} \cup Adding
    /\ via[p] # NoRoute /\ cur[p] # 0 => batches[cur[p]].route = via[p]
    /\ closed[p] # {} => InFlush(p) /\ pc[p] # "scan"

\* What a process is about to queue is closed.
ReadyInv ==
  /\ QueuedWhenReady
  /\ \A p \in Procs :
       /\ \A b \in closed[p] : batches[b].status = "ready"
       /\ pc[p] = "deliver" => batches[cur[p]].status = "ready"

\* A matching route is still to come, in hand, or served.
ServedInv ==
  /\ AcceptedIsRouted
  /\ \A p \in Procs : InLoop(p) =>
       \A r \in Matches[msg[p]] \cap enabled :
         r \in todo[p] \/ (r = via[p] /\ pc[p] \in {"create", "append"}) \/ In(msg[p], r)

\* Only recorded events are in a batch, and the event in hand is in none of
\* the routes it has still to reach.
Ahead(p) == todo[p] \cup IF pc[p] \in {"create", "append"} THEN {via[p]} ELSE {}
FreshInv ==
  /\ OneBatchPerRoute
  /\ \A b \in BatchIds : \A m \in Messages : Member(m, b) => KeyKnown(m)
  /\ \A p \in Procs :
       /\ pc[p] \in {"record", "insert"} /\ ~dup[p] => ~KeyKnown(msg[p])
       /\ InLoop(p) => via[p] \notin todo[p] /\ \A r \in Ahead(p) : ~In(msg[p], r)
       /\ (InFlush(p) /\ msg[p] # NoMessage) \/ pc[p] = "match" => \A r \in Routes : ~In(msg[p], r)
       /\ (InFlush(p) /\ msg[p] # NoMessage) \/ pc[p] = "match" \/ InLoop(p) => KeyKnown(msg[p])

\* The flush in ingest leaves no batch open that is full or was to be immediate.
Overdue(b) ==
  /\ batches[b].status = "collecting"
  /\ LET pol == PolicyOf(batches[b].route)
     IN  pol.immediate \/ LimitReached(pol, Count(b))

FlushedInv ==
  \A p \in Procs : msg[p] # NoMessage =>
    /\ pc[p] = "close" => \A b \in BatchIds : Overdue(b) => b \in closing[p]
    /\ (InFlush(p) /\ pc[p] \notin {"scan", "close"}) \/ pc[p] = "match" => \A b \in BatchIds : ~Overdue(b)
    /\ InLoop(p) =>
         /\ snap[p] = policy /\ todo[p] \subseteq existing /\ via[p] \notin todo[p]
         /\ via[p] # NoRoute => via[p] \in existing
         /\ \A b \in BatchIds : batches[b].route \in todo[p] => ~Overdue(b)

OpenInv ==
  /\ OneOpenBatch
  /\ \A p \in Procs : pc[p] = "create" => Collecting(via[p], GroupOf[msg[p]]) = {}

\* An event is added to a batch that has room.
SizeInv ==
  /\ \A r \in Routes : Limit(policy[r]) = Limit(FirstPolicy[r])
  /\ \A b \in BatchIds : IsFiniteSet(batches[b].members)
  /\ WithinMaxEvents
  /\ \A p \in Procs :
       LET max == Limit(FirstPolicy[via[p]])
       IN  pc[p] = "append" /\ max > 0 => Count(cur[p]) < max

\* A recorded event is routed, or its ingest is under way.
RecordedInv ==
  /\ AnsweredIsRouted
  /\ \A p \in Procs :
       /\ pc[p] = "duplicate" => dup[p]
       /\ pc[p] = "insert" => ~dup[p]
       /\ dup[p] => msg[p] # NoMessage /\ KeyKnown(msg[p])
  /\ \A i \in DOMAIN events :
       \/ Routed(events[i])
       \/ \E p \in Procs : msg[p] = events[i] /\ pc[p] \notin {"lookup", "record", "insert", "duplicate"}

\* What has been queued of the batch in hand, and what is left.
QueueingInv ==
  /\ ReadyIsQueued
  /\ \A p \in Procs : pc[p] = "deliver" /\ batches[cur[p]].route \in existing =>
       \A d \in DestsOf[batches[cur[p]].route] : d \in left[p] \/ <<cur[p], d>> \in deliveries

\* With one process nobody closes a batch that ingest has found open.
StableInv == \A p \in Procs : pc[p] = "append" => batches[cur[p]].status = "collecting"

----------------------------------------------------------------------------
(* What the statements of the store do to the batches. *)

\* A message has an id, a group and routes.
LEMMA MessageConstants ==
  ASSUME NEW m \in Messages
  PROVE  IdOf[m] \in Range(IdOf) /\ GroupOf[m] \in Range(GroupOf) /\ Matches[m] \subseteq Routes
  BY RelayAssumption DEF Range

\* The destinations of a route are among all destinations.
LEMMA RouteConstants ==
  ASSUME NEW r \in Routes
  PROVE  DestsOf[r] \subseteq UNION Range(DestsOf)
  BY RelayAssumption DEF Range

\* One batch is replaced: what an assignment to a row does to the table.
LEMMA ReplaceStep ==
  ASSUME TablesOK, NEW b \in BatchIds, NEW row \in Batch, batches' = [batches EXCEPT ![b] = row]
  PROVE  /\ batches' \in Seq(Batch) /\ Len(batches') = Len(batches)
         /\ batches'[b] = row /\ \A c \in BatchIds \ {b} : batches'[c] = batches[c]
  BY ExceptSeq DEF TablesOK

\* mark_batch_ready closes a batch and leaves it otherwise as it is.
LEMMA MarkStep ==
  ASSUME TablesOK, NEW b \in BatchIds, MarkBatchReady(b)
  PROVE  /\ batches' \in Seq(Batch) /\ Len(batches') = Len(batches)
         /\ batches'[b].status = "ready"
         /\ \A c \in BatchIds \ {b} : batches'[c] = batches[c]
         /\ \A c \in BatchIds : /\ batches'[c].route = batches[c].route
                                /\ batches'[c].group = batches[c].group
                                /\ batches'[c].members = batches[c].members
<1> DEFINE row == [batches[b] EXCEPT !.status = IF @ = "collecting" THEN "ready" ELSE @]
<1>1. batches[b] \in Batch
  BY DEF TablesOK
<1>2. /\ row \in Batch /\ row.status = "ready" /\ row.route = batches[b].route
      /\ row.group = batches[b].group /\ row.members = batches[b].members
  BY <1>1 DEF Batch
<1>3. batches' = [batches EXCEPT ![b] = row]
  BY DEF MarkBatchReady
<1>4. /\ batches' \in Seq(Batch) /\ Len(batches') = Len(batches)
      /\ batches'[b] = row /\ \A c \in BatchIds \ {b} : batches'[c] = batches[c]
  BY <1>2, <1>3, ReplaceStep
<1>5. QED
  BY <1>2, <1>4

\* add_batch_event adds a member and changes neither status, route nor group.
LEMMA AddStep ==
  ASSUME TablesOK, LocalsOK, PlaceInv, NEW p \in Procs, AppendEvent(p)
  PROVE  /\ msg[p] \in Messages /\ cur[p] \in BatchIds
         /\ batches' \in Seq(Batch) /\ Len(batches') = Len(batches)
         /\ batches'[cur[p]].members = batches[cur[p]].members \cup {IdOf[msg[p]]}
         /\ \A c \in BatchIds \ {cur[p]} : batches'[c] = batches[c]
         /\ \A c \in BatchIds : /\ batches'[c].route = batches[c].route
                                /\ batches'[c].group = batches[c].group
                                /\ batches'[c].status = batches[c].status
<1> DEFINE b   == cur[p]
           row == Added(batches[b], msg[p], snap[p][via[p]])
<1>1. b \in BatchIds /\ msg[p] \in Messages
  BY DEF AppendEvent, LocalsOK, PlaceInv, Adding, InFlush
<1>2. batches[b] \in Batch
  BY <1>1 DEF TablesOK
<1>3. /\ row \in Batch /\ row.members = batches[b].members \cup {IdOf[msg[p]]}
      /\ row.route = batches[b].route /\ row.group = batches[b].group /\ row.status = batches[b].status
  BY <1>1, <1>2, MessageConstants DEF Added, Batch
<1>4. batches' = [batches EXCEPT ![b] = row]
  BY DEF AppendEvent
<1>5. /\ batches' \in Seq(Batch) /\ Len(batches') = Len(batches)
      /\ batches'[b] = row /\ \A c \in BatchIds \ {b} : batches'[c] = batches[c]
  BY <1>1, <1>3, <1>4, ReplaceStep
<1>6. QED
  BY <1>1, <1>3, <1>5

\* A deadline that passes changes nothing else.
LEMMA ExpireStep ==
  ASSUME TablesOK, NEW b \in BatchIds, Expire(b)
  PROVE  /\ batches' \in Seq(Batch) /\ Len(batches') = Len(batches)
         /\ \A c \in BatchIds : /\ batches'[c].route = batches[c].route
                                /\ batches'[c].group = batches[c].group
                                /\ batches'[c].members = batches[c].members
                                /\ batches'[c].status = batches[c].status
<1>1. PICK f \in {"idle", "wait"} : batches' = [batches EXCEPT ![b] = [@ EXCEPT ![f] = "past"]]
  BY DEF Expire
<1> DEFINE row == [batches[b] EXCEPT ![f] = "past"]
<1>2. batches[b] \in Batch
  BY DEF TablesOK
<1>3. /\ row \in Batch /\ row.route = batches[b].route /\ row.group = batches[b].group
      /\ row.members = batches[b].members /\ row.status = batches[b].status
  BY <1>2 DEF Batch
<1>4. /\ batches' \in Seq(Batch) /\ Len(batches') = Len(batches)
      /\ batches'[b] = row /\ \A c \in BatchIds \ {b} : batches'[c] = batches[c]
  BY <1>1, <1>3, ReplaceStep
<1>5. QED
  BY <1>3, <1>4

\* create_batch appends an empty batch that collects.
LEMMA CreateStep ==
  ASSUME TablesOK, LocalsOK, PlaceInv, NEW p \in Procs, CreateBatch(p)
  PROVE  /\ batches' \in Seq(Batch) /\ Len(batches') = Len(batches) + 1
         /\ \A c \in BatchIds : batches'[c] = batches[c]
         /\ LET new == batches'[Len(batches) + 1]
            IN  /\ new.route = via[p] /\ new.group = GroupOf[msg[p]]
                /\ new.status = "collecting" /\ new.members = {}
         /\ cur' = [cur EXCEPT ![p] = Len(batches) + 1]
<1> DEFINE pol == snap[p][via[p]]
           row == [route |-> via[p], group |-> GroupOf[msg[p]], status |-> "collecting", members |-> {},
                   idle |-> IF pol.idle THEN "running" ELSE "none",
                   wait |-> IF pol.wait THEN "running" ELSE "none"]
<1>1. via[p] \in Routes /\ msg[p] \in Messages
  BY DEF LocalsOK, PlaceInv, CreateBatch, InFlush
<1>2. row \in Batch
  BY <1>1, MessageConstants DEF Batch
<1>3. batches' = Append(batches, row) /\ cur' = [cur EXCEPT ![p] = Len(batches')]
  BY DEF CreateBatch
<1>4. /\ batches' \in Seq(Batch) /\ Len(batches') = Len(batches) + 1
      /\ batches'[Len(batches) + 1] = row /\ \A c \in BatchIds : batches'[c] = batches[c]
  BY <1>2, <1>3, AppendProperties DEF TablesOK
<1>5. QED
  BY <1>3, <1>4

----------------------------------------------------------------------------
(* Type correctness. *)

\* At the start nobody is anywhere and the tables are empty.
LEMMA PlaceInit == Init => TypeOK /\ PlaceInv
<1> SUFFICES ASSUME Init PROVE TypeOK /\ PlaceInv
  OBVIOUS
<1>1. <<>> \in Seq(Messages) /\ <<>> \in Seq(Batch) /\ Len(<<>>) = 0
  OBVIOUS
<1>2. DOMAIN sent = {}
  BY DEF Init
<1>3. QED
  BY <1>1, <1>2, RelayAssumption DEF Init, TypeOK, TablesOK, ConfigOK, LocalsOK, SenderOK, PlaceInv, Pcs, InFlush, Adding

\* Which steps write what.
LEMMA BatchWriters ==
  ASSUME [Next]_vars
  PROVE  \/ UNCHANGED batches
         \/ \E p \in Procs : Close(p) \/ CreateBatch(p) \/ AppendEvent(p) \/ Mark(p)
         \/ \E b \in BatchIds : Expire(b)
<1>1. ASSUME NEW p \in Procs, Run(p)
      PROVE  UNCHANGED batches \/ Close(p) \/ CreateBatch(p) \/ AppendEvent(p) \/ Mark(p)
  BY <1>1 DEF Run, Lookup, CheckRow, InsertEvent, AnswerDuplicate, Scan, QueueClosed, EndFlush, QueueOne, EndQueue, MatchRoutes,
     AnswerAccepted, FindBatch, Decide, Peek
<1>2. QED
  BY <1>1 DEF Next, vars, BeginFlush, Crash, Submit, Deliver, ChangePolicy, DisableRoute, DeleteRoute

\* The steps that write events and deliveries; all others leave them.
LEMMA TableWriters ==
  ASSUME [Next]_vars
  PROVE  /\ UNCHANGED events \/ \E p \in Procs : InsertEvent(p)
         /\ UNCHANGED deliveries \/ \E p \in Procs : QueueOne(p)
         /\ UNCHANGED sent \/ \E p \in Procs, k \in deliveries : Deliver(p, k[1], k[2])
<1>1. ASSUME NEW p \in Procs, Run(p)
      PROVE  (UNCHANGED events \/ InsertEvent(p)) /\ (UNCHANGED deliveries \/ QueueOne(p)) /\ UNCHANGED sent
  BY <1>1 DEF Run, Lookup, CheckRow, InsertEvent, AnswerDuplicate, Scan, Close, QueueClosed, EndFlush, QueueOne, EndQueue, MatchRoutes,
     AnswerAccepted, FindBatch, CreateBatch, AppendEvent, Decide, Mark, Peek
<1>2. QED
  BY <1>1 DEF Next, vars, BeginFlush, Crash, Submit, Deliver, Expire, ChangePolicy, DisableRoute, DeleteRoute

\* The steps that change routes and policies.
LEMMA ConfigWriters ==
  ASSUME [Next]_vars
  PROVE  UNCHANGED config \/ \E r \in Routes : ChangePolicy(r) \/ DisableRoute(r) \/ DeleteRoute(r)
<1>1. ASSUME NEW p \in Procs, Run(p)
      PROVE  UNCHANGED config
  BY <1>1 DEF Run, Lookup, CheckRow, InsertEvent, AnswerDuplicate, Scan, Close, QueueClosed, EndFlush, QueueOne, EndQueue, MatchRoutes,
     AnswerAccepted, FindBatch, CreateBatch, AppendEvent, Decide, Mark, Peek
<1>2. QED
  BY <1>1 DEF Next, vars, BeginFlush, Crash, Submit, Deliver, Expire

\* The steps that answer, submit and crash.
LEMMA AnswerWriters ==
  ASSUME [Next]_vars
  PROVE  /\ UNCHANGED answer \/ \E p \in Procs : AnswerAccepted(p) \/ AnswerDuplicate(p)
         /\ UNCHANGED submits \/ \E p \in Procs, m \in Messages : Submit(p, m)
         /\ UNCHANGED faults \/ \E p \in Procs : Crash(p)
<1>1. ASSUME NEW p \in Procs, Run(p)
      PROVE  (UNCHANGED answer \/ AnswerAccepted(p) \/ AnswerDuplicate(p)) /\ UNCHANGED <<submits, faults>>
  BY <1>1 DEF Run, Lookup, CheckRow, InsertEvent, AnswerDuplicate, Scan, Close, QueueClosed, EndFlush, QueueOne, EndQueue, MatchRoutes,
     AnswerAccepted, FindBatch, CreateBatch, AppendEvent, Decide, Mark, Peek
<1>2. QED
  BY <1>1 DEF Next, vars, BeginFlush, Crash, Submit, Deliver, Expire, ChangePolicy, DisableRoute, DeleteRoute

\* A batch keeps its route and its group, loses no event, and stays closed.
LEMMA BatchesGrow ==
  ASSUME TablesOK, LocalsOK, PlaceInv, [Next]_vars
  PROVE  /\ batches' \in Seq(Batch) /\ BatchIds \subseteq BatchIds'
         /\ \A b \in BatchIds :
              /\ batches'[b].route = batches[b].route /\ batches'[b].group = batches[b].group
              /\ batches[b].members \subseteq batches'[b].members
              /\ batches[b].status = "ready" => batches'[b].status = "ready"
<1> DEFINE Goal == /\ batches' \in Seq(Batch) /\ Len(batches) <= Len(batches') /\ Len(batches') \in Nat
                   /\ \A b \in BatchIds :
                        /\ batches'[b].route = batches[b].route /\ batches'[b].group = batches[b].group
                        /\ batches[b].members \subseteq batches'[b].members
                        /\ batches[b].status = "ready" => batches'[b].status = "ready"
<1> USE DEF TablesOK
<1>0. Len(batches) \in Nat
  OBVIOUS
<1>1. ASSUME NEW p \in Procs, Close(p) PROVE Goal
  <2>1. PICK b \in BatchIds : MarkBatchReady(b)
    BY <1>1 DEF Close, LocalsOK
  <2>2. QED
    BY <1>0, <2>1, MarkStep
<1>2. ASSUME NEW p \in Procs, Mark(p) PROVE Goal
  <2>1. cur[p] \in BatchIds /\ MarkBatchReady(cur[p])
    BY <1>2 DEF Mark, LocalsOK, PlaceInv, Adding
  <2>2. QED
    BY <1>0, <2>1, MarkStep
<1>3. ASSUME NEW p \in Procs, CreateBatch(p) PROVE Goal
  BY <1>0, <1>3, CreateStep
<1>4. ASSUME NEW p \in Procs, AppendEvent(p) PROVE Goal
  BY <1>0, <1>4, AddStep
<1>5. ASSUME NEW b \in BatchIds, Expire(b) PROVE Goal
  BY <1>0, <1>5, ExpireStep
<1>6. CASE UNCHANGED batches
  BY <1>0, <1>6
<1>7. Goal
  BY <1>1, <1>2, <1>3, <1>4, <1>5, <1>6, BatchWriters
<1>8. QED
  BY <1>0, <1>7

\* No statement breaks the shape of the tables.
LEMMA TablesNext == TypeOK /\ PlaceInv /\ [Next]_vars => TablesOK'
<1> SUFFICES ASSUME TypeOK, PlaceInv, [Next]_vars PROVE TablesOK'
  OBVIOUS
<1> USE DEF TypeOK
<1>1. batches' \in Seq(Batch) /\ BatchIds \subseteq BatchIds'
  BY BatchesGrow
<1>2. events' \in Seq(Messages)
  <2>1. ASSUME NEW p \in Procs, InsertEvent(p) PROVE events' \in Seq(Messages)
    <3>1. events' = Append(events, msg[p]) /\ events \in Seq(Messages) /\ pc[p] = "insert"
      BY <2>1 DEF InsertEvent, TablesOK
    <3>2. msg[p] \in Messages
      BY <3>1 DEF LocalsOK, PlaceInv, InFlush
    <3>3. QED
      BY <3>1, <3>2, AppendProperties
  <2>2. QED
    BY <2>1, TableWriters DEF TablesOK
<1>3. deliveries' \subseteq BatchIds' \X UNION Range(DestsOf) /\ deliveries \subseteq deliveries'
  <2>1. ASSUME NEW p \in Procs, QueueOne(p)
        PROVE  deliveries' \subseteq BatchIds \X UNION Range(DestsOf) /\ deliveries \subseteq deliveries'
    BY <2>1 DEF QueueOne, TablesOK, LocalsOK, PlaceInv
  <2>2. deliveries' \subseteq BatchIds \X UNION Range(DestsOf) /\ deliveries \subseteq deliveries'
    BY <2>1, TableWriters DEF TablesOK
  <2>3. QED
    BY <1>1, <2>2
<1>4. DOMAIN sent' \subseteq deliveries'
  <2>1. ASSUME NEW p \in Procs, NEW k \in deliveries, Deliver(p, k[1], k[2]) PROVE DOMAIN sent' \subseteq deliveries
    BY <2>1 DEF Deliver, TablesOK
  <2>2. DOMAIN sent' \subseteq deliveries
    BY <2>1, TableWriters DEF TablesOK
  <2>3. QED
    BY <1>3, <2>2
<1>5. QED
  BY <1>1, <1>2, <1>3, <1>4 DEF TablesOK

\* A route changes its policy, is disabled and is deleted, never the reverse.
LEMMA ConfigNext == ConfigOK /\ [Next]_vars => ConfigOK' /\ enabled' \subseteq enabled /\ existing' \subseteq existing
<1> SUFFICES ASSUME ConfigOK, [Next]_vars PROVE ConfigOK' /\ enabled' \subseteq enabled /\ existing' \subseteq existing
  OBVIOUS
<1>1. ASSUME NEW r \in Routes, ChangePolicy(r)
      PROVE  ConfigOK' /\ enabled' \subseteq enabled /\ existing' \subseteq existing
  BY <1>1 DEF ChangePolicy, ConfigOK
<1>2. ASSUME NEW r \in Routes, DisableRoute(r) \/ DeleteRoute(r)
      PROVE  ConfigOK' /\ enabled' \subseteq enabled /\ existing' \subseteq existing
  BY <1>2 DEF DisableRoute, DeleteRoute, ConfigOK
<1>3. QED
  BY <1>1, <1>2, ConfigWriters DEF ConfigOK

\* Answers and counters keep their types.
LEMMA SenderNext == TypeOK /\ PlaceInv /\ [Next]_vars => SenderOK'
<1> SUFFICES ASSUME TypeOK, PlaceInv, [Next]_vars PROVE SenderOK'
  OBVIOUS
<1>1. ASSUME NEW p \in Procs, AnswerAccepted(p) \/ AnswerDuplicate(p)
      PROVE  answer' \in [Messages -> {"none", "accepted", "duplicate"}]
  BY <1>1 DEF AnswerAccepted, AnswerDuplicate, Finish, TypeOK, SenderOK
<1>2. ASSUME NEW p \in Procs, NEW m \in Messages, Submit(p, m) PROVE submits' \in [Messages -> Nat]
  BY <1>2 DEF Submit, TypeOK, SenderOK
<1>3. ASSUME NEW p \in Procs, Crash(p) PROVE faults' \in Nat
  BY <1>3 DEF Crash, TypeOK, SenderOK
<1>4. QED
  BY <1>1, <1>2, <1>3, AnswerWriters DEF TypeOK, SenderOK

\* The locals keep their types; one case per action.
LEMMA LocalsNext == TypeOK /\ PlaceInv /\ [Next]_vars => LocalsOK'
<1> SUFFICES ASSUME TypeOK, PlaceInv, [Next]_vars PROVE LocalsOK'
  OBVIOUS
<1>1. LocalsOK /\ ConfigOK /\ BatchIds \subseteq BatchIds'
  BY BatchesGrow DEF TypeOK
<1>2. ASSUME NEW p \in Procs, Run(p) PROVE LocalsOK'
  <2> USE <1>1 DEF Goto, Pcs, LocalsOK
  <2>1. CASE Lookup(p)
    BY <2>1 DEF Lookup, KeyKnown
  <2>2. CASE CheckRow(p) \/ InsertEvent(p)
    BY <2>2 DEF CheckRow, InsertEvent, AfterRecord
  <2>3. CASE AnswerDuplicate(p)
    BY <2>3, RelayAssumption DEF AnswerDuplicate, Finish
  <2>4. CASE Scan(p)
    BY <2>4 DEF Scan, AfterFlush
  <2>5. CASE Close(p)
    BY <2>5 DEF Close
  <2>6. CASE QueueClosed(p)
    <3>1. PICK b \in closed[p] : left' = [left EXCEPT ![p] = IF batches[b].route \in existing THEN DestsOf[batches[b].route] ELSE {}]
      BY <2>6 DEF QueueClosed
    <3>2. left' \in [Procs -> SUBSET UNION Range(DestsOf)]
      BY <3>1, RouteConstants DEF ConfigOK
    <3>3. QED
      BY <2>6, <3>2 DEF QueueClosed
  <2>7. CASE EndFlush(p) \/ Decide(p) \/ Mark(p)
    BY <2>7 DEF EndFlush, Decide, Mark, AfterFlush
  <2>8. CASE QueueOne(p)
    BY <2>8 DEF QueueOne
  <2>9. CASE EndQueue(p)
    BY <2>9 DEF EndQueue
  <2>10. CASE MatchRoutes(p)
    <3>1. enabled \subseteq Routes /\ policy \in [Routes -> Policies]
      BY <1>1 DEF ConfigOK
    <3>2. todo' \in [Procs -> SUBSET Routes] /\ snap' \in [Procs -> [Routes -> Policies]]
      BY <2>10, <3>1 DEF MatchRoutes
    <3>3. QED
      BY <2>10, <3>2 DEF MatchRoutes
  <2>11. CASE AnswerAccepted(p)
    BY <2>11, RelayAssumption DEF AnswerAccepted, Finish
  <2>12. CASE FindBatch(p)
    <3>1. PICK r \in todo[p] :
             /\ via' = [via EXCEPT ![p] = r] /\ todo' = [todo EXCEPT ![p] = @ \ {r}]
             /\ \/ \E b \in Collecting(r, GroupOf[msg[p]]) : cur' = [cur EXCEPT ![p] = b] /\ Goto(p, "append")
                \/ UNCHANGED cur /\ Goto(p, "create")
      BY <2>12 DEF FindBatch
    <3>2. Collecting(r, GroupOf[msg[p]]) \subseteq BatchIds /\ r \in Routes
      BY <3>1 DEF Collecting
    <3>3. cur' \in [Procs -> {0} \cup BatchIds] /\ pc' \in [Procs -> Pcs]
      BY <3>1, <3>2
    <3>4. QED
      BY <2>12, <3>1, <3>2, <3>3 DEF FindBatch
  <2>13. CASE CreateBatch(p)
    BY <2>13, CreateStep DEF CreateBatch, TypeOK
  <2>14. CASE AppendEvent(p)
    BY <2>14 DEF AppendEvent
  <2>15. CASE Peek(p)
    <3>1. via[p] \in Routes
      BY <2>15 DEF Peek, PlaceInv, Adding
    <3>2. DestsOf[via[p]] \subseteq UNION Range(DestsOf)
      BY <3>1, RouteConstants
    <3>3. QED
      BY <2>15, <3>2 DEF Peek
  <2>16. QED
    BY <1>2, <2>1, <2>2, <2>3, <2>4, <2>5, <2>6, <2>7, <2>8, <2>9, <2>10, <2>11, <2>12, <2>13, <2>14, <2>15 DEF Run
<1>3. ASSUME NEW p \in Procs, BeginFlush(p) PROVE LocalsOK'
  BY <1>1, <1>3 DEF BeginFlush, LocalsOK, Goto, Pcs
<1>4. ASSUME NEW p \in Procs, Crash(p) PROVE LocalsOK'
  BY <1>1, <1>4, RelayAssumption DEF Crash, LocalsOK, Goto, Pcs
<1>5. ASSUME NEW p \in Procs, NEW m \in Messages, Submit(p, m) PROVE LocalsOK'
  BY <1>1, <1>5 DEF Submit, LocalsOK, Goto, Pcs
<1>6. CASE UNCHANGED <<pc, locals>>
  BY <1>1, <1>6 DEF LocalsOK
<1>7. QED
  BY <1>2, <1>3, <1>4, <1>5, <1>6 DEF Next, vars, Deliver, Expire, ChangePolicy, DisableRoute, DeleteRoute

\* The locals keep agreeing with the place; one case per action.
LEMMA PlaceNext == TypeOK /\ PlaceInv /\ [Next]_vars => PlaceInv'
<1> SUFFICES ASSUME TypeOK, PlaceInv, [Next]_vars PROVE PlaceInv'
  OBVIOUS
<1>1. LocalsOK
  BY DEF TypeOK
<1>2. \A b \in BatchIds : b \in BatchIds' /\ batches'[b].route = batches[b].route
  BY BatchesGrow DEF TypeOK
<1> USE RelayAssumption DEF LocalsOK, PlaceInv, Goto, InFlush, Adding
<1>3. ASSUME NEW p \in Procs, Run(p) PROVE PlaceInv'
  <2> USE <1>1, <1>2
  <2>1. CASE Lookup(p)
    BY <2>1 DEF Lookup
  <2>2. CASE CheckRow(p) \/ InsertEvent(p)
    BY <2>2 DEF CheckRow, InsertEvent, AfterRecord
  <2>3. CASE AnswerDuplicate(p) \/ AnswerAccepted(p)
    BY <2>3 DEF AnswerDuplicate, AnswerAccepted, Finish
  <2>4. CASE Scan(p)
    BY <2>4 DEF Scan, AfterFlush
  <2>5. CASE Close(p)
    BY <2>5 DEF Close
  <2>6. CASE QueueClosed(p)
    BY <2>6 DEF QueueClosed
  <2>7. CASE EndFlush(p)
    BY <2>7 DEF EndFlush, AfterFlush
  <2>8. CASE QueueOne(p)
    BY <2>8 DEF QueueOne
  <2>9. CASE EndQueue(p)
    BY <2>9 DEF EndQueue
  <2>10. CASE MatchRoutes(p)
    BY <2>10 DEF MatchRoutes
  <2>11. CASE FindBatch(p)
    <3>1. PICK r \in todo[p] :
             /\ via' = [via EXCEPT ![p] = r]
             /\ \/ \E b \in Collecting(r, GroupOf[msg[p]]) : cur' = [cur EXCEPT ![p] = b] /\ Goto(p, "append")
                \/ UNCHANGED cur /\ Goto(p, "create")
      BY <2>11 DEF FindBatch
    <3>2. \A b \in Collecting(r, GroupOf[msg[p]]) : b \in BatchIds /\ batches[b].route = r
      BY DEF Collecting
    <3>3. r \in Routes /\ pc[p] = "routes" /\ UNCHANGED <<msg, closed>>
      BY <2>11 DEF FindBatch
    <3>4. CASE pc' = [pc EXCEPT ![p] = "append"]
      <4>1. PICK b \in BatchIds : batches[b].route = r /\ cur' = [cur EXCEPT ![p] = b]
        BY <3>1, <3>2, <3>4
      <4>2. b # 0 /\ r # NoRoute
        BY <3>3
      <4>3. QED
        BY <3>1, <3>3, <3>4, <4>1, <4>2
    <3>5. CASE pc' = [pc EXCEPT ![p] = "create"] /\ UNCHANGED cur
      BY <3>1, <3>3, <3>5
    <3>6. QED
      BY <3>1, <3>4, <3>5
  <2>12. CASE CreateBatch(p)
    <3>1. cur' = [cur EXCEPT ![p] = Len(batches) + 1] /\ batches'[Len(batches) + 1].route = via[p]
      BY <2>12, CreateStep DEF TypeOK
    <3>2. Len(batches) \in Nat
      BY DEF TypeOK, TablesOK
    <3>3. QED
      BY <2>12, <3>1, <3>2 DEF CreateBatch
  <2>13. CASE AppendEvent(p)
    BY <2>13 DEF AppendEvent
  <2>14. CASE Decide(p) \/ Mark(p)
    BY <2>14 DEF Decide, Mark
  <2>15. CASE Peek(p)
    <3>1. CASE pc' = [pc EXCEPT ![p] = "deliver"] /\ UNCHANGED <<via, cur>>
      BY <2>15, <3>1 DEF Peek
    <3>2. CASE pc' = [pc EXCEPT ![p] = "routes"] /\ via' = [via EXCEPT ![p] = NoRoute] /\ cur' = [cur EXCEPT ![p] = 0]
      BY <2>15, <3>2 DEF Peek
    <3>3. QED
      BY <2>15, <3>1, <3>2 DEF Peek
  <2>16. QED
    BY <1>3, <2>1, <2>2, <2>3, <2>4, <2>5, <2>6, <2>7, <2>8, <2>9, <2>10, <2>11, <2>12, <2>13, <2>14, <2>15 DEF Run
<1>4. ASSUME NEW p \in Procs, BeginFlush(p) PROVE PlaceInv'
  BY <1>1, <1>2, <1>4 DEF BeginFlush
<1>5. ASSUME NEW p \in Procs, Crash(p) PROVE PlaceInv'
  BY <1>1, <1>2, <1>5 DEF Crash
<1>6. ASSUME NEW p \in Procs, NEW m \in Messages, Submit(p, m) PROVE PlaceInv'
  BY <1>1, <1>2, <1>6 DEF Submit
<1>7. CASE UNCHANGED <<pc, locals>>
  BY <1>1, <1>2, <1>7
<1>8. QED
  BY <1>3, <1>4, <1>5, <1>6, <1>7 DEF Next, vars, Deliver, Expire, ChangePolicy, DisableRoute, DeleteRoute

\* Every variable keeps its type, and the locals of every process agree with
\* the place where it is.
LEMMA PlaceCorrect == Spec => [](TypeOK /\ PlaceInv)
<1>1. TypeOK /\ PlaceInv /\ [Next]_vars => (TypeOK /\ PlaceInv)'
  BY TablesNext, ConfigNext, LocalsNext, SenderNext, PlaceNext DEF TypeOK
<1>2. QED
  BY <1>1, PlaceInit, PTL DEF Spec

\* The tables, the configuration and the locals keep their types in every
\* behaviour, for every value of the constants: no local variable outlives
\* what it refers to.
THEOREM RelayIsTyped == Spec => []TypeOK
  BY PlaceCorrect, PTL

----------------------------------------------------------------------------
(* For any number of processes: deliveries and answers. *)

\* A batch is marked before it comes into hand, and stays marked.
LEMMA ReadyNext == TypeOK /\ PlaceInv /\ ReadyInv /\ [Next]_vars => ReadyInv'
<1> SUFFICES ASSUME TypeOK, PlaceInv, ReadyInv, [Next]_vars PROVE ReadyInv'
  OBVIOUS
<1> DEFINE Closed(b) == batches[b].status = "ready"
           InHandReady == \A p \in Procs : /\ \A b \in closed[p] : Closed(b)
                                           /\ pc[p] = "deliver" => Closed(cur[p])
<1>1. \A b \in BatchIds : Closed(b) => b \in BatchIds' /\ Closed(b)'
  BY BatchesGrow DEF TypeOK
<1>2. LocalsOK /\ (\A p \in Procs : pc[p] = "deliver" => cur[p] \in BatchIds)
  BY DEF TypeOK, LocalsOK, PlaceInv
<1>3. \A k \in deliveries : k[1] \in BatchIds
  BY DEF TypeOK, TablesOK
<1>4. InHandReady
  BY DEF ReadyInv
<1>5. QueuedWhenReady'
  <2>1. ASSUME NEW p \in Procs, QueueOne(p)
        PROVE  \A k \in deliveries' : k[1] \in BatchIds /\ Closed(k[1])
    BY <1>2, <1>3, <2>1 DEF QueueOne, ReadyInv, QueuedWhenReady
  <2>2. \A k \in deliveries' : k[1] \in BatchIds /\ Closed(k[1])
    BY <1>3, <2>1, TableWriters DEF ReadyInv, QueuedWhenReady
  <2>3. QED
    BY <1>1, <2>2 DEF QueuedWhenReady
<1> USE <1>1, <1>2, <1>4 DEF LocalsOK, Goto
<1> HIDE DEF Closed
<1>6. ASSUME NEW p \in Procs, Run(p) PROVE InHandReady'
  <2>1. CASE Lookup(p) \/ CheckRow(p) \/ InsertEvent(p) \/ AnswerDuplicate(p) \/ AnswerAccepted(p)
    BY <2>1 DEF Lookup, CheckRow, InsertEvent, AnswerDuplicate, AnswerAccepted, Finish, AfterRecord
  <2>2. CASE Scan(p) \/ EndFlush(p) \/ QueueOne(p) \/ MatchRoutes(p)
    BY <2>2 DEF Scan, EndFlush, QueueOne, MatchRoutes, AfterFlush
  <2>3. CASE Close(p)
    <3>1. PICK b \in closing[p] : MarkBatchReady(b) /\ closed' = [closed EXCEPT ![p] = @ \cup {b}]
      BY <2>3 DEF Close
    <3>2. Closed(b)' /\ b \in BatchIds
      BY <3>1, MarkStep DEF TypeOK, Closed
    <3>3. QED
      BY <2>3, <3>1, <3>2 DEF Close
  <2>4. CASE QueueClosed(p)
    BY <2>4 DEF QueueClosed
  <2>5. CASE EndQueue(p) \/ FindBatch(p)
    BY <2>5 DEF EndQueue, FindBatch
  <2>6. CASE CreateBatch(p)
    BY <2>6 DEF CreateBatch
  <2>7. CASE AppendEvent(p) \/ Decide(p) \/ Mark(p)
    BY <2>7 DEF AppendEvent, Decide, Mark
  <2>8. CASE Peek(p)
    <3>1. cur[p] \in BatchIds
      BY <2>8 DEF Peek, PlaceInv, Adding
    <3>2. QED
      BY <2>8, <3>1 DEF Peek, Closed
  <2>9. QED
    BY <1>6, <2>1, <2>2, <2>3, <2>4, <2>5, <2>6, <2>7, <2>8 DEF Run
<1>7. ASSUME NEW p \in Procs, BeginFlush(p) \/ Crash(p) \/ \E m \in Messages : Submit(p, m) PROVE InHandReady'
  BY <1>7 DEF BeginFlush, Crash, Submit
<1>8. ASSUME UNCHANGED <<pc, locals>> PROVE InHandReady'
  BY <1>8
<1>9. InHandReady'
  BY <1>6, <1>7, <1>8 DEF Next, vars, Deliver, Expire, ChangePolicy, DisableRoute, DeleteRoute
<1>10. QED
  BY <1>5, <1>9 DEF ReadyInv, Closed

\* A delivery is only ever queued for a batch that is closed, whatever the
\* processes, the crashes and the changes of routes.
THEOREM OnlyClosedAreQueued == Spec => []QueuedWhenReady
<1>1. Init => ReadyInv
  BY DEF Init, ReadyInv, QueuedWhenReady
<1>2. TypeOK /\ PlaceInv /\ ReadyInv /\ [Next]_vars => ReadyInv'
  BY ReadyNext
<1>3. ReadyInv => QueuedWhenReady
  BY DEF ReadyInv
<1>4. QED
  BY <1>1, <1>2, <1>3, PlaceCorrect, PTL DEF Spec

----------------------------------------------------------------------------
(* One process at a time. *)

Own(q) == <<pc[q], msg[q], dup[q], closing[q], closed[q], cur[q], left[q], todo[q], via[q], snap[q]>>
Step(p) == Run(p) \/ BeginFlush(p) \/ Crash(p) \/ \E m \in Messages : Submit(p, m)

\* A step of a process leaves the locals of the others alone; no other step
\* touches any.
LEMMA OthersStay ==
  ASSUME LocalsOK, NEW p \in Procs, Step(p), NEW q \in Procs \ {p}
  PROVE  UNCHANGED Own(q)
<1> USE DEF LocalsOK, Own, Goto
<1>1. CASE Lookup(p) \/ CheckRow(p) \/ InsertEvent(p) \/ AnswerDuplicate(p) \/ AnswerAccepted(p)
  BY <1>1 DEF Lookup, CheckRow, InsertEvent, AnswerDuplicate, AnswerAccepted, Finish
<1>2. CASE Scan(p) \/ Close(p) \/ QueueClosed(p) \/ EndFlush(p)
  BY <1>2 DEF Scan, Close, QueueClosed, EndFlush
<1>3. CASE QueueOne(p) \/ EndQueue(p) \/ MatchRoutes(p) \/ CreateBatch(p)
  BY <1>3 DEF QueueOne, EndQueue, MatchRoutes, CreateBatch
<1>4. CASE FindBatch(p)
  BY <1>4 DEF FindBatch
<1>5. CASE AppendEvent(p) \/ Decide(p) \/ Mark(p) \/ Peek(p)
  BY <1>5 DEF AppendEvent, Decide, Mark, Peek
<1>6. CASE BeginFlush(p) \/ Crash(p) \/ \E m \in Messages : Submit(p, m)
  BY <1>6 DEF BeginFlush, Crash, Submit
<1>7. QED
  BY <1>1, <1>2, <1>3, <1>4, <1>5, <1>6 DEF Step, Run

\* Every step is one of a process, or of none.
LEMMA Steps ==
  ASSUME [Next]_vars
  PROVE  (\E p \in Procs : Step(p)) \/ UNCHANGED <<pc, locals>>
  BY DEF Next, Step, vars, Deliver, Expire, ChangePolicy, DisableRoute, DeleteRoute

\* An event that is in a batch of a route stays in one.
LEMMA StaysIn ==
  ASSUME TypeOK, PlaceInv, [Next]_vars, NEW m \in Messages, NEW r \in Routes, In(m, r)
  PROVE  In(m, r)'
<1>1. PICK b \in BatchIds : batches[b].route = r /\ IdOf[m] \in batches[b].members
  BY DEF In, Member
<1>2. b \in BatchIds' /\ batches'[b].route = r /\ IdOf[m] \in batches'[b].members
  BY <1>1, BatchesGrow DEF TypeOK
<1>3. QED
  BY <1>2 DEF In, Member

\* A route leaves todo for via, and via for a batch.
LEMMA ServedNext == TypeOK /\ PlaceInv /\ ServedInv /\ [Next]_vars => ServedInv'
<1> SUFFICES ASSUME TypeOK, PlaceInv, ServedInv, [Next]_vars PROVE ServedInv'
  OBVIOUS
<1> DEFINE Waits(q, r) == r \in todo[q] \/ (r = via[q] /\ pc[q] \in {"create", "append"})
           Serves(q)   == InLoop(q) => \A r \in Matches[msg[q]] \cap enabled : Waits(q, r) \/ In(msg[q], r)
<1>1. /\ LocalsOK /\ enabled \subseteq Routes /\ enabled' \subseteq enabled
      /\ \A q \in Procs : InLoop(q) => msg[q] \in Messages
  BY ConfigNext DEF TypeOK, ConfigOK, LocalsOK, PlaceInv, InLoop, InFlush, Adding
<1>2. \A m \in Messages : \A r \in Routes : In(m, r) => In(m, r)'
  BY StaysIn
<1>3. \A q \in Procs : Serves(q)
  BY DEF ServedInv
<1>4. ASSUME NEW q \in Procs, UNCHANGED Own(q) PROVE Serves(q)'
  <2>1. UNCHANGED <<pc[q], msg[q], todo[q], via[q]>>
    BY <1>4 DEF Own
  <2>2. QED
    BY <1>1, <1>2, <1>3, <2>1 DEF InLoop, In, Member
<1>5. ASSUME NEW p \in Procs, ~InLoop(p)' PROVE Serves(p)'
  BY <1>5
<1>6. ASSUME NEW p \in Procs, InLoop(p), msg'[p] = msg[p],
             \A r \in Routes : Waits(p, r) => Waits(p, r)' \/ (\A m \in {msg[p]} : In(m, r)')
      PROVE  Serves(p)'
  <2> DEFINE m == msg[p]
  <2>1. ASSUME NEW r \in Matches[m] \cap enabled' PROVE Waits(p, r)' \/ In(m, r)'
    <3>1. r \in Routes /\ m \in Messages
      BY <1>1, <1>6
    <3>2. Waits(p, r) \/ In(m, r)
      BY <1>1, <1>3, <1>6
    <3>3. QED
      BY <1>2, <1>6, <3>1, <3>2
  <2>2. QED
    BY <1>6, <2>1 DEF In, Member
<1>7. ASSUME NEW p \in Procs, Step(p) PROVE Serves(p)'
  <2> USE <1>1 DEF LocalsOK, Goto, InLoop
  <2>1. CASE Lookup(p) \/ CheckRow(p) \/ InsertEvent(p) \/ Scan(p) \/ Close(p) \/ QueueClosed(p) \/ EndFlush(p)
    <3>1. ~InLoop(p)'
      BY <2>1 DEF Lookup, CheckRow, InsertEvent, AfterRecord, AfterFlush, Scan, Close, QueueClosed, EndFlush, PlaceInv, InFlush, Adding
    <3>2. QED
      BY <1>5, <3>1
  <2>2. CASE AnswerDuplicate(p) \/ AnswerAccepted(p)
    <3>1. via[p] = NoRoute /\ UNCHANGED via /\ pc' = [pc EXCEPT ![p] = "idle"]
      BY <2>2 DEF AnswerDuplicate, AnswerAccepted, Finish, PlaceInv, Adding
    <3>2. QED
      BY <1>5, <3>1
  <2>3. CASE QueueOne(p) \/ EndQueue(p)
    <3>1. UNCHANGED <<msg, todo>> /\ pc[p] = "deliver" /\ (InLoop(p)' => InLoop(p))
      BY <2>3 DEF QueueOne, EndQueue
    <3>2. QED
      BY <1>5, <1>6, <3>1
  <2>4. CASE MatchRoutes(p)
    BY <2>4 DEF MatchRoutes
  <2>5. CASE FindBatch(p)
    <3>1. PICK r \in todo[p] : via' = [via EXCEPT ![p] = r] /\ todo' = [todo EXCEPT ![p] = @ \ {r}]
      BY <2>5 DEF FindBatch
    <3>2. pc[p] = "routes" /\ pc'[p] \in {"create", "append"} /\ UNCHANGED msg /\ via[p] = NoRoute
      BY <2>5 DEF FindBatch, PlaceInv, Adding
    <3>3. QED
      BY <1>6, <3>1, <3>2
  <2>6. CASE CreateBatch(p)
    BY <1>6, <2>6 DEF CreateBatch, PlaceInv
  <2>7. CASE AppendEvent(p)
    <3>1. pc[p] = "append" /\ UNCHANGED <<msg, via, todo>> /\ InLoop(p) /\ batches[cur[p]].route = via[p]
      BY <2>7 DEF AppendEvent, PlaceInv, Adding
    <3>2. cur[p] \in BatchIds' /\ batches'[cur[p]].route = via[p] /\ IdOf[msg[p]] \in batches'[cur[p]].members
      BY <2>7, <3>1, AddStep DEF TypeOK
    <3>3. \A m \in {msg[p]} : \A r \in {via[p]} : In(m, r)'
      BY <3>2 DEF In, Member
    <3>4. QED
      BY <1>6, <3>1, <3>3
  <2>8. CASE Decide(p) \/ Mark(p) \/ Peek(p)
    <3>1. pc[p] \notin {"create", "append"} /\ UNCHANGED <<msg, todo>> /\ InLoop(p)
      BY <2>8 DEF Decide, Mark, Peek, PlaceInv, Adding
    <3>2. QED
      BY <1>6, <3>1
  <2>9. CASE BeginFlush(p) \/ Crash(p) \/ \E m \in Messages : Submit(p, m)
    <3>1. ~InLoop(p)'
      BY <2>9 DEF BeginFlush, Crash, Submit, PlaceInv, Adding
    <3>2. QED
      BY <1>5, <3>1
  <2>10. QED
    BY <1>7, <2>1, <2>2, <2>3, <2>4, <2>5, <2>6, <2>7, <2>8, <2>9 DEF Step, Run
<1>8. ASSUME NEW q \in Procs PROVE Serves(q)'
  <2>1. CASE UNCHANGED <<pc, locals>>
    BY <1>4, <2>1 DEF Own
  <2>2. CASE \E p \in Procs : Step(p)
    BY <1>1, <1>4, <1>7, <2>2, OthersStay
  <2>3. QED
    BY <2>1, <2>2, Steps
<1>9. AcceptedIsRouted'
  <2>1. ASSUME NEW p \in Procs, AnswerAccepted(p) PROVE Routed(msg[p])
    BY <1>1, <1>3, <2>1 DEF AnswerAccepted, Routed, InLoop, PlaceInv
  <2>2. ASSUME NEW m \in Messages, answer'[m] = "accepted" PROVE Routed(m)
    BY <2>1, <2>2, AnswerWriters DEF AnswerAccepted, AnswerDuplicate, Finish, ServedInv, AcceptedIsRouted, TypeOK, SenderOK
  <2>3. QED
    BY <1>1, <1>2, <2>2 DEF AcceptedIsRouted, Routed
<1>10. QED
  BY <1>8, <1>9 DEF ServedInv

\* A sender that has been told accepted can forget the event: every route that
\* matches it and is enabled has a batch with it, however the two processes
\* interleave, crash and restart and whatever happens to the routes.
THEOREM AcceptedEventsAreRouted == Spec => []AcceptedIsRouted
<1>1. Init => ServedInv
  BY DEF Init, ServedInv, AcceptedIsRouted, InLoop
<1>2. TypeOK /\ PlaceInv /\ ServedInv /\ [Next]_vars => ServedInv'
  BY ServedNext
<1>3. ServedInv => AcceptedIsRouted
  BY DEF ServedInv
<1>4. QED
  BY <1>1, <1>2, <1>3, PlaceCorrect, PTL DEF Spec

----------------------------------------------------------------------------
(* With one process that serves the inbound events: batches.                *)

\* Any other step leaves every batch its events, and opens none.
LEMMA QuietStep ==
  ASSUME TypeOK, PlaceInv, [Next]_vars, \A p \in Procs : ~CreateBatch(p) /\ ~AppendEvent(p)
  PROVE  /\ Len(batches') = Len(batches)
         /\ \A b \in BatchIds : /\ batches'[b].route = batches[b].route
                                /\ batches'[b].group = batches[b].group
                                /\ batches'[b].members = batches[b].members
                                /\ batches'[b].status = "collecting" => batches[b].status = "collecting"
<1> DEFINE Goal == /\ Len(batches') = Len(batches)
                   /\ \A b \in BatchIds :
                        /\ batches'[b].route = batches[b].route
                        /\ batches'[b].group = batches[b].group
                        /\ batches'[b].members = batches[b].members
                        /\ batches'[b].status = "collecting" => batches[b].status = "collecting"
<1> USE DEF TypeOK
<1>1. ASSUME NEW p \in Procs, Close(p) PROVE Goal
  <2>1. PICK b \in BatchIds : MarkBatchReady(b)
    BY <1>1 DEF Close, LocalsOK
  <2>2. QED
    BY <2>1, MarkStep
<1>2. ASSUME NEW p \in Procs, Mark(p) PROVE Goal
  <2>1. cur[p] \in BatchIds /\ MarkBatchReady(cur[p])
    BY <1>2 DEF Mark, LocalsOK, PlaceInv, Adding
  <2>2. QED
    BY <2>1, MarkStep
<1>3. ASSUME NEW b \in BatchIds, Expire(b) PROVE Goal
  BY <1>3, ExpireStep
<1>4. QED
  BY <1>1, <1>2, <1>3, BatchWriters

\* In terms of members and of open batches.
LEMMA QuietMembers ==
  ASSUME TypeOK, PlaceInv, [Next]_vars, \A p \in Procs : ~CreateBatch(p) /\ ~AppendEvent(p)
  PROVE  /\ \A m \in Messages : \A b \in BatchIds : Member(m, b)' <=> Member(m, b)
         /\ \A m \in Messages : \A r \in Routes : In(m, r)' <=> In(m, r)
         /\ \A r \in Routes : \A g \in Range(GroupOf) : Collecting(r, g)' \subseteq Collecting(r, g)
  BY QuietStep DEF Member, In, Collecting

\* The process that ingests an event is the only one in the code of ingest,
\* and routes do not change before it is done.
LEMMA Alone ==
  ASSUME OneIngester, PlaceInv, [Next]_vars, NEW p \in Procs, msg[p] # NoMessage
  PROVE  /\ UNCHANGED config
         /\ \A q \in Procs \ {p} : /\ msg[q] = NoMessage /\ ~InLoop(q) /\ pc[q] # "match"
                                   /\ ~CreateBatch(q) /\ ~AppendEvent(q) /\ ~InsertEvent(q)
<1>1. p \in Ingesters /\ pc[p] # "idle"
  BY DEF PlaceInv
<1>2. ~ControlPlaneRuns
  BY <1>1 DEF OneIngester, ControlPlaneRuns
<1>3. UNCHANGED config
  BY <1>2, ConfigWriters DEF ChangePolicy, DisableRoute, DeleteRoute
<1>4. ASSUME NEW q \in Procs \ {p}
      PROVE  /\ msg[q] = NoMessage /\ ~InLoop(q) /\ pc[q] # "match"
             /\ ~CreateBatch(q) /\ ~AppendEvent(q) /\ ~InsertEvent(q)
  <2>1. msg[q] = NoMessage
    BY <1>1 DEF OneIngester, PlaceInv
  <2>2. pc[q] \in {"idle", "scan", "close", "queue"} \/ (pc[q] = "deliver" /\ via[q] = NoRoute)
    BY <2>1 DEF PlaceInv, InFlush
  <2>3. QED
    BY <2>1, <2>2 DEF PlaceInv, Adding, InLoop, CreateBatch, AppendEvent, InsertEvent
<1>5. QED
  BY <1>3, <1>4

\* While an event is ingested, a batch becomes overdue only by the event.
LEMMA StaysInTime ==
  ASSUME OneIngester, TypeOK, PlaceInv, [Next]_vars, NEW p \in Procs, msg[p] # NoMessage,
         ~CreateBatch(p), ~AppendEvent(p), NEW b \in BatchIds', Overdue(b)'
  PROVE  b \in BatchIds /\ Overdue(b) /\ batches'[b].route = batches[b].route /\ batches'[b].status = "collecting"
<1>1. UNCHANGED config /\ \A q \in Procs : ~CreateBatch(q) /\ ~AppendEvent(q)
  BY Alone
<1>2. /\ b \in BatchIds /\ batches'[b].route = batches[b].route /\ batches'[b].members = batches[b].members
      /\ batches'[b].status = "collecting" => batches[b].status = "collecting"
  BY <1>1, QuietStep
<1>3. QED
  BY <1>1, <1>2 DEF Overdue, PolicyOf, Count

\* flush_due closes what is overdue before the event is admitted, and nothing
\* becomes overdue until the event is added.
LEMMA FlushedNext == OneIngester /\ TypeOK /\ PlaceInv /\ FlushedInv /\ [Next]_vars => FlushedInv'
<1> SUFFICES ASSUME OneIngester, TypeOK, PlaceInv, FlushedInv, [Next]_vars,
                    NEW p \in Procs, msg'[p] # NoMessage
             PROVE  /\ pc'[p] = "close" => \A b \in BatchIds' : Overdue(b)' => b \in closing'[p]
                    /\ (InFlush(p)' /\ pc'[p] \notin {"scan", "close"}) \/ pc'[p] = "match" =>
                         \A b \in BatchIds' : ~Overdue(b)'
                    /\ InLoop(p)' =>
                         /\ snap'[p] = policy' /\ todo'[p] \subseteq existing' /\ via'[p] \notin todo'[p]
                         /\ via'[p] # NoRoute => via'[p] \in existing'
                         /\ \A b \in BatchIds' : batches'[b].route \in todo'[p] => ~Overdue(b)'
  BY DEF FlushedInv
<1> DEFINE Searches == pc'[p] = "close" => \A b \in BatchIds' : Overdue(b)' => b \in closing'[p]
           Closes   == (InFlush(p)' /\ pc'[p] \notin {"scan", "close"}) \/ pc'[p] = "match" =>
                         \A b \in BatchIds' : ~Overdue(b)'
           Loops    == InLoop(p)' =>
                         /\ snap'[p] = policy' /\ todo'[p] \subseteq existing' /\ via'[p] \notin todo'[p]
                         /\ via'[p] # NoRoute => via'[p] \in existing'
                         /\ \A b \in BatchIds' : batches'[b].route \in todo'[p] => ~Overdue(b)'
<1>1. LocalsOK /\ ConfigOK
  BY DEF TypeOK
<1>2. InLoop(p)' <=> pc'[p] \in {"routes", "create"} \cup Adding \/ (pc'[p] = "deliver" /\ via'[p] # NoRoute)
  <2>1. PlaceInv'
    BY PlaceNext
  <2>2. QED
    BY <2>1 DEF PlaceInv, InLoop, Adding
<1>3. ASSUME msg[p] # NoMessage, ~CreateBatch(p), ~AppendEvent(p)
      PROVE  /\ UNCHANGED config
             /\ \A b \in BatchIds' : Overdue(b)' => /\ b \in BatchIds /\ Overdue(b)
                                                    /\ batches'[b].route = batches[b].route
                                                    /\ batches'[b].status = "collecting"
  BY <1>3, Alone, StaysInTime
<1>4. msg[p] # NoMessage =>
        /\ pc[p] = "close" => \A b \in BatchIds : Overdue(b) => b \in closing[p]
        /\ (InFlush(p) /\ pc[p] \notin {"scan", "close"}) \/ pc[p] = "match" => \A b \in BatchIds : ~Overdue(b)
        /\ InLoop(p) =>
             /\ snap[p] = policy /\ todo[p] \subseteq existing /\ via[p] \notin todo[p]
             /\ via[p] # NoRoute => via[p] \in existing
             /\ \A b \in BatchIds : batches[b].route \in todo[p] => ~Overdue(b)
  BY DEF FlushedInv
<1>5. CASE UNCHANGED Own(p)
  <2>1. UNCHANGED <<pc[p], msg[p], closing[p], todo[p], via[p], snap[p]>> /\ ~CreateBatch(p) /\ ~AppendEvent(p)
    BY <1>1, <1>5 DEF Own, CreateBatch, AppendEvent, Goto, LocalsOK
  <2>2. QED
    BY <1>3, <1>4, <2>1 DEF InFlush, InLoop
<1>6. CASE Step(p)
  <2> USE <1>1 DEF LocalsOK, Goto
  <2>1. CASE pc'[p] \in {"idle", "lookup", "record", "insert", "duplicate", "scan"}
    BY <1>2, <2>1 DEF InFlush, Adding
  <2>2. CASE Scan(p)
    <3>1. /\ msg[p] # NoMessage /\ closing'[p] = {b \in BatchIds : batches[b].status = "collecting" /\ DueNow(b)}
          /\ pc'[p] = IF closing'[p] = {} THEN "match" ELSE "close"
          /\ ~CreateBatch(p) /\ ~AppendEvent(p)
      BY <2>2 DEF Scan, AfterFlush, CreateBatch, AppendEvent
    <3>2. \A b \in BatchIds : Overdue(b) => batches[b].status = "collecting" /\ DueNow(b)
      BY DEF Overdue, DueNow
    <3>3. \A b \in BatchIds' : Overdue(b)' => b \in closing'[p]
      BY <1>3, <3>1, <3>2
    <3>4. QED
      BY <1>2, <3>1, <3>3 DEF InFlush, Adding
  <2>3. CASE Close(p)
    <3>1. PICK b \in closing[p] : MarkBatchReady(b) /\ closing' = [closing EXCEPT ![p] = @ \ {b}]
      BY <2>3 DEF Close
    <3>2. batches'[b].status = "ready"
      BY <3>1, MarkStep DEF TypeOK
    <3>3. /\ msg[p] # NoMessage /\ pc[p] = "close" /\ pc'[p] = IF closing'[p] = {} THEN "queue" ELSE "close"
          /\ ~CreateBatch(p) /\ ~AppendEvent(p)
      BY <2>3 DEF Close, CreateBatch, AppendEvent
    <3>4. \A c \in BatchIds' : Overdue(c)' => c \in closing'[p]
      BY <1>3, <1>4, <3>1, <3>2, <3>3
    <3>5. QED
      BY <1>2, <3>3, <3>4 DEF InFlush, Adding
  <2>4. CASE QueueClosed(p) \/ EndFlush(p)
    <3>1. /\ msg[p] # NoMessage /\ pc[p] = "queue" /\ pc'[p] \in {"deliver", "match"} /\ UNCHANGED via /\ via[p] = NoRoute
          /\ ~CreateBatch(p) /\ ~AppendEvent(p)
      BY <2>4 DEF QueueClosed, EndFlush, AfterFlush, CreateBatch, AppendEvent, PlaceInv, Adding
    <3>2. QED
      BY <1>2, <1>3, <1>4, <3>1 DEF InFlush, Adding
  <2>5. CASE QueueOne(p)
    <3>1. UNCHANGED <<pc, msg, via, todo, snap>> /\ pc[p] = "deliver" /\ ~CreateBatch(p) /\ ~AppendEvent(p)
      BY <2>5 DEF QueueOne, CreateBatch, AppendEvent
    <3>2. QED
      BY <1>2, <1>3, <1>4, <3>1 DEF InFlush, InLoop
  <2>6. CASE EndQueue(p)
    <3>1. /\ UNCHANGED <<msg, todo, snap>> /\ pc[p] = "deliver" /\ via'[p] = NoRoute
          /\ pc'[p] = IF via[p] = NoRoute THEN "queue" ELSE "routes"
          /\ ~CreateBatch(p) /\ ~AppendEvent(p)
      BY <2>6 DEF EndQueue, CreateBatch, AppendEvent
    <3>2. NoRoute \notin todo[p]
      BY RelayAssumption
    <3>3. QED
      BY <1>2, <1>3, <1>4, <3>1, <3>2 DEF InFlush, InLoop, Adding
  <2>7. CASE MatchRoutes(p)
    <3>1. /\ UNCHANGED <<msg, via>> /\ pc[p] = "match" /\ pc'[p] = "routes" /\ via[p] = NoRoute
          /\ todo'[p] \subseteq enabled /\ snap'[p] = policy /\ NoRoute \notin todo'[p]
          /\ ~CreateBatch(p) /\ ~AppendEvent(p)
      BY <2>7, RelayAssumption DEF MatchRoutes, CreateBatch, AppendEvent, PlaceInv, Adding, ConfigOK
    <3>2. QED
      BY <1>2, <1>3, <1>4, <3>1 DEF InFlush, ConfigOK
  <2>8. CASE FindBatch(p)
    <3>1. PICK r \in todo[p] : via' = [via EXCEPT ![p] = r] /\ todo' = [todo EXCEPT ![p] = @ \ {r}]
      BY <2>8 DEF FindBatch
    <3>2. /\ UNCHANGED <<msg, snap>> /\ pc[p] = "routes" /\ pc'[p] \in {"create", "append"}
          /\ ~CreateBatch(p) /\ ~AppendEvent(p)
      BY <2>8 DEF FindBatch, CreateBatch, AppendEvent
    <3>3. QED
      BY <1>2, <1>3, <1>4, <3>1, <3>2 DEF InFlush, InLoop
  <2>9. CASE CreateBatch(p) \/ AppendEvent(p)
    <3>1. /\ UNCHANGED <<msg, via, todo, snap>> /\ pc'[p] \in {"append", "decide"} /\ InLoop(p) /\ UNCHANGED config
      BY <2>9, Alone DEF CreateBatch, AppendEvent, InLoop, PlaceInv, Adding
    <3>2. \A b \in BatchIds' : batches'[b].route # via[p] =>
            b \in BatchIds /\ batches'[b] = batches[b]
      <4>1. CASE CreateBatch(p)
        <5>1. Len(batches) \in Nat
          BY DEF TypeOK, TablesOK
        <5>2. QED
          BY <4>1, <5>1, CreateStep DEF TypeOK
      <4>2. CASE AppendEvent(p)
        <5>1. batches[cur[p]].route = via[p]
          BY <4>2 DEF AppendEvent, PlaceInv, Adding
        <5>2. QED
          BY <4>2, <5>1, AddStep DEF TypeOK
      <4>3. QED
        BY <2>9, <4>1, <4>2
    <3>3. \A b \in BatchIds' : batches'[b].route \in todo'[p] => ~Overdue(b)'
      BY <1>4, <3>1, <3>2 DEF Overdue, PolicyOf, Count
    <3>4. QED
      BY <1>2, <1>4, <3>1, <3>3 DEF InFlush
  <2>10. CASE Decide(p) \/ Mark(p) \/ Peek(p)
    <3>1. /\ UNCHANGED <<msg, todo, snap>> /\ pc[p] \in Adding /\ pc'[p] \in {"mark", "peek", "routes", "deliver"}
          /\ ~CreateBatch(p) /\ ~AppendEvent(p) /\ (via'[p] = via[p] \/ (via'[p] = NoRoute /\ pc'[p] = "routes"))
      BY <2>10 DEF Decide, Mark, Peek, Adding, CreateBatch, AppendEvent
    <3>2. InLoop(p) /\ NoRoute \notin todo[p] /\ via[p] # NoRoute
      BY <3>1, RelayAssumption DEF PlaceInv, InLoop
    <3>3. QED
      BY <1>2, <1>3, <1>4, <3>1, <3>2 DEF InFlush
  <2>11. CASE Lookup(p) \/ CheckRow(p) \/ InsertEvent(p) \/ AnswerDuplicate(p) \/ AnswerAccepted(p)
    BY <2>1, <2>11 DEF Lookup, CheckRow, InsertEvent, AnswerDuplicate, AnswerAccepted, Finish, AfterRecord
  <2>12. CASE BeginFlush(p) \/ Crash(p) \/ \E m \in Messages : Submit(p, m)
    BY <2>1, <2>12 DEF BeginFlush, Crash, Submit
  <2>13. QED
    BY <1>6, <2>2, <2>3, <2>4, <2>5, <2>6, <2>7, <2>8, <2>9, <2>10, <2>11, <2>12 DEF Step, Run
<1>7. QED
  BY <1>1, <1>5, <1>6, Steps, OthersStay DEF Own, locals

\* Two ways to say that a batch is the only one of its kind.
LEMMA OneElement ==
  ASSUME NEW n \in Nat, NEW S \in SUBSET (1..n), NEW b \in S
  PROVE  Cardinality(S) = 1 <=> \A c \in S : c = b
<1>1. IsFiniteSet(1..n)
  BY FS_Interval
<1>2. IsFiniteSet(S)
  BY <1>1, FS_Subset
<1>3. Cardinality(S) = 1 <=> \E x : S = {x}
  BY <1>2, FS_Singleton
<1>4. (\E x : S = {x}) => \A c \in S : c = b
  OBVIOUS
<1>5. (\A c \in S : c = b) => S = {b}
  OBVIOUS
<1>6. QED
  BY <1>3, <1>4, <1>5

\* A batch is created only where none is open.
LEMMA OpenNext ==
  OneIngester /\ TypeOK /\ PlaceInv /\ FlushedInv /\ OpenInv /\ [Next]_vars => OpenInv'
<1> SUFFICES ASSUME OneIngester, TypeOK, PlaceInv, FlushedInv, OpenInv, [Next]_vars PROVE OpenInv'
  OBVIOUS
<1> DEFINE Like(b, c) == /\ batches[b].status = "collecting" /\ batches[c].status = "collecting"
                         /\ batches[b].route = batches[c].route /\ batches[b].group = batches[c].group
           Single     == \A b, c \in BatchIds : Like(b, c) => b = c
           None(p)    == pc[p] = "create" => Collecting(via[p], GroupOf[msg[p]]) = {}
<1>1. LocalsOK /\ TablesOK /\ TablesOK' /\ Len(batches) \in Nat /\ Len(batches') \in Nat
  BY TablesNext DEF TypeOK, TablesOK
<1>2. Single
  <2>1. SUFFICES ASSUME NEW b \in BatchIds, NEW c \in BatchIds, Like(b, c) PROVE b = c
    OBVIOUS
  <2> DEFINE S == Collecting(batches[b].route, batches[b].group)
  <2>2. Cardinality(S) = 1 /\ S \in SUBSET (1..Len(batches)) /\ b \in S /\ c \in S
    BY <2>1 DEF OpenInv, OneOpenBatch, Collecting
  <2> HIDE DEF S
  <2>3. QED
    BY <1>1, <2>2, OneElement
<1>3. Single' => OneOpenBatch'
  <2>1. SUFFICES ASSUME Single', NEW b \in BatchIds', batches'[b].status = "collecting"
                 PROVE  Cardinality(Collecting(batches[b].route, batches[b].group)') = 1
    BY DEF OneOpenBatch
  <2> DEFINE S == Collecting(batches[b].route, batches[b].group)'
  <2>2. S \in SUBSET (1..Len(batches')) /\ b \in S /\ \A c \in S : c = b
    BY <2>1 DEF Collecting
  <2> HIDE DEF S
  <2>3. Cardinality(S) = 1
    BY <1>1, <2>2, OneElement
  <2>4. QED
    BY <2>3 DEF S
<1>4. \A p \in Procs : None(p)
  BY DEF OpenInv
<1>5. Single'
  <2>1. SUFFICES ASSUME NEW b \in BatchIds', NEW c \in BatchIds', Like(b, c)' PROVE b = c
    OBVIOUS
  <2>2. CASE \A p \in Procs : ~CreateBatch(p) /\ ~AppendEvent(p)
    BY <1>2, <2>1, <2>2, QuietStep
  <2>3. ASSUME NEW p \in Procs, AppendEvent(p) PROVE b = c
    BY <1>2, <2>1, <2>3, AddStep DEF TypeOK
  <2>4. ASSUME NEW p \in Procs, CreateBatch(p) PROVE b = c
    <3>1. \A d \in BatchIds : ~(/\ batches[d].status = "collecting"
                                /\ batches[d].route = via[p] /\ batches[d].group = GroupOf[msg[p]])
      BY <1>4, <2>4 DEF CreateBatch, Collecting
    <3>2. /\ BatchIds' = BatchIds \cup {Len(batches) + 1}
          /\ \A d \in BatchIds : batches'[d] = batches[d]
          /\ batches'[Len(batches) + 1].route = via[p] /\ batches'[Len(batches) + 1].group = GroupOf[msg[p]]
      BY <1>1, <2>4, CreateStep DEF TypeOK
    <3>3. QED
      BY <1>2, <2>1, <3>1, <3>2
  <2>5. QED
    BY <2>2, <2>3, <2>4
<1>6. ASSUME NEW p \in Procs PROVE None(p)'
  <2>1. SUFFICES ASSUME pc'[p] = "create" PROVE Collecting(via[p], GroupOf[msg[p]])' = {}
    OBVIOUS
  <2>2. CASE UNCHANGED Own(p)
    <3>1. /\ UNCHANGED <<pc[p], msg[p], via[p]>> /\ msg[p] # NoMessage
          /\ ~CreateBatch(p) /\ ~AppendEvent(p)
      BY <1>1, <2>1, <2>2 DEF Own, PlaceInv, InFlush, CreateBatch, AppendEvent, Goto, LocalsOK
    <3>2. \A b \in BatchIds' : batches'[b].status = "collecting" =>
            /\ b \in BatchIds /\ batches[b].status = "collecting"
            /\ batches'[b].route = batches[b].route /\ batches'[b].group = batches[b].group
      BY <3>1, Alone, QuietStep
    <3>3. Collecting(via[p], GroupOf[msg[p]]) = {}
      BY <1>4, <2>1, <3>1
    <3>4. QED
      BY <3>1, <3>2, <3>3 DEF Collecting
  <2>3. CASE Step(p)
    <3>1. FindBatch(p)
      BY <1>1, <2>1, <2>3 DEF Step, Run, Lookup, CheckRow, InsertEvent, AnswerDuplicate, Scan, Close, QueueClosed, EndFlush,
         QueueOne, EndQueue, MatchRoutes, AnswerAccepted, CreateBatch, AppendEvent, Decide, Mark, Peek, Finish, AfterRecord,
         AfterFlush, BeginFlush, Crash, Submit, Goto, LocalsOK
    <3>2. PICK r \in todo[p] :
            LET open == Collecting(r, GroupOf[msg[p]])
            IN  via' = [via EXCEPT ![p] = r] /\ (open = {} \/ snap[p][r].immediate)
      BY <1>1, <2>1, <3>1 DEF FindBatch, Goto, LocalsOK
    <3>3. /\ UNCHANGED <<batches, msg>> /\ InLoop(p) /\ msg[p] # NoMessage /\ via'[p] = r
      BY <1>1, <3>1, <3>2 DEF FindBatch, InLoop, PlaceInv, InFlush, LocalsOK
    <3>4. snap[p] = policy /\ r \in existing /\ \A b \in BatchIds : batches[b].route = r => ~Overdue(b)
      BY <3>2, <3>3 DEF FlushedInv
    <3>5. Collecting(r, GroupOf[msg[p]]) = {}
      BY <3>2, <3>4 DEF Collecting, Overdue, PolicyOf
    <3>6. QED
      BY <3>3, <3>5 DEF Collecting
  <2>4. QED
    BY <1>1, <2>2, <2>3, Steps, OthersStay DEF Own, locals
<1>7. QED
  BY <1>3, <1>5, <1>6 DEF OpenInv

\* Only InsertEvent makes a key known, and it makes known that of its event.
LEMMA KeysGrow ==
  ASSUME TypeOK, PlaceInv, [Next]_vars, NEW m \in Messages
  PROVE  /\ KeyKnown(m) => KeyKnown(m)'
         /\ (\A p \in Procs : ~InsertEvent(p)) => (KeyKnown(m)' <=> KeyKnown(m))
         /\ \A p \in Procs : InsertEvent(p) => KeyKnown(msg[p])'
<1>1. events \in Seq(Messages) /\ \A p \in Procs : InsertEvent(p) => msg[p] \in Messages
  BY DEF TypeOK, TablesOK, LocalsOK, PlaceInv, InsertEvent, InFlush
<1>2. CASE UNCHANGED events /\ \A p \in Procs : ~InsertEvent(p)
  BY <1>2 DEF KeyKnown
<1>3. ASSUME NEW p \in Procs, InsertEvent(p)
      PROVE  (KeyKnown(m) => KeyKnown(m)') /\ \A q \in Procs : InsertEvent(q) => KeyKnown(msg[q])'
  <2>1. \A q \in Procs : InsertEvent(q) =>
           /\ Len(events) + 1 \in DOMAIN events' /\ events'[Len(events) + 1] = msg[q] /\ msg'[q] = msg[q]
           /\ \A i \in DOMAIN events : i \in DOMAIN events' /\ events'[i] = events[i]
    BY <1>1, AppendProperties DEF InsertEvent
  <2>2. QED
    BY <1>3, <2>1 DEF KeyKnown
<1>4. QED
  BY <1>2, <1>3, TableWriters

\* A step that is neither that of InsertEvent, CreateBatch nor AppendEvent.
LEMMA QuietPast ==
  ASSUME OneIngester, TypeOK, PlaceInv, [Next]_vars, NEW p \in Procs, msg[p] # NoMessage,
         ~CreateBatch(p), ~AppendEvent(p)
  PROVE  /\ \A m \in Messages : \A r \in Routes : In(m, r)' <=> In(m, r)
         /\ ~InsertEvent(p) => \A m \in Messages : KeyKnown(m)' <=> KeyKnown(m)
<1>1. \A q \in Procs : ~CreateBatch(q) /\ ~AppendEvent(q)
  BY Alone
<1>2. ~InsertEvent(p) => \A q \in Procs : ~InsertEvent(q)
  BY Alone
<1>3. QED
  BY <1>1, <1>2, QuietMembers, KeysGrow

Fresh(p) ==
  /\ pc[p] \in {"record", "insert"} /\ ~dup[p] => ~KeyKnown(msg[p])
  /\ InLoop(p) => via[p] \notin todo[p] /\ \A r \in Ahead(p) : ~In(msg[p], r)
  /\ (InFlush(p) /\ msg[p] # NoMessage) \/ pc[p] = "match" => \A r \in Routes : ~In(msg[p], r)
  /\ (InFlush(p) /\ msg[p] # NoMessage) \/ pc[p] = "match" \/ InLoop(p) => KeyKnown(msg[p])

\* The process that moves: one case per action.
LEMMA FreshMover ==
  ASSUME OneIngester, IdHasOneKey, TypeOK, PlaceInv, FreshInv, [Next]_vars, NEW p \in Procs, Step(p)
  PROVE  Fresh(p)'
<1> DEFINE m == msg[p]
<1>1. /\ LocalsOK /\ m \in Messages \cup {NoMessage} /\ NoMessage \notin Messages
      /\ Fresh(p) /\ \A n \in Messages : \A b \in BatchIds : Member(n, b) => KeyKnown(n)
  BY RelayAssumption DEF FreshInv, Fresh, TypeOK, LocalsOK
<1>2. InLoop(p)' <=> pc'[p] \in {"routes", "create"} \cup Adding \/ (pc'[p] = "deliver" /\ via'[p] # NoRoute)
  <2>1. PlaceInv'
    BY PlaceNext
  <2>2. QED
    BY <2>1 DEF PlaceInv, InLoop, Adding
<1>3. ASSUME m # NoMessage, ~CreateBatch(p), ~AppendEvent(p), msg'[p] = m
      PROVE  /\ \A r \in Routes : In(msg[p], r)' <=> In(m, r)
             /\ ~InsertEvent(p) => (KeyKnown(msg[p])' <=> KeyKnown(m))
  BY <1>1, <1>3, QuietPast DEF In, Member, KeyKnown
<1> USE <1>1 DEF LocalsOK, Goto
<1>4. CASE pc'[p] \in {"idle", "lookup", "duplicate"} \/ (pc'[p] = "scan" /\ msg'[p] = NoMessage)
  BY <1>2, <1>4, RelayAssumption DEF Fresh, InFlush, Adding
<1>5. CASE Lookup(p)
  <2>1. dup'[p] = KeyKnown(m) /\ pc'[p] = "record" /\ UNCHANGED <<msg, events>>
    BY <1>5 DEF Lookup, KeyKnown
  <2>2. QED
    BY <1>2, <2>1 DEF Fresh, KeyKnown, InFlush, Adding
<1>6. CASE CheckRow(p)
  <2>1. UNCHANGED <<msg, dup, events>> /\ pc[p] = "record" /\ m \in Messages
    BY <1>6 DEF CheckRow, PlaceInv, InFlush
  <2>2. RowKnown(m) => dup[p]
    <3>1. \A i \in DOMAIN events : events[i] \in Messages
      BY DEF TypeOK, TablesOK
    <3>2. RowKnown(m) => KeyKnown(m)
      BY <2>1, <3>1 DEF RowKnown, KeyKnown, IdHasOneKey
    <3>3. QED
      BY <2>1, <3>2 DEF Fresh
  <2>3. pc'[p] = "insert" \/ pc'[p] = "duplicate"
    BY <1>6, <2>2 DEF CheckRow, AfterRecord
  <2>4. QED
    BY <1>2, <1>4, <2>1, <2>3 DEF Fresh, KeyKnown, InFlush, Adding
<1>7. CASE InsertEvent(p)
  <2>1. /\ UNCHANGED <<msg, batches>> /\ pc[p] = "insert" /\ m \in Messages
        /\ pc'[p] = IF dup[p] THEN "duplicate" ELSE "scan"
    BY <1>7 DEF InsertEvent, PlaceInv, InFlush, AfterRecord
  <2>2. KeyKnown(msg[p])'
    BY <1>7, <2>1, KeysGrow
  <2>3. ~dup[p] => \A r \in Routes : ~In(m, r)
    BY <2>1 DEF Fresh, In
  <2>4. ~dup[p] => \A r \in Routes : ~In(msg[p], r)'
    BY <2>1, <2>3 DEF In, Member
  <2>5. QED
    BY <1>2, <1>4, <2>1, <2>2, <2>4 DEF Fresh, Adding
<1>8. CASE Scan(p) \/ Close(p) \/ QueueClosed(p) \/ EndFlush(p)
  <2>1. /\ UNCHANGED <<msg, via>> /\ InFlush(p) /\ ~CreateBatch(p) /\ ~AppendEvent(p) /\ ~InsertEvent(p)
        /\ pc'[p] \in {"close", "queue", "match", "deliver"} \/ pc'[p] = "idle"
    BY <1>8 DEF Scan, Close, QueueClosed, EndFlush, AfterFlush, InFlush, CreateBatch, AppendEvent, InsertEvent
  <2>2. via[p] = NoRoute /\ (pc'[p] = "match" => m # NoMessage)
    BY <1>8, <2>1 DEF PlaceInv, Adding, Scan, Close, QueueClosed, EndFlush, AfterFlush
  <2>3. QED
    BY <1>2, <1>3, <1>4, <2>1, <2>2 DEF Fresh, Adding
<1>9. CASE QueueOne(p)
  <2>1. UNCHANGED <<pc, msg, via, todo>> /\ pc[p] = "deliver" /\ ~CreateBatch(p) /\ ~AppendEvent(p) /\ ~InsertEvent(p)
    BY <1>9 DEF QueueOne, CreateBatch, AppendEvent, InsertEvent
  <2>2. (InFlush(p)' <=> InFlush(p)) /\ (InLoop(p)' <=> InLoop(p)) /\ Ahead(p) = todo[p] /\ Ahead(p)' = todo[p]
    BY <2>1 DEF InFlush, InLoop, Ahead
  <2>3. InLoop(p) => m # NoMessage
    BY <2>1 DEF PlaceInv, InFlush, InLoop
  <2>4. QED
    BY <1>3, <2>1, <2>2, <2>3 DEF Fresh
<1>10. CASE EndQueue(p)
  <2>1. /\ UNCHANGED <<msg, todo>> /\ pc[p] = "deliver" /\ ~CreateBatch(p) /\ ~AppendEvent(p) /\ ~InsertEvent(p)
        /\ via'[p] = NoRoute /\ pc'[p] = IF via[p] = NoRoute THEN "queue" ELSE "routes"
    BY <1>10 DEF EndQueue, CreateBatch, AppendEvent, InsertEvent
  <2>2. Ahead(p) = todo[p] /\ Ahead(p)' = todo[p] /\ NoRoute \notin todo[p]
    BY <2>1, RelayAssumption DEF Ahead
  <2>3. pc'[p] = "routes" => InLoop(p) /\ m # NoMessage
    BY <2>1 DEF PlaceInv, InFlush, InLoop
  <2>4. QED
    BY <1>2, <1>3, <2>1, <2>2, <2>3 DEF Fresh, InFlush, Adding
<1>11. CASE MatchRoutes(p)
  <2>1. /\ UNCHANGED <<msg, via>> /\ pc[p] = "match" /\ pc'[p] = "routes" /\ m # NoMessage /\ via[p] = NoRoute
        /\ todo'[p] \subseteq Routes /\ ~CreateBatch(p) /\ ~AppendEvent(p) /\ ~InsertEvent(p)
    BY <1>11, RelayAssumption DEF MatchRoutes, CreateBatch, AppendEvent, InsertEvent, PlaceInv, InFlush, Adding, TypeOK, ConfigOK
  <2>2. Ahead(p)' = todo'[p] /\ NoRoute \notin todo'[p]
    BY <2>1, RelayAssumption DEF Ahead
  <2>3. QED
    BY <1>2, <1>3, <2>1, <2>2 DEF Fresh, InFlush, Adding
<1>12. CASE FindBatch(p)
  <2>1. PICK r \in todo[p] : via' = [via EXCEPT ![p] = r] /\ todo' = [todo EXCEPT ![p] = @ \ {r}]
    BY <1>12 DEF FindBatch
  <2>2. /\ UNCHANGED msg /\ pc[p] = "routes" /\ pc'[p] \in {"create", "append"} /\ m # NoMessage
        /\ ~CreateBatch(p) /\ ~AppendEvent(p) /\ ~InsertEvent(p)
    BY <1>12 DEF FindBatch, CreateBatch, AppendEvent, InsertEvent, PlaceInv, InFlush
  <2>3. Ahead(p) = todo[p] /\ Ahead(p)' = todo[p] /\ InLoop(p)
    BY <2>1, <2>2 DEF Ahead, InLoop
  <2>4. QED
    BY <1>2, <1>3, <2>1, <2>2, <2>3 DEF Fresh, InFlush, Adding
<1>13. CASE CreateBatch(p)
  <2>1. UNCHANGED <<msg, via, todo, events>> /\ pc[p] = "create" /\ pc'[p] = "append" /\ InLoop(p)
    BY <1>13 DEF CreateBatch, PlaceInv, InLoop
  <2>2. \A r \in Routes : In(msg[p], r)' => In(m, r)
    <3>1. Len(batches) \in Nat
      BY DEF TypeOK, TablesOK
    <3>2. \A b \in BatchIds' : batches'[b].members # {} => b \in BatchIds /\ batches'[b] = batches[b]
      BY <1>13, <3>1, CreateStep DEF TypeOK
    <3>3. QED
      BY <2>1, <3>2 DEF In, Member
  <2>3. Ahead(p) = todo[p] \cup {via[p]} /\ Ahead(p)' = todo[p] \cup {via[p]} /\ via[p] \in Routes
    BY <1>13, <2>1 DEF Ahead, PlaceInv
  <2>4. QED
    BY <1>2, <2>1, <2>2, <2>3 DEF Fresh, InFlush, KeyKnown
<1>14. CASE AppendEvent(p)
  <2>1. /\ UNCHANGED <<msg, via, todo, events>> /\ pc[p] = "append" /\ pc'[p] = "decide" /\ InLoop(p)
        /\ batches[cur[p]].route = via[p]
    BY <1>14 DEF AppendEvent, PlaceInv, InLoop, Adding
  <2>2. \A r \in Routes \ {via[p]} : In(msg[p], r)' => In(m, r)
    <3>1. \A b \in BatchIds' : batches'[b].route # via[p] => b \in BatchIds /\ batches'[b] = batches[b]
      BY <1>14, <2>1, AddStep DEF TypeOK
    <3>2. QED
      BY <2>1, <3>1 DEF In, Member
  <2>3. Ahead(p) = todo[p] \cup {via[p]} /\ Ahead(p)' = todo[p] /\ via[p] \notin todo[p]
    BY <2>1 DEF Ahead, Fresh
  <2>4. QED
    BY <1>2, <2>1, <2>2, <2>3 DEF Fresh, InFlush, KeyKnown
<1>15. CASE Decide(p) \/ Mark(p) \/ Peek(p)
  <2>1. /\ UNCHANGED <<msg, todo>> /\ pc[p] \in {"decide", "mark", "peek"} /\ pc'[p] \in {"mark", "peek", "routes", "deliver"}
        /\ ~CreateBatch(p) /\ ~AppendEvent(p) /\ ~InsertEvent(p)
        /\ via'[p] = via[p] \/ (via'[p] = NoRoute /\ pc'[p] = "routes")
    BY <1>15 DEF Decide, Mark, Peek, CreateBatch, AppendEvent, InsertEvent
  <2>2. Ahead(p) = todo[p] /\ Ahead(p)' = todo[p] /\ NoRoute \notin todo[p] /\ InLoop(p) /\ m # NoMessage /\ via[p] # NoRoute
    BY <2>1, RelayAssumption DEF Ahead, PlaceInv, Adding, InLoop, InFlush
  <2>3. QED
    BY <1>2, <1>3, <2>1, <2>2 DEF Fresh, InFlush, Adding
<1>16. CASE AnswerDuplicate(p) \/ AnswerAccepted(p)
  BY <1>4, <1>16 DEF AnswerDuplicate, AnswerAccepted, Finish
<1>17. CASE BeginFlush(p) \/ Crash(p) \/ \E n \in Messages : Submit(p, n)
  <2>1. CASE BeginFlush(p)
    BY <1>4, <2>1 DEF BeginFlush, PlaceInv
  <2>2. QED
    BY <1>4, <1>17, <2>1 DEF Crash, Submit
<1>18. QED
  BY <1>5, <1>6, <1>7, <1>8, <1>9, <1>10, <1>11, <1>12, <1>13, <1>14, <1>15, <1>16, <1>17 DEF Step, Run

\* An event is added once to a batch of each route, since its key is new.
LEMMA FreshNext ==
  OneIngester /\ IdHasOneKey /\ TypeOK /\ PlaceInv /\ FreshInv /\ [Next]_vars => FreshInv'
<1> SUFFICES ASSUME OneIngester, IdHasOneKey, TypeOK, PlaceInv, FreshInv, [Next]_vars PROVE FreshInv'
  OBVIOUS
<1>1. LocalsOK /\ TablesOK /\ Len(batches) \in Nat
  BY DEF TypeOK, TablesOK
<1>2. ASSUME NEW p \in Procs PROVE Fresh(p)'
  <2>1. CASE UNCHANGED Own(p)
    <3>1. /\ UNCHANGED <<pc[p], msg[p], dup[p], via[p], todo[p]>>
          /\ ~CreateBatch(p) /\ ~AppendEvent(p) /\ ~InsertEvent(p)
      BY <1>1, <2>1 DEF Own, CreateBatch, AppendEvent, InsertEvent, AfterRecord, Goto, LocalsOK
    <3>2. Fresh(p)
      BY DEF FreshInv, Fresh
    <3>3. CASE msg[p] = NoMessage
      <4>1. pc[p] \notin {"record", "insert", "match"} /\ ~InLoop(p)
        BY <3>3 DEF PlaceInv, InFlush, InLoop, Adding
      <4>2. QED
        BY <3>1, <3>3, <4>1 DEF Fresh, InLoop
    <3>4. CASE msg[p] # NoMessage
      <4>1. msg[p] \in Messages /\ Ahead(p) \subseteq Routes
        BY <1>1, <3>4 DEF LocalsOK, Ahead, PlaceInv, Adding
      <4>2. /\ \A r \in Routes : In(msg[p], r)' <=> In(msg[p], r)
            /\ KeyKnown(msg[p])' <=> KeyKnown(msg[p])
        <5> DEFINE m == msg[p]
        <5>1. /\ \A r \in Routes : In(m, r)' <=> In(m, r)
              /\ KeyKnown(m)' <=> KeyKnown(m)
          BY <3>1, <3>4, <4>1, QuietPast
        <5>2. QED
          BY <5>1, <3>1
      <4>3. Ahead(p)' = Ahead(p) /\ (InLoop(p)' <=> InLoop(p)) /\ (InFlush(p)' <=> InFlush(p))
        BY <3>1 DEF Ahead, InLoop, InFlush
      <4>4. QED
        BY <3>1, <3>2, <4>1, <4>2, <4>3 DEF Fresh
    <3>5. QED
      BY <3>3, <3>4
  <2>2. CASE Step(p)
    BY <2>2, FreshMover
  <2>3. QED
    BY <1>1, <2>1, <2>2, Steps, OthersStay DEF Own, locals
<1>3. /\ \A m \in Messages : \A b \in BatchIds' : Member(m, b)' => KeyKnown(m)'
      /\ OneBatchPerRoute'
  <2>1. \A m \in Messages : KeyKnown(m) => KeyKnown(m)'
    BY KeysGrow
  <2>2. /\ \A m \in Messages : \A b \in BatchIds : Member(m, b) => KeyKnown(m)
        /\ \A m \in Messages : \A b, c \in BatchIds :
             Member(m, b) /\ Member(m, c) /\ batches[b].route = batches[c].route => b = c
    BY DEF FreshInv, OneBatchPerRoute
  <2>3. CASE \A p \in Procs : ~CreateBatch(p) /\ ~AppendEvent(p)
    <3>1. /\ BatchIds' = BatchIds /\ \A b \in BatchIds : batches'[b].route = batches[b].route
          /\ \A m \in Messages : \A b \in BatchIds : Member(m, b)' <=> Member(m, b)
      BY <2>3, QuietStep, QuietMembers
    <3>2. QED
      BY <2>1, <2>2, <3>1 DEF OneBatchPerRoute
  <2>4. ASSUME NEW p \in Procs, CreateBatch(p)
        PROVE  /\ \A m \in Messages : \A b \in BatchIds' : Member(m, b)' => KeyKnown(m)'
               /\ OneBatchPerRoute'
    <3>1. \A b \in BatchIds' : batches'[b].members # {} => b \in BatchIds /\ batches'[b] = batches[b]
      BY <1>1, <2>4, CreateStep
    <3>2. \A m \in Messages : \A b \in BatchIds' : Member(m, b)' =>
            b \in BatchIds /\ Member(m, b) /\ batches'[b].route = batches[b].route
      BY <3>1 DEF Member
    <3>3. QED
      BY <2>1, <2>2, <3>2 DEF OneBatchPerRoute
  <2>5. ASSUME NEW p \in Procs, AppendEvent(p)
        PROVE  /\ \A m \in Messages : \A b \in BatchIds' : Member(m, b)' => KeyKnown(m)'
               /\ OneBatchPerRoute'
    <3>1. /\ InLoop(p) /\ via[p] \in Ahead(p) /\ msg[p] \in Messages /\ cur[p] \in BatchIds
          /\ batches[cur[p]].route = via[p] /\ via[p] \in Routes
      BY <1>1, <2>5 DEF AppendEvent, InLoop, Ahead, PlaceInv, Adding, LocalsOK, InFlush
    <3>2. KeyKnown(msg[p]) /\ ~In(msg[p], via[p])
      BY <3>1 DEF FreshInv
    <3>3. /\ BatchIds' = BatchIds /\ \A b \in BatchIds : batches'[b].route = batches[b].route
          /\ \A m \in Messages : \A b \in BatchIds :
               Member(m, b)' => Member(m, b) \/ (b = cur[p] /\ IdOf[m] = IdOf[msg[p]])
      BY <1>1, <2>5, <3>1, AddStep DEF Member
    <3>4. \A m \in Messages : IdOf[m] = IdOf[msg[p]] => KeyKnown(m)
      BY <3>1, <3>2 DEF KeyKnown, IdHasOneKey
    <3>5. \A m \in Messages : \A b \in BatchIds :
            IdOf[m] = IdOf[msg[p]] /\ batches[b].route = via[p] => ~Member(m, b)
      BY <3>2 DEF In, Member
    <3>6. \A m \in Messages : \A b \in BatchIds' : Member(m, b)' => KeyKnown(m)'
      BY <2>1, <2>2, <3>3, <3>4
    <3>7. OneBatchPerRoute'
      BY <2>2, <3>1, <3>3, <3>5 DEF OneBatchPerRoute
    <3>8. QED
      BY <3>6, <3>7
  <2>6. QED
    BY <2>3, <2>4, <2>5
<1>4. QED
  BY <1>2, <1>3 DEF FreshInv, Fresh

\* At the start there is no batch and no event.
LEMMA TogetherInit == Init => FlushedInv /\ OpenInv /\ FreshInv
<1>1. ASSUME Init
      PROVE  /\ BatchIds = {} /\ \A p \in Procs : pc[p] = "idle" /\ msg[p] = NoMessage /\ via[p] = NoRoute
  BY <1>1 DEF Init
<1>2. QED
  BY <1>1 DEF FlushedInv, OpenInv, FreshInv, OneOpenBatch, OneBatchPerRoute, InFlush, InLoop

\* The flush in ingest keeps its promise.
LEMMA FlushedCorrect ==
  ASSUME OneIngester
  PROVE  Spec => [](TypeOK /\ PlaceInv /\ FlushedInv)
<1>1. TypeOK /\ PlaceInv /\ FlushedInv /\ [Next]_vars => FlushedInv'
  BY FlushedNext
<1>2. QED
  BY <1>1, TogetherInit, PlaceCorrect, PTL DEF Spec

\* So do the batches.
LEMMA TogetherCorrect ==
  ASSUME OneIngester, IdHasOneKey
  PROVE  Spec => [](TypeOK /\ PlaceInv /\ FlushedInv /\ OpenInv /\ FreshInv)
<1>1. TypeOK /\ PlaceInv /\ FlushedInv /\ OpenInv /\ FreshInv /\ [Next]_vars => OpenInv' /\ FreshInv'
  BY OpenNext, FreshNext
<1>2. QED
  BY <1>1, TogetherInit, FlushedCorrect, PTL DEF Spec

\* One process serves the inbound events and every event has one dedupe key:
\* then an event is in at most one batch of a route and a route collects one
\* batch per group, whatever the worker's flush does in between, wherever a
\* crash falls and however the policies change.
THEOREM GroupsStayTogether ==
  ASSUME OneIngester, IdHasOneKey
  PROVE  Spec => []EventsStayTogether
<1>1. OpenInv /\ FreshInv => EventsStayTogether
  BY DEF OpenInv, FreshInv, EventsStayTogether
<1>2. QED
  BY <1>1, TogetherCorrect, PTL

----------------------------------------------------------------------------
(* With one process that serves the inbound events: sizes.                  *)

\* What admits an event: the batch at hand has room.
HasRoom(p) ==
  LET max == Limit(FirstPolicy[via[p]])
  IN  pc[p] = "append" /\ max > 0 => Count(cur[p]) < max

\* The limit of a route is the one it started with.
LEMMA LimitsNext ==
  ASSUME LimitsStay, ConfigOK, [Next]_vars, \A r \in Routes : Limit(policy[r]) = Limit(FirstPolicy[r])
  PROVE  \A r \in Routes : Limit(policy'[r]) = Limit(FirstPolicy[r])
<1>1. ASSUME NEW r \in Routes, ChangePolicy(r)
      PROVE  \A s \in Routes : Limit(policy'[s]) = Limit(FirstPolicy[s])
  <2>1. PICK pol \in Policies : policy' = [policy EXCEPT ![r] = pol]
    BY <1>1 DEF ChangePolicy
  <2>2. MaxChanges # 0
    BY <1>1, RelayAssumption DEF ChangePolicy, ConfigOK
  <2>3. Limit(pol) = Limit(FirstPolicy[r])
    BY <2>2 DEF LimitsStay
  <2>4. QED
    BY <2>1, <2>3 DEF ConfigOK
<1>2. QED
  BY <1>1, ConfigWriters DEF DisableRoute, DeleteRoute

\* A batch stays finite, and only the event in hand makes one larger.
LEMMA CountStep ==
  ASSUME TypeOK, PlaceInv, [Next]_vars, NEW b \in BatchIds', 
         \A c \in BatchIds : IsFiniteSet(batches[c].members)
  PROVE  /\ IsFiniteSet(batches'[b].members) /\ Count(b)' \in Nat
         /\ (\E p \in Procs : AppendEvent(p) /\ cur[p] = b /\ Count(b)' <= Count(b) + 1)
            \/ (b \in BatchIds /\ Count(b)' = Count(b)) \/ Count(b)' = 0
         /\ b \in BatchIds => Count(b) \in Nat
<1>1. LocalsOK /\ TablesOK /\ Len(batches) \in Nat
  BY DEF TypeOK, TablesOK
<1>2. \A c \in BatchIds : Count(c) \in Nat
  BY FS_CardinalityType DEF Count
<1>3. CASE b \in BatchIds /\ batches'[b].members = batches[b].members
  BY <1>2, <1>3 DEF Count
<1>4. ASSUME NEW p \in Procs, CreateBatch(p), b \notin BatchIds
      PROVE  IsFiniteSet(batches'[b].members) /\ Count(b)' = 0
  <2>1. batches'[b].members = {}
    BY <1>1, <1>4, CreateStep
  <2>2. QED
    BY <2>1, FS_EmptySet DEF Count
<1>5. ASSUME NEW p \in Procs, AppendEvent(p), cur[p] = b
      PROVE  IsFiniteSet(batches'[b].members) /\ Count(b)' \in Nat /\ Count(b)' <= Count(b) + 1 /\ b \in BatchIds
  <2> DEFINE S == batches[b].members
             x == IdOf[msg[p]]
  <2>1. b \in BatchIds /\ batches'[b].members = S \cup {x}
    BY <1>1, <1>5, AddStep
  <2>2. IsFiniteSet(S) /\ Cardinality(S) \in Nat
    BY <1>2, <2>1 DEF Count
  <2> HIDE DEF S, x
  <2>3. IsFiniteSet(S \cup {x}) /\ Cardinality(S \cup {x}) = IF x \in S THEN Cardinality(S) ELSE Cardinality(S) + 1
    BY <2>2, FS_AddElement
  <2>4. Count(b)' = Cardinality(S \cup {x}) /\ Count(b) = Cardinality(S)
    BY <2>1 DEF Count, S
  <2>5. QED
    BY <2>1, <2>2, <2>3, <2>4
<1>6. CASE \A p \in Procs : ~CreateBatch(p) /\ ~AppendEvent(p)
  BY <1>3, <1>6, QuietStep
<1>7. ASSUME NEW p \in Procs, CreateBatch(p), b \in BatchIds PROVE batches'[b].members = batches[b].members
  BY <1>1, <1>7, CreateStep
<1>8. ASSUME NEW p \in Procs, AppendEvent(p), cur[p] # b
      PROVE  b \in BatchIds /\ batches'[b].members = batches[b].members
  BY <1>1, <1>8, AddStep
<1>9. QED
  BY <1>2, <1>3, <1>4, <1>5, <1>6, <1>7, <1>8

\* A batch that is found has room, and one event at a time is added.
LEMMA SizeNext ==
  OneIngester /\ LimitsStay /\ TypeOK /\ PlaceInv /\ FlushedInv /\ SizeInv /\ [Next]_vars => SizeInv'
<1> SUFFICES ASSUME OneIngester, LimitsStay, TypeOK, PlaceInv, FlushedInv, SizeInv, [Next]_vars PROVE SizeInv'
  OBVIOUS
<1> DEFINE Max(r) == Limit(FirstPolicy[r])
<1>1. LocalsOK /\ TablesOK /\ ConfigOK /\ Len(batches) \in Nat
  BY DEF TypeOK, TablesOK
<1>2. \A r \in Routes : Max(r) \in Nat
  BY RelayAssumption DEF Limit, Policy
<1>3. \A b \in BatchIds : IsFiniteSet(batches[b].members) /\ batches[b].route \in Routes
  <2>1. \A b \in BatchIds : batches[b] \in Batch
    BY <1>1 DEF TablesOK
  <2>2. QED
    BY <2>1 DEF SizeInv, Batch
<1>4. /\ \A p \in Procs : HasRoom(p)
      /\ \A b \in BatchIds : Max(batches[b].route) > 0 => Count(b) <= Max(batches[b].route)
  BY DEF SizeInv, HasRoom, WithinMaxEvents
<1> HIDE DEF Max
<1>5. ASSUME NEW b \in BatchIds'
      PROVE  /\ IsFiniteSet(batches'[b].members)
             /\ Max(batches'[b].route) > 0 => Count(b)' <= Max(batches'[b].route)
  <2>1. batches'[b].route \in Routes /\ (b \in BatchIds => batches'[b].route = batches[b].route)
    <3>1. batches' \in Seq(Batch) /\ (b \in BatchIds => batches'[b].route = batches[b].route)
      BY <1>1, BatchesGrow
    <3>2. batches'[b] \in Batch
      BY <3>1
    <3>3. QED
      BY <3>1, <3>2 DEF Batch
  <2>2. /\ IsFiniteSet(batches'[b].members) /\ Count(b)' \in Nat /\ (b \in BatchIds => Count(b) \in Nat)
        /\ (\E p \in Procs : AppendEvent(p) /\ cur[p] = b /\ Count(b)' <= Count(b) + 1)
            \/ (b \in BatchIds /\ Count(b)' = Count(b)) \/ Count(b)' = 0
    BY <1>3, CountStep
  <2>3. ASSUME NEW p \in Procs, AppendEvent(p), cur[p] = b, Count(b)' <= Count(b) + 1
        PROVE  Max(batches'[b].route) > 0 => Count(b)' <= Max(batches'[b].route)
    <3>1. pc[p] = "append" /\ b \in BatchIds /\ via[p] = batches[b].route
      BY <1>1, <2>3 DEF AppendEvent, PlaceInv, Adding, LocalsOK
    <3>2. Max(via[p]) > 0 => Count(b) < Max(via[p])
      BY <1>4, <2>3, <3>1 DEF HasRoom, Max
    <3>3. QED
      BY <1>2, <2>1, <2>2, <2>3, <3>1, <3>2
  <2>4. QED
    BY <1>2, <1>4, <2>1, <2>2, <2>3
<1>6. ASSUME NEW p \in Procs PROVE HasRoom(p)'
  <2>1. SUFFICES ASSUME pc'[p] = "append" PROVE Max(via'[p]) > 0 => Count(cur[p])' < Max(via'[p])
    BY DEF HasRoom, Max
  <2>2. CASE UNCHANGED Own(p)
    <3>1. UNCHANGED <<pc[p], msg[p], via[p], cur[p]>> /\ ~AppendEvent(p)
      BY <1>1, <2>2 DEF Own, AppendEvent, Goto, LocalsOK
    <3>2. cur[p] \in BatchIds /\ cur[p] \in BatchIds' /\ msg[p] # NoMessage
      BY <1>1, <2>1, <3>1, BatchesGrow DEF PlaceInv, InFlush, Adding, LocalsOK
    <3>3. \A q \in Procs : ~AppendEvent(q)
      BY <3>1, <3>2, Alone
    <3>4. \A b \in {cur[p]} : (Count(b)' = Count(b) \/ Count(b)' = 0) /\ Count(b) \in Nat
      BY <1>3, <3>2, <3>3, CountStep
    <3>5. Max(via[p]) > 0 => Count(cur[p]) < Max(via[p])
      BY <1>4, <2>1, <3>1 DEF HasRoom, Max
    <3>6. QED
      BY <3>1, <3>4, <3>5 DEF Count
  <2>3. CASE Step(p)
    <3>1. FindBatch(p) \/ CreateBatch(p)
      BY <1>1, <2>1, <2>3 DEF Step, Run, Lookup, CheckRow, InsertEvent, AnswerDuplicate, Scan, Close, QueueClosed, EndFlush,
         QueueOne, EndQueue, MatchRoutes, AnswerAccepted, AppendEvent, Decide, Mark, Peek, Finish, AfterRecord,
         AfterFlush, BeginFlush, Crash, Submit, Goto, LocalsOK
    <3>2. CASE CreateBatch(p)
      <4>1. batches'[cur'[p]].members = {}
        BY <1>1, <3>2, CreateStep DEF LocalsOK
      <4>2. Count(cur[p])' = 0
        BY <4>1, FS_EmptySet DEF Count
      <4>3. QED
        BY <4>2
    <3>3. CASE FindBatch(p)
      <4>1. PICK r \in todo[p] :
              /\ via' = [via EXCEPT ![p] = r]
              /\ \E b \in Collecting(r, GroupOf[msg[p]]) : cur' = [cur EXCEPT ![p] = b]
        BY <1>1, <2>1, <3>3 DEF FindBatch, Goto, LocalsOK
      <4>2. PICK b \in BatchIds : /\ batches[b].status = "collecting" /\ batches[b].route = r
                                  /\ cur' = [cur EXCEPT ![p] = b]
        BY <4>1 DEF Collecting
      <4>3. /\ UNCHANGED <<batches, msg>> /\ InLoop(p) /\ msg[p] # NoMessage /\ via'[p] = r /\ cur'[p] = b /\ r \in Routes
        BY <1>1, <3>3, <4>1, <4>2 DEF FindBatch, InLoop, PlaceInv, InFlush, LocalsOK
      <4>4. r \in existing /\ ~Overdue(b)
        BY <4>1, <4>2, <4>3 DEF FlushedInv
      <4>5. ~policy[r].immediate /\ ~LimitReached(policy[r], Count(b))
        BY <4>2, <4>4 DEF Overdue, PolicyOf
      <4>6. Max(r) = policy[r].maxEvents /\ Count(b) \in Nat
        BY <1>3, <4>3, <4>5, FS_CardinalityType DEF SizeInv, Limit, Max, Count
      <4>7. Max(r) > 0 => Count(b) < Max(r)
        BY <1>2, <4>3, <4>5, <4>6 DEF LimitReached
      <4>8. QED
        BY <4>3, <4>7 DEF Count
    <3>4. QED
      BY <3>1, <3>2, <3>3
  <2>4. QED
    BY <1>1, <2>2, <2>3, Steps, OthersStay DEF Own, locals
<1>7. \A r \in Routes : Limit(policy'[r]) = Limit(FirstPolicy[r])
  BY <1>1, LimitsNext DEF SizeInv
<1>8. WithinMaxEvents'
  BY <1>5 DEF WithinMaxEvents, Max
<1>9. QED
  BY <1>5, <1>6, <1>7, <1>8 DEF SizeInv, HasRoom

\* One process serves the inbound events and no change of a route touches the
\* limit of its batches: then no batch outgrows max_events, although counting
\* the events of a batch, closing it and adding to it are separate commits
\* between which the worker flushes, a crash may fall and routes may change.
THEOREM BatchesStayWithinLimit ==
  ASSUME OneIngester, LimitsStay
  PROVE  Spec => []WithinMaxEvents
<1>1. Init => SizeInv
  <2>1. ASSUME Init
        PROVE  BatchIds = {} /\ policy = FirstPolicy /\ \A p \in Procs : pc[p] = "idle"
    BY <2>1 DEF Init
  <2>2. QED
    BY <2>1 DEF SizeInv, WithinMaxEvents
<1>2. TypeOK /\ PlaceInv /\ FlushedInv /\ SizeInv /\ [Next]_vars => SizeInv'
  BY SizeNext
<1>3. SizeInv => WithinMaxEvents
  BY DEF SizeInv
<1>4. QED
  BY <1>1, <1>2, <1>3, FlushedCorrect, PTL DEF Spec

----------------------------------------------------------------------------
(* Without crashes: nothing that was begun is left undone.                  *)

\* No process stops in the middle.
LEMMA NoCrash ==
  ASSUME MaxFaults = 0, SenderOK, NEW p \in Procs
  PROVE  ~Crash(p)
  BY DEF Crash, SenderOK

\* What is routed stays routed.
LEMMA RoutedStays ==
  ASSUME TypeOK, PlaceInv, [Next]_vars, NEW m \in Messages, Routed(m)
  PROVE  Routed(m)'
<1>1. enabled' \subseteq enabled /\ enabled \subseteq Routes
  BY ConfigNext DEF TypeOK, ConfigOK
<1>2. QED
  BY <1>1, StaysIn DEF Routed

\* A process whose message is past record_event is under way to route it.
UnderWay(p) == pc[p] \notin {"idle", "lookup", "record", "insert", "duplicate"}

\* Such a process stays under way until it has routed its message.
LEMMA WayNext ==
  ASSUME MaxFaults = 0, TypeOK, PlaceInv, ServedInv, [Next]_vars,
         NEW p \in Procs, msg[p] # NoMessage, UnderWay(p)
  PROVE  (msg'[p] = msg[p] /\ UnderWay(p)') \/ (AnswerAccepted(p) /\ Routed(msg[p]))
<1>1. LocalsOK /\ ~Crash(p)
  BY NoCrash DEF TypeOK
<1>2. ASSUME AnswerAccepted(p) PROVE Routed(msg[p])
  BY <1>2 DEF AnswerAccepted, ServedInv, InLoop, PlaceInv, Adding, Routed
<1>3. CASE Step(p)
  BY <1>1, <1>2, <1>3 DEF Step, Run, Lookup, CheckRow, InsertEvent, AnswerDuplicate, Scan, Close, QueueClosed, EndFlush, QueueOne,
     EndQueue, MatchRoutes, FindBatch, CreateBatch, AppendEvent, Decide, Mark, Peek, AfterFlush, BeginFlush, Submit, Goto,
     LocalsOK, UnderWay
<1>4. CASE UNCHANGED Own(p)
  BY <1>4 DEF Own, UnderWay
<1>5. QED
  BY <1>1, <1>3, <1>4, Steps, OthersStay DEF Own, locals

\* Every recorded event is routed or under way.
LEMMA RecordedNext ==
  OneIngester /\ KeyHasOneEvent /\ MaxFaults = 0 /\ TypeOK /\ PlaceInv /\ ServedInv /\ RecordedInv /\ [Next]_vars
    => RecordedInv'
<1> SUFFICES ASSUME OneIngester, KeyHasOneEvent, MaxFaults = 0, TypeOK, PlaceInv, ServedInv, RecordedInv, [Next]_vars
             PROVE  RecordedInv'
  OBVIOUS
<1> DEFINE Flag(p) == /\ pc[p] = "duplicate" => dup[p]
                      /\ pc[p] = "insert" => ~dup[p]
                      /\ dup[p] => msg[p] # NoMessage /\ KeyKnown(msg[p])
           Cared(m) == Routed(m) \/ \E p \in Procs : msg[p] = m /\ UnderWay(p)
<1>1. /\ LocalsOK /\ TablesOK /\ SenderOK /\ NoMessage \notin Messages
      /\ \A i \in DOMAIN events : events[i] \in Messages
  BY RelayAssumption DEF TypeOK, TablesOK
<1>2. /\ \A p \in Procs : Flag(p)
      /\ \A i \in DOMAIN events : Cared(events[i])
      /\ AnsweredIsRouted
  BY <1>1 DEF RecordedInv, PlaceInv, UnderWay
<1>3. ASSUME NEW m \in Messages, Cared(m) PROVE Cared(m)'
  <2>1. CASE Routed(m)
    BY <2>1, RoutedStays
  <2>2. ASSUME NEW p \in Procs, msg[p] = m, UnderWay(p) PROVE Cared(m)'
    BY <1>1, <2>2, WayNext, RoutedStays
  <2>3. QED
    BY <1>3, <2>1, <2>2
<1>4. ASSUME NEW i \in DOMAIN events', NEW m \in {events'[i]} PROVE m \in Messages /\ Cared(m)'
  <2>1. CASE UNCHANGED events
    <3>1. i \in DOMAIN events /\ m = events[i]
      BY <2>1
    <3>2. QED
      BY <1>1, <1>2, <1>3, <3>1
  <2>2. ASSUME NEW p \in Procs, InsertEvent(p) PROVE m \in Messages /\ Cared(m)'
    <3>1. msg[p] \in Messages /\ UNCHANGED msg /\ pc[p] = "insert" /\ pc' = [pc EXCEPT ![p] = AfterRecord(p)]
      BY <1>1, <2>2 DEF InsertEvent, LocalsOK, PlaceInv, InFlush, Goto
    <3>2. UnderWay(p)'
      BY <1>1, <1>2, <3>1 DEF AfterRecord, UnderWay, LocalsOK
    <3>3. (i \in DOMAIN events /\ m = events[i]) \/ m = msg[p]
      <4>1. events' = Append(events, msg[p]) /\ events \in Seq(Messages)
        BY <1>1, <2>2 DEF InsertEvent, TablesOK
      <4>2. QED
        BY <3>1, <4>1, AppendProperties
    <3>4. CASE i \in DOMAIN events /\ m = events[i]
      BY <1>1, <1>2, <1>3, <3>4
    <3>5. CASE m = msg[p]
      BY <3>1, <3>2, <3>5
    <3>6. QED
      BY <3>3, <3>4, <3>5
  <2>3. QED
    BY <2>1, <2>2, TableWriters
<1>5. ASSUME NEW p \in Procs PROVE Flag(p)'
  <2>1. ASSUME msg[p] # NoMessage, KeyKnown(msg[p]), msg'[p] = msg[p] PROVE KeyKnown(msg[p])'
    <3> DEFINE m == msg[p]
    <3>1. KeyKnown(m)'
      BY <1>1, <2>1, KeysGrow DEF LocalsOK
    <3>2. QED
      BY <2>1, <3>1
  <2>2. CASE UNCHANGED Own(p)
    BY <1>2, <2>1, <2>2 DEF Own
  <2>3. CASE Step(p)
    <3> USE <1>1, <1>2, <2>1 DEF LocalsOK, Goto
    <3>1. CASE Lookup(p)
      BY <3>1 DEF Lookup, KeyKnown, PlaceInv, InFlush
    <3>2. CASE CheckRow(p)
      BY <3>2 DEF CheckRow, AfterRecord, KeyKnown, RowKnown
    <3>3. CASE InsertEvent(p)
      BY <3>3 DEF InsertEvent, AfterRecord
    <3>4. CASE AnswerDuplicate(p) \/ AnswerAccepted(p)
      BY <3>4 DEF AnswerDuplicate, AnswerAccepted, Finish
    <3>5. CASE Scan(p) \/ Close(p) \/ QueueClosed(p) \/ EndFlush(p)
      BY <3>5 DEF Scan, Close, QueueClosed, EndFlush, AfterFlush
    <3>6. CASE QueueOne(p) \/ EndQueue(p) \/ MatchRoutes(p)
      BY <3>6 DEF QueueOne, EndQueue, MatchRoutes
    <3>7. CASE FindBatch(p) \/ CreateBatch(p) \/ AppendEvent(p)
      BY <3>7 DEF FindBatch, CreateBatch, AppendEvent
    <3>8. CASE Decide(p) \/ Mark(p) \/ Peek(p)
      BY <3>8 DEF Decide, Mark, Peek
    <3>9. CASE BeginFlush(p) \/ Crash(p) \/ \E m \in Messages : Submit(p, m)
      BY <3>9 DEF BeginFlush, Crash, Submit, PlaceInv
    <3>10. QED
      BY <2>3, <3>1, <3>2, <3>3, <3>4, <3>5, <3>6, <3>7, <3>8, <3>9 DEF Step, Run
  <2>4. QED
    BY <1>1, <2>2, <2>3, Steps, OthersStay DEF Own, locals
<1>6. AnsweredIsRouted'
  <2>1. ASSUME NEW p \in Procs, AnswerAccepted(p) PROVE Routed(msg[p]) /\ msg[p] \in Messages
    BY <1>1, <2>1 DEF AnswerAccepted, ServedInv, InLoop, PlaceInv, InFlush, Routed, LocalsOK
  <2>2. ASSUME NEW p \in Procs, AnswerDuplicate(p) PROVE Routed(msg[p]) /\ msg[p] \in Messages
    <3>1. msg[p] \in Messages /\ p \in Ingesters /\ pc[p] = "duplicate"
      BY <1>1, <2>2 DEF AnswerDuplicate, PlaceInv, InFlush, LocalsOK
    <3>2. PICK i \in DOMAIN events : KeyOf[events[i]] = KeyOf[msg[p]]
      BY <1>2, <3>1 DEF KeyKnown
    <3>3. \A q \in Procs : msg[q] = events[i] => ~UnderWay(q)
      BY <1>1, <3>1 DEF OneIngester, PlaceInv, UnderWay
    <3>4. Routed(events[i])
      BY <1>2, <3>3
    <3>5. IdOf[events[i]] = IdOf[msg[p]] /\ Matches[events[i]] = Matches[msg[p]]
      BY <1>1, <3>1, <3>2 DEF KeyHasOneEvent
    <3>6. QED
      BY <3>1, <3>4, <3>5 DEF Routed, In, Member
  <2>3. ASSUME NEW m \in Messages, answer'[m] # "none" PROVE Routed(m)
    BY <1>1, <1>2, <2>1, <2>2, <2>3, AnswerWriters DEF AnswerAccepted, AnswerDuplicate, Finish, AnsweredIsRouted, SenderOK
  <2>4. QED
    BY <2>3, RoutedStays DEF AnsweredIsRouted
<1>7. QED
  <2>1. \A i \in DOMAIN events' : \A m \in {events'[i]} : Routed(m)' \/ \E p \in Procs : msg'[p] = m /\ UnderWay(p)'
    BY <1>4
  <2>2. \A i \in DOMAIN events' : Routed(events[i])' \/ \E p \in Procs : msg'[p] = events'[i] /\ UnderWay(p)'
    BY <2>1 DEF Routed, In, Member
  <2>3. QED
    BY <1>5, <1>6, <2>2 DEF RecordedInv, UnderWay

\* One process serves the inbound events, a dedupe key names one event and
\* nothing crashes: then a sender that is told duplicate can forget the event
\* as well as one that is told accepted.  (Relay_crash shows what a crash does.)
THEOREM AnswersMeanRouted ==
  ASSUME OneIngester, KeyHasOneEvent, MaxFaults = 0
  PROVE  Spec => []AnsweredIsRouted
<1>1. Init => ServedInv /\ RecordedInv
  <2>1. ASSUME Init
        PROVE  /\ events = <<>> /\ answer = [m \in Messages |-> "none"]
               /\ \A p \in Procs : pc[p] = "idle" /\ ~dup[p] /\ via[p] = NoRoute
    BY <2>1 DEF Init
  <2>2. QED
    BY <2>1 DEF RecordedInv, ServedInv, AnsweredIsRouted, AcceptedIsRouted, InLoop
<1>2. TypeOK /\ PlaceInv /\ ServedInv /\ RecordedInv /\ [Next]_vars => ServedInv' /\ RecordedInv'
  BY ServedNext, RecordedNext
<1>3. RecordedInv => AnsweredIsRouted
  BY DEF RecordedInv
<1>4. QED
  BY <1>1, <1>2, <1>3, PlaceCorrect, PTL DEF Spec

\* What has been queued of a closed batch, or will be by the process that has
\* it in hand.
Tended(b) == Queued(b) \/ \E p \in Procs : InHand(p, b)

Rest(p) ==
  pc[p] = "deliver" /\ batches[cur[p]].route \in existing =>
    \A d \in DestsOf[batches[cur[p]].route] : d \in left[p] \/ <<cur[p], d>> \in deliveries

\* A batch is queued for good, or dropped with its route for good.
LEMMA QueuedStays ==
  ASSUME TypeOK, PlaceInv, [Next]_vars, NEW b \in BatchIds
  PROVE  /\ deliveries \subseteq deliveries' /\ existing' \subseteq existing
         /\ b \in BatchIds' /\ batches'[b].route = batches[b].route
         /\ Queued(b) => Queued(b)'
<1>1. deliveries \subseteq deliveries'
  BY TableWriters DEF QueueOne
<1>2. existing' \subseteq existing
  BY ConfigNext DEF TypeOK
<1>3. b \in BatchIds' /\ batches'[b].route = batches[b].route
  BY BatchesGrow DEF TypeOK
<1>4. QED
  BY <1>1, <1>2, <1>3 DEF Queued

\* A process lets go of a closed batch only when it has queued it.
LEMMA HandNext ==
  ASSUME MaxFaults = 0, TypeOK, PlaceInv, [Next]_vars, NEW p \in Procs, Rest(p),
         NEW b \in BatchIds, batches[b].status = "ready", InHand(p, b)
  PROVE  InHand(p, b)' \/ Queued(b)
<1>1. LocalsOK /\ ~Crash(p)
  BY NoCrash DEF TypeOK
<1>2. pc[p] # "idle" /\ (b \in closed[p] \/ b = cur[p])
  BY DEF InHand
<1> USE <1>1, <1>2 DEF LocalsOK, Goto, InHand
<1>3. CASE Lookup(p) \/ CheckRow(p) \/ InsertEvent(p)
  BY <1>3 DEF Lookup, CheckRow, InsertEvent, AfterRecord
<1>4. CASE AnswerDuplicate(p) \/ AnswerAccepted(p)
  BY <1>4 DEF AnswerDuplicate, AnswerAccepted, PlaceInv, InFlush, Adding
<1>5. CASE Scan(p) \/ Close(p)
  BY <1>5 DEF Scan, Close, PlaceInv, Adding
<1>6. CASE QueueClosed(p)
  <2>1. cur[p] = 0 /\ pc[p] = "queue"
    BY <1>6 DEF QueueClosed, PlaceInv, Adding
  <2>2. PICK c \in closed[p] : closed' = [closed EXCEPT ![p] = @ \ {c}] /\ cur' = [cur EXCEPT ![p] = c]
    BY <1>6 DEF QueueClosed
  <2>3. QED
    BY <1>6, <2>1, <2>2 DEF QueueClosed
<1>7. CASE EndFlush(p)
  BY <1>7 DEF EndFlush, PlaceInv, Adding
<1>8. CASE QueueOne(p)
  BY <1>8 DEF QueueOne
<1>9. CASE EndQueue(p)
  <2>1. CASE b = cur[p]
    BY <1>9, <2>1 DEF EndQueue, Rest, Queued
  <2>2. CASE b \in closed[p]
    BY <1>9, <2>2 DEF EndQueue
  <2>3. QED
    BY <2>1, <2>2
<1>10. CASE MatchRoutes(p) \/ AppendEvent(p) \/ Decide(p) \/ Mark(p)
  BY <1>10 DEF MatchRoutes, AppendEvent, Decide, Mark
<1>11. CASE FindBatch(p) \/ CreateBatch(p)
  BY <1>11 DEF FindBatch, CreateBatch, PlaceInv, InFlush, Adding
<1>12. CASE Peek(p)
  <2>1. CASE b = cur[p]
    BY <1>12, <2>1 DEF Peek
  <2>2. CASE b \in closed[p]
    BY <1>12, <2>2 DEF Peek, PlaceInv, InFlush
  <2>3. QED
    BY <2>1, <2>2
<1>13. CASE BeginFlush(p) \/ \E m \in Messages : Submit(p, m)
  BY <1>13 DEF BeginFlush, Submit
<1>14. CASE UNCHANGED Own(p)
  BY <1>14 DEF Own
<1>15. Step(p) \/ UNCHANGED Own(p)
  BY Steps, OthersStay DEF Own, locals
<1>16. QED
  BY <1>3, <1>4, <1>5, <1>6, <1>7, <1>8, <1>9, <1>10, <1>11, <1>12, <1>13, <1>14, <1>15 DEF Step, Run

\* Every closed batch is queued or in hand.
LEMMA QueueingNext == MaxFaults = 0 /\ TypeOK /\ PlaceInv /\ QueueingInv /\ [Next]_vars => QueueingInv'
<1> SUFFICES ASSUME MaxFaults = 0, TypeOK, PlaceInv, QueueingInv, [Next]_vars PROVE QueueingInv'
  OBVIOUS
<1>1. LocalsOK /\ TablesOK
  BY DEF TypeOK
<1>2. /\ \A b \in BatchIds : batches[b].status = "ready" => Tended(b)
      /\ \A p \in Procs : Rest(p)
  BY DEF QueueingInv, ReadyIsQueued, Tended, Rest
<1>3. ASSUME NEW b \in BatchIds', batches'[b].status = "ready" PROVE Tended(b)'
  <2>1. CASE b \in BatchIds /\ batches[b].status = "ready"
    BY <1>2, <2>1, HandNext, QueuedStays DEF Tended
  <2>2. CASE b \notin BatchIds \/ batches[b].status # "ready"
    <3>1. ASSUME NEW p \in Procs, Close(p) PROVE InHand(p, b)'
      <4>1. PICK c \in BatchIds : MarkBatchReady(c) /\ closed' = [closed EXCEPT ![p] = @ \cup {c}]
        BY <1>1, <3>1 DEF Close, LocalsOK
      <4>2. b = c
        BY <1>1, <1>3, <2>2, <4>1, MarkStep
      <4>3. QED
        BY <1>1, <3>1, <4>1, <4>2 DEF Close, InHand, Goto, LocalsOK
    <3>2. ASSUME NEW p \in Procs, Mark(p) PROVE InHand(p, b)'
      <4>1. cur[p] \in BatchIds /\ MarkBatchReady(cur[p])
        BY <1>1, <3>2 DEF Mark, PlaceInv, Adding, LocalsOK
      <4>2. b = cur[p]
        BY <1>1, <1>3, <2>2, <4>1, MarkStep
      <4>3. QED
        BY <1>1, <3>2, <4>2 DEF Mark, InHand, Goto, LocalsOK
    <3>3. ASSUME NEW p \in Procs, CreateBatch(p) PROVE FALSE
      <4>1. Len(batches) \in Nat
        BY <1>1 DEF TablesOK
      <4>2. QED
        BY <1>1, <1>3, <2>2, <3>3, <4>1, CreateStep
    <3>4. ASSUME NEW p \in Procs, AppendEvent(p) PROVE FALSE
      BY <1>1, <1>3, <2>2, <3>4, AddStep
    <3>5. ASSUME NEW c \in BatchIds, Expire(c) PROVE FALSE
      BY <1>1, <1>3, <2>2, <3>5, ExpireStep
    <3>6. ~UNCHANGED batches
      BY <1>3, <2>2
    <3>7. \E p \in Procs : InHand(p, b)'
      BY <3>1, <3>2, <3>3, <3>4, <3>5, <3>6, BatchWriters
    <3>8. QED
      BY <3>7 DEF Tended
  <2>3. QED
    BY <2>1, <2>2
<1>4. ASSUME NEW p \in Procs PROVE Rest(p)'
  <2>1. SUFFICES ASSUME pc'[p] = "deliver", batches'[cur'[p]].route \in existing',
                        NEW d \in DestsOf[batches'[cur'[p]].route]
                 PROVE  d \in left'[p] \/ <<cur'[p], d>> \in deliveries'
    BY DEF Rest
  <2>2. deliveries \subseteq deliveries' /\ existing' \subseteq existing
    BY TableWriters, ConfigNext DEF QueueOne, TypeOK
  <2>3. CASE UNCHANGED <<pc[p], cur[p], left[p]>>
    <3>1. batches'[cur[p]].route = batches[cur[p]].route
      BY <1>1, <2>1, <2>3, QueuedStays DEF PlaceInv, LocalsOK
    <3>2. QED
      BY <1>2, <2>1, <2>2, <2>3, <3>1 DEF Rest
  <2>4. CASE QueueClosed(p)
    <3>1. PICK b \in closed[p] :
            /\ cur' = [cur EXCEPT ![p] = b]
            /\ left' = [left EXCEPT ![p] = IF batches[b].route \in existing THEN DestsOf[batches[b].route] ELSE {}]
      BY <2>4 DEF QueueClosed
    <3>2. UNCHANGED <<batches, existing>>
      BY <2>4 DEF QueueClosed
    <3>3. QED
      BY <1>1, <2>1, <3>1, <3>2 DEF LocalsOK
  <2>5. CASE QueueOne(p)
    <3>1. PICK e \in left[p] : /\ deliveries' = deliveries \cup {<<cur[p], e>>}
                               /\ left' = [left EXCEPT ![p] = @ \ {e}]
      BY <2>5 DEF QueueOne
    <3>2. UNCHANGED <<batches, existing, pc, cur>>
      BY <2>5 DEF QueueOne
    <3>3. d \in left[p] \/ <<cur[p], d>> \in deliveries
      BY <1>2, <2>1, <3>2 DEF Rest
    <3>4. QED
      BY <1>1, <3>1, <3>2, <3>3 DEF LocalsOK
  <2>6. CASE Peek(p)
    <3>1. /\ UNCHANGED <<batches, existing>> /\ cur'[p] = cur[p] /\ left'[p] = DestsOf[via[p]]
      BY <1>1, <2>1, <2>6 DEF Peek, Goto, LocalsOK
    <3>2. batches[cur[p]].route = via[p]
      BY <2>6 DEF Peek, PlaceInv, Adding
    <3>3. QED
      BY <2>1, <3>1, <3>2
  <2>7. CASE Step(p) /\ ~QueueClosed(p) /\ ~QueueOne(p) /\ ~Peek(p)
    BY <1>1, <2>1, <2>7 DEF Step, Run, Lookup, CheckRow, InsertEvent, AnswerDuplicate, Scan, Close, EndFlush,
       EndQueue, MatchRoutes, AnswerAccepted, FindBatch, CreateBatch, AppendEvent, Decide, Mark, Finish, AfterRecord,
       AfterFlush, BeginFlush, Crash, Submit, Goto, LocalsOK
  <2>8. QED
    BY <1>1, <2>3, <2>4, <2>5, <2>6, <2>7, Steps, OthersStay DEF Own, locals
<1>5. QED
  BY <1>3, <1>4 DEF QueueingInv, ReadyIsQueued, Tended, Rest

\* Without crashes every batch that has been closed, by the worker's flush or
\* by ingest, is queued for all destinations of its route, or the process that
\* closed it is about to do it, unless the route is deleted.
THEOREM ClosedBatchesAreQueued ==
  ASSUME MaxFaults = 0
  PROVE  Spec => []ReadyIsQueued
<1>1. Init => QueueingInv
  <2>1. ASSUME Init
        PROVE  BatchIds = {} /\ \A p \in Procs : pc[p] = "idle"
    BY <2>1 DEF Init
  <2>2. QED
    BY <2>1 DEF QueueingInv, ReadyIsQueued
<1>2. TypeOK /\ PlaceInv /\ QueueingInv /\ [Next]_vars => QueueingInv'
  BY QueueingNext
<1>3. QueueingInv => ReadyIsQueued
  BY DEF QueueingInv
<1>4. QED
  BY <1>1, <1>2, <1>3, PlaceCorrect, PTL DEF Spec

----------------------------------------------------------------------------
(* With one process: nobody closes a batch that ingest has found open.      *)

\* With one process the batch in hand stays open until the event is in it.
LEMMA StableNext == OneProcess /\ TypeOK /\ PlaceInv /\ StableInv /\ [Next]_vars => StableInv'
<1> SUFFICES ASSUME OneProcess, TypeOK, PlaceInv, StableInv, [Next]_vars, NEW p \in Procs, pc'[p] = "append"
             PROVE  batches'[cur'[p]].status = "collecting"
  BY DEF StableInv
<1>1. LocalsOK /\ TablesOK
  BY DEF TypeOK
<1>2. CASE FindBatch(p)
  <2>1. PICK r \in todo[p] : \E b \in Collecting(r, GroupOf[msg[p]]) : cur' = [cur EXCEPT ![p] = b]
    BY <1>1, <1>2 DEF FindBatch, Goto, LocalsOK
  <2>2. QED
    BY <1>1, <1>2, <2>1 DEF FindBatch, Collecting, LocalsOK
<1>3. CASE CreateBatch(p)
  BY <1>1, <1>3, CreateStep DEF LocalsOK
<1>4. CASE Step(p) /\ ~FindBatch(p) /\ ~CreateBatch(p)
  BY <1>1, <1>4 DEF Step, Run, Lookup, CheckRow, InsertEvent, AnswerDuplicate, Scan, Close, QueueClosed, EndFlush, QueueOne,
     EndQueue, MatchRoutes, AnswerAccepted, AppendEvent, Decide, Mark, Peek, Finish, AfterRecord, AfterFlush, BeginFlush,
     Crash, Submit, Goto, LocalsOK
<1>5. CASE UNCHANGED <<pc, locals>>
  <2>1. pc[p] = "append" /\ cur'[p] = cur[p] /\ cur[p] \in BatchIds /\ batches[cur[p]].status = "collecting"
    BY <1>1, <1>5 DEF LocalsOK, PlaceInv, Adding, StableInv
  <2>2. ASSUME NEW q \in Procs, Close(q) \/ CreateBatch(q) \/ AppendEvent(q) \/ Mark(q) PROVE FALSE
    BY <1>1, <1>5, <2>1, <2>2 DEF OneProcess, Close, CreateBatch, AppendEvent, Mark, Goto, LocalsOK
  <2>3. QED
    BY <1>1, <2>1, <2>2, BatchWriters, ExpireStep
<1>6. QED
  BY <1>1, <1>2, <1>3, <1>4, <1>5, Steps DEF OneProcess

\* One process serves the events and runs the worker: then a batch that is
\* closed keeps the events it has, and what its deliveries carry does not
\* depend on when they are sent.  With two processes the worker may close and
\* queue the batch between find_collecting_batch and add_batch_event.
THEOREM ClosedBatchesAreStable ==
  ASSUME OneProcess
  PROVE  Spec => ClosedIsStable
<1> DEFINE Keeps == \A b \in BatchIds : batches[b].status = "ready" => batches'[b].members = batches[b].members
<1>1. Init => StableInv
  BY DEF Init, StableInv
<1>2. TypeOK /\ PlaceInv /\ StableInv /\ [Next]_vars => StableInv'
  BY StableNext
<1>3. TypeOK /\ PlaceInv /\ StableInv /\ [Next]_vars => Keeps
  <2>1. SUFFICES ASSUME TypeOK, PlaceInv, StableInv, [Next]_vars, NEW b \in BatchIds, batches[b].status = "ready"
                 PROVE  batches'[b].members = batches[b].members
    OBVIOUS
  <2>2. CASE \A p \in Procs : ~CreateBatch(p) /\ ~AppendEvent(p)
    BY <2>1, <2>2, QuietStep
  <2>3. ASSUME NEW p \in Procs, CreateBatch(p) PROVE batches'[b] = batches[b]
    BY <2>1, <2>3, CreateStep DEF TypeOK
  <2>4. ASSUME NEW p \in Procs, AppendEvent(p) PROVE batches'[b] = batches[b]
    <3>1. cur[p] # b
      BY <2>1, <2>4 DEF AppendEvent, StableInv
    <3>2. QED
      BY <2>1, <2>4, <3>1, AddStep DEF TypeOK
  <2>5. QED
    BY <2>2, <2>3, <2>4
<1>4. TypeOK /\ PlaceInv /\ StableInv /\ [Next]_vars => [Keeps]_vars
  BY <1>3
<1>5. QED
  BY <1>1, <1>2, <1>4, PlaceCorrect, PTL DEF Spec, ClosedIsStable
==============================================================================
