------------------------ MODULE DeliveryQueueProofs ------------------------
(***************************************************************************)
(* Proofs about DeliveryQueue for every set of coroutines, processes and   *)
(* deliveries, every limit and every number of faults: what one process    *)
(* keeps, what any number of processes keep, and that the coroutines of    *)
(* one process implement DeliveryContract.                                 *)
(***************************************************************************)
EXTENDS DeliveryQueue, FiniteSetTheorems, TLAPS

USE DEF Deliveries, NoLease, Waiting, Settled, Statuses, Claiming

\* What is left of a wait is a natural number, whatever the header said.
LEMMA RetryDelayType ==
  ASSUME NEW n, NEW after \in Int
  PROVE  RetryDelay(n, after) \in Nat
<1>1. Backoff(n) \in Nat
  BY QueueAssumption DEF Backoff
<1>2. QED
  BY <1>1 DEF RetryDelay

\* created_at, as a position, is a natural number: the table is finite.
LEMMA RowCountType ==
  Cardinality({e \in Deliveries : status[e] # "absent"}) \in Nat
<1>1. IsFiniteSet(Deliveries)
  BY QueueAssumption, FS_Union
<1>2. IsFiniteSet({e \in Deliveries : status[e] # "absent"})
  BY <1>1, FS_Subset
<1>3. QED
  BY <1>2, FS_CardinalityType

\* The failure path writes well-typed columns and leaves the others alone.
LEMMA FailType ==
  ASSUME TypeOK, NEW t \in Tasks, NEW limit, NEW after \in Int, Fail(t, limit, after)
  PROVE  /\ status' \in [Deliveries -> Statuses] /\ wait' \in [Deliveries -> Nat]
         /\ lease' \in [Deliveries -> Nat \cup {NoLease}]
         /\ UNCHANGED <<attempts, stamp>>
<1>1. RetryDelay(seen[t], after) \in Nat
  BY RetryDelayType
<1>2. QED
  BY <1>1 DEF Fail, SetStatus, TypeOK

----------------------------------------------------------------------------
(* Type correctness. *)

\* The types hold at the start.
LEMMA TypeInit == Init => TypeOK
  BY QueueAssumption DEF Init, TypeOK

\* Every step keeps them.
LEMMA TypeNext == TypeOK /\ [Next]_vars => TypeOK'
<1> SUFFICES ASSUME TypeOK, [Next]_vars PROVE TypeOK'
  OBVIOUS
<1> USE QueueAssumption
<1>1. ASSUME NEW t \in Tasks, SelectDue(t) PROVE TypeOK'
  BY <1>1 DEF SelectDue, Goto, Hold, TypeOK, rowVars
<1>2. ASSUME NEW t \in Tasks, ClaimRow(t) PROVE TypeOK'
  BY <1>2 DEF ClaimRow, MarkInFlight, Goto, TypeOK
<1>3. ASSUME NEW t \in Tasks, ReadBack(t) PROVE TypeOK'
  BY <1>3 DEF ReadBack, Goto, TypeOK, rowVars
<1>4. ASSUME NEW t \in Tasks, StartRequest(t) PROVE TypeOK'
  BY <1>4 DEF StartRequest, Release, Goto, TypeOK, rowVars
<1>5. ASSUME NEW t \in Tasks, RefuseLocally(t) PROVE TypeOK'
  <2>1. PICK limit \in {MaxAttempts, DefaultMaxAttempts} : Fail(t, limit, 0)
    BY <1>5 DEF RefuseLocally
  <2>2. QED
    BY <1>5, <2>1, FailType DEF RefuseLocally, Release, Goto, Forget, TypeOK
<1>6. ASSUME NEW t \in Tasks, Respond(t) PROVE TypeOK'
  BY <1>6 DEF Respond, TypeOK, rowVars
<1>7. ASSUME NEW t \in Tasks, FinishOk(t) PROVE TypeOK'
  BY <1>7 DEF FinishOk, SetStatus, Goto, Forget, TypeOK
<1>8. ASSUME NEW t \in Tasks, FinishFailed(t) PROVE TypeOK'
  <2>1. PICK after \in IF reply[t] = "refused" THEN RetryAfters ELSE {0} : Fail(t, MaxAttempts, after)
    BY <1>8 DEF FinishFailed
  <2>2. after \in Int
    BY <2>1
  <2>3. QED
    BY <1>8, <2>1, <2>2, FailType DEF FinishFailed, Goto, Forget, TypeOK
<1>9. ASSUME NEW t \in Tasks, BeginTest(t) \/ SkipTest(t) PROVE TypeOK'
  <2>1. CASE BeginTest(t)
    BY <2>1 DEF BeginTest, Goto, TypeOK, rowVars
  <2>2. CASE SkipTest(t)
    BY <2>2, RowCountType DEF SkipTest, InsertRow, Goto, Hold, TypeOK
  <2>3. QED
    BY <1>9, <2>1, <2>2
<1>10. ASSUME NEW t \in Tasks, InsertTest(t) PROVE TypeOK'
  BY <1>10, RowCountType DEF InsertTest, InsertRow, Goto, Hold, TypeOK
<1>11. ASSUME NEW t \in Tasks, RecordTest(t) PROVE TypeOK'
  BY <1>11 DEF RecordTest, SetStatus, Goto, Release, Forget, TypeOK
<1>12. ASSUME NEW d \in Jobs, Enqueue(d) PROVE TypeOK'
  BY <1>12, RowCountType DEF Enqueue, InsertRow, TypeOK, taskVars
<1>13. CASE Tick
  BY <1>13 DEF Tick, CountDown, TypeOK, taskVars
<1>14. ASSUME NEW t \in Tasks, Raise(t) PROVE TypeOK'
  BY <1>14 DEF Raise, Goto, Release, Forget, TypeOK, rowVars
<1>15. ASSUME NEW p \in Procs, Crash(p) PROVE TypeOK'
  BY <1>15 DEF Crash, TypeOK, rowVars
<1>16. CASE UNCHANGED vars
  BY <1>16 DEF vars, rowVars, taskVars, TypeOK
<1>17. QED
  BY <1>1, <1>2, <1>3, <1>4, <1>5, <1>6, <1>7, <1>8, <1>9, <1>10, <1>11, <1>12, <1>13, <1>14, <1>15,
     <1>16 DEF Next, Work

\* Every variable keeps its type in every behaviour, for every value of the
\* constants; in particular no wait or lease ever becomes negative.
THEOREM TypeCorrect == Spec => []TypeOK
<1>1. Init => TypeOK
  BY TypeInit
<1>2. TypeOK /\ [Next]_vars => TypeOK'
  BY TypeNext
<1>3. QED
  BY <1>1, <1>2, PTL DEF Spec

----------------------------------------------------------------------------
(* Coroutines of one process: the inductive invariant. *)

\* The attempts a coroutine may still make are below the larger limit.
LEMMA Limits ==
  /\ LargestLimit \in Nat \ {0} /\ LeastLimit \in Nat \ {0}
  /\ LeastLimit <= MaxAttempts /\ MaxAttempts <= LargestLimit
  /\ LeastLimit <= DefaultMaxAttempts /\ DefaultMaxAttempts <= LargestLimit
  BY QueueAssumption DEF LargestLimit, LeastLimit

\* With one event loop, a coroutine that finds it free is alone between two
\* awaits.
LEMMA Alone ==
  ASSUME SingleProcess, TypeOK, LoopInv, NEW t \in Tasks, LoopFree(t), NEW u \in Tasks
  PROVE  pc[u] \notin {"selected", "claimed", "loaded", "inserted"}
  BY QueueAssumption DEF SingleProcess, TypeOK, LoopInv, LoopFree

\* And so is one that holds it.
LEMMA Sole ==
  ASSUME SingleProcess, TypeOK, LoopInv, NEW t \in Tasks, NEW u \in Tasks, t # u,
         pc[t] \in {"selected", "claimed", "loaded", "inserted"}
  PROVE  pc[u] \notin {"selected", "claimed", "loaded", "inserted"}
  BY QueueAssumption DEF SingleProcess, TypeOK, LoopInv

\* QueueInv holds at the start.
LEMMA InvInit == Init => QueueInv
<1>1. Init => TypeOK
  BY TypeInit
<1>2. Init => LoopInv /\ RowInv /\ ExclusiveClaim /\ LimitInv
  BY QueueAssumption, Limits DEF Init, LoopInv, RowInv, ExclusiveClaim, LimitInv
<1>3. QED
  BY <1>1, <1>2 DEF QueueInv

\* Every step of coroutines that share a loop keeps QueueInv.
LEMMA InvNext == SingleProcess /\ QueueInv /\ [Next]_vars => QueueInv'
<1> SUFFICES ASSUME SingleProcess, QueueInv, [Next]_vars PROVE QueueInv'
  OBVIOUS
<1> DEFINE Parts == LoopInv /\ RowInv /\ ExclusiveClaim /\ LimitInv
<1> USE QueueAssumption DEF QueueInv
<1>0. TypeOK'
  BY TypeNext
<1>1. ASSUME NEW t \in Tasks, SelectDue(t) PROVE Parts'
  BY <1>1, Alone DEF SelectDue, OldestDue, Due, Goto, Hold, TypeOK, LoopInv, RowInv, ExclusiveClaim, LimitInv, rowVars, LoopFree, SingleProcess
<1>2. ASSUME NEW t \in Tasks, ClaimRow(t) PROVE Parts'
  BY <1>2, Sole, Limits DEF ClaimRow, MarkInFlight, Goto, TypeOK, LoopInv, RowInv, ExclusiveClaim, LimitInv
<1>3. ASSUME NEW t \in Tasks, ReadBack(t) PROVE Parts'
  BY <1>3 DEF ReadBack, Goto, TypeOK, LoopInv, RowInv, ExclusiveClaim, LimitInv, rowVars
<1>4. ASSUME NEW t \in Tasks, StartRequest(t) PROVE Parts'
  BY <1>4 DEF StartRequest, Release, Goto, TypeOK, LoopInv, RowInv, ExclusiveClaim, LimitInv, rowVars
<1>5. ASSUME NEW t \in Tasks, RefuseLocally(t) PROVE Parts'
  BY <1>5, Limits DEF RefuseLocally, Fail, Exhausted, SetStatus, Release, Goto, Forget, TypeOK, LoopInv, RowInv, ExclusiveClaim, LimitInv
<1>6. ASSUME NEW t \in Tasks, Respond(t) PROVE Parts'
  BY <1>6 DEF Respond, LoopInv, RowInv, ExclusiveClaim, LimitInv, rowVars
<1>7. ASSUME NEW t \in Tasks, FinishOk(t) PROVE Parts'
  BY <1>7, Alone DEF FinishOk, SetStatus, Goto, Forget, TypeOK, LoopInv, RowInv, ExclusiveClaim, LimitInv
<1>8. ASSUME NEW t \in Tasks, FinishFailed(t) PROVE Parts'
  BY <1>8, Alone, Limits DEF FinishFailed, Fail, Exhausted, SetStatus, Goto, Forget, TypeOK, LoopInv, RowInv, ExclusiveClaim, LimitInv
<1>9. ASSUME NEW t \in Tasks, BeginTest(t) \/ SkipTest(t) PROVE Parts'
  <2>1. CASE BeginTest(t)
    BY <2>1 DEF BeginTest, Goto, TypeOK, LoopInv, RowInv, ExclusiveClaim, LimitInv, rowVars
  <2>2. CASE SkipTest(t)
    BY <2>2, Alone, Limits DEF SkipTest, InsertRow, Goto, Hold, LoopFree, SingleProcess, TypeOK, LoopInv, RowInv, ExclusiveClaim, LimitInv
  <2>3. QED
    BY <1>9, <2>1, <2>2
<1>10. ASSUME NEW t \in Tasks, InsertTest(t) PROVE Parts'
  BY <1>10, Alone, Limits DEF InsertTest, InsertRow, Goto, Hold, TypeOK, LoopInv, RowInv, ExclusiveClaim, LimitInv, LoopFree, SingleProcess
<1>11. ASSUME NEW t \in Tasks, RecordTest(t) PROVE Parts'
  BY <1>11, Sole DEF RecordTest, SetStatus, Goto, Release, Forget, TypeOK, LoopInv, RowInv, ExclusiveClaim, LimitInv
<1>12. ASSUME NEW d \in Jobs, Enqueue(d) PROVE Parts'
  BY <1>12, Limits DEF Enqueue, InsertRow, TypeOK, taskVars, LoopInv, RowInv, ExclusiveClaim, LimitInv
<1>13. CASE Tick
  BY <1>13 DEF Tick, CountDown, TypeOK, taskVars, LoopInv, RowInv, ExclusiveClaim, LimitInv
<1>14. ASSUME NEW t \in Tasks, Raise(t) PROVE Parts'
  BY <1>14 DEF Raise, Goto, Release, Forget, TypeOK, rowVars, LoopInv, RowInv, ExclusiveClaim, LimitInv, SingleProcess
<1>15. ASSUME NEW p \in Procs, Crash(p) PROVE Parts'
  BY <1>15 DEF Crash, TypeOK, rowVars, LoopInv, RowInv, ExclusiveClaim, LimitInv
<1>16. CASE UNCHANGED vars
  BY <1>16 DEF vars, rowVars, taskVars, TypeOK, LoopInv, RowInv, ExclusiveClaim, LimitInv
<1>17. Parts'
  BY <1>1, <1>2, <1>3, <1>4, <1>5, <1>6, <1>7, <1>8, <1>9, <1>10, <1>11, <1>12, <1>13, <1>14, <1>15,
     <1>16 DEF Next, Work
<1>18. QED
  BY <1>0, <1>17

\* The invariant holds throughout, for every set of coroutines of one process.
LEMMA InvCorrect ==
  ASSUME SingleProcess
  PROVE  Spec => []QueueInv
<1>1. SingleProcess /\ QueueInv /\ [Next]_vars => QueueInv'
  BY InvNext
<1>2. QueueInv /\ [Next]_vars => QueueInv'
  BY <1>1
<1>3. Init => QueueInv
  BY InvInit
<1>4. QED
  BY <1>2, <1>3, PTL DEF Spec

\* Coroutines of one process never hold a claim on the same delivery, whatever
\* crashes, exceptions and retries there are: SPEC 6.5 without the lease.
THEOREM OneProcessExcludes ==
  ASSUME SingleProcess
  PROVE  Spec => []ExclusiveClaim
<1>1. QueueInv => ExclusiveClaim
  BY DEF QueueInv
<1>2. QED
  BY <1>1, InvCorrect, PTL

\* They never attempt a delivery more often than the larger of the two limits.
THEOREM OneProcessBoundsAttempts ==
  ASSUME SingleProcess
  PROVE  Spec => []AttemptsBounded
<1>1. QueueInv => AttemptsBounded
  BY DEF QueueInv, LimitInv, AttemptsBounded
<1>2. QED
  BY <1>1, InvCorrect, PTL

\* They never have an attempt under way for a row that was put off.
THEOREM OneProcessBacksOff ==
  ASSUME SingleProcess
  PROVE  Spec => []BackoffHonoured
<1>1. QueueInv => BackoffHonoured
  BY DEF QueueInv, RowInv, BackoffHonoured
<1>2. QED
  BY <1>1, InvCorrect, PTL

\* A step of theirs leaves a settled delivery as it is.
LEMMA SettledStep ==
  SingleProcess /\ QueueInv /\ [Next]_vars =>
    \A d \in Jobs : status[d] \in Settled => status'[d] = status[d]
<1> SUFFICES ASSUME SingleProcess, QueueInv, [Next]_vars, NEW j \in Jobs, status[j] \in Settled
             PROVE  status'[j] = status[j]
  OBVIOUS
<1> USE QueueAssumption DEF QueueInv, TypeOK, RowInv
<1>1. ASSUME NEW t \in Tasks, Work(t) PROVE status'[j] = status[j]
  <2>1. CASE SelectDue(t) \/ ReadBack(t) \/ StartRequest(t)
    BY <2>1 DEF SelectDue, ReadBack, StartRequest, rowVars
  <2>2. CASE ClaimRow(t)
    BY <2>2 DEF ClaimRow, MarkInFlight
  <2>3. CASE RefuseLocally(t)
    BY <2>3 DEF RefuseLocally, Fail, SetStatus
  <2>4. CASE FinishOk(t)
    BY <2>4 DEF FinishOk, SetStatus
  <2>5. CASE FinishFailed(t)
    BY <2>5 DEF FinishFailed, Fail, SetStatus
  <2>6. CASE InsertTest(t)
    BY <2>6 DEF InsertTest, InsertRow
  <2>7. CASE RecordTest(t)
    BY <2>7 DEF RecordTest, SetStatus
  <2>8. QED
    BY <1>1, <2>1, <2>2, <2>3, <2>4, <2>5, <2>6, <2>7 DEF Work
<1>2. ASSUME NEW t \in Tasks, BeginTest(t) \/ SkipTest(t) \/ Respond(t) \/ Raise(t) PROVE status'[j] = status[j]
  <2>1. CASE BeginTest(t) \/ Respond(t) \/ Raise(t)
    BY <2>1 DEF BeginTest, Respond, Raise, rowVars
  <2>2. CASE SkipTest(t)
    BY <2>2 DEF SkipTest, InsertRow
  <2>3. QED
    BY <1>2, <2>1, <2>2
<1>3. ASSUME NEW d \in Jobs, Enqueue(d) PROVE status'[j] = status[j]
  BY <1>3 DEF Enqueue, InsertRow
<1>4. CASE Tick \/ (\E p \in Procs : Crash(p)) \/ UNCHANGED vars
  BY <1>4 DEF Tick, Crash, vars, rowVars
<1>5. QED
  BY <1>1, <1>2, <1>3, <1>4 DEF Next

\* A delivery that succeeded or was given up is never moved again.
THEOREM OneProcessSettles ==
  ASSUME SingleProcess
  PROVE  Spec => SettledIsFinal
<1>1. QueueInv /\ [Next]_vars => \A d \in Jobs : status[d] \in Settled => status'[d] = status[d]
  BY SettledStep
<1>2. QueueInv /\ [Next]_vars => [\A d \in Jobs : status[d] \in Settled => status'[d] = status[d]]_vars
  BY <1>1
<1>3. QED
  BY <1>2, InvCorrect, PTL DEF Spec, SettledIsFinal

----------------------------------------------------------------------------
(* Any number of processes: what follows uses nothing of the event loops,  *)
(* only the order of the statements within one coroutine.                  *)

\* A lease belongs to a row in flight.
LEMMA LeaseNext == TypeOK /\ LeaseInv /\ [Next]_vars => LeaseInv'
<1> SUFFICES ASSUME TypeOK, LeaseInv, [Next]_vars PROVE LeaseInv'
  OBVIOUS
<1> USE DEF TypeOK, LeaseInv
<1>1. ASSUME NEW t \in Tasks, Work(t) PROVE LeaseInv'
  <2>1. CASE SelectDue(t) \/ ReadBack(t) \/ StartRequest(t)
    BY <2>1 DEF SelectDue, ReadBack, StartRequest, rowVars
  <2>2. CASE ClaimRow(t)
    BY <2>2 DEF ClaimRow, MarkInFlight
  <2>3. CASE RefuseLocally(t)
    BY <2>3 DEF RefuseLocally, Fail, SetStatus
  <2>4. CASE FinishOk(t)
    BY <2>4 DEF FinishOk, SetStatus
  <2>5. CASE FinishFailed(t)
    BY <2>5 DEF FinishFailed, Fail, SetStatus
  <2>6. CASE InsertTest(t)
    BY <2>6 DEF InsertTest, InsertRow
  <2>7. CASE RecordTest(t)
    BY <2>7 DEF RecordTest, SetStatus
  <2>8. QED
    BY <1>1, <2>1, <2>2, <2>3, <2>4, <2>5, <2>6, <2>7 DEF Work
<1>2. ASSUME NEW t \in Tasks, BeginTest(t) \/ SkipTest(t) \/ Respond(t) \/ Raise(t) PROVE LeaseInv'
  <2>1. CASE BeginTest(t) \/ Respond(t) \/ Raise(t)
    BY <2>1 DEF BeginTest, Respond, Raise, rowVars
  <2>2. CASE SkipTest(t)
    BY <2>2 DEF SkipTest, InsertRow
  <2>3. QED
    BY <1>2, <2>1, <2>2
<1>3. ASSUME NEW d \in Jobs, Enqueue(d) PROVE LeaseInv'
  BY <1>3 DEF Enqueue, InsertRow
<1>4. CASE Tick
  BY <1>4 DEF Tick, CountDown
<1>5. CASE (\E p \in Procs : Crash(p)) \/ UNCHANGED vars
  BY <1>5 DEF Crash, vars, rowVars
<1>6. QED
  BY <1>1, <1>2, <1>3, <1>4, <1>5 DEF Next

\* For any number of processes: no row that can be claimed by its status has a
\* lease, so that the lease clause of claim_delivery decides nothing and an
\* expired lease makes no row claimable.
THEOREM LeaseDecidesNothing == Spec => []LeaseNeverGates
<1>1. Init => LeaseInv
  BY DEF Init, LeaseInv
<1>2. LeaseInv => LeaseNeverGates
  BY DEF LeaseInv, LeaseNeverGates
<1>3. QED
  BY <1>1, <1>2, LeaseNext, TypeCorrect, PTL DEF Spec

----------------------------------------------------------------------------
(* A success was accepted. *)

\* An acceptance a coroutine saw is one of its delivery.
LEMMA ReplyNext == TypeOK /\ ReplyInv /\ [Next]_vars => ReplyInv'
<1> SUFFICES ASSUME TypeOK, ReplyInv, [Next]_vars PROVE ReplyInv'
  OBVIOUS
<1> USE QueueAssumption DEF TypeOK, ReplyInv, SuccessWasAccepted, Goto
<1>1. ASSUME NEW t \in Tasks, Work(t) PROVE ReplyInv'
  <2>1. CASE SelectDue(t) \/ ReadBack(t) \/ StartRequest(t)
    BY <2>1 DEF SelectDue, ReadBack, StartRequest, rowVars
  <2>2. CASE ClaimRow(t)
    BY <2>2 DEF ClaimRow, MarkInFlight
  <2>3. CASE RefuseLocally(t)
    BY <2>3 DEF RefuseLocally, Fail, SetStatus, Forget
  <2>4. CASE FinishOk(t)
    BY <2>4 DEF FinishOk, SetStatus, Forget
  <2>5. CASE FinishFailed(t)
    BY <2>5 DEF FinishFailed, Fail, SetStatus, Forget
  <2>6. CASE InsertTest(t)
    BY <2>6 DEF InsertTest, InsertRow
  <2>7. CASE RecordTest(t)
    BY <2>7 DEF RecordTest, SetStatus, Forget
  <2>8. QED
    BY <1>1, <2>1, <2>2, <2>3, <2>4, <2>5, <2>6, <2>7 DEF Work
<1>2. ASSUME NEW t \in Tasks, BeginTest(t) \/ SkipTest(t) PROVE ReplyInv'
  <2>1. CASE BeginTest(t)
    BY <2>1 DEF BeginTest, rowVars
  <2>2. CASE SkipTest(t)
    BY <2>2 DEF SkipTest, InsertRow
  <2>3. QED
    BY <1>2, <2>1, <2>2
<1>3. ASSUME NEW t \in Tasks, Respond(t) PROVE ReplyInv'
  BY <1>3 DEF Respond, rowVars
<1>4. ASSUME NEW t \in Tasks, Raise(t) PROVE ReplyInv'
  BY <1>4 DEF Raise, Forget, rowVars
<1>5. ASSUME NEW d \in Jobs, Enqueue(d) PROVE ReplyInv'
  BY <1>5 DEF Enqueue, InsertRow, taskVars
<1>6. ASSUME NEW p \in Procs, Crash(p) PROVE ReplyInv'
  BY <1>6 DEF Crash, rowVars
<1>7. CASE Tick \/ UNCHANGED vars
  BY <1>7 DEF Tick, vars, rowVars, taskVars
<1>8. QED
  BY <1>1, <1>2, <1>3, <1>4, <1>5, <1>6, <1>7 DEF Next

\* For any number of processes: a delivery is recorded as a success only if
\* its destination accepted it.
THEOREM SuccessIsTrue == Spec => []SuccessWasAccepted
<1>1. Init => ReplyInv
  BY DEF Init, ReplyInv, SuccessWasAccepted
<1>2. ReplyInv => SuccessWasAccepted
  BY DEF ReplyInv
<1>3. QED
  BY <1>1, <1>2, ReplyNext, TypeCorrect, PTL DEF Spec

----------------------------------------------------------------------------
(* A dead letter is exhausted. *)

\* Attempts only grow, so that no copy is ahead of them.
LEMMA SeenNext == TypeOK /\ SeenInv /\ [Next]_vars => SeenInv'
<1> SUFFICES ASSUME TypeOK, SeenInv, [Next]_vars PROVE SeenInv'
  OBVIOUS
<1> USE QueueAssumption DEF TypeOK, SeenInv, DeadLetterIsExhausted, Goto
<1>0. LeastLimit \in Nat
  BY Limits
<1>1. ASSUME NEW t \in Tasks, Work(t) PROVE SeenInv'
  <2>1. CASE SelectDue(t)
    BY <2>1 DEF SelectDue, rowVars
  <2>2. CASE ReadBack(t) \/ StartRequest(t)
    BY <2>2 DEF ReadBack, StartRequest, rowVars
  <2>3. CASE ClaimRow(t)
    BY <1>0, <2>3 DEF ClaimRow, MarkInFlight
  <2>4. CASE RefuseLocally(t)
    BY <1>0, <2>4, Limits DEF RefuseLocally, Fail, Exhausted, SetStatus, Forget
  <2>5. CASE FinishOk(t)
    BY <2>5 DEF FinishOk, SetStatus, Forget
  <2>6. CASE FinishFailed(t)
    BY <1>0, <2>6, Limits DEF FinishFailed, Fail, Exhausted, SetStatus, Forget
  <2>7. CASE InsertTest(t)
    BY <2>7 DEF InsertTest, InsertRow
  <2>8. CASE RecordTest(t)
    BY <2>8 DEF RecordTest, SetStatus, Forget
  <2>9. QED
    BY <1>1, <2>1, <2>2, <2>3, <2>4, <2>5, <2>6, <2>7, <2>8 DEF Work
<1>2. ASSUME NEW t \in Tasks, BeginTest(t) \/ SkipTest(t) PROVE SeenInv'
  <2>1. CASE BeginTest(t)
    BY <2>1 DEF BeginTest, rowVars
  <2>2. CASE SkipTest(t)
    BY <2>2 DEF SkipTest, InsertRow
  <2>3. QED
    BY <1>2, <2>1, <2>2
<1>3. ASSUME NEW t \in Tasks, Respond(t) \/ Raise(t) PROVE SeenInv'
  BY <1>3 DEF Respond, Raise, Forget, rowVars
<1>4. ASSUME NEW d \in Jobs, Enqueue(d) PROVE SeenInv'
  BY <1>4 DEF Enqueue, InsertRow, taskVars
<1>5. ASSUME NEW p \in Procs, Crash(p) PROVE SeenInv'
  BY <1>5 DEF Crash, rowVars
<1>6. CASE Tick \/ UNCHANGED vars
  BY <1>6 DEF Tick, vars, rowVars, taskVars
<1>7. QED
  BY <1>1, <1>2, <1>3, <1>4, <1>5, <1>6 DEF Next

\* For any number of processes: a delivery is given up only when its attempts
\* are used up.
THEOREM DeadLettersAreExhausted == Spec => []DeadLetterIsExhausted
<1>1. Init => SeenInv
  BY DEF Init, SeenInv, DeadLetterIsExhausted
<1>2. SeenInv => DeadLetterIsExhausted
  BY DEF SeenInv
<1>3. QED
  BY <1>1, <1>2, SeenNext, TypeCorrect, PTL DEF Spec

\* For any number of processes: a success was accepted, and what was given up
\* had used up its attempts.
THEOREM VerdictsAreAlwaysTrue == Spec => []VerdictsAreTrue
<1>1. SuccessWasAccepted /\ DeadLetterIsExhausted => VerdictsAreTrue
  BY DEF VerdictsAreTrue
<1>2. QED
  BY <1>1, SuccessIsTrue, DeadLettersAreExhausted, PTL

----------------------------------------------------------------------------
(* A row in flight has a coroutine. *)

\* A row in flight keeps its holder until a fault.
LEMMA HeldNext == TypeOK /\ InFlightIsHeld /\ [Next]_vars => InFlightIsHeld'
<1> SUFFICES ASSUME TypeOK, InFlightIsHeld, [Next]_vars PROVE InFlightIsHeld'
  OBVIOUS
<1> USE QueueAssumption DEF TypeOK, InFlightIsHeld, Holders, Goto
<1>1. ASSUME NEW t \in Tasks, Work(t) PROVE InFlightIsHeld'
  <2>1. CASE SelectDue(t)
    BY <2>1 DEF SelectDue, rowVars
  <2>2. CASE ReadBack(t) \/ StartRequest(t)
    BY <2>2 DEF ReadBack, StartRequest, rowVars
  <2>3. CASE ClaimRow(t)
    BY <2>3 DEF ClaimRow, MarkInFlight
  <2>4. CASE RefuseLocally(t)
    BY <2>4 DEF RefuseLocally, Fail, SetStatus, Forget
  <2>5. CASE FinishOk(t)
    BY <2>5 DEF FinishOk, SetStatus, Forget
  <2>6. CASE FinishFailed(t)
    BY <2>6 DEF FinishFailed, Fail, SetStatus, Forget
  <2>7. CASE InsertTest(t)
    BY <2>7 DEF InsertTest, InsertRow
  <2>8. CASE RecordTest(t)
    BY <2>8 DEF RecordTest, SetStatus, Forget
  <2>9. QED
    BY <1>1, <2>1, <2>2, <2>3, <2>4, <2>5, <2>6, <2>7, <2>8 DEF Work
<1>2. ASSUME NEW t \in Tasks, BeginTest(t) \/ SkipTest(t) PROVE InFlightIsHeld'
  <2>1. CASE BeginTest(t)
    BY <2>1 DEF BeginTest, rowVars
  <2>2. CASE SkipTest(t)
    BY <2>2 DEF SkipTest, InsertRow
  <2>3. QED
    BY <1>2, <2>1, <2>2
<1>3. ASSUME NEW t \in Tasks, Respond(t) PROVE InFlightIsHeld'
  BY <1>3 DEF Respond, rowVars
<1>4. CASE (\E t \in Tasks : Raise(t)) \/ (\E p \in Procs : Crash(p))
  <2>1. faults' = faults + 1 /\ faults \in Nat
    BY <1>4 DEF Raise, Crash
  <2>2. QED
    BY <2>1
<1>5. ASSUME NEW d \in Jobs, Enqueue(d) PROVE InFlightIsHeld'
  BY <1>5 DEF Enqueue, InsertRow, taskVars
<1>6. CASE Tick \/ UNCHANGED vars
  BY <1>6 DEF Tick, vars, rowVars, taskVars
<1>7. QED
  BY <1>1, <1>2, <1>3, <1>4, <1>5, <1>6 DEF Next

\* For any number of processes: without a crash or an exception every row in
\* flight has a coroutine that will move it on.
THEOREM NoStrandedRows == Spec => []InFlightIsHeld
<1>1. Init => InFlightIsHeld
  BY DEF Init, InFlightIsHeld
<1>2. QED
  BY <1>1, HeldNext, TypeCorrect, PTL DEF Spec

----------------------------------------------------------------------------
(* Every request was counted. *)

\* Claims are counted by a natural number.
LEMMA UnsentType ==
  ASSUME NEW d PROVE IsFiniteSet(Unsent(d)) /\ Cardinality(Unsent(d)) \in Nat
<1>1. IsFiniteSet(Unsent(d))
  BY QueueAssumption, FS_Subset DEF Unsent
<1>2. QED
  BY <1>1, FS_CardinalityType

\* A step by which no request leaves keeps the count if it adds no claim.
LEMMA CountKept ==
  ASSUME TypeOK, TypeOK', CountInv, NEW d \in Jobs,
         sends'[d] = sends[d], attempts'[d] >= attempts[d], Unsent(d)' \subseteq Unsent(d)
  PROVE  sends'[d] + Cardinality(Unsent(d)') <= attempts'[d]
<1>1. Cardinality(Unsent(d)') <= Cardinality(Unsent(d)) /\ Cardinality(Unsent(d)') \in Nat
  <2>1. IsFiniteSet(Unsent(d)) /\ IsFiniteSet(Unsent(d)')
    BY UnsentType, FS_Subset
  <2>2. QED
    BY <2>1, FS_Subset, FS_CardinalityType
<1>2. Cardinality(Unsent(d)) \in Nat
  BY UnsentType
<1>3. QED
  BY <1>1, <1>2 DEF TypeOK, CountInv

\* Every request of a delivery was counted when its row was claimed.
LEMMA CountNext == TypeOK /\ CountInv /\ [Next]_vars => CountInv'
<1> SUFFICES ASSUME TypeOK, CountInv, [Next]_vars, NEW j \in Jobs
             PROVE  sends'[j] + Cardinality(Unsent(j)') <= attempts'[j]
  BY DEF CountInv
<1> DEFINE Kept == /\ sends'[j] = sends[j] /\ attempts'[j] >= attempts[j]
                   /\ Unsent(j)' \subseteq Unsent(j)
<1> USE QueueAssumption DEF TypeOK, Goto
<1>0. TypeOK'
  BY TypeNext
<1>1. ASSUME NEW t \in Tasks, ClaimRow(t), row[t] = j
      PROVE  sends'[j] + Cardinality(Unsent(j)') <= attempts'[j]
  <2>1. sends'[j] = sends[j] /\ attempts'[j] = attempts[j] + 1
    BY <1>1 DEF ClaimRow, MarkInFlight
  <2>2. Unsent(j)' = Unsent(j) \cup {t} /\ t \notin Unsent(j)
    BY <1>1 DEF ClaimRow, Unsent
  <2>3. Cardinality(Unsent(j)') = Cardinality(Unsent(j)) + 1 /\ Cardinality(Unsent(j)) \in Nat
    <3>1. IsFiniteSet(Unsent(j)) /\ Cardinality(Unsent(j)) \in Nat
      BY UnsentType
    <3>2. Cardinality(Unsent(j) \cup {t}) = Cardinality(Unsent(j)) + 1
      BY <2>2, <3>1, FS_AddElement
    <3>3. QED
      BY <2>2, <3>1, <3>2
  <2>4. sends[j] + Cardinality(Unsent(j)) <= attempts[j] /\ sends[j] \in Nat /\ attempts[j] \in Nat
    BY DEF CountInv
  <2>5. QED
    BY <2>1, <2>3, <2>4
<1>2. ASSUME NEW t \in Tasks, StartRequest(t), row[t] = j
      PROVE  sends'[j] + Cardinality(Unsent(j)') <= attempts'[j]
  <2>1. sends'[j] = sends[j] + 1 /\ attempts'[j] = attempts[j]
    BY <1>2 DEF StartRequest, rowVars
  <2>2. Unsent(j)' = Unsent(j) \ {t} /\ t \in Unsent(j)
    BY <1>2 DEF StartRequest, Unsent
  <2>3. Cardinality(Unsent(j)') = Cardinality(Unsent(j)) - 1 /\ Cardinality(Unsent(j)) \in Nat
    <3>1. IsFiniteSet(Unsent(j)) /\ Cardinality(Unsent(j)) \in Nat
      BY UnsentType
    <3>2. Cardinality(Unsent(j) \ {t}) = Cardinality(Unsent(j)) - 1
      BY <2>2, <3>1, FS_RemoveElement
    <3>3. QED
      BY <2>2, <3>1, <3>2
  <2>4. sends[j] + Cardinality(Unsent(j)) <= attempts[j] /\ sends[j] \in Nat /\ attempts[j] \in Nat
    BY DEF CountInv
  <2>5. QED
    BY <2>1, <2>3, <2>4
<1>3. ASSUME NEW t \in Tasks, (ClaimRow(t) \/ StartRequest(t)) /\ row[t] # j PROVE Kept
  BY <1>3 DEF ClaimRow, MarkInFlight, StartRequest, rowVars, Unsent
<1>4. ASSUME NEW t \in Tasks, SelectDue(t) PROVE Kept
  BY <1>4 DEF SelectDue, rowVars, Unsent
<1>5. ASSUME NEW t \in Tasks, ReadBack(t) PROVE Kept
  BY <1>5 DEF ReadBack, rowVars, Unsent
<1>6. ASSUME NEW t \in Tasks, RefuseLocally(t) \/ FinishOk(t) \/ FinishFailed(t) PROVE Kept
  BY <1>6 DEF RefuseLocally, FinishOk, FinishFailed, Fail, SetStatus, Forget, Unsent
<1>7. ASSUME NEW t \in Tasks, InsertTest(t) PROVE Kept
  BY <1>7 DEF InsertTest, InsertRow, Unsent
<1>8. ASSUME NEW t \in Tasks, RecordTest(t) PROVE Kept
  BY <1>8 DEF RecordTest, SetStatus, Forget, Unsent
<1>9. ASSUME NEW t \in Tasks, BeginTest(t) \/ SkipTest(t) PROVE Kept
  <2>1. CASE BeginTest(t)
    BY <2>1 DEF BeginTest, rowVars, Unsent
  <2>2. CASE SkipTest(t)
    BY <2>2 DEF SkipTest, InsertRow, Unsent
  <2>3. QED
    BY <1>9, <2>1, <2>2
<1>10. ASSUME NEW t \in Tasks, Respond(t) \/ Raise(t) PROVE Kept
  BY <1>10 DEF Respond, Raise, Forget, rowVars, Unsent
<1>11. ASSUME NEW d \in Jobs, Enqueue(d) PROVE Kept
  BY <1>11 DEF Enqueue, InsertRow, taskVars, Unsent
<1>12. ASSUME NEW p \in Procs, Crash(p) PROVE Kept
  BY <1>12 DEF Crash, rowVars, Unsent
<1>13. CASE Tick \/ UNCHANGED vars
  BY <1>13, CountKept, <1>0 DEF Tick, vars, rowVars, taskVars, Unsent
<1>14. Kept => sends'[j] + Cardinality(Unsent(j)') <= attempts'[j]
  BY <1>0, CountKept
<1>15. QED
  BY <1>1, <1>2, <1>3, <1>4, <1>5, <1>6, <1>7, <1>8, <1>9, <1>10, <1>11, <1>12, <1>13, <1>14
     DEF Next, Work

\* For any number of processes: every request of a queued delivery was counted
\* in attempts before it left.
THEOREM RequestsAreCounted == Spec => []SendsAreCounted
<1>1. Init => CountInv
  <2> SUFFICES ASSUME Init, NEW d \in Jobs PROVE sends[d] + Cardinality(Unsent(d)) <= attempts[d]
    BY DEF CountInv
  <2>1. Unsent(d) = {}
    BY DEF Init, Unsent
  <2>2. QED
    BY <2>1, FS_EmptySet DEF Init
<1>2. TypeOK /\ CountInv => SendsAreCounted
  <2> SUFFICES ASSUME TypeOK, CountInv, NEW d \in Jobs PROVE sends[d] <= attempts[d]
    BY DEF SendsAreCounted
  <2>1. Cardinality(Unsent(d)) \in Nat
    BY UnsentType
  <2>2. QED
    BY <2>1 DEF TypeOK, CountInv
<1>3. QED
  BY <1>1, <1>2, CountNext, TypeCorrect, PTL DEF Spec

----------------------------------------------------------------------------
(* Any number of processes: how far a limit is exceeded. *)

\* A coroutine between two awaits has the loop of its process, and what it has
\* selected is a row of the table, in every process alike.
LEMMA HoldNext == TypeOK /\ HoldInv /\ [Next]_vars => HoldInv'
<1> SUFFICES ASSUME TypeOK, HoldInv, [Next]_vars PROVE HoldInv'
  OBVIOUS
<1> USE QueueAssumption DEF TypeOK, HoldInv, Goto, Hold, Release, LoopFree
<1>1. ASSUME NEW t \in Tasks, SelectDue(t) PROVE HoldInv'
  BY <1>1 DEF SelectDue, OldestDue, Due, rowVars
<1>2. ASSUME NEW t \in Tasks, ClaimRow(t) PROVE HoldInv'
  BY <1>2 DEF ClaimRow, MarkInFlight
<1>3. ASSUME NEW t \in Tasks, ReadBack(t) \/ StartRequest(t) PROVE HoldInv'
  BY <1>3 DEF ReadBack, StartRequest, rowVars
<1>4. ASSUME NEW t \in Tasks, RefuseLocally(t) PROVE HoldInv'
  BY <1>4 DEF RefuseLocally, Fail, SetStatus, Forget
<1>5. ASSUME NEW t \in Tasks, FinishOk(t) PROVE HoldInv'
  BY <1>5 DEF FinishOk, SetStatus, Forget
<1>6. ASSUME NEW t \in Tasks, FinishFailed(t) PROVE HoldInv'
  BY <1>6 DEF FinishFailed, Fail, SetStatus, Forget
<1>7. ASSUME NEW t \in Tasks, InsertTest(t) PROVE HoldInv'
  BY <1>7 DEF InsertTest, InsertRow
<1>8. ASSUME NEW t \in Tasks, RecordTest(t) PROVE HoldInv'
  BY <1>8 DEF RecordTest, SetStatus, Forget
<1>9. ASSUME NEW t \in Tasks, BeginTest(t) \/ Respond(t) PROVE HoldInv'
  BY <1>9 DEF BeginTest, Respond, rowVars
<1>10. ASSUME NEW t \in Tasks, SkipTest(t) PROVE HoldInv'
  BY <1>10 DEF SkipTest, InsertRow
<1>11. ASSUME NEW t \in Tasks, Raise(t) PROVE HoldInv'
  BY <1>11 DEF Raise, Forget, rowVars
<1>12. ASSUME NEW d \in Jobs, Enqueue(d) PROVE HoldInv'
  BY <1>12 DEF Enqueue, InsertRow, taskVars
<1>13. ASSUME NEW p \in Procs, Crash(p) PROVE HoldInv'
  BY <1>13 DEF Crash, rowVars
<1>14. CASE Tick \/ UNCHANGED vars
  BY <1>14 DEF Tick, vars, rowVars, taskVars
<1>15. QED
  BY <1>1, <1>2, <1>3, <1>4, <1>5, <1>6, <1>7, <1>8, <1>9, <1>10, <1>11, <1>12, <1>13, <1>14
     DEF Next, Work

\* Coroutines that each have the loop of their process are as many as the
\* processes at most.
LEMMA OnePerLoop ==
  ASSUME NEW T \in SUBSET Tasks, NEW f, \A t \in T : f[ProcOf[t]] = t
  PROVE  IsFiniteSet(T) /\ Cardinality(T) \in Nat /\ Cardinality(T) <= Cardinality(Procs)
<1> DEFINE home == [t \in T |-> ProcOf[t]]
<1>1. home \in [T -> Procs]
  BY QueueAssumption
<1>2. \A t, u \in T : home[t] = home[u] => t = u
  OBVIOUS
<1>3. home \in Injection(T, Procs)
  <2> HIDE DEF home
  <2>1. QED
    BY <1>1, <1>2 DEF Injection, IsInjective
<1>4. IsFiniteSet(T) /\ Cardinality(T) <= Cardinality(Procs)
  <2> HIDE DEF home
  <2>1. QED
    BY <1>3, QueueAssumption, FS_Injection
<1>5. QED
  BY <1>4, FS_CardinalityType

\* There is a coroutine, and a process it runs in.
LEMMA Sizes ==
  /\ Cardinality(Procs) \in Nat /\ Cardinality(Procs) >= 1
  /\ Cardinality(Tasks) \in Nat /\ Cardinality(Tasks) >= 1
<1>1. Cardinality(Procs) \in Nat /\ Cardinality(Tasks) \in Nat
  BY QueueAssumption, FS_CardinalityType
<1>2. Procs # {} /\ Tasks # {}
  BY QueueAssumption
<1>3. Cardinality(Procs) # 0 /\ Cardinality(Tasks) # 0
  BY <1>2, QueueAssumption, FS_EmptySet
<1>4. QED
  BY <1>1, <1>3

\* Taking away one stale copy pays for one claim in every process.
LEMMA Exchange ==
  ASSUME NEW m \in Nat, NEW s \in Nat, NEW r \in Nat, r <= s - 1
  PROVE  m + m * r <= m * s
<1>1. PICK k \in Nat : s = r + 1 + k
  <2>1. s - r - 1 \in Nat /\ s = r + 1 + (s - r - 1)
    OBVIOUS
  <2>2. QED
    BY <2>1
<1>2. m * s = m * r + m + m * k /\ m * k \in Nat /\ m * r \in Nat
  BY <1>1
<1>3. QED
  BY <1>2

\* Fewer stale copies weigh no more.
LEMMA Lighter ==
  ASSUME NEW m \in Nat, NEW s \in Nat, NEW r \in Nat, r <= s
  PROVE  m * r \in Nat /\ m * s \in Nat /\ m * r <= m * s
<1>1. PICK k \in Nat : s = r + k
  <2>1. s - r \in Nat /\ s = r + (s - r)
    OBVIOUS
  <2>2. QED
    BY <2>1
<1>2. m * s = m * r + m * k /\ m * k \in Nat /\ m * r \in Nat /\ m * s \in Nat
  BY <1>1
<1>3. QED
  BY <1>2

\* The two sets of coroutines the bound counts, in numbers.
LEMMA Counts ==
  ASSUME TypeOK, HoldInv, NEW d \in Deliveries
  PROVE  /\ IsFiniteSet(Picked(d)) /\ Cardinality(Picked(d)) \in Nat
         /\ Cardinality(Picked(d)) <= Cardinality(Procs)
         /\ IsFiniteSet(Stale(d)) /\ Cardinality(Stale(d)) \in Nat
<1>1. \A t \in Picked(d) : loop[ProcOf[t]] = t
  BY DEF Picked, HoldInv
<1>2. Picked(d) \in SUBSET Tasks /\ Stale(d) \in SUBSET Tasks
  BY DEF Picked, Stale
<1>3. IsFiniteSet(Picked(d)) /\ Cardinality(Picked(d)) \in Nat /\ Cardinality(Picked(d)) <= Cardinality(Procs)
  BY <1>1, <1>2, OnePerLoop
<1>4. IsFiniteSet(Stale(d)) /\ Cardinality(Stale(d)) \in Nat
  BY <1>2, QueueAssumption, FS_Subset, FS_CardinalityType
<1>5. QED
  BY <1>3, <1>4

\* The same after a step.
LEMMA CountsNext ==
  ASSUME TypeOK', HoldInv', NEW d \in Deliveries
  PROVE  /\ IsFiniteSet(Picked(d)') /\ Cardinality(Picked(d)') \in Nat
         /\ Cardinality(Picked(d)') <= Cardinality(Procs)
         /\ IsFiniteSet(Stale(d)') /\ Cardinality(Stale(d)') \in Nat
<1>1. \A t \in Picked(d)' : loop'[ProcOf[t]] = t
  BY DEF Picked, HoldInv
<1>2. Picked(d)' \in SUBSET Tasks /\ Stale(d)' \in SUBSET Tasks
  BY DEF Picked, Stale
<1>3. IsFiniteSet(Picked(d)') /\ Cardinality(Picked(d)') \in Nat /\ Cardinality(Picked(d)') <= Cardinality(Procs)
  BY <1>1, <1>2, OnePerLoop
<1>4. IsFiniteSet(Stale(d)') /\ Cardinality(Stale(d)') \in Nat
  BY <1>2, QueueAssumption, FS_Subset, FS_CardinalityType
<1>5. QED
  BY <1>3, <1>4

\* A step that claims nothing and puts no row back from a stale copy keeps the
\* bound: no stale copy is added, and the row either was waiting before or is
\* not waiting now and selected by nobody new.
LEMMA OverKept ==
  ASSUME TypeOK, HoldInv, TypeOK', HoldInv', NEW d \in Deliveries, OverAt(d),
         attempts'[d] = attempts[d],
         attempts[d] >= LargestLimit =>
           /\ Stale(d)' \subseteq Stale(d)
           /\ \/ status[d] \in Waiting
              \/ status'[d] \notin Waiting /\ Picked(d)' \subseteq Picked(d)
  PROVE  OverAt(d)'
<1> SUFFICES ASSUME attempts[d] >= LargestLimit
             PROVE  attempts'[d] + Claims(d)' + Cardinality(Procs) * Cardinality(Stale(d)')
                      <= LargestLimit + Cardinality(Procs) * (Cardinality(Tasks) - 1)
  BY DEF OverAt
<1> DEFINE m == Cardinality(Procs)  S == Cardinality(Stale(d))  R == Cardinality(Stale(d)')
<1>1. m \in Nat /\ S \in Nat /\ R \in Nat
  BY Sizes, Counts, CountsNext
<1>2. R <= S
  BY Counts, FS_Subset
<1>3. m * R <= m * S /\ m * R \in Nat /\ m * S \in Nat
  <2> HIDE DEF m, S, R
  <2>1. QED
    BY <1>1, <1>2, Lighter
<1>4. Claims(d)' <= Claims(d) /\ Claims(d)' \in Nat /\ Claims(d) \in Nat
  <2>1. CASE status[d] \in Waiting
    BY <2>1, Counts, CountsNext, Sizes DEF Claims
  <2>2. CASE status[d] \notin Waiting
    <3>1. status'[d] \notin Waiting /\ Picked(d)' \subseteq Picked(d)
      BY <2>2
    <3>2. Cardinality(Picked(d)') <= Cardinality(Picked(d))
      BY <3>1, Counts, FS_Subset
    <3>3. QED
      BY <2>2, <3>1, <3>2, Counts, CountsNext DEF Claims
  <2>3. QED
    BY <2>1, <2>2
<1>5. attempts[d] + Claims(d) + m * S <= LargestLimit + m * (Cardinality(Tasks) - 1)
  BY DEF OverAt
<1>6. m * (Cardinality(Tasks) - 1) \in Int /\ LargestLimit \in Nat /\ attempts[d] \in Nat
  BY Sizes, Limits DEF TypeOK
<1>7. attempts[d] + Claims(d)' + m * R <= LargestLimit + m * (Cardinality(Tasks) - 1)
  <2> DEFINE X == m * R  Y == m * S  Z == m * (Cardinality(Tasks) - 1)
  <2>1. X <= Y /\ X \in Nat /\ Y \in Nat /\ Z \in Int /\ attempts[d] + Claims(d) + Y <= LargestLimit + Z
    BY <1>3, <1>5, <1>6
  <2> HIDE DEF X, Y, Z
  <2>2. attempts[d] + Claims(d)' + X <= LargestLimit + Z
    BY <2>1, <1>4, <1>6
  <2>3. QED
    BY <2>2 DEF X, Z
<1>8. QED
  BY <1>7

\* The claim itself: beyond the limit it uses up one that was counted; the one
\* that reaches the limit leaves room for all the other coroutines.
LEMMA OverClaim ==
  ASSUME TypeOK, HoldInv, TypeOK', HoldInv', NEW t \in Tasks, ClaimRow(t),
         NEW d \in Deliveries, row[t] = d, OverAt(d)
  PROVE  OverAt(d)'
<1> DEFINE m == Cardinality(Procs)  n == Cardinality(Tasks)
           P == Cardinality(Picked(d)')  S == Cardinality(Stale(d)')
<1>1. d \in Deliveries
  OBVIOUS
<1>2. status'[d] = "in_flight" /\ attempts'[d] = attempts[d] + 1 /\ attempts[d] \in Nat
  BY <1>1 DEF ClaimRow, MarkInFlight, TypeOK
<1>3. Picked(d)' = Picked(d) \ {t} /\ t \in Picked(d)
  BY DEF ClaimRow, Picked, Goto, TypeOK
<1>4. Stale(d)' = Stale(d) /\ t \notin Stale(d)
  BY DEF ClaimRow, Stale, Goto, TypeOK
<1>5. m \in Nat /\ m >= 1 /\ n \in Nat /\ LargestLimit \in Nat
  BY Sizes, Limits
<1>6. P \in Nat /\ S \in Nat /\ P = Cardinality(Picked(d)) - 1 /\ S = Cardinality(Stale(d))
  <2>1. IsFiniteSet(Picked(d)) /\ P \in Nat /\ S \in Nat
    BY Counts, CountsNext
  <2>2. P = Cardinality(Picked(d)) - 1
    BY <1>3, <2>1, FS_RemoveElement
  <2>3. QED
    BY <1>4, <2>1, <2>2
<1>7. Claims(d)' = P
  BY <1>2 DEF Claims
<1>8. ASSUME attempts[d] >= LargestLimit
      PROVE  attempts'[d] + P + m * S <= LargestLimit + m * (n - 1)
  <2>1. Claims(d) >= P + 1 /\ Claims(d) \in Nat
    BY <1>1, <1>5, <1>6, Counts DEF Claims
  <2>2. attempts[d] + Claims(d) + m * S <= LargestLimit + m * (n - 1)
    BY <1>6, <1>8 DEF OverAt
  <2> DEFINE Y == m * S  Z == m * (n - 1)
  <2>3. Y \in Int /\ Z \in Int /\ attempts[d] + Claims(d) + Y <= LargestLimit + Z
    BY <2>2, <1>5, <1>6
  <2> HIDE DEF Y, Z, P
  <2>4. attempts'[d] + P + Y <= LargestLimit + Z
    BY <2>1, <2>3, <1>2, <1>5, <1>6
  <2>5. QED
    BY <2>4 DEF Y, Z
<1>9. ASSUME ~(attempts[d] >= LargestLimit), attempts'[d] >= LargestLimit
      PROVE  attempts'[d] + P + m * S <= LargestLimit + m * (n - 1)
  <2>1. attempts'[d] = LargestLimit
    BY <1>2, <1>5, <1>9
  <2>2. Picked(d)' \cap Stale(d)' = {}
    BY DEF Picked, Stale
  <2>3. (Picked(d)' \cup Stale(d)') \in SUBSET (Tasks \ {t})
    BY <1>3, <1>4 DEF Picked, Stale
  <2>4. IsFiniteSet(Picked(d)') /\ IsFiniteSet(Stale(d)')
    BY <1>1, CountsNext
  <2>5. Cardinality(Picked(d)' \cup Stale(d)') = P + S
    <3>1. Cardinality(Picked(d)' \cup Stale(d)') = P + S - Cardinality(Picked(d)' \cap Stale(d)')
      BY <2>4, FS_Union
    <3>2. Cardinality(Picked(d)' \cap Stale(d)') = 0
      BY <2>2, FS_EmptySet
    <3>3. QED
      BY <3>1, <3>2, <1>6
  <2>6. IsFiniteSet(Tasks \ {t}) /\ Cardinality(Tasks \ {t}) = n - 1
    BY QueueAssumption, FS_RemoveElement
  <2>7. P + S <= n - 1
    BY <2>3, <2>5, <2>6, FS_Subset
  <2>8. n - 1 \in Nat /\ P + S \in Nat
    BY <2>7, <1>5, <1>6
  <2> HIDE DEF P, S, m, n
  <2>9. m * (P + S) <= m * (n - 1)
    BY <2>7, <2>8, <1>5, Lighter
  <2>10. m * (P + S) = m * P + m * S /\ m * P \in Nat /\ m * S \in Nat
    BY <1>5, <1>6
  <2>11. P <= m * P
    <3>1. 1 * P <= m * P
      <4>1. P * 1 <= P * m
        BY <1>5, <1>6, Lighter
      <4>2. QED
        BY <4>1, <1>5, <1>6
    <3>2. QED
      BY <3>1, <1>6
  <2>12. P + m * S <= m * (n - 1)
    BY <2>9, <2>10, <2>11, <1>6, <2>8, <1>5
  <2>13. QED
    BY <2>1, <2>12, <1>5, <1>6, <2>8
<1>10. QED
  BY <1>2, <1>7, <1>8, <1>9 DEF OverAt

\* A row written back from the coroutine's copy: as a dead letter, or from a
\* stale copy, which pays for a new claim in every process.
LEMMA OverFail ==
  ASSUME TypeOK, HoldInv, TypeOK', HoldInv', NEW t \in Tasks, pc[t] \in {"loaded", "sending"},
         NEW limit \in {MaxAttempts, DefaultMaxAttempts}, NEW after, Fail(t, limit, after),
         Goto(t, "idle"), Forget(t), NEW d \in Deliveries, OverAt(d)
  PROVE  OverAt(d)'
<1> USE DEF TypeOK
<1>1. row[t] \in Deliveries /\ attempts' = attempts
  BY DEF Fail, SetStatus
<1>2. Stale(d)' = Stale(d) \ {t}
  BY DEF Stale, Goto, Forget
<1>3. Picked(d)' \subseteq Picked(d)
  BY DEF Picked, Goto, Forget
<1>4. CASE d # row[t]
  <2>1. status'[d] = status[d]
    BY <1>1, <1>4 DEF Fail, SetStatus
  <2>2. QED
    BY <1>1, <1>2, <1>3, <2>1, OverKept
<1>5. CASE d = row[t] /\ Exhausted(seen[t], limit)
  <2>1. status'[d] = "dead_letter"
    BY <1>1, <1>5 DEF Fail, SetStatus
  <2>2. QED
    BY <1>1, <1>2, <1>3, <2>1, OverKept
<1>6. CASE d = row[t] /\ ~Exhausted(seen[t], limit)
  <2> DEFINE m == Cardinality(Procs)  n == Cardinality(Tasks)
             S == Cardinality(Stale(d))  R == Cardinality(Stale(d)')
  <2>1. seen[t] < LargestLimit
    <3>1. limit \in Nat /\ limit <= LargestLimit
      BY Limits, QueueAssumption
    <3>2. seen[t] \in Nat /\ ~(seen[t] >= limit)
      BY <1>6 DEF Exhausted
    <3>3. QED
      BY <3>1, <3>2, Limits
  <2>2. t \in Stale(d)
    BY <1>6, <2>1 DEF Stale
  <2>3. status'[d] = "retrying"
    BY <1>1, <1>6 DEF Fail, SetStatus
  <2>4. m \in Nat /\ n \in Nat /\ S \in Nat /\ R \in Nat /\ R = S - 1
    <3>1. IsFiniteSet(Stale(d)) /\ S \in Nat
      BY Counts
    <3>2. R = S - 1
      <4>1. Cardinality(Stale(d) \ {t}) = Cardinality(Stale(d)) - 1
        BY <2>2, <3>1, FS_RemoveElement
      <4>2. QED
        BY <1>2, <4>1
    <3>3. R \in Nat
      BY CountsNext
    <3>4. QED
      BY <3>1, <3>2, <3>3, Sizes
  <2>5. Claims(d)' = m /\ Claims(d) \in Nat
    BY <2>3, Counts, Sizes DEF Claims
  <2>6. ASSUME attempts[d] >= LargestLimit
        PROVE  attempts[d] + m + m * R <= LargestLimit + m * (n - 1)
    <3>1. attempts[d] + Claims(d) + m * S <= LargestLimit + m * (n - 1)
      BY <2>6 DEF OverAt
    <3>2. attempts[d] \in Nat /\ LargestLimit \in Nat
      BY Limits
    <3> HIDE DEF m, n, S, R
    <3>3. m + m * R <= m * S /\ m * R \in Nat /\ m * S \in Nat /\ m * (n - 1) \in Int
      BY <2>4, Exchange
    <3> DEFINE X == m * R  Y == m * S  Z == m * (n - 1)
    <3>4. /\ m + X <= Y /\ X \in Nat /\ Y \in Nat /\ Z \in Int
          /\ attempts[d] + Claims(d) + Y <= LargestLimit + Z
      BY <3>1, <3>3
    <3> HIDE DEF X, Y, Z
    <3>5. attempts[d] + m + X <= LargestLimit + Z
      BY <3>2, <3>4, <2>4, <2>5
    <3>6. QED
      BY <3>5 DEF X, Z
  <2>7. QED
    BY <1>1, <2>5, <2>6 DEF OverAt
<1>7. QED
  BY <1>4, <1>5, <1>6

\* Every step keeps the account of claims and stale copies.
LEMMA OverNext == TypeOK /\ HoldInv /\ OverInv /\ [Next]_vars => OverInv'
<1> SUFFICES ASSUME TypeOK, HoldInv, OverInv, [Next]_vars, NEW d \in Deliveries PROVE OverAt(d)'
  BY DEF OverInv
<1>1. TypeOK' /\ HoldInv' /\ OverAt(d)
  BY TypeNext, HoldNext DEF OverInv
<1> DEFINE Kept == /\ attempts'[d] = attempts[d]
                   /\ attempts[d] >= LargestLimit =>
                        /\ Stale(d)' \subseteq Stale(d)
                        /\ \/ status[d] \in Waiting
                           \/ status'[d] \notin Waiting /\ Picked(d)' \subseteq Picked(d)
<1>2. Kept => OverAt(d)'
  BY <1>1, OverKept
<1>3. attempts[d] >= LargestLimit => status[d] # "absent"
  BY Limits DEF HoldInv
<1> HIDE DEF Kept
<1>4. ASSUME NEW t \in Tasks, SelectDue(t) PROVE OverAt(d)'
  <2>1. PICK e \in Deliveries : OldestDue(e) /\ row' = [row EXCEPT ![t] = e]
    BY <1>4 DEF SelectDue
  <2>2. attempts' = attempts /\ status' = status /\ Stale(d)' = Stale(d)
    BY <1>4, <2>1 DEF SelectDue, Goto, rowVars, Stale, TypeOK
  <2>3. d # e => Picked(d)' = Picked(d)
    BY <1>4, <2>1 DEF SelectDue, Goto, Picked, TypeOK
  <2>4. Kept
    BY <2>1, <2>2, <2>3 DEF Kept, OldestDue, Due
  <2>5. QED
    BY <1>2, <2>4
<1>5. ASSUME NEW t \in Tasks, ClaimRow(t) PROVE OverAt(d)'
  <2>1. CASE row[t] = d
    BY <1>1, <1>5, <2>1, OverClaim
  <2>2. CASE row[t] # d
    <3>1. attempts'[d] = attempts[d] /\ status'[d] = status[d]
      BY <1>5, <2>2 DEF ClaimRow, MarkInFlight, TypeOK
    <3>2. Stale(d)' = Stale(d) /\ Picked(d)' = Picked(d)
      BY <1>5, <2>2 DEF ClaimRow, Goto, Stale, Picked, TypeOK
    <3>3. QED
      BY <1>2, <3>1, <3>2 DEF Kept
  <2>3. QED
    BY <2>1, <2>2
<1>6. ASSUME NEW t \in Tasks, ReadBack(t) PROVE OverAt(d)'
  <2>1. attempts' = attempts /\ status' = status /\ Picked(d)' = Picked(d)
    BY <1>6 DEF ReadBack, Goto, rowVars, Picked, TypeOK
  <2>2. attempts[d] >= LargestLimit => Stale(d)' \subseteq Stale(d)
    BY <1>6, Limits DEF ReadBack, Goto, Stale, TypeOK
  <2>3. QED
    BY <1>2, <2>1, <2>2 DEF Kept
<1>7. ASSUME NEW t \in Tasks, StartRequest(t) PROVE OverAt(d)'
  <2>1. attempts' = attempts /\ status' = status
    BY <1>7 DEF StartRequest, rowVars
  <2>2. Picked(d)' = Picked(d) /\ Stale(d)' = Stale(d)
    BY <1>7 DEF StartRequest, Goto, Stale, Picked, TypeOK
  <2>3. QED
    BY <1>2, <2>1, <2>2 DEF Kept
<1>8. ASSUME NEW t \in Tasks, RefuseLocally(t) PROVE OverAt(d)'
  BY <1>1, <1>8, OverFail DEF RefuseLocally
<1>9. ASSUME NEW t \in Tasks, FinishFailed(t) PROVE OverAt(d)'
  BY <1>1, <1>9, OverFail DEF FinishFailed
<1>10. ASSUME NEW t \in Tasks, FinishOk(t) PROVE OverAt(d)'
  <2>1. attempts' = attempts /\ (status'[d] = status[d] \/ status'[d] \notin Waiting)
    BY <1>10 DEF FinishOk, SetStatus, TypeOK
  <2>2. Picked(d)' \subseteq Picked(d) /\ Stale(d)' \subseteq Stale(d)
    BY <1>10 DEF FinishOk, Goto, Forget, Stale, Picked, TypeOK
  <2>3. QED
    BY <1>2, <2>1, <2>2 DEF Kept
<1>11. ASSUME NEW t \in Tasks, RecordTest(t) PROVE OverAt(d)'
  <2>1. attempts' = attempts /\ (status'[d] = status[d] \/ status'[d] \notin Waiting)
    BY <1>11 DEF RecordTest, SetStatus, TypeOK
  <2>2. Picked(d)' \subseteq Picked(d) /\ Stale(d)' \subseteq Stale(d)
    BY <1>11 DEF RecordTest, Goto, Forget, Stale, Picked, TypeOK
  <2>3. QED
    BY <1>2, <2>1, <2>2 DEF Kept
<1>12. ASSUME NEW t \in Tasks, InsertTest(t) \/ SkipTest(t) PROVE OverAt(d)'
  <2>1. attempts' = attempts /\ (status[d] # "absent" => status'[d] = status[d])
    BY <1>12 DEF InsertTest, SkipTest, InsertRow, TypeOK
  <2>2. Picked(d)' \subseteq Picked(d) /\ Stale(d)' \subseteq Stale(d)
    BY <1>12 DEF InsertTest, SkipTest, Goto, Stale, Picked, TypeOK
  <2>3. QED
    BY <1>2, <1>3, <2>1, <2>2 DEF Kept
<1>13. ASSUME NEW e \in Jobs, Enqueue(e) PROVE OverAt(d)'
  <2>1. attempts' = attempts /\ (status[d] # "absent" => status'[d] = status[d])
    BY <1>13 DEF Enqueue, InsertRow, TypeOK
  <2>2. Picked(d)' = Picked(d) /\ Stale(d)' = Stale(d)
    BY <1>13 DEF Enqueue, taskVars, Stale, Picked
  <2>3. QED
    BY <1>2, <1>3, <2>1, <2>2 DEF Kept
<1>14. ASSUME NEW t \in Tasks, BeginTest(t) \/ Respond(t) \/ Raise(t) PROVE OverAt(d)'
  <2>1. attempts' = attempts /\ status' = status
    BY <1>14 DEF BeginTest, Respond, Raise, rowVars
  <2>2. Picked(d)' \subseteq Picked(d) /\ Stale(d)' \subseteq Stale(d)
    BY <1>14 DEF BeginTest, Respond, Raise, Goto, Forget, Stale, Picked, TypeOK
  <2>3. QED
    BY <1>2, <2>1, <2>2 DEF Kept
<1>15. ASSUME NEW p \in Procs, Crash(p) PROVE OverAt(d)'
  <2>1. attempts' = attempts /\ status' = status
    BY <1>15 DEF Crash, rowVars
  <2>2. Picked(d)' \subseteq Picked(d) /\ Stale(d)' \subseteq Stale(d)
    BY <1>15 DEF Crash, Stale, Picked, TypeOK
  <2>3. QED
    BY <1>2, <2>1, <2>2 DEF Kept
<1>16. CASE Tick \/ UNCHANGED vars
  <2>1. attempts' = attempts /\ status' = status /\ Picked(d)' = Picked(d) /\ Stale(d)' = Stale(d)
    BY <1>16 DEF Tick, vars, rowVars, taskVars, Stale, Picked
  <2>2. QED
    BY <1>2, <2>1 DEF Kept
<1>17. QED
  BY <1>4, <1>5, <1>6, <1>7, <1>8, <1>9, <1>10, <1>11, <1>12, <1>13, <1>14, <1>15, <1>16
     DEF Next, Work

\* For any number of processes and coroutines: a delivery is claimed beyond its
\* limit at most once in every process for each coroutine beside the first.
THEOREM OvershootIsBounded == Spec => []OvershootBounded
<1>1. Init => HoldInv
  BY DEF Init, HoldInv
<1>2. Init => OverInv
  <2> SUFFICES ASSUME Init, NEW d \in Deliveries PROVE OverAt(d)
    BY DEF OverInv
  <2>1. ~(attempts[d] >= LargestLimit)
    BY Limits DEF Init
  <2>2. QED
    BY <2>1 DEF OverAt
<1>3. TypeOK /\ HoldInv /\ OverInv => OvershootBounded
  <2> SUFFICES ASSUME TypeOK, HoldInv, OverInv, NEW d \in Deliveries
               PROVE  attempts[d] <= LargestLimit + Cardinality(Procs) * (Cardinality(Tasks) - 1)
    BY DEF OvershootBounded
  <2> DEFINE m == Cardinality(Procs)  n == Cardinality(Tasks)
  <2>1. m \in Nat /\ n \in Nat /\ LargestLimit \in Nat /\ attempts[d] \in Nat
    BY Sizes, Limits DEF TypeOK
  <2>2. CASE attempts[d] >= LargestLimit
    <3>1. attempts[d] + Claims(d) + m * Cardinality(Stale(d)) <= LargestLimit + m * (n - 1)
      BY <2>2 DEF OverInv, OverAt
    <3>2. Claims(d) \in Nat /\ Cardinality(Stale(d)) \in Nat
      BY Counts, Sizes DEF Claims
    <3>3. m * Cardinality(Stale(d)) \in Nat /\ m * (n - 1) \in Int
      BY <2>1, <3>2
    <3>4. QED
      BY <2>1, <3>1, <3>2, <3>3
  <2>3. CASE ~(attempts[d] >= LargestLimit)
    <3>1. n - 1 \in Nat
      BY <2>1, Sizes
    <3>2. m * (n - 1) \in Nat
      BY <2>1, <3>1
    <3>3. QED
      BY <2>1, <2>3, <3>2
  <2>4. QED
    BY <2>2, <2>3
<1>4. QED
  BY <1>1, <1>2, <1>3, HoldNext, OverNext, TypeCorrect, PTL DEF Spec

----------------------------------------------------------------------------
(* Rows of test_webhook. *)

\* The row of a test stays with its handler.
LEMMA TestNext ==
  SingleProcess /\ QueueInv /\ TestInv /\ [Next]_vars => TestInv'
<1> SUFFICES ASSUME SingleProcess, QueueInv, TestInv, [Next]_vars PROVE TestInv'
  OBVIOUS
<1> USE QueueAssumption DEF QueueInv, TypeOK, TestInv, Goto
<1>1. ASSUME NEW t \in Tasks, SelectDue(t) PROVE TestInv'
  <2>1. \A u \in Tasks : pc[u] # "inserted"
    BY <1>1, Alone DEF SelectDue
  <2>2. QED
    BY <1>1, <2>1 DEF SelectDue, OldestDue, Due, rowVars
<1>2. ASSUME NEW t \in Tasks, ReadBack(t) PROVE TestInv'
  BY <1>2 DEF ReadBack, rowVars
<1>3. ASSUME NEW t \in Tasks, StartRequest(t) PROVE TestInv'
  BY <1>3 DEF StartRequest, rowVars
<1>4. ASSUME NEW t \in Tasks, ClaimRow(t) PROVE TestInv'
  BY <1>4 DEF ClaimRow, MarkInFlight
<1>5. ASSUME NEW t \in Tasks, RefuseLocally(t) PROVE TestInv'
  BY <1>5 DEF RefuseLocally, Fail, SetStatus, Forget
<1>6. ASSUME NEW t \in Tasks, FinishOk(t) PROVE TestInv'
  BY <1>6 DEF FinishOk, SetStatus, Forget
<1>7. ASSUME NEW t \in Tasks, FinishFailed(t) PROVE TestInv'
  BY <1>7 DEF FinishFailed, Fail, SetStatus, Forget
<1>8. ASSUME NEW t \in Tasks, InsertTest(t) PROVE TestInv'
  BY <1>8 DEF InsertTest, InsertRow
<1>9. ASSUME NEW t \in Tasks, RecordTest(t) PROVE TestInv'
  BY <1>9 DEF RecordTest, SetStatus, Forget
<1>10. ASSUME NEW t \in Tasks, BeginTest(t) \/ SkipTest(t) PROVE TestInv'
  <2>1. CASE BeginTest(t)
    BY <2>1 DEF BeginTest, rowVars
  <2>2. CASE SkipTest(t)
    BY <2>2 DEF SkipTest, InsertRow
  <2>3. QED
    BY <1>10, <2>1, <2>2
<1>11. ASSUME NEW t \in Tasks, Respond(t) PROVE TestInv'
  BY <1>11 DEF Respond, rowVars
<1>12. CASE (\E t \in Tasks : Raise(t)) \/ (\E p \in Procs : Crash(p))
  <2>1. faults' = faults + 1 /\ faults \in Nat
    BY <1>12 DEF Raise, Crash
  <2>2. QED
    BY <2>1
<1>13. ASSUME NEW d \in Jobs, Enqueue(d) PROVE TestInv'
  BY <1>13 DEF Enqueue, InsertRow, taskVars
<1>14. CASE Tick \/ UNCHANGED vars
  BY <1>14 DEF Tick, vars, rowVars, taskVars
<1>15. QED
  BY <1>1, <1>2, <1>3, <1>4, <1>5, <1>6, <1>7, <1>8, <1>9, <1>10, <1>11, <1>12, <1>13, <1>14
     DEF Next, Work

\* With one process and no fault, process_one never works on a row recorded by
\* test_webhook, although the row is pending between its two transactions.
THEOREM OneProcessKeepsTests ==
  ASSUME SingleProcess
  PROVE  Spec => []TestsAreNotQueued
<1>1. Init => TestInv
  BY DEF Init, TestInv
<1>2. TestInv => TestsAreNotQueued
  BY DEF TestInv, TestsAreNotQueued
<1>3. QueueInv /\ TestInv /\ [Next]_vars => TestInv'
  BY TestNext
<1>4. QED
  BY <1>1, <1>2, <1>3, InvCorrect, PTL DEF Spec

----------------------------------------------------------------------------
(* The refinement. *)

\* A step of the queue as the contract sees it.
ContractStep == [Contract!Next]_(Contract!cvars)

\* A move of one delivery is a step of the contract.
LEMMA OneMoves ==
  ASSUME NEW j \in Jobs,
         \/ Contract!Submit(j) \/ Contract!Attempt(j) \/ Contract!Take(j)
         \/ Contract!Deliver(j) \/ Contract!Postpone(j) \/ Contract!Drop(j)
  PROVE  ContractStep
  BY DEF ContractStep, Contract!Next

\* A step that leaves the statuses and attempts of the queued deliveries and
\* their acceptance alone is a stutter.
LEMMA Stutter ==
  ASSUME TypeOK, \A j \in Jobs : status'[j] = status[j] /\ attempts'[j] = attempts[j],
         accepted' \cap Jobs = accepted \cap Jobs
  PROVE  ContractStep
  BY DEF ContractStep, Contract!cvars

\* What the contract sees when the status column of one delivery is written.
LEMMA PhaseMoves ==
  ASSUME TypeOK, NEW j \in Jobs, NEW s, status' = [status EXCEPT ![j] = s],
         NEW from, NEW to, PhaseOf(status[j]) = from, PhaseOf(s) = to
  PROVE  Contract!Move(j, from, to)
<1>1. [d \in Jobs |-> PhaseOf(status'[d])] =
        [[d \in Jobs |-> PhaseOf(status[d])] EXCEPT ![j] = PhaseOf(s)]
  <2>1. \A d \in Jobs : status'[d] = IF d = j THEN s ELSE status[d]
    BY DEF TypeOK
  <2>2. \A d \in Jobs : PhaseOf(status'[d]) = IF d = j THEN PhaseOf(s) ELSE PhaseOf(status[d])
    BY <2>1
  <2>3. QED
    BY <2>2
<1>2. QED
  BY <1>1 DEF Contract!Move

\* What it sees when the attempts of the queued deliveries and their
\* acceptance are left alone.
LEMMA TriesStay ==
  ASSUME TypeOK, attempts' = attempts, accepted' = accepted
  PROVE  UNCHANGED <<[d \in Jobs |-> attempts[d]], accepted \cap Jobs>>
  OBVIOUS

\* The phases of the statuses.
LEMMA Phases ==
  /\ PhaseOf("absent") = "none" /\ PhaseOf("in_flight") = "held"
  /\ PhaseOf("success") = "delivered" /\ PhaseOf("dead_letter") = "dropped"
  /\ \A s \in Waiting : PhaseOf(s) = "waiting"
  BY DEF PhaseOf

\* Every step is one of the contract or a stutter.
LEMMA ContractNext ==
  SingleProcess /\ QueueInv /\ ReplyInv /\ [Next]_vars => ContractStep
<1> SUFFICES ASSUME SingleProcess, QueueInv, ReplyInv, [Next]_vars PROVE ContractStep
  OBVIOUS
<1> USE QueueAssumption DEF QueueInv
<1>0. TypeOK
  OBVIOUS
<1>1. ASSUME NEW t \in Tasks, ClaimRow(t) PROVE ContractStep
  <2>1. CASE row[t] \in Jobs
    <3>1. PICK j \in Jobs : row[t] = j
      BY <2>1
    <3>2. status[j] \in Waiting /\ attempts[j] < LargestLimit
      BY <1>1, <3>1 DEF ClaimRow, RowInv, LimitInv
    <3>3. Contract!Move(j, "waiting", "held")
      BY <1>1, <3>1, <3>2, PhaseMoves, Phases DEF ClaimRow, MarkInFlight
    <3>4. [d \in Jobs |-> attempts[d]]' = [[d \in Jobs |-> attempts[d]] EXCEPT ![j] = @ + 1]
      BY <1>1, <3>1 DEF ClaimRow, MarkInFlight, TypeOK
    <3>5. Contract!Attempt(j)
      BY <1>1, <3>1, <3>2, <3>3, <3>4 DEF ClaimRow, Contract!Attempt, Contract!Move
    <3>6. QED
      BY <3>5, OneMoves
  <2>2. CASE row[t] \notin Jobs
    BY <1>1, <2>2, Stutter DEF ClaimRow, MarkInFlight, TypeOK
  <2>3. QED
    BY <2>1, <2>2
<1>2. ASSUME NEW t \in Tasks, NEW limit \in {MaxAttempts, DefaultMaxAttempts}, NEW after \in Int,
             Fail(t, limit, after), UNCHANGED accepted, pc[t] \in {"loaded", "sending"}
      PROVE  ContractStep
  <2>1. CASE row[t] \in Jobs
    <3>1. PICK j \in Jobs : row[t] = j
      BY <2>1
    <3>2. status[j] = "in_flight" /\ seen[t] = attempts[j] /\ attempts[j] \in Nat
      BY <1>2, <3>1 DEF RowInv, TypeOK
    <3>3. UNCHANGED <<[d \in Jobs |-> attempts[d]], accepted \cap Jobs>>
      BY <1>2, <3>1, TriesStay DEF Fail, SetStatus
    <3>4. CASE Exhausted(seen[t], limit)
      <4>1. Contract!Move(j, "held", "dropped")
        BY <1>2, <3>1, <3>2, <3>4, PhaseMoves, Phases DEF Fail, SetStatus
      <4>2. attempts[j] >= LeastLimit
        BY <1>2, <3>1, <3>2, <3>4, Limits DEF Exhausted
      <4>3. Contract!Drop(j)
        BY <3>1, <3>3, <4>1, <4>2 DEF Contract!Drop
      <4>4. QED
        BY <4>3, OneMoves
    <3>5. CASE ~Exhausted(seen[t], limit)
      <4>1. Contract!Move(j, "held", "waiting")
        BY <1>2, <3>1, <3>2, <3>5, PhaseMoves, Phases DEF Fail, SetStatus
      <4>2. attempts[j] < LargestLimit
        BY <1>2, <3>1, <3>2, <3>5, Limits DEF Exhausted
      <4>3. Contract!Postpone(j)
        BY <3>1, <3>3, <4>1, <4>2 DEF Contract!Postpone
      <4>4. QED
        BY <4>3, OneMoves
    <3>6. QED
      BY <3>4, <3>5
  <2>2. CASE row[t] \notin Jobs
    BY <1>2, <2>2, Stutter DEF Fail, SetStatus, TypeOK
  <2>3. QED
    BY <2>1, <2>2
<1>3. ASSUME NEW t \in Tasks, RefuseLocally(t) PROVE ContractStep
  <2>1. PICK limit \in {MaxAttempts, DefaultMaxAttempts} : Fail(t, limit, 0)
    BY <1>3 DEF RefuseLocally
  <2>2. QED
    BY <1>2, <1>3, <2>1 DEF RefuseLocally
<1>4. ASSUME NEW t \in Tasks, FinishFailed(t) PROVE ContractStep
  <2>1. PICK after \in IF reply[t] = "refused" THEN RetryAfters ELSE {0} : Fail(t, MaxAttempts, after)
    BY <1>4 DEF FinishFailed
  <2>2. after \in Int
    BY <2>1
  <2>3. QED
    BY <1>2, <1>4, <2>1, <2>2 DEF FinishFailed
<1>5. ASSUME NEW t \in Tasks, FinishOk(t) PROVE ContractStep
  <2>1. CASE row[t] \in Jobs
    <3>1. PICK j \in Jobs : row[t] = j
      BY <2>1
    <3>2. status[j] = "in_flight" /\ j \in accepted
      BY <1>5, <3>1 DEF FinishOk, RowInv, ReplyInv
    <3>3. Contract!Move(j, "held", "delivered")
      BY <1>5, <3>1, <3>2, PhaseMoves, Phases DEF FinishOk, SetStatus
    <3>4. UNCHANGED <<[d \in Jobs |-> attempts[d]], accepted \cap Jobs>>
      BY <1>5, <3>1, TriesStay DEF FinishOk, SetStatus
    <3>5. Contract!Deliver(j)
      BY <3>1, <3>2, <3>3, <3>4 DEF Contract!Deliver
    <3>6. QED
      BY <3>5, OneMoves
  <2>2. CASE row[t] \notin Jobs
    BY <1>5, <2>2, Stutter DEF FinishOk, SetStatus, TypeOK
  <2>3. QED
    BY <2>1, <2>2
<1>6. ASSUME NEW t \in Tasks, Respond(t) PROVE ContractStep
  <2>1. CASE accepted' = accepted \cup {row[t]} /\ row[t] \in Jobs
    <3>1. PICK j \in Jobs : row[t] = j
      BY <2>1
    <3>2. status[j] = "in_flight"
      BY <1>6, <3>1 DEF Respond, RowInv
    <3>3. Contract!Take(j)
      BY <1>6, <2>1, <3>1, <3>2, Phases DEF Respond, rowVars, Contract!Take
    <3>4. QED
      BY <3>3, OneMoves
  <2>2. CASE accepted' \cap Jobs = accepted \cap Jobs
    BY <1>6, <2>2, Stutter DEF Respond, rowVars
  <2>3. QED
    BY <1>6, <2>1, <2>2 DEF Respond
<1>7. ASSUME NEW d \in Jobs, Enqueue(d) PROVE ContractStep
  <2>1. Contract!Move(d, "none", "waiting")
    BY <1>7, PhaseMoves, Phases DEF Enqueue, InsertRow
  <2>2. Contract!Submit(d)
    BY <1>7, <2>1 DEF Enqueue, InsertRow, Contract!Submit, Contract!Move
  <2>3. QED
    BY <2>2, OneMoves
<1>8. ASSUME NEW t \in Tasks, InsertTest(t) PROVE ContractStep
  BY <1>8, Stutter DEF InsertTest, InsertRow, RowInv, TypeOK
<1>9. ASSUME NEW t \in Tasks, RecordTest(t) PROVE ContractStep
  BY <1>9, Stutter DEF RecordTest, SetStatus, RowInv, TypeOK
<1>10. ASSUME NEW t \in Tasks,
              SelectDue(t) \/ ReadBack(t) \/ StartRequest(t) \/ BeginTest(t) \/ Raise(t)
       PROVE  ContractStep
  BY <1>10, Stutter DEF SelectDue, ReadBack, StartRequest, BeginTest, Raise, rowVars
<1>11. ASSUME NEW t \in Tasks, SkipTest(t) PROVE ContractStep
  BY <1>11, Stutter DEF SkipTest, InsertRow
<1>12. CASE Tick \/ (\E p \in Procs : Crash(p)) \/ UNCHANGED vars
  BY <1>12, Stutter DEF Tick, Crash, vars, rowVars
<1>13. QED
  BY <1>1, <1>3, <1>4, <1>5, <1>6, <1>7, <1>8, <1>9, <1>10, <1>11, <1>12 DEF Next, Work

\* The coroutines of one process implement the contract: one attempt at a
\* time, a bounded number of them, honest and final verdicts.
THEOREM OneProcessMeetsContract ==
  ASSUME SingleProcess
  PROVE  Spec => MeetsContract
<1>1. Init => Contract!Init
  BY Phases DEF Init, Contract!Init
<1>2. Init => ReplyInv
  BY DEF Init, ReplyInv, SuccessWasAccepted
<1>3. QueueInv /\ ReplyInv /\ [Next]_vars => [Contract!Next]_(Contract!cvars)
  BY ContractNext DEF ContractStep
<1>4. QueueInv /\ ReplyInv /\ [Next]_vars => ReplyInv'
  BY ReplyNext DEF QueueInv
<1>5. QED
  BY <1>1, <1>2, <1>3, <1>4, InvCorrect, PTL DEF Spec, MeetsContract, Contract!Spec
=============================================================================
