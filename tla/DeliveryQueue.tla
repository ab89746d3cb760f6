--------------------------- MODULE DeliveryQueue ---------------------------
(***************************************************************************)
(* The durable outbound queue: the deliveries table, the statements that   *)
(* move its rows, and the coroutines that run process_one and test_webhook *)
(* over it.                                                                *)
(*                                                                         *)
(* Every process (the API, the delivery worker) has one event loop and one *)
(* connection to the same SQLite file.  Between two awaits a coroutine is  *)
(* alone in its process, and store._lock adds nothing to that; nothing     *)
(* makes a SELECT and the UPDATE that follows it atomic with respect to    *)
(* the other process, since sqlite3 opens a transaction only before the    *)
(* UPDATE.  So one action is one statement, and loop[p] names the          *)
(* coroutine that is between two awaits in process p.                      *)
(*                                                                         *)
(* Time is kept as countdowns: wait[d] is what is left until               *)
(* next_attempt_at, lease[d] what is left until lease_expires_at.          *)
(***************************************************************************)
EXTENDS Integers, FiniteSets

CONSTANTS
  Procs,              \* operating-system processes on the database
  Tasks,              \* coroutines that run process_one or test_webhook
  ProcOf,             \* the process each coroutine runs in
  Testers,            \* coroutines that may serve POST /v1/webhooks/{id}/test
  Jobs,               \* deliveries queued for a batch
  Tests,              \* deliveries recorded by test_webhook
  MaxAttempts,        \* max_attempts of the destination's config
  DefaultMaxAttempts, \* the limit used once the destination is gone
  LeaseTicks,         \* lease_seconds
  MaxDelay,           \* the cap of the backoff
  RetryAfters,        \* values the Retry-After header may carry; 0 is none
  MaxFaults,          \* bound: crashes and exceptions in a behaviour
  NoTask, NoRow       \* not a coroutine, not a delivery

ASSUME QueueAssumption ==
  /\ IsFiniteSet(Procs) /\ IsFiniteSet(Tasks) /\ Tasks # {} /\ ProcOf \in [Tasks -> Procs]
  /\ Testers \subseteq Tasks
  /\ IsFiniteSet(Jobs) /\ IsFiniteSet(Tests) /\ Jobs \cap Tests = {}
  /\ MaxAttempts \in Nat \ {0} /\ DefaultMaxAttempts \in Nat \ {0}
  /\ LeaseTicks \in Nat \ {0} /\ MaxDelay \in Nat \ {0}
  /\ 0 \in RetryAfters /\ RetryAfters \subseteq Int
  /\ MaxFaults \in Nat
  /\ NoTask \notin Tasks /\ NoRow \notin Jobs \cup Tests

VARIABLES
  status,   \* the status column; "absent" until the row is inserted
  attempts, \* the attempts column
  wait,     \* ticks until next_attempt_at
  lease,    \* ticks until lease_expires_at, NoLease for NULL
  stamp,    \* created_at, as the position of the row among the insertions
  pc,       \* where each coroutine is
  row,      \* the delivery each coroutine works on
  seen,     \* delivery.attempts in the coroutine's copy of the row
  reply,    \* what the destination did with the coroutine's request
  loop,     \* the coroutine that is between two awaits, per process
  sends,    \* history: requests that left for each delivery
  accepted, \* history: deliveries the destination has accepted
  faults    \* crashes and exceptions so far

rowVars  == <<status, attempts, wait, lease, stamp>>
taskVars == <<pc, row, seen, reply, loop>>
vars     == <<rowVars, taskVars, sends, accepted, faults>>

Deliveries == Jobs \cup Tests
NoLease    == -1
Waiting    == {"pending", "retrying"}
Settled    == {"success", "failed", "skipped", "dead_letter"}
Statuses   == {"absent", "in_flight"} \cup Waiting \cup Settled

----------------------------------------------------------------------------
(* The statements of the store. *)

\* INSERT of create_delivery: a pending row that is due at once.
InsertRow(d) ==
  /\ status[d] = "absent"
  /\ status' = [status EXCEPT ![d] = "pending"]
  /\ stamp'  = [stamp EXCEPT ![d] = Cardinality({e \in Deliveries : status[e] # "absent"})]
  /\ UNCHANGED <<attempts, wait, lease>>

\* Mutants of the WHERE clause: rows in flight whatever their lease; rows before
\* their time; new rows only.
DueInFlight(d)   == status[d] \in Waiting \cup {"in_flight"} /\ wait[d] = 0
DueEarly(d)      == status[d] \in Waiting /\ lease[d] \in {NoLease, 0}
DuePending(d)    == status[d] = "pending" /\ wait[d] = 0

\* The WHERE clause of claim_delivery.
Due(d) ==
  /\ status[d] \in Waiting
  /\ wait[d] = 0
  /\ lease[d] \in {NoLease, 0}

\* ORDER BY created_at LIMIT 1.
OldestDue(d) == Due(d) /\ \A e \in Deliveries : Due(e) => stamp[d] <= stamp[e]

\* Mutant: a retry does not count as an attempt.
MarkFirstInFlight(d) ==
  /\ status'   = [status EXCEPT ![d] = "in_flight"]
  /\ attempts' = [attempts EXCEPT ![d] = IF status[d] = "retrying" THEN @ ELSE @ + 1]
  /\ lease'    = [lease EXCEPT ![d] = LeaseTicks]
  /\ UNCHANGED <<wait, stamp>>

\* The UPDATE of claim_delivery, by primary key alone.
MarkInFlight(d) ==
  /\ status'   = [status EXCEPT ![d] = "in_flight"]
  /\ attempts' = [attempts EXCEPT ![d] = @ + 1]
  /\ lease'    = [lease EXCEPT ![d] = LeaseTicks]
  /\ UNCHANGED <<wait, stamp>>

\* update_delivery, by primary key alone.
SetStatus(d, s, delay) ==
  /\ status' = [status EXCEPT ![d] = s]
  /\ wait'   = [wait EXCEPT ![d] = delay]
  /\ lease'  = [lease EXCEPT ![d] = NoLease]
  /\ UNCHANGED <<attempts, stamp>>

----------------------------------------------------------------------------
(* What process_one makes of a result. *)

\* min(3600, 10 * 3 ** (attempts - 1)), in ticks of ten seconds.
Backoff(n) == IF 3 ^ (n - 1) \in 0..MaxDelay THEN 3 ^ (n - 1) ELSE MaxDelay

\* Mutant: a negative header becomes a negative wait.
RetryDelayUnchecked(n, after) == IF after = 0 THEN Backoff(n) ELSE after

\* result.retry_after or the backoff; a negative header is a time already past.
RetryDelay(n, after) ==
  IF after = 0 THEN Backoff(n) ELSE IF after > 0 THEN after ELSE 0

\* Mutants: one attempt too many, one too few.
ExhaustedLate(n, limit)  == n > limit
ExhaustedEarly(n, limit) == n + 1 >= limit

\* delivery.attempts >= max_attempts
Exhausted(n, limit) == n >= limit

\* Mutant: an exhausted delivery is not written back.
FailQuietly(t, limit, after) ==
  IF Exhausted(seen[t], limit)
  THEN UNCHANGED rowVars
  ELSE SetStatus(row[t], "retrying", RetryDelay(seen[t], after))

\* The tail of process_one for a result that is not a success ("failed" and
\* "skipped" are treated alike).
Fail(t, limit, after) ==
  IF Exhausted(seen[t], limit)
  THEN SetStatus(row[t], "dead_letter", 0)
  ELSE SetStatus(row[t], "retrying", RetryDelay(seen[t], after))

----------------------------------------------------------------------------
(* The event loop. *)

LoopFree(t) == loop[ProcOf[t]] = NoTask
Hold(t)     == loop' = [loop EXCEPT ![ProcOf[t]] = t]
Release(t)  == loop' = [loop EXCEPT ![ProcOf[t]] = NoTask]
Goto(t, l)  == pc' = [pc EXCEPT ![t] = l]

Forget(t) ==
  /\ row'   = [row EXCEPT ![t] = NoRow]
  /\ seen'  = [seen EXCEPT ![t] = 0]
  /\ reply' = [reply EXCEPT ![t] = "none"]

----------------------------------------------------------------------------
(* process_one.  A coroutine goes idle -> selected -> claimed -> loaded -> *)
(* sending -> idle; it holds the loop from selected to loaded.             *)

\* The first SELECT of claim_delivery.  With nothing due, process_one
\* returns None and changes nothing.
SelectDue(t) ==
  /\ pc[t] = "idle" /\ LoopFree(t)
  /\ \E d \in Deliveries :
       /\ OldestDue(d)
       /\ row' = [row EXCEPT ![t] = d]
  /\ Goto(t, "selected") /\ Hold(t)
  /\ UNCHANGED <<rowVars, seen, reply, sends, accepted, faults>>

ClaimRow(t) ==
  /\ pc[t] = "selected"
  /\ MarkInFlight(row[t])
  /\ Goto(t, "claimed")
  /\ UNCHANGED <<row, seen, reply, loop, sends, accepted, faults>>

\* The second SELECT of claim_delivery, after the commit.
ReadBack(t) ==
  /\ pc[t] = "claimed"
  /\ seen' = [seen EXCEPT ![t] = attempts[row[t]]]
  /\ Goto(t, "loaded")
  /\ UNCHANGED <<rowVars, row, reply, loop, sends, accepted, faults>>

\* The destination exists, is enabled and its URL is acceptable: the request
\* leaves and the coroutine awaits the answer.
StartRequest(t) ==
  /\ pc[t] = "loaded"
  /\ sends' = [sends EXCEPT ![row[t]] = @ + 1]
  /\ Goto(t, "sending") /\ Release(t)
  /\ UNCHANGED <<rowVars, row, seen, reply, accepted, faults>>

\* No request leaves: the destination is gone (and its max_attempts with it),
\* is disabled, or its URL is rejected.  There is no await on this path.
RefuseLocally(t) ==
  /\ pc[t] = "loaded"
  /\ \E limit \in {MaxAttempts, DefaultMaxAttempts} : Fail(t, limit, 0)
  /\ Goto(t, "idle") /\ Release(t) /\ Forget(t)
  /\ UNCHANGED <<sends, accepted, faults>>

\* The destination (not under src/) accepts or refuses the request.
Respond(t) ==
  /\ pc[t] \in {"sending", "testing"} /\ reply[t] = "none"
  /\ \/ /\ reply' = [reply EXCEPT ![t] = "accepted"]
        /\ accepted' = accepted \cup {row[t]}
     \/ /\ reply' = [reply EXCEPT ![t] = "refused"]
        /\ UNCHANGED accepted
  /\ UNCHANGED <<rowVars, pc, row, seen, loop, sends, faults>>

\* Mutant: any answer is a success.
FinishAnswered(t) ==
  /\ pc[t] = "sending" /\ LoopFree(t)
  /\ reply[t] # "none"
  /\ SetStatus(row[t], "success", 0)
  /\ Goto(t, "idle") /\ Forget(t)
  /\ UNCHANGED <<loop, sends, accepted, faults>>

\* An accepting status arrived; any response emitted is ingested by the same
\* coroutine after the row is updated (module Relay).
FinishOk(t) ==
  /\ pc[t] = "sending" /\ LoopFree(t)
  /\ reply[t] = "accepted"
  /\ SetStatus(row[t], "success", 0)
  /\ Goto(t, "idle") /\ Forget(t)
  /\ UNCHANGED <<loop, sends, accepted, faults>>

\* A refusal, or no usable answer: a timeout or a broken connection looks the
\* same whether or not the destination accepted.  Only an answer carries a
\* Retry-After header.
FinishFailed(t) ==
  /\ pc[t] = "sending" /\ LoopFree(t)
  /\ \E after \in IF reply[t] = "refused" THEN RetryAfters ELSE {0} :
       Fail(t, MaxAttempts, after)
  /\ Goto(t, "idle") /\ Forget(t)
  /\ UNCHANGED <<loop, sends, accepted, faults>>

----------------------------------------------------------------------------
(* test_webhook: the request first, then the row, in two transactions. *)

\* delivery_id = f"test_{secrets.token_hex(8)}": an id nobody has used.
FreshTest(d) == status[d] = "absent" /\ sends[d] = 0 /\ \A t \in Tasks : row[t] # d

\* The request leaves.
BeginTest(t) ==
  /\ t \in Testers /\ pc[t] = "idle" /\ LoopFree(t)
  /\ \E d \in Tests :
       /\ FreshTest(d)
       /\ row' = [row EXCEPT ![t] = d]
       /\ sends' = [sends EXCEPT ![d] = @ + 1]
  /\ Goto(t, "testing")
  /\ UNCHANGED <<rowVars, seen, reply, loop, accepted, faults>>

\* The webhook is disabled or its URL is rejected: nothing leaves, nothing is
\* awaited and create_delivery comes at once.
SkipTest(t) ==
  /\ t \in Testers /\ pc[t] = "idle" /\ LoopFree(t)
  /\ \E d \in Tests :
       /\ FreshTest(d)
       /\ InsertRow(d)
       /\ row' = [row EXCEPT ![t] = d]
  /\ Goto(t, "inserted") /\ Hold(t)
  /\ UNCHANGED <<seen, reply, sends, accepted, faults>>

\* Mutant: the handler awaits between its two transactions.
InsertTestAwaiting(t) ==
  /\ pc[t] = "testing" /\ LoopFree(t)
  /\ InsertRow(row[t])
  /\ Goto(t, "inserted")
  /\ UNCHANGED <<row, seen, reply, loop, sends, accepted, faults>>

\* create_delivery, once the answer (or a timeout) is in.
InsertTest(t) ==
  /\ pc[t] = "testing" /\ LoopFree(t)
  /\ InsertRow(row[t])
  /\ Goto(t, "inserted") /\ Hold(t)
  /\ UNCHANGED <<row, seen, reply, sends, accepted, faults>>

\* update_delivery with the outcome.
RecordTest(t) ==
  /\ pc[t] = "inserted"
  /\ \E s \in {"success", "failed", "skipped"} :
       /\ s = "success" => reply[t] = "accepted"
       /\ SetStatus(row[t], s, 0)
  /\ Goto(t, "idle") /\ Release(t) /\ Forget(t)
  /\ UNCHANGED <<sends, accepted, faults>>

----------------------------------------------------------------------------
(* The environment. *)

\* _queue_batch inserts a delivery.
Enqueue(d) ==
  /\ d \in Jobs
  /\ InsertRow(d)
  /\ UNCHANGED <<taskVars, sends, accepted, faults>>

CountDown(n) == IF n > 0 THEN n - 1 ELSE n

Tick ==
  /\ \E d \in Deliveries : wait[d] > 0 \/ lease[d] > 0
  /\ wait'  = [d \in Deliveries |-> CountDown(wait[d])]
  /\ lease' = [d \in Deliveries |-> CountDown(lease[d])]
  /\ UNCHANGED <<status, attempts, stamp, taskVars, sends, accepted, faults>>

\* An exception leaves process_one or test_webhook (a template that does not
\* render, a Retry-After that is not a finite number, a locked database).
Raise(t) ==
  /\ faults < MaxFaults
  /\ pc[t] # "idle" /\ loop[ProcOf[t]] \in {t, NoTask}
  /\ Goto(t, "idle") /\ Release(t) /\ Forget(t)
  /\ faults' = faults + 1
  /\ UNCHANGED <<rowVars, sends, accepted>>

\* A process stops and is started again: its coroutines are gone, the rows
\* stay.  Requests that had left may still be accepted, which Respond before
\* the crash stands for.
Crash(p) ==
  /\ faults < MaxFaults
  /\ \E t \in Tasks : ProcOf[t] = p /\ pc[t] # "idle"
  /\ LET Kept(f, blank) == [t \in Tasks |-> IF ProcOf[t] = p THEN blank ELSE f[t]]
     IN  /\ pc'    = Kept(pc, "idle")
         /\ row'   = Kept(row, NoRow)
         /\ seen'  = Kept(seen, 0)
         /\ reply' = Kept(reply, "none")
  /\ loop' = [loop EXCEPT ![p] = NoTask]
  /\ faults' = faults + 1
  /\ UNCHANGED <<rowVars, sends, accepted>>

----------------------------------------------------------------------------

Init ==
  /\ status   = [d \in Deliveries |-> "absent"]
  /\ attempts = [d \in Deliveries |-> 0]
  /\ wait     = [d \in Deliveries |-> 0]
  /\ lease    = [d \in Deliveries |-> NoLease]
  /\ stamp    = [d \in Deliveries |-> 0]
  /\ pc       = [t \in Tasks |-> "idle"]
  /\ row      = [t \in Tasks |-> NoRow]
  /\ seen     = [t \in Tasks |-> 0]
  /\ reply    = [t \in Tasks |-> "none"]
  /\ loop     = [p \in Procs |-> NoTask]
  /\ sends    = [d \in Deliveries |-> 0]
  /\ accepted = {}
  /\ faults   = 0

\* What a coroutine does by itself once process_one has been called.
Work(t) ==
  \/ SelectDue(t)
  \/ ClaimRow(t)
  \/ ReadBack(t)
  \/ StartRequest(t)
  \/ RefuseLocally(t)
  \/ FinishOk(t)
  \/ FinishFailed(t)
  \/ InsertTest(t)
  \/ RecordTest(t)

Next ==
  \/ \E t \in Tasks : Work(t) \/ BeginTest(t) \/ SkipTest(t) \/ Respond(t) \/ Raise(t)
  \/ \E d \in Jobs : Enqueue(d)
  \/ \E p \in Procs : Crash(p)
  \/ Tick

Spec == Init /\ [][Next]_vars

\* The delivery worker calls process_one for ever, a request ends in an answer
\* or a timeout, and time passes.  Nothing makes a destination answer, an
\* operator test a webhook or a batch be queued.
Fairness == WF_vars(Tick) /\ \A t \in Tasks : WF_vars(Work(t))

FairSpec == Spec /\ Fairness

----------------------------------------------------------------------------
(* Properties. *)

TypeOK ==
  /\ status   \in [Deliveries -> Statuses]
  /\ attempts \in [Deliveries -> Nat]
  /\ wait     \in [Deliveries -> Nat]
  /\ lease    \in [Deliveries -> Nat \cup {NoLease}]
  /\ stamp    \in [Deliveries -> Nat]
  /\ pc       \in [Tasks -> {"idle", "selected", "claimed", "loaded", "sending",
                             "testing", "inserted"}]
  /\ row      \in [Tasks -> Deliveries \cup {NoRow}]
  /\ \A t \in Tasks : pc[t] # "idle" => row[t] \in Deliveries
  /\ seen     \in [Tasks -> Nat]
  /\ reply    \in [Tasks -> {"none", "accepted", "refused"}]
  /\ loop     \in [Procs -> Tasks \cup {NoTask}]
  /\ sends    \in [Deliveries -> Nat]
  /\ accepted \in SUBSET Deliveries
  /\ faults   \in 0..MaxFaults

\* The coroutines that hold a claim on a row, from the UPDATE of
\* claim_delivery to update_delivery.
Claiming    == {"claimed", "loaded", "sending"}
Holders(d)  == {t \in Tasks : pc[t] \in Claiming /\ row[t] = d}
LeastLimit  == IF MaxAttempts < DefaultMaxAttempts THEN MaxAttempts ELSE DefaultMaxAttempts
LargestLimit == IF MaxAttempts < DefaultMaxAttempts THEN DefaultMaxAttempts ELSE MaxAttempts

\* Two coroutines never work on the same delivery (claim_delivery; the
\* purpose of the lease).  With one process the event loop guarantees it.
ExclusiveClaim ==
  \A t, u \in Tasks :
    t # u /\ pc[t] \in Claiming /\ pc[u] \in Claiming => row[t] # row[u]

\* However claims, retries, crashes and deletions of the destination
\* interleave, a delivery is never claimed more often than its limit allows.
AttemptsBounded == \A d \in Deliveries : attempts[d] <= LargestLimit

\* Every request of a queued delivery was counted in attempts before it left
\* (SPEC 6.4: "Increment delivery attempts per outbound attempt"), whatever
\* two processes do to the row.
SendsAreCounted == \A d \in Jobs : sends[d] <= attempts[d]

\* A delivery is recorded as a success only if the destination accepted it:
\* not after a timeout, not for a disabled or missing destination.
SuccessWasAccepted ==
  \A d \in Deliveries : status[d] = "success" => d \in accepted

\* A delivery is given up only when its attempts are used up; a copy of the
\* row older than the row itself never makes that decision early.
DeadLetterIsExhausted ==
  \A d \in Deliveries : status[d] = "dead_letter" => attempts[d] >= LeastLimit

\* What the history of deliveries says of a settled one is true, for any number
\* of processes that work on the same rows.
VerdictsAreTrue == SuccessWasAccepted /\ DeadLetterIsExhausted

\* Only a crash or an exception leaves a row in flight with no coroutine that
\* will move it on.
InFlightIsHeld ==
  faults = 0 => \A d \in Deliveries : status[d] = "in_flight" => Holders(d) # {}

\* The clause on lease_expires_at in claim_delivery never decides anything: a
\* row that its status makes claimable carries no lease at all.
LeaseNeverGates ==
  \A d \in Deliveries : status[d] \in Waiting => lease[d] = NoLease

\* No attempt is under way for a row that was put off to a later time.
BackoffHonoured ==
  \A t \in Tasks : pc[t] \in Claiming => wait[row[t]] = 0

\* test_webhook, api.py: "retain them in the same history as routed deliveries
\* without enqueueing retries": process_one never works on its rows, unless a
\* fault fell between the two transactions of test_webhook.
TestsAreNotQueued ==
  faults = 0 => \A t \in Tasks : pc[t] \in Claiming => row[t] \notin Tests

\* Once a queued delivery is settled it stays as it is (SPEC 12.5).
SettledIsFinal ==
  [][\A d \in Jobs : status[d] \in Settled => status'[d] = status[d]]_vars

\* Coroutines of several processes can claim a delivery beyond its limit, but
\* only while copies of the row read below the limit are left: for each
\* coroutine beside the first, at most once in every process.
OvershootBounded ==
  \A d \in Deliveries : attempts[d] <= LargestLimit + Cardinality(Procs) * (Cardinality(Tasks) - 1)

\* Every queued delivery is settled in the end, by success or as a dead
\* letter; docs/webhook-native.md adds: also across a worker restart.
EveryJobSettles ==
  \A d \in Jobs : status[d] = "pending" ~> status[d] \in Settled

----------------------------------------------------------------------------
(* Why it holds: the inductive invariant, for coroutines of one process. *)

SingleProcess == \A t, u \in Tasks : ProcOf[t] = ProcOf[u]

\* A coroutine between two awaits has the loop of its process.
LoopInv ==
  \A t \in Tasks :
    pc[t] \in {"selected", "claimed", "loaded", "inserted"} <=> loop[ProcOf[t]] = t

\* What a coroutine knows of its row is true of the table: the row it selected
\* is still due, the row it claimed is in flight with the attempts it read.
RowInv ==
  \A t \in Tasks :
    /\ pc[t] = "selected" => status[row[t]] \in Waiting /\ wait[row[t]] = 0
    /\ pc[t] \in Claiming => status[row[t]] = "in_flight" /\ wait[row[t]] = 0
    /\ pc[t] \in {"loaded", "sending"} => seen[t] = attempts[row[t]]
    /\ pc[t] \in {"testing", "inserted"} => row[t] \in Tests
    /\ pc[t] = "inserted" => status[row[t]] = "pending"

\* A row that may still be claimed has attempts left.
LimitInv ==
  \A d \in Deliveries :
    /\ attempts[d] <= LargestLimit
    /\ status[d] \in Waiting => attempts[d] < LargestLimit
    /\ status[d] = "absent" => attempts[d] = 0

\* The rest needs no event loop: it holds of any number of processes.

\* A coroutine that saw an acceptance works on an accepted delivery.
ReplyInv ==
  /\ \A t \in Tasks : pc[t] = "idle" => reply[t] = "none"
  /\ \A t \in Tasks : reply[t] = "accepted" => row[t] \in accepted
  /\ SuccessWasAccepted

\* A lease belongs to a row in flight.
LeaseInv == \A d \in Deliveries : status[d] # "in_flight" => lease[d] = NoLease

\* A copy of attempts is never ahead of the table.
SeenInv ==
  /\ \A t \in Tasks : pc[t] \in {"loaded", "sending"} => seen[t] <= attempts[row[t]]
  /\ DeadLetterIsExhausted

\* A coroutine between two awaits has the loop of its process; nothing works
\* on a row that is not there.
HoldInv ==
  /\ \A t \in Tasks : pc[t] \in {"selected", "claimed", "loaded", "inserted"} => loop[ProcOf[t]] = t
  /\ \A d \in Deliveries : status[d] = "absent" => attempts[d] = 0
  /\ \A t \in Tasks : pc[t] = "selected" => status[row[t]] # "absent"

\* Claims that are decided, and copies that may put the row back.  A row at
\* its limit can be claimed once in every process while it waits, and again
\* whenever one of these copies makes it wait.
Picked(d)  == {t \in Tasks : pc[t] = "selected" /\ row[t] = d}
Stale(d)   == {t \in Tasks : pc[t] \in {"loaded", "sending"} /\ row[t] = d /\ seen[t] < LargestLimit}
Claims(d)  == IF status[d] \in Waiting THEN Cardinality(Procs) ELSE Cardinality(Picked(d))
OverAt(d)  ==
  attempts[d] >= LargestLimit =>
    attempts[d] + Claims(d) + Cardinality(Procs) * Cardinality(Stale(d))
      <= LargestLimit + Cardinality(Procs) * (Cardinality(Tasks) - 1)
OverInv    == \A d \in Deliveries : OverAt(d)

\* Claims whose request has not left yet are counted as well.
Unsent(d)  == {t \in Tasks : pc[t] \in {"claimed", "loaded"} /\ row[t] = d}
CountInv   == \A d \in Jobs : sends[d] + Cardinality(Unsent(d)) <= attempts[d]

\* A test row that could be claimed is still in the hands of its handler.
TestInv ==
  faults = 0 =>
    /\ \A d \in Tests : status[d] # "in_flight"
    /\ \A d \in Tests : status[d] \in Waiting => \E t \in Tasks : pc[t] = "inserted" /\ row[t] = d
    /\ \A t \in Tasks : pc[t] \in {"selected"} \cup Claiming => row[t] \notin Tests

QueueInv == TypeOK /\ LoopInv /\ RowInv /\ ExclusiveClaim /\ LimitInv

----------------------------------------------------------------------------
(* The contract. *)

\* How the status column reads as a phase of the contract.
PhaseOf(s) ==
  CASE s = "absent"     -> "none"
    [] s \in Waiting    -> "waiting"
    [] s = "in_flight"  -> "held"
    [] s = "success"    -> "delivered"
    [] OTHER            -> "dropped"

Contract ==
  INSTANCE DeliveryContract WITH
    Least <- LeastLimit,
    Most  <- LargestLimit,
    phase <- [d \in Jobs |-> PhaseOf(status[d])],
    tries <- [d \in Jobs |-> attempts[d]],
    taken <- accepted \cap Jobs

\* The coroutines of one process together implement the contract.
MeetsContract == Contract!Spec
=============================================================================
