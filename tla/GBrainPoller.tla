---------------------------- MODULE GBrainPoller ----------------------------
(***************************************************************************)
(* The GBrain connector: one loop that lists the task runs updated after   *)
(* its cursor, page by page, reads each of them and its output, publishes  *)
(* the outputs of verified runs and saves the cursor and the keys it has   *)
(* seen; over a GBrain whose runs go on changing between any two calls.    *)
(*                                                                         *)
(* Timestamps are numbers, 0 is none.  A run is also its id, since ids     *)
(* break ties.  An output is its content hash, 0 for an empty text, so     *)
(* <<run, output>> is the dedupe key of the event.                         *)
(***************************************************************************)
EXTENDS Integers, FiniteSets

CONSTANTS
  Runs,       \* task runs
  Watched,    \* runs whose output slug the manifest watches
  Outputs,    \* contents an output page may have
  PageLimit,  \* limit of list_pages
  SeenLimit,  \* dedupe keys that a checkpoint keeps
  Inclusive,  \* whether updated_after may include its own timestamp
  Ties,       \* whether two runs may carry the same timestamp
  MaxChanges, \* bound: changes to runs in a behaviour
  MaxFaults   \* bound: failed calls and crashes in a behaviour

ASSUME PollerAssumption ==
  /\ IsFiniteSet(Runs) /\ Runs \subseteq Nat \ {0} /\ Watched \subseteq Runs
  /\ IsFiniteSet(Outputs) /\ Outputs \subseteq Nat /\ 0 \in Outputs
  /\ PageLimit \in Nat \ {0} /\ SeenLimit \in Nat \ {0}
  /\ Inclusive \subseteq BOOLEAN /\ Inclusive # {} /\ Ties \in BOOLEAN
  /\ MaxChanges \in Nat /\ MaxFaults \in Nat

VARIABLES
  now, updated, verified, output, inclusive, changes, \* GBrain
  received,   \* dedupe keys that PulseRelay has taken
  sends,      \* history: publish calls per dedupe key
  checkpoint, \* checkpoint.json: cursor and seen
  pc,         \* where poll_once is
  after,      \* updated_after of the next page
  runs,       \* entries listed and not yet handled
  entry,      \* the entry in hand
  text,       \* its output
  cursor,     \* next_cursor
  seen,
  faults      \* failed calls and crashes so far

gbrain == <<now, updated, verified, output, inclusive, changes>>
locals == <<after, runs, entry, text, cursor, seen>>
vars   == <<gbrain, received, sends, checkpoint, pc, locals, faults>>

Keys    == Runs \X Outputs
NoEntry == <<0, 0>>

\* The order of _run_key: updated_at, then the id.
Before(x, y) == x[1] < y[1] \/ (x[1] = y[1] /\ x[2] < y[2])

----------------------------------------------------------------------------
(* GBrain. *)

\* A run is created, edited, verified, its output written or corrected, or
\* several of these at once; each change of a run moves its updated_at.
Change(r) ==
  /\ changes < MaxChanges /\ changes' = changes + 1
  /\ \E t \in IF Ties /\ updated[r] < now THEN {now, now + 1} ELSE {now + 1} :
       now' = t /\ updated' = [updated EXCEPT ![r] = t]
  /\ verified' \in {verified, [verified EXCEPT ![r] = TRUE]}
  /\ \E o \in Outputs : output' = [output EXCEPT ![r] = o]
  /\ UNCHANGED <<inclusive, received, sends, checkpoint, pc, locals, faults>>

\* What list_pages may return for updated_after, and the page it returns:
\* the first of them, oldest first.
Matching ==
  {<<updated[r], r>> : r \in {q \in Runs : updated[q] > after \/ (inclusive /\ updated[q] = after /\ after > 0)}}

Page == {x \in Matching : Cardinality({y \in Matching : Before(y, x)}) < PageLimit}

Newest(page) == CHOOSE t \in {x[1] : x \in page} : \A x \in page : x[1] <= t

----------------------------------------------------------------------------
(* poll_once. *)

Forget ==
  after' = 0 /\ runs' = {} /\ entry' = NoEntry /\ text' = 0 /\ cursor' = NoEntry /\ seen' = {}

\* load_checkpoint.
Load ==
  /\ pc = "idle"
  /\ pc' = "list"
  /\ after' = checkpoint.cursor[1] /\ cursor' = checkpoint.cursor /\ seen' = checkpoint.seen
  /\ UNCHANGED <<gbrain, received, sends, checkpoint, runs, entry, text, faults>>

\* One turn of list_runs: a full page is followed by the one after its last
\* row; if that is not later, "pagination did not advance" and the poll fails.
ListPage ==
  /\ pc = "list"
  /\ IF Cardinality(Page) < PageLimit
     THEN pc' = "next" /\ runs' = runs \cup Page /\ UNCHANGED <<after, entry, text, cursor, seen>>
     ELSE IF Newest(Page) = after
          THEN pc' = "idle" /\ Forget
          ELSE /\ runs' = runs \cup Page /\ after' = Newest(Page)
               /\ UNCHANGED <<pc, entry, text, cursor, seen>>
  /\ UNCHANGED <<gbrain, received, sends, checkpoint, faults>>

\* sorted(..., key=_run_key)
InOrder(x) == \A y \in runs \ {x} : Before(x, y)

\* A run at or before the cursor was handled by an earlier poll.
TakeEntry ==
  /\ pc = "next"
  /\ \E x \in runs :
       /\ InOrder(x)
       /\ runs' = runs \ {x}
       /\ IF checkpoint.cursor # NoEntry /\ ~Before(checkpoint.cursor, x)
          THEN UNCHANGED <<pc, entry>>
          ELSE pc' = "details" /\ entry' = x
  /\ UNCHANGED <<gbrain, received, sends, checkpoint, after, text, cursor, seen, faults>>

\* get_run_details: what is not verified, or not watched, is passed over.
Details ==
  /\ pc = "details"
  /\ pc' = IF verified[entry[2]] /\ entry[2] \in Watched THEN "output" ELSE "next"
  /\ UNCHANGED <<gbrain, received, sends, checkpoint, locals, faults>>

\* get_output: an empty text is passed over; a key that was seen only moves
\* the cursor.
ReadOutput ==
  /\ pc = "output"
  /\ text' = output[entry[2]]
  /\ LET known == <<entry[2], text'>> \in seen
     IN  /\ pc' = IF text' = 0 \/ known THEN "next" ELSE "publish"
         /\ cursor' = IF text' # 0 /\ known THEN entry ELSE cursor
  /\ UNCHANGED <<gbrain, received, sends, checkpoint, after, runs, entry, seen, faults>>

Send == sends' = [sends EXCEPT ![<<entry[2], text>>] = @ + 1]

\* publish is answered: ingest has taken the event, now or before.
Publish ==
  /\ pc = "publish" /\ Send
  /\ received' = received \cup {<<entry[2], text>>}
  /\ seen' = seen \cup {<<entry[2], text>>} /\ cursor' = entry
  /\ pc' = "next"
  /\ UNCHANGED <<gbrain, checkpoint, after, runs, entry, text, faults>>

\* No usable answer: the event may have been taken; the poll fails.
PublishFails ==
  /\ pc = "publish" /\ faults < MaxFaults /\ Send
  /\ received' \in {received, received \cup {<<entry[2], text>>}}
  /\ pc' = "idle" /\ Forget /\ faults' = faults + 1
  /\ UNCHANGED <<gbrain, checkpoint>>

\* Mutants: the cursor is the time of the poll; every key is saved.
SaveNow ==
  /\ pc = "next" /\ runs = {}
  /\ checkpoint' = [cursor |-> <<now, 0>>, seen |-> checkpoint.seen]
  /\ pc' = "idle" /\ Forget
  /\ UNCHANGED <<gbrain, received, sends, faults>>

SaveAll ==
  /\ pc = "next" /\ runs = {}
  /\ checkpoint' = [cursor |-> cursor, seen |-> seen]
  /\ pc' = "idle" /\ Forget
  /\ UNCHANGED <<gbrain, received, sends, faults>>

\* save_checkpoint replaces the file; of a set, [-1000:] keeps any 1000.
Save ==
  /\ pc = "next" /\ runs = {}
  /\ \E kept \in SUBSET seen :
       /\ IF Cardinality(seen) <= SeenLimit THEN kept = seen ELSE Cardinality(kept) = SeenLimit
       /\ checkpoint' = [cursor |-> cursor, seen |-> kept]
  /\ pc' = "idle" /\ Forget
  /\ UNCHANGED <<gbrain, received, sends, faults>>

\* Any other call fails, or the process ends and is started again: what was
\* published is not in the checkpoint.
Fail ==
  /\ pc # "idle" /\ faults < MaxFaults
  /\ pc' = "idle" /\ Forget /\ faults' = faults + 1
  /\ UNCHANGED <<gbrain, received, sends, checkpoint>>

----------------------------------------------------------------------------

Init ==
  /\ now = 0 /\ changes = 0 /\ inclusive \in Inclusive
  /\ updated = [r \in Runs |-> 0]
  /\ verified = [r \in Runs |-> FALSE]
  /\ output = [r \in Runs |-> 0]
  /\ received = {} /\ sends = [k \in Keys |-> 0]
  /\ checkpoint = [cursor |-> NoEntry, seen |-> {}]
  /\ pc = "idle"
  /\ after = 0 /\ runs = {} /\ entry = NoEntry /\ text = 0 /\ cursor = NoEntry /\ seen = {}
  /\ faults = 0

Poll == Load \/ ListPage \/ TakeEntry \/ Details \/ ReadOutput \/ Publish \/ Save

Next == Poll \/ PublishFails \/ Fail \/ \E r \in Runs : Change(r)

Spec == Init /\ [][Next]_vars

\* main polls for ever.
FairSpec == Spec /\ WF_vars(Poll)

----------------------------------------------------------------------------
(* Properties. *)

Entries == (0..MaxChanges) \X (Runs \cup {0})

TypeOK ==
  /\ now \in 0..MaxChanges /\ changes \in 0..MaxChanges /\ inclusive \in BOOLEAN
  /\ updated \in [Runs -> 0..MaxChanges] /\ verified \in [Runs -> BOOLEAN]
  /\ output \in [Runs -> Outputs]
  /\ received \subseteq Keys /\ seen \subseteq Keys
  /\ sends \in [Keys -> Nat] /\ checkpoint \in [cursor : Entries, seen : SUBSET Keys]
  /\ Cardinality(checkpoint.seen) <= SeenLimit
  /\ pc \in {"idle", "list", "next", "details", "output", "publish"}
  /\ after \in 0..MaxChanges /\ text \in Outputs \cup {0}
  /\ runs \subseteq Entries /\ entry \in Entries /\ cursor \in Entries
  /\ faults \in 0..MaxFaults

Publishable(r) == verified[r] /\ r \in Watched /\ output[r] # 0

\* A verified run at or before the saved cursor has been published as it is
\* now: no poll moves the cursor past work that is left, although the runs
\* change between the pages and the calls of a poll.
NothingIsSkipped ==
  \A r \in Runs :
    Publishable(r) /\ ~Before(checkpoint.cursor, <<updated[r], r>>) => <<r, output[r]>> \in received

\* What a checkpoint calls seen has been taken by PulseRelay (SPEC 5.2:
\* "Advance the checkpoint only after all events in the page/window are
\* durably stored").
SeenWasReceived == checkpoint.seen \subseteq received

\* A content is published again only after a failure, as long as the keys fit
\* into a checkpoint.
RepeatsNeedFaults ==
  Cardinality(received) <= SeenLimit => \A k \in Keys : sends[k] <= 1 + faults

Finished(r) == r \in Watched /\ verified[r]
Arrived(r)  == output[r] = 0 \/ <<r, output[r]>> \in received

\* The output of a verified run reaches PulseRelay as it is once it is not
\* corrected any more (SPEC 5.3; SPEC 17: "checkpoint tie-breaker prevents
\* loss").
OutputArrives == \A r \in Runs : Finished(r) ~> Arrived(r)
=============================================================================
