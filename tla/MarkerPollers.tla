---------------------------- MODULE MarkerPollers ----------------------------
(***************************************************************************)
(* Two connectors that remember what they have published by a marker per   *)
(* item: Multica, which polls the runs of several autopilots and saves its *)
(* checkpoint once at the end of a poll, and the GitHub releases of        *)
(* my-source, which saves it after every release; over services whose      *)
(* items go on changing.                                                   *)
(*                                                                         *)
(* Times are numbers, 0 is none; what is listed is <<time, item>>, which   *)
(* is also the dedupe key of its event.                                    *)
(***************************************************************************)
EXTENDS Integers, FiniteSets, Sequences

CONSTANTS
  Items,        \* runs, or releases
  Sources,      \* autopilots; a repository is one
  SourceOf,     \* of an item
  Program,      \* "multica" or "releases"
  ListLimit,    \* items that a listing returns
  SeenLimit,    \* markers that a checkpoint keeps
  InitialLimit, \* INITIAL_SYNC_LIMIT
  MaxChanges,   \* bound: changes to items in a behaviour
  MaxFaults     \* bound: failed calls and crashes in a behaviour

MarkerAssumption ==
  /\ IsFiniteSet(Items) /\ Items \subseteq Nat \ {0} /\ SourceOf \in [Items -> Sources]
  /\ ListLimit \in Nat \ {0} /\ SeenLimit \in Nat \ {0} /\ InitialLimit \in Nat \ {0}
  /\ MaxChanges \in Nat /\ MaxFaults \in Nat

VARIABLES
  now, time, done, changes, \* the service: when an item changed, whether it is terminal (published)
  received,   \* what PulseRelay has taken
  sends,      \* history: publish calls per event
  checkpoint, \* checkpoint.json: markers, oldest first
  pc,         \* where poll_once is
  sources,    \* autopilots not yet listed
  items,      \* listed and not yet handled
  entry,      \* the item in hand
  seen,
  faults      \* failed calls and crashes so far

service == <<now, time, done, changes>>
locals  == <<sources, items, entry, seen>>
vars    == <<service, received, sends, checkpoint, pc, locals, faults>>

Releases == Program = "releases"
NoEntry  == <<0, 0>>
Events   == (1..MaxChanges) \X Items
SetOf(s) == {s[i] : i \in DOMAIN s}

Before(x, y) == x[1] < y[1] \/ (x[1] = y[1] /\ x[2] < y[2])
OldestIn(x, set) == \A y \in set \ {x} : Before(x, y)
NewestOf(n, set) == {x \in set : Cardinality({y \in set : Before(x, y)}) < n}

\* Mutant: a run is known by its id too.
KnownById(x, s) == \E m \in SetOf(s) : m[2] = x[2]

\* A release is known by its id, a run by its id, status and time.
Known(x, s) == \E m \in SetOf(s) : m[2] = x[2] /\ (Releases \/ m = x)

\* Mutant: seen.setdefault(key, marker).
MarkFirst(s, x) == IF \E i \in DOMAIN s : s[i][2] = x[2] THEN s ELSE Append(s, x)

\* seen[key] = marker: a key that is there keeps its place.
Mark(s, x) ==
  IF \E i \in DOMAIN s : s[i][2] = x[2]
  THEN [i \in DOMAIN s |-> IF s[i][2] = x[2] THEN x ELSE s[i]]
  ELSE Append(s, x)

----------------------------------------------------------------------------
(* The service. *)

\* An item appears, changes or comes to its end; a run that ended may change
\* again, a release keeps the time of its publication.
Change(i) ==
  /\ changes < MaxChanges /\ changes' = changes + 1
  /\ ~(Releases /\ done[i])
  /\ now' = now + 1 /\ time' = [time EXCEPT ![i] = now + 1]
  /\ done' \in {done, [done EXCEPT ![i] = TRUE]}
  /\ UNCHANGED <<received, sends, checkpoint, pc, locals, faults>>

\* The newest items, whatever their status.
Page(src) == NewestOf(ListLimit, {<<time[i], i>> : i \in {k \in Items : SourceOf[k] = src /\ time[k] > 0}})

----------------------------------------------------------------------------
(* poll_once. *)

Forget == sources' = {} /\ items' = {} /\ entry' = NoEntry /\ seen' = <<>>

Load ==
  /\ pc = "idle"
  /\ pc' = "list"
  /\ sources' = Sources /\ seen' = checkpoint
  /\ UNCHANGED <<service, received, sends, checkpoint, items, entry, faults>>

\* list_runs, fetch_releases: what is not terminal, or a draft, is passed
\* over; the first poll takes INITIAL_SYNC_LIMIT of the unseen releases.
List ==
  /\ pc = "list"
  /\ \E src \in sources :
       LET unseen == {x \in Page(src) : done[x[2]] /\ ~Known(x, seen)}
       IN  /\ sources' = sources \ {src}
           /\ items' = IF Releases /\ checkpoint = <<>> THEN NewestOf(InitialLimit, unseen) ELSE unseen
  /\ pc' = "next"
  /\ UNCHANGED <<service, received, sends, checkpoint, entry, seen, faults>>

\* sorted(..., key=_run_time): oldest first.
Take ==
  /\ pc = "next"
  /\ \E x \in items : OldestIn(x, items) /\ items' = items \ {x} /\ entry' = x
  /\ pc' = "publish"
  /\ UNCHANGED <<service, received, sends, checkpoint, sources, seen, faults>>

\* The next autopilot, or the end: Multica saves what it has seen.
EndOfList ==
  /\ pc = "next" /\ items = {}
  /\ IF sources # {} THEN pc' = "list" /\ UNCHANGED locals
     ELSE IF Releases THEN pc' = "idle" /\ Forget
     ELSE pc' = "save" /\ UNCHANGED locals
  /\ UNCHANGED <<service, received, sends, checkpoint, faults>>

\* Counted up to 2 + MaxFaults: a marker that is dropped from the checkpoint
\* lets its item be published again in every poll.
Send == sends' = [sends EXCEPT ![entry] = IF @ > 1 + MaxFaults THEN @ ELSE @ + 1]

\* publish is answered: ingest has taken the event, now or before.
Publish ==
  /\ pc = "publish" /\ Send
  /\ received' = received \cup {entry}
  /\ seen' = Mark(seen, entry)
  /\ pc' = IF Releases THEN "save" ELSE "next"
  /\ UNCHANGED <<service, checkpoint, sources, items, entry, faults>>

\* No usable answer: the event may have been taken; the poll fails.
PublishFails ==
  /\ pc = "publish" /\ faults < MaxFaults /\ Send
  /\ received' \in {received, received \cup {entry}}
  /\ pc' = "idle" /\ Forget /\ faults' = faults + 1
  /\ UNCHANGED <<service, checkpoint>>

\* save_checkpoint: of a dict the last 2000, of a set any 500.
Save ==
  /\ pc = "save"
  /\ LET n == IF Len(seen) <= SeenLimit THEN Len(seen) ELSE SeenLimit
     IN  \E kept \in [1..n -> DOMAIN seen] :
           /\ \A i, j \in 1..n : i < j => kept[i] < kept[j]
           /\ ~Releases => \A i \in 1..n : kept[i] = Len(seen) - n + i
           /\ checkpoint' = [i \in 1..n |-> seen[kept[i]]]
  /\ IF Releases /\ items # {} THEN pc' = "next" /\ UNCHANGED locals ELSE pc' = "idle" /\ Forget
  /\ UNCHANGED <<service, received, sends, faults>>

\* Any other call fails, or the process ends and is started again.
Fail ==
  /\ pc # "idle" /\ faults < MaxFaults
  /\ pc' = "idle" /\ Forget /\ faults' = faults + 1
  /\ UNCHANGED <<service, received, sends, checkpoint>>

----------------------------------------------------------------------------

Init ==
  /\ now = 0 /\ changes = 0
  /\ time = [i \in Items |-> 0] /\ done = [i \in Items |-> FALSE]
  /\ received = {} /\ sends = [e \in Events |-> 0] /\ checkpoint = <<>>
  /\ pc = "idle" /\ sources = {} /\ items = {} /\ entry = NoEntry /\ seen = <<>>
  /\ faults = 0

Poll == Load \/ List \/ Take \/ EndOfList \/ Publish \/ Save

Next == Poll \/ PublishFails \/ Fail \/ \E i \in Items : Change(i)

Spec == Init /\ [][Next]_vars

\* main polls for ever.
FairSpec == Spec /\ WF_vars(Poll)

----------------------------------------------------------------------------
(* Properties. *)

\* Every variable has its type; a checkpoint has a marker per item at most.
TypeOK ==
  /\ now \in 0..MaxChanges /\ changes \in 0..MaxChanges
  /\ time \in [Items -> 0..MaxChanges] /\ done \in [Items -> BOOLEAN]
  /\ received \subseteq Events /\ sends \in [Events -> 0..2 + MaxFaults]
  /\ \A s \in {checkpoint, seen} :
       s \in Seq(Events) /\ \A i, j \in DOMAIN s : i # j => s[i][2] # s[j][2]
  /\ Len(checkpoint) <= SeenLimit
  /\ pc \in {"idle", "list", "next", "publish", "save"}
  /\ sources \subseteq Sources /\ items \subseteq Events /\ entry \in Events \cup {NoEntry}
  /\ faults \in 0..MaxFaults

\* What a checkpoint calls seen has been taken by PulseRelay.
CheckpointIsSafe == SetOf(checkpoint) \subseteq received

\* An event is sent again only after a failure, as long as the markers fit
\* into a checkpoint.
RepeatsNeedFaults ==
  Cardinality({e[2] : e \in received}) <= SeenLimit => \A e \in Events : sends[e] <= 1 + faults

Finished(i) == done[i]
Arrived(i)  == <<time[i], i>> \in received \/ <<time[i], i>> \notin Page(SourceOf[i])

\* An item that has come to its end reaches PulseRelay as it is once it has
\* stopped changing, also beyond INITIAL_SYNC_LIMIT, unless the listing has
\* no room for it any more.
OutputArrives == \A i \in Items : Finished(i) ~> Arrived(i)
=============================================================================
