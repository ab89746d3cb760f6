------------------------ MODULE ConnectorSupervisor ------------------------
(***************************************************************************)
(* The supervisor of the mounted connectors: one thread that discovers     *)
(* manifests, terminates connectors whose manifest changed, reaps the ones *)
(* that ended, starts the ones that are due and sleeps; and stop_all, the  *)
(* signal handler, which Python runs in that thread between any two steps  *)
(* and which returns to the step it interrupted.                           *)
(*                                                                         *)
(* A child is a connector process; children are numbered by their start,   *)
(* so a number is a pid that is never used again.  Time is the delay of    *)
(* next_restart only.                                                      *)
(***************************************************************************)
EXTENDS Integers, Sequences, FiniteSets

CONSTANTS
  Ids,        \* connector ids
  Specs,      \* the manifests an operator may write
  NoSpec,     \* no manifest, an invalid one, or a second one with the same id
  FirstSpec,  \* the manifest of each connector at the start
  Stubborn,   \* connectors that ignore SIGTERM
  MaxTroubles \* bound: manifest edits, exits, failures and signals in a behaviour

ASSUME SupervisorAssumption ==
  /\ IsFiniteSet(Ids) /\ NoSpec \notin Specs
  /\ \A s \in Specs : s.enabled \in BOOLEAN /\ s.restart \in {"always", "on-failure", "never"}
  /\ FirstSpec \in [Ids -> Specs \cup {NoSpec}]
  /\ Stubborn \subseteq Ids
  /\ MaxTroubles \in Nat

VARIABLES
  manifest,    \* connector.yaml of each connector, on disk
  specs,       \* the manifests this pass discovered
  processes,   \* the child registered for each connector; 0 is none
  children,    \* every child ever started: id, spec, state, code, termed
  nextRestart, \* "now", "later" or "never" (infinity)
  file,        \* status in supervisor.json; "absent" before the first write
  stopping,
  pc,          \* where the thread is
  todo,        \* what is left of the loop it is in: ids to start, children
               \* to reap or to stop
  cur,         \* the connector start works on
  stack,       \* the interrupted frames: pc and todo
  calm,        \* history: nothing failed and signals came in the sleep only
  troubles     \* edits, exits, failures and signals so far

frame         == <<pc, todo, cur, stack>>
vars          == <<manifest, specs, processes, children, nextRestart, file, stopping, frame, calm, troubles>>

Up(p)         == children[p].state = "up"
Registered    == {c \in Ids : processes[c] # 0}
Trouble       == troubles < MaxTroubles /\ troubles' = troubles + 1
End(p, code)  == [children EXCEPT ![p] = [@ EXCEPT !.state = "dead", !.code = code]]
Goto(l, rest) == pc' = l /\ todo' = rest

----------------------------------------------------------------------------
(* run, one pass. *)

\* Mutant: while True.
DiscoverForEver ==
  /\ pc = "loop"
  /\ Goto("terminate", {}) /\ specs' = manifest
  /\ UNCHANGED <<manifest, processes, children, nextRestart, file, stopping, cur, stack, calm, troubles>>

\* while not self.stopping: discover()
Discover ==
  /\ pc = "loop"
  /\ IF stopping
     THEN Goto("done", {}) /\ UNCHANGED specs
     ELSE Goto("terminate", {}) /\ specs' = manifest
  /\ UNCHANGED <<manifest, processes, children, nextRestart, file, stopping, cur, stack, calm, troubles>>

\* Mutant: only a connector whose manifest is gone is outdated.
OutdatedIfGone(p) == specs[children[p].id] = NoSpec

\* Its manifest is gone or differs.
Outdated(p) == specs[children[p].id] # children[p].spec

Told(ps) ==
  [p \in DOMAIN children |->
     IF p \in ps /\ Up(p) /\ Outdated(p) THEN [children[p] EXCEPT !.termed = TRUE] ELSE children[p]]

\* SIGTERM to every outdated connector; what the connectors make of it is
\* ExitTermed.  The reap that follows works on the list made here.
Terminate ==
  /\ pc = "terminate"
  /\ LET ps == {processes[c] : c \in Registered}
     IN  children' = Told(ps) /\ Goto("reap", ps)
  /\ UNCHANGED <<manifest, specs, processes, nextRestart, file, stopping, cur, stack, calm, troubles>>

\* Mutant: the manifest on disk decides, not the one the child was started with.
RestartOfNewSpec(p) ==
  LET spec == manifest[children[p].id]
  IN  IF spec # NoSpec /\ (spec.restart = "always" \/ (spec.restart = "on-failure" /\ children[p].code # 0))
      THEN "later" ELSE "never"

\* The policy of the spec the child was started with.
RestartOf(p) ==
  LET spec == children[p].spec
  IN  IF spec.restart = "always" \/ (spec.restart = "on-failure" /\ children[p].code # 0)
      THEN "later" ELSE "never"

\* One turn of reap.  The list was made before the turn, so the child may
\* already have been stopped and removed by a signal handler.
Reap ==
  /\ pc = "reap"
  /\ \E p \in todo :
       LET c == children[p].id
       IN  /\ Goto("reap", todo \ {p})
           /\ IF Up(p)
              THEN UNCHANGED <<processes, file, nextRestart>>
              ELSE /\ processes' = [processes EXCEPT ![c] = 0]
                   /\ file' = [file EXCEPT ![c] = "exited"]
                   /\ nextRestart' = [nextRestart EXCEPT ![c] = RestartOf(p)]
  /\ UNCHANGED <<manifest, specs, children, stopping, cur, stack, calm, troubles>>

\* supervisor.json cannot be written: the exception leaves reap and run.
ReapFails ==
  /\ pc = "reap" /\ Trouble
  /\ \E p \in todo :
       /\ ~Up(p)
       /\ processes' = [processes EXCEPT ![children[p].id] = 0]
  /\ Goto("crashed", {}) /\ calm' = FALSE
  /\ UNCHANGED <<manifest, specs, children, nextRestart, file, stopping, cur, stack>>

BeginStarts ==
  /\ pc = "reap" /\ todo = {}
  /\ Goto("start", {c \in Ids : specs[c] # NoSpec})
  /\ UNCHANGED <<manifest, specs, processes, children, nextRestart, file, stopping, cur, stack, calm, troubles>>

\* Mutant: a connector that has a process is started as well.
StartableTwice(c) == specs[c].enabled /\ nextRestart[c] = "now"

\* The guard of start.
Startable(c) == specs[c].enabled /\ processes[c] = 0 /\ nextRestart[c] = "now"

\* start: a connector that is not due is passed over.
Pick ==
  /\ pc = "start"
  /\ \E c \in todo :
       /\ cur' = c
       /\ Goto(IF Startable(c) THEN "launch" ELSE "start", todo \ {c})
  /\ UNCHANGED <<manifest, specs, processes, children, nextRestart, file, stopping, stack, calm, troubles>>

\* Popen, in a session of its own.
Launch ==
  /\ pc = "launch"
  /\ children' = Append(children,
       [id |-> cur, spec |-> specs[cur], state |-> "up", code |-> 0, termed |-> FALSE])
  /\ Goto("register", todo)
  /\ UNCHANGED <<manifest, specs, processes, nextRestart, file, stopping, cur, stack, calm, troubles>>

\* Mutant: the number the next child will get.
RegisterNext ==
  /\ pc = "register"
  /\ processes' = [processes EXCEPT ![cur] = Len(children) + 1]
  /\ Goto("announce", todo)
  /\ UNCHANGED <<manifest, specs, children, nextRestart, file, stopping, cur, stack, calm, troubles>>

Register ==
  /\ pc = "register"
  /\ processes' = [processes EXCEPT ![cur] = Len(children)]
  /\ Goto("announce", todo)
  /\ UNCHANGED <<manifest, specs, children, nextRestart, file, stopping, cur, stack, calm, troubles>>

Announce ==
  /\ pc = "announce"
  /\ file' = [file EXCEPT ![cur] = "running"]
  /\ Goto("start", todo)
  /\ UNCHANGED <<manifest, specs, processes, children, nextRestart, stopping, cur, stack, calm, troubles>>

\* Popen or the write of supervisor.json fails; run catches it, prints and
\* goes on.  Nothing is taken back.
StartFails ==
  /\ pc \in {"launch", "announce"} /\ Trouble
  /\ Goto("start", todo) /\ calm' = FALSE
  /\ UNCHANGED <<manifest, specs, processes, children, nextRestart, file, stopping, cur, stack>>

\* The pass is over and with it the use of its locals.
Sleep ==
  /\ pc = "start" /\ todo = {}
  /\ Goto("sleep", {})
  /\ specs' = [c \in Ids |-> NoSpec] /\ cur' = NoSpec
  /\ UNCHANGED <<manifest, processes, children, nextRestart, file, stopping, stack, calm, troubles>>

Wake ==
  /\ pc = "sleep"
  /\ Goto("loop", {})
  /\ UNCHANGED <<manifest, specs, processes, children, nextRestart, file, stopping, cur, stack, calm, troubles>>

----------------------------------------------------------------------------
(* stop_all. *)

\* SIGTERM or SIGINT, also while the handler of another one runs.
Signal ==
  /\ Trouble
  /\ stopping' = TRUE
  /\ stack' = <<[pc |-> pc, todo |-> todo]>> \o stack
  /\ Goto("stop", {processes[c] : c \in Registered})
  /\ calm' = (calm /\ pc \in {"sleep", "stop"})
  /\ UNCHANGED <<manifest, specs, processes, children, nextRestart, file, cur>>

\* killpg, wait up to five seconds, kill: the child is gone, unless it was
\* already.
Stopped(p) == IF Up(p) THEN End(p, IF children[p].id \in Stubborn THEN -9 ELSE -15) ELSE children

StopOne ==
  /\ pc = "stop"
  /\ \E p \in todo :
       /\ children' = Stopped(p)
       /\ processes' = [processes EXCEPT ![children[p].id] = 0]
       /\ file' = [file EXCEPT ![children[p].id] = "stopped"]
       /\ Goto("stop", todo \ {p})
  /\ UNCHANGED <<manifest, specs, nextRestart, stopping, cur, stack, calm, troubles>>

\* The handler returns to what it interrupted.
Return ==
  /\ pc = "stop" /\ todo = {}
  /\ Goto(Head(stack).pc, Head(stack).todo)
  /\ stack' = Tail(stack)
  /\ UNCHANGED <<manifest, specs, processes, children, nextRestart, file, stopping, cur, calm, troubles>>

\* supervisor.json cannot be written: the exception leaves the handler where
\* it interrupted the thread.  The wait of another stop_all takes it for a
\* timeout and that handler goes on; if the thread was in start, run goes on.
StopFails ==
  /\ pc = "stop" /\ Trouble
  /\ \E p \in todo :
       /\ children' = Stopped(p)
       /\ processes' = [processes EXCEPT ![children[p].id] = 0]
  /\ \/ /\ Head(stack).pc = "stop"
        /\ Goto("stop", Head(stack).todo)
        /\ stack' = Tail(stack)
     \/ /\ LET interrupted == stack[Len(stack)]
           IN  IF interrupted.pc \in {"launch", "register", "announce"}
               THEN Goto("start", interrupted.todo) ELSE Goto("crashed", {})
        /\ stack' = <<>>
  /\ calm' = FALSE
  /\ UNCHANGED <<manifest, specs, nextRestart, file, stopping, cur>>

----------------------------------------------------------------------------
(* The environment. *)

\* A connector ends by itself, well or badly.
Exit ==
  /\ \E p \in DOMAIN children :
       Up(p) /\ \E code \in {0, 1} : children' = End(p, code)
  /\ Trouble
  /\ UNCHANGED <<manifest, specs, processes, nextRestart, file, stopping, frame, calm>>

\* A connector that was told to ends, by the signal or by its own handler.
ExitTermed(p) ==
  /\ Up(p) /\ children[p].termed /\ children[p].id \notin Stubborn
  /\ \E code \in {-15, 0} : children' = End(p, code)
  /\ UNCHANGED <<manifest, specs, processes, nextRestart, file, stopping, frame, calm, troubles>>

\* restart_delay_seconds are over.
DelayPasses(c) ==
  /\ nextRestart[c] = "later"
  /\ nextRestart' = [nextRestart EXCEPT ![c] = "now"]
  /\ UNCHANGED <<manifest, specs, processes, children, file, stopping, frame, calm, troubles>>

\* An operator writes, breaks or removes a manifest.
EditManifest ==
  /\ \E c \in Ids : \E s \in (Specs \cup {NoSpec}) \ {manifest[c]} :
       manifest' = [manifest EXCEPT ![c] = s]
  /\ Trouble
  /\ UNCHANGED <<specs, processes, children, nextRestart, file, stopping, frame, calm>>

----------------------------------------------------------------------------

Init ==
  /\ manifest = FirstSpec
  /\ specs = [c \in Ids |-> NoSpec]
  /\ processes = [c \in Ids |-> 0]
  /\ children = <<>>
  /\ nextRestart = [c \in Ids |-> "now"]
  /\ file = [c \in Ids |-> "absent"]
  /\ stopping = FALSE
  /\ pc = "loop" /\ todo = {} /\ cur = NoSpec /\ stack = <<>>
  /\ calm = TRUE
  /\ troubles = 0

\* The supervisor's own thread.
Run ==
  \/ Discover \/ Terminate \/ Reap \/ BeginStarts \/ Pick \/ Launch \/ Register \/ Announce
  \/ Sleep \/ Wake \/ StopOne \/ Return

Ended == pc \in {"done", "crashed"}

\* What connectors do once nobody supervises them is left out.
Next ==
  /\ ~Ended
  /\ \/ Run \/ ReapFails \/ StartFails \/ StopFails \/ Signal \/ Exit \/ EditManifest
     \/ \E p \in DOMAIN children : ExitTermed(p)
     \/ \E c \in Ids : DelayPasses(c)

Spec == Init /\ [][Next]_vars

\* The thread runs on, delays end, and a connector that is told to stop and
\* does not ignore it does.
Fairness ==
  /\ WF_vars(Run)
  /\ WF_vars(\E p \in DOMAIN children : ExitTermed(p))
  /\ \A c \in Ids : WF_vars(DelayPasses(c))

FairSpec == Spec /\ Fairness

----------------------------------------------------------------------------
(* Properties. *)

Pcs     == {"loop", "terminate", "reap", "start", "launch", "register", "announce", "sleep", "stop",
            "done", "crashed"}
Child   == [id : Ids, spec : Specs, state : {"up", "dead"}, code : {0, 1, -9, -15}, termed : BOOLEAN]
Frame   == [pc : Pcs, todo : SUBSET (Ids \cup DOMAIN children)]
Over(l) == IF l \in {"stop", "reap"} THEN DOMAIN children ELSE Ids

TypeOK ==
  /\ manifest \in [Ids -> Specs \cup {NoSpec}] /\ specs \in [Ids -> Specs \cup {NoSpec}]
  /\ processes \in [Ids -> 0..Len(children)]
  /\ children \in Seq(Child)
  /\ nextRestart \in [Ids -> {"now", "later", "never"}]
  /\ file \in [Ids -> {"absent", "running", "exited", "stopped"}]
  /\ stopping \in BOOLEAN /\ calm \in BOOLEAN
  /\ pc \in Pcs /\ cur \in Ids \cup {NoSpec}
  /\ todo \subseteq Over(pc)
  /\ stack \in Seq(Frame) /\ \A i \in DOMAIN stack : stack[i].todo \subseteq Over(stack[i].pc)
  /\ troubles \in 0..MaxTroubles

\* A connector never runs twice at a time: not after its manifest changed while
\* it ignores SIGTERM, not when a signal handler stops and forgets processes
\* in the middle of reap or start.
OneChildPerConnector ==
  \A p, q \in DOMAIN children : p # q /\ Up(p) /\ Up(q) => children[p].id # children[q].id

\* A connector is started again only if the policy it was started with says
\* so, whatever its manifest says by then; the pass that a signal interrupted
\* may also start again what the handler stopped.
RestartsFollowPolicy ==
  \A p, q \in DOMAIN children :
    p < q /\ children[p].id = children[q].id =>
      \/ children[p].spec.restart = "always"
      \/ children[p].spec.restart = "on-failure" /\ children[p].code # 0
      \/ stopping

\* A child that runs is registered, about to be, or was leaked by a failure or
\* by a signal that interrupted a pass: nothing else escapes supervision.
RunningIsSupervised ==
  calm => \A p \in DOMAIN children :
    Up(p) => processes[children[p].id] = p \/ (pc = "register" /\ p = Len(children))

\* When the supervisor has ended after a signal in its sleep, no connector is
\* left and no state file says running.
CalmStopIsClean ==
  pc = "done" /\ calm => \A c \in Ids : file[c] # "running" /\ \A p \in DOMAIN children : ~Up(p)

\* Supervision is exclusive, without leaks and ends cleanly.
Supervised == OneChildPerConnector /\ RunningIsSupervised /\ CalmStopIsClean

\* What a manifest asks for is what runs, in the end, also after exits and
\* edits; unless an exit put the connector off for ever, or it will not end.
Obeys(c, s) ==
  IF s # NoSpec /\ s.enabled
  THEN processes[c] # 0 /\ children[processes[c]].spec = s /\ Up(processes[c])
  ELSE \A p \in DOMAIN children : children[p].id = c => ~Up(p)

ManifestIsObeyed ==
  \A c \in Ids \ Stubborn : \A s \in Specs \cup {NoSpec} :
    manifest[c] = s ~> Obeys(c, s) \/ manifest[c] # s \/ nextRestart[c] = "never" \/ stopping \/ Ended

\* A signal ends the supervisor, whatever it interrupts and however stubborn
\* the connectors are.
SignalEnds == stopping ~> Ended
=============================================================================
