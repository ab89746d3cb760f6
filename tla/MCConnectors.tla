----------------------------- MODULE MCConnectors -----------------------------
(* The polling connectors, each over its service: a behaviour is that of one  *)
(* of them.  What they have in common is stated of all three.                 *)
EXTENDS GBrainPoller, Sequences

VARIABLES
  program,                   \* which connector it is
  time, done, sources, items \* what the other two have and GBrain has not

ThreeRuns == 1..3
TwoRuns   == 1..2
Either    == BOOLEAN
Strict    == {FALSE}

others == <<time, done, sources, items>>
union  == <<vars, others, program>>

Multica ==
  INSTANCE MarkerPollers WITH
    Items <- Runs, Sources <- {1, 2}, SourceOf <- [r \in Runs |-> IF r = 3 THEN 2 ELSE 1], Program <- "multica",
    ListLimit <- PageLimit, InitialLimit <- 1

Releases ==
  INSTANCE MarkerPollers WITH
    Items <- Runs, Sources <- {1}, SourceOf <- [r \in Runs |-> 1], Program <- "releases",
    ListLimit <- PageLimit, InitialLimit <- 1

ASSUME Multica!MarkerAssumption /\ Releases!MarkerAssumption

GBrainOnly == <<updated, verified, output, inclusive, after, runs, text, cursor>>

NoGBrain ==
  /\ updated = [r \in Runs |-> 0] /\ verified = [r \in Runs |-> FALSE] /\ output = [r \in Runs |-> 0]
  /\ inclusive = FALSE
  /\ after = 0 /\ runs = {} /\ text = 0 /\ cursor = NoEntry

EachInit ==
  \/ program = "gbrain" /\ Init /\ time = updated /\ done = verified /\ sources = {} /\ items = {}
  \/ program = "multica" /\ Multica!Init /\ NoGBrain
  \/ program = "releases" /\ Releases!Init /\ NoGBrain

EachNext ==
  \/ program = "gbrain" /\ Next /\ UNCHANGED <<program, others>>
  \/ program = "multica" /\ Multica!Next /\ UNCHANGED <<program, GBrainOnly>>
  \/ program = "releases" /\ Releases!Next /\ UNCHANGED <<program, GBrainOnly>>

EachPoll ==
  \/ program = "gbrain" /\ Poll /\ UNCHANGED <<program, others>>
  \/ program = "multica" /\ Multica!Poll /\ UNCHANGED <<program, GBrainOnly>>
  \/ program = "releases" /\ Releases!Poll /\ UNCHANGED <<program, GBrainOnly>>

EachSpec == EachInit /\ [][EachNext]_union /\ WF_union(EachPoll)

----------------------------------------------------------------------------
(* Properties. *)

\* The variables of the connector have their types.
EachTypeOK ==
  CASE program = "gbrain"   -> TypeOK
    [] program = "multica"  -> Multica!TypeOK
    [] program = "releases" -> Releases!TypeOK

\* No saved checkpoint claims what PulseRelay has not got: neither a key that
\* it calls seen, nor, with GBrain, a verified run that its cursor has passed
\* (SPEC 5.2: "Advance the checkpoint only after all events in the page/window
\* are durably stored").
CheckpointsAreSafe ==
  CASE program = "gbrain"   -> NothingIsSkipped /\ SeenWasReceived
    [] program = "multica"  -> Multica!CheckpointIsSafe
    [] program = "releases" -> Releases!CheckpointIsSafe

\* As long as the keys fit into a checkpoint, an event is published again only
\* after a failure.
RepeatsNeedFaultsEach ==
  CASE program = "gbrain"   -> RepeatsNeedFaults
    [] program = "multica"  -> Multica!RepeatsNeedFaults
    [] program = "releases" -> Releases!RepeatsNeedFaults

EachFinished(r) ==
  CASE program = "gbrain"   -> Finished(r)
    [] program = "multica"  -> Multica!Finished(r)
    [] program = "releases" -> Releases!Finished(r)

EachArrived(r) ==
  CASE program = "gbrain"   -> Arrived(r)
    [] program = "multica"  -> Multica!Arrived(r)
    [] program = "releases" -> Releases!Arrived(r)

\* What a service has finished reaches PulseRelay, unless it changes before
\* that or drops out of the listing: OutputArrives of each connector.
OutputArrivesEach == \A r \in Runs : EachFinished(r) ~> EachArrived(r)
=============================================================================
