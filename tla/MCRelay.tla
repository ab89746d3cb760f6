------------------------------ MODULE MCRelay ------------------------------
(* Values for the constants of Relay. *)
EXTENDS Relay, TLC

CONSTANTS api, worker, m1, m2, m3, r1, r2, e1

\* Distinct events with distinct keys.
Own == [m \in Messages |-> m]

\* Every event goes to every route; m1 to every route, the others to r1.
ToAll      == [m \in Messages |-> Routes]
FirstToAll == [m \in Messages |-> IF m = m1 THEN Routes ELSE {r1}]

\* How often a message is sent.
Twice      == [m \in Messages |-> 2]
FirstTwice == [m \in Messages |-> IF m = m1 THEN 2 ELSE 1]

OneGroup == [m \in Messages |-> "g"]
OneDest  == [r \in Routes |-> {e1}]

\* enabled = False; max_events 2 with an idle timeout, with a
\* longest wait, with both.
Immediate == [immediate |-> TRUE,  maxEvents |-> 0, idle |-> FALSE, wait |-> FALSE]
Pairs     == [immediate |-> FALSE, maxEvents |-> 2, idle |-> TRUE,  wait |-> FALSE]
Waits     == [immediate |-> FALSE, maxEvents |-> 2, idle |-> FALSE, wait |-> TRUE]
Both      == [immediate |-> FALSE, maxEvents |-> 2, idle |-> TRUE,  wait |-> TRUE]

\* With these a batch always has a deadline that no later policy can clear.
WaitOrNot     == {Both, Waits, Immediate}
StartWaits    == [r \in Routes |-> Waits]

OnlyPairs     == {Pairs}
StartPairs    == [r \in Routes |-> Pairs]

\* The messages differ in nothing but their identity.
MessageSymmetry == Permutations(Messages)
=============================================================================
