-------------------------- MODULE DeliveryContract --------------------------
(***************************************************************************)
(* What the outbound queue promises of every queued delivery, whatever     *)
(* columns, statements and coroutines it is made of: it is attempted by    *)
(* one attempt at a time and a bounded number of times, it is reported     *)
(* delivered only after the destination took it, it is given up only after *)
(* enough attempts, and both verdicts are final.                           *)
(***************************************************************************)
EXTENDS Integers

CONSTANTS
  Jobs,        \* the deliveries
  Least, Most  \* attempts before one may be given up, attempts at most

VARIABLES
  phase, \* "none", "waiting", "held", "delivered" or "dropped"
  tries, \* attempts so far
  taken  \* the deliveries the destination took

cvars == <<phase, tries, taken>>

Move(j, from, to) == phase[j] = from /\ phase' = [phase EXCEPT ![j] = to]

Submit(j)   == Move(j, "none", "waiting") /\ UNCHANGED <<tries, taken>>
Attempt(j)  == /\ Move(j, "waiting", "held")
               /\ tries[j] < Most
               /\ tries' = [tries EXCEPT ![j] = @ + 1]
               /\ UNCHANGED taken
Take(j)     == phase[j] = "held" /\ taken' = taken \cup {j} /\ UNCHANGED <<phase, tries>>
Deliver(j)  == Move(j, "held", "delivered") /\ j \in taken /\ UNCHANGED <<tries, taken>>
Postpone(j) == Move(j, "held", "waiting") /\ tries[j] < Most /\ UNCHANGED <<tries, taken>>
Drop(j)     == Move(j, "held", "dropped") /\ tries[j] >= Least /\ UNCHANGED <<tries, taken>>

Init ==
  /\ phase = [j \in Jobs |-> "none"]
  /\ tries = [j \in Jobs |-> 0]
  /\ taken = {}

Next ==
  \E j \in Jobs :
    Submit(j) \/ Attempt(j) \/ Take(j) \/ Deliver(j) \/ Postpone(j) \/ Drop(j)

Spec == Init /\ [][Next]_cvars
=============================================================================
