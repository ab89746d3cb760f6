-------------------------- MODULE MCDeliveryQueue --------------------------
(* Values for the constants of DeliveryQueue. *)
EXTENDS DeliveryQueue, TLC

CONSTANTS api, worker, h1, h2, w1, d1, d2, x1

\* Two requests of POST /v1/deliveries/process in the API process.
OneProcess == [t \in {h1, h2} |-> api]

\* The delivery worker by itself.
WorkerOnly == [t \in {w1} |-> worker]

\* The deployment of docker-compose.yml: the worker beside an API handler.
TwoProcesses == [t \in {h1, w1} |-> IF t = h1 THEN api ELSE worker]

\* No header, and a date already past by the time it is used.
PastRetryAfter == {0, -1}
LongRetryAfter == {0, 3}

\* The queued deliveries differ in nothing but their identity.
JobSymmetry == Permutations(Jobs)
=============================================================================
