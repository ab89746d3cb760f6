----------------------- MODULE MCConnectorSupervisor -----------------------
(* Values for the constants of ConnectorSupervisor. *)
EXTENDS ConnectorSupervisor

CONSTANTS a, b

Always    == [enabled |-> TRUE,  restart |-> "always"]
OnFailure == [enabled |-> TRUE,  restart |-> "on-failure"]
Disabled  == [enabled |-> FALSE, restart |-> "always"]

AllSpecs  == {Always, OnFailure, Disabled}
TwoSpecs  == [c \in Ids |-> IF c = a THEN Always ELSE OnFailure]
=============================================================================
