------------------------------ MODULE MCMetering ------------------------------
(* Instances of Metering for TLC: calls of one or two accounts.             *)
EXTENDS Metering, TLC

CONSTANTS a1, a2

Metered == [said |-> TRUE, tokens |-> 1, status |-> "ok", started |-> TRUE]
CutOff == [said |-> FALSE, tokens |-> 0, status |-> "failed", started |-> TRUE]
Some == {Metered, CutOff}

FirstOwns == [c \in Calls |-> IF c = 1 THEN {a1} ELSE {a1, a2}]

Once == [e \in Events |-> 1]
=============================================================================
