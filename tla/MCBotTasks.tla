----------------------------- MODULE MCBotTasks -----------------------------
(* Instances of BotTasks for TLC: a main bot and one other, on two machines *)
(* or on the same one.                                                      *)
EXTENDS BotTasks, TLC

CONSTANTS main, other, here, there

TwoBots == {main, other}
OnlyMain == {main}
TwoOwners == {here, there}
Apart == main :> here @@ other :> there
Together == main :> here @@ other :> here
=============================================================================
