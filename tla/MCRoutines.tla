----------------------------- MODULE MCRoutines -----------------------------
(* Instances of Routines for TLC: a routine on a machine with its worker    *)
(* and the Gateway's tick, or two routines of two local bots of an account. *)
EXTENDS Routines, TLC

CONSTANTS daily, weekly,  \* the routines
          bot1, bot2,     \* the processes they live in
          desk,           \* the owner both claim under
          p1, p2          \* the polls

HomeOfOne == daily :> bot1
HomeOfTwo == daily :> bot1 @@ weekly :> bot2
DeskOf == bot1 :> desk @@ bot2 :> desk
TwoPolls == p1 :> bot1 @@ p2 :> bot1
WithTick == p1 :> bot1 @@ p2 :> Gateway
EachPolls == p1 :> bot1 @@ p2 :> bot2
=============================================================================
