----------------------------- MODULE Delegation -----------------------------
(***************************************************************************)
(* What a delegation promises the person (docs/bot-tasks.md 1 to 1.2): the  *)
(* task comes to one conclusion, which is either taken by the call that     *)
(* waits for it or posted into the main bot's conversation; work that was   *)
(* stopped before it was concluded never comes back as a conclusion; and of *)
(* a cancelled task nothing is given out.                                   *)
(***************************************************************************)

CONSTANT Task

VARIABLES
    state,    \* none, working, concluded, and the ways to end
    stopped,  \* whether the person has said stop
    given     \* the ways in which the conclusion was given out

vars == <<state, stopped, given>>

Init ==
    /\ state = [t \in Task |-> "none"]
    /\ stopped = [t \in Task |-> FALSE]
    /\ given = [t \in Task |-> {}]

Becomes(t, s) == state' = [state EXCEPT ![t] = s]

(* A target that cannot be reached is a conclusion at once, or none at all. *)
Delegate(t) ==
    /\ state[t] = "none"
    /\ \E s \in {"working", "concluded", "failed"} : Becomes(t, s)
    /\ UNCHANGED <<stopped, given>>

Conclude(t) ==
    /\ state[t] = "working" /\ ~stopped[t]
    /\ Becomes(t, "concluded")
    /\ UNCHANGED <<stopped, given>>

Fail(t) ==
    /\ \/ state[t] = "working" /\ ~stopped[t]
       \/ state[t] = "concluded"
    /\ Becomes(t, "failed")
    /\ UNCHANGED <<stopped, given>>

(* A stop may come at any time, and too late.                               *)
Stop(t) ==
    /\ state[t] # "none"
    /\ stopped' = [stopped EXCEPT ![t] = TRUE]
    /\ UNCHANGED <<state, given>>

Cancel(t) ==
    /\ state[t] \in {"working", "concluded"} /\ given[t] = {}
    /\ stopped' = [stopped EXCEPT ![t] = TRUE]
    /\ Becomes(t, "cancelled")
    /\ UNCHANGED given

Take(t) ==
    /\ state[t] = "concluded" /\ given[t] = {}
    /\ Becomes(t, "done")
    /\ given' = [given EXCEPT ![t] = {"taken"}]
    /\ UNCHANGED stopped

(* A delivery may be repeated, and may come when it has been given up, but   *)
(* nothing comes after the task is done.                                    *)
Post(t) ==
    /\ state[t] \in {"concluded", "failed"}
    /\ "taken" \notin given[t]
    /\ given' = [given EXCEPT ![t] = {"posted"}]
    /\ UNCHANGED <<state, stopped>>

Done(t) ==
    /\ state[t] = "concluded" /\ "posted" \in given[t]
    /\ Becomes(t, "done")
    /\ UNCHANGED <<stopped, given>>

Next ==
    \E t \in Task :
        \/ Delegate(t) \/ Conclude(t) \/ Fail(t) \/ Stop(t)
        \/ Cancel(t) \/ Take(t) \/ Post(t) \/ Done(t)

Spec == Init /\ [][Next]_vars
=============================================================================
