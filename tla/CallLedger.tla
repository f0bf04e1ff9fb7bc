------------------------------ MODULE CallLedger ------------------------------
(***************************************************************************)
(* What the ledger promises about a model call (docs/billing.md 2 to 2.2): *)
(* it is charged at most once, and from then on only an explicit amendment *)
(* changes the amount.  A row that merely stands in for a call nobody has  *)
(* settled yet is no charge, and may become one once.                      *)
(***************************************************************************)
EXTENDS Naturals, Sequences

CONSTANT Calls

VARIABLES
    bill,      \* per call, the amounts on the ledger for it
    held,      \* the calls whose row only stands in for a charge
    amended    \* the calls whose amount somebody has changed

vars == <<bill, held, amended>>

Init == /\ bill = [c \in Calls |-> <<>>]
        /\ held = {}
        /\ amended = {}

(* The calls of cs have one amount each, and the others what they had.     *)
Bills(cs) ==
    /\ bill' = [c \in Calls |-> IF c \in cs THEN bill'[c] ELSE bill[c]]
    /\ \A c \in cs : bill'[c] \in Seq(Nat) /\ Len(bill'[c]) = 1

Enter(c) == /\ bill[c] = <<>>
            /\ Bills({c})
            /\ held' \in {held, held \cup {c}}
            /\ UNCHANGED amended

Settle(c) == /\ c \in held
             /\ Bills({c})
             /\ held' = held \ {c}
             /\ UNCHANGED amended

Amend(cs) == /\ \A c \in cs : bill[c] # <<>>
             /\ Bills(cs)
             /\ held' \subseteq held /\ held \ held' \subseteq cs
             /\ amended' = amended \cup cs

Next == \/ \E c \in Calls : Enter(c) \/ Settle(c)
        \/ \E cs \in SUBSET Calls : Amend(cs)

Spec == Init /\ [][Next]_vars
=============================================================================
