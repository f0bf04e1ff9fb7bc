---------------------------- MODULE MeteringProofs ----------------------------
(***************************************************************************)
(* Theorems about Metering for any number of calls, any prices, outcomes   *)
(* and bounds: the types, one row per call, the reported usage kept, the   *)
(* bonus within its grant, and the refinement of CallLedger.               *)
(*                                                                         *)
(* The invariant says of every stage what the check under the settle lock  *)
(* has established and the lock keeps true until the write, and of every   *)
(* row what a later fill or amendment relies on.                           *)
(***************************************************************************)
EXTENDS Metering, FiniteSetTheorems, TLAPS

Locked(c, k) == tx[c][k].at \in {"insert", "fill", "inserting", "filling"}

\* The report of c says tokens.
Says(c) == out[c].said /\ out[c].tokens > 0

\* What holds of a row of c, or of one about to be inserted.
RowOk(c, r) ==
    /\ r.unpriced => r.amount = 0
    /\ r.adjusted # "hand" /\ r.tokens = 0 => r.amount = 0
    /\ call[c] = "running" => r.tokens = 0
    /\ Says(c) => r.tokens \in {0, out[c].tokens}
    /\ (call[c] = "running" \/ Says(c)) /\ r.tokens = 0 /\ r.adjusted # "hand"
         => Placeholder(r)

Kept(c, k) ==
    /\ rows[c] # <<>>
    /\ logged[c] = out[c].tokens
    /\ \A i \in DOMAIN rows[c] : \/ rows[c][i].tokens = out[c].tokens
                                 \/ rows[c][i].adjusted = "hand"
                                 \/ ~tx[c][k].known

TxOk(c, k) ==
    /\ tx[c][k].at # "idle" =>
         call[c] # "none" /\ (k \in Reports => call[c] = "over")
    /\ tx[c][k].at \in {"insert", "inserting"} => rows[c] = <<>>
    /\ tx[c][k].at \in {"fill", "filling"} =>
         rows[c] # <<>> /\ k \in Reports /\ Says(c)
    /\ tx[c][k].at = "inserting" =>
         /\ RowOk(c, tx[c][k].row)
         /\ tx[c][k].row.adjusted = "no"
         /\ k \in Reports /\ Says(c) => tx[c][k].row.tokens = out[c].tokens
    /\ tx[c][k].at = "filling" =>
         /\ tx[c][k].row.tokens = out[c].tokens
         /\ tx[c][k].row.unpriced => tx[c][k].row.amount = 0
    /\ tx[c][k].at = "done" /\ k \in Reports /\ Says(c) => Kept(c, k)

CallOk(c) ==
    /\ Len(rows[c]) <= 1
    /\ call[c] = "none" => rows[c] = <<>>
    /\ \A i \in DOMAIN rows[c] : RowOk(c, rows[c][i])

LockOk == \A c \in Calls : \A j, k \in Kinds :
    Locked(c, j) /\ Locked(c, k) => j = k

OwnerOk ==
    /\ \A e \in edit :
         /\ e.i \in DOMAIN rows[e.call]
         /\ e.unpriced => e.amount = 0
         /\ e.unpriced /\ rows[e.call][e.i].tokens = 0
              => rows[e.call][e.i].unpriced
    /\ \A x \in recalc :
         /\ x.i \in DOMAIN rows[x.call]
         /\ rows[x.call][x.i].tokens > 0

IInv ==
    /\ TypeOK
    /\ \A c \in Calls : CallOk(c)
    /\ \A c \in Calls, k \in Kinds : TxOk(c, k)
    /\ LockOk
    /\ OwnerOk

-----------------------------------------------------------------------------
(* Sequences, the smaller of two, the types of what a step writes.         *)

\* A sequence rewritten element by element.
LEMMA Rewritten ==
    ASSUME NEW S, NEW s \in Seq(S), NEW t, t = [i \in DOMAIN s |-> t[i]],
           \A i \in DOMAIN s : t[i] \in S
    PROVE  t \in Seq(S) /\ Len(t) = Len(s) /\ DOMAIN t = DOMAIN s
  OBVIOUS

LEMMA Mapped ==
    ASSUME NEW S, NEW T, NEW s \in Seq(S), NEW t, t = [i \in DOMAIN s |-> t[i]],
           \A i \in DOMAIN s : t[i] \in T
    PROVE  t \in Seq(T) /\ Len(t) = Len(s)
  OBVIOUS

\* A sequence of at most one element.
LEMMA AtMostOne ==
    ASSUME NEW S, NEW s \in Seq(S), Len(s) <= 1
    PROVE  /\ s = <<>> <=> DOMAIN s = {}
           /\ DOMAIN s \subseteq {1}
           /\ s # <<>> => DOMAIN s = {1} /\ Len(s) = 1
           /\ \A i \in DOMAIN s : s[i] \in S
<1>1. Len(s) \in Nat /\ DOMAIN s = 1 .. Len(s)
  OBVIOUS
<1>2. Len(s) = 0 \/ Len(s) = 1
  BY <1>1
<1>3. \A i \in DOMAIN s : s[i] \in S
  OBVIOUS
<1>4. CASE Len(s) = 0
  <2>1. s = <<>> /\ DOMAIN s = {}
    BY <1>1, <1>4
  <2> QED
    BY <1>3, <2>1
<1>5. CASE Len(s) = 1
  <2>1. DOMAIN s = {1} /\ s # <<>>
    BY <1>1, <1>5
  <2> QED
    BY <1>3, <1>5, <2>1
<1> QED
  BY <1>2, <1>4, <1>5

LEMMA Appended ==
    ASSUME NEW S, NEW r \in S
    PROVE  LET t == Append(<<>>, r)
           IN t \in Seq(S) /\ Len(t) = 1 /\ DOMAIN t = {1} /\ t[1] = r
  OBVIOUS

LEMMA Smaller ==
    ASSUME NEW a \in Nat, NEW b \in Nat
    PROVE  Min({a, b}) \in Nat /\ Min({a, b}) <= a /\ Min({a, b}) <= b
<1> DEFINE IsMin(x) == x \in {a, b} /\ \A y \in {a, b} : x <= y
<1>1. \E x : IsMin(x)
  <2>1. CASE a <= b
    BY <2>1
  <2>2. CASE b <= a
    BY <2>2
  <2> QED BY <2>1, <2>2
<1>2. Min({a, b}) = CHOOSE x : IsMin(x)
  BY DEF Min
<1>3. IsMin(CHOOSE x : IsMin(x))
  BY <1>1
<1> QED BY <1>2, <1>3

LEMMA TxMoved ==
    ASSUME TypeOK, NEW c \in Calls, NEW k \in Kinds, NEW t \in Tx,
           Moves(c, k, t)
    PROVE  /\ tx' \in [Calls -> [Kinds -> Tx]]
           /\ tx'[c][k] = t
           /\ \A d \in Calls, j \in Kinds :
                d # c \/ j # k => tx'[d][j] = tx[d][j]
  BY DEF TypeOK, Moves

LEMMA RowTypes ==
    /\ NoRow \in Row
    /\ Unused \in Tx
    /\ NoOutcome \in Outcome
  BY DEF NoRow, Row, Unused, Tx, Stages, NoOutcome, Outcome

LEMMA TxFrame ==
    ASSUME NEW c, NEW k, TxOk(c, k), tx'[c][k] = tx[c][k],
           call'[c] = call[c], out'[c] = out[c], rows'[c] = rows[c],
           logged'[c] \in {logged[c], out[c].tokens}
    PROVE  TxOk(c, k)'
  BY DEF TxOk, RowOk, Says, Kept, Placeholder

LEMMA CallFrame ==
    ASSUME NEW c, CallOk(c), call'[c] = call[c], out'[c] = out[c],
           rows'[c] = rows[c]
    PROVE  CallOk(c)'
  BY DEF CallOk, RowOk, Says, Placeholder

-----------------------------------------------------------------------------
(* Steps that only move a transaction.                                     *)

LEMMA TxStep ==
    ASSUME IInv, NEW c \in Calls, NEW k \in Kinds, NEW t \in Tx,
           Moves(c, k, t), TxOk(c, k)',
           t.at \in {"insert", "fill", "inserting", "filling"} =>
               Locked(c, k) \/ SettleLockFree(c, k),
           UNCHANGED <<calls, rows, accounts, owner>>,
           count' \in [Events -> Nat], logged' \in [Calls -> Nat],
           \A d \in Calls : logged'[d] \in {logged[d], out[d].tokens}
    PROVE  IInv'
<1> USE DEF IInv
<1>1. /\ tx' \in [Calls -> [Kinds -> Tx]] /\ tx'[c][k] = t
      /\ \A d \in Calls, j \in Kinds : d # c \/ j # k => tx'[d][j] = tx[d][j]
  BY TxMoved
<1>2. TypeOK'
  BY <1>1 DEF TypeOK, calls, accounts, owner
<1>3. ASSUME NEW d \in Calls PROVE CallOk(d)'
  BY CallFrame DEF calls
<1>4. ASSUME NEW d \in Calls, NEW j \in Kinds PROVE TxOk(d, j)'
  <2>1. CASE d = c /\ j = k
    BY <2>1
  <2>2. CASE d # c \/ j # k
    <3>1. tx'[d][j] = tx[d][j] /\ TxOk(d, j)
      BY <2>2, <1>1
    <3> QED BY <3>1, TxFrame DEF calls
  <2> QED BY <2>1, <2>2
<1>5. LockOk'
  <2> SUFFICES ASSUME NEW d \in Calls, NEW j \in Kinds, NEW i \in Kinds,
                      Locked(d, j)', Locked(d, i)'
               PROVE  j = i
    BY DEF LockOk
  <2>1. CASE d # c
    BY <2>1, <1>1 DEF LockOk, Locked
  <2>2. CASE d = c
    <3>1. ASSUME NEW h \in Kinds, Locked(c, k)', Locked(c, h)', h # k
          PROVE  FALSE
      <4>1. Locked(c, h)
        BY <3>1, <1>1 DEF Locked
      <4>2. Locked(c, k) \/ SettleLockFree(c, k)
        BY <3>1, <1>1 DEF Locked
      <4> QED BY <4>1, <4>2, <3>1 DEF LockOk, Locked, SettleLockFree
    <3>2. CASE j # k /\ i # k
      BY <2>2, <3>2, <1>1 DEF LockOk, Locked
    <3> QED BY <2>2, <3>1, <3>2
  <2> QED BY <2>1, <2>2
<1>6. OwnerOk'
  BY DEF OwnerOk, owner
<1> QED BY <1>2, <1>3, <1>4, <1>5, <1>6

LEMMA Counted ==
    ASSUME TypeOK, NEW e \in Events, Happens(e)
    PROVE  count' \in [Events -> Nat]
  BY DEF TypeOK, Happens

LEMMA ArrivedTx ==
    ASSUME NEW c, NEW k
    PROVE  LET t == [Unused EXCEPT !.at = IF by[c] \in seated \/ k = "sweep"
                                          THEN "read" ELSE "refused"]
           IN t \in Tx /\ t.at \in {"read", "refused"}
  BY RowTypes DEF Unused, Tx, Stages

LEMMA RepeatStep ==
    ASSUME IInv, NEW c \in Calls, Repeat(c)
    PROVE  IInv'
<1> DEFINE t == [Unused EXCEPT !.at = IF by[c] \in seated \/ "retry" = "sweep"
                                      THEN "read" ELSE "refused"]
<1>1. t \in Tx /\ t.at \in {"read", "refused"}
  BY ArrivedTx
<1>2. Moves(c, "retry", t)
  BY DEF Repeat, Arrives
<1> HIDE DEF t
<1>3. "retry" \in Kinds /\ "first" \in Kinds /\ "first" \in Reports
  BY DEF Kinds, Reports
<1>4. tx'[c]["retry"] = t
  BY <1>1, <1>2, <1>3, TxMoved DEF IInv
<1>5. call[c] = "over"
  BY <1>3 DEF IInv, TxOk, Repeat
<1>6. TxOk(c, "retry")'
  BY <1>1, <1>4, <1>5 DEF TxOk, Repeat, calls
<1>7. count' \in [Events -> Nat]
  <2>1. "repeat" \in Events /\ Happens("repeat")
    BY DEF Events, Repeat
  <2> QED BY <2>1, Counted DEF IInv
<1> QED BY <1>1, <1>2, <1>3, <1>6, <1>7, TxStep DEF Repeat, IInv, TypeOK

LEMMA SweepReadsStep ==
    ASSUME IInv, NEW c \in Calls, SweepReads(c)
    PROVE  IInv'
<1> DEFINE t == [Unused EXCEPT !.at = IF by[c] \in seated \/ "sweep" = "sweep"
                                      THEN "read" ELSE "refused"]
<1>1. t \in Tx /\ t.at \in {"read", "refused"}
  BY ArrivedTx
<1>2. Moves(c, "sweep", t)
  BY DEF SweepReads, Arrives
<1> HIDE DEF t
<1>3. "sweep" \in Kinds /\ "sweep" \notin Reports
  BY DEF Kinds, Reports
<1>4. tx'[c]["sweep"] = t
  BY <1>1, <1>2, <1>3, TxMoved DEF IInv
<1>5. call[c] # "none"
  BY DEF SweepReads, Due, Unsettled
<1>6. TxOk(c, "sweep")'
  BY <1>1, <1>3, <1>4, <1>5 DEF TxOk, SweepReads, calls
<1> QED BY <1>1, <1>2, <1>3, <1>6, TxStep DEF SweepReads, IInv, TypeOK

LEMMA DiesStep ==
    ASSUME IInv, NEW c \in Calls, NEW k \in Kinds, Dies(c, k)
    PROVE  IInv'
<1> DEFINE t == [tx[c][k] EXCEPT !.at = "dead", !.row = NoRow]
<1>1. t \in Tx /\ t.at = "dead"
  <2>1. tx[c][k] \in Tx
    BY DEF IInv, TypeOK
  <2> QED BY <2>1, RowTypes DEF Tx, Stages
<1>2. Moves(c, k, t)
  BY DEF Dies, Ends
<1> HIDE DEF t
<1>3. tx'[c][k] = t
  BY <1>1, <1>2, TxMoved DEF IInv
<1>4. TxOk(c, k)'
  BY <1>1, <1>3 DEF TxOk, Dies, calls, IInv
<1>5. count' \in [Events -> Nat]
  <2>1. "fault" \in Events /\ Happens("fault")
    BY DEF Events, Dies
  <2> QED BY <2>1, Counted DEF IInv
<1> QED BY <1>1, <1>2, <1>4, <1>5, TxStep DEF Dies, IInv, TypeOK

LEMMA CheckStep ==
    ASSUME IInv, NEW c \in Calls, NEW k \in Kinds, Check(c, k)
    PROVE  IInv'
<1> DEFINE says == k \in Reports /\ out[c].said
           fills(known) == /\ rows[c] # <<>> /\ says
                           /\ out[c].tokens > 0 /\ known
           logs(known) == rows[c] # <<>> /\ says /\ ~fills(known)
<1>1. PICK known \in BOOLEAN, goes \in {"fill", "done", "insert", "refused"} :
        /\ goes = "fill" <=> fills(known)
        /\ goes = "done" <=> rows[c] # <<>> /\ ~fills(known)
        /\ goes = "insert" => rows[c] = <<>>
        /\ Moves(c, k, [tx[c][k] EXCEPT !.at = goes, !.known = known])
        /\ logged' = IF logs(known)
                     THEN [logged EXCEPT ![c] = out[c].tokens] ELSE logged
  <2>1. PICK known \in {TRUE, k = "sweep" \/ by[c] \in alive} :
          LET goes == CASE fills(known) -> "fill"
                       [] rows[c] # <<>> /\ ~fills(known) -> "done"
                       [] ~(rows[c] # <<>>) /\ known -> "insert"
                       [] ~(rows[c] # <<>>) /\ ~known -> "refused"
          IN /\ Moves(c, k, [tx[c][k] EXCEPT !.at = goes, !.known = known])
             /\ logged' = IF logs(known)
                          THEN [logged EXCEPT ![c] = out[c].tokens] ELSE logged
    BY DEF Check
  <2>2. known \in BOOLEAN
    OBVIOUS
  <2> QED BY <2>1, <2>2
<1> DEFINE t == [tx[c][k] EXCEPT !.at = goes, !.known = known]
<1>2. tx[c][k] \in Tx /\ out[c] \in Outcome /\ logged \in [Calls -> Nat]
  BY CallsAssumption, RowTypes DEF IInv, TypeOK
<1>3. t \in Tx /\ t.at = goes /\ t.known = known
  BY <1>1, <1>2 DEF Tx, Stages
<1>4. Moves(c, k, t)
  BY <1>1
<1> HIDE DEF t
<1>5. tx'[c][k] = t
  BY <1>3, <1>4, TxMoved DEF IInv
<1>6. /\ logged' \in [Calls -> Nat]
      /\ \A d \in Calls : logged'[d] \in {logged[d], out[d].tokens}
      /\ logs(known) => logged'[c] = out[c].tokens
  BY <1>1, <1>2 DEF Outcome
<1>7. UNCHANGED <<calls, rows, accounts, owner, count>>
  BY DEF Check
<1>8. tx[c][k].at = "read" /\ SettleLockFree(c, k) /\ TxOk(c, k) /\ CallOk(c)
  BY DEF Check, IInv
<1>9. Len(rows[c]) <= 1 /\ rows[c] \in Seq(Row)
  BY <1>8 DEF CallOk, IInv, TypeOK
<1>10. goes = "done" /\ k \in Reports /\ Says(c) => Kept(c, k)'
  BY <1>1, <1>3, <1>5, <1>6, <1>7 DEF Kept, Says, calls
<1>11. TxOk(c, k)'
  BY <1>1, <1>3, <1>5, <1>7, <1>8, <1>10 DEF TxOk, Says, calls
<1> QED BY <1>3, <1>4, <1>6, <1>7, <1>8, <1>11, TxStep DEF IInv, TypeOK

LEMMA PriceStep ==
    ASSUME IInv, NEW c \in Calls, NEW k \in Kinds, Price(c, k)
    PROVE  IInv'
<1> DEFINE said == k \in Reports /\ out[c].said
           guesses == IF k \in Reports /\ ~said /\ out[c].started
                      THEN {0} \cup {logged[d] : d \in Baseline(c)} ELSE {0}
<1> DEFINE
      priced(tokens, bonus) ==
        Moves(c, k, [tx[c][k] EXCEPT !.row = Quoted(c, k, tokens, said, bonus),
                 !.at = IF @ = "insert" THEN "inserting" ELSE "filling"])
<1>0. PICK tokens \in IF said THEN {out[c].tokens} ELSE guesses :
        \E bonus \in 0..(rate * tokens) : priced(tokens, bonus)
  BY Zenon DEF Price
<1>1. PICK bonus \in 0..(rate * tokens) : priced(tokens, bonus)
  BY <1>0
<1>2. /\ tx[c][k] \in Tx /\ out[c] \in Outcome /\ rate \in Nat
      /\ count["period"] \in Nat /\ logged \in [Calls -> Nat]
  BY CallsAssumption, MoneyAssumption, RowTypes DEF IInv, TypeOK, Events
<1>3. tokens \in Nat
  <2>1. \A d \in Baseline(c) : d \in Calls
    BY CallsAssumption DEF Baseline, Calls
  <2> QED BY <1>0, <1>2, <2>1 DEF Outcome
<1>4. /\ said => tokens = out[c].tokens
      /\ k = "sweep" => tokens = 0
      /\ k # "sweep" => k \in Reports
  BY <1>0 DEF Kinds, Reports
<1>5. /\ rate * tokens \in Nat
      /\ rate = 0 \/ tokens = 0 => rate * tokens = 0
      /\ bonus \in Nat /\ bonus <= rate * tokens
  <2>1. rate * tokens \in Nat
    BY <1>2, <1>3
  <2>2. rate = 0 \/ tokens = 0 => rate * tokens = 0
    BY <1>2, <1>3
  <2> QED BY <1>1, <2>1, <2>2
<1>6. Quoted(c, k, tokens, said, bonus) \in Row
  <2>1. (IF k = "sweep" THEN "failed" ELSE out[c].status)
          \in {"ok", "failed", "error"}
    BY <1>2 DEF Outcome
  <2> QED BY <1>2, <1>3, <1>5, <2>1 DEF Quoted, NoRow, Row
<1> PICK r \in Row : r = Quoted(c, k, tokens, said, bonus)
  BY <1>6
<1>7. /\ r.status = (IF k = "sweep" THEN "failed" ELSE out[c].status)
      /\ r.amount = rate * tokens /\ r.bonus = bonus /\ r.tokens = tokens
      /\ r.unpriced <=> rate = 0 \/ (~said /\ tokens = 0)
      /\ r.adjusted = "no"
  BY DEF Quoted, NoRow
<1>8. r.unpriced => r.amount = 0
  BY <1>5, <1>7
<1>9. tx[c][k].at \in {"insert", "fill"} /\ TxOk(c, k)
  BY DEF Price, IInv
<1>10. RowOk(c, r) /\ (k \in Reports /\ Says(c) => r.tokens = out[c].tokens)
  <2>1. call[c] = "running" => k = "sweep"
    BY <1>4, <1>9 DEF TxOk
  <2>2. Says(c) /\ k # "sweep" => said /\ tokens > 0
    BY <1>4 DEF Says
  <2>3. k = "sweep" => Placeholder(r)
    <3>1. k = "sweep" => ~said
      BY DEF Reports
    <3> QED BY <1>4, <1>5, <1>7, <3>1 DEF Placeholder
  <2>4. k = "sweep" => r.tokens = 0
    BY <1>4, <1>7
  <2>5. r.tokens = 0 => r.amount = 0
    BY <1>5, <1>7
  <2> QED BY <1>3, <1>4, <1>7, <1>8, <2>1, <2>2, <2>3, <2>4, <2>5
          DEF RowOk, Says
<1> DEFINE t == [tx[c][k] EXCEPT !.row = r,
                     !.at = IF @ = "insert" THEN "inserting" ELSE "filling"]
<1>11. /\ t \in Tx /\ t.row = r
       /\ t.at \in {"inserting", "filling"}
       /\ t.at = "inserting" <=> tx[c][k].at = "insert"
  BY <1>2 DEF Tx, Stages
<1>12. Moves(c, k, t)
  BY <1>1
<1> HIDE DEF t
<1>13. tx'[c][k] = t
  BY <1>11, <1>12, TxMoved DEF IInv
<1>14. UNCHANGED <<calls, rows, logged, accounts, owner, count>>
  BY DEF Price
<1>15. RowOk(c, r)'
  BY <1>10, <1>14 DEF RowOk, Says, Placeholder, calls
<1>16. TxOk(c, k)'
  BY <1>4, <1>7, <1>8, <1>9, <1>10, <1>11, <1>13, <1>14, <1>15
     DEF TxOk, Says, calls
<1>17. Locked(c, k)
  BY <1>9 DEF Locked
<1> QED BY <1>11, <1>12, <1>14, <1>16, <1>17, TxStep DEF IInv, TypeOK

-----------------------------------------------------------------------------
(* Steps that write rows.                                                  *)

\* The rows of d are rewritten, or stay.
Evolves(d) ==
    /\ rows'[d] \in Seq(Row) /\ Len(rows'[d]) = Len(rows[d])
    /\ DOMAIN rows'[d] = DOMAIN rows[d]
    /\ \A i \in DOMAIN rows[d] :
         /\ \/ rows'[d][i].tokens = rows[d][i].tokens
            \/ Says(d) /\ rows'[d][i].tokens = out[d].tokens
         /\ rows[d][i].adjusted = "hand" =>
              rows'[d][i].adjusted = "hand" \/ rows'[d][i].tokens > 0
         /\ RowOk(d, rows'[d][i])

LEMMA Evolved ==
    ASSUME IInv, NEW d \in Calls, Evolves(d), UNCHANGED calls
    PROVE  CallOk(d)' /\ (rows'[d] = <<>> <=> rows[d] = <<>>)
<1>1. CallOk(d) /\ rows[d] \in Seq(Row)
  BY DEF IInv, TypeOK
<1>2. rows'[d] = <<>> <=> rows[d] = <<>>
  BY <1>1, AtMostOne DEF Evolves, CallOk
<1>3. \A i \in DOMAIN rows'[d] : RowOk(d, rows[d][i])'
  BY DEF Evolves, RowOk, Says, Placeholder, calls
<1> QED BY <1>1, <1>2, <1>3 DEF Evolves, CallOk, calls

LEMMA TxEvolves ==
    ASSUME IInv, NEW d \in Calls, NEW j \in Kinds, Evolves(d),
           tx'[d][j] = tx[d][j], UNCHANGED calls,
           logged'[d] \in {logged[d], out[d].tokens}
    PROVE  TxOk(d, j)'
<1>1. TxOk(d, j) /\ CallOk(d) /\ (rows'[d] = <<>> <=> rows[d] = <<>>)
  BY Evolved DEF IInv
<1>2. tx[d][j].at = "done" /\ j \in Reports /\ Says(d) => Kept(d, j)'
  <2> SUFFICES ASSUME tx[d][j].at = "done", j \in Reports, Says(d)
               PROVE  Kept(d, j)'
    OBVIOUS
  <2>1. Kept(d, j)
    BY <1>1 DEF TxOk
  <2>2. ASSUME NEW i \in DOMAIN rows'[d]
        PROVE  \/ rows'[d][i].tokens = out[d].tokens
               \/ rows'[d][i].adjusted = "hand"
               \/ ~tx[d][j].known
    <3>1. i \in DOMAIN rows[d] /\ RowOk(d, rows'[d][i])
      BY DEF Evolves
    <3>2. rows'[d][i].tokens > 0 => rows'[d][i].tokens = out[d].tokens
      BY <3>1 DEF RowOk
    <3> QED BY <2>1, <3>1, <3>2 DEF Kept, Evolves
  <2> QED BY <1>1, <2>1, <2>2 DEF Kept, calls
<1> QED BY <1>1, <1>2 DEF TxOk, RowOk, Says, Placeholder, calls

\* The bonus of a row with an amount of 0 is 0.
LEMMA RowFacts ==
    ASSUME NEW r \in Row
    PROVE  /\ r.amount \in Nat /\ r.bonus \in Nat /\ r.bonus <= r.amount
           /\ r.tokens \in Nat /\ r.unpriced \in BOOLEAN
  BY DEF Row

LEMMA FilledFacts ==
    ASSUME NEW old \in Row, NEW r \in Row
    PROVE  /\ Filled(old, r) \in Row
           /\ Filled(old, r).amount = r.amount
           /\ Filled(old, r).tokens = r.tokens
           /\ Filled(old, r).unpriced = r.unpriced
           /\ Filled(old, r).adjusted = old.adjusted
<1> DEFINE b == IF old.period = r.period THEN r.bonus ELSE 0
<1>1. b \in Nat /\ b <= r.amount
  BY RowFacts
<1> HIDE DEF b
<1> DEFINE f == [old EXCEPT !.status = r.status, !.amount = r.amount,
                   !.bonus = b, !.unpriced = r.unpriced, !.tokens = r.tokens]
<1>2. f = Filled(old, r)
  BY DEF Filled, b
<1>3. f \in Row
  BY <1>1 DEF Row
<1>4. /\ f.amount = r.amount /\ f.tokens = r.tokens
      /\ f.unpriced = r.unpriced /\ f.adjusted = old.adjusted
  BY DEF Row
<1> QED BY <1>2, <1>3, <1>4

LEMMA AmendedFacts ==
    ASSUME NEW old \in Row, NEW a \in Nat, NEW u \in BOOLEAN,
           NEW how \in {"hand", "recalc"}
    PROVE  /\ Amended(old, a, u, how) \in Row
           /\ Amended(old, a, u, how).amount = a
           /\ Amended(old, a, u, how).unpriced = u
           /\ Amended(old, a, u, how).tokens = old.tokens
           /\ Amended(old, a, u, how).status = old.status
           /\ Amended(old, a, u, how).adjusted = how
<1>1. Min({old.bonus, a}) \in Nat /\ Min({old.bonus, a}) <= a
  BY RowFacts, Smaller
<1> QED BY <1>1 DEF Amended, Row

LEMMA InsertStep ==
    ASSUME IInv, NEW c \in Calls, NEW k \in Kinds, Insert(c, k)
    PROVE  IInv'
<1> DEFINE t == [tx[c][k] EXCEPT !.at = "done", !.row = NoRow]
<1>1. tx[c][k] \in Tx /\ tx[c][k].at = "inserting"
  BY DEF IInv, TypeOK, Insert
<1>2. t \in Tx /\ t.at = "done" /\ t.known = tx[c][k].known
  BY <1>1, RowTypes DEF Tx, Stages
<1>3. Moves(c, k, t) /\ UNCHANGED <<calls, accounts, owner, count>>
  BY DEF Insert, Ends
<1> HIDE DEF t
<1>4. /\ tx' \in [Calls -> [Kinds -> Tx]] /\ tx'[c][k] = t
      /\ \A d \in Calls, j \in Kinds : d # c \/ j # k => tx'[d][j] = tx[d][j]
  BY <1>2, <1>3, TxMoved DEF IInv
<1> PICK r \in Row : r = tx[c][k].row
  BY <1>1 DEF Tx
<1>5. TxOk(c, k) /\ rows[c] = <<>>
  BY <1>1 DEF TxOk, IInv
<1>6. /\ RowOk(c, r) /\ r.adjusted = "no"
      /\ k \in Reports /\ Says(c) => r.tokens = out[c].tokens
  BY <1>1, <1>5 DEF TxOk
<1>7. rows \in [Calls -> Seq(Row)] /\ logged \in [Calls -> Nat]
  BY DEF IInv, TypeOK
<1>8. rows' = [rows EXCEPT ![c] = Append(<<>>, r)]
  BY <1>5 DEF Insert
<1>9. /\ rows' \in [Calls -> Seq(Row)]
      /\ Len(rows'[c]) = 1 /\ DOMAIN rows'[c] = {1} /\ rows'[c][1] = r
      /\ rows'[c] # <<>>
      /\ \A d \in Calls : d # c => rows'[d] = rows[d]
  <2>1. LET q == Append(<<>>, r)
        IN q \in Seq(Row) /\ Len(q) = 1 /\ DOMAIN q = {1} /\ q[1] = r
    BY Appended
  <2>2. rows'[c] = Append(<<>>, r)
    BY <1>7, <1>8
  <2> QED BY <1>7, <1>8, <2>1, <2>2
<1>10. r.tokens \in Nat
  BY RowFacts
<1>11. /\ logged' \in [Calls -> Nat]
       /\ \A d \in Calls : d # c => logged'[d] = logged[d]
       /\ k \in Reports /\ Says(c) => logged'[c] = out[c].tokens
  BY <1>6, <1>7, <1>10 DEF Insert, Says
<1>12. TypeOK'
  BY <1>3, <1>4, <1>9, <1>11 DEF IInv, TypeOK, calls, accounts, owner
<1>13. ASSUME NEW d \in Calls PROVE CallOk(d)'
  <2>1. CASE d # c
    BY <2>1, <1>3, <1>9, CallFrame DEF IInv, calls
  <2>2. CASE d = c
    <3>1. call[c] # "none"
      BY <1>1, <1>5 DEF TxOk
    <3> QED BY <2>2, <3>1, <1>3, <1>6, <1>9
            DEF CallOk, RowOk, Says, Placeholder, calls
  <2> QED BY <2>1, <2>2
<1>14. ASSUME NEW d \in Calls, NEW j \in Kinds PROVE TxOk(d, j)'
  <2>1. CASE d # c
    BY <2>1, <1>3, <1>4, <1>9, <1>11, TxFrame DEF IInv, calls
  <2>2. CASE d = c /\ j = k
    <3>1. k \in Reports /\ Says(c) => Kept(c, k)'
      BY <1>3, <1>6, <1>9, <1>11 DEF Kept, calls
    <3> QED BY <2>2, <3>1, <1>1, <1>2, <1>3, <1>4, <1>5 DEF TxOk, Says, calls
  <2>3. CASE d = c /\ j # k
    <3>1. TxOk(c, j) /\ tx'[c][j] = tx[c][j] /\ ~Locked(c, j)
      BY <2>3, <1>1, <1>4 DEF IInv, LockOk, Locked
    <3>2. tx[c][j].at = "done" /\ j \in Reports /\ Says(c) => FALSE
      BY <3>1, <1>5 DEF TxOk, Kept
    <3> QED BY <2>3, <3>1, <3>2, <1>3 DEF TxOk, Locked, Says, calls
  <2> QED BY <2>1, <2>2, <2>3
<1>15. LockOk'
  BY <1>1, <1>2, <1>4 DEF IInv, LockOk, Locked
<1>16. OwnerOk'
  <2>1. \A d \in Calls : DOMAIN rows[d] # {} => rows'[d] = rows[d]
    BY <1>5, <1>9
  <2>2. edit \subseteq [call : Calls, i : Nat, amount : Nat, unpriced : BOOLEAN]
        /\ recalc \subseteq [call : Calls, i : Nat, amount : Nat]
    BY DEF IInv, TypeOK
  <2> QED BY <2>1, <2>2, <1>3 DEF IInv, OwnerOk, owner
<1> QED BY <1>12, <1>13, <1>14, <1>15, <1>16 DEF IInv

\* A step that ends the transaction of k and rewrites rows of c in place.
LEMMA FillStep ==
    ASSUME IInv, NEW c \in Calls, NEW k \in Kinds, Fill(c, k)
    PROVE  IInv'
<1> DEFINE t == [tx[c][k] EXCEPT !.at = "done", !.row = NoRow]
<1>1. tx[c][k] \in Tx /\ tx[c][k].at = "filling"
  BY DEF IInv, TypeOK, Fill
<1>2. t \in Tx /\ t.at = "done" /\ t.known = tx[c][k].known
  BY <1>1, RowTypes DEF Tx, Stages
<1>3. Moves(c, k, t) /\ UNCHANGED <<calls, accounts, owner, count>>
  BY DEF Fill, Ends
<1> HIDE DEF t
<1>4. /\ tx' \in [Calls -> [Kinds -> Tx]] /\ tx'[c][k] = t
      /\ \A d \in Calls, j \in Kinds : d # c \/ j # k => tx'[d][j] = tx[d][j]
  BY <1>2, <1>3, TxMoved DEF IInv
<1> PICK r \in Row : r = tx[c][k].row
  BY <1>1 DEF Tx
<1>5. TxOk(c, k) /\ CallOk(c) /\ OwnerOk
  BY DEF IInv
<1>6. /\ rows[c] # <<>> /\ k \in Reports /\ Says(c)
      /\ r.tokens = out[c].tokens /\ (r.unpriced => r.amount = 0)
      /\ call[c] = "over"
  BY <1>1, <1>5 DEF TxOk
<1>7. /\ rows \in [Calls -> Seq(Row)] /\ logged \in [Calls -> Nat]
      /\ out[c].tokens \in Nat
  BY CallsAssumption, RowTypes DEF IInv, TypeOK, Outcome
<1>8. DOMAIN rows[c] = {1} /\ rows[c][1] \in Row /\ Len(rows[c]) = 1
  BY <1>5, <1>6, <1>7, AtMostOne DEF CallOk
<1> DEFINE s == [i \in DOMAIN rows[c] |->
        IF i \in Fillable(c) /\ \A j \in Fillable(c) : i <= j
        THEN Filled(rows[c][i], r) ELSE rows[c][i]]
<1>9. rows' = [rows EXCEPT ![c] = s]
  BY DEF Fill
<1>10. s[1] = IF Placeholder(rows[c][1]) THEN Filled(rows[c][1], r)
                                        ELSE rows[c][1]
  <2>1. Fillable(c) = IF Placeholder(rows[c][1]) THEN {1} ELSE {}
    BY <1>8 DEF Fillable
  <2> QED BY <1>8, <2>1
<1>11. s[1] \in Row
  BY <1>8, <1>10, FilledFacts
<1>12. s \in Seq(Row) /\ Len(s) = Len(rows[c]) /\ DOMAIN s = {1}
  <2>1. s = [i \in DOMAIN rows[c] |-> s[i]]
    OBVIOUS
  <2>2. \A i \in DOMAIN rows[c] : s[i] \in Row
    BY <1>8, <1>11
  <2>3. DOMAIN s = {1}
    BY <1>8
  <2> HIDE DEF s
  <2> QED BY <2>1, <2>2, <2>3, <1>7, Rewritten
<1> HIDE DEF s
<1>13. /\ rows' \in [Calls -> Seq(Row)] /\ rows'[c] = s
       /\ \A d \in Calls : d # c => rows'[d] = rows[d]
  BY <1>7, <1>9, <1>12
<1>14. logged' = [logged EXCEPT ![c] = out[c].tokens]
  BY DEF Fill
<1>15. RowOk(c, s[1]) /\ (s[1].tokens = out[c].tokens \/ s[1].adjusted = "hand")
  <2>1. RowOk(c, rows[c][1])
    BY <1>5, <1>8 DEF CallOk
  <2>2. CASE Placeholder(rows[c][1])
    <3>1. /\ s[1].amount = r.amount /\ s[1].tokens = r.tokens
          /\ s[1].unpriced = r.unpriced
      BY <2>2, <1>8, <1>10, FilledFacts
    <3> QED BY <3>1, <1>6, <1>7 DEF RowOk, Says
  <2>3. CASE ~Placeholder(rows[c][1])
    BY <2>1, <2>3, <1>6, <1>10 DEF RowOk
  <2> QED BY <2>2, <2>3
<1>16. Evolves(c)
  <2>1. \/ s[1].tokens = rows[c][1].tokens
        \/ Says(c) /\ s[1].tokens = out[c].tokens
    BY <1>6, <1>8, <1>10, FilledFacts
  <2>2. rows[c][1].adjusted = "hand" => s[1].adjusted = "hand"
    BY <1>8, <1>10, FilledFacts
  <2> QED BY <2>1, <2>2, <1>8, <1>12, <1>13, <1>15 DEF Evolves
<1>17. TypeOK'
  BY <1>3, <1>4, <1>7, <1>13, <1>14
     DEF IInv, TypeOK, calls, accounts, owner
<1>18. ASSUME NEW d \in Calls PROVE CallOk(d)'
  <2>1. CASE d # c
    BY <2>1, <1>3, <1>13, CallFrame DEF IInv, calls
  <2>2. CASE d = c
    BY <2>2, <1>3, <1>16, Evolved
  <2> QED BY <2>1, <2>2
<1>19. ASSUME NEW d \in Calls, NEW j \in Kinds PROVE TxOk(d, j)'
  <2>1. CASE d # c
    BY <2>1, <1>3, <1>4, <1>7, <1>13, <1>14, TxFrame DEF IInv, calls
  <2>2. CASE d = c /\ j = k
    <3>0. rows'[c] # <<>>
      BY <1>8, <1>12, <1>13
    <3>1. logged'[c] = out[c].tokens /\ rows'[c] # <<>>
      BY <3>0, <1>7, <1>14
    <3>2. Kept(c, k)'
      BY <3>1, <1>3, <1>12, <1>13, <1>15 DEF Kept, calls
    <3> QED BY <2>2, <3>2, <1>2, <1>3, <1>4, <1>6 DEF TxOk, Says, calls
  <2>3. CASE d = c /\ j # k
    BY <2>3, <1>3, <1>4, <1>7, <1>14, <1>16, TxEvolves
  <2> QED BY <2>1, <2>2, <2>3
<1>20. LockOk'
  BY <1>1, <1>2, <1>4 DEF IInv, LockOk, Locked
<1>21. OwnerOk'
  <2>1. \A d \in Calls : DOMAIN rows'[d] = DOMAIN rows[d]
    BY <1>8, <1>12, <1>13
  <2>2. \/ s[1].tokens > 0
        \/ /\ s[1].tokens = rows[c][1].tokens
           /\ s[1].unpriced = rows[c][1].unpriced
    BY <1>6, <1>8, <1>10, FilledFacts DEF Says
  <2>3. edit \subseteq [call : Calls, i : Nat, amount : Nat, unpriced : BOOLEAN]
        /\ recalc \subseteq [call : Calls, i : Nat, amount : Nat]
    BY DEF IInv, TypeOK
  <2>4. edit' = edit /\ recalc' = recalc
    BY <1>3 DEF owner
  <2>5. \A d \in Calls, i \in Nat : i \in DOMAIN rows[d] =>
          \/ rows'[d][i].tokens > 0
          \/ /\ rows'[d][i].tokens = rows[d][i].tokens
             /\ rows'[d][i].unpriced = rows[d][i].unpriced
    BY <2>2, <1>8, <1>13
  <2>6. \A d \in Calls, i \in Nat : i \in DOMAIN rows'[d] =>
          rows'[d][i].tokens \in Nat
    BY <1>13, RowFacts
  <2> QED BY <2>1, <2>3, <2>4, <2>5, <2>6, <1>5 DEF OwnerOk
<1> QED BY <1>17, <1>18, <1>19, <1>20, <1>21 DEF IInv

\* A step that rewrites rows in place and moves no transaction.
LEMMA RowsStep ==
    ASSUME IInv, TypeOK', \A d \in Calls : Evolves(d),
           UNCHANGED <<calls, tx, logged>>, OwnerOk'
    PROVE  IInv'
<1>1. ASSUME NEW d \in Calls PROVE CallOk(d)'
  BY Evolved
<1>2. ASSUME NEW d \in Calls, NEW j \in Kinds PROVE TxOk(d, j)'
  BY TxEvolves
<1>3. LockOk'
  BY DEF IInv, LockOk, Locked
<1> QED BY <1>1, <1>2, <1>3 DEF IInv

LEMMA StillStep ==
    ASSUME IInv, TypeOK', UNCHANGED <<calls, tx, rows, logged>>, OwnerOk'
    PROVE  IInv'
<1>1. ASSUME NEW d \in Calls PROVE Evolves(d)
  BY DEF IInv, TypeOK, CallOk, Evolves
<1> QED BY <1>1, RowsStep

LEMMA EditReadsStep ==
    ASSUME IInv, NEW c \in Calls, NEW i \in DOMAIN rows[c], NEW a \in Sums,
           EditReads(c, i, a)
    PROVE  IInv'
<1> DEFINE e == [call |-> c, i |-> i, amount |-> a,
                 unpriced |-> a = 0 /\ rows[c][i].unpriced]
<1>1. /\ edit' = {e}
      /\ UNCHANGED <<calls, tx, rows, logged, accounts, rate, recalc>>
  BY DEF EditReads
<1>2. rows[c] \in Seq(Row) /\ i \in Nat /\ a \in Nat /\ rows[c][i] \in Row
  BY MoneyAssumption DEF IInv, TypeOK
<1>3. rows[c][i].unpriced \in BOOLEAN
  BY <1>2, RowFacts
<1>4. e \in [call : Calls, i : Nat, amount : Nat, unpriced : BOOLEAN]
  BY <1>2, <1>3
<1>5. /\ e.call = c /\ e.i = i /\ e.amount = a
      /\ e.unpriced => a = 0 /\ rows[c][i].unpriced
  OBVIOUS
<1> HIDE DEF e
<1>6. count' \in [Events -> Nat]
  <2>1. "edit" \in Events /\ Happens("edit")
    BY DEF Events, EditReads
  <2> QED BY <2>1, Counted DEF IInv
<1>7. TypeOK'
  BY <1>1, <1>4, <1>6 DEF IInv, TypeOK, calls, accounts
<1>8. OwnerOk'
  BY <1>1, <1>5 DEF IInv, OwnerOk
<1> QED BY <1>1, <1>7, <1>8, StillStep

LEMMA EditWritesStep ==
    ASSUME IInv, EditWrites
    PROVE  IInv'
<1>1. PICK e \in edit :
        rows' = [rows EXCEPT ![e.call][e.i] =
                    Amended(@, e.amount, e.unpriced, "hand")]
  BY DEF EditWrites
<1>2. /\ edit' = {}
      /\ UNCHANGED <<calls, tx, logged, accounts, rate, recalc, count>>
  BY DEF EditWrites, Idle
<1>3. /\ e.call \in Calls /\ e.i \in Nat /\ e.amount \in Nat
      /\ e.unpriced \in BOOLEAN
      /\ e.i \in DOMAIN rows[e.call] /\ (e.unpriced => e.amount = 0)
  BY DEF IInv, TypeOK, OwnerOk
<1> PICK c \in Calls : c = e.call
  BY <1>3
<1> DEFINE old == rows[c][e.i]
           new == Amended(old, e.amount, e.unpriced, "hand")
<1>4. rows \in [Calls -> Seq(Row)] /\ old \in Row
  BY <1>3 DEF IInv, TypeOK
<1>5. new \in Row /\ new.amount = e.amount /\ new.unpriced = e.unpriced
      /\ new.tokens = old.tokens /\ new.adjusted = "hand"
  <2>1. old \in Row /\ e.amount \in Nat /\ e.unpriced \in BOOLEAN
    BY <1>3, <1>4
  <2> HIDE DEF old
  <2> QED BY <2>1, AmendedFacts
<1>6. rows' = [rows EXCEPT ![c] = [rows[c] EXCEPT ![e.i] = new]]
  BY <1>1
<1> HIDE DEF new
<1>7. /\ rows' \in [Calls -> Seq(Row)] /\ rows'[c][e.i] = new
      /\ \A d \in Calls : Len(rows'[d]) = Len(rows[d])
                          /\ DOMAIN rows'[d] = DOMAIN rows[d]
      /\ \A d \in Calls, j \in Nat : j \in DOMAIN rows[d] /\ (d # c \/ j # e.i)
           => rows'[d][j] = rows[d][j]
  BY <1>3, <1>4, <1>5, <1>6
<1>8. TypeOK'
  BY <1>2, <1>7 DEF IInv, TypeOK, calls, accounts
<1>9. ASSUME NEW d \in Calls PROVE Evolves(d)
  <2>1. ASSUME NEW j \in DOMAIN rows[d]
        PROVE  /\ rows'[d][j].tokens = rows[d][j].tokens
               /\ rows[d][j].adjusted = "hand" => rows'[d][j].adjusted = "hand"
               /\ RowOk(d, rows'[d][j])
    <3>1. RowOk(d, rows[d][j]) /\ j \in Nat
      BY <1>4 DEF IInv, CallOk
    <3>2. CASE d = c /\ j = e.i
      BY <3>1, <3>2, <1>3, <1>5, <1>7 DEF RowOk
    <3>3. CASE ~(d = c /\ j = e.i)
      BY <3>1, <3>3, <1>7
    <3> QED BY <3>2, <3>3
  <2> QED BY <2>1, <1>7 DEF Evolves
<1>10. OwnerOk'
  <2>1. \A d \in Calls, j \in Nat : j \in DOMAIN rows[d] =>
          rows'[d][j].tokens = rows[d][j].tokens
    BY <1>5, <1>7
  <2> QED BY <2>1, <1>2, <1>7, ZenonT(30) DEF IInv, TypeOK, OwnerOk
<1> QED BY <1>2, <1>8, <1>9, <1>10, RowsStep

LEMMA RecalcReadsStep ==
    ASSUME IInv, RecalcReads
    PROVE  IInv'
<1>1. /\ UNCHANGED <<calls, tx, rows, logged, accounts, rate, edit>>
      /\ recalc' = UNION {
           {[call |-> c, i |-> i, amount |-> rate * rows[c][i].tokens] :
              i \in {j \in DOMAIN rows[c] : Stale(rows[c][j])}} : c \in Calls}
  BY DEF RecalcReads
<1>2. ASSUME NEW x \in recalc'
      PROVE  /\ x \in [call : Calls, i : Nat, amount : Nat]
             /\ x.i \in DOMAIN rows[x.call]
             /\ rows[x.call][x.i].tokens > 0
  <2>1. PICK c \in Calls, i \in Nat :
          /\ i \in DOMAIN rows[c] /\ Stale(rows[c][i])
          /\ x = [call |-> c, i |-> i, amount |-> rate * rows[c][i].tokens]
    <3>1. PICK c \in Calls : \E i \in DOMAIN rows[c] :
            /\ Stale(rows[c][i])
            /\ x = [call |-> c, i |-> i, amount |-> rate * rows[c][i].tokens]
      BY <1>1
    <3>2. DOMAIN rows[c] \subseteq Nat
      BY DEF IInv, TypeOK
    <3> QED BY <3>1, <3>2
  <2>2. rows[c][i] \in Row /\ RowOk(c, rows[c][i]) /\ rate \in Nat
    BY <2>1, MoneyAssumption DEF IInv, TypeOK, CallOk
  <2>3. rows[c][i].tokens \in Nat /\ rows[c][i].amount \in Nat
    BY <2>2, RowFacts
  <2>4. rows[c][i].tokens # 0
    <3>1. ASSUME rows[c][i].tokens = 0 PROVE FALSE
      <4>1. rows[c][i].amount = 0
        BY <3>1, <2>1, <2>2 DEF RowOk, Stale
      <4>2. rate * rows[c][i].tokens = 0
        BY <3>1, <2>2
      <4> QED BY <4>1, <4>2, <2>1 DEF Stale
    <3> QED BY <3>1
  <2>5. rate * rows[c][i].tokens \in Nat
    BY <2>2, <2>3
  <2> QED BY <2>1, <2>3, <2>4, <2>5
<1>3. count' \in [Events -> Nat]
  <2>1. "recalc" \in Events /\ Happens("recalc")
    BY DEF Events, RecalcReads
  <2> QED BY <2>1, Counted DEF IInv
<1>4. TypeOK'
  <2>1. recalc' \subseteq [call : Calls, i : Nat, amount : Nat]
    BY <1>2
  <2> QED BY <2>1, <1>1, <1>3 DEF IInv, TypeOK, calls, accounts
<1>5. OwnerOk'
  BY <1>1, <1>2 DEF IInv, OwnerOk
<1> QED BY <1>1, <1>4, <1>5, StillStep

\* A recalculated row.
LEMMA RecalcWritesStep ==
    ASSUME IInv, RecalcWrites
    PROVE  IInv'
<1> DEFINE new(d, i) == {x \in recalc : x.call = d /\ x.i = i}
           row(d, i) == IF new(d, i) = {} THEN rows[d][i]
                        ELSE Amended(rows[d][i],
                               (CHOOSE x \in new(d, i) : TRUE).amount,
                               FALSE, "recalc")
<1>1. /\ rows' = [d \in Calls |-> [i \in DOMAIN rows[d] |-> row(d, i)]]
      /\ recalc' = {}
      /\ UNCHANGED <<calls, tx, logged, accounts, rate, edit, count>>
  BY DEF RecalcWrites, Idle
<1>2. ASSUME NEW d \in Calls, NEW i \in DOMAIN rows[d]
      PROVE  /\ row(d, i) \in Row /\ row(d, i).tokens = rows[d][i].tokens
             /\ \/ row(d, i) = rows[d][i]
                \/ row(d, i).tokens > 0 /\ ~row(d, i).unpriced
  <2>1. rows[d][i] \in Row
    BY DEF IInv, TypeOK
  <2>2. CASE new(d, i) # {}
    <3>1. PICK x \in recalc : x = CHOOSE y \in new(d, i) : TRUE
      BY <2>2
    <3>2. x \in new(d, i)
      BY <2>2, <3>1
    <3>3. x.amount \in Nat /\ rows[d][i].tokens > 0
      BY <3>2 DEF IInv, TypeOK, OwnerOk
    <3> DEFINE r == Amended(rows[d][i], x.amount, FALSE, "recalc")
    <3>4. row(d, i) = r
      BY <2>2, <3>1
    <3>5. r \in Row /\ r.tokens = rows[d][i].tokens /\ r.unpriced = FALSE
      BY <2>1, <3>3, AmendedFacts
    <3> HIDE DEF r, row
    <3> QED BY <3>3, <3>4, <3>5
  <2> QED BY <2>1, <2>2
<1> HIDE DEF row
<1>3. ASSUME NEW d \in Calls
      PROVE  /\ rows'[d] \in Seq(Row) /\ Len(rows'[d]) = Len(rows[d])
             /\ DOMAIN rows'[d] = DOMAIN rows[d]
             /\ \A i \in DOMAIN rows[d] : rows'[d][i] = row(d, i)
  <2>1. rows'[d] = [i \in DOMAIN rows[d] |-> row(d, i)]
    BY <1>1
  <2>2. rows'[d] = [i \in DOMAIN rows[d] |-> rows'[d][i]]
    BY <2>1
  <2>3. \A i \in DOMAIN rows[d] : rows'[d][i] = row(d, i) /\ rows'[d][i] \in Row
    BY <2>1, <1>2
  <2>4. rows[d] \in Seq(Row)
    BY DEF IInv, TypeOK
  <2> QED BY <2>2, <2>3, <2>4, Rewritten
<1>4. rows' \in [Calls -> Seq(Row)]
  BY <1>1, <1>3
<1>5. TypeOK'
  BY <1>1, <1>4 DEF IInv, TypeOK, calls, accounts
<1>6. ASSUME NEW d \in Calls PROVE Evolves(d)
  <2>1. ASSUME NEW i \in DOMAIN rows[d]
        PROVE  /\ rows'[d][i].tokens = rows[d][i].tokens
               /\ rows[d][i].adjusted = "hand" =>
                    rows'[d][i].adjusted = "hand" \/ rows'[d][i].tokens > 0
               /\ RowOk(d, rows'[d][i])
    <3>1. RowOk(d, rows[d][i]) /\ rows[d][i].tokens \in Nat
      BY RowFacts DEF IInv, TypeOK, CallOk
    <3>2. /\ rows'[d][i].tokens = rows[d][i].tokens
          /\ \/ rows'[d][i] = rows[d][i]
             \/ rows'[d][i].tokens > 0 /\ ~rows'[d][i].unpriced
      BY <1>2, <1>3
    <3> QED BY <3>1, <3>2 DEF RowOk
  <2> QED BY <2>1, <1>3 DEF Evolves
<1>7. OwnerOk'
  <2>1. \A d \in Calls, i \in Nat : i \in DOMAIN rows[d] =>
          /\ rows'[d][i].tokens = rows[d][i].tokens
          /\ rows'[d][i].tokens = 0 => rows'[d][i] = rows[d][i]
    BY <1>2, <1>3, RowFacts DEF IInv, TypeOK
  <2> QED BY <2>1, <1>1, <1>3 DEF IInv, TypeOK, OwnerOk
<1> QED BY <1>1, <1>5, <1>6, <1>7, RowsStep

-----------------------------------------------------------------------------
(* Steps of the Manager and of what surrounds a settlement.                *)

LEMMA GrantCallStep ==
    ASSUME IInv, NEW c \in Calls, NEW a \in Accounts, GrantCall(c, a)
    PROVE  IInv'
<1>1. /\ call[c] = "none" /\ call' = [call EXCEPT ![c] = "running"]
      /\ by' = [by EXCEPT ![c] = a]
      /\ UNCHANGED <<out, tx, rows, logged, accounts, owner, count>>
  BY DEF GrantCall
<1>2. TypeOK'
  BY <1>1 DEF IInv, TypeOK, accounts, owner
<1>3. rows[c] = <<>> /\ Len(rows[c]) = 0
  BY <1>1 DEF IInv, CallOk, TypeOK
<1>4. call' \in [Calls -> {"none", "running", "over"}] /\ call'[c] = "running"
      /\ \A d \in Calls : d # c => call'[d] = call[d]
  BY <1>1, <1>2 DEF IInv, TypeOK
<1>5. ASSUME NEW d \in Calls PROVE CallOk(d)'
  <2>1. CASE d # c
    BY <2>1, <1>1, <1>4, CallFrame DEF IInv
  <2>2. CASE d = c
    BY <2>2, <1>1, <1>3, <1>4 DEF CallOk
  <2> QED BY <2>1, <2>2
<1>6. ASSUME NEW d \in Calls, NEW k \in Kinds PROVE TxOk(d, k)'
  <2>1. CASE d # c
    BY <2>1, <1>1, <1>4, TxFrame DEF IInv
  <2>2. CASE d = c
    <3>1. TxOk(c, k)
      BY DEF IInv
    <3>2. tx[c][k].at = "idle"
      BY <3>1, <1>1 DEF TxOk
    <3> QED BY <2>2, <3>2, <1>1 DEF TxOk
  <2> QED BY <2>1, <2>2
<1>7. LockOk' /\ OwnerOk'
  BY <1>1 DEF IInv, LockOk, Locked, OwnerOk, owner
<1> QED BY <1>2, <1>5, <1>6, <1>7 DEF IInv

\* What holds of a row of a running call holds when the call is over,
\* whatever is reported.
LEMMA OverStep ==
    ASSUME IInv, NEW c \in Calls, call[c] = "running",
           call' = [call EXCEPT ![c] = "over"],
           out' \in [Calls -> Outcomes \cup {NoOutcome}],
           \A d \in Calls : d # c => out'[d] = out[d],
           tx' \in [Calls -> [Kinds -> Tx]],
           \A d \in Calls, k \in Kinds :
             \/ tx'[d][k] = tx[d][k]
             \/ d = c /\ tx'[d][k].at \in {"read", "refused"},
           UNCHANGED <<by, rows, logged, accounts, owner>>,
           count' \in [Events -> Nat]
    PROVE  IInv'
<1>1. call' \in [Calls -> {"none", "running", "over"}] /\ call'[c] = "over"
      /\ \A d \in Calls : d # c => call'[d] = call[d]
  BY DEF IInv, TypeOK
<1>2. TypeOK'
  BY <1>1 DEF IInv, TypeOK, accounts, owner
<1>3. ASSUME NEW r, RowOk(c, r) PROVE RowOk(c, r)'
  BY <1>1, <1>3 DEF RowOk, Placeholder, Says
<1>4. ASSUME NEW d \in Calls PROVE CallOk(d)'
  <2>1. CASE d # c
    BY <2>1, <1>1, CallFrame DEF IInv
  <2>2. CASE d = c
    BY <2>2, <1>1, <1>3 DEF IInv, CallOk
  <2> QED BY <2>1, <2>2
<1>5. ASSUME NEW d \in Calls, NEW k \in Kinds PROVE TxOk(d, k)'
  <2>1. CASE d # c
    BY <2>1, <1>1, TxFrame DEF IInv
  <2>2. CASE d = c /\ tx'[d][k].at \in {"read", "refused"}
    BY <2>2, <1>1 DEF TxOk
  <2>3. CASE d = c /\ tx'[d][k] = tx[d][k]
    <3>1. TxOk(c, k)
      BY DEF IInv
    <3>2. k \in Reports => tx[c][k].at = "idle"
      BY <3>1 DEF TxOk
    <3> PICK r : r = tx[c][k].row
      OBVIOUS
    <3>3. tx[c][k].at = "inserting" => RowOk(c, r)'
      BY <3>1, <1>3 DEF TxOk
    <3>4. tx[c][k].at = "inserting" => RowOk(c, tx[c][k].row)'
      BY <2>3, <3>3 DEF RowOk, Says, Placeholder
    <3> QED BY <2>3, <3>1, <3>2, <3>4, <1>1 DEF TxOk
  <2> QED BY <2>1, <2>2, <2>3
<1>6. LockOk'
  <2> SUFFICES ASSUME NEW d \in Calls, NEW j \in Kinds, NEW k \in Kinds,
                      Locked(d, j)', Locked(d, k)'
               PROVE  j = k
    BY DEF LockOk
  <2>1. Locked(d, j) /\ Locked(d, k)
    BY DEF Locked
  <2> QED BY <2>1 DEF IInv, LockOk
<1>7. OwnerOk'
  BY DEF IInv, OwnerOk, owner
<1> QED BY <1>2, <1>4, <1>5, <1>6, <1>7 DEF IInv

LEMMA ReportStep ==
    ASSUME IInv, NEW c \in Calls, NEW o \in Outcomes, Report(c, o)
    PROVE  IInv'
<1> DEFINE t == [Unused EXCEPT !.at = IF by[c] \in seated \/ "first" = "sweep"
                                      THEN "read" ELSE "refused"]
<1>1. t \in Tx /\ t.at \in {"read", "refused"}
  BY ArrivedTx
<1>2. Moves(c, "first", t)
  BY DEF Report, Arrives
<1> HIDE DEF t
<1>3. "first" \in Kinds
  BY DEF Kinds
<1>4. /\ tx' \in [Calls -> [Kinds -> Tx]] /\ tx'[c]["first"] = t
      /\ \A d \in Calls, k \in Kinds :
           d # c \/ k # "first" => tx'[d][k] = tx[d][k]
  BY <1>1, <1>2, <1>3, TxMoved DEF IInv
<1>5. /\ call[c] = "running" /\ call' = [call EXCEPT ![c] = "over"]
      /\ out' = [out EXCEPT ![c] = o]
      /\ UNCHANGED <<by, rows, logged, accounts, owner, count>>
  BY DEF Report
<1>6. /\ out' \in [Calls -> Outcomes \cup {NoOutcome}]
      /\ \A d \in Calls : d # c => out'[d] = out[d]
      /\ count' \in [Events -> Nat]
  BY <1>5 DEF IInv, TypeOK
<1>7. \A d \in Calls, k \in Kinds :
        \/ tx'[d][k] = tx[d][k]
        \/ d = c /\ tx'[d][k].at \in {"read", "refused"}
  BY <1>1, <1>4
<1> QED BY <1>4, <1>5, <1>6, <1>7, OverStep

LEMMA ManagerDiesStep ==
    ASSUME IInv, NEW c \in Calls, ManagerDies(c)
    PROVE  IInv'
<1>1. count' \in [Events -> Nat]
  <2>1. "fault" \in Events /\ Happens("fault")
    BY DEF Events, ManagerDies
  <2> QED BY <2>1, Counted DEF IInv
<1> QED BY <1>1, OverStep DEF ManagerDies, IInv, TypeOK

LEMMA AroundStep ==
    ASSUME IInv,
           \/ \E p \in Rates : Reprice(p)
           \/ NextPeriod
           \/ \E a \in Accounts : Undeploy(a) \/ DeleteAccount(a)
    PROVE  IInv'
<1>1. /\ UNCHANGED <<calls, tx, rows, logged, edit, recalc>>
      /\ rate' \in Rates
      /\ alive' \subseteq Accounts /\ seated' \subseteq alive'
  BY DEF Reprice, NextPeriod, Undeploy, DeleteAccount, accounts, owner,
         IInv, TypeOK
<1>2. count' \in [Events -> Nat]
  <2>1. \E e \in Events : Happens(e)
    BY DEF Reprice, NextPeriod, Undeploy, DeleteAccount, Events
  <2> QED BY <2>1, Counted DEF IInv
<1>3. TypeOK'
  BY <1>1, <1>2 DEF IInv, TypeOK, calls
<1>4. OwnerOk'
  BY <1>1 DEF IInv, OwnerOk
<1> QED BY <1>1, <1>3, <1>4, StillStep

-----------------------------------------------------------------------------
(* The invariant.                                                          *)

LEMMA InitIInv == Init => IInv
<1> SUFFICES ASSUME Init PROVE IInv
  OBVIOUS
<1>1. TypeOK
  BY RowTypes, CallsAssumption, MoneyAssumption DEF Init, TypeOK, Idle
<1>2. \A c \in Calls : rows[c] = <<>> /\ Len(rows[c]) = 0 /\ DOMAIN rows[c] = {}
  BY DEF Init
<1>3. \A c \in Calls, k \in Kinds : tx[c][k].at = "idle"
  BY DEF Init, Unused
<1>4. \A c \in Calls : CallOk(c)
  BY <1>2 DEF CallOk
<1>5. \A c \in Calls, k \in Kinds : TxOk(c, k)
  BY <1>3 DEF TxOk
<1>6. LockOk
  BY <1>3 DEF LockOk, Locked
<1>7. OwnerOk
  BY DEF OwnerOk, Init, Idle
<1> QED BY <1>1, <1>4, <1>5, <1>6, <1>7 DEF IInv

LEMMA NextIInv == IInv /\ [Next]_vars => IInv'
<1> SUFFICES ASSUME IInv, [Next]_vars PROVE IInv'
  OBVIOUS
<1>1. CASE UNCHANGED vars
  BY <1>1, StillStep
     DEF vars, IInv, TypeOK, OwnerOk, calls, accounts, owner
<1>2. ASSUME NEW c \in Calls, NEW a \in seated, GrantCall(c, a) PROVE IInv'
  BY <1>2, GrantCallStep DEF IInv, TypeOK
<1>3. ASSUME NEW c \in Calls, ManagerDies(c) \/ Repeat(c) \/ SweepReads(c)
      PROVE  IInv'
  BY <1>3, ManagerDiesStep, RepeatStep, SweepReadsStep
<1>4. ASSUME NEW c \in Calls, NEW o \in Outcomes, Report(c, o) PROVE IInv'
  BY <1>4, ReportStep
<1>5. ASSUME NEW c \in Calls, NEW k \in Kinds,
             \/ Check(c, k) \/ Price(c, k) \/ Insert(c, k)
             \/ Fill(c, k) \/ Dies(c, k)
      PROVE  IInv'
  BY <1>5, CheckStep, PriceStep, InsertStep, FillStep, DiesStep
<1>6. ASSUME NEW c \in Calls, NEW i \in DOMAIN rows[c], NEW s \in Sums,
             EditReads(c, i, s)
      PROVE  IInv'
  BY <1>6, EditReadsStep
<1>7. CASE EditWrites \/ RecalcReads \/ RecalcWrites
  BY <1>7, EditWritesStep, RecalcReadsStep, RecalcWritesStep
<1>8. CASE \/ \E p \in Rates : Reprice(p)
           \/ NextPeriod
           \/ \E a \in Accounts : Undeploy(a) \/ DeleteAccount(a)
  BY <1>8, AroundStep
<1> QED BY <1>1, <1>2, <1>3, <1>4, <1>5, <1>6, <1>7, <1>8, Zenon DEF Next

LEMMA SpecIInv == Spec => []IInv
  BY InitIInv, NextIInv, PTL DEF Spec

(* The state is what the code can hold in it, for any number of calls,     *)
(* prices, outcomes and bounds.                                            *)
THEOREM Types == Spec => []TypeOK
<1>1. IInv => TypeOK
  BY DEF IInv
<1> QED BY <1>1, SpecIInv, PTL

(* A call has one row, however its reports and the sweep interleave.       *)
THEOREM RowIsOne == Spec => []OneRow
<1>1. IInv => OneRow
  BY DEF IInv, CallOk, OneRow
<1> QED BY <1>1, SpecIInv, PTL

(* A report that says tokens and was answered is in the log and in the     *)
(* row, unless an owner set the row's amount or the account was gone.      *)
THEOREM UsageIsKept == Spec => []UsageKept
<1>1. IInv => UsageKept
  BY DEF IInv, TxOk, Says, Kept, UsageKept, Reports, Kinds
<1> QED BY <1>1, SpecIInv, PTL

-----------------------------------------------------------------------------
(* The bonus.  What a period's rows took is counted unit by unit, so that  *)
(* a sum that grows is a set that grows.                                   *)

\* About to write a row that costs something.
Taking(c, k) ==
    tx[c][k].at \in {"inserting", "filling"} /\ tx[c][k].row.amount # 0

Room(r) == r.bonus + BonusOf(r.period) <= Grant

\* The company's lock keeps room for what has been priced and not written.
Roomy ==
    /\ \A p \in Nat : IsFiniteSet(Taken(p)) /\ BonusOf(p) <= Grant
    /\ \A c \in Calls, k \in Kinds : Taking(c, k) => Room(tx[c][k].row)
    /\ \A c, d \in Calls, j, k \in Kinds :
         Taking(c, j) /\ Taking(d, k) => c = d /\ j = k

Units(c, b) == {<<c, 1, n>> : n \in 1..b}

TakenBy(c, i) == {<<c, i, n>> : n \in 1..rows[c][i].bonus}
TakenOf(c, p) ==
    UNION {TakenBy(c, i) : i \in {j \in DOMAIN rows[c] : rows[c][j].period = p}}

LEMMA TakenParts ==
    ASSUME NEW p
    PROVE  /\ Taken(p) = UNION {TakenOf(c, p) : c \in Calls}
           /\ Taken(p)' = UNION {TakenOf(c, p)' : c \in Calls}
  BY DEF Taken, TakenOf, TakenBy

LEMMA TakenUnits ==
    ASSUME NEW p, NEW u
    PROVE  u \in Taken(p) <=>
             \E c \in Calls : \E i \in DOMAIN rows[c] :
               /\ rows[c][i].period = p
               /\ \E n \in 1..rows[c][i].bonus : u = <<c, i, n>>
<1>1. u \in Taken(p) <=> \E c \in Calls : u \in TakenOf(c, p)
  BY TakenParts
<1>2. \A c \in Calls : u \in TakenOf(c, p) <=>
        \E i \in DOMAIN rows[c] : rows[c][i].period = p /\ u \in TakenBy(c, i)
  BY DEF TakenOf
<1>3. \A c, i : u \in TakenBy(c, i) <=>
        \E n \in 1..rows[c][i].bonus : u = <<c, i, n>>
  BY DEF TakenBy
<1> QED
  BY <1>1, <1>2, <1>3

LEMMA TakenUnitsNext ==
    ASSUME NEW p, NEW u
    PROVE  u \in Taken(p)' <=>
             \E c \in Calls : \E i \in DOMAIN rows'[c] :
               /\ rows'[c][i].period = p
               /\ \E n \in 1..rows'[c][i].bonus : u = <<c, i, n>>
<1>1. u \in Taken(p)' <=> \E c \in Calls : u \in TakenOf(c, p)'
  BY TakenParts
<1>2. \A c \in Calls : u \in TakenOf(c, p)' <=>
        \E i \in DOMAIN rows'[c] :
          rows'[c][i].period = p /\ u \in TakenBy(c, i)'
  BY DEF TakenOf
<1>3. \A c, i : u \in TakenBy(c, i)' <=>
        \E n \in 1..rows'[c][i].bonus : u = <<c, i, n>>
  BY DEF TakenBy
<1> QED
  BY <1>1, <1>2, <1>3

LEMMA UnitsCounted ==
    ASSUME NEW c, NEW b \in Nat
    PROVE  IsFiniteSet(Units(c, b)) /\ Cardinality(Units(c, b)) <= b
<1> DEFINE f == [n \in 1..b |-> <<c, 1, n>>]
<1>1. f \in Surjection(1..b, Units(c, b))
  BY DEF Units, Surjection
<1>2. IsFiniteSet(1..b) /\ Cardinality(1..b) = b
  BY FS_Interval
<1> HIDE DEF f
<1> QED
  BY <1>1, <1>2, FS_Surjection

LEMMA Shrunk ==
    ASSUME NEW p, IsFiniteSet(Taken(p)), Taken(p)' \subseteq Taken(p)
    PROVE  /\ IsFiniteSet(Taken(p)')
           /\ BonusOf(p) \in Nat /\ BonusOf(p)' \in Nat
           /\ BonusOf(p)' <= BonusOf(p)
  BY FS_Subset, FS_CardinalityType DEF BonusOf

LEMMA Grown ==
    ASSUME NEW p, NEW c, NEW b \in Nat, IsFiniteSet(Taken(p)),
           Taken(p)' \subseteq Taken(p) \cup Units(c, b)
    PROVE  /\ IsFiniteSet(Taken(p)')
           /\ BonusOf(p) \in Nat /\ BonusOf(p)' \in Nat
           /\ BonusOf(p)' <= BonusOf(p) + b
<1> DEFINE U == Taken(p) \cup Units(c, b)
<1>1. IsFiniteSet(Units(c, b)) /\ Cardinality(Units(c, b)) <= b
  BY UnitsCounted
<1>2. /\ IsFiniteSet(U)
      /\ Cardinality(U) = Cardinality(Taken(p)) + Cardinality(Units(c, b))
                            - Cardinality(Taken(p) \cap Units(c, b))
  BY <1>1, FS_Union
<1>3. IsFiniteSet(Taken(p) \cap Units(c, b))
  BY <1>1, FS_Subset
<1>4. /\ Cardinality(Taken(p)) \in Nat /\ Cardinality(Units(c, b)) \in Nat
      /\ Cardinality(Taken(p) \cap Units(c, b)) \in Nat
  BY <1>1, <1>3, FS_CardinalityType
<1>5. /\ IsFiniteSet(Taken(p)') /\ Cardinality(Taken(p)') \in Nat
      /\ Cardinality(Taken(p)') <= Cardinality(U)
  BY <1>2, FS_Subset, FS_CardinalityType
<1> HIDE DEF U
<1> QED
  BY <1>1, <1>2, <1>4, <1>5 DEF BonusOf

\* The rows keep their periods and take no more than before.
LEMMA TakesNoMore ==
    ASSUME NEW p,
           \A c \in Calls : /\ DOMAIN rows'[c] = DOMAIN rows[c]
                            /\ \A i \in DOMAIN rows[c] :
                                 /\ rows[c][i].bonus \in Nat
                                 /\ rows'[c][i].bonus \in Nat
                                 /\ rows'[c][i].bonus <= rows[c][i].bonus
                                 /\ rows'[c][i].period = rows[c][i].period
    PROVE  Taken(p)' \subseteq Taken(p)
<1> SUFFICES ASSUME NEW u \in Taken(p)' PROVE u \in Taken(p)
  OBVIOUS
<1>1. PICK c \in Calls : \E i \in DOMAIN rows'[c] :
        /\ rows'[c][i].period = p
        /\ \E n \in 1..rows'[c][i].bonus : u = <<c, i, n>>
  BY TakenUnitsNext
<1>2. PICK i \in DOMAIN rows[c] :
        /\ rows'[c][i].period = p
        /\ \E n \in 1..rows'[c][i].bonus : u = <<c, i, n>>
  BY <1>1
<1>3. \E n \in 1..rows[c][i].bonus : u = <<c, i, n>>
  BY <1>2
<1> QED
  BY <1>2, <1>3, TakenUnits

\* The rows of c but the first, and the other rows, stay as they are.
LEMMA TakesOneRow ==
    ASSUME NEW p, NEW c \in Calls, NEW b \in Nat,
           \A d \in Calls : d # c => rows'[d] = rows[d],
           DOMAIN rows'[c] = {1},
           rows'[c][1].period = p => rows'[c][1].bonus = b
    PROVE  Taken(p)' \subseteq Taken(p) \cup Units(c, b)
<1> SUFFICES ASSUME NEW u \in Taken(p)'
             PROVE  u \in Taken(p) \cup Units(c, b)
  OBVIOUS
<1>1. PICK d \in Calls : \E i \in DOMAIN rows'[d] :
        /\ rows'[d][i].period = p
        /\ \E n \in 1..rows'[d][i].bonus : u = <<d, i, n>>
  BY TakenUnitsNext
<1>2. CASE d # c
  BY <1>1, <1>2, TakenUnits
<1>3. CASE d = c
  BY <1>1, <1>3 DEF Units
<1> QED
  BY <1>2, <1>3

LEMMA RowTypesOf ==
    ASSUME IInv, NEW c \in Calls, NEW k \in Kinds
    PROVE  /\ tx[c][k] \in Tx /\ tx[c][k].row \in Row
           /\ tx[c][k].row.bonus \in Nat /\ tx[c][k].row.amount \in Nat
           /\ tx[c][k].row.bonus <= tx[c][k].row.amount
           /\ tx[c][k].row.period \in Nat
<1>1. tx[c][k] \in Tx
  BY DEF IInv, TypeOK
<1>2. tx[c][k].row \in Row
  BY <1>1 DEF Tx
<1> QED
  BY <1>1, <1>2 DEF Row

\* No transaction comes to its write, and no row takes more.
LEMMA RoomStays ==
    ASSUME IInv, Roomy, \A p \in Nat : Taken(p)' \subseteq Taken(p),
           \A c \in Calls, k \in Kinds :
             Taking(c, k)' => Taking(c, k) /\ tx'[c][k].row = tx[c][k].row
    PROVE  Roomy'
<1>1. \A p \in Nat : /\ IsFiniteSet(Taken(p)')
                     /\ BonusOf(p) \in Nat /\ BonusOf(p)' \in Nat
                     /\ BonusOf(p)' <= BonusOf(p)
  BY Shrunk DEF Roomy
<1>2. \A p \in Nat : IsFiniteSet(Taken(p)') /\ BonusOf(p)' <= Grant
  BY <1>1, MoneyAssumption DEF Roomy
<1>3. ASSUME NEW c \in Calls, NEW k \in Kinds, Taking(c, k)'
      PROVE  Room(tx[c][k].row)'
  <2>1. PICK b \in Nat, q \in Nat :
          b = tx[c][k].row.bonus /\ q = tx[c][k].row.period
    BY RowTypesOf
  <2>2. b + BonusOf(q) <= Grant
    BY <1>3, <2>1 DEF Roomy, Room
  <2>3. b + BonusOf(q)' <= Grant
    BY <1>1, <2>2, MoneyAssumption
  <2>4. tx'[c][k].row.bonus = b /\ tx'[c][k].row.period = q
    BY <1>3, <2>1
  <2>5. BonusOf(tx[c][k].row.period)' = BonusOf(q)'
    BY <2>4 DEF BonusOf, Taken
  <2> QED
    BY <2>3, <2>4, <2>5 DEF Room
<1>4. \A c, d \in Calls, j, k \in Kinds :
        Taking(c, j)' /\ Taking(d, k)' => c = d /\ j = k
  BY DEF Roomy
<1> QED
  BY <1>2, <1>3, <1>4 DEF Roomy

\* A transaction moves to a stage without a row to write.
LEMMA MoveStays ==
    ASSUME IInv, Roomy, NEW c \in Calls, NEW k \in Kinds, NEW t \in Tx,
           Moves(c, k, t), t.at \notin {"inserting", "filling"},
           UNCHANGED rows
    PROVE  Roomy'
<1>1. /\ tx'[c][k] = t
      /\ \A d \in Calls, j \in Kinds : d # c \/ j # k => tx'[d][j] = tx[d][j]
  BY TxMoved DEF IInv
<1>2. \A p \in Nat : Taken(p)' \subseteq Taken(p)
  BY DEF Taken
<1>3. ASSUME NEW d \in Calls, NEW j \in Kinds, Taking(d, j)'
      PROVE  Taking(d, j) /\ tx'[d][j].row = tx[d][j].row
  BY <1>1, <1>3 DEF Taking
<1> QED
  BY <1>2, <1>3, RoomStays

\* A transaction writes its row: only that row's period takes more, and no
\* more than had room.
LEMMA WriteFits ==
    ASSUME IInv, Roomy, NEW c \in Calls, NEW k \in Kinds, NEW r \in Row,
           tx[c][k].at \in {"inserting", "filling"}, tx[c][k].row = r,
           tx'[c][k].at = "done",
           \A d \in Calls, j \in Kinds : d # c \/ j # k => tx'[d][j] = tx[d][j],
           \A p \in Nat :
             Taken(p)' \subseteq
               Taken(p) \cup Units(c, IF p = r.period THEN r.bonus ELSE 0)
    PROVE  Roomy'
<1>0. r.bonus \in Nat /\ r.amount \in Nat /\ r.bonus <= r.amount
      /\ r.period \in Nat
  BY DEF Row
<1>1. \A d \in Calls, j \in Kinds :
        Taking(d, j)' => Taking(d, j) /\ tx'[d][j].row = tx[d][j].row
  BY DEF Taking
<1>2. ASSUME NEW p \in Nat, p # r.period \/ r.bonus = 0
      PROVE  Taken(p)' \subseteq Taken(p)
  <2>1. Units(c, 0) = {}
    BY DEF Units
  <2> QED
    BY <1>0, <1>2, <2>1
<1>3. CASE r.bonus = 0
  BY <1>1, <1>2, <1>3, RoomStays
<1>4. CASE r.bonus # 0
  <2>1. Taking(c, k)
    BY <1>0, <1>4 DEF Taking
  <2>2. \A d \in Calls, j \in Kinds : ~Taking(d, j)'
    BY <1>1, <2>1 DEF Roomy, Taking
  <2>3. ASSUME NEW p \in Nat
        PROVE  IsFiniteSet(Taken(p)') /\ BonusOf(p)' <= Grant
    <3>1. CASE p # r.period
      <4>1. /\ IsFiniteSet(Taken(p)')
            /\ BonusOf(p) \in Nat /\ BonusOf(p)' \in Nat
            /\ BonusOf(p)' <= BonusOf(p)
        BY <1>2, <3>1, Shrunk DEF Roomy
      <4> QED
        BY <4>1, MoneyAssumption DEF Roomy
    <3>2. CASE p = r.period
      <4>1. Taken(p)' \subseteq Taken(p) \cup Units(c, r.bonus)
        BY <3>2
      <4>2. /\ IsFiniteSet(Taken(p)')
            /\ BonusOf(p) \in Nat /\ BonusOf(p)' \in Nat
            /\ BonusOf(p)' <= BonusOf(p) + r.bonus
        BY <1>0, <4>1, Grown DEF Roomy
      <4>3. r.bonus + BonusOf(p) <= Grant
        BY <2>1, <3>2 DEF Roomy, Room
      <4> QED
        BY <1>0, <4>2, <4>3, MoneyAssumption
    <3> QED
      BY <3>1, <3>2
  <2> QED
    BY <2>2, <2>3 DEF Roomy
<1> QED
  BY <1>3, <1>4

LEMMA InsertFits ==
    ASSUME IInv, Roomy, NEW c \in Calls, NEW k \in Kinds, Insert(c, k)
    PROVE  Roomy'
<1> DEFINE t == [tx[c][k] EXCEPT !.at = "done", !.row = NoRow]
<1>1. tx[c][k].at = "inserting" /\ rows[c] = <<>>
  BY DEF Insert, IInv, TxOk
<1>2. t \in Tx /\ t.at = "done"
  BY RowTypesOf, RowTypes DEF Tx, Stages
<1>3. Moves(c, k, t)
  BY DEF Insert, Ends
<1> HIDE DEF t
<1>4. /\ tx'[c][k] = t
      /\ \A d \in Calls, j \in Kinds : d # c \/ j # k => tx'[d][j] = tx[d][j]
  BY <1>2, <1>3, TxMoved DEF IInv
<1>5. PICK r \in Row : r = tx[c][k].row
  BY RowTypesOf
<1>6. rows' = [rows EXCEPT ![c] = Append(<<>>, r)]
  BY <1>1, <1>5 DEF Insert
<1>7. /\ DOMAIN rows'[c] = {1} /\ rows'[c][1] = r
      /\ \A d \in Calls : d # c => rows'[d] = rows[d]
  <2>1. LET q == Append(<<>>, r) IN DOMAIN q = {1} /\ q[1] = r
    BY Appended
  <2>2. rows \in [Calls -> Seq(Row)]
    BY DEF IInv, TypeOK
  <2>3. rows'[c] = Append(<<>>, r)
    BY <1>6, <2>2
  <2> QED
    BY <1>6, <2>1, <2>2, <2>3
<1>8. ASSUME NEW p \in Nat
      PROVE  Taken(p)' \subseteq
               Taken(p) \cup Units(c, IF p = r.period THEN r.bonus ELSE 0)
  <2>1. CASE p = r.period
    <3>1. r.bonus \in Nat
      BY DEF Row
    <3>2. Taken(p)' \subseteq Taken(p) \cup Units(c, r.bonus)
      BY <1>7, <3>1, TakesOneRow
    <3> QED
      BY <2>1, <3>2
  <2>2. CASE p # r.period
    <3>1. Taken(p)' \subseteq Taken(p) \cup Units(c, 0)
      BY <1>7, <2>2, TakesOneRow
    <3> QED
      BY <2>2, <3>1
  <2> QED
    BY <2>1, <2>2
<1> QED
  BY <1>1, <1>2, <1>4, <1>5, <1>8, WriteFits

\* A placeholder takes nothing; filled, it takes in its own period only.
LEMMA FillTakes ==
    ASSUME NEW old \in Row, NEW r \in Row
    PROVE  /\ Filled(old, r).period = old.period
           /\ old.period = r.period => Filled(old, r).bonus = r.bonus
           /\ old.period # r.period => Filled(old, r).bonus = 0
  BY DEF Filled, Row

LEMMA FillFits ==
    ASSUME IInv, Roomy, NEW c \in Calls, NEW k \in Kinds, Fill(c, k)
    PROVE  Roomy'
<1> DEFINE t == [tx[c][k] EXCEPT !.at = "done", !.row = NoRow]
<1>1. tx[c][k].at = "filling" /\ rows[c] # <<>> /\ CallOk(c)
  BY DEF Fill, IInv, TxOk
<1>2. t \in Tx /\ t.at = "done"
  BY RowTypesOf, RowTypes DEF Tx, Stages
<1>3. Moves(c, k, t)
  BY DEF Fill, Ends
<1> HIDE DEF t
<1>4. /\ tx'[c][k] = t
      /\ \A d \in Calls, j \in Kinds : d # c \/ j # k => tx'[d][j] = tx[d][j]
  BY <1>2, <1>3, TxMoved DEF IInv
<1>5. PICK r \in Row : r = tx[c][k].row
  BY RowTypesOf
<1>6. rows \in [Calls -> Seq(Row)]
  BY DEF IInv, TypeOK
<1>7. DOMAIN rows[c] = {1} /\ rows[c][1] \in Row
  BY <1>1, <1>6, AtMostOne DEF CallOk
<1>8. PICK old \in Row : old = rows[c][1]
  BY <1>7
<1> DEFINE s == [i \in DOMAIN rows[c] |->
        IF i \in Fillable(c) /\ \A j \in Fillable(c) : i <= j
        THEN Filled(rows[c][i], r) ELSE rows[c][i]]
<1>9. rows' = [rows EXCEPT ![c] = s]
  BY <1>5 DEF Fill
<1>10. DOMAIN s = {1}
       /\ s[1] = IF Placeholder(old) THEN Filled(old, r) ELSE old
  <2>1. Fillable(c) = IF Placeholder(old) THEN {1} ELSE {}
    BY <1>7, <1>8 DEF Fillable
  <2> QED
    BY <1>7, <1>8, <2>1
<1> HIDE DEF s
<1>11. rows'[c] = s /\ \A d \in Calls : d # c => rows'[d] = rows[d]
  BY <1>6, <1>9
<1>12. ASSUME NEW p \in Nat
       PROVE  Taken(p)' \subseteq
                Taken(p) \cup Units(c, IF p = r.period THEN r.bonus ELSE 0)
  <2>1. CASE Placeholder(old) /\ p = r.period
    <3>1. r.bonus \in Nat
      BY DEF Row
    <3>2. rows'[c][1].period = p => rows'[c][1].bonus = r.bonus
      BY <1>10, <1>11, <2>1, FillTakes
    <3>3. Taken(p)' \subseteq Taken(p) \cup Units(c, r.bonus)
      BY <1>10, <1>11, <3>1, <3>2, TakesOneRow
    <3> QED
      BY <2>1, <3>3
  <2>2. CASE Placeholder(old) /\ p # r.period
    <3>1. rows'[c][1].period = p => rows'[c][1].bonus = 0
      BY <1>10, <1>11, <2>2, FillTakes
    <3>2. Taken(p)' \subseteq Taken(p) \cup Units(c, 0)
      BY <1>10, <1>11, <3>1, TakesOneRow
    <3> QED
      BY <2>2, <3>2
  <2>3. CASE ~Placeholder(old)
    <3>1. \A d \in Calls : DOMAIN rows'[d] = DOMAIN rows[d]
      BY <1>7, <1>10, <1>11
    <3>2. \A d \in Calls : \A i \in DOMAIN rows[d] :
            rows'[d][i] = rows[d][i] /\ rows[d][i].bonus \in Nat
      <4> SUFFICES ASSUME NEW d \in Calls, NEW i \in DOMAIN rows[d]
                   PROVE  rows'[d][i] = rows[d][i] /\ rows[d][i].bonus \in Nat
        OBVIOUS
      <4>1. rows[d][i] \in Row
        BY <1>6
      <4>2. rows'[d][i] = rows[d][i]
        BY <1>7, <1>8, <1>10, <1>11, <2>3
      <4> QED
        BY <4>1, <4>2, RowFacts
    <3>3. Taken(p)' \subseteq Taken(p)
      BY <3>1, <3>2, TakesNoMore
    <3> QED
      BY <3>3
  <2> QED
    BY <2>1, <2>2, <2>3
<1> QED
  BY <1>1, <1>2, <1>4, <1>5, <1>12, WriteFits

\* What is left of the bonus is priced under the company's lock.
LEMMA Larger ==
    ASSUME NEW x \in Nat
    PROVE  Max({0, x}) = x
<1>1. \A y : (y \in {0, x} /\ \A z \in {0, x} : y >= z) => y = x
  OBVIOUS
<1>2. x \in {0, x} /\ \A z \in {0, x} : x >= z
  OBVIOUS
<1> DEFINE IsMax(y) == y \in {0, x} /\ \A z \in {0, x} : y >= z
<1>3. IsMax(CHOOSE y : IsMax(y))
  BY <1>2
<1>4. Max({0, x}) = CHOOSE y : IsMax(y)
  BY DEF Max
<1> QED
  BY <1>1, <1>3, <1>4

LEMMA PriceFits ==
    ASSUME IInv, Roomy, NEW c \in Calls, NEW k \in Kinds, Price(c, k)
    PROVE  Roomy'
<1> DEFINE said == k \in Reports /\ out[c].said
           guesses == IF k \in Reports /\ ~said /\ out[c].started
                      THEN {0} \cup {logged[d] : d \in Baseline(c)} ELSE {0}
      priced(tokens, bonus) ==
        LET q == Quoted(c, k, tokens, said, bonus)
        IN /\ bonus = Bonus(q.amount)
           /\ q.amount > 0 => LedgerFree
           /\ Moves(c, k, [tx[c][k] EXCEPT !.row = q,
                !.at = IF @ = "insert" THEN "inserting" ELSE "filling"])
<1>1. PICK tokens \in IF said THEN {out[c].tokens} ELSE guesses :
        \E bonus \in 0..(rate * tokens) : priced(tokens, bonus)
  BY Zenon DEF Price
<1>2. PICK bonus \in 0..(rate * tokens) : priced(tokens, bonus)
  BY <1>1
<1>3. PICK q : q = Quoted(c, k, tokens, said, bonus)
  OBVIOUS
<1>4. /\ bonus = Bonus(q.amount) /\ q.bonus = bonus
      /\ q.period = count["period"] /\ q.amount = rate * tokens
      /\ q.amount > 0 => LedgerFree
      /\ Moves(c, k, [tx[c][k] EXCEPT !.row = q,
           !.at = IF @ = "insert" THEN "inserting" ELSE "filling"])
  BY <1>2, <1>3 DEF Quoted, NoRow
<1> HIDE DEF said, guesses, priced
<1> DEFINE t == [tx[c][k] EXCEPT !.row = q,
                   !.at = IF @ = "insert" THEN "inserting" ELSE "filling"]
<1>5. tx[c][k] \in Tx /\ tx \in [Calls -> [Kinds -> Tx]]
  BY DEF IInv, TypeOK
<1>6. t.row = q
  BY <1>5 DEF Tx
<1>7. tx' = [tx EXCEPT ![c][k] = t]
  BY <1>4 DEF Moves
<1> HIDE DEF t
<1>8. /\ tx'[c][k] = t
      /\ \A d \in Calls, j \in Kinds : d # c \/ j # k => tx'[d][j] = tx[d][j]
  BY <1>5, <1>7
<1>9. q \in Row
  <2>1. tx'[c][k] \in Tx
    BY PriceStep DEF IInv, TypeOK
  <2> QED
    BY <1>6, <1>8, <2>1 DEF Tx
<1>10. /\ q.amount \in Nat /\ q.bonus \in Nat /\ q.bonus <= q.amount
       /\ q.period \in Nat
  BY <1>9 DEF Row
<1>11. UNCHANGED rows
  BY DEF Price
<1>12. \A p \in Nat : Taken(p)' = Taken(p) /\ BonusOf(p)' = BonusOf(p)
  BY <1>11 DEF Taken, BonusOf
<1>13. q.bonus + BonusOf(q.period) <= Grant
  <2>1. PICK b : b = BonusOf(q.period)
    OBVIOUS
  <2>2. b \in Nat /\ b <= Grant
    BY <1>10, <2>1, FS_CardinalityType DEF Roomy, BonusOf
  <2>3. PICK x \in Nat : x = Grant - b
    BY <2>2, MoneyAssumption
  <2>4. Bonus(q.amount) = Min({q.amount, x})
    BY <1>4, <2>1, <2>3, Larger DEF Bonus
  <2>5. q.bonus <= x
    BY <1>4, <1>10, <2>4, Smaller
  <2> QED
    BY <1>10, <2>1, <2>2, <2>3, <2>5, MoneyAssumption
<1>14. CASE q.amount = 0
  <2>1. ASSUME NEW d \in Calls, NEW j \in Kinds, Taking(d, j)'
        PROVE  Taking(d, j) /\ tx'[d][j].row = tx[d][j].row
    BY <1>6, <1>8, <1>14, <2>1 DEF Taking
  <2> QED
    BY <1>12, <2>1, RoomStays
<1>15. CASE q.amount # 0
  <2>1. \A d \in Calls, j \in Kinds : ~Taking(d, j)
    BY <1>4, <1>10, <1>15 DEF LedgerFree, Taking
  <2>2. \A d \in Calls, j \in Kinds : Taking(d, j)' => d = c /\ j = k
    BY <1>8, <2>1 DEF Taking
  <2>3. Room(tx[c][k].row)'
    <3>1. tx'[c][k].row = q
      BY <1>6, <1>8
    <3>2. BonusOf(tx[c][k].row.period)' = BonusOf(q.period)'
      BY <3>1 DEF BonusOf, Taken
    <3>3. BonusOf(q.period)' = BonusOf(q.period)
      BY <1>10, <1>12
    <3> QED
      BY <1>13, <3>1, <3>2, <3>3 DEF Room
  <2> QED
    BY <1>12, <2>2, <2>3 DEF Roomy
<1> QED
  BY <1>10, <1>14, <1>15

LEMMA AmendTakes ==
    ASSUME NEW old \in Row, NEW a \in Nat, NEW u \in BOOLEAN,
           NEW how \in {"hand", "recalc"}
    PROVE  /\ Amended(old, a, u, how).period = old.period
           /\ Amended(old, a, u, how).bonus \in Nat
           /\ Amended(old, a, u, how).bonus <= old.bonus
<1>1. Min({old.bonus, a}) \in Nat /\ Min({old.bonus, a}) <= old.bonus
  BY RowFacts, Smaller
<1> QED
  BY <1>1 DEF Amended, Row

\* An owner's write takes nothing more, and moves no transaction.
LEMMA AmendFits ==
    ASSUME IInv, Roomy, UNCHANGED tx,
           \A d \in Calls :
             /\ DOMAIN rows'[d] = DOMAIN rows[d]
             /\ \A i \in DOMAIN rows[d] :
                  \/ rows'[d][i] = rows[d][i]
                  \/ \E a \in Nat, u \in BOOLEAN, how \in {"hand", "recalc"} :
                       rows'[d][i] = Amended(rows[d][i], a, u, how)
    PROVE  Roomy'
<1>1. ASSUME NEW d \in Calls, NEW i \in DOMAIN rows[d]
      PROVE  /\ rows[d][i].bonus \in Nat /\ rows'[d][i].bonus \in Nat
             /\ rows'[d][i].bonus <= rows[d][i].bonus
             /\ rows'[d][i].period = rows[d][i].period
  <2>1. rows[d][i] \in Row
    BY DEF IInv, TypeOK
  <2>2. rows[d][i].bonus \in Nat
    BY <2>1, RowFacts
  <2>3. CASE rows'[d][i] = rows[d][i]
    BY <2>2, <2>3
  <2>4. CASE \E a \in Nat, u \in BOOLEAN, how \in {"hand", "recalc"} :
               rows'[d][i] = Amended(rows[d][i], a, u, how)
    BY <2>1, <2>2, <2>4, AmendTakes
  <2> QED
    BY <2>3, <2>4
<1>2. \A p \in Nat : Taken(p)' \subseteq Taken(p)
  BY <1>1, TakesNoMore
<1>3. \A c \in Calls, k \in Kinds :
        Taking(c, k)' => Taking(c, k) /\ tx'[c][k].row = tx[c][k].row
  BY DEF Taking
<1> QED
  BY <1>2, <1>3, RoomStays

LEMMA EditFits ==
    ASSUME IInv, Roomy, EditWrites
    PROVE  Roomy'
<1>1. PICK e \in edit :
        rows' = [rows EXCEPT ![e.call][e.i] =
                    Amended(@, e.amount, e.unpriced, "hand")]
  BY DEF EditWrites
<1>2. /\ e.call \in Calls /\ e.i \in DOMAIN rows[e.call]
      /\ e.amount \in Nat /\ e.unpriced \in BOOLEAN
  BY DEF IInv, TypeOK, OwnerOk
<1>3. rows \in [Calls -> Seq(Row)] /\ UNCHANGED tx
  BY DEF IInv, TypeOK, EditWrites
<1>4. ASSUME NEW d \in Calls
      PROVE  /\ DOMAIN rows'[d] = DOMAIN rows[d]
             /\ \A i \in DOMAIN rows[d] :
                  \/ rows'[d][i] = rows[d][i]
                  \/ rows'[d][i] =
                       Amended(rows[d][i], e.amount, e.unpriced, "hand")
  BY <1>1, <1>2, <1>3
<1> QED
  BY <1>2, <1>3, <1>4, AmendFits

LEMMA RecalcFits ==
    ASSUME IInv, Roomy, RecalcWrites
    PROVE  Roomy'
<1> DEFINE new(d, i) == {x \in recalc : x.call = d /\ x.i = i}
<1>1. /\ rows' = [d \in Calls |-> [i \in DOMAIN rows[d] |->
           IF new(d, i) = {} THEN rows[d][i]
           ELSE Amended(rows[d][i], (CHOOSE x \in new(d, i) : TRUE).amount,
                        FALSE, "recalc")]]
      /\ UNCHANGED tx
  BY DEF RecalcWrites
<1>2. ASSUME NEW d \in Calls, NEW i \in DOMAIN rows[d]
      PROVE  \/ rows'[d][i] = rows[d][i]
             \/ \E a \in Nat, u \in BOOLEAN, how \in {"hand", "recalc"} :
                  rows'[d][i] = Amended(rows[d][i], a, u, how)
  <2>1. CASE new(d, i) = {}
    BY <1>1, <2>1
  <2>2. CASE new(d, i) # {}
    <3>1. PICK x \in recalc : x = CHOOSE y \in new(d, i) : TRUE
      BY <2>2
    <3>2. x.amount \in Nat
      BY <3>1 DEF IInv, TypeOK
    <3>3. rows'[d][i] = Amended(rows[d][i], x.amount, FALSE, "recalc")
      BY <1>1, <2>2, <3>1
    <3> QED
      BY <3>2, <3>3
  <2> QED
    BY <2>1, <2>2
<1>3. \A d \in Calls : DOMAIN rows'[d] = DOMAIN rows[d]
  BY <1>1
<1> QED
  BY <1>1, <1>2, <1>3, AmendFits

\* Steps that write no row and price none.
LEMMA QuietFits ==
    ASSUME IInv, Roomy, UNCHANGED <<tx, rows>>
    PROVE  Roomy'
<1>1. \A p \in Nat : Taken(p)' \subseteq Taken(p)
  BY DEF Taken
<1>2. \A c \in Calls, k \in Kinds :
        Taking(c, k)' => Taking(c, k) /\ tx'[c][k].row = tx[c][k].row
  BY DEF Taking
<1> QED
  BY <1>1, <1>2, RoomStays

LEMMA ArrivalFits ==
    ASSUME IInv, Roomy, NEW c \in Calls, NEW k \in Kinds, Arrives(c, k),
           UNCHANGED rows
    PROVE  Roomy'
<1> DEFINE t == [Unused EXCEPT !.at = IF by[c] \in seated \/ k = "sweep"
                                      THEN "read" ELSE "refused"]
<1>1. t \in Tx /\ t.at \in {"read", "refused"}
  BY ArrivedTx
<1>2. Moves(c, k, t)
  BY DEF Arrives
<1> HIDE DEF t
<1> QED
  BY <1>1, <1>2, MoveStays

LEMMA DeathFits ==
    ASSUME IInv, Roomy, NEW c \in Calls, NEW k \in Kinds, Dies(c, k)
    PROVE  Roomy'
<1> DEFINE t == [tx[c][k] EXCEPT !.at = "dead", !.row = NoRow]
<1>1. t \in Tx /\ t.at = "dead"
  BY RowTypesOf, RowTypes DEF Tx, Stages
<1>2. Moves(c, k, t) /\ UNCHANGED rows
  BY DEF Dies, Ends
<1> HIDE DEF t
<1> QED
  BY <1>1, <1>2, MoveStays

LEMMA CheckFits ==
    ASSUME IInv, Roomy, NEW c \in Calls, NEW k \in Kinds, Check(c, k)
    PROVE  Roomy'
<1>1. PICK known \in {TRUE, k = "sweep" \/ by[c] \in alive},
           goes \in {"fill", "done", "insert", "refused"} :
        Moves(c, k, [tx[c][k] EXCEPT !.at = goes, !.known = known])
  BY DEF Check
<1> DEFINE t == [tx[c][k] EXCEPT !.at = goes, !.known = known]
<1>2. t \in Tx /\ t.at = goes
  BY RowTypesOf DEF Tx, Stages
<1>3. Moves(c, k, t) /\ UNCHANGED rows
  BY <1>1 DEF Check
<1> HIDE DEF t
<1> QED
  BY <1>2, <1>3, MoveStays

LEMMA InitRoomy == Init => Roomy
<1> SUFFICES ASSUME Init PROVE Roomy
  OBVIOUS
<1>1. \A c \in Calls : DOMAIN rows[c] = {}
  BY DEF Init
<1>2. \A p \in Nat : Taken(p) = {}
  BY <1>1 DEF Taken
<1>3. \A c \in Calls, k \in Kinds : ~Taking(c, k)
  BY DEF Init, Unused, Taking
<1> QED
  BY <1>2, <1>3, FS_EmptySet, MoneyAssumption DEF Roomy, BonusOf

LEMMA NextRoomy == IInv /\ Roomy /\ [Next]_vars => Roomy'
<1> SUFFICES ASSUME IInv, Roomy, [Next]_vars PROVE Roomy'
  OBVIOUS
<1>1. CASE UNCHANGED vars
  BY <1>1, QuietFits DEF vars
<1>2. ASSUME NEW c \in Calls, NEW a \in seated, GrantCall(c, a) PROVE Roomy'
  BY <1>2, QuietFits DEF GrantCall
<1>3. ASSUME NEW c \in Calls, ManagerDies(c) PROVE Roomy'
  BY <1>3, QuietFits DEF ManagerDies
<1>4. ASSUME NEW c \in Calls, Repeat(c) \/ SweepReads(c) PROVE Roomy'
  <2>1. "retry" \in Kinds /\ "sweep" \in Kinds
    BY DEF Kinds
  <2> QED
    BY <1>4, <2>1, ArrivalFits DEF Repeat, SweepReads
<1>5. ASSUME NEW c \in Calls, NEW o \in Outcomes, Report(c, o) PROVE Roomy'
  <2>1. "first" \in Kinds
    BY DEF Kinds
  <2> QED
    BY <1>5, <2>1, ArrivalFits DEF Report
<1>6. ASSUME NEW c \in Calls, NEW k \in Kinds,
             \/ Check(c, k) \/ Price(c, k) \/ Insert(c, k)
             \/ Fill(c, k) \/ Dies(c, k)
      PROVE  Roomy'
  BY <1>6, CheckFits, PriceFits, InsertFits, FillFits, DeathFits
<1>7. ASSUME NEW c \in Calls, NEW i \in DOMAIN rows[c], NEW s \in Sums,
             EditReads(c, i, s)
      PROVE  Roomy'
  BY <1>7, QuietFits DEF EditReads
<1>8. CASE EditWrites \/ RecalcWrites
  BY <1>8, EditFits, RecalcFits
<1>9. CASE RecalcReads \/ NextPeriod
  BY <1>9, QuietFits DEF RecalcReads, NextPeriod
<1>10. CASE \/ \E p \in Rates : Reprice(p)
            \/ \E a \in Accounts : Undeploy(a) \/ DeleteAccount(a)
  BY <1>10, QuietFits DEF Reprice, Undeploy, DeleteAccount
<1> QED
  BY <1>1, <1>2, <1>3, <1>4, <1>5, <1>6, <1>7, <1>8, <1>9, <1>10, Zenon
     DEF Next

(* The bonus is never overdrawn, for any number of calls, prices, grants   *)
(* and periods: who prices a row holds the company's lock until it is      *)
(* written, and a placeholder of an earlier period takes nothing.          *)
THEOREM BonusIsWithinGrant == Spec => []BonusWithinGrant
<1>1. IInv /\ Roomy => BonusWithinGrant
  <2> SUFFICES ASSUME IInv, Roomy, NEW p \in 0..count["period"]
               PROVE  BonusOf(p) <= Grant
    BY DEF BonusWithinGrant
  <2>1. p \in Nat
    OBVIOUS
  <2> QED
    BY <2>1 DEF Roomy
<1> QED
  BY <1>1, InitRoomy, NextRoomy, SpecIInv, PTL DEF Spec

-----------------------------------------------------------------------------
(* The refinement: an insert enters a charge or a placeholder, a fill      *)
(* settles a placeholder or writes no row, an owner's write amends.        *)

Amounts(c) == [i \in DOMAIN rows[c] |-> rows[c][i].amount]
Held == {c \in Calls : \E i \in DOMAIN rows[c] : Placeholder(rows[c][i])}
Amends == {c \in Calls : \E i \in DOMAIN rows[c] : rows[c][i].adjusted # "no"}

\* A call with a row has one amount.
LEMMA OneAmount ==
    ASSUME NEW s \in Seq(Row), DOMAIN s = {1}, Len(s) = 1
    PROVE  LET b == [i \in DOMAIN s |-> s[i].amount]
           IN b \in Seq(Nat) /\ Len(b) = 1
<1> DEFINE b == [i \in DOMAIN s |-> s[i].amount]
<1>1. s[1] \in Row
  BY AtMostOne
<1>2. b = [i \in DOMAIN s |-> b[i]] /\ \A i \in DOMAIN s : b[i] \in Nat
  BY <1>1, RowFacts
<1> HIDE DEF b
<1>3. b \in Seq(Nat) /\ Len(b) = Len(s)
  BY <1>2, Mapped
<1> QED BY <1>3 DEF b

\* What a step has to show about the amounts.
LEMMA BillsFacts ==
    ASSUME NEW cs \in SUBSET Calls,
           \A c \in Calls : c \notin cs => Amounts(c)' = Amounts(c),
           \A c \in cs : /\ rows'[c] \in Seq(Row)
                         /\ DOMAIN rows'[c] = {1} /\ Len(rows'[c]) = 1
    PROVE  Ledger!Bills(cs)
<1>1. \A c \in cs : Amounts(c)' \in Seq(Nat) /\ Len(Amounts(c)') = 1
  BY OneAmount DEF Amounts
<1> QED BY <1>1 DEF Ledger!Bills, Amounts

LEMMA LedgerInit == Init => Ledger!Init
<1> SUFFICES ASSUME Init PROVE Ledger!Init
  OBVIOUS
<1>1. \A c \in Calls : rows[c] = <<>> /\ DOMAIN rows[c] = {}
  BY DEF Init
<1>2. \A c \in Calls : [i \in DOMAIN rows[c] |-> rows[c][i].amount] = <<>>
  BY <1>1
<1> QED BY <1>1, <1>2 DEF Ledger!Init

LEMMA LedgerStill ==
    ASSUME UNCHANGED rows
    PROVE  UNCHANGED Ledger!vars
  BY DEF Ledger!vars, Placeholder

LEMMA InsertEnters ==
    ASSUME IInv, NEW c \in Calls, NEW k \in Kinds, Insert(c, k)
    PROVE  Ledger!Enter(c)
<1> PICK r \in Row : r = tx[c][k].row
  BY DEF Insert, IInv, TypeOK, Tx
<1>1. rows[c] = <<>> /\ r.adjusted = "no"
  BY DEF Insert, IInv, TxOk
<1>2. rows \in [Calls -> Seq(Row)]
      /\ rows' = [rows EXCEPT ![c] = Append(<<>>, r)]
  BY <1>1 DEF Insert, IInv, TypeOK
<1>3. /\ rows'[c] \in Seq(Row) /\ Len(rows'[c]) = 1
      /\ DOMAIN rows'[c] = {1} /\ rows'[c][1] = r
      /\ \A d \in Calls : d # c => rows'[d] = rows[d]
  <2>1. LET q == Append(<<>>, r)
        IN q \in Seq(Row) /\ Len(q) = 1 /\ DOMAIN q = {1} /\ q[1] = r
    BY Appended
  <2>2. rows'[c] = Append(<<>>, r)
    BY <1>2
  <2> QED BY <1>2, <2>1, <2>2
<1>4. DOMAIN rows[c] = {}
  BY <1>1
<1>5. Ledger!Bills({c})
  BY <1>3, BillsFacts DEF Amounts
<1>6. Held' \in {Held, Held \cup {c}}
  BY <1>3, <1>4 DEF Held, Placeholder
<1>7. Amends' = Amends
  BY <1>1, <1>3, <1>4 DEF Amends
<1>8. [i \in DOMAIN rows[c] |-> rows[c][i].amount] = <<>>
  BY <1>4
<1> QED BY <1>5, <1>6, <1>7, <1>8 DEF Ledger!Enter, Held, Amends

LEMMA FillSettles ==
    ASSUME IInv, NEW c \in Calls, NEW k \in Kinds, Fill(c, k)
    PROVE  Ledger!Settle(c) \/ UNCHANGED rows
<1> PICK r \in Row : r = tx[c][k].row
  BY DEF Fill, IInv, TypeOK, Tx
<1>1. rows[c] # <<>> /\ r.tokens = out[c].tokens /\ Says(c) /\ CallOk(c)
  BY DEF Fill, IInv, TxOk
<1>2. rows \in [Calls -> Seq(Row)]
  BY DEF IInv, TypeOK
<1>3. DOMAIN rows[c] = {1} /\ rows[c][1] \in Row /\ Len(rows[c]) = 1
  BY <1>1, <1>2, AtMostOne DEF CallOk
<1> DEFINE s == [i \in DOMAIN rows[c] |->
        IF i \in Fillable(c) /\ \A j \in Fillable(c) : i <= j
        THEN Filled(rows[c][i], r) ELSE rows[c][i]]
<1>4. rows' = [rows EXCEPT ![c] = s]
  BY DEF Fill
<1>5. CASE Placeholder(rows[c][1])
  <2>1. Fillable(c) = {1}
    BY <1>3, <1>5 DEF Fillable
  <2>2. s[1] = Filled(rows[c][1], r)
    BY <1>3, <2>1
  <2>3. s[1] \in Row /\ s[1].tokens > 0 /\ s[1].adjusted = rows[c][1].adjusted
    BY <1>1, <1>3, <2>2, FilledFacts DEF Says
  <2>4. s \in Seq(Row) /\ Len(s) = 1 /\ DOMAIN s = {1}
    <3>1. s = [i \in DOMAIN rows[c] |-> s[i]] /\ DOMAIN s = {1}
      BY <1>3
    <3>2. \A i \in DOMAIN rows[c] : s[i] \in Row
      BY <1>3, <2>3
    <3> HIDE DEF s
    <3> QED BY <1>2, <1>3, <3>1, <3>2, Rewritten
  <2> HIDE DEF s
  <2>5. rows'[c] = s /\ \A d \in Calls : d # c => rows'[d] = rows[d]
    BY <1>2, <1>4
  <2>6. Ledger!Bills({c})
    BY <2>4, <2>5, BillsFacts DEF Amounts
  <2>7. c \in Held /\ Held' = Held \ {c}
    BY <1>3, <1>5, <2>3, <2>4, <2>5 DEF Held, Placeholder
  <2>8. Amends' = Amends
    BY <1>3, <2>3, <2>4, <2>5 DEF Amends
  <2> QED BY <2>6, <2>7, <2>8 DEF Ledger!Settle, Held, Amends
<1>6. CASE ~Placeholder(rows[c][1])
  <2>1. Fillable(c) = {}
    BY <1>3, <1>6 DEF Fillable
  <2>2. s = rows[c]
    BY <1>2, <2>1
  <2> QED BY <1>2, <1>4, <2>2
<1> QED BY <1>5, <1>6

\* What a step has to show that rewrites one row of each call of cs.
LEMMA AmendFacts ==
    ASSUME NEW cs \in SUBSET Calls, rows \in [Calls -> Seq(Row)],
           rows' \in [Calls -> Seq(Row)],
           \A d \in Calls : /\ Len(rows[d]) <= 1
                            /\ Len(rows'[d]) = Len(rows[d])
                            /\ DOMAIN rows'[d] = DOMAIN rows[d]
                            /\ d \notin cs => rows'[d] = rows[d],
           \A d \in cs : /\ DOMAIN rows[d] = {1}
                         /\ rows'[d][1].adjusted # "no"
                         /\ Placeholder(rows'[d][1]) => Placeholder(rows[d][1])
    PROVE  Ledger!Amend(cs)
<1>1. \A d \in cs : /\ rows'[d] \in Seq(Row) /\ DOMAIN rows'[d] = {1}
                    /\ Len(rows'[d]) = 1
  BY AtMostOne
<1>2. Ledger!Bills(cs)
  BY <1>1, BillsFacts DEF Amounts
<1>3. Held' \subseteq Held /\ Held \ Held' \subseteq cs
  BY <1>1 DEF Held, Placeholder
<1>4. Amends' = Amends \cup cs
  BY <1>1 DEF Amends
<1>5. \A d \in cs : [i \in DOMAIN rows[d] |-> rows[d][i].amount] # <<>>
  <2> TAKE d \in cs
  <2>1. DOMAIN [i \in DOMAIN rows[d] |-> rows[d][i].amount] = {1}
    OBVIOUS
  <2>2. DOMAIN <<>> = {}
    OBVIOUS
  <2> QED BY <2>1, <2>2
<1>6. \A d \in cs : [c \in Calls |-> [i \in DOMAIN rows[c] |->
                       rows[c][i].amount]][d] # <<>>
  BY <1>5
<1> QED BY <1>2, <1>3, <1>4, <1>6 DEF Ledger!Amend, Held, Amends

LEMMA EditAmends ==
    ASSUME IInv, EditWrites
    PROVE  \E cs \in SUBSET Calls : Ledger!Amend(cs)
<1>1. PICK e \in edit :
        rows' = [rows EXCEPT ![e.call][e.i] =
                    Amended(@, e.amount, e.unpriced, "hand")]
  BY DEF EditWrites
<1>2. /\ e.call \in Calls /\ e.i \in DOMAIN rows[e.call] /\ e.amount \in Nat
      /\ e.unpriced \in BOOLEAN
      /\ e.unpriced => e.amount = 0
      /\ e.unpriced /\ rows[e.call][e.i].tokens = 0
           => rows[e.call][e.i].unpriced
  BY DEF IInv, TypeOK, OwnerOk
<1> PICK c \in Calls : c = e.call
  BY <1>2
<1>3. rows \in [Calls -> Seq(Row)] /\ \A d \in Calls : Len(rows[d]) <= 1
  BY DEF IInv, TypeOK, CallOk
<1>4. DOMAIN rows[c] = {1} /\ e.i = 1
  BY <1>2, <1>3, AtMostOne
<1>5. PICK r \in Row : r = rows[c][1]
  BY <1>3, <1>4, AtMostOne
<1> DEFINE new == Amended(r, e.amount, e.unpriced, "hand")
<1>6. RowOk(c, r)
  BY <1>4, <1>5 DEF IInv, CallOk
<1>7. new \in Row /\ new.amount = e.amount /\ new.unpriced = e.unpriced
      /\ new.tokens = r.tokens /\ new.status = r.status
      /\ new.adjusted = "hand"
  <2>1. e.amount \in Nat /\ e.unpriced \in BOOLEAN
    BY <1>2
  <2> QED BY <2>1, AmendedFacts
<1>8. rows' = [rows EXCEPT ![c] = [rows[c] EXCEPT ![1] = new]]
  BY <1>1, <1>4, <1>5
<1> HIDE DEF new
<1>9. /\ rows' \in [Calls -> Seq(Row)] /\ rows'[c][1] = new
      /\ \A d \in Calls : /\ Len(rows'[d]) = Len(rows[d])
                          /\ DOMAIN rows'[d] = DOMAIN rows[d]
                          /\ d # c => rows'[d] = rows[d]
  BY <1>3, <1>4, <1>7, <1>8
<1>10. Placeholder(new) => Placeholder(r)
  BY <1>2, <1>4, <1>5, <1>6, <1>7, RowFacts DEF Placeholder, RowOk
<1>11. Ledger!Amend({c})
  BY <1>3, <1>4, <1>5, <1>7, <1>9, <1>10, AmendFacts
<1> QED BY <1>11

LEMMA RecalcAmends ==
    ASSUME IInv, RecalcWrites
    PROVE  \E cs \in SUBSET Calls : Ledger!Amend(cs)
<1> DEFINE new(d, i) == {x \in recalc : x.call = d /\ x.i = i}
           row(d, i) == IF new(d, i) = {} THEN rows[d][i]
                        ELSE Amended(rows[d][i],
                               (CHOOSE x \in new(d, i) : TRUE).amount,
                               FALSE, "recalc")
<1> PICK touched \in SUBSET Calls : touched = {d \in Calls : new(d, 1) # {}}
  OBVIOUS
<1>1. rows' = [d \in Calls |-> [i \in DOMAIN rows[d] |-> row(d, i)]]
  BY DEF RecalcWrites
<1>2. rows \in [Calls -> Seq(Row)] /\ \A d \in Calls : Len(rows[d]) <= 1
  BY DEF IInv, TypeOK, CallOk
<1>3. ASSUME NEW d \in Calls, NEW i \in DOMAIN rows[d]
      PROVE  i = 1 /\ rows[d][i] \in Row
  BY <1>2, AtMostOne
<1>4. ASSUME NEW d \in touched
      PROVE  /\ DOMAIN rows[d] = {1} /\ row(d, 1) \in Row
             /\ row(d, 1).adjusted = "recalc" /\ ~row(d, 1).unpriced
  <2>1. PICK x \in recalc : x \in new(d, 1) /\ x = CHOOSE y \in new(d, 1) : TRUE
    OBVIOUS
  <2>2. x.amount \in Nat /\ 1 \in DOMAIN rows[d]
    BY <2>1 DEF IInv, TypeOK, OwnerOk
  <2> DEFINE r == Amended(rows[d][1], x.amount, FALSE, "recalc")
  <2>3. row(d, 1) = r
    BY <2>1
  <2>4. r \in Row /\ r.adjusted = "recalc" /\ r.unpriced = FALSE
    BY <1>3, <2>2, AmendedFacts
  <2>5. DOMAIN rows[d] = {1}
    BY <1>2, <2>2, AtMostOne
  <2> HIDE DEF r, row
  <2> QED BY <2>3, <2>4, <2>5
<1>5. ASSUME NEW d \in Calls
      PROVE  /\ rows'[d] \in Seq(Row) /\ Len(rows'[d]) = Len(rows[d])
             /\ DOMAIN rows'[d] = DOMAIN rows[d]
             /\ \A i \in DOMAIN rows[d] : rows'[d][i] = row(d, i)
             /\ d \notin touched => rows'[d] = rows[d]
  <2>1. rows'[d] = [i \in DOMAIN rows[d] |-> row(d, i)]
    BY <1>1
  <2>2. ASSUME NEW i \in DOMAIN rows[d] PROVE i = 1 /\ row(d, i) \in Row
    <3>1. i = 1 /\ rows[d][i] \in Row
      BY <1>3
    <3>2. CASE d \in touched
      <4> HIDE DEF row
      <4> QED BY <3>1, <3>2, <1>4
    <3>3. CASE d \notin touched
      BY <3>1, <3>3
    <3> QED BY <3>2, <3>3
  <2>3. d \notin touched => \A i \in DOMAIN rows[d] : row(d, i) = rows[d][i]
    BY <1>3
  <2>4. rows[d] \in Seq(Row)
    BY <1>2
  <2> HIDE DEF row
  <2>5. rows'[d] = [i \in DOMAIN rows[d] |-> rows'[d][i]]
    BY <2>1
  <2>6. \A i \in DOMAIN rows[d] : rows'[d][i] = row(d, i) /\ rows'[d][i] \in Row
    BY <2>1, <2>2
  <2>7. rows'[d] \in Seq(Row) /\ Len(rows'[d]) = Len(rows[d])
        /\ DOMAIN rows'[d] = DOMAIN rows[d]
    BY <2>4, <2>5, <2>6, Rewritten
  <2>8. d \notin touched => rows'[d] = rows[d]
    BY <2>1, <2>3, <2>4
  <2> QED BY <2>6, <2>7, <2>8
<1> HIDE DEF row
<1>6. rows' \in [Calls -> Seq(Row)]
  BY <1>1, <1>5
<1>8. Ledger!Amend(touched)
  <2>1. ASSUME NEW d \in touched
        PROVE  /\ DOMAIN rows[d] = {1}
               /\ rows'[d][1].adjusted # "no"
               /\ ~Placeholder(rows'[d][1])
    <3>1. rows'[d][1] = row(d, 1)
      BY <1>4, <1>5
    <3> QED BY <3>1, <1>4 DEF Placeholder
  <2> QED BY <2>1, <1>2, <1>5, <1>6, AmendFacts
<1> QED BY <1>8

(* The settlement, its retries, sweeps, crashes and the owner's            *)
(* amendments implement the ledger's promise: one charge per call, a       *)
(* placeholder settled at most once, amounts changed by amendment only.    *)
THEOREM SettlesAsLedger == Spec => ChargedOnce
<1>1. IInv /\ [Next]_vars => Ledger!Next \/ UNCHANGED rows
  <2> SUFFICES ASSUME IInv, [Next]_vars PROVE Ledger!Next \/ UNCHANGED rows
    OBVIOUS
  <2>1. CASE UNCHANGED vars
    BY <2>1 DEF vars
  <2>2. ASSUME NEW c \in Calls, NEW k \in Kinds, Insert(c, k)
        PROVE  Ledger!Next
    BY <2>2, InsertEnters DEF Ledger!Next
  <2>3. ASSUME NEW c \in Calls, NEW k \in Kinds, Fill(c, k)
        PROVE  Ledger!Next \/ UNCHANGED rows
    BY <2>3, FillSettles DEF Ledger!Next
  <2>4. ASSUME EditWrites \/ RecalcWrites PROVE Ledger!Next
    BY <2>4, EditAmends, RecalcAmends DEF Ledger!Next
  <2>5. \A c \in Calls, k \in Kinds :
          Check(c, k) \/ Price(c, k) \/ Dies(c, k) => UNCHANGED rows
    BY ZenonT(30) DEF Check, Price, Dies
  <2>6. ASSUME NEW c \in Calls,
               \/ \E a \in seated \cap MayCall[c] : GrantCall(c, a)
               \/ ManagerDies(c) \/ Repeat(c) \/ SweepReads(c)
               \/ \E o \in Outcomes : Report(c, o)
               \/ \E i \in DOMAIN rows[c], n \in Sums : EditReads(c, i, n)
        PROVE  UNCHANGED rows
    <3>1. CASE \E a \in seated \cap MayCall[c] : GrantCall(c, a)
      BY <3>1 DEF GrantCall
    <3>2. CASE ManagerDies(c) \/ Repeat(c) \/ SweepReads(c)
      BY <3>2 DEF ManagerDies, Repeat, SweepReads
    <3>3. CASE \E o \in Outcomes : Report(c, o)
      BY <3>3 DEF Report
    <3>4. CASE \E i \in DOMAIN rows[c], n \in Sums : EditReads(c, i, n)
      BY <3>4 DEF EditReads
    <3> QED BY <3>1, <3>2, <3>3, <3>4, <2>6
  <2>7. ASSUME NEW c \in Calls, NEW k \in Kinds,
               \/ Check(c, k) \/ Price(c, k) \/ Insert(c, k)
               \/ Fill(c, k) \/ Dies(c, k)
        PROVE  Ledger!Next \/ UNCHANGED rows
    BY <2>2, <2>3, <2>5, <2>7
  <2>8. CASE \/ RecalcReads \/ NextPeriod
             \/ \E p \in Rates : Reprice(p)
             \/ \E a \in Accounts : Undeploy(a) \/ DeleteAccount(a)
    BY <2>8 DEF RecalcReads, NextPeriod, Reprice, Undeploy, DeleteAccount
  <2> QED BY <2>1, <2>2, <2>3, <2>4, <2>5, <2>6, <2>7, <2>8, Zenon DEF Next
<1>2. IInv /\ [Next]_vars => [Ledger!Next]_Ledger!vars
  BY <1>1, LedgerStill
<1> QED BY <1>2, LedgerInit, SpecIInv, PTL DEF Spec, ChargedOnce, Ledger!Spec
=============================================================================
