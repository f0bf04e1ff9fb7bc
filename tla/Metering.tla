------------------------------- MODULE Metering -------------------------------
(***************************************************************************)
(* Settlement of relayed model calls.  The Gateway grants a call (POST     *)
(* /worker/llm/grant) and logs it; the Manager runs it and reports how it  *)
(* ended, twice if the first report seems lost (manager/src/llm-relay.ts); *)
(* the Gateway settles a report, or sweeps a call nobody reported, each in *)
(* a transaction under the call's settle lock; owners change amounts.      *)
(*                                                                         *)
(* A transaction tx[c][k] is in the stage `at`: its check for a row, the   *)
(* pricing of what it will write and the write with its commit are steps   *)
(* of their own, since only the locks keep them together.  Prices are per  *)
(* token and all calls are of one company: the ledger lock is the          *)
(* company's, and companies share nothing else.                            *)
(***************************************************************************)
EXTENDS Integers, Sequences, FiniteSets, FiniteSetsExt

CONSTANTS
    N,          \* bound: how many calls are ever granted
    Accounts,   \* who makes calls
    NoAccount,
    MayCall,    \* bound: who may make which call
    Outcomes,   \* how calls end; see Outcome
    Rates,      \* the prices of a token; 0 is no price at all
    FirstRate,  \* the price when the calls begin
    Grant,      \* the plan's bonus per period
    Limit,      \* how many calls a sweep reads
    Sums,       \* the amounts an owner may set by hand
    Bound,      \* bound: how often each kind of event comes
    MaxEvents   \* bound: how many events come in all

Calls == 1..N
Kinds == {"first", "retry", "sweep"}
Reports == {"first", "retry"}
Events == {"repeat", "fault", "undeploy", "delete",
           "period", "rate", "edit", "recalc"}

(* What the Manager reports: the tokens if upstream said them, and whether *)
(* upstream answered 2xx, without which no tokens were spent.              *)
Outcome == [said : BOOLEAN, tokens : Nat, status : {"ok", "failed", "error"},
            started : BOOLEAN]
(* No row takes more from the bonus than its amount.                       *)
Row == {r \in [status : {"ok", "failed", "error"}, amount : Nat, bonus : Nat,
               unpriced : BOOLEAN, tokens : Nat, estimated : BOOLEAN,
               period : Nat, adjusted : {"no", "hand", "recalc"}] :
          r.bonus <= r.amount}

ASSUME CallsAssumption ==
    /\ N \in Nat \ {0}
    /\ NoAccount \notin Accounts
    /\ MayCall \in [Calls -> SUBSET Accounts]
    /\ Outcomes \subseteq Outcome
    /\ \A o \in Outcomes : ~o.said => o.tokens = 0

ASSUME MoneyAssumption ==
    /\ Rates \subseteq Nat /\ FirstRate \in Rates
    /\ Grant \in Nat /\ Limit \in Nat
    /\ Sums \subseteq Nat /\ Bound \in [Events -> Nat]
    /\ MaxEvents \in Nat

VARIABLES
    call,    \* per call, the Manager's part in it
    by,      \* per call, the account that makes it
    out,     \* per call, what the Manager reports
    tx,      \* the requests and the transactions that settle a call
    rows,    \* the rows of usage_charges per call, in the order they came
    logged,  \* per call, the tokens on its row of llm_calls
    alive,   \* the accounts that exist
    seated,  \* the accounts with a seat on the Manager's machine
    rate,    \* the price of a token now
    edit,    \* the amount an owner is about to set
    recalc,  \* the amounts a recalculation is about to set
    count    \* how often each kind of event came; "period" is the clock

calls == <<call, by, out>>
accounts == <<alive, seated>>
owner == <<rate, edit, recalc>>
vars == <<calls, tx, rows, logged, accounts, owner, count>>

-----------------------------------------------------------------------------
NoOutcome == [said |-> FALSE, tokens |-> 0, status |-> "failed",
              started |-> FALSE]
NoRow == [status |-> "failed", amount |-> 0, bonus |-> 0, unpriced |-> TRUE,
          tokens |-> 0, estimated |-> FALSE, period |-> 0, adjusted |-> "no"]
Stages == {"idle", "read", "insert", "fill", "inserting", "filling", "done",
           "refused", "dead"}
Tx == [at : Stages, known : BOOLEAN, row : Row]
Unused == [at |-> "idle", known |-> FALSE, row |-> NoRow]
Idle == {}

Happens(e) == /\ count[e] < Bound[e]
              /\ MapThenSumSet(LAMBDA f : count[f], Events) < MaxEvents
              /\ count' = [count EXCEPT ![e] = @ + 1]

FillWrongStatus(r) == /\ r.status = "error" /\ r.unpriced
                      /\ r.amount = 0 /\ r.bonus = 0 /\ r.tokens = 0
Placeholder(r) == /\ r.status = "failed" /\ r.unpriced
                  /\ r.amount = 0 /\ r.bonus = 0 /\ r.tokens = 0

FillByRef(c) == DOMAIN rows[c]
Fillable(c) == {i \in DOMAIN rows[c] : Placeholder(rows[c][i])}

(* The units of the bonus that the rows of a period took.                  *)
Taken(p) == UNION {UNION {
    {<<c, i, n>> : n \in 1..rows[c][i].bonus} :
        i \in {j \in DOMAIN rows[c] : rows[c][j].period = p}} : c \in Calls}
BonusOf(p) == Cardinality(Taken(p))

(* What is left of the bonus: the grant less what this period's rows took. *)
Bonus(amount) == Min({amount, Max({0, Grant - BonusOf(count["period"])})})

NoSettleLock(c, k) == TRUE
SettleLockFree(c, k) ==
    \A j \in Kinds \ {k} :
        tx[c][j].at \notin {"insert", "fill", "inserting", "filling"}
(* Only a transaction that takes money waits for the company's lock.       *)
LedgerFree == \A c \in Calls, k \in Kinds :
    tx[c][k].at \in {"inserting", "filling"} => tx[c][k].row.amount = 0

(* The call by which one without tokens is estimated, as a set of none or  *)
(* one: the account's last one that was settled and not itself estimated.  *)
Baseline(c) ==
    LET Settled == {d \in 1..(c - 1) :
            /\ by[d] = by[c] /\ logged[d] > 0
            /\ \E i \in DOMAIN rows[d] :
                 rows[d][i].status = "ok" /\ ~rows[d][i].estimated}
    IN {d \in Settled : \A e \in Settled : e <= d}

(* Calls without a row; what a sweep reads is the first Limit of them.     *)
Unsettled == {c \in Calls : call[c] # "none" /\ rows[c] = <<>>}
Due == {c \in Unsettled : Cardinality({d \in Unsettled : d < c}) < Limit}

-----------------------------------------------------------------------------
Init ==
    /\ call = [c \in Calls |-> "none"]
    /\ by = [c \in Calls |-> NoAccount]
    /\ out = [c \in Calls |-> NoOutcome]
    /\ count = [e \in Events |-> 0]
    /\ tx = [c \in Calls |-> [k \in Kinds |-> Unused]]
    /\ rows = [c \in Calls |-> <<>>]
    /\ logged = [c \in Calls |-> 0]
    /\ alive = Accounts
    /\ seated = Accounts
    /\ rate = FirstRate
    /\ edit = Idle
    /\ recalc = Idle

(* The Manager: a call is granted, ends, is reported and reported again.   *)
(* A report is seen where it arrives at the Gateway, which refuses it when *)
(* the seat has left the machine; one that is lost arrives and dies.       *)
(* The answer to the first may be late or lost whatever became of it,      *)
(* except a refusal, after which the Manager does not try again.           *)
GrantCall(c, a) ==
    /\ call[c] = "none" /\ \A d \in 1..(c - 1) : call[d] # "none"
    /\ call' = [call EXCEPT ![c] = "running"]
    /\ by' = [by EXCEPT ![c] = a]
    /\ UNCHANGED <<out, tx, rows, logged, accounts, owner, count>>

Moves(c, k, t) == tx' = [tx EXCEPT ![c][k] = t]
Arrives(c, k) ==
    Moves(c, k, [Unused EXCEPT !.at = IF by[c] \in seated \/ k = "sweep"
                                      THEN "read" ELSE "refused"])
Ends(c, k, how) == Moves(c, k, [tx[c][k] EXCEPT !.at = how, !.row = NoRow])

Report(c, o) ==
    /\ call[c] = "running"
    /\ call' = [call EXCEPT ![c] = "over"]
    /\ out' = [out EXCEPT ![c] = o]
    /\ Arrives(c, "first")
    /\ UNCHANGED <<by, rows, logged, accounts, owner, count>>

ManagerDies(c) ==
    /\ call[c] = "running" /\ Happens("fault")
    /\ call' = [call EXCEPT ![c] = "over"]
    /\ UNCHANGED <<by, out, tx, rows, logged, accounts, owner>>

Repeat(c) ==
    /\ tx[c]["first"].at \notin {"idle", "refused"}
    /\ tx[c]["retry"].at = "idle" /\ Happens("repeat")
    /\ Arrives(c, "retry")
    /\ UNCHANGED <<calls, rows, logged, accounts, owner>>

(* The sweep reads what is due, and skips the calls of deleted accounts.   *)
SweepsOnce(c) ==
    /\ c \in Due /\ by[c] \in alive
    /\ tx[c]["sweep"].at = "idle"
    /\ Arrives(c, "sweep")
    /\ UNCHANGED <<calls, rows, logged, accounts, owner, count>>

SweepReads(c) ==
    /\ c \in Due /\ by[c] \in alive
    /\ tx[c]["sweep"].at \in {"idle", "dead"}
    /\ Arrives(c, "sweep")
    /\ UNCHANGED <<calls, rows, logged, accounts, owner, count>>

(* Under the settle lock: is there a row?  If there is, a sweep is done,   *)
(* and a report that says tokens tries to fill it or corrects the log.     *)
(* The account was there when the request came, and was read since; the    *)
(* sweep holds the one it read.                                            *)
Check(c, k) ==
    /\ tx[c][k].at = "read" /\ SettleLockFree(c, k)
    /\ \E known \in {TRUE, k = "sweep" \/ by[c] \in alive} :
         LET there == rows[c] # <<>>
             says == k \in Reports /\ out[c].said
             fills == there /\ says /\ out[c].tokens > 0 /\ known
             goes == CASE fills -> "fill"
                       [] there /\ ~fills -> "done"
                       [] ~there /\ known -> "insert"
                       [] ~there /\ ~known -> "refused"
         IN /\ Moves(c, k, [tx[c][k] EXCEPT !.at = goes, !.known = known])
            /\ logged' = IF there /\ says /\ ~fills
                         THEN [logged EXCEPT ![c] = out[c].tokens] ELSE logged
    /\ UNCHANGED <<calls, rows, accounts, owner, count>>

(* The row for these tokens at today's price; a sweep says nothing of them *)
(* and never estimates.  A row with an amount takes the ledger lock.       *)
Quoted(c, k, tokens, said, bonus) ==
    LET status == IF k = "sweep" THEN "failed" ELSE out[c].status
    IN [NoRow EXCEPT
          !.status = status, !.period = count["period"],
          !.amount = rate * tokens, !.bonus = bonus, !.tokens = tokens,
          !.unpriced = rate = 0 \/ (~said /\ tokens = 0),
          !.estimated = ~said /\ tokens > 0]

Price(c, k) ==
    /\ tx[c][k].at \in {"insert", "fill"}
    /\ LET said == k \in Reports /\ out[c].said
           guesses == IF k \in Reports /\ ~said /\ out[c].started
                      THEN {0} \cup {logged[d] : d \in Baseline(c)} ELSE {0}
       IN \E tokens \in IF said THEN {out[c].tokens} ELSE guesses :
          \E bonus \in 0..(rate * tokens) :
            LET r == Quoted(c, k, tokens, said, bonus)
            IN /\ bonus = Bonus(r.amount)
               /\ r.amount > 0 => LedgerFree
               /\ Moves(c, k, [tx[c][k] EXCEPT !.row = r,
                    !.at = IF @ = "insert" THEN "inserting" ELSE "filling"])
    /\ UNCHANGED <<calls, rows, logged, accounts, owner, count>>

(* What a placeholder becomes: it keeps its time, and one of an earlier    *)
(* period takes nothing from the bonus.                                    *)
FillAnyPeriod(old, r) ==
    [old EXCEPT !.status = r.status, !.amount = r.amount, !.bonus = r.bonus,
                !.unpriced = r.unpriced, !.tokens = r.tokens]
Filled(old, r) ==
    [old EXCEPT !.status = r.status, !.amount = r.amount,
                !.bonus = IF old.period = r.period THEN r.bonus ELSE 0,
                !.unpriced = r.unpriced, !.tokens = r.tokens]

Insert(c, k) ==
    /\ tx[c][k].at = "inserting"
    /\ rows' = [rows EXCEPT ![c] = Append(@, tx[c][k].row)]
    /\ logged' = IF k \in Reports /\ (out[c].said \/ tx[c][k].row.tokens > 0)
                 THEN [logged EXCEPT ![c] = tx[c][k].row.tokens] ELSE logged
    /\ Ends(c, k, "done")
    /\ UNCHANGED <<calls, accounts, owner, count>>

(* If no row has the placeholder's shape any more, only the log is set.    *)
Fill(c, k) ==
    /\ tx[c][k].at = "filling"
    /\ rows' = [rows EXCEPT ![c] = [i \in DOMAIN @ |->
            IF i \in Fillable(c) /\ \A j \in Fillable(c) : i <= j
            THEN Filled(@[i], tx[c][k].row) ELSE @[i]]]
    /\ logged' = [logged EXCEPT ![c] = out[c].tokens]
    /\ Ends(c, k, "done")
    /\ UNCHANGED <<calls, accounts, owner, count>>

(* A request is lost, or the process dies: its transaction rolls back.     *)
Dies(c, k) ==
    /\ tx[c][k].at \notin {"idle", "done", "refused", "dead"}
    /\ Happens("fault")
    /\ Ends(c, k, "dead")
    /\ UNCHANGED <<calls, rows, logged, accounts, owner>>

-----------------------------------------------------------------------------
(* The owner.  Both ways to change amounts read the rows first, and write  *)
(* them in a transaction under the ledger lock; bonus only ever shrinks.   *)
AmendAmountOnly(r, amount, unpriced, how) ==
    [r EXCEPT !.amount = amount, !.unpriced = unpriced, !.adjusted = how]
Amended(r, amount, unpriced, how) ==
    [r EXCEPT !.amount = amount, !.bonus = Min({@, amount}),
              !.unpriced = unpriced, !.adjusted = how]

EditReads(c, i, amount) ==
    /\ edit = Idle /\ Happens("edit")
    /\ edit' = {[call |-> c, i |-> i, amount |-> amount,
                 unpriced |-> amount = 0 /\ rows[c][i].unpriced]}
    /\ UNCHANGED <<calls, tx, rows, logged, accounts, rate, recalc>>

EditWrites ==
    /\ LedgerFree
    /\ \E e \in edit :
         rows' = [rows EXCEPT ![e.call][e.i] =
                    Amended(@, e.amount, e.unpriced, "hand")]
    /\ edit' = Idle
    /\ UNCHANGED <<calls, tx, logged, accounts, rate, recalc, count>>

Stale(r) == r.adjusted # "hand" /\ rate > 0 /\ r.amount # rate * r.tokens

RecalcReads ==
    /\ recalc = Idle /\ Happens("recalc")
    /\ recalc' = UNION {
         {[call |-> c, i |-> i, amount |-> rate * rows[c][i].tokens] :
            i \in {j \in DOMAIN rows[c] : Stale(rows[c][j])}} : c \in Calls}
    /\ UNCHANGED <<calls, tx, rows, logged, accounts, rate, edit>>

RecalcWrites ==
    /\ recalc # Idle /\ LedgerFree
    /\ rows' = [c \in Calls |-> [i \in DOMAIN rows[c] |->
         LET new == {x \in recalc : x.call = c /\ x.i = i}
         IN IF new = {} THEN rows[c][i]
            ELSE Amended(rows[c][i], (CHOOSE x \in new : TRUE).amount,
                         FALSE, "recalc")]]
    /\ recalc' = Idle
    /\ UNCHANGED <<calls, tx, logged, accounts, rate, edit, count>>

Reprice(p) ==
    /\ p # rate /\ Happens("rate")
    /\ rate' = p
    /\ UNCHANGED <<calls, tx, rows, logged, accounts, edit, recalc>>

NextPeriod ==
    /\ Happens("period")
    /\ UNCHANGED <<calls, tx, rows, logged, accounts, owner>>

Undeploy(a) ==
    /\ a \in seated /\ Happens("undeploy")
    /\ seated' = seated \ {a}
    /\ UNCHANGED <<calls, tx, rows, logged, alive, owner>>

DeleteAccount(a) ==
    /\ a \in alive /\ Happens("delete")
    /\ alive' = alive \ {a} /\ seated' = seated \ {a}
    /\ UNCHANGED <<calls, tx, rows, logged, owner>>

Next ==
    \/ \E c \in Calls :
         \/ \E a \in seated \cap MayCall[c] : GrantCall(c, a)
         \/ ManagerDies(c) \/ Repeat(c) \/ SweepReads(c)
         \/ \E o \in Outcomes : Report(c, o)
         \/ \E k \in Kinds : \/ Check(c, k) \/ Price(c, k) \/ Insert(c, k)
                             \/ Fill(c, k) \/ Dies(c, k)
         \/ \E i \in DOMAIN rows[c], s \in Sums : EditReads(c, i, s)
    \/ EditWrites \/ RecalcReads \/ RecalcWrites \/ NextPeriod
    \/ \E p \in Rates : Reprice(p)
    \/ \E a \in Accounts : Undeploy(a) \/ DeleteAccount(a)

Spec == Init /\ [][Next]_vars

(* The Gateway's tick sweeps for ever, and a transaction that was begun    *)
(* goes on unless its process dies.                                        *)
FairSpec ==
    /\ Spec
    /\ \A c \in Calls : /\ WF_vars(SweepReads(c))
                        /\ \A k \in Kinds :
                             /\ WF_vars(Check(c, k)) /\ WF_vars(Price(c, k))
                             /\ WF_vars(Insert(c, k)) /\ WF_vars(Fill(c, k))

-----------------------------------------------------------------------------
(* The state is what the code can hold in it.                              *)
TypeOK ==
    /\ call \in [Calls -> {"none", "running", "over"}]
    /\ by \in [Calls -> Accounts \cup {NoAccount}]
    /\ out \in [Calls -> Outcomes \cup {NoOutcome}]
    /\ tx \in [Calls -> [Kinds -> Tx]]
    /\ rows \in [Calls -> Seq(Row)]
    /\ logged \in [Calls -> Nat]
    /\ alive \subseteq Accounts /\ seated \subseteq alive
    /\ rate \in Rates
    /\ edit \subseteq [call : Calls, i : Nat, amount : Nat, unpriced : BOOLEAN]
    /\ recalc \subseteq [call : Calls, i : Nat, amount : Nat]
    /\ count \in [Events -> Nat]

(* withSettleLock: however the two reports of a call and the sweep meet,   *)
(* the call has one row; the ledger is summed by refId, so two are two     *)
(* charges.                                                                *)
OneRow == \A c \in Calls : Len(rows[c]) <= 1

(* lockCompanyLedger and the cap in the SQL: the bonus that a period's rows*)
(* took never exceeds the grant, whoever settles, fills or amends at the   *)
(* same time, and whenever a new period begins.                            *)
BonusWithinGrant == \A p \in 0..count["period"] : BonusOf(p) <= Grant

(* fillSweptCharge: once a report that says tokens has been answered, the  *)
(* log has them, and so has the row, whether a sweep came first or not,    *)
(* unless an owner has set the row's amount or the account was gone.       *)
UsageKept ==
    \A c \in Calls, k \in Reports :
        tx[c][k].at = "done" /\ out[c].said /\ out[c].tokens > 0 =>
            /\ logged[c] = out[c].tokens
            /\ \A i \in DOMAIN rows[c] :
                 \/ rows[c][i].tokens = out[c].tokens
                 \/ rows[c][i].adjusted = "hand"
                 \/ ~tx[c][k].known

(* The settlement implements what the ledger promises: at most one charge  *)
(* per call, a placeholder turned into a charge at most once, and no other *)
(* change of an amount than an explicit amendment.                         *)
Ledger == INSTANCE CallLedger WITH
    bill <- [c \in Calls |-> [i \in DOMAIN rows[c] |-> rows[c][i].amount]],
    held <- {c \in Calls :
                 \E i \in DOMAIN rows[c] : Placeholder(rows[c][i])},
    amended <- {c \in Calls : \E i \in DOMAIN rows[c] :
                    rows[c][i].adjusted # "no"}
ChargedOnce == Ledger!Spec

(* sweepUnsettledLlmCalls: a granted call gets a row at last, whether its  *)
(* Manager lives or not, unless its account is deleted, or the calls of    *)
(* deleted accounts without a row, which the sweep reads first and skips,  *)
(* fill the Limit of the query.                                            *)
Stranded == {c \in Unsettled : by[c] \notin alive}
EveryCallEntered ==
    \A c \in Calls :
        call[c] # "none" ~> \/ rows[c] # <<>>
                           \/ by[c] \notin alive
                           \/ Cardinality(Stranded) >= Limit

(* routes/charges.ts: the amount an owner has set by hand changes only by  *)
(* hand again, whatever is recalculated or settled meanwhile.              *)
HandPriceStands ==
    [][\A c \in Calls : \A i \in DOMAIN rows[c] :
         /\ rows[c][i].adjusted = "hand"
         /\ rows[c][i].amount # rows'[c][i].amount
         => EditWrites]_vars
=============================================================================
