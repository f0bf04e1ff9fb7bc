---------------------------- MODULE HandoffsProofs ----------------------------
(***************************************************************************)
(* Theorems about Handoffs, for every set of sweepers, every choice of     *)
(* disturbances and every bound.                                           *)
(*                                                                         *)
(* The seat's side is reduced to one fact: the log grows by states that    *)
(* its last one allows (LogGrows).  From it follows that nothing comes     *)
(* after an end, and only an end after a return.  The Gateway's side needs *)
(* what its sweeps know while they are at work (Known), and why no version *)
(* a late report may carry is stamped after the row's end and no end       *)
(* itself (EndsLast).                                                      *)
(***************************************************************************)
EXTENDS Handoffs, TLAPS

(***************************************************************************)
(* The inductive invariant.                                                *)
(***************************************************************************)
(* The stages in which a sweep has the step at 2.                          *)
Holding == {"calling", "done", "gone", "away"}

(* The Gateway has heard of a slip only when there is one.                 *)
Heard ==
    /\ row.state # "none" => Opened
    /\ \A s \in Sweepers : sweep[s].at # "idle" => Opened

(* A sweep that was told the slip is over was told the truth.              *)
Known == \A s \in Sweepers : sweep[s].at \in {"done", "gone"} => ~In(Waiting)

(* Whatever is stamped as late as the row's end is an end.                 *)
EndsLast ==
    row.state \in Ended =>
       \A v \in DOMAIN log : 2 * v >= row.at => log[v] \in Ended

(* One sweep at a time holds the step.                                     *)
OneHolds ==
    \A s \in Sweepers : sweep[s].at \in Holding =>
       /\ row.step = 2
       /\ \A t \in Sweepers : sweep[t].at \in Holding => s = t

(* A reminder leaves its trace, in the row or with the sweep that holds.   *)
Traced ==
    nudges # 0 => /\ nudges = 1 /\ row.step # 0
                  /\ \A s \in Sweepers :
                       sweep[s].at \in Holding => sweep[s].step = 1

IInv ==
    /\ TypeOK /\ OneAnswer
    /\ Heard /\ Known /\ NoFalseEnd /\ EndsLast
    /\ OneHolds /\ Traced

(***************************************************************************)
(* The log.                                                                *)
(***************************************************************************)
(* What may follow the log's last state. *)
May(new) ==
    /\ new \in States
    /\ \/ log = <<>>
       \/ /\ log # <<>> /\ Last(log) \in Live
          /\ Last(log) = "returned" => new \in {"closed", "cancelled"}

Grows == \E new \in States : May(new) /\ log' = Append(log, new)

(* The last state of a log that is typed is a state, at its length.        *)
LEMMA LastIs ==
    ASSUME log \in Seq(States), log # <<>>
    PROVE  /\ Len(log) \in DOMAIN log /\ Len(log) \in Nat
           /\ Last(log) = log[Len(log)] /\ Last(log) \in States
BY DEF Last

(* Appending: the old entries stay, the new one is the last.               *)
LEMMA Appended ==
    ASSUME log \in Seq(States), NEW new \in States, log' = Append(log, new)
    PROVE  /\ log' \in Seq(States) /\ log' # <<>> /\ Len(log') = Len(log) + 1
           /\ Last(log') = new /\ log'[Len(log) + 1] = new
           /\ DOMAIN log = 1..Len(log) /\ DOMAIN log' = 1..(Len(log) + 1)
           /\ \A i \in DOMAIN log : log'[i] = log[i]
BY DEF Last

(* Each step leaves the log as it is or adds what its last state allows.   *)
LEMMA LogGrows ==
    ASSUME TypeOK, [Next]_vars
    PROVE  log' = log \/ Grows
<1> USE DEF May, Grows, Opened, In, Slip, Waiting, Live, Ended, States
<1>0. log # <<>> => Last(log) \in States
  BY LastIs DEF TypeOK
<1>1. CASE Open
  BY <1>0, <1>1 DEF Open, Saves, Writes
<1>2. CASE Repeat
  BY <1>0, <1>2 DEF Repeat, Writes
<1>3. CASE Claim
  BY <1>0, <1>3 DEF Claim, Saves, Writes
<1>4. CASE Return
  BY <1>0, <1>4 DEF Return, Saves, Writes
<1>5. CASE Close
  BY <1>0, <1>5 DEF Close, Saves, Writes
<1>6. CASE Cancel
  BY <1>0, <1>6 DEF Cancel, Saves, Writes
<1>7. CASE TurnEnd
  BY <1>0, <1>7 DEF TurnEnd, EndCloses, Saves, Writes
<1>8. ASSUME NEW s \in Sweepers, SeatExpires(s)
      PROVE  log' = log \/ Grows
  BY <1>0, <1>8 DEF SeatExpires, Expirable, Saves, Writes
<1>9. CASE UNCHANGED vars
  BY <1>9 DEF vars
<1>10. CASE Deliver \/ TurnBegins \/ TurnStart \/ TurnLive \/ TurnEnding
            \/ TurnOver \/ Quiesce \/ Resume \/ Restart
            \/ OlderComes \/ OlderEnds
  BY <1>10 DEF Deliver, Steer, Send, TurnBegins, TurnStart, TurnLive,
       TurnEnding, TurnOver, Quiesce, Resume, Restart, OlderComes,
       OlderEnds, seat
<1>11. ASSUME NEW v \in DOMAIN log, Report(v) PROVE log' = log
  BY <1>11 DEF Report, seat
<1>12. ASSUME NEW s \in Sweepers,
              \/ FindsUnclaimed(s) \/ Nudge(s) \/ FindsStale(s) \/ Holds(s)
              \/ NoAnswer(s) \/ Expires(s) \/ PutsBack(s) \/ Dies(s)
       PROVE  log' = log
  BY <1>12 DEF FindsUnclaimed, Nudge, FindsStale, Holds, NoAnswer, Expires,
       PutsBack, Dies, seat
<1> HIDE DEF May, Grows, Opened, In, Slip, Waiting, Live, Ended, States
<1>13. QED
  BY <1>1, <1>2, <1>3, <1>4, <1>5, <1>6, <1>7, <1>8, <1>9, <1>10, <1>11,
     <1>12, Zenon DEF Next, TurnStep, SweepStep

(* A slip that waits for nobody any more will not wait again.              *)
LEMMA NoWaitAgain ==
    ASSUME TypeOK, [Next]_vars, Opened, ~In(Waiting)
    PROVE  ~In(Waiting)'
<1>1. CASE log' = log
  BY <1>1 DEF In, Opened, Slip
<1>2. ASSUME NEW new \in States, May(new), log' = Append(log, new)
      PROVE  ~In(Waiting)'
  <2>1. Last(log') = new
    BY <1>2, Appended DEF TypeOK
  <2>2. Last(log) = "returned" /\ new \in {"closed", "cancelled"}
    BY <1>2 DEF May, In, Opened, Slip, Live, Waiting
  <2>3. QED
    BY <2>1, <2>2 DEF In, Slip, Waiting
<1>3. QED
  BY <1>1, <1>2, LogGrows DEF Grows

LEMMA OpenedStays ==
    ASSUME TypeOK, [Next]_vars, Opened
    PROVE  Opened'
<1>1. CASE log' = log
  BY <1>1 DEF Opened
<1>2. ASSUME NEW new \in States, log' = Append(log, new)
      PROVE  Opened'
  BY <1>2, Appended DEF TypeOK, Opened
<1>3. QED
  BY <1>1, <1>2, LogGrows DEF Grows

LEMMA OneAnswerStep ==
    ASSUME TypeOK, OneAnswer, [Next]_vars
    PROVE  OneAnswer'
<1>1. CASE log' = log
  BY <1>1 DEF OneAnswer
<1>2. ASSUME NEW new \in States, May(new), log' = Append(log, new)
      PROVE  OneAnswer'
  <2> DEFINE n == Len(log)
  <2>1. /\ n \in Nat
        /\ DOMAIN log = 1..n /\ DOMAIN log' = 1..(n + 1)
        /\ log'[n + 1] = new /\ \A i \in 1..n : log'[i] = log[i]
    BY <1>2, Appended DEF TypeOK
  <2>2. ASSUME NEW i \in 1..n
        PROVE  /\ log[i] \notin Ended
               /\ log[i] = "returned" => new \in {"closed", "cancelled"}
    <3>1. /\ log # <<>> /\ Last(log) = log[n] /\ n \in 1..n
          /\ log[n] \in Live
          /\ log[n] = "returned" => new \in {"closed", "cancelled"}
      BY <1>2, <2>1, LastIs DEF May, TypeOK
    <3>2. CASE i = n
      BY <3>1, <3>2 DEF Live, Waiting, Ended
    <3>3. CASE i # n
      <4>1. /\ log[i] \notin Ended
            /\ log[i] = "returned" => log[n] \in {"closed", "cancelled"}
        <5>1. i \in DOMAIN log /\ n \in DOMAIN log
          BY <2>1, <2>2, <3>1, Zenon
        <5>2. i < n
          <6>1. n \in Nat
            BY <2>1
          <6> HIDE DEF n
          <6>2. QED
            BY <2>2, <3>3, <6>1
        <5>3. QED
          BY <5>1, <5>2 DEF OneAnswer
      <4>2. QED
        BY <4>1, <3>1 DEF Live, Waiting
    <3>4. QED
      BY <3>2, <3>3
  <2>3. SUFFICES ASSUME NEW i \in 1..(n + 1), NEW j \in 1..(n + 1), i < j
                 PROVE  /\ log'[i] \notin Ended
                        /\ log'[i] = "returned" =>
                             log'[j] \in {"closed", "cancelled"}
    BY <2>1 DEF OneAnswer
  <2>4. i \in 1..n /\ log'[i] = log[i]
    BY <2>1, <2>3
  <2>5. CASE j = n + 1
    BY <2>1, <2>2, <2>4, <2>5
  <2>6. CASE j \in 1..n
    BY <2>1, <2>3, <2>4, <2>6 DEF OneAnswer
  <2>7. QED
    BY <2>1, <2>3, <2>5, <2>6
<1>3. QED
  BY <1>1, <1>2, LogGrows DEF Grows

(***************************************************************************)
(* Types.                                                                  *)
(***************************************************************************)
LEMMA Typed0 == ASSUME Init PROVE TypeOK
<1>1. log \in Seq(States)
  BY DEF Init
<1>2. quiet \in BOOLEAN
  BY Zenon DEF Init
<1>3. sweep \in [Sweepers -> [at : Stages, step : 0..1]]
  BY DEF Init, Stages
<1>4. QED
  BY <1>1, <1>2, <1>3, HandoffsAssumption DEF Init, TypeOK, States

(* Of the seat's variables, each action leaves the types as they are.      *)
LEMMA LogTyped ==
    ASSUME TypeOK, [Next]_vars
    PROVE  log' \in Seq(States)
BY LogGrows, Appended DEF TypeOK, Grows

(* The actions of the seat and of people, but for the seat's part of a     *)
(* sweep.                                                                  *)
SeatStep ==
    \/ Open \/ Repeat
    \/ Claim \/ Return \/ Close \/ Cancel
    \/ Deliver \/ TurnBegins \/ TurnStep
    \/ Quiesce \/ Resume \/ Restart

LEMMA SeatTyped ==
    ASSUME TypeOK, SeatStep
    PROVE  /\ awaits' \in {"none", "start", "end"}
           /\ turn' \in {"idle", "starting", "begun", "live", "ending",
                         "over", "cut"}
           /\ words' \in {"none", "held", "turn", "logged", "read", "lost"}
           /\ quiet' \in BOOLEAN
           /\ used' \in 0..MaxEvents
           /\ UNCHANGED gateway
<1> USE HandoffsAssumption DEF TypeOK, Saves, Uses, WaitFor
<1>1. CASE Open \/ Repeat
  BY <1>1 DEF Open, Repeat
<1>2. CASE Claim \/ Return \/ Close \/ Cancel
  BY <1>2 DEF Claim, Return, Close, Cancel
<1>3. CASE Deliver
  BY <1>3 DEF Deliver, Steer, Send
<1>4. CASE TurnBegins
  BY <1>4 DEF TurnBegins
<1>5. CASE TurnStep
  BY <1>5 DEF TurnStep, TurnStart, TurnLive, TurnEnding, TurnEnd, TurnOver
<1>6. CASE Quiesce \/ Resume
  <2>1. quiet' \in BOOLEAN
    BY <1>6, Zenon DEF Quiesce, Resume
  <2>2. QED
    BY <1>6, <2>1 DEF Quiesce, Resume
<1>7. CASE Restart
  <2>1. quiet' \in BOOLEAN
    BY <1>7, Zenon DEF Restart
  <2>2. words' \in {"none", "held", "turn", "logged", "read", "lost"}
    BY <1>7 DEF Restart
  <2>3. QED
    BY <1>7, <2>1, <2>2 DEF Restart
<1>8. QED
  BY <1>1, <1>2, <1>3, <1>4, <1>5, <1>6, <1>7, Zenon DEF SeatStep

Row == [state : States \union {"none"}, at : Nat, step : 0..2]

(* Bumped or upserted, a row is a row.                                     *)
LEMMA RowSet ==
    ASSUME row \in Row, NEW a \in Nat
    PROVE  /\ \A st \in 0..2 : [row EXCEPT !.step = st, !.at = a] \in Row
           /\ \A x \in States : [row EXCEPT !.state = x, !.at = a] \in Row
BY DEF Row

(* What a sweep does to the Gateway's row is typed.                        *)
LEMMA SweepTyped ==
    ASSUME TypeOK, NEW s \in Sweepers, SweepStep(s)
    PROVE  /\ row' \in Row /\ nudges' \in Nat
           /\ sweep' \in [Sweepers -> [at : Stages, step : 0..1]]
           /\ used' \in 0..MaxEvents
           /\ awaits' \in {"none", "start", "end"}
           /\ words' \in {"none", "held", "turn", "logged", "read", "lost"}
           /\ UNCHANGED <<turn, quiet, older>>
<1> USE HandoffsAssumption DEF TypeOK, Goes, Stages
<1>0. /\ sweep[s] \in [at : Stages, step : 0..1]
      /\ row \in Row /\ row.step \in 0..2 /\ row.at \in Nat
      /\ Now \in Nat /\ "expired" \in States
  BY DEF States, Ended, Row, Now
<1>a. ASSUME NEW from, NEW to \in 0..2, Bump(from, to) PROVE row' \in Row
  BY <1>0, <1>a, RowSet DEF Bump
<1>1. CASE FindsUnclaimed(s)
  BY <1>0, <1>1 DEF FindsUnclaimed, seat
<1>2. CASE Nudge(s)
  BY <1>0, <1>2, <1>a DEF Nudge, seat
<1>3. CASE FindsStale(s)
  BY <1>0, <1>3 DEF FindsStale, Stale, seat
<1>4. CASE Holds(s)
  BY <1>0, <1>4, <1>a DEF Holds, seat
<1>5. CASE SeatExpires(s)
  BY <1>0, <1>5 DEF SeatExpires, Saves
<1>6. CASE NoAnswer(s)
  BY <1>0, <1>6 DEF NoAnswer, seat
<1>7. CASE Expires(s)
  <2>1. row' \in Row
    BY <1>0, <1>7, RowSet DEF Expires, Upsert
  <2>2. QED
    BY <1>0, <1>7, <2>1 DEF Expires, seat
<1>8. CASE PutsBack(s)
  BY <1>0, <1>8, <1>a DEF PutsBack, seat
<1>9. CASE Dies(s)
  BY <1>0, <1>9 DEF Dies, Uses, seat
<1>10. QED
  BY <1>1, <1>2, <1>3, <1>4, <1>5, <1>6, <1>7, <1>8, <1>9, Zenon
     DEF SweepStep

LEMMA ReportTyped ==
    ASSUME TypeOK, NEW v \in DOMAIN log, Report(v)
    PROVE  /\ row' \in Row /\ v \in Nat /\ log[v] \in States
           /\ UNCHANGED <<seat, sweep, nudges, older, used>>
<1>1. row \in Row /\ v \in Nat /\ 2 * v \in Nat /\ log[v] \in States
  BY DEF TypeOK, Row
<1>2. row' = row \/ row' = [row EXCEPT !.state = log[v], !.at = 2 * v]
  BY DEF Report, Upsert
<1>3. row' \in Row
  <2>1. \A x \in States : [row EXCEPT !.state = x, !.at = 2 * v] \in Row
    BY <1>1, RowSet
  <2>2. QED
    BY <1>1, <1>2, <2>1, Zenon
<1>4. QED
  BY <1>1, <1>3 DEF Report

(* Other slips come and end: only their number changes.                    *)
OlderStep == OlderComes \/ OlderEnds

LEMMA OlderTyped ==
    ASSUME TypeOK, OlderStep
    PROVE  /\ older' \in 0..Batch
           /\ UNCHANGED <<seat, row, sweep, nudges, used>>
BY HandoffsAssumption DEF TypeOK, OlderStep, OlderComes, OlderEnds

LEMMA Cases ==
    ASSUME [Next]_vars
    PROVE  \/ SeatStep
           \/ OlderStep
           \/ \E v \in DOMAIN log : Report(v)
           \/ \E s \in Sweepers : SweepStep(s)
           \/ UNCHANGED vars
BY Zenon DEF Next, SeatStep, OlderStep

LEMMA Typed ==
    ASSUME TypeOK, [Next]_vars
    PROVE  TypeOK'
<1>1. CASE SeatStep
  BY <1>1, LogTyped, SeatTyped DEF TypeOK, gateway
<1>2. ASSUME NEW v \in DOMAIN log, Report(v) PROVE TypeOK'
  BY <1>2, LogTyped, ReportTyped DEF TypeOK, Row, seat
<1>3. ASSUME NEW s \in Sweepers, SweepStep(s) PROVE TypeOK'
  BY <1>3, LogTyped, SweepTyped DEF TypeOK, Row
<1>4. CASE UNCHANGED vars
  BY <1>4 DEF TypeOK, vars
<1>5. CASE OlderStep
  BY <1>5, OlderTyped DEF TypeOK, seat
<1>6. QED
  BY <1>1, <1>2, <1>3, <1>4, <1>5, Cases

(***************************************************************************)
(* What the Gateway knows.                                                 *)
(***************************************************************************)
LEMMA HeardStep ==
    ASSUME TypeOK, Heard, [Next]_vars
    PROVE  Heard'
<1>1. CASE SeatStep \/ OlderStep \/ UNCHANGED vars
  <2>1. UNCHANGED <<row, sweep>>
    BY <1>1, SeatTyped, OlderTyped DEF gateway, vars
  <2>2. QED
    BY <2>1, OpenedStays DEF Heard
<1>2. ASSUME NEW v \in DOMAIN log, Report(v) PROVE Heard'
  <2>1. Opened
    BY <1>2 DEF Opened, TypeOK
  <2>2. UNCHANGED sweep /\ Opened'
    BY <1>2, <2>1, OpenedStays DEF Report
  <2>3. QED
    BY <2>2 DEF Heard
<1>3. ASSUME NEW s \in Sweepers, SweepStep(s) PROVE Heard'
  <2>1. Opened
    BY <1>3, Zenon DEF SweepStep, Heard, FindsUnclaimed, Nudge, FindsStale,
       Stale, Waiting, Holds, SeatExpires, NoAnswer, Expires, PutsBack, Dies
  <2>2. QED
    BY <2>1, OpenedStays DEF Heard
<1>4. QED
  BY <1>1, <1>2, <1>3, Cases

(* A step of one sweep leaves the others where they are.                   *)
LEMMA OthersStay ==
    ASSUME TypeOK, NEW t \in Sweepers, SweepStep(t)
    PROVE  \A s \in Sweepers : s # t => sweep'[s] = sweep[s]
<1>1. ASSUME NEW at, Goes(t, at)
      PROVE  \A s \in Sweepers : s # t => sweep'[s] = sweep[s]
  BY <1>1 DEF Goes, TypeOK
<1>2. CASE FindsStale(t)
  BY <1>2 DEF FindsStale, TypeOK
<1>3. \/ FindsStale(t) \/ \E at \in Stages : Goes(t, at)
  BY Zenon DEF SweepStep, FindsUnclaimed, Nudge, FindsStale, Holds,
     SeatExpires, NoAnswer, Expires, PutsBack, Dies, Stages
<1>4. QED
  BY <1>1, <1>2, <1>3

(* Every step but the seat's answer leaves a sweep no wiser.               *)
LEMMA KnownStep ==
    ASSUME TypeOK, Heard, Known, [Next]_vars
    PROVE  Known'
<1>1. SUFFICES ASSUME NEW s \in Sweepers, sweep'[s].at \in {"done", "gone"}
               PROVE  ~In(Waiting)'
  BY DEF Known
<1>2. CASE sweep[s].at \in {"done", "gone"}
  BY <1>2, NoWaitAgain DEF Known, Heard
<1>3. CASE sweep[s].at \notin {"done", "gone"}
  <2>1. ~(\/ SeatStep \/ OlderStep \/ UNCHANGED vars
          \/ \E v \in DOMAIN log : Report(v))
    <3>1. (\/ SeatStep \/ OlderStep \/ UNCHANGED vars
           \/ \E v \in DOMAIN log : Report(v)) => UNCHANGED sweep
      BY SeatTyped, OlderTyped DEF gateway, vars, Report
    <3>2. QED
      BY <1>1, <1>3, <3>1
  <2>2. PICK t \in Sweepers : SweepStep(t)
    BY <2>1, Cases
  <2>3. SeatExpires(t) /\ t = s
    <3>1. t = s
      BY <1>1, <1>3, <2>2, OthersStay
    <3>2. ASSUME NEW at, Goes(s, at), at \notin {"done", "gone"}
          PROVE  FALSE
      BY <1>1, <3>2 DEF Goes, TypeOK
    <3>3. CASE FindsStale(s)
      BY <1>1, <3>3 DEF FindsStale, TypeOK
    <3>4. QED
      BY <2>2, <3>1, <3>2, <3>3 DEF SweepStep, FindsUnclaimed, Nudge, Holds,
         NoAnswer, Expires, PutsBack, Dies
  <2>4. CASE Expirable
    <3>1. log' = Append(log, "expired") /\ "expired" \in States
      BY <2>3, <2>4 DEF SeatExpires, Saves, Writes, States, Ended
    <3>2. Last(log') = "expired"
      BY <3>1, Appended DEF TypeOK
    <3>3. QED
      BY <3>2 DEF In, Slip, Waiting
  <2>5. CASE ~Expirable
    BY <2>3, <2>5 DEF SeatExpires, Expirable, In, Opened, Slip
  <2>6. QED
    BY <2>4, <2>5
<1>4. QED
  BY <1>2, <1>3

(* An end in the log is its last entry.                                    *)
LEMMA EndIsLast ==
    ASSUME TypeOK, OneAnswer, NEW v \in DOMAIN log, log[v] \in Ended
    PROVE  v = Len(log) /\ Slip = log[v] /\ ~In(Waiting)
<1>1. /\ log # <<>> /\ Len(log) \in DOMAIN log /\ Len(log) \in Nat
      /\ Last(log) = log[Len(log)] /\ DOMAIN log = 1..Len(log)
  BY LastIs DEF TypeOK
<1>2. ~(v < Len(log))
  BY <1>1, Zenon DEF OneAnswer
<1>3. v = Len(log)
  BY <1>1, <1>2
<1>4. QED
  BY <1>1, <1>3 DEF Slip, In, Waiting, Ended

(* How the row changes, said once for what follows: it keeps its state,    *)
(* takes that of a version no older than its stamp, or ends by a sweep     *)
(* that was told.                                                          *)
RowStep ==
    \/ UNCHANGED row
    \/ /\ UNCHANGED log
       /\ \/ row'.state = row.state /\ row'.at = Now
          \/ \E v \in DOMAIN log :
                /\ row'.state = log[v] /\ row'.at = 2 * v
                /\ row.state = "none" \/ 2 * v >= row.at
          \/ /\ row'.state = "expired" /\ row'.at = Now
             /\ \E s \in Sweepers : sweep[s].at \in {"done", "gone"}

LEMMA RowSteps ==
    ASSUME TypeOK, [Next]_vars
    PROVE  RowStep
<1>0. row \in Row /\ row.at \in Nat
  BY DEF TypeOK, Row
<1>1. CASE SeatStep \/ OlderStep \/ UNCHANGED vars
  BY <1>1, SeatTyped, OlderTyped DEF RowStep, gateway, vars
<1>2. ASSUME NEW v \in DOMAIN log, Report(v) PROVE RowStep
  <2>1. v \in Nat
    BY <1>2, ReportTyped
  <2>2. \/ UNCHANGED row
        \/ /\ row' = [row EXCEPT !.state = log[v], !.at = 2 * v]
           /\ row.state = "none" \/ 2 * v >= row.at
    BY <1>0, <1>2, <2>1 DEF Report, Upsert
  <2>3. QED
    BY <1>0, <1>2, <2>2 DEF RowStep, Row, Report, seat
<1>3. ASSUME NEW s \in Sweepers, SweepStep(s) PROVE RowStep
  <2>1. ASSUME NEW from, NEW to, Bump(from, to), UNCHANGED log
        PROVE  RowStep
    BY <1>0, <2>1 DEF Bump, RowStep, Row
  <2>2. CASE Nudge(s) \/ Holds(s) \/ PutsBack(s)
    <3>1. /\ UNCHANGED log
          /\ UNCHANGED row \/ \E from, to \in 0..2 : Bump(from, to)
      BY <2>2 DEF Nudge, Holds, PutsBack, TypeOK, seat
    <3>2. QED
      BY <2>1, <3>1 DEF RowStep
  <2>3. CASE Expires(s)
    BY <1>0, <2>3 DEF Expires, Upsert, RowStep, Row, seat
  <2>4. CASE FindsUnclaimed(s) \/ FindsStale(s) \/ SeatExpires(s)
             \/ NoAnswer(s) \/ Dies(s)
    BY <2>4 DEF FindsUnclaimed, FindsStale, SeatExpires, NoAnswer, Dies,
       RowStep
  <2>5. QED
    BY <1>3, <2>2, <2>3, <2>4 DEF SweepStep
<1>4. QED
  BY <1>1, <1>2, <1>3, Cases

LEMMA EndsStep ==
    ASSUME IInv, [Next]_vars
    PROVE  NoFalseEnd' /\ EndsLast'
<1>0. TypeOK /\ OneAnswer /\ Heard /\ Known /\ NoFalseEnd /\ EndsLast
  BY DEF IInv
<1>1. /\ DOMAIN log = 1..Len(log) /\ Len(log) \in Nat
      /\ "none" \notin Ended
  BY <1>0 DEF TypeOK, Ended
<1>2. SUFFICES ASSUME row'.state \in Ended
               PROVE  /\ ~In(Waiting)'
                      /\ \A v \in DOMAIN log' :
                           2 * v >= row'.at => log'[v] \in Ended
  BY DEF NoFalseEnd, EndsLast
<1>3. CASE UNCHANGED row
  <2>1. Opened /\ ~In(Waiting) /\ row.state \in Ended
    BY <1>0, <1>1, <1>2, <1>3 DEF Heard, NoFalseEnd
  <2>2. ~In(Waiting)'
    BY <1>0, <2>1, NoWaitAgain
  <2>3. CASE log' = log
    BY <1>0, <1>3, <2>1, <2>2, <2>3 DEF EndsLast
  <2>4. ASSUME NEW new \in States, May(new), log' = Append(log, new)
        PROVE  \A v \in DOMAIN log' :
                 2 * v >= row'.at => log'[v] \in Ended
    <3>1. new \in Ended
      BY <2>1, <2>4 DEF May, In, Opened, Slip, Live, Waiting, Ended
    <3>2. /\ DOMAIN log' = 1..(Len(log) + 1)
          /\ log'[Len(log) + 1] = new
          /\ \A i \in DOMAIN log : log'[i] = log[i]
      BY <1>0, <2>4, Appended DEF TypeOK
    <3>3. ASSUME NEW v \in DOMAIN log', 2 * v >= row'.at
          PROVE  log'[v] \in Ended
      <4>1. CASE v = Len(log) + 1
        BY <3>1, <3>2, <4>1
      <4>2. CASE v # Len(log) + 1
        <5>1. v \in DOMAIN log
          BY <1>1, <3>2, <3>3, <4>2
        <5>2. QED
          BY <1>0, <1>3, <2>1, <3>2, <3>3, <5>1 DEF EndsLast
      <4>3. QED
        BY <4>1, <4>2
    <3>4. QED
      BY <3>3
  <2>5. QED
    BY <1>0, <2>2, <2>3, <2>4, LogGrows DEF Grows
<1>4. ASSUME UNCHANGED log, row'.at = Now, ~In(Waiting)
      PROVE  /\ ~In(Waiting)'
             /\ \A v \in DOMAIN log' : 2 * v >= row'.at => log'[v] \in Ended
  <2>1. ~In(Waiting)'
    BY <1>4 DEF In, Opened, Slip
  <2>2. \A v \in DOMAIN log : ~(2 * v >= Now)
    BY <1>1 DEF Now
  <2>3. QED
    BY <1>4, <2>1, <2>2
<1>5. CASE UNCHANGED log /\ row'.state = row.state /\ row'.at = Now
  BY <1>0, <1>2, <1>4, <1>5 DEF NoFalseEnd
<1>6. CASE /\ UNCHANGED log /\ row'.at = Now
           /\ \E s \in Sweepers : sweep[s].at \in {"done", "gone"}
  BY <1>0, <1>4, <1>6 DEF Known
<1>7. ASSUME NEW v \in DOMAIN log, UNCHANGED log,
             row'.state = log[v], row'.at = 2 * v
      PROVE  /\ ~In(Waiting)'
             /\ \A u \in DOMAIN log' : 2 * u >= row'.at => log'[u] \in Ended
  <2>1. v = Len(log) /\ ~In(Waiting) /\ log[v] \in Ended
    BY <1>0, <1>2, <1>7, EndIsLast
  <2>2. ~In(Waiting)'
    BY <1>7, <2>1 DEF In, Opened, Slip
  <2>3. \A u \in DOMAIN log : 2 * u >= 2 * v => u = v
    BY <1>1, <2>1
  <2>4. QED
    BY <1>7, <2>1, <2>2, <2>3
<1>8. QED
  BY <1>0, <1>3, <1>5, <1>6, <1>7, RowSteps DEF RowStep

(***************************************************************************)
(* The step of a row and its reminders.                                    *)
(***************************************************************************)
LEMMA HoldStep ==
    ASSUME TypeOK, OneHolds, Traced, [Next]_vars
    PROVE  OneHolds' /\ Traced'
<1>0. row \in Row /\ row.step \in 0..2
  BY DEF TypeOK, Row
<1>1. CASE SeatStep \/ OlderStep \/ UNCHANGED vars
  <2>1. UNCHANGED <<row, sweep, nudges>>
    BY <1>1, SeatTyped, OlderTyped DEF gateway, vars
  <2>2. QED
    BY <2>1 DEF OneHolds, Traced
<1>2. ASSUME NEW v \in DOMAIN log, Report(v) PROVE OneHolds' /\ Traced'
  <2>1. row'.step = row.step /\ UNCHANGED <<sweep, nudges>>
    BY <1>0, <1>2 DEF Report, Upsert, Row
  <2>2. QED
    BY <2>1 DEF OneHolds, Traced
<1>3. ASSUME NEW s \in Sweepers, SweepStep(s) PROVE OneHolds' /\ Traced'
  <2>0. /\ \A t \in Sweepers : t # s => sweep'[t] = sweep[t]
        /\ sweep[s] \in [at : Stages, step : 0..1]
        /\ row.step # 2 => \A t \in Sweepers : sweep[t].at \notin Holding
    BY <1>3, OthersStay DEF TypeOK, OneHolds
  <2>1. ASSUME NEW at, Goes(s, at)
        PROVE  /\ sweep'[s].at = at
               /\ at # "idle" => sweep'[s].step = sweep[s].step
    BY <2>0, <2>1 DEF Goes, TypeOK
  <2>2. ASSUME NEW from, NEW to, Bump(from, to)
        PROVE  row.step = from /\ row'.step = to
    BY <1>0, <2>2 DEF Bump, Row
  <2>3. ASSUME row'.step = row.step, nudges' = nudges,
               sweep'[s].at \in Holding =>
                 sweep[s].at \in Holding /\ sweep'[s].step = sweep[s].step
        PROVE  OneHolds' /\ Traced'
    BY <2>0, <2>3 DEF OneHolds, Traced
  <2>4. CASE FindsUnclaimed(s)
    BY <2>1, <2>3, <2>4 DEF FindsUnclaimed, Holding
  <2>5. CASE FindsStale(s)
    <3>1. sweep'[s].at = "stale" /\ UNCHANGED <<row, nudges>>
      BY <2>5 DEF FindsStale, TypeOK
    <3>2. QED
      BY <2>3, <3>1 DEF Holding
  <2>6. CASE SeatExpires(s)
    <3>1. /\ \E at \in Holding : Goes(s, at)
          /\ sweep[s].at \in Holding /\ UNCHANGED <<row, nudges>>
      BY <2>6 DEF SeatExpires, Holding
    <3>2. sweep'[s].step = sweep[s].step
      BY <2>1, <3>1 DEF Holding
    <3>3. QED
      BY <2>3, <3>1, <3>2
  <2>7. CASE NoAnswer(s)
    BY <2>1, <2>3, <2>7 DEF NoAnswer, Holding
  <2>8. CASE Dies(s)
    BY <2>1, <2>3, <2>8 DEF Dies, Holding
  <2>9. CASE Expires(s)
    <3>1. row'.step = row.step
      BY <1>0, <2>9 DEF Expires, Upsert, Row
    <3>2. QED
      BY <2>1, <2>3, <2>9, <3>1 DEF Expires, Holding
  <2>10. CASE Nudge(s)
    <3>1. sweep'[s].at = "idle"
      BY <2>1, <2>10 DEF Nudge
    <3>2. CASE row.step # 0 /\ UNCHANGED <<row, nudges>>
      BY <2>3, <3>1, <3>2 DEF Holding
    <3>3. CASE Bump(0, 1) /\ nudges' = nudges + 1
      <4>1. row.step = 0 /\ row'.step = 1
        BY <2>2, <3>3
      <4>2. nudges = 0 /\ nudges' = 1
        BY <3>3, <4>1 DEF Traced, TypeOK
      <4>3. \A t \in Sweepers : sweep'[t].at \notin Holding
        BY <2>0, <3>1, <4>1 DEF Holding
      <4>4. QED
        BY <4>1, <4>2, <4>3 DEF OneHolds, Traced
    <3>4. QED
      BY <2>10, <3>2, <3>3 DEF Nudge
  <2>11. CASE Holds(s)
    <3>1. CASE Goes(s, "idle") /\ UNCHANGED row
      BY <2>1, <2>3, <2>11, <3>1 DEF Holds, Holding
    <3>2. CASE Bump(sweep[s].step, 2) /\ Goes(s, "calling")
      <4>1. /\ row.step = sweep[s].step /\ row'.step = 2
            /\ sweep'[s].step = sweep[s].step /\ nudges' = nudges
        BY <2>1, <2>2, <2>11, <3>2 DEF Holds
      <4>2. row.step \in 0..1
        BY <2>0, <4>1
      <4>3. \A t \in Sweepers : sweep'[t].at \in Holding => t = s
        BY <2>0, <4>2
      <4>4. nudges' # 0 => nudges' = 1 /\ sweep'[s].step = 1
        BY <4>1, <4>2 DEF Traced
      <4>5. QED
        BY <4>1, <4>3, <4>4 DEF OneHolds, Traced
    <3>3. QED
      BY <2>11, <3>1, <3>2 DEF Holds
  <2>12. CASE PutsBack(s)
    <3>1. /\ row'.step = sweep[s].step /\ sweep'[s].at = "idle"
          /\ nudges' = nudges /\ sweep[s].at \in Holding
      BY <2>1, <2>2, <2>12 DEF PutsBack, Holding
    <3>2. \A t \in Sweepers : sweep'[t].at \notin Holding
      BY <2>0, <3>1 DEF OneHolds, Holding
    <3>3. nudges # 0 => nudges = 1 /\ sweep[s].step = 1
      BY <3>1 DEF Traced
    <3>4. QED
      BY <3>1, <3>2, <3>3 DEF OneHolds, Traced
  <2>13. QED
    BY <1>3, <2>4, <2>5, <2>6, <2>7, <2>8, <2>9, <2>10, <2>11, <2>12
       DEF SweepStep
<1>4. QED
  BY <1>1, <1>2, <1>3, Cases

(***************************************************************************)
(* The theorems.                                                           *)
(***************************************************************************)
LEMMA IInit == ASSUME Init PROVE IInv
<1>1. TypeOK
  BY Typed0
<1>2. /\ log = <<>> /\ row.state = "none" /\ nudges = 0
      /\ \A s \in Sweepers : sweep[s].at = "idle"
  BY DEF Init
<1>3. OneAnswer /\ Heard /\ NoFalseEnd /\ EndsLast
  BY <1>2 DEF OneAnswer, Heard, NoFalseEnd, EndsLast, Ended
<1>4. Known /\ OneHolds /\ Traced
  BY <1>2 DEF Known, OneHolds, Traced, Holding
<1>5. QED
  BY <1>1, <1>3, <1>4 DEF IInv

LEMMA INext == ASSUME IInv, [Next]_vars PROVE IInv'
BY Typed, OneAnswerStep, HeardStep, KnownStep, EndsStep, HoldStep DEF IInv

LEMMA Invariant == Spec => []IInv
BY IInit, INext, PTL DEF Spec

(* Every reachable state is well typed: what seats, reports and any number *)
(* of sweeps write are states, stages and steps of their kinds.            *)
THEOREM Types == Spec => []TypeOK
BY Invariant, PTL DEF IInv

(* The Bot gets one answer to a slip, by a return or by its expiry, and    *)
(* an end is the last thing the slip becomes.                              *)
THEOREM AnsweredOnce == Spec => []OneAnswer
BY Invariant, PTL DEF IInv

(* bumpHandoffNotify: people are reminded at most once.                    *)
THEOREM RemindedOnce == Spec => []NudgedOnce
<1>1. IInv => NudgedOnce
  BY DEF IInv, Traced, TypeOK, NudgedOnce
<1>2. QED
  BY <1>1, Invariant, PTL

(* A slip the Gateway has for ended waits for nobody on the seat.          *)
THEOREM EndsAreTrue == Spec => []NoFalseEnd
BY Invariant, PTL DEF IInv

(* upsertHandoff: once the Gateway's row has ended nothing that is late    *)
(* opens it again.                                                         *)
THEOREM EndsAreFinal == Spec => EndStays
<1>1. ASSUME IInv, [Next]_vars
      PROVE  [row.state \in Ended => row'.state \in Ended]_vars
  <2>1. SUFFICES ASSUME row.state \in Ended PROVE row'.state \in Ended
    OBVIOUS
  <2>2. RowStep /\ EndsLast /\ row.state # "none"
    BY <1>1, <2>1, RowSteps DEF IInv, Ended
  <2>3. QED
    BY <2>1, <2>2 DEF RowStep, EndsLast, Ended
<1>2. QED
  BY <1>1, Invariant, PTL DEF Spec, EndStays
=============================================================================
