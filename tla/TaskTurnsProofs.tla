---------------------------- MODULE TaskTurnsProofs ----------------------------
(***************************************************************************)
(* Theorems about TaskTurns, for every bound and every choice of           *)
(* disturbances.                                                           *)
(***************************************************************************)
EXTENDS TaskTurns, SequenceTheorems, FiniteSetTheorems, TLAPS

(***************************************************************************)
(* The seat is well typed.                                                 *)
(***************************************************************************)
LEMMA CopiesArePeopleNot ==
    /\ Copies \subseteq Messages /\ People \subseteq Messages
    /\ \A m \in Copies : m \notin People
    /\ \A m \in Messages : m \in People \/ m \in Copies
    /\ None \notin Messages
  BY TurnsAssumption DEF Messages, People, Copies

(* The number of what comes next is free.                                  *)
LEMMA ArrivesTyped ==
    ASSUME came \in 0..MaxMessages, came < MaxMessages
    PROVE  /\ Arrives("people") \in People
           /\ Arrives("job") \in Copies
           /\ Arrives("people").n = came + 1 /\ Arrives("job").n = came + 1
  BY TurnsAssumption DEF Arrives, Messages, People, Copies

(* A queue with one more, while there is room, and with less.              *)
LEMMA QueueTyped ==
    ASSUME SeatOK
    PROVE  /\ \A m \in Messages : Cardinality(queue) < QueueMax =>
                /\ queue \union {m} \subseteq Messages
                /\ IsFiniteSet(queue \union {m})
                /\ Cardinality(queue \union {m}) <= QueueMax
           /\ \A q \in SUBSET queue :
                q \subseteq Messages /\ IsFiniteSet(q) /\ Cardinality(q) <= QueueMax
  <1>. USE TurnsAssumption
  <1>1. Cardinality(queue) \in Nat BY FS_CardinalityType DEF SeatOK
  <1>2. ASSUME NEW m \in Messages, Cardinality(queue) < QueueMax
        PROVE  /\ queue \union {m} \subseteq Messages
               /\ IsFiniteSet(queue \union {m})
               /\ Cardinality(queue \union {m}) <= QueueMax
    <2>1. /\ IsFiniteSet(queue \union {m})
          /\ Cardinality(queue \union {m}) =
               IF m \in queue THEN Cardinality(queue) ELSE Cardinality(queue) + 1
      BY FS_AddElement DEF SeatOK
    <2>. QED BY <1>1, <1>2, <2>1 DEF SeatOK
  <1>3. ASSUME NEW q \in SUBSET queue
        PROVE  q \subseteq Messages /\ IsFiniteSet(q) /\ Cardinality(q) <= QueueMax
    <2>1. IsFiniteSet(q) /\ Cardinality(q) <= Cardinality(queue)
      BY <1>3, FS_Subset DEF SeatOK
    <2>2. Cardinality(q) \in Nat BY <2>1, FS_CardinalityType
    <2>. QED BY <1>1, <1>3, <2>1, <2>2 DEF SeatOK
  <1>. QED BY <1>2, <1>3

(* What a step may do to the turn and the rest of the seat.                *)
Turns == [at : {"none", "starting", "begun", "live", "ending", "over"},
          of : Messages \union {None}, sig : BOOLEAN, kind : Kinds]
TurnOK ==
    /\ turn \in Turns
    /\ turn.at = "none" <=> turn.of = None
    /\ turn.sig => turn.at \notin {"none", "live", "ending"}

LEMMA BeginsTyped ==
    ASSUME NEW m \in Messages, Begin(m) PROVE TurnOK'
  BY CopiesArePeopleNot DEF Begin, NoTurn, TurnOK, Turns, Kinds

LEMMA EndsTyped == turn' = NoTurn => TurnOK'
  BY CopiesArePeopleNot DEF NoTurn, TurnOK, Turns, Kinds

LEMMA TurnGoesTyped ==
    ASSUME TurnOK,
           \/ turn.at = "starting" /\ ~turn.sig /\ Goes("begun")
           \/ turn.at \in {"starting", "begun"} /\ Goes("over")
           \/ turn.at = "begun" /\ ~turn.sig /\ Goes("live")
           \/ turn.at = "ending" /\ Goes("over")
           \/ /\ turn.at \in {"starting", "begun"}
              /\ turn' = [turn EXCEPT !.at = "over", !.kind = "error"]
           \/ \E kind \in Kinds : /\ turn.at = "live"
                /\ turn' = [turn EXCEPT !.at = "ending", !.kind = kind]
           \/ Abort
           \/ UNCHANGED turn
    PROVE  TurnOK' /\ turn'.of = turn.of
  BY DEF TurnOK, Turns, Goes, Abort, Stoppable, HasSignal, Kinds

(* Which actions leave the seat as it is, and which do not.                *)
LEMMA SeatRest ==
    ASSUME SeatOK, UNCHANGED seat PROVE SeatOK'
  BY DEF SeatOK, seat, Turns

LEMMA SeatTyped ==
    ASSUME TypeOK, [Next]_vars PROVE SeatOK'
  <1>. USE DEF Sits, Works, people, bounds
  <1>0. SeatOK /\ came \in 0..MaxMessages BY DEF TypeOK
  <1>a. SeatOK <=> /\ queue \subseteq Messages /\ IsFiniteSet(queue)
                   /\ Cardinality(queue) <= QueueMax
                   /\ TurnOK
                   /\ aborting \in BOOLEAN /\ drains \in Nat
                   /\ boot \in BOOLEAN /\ quiet \in BOOLEAN
                   /\ started \subseteq Messages
    BY DEF SeatOK, TurnOK, Turns
  <1>b. SeatOK' <=> /\ queue' \subseteq Messages /\ IsFiniteSet(queue')
                    /\ Cardinality(queue') <= QueueMax
                    /\ TurnOK'
                    /\ aborting' \in BOOLEAN /\ drains' \in Nat
                    /\ boot' \in BOOLEAN /\ quiet' \in BOOLEAN
                    /\ started' \subseteq Messages
    BY DEF SeatOK, TurnOK, Turns
  <1>c. TurnOK /\ queue \subseteq Messages BY <1>0, <1>a
  <1>d. UNCHANGED turn => TurnOK' BY <1>c DEF TurnOK, Turns
  <1>1. CASE Say
    <2>1. Arrives("people") \in Messages
      BY <1>0, <1>1, ArrivesTyped, CopiesArePeopleNot, TurnsAssumption DEF Say
    <2>2. PICK m \in Messages : Enqueue(m) \/ Send(m) \/ Steer(m)
      BY <1>1, <2>1 DEF Say
    <2>3. TurnOK' BY <1>d, <2>2, BeginsTyped DEF Enqueue, Send, Steer
    <2>4. \/ queue' = queue
          \/ Cardinality(queue) < QueueMax /\ queue' = queue \union {m}
      BY <2>2 DEF Enqueue, Send, Steer
    <2>. QED BY <1>0, <1>1, <1>a, <1>b, <2>3, <2>4, QueueTyped DEF Say
  <1>2. ASSUME NEW m \in Messages, Withdraw(m) PROVE SeatOK'
    <2>1. queue' \in SUBSET queue /\ UNCHANGED turn BY <1>2 DEF Withdraw, Cancel
    <2>. QED BY <1>0, <1>2, <1>a, <1>b, <1>d, <2>1, QueueTyped DEF Withdraw
  <1>3. CASE HeadDone \/ GoesLive \/ TurnEnd \/ HeadFails
    <2>1. TurnOK'
      BY <1>c, <1>3, TurnGoesTyped DEF HeadDone, GoesLive, TurnEnd, HeadFails
    <2>. QED BY <1>0, <1>3, <1>a, <1>b, <2>1
             DEF HeadDone, GoesLive, TurnEnd, HeadFails
  <1>4. CASE HeadStops \/ BegunStops \/ Completes \/ Aborts
    <2>1. TurnOK'
      BY <1>c, <1>4, TurnGoesTyped
         DEF HeadStops, BegunStops, Completes, Aborts, Leaves, Kinds
    <2>. QED BY <1>0, <1>4, <1>a, <1>b, <2>1
             DEF HeadStops, BegunStops, Completes, Aborts, Leaves
  <1>5. CASE TurnOver
    <2>1. TurnOK' BY <1>5, EndsTyped DEF TurnOver
    <2>. QED BY <1>0, <1>5, <1>a, <1>b, <2>1 DEF TurnOver
  <1>6. CASE Drain
    <2>1. CASE quiet \/ Running \/ queue = {}
      BY <1>0, <1>6, <1>a, <1>b, <1>d, <2>1 DEF Drain
    <2>2. CASE ~(quiet \/ Running \/ queue = {})
      <3>1. PICK m \in queue : queue' = queue \ {m} /\ MarkStarted(m) /\ Begin(m)
        BY <1>6, <2>2 DEF Drain
      <3>2. m \in Messages /\ TurnOK' BY <1>c, <3>1, BeginsTyped
      <3>. QED BY <1>0, <1>6, <1>a, <1>b, <3>1, <3>2, QueueTyped
               DEF Drain, MarkStarted
    <2>. QED BY <2>1, <2>2
  <1>7. CASE BootDrains \/ Quiesce \/ Resume
    <2>1. drains' \in Nat /\ boot' \in BOOLEAN /\ quiet' \in BOOLEAN
      <3>1. drains \in Nat /\ boot \in BOOLEAN /\ quiet \in BOOLEAN BY <1>0, <1>a
      <3>2. drains' = drains \/ drains' = drains + 1
        BY <1>7 DEF BootDrains, Quiesce, Resume
      <3>3. boot' = boot \/ boot' = FALSE
        BY <1>7 DEF BootDrains, Quiesce, Resume
      <3>4. quiet' = quiet \/ quiet' = TRUE \/ quiet' = FALSE
        BY <1>7 DEF BootDrains, Quiesce, Resume
      <3>5. drains' \in Nat BY <3>1, <3>2
      <3>6. boot' \in BOOLEAN /\ quiet' \in BOOLEAN BY Zenon, <3>1, <3>3, <3>4
      <3>. QED BY <3>5, <3>6
    <2>2. UNCHANGED <<queue, turn, aborting, started>>
      BY <1>7 DEF BootDrains, Quiesce, Resume
    <2>. QED BY <1>0, <2>1, <2>2, <1>a, <1>b, <1>d
  <1>8. CASE Restart
    <2>1. TurnOK' /\ queue' \in SUBSET queue BY <1>8, EndsTyped DEF Restart
    <2>. QED BY <1>0, <1>8, <1>b, <2>1, QueueTyped DEF Restart
  <1>9. CASE PressStop \/ AbortArrives
    <2>1. TurnOK' /\ Abort
      BY <1>c, <1>9, TurnGoesTyped DEF PressStop, AbortArrives
    <2>. QED BY <1>0, <1>9, <1>a, <1>b, <2>1 DEF PressStop, AbortArrives, Abort
  <1>10. CASE PostArrives
    <2>1. CASE UNCHANGED <<queue, turn>>
      BY <1>0, <1>10, <1>a, <1>b, <1>d, <2>1 DEF PostArrives
    <2>2. CASE ~UNCHANGED <<queue, turn>>
      <3>1. Arrives("job") \in Messages
        BY <1>0, <1>10, <2>2, ArrivesTyped, CopiesArePeopleNot DEF PostArrives
      <3>2. PICK m \in Messages : Enqueue(m) \/ Send(m)
        BY <1>10, <2>2, <3>1 DEF PostArrives
      <3>3. TurnOK' BY <1>d, <3>2, BeginsTyped DEF Enqueue, Send
      <3>4. \/ queue' = queue
            \/ Cardinality(queue) < QueueMax /\ queue' = queue \union {m}
        BY <3>2 DEF Enqueue, Send
      <3>. QED BY <1>0, <1>10, <1>a, <1>b, <3>3, <3>4, QueueTyped DEF PostArrives
    <2>. QED BY <2>1, <2>2
  <1>11. CASE DeleteArrives \/ DeleteLost
    <2>1. queue' \in SUBSET queue /\ UNCHANGED turn
      BY <1>11 DEF DeleteArrives, DeleteLost, Cancel
    <2>. QED BY <1>0, <1>11, <1>a, <1>b, <1>d, <2>1, QueueTyped
             DEF DeleteArrives, DeleteLost
  <1>12. CASE \/ Claim \/ Press \/ Renew \/ Hook \/ Post \/ PostAnswered \/ Read
              \/ Gone \/ Breaks \/ AbortLost \/ PostLost \/ GivesUp \/ TimesOut
              \/ LeaseLost \/ Dies \/ UNCHANGED vars
    <2>1. UNCHANGED seat
      BY <1>12 DEF Claim, Press, Renew, Hook, Post, PostAnswered, Read, Gone, Breaks,
         AbortLost, PostLost, GivesUp, TimesOut, LeaseLost, Dies, vars
    <2>. QED BY <1>0, <2>1, SeatRest
  <1>. QED
    BY Zenon, <1>1, <1>2, <1>3, <1>4, <1>5, <1>6, <1>7, <1>8, <1>9, <1>10, <1>11,
       <1>12 DEF Next, TurnStep, JobStep

(***************************************************************************)
(* The job is well typed.                                                  *)
(***************************************************************************)
Outs == Kinds \union {"none", "stopped", "gone", "timeout", "failed", "lost",
                      "dead"}
Jobs == [at : {"none", "claimed", "hooked", "posting", "reading", "over"},
         of : Copies \union {None},
         ans : {"none", "queued", "opened", "refused", "lost"},
         queueId : BOOLEAN, stopped : BOOLEAN,
         req : {"none", "delete", "abort", "sent", "done", "lost"},
         mine : BOOLEAN, own : Messages \union {None}, left : BOOLEAN,
         lost : BOOLEAN, broken : BOOLEAN, out : Outs]

LEMMA JobSays == JobOK <=> job \in Jobs
  BY DEF JobOK, Jobs, Outs

LEMMA NoJobTyped == NoJob \in Jobs /\ [NoJob EXCEPT !.at = "claimed"] \in Jobs
  BY DEF NoJob, Jobs, Outs, Kinds

(* However a job ends, it is a job.                                        *)
LEMMA EndedTyped ==
    ASSUME job \in Jobs, NEW out \in Outs
    PROVE  /\ Ends(out) \in Jobs /\ Fails(out) \in Jobs
           /\ [Ends(out) EXCEPT !.req = "done"] \in Jobs
           /\ [Fails(out) EXCEPT !.ans = "lost"] \in Jobs
           /\ [job EXCEPT !.at = "over", !.out = out] \in Jobs
  <1>1. \A o \in Outs : [job EXCEPT !.at = "over", !.out = o] \in Jobs
    BY DEF Jobs
  <1>2. \A o \in Outs : Ends(o) \in Jobs
    BY <1>1 DEF Ends, Outs
  <1>3. Fails(out) \in Jobs
    <2>1. IF job.stopped THEN Fails(out) = Ends("stopped")
                         ELSE Fails(out) = Ends(out)
      BY DEF Fails
    <2>2. "stopped" \in Outs BY DEF Outs
    <2>. QED BY <1>2, <2>1, <2>2
  <1>4. \A j \in Jobs : /\ [j EXCEPT !.req = "done"] \in Jobs
                        /\ [j EXCEPT !.ans = "lost"] \in Jobs
    BY DEF Jobs
  <1>. QED BY <1>1, <1>2, <1>3, <1>4

(* One field after another.                                                *)
LEMMA FieldTyped ==
    ASSUME NEW j \in Jobs
    PROVE  /\ \A at \in {"claimed", "hooked", "posting", "reading", "over"} :
                [j EXCEPT !.at = at] \in Jobs
           /\ \A ans \in {"queued", "opened", "refused"}, m \in Copies :
                /\ [j EXCEPT !.ans = ans] \in Jobs
                /\ [j EXCEPT !.of = m, !.ans = ans] \in Jobs
           /\ \A req \in {"none", "abort", "sent", "lost"} :
                [j EXCEPT !.req = req] \in Jobs
           /\ \A b \in BOOLEAN :
                /\ [j EXCEPT !.at = "reading", !.queueId = b] \in Jobs
                /\ [j EXCEPT !.left = b] \in Jobs
                /\ [j EXCEPT !.broken = b] \in Jobs
                /\ [j EXCEPT !.lost = b] \in Jobs
                /\ [j EXCEPT !.stopped = b] \in Jobs
           /\ \A b \in BOOLEAN, m \in Messages \union {None} :
                [j EXCEPT !.mine = b, !.own = m] \in Jobs
           /\ [j EXCEPT !.req = "none", !.queueId = TRUE, !.stopped = FALSE]
                \in Jobs
           /\ [j EXCEPT !.at = "over", !.out = "lost"] \in Jobs
           /\ Target(j) \in Jobs /\ StopsNow(j) \in Jobs
  <1>1. \A at \in {"claimed", "hooked", "posting", "reading", "over"} :
           [j EXCEPT !.at = at] \in Jobs
    BY DEF Jobs
  <1>2. \A ans \in {"queued", "opened", "refused"}, m \in Copies :
           /\ [j EXCEPT !.ans = ans] \in Jobs
           /\ [j EXCEPT !.of = m, !.ans = ans] \in Jobs
    BY DEF Jobs
  <1>3. \A req \in {"none", "abort", "sent", "lost"} :
           [j EXCEPT !.req = req] \in Jobs
    BY DEF Jobs
  <1>4. \A b \in BOOLEAN : [j EXCEPT !.at = "reading", !.queueId = b] \in Jobs
    BY DEF Jobs
  <1>5. \A b \in BOOLEAN : /\ [j EXCEPT !.left = b] \in Jobs
                           /\ [j EXCEPT !.broken = b] \in Jobs
                           /\ [j EXCEPT !.lost = b] \in Jobs
                           /\ [j EXCEPT !.stopped = b] \in Jobs
    BY DEF Jobs
  <1>6. \A b \in BOOLEAN, m \in Messages \union {None} :
           [j EXCEPT !.mine = b, !.own = m] \in Jobs
    BY DEF Jobs
  <1>7. /\ [j EXCEPT !.req = "none", !.queueId = TRUE, !.stopped = FALSE] \in Jobs
        /\ [j EXCEPT !.at = "over", !.out = "lost"] \in Jobs
    BY ZenonT(30) DEF Jobs, Outs
  <1>8. Target(j) \in Jobs
    BY ZenonT(30) DEF Jobs, Target
  <1>9. StopsNow(j) \in Jobs
    BY <1>8 DEF StopsNow
  <1>. QED BY <1>1, <1>2, <1>3, <1>4, <1>5, <1>6, <1>7, <1>8, <1>9

(* Every step leaves a job that is well typed.                             *)
LEMMA JobTyped ==
    ASSUME TypeOK, [Next]_vars PROVE JobOK'
  <1>. USE DEF people, bounds
  <1>0. job \in Jobs /\ came \in 0..MaxMessages BY JobSays DEF TypeOK
  <1>a. JobOK' <=> job' \in Jobs BY JobSays DEF JobOK, Jobs, Outs
  <1>b. {"lost", "stopped", "failed", "gone", "timeout", "dead"} \subseteq Outs
    BY DEF Outs
  <1>1. CASE Claim
    BY <1>1, <1>a, NoJobTyped DEF Claim
  <1>2. CASE Hook \/ Post
    <2>1. \/ job' = Ends("lost") \/ job' = Ends("stopped")
          \/ \E at \in {"hooked", "posting"} : job' = [job EXCEPT !.at = at]
      BY <1>2 DEF Hook, Post
    <2>. QED BY <1>0, <1>a, <1>b, <2>1, EndedTyped, FieldTyped
  <1>3. CASE PostArrives
    <2>1. /\ [job EXCEPT !.ans = "refused"] \in Jobs
          /\ \A m \in Copies, ans \in {"queued", "opened"} :
               [job EXCEPT !.of = m, !.ans = ans] \in Jobs
      BY <1>0 DEF Jobs
    <2>2. CASE job' = [job EXCEPT !.ans = "refused"]
      BY <1>a, <2>1, <2>2
    <2>3. CASE job' # [job EXCEPT !.ans = "refused"]
      <3>1. Arrives("job") \in Copies
        BY <1>0, <1>3, <2>3, ArrivesTyped DEF PostArrives
      <3>2. \E ans \in {"queued", "opened"} :
              job' = [job EXCEPT !.of = Arrives("job"), !.ans = ans]
        BY <1>3, <2>3 DEF PostArrives
      <3>. QED BY <1>a, <2>1, <3>1, <3>2
    <2>. QED BY <2>2, <2>3
  <1>4. CASE PostAnswered
    <2>. DEFINE j == [job EXCEPT !.at = "reading", !.queueId = job.ans = "queued"]
    <2>1. j \in Jobs BY <1>0, FieldTyped
    <2>2. /\ StopsNow(j) \in Jobs
          /\ [StopsNow(j) EXCEPT !.at = "over", !.out = "lost"] \in Jobs
      BY <2>1, FieldTyped
    <2>3. \/ job' = Fails("failed") \/ job' = StopsNow(j)
          \/ job' = [StopsNow(j) EXCEPT !.at = "over", !.out = "lost"]
      BY <1>4 DEF PostAnswered
    <2>. QED BY <1>0, <1>a, <1>b, <2>2, <2>3, EndedTyped
  <1>5. CASE Renew
    <2>1. job' = Target(job) \/ job' = [job EXCEPT !.stopped = TRUE]
      BY <1>5 DEF Renew
    <2>. QED BY <1>0, <1>a, <2>1, FieldTyped
  <1>6. CASE DeleteArrives
    <2>1. job.out \in Outs BY <1>0 DEF Jobs
    <2>2. \/ job' = [job EXCEPT !.req = "abort"]
          \/ job' = [Ends("stopped") EXCEPT !.req = "done"]
          \/ job' = [Ends(job.out) EXCEPT !.req = "done"]
      BY <1>6 DEF DeleteArrives
    <2>. QED BY <1>0, <1>a, <1>b, <2>1, <2>2, EndedTyped, FieldTyped, ZenonT(30)
  <1>7. CASE DeleteLost \/ AbortArrives \/ AbortLost
    <2>1. \/ \E req \in {"sent", "lost"} : job' = [job EXCEPT !.req = req]
          \/ job' = [job EXCEPT !.req = "none", !.queueId = TRUE, !.stopped = FALSE]
      BY <1>7 DEF DeleteLost, AbortArrives, AbortLost
    <2>. QED BY <1>0, <1>a, <2>1, FieldTyped
  <1>8. CASE Read
    <2>1. Head(inbox) \in Frame /\ Head(inbox).of \in Messages \union {None}
          /\ Head(inbox).type \in {"opens", "ends", "queue"}
          /\ Head(inbox).kind \in Kinds
      <3>1. Head(inbox) \in Frame BY <1>8 DEF TypeOK, Read
      <3>. QED BY <3>1 DEF Frame
    <2>. DEFINE f == Head(inbox)
    <2>. HIDE DEF f
    <2>2. \/ job' = [job EXCEPT !.mine = Mine(f),
                       !.own = IF @ = None /\ Mine(f) THEN f.of ELSE @]
          \/ job' = Ends(f.kind) \/ job' = job
          \/ job' = [job EXCEPT
                !.left = @ \/ (job.queueId /\ job.of \notin f.queued)]
      BY <1>8, <2>1 DEF Read, f
    <2>3. CASE job' = [job EXCEPT !.mine = Mine(f),
                         !.own = IF @ = None /\ Mine(f) THEN f.of ELSE @]
      <3>. DEFINE m == IF job.own = None /\ Mine(f) THEN f.of ELSE job.own
      <3>1. Mine(f) \in BOOLEAN BY Zenon, <1>0 DEF Mine
      <3>2. m \in Messages \union {None} BY <1>0, <2>1 DEF Jobs, f
      <3>3. job' = [job EXCEPT !.mine = Mine(f), !.own = m] BY <1>0, <2>3 DEF Jobs
      <3>. HIDE DEF m
      <3>4. \A b \in BOOLEAN : [job EXCEPT !.mine = b, !.own = m] \in Jobs
        BY <1>0, <3>2, FieldTyped
      <3>. QED BY Zenon, <1>a, <3>1, <3>3, <3>4
    <2>4. CASE job' = [job EXCEPT
                         !.left = @ \/ (job.queueId /\ job.of \notin f.queued)]
      <3>1. PICK b \in BOOLEAN : job' = [job EXCEPT !.left = b]
        BY <1>0, <2>4 DEF Jobs
      <3>. QED BY <1>0, <1>a, <3>1, FieldTyped
    <2>5. f.kind \in Outs BY <2>1 DEF Outs, f
    <2>. QED BY <1>0, <1>a, <2>2, <2>3, <2>4, <2>5, EndedTyped
  <1>9. CASE GivesUp \/ Gone \/ TimesOut \/ Breaks \/ PostLost \/ LeaseLost \/ Dies
    <2>1. \/ \E out \in {"failed", "gone", "timeout"} :
               job' = Fails(out) \/ job' = Ends(out)
          \/ job' = [Fails("failed") EXCEPT !.ans = "lost"]
          \/ \E out \in {"lost", "dead"} :
               job' = [job EXCEPT !.at = "over", !.out = out]
          \/ job' = [job EXCEPT !.lost = TRUE]
      BY <1>9 DEF GivesUp, Gone, TimesOut, Breaks, PostLost, LeaseLost, Dies
    <2>. QED BY <1>0, <1>a, <1>b, <2>1, EndedTyped, FieldTyped, ZenonT(30)
  <1>10. CASE Restart
    <2>. DEFINE b == job.at \in {"hooked", "posting", "reading"}
    <2>1. job' = [job EXCEPT !.broken = b] BY Zenon, <1>10 DEF Restart
    <2>2. b \in BOOLEAN BY SMT
    <2>3. \A c \in BOOLEAN : [job EXCEPT !.broken = c] \in Jobs
      BY <1>0, FieldTyped
    <2>. QED BY Zenon, <1>a, <2>1, <2>2, <2>3
  <1>11. CASE \/ Say \/ (\E m \in Messages : Withdraw(m)) \/ TurnStep \/ Completes
              \/ HeadFails \/ Drain \/ BootDrains \/ PressStop \/ Quiesce
              \/ Resume \/ Press \/ UNCHANGED vars
    <2>1. UNCHANGED job
      BY <1>11 DEF Say, Withdraw, TurnStep, HeadDone, HeadStops, BegunStops,
         GoesLive, Aborts, Completes, Leaves, TurnEnd, TurnOver, HeadFails, Drain,
         BootDrains, PressStop, Quiesce, Resume, Press, Sits, vars
    <2>. QED BY <1>0, <1>a, <2>1
  <1>. QED
    BY Zenon, <1>1, <1>2, <1>3, <1>4, <1>5, <1>6, <1>7, <1>8, <1>9, <1>10, <1>11
       DEF Next, JobStep

(***************************************************************************)
(* The rest, and what is on the way to the job.                            *)
(***************************************************************************)
(* The end of a copy's turn is told of only when it is over.               *)
Good(P) == {f \in Frame : f.type = "ends" /\ f.of \in Copies => f.of \in P}

LEMMA GoodGrows ==
    ASSUME NEW P, NEW Q, P \subseteq Q
    PROVE  Good(P) \subseteq Good(Q) /\ Good(Q) \subseteq Frame
  BY DEF Good

LEMMA InboxGrows ==
    ASSUME NEW S, NEW T, S \subseteq T, inbox \in Seq(S),
           \/ UNCHANGED inbox \/ inbox' = <<>>
           \/ inbox # <<>> /\ inbox' = Tail(inbox)
           \/ \E f \in T : Emits(f)
           \/ \E f, g \in T : Emits2(f, g)
    PROVE  inbox' \in Seq(T)
  <1>1. inbox \in Seq(T) BY SeqMonotonic
  <1>2. CASE UNCHANGED inbox \/ inbox' = <<>>
    <2>1. <<>> \in Seq(T) BY EmptySeq
    <2>. QED BY <1>1, <1>2, <2>1
  <1>3. CASE inbox # <<>> /\ inbox' = Tail(inbox)
    BY <1>1, <1>3
  <1>4. ASSUME NEW f \in T, Emits(f) PROVE inbox' \in Seq(T)
    BY <1>1, <1>4 DEF Emits
  <1>5. ASSUME NEW f \in T, NEW g \in T, Emits2(f, g) PROVE inbox' \in Seq(T)
    <2>1. <<f, g>> \in Seq(T) OBVIOUS
    <2>2. inbox \o <<f, g>> \in Seq(T) BY <1>1, <2>1, ConcatProperties
    <2>. QED BY <1>1, <1>5, <2>2 DEF Emits2
  <1>. QED BY <1>2, <1>3, <1>4, <1>5

LEMMA FramesGood ==
    ASSUME NEW P, NEW m \in Messages
    PROVE  /\ Opens(m) \in Good(P)
           /\ (m \in Copies => m \in P) =>
                \A kind \in Kinds : EndsAs(m, kind) \in Good(P)
           /\ \A q \in SUBSET Messages : Snapshot(q) \in Good(P)
  BY CopiesArePeopleNot DEF Opens, EndsAs, Snapshot, Good, Frame, Kinds

(* What each step does to the frames on the way.                           *)
LEMMA Frames ==
    ASSUME TypeOK, [Next]_vars
    PROVE  /\ past \subseteq past' /\ past' \subseteq Copies
           /\ \/ UNCHANGED inbox \/ inbox' = <<>>
              \/ inbox # <<>> /\ inbox' = Tail(inbox)
              \/ \E f \in Good(past') : Emits(f)
              \/ \E f, g \in Good(past') : Emits2(f, g)
  <1>. USE DEF Sits, Works, people, bounds
  <1>0. /\ turn \in Turns /\ (turn.at = "none" <=> turn.of = None)
        /\ queue \subseteq Messages /\ past \subseteq Copies
    BY DEF TypeOK, SeatOK, Turns
  <1>1. CASE HeadDone
    <2>1. turn.of \in Messages BY <1>0, <1>1 DEF HeadDone, Turns
    <2>2. Opens(turn.of) \in Good(past') BY <2>1, FramesGood
    <2>. QED BY <1>0, <1>1, <2>2 DEF HeadDone
  <1>2. CASE HeadStops \/ BegunStops \/ HeadFails \/ TurnEnd
    <2>1. turn.of \in Messages
      BY <1>0, <1>2 DEF HeadStops, BegunStops, HeadFails, TurnEnd, Turns
    <2>2. IsPast BY <1>2 DEF HeadStops, BegunStops, HeadFails, TurnEnd
    <2>3. past \subseteq past' /\ past' \subseteq Copies
          /\ (turn.of \in Copies => turn.of \in past')
      BY <1>0, <2>2 DEF IsPast
    <2>4. turn.kind \in Kinds /\ "aborted" \in Kinds /\ "error" \in Kinds
      BY <1>0 DEF Turns, Kinds
    <2>5. \A kind \in Kinds : EndsAs(turn.of, kind) \in Good(past')
      BY <2>1, <2>3, FramesGood
    <2>6. Opens(turn.of) \in Good(past') BY <2>1, FramesGood
    <2>. QED BY <1>2, <2>3, <2>4, <2>5, <2>6
             DEF HeadStops, BegunStops, HeadFails, TurnEnd
  <1>3. CASE Say \/ Drain \/ (\E m \in Messages : Withdraw(m)) \/ PostArrives
             \/ DeleteArrives \/ DeleteLost
    <2>1. UNCHANGED past
      BY <1>3 DEF Say, Drain, Withdraw, PostArrives, DeleteArrives, DeleteLost
    <2>2. UNCHANGED inbox \/ (queue' \subseteq Messages /\ Emits(Snapshot(queue')))
      <3>1. queue' \subseteq Messages BY SeatTyped DEF SeatOK
      <3>2. CASE Say
        BY <3>1, <3>2 DEF Say, Enqueue, Send, Steer
      <3>3. CASE PostArrives
        BY <3>1, <3>3 DEF PostArrives, Enqueue, Send
      <3>4. CASE Drain \/ (\E m \in Messages : Withdraw(m))
        BY <3>1, <3>4 DEF Drain, Withdraw, Cancel
      <3>5. CASE DeleteArrives \/ DeleteLost
        BY <3>1, <3>5 DEF DeleteArrives, DeleteLost, Cancel
      <3>. QED BY <1>3, <3>2, <3>3, <3>4, <3>5
    <2>3. queue' \subseteq Messages => Snapshot(queue') \in Good(past')
      BY CopiesArePeopleNot DEF Snapshot, Good, Frame, Kinds
    <2>. QED BY <1>0, <2>1, <2>2, <2>3
  <1>4. CASE Restart
    BY <1>0, <1>4 DEF Restart, IsPast
  <1>5. CASE \/ GoesLive \/ Completes \/ Aborts \/ TurnOver \/ BootDrains
             \/ PressStop \/ Quiesce \/ Resume \/ Press \/ Renew \/ AbortArrives
             \/ AbortLost \/ Breaks \/ UNCHANGED vars
    BY <1>0, <1>5 DEF GoesLive, Completes, Aborts, Leaves, TurnOver, BootDrains,
       PressStop, Quiesce, Resume, Press, Renew, AbortArrives, AbortLost, Breaks, vars
  <1>6. CASE \/ Claim \/ Hook \/ Post \/ PostAnswered \/ Gone \/ PostLost \/ GivesUp
             \/ TimesOut \/ LeaseLost \/ Dies \/ Read
    BY <1>0, <1>6 DEF Claim, Hook, Post, PostAnswered, Gone, PostLost, GivesUp,
       TimesOut, LeaseLost, Dies, Read, Keeps
  <1>. QED
    BY Zenon, <1>1, <1>2, <1>3, <1>4, <1>5, <1>6 DEF Next, TurnStep, JobStep

LEMMA TypeSteps ==
    ASSUME TypeOK, [Next]_vars PROVE TypeOK'
  <1>. USE DEF Sits, Works, people, bounds
  <1>1. SeatOK' /\ JobOK' BY SeatTyped, JobTyped
  <1>2. past' \subseteq Copies BY Frames
  <1>3. inbox' \in Seq(Frame)
    <2>1. Good(past') \subseteq Frame BY DEF Good
    <2>. QED BY <2>1, Frames, InboxGrows DEF TypeOK
  <1>4. used' \in 0..MaxEvents /\ withdrawn' \subseteq Copies
    <2>1. used \in 0..MaxEvents /\ withdrawn \subseteq Copies BY DEF TypeOK
    <2>2. used' = used \/ (used < MaxEvents /\ used' = used + 1)
      BY DEF Next, TurnStep, JobStep, Uses, Say, Withdraw, HeadDone, HeadStops,
         BegunStops, GoesLive, Aborts, Completes, Leaves, TurnEnd, TurnOver,
         HeadFails, Drain, BootDrains, PressStop, Quiesce, Resume, Restart, Claim,
         Press, Renew, Hook, Post, PostArrives, PostAnswered, DeleteArrives,
         AbortArrives, Read, Gone, Breaks, DeleteLost, AbortLost, PostLost,
         GivesUp, TimesOut, LeaseLost, Dies, vars
    <2>3. withdrawn' = withdrawn
          \/ \E m \in Messages : withdrawn' = withdrawn \union (Copies \intersect {m})
      BY DEF Next, TurnStep, JobStep, Say, Withdraw, HeadDone, HeadStops,
         BegunStops, GoesLive, Aborts, Completes, Leaves, TurnEnd, TurnOver,
         HeadFails, Drain, BootDrains, PressStop, Quiesce, Resume, Restart, Claim,
         Press, Renew, Hook, Post, PostArrives, PostAnswered, DeleteArrives,
         AbortArrives, Read, Gone, Breaks, DeleteLost, AbortLost, PostLost,
         GivesUp, TimesOut, LeaseLost, Dies, vars
    <2>4. used' \in 0..MaxEvents BY <2>1, <2>2, TurnsAssumption
    <2>. QED BY <2>1, <2>3, <2>4
  <1>5. /\ came' \in 0..MaxMessages /\ claims' \in 0..MaxClaims
        /\ pressed' \in BOOLEAN
    <2>1. /\ came \in 0..MaxMessages /\ claims \in 0..MaxClaims
          /\ pressed \in BOOLEAN BY DEF TypeOK
    <2>2. CASE Say \/ PostArrives \/ Claim \/ Press
      <3>1. came' = came \/ (came < MaxMessages /\ came' = came + 1)
        BY <2>1, <2>2, TurnsAssumption DEF Say, PostArrives, Claim, Press
      <3>2. claims' = claims \/ (claims < MaxClaims /\ claims' = claims + 1)
        BY <2>2 DEF Say, PostArrives, Claim, Press
      <3>3. pressed' = pressed \/ pressed' = TRUE
        BY <2>2 DEF Say, PostArrives, Claim, Press
      <3>4. pressed' \in BOOLEAN BY Zenon, <2>1, <3>3
      <3>. QED BY <2>1, <3>1, <3>2, <3>4, TurnsAssumption
    <2>3. CASE ~(Say \/ PostArrives \/ Claim \/ Press)
      <3>1. UNCHANGED <<came, claims, pressed>>
        BY <2>3 DEF Next, TurnStep, JobStep, Withdraw, HeadDone, HeadStops,
         BegunStops, GoesLive, Aborts, Completes, Leaves, TurnEnd, TurnOver,
         HeadFails, Drain, BootDrains, PressStop, Quiesce, Resume, Restart,
         Renew, Hook, Post, PostAnswered, DeleteArrives,
         AbortArrives, Read, Gone, Breaks, DeleteLost, AbortLost, PostLost,
         GivesUp, TimesOut, LeaseLost, Dies, vars
      <3>. QED BY Zenon, <2>1, <3>1
    <2>. QED BY <2>2, <2>3
  <1>. QED BY <1>1, <1>2, <1>3, <1>4, <1>5 DEF TypeOK

LEMMA TypeStarts == Init => TypeOK
  <1>. SUFFICES ASSUME Init PROVE TypeOK OBVIOUS
  <1>1. IsFiniteSet({}) /\ Cardinality({}) = 0 BY FS_EmptySet
  <1>2. SeatOK
    <2>1. TurnOK BY CopiesArePeopleNot DEF Init, NoTurn, TurnOK, Turns, Kinds
    <2>2. queue \subseteq Messages /\ IsFiniteSet(queue)
          /\ Cardinality(queue) <= QueueMax
      BY <1>1, TurnsAssumption DEF Init
    <2>. QED BY <2>1, <2>2 DEF Init, SeatOK, TurnOK, Turns
  <1>3. JobOK BY NoJobTyped, JobSays DEF Init
  <1>4. inbox \in Seq(Frame) BY EmptySeq DEF Init
  <1>5. /\ came \in 0..MaxMessages /\ claims \in 0..MaxClaims
        /\ used \in 0..MaxEvents
    BY TurnsAssumption DEF Init
  <1>6. pressed \in BOOLEAN /\ past \subseteq Copies /\ withdrawn \subseteq Copies
    BY DEF Init
  <1>. QED BY <1>2, <1>3, <1>4, <1>5, <1>6 DEF TypeOK

(* The state of the seat and of the job is well typed, and the queue has   *)
(* no more than it takes, however many disturbances come: a turn has the   *)
(* message that opened it, and only one that is not live keeps a signal.   *)
THEOREM Types == Spec => []TypeOK
  BY TypeStarts, TypeSteps, PTL DEF Spec

(***************************************************************************)
(* What the job reports is the end of a turn of its task.                  *)
(***************************************************************************)
(* The turn the job follows is a copy's, and it follows one as soon as it  *)
(* has seen its instruction.                                               *)
Knows ==
    /\ job.own \in Copies \union {None}
    /\ job.own = None => ~job.mine
(* A job that is not over has reported nothing.                            *)
Silent == job.at # "over" => job.out = "none"

OwnInv ==
    /\ TypeOK
    /\ inbox \in Seq(Good(past))
    /\ Knows /\ Silent /\ OwnResult

(* Only reading tells the job of a turn, or gives it an outcome of one.    *)
LEMMA Unread ==
    ASSUME TypeOK, [Next]_vars, ~Claim, ~Read
    PROVE  /\ job'.own = job.own /\ job'.mine = job.mine
           /\ job'.at # "over" => job.at # "over" /\ job'.out = job.out
           /\ job'.out \in Kinds => job'.out = job.out
  <1>. USE DEF Sits, Works, people, bounds
  <1>0. job \in Jobs BY JobSays DEF TypeOK
  <1>1. CASE \/ Hook \/ Post \/ PostArrives \/ Renew \/ Gone \/ Breaks \/ GivesUp
             \/ TimesOut \/ PostLost
    BY <1>0, <1>1, ZenonT(30) DEF Hook, Post, PostArrives, Renew, Gone, Breaks, GivesUp,
       TimesOut, PostLost, Ends, Fails, Target, Alive, Jobs, Kinds
  <1>2. CASE PostAnswered
    BY <1>0, <1>2 DEF PostAnswered, Ends, Fails, Target, StopsNow, Jobs, Kinds
  <1>3. CASE DeleteArrives \/ DeleteLost \/ AbortArrives \/ AbortLost
    BY <1>0, <1>3 DEF DeleteArrives, DeleteLost, AbortArrives, AbortLost, Ends,
       Alive, Jobs, Kinds
  <1>4. CASE LeaseLost \/ Dies \/ Restart
    BY <1>0, <1>4 DEF LeaseLost, Dies, Restart, Alive, Jobs, Kinds
  <1>5. CASE \/ Say \/ (\E m \in Messages : Withdraw(m)) \/ TurnStep \/ Completes
             \/ HeadFails \/ Drain \/ BootDrains \/ PressStop \/ Quiesce
             \/ Resume \/ Press \/ UNCHANGED vars
    <2>1. UNCHANGED job
      BY <1>5 DEF Say, Withdraw, TurnStep, HeadDone, HeadStops, BegunStops,
         GoesLive, Aborts, Completes, Leaves, TurnEnd, TurnOver, HeadFails, Drain,
         BootDrains, PressStop, Quiesce, Resume, Press, vars
    <2>. QED BY <2>1
  <1>. QED
    BY Zenon, <1>1, <1>2, <1>3, <1>4, <1>5 DEF Next, JobStep

LEMMA OwnSteps ==
    ASSUME OwnInv, [Next]_vars PROVE OwnInv'
  <1>0. /\ TypeOK /\ job \in Jobs /\ inbox \in Seq(Good(past))
        /\ Knows /\ Silent /\ OwnResult
    BY JobSays DEF OwnInv, TypeOK
  <1>1. TypeOK' /\ past \subseteq past' BY <1>0, TypeSteps, Frames
  <1>2. inbox' \in Seq(Good(past'))
    BY <1>0, <1>1, GoodGrows, InboxGrows, Frames
  <1>3. Knows' /\ Silent' /\ OwnResult'
    <2>1. CASE Claim
      BY <2>1 DEF Claim, NoJob, Knows, Silent, OwnResult, Kinds
    <2>2. CASE Read
      <3>. DEFINE f == Head(inbox)
      <3>1. f \in Good(past) /\ f \in Frame BY <1>0, <2>2 DEF Read, Good
      <3>2. UNCHANGED past /\ job.at = "reading"
        BY <2>2 DEF Read, Works
      <3>3. \/ job' = [job EXCEPT !.mine = Mine(f),
                         !.own = IF @ = None /\ Mine(f) THEN f.of ELSE @]
            \/ /\ job' = Ends(f.kind)
               /\ f.type = "ends" /\ job.own # None /\ job.own = f.of
            \/ job' = job
            \/ job' = [job EXCEPT
                  !.left = @ \/ (job.queueId /\ job.of \notin f.queued)]
        BY <2>2, <3>1 DEF Read, Frame
      <3>. HIDE DEF f
      <3>4. job.out = "none" BY <1>0, <3>2 DEF Silent
      <3>5. CASE job' = [job EXCEPT !.mine = Mine(f),
                           !.own = IF @ = None /\ Mine(f) THEN f.of ELSE @]
        <4>1. job'.out = "none" BY <1>0, <3>4, <3>5 DEF Jobs
        <4>2. Mine(f) => job.own # None \/ f.of \in Copies
          BY <1>0 DEF Mine, Knows
        <4>3. job'.own = IF job.own = None /\ Mine(f) THEN f.of ELSE job.own
          BY <1>0, <3>5 DEF Jobs
        <4>4. job'.mine <=> Mine(f) BY <1>0, <3>5 DEF Jobs
        <4>5. None \notin Copies BY CopiesArePeopleNot
        <4>6. Knows' BY <1>0, <4>2, <4>3, <4>4, <4>5 DEF Knows
        <4>. QED BY <4>1, <4>6 DEF Silent, OwnResult, Kinds
      <3>6. CASE job' = Ends(f.kind) /\ f.type = "ends"
                 /\ job.own # None /\ job.own = f.of
        <4>1. f.of \in past BY <1>0, <3>1, <3>6 DEF Knows, Good
        <4>2. job'.own = job.own /\ job'.mine = job.mine /\ job'.at = "over"
          BY <1>0, <3>6 DEF Ends, Jobs
        <4>. QED BY <1>0, <3>2, <3>6, <4>1, <4>2 DEF Knows, Silent, OwnResult
      <3>7. CASE job' = job
        BY <1>0, <3>2, <3>7 DEF Knows, Silent, OwnResult
      <3>8. CASE job' = [job EXCEPT
                          !.left = @ \/ (job.queueId /\ job.of \notin f.queued)]
        <4>1. /\ job'.own = job.own /\ job'.mine = job.mine
              /\ job'.out = "none"
          BY <1>0, <3>4, <3>8 DEF Jobs
        <4>. QED BY <1>0, <4>1 DEF Knows, Silent, OwnResult, Kinds
      <3>. QED BY <3>3, <3>5, <3>6, <3>7, <3>8
    <2>3. CASE ~Claim /\ ~Read
      <3>1. /\ job'.own = job.own /\ job'.mine = job.mine
            /\ job'.at # "over" => job.at # "over" /\ job'.out = job.out
            /\ job'.out \in Kinds => job'.out = job.out
        BY <1>0, <2>3, Unread
      <3>. QED BY <1>0, <1>1, <3>1 DEF Knows, Silent, OwnResult
    <2>. QED BY <2>1, <2>2, <2>3
  <1>. QED BY <1>1, <1>2, <1>3 DEF OwnInv

LEMMA OwnStarts == Init => OwnInv
  <1>. SUFFICES ASSUME Init PROVE OwnInv OBVIOUS
  <1>1. TypeOK BY TypeStarts
  <1>2. inbox \in Seq(Good(past)) BY EmptySeq DEF Init
  <1>3. Knows /\ Silent /\ OwnResult
    BY DEF Init, NoJob, Knows, Silent, OwnResult, Kinds
  <1>. QED BY <1>1, <1>2, <1>3 DEF OwnInv

(* A task's outcome is the end of a turn that one of its own instructions  *)
(* opened: readTurnResult never takes a person's turn for its own, however *)
(* many people write before, between and after.                            *)
THEOREM OwnTurn == Spec => []OwnResult
  <1>1. OwnInv /\ [Next]_vars => OwnInv' BY OwnSteps
  <1>2. OwnInv => OwnResult BY DEF OwnInv
  <1>. QED BY <1>1, <1>2, OwnStarts, PTL DEF Spec

(***************************************************************************)
(* Stop.                                                                   *)
(***************************************************************************)
(* The seat is told of a message once: what waits or runs has come, what   *)
(* runs waits no more, and an instruction's turn that was opened from the  *)
(* queue runs or is over.                                                  *)
Opened(m) == m \in past \/ turn.of = m
Numbered ==
    /\ \A m \in queue : m.n <= came
    /\ turn.of # None => turn.of.n <= came
Once == turn.of \notin queue
OverIsPast == turn.at = "over" /\ turn.of \in Copies => turn.of \in past
StartedOpened == \A m \in started \intersect Copies : Opened(m)
SeatInv == Numbered /\ Once /\ OverIsPast /\ StartedOpened

(* What the job knows of its instruction, and what it asks for.            *)
Early ==
    /\ job.at \in {"none", "claimed", "hooked"} => job.ans = "none"
    /\ job.at \in {"none", "claimed", "hooked", "posting"} => job.req = "none"
Posted ==
    /\ job.ans \in {"none", "refused"} => job.of = None
    /\ job.ans \in {"queued", "opened"} => job.of \in Copies /\ job.of.n <= came
    /\ job.ans = "opened" => Opened(job.of)
    /\ job.ans = "queued" => (turn.of = job.of => job.of \in started)
Follows ==
    job.at = "reading" =>
      /\ job.ans \in {"queued", "opened"}
      /\ job.queueId => job.ans = "queued"
      /\ ~job.queueId /\ ~job.stopped => job.ans = "opened"
      /\ job.stopped => job.req \in {"delete", "abort", "sent", "lost"}
Asks ==
    /\ job.req # "none" => job.ans \in {"queued", "opened"}
    /\ job.req = "delete" => job.ans = "queued"
    /\ job.req = "abort" => Opened(job.of)
    /\ job.req = "done" => ~Standing(job.of)
Reports ==
    job.out = "stopped" /\ job.req = "none" =>
      job.ans \in {"none", "refused", "lost"}
JobInv == Early /\ Posted /\ Follows /\ Asks /\ Reports

StopInv == OwnInv /\ SeatInv /\ JobInv

(* What a step may do to the seat's messages: nothing, take a new one into *)
(* the queue or into a turn, open the turn of one that waited, end a turn, *)
(* start anew, take one out of the queue.                                  *)
New(m) == m.n = came + 1 /\ came' = came + 1
Stays == UNCHANGED <<queue, started>> /\ turn'.of = turn.of
TurnStays ==
    /\ Stays /\ past \subseteq past'
    /\ turn'.at = "over" /\ turn.of \in Copies => turn.of \in past'
Takes(m) ==
    New(m) /\ queue' = queue \union {m} /\ UNCHANGED <<turn, started, past>>
Opening(m) ==
    /\ turn.at = "none" /\ turn'.at = "starting" /\ turn'.of = m
    /\ UNCHANGED past
OpensNew(m) == New(m) /\ Opening(m) /\ UNCHANGED <<queue, started>>
OpensOld(m) ==
    /\ m \in queue /\ Opening(m) /\ UNCHANGED came
    /\ queue' = queue \ {m} /\ started' = started \union {m}
Closes ==
    /\ turn.at = "over" /\ turn'.at = "none" /\ turn'.of = None
    /\ UNCHANGED <<queue, started, past, came>>
StartsAnew ==
    /\ turn'.at = "none" /\ turn'.of = None
    /\ queue' = queue \intersect People /\ started' = {}
    /\ IsPast /\ UNCHANGED came
Loses(m) == queue' = queue \ {m} /\ UNCHANGED <<turn, started, past, came>>
Moves ==
    \/ TurnStays /\ came' \in {came, came + 1}
    \/ \E m \in Messages : Takes(m) \/ OpensNew(m) \/ OpensOld(m) \/ Loses(m)
    \/ Closes \/ StartsAnew

LEMMA SeatMoves ==
    ASSUME TypeOK, OverIsPast, [Next]_vars PROVE Moves
  <1>. USE DEF Sits, Works, people, bounds
  <1>0. /\ turn \in Turns /\ job \in Jobs /\ came \in 0..MaxMessages
        /\ queue \subseteq Messages
    BY JobSays DEF TypeOK, SeatOK, Turns
  <1>1. CASE Say
    <2>1. Arrives("people") \in Messages /\ Arrives("people").n = came + 1
      BY <1>0, <1>1, ArrivesTyped, CopiesArePeopleNot, TurnsAssumption DEF Say
    <2>2. PICK m \in Messages :
            m.n = came + 1 /\ (Enqueue(m) \/ Send(m) \/ Steer(m))
      BY <1>1, <2>1 DEF Say
    <2>3. came' = came + 1 /\ UNCHANGED <<started, past>> BY <1>1 DEF Say
    <2>4. CASE Enqueue(m)
      BY <2>2, <2>3, <2>4 DEF Enqueue, Moves, Takes, New
    <2>5. CASE Send(m)
      <3>1. turn.at = "none" /\ turn'.at = "starting" /\ turn'.of = m
        BY <2>5 DEF Send, Running, Begin, NoTurn
      <3>. QED BY <2>2, <2>3, <2>5, <3>1 DEF Send, Moves, OpensNew, Opening, New
    <2>6. CASE Steer(m)
      BY <2>3, <2>6 DEF Steer, Moves, TurnStays, Stays, OverIsPast
    <2>. QED BY <2>2, <2>4, <2>5, <2>6
  <1>2. CASE PostArrives
    <2>1. UNCHANGED <<started, past>> BY <1>2 DEF PostArrives
    <2>2. CASE UNCHANGED <<queue, turn, came>>
      BY <2>1, <2>2 DEF Moves, TurnStays, Stays, OverIsPast
    <2>3. CASE ~UNCHANGED <<queue, turn, came>>
      <3>1. Arrives("job") \in Messages /\ Arrives("job").n = came + 1
            /\ came' = came + 1
        BY <1>0, <1>2, <2>3, ArrivesTyped, CopiesArePeopleNot DEF PostArrives
      <3>2. PICK m \in Messages : m.n = came + 1 /\ (Enqueue(m) \/ Send(m))
        BY <1>2, <2>3, <3>1 DEF PostArrives
      <3>3. CASE Enqueue(m)
        BY <2>1, <3>1, <3>2, <3>3 DEF Enqueue, Moves, Takes, New
      <3>4. CASE Send(m)
        <4>1. turn.at = "none" /\ turn'.at = "starting" /\ turn'.of = m
          BY <3>4 DEF Send, Running, Begin, NoTurn
        <4>. QED BY <2>1, <3>1, <3>2, <3>4, <4>1
                 DEF Send, Moves, OpensNew, Opening, New
      <3>. QED BY <3>2, <3>3, <3>4
    <2>. QED BY <2>2, <2>3
  <1>3. CASE Drain
    <2>1. CASE quiet \/ Running \/ queue = {}
      BY <1>3, <2>1 DEF Drain, Moves, TurnStays, Stays, OverIsPast
    <2>2. CASE ~(quiet \/ Running \/ queue = {})
      <3>1. PICK m \in queue : queue' = queue \ {m} /\ MarkStarted(m) /\ Begin(m)
        BY <1>3, <2>2 DEF Drain
      <3>2. turn.at = "none" /\ turn'.at = "starting" /\ turn'.of = m
        BY <2>2, <3>1 DEF Running, Begin, NoTurn
      <3>. QED BY <1>0, <1>3, <3>1, <3>2
               DEF Drain, MarkStarted, Moves, OpensOld, Opening
    <2>. QED BY <2>1, <2>2
  <1>4. CASE HeadStops \/ BegunStops \/ HeadFails \/ TurnEnd
    <2>1. /\ IsPast /\ UNCHANGED <<queue, started, came>> /\ turn'.of = turn.of
      BY <1>0, <1>4 DEF HeadStops, BegunStops, HeadFails, TurnEnd, Goes, Turns
    <2>. QED BY <2>1 DEF IsPast, Moves, TurnStays, Stays
  <1>5. CASE HeadDone \/ GoesLive \/ Completes \/ Aborts
    <2>1. UNCHANGED <<queue, started, came, past>> /\ turn'.of = turn.of
          /\ turn'.at # "over"
      BY <1>0, <1>5 DEF HeadDone, GoesLive, Completes, Aborts, Leaves, Goes, Turns
    <2>. QED BY <2>1 DEF Moves, TurnStays, Stays
  <1>6. CASE TurnOver
    BY <1>6 DEF TurnOver, Moves, Closes, NoTurn
  <1>7. CASE Restart
    BY <1>7 DEF Restart, Moves, StartsAnew, NoTurn
  <1>8. CASE PressStop \/ AbortArrives
    <2>1. UNCHANGED <<queue, started, came, past>> /\ turn'.of = turn.of
          /\ turn'.at = turn.at
      BY <1>0, <1>8 DEF PressStop, AbortArrives, Abort, Turns
    <2>. QED BY <2>1 DEF Moves, TurnStays, Stays, OverIsPast
  <1>9. CASE DeleteArrives \/ DeleteLost \/ (\E m \in Messages : Withdraw(m))
    <2>1. UNCHANGED <<turn, started, came, past>>
      BY <1>9 DEF DeleteArrives, DeleteLost, Withdraw
    <2>2. queue' = queue \/ \E m \in Messages : queue' = queue \ {m}
      <3>1. ASSUME NEW m, Cancel(m) PROVE \E k \in Messages : queue' = queue \ {k}
        BY <1>0, <3>1 DEF Cancel, Waits
      <3>. QED BY <1>9, <3>1 DEF DeleteArrives, DeleteLost, Withdraw
    <2>. QED BY <2>1, <2>2 DEF Moves, TurnStays, Stays, OverIsPast, Loses
  <1>10. CASE \/ BootDrains \/ Quiesce \/ Resume
              \/ Claim \/ Press \/ Renew \/ Hook \/ Post \/ PostAnswered \/ Read
              \/ Gone \/ Breaks \/ AbortLost \/ PostLost \/ GivesUp \/ TimesOut
              \/ LeaseLost \/ Dies \/ UNCHANGED vars
    <2>1. UNCHANGED <<queue, turn, started, past, came>>
      BY <1>10 DEF BootDrains, Quiesce, Resume, Claim, Press, Renew, Hook, Post,
         PostAnswered, Read, Gone, Breaks, AbortLost, PostLost, GivesUp, TimesOut,
         LeaseLost, Dies, seat, vars
    <2>. QED BY <2>1 DEF Moves, TurnStays, Stays, OverIsPast
  <1>. QED
    BY Zenon, <1>1, <1>2, <1>3, <1>4, <1>5, <1>6, <1>7, <1>8, <1>9, <1>10
       DEF Next, TurnStep, JobStep

(* An instruction whose turn was opened stays one.                         *)
LEMMA OpenedStays ==
    ASSUME TypeOK, OverIsPast, Moves, NEW m \in Copies, Opened(m)
    PROVE  Opened(m)'
  <1>. USE CopiesArePeopleNot
  <1>0. turn.at = "none" <=> turn.of = None BY DEF TypeOK, SeatOK
  <1>1. CASE TurnStays
    BY <1>1 DEF Opened, TurnStays, Stays
  <1>2. ASSUME NEW k \in Messages, Takes(k) \/ OpensNew(k) \/ OpensOld(k) \/ Loses(k)
        PROVE  Opened(m)'
    BY <1>0, <1>2 DEF Opened, Takes, OpensNew, OpensOld, Opening, Loses
  <1>3. CASE Closes \/ StartsAnew
    BY <1>3 DEF Opened, OverIsPast, Closes, StartsAnew, IsPast
  <1>. QED BY <1>1, <1>2, <1>3 DEF Moves

LEMMA SeatSteps ==
    ASSUME TypeOK, SeatInv, Moves PROVE SeatInv'
  <1>. USE CopiesArePeopleNot
  <1>0. /\ turn.at = "none" <=> turn.of = None
        /\ queue \subseteq Messages /\ came \in Nat
        /\ \A m \in Messages : m.n \in Nat
        /\ Numbered /\ Once /\ OverIsPast /\ StartedOpened
        /\ turn.of \in Messages \union {None}
    BY TurnsAssumption DEF TypeOK, SeatOK, SeatInv, Messages
  <1>1. StartedOpened'
    <2>1. ASSUME NEW m \in started \intersect Copies PROVE Opened(m)'
      BY <1>0, <2>1, OpenedStays DEF StartedOpened
    <2>2. ASSUME NEW m \in started', m \notin started PROVE Opened(m)'
      BY <2>2 DEF Moves, TurnStays, Stays, Takes, OpensNew, OpensOld, Opening, Loses,
         Closes, StartsAnew, Opened
    <2>. QED BY <2>1, <2>2 DEF StartedOpened
  <1>2. CASE TurnStays /\ came' \in {came, came + 1}
    BY <1>0, <1>1, <1>2 DEF TurnStays, Stays, SeatInv, Numbered, Once, OverIsPast
  <1>3. ASSUME NEW k \in Messages, Takes(k) PROVE SeatInv'
    BY <1>0, <1>1, <1>3 DEF Takes, New, SeatInv, Numbered, Once, OverIsPast
  <1>4. ASSUME NEW k \in Messages, OpensNew(k) PROVE SeatInv'
    BY <1>0, <1>1, <1>4 DEF OpensNew, Opening, New, SeatInv, Numbered, Once, OverIsPast
  <1>5. ASSUME NEW k \in Messages, OpensOld(k) PROVE SeatInv'
    BY <1>0, <1>1, <1>5 DEF OpensOld, Opening, SeatInv, Numbered, Once, OverIsPast
  <1>6. ASSUME NEW k \in Messages, Loses(k) PROVE SeatInv'
    BY <1>0, <1>1, <1>6 DEF Loses, SeatInv, Numbered, Once, OverIsPast
  <1>7. CASE Closes \/ StartsAnew
    BY <1>0, <1>1, <1>7 DEF Closes, StartsAnew, SeatInv, Numbered, Once, OverIsPast
  <1>. QED BY <1>2, <1>3, <1>4, <1>5, <1>6, <1>7 DEF Moves

(* An instruction that has come does not come again; what waited for its   *)
(* turn is marked when it is opened.                                       *)
LEMMA OldStays ==
    ASSUME TypeOK, SeatInv, Moves, NEW m \in Copies, m.n <= came
    PROVE  /\ m.n <= came'
           /\ ~Standing(m) => ~Standing(m)'
           /\ (turn.of = m => m \in started) => (turn'.of = m => m \in started')
  <1>. USE CopiesArePeopleNot
  <1>0. came \in Nat /\ m.n \in Nat /\ m # None
    BY TurnsAssumption DEF TypeOK, Copies, Messages
  <1>1. CASE TurnStays /\ came' \in {came, came + 1}
    BY <1>0, <1>1 DEF TurnStays, Stays, Standing, Waits
  <1>2. ASSUME NEW k \in Messages, Takes(k) \/ OpensNew(k)
        PROVE  m.n <= came' /\ m # k
    BY <1>0, <1>2 DEF Takes, OpensNew, New
  <1>3. ASSUME NEW k \in Messages, Takes(k) \/ OpensNew(k) \/ OpensOld(k) \/ Loses(k)
        PROVE  /\ m.n <= came'
               /\ ~Standing(m) => ~Standing(m)'
               /\ (turn.of = m => m \in started) => (turn'.of = m => m \in started')
    BY <1>0, <1>2, <1>3
       DEF Takes, OpensNew, OpensOld, Opening, Loses, Standing, Waits
  <1>4. CASE Closes \/ StartsAnew
    BY <1>0, <1>4 DEF Closes, StartsAnew, Standing, Waits
  <1>. QED BY <1>1, <1>3, <1>4 DEF Moves

(* While the job neither posts nor starts, what it knows of its            *)
(* instruction stays true of it.                                           *)
LEMMA SameOrder ==
    ASSUME TypeOK, SeatInv, Posted, Moves,
           job'.of = job.of, job'.ans = job.ans
    PROVE  /\ Posted'
           /\ job.ans \in {"queued", "opened"} =>
                /\ Opened(job.of) => Opened(job.of)'
                /\ ~Standing(job.of) => ~Standing(job.of)'
  <1>1. CASE job.ans \notin {"queued", "opened"}
    BY <1>1 DEF Posted
  <1>2. CASE job.ans \in {"queued", "opened"}
    <2>0. PICK m : job.of = m OBVIOUS
    <2>1. m \in Copies /\ m.n <= came BY <1>2, <2>0 DEF Posted
    <2>2. job'.of = m BY <2>0
    <2>3. Opened(m) => Opened(m)' BY <2>1, OpenedStays DEF SeatInv
    <2>4. /\ m.n <= came'
          /\ ~Standing(m) => ~Standing(m)'
          /\ (turn.of = m => m \in started) => (turn'.of = m => m \in started')
      BY <2>1, OldStays
    <2>6. /\ Opened(job.of) => Opened(job.of)'
          /\ ~Standing(job.of) => ~Standing(job.of)'
      BY <2>2, <2>3, <2>4, <2>0 DEF Opened, Standing, Waits
    <2>7. /\ job.ans = "opened" => Opened(job.of)
          /\ job.ans = "queued" => (turn.of = m => m \in started)
      BY <2>0 DEF Posted
    <2>. QED BY <1>2, <2>1, <2>2, <2>4, <2>6, <2>7 DEF Posted
  <1>. QED BY <1>1, <1>2

(* What a step leaves of the job's fields.                                 *)
SameJob ==
    /\ job'.at = job.at /\ job'.of = job.of /\ job'.ans = job.ans
    /\ job'.queueId = job.queueId /\ job'.stopped = job.stopped
    /\ job'.req = job.req /\ job'.out = job.out

LEMMA SameJobSteps ==
    ASSUME TypeOK, SeatInv, JobInv, Moves, SameJob
    PROVE  JobInv'
  <1>1. Posted' /\ (job.ans \in {"queued", "opened"} =>
                      /\ Opened(job.of) => Opened(job.of)'
                      /\ ~Standing(job.of) => ~Standing(job.of)')
    BY SameOrder DEF JobInv, SameJob
  <1>2. Asks' BY <1>1 DEF JobInv, SameJob, Asks
  <1>3. Early' /\ Follows' /\ Reports'
    BY DEF JobInv, SameJob, Early, Follows, Reports
  <1>. QED BY <1>1, <1>2, <1>3 DEF JobInv

(* Steps that come to a reading job or end it.                             *)
LEMMA ReadingSteps ==
    ASSUME TypeOK, SeatInv, JobInv, Silent, Moves, job.at = "reading",
           \/ Read \/ GivesUp \/ Gone \/ TimesOut \/ Breaks
    PROVE  JobInv'
  <1>0. job \in Jobs /\ job.out = "none" BY JobSays DEF TypeOK, Silent
  <1>1. /\ job'.of = job.of /\ job'.ans = job.ans /\ job'.req = job.req
        /\ \/ SameJob
           \/ job'.at = "over" /\ (job'.out = "stopped" => job.stopped)
    <2>1. CASE Read
      <3>1. Head(inbox) \in Frame BY <2>1 DEF TypeOK, Read
      <3>2. /\ Head(inbox).kind \in Kinds
            /\ Head(inbox).type \in {"opens", "ends", "queue"}
        BY <3>1 DEF Frame
      <3>3. SameJob \/ job' = Ends(Head(inbox).kind)
        BY <1>0, <2>1, <3>2 DEF Read, SameJob, Jobs
      <3>. QED BY <1>0, <3>2, <3>3 DEF SameJob, Ends, Kinds, Jobs
    <2>2. CASE GivesUp \/ Gone \/ TimesOut \/ Breaks
      BY <1>0, <2>2 DEF GivesUp, Gone, TimesOut, Breaks, Ends, Fails, Jobs
    <2>. QED BY <2>1, <2>2
  <1>2. CASE SameJob BY <1>2, SameJobSteps
  <1>3. CASE job'.at = "over" /\ (job'.out = "stopped" => job.stopped)
    <2>1. Posted' /\ (job.ans \in {"queued", "opened"} =>
                        /\ Opened(job.of) => Opened(job.of)'
                        /\ ~Standing(job.of) => ~Standing(job.of)')
      BY <1>1, SameOrder DEF JobInv
    <2>2. Asks' BY <1>1, <2>1 DEF JobInv, Asks
    <2>3. Early' /\ Follows' BY <1>3 DEF Early, Follows
    <2>4. Reports' BY <1>1, <1>3 DEF JobInv, Follows, Reports
    <2>. QED BY <2>1, <2>2, <2>3, <2>4 DEF JobInv
  <1>. QED BY <1>1, <1>2, <1>3

(* The instruction is posted.                                              *)
LEMMA PostingSteps ==
    ASSUME TypeOK, SeatInv, JobInv, Silent, Moves,
           Hook \/ Post \/ PostArrives \/ PostAnswered \/ PostLost
    PROVE  JobInv'
  <1>. USE DEF Works
  <1>0. job \in Jobs /\ (job.at # "over" => job.out = "none")
    BY JobSays DEF TypeOK, Silent
  <1>a. job.at \in {"claimed", "hooked", "posting"} => job.req = "none"
    BY DEF JobInv, Early
  <1>1. CASE Hook \/ Post
    <2>1. /\ job.ans = "none" /\ job.req = "none"
      BY <1>1, <1>a DEF JobInv, Early, Hook, Post
    <2>2. /\ job'.of = job.of /\ job'.ans = job.ans /\ job'.req = job.req
          /\ job'.at \in {"hooked", "posting", "over"}
      BY <1>0, <1>1 DEF Hook, Post, Ends, Jobs
    <2>3. Posted' BY <2>2, SameOrder DEF JobInv
    <2>. QED BY <2>1, <2>2, <2>3 DEF JobInv, Early, Follows, Asks, Reports
  <1>2. CASE PostArrives
    <2>1. job.at = "posting" /\ job.req = "none" /\ job.out = "none"
      BY <1>0, <1>2, <1>a DEF PostArrives
    <2>2. CASE job' = [job EXCEPT !.ans = "refused"]
      <3>1. /\ job'.of = None /\ job'.ans = "refused" /\ job'.req = "none"
            /\ job'.at = "posting" /\ job'.out = "none"
        BY <1>0, <1>2, <2>1, <2>2 DEF PostArrives, JobInv, Posted, Jobs
      <3>. QED BY <3>1 DEF JobInv, Early, Posted, Follows, Asks, Reports
    <2>3. CASE job' # [job EXCEPT !.ans = "refused"]
      <3>. DEFINE m == Arrives("job")
      <3>1. came < MaxMessages /\ came' = came + 1
            /\ \/ Enqueue(m) /\ job' = [job EXCEPT !.of = m, !.ans = "queued"]
               \/ Send(m) /\ job' = [job EXCEPT !.of = m, !.ans = "opened"]
        BY <1>2, <2>3 DEF PostArrives
      <3>2. m \in Copies /\ m.n = came + 1
        BY <3>1, ArrivesTyped DEF TypeOK
      <3>. HIDE DEF m
      <3>3. turn.of # m
        <4>1. came \in Nat BY DEF TypeOK
        <4>2. None # m BY <3>2, CopiesArePeopleNot
        <4>. QED BY <3>2, <4>1, <4>2 DEF SeatInv, Numbered
      <3>4. /\ job'.of = m /\ job'.req = "none" /\ job'.at = "posting"
            /\ job'.out = "none"
            /\ \/ job'.ans = "queued" /\ turn' = turn
               \/ job'.ans = "opened" /\ turn'.of = m
        BY <1>0, <2>1, <3>1 DEF Enqueue, Send, Begin, NoTurn, Jobs
      <3>5. m.n <= came' BY <3>1, <3>2 DEF TypeOK
      <3>6. Posted' BY <3>2, <3>3, <3>4, <3>5 DEF Posted, Opened
      <3>. QED BY <3>4, <3>6 DEF JobInv, Early, Follows, Asks, Reports
    <2>. QED BY <2>2, <2>3
  <1>3. CASE PostAnswered
    <2>1. /\ job.at = "posting" /\ job.req = "none" /\ job.out = "none"
          /\ job.ans \in {"queued", "opened", "refused"}
      BY <1>0, <1>3, <1>a DEF PostAnswered, Jobs
    <2>2. CASE job.ans = "refused"
      <3>1. /\ job'.of = job.of /\ job'.ans = job.ans /\ job'.req = "none"
            /\ job'.at = "over"
        BY <1>0, <1>3, <2>1, <2>2 DEF PostAnswered, Fails, Ends, Jobs
      <3>2. Posted' BY <3>1, SameOrder DEF JobInv
      <3>. QED BY <2>2, <3>1, <3>2 DEF JobInv, Early, Follows, Asks, Reports
    <2>3. CASE job.ans # "refused"
      <3>. DEFINE j == [job EXCEPT !.at = "reading",
                                   !.queueId = job.ans = "queued"]
      <3>1. /\ j.at = "reading" /\ j.of = job.of /\ j.ans = job.ans
            /\ j.stopped = job.stopped /\ j.req = "none" /\ j.out = "none"
            /\ j.queueId <=> job.ans = "queued"
            /\ j \in Jobs
        BY <1>0, <2>1 DEF Jobs
      <3>2. job' = StopsNow(j)
            \/ job' = [StopsNow(j) EXCEPT !.at = "over", !.out = "lost"]
        BY <1>3, <2>3 DEF PostAnswered
      <3>. HIDE DEF j
      <3>3. LET s == StopsNow(j) IN
            /\ s \in Jobs
            /\ s.at = "reading" /\ s.of = job.of /\ s.ans = job.ans
            /\ s.stopped = job.stopped
            /\ s.queueId => job.ans = "queued"
            /\ ~s.queueId /\ ~s.stopped => job.ans = "opened"
            /\ s.req \in {"none", "delete", "abort"} /\ s.out = "none"
            /\ s.stopped => s.req # "none"
            /\ s.req = "delete" => job.ans = "queued"
            /\ s.req = "abort" => job.ans = "opened"
        <4>1. StopsNow(j) \in Jobs BY <3>1, FieldTyped
        <4>2. CASE job.stopped
          BY <2>1, <2>3, <3>1, <4>1, <4>2 DEF StopsNow, Target, Jobs
        <4>3. CASE ~job.stopped
          BY <2>1, <2>3, <3>1, <4>1, <4>3 DEF StopsNow
        <4>. QED BY <4>2, <4>3
      <3>4. /\ job'.of = job.of /\ job'.ans = job.ans
            /\ job'.req \in {"none", "delete", "abort"}
            /\ job'.req = "delete" => job.ans = "queued"
            /\ job'.req = "abort" => job.ans = "opened"
            /\ \/ job'.at = "over" /\ job'.out = "lost"
               \/ /\ job'.at = "reading" /\ job'.out = "none"
                  /\ job'.queueId => job.ans = "queued"
                  /\ ~job'.queueId /\ ~job'.stopped => job.ans = "opened"
                  /\ job'.stopped => job'.req # "none"
        BY <3>2, <3>3 DEF Jobs
      <3>5. Posted' /\ (Opened(job.of) => Opened(job.of)')
        BY <2>1, <2>3, <3>4, SameOrder DEF JobInv
      <3>6. Asks' BY <2>1, <2>3, <3>4, <3>5 DEF JobInv, Posted, Asks
      <3>7. Early' /\ Follows' /\ Reports'
        BY <2>1, <2>3, <3>4 DEF Early, Follows, Reports
      <3>. QED BY <3>5, <3>6, <3>7 DEF JobInv
    <2>. QED BY <2>2, <2>3
  <1>4. CASE PostLost
    <2>1. job'.ans = "lost" /\ job'.at = "over" /\ job'.req = "none"
      BY <1>0, <1>4, <1>a DEF PostLost, Fails, Ends, Jobs
    <2>. QED BY <2>1 DEF JobInv, Early, Posted, Follows, Asks, Reports
  <1>. QED BY <1>1, <1>2, <1>3, <1>4

(* Stop is pressed, and its requests come to the seat.                     *)
LEMMA StoppingSteps ==
    ASSUME TypeOK, SeatInv, JobInv, Silent, Moves,
           \/ Renew \/ DeleteArrives \/ DeleteLost \/ AbortArrives \/ AbortLost
    PROVE  JobInv'
  <1>0. job \in Jobs /\ (job.at # "over" => job.out = "none")
    BY JobSays DEF TypeOK, Silent
  <1>a. job'.of = job.of /\ job'.ans = job.ans
    BY <1>0 DEF Renew, DeleteArrives, DeleteLost, AbortArrives, AbortLost, Target,
       Ends, Jobs
  <1>b. Posted' /\ (job.ans \in {"queued", "opened"} =>
                      /\ Opened(job.of) => Opened(job.of)'
                      /\ ~Standing(job.of) => ~Standing(job.of)')
    BY <1>a, SameOrder DEF JobInv
  <1>c. job.req # "none" => job.at \in {"reading", "over"}
    BY <1>0 DEF JobInv, Early, Jobs
  <1>1. CASE Renew /\ job.at = "reading"
    <2>1. /\ job'.at = "reading" /\ job'.stopped /\ ~job'.queueId
          /\ job'.req = IF job.queueId THEN "delete" ELSE "abort"
          /\ job'.out = "none" /\ ~job.stopped
      BY <1>0, <1>1 DEF Renew, Target, Jobs
    <2>2. /\ job.ans \in {"queued", "opened"}
          /\ job.queueId => job.ans = "queued"
          /\ ~job.queueId => job.ans = "opened" /\ Opened(job.of)
      BY <1>1, <2>1 DEF JobInv, Follows, Posted
    <2>3. Asks' BY <1>a, <1>b, <2>1, <2>2 DEF Asks
    <2>. QED BY <1>a, <1>b, <2>1, <2>2, <2>3
             DEF JobInv, Early, Follows, Reports
  <1>2. CASE Renew /\ job.at # "reading"
    <2>1. /\ job'.at = job.at /\ job'.req = job.req /\ job'.out = "none"
          /\ job'.at # "over"
      BY <1>0, <1>2 DEF Renew, Alive, Jobs
    <2>2. Asks' BY <1>a, <1>b, <2>1 DEF JobInv, Asks
    <2>. QED BY <1>2, <1>a, <1>b, <2>1, <2>2 DEF JobInv, Early, Follows, Reports
  <1>3. CASE DeleteArrives
    <2>1. /\ job.req = "delete" /\ job.ans = "queued" /\ job.of \in Copies
          /\ turn.of = job.of => job.of \in started
      BY <1>3 DEF DeleteArrives, JobInv, Asks, Posted
    <2>2. CASE job' = [job EXCEPT !.req = "abort"]
      <3>1. job.of \in started
        <4>1. job'.req = "abort" BY <1>0, <2>2 DEF Jobs
        <4>2. \A out : [Ends(out) EXCEPT !.req = "done"].req = "done"
          BY <1>0 DEF Ends, Jobs
        <4>. QED BY <1>3, <4>1, <4>2 DEF DeleteArrives
      <3>2. Opened(job.of) BY <2>1, <3>1 DEF SeatInv, StartedOpened
      <3>3. /\ job'.at = job.at /\ job'.queueId = job.queueId
            /\ job'.stopped = job.stopped /\ job'.req = "abort"
            /\ job'.out = job.out
        BY <1>0, <2>2 DEF Jobs
      <3>4. Asks' BY <1>a, <1>b, <2>1, <3>2, <3>3 DEF Asks
      <3>. QED BY <1>a, <1>b, <1>c, <2>1, <3>3, <3>4
               DEF JobInv, Early, Follows, Reports
    <2>3. CASE job' # [job EXCEPT !.req = "abort"]
      <3>1. job' = [Ends(IF Alive THEN "stopped" ELSE job.out)
                      EXCEPT !.req = "done"]
        BY <1>3, <2>3 DEF DeleteArrives
      <3>2. job'.at = "over" /\ job'.req = "done"
        BY <1>0, <3>1 DEF Ends, Jobs
      <3>3. turn' = turn BY <1>3 DEF DeleteArrives
      <3>4. /\ job.of \notin queue'
            /\ turn.of # job.of
        <4>1. CASE Cancel(job.of)
          BY <4>1 DEF Cancel, Waits, SeatInv, Once
        <4>2. CASE ~Cancel(job.of)
          BY <1>3, <2>1, <2>3, <4>2 DEF DeleteArrives, Waits
        <4>. QED BY <4>1, <4>2
      <3>5. ~Standing(job.of)' BY <1>a, <3>3, <3>4 DEF Standing, Waits
      <3>. QED BY <1>a, <1>b, <2>1, <3>2, <3>5
               DEF JobInv, Early, Follows, Asks, Reports
    <2>. QED BY <2>2, <2>3
  <1>4. CASE DeleteLost
    <2>1. job.req = "delete" /\ job.ans = "queued"
      BY <1>4 DEF DeleteLost, JobInv, Asks
    <2>2. /\ job'.at = job.at /\ job'.out = job.out
          /\ \/ job'.req = "none" /\ job'.queueId /\ ~job'.stopped /\ Alive
             \/ job'.req = "lost" /\ ~Alive
      BY <1>0, <1>4 DEF DeleteLost, Jobs
    <2>3. Asks' BY <1>a, <2>1, <2>2 DEF Asks
    <2>4. Reports' BY <1>0, <2>2 DEF Reports, Alive
    <2>5. Early' /\ Follows' BY <1>a, <1>c, <2>1, <2>2 DEF Early, Follows, Alive
    <2>. QED BY <1>b, <2>3, <2>4, <2>5 DEF JobInv
  <1>5. CASE AbortArrives \/ AbortLost
    <2>1. /\ job.req = "abort" /\ job'.req \in {"sent", "lost"}
          /\ job'.at = job.at /\ job'.queueId = job.queueId
          /\ job'.stopped = job.stopped /\ job'.out = job.out
      BY <1>0, <1>5 DEF AbortArrives, AbortLost, Jobs
    <2>2. Asks' BY <1>a, <2>1 DEF JobInv, Asks
    <2>. QED BY <1>a, <1>b, <1>c, <2>1, <2>2 DEF JobInv, Early, Follows, Reports
  <1>. QED BY <1>1, <1>2, <1>3, <1>4, <1>5

LEMMA JobSteps ==
    ASSUME TypeOK, SeatInv, JobInv, Silent, Moves, [Next]_vars
    PROVE  JobInv'
  <1>0. job \in Jobs /\ (job.at # "over" => job.out = "none")
    BY JobSays DEF TypeOK, Silent
  <1>1. CASE Claim
    BY <1>1 DEF Claim, NoJob, JobInv, Early, Posted, Follows, Asks, Reports
  <1>2. CASE Hook \/ Post \/ PostArrives \/ PostAnswered \/ PostLost
    BY <1>2, PostingSteps
  <1>3. CASE Renew \/ DeleteArrives \/ DeleteLost \/ AbortArrives \/ AbortLost
    BY <1>3, StoppingSteps
  <1>4. CASE Read \/ GivesUp \/ Gone \/ TimesOut \/ Breaks
    BY <1>4, ReadingSteps DEF Read, GivesUp, Gone, TimesOut, Breaks
  <1>5. CASE LeaseLost \/ Dies
    <2>1. CASE SameJob BY <2>1, SameJobSteps
    <2>2. CASE ~SameJob
      <3>1. /\ job'.of = job.of /\ job'.ans = job.ans /\ job'.req = job.req
            /\ job'.at = "over" /\ job'.out \in {"lost", "dead"}
        BY <1>0, <1>5, <2>2 DEF LeaseLost, Dies, SameJob, Jobs
      <3>2. Posted' /\ (job.ans \in {"queued", "opened"} =>
                          /\ Opened(job.of) => Opened(job.of)'
                          /\ ~Standing(job.of) => ~Standing(job.of)')
        BY <3>1, SameOrder DEF JobInv
      <3>3. Asks' BY <3>1, <3>2 DEF JobInv, Asks
      <3>. QED BY <3>1, <3>2, <3>3 DEF JobInv, Early, Follows, Reports
    <2>. QED BY <2>1, <2>2
  <1>6. CASE \/ Say \/ (\E m \in Messages : Withdraw(m)) \/ TurnStep \/ Completes
             \/ HeadFails \/ Drain \/ BootDrains \/ PressStop \/ Quiesce
             \/ Resume \/ Press \/ Restart \/ UNCHANGED vars
    <2>1. \/ job' = job
          \/ job' = [job EXCEPT
                        !.broken = job.at \in {"hooked", "posting", "reading"}]
      BY <1>6 DEF Say, Withdraw, TurnStep, HeadDone, HeadStops, BegunStops,
         GoesLive, Aborts, Completes, Leaves, TurnEnd, TurnOver, HeadFails, Drain,
         BootDrains, PressStop, Quiesce, Resume, Press, Restart, Sits, vars
    <2>2. SameJob BY <1>0, <2>1 DEF SameJob, Jobs
    <2>. QED BY <2>2, SameJobSteps
  <1>. QED
    BY Zenon, <1>1, <1>2, <1>3, <1>4, <1>5, <1>6 DEF Next, JobStep

LEMMA StopSteps ==
    ASSUME StopInv, [Next]_vars PROVE StopInv'
  <1>1. TypeOK /\ OwnInv /\ Silent /\ SeatInv /\ JobInv
    BY DEF StopInv, OwnInv
  <1>2. Moves BY <1>1, SeatMoves DEF SeatInv
  <1>. QED BY <1>1, <1>2, OwnSteps, SeatSteps, JobSteps DEF StopInv

LEMMA StopStarts == Init => StopInv
  <1>. SUFFICES ASSUME Init PROVE StopInv OBVIOUS
  <1>1. SeatInv
    BY CopiesArePeopleNot
       DEF Init, NoTurn, SeatInv, Numbered, Once, OverIsPast, StartedOpened
  <1>2. JobInv
    BY DEF Init, NoJob, JobInv, Early, Posted, Follows, Asks, Reports
  <1>. QED BY <1>1, <1>2, OwnStarts DEF StopInv

(* The stop of a task aborts no person's turn, neither one that was there  *)
(* first nor one that comes while the instruction waits in the queue,      *)
(* unless the instruction's own turn is over by the time the abort comes:  *)
(* stopTarget aborts only after the seat has said that it opened a turn    *)
(* for the instruction.                                                    *)
THEOREM PeopleSpared == Spec => StopSparesPeople
  <1>1. StopInv /\ [Next]_vars => StopInv' BY StopSteps
  <1>2. StopInv => [AbortArrives /\ turn.of \in People => job.of \in past]_vars
    <2>. SUFFICES ASSUME StopInv, AbortArrives, turn.of \in People
                  PROVE  job.of \in past
      OBVIOUS
    <2>1. job.ans \in {"queued", "opened"} /\ Opened(job.of)
      BY DEF StopInv, JobInv, Asks, AbortArrives
    <2>2. job.of \in Copies BY <2>1 DEF StopInv, JobInv, Posted
    <2>. QED BY <2>1, <2>2, CopiesArePeopleNot DEF Opened
  <1>. QED BY <1>1, <1>2, StopStarts, PTL DEF Spec, StopSparesPeople

(* A task that is reported as stopped, with no request of its own still on *)
(* the way or lost, is out of the target's session: its instruction is     *)
(* neither in the queue nor the turn that runs, and will not be.           *)
THEOREM StoppedIsOut == Spec => []StoppedStaysOut
  <1>1. StopInv /\ [Next]_vars => StopInv' BY StopSteps
  <1>2. StopInv => StoppedStaysOut
    <2>. SUFFICES ASSUME StopInv, job.out = "stopped", job.ans # "lost",
                         job.req \in {"none", "done"}
                  PROVE  ~Standing(job.of)
      BY DEF StoppedStaysOut
    <2>1. CASE job.req = "done"
      BY <2>1 DEF StopInv, JobInv, Asks
    <2>2. CASE job.req = "none"
      BY <2>2 DEF StopInv, JobInv, Reports, Posted, Standing
    <2>. QED BY <2>1, <2>2
  <1>. QED BY <1>1, <1>2, StopStarts, PTL DEF Spec
=============================================================================
