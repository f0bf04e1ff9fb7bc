------------------------- MODULE BotTasksOrderProofs -------------------------
(***************************************************************************)
(* The properties of BotTasks that depend on the order in which handlers    *)
(* write: what a row has gone through when a late write reaches it.  Each   *)
(* theorem names what it needs: owners that differ (OwnersApart), finishes  *)
(* that no claim overtakes, stops that no claim overtakes.  The instances   *)
(* in which one of these is missing violate the property.                   *)
(*                                                                         *)
(* A step is reduced to what it does to one row and its slots (Move) and to *)
(* its job, its call and what was handed out (Beside); the invariants are   *)
(* proved of the moves.                                                     *)
(***************************************************************************)
EXTENDS BotTasksProofs

-----------------------------------------------------------------------------
(* Hypotheses.                                                             *)

\* A bot that may be a main bot runs under an owner of its own.
OwnersApart ==
    \A a \in Mains : \A b \in Bot \ {a} : OwnerOf[a] # OwnerOf[b]

-----------------------------------------------------------------------------
(* Moves.                                                                  *)

RunOps == {"conclude", "answered", "cancelled", "reporting", "failed", "void"}
DeliverOps == {"done", "again", "undelivered"}
ConcludeOps == {"conclude", "answered", "cancelled", "reporting", "failed"}
OrphanOps == {"handOver", "drop", "giveUp"}

Keeps(t) == \A s \in Slot : pend'[t][s] = pend[t][s]
Puts(t, s, h) ==
    pend'[t][s] = h /\ \A q \in Slot \ {s} : pend'[t][q] = pend[t][q]

\* What a handler may decide on the row as it stands, slot by slot.
JobDecision(t, s, op) ==
    /\ Holds(JobOwner(t, s), row[t]) /\ job[t][s].stage # "idle"
    /\ \/ /\ row[t].status = "running" /\ op \in {"conclude", "void"}
          /\ op = "void" => row[t].stop
       \/ /\ row[t].status = "delivering" /\ op \in DeliverOps
          /\ op = "done" => job[t][s].ok
          /\ op = "again" => row[t].attempts < MaxAttempts

SweepDecision(t, op, e) ==
    /\ Settled(t) /\ e.status = row[t].status
    /\ op \in {"halt", "drop"} => row[t].stop
    /\ \/ op \in {"conclude", "halt"} /\ row[t].status \in RunPhase
       \/ /\ op = "requeue" /\ row[t].status \in Claimed
          /\ e.lease = "expired" /\ row[t].attempts < MaxAttempts
       \/ op = "undelivered" /\ row[t].status \in DeliverPhase
       \/ op \in OrphanOps /\ row[t].status = "answered"

PollDecision(t, op, e) ==
    /\ tool[t] = "waiting"
    /\ \/ /\ op = "take" /\ row[t].status = "answered"
          /\ e = [AnyRow EXCEPT !.status = "answered"]
       \/ op = "extend" /\ row[t].status \in RunPhase

CancelDecision(t, op) ==
    /\ tool'[t] = "stopped" /\ pend[t]["poll"].op = "idle"
    /\ \/ op = "revoke" /\ row[t].status = "queued"
       \/ op = "withdraw" /\ row[t].status = "answered"
       \/ op = "mark" /\ row[t].status \in RunPhase

Decision(t, s, op, e) ==
    \/ s \in Phase /\ JobDecision(t, s, op)
    \/ s = "sweep" /\ SweepDecision(t, op, e)
    \/ s = "poll" /\ PollDecision(t, op, e)
    \/ s = "cancel" /\ CancelDecision(t, op)

Creates(t) == Create(t) /\ Keeps(t)

Claims(t) ==
    /\ Settled(t) /\ Claimable(row[t]) /\ row'[t] = ClaimedRow(row[t])
    /\ \/ Keeps(t)
       \/ \E op \in {"conclude", "undelivered"} :
            /\ op = "conclude" <=> row[t].status = "queued"
            /\ Puts(t, PhaseOf(row[t]), [op |-> op, expect |-> AnyRow])

Decided(t) ==
    /\ row'[t] = row[t]
    /\ \E s \in Slot, op \in Op, e \in Expect :
         /\ pend[t][s].op = "idle" /\ Decision(t, s, op, e)
         /\ Puts(t, s, [op |-> op, expect |-> e])

Concludes(t) ==
    /\ row'[t] = row[t]
    /\ \E s \in Slot, op \in {"cancelled", "answered", "reporting", "failed"} :
         /\ pend[t][s].op = "conclude"
         /\ op = "cancelled" => row[t].stop
         /\ Puts(t, s, [op |-> op, expect |-> pend[t][s].expect])

Writes(t) ==
    \E s \in Slot :
        /\ pend[t][s].op \notin {"idle", "conclude"}
        /\ s = "sweep" => Settled(t)
        /\ row'[t] = Written(row[t], pend[t][s])
        /\ Puts(t, s, Idle)
        /\ pend[t][s].op = "take" /\ row[t].status = "answered"
             /\ s = "poll" => "taken" \in handed'[t]

Drops(t) == row'[t] = row[t] /\ \E s \in Slot : Puts(t, s, Idle)

Ticks(t) ==
    /\ Keeps(t)
    /\ \/ row'[t] = row[t]
       \/ /\ row[t].status \in Claimed
          /\ row'[t] = [row[t] EXCEPT !.lease = "live"]
       \/ /\ pend[t]["sweep"].op = "idle"
          /\ row'[t] = [row[t] EXCEPT !.lease = "expired"]
       \/ row'[t] = [row[t] EXCEPT !.waiter = "expired"]
       \/ row'[t] = [row[t] EXCEPT !.overdue = TRUE]

Move(t) ==
    \/ Creates(t) \/ Claims(t) \/ Decided(t) \/ Concludes(t)
    \/ Writes(t) \/ Drops(t) \/ Ticks(t)

\* What the same step does to the deliver job, to the conclusions given out and
\* to the call.
Beside(t) ==
    /\ job'[t]["deliver"].stage # "idle" =>
         \/ job[t]["deliver"].stage # "idle"
         \/ row[t].status = "reporting" /\ row'[t].status = "delivering"
    /\ job'[t]["deliver"].ok => job[t]["deliver"].ok \/ "posted" \in handed'[t]
    /\ "posted" \in handed'[t] =>
         \/ "posted" \in handed[t]
         \/ job[t]["deliver"].stage # "idle" /\ row'[t] = row[t]
    /\ handed[t] \subseteq handed'[t]
    /\ "taken" \in handed'[t] =>
         \/ "taken" \in handed[t]
         \/ /\ pend[t]["poll"].op = "take" /\ row[t].status = "answered"
            /\ row'[t] = Written(row[t], pend[t]["poll"])
            /\ Puts(t, "poll", Idle)
            /\ job' = job
    /\ tool'[t] = tool[t] \/ tool[t] = "waiting" \/ row[t].status = "absent"

Away(t) ==
    \A u \in Task \ {t} :
        /\ row'[u] = row[u] /\ pend'[u] = pend[u] /\ job'[u] = job[u]
        /\ tool'[u] = tool[u] /\ handed'[u] = handed[u]

Moves(t) == Move(t) /\ Beside(t) /\ Away(t)

LEMMA PutFacts ==
    ASSUME TypeOK, NEW t \in Task, NEW s \in Slot, NEW h,
           pend' = [pend EXCEPT ![t][s] = h]
    PROVE  Puts(t, s, h) /\ \A u \in Task \ {t} : pend'[u] = pend[u]
  BY DEF TypeOK, Puts

LEMMA JobPut ==
    ASSUME TypeOK, NEW t \in Task, NEW ph \in Phase, NEW j,
           job' = [job EXCEPT ![t][ph] = j]
    PROVE  /\ job'[t][ph] = j
           /\ \A q \in Phase \ {ph} : job'[t][q] = job[t][q]
           /\ \A u \in Task \ {t} : job'[u] = job[u]
  BY DEF TypeOK

\* The deliver job after a step that sets no job, ends one or moves it on.
Onward(t) ==
    /\ job'[t]["deliver"].stage # "idle" => job[t]["deliver"].stage # "idle"
    /\ job'[t]["deliver"].ok => job[t]["deliver"].ok
    /\ \A u \in Task \ {t} : job'[u] = job[u]

LEMMA JobOnward ==
    ASSUME TypeOK, NEW t \in Task, NEW ph \in Phase,
           \/ job' = job
           \/ job' = [job EXCEPT ![t][ph] = NoJob]
           \/ /\ job[t][ph].stage # "idle"
              /\ \/ job' = [job EXCEPT ![t][ph] = EndedJob(FALSE)]
                 \/ job' = [job EXCEPT ![t][ph].stopped = TRUE]
                 \/ \E st \in Stage : job' = [job EXCEPT ![t][ph].stage = st]
    PROVE  Onward(t)
<1>1. job[t] \in [Phase -> Job] /\ job[t][ph] \in Job /\ "deliver" \in Phase
  BY SlotFacts DEF TypeOK
<1>2. ASSUME NEW j \in Job, job' = [job EXCEPT ![t][ph] = j],
             j.stage # "idle" => job[t][ph].stage # "idle",
             j.ok => job[t][ph].ok
      PROVE  Onward(t)
  <2>1. /\ job'[t][ph] = j
        /\ \A q \in Phase \ {ph} : job'[t][q] = job[t][q]
        /\ \A u \in Task \ {t} : job'[u] = job[u]
    BY <1>2, JobPut
  <2> QED
    BY <1>1, <1>2, <2>1 DEF Onward
<1>3. CASE job' = job
  BY <1>3 DEF Onward
<1>4. CASE job' = [job EXCEPT ![t][ph] = NoJob]
  BY <1>2, <1>4, JobFacts DEF NoJob
<1>5. CASE /\ job[t][ph].stage # "idle"
           /\ job' = [job EXCEPT ![t][ph] = EndedJob(FALSE)]
  <2>1. ~EndedJob(FALSE).ok
    BY DEF EndedJob, NoJob
  <2> QED
    BY <1>2, <1>5, <2>1, JobFacts
<1>6. CASE /\ job[t][ph].stage # "idle"
           /\ job' = [job EXCEPT ![t][ph].stopped = TRUE]
  <2> DEFINE j == [job[t][ph] EXCEPT !.stopped = TRUE]
  <2>1. j \in Job /\ j.ok = job[t][ph].ok
    BY <1>1 DEF Job
  <2>2. job' = [job EXCEPT ![t][ph] = j]
    BY <1>6
  <2> HIDE DEF j
  <2> QED
    BY <1>2, <1>6, <2>1, <2>2
<1>7. ASSUME job[t][ph].stage # "idle", NEW st \in Stage,
             job' = [job EXCEPT ![t][ph].stage = st]
      PROVE  Onward(t)
  <2> DEFINE j == [job[t][ph] EXCEPT !.stage = st]
  <2>1. j \in Job /\ j.ok = job[t][ph].ok
    BY <1>1 DEF Job
  <2>2. job' = [job EXCEPT ![t][ph] = j]
    BY <1>7
  <2> HIDE DEF j
  <2> QED
    BY <1>2, <1>7, <2>1, <2>2
<1> QED
  BY <1>3, <1>4, <1>5, <1>6, <1>7

\* Most steps leave the conclusions given out and the call alone.
LEMMA QuietBeside ==
    ASSUME NEW t \in Task, Onward(t), handed' = handed, tool' = tool
    PROVE  Beside(t)
  BY DEF Onward, Beside

\* A step that touches the row and the slots of one task, and no call.
LEMMA QuietMoves ==
    ASSUME NEW t \in Task, Move(t), Onward(t), handed' = handed, tool' = tool,
           \A u \in Task \ {t} : row'[u] = row[u] /\ pend'[u] = pend[u]
    PROVE  Moves(t)
  BY QuietBeside DEF Moves, Away, Onward

LEMMA RowPut ==
    ASSUME TypeOK, NEW t \in Task, NEW r, row' = [row EXCEPT ![t] = r]
    PROVE  row'[t] = r /\ \A u \in Task \ {t} : row'[u] = row[u]
  BY DEF TypeOK

\* A handler that begins, decided on the row as it stands.
LEMMA BeginDecides ==
    ASSUME TypeOK, NEW t \in Task, NEW s \in Slot, NEW op \in Op,
           NEW e \in Expect, pend[t][s].op = "idle", Decision(t, s, op, e),
           Begin(t, s, op, e), row' = row
    PROVE  Decided(t) /\ \A u \in Task \ {t} : pend'[u] = pend[u]
<1>1. /\ Puts(t, s, [op |-> op, expect |-> e])
      /\ \A u \in Task \ {t} : pend'[u] = pend[u]
  BY PutFacts DEF Begin
<1> QED
  BY <1>1 DEF Decided

-----------------------------------------------------------------------------
(* The Gateway's handlers.                                                 *)

LEMMA CreateMoves ==
    ASSUME TypeOK, NEW t \in Task, Create(t)
    PROVE  Moves(t)
<1>1. /\ pend' = pend /\ job' = job /\ handed' = handed
      /\ row[t].status = "absent"
  BY DEF Create
<1>2. \A u \in Task \ {t} : row'[u] = row[u] /\ tool'[u] = tool[u]
  BY DEF Create, TypeOK
<1>3. Move(t)
  BY <1>1 DEF Move, Creates, Keeps
<1> QED
  BY <1>1, <1>2, <1>3 DEF Moves, Beside, Away

LEMMA ConcludeMoves ==
    ASSUME TypeOK, NEW t \in Task, NEW s \in Slot, ConcludeRead(t, s)
    PROVE  Moves(t)
<1>1. PICK op \in {"cancelled", "answered", "reporting", "failed"} :
        /\ pend' = [pend EXCEPT ![t][s].op = op]
        /\ op = "cancelled" => row[t].stop
  BY DEF ConcludeRead
<1>2. pend' = [pend EXCEPT
                 ![t][s] = [op |-> op, expect |-> pend[t][s].expect]]
  <2>1. pend[t][s] \in Handler
    BY DEF TypeOK
  <2>2. [pend[t][s] EXCEPT !.op = op]
          = [op |-> op, expect |-> pend[t][s].expect]
    BY <2>1 DEF Handler
  <2> QED
    BY <1>1, <2>2
<1>3. /\ Puts(t, s, [op |-> op, expect |-> pend[t][s].expect])
      /\ \A u \in Task \ {t} : pend'[u] = pend[u]
  BY <1>2, PutFacts
<1>4. Move(t)
  BY <1>1, <1>3 DEF ConcludeRead, Move, Concludes
<1>5. Onward(t)
  BY DEF ConcludeRead, Onward
<1> QED
  BY <1>3, <1>4, <1>5, QuietMoves DEF ConcludeRead

\* A finish is over when its write is, or when the Gateway stops.
LEMMA FinishedOnward ==
    ASSUME TypeOK, NEW t \in Task, NEW s \in Slot,
           job' = IF s \in Phase /\ job[t][s].stage = "finishing"
                  THEN [job EXCEPT ![t][s] = NoJob] ELSE job
    PROVE  Onward(t)
<1>1. CASE s \in Phase /\ job[t][s].stage = "finishing"
  BY <1>1, JobOnward
<1>2. CASE ~(s \in Phase /\ job[t][s].stage = "finishing")
  BY <1>2 DEF Onward
<1> QED
  BY <1>1, <1>2

LEMMA WriteMoves ==
    ASSUME TypeOK, NEW t \in Task, NEW s \in Slot, HandlerWrite(t, s)
    PROVE  Moves(t)
<1>1. /\ row'[t] = Written(row[t], pend[t][s])
      /\ \A u \in Task \ {t} : row'[u] = row[u]
  BY RowPut DEF HandlerWrite
<1>2. Puts(t, s, Idle) /\ \A u \in Task \ {t} : pend'[u] = pend[u]
  BY PutFacts DEF HandlerWrite
<1>3. Writes(t)
  BY <1>1, <1>2 DEF HandlerWrite, Writes
<1>4. Onward(t)
  BY FinishedOnward DEF HandlerWrite
<1> QED
  BY <1>1, <1>2, <1>3, <1>4, QuietMoves DEF HandlerWrite, Move

LEMMA HandlerDiesMoves ==
    ASSUME TypeOK, NEW t \in Task, NEW s \in Slot, HandlerDies(t, s)
    PROVE  Moves(t)
<1>1. Puts(t, s, Idle) /\ \A u \in Task \ {t} : pend'[u] = pend[u]
  BY PutFacts DEF HandlerDies
<1>2. Drops(t)
  BY <1>1 DEF HandlerDies, Drops
<1>3. Onward(t)
  BY FinishedOnward DEF HandlerDies
<1> QED
  BY <1>1, <1>2, <1>3, QuietMoves DEF HandlerDies, Move

\* The claimed row of a deliver step.
LEMMA ClaimedStatus ==
    ASSUME NEW r \in Row, Claimable(r)
    PROVE  /\ r.status = "queued" => ClaimedRow(r).status = "running"
           /\ r.status = "reporting" => ClaimedRow(r).status = "delivering"
           /\ r.status \in {"queued", "reporting"}
           /\ r.status = "queued" <=> PhaseOf(r) = "run"
           /\ r.status = "reporting" <=> PhaseOf(r) = "deliver"
           /\ ClaimedRow(r).lease = "live"
           /\ ClaimedRow(r).attempts = r.attempts + 1
           /\ ClaimedRow(r).owner = r.owner
           /\ ClaimedRow(r).stop = r.stop
           /\ ClaimedRow(r).from = r.from /\ ClaimedRow(r).to = r.to
<1>1. r.status \in {"queued", "reporting"}
  BY DEF Claimable
<1>2. /\ r.status = "queued" <=> PhaseOf(r) = "run"
      /\ r.status = "reporting" <=> PhaseOf(r) = "deliver"
  BY <1>1 DEF PhaseOf, RunPhase
<1> QED
  BY <1>1, <1>2 DEF ClaimedRow, Row

LEMMA ClaimMoves ==
    ASSUME TypeOK, NEW t \in Task, Claim(t)
    PROVE  Moves(t)
<1>1. /\ row'[t] = ClaimedRow(row[t]) /\ Claimable(row[t]) /\ Settled(t)
      /\ \A u \in Task \ {t} : row'[u] = row[u]
  BY RowPut DEF Claim
<1>2. row[t] \in Row
  BY DEF TypeOK
<1>3. /\ pend' = pend /\ handed' = handed /\ tool' = tool
      /\ Keeps(t)
  BY DEF Claim, Keeps
<1>4. Move(t)
  BY <1>1, <1>3 DEF Move, Claims
<1>5. CASE job' = job
  <2>1. Onward(t)
    BY <1>5 DEF Onward
  <2> QED
    BY <1>1, <1>3, <1>4, <2>1, QuietMoves
<1>6. ASSUME NEW ph \in Phase, ph = PhaseOf(row[t]),
             job' = [job EXCEPT ![t][ph] = NewJob]
      PROVE  Moves(t)
  <2>1. /\ job'[t][ph] = NewJob
        /\ \A q \in Phase \ {ph} : job'[t][q] = job[t][q]
        /\ \A u \in Task \ {t} : job'[u] = job[u]
    BY <1>6 DEF TypeOK
  <2>2. ~NewJob.ok
    BY DEF NewJob, NoJob
  <2>3. ph = "deliver" =>
          row[t].status = "reporting" /\ row'[t].status = "delivering"
    BY <1>1, <1>2, <1>6, ClaimedStatus, ZenonT(60)
  <2>4. ph # "deliver" => job'[t]["deliver"] = job[t]["deliver"]
    BY <2>1, SlotFacts
  <2>5. Beside(t)
    BY <1>3, <2>1, <2>2, <2>3, <2>4 DEF Beside
  <2> QED
    BY <1>1, <1>3, <1>4, <2>1, <2>5 DEF Moves, Away
<1>7. PhaseOf(row[t]) \in Phase
  BY DEF PhaseOf, Phase
<1> QED
  BY <1>5, <1>6, <1>7 DEF Claim

LEMMA ClaimUnseatedMoves ==
    ASSUME TypeOK, NEW t \in Task, ClaimUnseated(t)
    PROVE  Moves(t)
<1>1. /\ row'[t] = ClaimedRow(row[t]) /\ Claimable(row[t]) /\ Settled(t)
      /\ \A u \in Task \ {t} : row'[u] = row[u]
  BY RowPut DEF ClaimUnseated
<1>2. row[t] \in Row
  BY DEF TypeOK
<1>3. PICK op \in {"conclude", "undelivered"} :
        /\ op = "conclude" <=> PhaseOf(row[t]) = "run"
        /\ Begin(t, PhaseOf(row[t]), op, AnyRow)
  BY DEF ClaimUnseated
<1>4. PhaseOf(row[t]) \in Slot
  BY DEF PhaseOf, Slot
<1>5. /\ Puts(t, PhaseOf(row[t]), [op |-> op, expect |-> AnyRow])
      /\ \A u \in Task \ {t} : pend'[u] = pend[u]
  BY <1>3, <1>4, PutFacts DEF Begin
<1>6. op = "conclude" <=> row[t].status = "queued"
  BY <1>1, <1>2, <1>3, ClaimedStatus
<1>7. Move(t)
  BY <1>1, <1>5, <1>6 DEF Move, Claims
<1>8. Onward(t)
  BY DEF ClaimUnseated, Onward
<1> QED
  BY <1>1, <1>5, <1>7, <1>8, QuietMoves DEF ClaimUnseated

-----------------------------------------------------------------------------
(* The jobs.                                                               *)

LEMMA RenewalTicks ==
    ASSUME TypeOK, NEW t \in Task, NEW ph \in Phase, pend' = pend,
           \/ row' = row
           \/ /\ Holds(JobOwner(t, ph), row[t])
              /\ row' = [row EXCEPT ![t].lease = "live"]
    PROVE  Move(t) /\ \A u \in Task \ {t} : row'[u] = row[u]
<1>1. CASE row' = row
  BY <1>1 DEF Move, Ticks, Keeps
<1>2. CASE /\ Holds(JobOwner(t, ph), row[t])
           /\ row' = [row EXCEPT ![t].lease = "live"]
  BY <1>2 DEF Move, Ticks, Keeps, Holds, TypeOK
<1> QED
  BY <1>1, <1>2

LEMMA StartedMoves ==
    ASSUME TypeOK, NEW t \in Task, NEW ph \in Phase, Started(t, ph)
    PROVE  Moves(t)
<1>1. job[t][ph].stage = "ready" /\ handed' = handed /\ tool' = tool
      /\ ph \in Slot
  BY SlotFacts DEF Started
<1>2. Onward(t)
  <2>1. "hooked" \in Stage
    BY DEF Stage
  <2> QED
    BY <1>1, <2>1, JobOnward DEF Started
<1>3. CASE /\ pend' = pend
           /\ \/ row' = row
              \/ /\ Holds(JobOwner(t, ph), row[t])
                 /\ row' = [row EXCEPT ![t].lease = "live"]
  BY <1>1, <1>2, <1>3, RenewalTicks, QuietMoves
<1>4. ASSUME NEW op \in {"void", "conclude"}, row' = row,
             Holds(JobOwner(t, ph), row[t]), row[t].status = "running",
             op = "void" => row[t].stop,
             pend[t][ph].op = "idle", Begin(t, ph, op, AnyRow)
      PROVE  Moves(t)
  <2>1. JobDecision(t, ph, op)
    BY <1>1, <1>4 DEF JobDecision
  <2>2. op \in Op /\ AnyRow \in Expect
    BY HandlerFacts DEF Op
  <2>3. Decided(t) /\ \A u \in Task \ {t} : pend'[u] = pend[u]
    BY <1>1, <1>4, <2>1, <2>2, BeginDecides DEF Decision
  <2> QED
    BY <1>1, <1>2, <1>4, <2>3, QuietMoves DEF Move
<1> QED
  BY <1>3, <1>4 DEF Started

LEMMA RenewMoves ==
    ASSUME TypeOK, NEW t \in Task, NEW ph \in Phase, Renew(t, ph)
    PROVE  Moves(t)
<1>1. job[t][ph].stage # "idle" /\ handed' = handed /\ tool' = tool
      /\ pend' = pend
  BY DEF Renew
<1>2. Onward(t)
  BY <1>1, JobOnward DEF Renew
<1>3. Move(t) /\ \A u \in Task \ {t} : row'[u] = row[u]
  BY <1>1, RenewalTicks DEF Renew
<1> QED
  BY <1>1, <1>2, <1>3, QuietMoves

\* The run job at work touches neither the row nor what is given out.
LEMMA RunJobOnward ==
    ASSUME TypeOK, NEW t \in Task, NEW j, job' = [job EXCEPT ![t]["run"] = j]
    PROVE  Onward(t)
<1>1. "run" \in Phase /\ "deliver" \in Phase \ {"run"}
  BY DEF Phase
<1>2. /\ \A q \in Phase \ {"run"} : job'[t][q] = job[t][q]
      /\ \A u \in Task \ {t} : job'[u] = job[u]
  BY <1>1, JobPut
<1> QED
  BY <1>1, <1>2 DEF Onward

LEMMA TurnMoves ==
    ASSUME TypeOK, NEW t \in Task,
           \/ PostRun(t)
           \/ \E ok \in BOOLEAN : TurnEnds(t, ok)
           \/ StopTarget(t)
    PROVE  Moves(t)
<1>1. row' = row /\ pend' = pend /\ tool' = tool /\ handed' = handed
  BY DEF PostRun, TurnEnds, StopTarget
<1>2. \E j : job' = [job EXCEPT ![t]["run"] = j]
  <2>1. CASE job' = [job EXCEPT ![t]["run"].stage = "sent"]
    <3>1. job' = [job EXCEPT ![t]["run"] =
                    [job[t]["run"] EXCEPT !.stage = "sent"]]
      BY <2>1
    <3> QED
      BY <3>1
  <2>2. CASE \E ok \in BOOLEAN : job' = [job EXCEPT ![t]["run"] = EndedJob(ok)]
    BY <2>2
  <2> QED
    BY <2>1, <2>2 DEF PostRun, TurnEnds, StopTarget
<1>3. Onward(t)
  BY <1>2, RunJobOnward
<1>4. Move(t)
  BY <1>1 DEF Move, Ticks, Keeps
<1> QED
  BY <1>1, <1>3, <1>4, QuietMoves

LEMMA PostResultMoves ==
    ASSUME TypeOK, NEW t \in Task, PostResult(t)
    PROVE  Moves(t)
<1>1. /\ row' = row /\ pend' = pend /\ tool' = tool
      /\ handed' = [handed EXCEPT ![t] = handed[t] \cup {"posted"}]
      /\ job[t]["deliver"].stage = "hooked"
      /\ job' = [job EXCEPT ![t]["deliver"] = EndedJob(TRUE)]
  BY DEF PostResult
<1>2. \A u \in Task \ {t} : job'[u] = job[u] /\ handed'[u] = handed[u]
  BY <1>1, JobPut, SlotFacts DEF TypeOK
<1>3. handed'[t] = handed[t] \cup {"posted"}
  BY <1>1 DEF TypeOK
<1>4. Beside(t)
  BY <1>1, <1>3 DEF Beside
<1>5. Move(t)
  BY <1>1 DEF Move, Ticks, Keeps
<1> QED
  BY <1>1, <1>2, <1>4, <1>5 DEF Moves, Away

LEMMA BreaksMoves ==
    ASSUME TypeOK, NEW t \in Task, NEW ph \in Phase,
           JobBreaks(t, ph) \/ JobDies(t, ph)
    PROVE  Moves(t)
<1>1. /\ row' = row /\ pend' = pend /\ tool' = tool
      /\ job[t][ph].stage # "idle"
  BY DEF JobBreaks, JobDies
<1>2. Onward(t)
  BY <1>1, JobOnward DEF JobBreaks, JobDies
<1>3. Move(t)
  BY <1>1 DEF Move, Ticks, Keeps
<1>4. CASE handed' = handed
  BY <1>1, <1>2, <1>3, <1>4, QuietMoves
<1>5. CASE ph = "deliver" /\ handed' = [handed EXCEPT ![t] = @ \cup {"posted"}]
  <2>1. handed'[t] = handed[t] \cup {"posted"}
        /\ \A u \in Task \ {t} : handed'[u] = handed[u]
    BY <1>5 DEF TypeOK
  <2>2. Beside(t)
    BY <1>1, <1>2, <1>5, <2>1 DEF Beside, Onward
  <2> QED
    BY <1>1, <1>2, <1>3, <2>1, <2>2 DEF Moves, Away, Onward
<1> QED
  BY <1>4, <1>5 DEF JobBreaks, JobDies

LEMMA FinishMoves ==
    ASSUME TypeOK, NEW t \in Task, NEW ph \in Phase, FinishCall(t, ph)
    PROVE  Moves(t)
<1>1. /\ row' = row /\ tool' = tool /\ handed' = handed
      /\ job[t][ph].stage = "ended" /\ ph \in Slot
  BY SlotFacts DEF FinishCall
<1>2. Onward(t)
  <2>1. "finishing" \in Stage
    BY DEF Stage
  <2> QED
    BY <1>1, <2>1, JobOnward DEF FinishCall
<1>3. CASE pend' = pend
  <2>1. Move(t)
    BY <1>1, <1>3 DEF Move, Ticks, Keeps
  <2> QED
    BY <1>1, <1>2, <1>3, <2>1, QuietMoves
<1>4. ASSUME NEW op \in Op, JobDecision(t, ph, op), pend[t][ph].op = "idle",
             Begin(t, ph, op, AnyRow)
      PROVE  Moves(t)
  <2>1. Decided(t) /\ \A u \in Task \ {t} : pend'[u] = pend[u]
    BY <1>1, <1>4, HandlerFacts, BeginDecides DEF Decision
  <2> QED
    BY <1>1, <1>2, <2>1, QuietMoves DEF Move
<1>5. CASE /\ Holds(JobOwner(t, ph), row[t])
           /\ row[t].status = "running" /\ pend[t][ph].op = "idle"
           /\ Begin(t, ph, "conclude", AnyRow)
  <2>1. JobDecision(t, ph, "conclude") /\ "conclude" \in Op
    BY <1>1, <1>5 DEF JobDecision, Op
  <2> QED
    BY <1>4, <1>5, <2>1
<1>6. ASSUME NEW op \in DeliverOps, Holds(JobOwner(t, ph), row[t]),
             row[t].status # "running", pend[t][ph].op = "idle",
             op = "done" => job[t][ph].ok,
             op = "again" => row[t].attempts < MaxAttempts,
             Begin(t, ph, op, AnyRow)
      PROVE  Moves(t)
  <2>1. row[t].status = "delivering"
    BY <1>6 DEF Holds, Claimed
  <2>2. JobDecision(t, ph, op) /\ op \in Op
    BY <1>1, <1>6, <2>1 DEF JobDecision, DeliverOps, Op
  <2> QED
    BY <1>4, <1>6, <2>2
<1> QED
  BY <1>3, <1>5, <1>6 DEF FinishCall, DeliverOps

-----------------------------------------------------------------------------
(* The call, the sweep and the clocks.                                     *)

LEMMA PollMoves ==
    ASSUME TypeOK, NEW t \in Task, PollCall(t)
    PROVE  Moves(t)
<1>1. /\ row' = row /\ job' = job /\ handed' = handed
      /\ tool[t] = "waiting" /\ pend[t]["poll"].op = "idle"
      /\ "poll" \in Slot
  BY SlotFacts DEF PollCall
<1>2. Beside(t)
  BY <1>1 DEF Beside
<1>3. \A u \in Task \ {t} : tool'[u] = tool[u]
  BY DEF PollCall, TypeOK
<1>4. CASE pend' = pend
  BY <1>1, <1>2, <1>3, <1>4 DEF Moves, Move, Ticks, Keeps, Away
<1>5. ASSUME NEW op \in Op, NEW e \in Expect, PollDecision(t, op, e),
             Begin(t, "poll", op, e)
      PROVE  Moves(t)
  <2>1. Decision(t, "poll", op, e)
    BY <1>5 DEF Decision
  <2>2. Decided(t) /\ \A u \in Task \ {t} : pend'[u] = pend[u]
    BY <1>1, <1>5, <2>1, BeginDecides
  <2> QED
    BY <1>1, <1>2, <1>3, <2>2 DEF Moves, Move, Away
<1>6. CASE row[t].status = "answered"
           /\ Begin(t, "poll", "take", [AnyRow EXCEPT !.status = "answered"])
  <2>1. PollDecision(t, "take", [AnyRow EXCEPT !.status = "answered"])
        /\ "take" \in Op
    BY <1>1, <1>6 DEF PollDecision, Op
  <2> QED
    BY <1>5, <1>6, <2>1, HandlerFacts
<1>7. CASE row[t].status \in RunPhase /\ Begin(t, "poll", "extend", AnyRow)
  <2>1. PollDecision(t, "extend", AnyRow) /\ "extend" \in Op
    BY <1>1, <1>7 DEF PollDecision, Op
  <2> QED
    BY <1>5, <1>7, <2>1, HandlerFacts
<1> QED
  BY <1>4, <1>6, <1>7 DEF PollCall

LEMMA PollWriteMoves ==
    ASSUME TypeOK, NEW t \in Task, PollWrite(t)
    PROVE  Moves(t)
<1> DEFINE took == pend[t]["poll"].op = "take" /\ row[t].status = "answered"
<1>1. /\ row'[t] = Written(row[t], pend[t]["poll"])
      /\ \A u \in Task \ {t} : row'[u] = row[u]
  BY RowPut DEF PollWrite
<1>2. Puts(t, "poll", Idle) /\ \A u \in Task \ {t} : pend'[u] = pend[u]
  BY PutFacts, SlotFacts DEF PollWrite
<1>3. job' = job
  BY DEF PollWrite
<1>4. handed' = IF took THEN [handed EXCEPT ![t] = @ \cup {"taken"}] ELSE handed
  BY DEF PollWrite
<1>5. /\ handed'[t] = IF took THEN handed[t] \cup {"taken"} ELSE handed[t]
      /\ \A u \in Task \ {t} : handed'[u] = handed[u]
  BY <1>4 DEF TypeOK
<1>6. tool' = tool \/ tool[t] = "waiting"
  BY DEF PollWrite
<1>7. \A u \in Task \ {t} : tool'[u] = tool[u]
  BY DEF PollWrite, TypeOK
<1>8. Writes(t)
  BY <1>1, <1>2, <1>5, SlotFacts DEF PollWrite, Writes
<1>9. Beside(t)
  BY <1>1, <1>2, <1>3, <1>5, <1>6 DEF Beside
<1> QED
  BY <1>1, <1>2, <1>3, <1>5, <1>7, <1>8, <1>9 DEF Moves, Move, Away

LEMMA CancelMoves ==
    ASSUME TypeOK, NEW t \in Task, CancelCall(t)
    PROVE  Moves(t)
<1>1. /\ row' = row /\ job' = job /\ handed' = handed
      /\ tool[t] = "waiting" /\ pend[t]["cancel"].op = "idle"
      /\ pend[t]["poll"].op = "idle"
      /\ "cancel" \in Slot
  BY SlotFacts DEF CancelCall
<1>2. Beside(t)
  BY <1>1 DEF Beside
<1>3. tool'[t] = "stopped" /\ \A u \in Task \ {t} : tool'[u] = tool[u]
  BY DEF CancelCall, TypeOK
<1>4. CASE pend' = pend
  BY <1>1, <1>2, <1>3, <1>4 DEF Moves, Move, Ticks, Keeps, Away
<1>5. ASSUME NEW op \in {"revoke", "withdraw", "mark"}, CancelDecision(t, op),
             Begin(t, "cancel", op, AnyRow)
      PROVE  Moves(t)
  <2>1. Decision(t, "cancel", op, AnyRow) /\ op \in Op
    BY <1>5 DEF Decision, Op
  <2>2. Decided(t) /\ \A u \in Task \ {t} : pend'[u] = pend[u]
    BY <1>1, <1>5, <2>1, HandlerFacts, BeginDecides
  <2> QED
    BY <1>1, <1>2, <1>3, <2>2 DEF Moves, Move, Away
<1>6. CASE row[t].status = "queued" /\ Begin(t, "cancel", "revoke", AnyRow)
  BY <1>1, <1>3, <1>5, <1>6 DEF CancelDecision
<1>7. CASE row[t].status = "answered"
           /\ Begin(t, "cancel", "withdraw", AnyRow)
  BY <1>1, <1>3, <1>5, <1>7 DEF CancelDecision
<1>8. CASE row[t].status \in RunPhase /\ Begin(t, "cancel", "mark", AnyRow)
  BY <1>1, <1>3, <1>5, <1>8 DEF CancelDecision
<1> QED
  BY <1>4, <1>6, <1>7, <1>8 DEF CancelCall

LEMMA LeaveMoves ==
    ASSUME TypeOK, NEW t \in Task, Leave(t) \/ ToolDies(t)
    PROVE  Moves(t)
<1>1. /\ row' = row /\ pend' = pend /\ job' = job /\ handed' = handed
      /\ tool[t] = "waiting"
  BY DEF Leave, ToolDies
<1>2. \A u \in Task \ {t} : tool'[u] = tool[u]
  BY DEF Leave, ToolDies, TypeOK
<1> QED
  BY <1>1, <1>2 DEF Moves, Move, Ticks, Keeps, Beside, Away

LEMMA SweepMoves ==
    ASSUME TypeOK, NEW t \in Task,
           SweepExpired(t) \/ SweepOrphan(t) \/ SweepUnclaimed(t)
    PROVE  Moves(t)
<1>1. /\ row' = row /\ job' = job /\ handed' = handed /\ tool' = tool
      /\ pend[t]["sweep"].op = "idle" /\ Settled(t)
      /\ "sweep" \in Slot
  BY SlotFacts DEF SweepExpired, SweepOrphan, SweepUnclaimed
<1>2. row[t] \in Row /\ AsRead(row[t]) \in Expect
      /\ AsRead(row[t]).status = row[t].status
      /\ AsRead(row[t]).lease = row[t].lease
  BY HandlerFacts DEF TypeOK, AsRead
<1>3. Onward(t)
  BY <1>1 DEF Onward
<1>4. ASSUME NEW op \in Op, NEW e \in Expect, SweepDecision(t, op, e),
             Begin(t, "sweep", op, e)
      PROVE  Moves(t)
  <2>1. Decision(t, "sweep", op, e)
    BY <1>4 DEF Decision
  <2>2. Decided(t) /\ \A u \in Task \ {t} : pend'[u] = pend[u]
    BY <1>1, <1>4, <2>1, BeginDecides
  <2> QED
    BY <1>1, <1>3, <2>2, QuietMoves DEF Move
<1>5. CASE SweepExpired(t)
  <2>1. PICK op \in {"halt", "requeue", "conclude", "undelivered"} :
          /\ Begin(t, "sweep", op, AsRead(row[t]))
          /\ op \in {"halt", "conclude"} => row[t].status = "running"
          /\ op = "halt" => row[t].stop
          /\ op = "requeue" => row[t].attempts < MaxAttempts
          /\ op = "undelivered" => row[t].status # "running"
    BY <1>5 DEF SweepExpired
  <2>2. row[t].status \in Claimed /\ row[t].lease = "expired"
    BY <1>5 DEF SweepExpired
  <2>3. SweepDecision(t, op, AsRead(row[t]))
    BY <1>1, <1>2, <2>1, <2>2
    DEF SweepDecision, Claimed, RunPhase, DeliverPhase
  <2>4. op \in Op
    BY DEF Op
  <2> QED
    BY <1>2, <1>4, <2>1, <2>3, <2>4
<1>6. CASE SweepOrphan(t)
  <2>1. PICK op \in OrphanOps :
          /\ Begin(t, "sweep", op, [AnyRow EXCEPT !.status = "answered"])
          /\ op = "drop" => row[t].stop
    BY <1>6 DEF SweepOrphan, OrphanOps
  <2>2. row[t].status = "answered"
        /\ [AnyRow EXCEPT !.status = "answered"].status = "answered"
    BY <1>6 DEF SweepOrphan, AnyRow
  <2>3. SweepDecision(t, op, [AnyRow EXCEPT !.status = "answered"])
    BY <1>1, <2>1, <2>2 DEF SweepDecision, OrphanOps
  <2>4. op \in Op
    BY DEF OrphanOps, Op
  <2> QED
    BY <1>4, <2>1, <2>3, <2>4, HandlerFacts
<1>7. CASE SweepUnclaimed(t)
  <2>1. PICK op \in {"conclude", "undelivered"} :
          /\ Begin(t, "sweep", op, AsRead(row[t]))
          /\ op = "conclude" => row[t].status = "queued"
          /\ op = "undelivered" => row[t].status # "queued"
    BY <1>7 DEF SweepUnclaimed
  <2>2. row[t].status \in {"queued", "reporting"}
    BY <1>7 DEF SweepUnclaimed
  <2>3. SweepDecision(t, op, AsRead(row[t]))
    BY <1>1, <1>2, <2>1, <2>2
    DEF SweepDecision, Claimed, RunPhase, DeliverPhase
  <2>4. op \in Op
    BY DEF Op
  <2> QED
    BY <1>2, <1>4, <2>1, <2>3, <2>4
<1> QED
  BY <1>5, <1>6, <1>7

LEMMA TimeMoves ==
    ASSUME TypeOK, NEW t \in Task, TimeStep(t)
    PROVE  Moves(t)
<1>1. /\ pend' = pend /\ job' = job /\ tool' = tool /\ handed' = handed
  BY DEF TimeStep, LeaseExpires, WaiterExpires, PickupOverdue, OrphanEnds
<1>2. Onward(t)
  BY <1>1 DEF Onward
<1>3. row[t] \in Row
  BY DEF TypeOK
<1>4. CASE LeaseExpires(t)
  <2>1. row'[t] = [row[t] EXCEPT !.lease = "expired"]
        /\ pend[t]["sweep"].op = "idle"
        /\ \A u \in Task \ {t} : row'[u] = row[u]
    BY <1>4 DEF LeaseExpires, TypeOK
  <2> QED
    BY <1>1, <1>2, <2>1, QuietMoves DEF Move, Ticks, Keeps
<1>5. CASE WaiterExpires(t)
  <2>1. row'[t] = [row[t] EXCEPT !.waiter = "expired"]
        /\ \A u \in Task \ {t} : row'[u] = row[u]
    BY <1>5 DEF WaiterExpires, TypeOK
  <2> QED
    BY <1>1, <1>2, <2>1, QuietMoves DEF Move, Ticks, Keeps
<1>6. CASE PickupOverdue(t)
  <2>1. row'[t] = [row[t] EXCEPT !.overdue = TRUE]
        /\ \A u \in Task \ {t} : row'[u] = row[u]
    BY <1>6 DEF PickupOverdue, TypeOK
  <2> QED
    BY <1>1, <1>2, <2>1, QuietMoves DEF Move, Ticks, Keeps
<1>7. CASE OrphanEnds(t)
  <2>1. row' = row
    BY <1>7 DEF OrphanEnds
  <2> QED
    BY <1>1, <1>2, <2>1, QuietMoves DEF Move, Ticks, Keeps
<1> QED
  BY <1>4, <1>5, <1>6, <1>7 DEF TimeStep

\* Every step of the specification moves one task and leaves the others.
Step(t) ==
    \/ Create(t) \/ Claim(t) \/ ClaimUnseated(t)
    \/ GatewayStep(t) \/ JobStep(t) \/ ToolStep(t)
    \/ FaultStep(t) \/ TimeStep(t)

LEMMA StepMoves ==
    ASSUME TypeOK, NEW t \in Task, Step(t)
    PROVE  Moves(t)
<1>2. CASE Create(t) \/ Claim(t) \/ ClaimUnseated(t)
  BY <1>2, CreateMoves, ClaimMoves, ClaimUnseatedMoves
<1>3. CASE GatewayStep(t)
  BY <1>3, ConcludeMoves, WriteMoves, PollWriteMoves, SweepMoves
  DEF GatewayStep
<1>4. CASE JobStep(t)
  BY <1>4, StartedMoves, RenewMoves, FinishMoves, TurnMoves, PostResultMoves
  DEF JobStep
<1>5. CASE ToolStep(t)
  BY <1>5, PollMoves, LeaveMoves, CancelMoves DEF ToolStep
<1>6. CASE FaultStep(t)
  BY <1>6, HandlerDiesMoves, BreaksMoves, LeaveMoves DEF FaultStep
<1>7. CASE TimeStep(t)
  BY <1>7, TimeMoves
<1> QED
  BY <1>2, <1>3, <1>4, <1>5, <1>6, <1>7 DEF Step

LEMMA NextMoves ==
    ASSUME TypeOK, Next
    PROVE  \E t \in Task : Moves(t)
  BY StepMoves DEF Next, Step

-----------------------------------------------------------------------------
(* What a write makes of a row.                                            *)

\* The columns after the patch of each operation.
Effect(r, op, p) ==
    /\ p.from = r.from /\ p.to = r.to
    /\ p.status = CASE op = "answered" -> "answered"
                    [] op \in {"cancelled", "void", "halt", "drop", "revoke",
                               "withdraw"} -> "cancelled"
                    [] op \in {"failed", "undelivered", "giveUp"} -> "failed"
                    [] op \in {"reporting", "handOver", "again"} -> "reporting"
                    [] op \in {"done", "take"} -> "done"
                    [] op = "requeue" -> IF r.status \in RunPhase THEN "queued"
                                         ELSE "reporting"
                    [] OTHER -> r.status
    /\ p.owner = IF op \in {"reporting", "handOver"} THEN OwnerOf[r.from]
                 ELSE IF op \in {"done", "again", "requeue", "extend", "take",
                                 "withdraw", "mark", "idle", "conclude"}
                      THEN r.owner ELSE NoOwner
    /\ p.attempts = IF op \in {"reporting", "handOver"} THEN 0 ELSE r.attempts
    /\ p.lease \in {r.lease, "none"}
    /\ p.stop = IF op \in {"revoke", "withdraw", "mark"} THEN TRUE ELSE r.stop

LEMMA PatchEffect ==
    ASSUME NEW r \in Row, NEW op \in Op
    PROVE  Effect(r, op, Patch(r, op))
<1>1. CASE op \in {"answered", "cancelled", "void", "halt", "failed",
                   "undelivered"}
  BY <1>1 DEF Effect, Patch, Closed, Row
<1>2. CASE op = "reporting"
  BY <1>2 DEF Effect, Patch, Reported, Row
<1>3. CASE op = "handOver"
  <2> DEFINE p == Reported(r)
  <2>1. Patch(r, op) = [p EXCEPT !.waiter = "none"]
    BY <1>3 DEF Patch
  <2>2. /\ p.status = "reporting" /\ p.owner = OwnerOf[r.from]
        /\ p.attempts = 0 /\ p.lease = "none" /\ p.stop = r.stop
        /\ p.from = r.from /\ p.to = r.to
        /\ p \in Row
    BY PatchType, OwnersAssumption DEF Reported, Row, Status, Clock
  <2> HIDE DEF p
  <2>3. /\ [p EXCEPT !.waiter = "none"].status = p.status
        /\ [p EXCEPT !.waiter = "none"].owner = p.owner
        /\ [p EXCEPT !.waiter = "none"].attempts = p.attempts
        /\ [p EXCEPT !.waiter = "none"].lease = p.lease
        /\ [p EXCEPT !.waiter = "none"].stop = p.stop
        /\ [p EXCEPT !.waiter = "none"].from = p.from
        /\ [p EXCEPT !.waiter = "none"].to = p.to
    BY <2>2 DEF Row
  <2> DEFINE q == [p EXCEPT !.waiter = "none"]
  <2>4. /\ q.status = "reporting" /\ q.owner = OwnerOf[r.from]
        /\ q.attempts = 0 /\ q.lease = "none" /\ q.stop = r.stop
        /\ q.from = r.from /\ q.to = r.to
    BY <2>2, <2>3
  <2>5. Patch(r, op) = q
    BY <2>1
  <2> HIDE DEF q
  <2>6. Effect(r, op, q)
    BY <1>3, <2>4 DEF Effect
  <2> QED
    BY <2>5, <2>6
<1>4. CASE op = "again"
  BY <1>4 DEF Effect, Patch, Released, Row
<1>5. CASE op = "requeue"
  BY <1>5 DEF Effect, Patch, Released, Row
<1>6. CASE op \in {"done", "drop", "giveUp", "take", "extend"}
  BY <1>6 DEF Effect, Patch, Row
<1>7. CASE op \in {"revoke", "withdraw", "mark"}
  BY <1>7 DEF Effect, Patch, Row
<1>8. CASE op \in {"idle", "conclude"}
  BY <1>8 DEF Effect, Patch, Row
<1> QED
  BY <1>1, <1>2, <1>3, <1>4, <1>5, <1>6, <1>7, <1>8 DEF Op

\* A write finds the row changed and does nothing, or patches it, or turns a
\* conclusion of a stopped row into a cancelled one.
LEMMA WrittenEffect ==
    ASSUME NEW r \in Row, NEW h \in Handler
    PROVE  \/ Written(r, h) = r
           \/ /\ Effect(r, h.op, Written(r, h))
              /\ Matches(r, h.expect)
              /\ h.op \in NotCancelledOps => ~r.stop
           \/ /\ Effect(r, "cancelled", Written(r, h))
              /\ Matches(r, h.expect)
              /\ h.op \in {"answered", "reporting", "failed"} /\ r.stop
<1>1. h.op \in Op /\ "cancelled" \in Op
  BY DEF Handler, Op
<1>2. /\ Effect(r, h.op, Patch(r, h.op))
      /\ Effect(r, "cancelled", Patch(r, "cancelled"))
  BY <1>1, PatchEffect
<1>3. CASE ~Matches(r, h.expect)
  BY <1>3 DEF Written
<1>4. CASE Matches(r, h.expect) /\ ~(h.op \in NotCancelledOps /\ r.stop)
  BY <1>2, <1>4 DEF Written
<1>5. CASE Matches(r, h.expect) /\ h.op \in NotCancelledOps /\ r.stop
  BY <1>2, <1>5 DEF Written, NotCancelledOps
<1> QED
  BY <1>3, <1>4, <1>5

-----------------------------------------------------------------------------
(* From one row to all of them.                                            *)

\* What a step does to the slots, in full.
LEMMA RowTyped ==
    ASSUME TypeOK, NEW t \in Task
    PROVE  /\ row[t] \in Row
           /\ \A s \in Slot : pend[t][s] \in Handler /\ pend[t][s].op \in Op
           /\ \A s \in Slot : pend[t][s].expect \in Expect
  BY DEF TypeOK, Handler

\* A created row, in the columns the proofs look at.
LEMMA CreatedFacts ==
    ASSUME TypeOK, NEW t \in Task, Creates(t)
    PROVE  /\ row[t].status = "absent"
           /\ row'[t].status \in {"queued", "answered", "reporting", "failed"}
           /\ row'[t].attempts = row[t].attempts
           /\ row'[t].stop = row[t].stop
           /\ row'[t].from = row[t].from /\ row'[t].to = row[t].to
           /\ row'[t].lease = "none"
           /\ row'[t].owner =
                CASE row'[t].status = "queued" -> OwnerOf[row[t].to]
                  [] row'[t].status = "reporting" -> OwnerOf[row[t].from]
                  [] OTHER -> NoOwner
           /\ Keeps(t)
<1>1. PICK s \in {"queued", "answered", "reporting", "failed"},
           w \in {"live", "none"} :
        row' = [row EXCEPT ![t].status = s, ![t].lease = "none",
                           ![t].owner =
                             CASE s = "queued" -> OwnerOf[row[t].to]
                               [] s = "reporting" -> OwnerOf[row[t].from]
                               [] OTHER -> NoOwner,
                           ![t].waiter = w]
  BY Zenon DEF Creates, Create
<1>2. row \in [Task -> Row] /\ row[t] \in Row
  BY DEF TypeOK
<1> QED
  BY <1>1, <1>2 DEF Creates, Create, Row

\* A row whose clocks move keeps its other columns.
LEMMA TickFacts ==
    ASSUME TypeOK, NEW t \in Task, Ticks(t)
    PROVE  /\ row'[t].status = row[t].status
           /\ row'[t].owner = row[t].owner
           /\ row'[t].attempts = row[t].attempts
           /\ row'[t].stop = row[t].stop
           /\ row'[t].from = row[t].from /\ row'[t].to = row[t].to
           /\ row'[t].lease = "expired" =>
                row[t].lease = "expired" \/ pend[t]["sweep"].op = "idle"
           /\ Keeps(t)
  BY RowTyped DEF Ticks, Row

-----------------------------------------------------------------------------
(* Which handler works in which slot, and on what condition it writes.     *)

SlotFits(s, h) ==
    /\ s \in Phase => h.op \in {"idle"} \cup RunOps \cup DeliverOps
    /\ s = "poll" =>
         /\ h.op \in {"idle", "extend", "take"}
         /\ h.op = "take" => h.expect = [AnyRow EXCEPT !.status = "answered"]
    /\ s = "cancel" => h.op \in {"idle", "revoke", "withdraw", "mark"}
    /\ s = "sweep" =>
         /\ h.op \in {"idle", "halt", "requeue", "undelivered"}
                       \cup ConcludeOps \cup OrphanOps
         /\ h.op \in ConcludeOps \cup {"halt"} => h.expect.status \in RunPhase
         /\ h.op \in OrphanOps => h.expect.status = "answered"
         /\ h.op = "undelivered" => h.expect.status \in DeliverPhase
         /\ h.op = "requeue" =>
              h.expect.status \in Claimed /\ h.expect.lease = "expired"

InPlace(t) ==
    /\ \A s \in Slot : SlotFits(s, pend[t][s])
    /\ row[t].status = "absent" => \A s \in Slot : pend[t][s].op = "idle"

\* The slots are told apart by their names.
LEMMA SlotNames ==
    ASSUME NEW s \in Slot
    PROVE  /\ s \in Phase \/ s = "sweep" \/ s = "poll" \/ s = "cancel"
           /\ s \in Phase <=> s = "run" \/ s = "deliver"
           /\ s \in Phase => s \notin {"sweep", "poll", "cancel"}
  BY DEF Slot, Phase

LEMMA PutsFits ==
    ASSUME NEW t \in Task, NEW s \in Slot, NEW h, Puts(t, s, h),
           SlotFits(s, h), \A q \in Slot : SlotFits(q, pend[t][q])
    PROVE  \A q \in Slot : SlotFits(q, pend'[t][q])
<1>1. \A q \in Slot \ {s} : SlotFits(q, pend'[t][q])
  BY DEF Puts
<1>2. SlotFits(s, pend'[t][s])
  BY DEF Puts
<1> QED
  BY <1>1, <1>2

\* A decision fits the slot it is taken in.
LEMMA DecisionFits ==
    ASSUME NEW t \in Task, NEW s \in Slot, NEW op \in Op, NEW e \in Expect,
           Decision(t, s, op, e)
    PROVE  SlotFits(s, [op |-> op, expect |-> e])
<1>1. CASE s \in Phase /\ JobDecision(t, s, op)
  BY <1>1, SlotNames DEF SlotFits, JobDecision, RunOps, DeliverOps
<1>2. CASE s = "sweep" /\ SweepDecision(t, op, e)
  BY <1>2, SlotNames
  DEF SlotFits, SweepDecision, ConcludeOps, OrphanOps, RunPhase, Claimed,
      DeliverPhase
<1>3. CASE s = "poll" /\ PollDecision(t, op, e)
  BY <1>3, SlotNames DEF SlotFits, PollDecision
<1>4. CASE s = "cancel" /\ CancelDecision(t, op)
  BY <1>4, SlotNames DEF SlotFits, CancelDecision
<1> QED
  BY <1>1, <1>2, <1>3, <1>4 DEF Decision

\* A write keeps the two bots and does not take a row out of the table.
LEMMA WrittenKeeps ==
    ASSUME NEW r \in Row, NEW h \in Handler
    PROVE  /\ Written(r, h).from = r.from /\ Written(r, h).to = r.to
           /\ r.status # "absent" => Written(r, h).status # "absent"
<1> DEFINE p == Written(r, h)
<1>1. \A op : Effect(r, op, p) =>
        /\ p.from = r.from /\ p.to = r.to
        /\ r.status # "absent" => p.status # "absent"
  BY DEF Effect
<1>2. p = r \/ Effect(r, h.op, p) \/ Effect(r, "cancelled", p)
  BY WrittenEffect
<1> HIDE DEF p
<1>3. /\ p.from = r.from /\ p.to = r.to
      /\ r.status # "absent" => p.status # "absent"
  BY <1>1, <1>2
<1> QED
  BY <1>3 DEF p

\* No step takes a row out of the table.
LEMMA StaysPresent ==
    ASSUME TypeOK, NEW t \in Task, Move(t), row[t].status # "absent"
    PROVE  row'[t].status # "absent"
<1>1. CASE Creates(t)
  BY <1>1, CreatedFacts
<1>2. CASE Claims(t)
  BY <1>2, ClaimedStatus, RowTyped DEF Claims
<1>3. CASE Decided(t) \/ Concludes(t) \/ Drops(t)
  BY <1>3 DEF Decided, Concludes, Drops
<1>4. CASE Writes(t)
  <2>1. PICK s \in Slot : row'[t] = Written(row[t], pend[t][s])
    BY <1>4 DEF Writes
  <2> QED
    BY <2>1, RowTyped, WrittenKeeps
<1>5. CASE Ticks(t)
  BY <1>5, TickFacts
<1> QED
  BY <1>1, <1>2, <1>3, <1>4, <1>5 DEF Move

LEMMA MoveInPlace ==
    ASSUME TypeOK, NEW t \in Task, Move(t), InPlace(t)
    PROVE  InPlace(t)'
<1>1. \A s \in Slot : SlotFits(s, Idle)
  BY DEF SlotFits, Idle, ConcludeOps, OrphanOps
<1>2. \A s \in Slot : SlotFits(s, pend'[t][s])
  <2>1. CASE Keeps(t)
    BY <2>1 DEF Keeps, InPlace
  <2>2. CASE Claims(t) /\ ~Keeps(t)
    <3>1. PICK op \in {"conclude", "undelivered"} :
            Puts(t, PhaseOf(row[t]), [op |-> op, expect |-> AnyRow])
      BY <2>2 DEF Claims
    <3>2. PhaseOf(row[t]) \in Phase /\ PhaseOf(row[t]) \in Slot
      BY DEF PhaseOf, Phase, Slot
    <3>3. SlotFits(PhaseOf(row[t]), [op |-> op, expect |-> AnyRow])
      BY <3>2, SlotNames DEF SlotFits, RunOps, DeliverOps
    <3> QED
      BY <3>1, <3>2, <3>3, PutsFits DEF InPlace
  <2>3. CASE Decided(t)
    BY <2>3, DecisionFits, PutsFits DEF Decided, InPlace
  <2>4. CASE Concludes(t)
    <3>1. PICK s \in Slot,
               op \in {"cancelled", "answered", "reporting", "failed"} :
            /\ pend[t][s].op = "conclude"
            /\ Puts(t, s, [op |-> op, expect |-> pend[t][s].expect])
      BY <2>4 DEF Concludes
    <3>2. SlotFits(s, [op |-> op, expect |-> pend[t][s].expect])
      BY <3>1, SlotNames
      DEF InPlace, SlotFits, RunOps, DeliverOps, ConcludeOps, OrphanOps
    <3> QED
      BY <3>1, <3>2, PutsFits DEF InPlace
  <2>5. CASE Writes(t) \/ Drops(t)
    BY <2>5, <1>1, PutsFits DEF Writes, Drops, InPlace
  <2> QED
    BY <2>1, <2>2, <2>3, <2>4, <2>5 DEF Move, Creates, Ticks
<1>3. ASSUME row'[t].status = "absent", NEW q \in Slot
      PROVE  pend'[t][q].op = "idle"
  <2>1. row[t].status = "absent"
    BY <1>3, StaysPresent
  <2>2. \A s \in Slot : pend[t][s].op = "idle"
    BY <2>1 DEF InPlace
  <2>3. Idle.op = "idle"
    BY DEF Idle
  <2>4. CASE Keeps(t)
    BY <2>2, <2>4 DEF Keeps
  <2>5. CASE Drops(t)
    BY <2>2, <2>3, <2>5 DEF Drops, Puts
  <2>6. ~Claims(t)
    BY <2>1 DEF Claims, Claimable
  <2>7. ~Concludes(t) /\ ~Writes(t)
    BY <2>2 DEF Concludes, Writes
  <2>8. ~Decided(t)
    BY <2>1 DEF Decided, Decision, JobDecision, SweepDecision, PollDecision,
                CancelDecision, RunPhase, DeliverPhase, Claimed
  <2> QED
    BY <2>4, <2>5, <2>6, <2>7, <2>8 DEF Move, Creates, Ticks
<1> QED
  BY <1>2, <1>3 DEF InPlace

\* The handlers at work are those the slots are for.
LEMMA SlotsInPlace == Spec => [](\A t \in Task : InPlace(t))
<1>1. Init => \A t \in Task : InPlace(t)
  <2>1. \A s \in Slot : SlotFits(s, Idle)
    BY DEF SlotFits, Idle, ConcludeOps, OrphanOps
  <2>2. Init => \A t \in Task, s \in Slot : pend[t][s] = Idle
    BY DEF Init
  <2>3. Idle.op = "idle"
    BY DEF Idle
  <2> QED
    BY <2>1, <2>2, <2>3 DEF InPlace
<1>2. TypeOK /\ (\A t \in Task : InPlace(t)) /\ [Next]_vars
      => (\A t \in Task : InPlace(t))'
  <2> SUFFICES ASSUME TypeOK, \A t \in Task : InPlace(t), [Next]_vars,
                      NEW u \in Task
               PROVE  InPlace(u)'
    OBVIOUS
  <2>1. CASE UNCHANGED vars
    BY <2>1 DEF vars, InPlace
  <2>2. CASE Next
    <3>1. PICK t \in Task : Moves(t)
      BY <2>2, NextMoves
    <3>2. CASE u = t
      BY <3>1, <3>2, MoveInPlace DEF Moves
    <3>3. CASE u # t
      BY <3>1, <3>3 DEF Moves, Away, InPlace
    <3> QED
      BY <3>2, <3>3
  <2> QED
    BY <2>1, <2>2
<1> QED
  BY <1>1, <1>2, TypeCorrect, PTL DEF Spec

-----------------------------------------------------------------------------
(* The two bots of a row.                                                  *)

PairApart(t) == row[t].from \in Mains /\ row[t].from # row[t].to

\* Nothing changes who delegates to whom.
LEMMA PairKept ==
    ASSUME TypeOK, NEW t \in Task, Move(t)
    PROVE  row'[t].from = row[t].from /\ row'[t].to = row[t].to
<1>1. CASE Creates(t)
  BY <1>1, CreatedFacts
<1>2. CASE Claims(t)
  BY <1>2, ClaimedStatus, RowTyped DEF Claims
<1>3. CASE Decided(t) \/ Concludes(t) \/ Drops(t)
  BY <1>3 DEF Decided, Concludes, Drops
<1>4. CASE Writes(t)
  <2>1. PICK s \in Slot : row'[t] = Written(row[t], pend[t][s])
    BY <1>4 DEF Writes
  <2> QED
    BY <2>1, RowTyped, WrittenKeeps
<1>5. CASE Ticks(t)
  BY <1>5, TickFacts
<1> QED
  BY <1>1, <1>2, <1>3, <1>4, <1>5 DEF Move

LEMMA PairsApart == Spec => [](\A t \in Task : PairApart(t))
<1>1. Init => \A t \in Task : PairApart(t)
  BY DEF Init, AbsentRows, PairApart
<1>2. TypeOK /\ (\A t \in Task : PairApart(t)) /\ [Next]_vars
      => (\A t \in Task : PairApart(t))'
  <2> SUFFICES ASSUME TypeOK, \A t \in Task : PairApart(t), [Next]_vars,
                      NEW u \in Task
               PROVE  PairApart(u)'
    OBVIOUS
  <2>1. CASE UNCHANGED vars
    BY <2>1 DEF vars, PairApart
  <2>2. CASE Next
    <3>1. PICK t \in Task : Moves(t)
      BY <2>2, NextMoves
    <3>2. CASE u = t
      BY <3>1, <3>2, PairKept DEF Moves, PairApart
    <3>3. CASE u # t
      BY <3>1, <3>3 DEF Moves, Away, PairApart
    <3> QED
      BY <3>2, <3>3
  <2> QED
    BY <2>1, <2>2
<1> QED
  BY <1>1, <1>2, TypeCorrect, PTL DEF Spec

\* With owners apart, no owner stands for both ends of a row.
LEMMA OwnersDiffer ==
    ASSUME TypeOK, OwnersApart, NEW t \in Task, PairApart(t)
    PROVE  OwnerOf[row[t].from] # OwnerOf[row[t].to]
           /\ OwnerOf[row[t].from] # NoOwner /\ OwnerOf[row[t].to] # NoOwner
  BY RowTyped, OwnersAssumption DEF OwnersApart, PairApart, Row

-----------------------------------------------------------------------------
(* Attempts.                                                               *)

\* A row that may be claimed has attempts left; so has a row that a finish or
\* the sweep is about to put back.
Counted(t) ==
    LET r == row[t] IN
    /\ r.attempts <= MaxAttempts
    /\ r.status \in {"absent", "queued", "reporting"} =>
         r.attempts < MaxAttempts
    /\ \A s \in Phase : pend[t][s].op = "again" => r.attempts < MaxAttempts
    /\ pend[t]["sweep"].op = "requeue" /\ r.lease = "expired"
         => r.attempts < MaxAttempts

\* A claim or a sweep finds no finish between its read and its write.
LEMMA SettledIdle ==
    ASSUME NEW t \in Task, Settled(t), "finish" \notin Slow
    PROVE  \A s \in Phase : pend[t][s].op = "idle"
  BY SlotFacts DEF Settled, HandlerOf

LEMMA WriteCounted ==
    ASSUME TypeOK, NEW t \in Task, InPlace(t), Counted(t), Writes(t)
    PROVE  Counted(t)'
<1>1. PICK s \in Slot :
        /\ pend[t][s].op \notin {"idle", "conclude"}
        /\ row'[t] = Written(row[t], pend[t][s])
        /\ Puts(t, s, Idle)
  BY DEF Writes
<1> DEFINE r == row[t]
           p == row'[t]
           h == pend[t][s]
<1>2. /\ r \in Row /\ h \in Handler
      /\ r.attempts \in Nat /\ MaxAttempts \in Nat \ {0}
  BY RowTyped, BoundsAssumption DEF Row
<1>3. SlotFits(s, h)
  BY DEF InPlace
<1>4. /\ r.attempts <= MaxAttempts
      /\ r.status \in {"absent", "queued", "reporting"} =>
           r.attempts < MaxAttempts
      /\ \A q \in Phase : pend[t][q].op = "again" => r.attempts < MaxAttempts
      /\ pend[t]["sweep"].op = "requeue" /\ r.lease = "expired"
           => r.attempts < MaxAttempts
  BY DEF Counted
<1>5. /\ p.attempts \in Nat /\ p.attempts <= r.attempts
      /\ p.lease \in {r.lease, "none"}
      /\ p.status \in {"absent", "queued", "reporting"} =>
           \/ r.status \in {"absent", "queued", "reporting"}
           \/ p.attempts = 0
           \/ h.op = "again"
           \/ h.op = "requeue" /\ Matches(r, h.expect)
  <2>1. CASE p = r
    BY <1>2, <2>1
  <2>2. CASE Effect(r, h.op, p) /\ Matches(r, h.expect)
    BY <1>2, <2>2 DEF Effect
  <2>3. CASE Effect(r, "cancelled", p)
    BY <1>2, <2>3 DEF Effect
  <2> QED
    BY <1>1, <1>2, <2>1, <2>2, <2>3, WrittenEffect
<1>6. h.op = "again" => s \in Phase
  BY <1>3, SlotNames DEF SlotFits, ConcludeOps, OrphanOps
<1>7. h.op = "requeue" =>
        s = "sweep" /\ (Matches(r, h.expect) => r.lease = "expired")
  BY <1>3, SlotNames DEF SlotFits, Matches, RunOps, DeliverOps
<1>8. p.status \in {"absent", "queued", "reporting"} => p.attempts < MaxAttempts
  BY <1>2, <1>4, <1>5, <1>6, <1>7
<1>9. ASSUME NEW q \in Slot, pend'[t][q].op \in {"again", "requeue"}
      PROVE  pend[t][q] = pend'[t][q]
  BY <1>1, <1>9 DEF Puts, Idle
<1>10. \A q \in Phase : pend'[t][q].op = "again" => p.attempts < MaxAttempts
  <2> SUFFICES ASSUME NEW q \in Phase, pend'[t][q].op = "again"
               PROVE  p.attempts < MaxAttempts
    OBVIOUS
  <2>1. pend[t][q].op = "again"
    BY <1>9, SlotFacts
  <2> QED
    BY <1>2, <1>4, <1>5, <2>1
<1>11. pend'[t]["sweep"].op = "requeue" /\ p.lease = "expired"
         => p.attempts < MaxAttempts
  <2> SUFFICES ASSUME pend'[t]["sweep"].op = "requeue", p.lease = "expired"
               PROVE  p.attempts < MaxAttempts
    OBVIOUS
  <2>1. pend[t]["sweep"].op = "requeue"
    BY <1>9, SlotFacts
  <2> QED
    BY <1>2, <1>4, <1>5, <2>1
<1>12. p.attempts <= MaxAttempts
  BY <1>2, <1>4, <1>5
<1> QED
  BY <1>8, <1>10, <1>11, <1>12 DEF Counted

LEMMA MoveCounted ==
    ASSUME TypeOK, "finish" \notin Slow, NEW t \in Task, Move(t), InPlace(t),
           Counted(t)
    PROVE  Counted(t)'
<1>1. row[t] \in Row /\ row[t].attempts \in Nat /\ MaxAttempts \in Nat \ {0}
  BY RowTyped, BoundsAssumption DEF Row
<1>2. CASE Creates(t)
  BY <1>2, CreatedFacts, SlotFacts DEF Counted, Keeps
<1>3. CASE Claims(t)
  <2>1. /\ row'[t].attempts = row[t].attempts + 1
        /\ row'[t].lease = "live"
        /\ row'[t].status \in {"running", "delivering"}
        /\ row[t].status \in {"queued", "reporting"}
    BY <1>1, <1>3, ClaimedStatus DEF Claims
  <2>2. row[t].attempts < MaxAttempts
    BY <2>1 DEF Counted
  <2>3. \A s \in Phase : pend'[t][s].op # "again"
    <3>1. \A s \in Phase : pend[t][s].op = "idle"
      BY <1>3, SettledIdle DEF Claims
    <3>2. CASE Keeps(t)
      BY <3>1, <3>2, SlotFacts DEF Keeps
    <3>3. CASE \E op \in {"conclude", "undelivered"} :
                 Puts(t, PhaseOf(row[t]), [op |-> op, expect |-> AnyRow])
      BY <3>1, <3>3, SlotFacts DEF Puts
    <3> QED
      BY <1>3, <3>2, <3>3 DEF Claims
  <2> QED
    BY <1>1, <2>1, <2>2, <2>3 DEF Counted
<1>4. CASE Decided(t)
  <2>1. PICK s \in Slot, op \in Op, e \in Expect :
          /\ Decision(t, s, op, e)
          /\ Puts(t, s, [op |-> op, expect |-> e])
    BY <1>4 DEF Decided
  <2>2. row'[t] = row[t]
    BY <1>4 DEF Decided
  <2>3. op = "again" => row[t].attempts < MaxAttempts
    BY <2>1 DEF Decision, JobDecision, SweepDecision, PollDecision,
                CancelDecision, OrphanOps
  <2>4. op = "requeue" => row[t].attempts < MaxAttempts
    BY <2>1 DEF Decision, JobDecision, SweepDecision, PollDecision,
                CancelDecision, DeliverOps, OrphanOps
  <2>5. \A q \in Slot : pend'[t][q] = pend[t][q] \/ pend'[t][q].op = op
    BY <2>1 DEF Puts
  <2> QED
    BY <2>2, <2>3, <2>4, <2>5, SlotFacts DEF Counted
<1>5. CASE Concludes(t)
  <2>1. \A q \in Slot : \/ pend'[t][q] = pend[t][q]
                        \/ pend'[t][q].op \notin {"again", "requeue"}
    BY <1>5 DEF Concludes, Puts
  <2>2. row'[t] = row[t]
    BY <1>5 DEF Concludes
  <2> QED
    BY <2>1, <2>2, SlotFacts DEF Counted
<1>6. CASE Writes(t)
  BY <1>6, WriteCounted
<1>7. CASE Drops(t)
  <2>1. \A q \in Slot : pend'[t][q] = pend[t][q] \/ pend'[t][q].op = "idle"
    BY <1>7 DEF Drops, Puts, Idle
  <2>2. row'[t] = row[t]
    BY <1>7 DEF Drops
  <2> QED
    BY <2>1, <2>2, SlotFacts DEF Counted
<1>8. CASE Ticks(t)
  BY <1>8, TickFacts, SlotFacts DEF Counted, Keeps
<1> QED
  BY <1>2, <1>3, <1>4, <1>5, <1>6, <1>7, <1>8 DEF Move

\* A step is claimed at most MaxAttempts times, for every number of rows, layout
\* of owners and fault, unless a claim overtakes a finish: a finish that reads
\* an attempt left and writes after the next claim would put the row back once
\* more than it may be.
THEOREM ClaimsAreCounted ==
    ASSUME "finish" \notin Slow
    PROVE  Spec => []AttemptsBounded
<1>1. Init => \A t \in Task : Counted(t)
  <2> SUFFICES ASSUME Init, NEW t \in Task PROVE Counted(t)
    OBVIOUS
  <2>1. \A s \in Slot : pend[t][s].op = "idle"
    BY DEF Init, Idle
  <2>2. row[t].attempts = 0
    BY DEF Init, AbsentRows
  <2> QED
    BY <2>1, <2>2, SlotFacts, BoundsAssumption DEF Counted
<1>2. TypeOK /\ (\A t \in Task : InPlace(t)) /\ (\A t \in Task : Counted(t))
        /\ [Next]_vars
      => (\A t \in Task : Counted(t))'
  <2> SUFFICES ASSUME TypeOK, \A t \in Task : InPlace(t),
                      \A t \in Task : Counted(t), [Next]_vars, NEW u \in Task
               PROVE  Counted(u)'
    OBVIOUS
  <2>1. CASE UNCHANGED vars
    BY <2>1 DEF vars, Counted
  <2>2. CASE Next
    <3>1. PICK t \in Task : Moves(t)
      BY <2>2, NextMoves
    <3>2. CASE u = t
      BY <3>1, <3>2, MoveCounted DEF Moves
    <3>3. CASE u # t
      BY <3>1, <3>3 DEF Moves, Away, Counted
    <3> QED
      BY <3>2, <3>3
  <2> QED
    BY <2>1, <2>2
<1>3. (\A t \in Task : Counted(t)) => AttemptsBounded
  BY DEF Counted, AttemptsBounded
<1> QED
  BY <1>1, <1>2, <1>3, TypeCorrect, SlotsInPlace, PTL DEF Spec

-----------------------------------------------------------------------------
(* A conclusion is given out in one way.                                   *)

\* The row is past its run step for good: no finish or started of the run step
\* is left that could still decide where the conclusion goes.
Past(t) ==
    /\ row[t].status \in DeliverPhase \cup Terminal
    /\ \A s \in Phase : pend[t][s].op \notin RunOps

\* A process has, or has had, the conclusion for delivery.
Begun(t) ==
    \/ job[t]["deliver"].stage # "idle"
    \/ "posted" \in handed[t]
    \/ row[t].status = "delivering"

\* The run step is open, or was withdrawn under the handler that concludes it.
Unconcluded(t) ==
    row[t].status \in RunPhase \/ (row[t].status = "cancelled" /\ row[t].stop)

\* The call has taken the conclusion, and nobody is left who could change that.
TakenAway(t) ==
    /\ row[t].status \in {"done", "cancelled"} /\ ~Begun(t)
    /\ \A s \in Phase : pend[t][s].op = "idle"

Ordered(t) ==
    /\ pend[t]["deliver"].op \notin RunOps
    /\ pend[t]["run"].op \in RunOps => Unconcluded(t)
    /\ \A s \in Phase : pend[t][s].op \in DeliverOps => Past(t)
    /\ Begun(t) => Past(t)
    /\ "taken" \in handed[t] => TakenAway(t)

\* Where a write takes a row that is past its run step.
LEMMA WritePast ==
    ASSUME TypeOK, NEW t \in Task, InPlace(t), Past(t), NEW s \in Slot,
           pend[t][s].op \notin {"idle", "conclude"}
    PROVE  Written(row[t], pend[t][s]).status \in DeliverPhase \cup Terminal
<1> DEFINE r == row[t]
           h == pend[t][s]
           p == Written(r, h)
<1>1. r \in Row /\ h \in Handler /\ h.op \in Op
  BY RowTyped
<1>2. SlotFits(s, h) /\ r.status \in DeliverPhase \cup Terminal
      /\ (s \in Phase => h.op \notin RunOps)
  BY DEF InPlace, Past
<1>3. CASE p = r
  BY <1>2, <1>3
<1>4. CASE Effect(r, "cancelled", p)
  BY <1>4 DEF Effect, Terminal
<1>5. CASE Effect(r, h.op, p) /\ Matches(r, h.expect)
  <2>1. CASE s \in Phase
    <3>1. h.op \in DeliverOps
      BY <1>2, <2>1 DEF SlotFits
    <3> QED
      BY <1>5, <3>1 DEF Effect, DeliverOps, Terminal, DeliverPhase
  <2>2. CASE s = "sweep"
    <3>1. r.status = h.expect.status \/ h.expect.status = "any"
      BY <1>5 DEF Matches
    <3>2. h.op \in {"undelivered", "requeue"}
      BY <1>1, <1>2, <2>2, <3>1
      DEF SlotFits, RunPhase, DeliverPhase, Terminal, Claimed
    <3> QED
      BY <1>2, <1>5, <3>2 DEF Effect, RunPhase, Terminal, DeliverPhase
  <2>3. CASE s = "poll"
    <3>1. h.op # "take"
      BY <1>2, <1>5, <2>3 DEF SlotFits, Matches, AnyRow, DeliverPhase, Terminal
    <3>2. h.op = "extend"
      BY <1>2, <2>3, <3>1 DEF SlotFits
    <3> QED
      BY <1>2, <1>5, <3>2 DEF Effect
  <2>4. CASE s = "cancel"
    <3>1. h.op \in {"revoke", "withdraw", "mark"}
      BY <1>2, <2>4 DEF SlotFits
    <3> QED
      BY <1>2, <1>5, <3>1 DEF Effect, Terminal
  <2> QED
    BY <2>1, <2>2, <2>3, <2>4, SlotNames
<1> QED
  BY <1>1, <1>3, <1>4, <1>5, WrittenEffect

\* A claim of the deliver step, on a row no finish is at work on.
LEMMA ClaimPast ==
    ASSUME TypeOK, NEW t \in Task, Claims(t), row[t].status = "reporting",
           \A s \in Phase : pend[t][s].op \notin RunOps
    PROVE  Past(t)'
<1>1. row'[t].status = "delivering" /\ PhaseOf(row[t]) = "deliver"
  BY ClaimedStatus, RowTyped DEF Claims
<1>2. \A s \in Phase : pend'[t][s].op \notin RunOps
  <2>1. CASE Keeps(t)
    BY <2>1, SlotFacts DEF Keeps
  <2>2. CASE Puts(t, "deliver", [op |-> "undelivered", expect |-> AnyRow])
    BY <2>2, SlotFacts DEF Puts, RunOps
  <2> QED
    BY <1>1, <2>1, <2>2 DEF Claims
<1> QED
  BY <1>1, <1>2 DEF Past, DeliverPhase

LEMMA PastStays ==
    ASSUME TypeOK, NEW t \in Task, InPlace(t), Past(t), Move(t)
    PROVE  Past(t)'
<1>1. CASE Creates(t)
  BY <1>1, CreatedFacts DEF Past, DeliverPhase, Terminal
<1>2. CASE Claims(t)
  <2>1. row[t].status = "reporting"
    BY <1>2 DEF Claims, Claimable, Past, DeliverPhase, Terminal
  <2> QED
    BY <1>2, <2>1, ClaimPast DEF Past
<1>3. CASE Decided(t)
  <2>1. PICK s \in Slot, op \in Op, e \in Expect :
          Decision(t, s, op, e) /\ Puts(t, s, [op |-> op, expect |-> e])
    BY <1>3 DEF Decided
  <2>2. s \in Phase => op \notin RunOps
    BY <2>1, SlotNames
    DEF Decision, JobDecision, Past, DeliverPhase, Terminal, DeliverOps, RunOps
  <2>3. row'[t] = row[t]
    BY <1>3 DEF Decided
  <2> QED
    BY <2>1, <2>2, <2>3, SlotFacts DEF Past, Puts
<1>4. CASE Concludes(t)
  <2>1. PICK s \in Slot,
             op \in {"cancelled", "answered", "reporting", "failed"} :
          /\ pend[t][s].op = "conclude"
          /\ Puts(t, s, [op |-> op, expect |-> pend[t][s].expect])
    BY <1>4 DEF Concludes
  <2>2. s \notin Phase
    BY <2>1 DEF Past, RunOps
  <2>3. row'[t] = row[t]
    BY <1>4 DEF Concludes
  <2> QED
    BY <2>1, <2>2, <2>3, SlotFacts DEF Past, Puts
<1>5. CASE Writes(t)
  <2>1. PICK s \in Slot :
          /\ pend[t][s].op \notin {"idle", "conclude"}
          /\ row'[t] = Written(row[t], pend[t][s])
          /\ Puts(t, s, Idle)
    BY <1>5 DEF Writes
  <2>2. row'[t].status \in DeliverPhase \cup Terminal
    BY <2>1, WritePast
  <2>3. Idle.op \notin RunOps
    BY DEF Idle, RunOps
  <2> QED
    BY <2>1, <2>2, <2>3, SlotFacts DEF Past, Puts
<1>6. CASE Drops(t)
  <2>1. Idle.op \notin RunOps
    BY DEF Idle, RunOps
  <2> QED
    BY <1>6, <2>1, SlotFacts DEF Drops, Past, Puts
<1>7. CASE Ticks(t)
  BY <1>7, TickFacts, SlotFacts DEF Past, Keeps
<1> QED
  BY <1>1, <1>2, <1>3, <1>4, <1>5, <1>6, <1>7 DEF Move

\* Only a claim begins a delivery.
LEMMA DeliveringByClaim ==
    ASSUME TypeOK, NEW t \in Task, Move(t), row'[t].status = "delivering",
           row[t].status # "delivering"
    PROVE  Claims(t) /\ row[t].status = "reporting"
<1>1. ~Creates(t)
  BY CreatedFacts
<1>2. ~Decided(t) /\ ~Concludes(t) /\ ~Drops(t)
  BY DEF Decided, Concludes, Drops
<1>3. ~Ticks(t)
  BY TickFacts
<1>4. ~Writes(t)
  <2> SUFFICES ASSUME Writes(t) PROVE FALSE
    OBVIOUS
  <2>1. PICK s \in Slot : row'[t] = Written(row[t], pend[t][s])
    BY DEF Writes
  <2>2. row[t] \in Row /\ pend[t][s] \in Handler
    BY RowTyped
  <2>3. \A op : Effect(row[t], op, row'[t]) =>
                  row'[t].status \in {row[t].status, "answered", "cancelled",
                                      "failed", "reporting", "done", "queued"}
    BY DEF Effect
  <2>4. row'[t].status \in {row[t].status, "answered", "cancelled",
                            "failed", "reporting", "done", "queued"}
    BY <2>1, <2>2, <2>3, WrittenEffect
  <2> QED
    BY <2>4
<1>5. Claims(t)
  BY <1>1, <1>2, <1>3, <1>4 DEF Move
<1>6. row[t].status \in {"queued", "reporting"}
      /\ (row[t].status = "queued" => row'[t].status = "running")
  BY <1>5, ClaimedStatus, RowTyped DEF Claims
<1> QED
  BY <1>5, <1>6

\* What begins a delivery, or is decided on one, finds the row past its run
\* step.
LEMMA BegunPast ==
    ASSUME TypeOK, "finish" \notin Slow, NEW t \in Task, Moves(t), InPlace(t),
           Ordered(t)
    PROVE  /\ Begun(t)' => Past(t)'
           /\ \A s \in Phase : pend'[t][s].op \in DeliverOps => Past(t)'
<1>1. Past(t) => Past(t)'
  BY PastStays DEF Moves
<1>2. Claims(t) /\ row[t].status = "reporting" => Past(t)'
  <2> SUFFICES ASSUME Claims(t), row[t].status = "reporting" PROVE Past(t)'
    OBVIOUS
  <2>1. \A s \in Phase : pend[t][s].op \notin RunOps
    BY SettledIdle DEF Claims, RunOps
  <2> QED
    BY <2>1, ClaimPast
<1>3. row'[t].status = "delivering" => Past(t)'
  <2>1. CASE row[t].status = "delivering"
    BY <1>1, <2>1 DEF Ordered, Begun
  <2>2. CASE row[t].status # "delivering"
    BY <1>2, <2>2, DeliveringByClaim DEF Moves
  <2> QED
    BY <2>1, <2>2
<1>4. Begun(t)' => Past(t)'
  <2>1. Begun(t) => Past(t)'
    BY <1>1 DEF Ordered
  <2>2. Begun(t)' => Begun(t) \/ row'[t].status = "delivering"
    BY DEF Begun, Moves, Beside
  <2> QED
    BY <1>3, <2>1, <2>2
<1>5. ASSUME NEW s \in Phase, pend'[t][s].op \in DeliverOps
      PROVE  Past(t)'
  <2>1. CASE pend'[t][s] = pend[t][s]
    BY <1>1, <1>5, <2>1 DEF Ordered
  <2>2. CASE Claims(t) /\ pend'[t][s] # pend[t][s]
    <3>1. PICK op \in {"conclude", "undelivered"} :
            /\ op = "conclude" <=> row[t].status = "queued"
            /\ Puts(t, PhaseOf(row[t]), [op |-> op, expect |-> AnyRow])
      BY <2>2, SlotFacts DEF Claims, Keeps
    <3>2. pend'[t][s].op = op
      BY <2>2, <3>1, SlotFacts DEF Puts
    <3>3. row[t].status = "reporting"
      BY <1>5, <2>2, <3>1, <3>2 DEF DeliverOps, Claims, Claimable
    <3> QED
      BY <1>2, <2>2, <3>3
  <2>3. CASE Decided(t) /\ pend'[t][s] # pend[t][s]
    <3>1. PICK q \in Slot, op \in Op, e \in Expect :
            Decision(t, q, op, e) /\ Puts(t, q, [op |-> op, expect |-> e])
      BY <2>3 DEF Decided
    <3>2. q = s /\ op \in DeliverOps
      BY <1>5, <2>3, <3>1, SlotFacts DEF Puts
    <3>3. JobDecision(t, s, op)
      BY <3>1, <3>2, SlotNames, SlotFacts DEF Decision
    <3>4. row[t].status = "delivering"
      BY <3>2, <3>3 DEF JobDecision, DeliverOps
    <3> QED
      BY <1>1, <3>4 DEF Ordered, Begun
  <2>4. CASE Concludes(t) /\ pend'[t][s] # pend[t][s]
    BY <1>5, <2>4, SlotFacts DEF Concludes, Puts, DeliverOps
  <2>5. CASE Writes(t) /\ pend'[t][s] # pend[t][s]
    BY <1>5, <2>5, SlotFacts DEF Writes, Puts, Idle, DeliverOps
  <2>6. CASE Drops(t) /\ pend'[t][s] # pend[t][s]
    BY <1>5, <2>6, SlotFacts DEF Drops, Puts, Idle, DeliverOps
  <2>7. CASE Keeps(t)
    BY <2>1, <2>7, SlotFacts DEF Keeps
  <2> QED
    BY <2>1, <2>2, <2>3, <2>4, <2>5, <2>6, <2>7
    DEF Moves, Move, Creates, Ticks
<1> QED
  BY <1>4, <1>5

\* The deliver job never concludes the run step.
LEMMA DeliverSlot ==
    ASSUME TypeOK, NEW t \in Task, Move(t), InPlace(t), Ordered(t)
    PROVE  pend'[t]["deliver"].op \notin RunOps
<1> SUFFICES ASSUME pend'[t]["deliver"].op \in RunOps PROVE FALSE
  OBVIOUS
<1>1. pend'[t]["deliver"] # pend[t]["deliver"]
  BY DEF Ordered
<1>2. "deliver" \in Slot /\ "deliver" \in Phase
  BY SlotFacts
<1>3. CASE Claims(t)
  <2>1. PICK op \in {"conclude", "undelivered"} :
          /\ op = "conclude" <=> row[t].status = "queued"
          /\ Puts(t, PhaseOf(row[t]), [op |-> op, expect |-> AnyRow])
    BY <1>1, <1>2, <1>3 DEF Claims, Keeps
  <2>2. PhaseOf(row[t]) = "deliver" /\ op = "conclude"
    BY <1>1, <1>2, <2>1 DEF Puts, RunOps
  <2> QED
    BY <2>1, <2>2 DEF PhaseOf, RunPhase
<1>4. CASE Decided(t)
  <2>1. PICK q \in Slot, op \in Op, e \in Expect :
          Decision(t, q, op, e) /\ Puts(t, q, [op |-> op, expect |-> e])
    BY <1>4 DEF Decided
  <2>2. q = "deliver" /\ op \in RunOps
    BY <1>1, <1>2, <2>1 DEF Puts
  <2>3. JobDecision(t, "deliver", op)
    BY <2>1, <2>2 DEF Decision
  <2>4. row[t].status = "running" /\ job[t]["deliver"].stage # "idle"
    BY <2>2, <2>3 DEF JobDecision, RunOps, DeliverOps
  <2> QED
    BY <2>4 DEF Ordered, Begun, Past, DeliverPhase, Terminal
<1>5. CASE Concludes(t)
  BY <1>1, <1>2, <1>5 DEF Concludes, Puts, Ordered, RunOps
<1>6. CASE Writes(t) \/ Drops(t)
  BY <1>1, <1>2, <1>6 DEF Writes, Drops, Puts, Idle, RunOps
<1>7. CASE Keeps(t)
  BY <1>1, <1>2, <1>7 DEF Keeps
<1> QED
  BY <1>3, <1>4, <1>5, <1>6, <1>7 DEF Move, Creates, Ticks

\* While the run step is being concluded, only a stop gets in between.
LEMMA WriteUnconcluded ==
    ASSUME TypeOK, "finish" \notin Slow, NEW t \in Task, InPlace(t), Ordered(t),
           pend[t]["run"].op \in RunOps, NEW s \in Slot \ {"run"},
           pend[t][s].op \notin {"idle", "conclude"}, s = "sweep" => Settled(t),
           row'[t] = Written(row[t], pend[t][s])
    PROVE  Unconcluded(t)'
<1> DEFINE r == row[t]
           h == pend[t][s]
           p == row'[t]
<1>1. r \in Row /\ h \in Handler /\ h.op \in Op /\ r.stop \in BOOLEAN
  BY RowTyped DEF Row
<1>2. SlotFits(s, h)
  BY DEF InPlace
<1>3. r.status \in RunPhase \/ (r.status = "cancelled" /\ r.stop)
  BY DEF Ordered, Unconcluded
<1>4. s # "deliver"
  <2> SUFFICES ASSUME s = "deliver" PROVE FALSE
    OBVIOUS
  <2>1. h.op \in DeliverOps
    BY <1>2, SlotFacts DEF SlotFits, Ordered
  <2> QED
    BY <2>1, SlotFacts DEF Ordered, Past
<1>5. s # "sweep"
  BY SettledIdle, SlotFacts DEF RunOps
<1>6. s \in {"poll", "cancel"}
  BY <1>4, <1>5, SlotNames
<1>7. h.op \notin {"answered", "reporting", "failed"}
  BY <1>2, <1>6 DEF SlotFits
<1>8. CASE p = r
  BY <1>3, <1>8 DEF Unconcluded
<1>9. CASE Effect(r, h.op, p) /\ Matches(r, h.expect)
  <2>1. CASE s = "poll"
    <3>1. h.op # "take"
      BY <1>2, <1>3, <1>9, <2>1 DEF SlotFits, Matches, AnyRow, RunPhase
    <3>2. h.op = "extend"
      BY <1>2, <2>1, <3>1 DEF SlotFits
    <3> QED
      BY <1>3, <1>9, <3>2 DEF Effect, Unconcluded
  <2>2. CASE s = "cancel"
    <3>1. h.op \in {"revoke", "withdraw", "mark"}
      BY <1>2, <2>2 DEF SlotFits
    <3> QED
      BY <1>3, <1>9, <3>1 DEF Effect, Unconcluded
  <2> QED
    BY <1>6, <2>1, <2>2
<1> QED
  BY <1>1, <1>7, <1>8, <1>9, WrittenEffect

LEMMA RunSlot ==
    ASSUME TypeOK, "finish" \notin Slow, NEW t \in Task, Move(t), InPlace(t),
           Ordered(t), pend'[t]["run"].op \in RunOps
    PROVE  Unconcluded(t)'
<1>1. "run" \in Slot /\ "run" \in Phase
  BY SlotFacts
<1>2. CASE Creates(t)
  <2>1. pend[t]["run"].op = "idle"
    BY <1>1, <1>2, CreatedFacts DEF InPlace
  <2> QED
    BY <1>1, <1>2, <2>1 DEF Creates, Keeps, RunOps
<1>3. CASE Claims(t)
  <2>1. pend[t]["run"].op = "idle"
    BY <1>1, <1>3, SettledIdle DEF Claims
  <2>2. PICK op \in {"conclude", "undelivered"} :
          /\ op = "conclude" <=> row[t].status = "queued"
          /\ Puts(t, PhaseOf(row[t]), [op |-> op, expect |-> AnyRow])
    BY <1>1, <1>3, <2>1 DEF Claims, Keeps, RunOps
  <2>3. op = "conclude"
    BY <1>1, <2>1, <2>2 DEF Puts, RunOps
  <2>4. row'[t].status = "running"
    BY <1>3, <2>2, <2>3, ClaimedStatus, RowTyped DEF Claims
  <2> QED
    BY <2>4 DEF Unconcluded, RunPhase
<1>4. CASE Decided(t)
  <2>1. PICK q \in Slot, op \in Op, e \in Expect :
          Decision(t, q, op, e) /\ Puts(t, q, [op |-> op, expect |-> e])
    BY <1>4 DEF Decided
  <2>2. row'[t] = row[t]
    BY <1>4 DEF Decided
  <2>3. CASE q = "run"
    <3>1. op \in RunOps /\ JobDecision(t, "run", op)
      BY <1>1, <2>1, <2>3 DEF Puts, Decision
    <3>2. row[t].status = "running"
      BY <3>1 DEF JobDecision, RunOps, DeliverOps
    <3> QED
      BY <2>2, <3>2 DEF Unconcluded, RunPhase
  <2>4. CASE q # "run"
    BY <1>1, <2>1, <2>2, <2>4 DEF Puts, Ordered, Unconcluded
  <2> QED
    BY <2>3, <2>4
<1>5. CASE Concludes(t)
  <2>1. pend[t]["run"].op \in RunOps
    BY <1>1, <1>5 DEF Concludes, Puts, RunOps
  <2> QED
    BY <1>5, <2>1 DEF Concludes, Ordered, Unconcluded
<1>6. CASE Writes(t)
  <2>1. PICK s \in Slot :
          /\ pend[t][s].op \notin {"idle", "conclude"}
          /\ s = "sweep" => Settled(t)
          /\ row'[t] = Written(row[t], pend[t][s])
          /\ Puts(t, s, Idle)
    BY <1>6 DEF Writes
  <2>2. s # "run"
    BY <1>1, <2>1 DEF Puts, Idle, RunOps
  <2>3. pend[t]["run"].op \in RunOps
    BY <1>1, <2>1, <2>2 DEF Puts
  <2> QED
    BY <2>1, <2>2, <2>3, WriteUnconcluded
<1>7. CASE Drops(t)
  <2>1. pend[t]["run"].op \in RunOps
    BY <1>1, <1>7 DEF Drops, Puts, Idle, RunOps
  <2> QED
    BY <1>7, <2>1 DEF Drops, Ordered, Unconcluded
<1>8. CASE Ticks(t)
  BY <1>1, <1>8, TickFacts DEF Keeps, Ordered, Unconcluded
<1> QED
  BY <1>2, <1>3, <1>4, <1>5, <1>6, <1>7, <1>8 DEF Move

\* An answer that is there to be taken is one nobody is still concluding, and
\* nobody delivers.
LEMMA AnsweredQuiet ==
    ASSUME TypeOK, NEW t \in Task, InPlace(t), Ordered(t),
           row[t].status = "answered"
    PROVE  ~Begun(t) /\ \A s \in Phase : pend[t][s].op = "idle"
<1>1. ~Past(t)
  BY DEF Past, DeliverPhase, Terminal
<1>2. ~Begun(t) /\ \A s \in Phase : pend[t][s].op \notin DeliverOps
  BY <1>1 DEF Ordered
<1>3. ~Unconcluded(t)
  BY DEF Unconcluded, RunPhase
<1>4. \A s \in Phase : pend[t][s].op \notin RunOps
  BY <1>3, SlotNames, SlotFacts DEF Ordered
<1>5. \A s \in Phase : pend[t][s].op \in {"idle"} \cup RunOps \cup DeliverOps
  BY SlotFacts DEF InPlace, SlotFits
<1> QED
  BY <1>2, <1>4, <1>5

\* The poll that takes an answer makes the row done.
LEMMA TakeDone ==
    ASSUME NEW r \in Row, NEW h \in Handler, h.op = "take",
           h.expect = [AnyRow EXCEPT !.status = "answered"],
           r.status = "answered"
    PROVE  Written(r, h).status = "done"
<1>1. Matches(r, h.expect)
  BY DEF Matches, AnyRow
<1>2. Written(r, h) = Patch(r, "take")
  BY <1>1 DEF Written, NotCancelledOps
<1>3. Effect(r, "take", Patch(r, "take"))
  BY PatchEffect DEF Op
<1> QED
  BY <1>2, <1>3 DEF Effect

\* No write but a stop reaches a row that was taken.
LEMMA WriteTaken ==
    ASSUME TypeOK, NEW t \in Task, InPlace(t), NEW s \in Slot \ Phase,
           row[t].status \in {"done", "cancelled"}
    PROVE  Written(row[t], pend[t][s]).status \in {"done", "cancelled"}
<1> DEFINE r == row[t]
           h == pend[t][s]
           p == Written(r, h)
<1>1. r \in Row /\ h \in Handler
  BY RowTyped
<1>2. SlotFits(s, h)
  BY DEF InPlace
<1>3. CASE p = r \/ Effect(r, "cancelled", p)
  BY <1>3 DEF Effect
<1>4. CASE Effect(r, h.op, p) /\ Matches(r, h.expect)
  <2>1. s # "sweep" \/ h.op = "idle"
    BY <1>2, <1>4
    DEF SlotFits, Matches, RunPhase, DeliverPhase, Claimed, OrphanOps
  <2>2. s # "poll" \/ h.op \in {"idle", "extend"}
    BY <1>2, <1>4 DEF SlotFits, Matches, AnyRow
  <2>3. s # "cancel" \/ h.op \in {"idle", "revoke", "withdraw", "mark"}
    BY <1>2 DEF SlotFits
  <2>4. h.op \in {"idle", "extend", "revoke", "withdraw", "mark"}
    BY <2>1, <2>2, <2>3, SlotNames
  <2> QED
    BY <1>4, <2>4 DEF Effect
<1> QED
  BY <1>1, <1>3, <1>4, WrittenEffect

LEMMA TakenStays ==
    ASSUME TypeOK, NEW t \in Task, Moves(t), InPlace(t), TakenAway(t)
    PROVE  TakenAway(t)'
<1>1. row'[t].status \in {"done", "cancelled"}
      /\ \A s \in Phase : pend'[t][s].op = "idle"
  <2>1. ~Creates(t) /\ ~Claims(t)
    BY CreatedFacts DEF TakenAway, Claims, Claimable
  <2>2. CASE Decided(t)
    <3>1. PICK q \in Slot, op \in Op, e \in Expect :
            Decision(t, q, op, e) /\ Puts(t, q, [op |-> op, expect |-> e])
      BY <2>2 DEF Decided
    <3>2. q \notin Phase
      BY <3>1, SlotNames DEF Decision, JobDecision, TakenAway
    <3> QED
      BY <2>2, <3>1, <3>2, SlotFacts DEF Decided, Puts, TakenAway
  <2>3. CASE Concludes(t)
    <3>1. PICK q \in Slot,
               op \in {"cancelled", "answered", "reporting", "failed"} :
            /\ pend[t][q].op = "conclude"
            /\ Puts(t, q, [op |-> op, expect |-> pend[t][q].expect])
      BY <2>3 DEF Concludes
    <3>2. q \notin Phase
      BY <3>1 DEF TakenAway
    <3> QED
      BY <2>3, <3>1, <3>2, SlotFacts DEF Concludes, Puts, TakenAway
  <2>4. CASE Writes(t)
    <3>1. PICK s \in Slot :
            /\ pend[t][s].op \notin {"idle", "conclude"}
            /\ row'[t] = Written(row[t], pend[t][s])
            /\ Puts(t, s, Idle)
      BY <2>4 DEF Writes
    <3>2. s \notin Phase
      BY <3>1 DEF TakenAway
    <3>3. row'[t].status \in {"done", "cancelled"}
      BY <3>1, <3>2, WriteTaken DEF TakenAway
    <3> QED
      BY <3>1, <3>2, <3>3, SlotFacts DEF Puts, TakenAway
  <2>5. CASE Drops(t)
    BY <2>5, SlotFacts DEF Drops, Puts, Idle, TakenAway
  <2>6. CASE Ticks(t)
    BY <2>6, TickFacts, SlotFacts DEF Keeps, TakenAway
  <2> QED
    BY <2>1, <2>2, <2>3, <2>4, <2>5, <2>6 DEF Moves, Move
<1>2. ~Begun(t)'
  BY <1>1 DEF Moves, Beside, TakenAway, Begun
<1> QED
  BY <1>1, <1>2 DEF TakenAway

LEMMA MoveOrdered ==
    ASSUME TypeOK, "finish" \notin Slow, NEW t \in Task, Moves(t), InPlace(t),
           Ordered(t)
    PROVE  Ordered(t)'
<1>1. ASSUME "taken" \in handed'[t], "taken" \notin handed[t]
      PROVE  TakenAway(t)'
  <2>1. /\ pend[t]["poll"].op = "take" /\ row[t].status = "answered"
        /\ row'[t] = Written(row[t], pend[t]["poll"])
        /\ Puts(t, "poll", Idle) /\ job' = job
    BY <1>1 DEF Moves, Beside
  <2>2. ~Begun(t) /\ \A s \in Phase : pend[t][s].op = "idle"
    BY <2>1, AnsweredQuiet
  <2>3. pend[t]["poll"].expect = [AnyRow EXCEPT !.status = "answered"]
        /\ "poll" \in Slot
    BY <2>1, SlotFacts DEF InPlace, SlotFits
  <2>4. row'[t].status = "done"
    BY <2>1, <2>3, TakeDone, RowTyped
  <2>5. \A s \in Phase : pend'[t][s] = pend[t][s]
    BY <2>1, SlotNames, SlotFacts DEF Puts
  <2>6. ~Begun(t)'
    BY <2>1, <2>2, <2>4 DEF Moves, Beside, Begun
  <2> QED
    BY <2>2, <2>4, <2>5, <2>6 DEF TakenAway
<1>2. "taken" \in handed[t] => TakenAway(t)'
  BY TakenStays DEF Ordered
<1>3. /\ Begun(t)' => Past(t)'
      /\ \A s \in Phase : pend'[t][s].op \in DeliverOps => Past(t)'
  BY BegunPast
<1>4. pend'[t]["deliver"].op \notin RunOps
  BY DeliverSlot DEF Moves
<1>5. pend'[t]["run"].op \in RunOps => Unconcluded(t)'
  BY RunSlot DEF Moves
<1> QED
  BY <1>1, <1>2, <1>3, <1>4, <1>5 DEF Ordered

LEMMA OrderedInvariant ==
    ASSUME "finish" \notin Slow
    PROVE  Spec => [](\A t \in Task : Ordered(t))
<1>1. Init => \A t \in Task : Ordered(t)
  <2> SUFFICES ASSUME Init, NEW t \in Task PROVE Ordered(t)
    OBVIOUS
  <2>1. \A s \in Slot : pend[t][s].op = "idle"
    BY DEF Init, Idle
  <2>2. handed[t] = {} /\ job[t]["deliver"].stage = "idle"
    BY SlotFacts DEF Init, NoJob
  <2>3. row[t].status = "absent"
    BY DEF Init, AbsentRows
  <2> QED
    BY <2>1, <2>2, <2>3, SlotFacts DEF Ordered, Begun, RunOps, DeliverOps
<1>2. TypeOK /\ (\A t \in Task : InPlace(t)) /\ (\A t \in Task : Ordered(t))
        /\ [Next]_vars
      => (\A t \in Task : Ordered(t))'
  <2> SUFFICES ASSUME TypeOK, \A t \in Task : InPlace(t),
                      \A t \in Task : Ordered(t), [Next]_vars, NEW u \in Task
               PROVE  Ordered(u)'
    OBVIOUS
  <2>1. CASE UNCHANGED vars
    BY <2>1 DEF vars, Ordered, Begun, Past, Unconcluded, TakenAway
  <2>2. CASE Next
    <3>1. PICK t \in Task : Moves(t)
      BY <2>2, NextMoves
    <3>2. CASE u = t
      BY <3>1, <3>2, MoveOrdered
    <3>3. CASE u # t
      BY <3>1, <3>3
      DEF Moves, Away, Ordered, Begun, Past, Unconcluded, TakenAway
    <3> QED
      BY <3>2, <3>3
  <2> QED
    BY <2>1, <2>2
<1> QED
  BY <1>1, <1>2, TypeCorrect, SlotsInPlace, PTL DEF Spec

\* What a waiting call has taken as the result of its tool is never put into
\* the main bot's conversation as a message as well, and the other way round,
\* whatever fails, unless a claim overtakes a finish: a finish of the run step
\* that writes after the deliver step was claimed would offer the conclusion
\* to the call once more.
THEOREM TakenIsTaken ==
    ASSUME "finish" \notin Slow
    PROVE  Spec => []TakenOnce
<1>1. (\A t \in Task : Ordered(t)) => TakenOnce
  BY DEF Ordered, TakenAway, Begun, TakenOnce
<1> QED
  BY <1>1, OrderedInvariant, PTL

-----------------------------------------------------------------------------
(* A row is done when its conclusion has left the Gateway.                 *)

PastRun(r) == r.status \notin RunPhase \cup {"absent"}

\* Past its run step a row belongs to the main bot's owner or to nobody, and
\* what says that it is done comes from a job that has posted.
Delivered(t) ==
    LET r == row[t] IN
    /\ PastRun(r) => r.owner \in {OwnerOf[r.from], NoOwner}
    /\ pend[t]["cancel"].op = "withdraw" => PastRun(r)
    /\ \A s \in Phase : pend[t][s].op = "done" => handed[t] # {}
    /\ job[t]["deliver"].ok => handed[t] # {}
    /\ r.status = "done" => handed[t] # {}

\* No write brings a row back to its run step; one that takes it out of there
\* gives it to the main bot's owner or to nobody.
LEMMA WriteDelivered ==
    ASSUME TypeOK, NEW t \in Task, NEW s \in Slot, InPlace(t), Delivered(t),
           Fits(row[t], pend[t][s]), pend[t][s].op \notin {"idle", "conclude"}
    PROVE  LET r == row[t]
               p == Written(r, pend[t][s]) IN
           /\ PastRun(r) => PastRun(p)
           /\ PastRun(p) => p.owner \in {OwnerOf[p.from], NoOwner}
           /\ p.status = "done" =>
                \/ handed[t] # {}
                \/ s = "poll" /\ pend[t][s].op = "take" /\ r.status = "answered"
<1> DEFINE r == row[t]
           h == pend[t][s]
           p == Written(r, h)
<1>1. r \in Row /\ h \in Handler /\ h.op \in Op
  BY RowTyped
<1>2. SlotFits(s, h) /\ r.status # "absent"
  BY DEF InPlace
<1>3. /\ PastRun(r) => r.owner \in {OwnerOf[r.from], NoOwner}
      /\ s = "cancel" /\ h.op = "withdraw" => PastRun(r)
      /\ s \in Phase /\ h.op = "done" => handed[t] # {}
      /\ r.status = "done" => handed[t] # {}
  BY DEF Delivered
<1>4. CASE p = r
  BY <1>3, <1>4
<1>5. CASE Effect(r, "cancelled", p)
  BY <1>5 DEF Effect, PastRun, RunPhase
<1>6. CASE Effect(r, h.op, p) /\ Matches(r, h.expect)
  <2>1. h.op \in {"done", "again", "take", "withdraw"} => PastRun(r)
    <3>1. CASE h.op \in {"done", "again"}
      BY <1>6, <3>1
      DEF Fits, Matches, PastRun, RunPhase, DeliverPhase
    <3>2. CASE h.op = "take"
      BY <1>6, <3>2 DEF Fits, Matches, PastRun, RunPhase
    <3>3. CASE h.op = "withdraw"
      BY <1>2, <1>3, <3>3, SlotNames
      DEF SlotFits, RunOps, DeliverOps, ConcludeOps, OrphanOps
    <3> QED
      BY <3>1, <3>2, <3>3
  <2>2. PastRun(r) => PastRun(p)
    BY <1>6 DEF Effect, PastRun, RunPhase
  <2>3. PastRun(p) => p.owner \in {OwnerOf[p.from], NoOwner}
    <3>1. CASE PastRun(r)
      BY <1>3, <1>6, <3>1 DEF Effect
    <3>2. CASE r.status \in RunPhase /\ PastRun(p)
      <4>1. h.op \notin {"extend", "mark", "idle", "conclude", "requeue"}
        BY <1>6, <3>2 DEF Effect, PastRun, RunPhase
      <4>2. h.op \notin {"done", "again", "take", "withdraw"}
        BY <2>1, <3>2 DEF PastRun
      <4> QED
        BY <1>6, <4>1, <4>2 DEF Effect
    <3> QED
      BY <1>2, <3>1, <3>2 DEF PastRun
  <2>4. p.status = "done" =>
          \/ handed[t] # {}
          \/ s = "poll" /\ h.op = "take" /\ r.status = "answered"
    <3>1. p.status = "done" => h.op \in {"done", "take"} \/ r.status = "done"
      BY <1>6 DEF Effect
    <3>2. h.op = "done" => s \in Phase
      BY <1>2, SlotNames DEF SlotFits, ConcludeOps, OrphanOps
    <3>3. h.op = "take" => s = "poll"
      BY <1>2, SlotNames
      DEF SlotFits, RunOps, DeliverOps, ConcludeOps, OrphanOps
    <3>4. h.op = "take" => r.status = "answered"
      BY <1>6 DEF Fits, Matches
    <3> QED
      BY <1>3, <3>1, <3>2, <3>3, <3>4
  <2> QED
    BY <2>2, <2>3, <2>4
<1> QED
  BY <1>1, <1>4, <1>5, <1>6, WrittenEffect

\* The same of every step.
LEMMA MoveForward ==
    ASSUME TypeOK, NEW t \in Task, Moves(t), InPlace(t), Delivered(t),
           \A s \in Slot : Fits(row[t], pend[t][s])
    PROVE  /\ PastRun(row[t]) => PastRun(row'[t])
           /\ PastRun(row'[t]) =>
                row'[t].owner \in {OwnerOf[row'[t].from], NoOwner}
           /\ row'[t].status = "done" => handed'[t] # {}
<1> DEFINE r == row[t]
           p == row'[t]
<1>1. /\ r \in Row /\ handed[t] \subseteq handed'[t]
      /\ PastRun(r) => r.owner \in {OwnerOf[r.from], NoOwner}
      /\ r.status = "done" => handed[t] # {}
  BY RowTyped DEF Delivered, Moves, Beside
<1>2. CASE Creates(t)
  BY <1>2, CreatedFacts DEF PastRun, RunPhase
<1>3. CASE Claims(t)
  BY <1>1, <1>3, ClaimedStatus DEF Claims, PastRun, RunPhase
<1>4. CASE p = r
  BY <1>1, <1>4
<1>5. CASE Writes(t)
  <2>1. PICK s \in Slot :
          /\ pend[t][s].op \notin {"idle", "conclude"}
          /\ p = Written(r, pend[t][s])
          /\ pend[t][s].op = "take" /\ r.status = "answered" /\ s = "poll"
               => "taken" \in handed'[t]
    BY <1>5 DEF Writes
  <2>2. /\ PastRun(r) => PastRun(p)
        /\ PastRun(p) => p.owner \in {OwnerOf[p.from], NoOwner}
        /\ p.status = "done" =>
             \/ handed[t] # {}
             \/ s = "poll" /\ pend[t][s].op = "take" /\ r.status = "answered"
    BY <2>1, WriteDelivered
  <2> QED
    BY <1>1, <2>1, <2>2
<1>6. CASE Ticks(t)
  BY <1>1, <1>6, TickFacts DEF PastRun
<1> QED
  BY <1>2, <1>3, <1>4, <1>5, <1>6
  DEF Moves, Move, Decided, Concludes, Drops

\* With owners apart, a job that says done is one that has posted.
LEMMA DoneDecided ==
    ASSUME TypeOK, OwnersApart, NEW t \in Task, PairApart(t), Delivered(t),
           NEW s \in Slot, NEW e \in Expect, Decision(t, s, "done", e)
    PROVE  handed[t] # {}
<1>1. s \in Phase /\ JobDecision(t, s, "done")
  BY DEF Decision, SweepDecision, PollDecision, CancelDecision, OrphanOps
<1>2. /\ Holds(JobOwner(t, s), row[t]) /\ row[t].status = "delivering"
      /\ job[t][s].ok
  BY <1>1 DEF JobDecision
<1>3. row[t].owner \in {OwnerOf[row[t].from], NoOwner}
  BY <1>2 DEF Delivered, PastRun, RunPhase
<1>4. s # "run"
  BY <1>2, <1>3, OwnersDiffer DEF Holds, JobOwner, BotOfPhase
<1> QED
  BY <1>1, <1>2, <1>4, SlotNames DEF Delivered

LEMMA MoveDelivered ==
    ASSUME TypeOK, OwnersApart, NEW t \in Task, Moves(t), InPlace(t),
           PairApart(t), Delivered(t),
           \A s \in Slot : Fits(row[t], pend[t][s])
    PROVE  Delivered(t)'
<1>1. /\ PastRun(row[t]) => PastRun(row'[t])
      /\ PastRun(row'[t]) => row'[t].owner \in {OwnerOf[row'[t].from], NoOwner}
      /\ row'[t].status = "done" => handed'[t] # {}
  BY MoveForward
<1>2. /\ handed[t] # {} => handed'[t] # {}
      /\ job'[t]["deliver"].ok => handed'[t] # {}
  BY DEF Moves, Beside, Delivered
<1>3. ASSUME NEW q \in Slot
      PROVE  \/ pend'[t][q] = pend[t][q]
             \/ pend'[t][q].op \notin {"done", "withdraw"}
             \/ /\ row'[t] = row[t]
                /\ \E e \in Expect : Decision(t, q, pend'[t][q].op, e)
  <2>1. CASE Keeps(t)
    BY <2>1 DEF Keeps
  <2>2. CASE Claims(t)
    BY <2>2 DEF Claims, Keeps, Puts
  <2>3. CASE Decided(t)
    BY <2>3 DEF Decided, Puts
  <2>4. CASE Concludes(t)
    BY <2>4 DEF Concludes, Puts
  <2>5. CASE Writes(t) \/ Drops(t)
    BY <2>5 DEF Writes, Drops, Puts, Idle
  <2> QED
    BY <2>1, <2>2, <2>3, <2>4, <2>5 DEF Moves, Move, Creates, Ticks
<1>4. ASSUME NEW s \in Phase, pend'[t][s].op = "done"
      PROVE  handed'[t] # {}
  BY <1>2, <1>3, <1>4, DoneDecided, SlotFacts DEF Delivered
<1>5. ASSUME pend'[t]["cancel"].op = "withdraw"
      PROVE  PastRun(row'[t])
  <2>1. CASE pend[t]["cancel"].op = "withdraw"
    BY <1>1, <2>1 DEF Delivered
  <2>2. CASE row'[t] = row[t]
             /\ \E e \in Expect : Decision(t, "cancel", "withdraw", e)
    BY <2>2, SlotNames, SlotFacts
    DEF Decision, CancelDecision, PastRun, RunPhase
  <2> QED
    BY <1>3, <1>5, <2>1, <2>2, SlotFacts
<1> QED
  BY <1>1, <1>2, <1>4, <1>5 DEF Delivered

LEMMA DeliveredInvariant ==
    ASSUME OwnersApart
    PROVE  Spec => [](\A t \in Task : Delivered(t))
<1>1. Init => \A t \in Task : Delivered(t)
  <2> SUFFICES ASSUME Init, NEW t \in Task PROVE Delivered(t)
    OBVIOUS
  <2>1. \A s \in Slot : pend[t][s].op = "idle"
    BY DEF Init, Idle
  <2>2. ~job[t]["deliver"].ok
    BY SlotFacts DEF Init, NoJob
  <2>3. row[t].status = "absent"
    BY DEF Init, AbsentRows
  <2> QED
    BY <2>1, <2>2, <2>3, SlotFacts DEF Delivered, PastRun
<1>2. TypeOK /\ HandlersFit /\ (\A t \in Task : InPlace(t))
        /\ (\A t \in Task : PairApart(t)) /\ (\A t \in Task : Delivered(t))
        /\ [Next]_vars
      => (\A t \in Task : Delivered(t))'
  <2> SUFFICES ASSUME TypeOK, HandlersFit, \A t \in Task : InPlace(t),
                      \A t \in Task : PairApart(t),
                      \A t \in Task : Delivered(t), [Next]_vars, NEW u \in Task
               PROVE  Delivered(u)'
    OBVIOUS
  <2>1. CASE UNCHANGED vars
    BY <2>1 DEF vars, Delivered
  <2>2. CASE Next
    <3>1. PICK t \in Task : Moves(t)
      BY <2>2, NextMoves
    <3>2. \A s \in Slot : Fits(row[t], pend[t][s])
      BY DEF HandlersFit, Fits
    <3>3. CASE u = t
      BY <3>1, <3>2, <3>3, MoveDelivered
    <3>4. CASE u # t
      BY <3>1, <3>4 DEF Moves, Away, Delivered
    <3> QED
      BY <3>3, <3>4
  <2> QED
    BY <2>1, <2>2
<1> QED
  BY <1>1, <1>2, TypeCorrect, SlotsInPlace, PairsApart,
     HandlersFitInvariant, PTL DEF Spec

\* With the two bots of a row under owners of their own, no row is marked done
\* before its conclusion has left the Gateway: into the call that waits for it
\* or into the main bot's conversation.  This holds with every fault and every
\* handler overtaken.  Under one owner a late finish of the run job is taken
\* for one of the deliver step, and the row is done without a delivery.
THEOREM DoneIsHanded ==
    ASSUME OwnersApart
    PROVE  Spec => []DoneMeansHanded
<1>1. (\A t \in Task : Delivered(t)) => DoneMeansHanded
  BY DEF Delivered, DoneMeansHanded
<1> QED
  BY <1>1, DeliveredInvariant, PTL

-----------------------------------------------------------------------------
(* With prompt handlers every late write meets the row it was decided on.  *)

\* The handlers that no claim and no sweep overtakes.
Prompt == "finish" \notin Slow /\ "cancel" \notin Slow

Owned(r) ==
    /\ r.status \in RunPhase => r.owner = OwnerOf[r.to]
    /\ r.status \in DeliverPhase => r.owner = OwnerOf[r.from]

\* A handler of a job still sees the step it works on, a stop the row it has
\* read, and a call that was stopped polls no more.
Exact(t) ==
    LET op(s) == pend[t][s].op
        status == row[t].status IN
    /\ op("run") # "idle" => op("run") \in RunOps /\ status = "running"
    /\ op("deliver") # "idle" =>
         op("deliver") \in DeliverOps /\ status = "delivering"
    /\ op("cancel") = "revoke" => status = "queued"
    /\ op("cancel") = "withdraw" => status = "answered"
    /\ op("cancel") # "idle" => tool[t] = "stopped" /\ op("poll") = "idle"
    /\ Owned(row[t])

LEMMA PromptIdle ==
    ASSUME NEW t \in Task, Settled(t), Prompt
    PROVE  /\ pend[t]["run"].op = "idle" /\ pend[t]["deliver"].op = "idle"
           /\ pend[t]["cancel"].op = "idle"
  BY SlotFacts DEF Settled, HandlerOf, Prompt, Phase

\* What a write leaves alone: a row that is settled, the status while a job's
\* handler or a stop is at work on it, and the owner that fits the step.
WriteSpares(t, s, p) ==
    /\ row[t].status \in Terminal => p.status = row[t].status
    /\ Owned(p)
    /\ \A q \in Phase \ {s} : pend[t][q].op # "idle" => p.status = row[t].status
    /\ s # "cancel" /\ pend[t]["cancel"].op \in {"revoke", "withdraw"}
         => p.status = row[t].status

LEMMA WriteExact ==
    ASSUME TypeOK, Prompt, NEW t \in Task, NEW s \in Slot, InPlace(t), Exact(t),
           pend[t][s].op \notin {"idle", "conclude"}, s = "sweep" => Settled(t)
    PROVE  WriteSpares(t, s, Written(row[t], pend[t][s]))
<1> DEFINE r == row[t]
           h == pend[t][s]
           p == Written(r, h)
<1>1. r \in Row /\ h \in Handler /\ h.op \in Op /\ r.status \in Status
  BY RowTyped DEF Row
<1>2. SlotFits(s, h)
  BY DEF InPlace
<1>3. CASE p = r
  BY <1>3 DEF WriteSpares, Exact
<1>4. CASE s = "run"
  <2>1. h.op \in RunOps /\ r.status = "running"
    BY <1>4 DEF Exact
  <2>2. pend[t]["deliver"].op = "idle"
        /\ pend[t]["cancel"].op \notin {"revoke", "withdraw"}
    BY <2>1 DEF Exact
  <2>3. Effect(r, h.op, p) \/ Effect(r, "cancelled", p) => Owned(p)
    BY <1>1, <2>1 DEF Effect, Owned, RunOps, RunPhase, DeliverPhase
  <2> QED
    BY <1>1, <1>3, <1>4, <2>1, <2>2, <2>3, WrittenEffect, SlotNames, SlotFacts
    DEF WriteSpares, Terminal
<1>5. CASE s = "deliver"
  <2>1. h.op \in DeliverOps /\ r.status = "delivering"
    BY <1>5 DEF Exact
  <2>2. pend[t]["run"].op = "idle"
        /\ pend[t]["cancel"].op \notin {"revoke", "withdraw"}
    BY <2>1 DEF Exact
  <2>3. Effect(r, h.op, p) => Owned(p)
    BY <1>1, <2>1 DEF Effect, Owned, DeliverOps, RunPhase, DeliverPhase, Exact
  <2>4. h.op \notin {"answered", "reporting", "failed"}
    BY <2>1 DEF DeliverOps
  <2> QED
    BY <1>1, <1>3, <1>5, <2>1, <2>2, <2>3, <2>4, WrittenEffect, SlotNames,
       SlotFacts
    DEF WriteSpares, Terminal
<1>6. CASE s = "sweep" /\ Matches(r, h.expect)
  <2>1. /\ pend[t]["run"].op = "idle" /\ pend[t]["deliver"].op = "idle"
        /\ pend[t]["cancel"].op = "idle"
    BY <1>6, PromptIdle
  <2>2. r.status \notin Terminal
    BY <1>1, <1>2, <1>6
    DEF SlotFits, Matches, RunPhase, DeliverPhase, Claimed, Terminal,
        ConcludeOps, OrphanOps
  <2>3. h.op = "requeue" => r.status \in Claimed
    BY <1>2, <1>6 DEF SlotFits, Matches, Claimed
  <2>4. h.op \notin {"done", "again", "take", "withdraw", "extend", "mark",
                     "idle", "conclude"}
    BY <1>2, <1>6 DEF SlotFits, ConcludeOps, OrphanOps
  <2>5. Effect(r, h.op, p) => Owned(p)
    <3>1. CASE h.op = "requeue"
      BY <1>1, <2>3, <3>1
      DEF Effect, Owned, Exact, RunPhase, DeliverPhase, Claimed
    <3>2. CASE h.op # "requeue"
      BY <1>1, <2>4, <3>2 DEF Effect, Owned, RunPhase, DeliverPhase, Op
    <3> QED
      BY <3>1, <3>2
  <2>6. Effect(r, "cancelled", p) => Owned(p)
    BY DEF Effect, Owned, RunPhase, DeliverPhase
  <2> QED
    BY <1>1, <1>3, <1>6, <2>1, <2>2, <2>5, <2>6, WrittenEffect, SlotNames,
       SlotFacts
    DEF WriteSpares
<1>7. CASE s = "poll"
  <2>1. pend[t]["cancel"].op = "idle"
    BY <1>7 DEF Exact
  <2>2. h.op \in {"extend", "take"}
    BY <1>2, <1>7 DEF SlotFits
  <2>3. CASE h.op = "extend"
    <3>1. Effect(r, h.op, p) =>
            p.status = r.status /\ p.owner = r.owner
            /\ p.from = r.from /\ p.to = r.to
      BY <2>3 DEF Effect
    <3>2. Effect(r, h.op, p) => WriteSpares(t, s, p)
      BY <3>1 DEF WriteSpares, Owned, Exact
    <3> QED
      BY <1>1, <1>3, <2>3, <3>2, WrittenEffect
  <2>4. CASE h.op = "take" /\ Matches(r, h.expect) /\ Effect(r, h.op, p)
    <3>1. r.status = "answered"
      BY <1>2, <1>7, <2>4 DEF SlotFits, Matches, AnyRow
    <3>2. \A q \in Phase : pend[t][q].op = "idle"
      BY <3>1, SlotNames, SlotFacts DEF Exact
    <3>3. p.status = "done"
      BY <2>4 DEF Effect
    <3> QED
      BY <2>1, <3>1, <3>2, <3>3
      DEF WriteSpares, Owned, RunPhase, DeliverPhase, Terminal
  <2> QED
    BY <1>1, <1>3, <2>2, <2>3, <2>4, WrittenEffect
<1>8. CASE s = "cancel"
  <2>1. h.op \in {"revoke", "withdraw", "mark"}
    BY <1>2, <1>8 DEF SlotFits
  <2>2. CASE h.op = "mark"
    <3>1. Effect(r, h.op, p) =>
            p.status = r.status /\ p.owner = r.owner
            /\ p.from = r.from /\ p.to = r.to
      BY <2>2 DEF Effect
    <3>2. Effect(r, h.op, p) => WriteSpares(t, s, p)
      BY <3>1 DEF WriteSpares, Owned, Exact
    <3> QED
      BY <1>1, <1>3, <2>2, <3>2, WrittenEffect
  <2>3. CASE h.op \in {"revoke", "withdraw"} /\ Effect(r, h.op, p)
    <3>1. r.status \in {"queued", "answered"}
      BY <1>8, <2>3 DEF Exact
    <3>2. \A q \in Phase : pend[t][q].op = "idle"
      BY <3>1, SlotNames, SlotFacts DEF Exact
    <3>3. p.status = "cancelled"
      BY <2>3 DEF Effect
    <3> QED
      BY <1>8, <3>1, <3>2, <3>3
      DEF WriteSpares, Owned, RunPhase, DeliverPhase, Terminal
  <2> QED
    BY <1>1, <1>3, <2>1, <2>2, <2>3, WrittenEffect
<1>9. CASE ~Matches(r, h.expect)
  BY <1>3, <1>9 DEF Written
<1> QED
  BY <1>4, <1>5, <1>6, <1>7, <1>8, <1>9, SlotNames

LEMMA MoveSlots ==
    ASSUME TypeOK, OwnersApart, Prompt, NEW t \in Task, Moves(t), InPlace(t),
           PairApart(t), Exact(t)
    PROVE  /\ pend'[t]["run"].op # "idle" =>
                pend'[t]["run"].op \in RunOps /\ row'[t].status = "running"
           /\ pend'[t]["deliver"].op # "idle" =>
                /\ pend'[t]["deliver"].op \in DeliverOps
                /\ row'[t].status = "delivering"
<1> SUFFICES ASSUME NEW q \in Phase, pend'[t][q].op # "idle"
             PROVE  /\ q = "run" => pend'[t][q].op \in RunOps
                                    /\ row'[t].status = "running"
                    /\ q = "deliver" => pend'[t][q].op \in DeliverOps
                                        /\ row'[t].status = "delivering"
  BY SlotFacts
<1> DEFINE Goal == /\ q = "run" => pend'[t][q].op \in RunOps
                                   /\ row'[t].status = "running"
                   /\ q = "deliver" => pend'[t][q].op \in DeliverOps
                                       /\ row'[t].status = "delivering"
<1>1. q \in Slot /\ q \in {"run", "deliver"}
  BY SlotNames, SlotFacts
<1>2. CASE pend'[t][q] = pend[t][q] /\ row'[t].status = row[t].status
  BY <1>1, <1>2 DEF Exact
<1>3. CASE Creates(t)
  BY <1>1, <1>3, CreatedFacts DEF InPlace, Keeps
<1>4. CASE Claims(t)
  <2>1. pend[t][q].op = "idle"
    BY <1>1, <1>4, PromptIdle DEF Claims
  <2>2. PICK op \in {"conclude", "undelivered"} :
          /\ op = "conclude" <=> row[t].status = "queued"
          /\ Puts(t, PhaseOf(row[t]), [op |-> op, expect |-> AnyRow])
    BY <1>1, <1>4, <2>1 DEF Claims, Keeps
  <2>3. q = PhaseOf(row[t]) /\ pend'[t][q].op = op
    BY <1>1, <2>1, <2>2 DEF Puts
  <2>4. /\ row[t].status = "queued" => row'[t].status = "running"
        /\ row[t].status = "reporting" => row'[t].status = "delivering"
        /\ row[t].status = "queued" <=> PhaseOf(row[t]) = "run"
        /\ row[t].status \in {"queued", "reporting"}
    BY <1>4, ClaimedStatus, RowTyped DEF Claims
  <2> QED
    BY <1>1, <2>2, <2>3, <2>4 DEF RunOps, DeliverOps
<1>5. CASE Decided(t) /\ pend'[t][q] # pend[t][q]
  <2>1. PICK s \in Slot, op \in Op, e \in Expect :
          Decision(t, s, op, e) /\ Puts(t, s, [op |-> op, expect |-> e])
    BY <1>5 DEF Decided
  <2>2. s = q /\ pend'[t][q].op = op /\ row'[t] = row[t]
    BY <1>1, <1>5, <2>1 DEF Puts, Decided
  <2>3. JobDecision(t, q, op)
    BY <2>1, <2>2, SlotNames DEF Decision
  <2>4. Holds(JobOwner(t, q), row[t])
    BY <2>3 DEF JobDecision
  <2>5. OwnerOf[row[t].from] # OwnerOf[row[t].to]
    BY OwnersDiffer
  <2>6. q = "run" => row[t].status # "delivering"
    BY <2>4, <2>5
    DEF Holds, JobOwner, BotOfPhase, Exact, Owned, DeliverPhase
  <2>7. q = "deliver" => row[t].status # "running"
    BY <2>4, <2>5
    DEF Holds, JobOwner, BotOfPhase, Exact, Owned, RunPhase
  <2> QED
    BY <1>1, <2>2, <2>3, <2>6, <2>7 DEF JobDecision, RunOps
<1>6. CASE Concludes(t) /\ pend'[t][q] # pend[t][q]
  <2>1. PICK op \in {"cancelled", "answered", "reporting", "failed"} :
          pend[t][q].op = "conclude" /\ pend'[t][q].op = op
    BY <1>1, <1>6 DEF Concludes, Puts
  <2> QED
    BY <1>1, <1>6, <2>1 DEF Concludes, Exact, RunOps, DeliverOps
<1>7. CASE Writes(t)
  <2>1. PICK s \in Slot :
          /\ pend[t][s].op \notin {"idle", "conclude"}
          /\ s = "sweep" => Settled(t)
          /\ row'[t] = Written(row[t], pend[t][s])
          /\ Puts(t, s, Idle)
    BY <1>7 DEF Writes
  <2>2. q # s /\ pend'[t][q] = pend[t][q]
    BY <1>1, <2>1 DEF Puts, Idle
  <2>3. WriteSpares(t, s, row'[t])
    BY <2>1, WriteExact
  <2> QED
    BY <1>2, <2>2, <2>3 DEF WriteSpares
<1>8. CASE Drops(t)
  BY <1>1, <1>2, <1>8 DEF Drops, Puts, Idle
<1>9. CASE Ticks(t)
  BY <1>1, <1>2, <1>9, TickFacts DEF Keeps
<1>10. CASE (Decided(t) \/ Concludes(t)) /\ pend'[t][q] = pend[t][q]
  BY <1>2, <1>10 DEF Decided, Concludes
<1> QED
  BY <1>3, <1>4, <1>5, <1>6, <1>7, <1>8, <1>9, <1>10 DEF Moves, Move

\* A stop that is at work, and the call it belongs to.
LEMMA MoveCancel ==
    ASSUME TypeOK, Prompt, NEW t \in Task, Moves(t), InPlace(t), Exact(t),
           pend'[t]["cancel"].op # "idle"
    PROVE  /\ pend'[t]["cancel"].op = "revoke" => row'[t].status = "queued"
           /\ pend'[t]["cancel"].op = "withdraw" => row'[t].status = "answered"
           /\ tool'[t] = "stopped" /\ pend'[t]["poll"].op = "idle"
<1>1. "cancel" \in Slot /\ "poll" \in Slot
  BY SlotFacts
<1>2. tool[t] = "stopped" /\ row[t].status # "absent" => tool'[t] = "stopped"
  BY DEF Moves, Beside
<1>3. row[t].status = "absent" => pend[t]["cancel"].op = "idle"
  BY <1>1 DEF InPlace
<1>4. pend[t]["cancel"].op # "idle" =>
        /\ tool[t] = "stopped" /\ tool'[t] = "stopped"
        /\ pend[t]["poll"].op = "idle"
  BY <1>2, <1>3 DEF Exact
<1>5. CASE /\ pend'[t]["cancel"] = pend[t]["cancel"]
           /\ pend'[t]["poll"].op \in {pend[t]["poll"].op, "idle"}
           /\ \/ row'[t].status = row[t].status
              \/ pend[t]["cancel"].op \notin {"revoke", "withdraw"}
  BY <1>4, <1>5 DEF Exact
<1>6. CASE Creates(t)
  BY <1>1, <1>3, <1>6, CreatedFacts DEF Keeps
<1>7. ~Claims(t)
  <2> SUFFICES ASSUME Claims(t) PROVE FALSE
    OBVIOUS
  <2>1. pend[t]["cancel"].op = "idle"
    BY PromptIdle DEF Claims
  <2>2. PhaseOf(row[t]) # "cancel"
    BY DEF PhaseOf
  <2>3. pend'[t]["cancel"] = pend[t]["cancel"]
    BY <1>1, <2>2 DEF Claims, Keeps, Puts
  <2> QED
    BY <2>1, <2>3
<1>8. CASE Decided(t)
  <2>1. PICK s \in Slot, op \in Op, e \in Expect :
          /\ pend[t][s].op = "idle"
          /\ Decision(t, s, op, e) /\ Puts(t, s, [op |-> op, expect |-> e])
    BY <1>8 DEF Decided
  <2>2. CASE s = "cancel"
    <3>1. CancelDecision(t, op)
      BY <2>1, <2>2, SlotNames DEF Decision
    <3>2. pend'[t]["cancel"].op = op /\ pend'[t]["poll"] = pend[t]["poll"]
      BY <1>1, <2>1, <2>2 DEF Puts
    <3> QED
      BY <1>8, <3>1, <3>2 DEF CancelDecision, Decided
  <2>3. CASE s = "poll"
    <3>1. tool[t] = "waiting"
      BY <2>1, <2>3, SlotNames DEF Decision, PollDecision
    <3>2. pend[t]["cancel"].op = "idle"
      BY <3>1 DEF Exact
    <3> QED
      BY <1>1, <2>1, <2>3, <3>2 DEF Puts
  <2>4. CASE s \notin {"cancel", "poll"}
    BY <1>1, <1>5, <1>8, <2>1, <2>4 DEF Puts, Decided
  <2> QED
    BY <2>2, <2>3, <2>4
<1>9. CASE Concludes(t)
  <2>1. PICK s \in Slot,
             op \in {"cancelled", "answered", "reporting", "failed"} :
          /\ pend[t][s].op = "conclude"
          /\ Puts(t, s, [op |-> op, expect |-> pend[t][s].expect])
    BY <1>9 DEF Concludes
  <2>2. s \notin {"cancel", "poll"}
    BY <2>1 DEF InPlace, SlotFits
  <2> QED
    BY <1>1, <1>5, <1>9, <2>1, <2>2 DEF Puts, Concludes
<1>10. CASE Writes(t)
  <2>1. PICK s \in Slot :
          /\ pend[t][s].op \notin {"idle", "conclude"}
          /\ s = "sweep" => Settled(t)
          /\ row'[t] = Written(row[t], pend[t][s])
          /\ Puts(t, s, Idle)
    BY <1>10 DEF Writes
  <2>2. s # "cancel" /\ pend'[t]["cancel"] = pend[t]["cancel"]
        /\ pend'[t]["poll"].op \in {pend[t]["poll"].op, "idle"}
    BY <1>1, <2>1 DEF Puts, Idle
  <2>3. WriteSpares(t, s, row'[t])
    BY <2>1, WriteExact
  <2> QED
    BY <1>5, <2>2, <2>3 DEF WriteSpares
<1>11. CASE Drops(t)
  BY <1>1, <1>5, <1>11 DEF Drops, Puts, Idle
<1>12. CASE Ticks(t)
  BY <1>1, <1>5, <1>12, TickFacts DEF Keeps
<1> QED
  BY <1>6, <1>7, <1>8, <1>9, <1>10, <1>11, <1>12 DEF Moves, Move

\* No step gives a settled row another status, or an open one a wrong owner.
LEMMA MoveOwned ==
    ASSUME TypeOK, Prompt, NEW t \in Task, Moves(t), InPlace(t), Exact(t)
    PROVE  /\ row[t].status \in Terminal => row'[t].status = row[t].status
           /\ Owned(row'[t])
<1>1. Owned(row[t])
  BY DEF Exact
<1>2. CASE Creates(t)
  BY <1>2, CreatedFacts DEF Owned, RunPhase, DeliverPhase, Terminal
<1>3. CASE Claims(t)
  BY <1>1, <1>3, ClaimedStatus, RowTyped
  DEF Claims, Owned, RunPhase, DeliverPhase, Terminal
<1>4. CASE row'[t] = row[t]
  BY <1>1, <1>4
<1>5. CASE Writes(t)
  BY <1>5, WriteExact DEF Writes, WriteSpares
<1>6. CASE Ticks(t)
  BY <1>1, <1>6, TickFacts DEF Owned
<1> QED
  BY <1>2, <1>3, <1>4, <1>5, <1>6
  DEF Moves, Move, Decided, Concludes, Drops

LEMMA ExactInvariant ==
    ASSUME OwnersApart, Prompt
    PROVE  Spec => [](\A t \in Task : Exact(t))
<1>1. Init => \A t \in Task : Exact(t)
  <2> SUFFICES ASSUME Init, NEW t \in Task PROVE Exact(t)
    OBVIOUS
  <2>1. \A s \in Slot : pend[t][s].op = "idle"
    BY DEF Init, Idle
  <2>2. row[t].status = "absent"
    BY DEF Init, AbsentRows
  <2> QED
    BY <2>1, <2>2, SlotFacts DEF Exact, Owned, RunPhase, DeliverPhase
<1>2. TypeOK /\ (\A t \in Task : InPlace(t)) /\ (\A t \in Task : PairApart(t))
        /\ (\A t \in Task : Exact(t)) /\ [Next]_vars
      => (\A t \in Task : Exact(t))'
  <2> SUFFICES ASSUME TypeOK, \A t \in Task : InPlace(t),
                      \A t \in Task : PairApart(t),
                      \A t \in Task : Exact(t), [Next]_vars, NEW u \in Task
               PROVE  Exact(u)'
    OBVIOUS
  <2>1. CASE UNCHANGED vars
    BY <2>1 DEF vars, Exact
  <2>2. CASE Next
    <3>1. PICK t \in Task : Moves(t)
      BY <2>2, NextMoves
    <3>2. CASE u = t
      BY <3>1, <3>2, MoveSlots, MoveCancel, MoveOwned DEF Exact
    <3>3. CASE u # t
      BY <3>1, <3>3 DEF Moves, Away, Exact
    <3> QED
      BY <3>2, <3>3
  <2> QED
    BY <2>1, <2>2
<1> QED
  BY <1>1, <1>2, TypeCorrect, SlotsInPlace, PairsApart, PTL DEF Spec

\* An open step can be claimed by nobody but the owner of the bot it knocks on,
\* the target's for the run step and the main bot's for the delivery, with
\* every fault, as long as the owners differ and no claim or sweep overtakes a
\* finish or a stop.
THEOREM OwnerIsRight ==
    ASSUME OwnersApart, Prompt
    PROVE  Spec => []RightOwner
<1>1. (\A t \in Task : Exact(t)) => RightOwner
  BY DEF Exact, Owned, RightOwner
<1> QED
  BY <1>1, ExactInvariant, PTL

\* Under the same conditions a task that is done, failed or cancelled stays so:
\* no late finish, poll, stop or sweep opens it again or settles it otherwise.
THEOREM SettledIsFinal ==
    ASSUME OwnersApart, Prompt
    PROVE  Spec => SettledForGood
<1>1. TypeOK /\ (\A t \in Task : InPlace(t)) /\ (\A t \in Task : Exact(t))
        /\ [Next]_vars
      => [\A t \in Task :
            row[t].status \in Terminal => row'[t].status = row[t].status]_vars
  <2> SUFFICES ASSUME TypeOK, \A t \in Task : InPlace(t),
                      \A t \in Task : Exact(t), Next,
                      NEW u \in Task, row[u].status \in Terminal
               PROVE  row'[u].status = row[u].status
    OBVIOUS
  <2>1. PICK t \in Task : Moves(t)
    BY NextMoves
  <2>2. CASE u = t
    BY <2>1, <2>2, MoveOwned
  <2>3. CASE u # t
    BY <2>1, <2>3 DEF Moves, Away
  <2> QED
    BY <2>2, <2>3
<1> QED
  BY <1>1, TypeCorrect, SlotsInPlace, ExactInvariant, PTL
  DEF Spec, SettledForGood

-----------------------------------------------------------------------------
(* The rows keep the promise of a delegation (module Delegation).          *)

\* A write that cancels rests on a stop the handler has seen.
StopSeen(t) ==
    \A s \in Slot : pend[t][s].op \in {"cancelled", "void", "halt", "drop"}
                      => row[t].stop

\* A conclusion whose delivery has begun is not cancelled any more.
NotRevoked(t) == Begun(t) => row[t].status # "cancelled"

\* Nobody takes a stop back.
LEMMA StopKept ==
    ASSUME TypeOK, NEW t \in Task, Move(t), row[t].stop
    PROVE  row'[t].stop
<1>1. CASE Creates(t)
  BY <1>1, CreatedFacts
<1>2. CASE Claims(t)
  BY <1>2, ClaimedStatus, RowTyped DEF Claims
<1>3. CASE row'[t] = row[t]
  BY <1>3
<1>4. CASE Writes(t)
  <2>1. PICK s \in Slot : row'[t] = Written(row[t], pend[t][s])
    BY <1>4 DEF Writes
  <2>2. ASSUME NEW op, Effect(row[t], op, row'[t])
        PROVE  row'[t].stop
    BY <2>2 DEF Effect
  <2> QED
    BY <2>1, <2>2, RowTyped, WrittenEffect
<1>5. CASE Ticks(t)
  BY <1>5, TickFacts
<1> QED
  BY <1>1, <1>2, <1>3, <1>4, <1>5 DEF Move, Decided, Concludes, Drops

LEMMA MoveStopSeen ==
    ASSUME TypeOK, NEW t \in Task, Move(t), StopSeen(t)
    PROVE  StopSeen(t)'
<1>1. row[t].stop => row'[t].stop
  BY StopKept
<1>2. ASSUME NEW q \in Slot,
             pend'[t][q].op \in {"cancelled", "void", "halt", "drop"}
      PROVE  row[t].stop
  <2>1. CASE pend'[t][q] = pend[t][q]
    BY <1>2, <2>1 DEF StopSeen
  <2>2. CASE Decided(t) /\ pend'[t][q] # pend[t][q]
    <3>1. PICK op \in Op, e \in Expect :
            Decision(t, q, op, e) /\ pend'[t][q] = [op |-> op, expect |-> e]
      BY <2>2 DEF Decided, Puts
    <3>2. op \in {"cancelled", "void", "halt", "drop"}
      BY <1>2, <3>1
    <3> QED
      BY <3>1, <3>2
      DEF Decision, JobDecision, SweepDecision, PollDecision, CancelDecision,
          DeliverOps, OrphanOps
  <2>3. CASE Concludes(t) /\ pend'[t][q] # pend[t][q]
    BY <1>2, <2>3 DEF Concludes, Puts
  <2>4. CASE Claims(t) /\ pend'[t][q] # pend[t][q]
    BY <1>2, <2>4 DEF Claims, Keeps, Puts
  <2>5. CASE (Writes(t) \/ Drops(t)) /\ pend'[t][q] # pend[t][q]
    BY <1>2, <2>5 DEF Writes, Drops, Puts, Idle
  <2> QED
    BY <2>1, <2>2, <2>3, <2>4, <2>5 DEF Move, Creates, Ticks, Keeps
<1> QED
  BY <1>1, <1>2 DEF StopSeen

\* The row a write meets when it matches: with prompt handlers, the one its
\* handler has decided on.
LEMMA WriteMeets ==
    ASSUME TypeOK, Prompt, NEW t \in Task, NEW s \in Slot, InPlace(t), Exact(t),
           Matches(row[t], pend[t][s].expect)
    PROVE  LET r == row[t]
               op == pend[t][s].op IN
           /\ op \in RunOps \cup {"halt"} => r.status \in RunPhase
           /\ op \in DeliverOps => r.status \in DeliverPhase
           /\ op \in OrphanOps \cup {"withdraw", "take"} =>
                r.status = "answered"
           /\ op = "revoke" => r.status = "queued"
           /\ op = "requeue" => r.status \in Claimed
<1> DEFINE r == row[t]
           h == pend[t][s]
<1>1. SlotFits(s, h) /\ h.expect.status \in {"any", r.status}
  BY DEF InPlace, Matches
<1>2. CASE s = "run"
  BY <1>1, <1>2, SlotNames
  DEF SlotFits, Exact, RunOps, DeliverOps, RunPhase, OrphanOps
<1>3. CASE s = "deliver"
  BY <1>1, <1>3, SlotNames
  DEF SlotFits, Exact, RunOps, DeliverOps, DeliverPhase, OrphanOps
<1>4. CASE s = "poll"
  BY <1>1, <1>4 DEF SlotFits, RunOps, DeliverOps, OrphanOps, AnyRow
<1>5. CASE s = "cancel"
  BY <1>1, <1>5 DEF SlotFits, Exact, RunOps, DeliverOps, OrphanOps
<1>6. CASE s = "sweep"
  BY <1>1, <1>6
  DEF SlotFits, RunOps, DeliverOps, ConcludeOps, OrphanOps, RunPhase,
      DeliverPhase, Claimed
<1> QED
  BY <1>2, <1>3, <1>4, <1>5, <1>6, SlotNames

LEMMA StopSeenInvariant == Spec => [](\A t \in Task : StopSeen(t))
<1>1. Init => \A t \in Task : StopSeen(t)
  BY DEF Init, Idle, StopSeen
<1>2. TypeOK /\ (\A t \in Task : StopSeen(t)) /\ [Next]_vars
      => (\A t \in Task : StopSeen(t))'
  <2> SUFFICES ASSUME TypeOK, \A t \in Task : StopSeen(t), [Next]_vars,
                      NEW u \in Task
               PROVE  StopSeen(u)'
    OBVIOUS
  <2>1. CASE UNCHANGED vars
    BY <2>1 DEF vars, StopSeen
  <2>2. CASE Next
    <3>1. PICK t \in Task : Moves(t)
      BY <2>2, NextMoves
    <3>2. CASE u = t
      BY <3>1, <3>2, MoveStopSeen DEF Moves
    <3>3. CASE u # t
      BY <3>1, <3>3 DEF Moves, Away, StopSeen
    <3> QED
      BY <3>2, <3>3
  <2> QED
    BY <2>1, <2>2
<1> QED
  BY <1>1, <1>2, TypeCorrect, PTL DEF Spec

\* Before its delivery has begun nothing of a task is given out.
LEMMA NothingGiven ==
    ASSUME TypeOK, NEW t \in Task, Ordered(t),
           row[t].status \in RunPhase \cup {"answered"}
    PROVE  handed[t] = {} /\ ~Begun(t)
<1>1. ~Past(t) /\ ~TakenAway(t)
  BY DEF Past, TakenAway, RunPhase, DeliverPhase, Terminal
<1>2. "taken" \notin handed[t] /\ ~Begun(t)
  BY <1>1 DEF Ordered
<1>3. "posted" \notin handed[t]
  BY <1>2 DEF Begun
<1> QED
  BY <1>2, <1>3 DEF TypeOK

\* No write cancels a row whose conclusion is in delivery.
LEMMA WriteNotRevoked ==
    ASSUME TypeOK, Prompt, NEW t \in Task, NEW s \in Slot, InPlace(t), Exact(t),
           row[t].status \in DeliverPhase
    PROVE  Written(row[t], pend[t][s]).status # "cancelled"
<1> DEFINE r == row[t]
           h == pend[t][s]
           p == Written(r, h)
<1>1. r.status \notin RunPhase \cup {"answered", "cancelled"}
  BY DEF DeliverPhase, RunPhase
<1>2. CASE p = r
  BY <1>1, <1>2
<1>3. ASSUME Matches(r, h.expect)
      PROVE  h.op \notin RunOps \cup OrphanOps
                         \cup {"halt", "withdraw", "revoke"}
  BY <1>1, <1>3, WriteMeets DEF RunPhase
<1>4. CASE Effect(r, h.op, p) /\ Matches(r, h.expect)
  BY <1>1, <1>3, <1>4 DEF Effect, RunOps, OrphanOps
<1>5. CASE Matches(r, h.expect) /\ h.op \in {"answered", "reporting", "failed"}
  BY <1>3, <1>5 DEF RunOps
<1> QED
  BY <1>2, <1>4, <1>5, RowTyped, WrittenEffect

LEMMA MoveNotRevoked ==
    ASSUME TypeOK, Prompt, NEW t \in Task, Moves(t), InPlace(t), Exact(t),
           Ordered(t), NotRevoked(t)
    PROVE  NotRevoked(t)'
<1> SUFFICES ASSUME Begun(t)', row'[t].status # "delivering"
             PROVE  row'[t].status # "cancelled"
  BY DEF NotRevoked
<1>1. Begun(t)
  BY DEF Begun, Moves, Beside
<1>2. row[t].status \in DeliverPhase \cup {"done", "failed"}
  BY <1>1 DEF Ordered, Past, NotRevoked, Terminal
<1>3. CASE row[t].status \in Terminal
  BY <1>2, <1>3, MoveOwned DEF DeliverPhase, Terminal
<1>4. CASE row[t].status \in DeliverPhase
  <2>1. row[t].status \notin {"absent", "cancelled"}
    BY <1>4 DEF DeliverPhase
  <2>2. CASE Claims(t)
    BY <2>2, ClaimedStatus, RowTyped DEF Claims
  <2>3. CASE Writes(t)
    BY <1>4, <2>3, WriteNotRevoked DEF Writes
  <2>4. CASE Ticks(t)
    BY <2>1, <2>4, TickFacts
  <2>5. ~Creates(t)
    BY <2>1, CreatedFacts
  <2> QED
    BY <2>1, <2>2, <2>3, <2>4, <2>5
    DEF Moves, Move, Decided, Concludes, Drops
<1> QED
  BY <1>2, <1>3, <1>4 DEF Terminal

LEMMA NotRevokedInvariant ==
    ASSUME OwnersApart, Prompt
    PROVE  Spec => [](\A t \in Task : NotRevoked(t))
<1>1. Init => \A t \in Task : NotRevoked(t)
  BY DEF Init, AbsentRows, NotRevoked
<1>2. TypeOK /\ (\A t \in Task : InPlace(t)) /\ (\A t \in Task : Exact(t))
        /\ (\A t \in Task : Ordered(t)) /\ (\A t \in Task : NotRevoked(t))
        /\ [Next]_vars
      => (\A t \in Task : NotRevoked(t))'
  <2> SUFFICES ASSUME TypeOK, \A t \in Task : InPlace(t),
                      \A t \in Task : Exact(t), \A t \in Task : Ordered(t),
                      \A t \in Task : NotRevoked(t), [Next]_vars,
                      NEW u \in Task
               PROVE  NotRevoked(u)'
    OBVIOUS
  <2>1. CASE UNCHANGED vars
    BY <2>1 DEF vars, NotRevoked, Begun
  <2>2. CASE Next
    <3>1. PICK t \in Task : Moves(t)
      BY <2>2, NextMoves
    <3>2. CASE u = t
      BY <3>1, <3>2, MoveNotRevoked
    <3>3. CASE u # t
      BY <3>1, <3>3 DEF Moves, Away, NotRevoked, Begun
    <3> QED
      BY <3>2, <3>3
  <2> QED
    BY <2>1, <2>2
<1>3. "finish" \notin Slow
  BY DEF Prompt
<1> QED
  BY <1>1, <1>2, <1>3, TypeCorrect, SlotsInPlace, ExactInvariant,
     OrderedInvariant, PTL DEF Spec

\* How the finish of a delivery goes on: it is written, or dies with the Gateway
\* or the job, and nothing else marks a delivered row.
FinishGoesOn(t) ==
    LET stage == job[t]["deliver"].stage
        op == pend[t]["deliver"].op IN
    /\ stage = "finishing" =>
         job'[t]["deliver"].stage \in {"finishing", "idle"}
    /\ pend'[t]["deliver"].op = "done" =>
         op = "done" \/ job'[t]["deliver"].stage = "finishing"
    /\ op = "done" /\ stage = "finishing" =>
         \/ pend'[t]["deliver"].op = "done"
         \/ job'[t]["deliver"].stage = "idle"

\* A step that leaves the jobs alone and begins or moves a handler, but none
\* that says done.
LEMMA OtherSlot ==
    ASSUME TypeOK, NEW t \in Task, job' = job, NEW s \in Slot, NEW h,
           pend' = [pend EXCEPT ![t][s] = h],
           s = "deliver" => pend[t][s].op # "done" /\ h.op # "done"
    PROVE  FinishGoesOn(t)
  BY PutFacts, SlotFacts DEF Puts, FinishGoesOn

LEMMA SameSlots ==
    ASSUME NEW t \in Task, pend' = pend,
           job[t]["deliver"].stage = "finishing" =>
             job'[t]["deliver"].stage \in {"finishing", "idle"}
    PROVE  FinishGoesOn(t)
  BY DEF FinishGoesOn

\* A step of a job that is not at its finish.
LEMMA OtherJob ==
    ASSUME TypeOK, NEW t \in Task, NEW ph \in Phase, NEW j, pend' = pend,
           \/ job' = job
           \/ /\ job' = [job EXCEPT ![t][ph] = j]
              /\ ph = "deliver" =>
                   job[t][ph].stage # "finishing" \/ j = NoJob
    PROVE  FinishGoesOn(t)
<1>1. CASE job' = job
  BY <1>1, SameSlots
<1>2. CASE ph # "deliver" /\ job' = [job EXCEPT ![t][ph] = j]
  <2>1. job'[t]["deliver"] = job[t]["deliver"]
    BY <1>2, JobPut, SlotFacts
  <2> QED
    BY <2>1, SameSlots
<1>3. CASE ph = "deliver" /\ job' = [job EXCEPT ![t][ph] = j]
  <2>1. job'[t]["deliver"] = j
    BY <1>3, SlotFacts DEF TypeOK
  <2>2. NoJob.stage = "idle"
    BY DEF NoJob
  <2> QED
    BY <1>3, <2>1, <2>2, SameSlots
<1> QED
  BY <1>1, <1>2, <1>3

\* The end of a handler, and of the job whose finish it was.
LEMMA EndedFinish ==
    ASSUME TypeOK, NEW t \in Task, NEW s \in Slot,
           pend' = [pend EXCEPT ![t][s] = Idle],
           job' = IF s \in Phase /\ job[t][s].stage = "finishing"
                  THEN [job EXCEPT ![t][s] = NoJob] ELSE job
    PROVE  FinishGoesOn(t)
<1>1. /\ pend'[t][s] = Idle
      /\ \A q \in Slot \ {s} : pend'[t][q] = pend[t][q]
  BY PutFacts, ZenonT(60) DEF Puts
<1>2. Idle.op = "idle" /\ NoJob.stage = "idle"
  BY DEF Idle, NoJob
<1>3. CASE s \in Phase /\ job[t][s].stage = "finishing"
  <2>1. job'[t][s] = NoJob
    BY <1>3 DEF TypeOK
  <2>2. \A q \in Phase \ {s} : job'[t][q] = job[t][q]
    BY <1>3 DEF TypeOK
  <2> QED
    BY <1>1, <1>2, <1>3, <2>1, <2>2, SlotFacts DEF FinishGoesOn
<1>4. CASE ~(s \in Phase /\ job[t][s].stage = "finishing")
  <2>1. job' = job
    BY <1>4
  <2> QED
    BY <1>1, <1>2, <1>4, <2>1, SlotFacts DEF FinishGoesOn
<1> QED
  BY <1>3, <1>4

LEMMA GatewayGoesOn ==
    ASSUME TypeOK, NEW t \in Task,
           \/ Create(t) \/ Claim(t) \/ ClaimUnseated(t) \/ GatewayStep(t)
    PROVE  FinishGoesOn(t)
<1>1. CASE Create(t)
  BY <1>1, SameSlots DEF Create
<1>2. CASE Claim(t)
  <2>1. PICK ph \in Phase :
          /\ pend' = pend
          /\ \/ job' = job
             \/ job[t][ph].stage = "idle"
                /\ job' = [job EXCEPT ![t][ph] = NewJob]
    BY <1>2 DEF Claim, PhaseOf, Phase
  <2> QED
    BY <2>1, OtherJob
<1>3. CASE ClaimUnseated(t)
  <2>1. PICK ph \in Slot, op \in {"conclude", "undelivered"} :
          /\ job' = job /\ pend[t][ph].op = "idle"
          /\ pend' = [pend EXCEPT ![t][ph] = [op |-> op, expect |-> AnyRow]]
    BY <1>3 DEF ClaimUnseated, Begin, PhaseOf, Slot
  <2> QED
    BY <2>1, OtherSlot
<1>4. CASE \E s \in Slot : ConcludeRead(t, s)
  <2>1. PICK s \in Slot,
             op \in {"cancelled", "answered", "reporting", "failed"} :
          /\ job' = job /\ pend[t][s].op = "conclude"
          /\ pend' = [pend EXCEPT ![t][s].op = op]
    BY <1>4 DEF ConcludeRead
  <2>2. /\ pend' = [pend EXCEPT ![t][s] = [pend[t][s] EXCEPT !.op = op]]
        /\ [pend[t][s] EXCEPT !.op = op].op = op
    BY <2>1 DEF TypeOK, Handler
  <2> QED
    BY <2>1, <2>2, OtherSlot
<1>5. CASE \E s \in Slot : HandlerWrite(t, s)
  BY <1>5, EndedFinish DEF HandlerWrite
<1>6. CASE PollWrite(t)
  BY <1>6, OtherSlot, SlotFacts DEF PollWrite
<1>7. CASE SweepExpired(t) \/ SweepOrphan(t) \/ SweepUnclaimed(t)
  <2>1. PICK h : job' = job /\ pend' = [pend EXCEPT ![t]["sweep"] = h]
    BY <1>7 DEF SweepExpired, SweepOrphan, SweepUnclaimed, Begin
  <2> QED
    BY <2>1, OtherSlot, SlotFacts
<1> QED
  BY <1>1, <1>2, <1>3, <1>4, <1>5, <1>6, <1>7 DEF GatewayStep

LEMMA FinishBegins ==
    ASSUME TypeOK, NEW t \in Task, NEW ph \in Phase, FinishCall(t, ph)
    PROVE  FinishGoesOn(t)
<1>1. job[t][ph].stage = "ended" /\ ph \in Slot
  BY SlotFacts DEF FinishCall
<1>2. CASE pend' = pend /\ job' = [job EXCEPT ![t][ph] = NoJob]
  BY <1>2, OtherJob
<1>3. CASE /\ pend[t][ph].op = "idle"
           /\ job' = [job EXCEPT ![t][ph].stage = "finishing"]
           /\ \E h : pend' = [pend EXCEPT ![t][ph] = h]
  <2>1. job'[t][ph].stage = "finishing"
    BY <1>3 DEF TypeOK, Job
  <2>2. \A q \in Phase \ {ph} : job'[t][q] = job[t][q]
    BY <1>3 DEF TypeOK
  <2>3. \A q \in Slot \ {ph} : pend'[t][q] = pend[t][q]
    BY <1>3, <1>1 DEF TypeOK
  <2>4. CASE ph = "deliver"
    BY <1>1, <1>3, <2>1, <2>4 DEF FinishGoesOn
  <2>5. CASE ph # "deliver"
    BY <2>2, <2>3, <2>5, SlotFacts DEF FinishGoesOn
  <2> QED
    BY <2>4, <2>5
<1> QED
  BY <1>2, <1>3 DEF FinishCall, Begin

LEMMA JobGoesOn ==
    ASSUME TypeOK, NEW t \in Task, JobStep(t)
    PROVE  FinishGoesOn(t)
<1>1. ASSUME NEW ph \in Phase, Started(t, ph)
      PROVE  FinishGoesOn(t)
  <2>1. job[t][ph].stage = "ready" /\ ph \in Slot
    BY <1>1, SlotFacts DEF Started
  <2>2. CASE pend' = pend
    <3>1. PICK j : job' = [job EXCEPT ![t][ph] = j]
      BY <1>1, <2>2 DEF Started
    <3> QED
      BY <2>1, <2>2, <3>1, OtherJob
  <2>3. CASE /\ job' = [job EXCEPT ![t][ph] = NoJob]
             /\ pend[t][ph].op = "idle"
             /\ \E op \in {"void", "conclude"} :
                  pend' = [pend EXCEPT ![t][ph] =
                             [op |-> op, expect |-> AnyRow]]
    <3>1. PICK op \in {"void", "conclude"} :
            pend' = [pend EXCEPT ![t][ph] = [op |-> op, expect |-> AnyRow]]
      BY <2>3
    <3>2. /\ pend'[t][ph].op = op
          /\ \A q \in Slot \ {ph} : pend'[t][q] = pend[t][q]
      BY <2>1, <3>1 DEF TypeOK
    <3>3. \A q \in Phase \ {ph} : job'[t][q] = job[t][q]
      BY <2>3 DEF TypeOK
    <3>4. CASE ph = "deliver"
      BY <2>1, <2>3, <3>2, <3>4 DEF FinishGoesOn
    <3>5. CASE ph # "deliver"
      BY <3>2, <3>3, <3>5, SlotFacts DEF FinishGoesOn
    <3> QED
      BY <3>4, <3>5
  <2> QED
    BY <1>1, <2>2, <2>3 DEF Started, Begin
<1>2. ASSUME NEW ph \in Phase, Renew(t, ph)
      PROVE  FinishGoesOn(t)
  <2>1. job[t][ph].stage # "finishing" /\ pend' = pend
    BY <1>2 DEF Renew
  <2>2. job' = job \/ \E j : job' = [job EXCEPT ![t][ph] = j]
    BY <1>2 DEF Renew
  <2> QED
    BY <2>1, <2>2, OtherJob
<1>3. CASE PostRun(t) \/ StopTarget(t) \/ \E ok \in BOOLEAN : TurnEnds(t, ok)
  <2>1. pend' = pend /\ \E j : job' = [job EXCEPT ![t]["run"] = j]
    BY <1>3 DEF PostRun, StopTarget, TurnEnds
  <2> QED
    BY <2>1, OtherJob, SlotFacts
<1>4. CASE PostResult(t)
  BY <1>4, OtherJob, SlotFacts DEF PostResult
<1> QED
  BY <1>1, <1>2, <1>3, <1>4, FinishBegins DEF JobStep

LEMMA RestGoesOn ==
    ASSUME TypeOK, NEW t \in Task, ToolStep(t) \/ FaultStep(t) \/ TimeStep(t)
    PROVE  FinishGoesOn(t)
<1>1. CASE PollCall(t) \/ CancelCall(t)
  <2>1. job' = job /\ \/ pend' = pend
                      \/ \E s \in {"poll", "cancel"} : \E h :
                           pend' = [pend EXCEPT ![t][s] = h]
    BY <1>1 DEF PollCall, CancelCall, Begin
  <2> QED
    BY <2>1, SameSlots, OtherSlot, SlotFacts
<1>2. CASE Leave(t) \/ ToolDies(t) \/ TimeStep(t)
  BY <1>2, SameSlots
  DEF Leave, ToolDies, TimeStep, LeaseExpires, WaiterExpires, PickupOverdue,
      OrphanEnds
<1>3. CASE \E s \in Slot : HandlerDies(t, s)
  BY <1>3, EndedFinish DEF HandlerDies
<1>4. ASSUME NEW ph \in Phase, JobBreaks(t, ph) \/ JobDies(t, ph)
      PROVE  FinishGoesOn(t)
  <2>1. /\ pend' = pend
        /\ \/ job' = [job EXCEPT ![t][ph] = NoJob]
           \/ /\ job[t][ph].stage # "finishing"
              /\ job' = [job EXCEPT ![t][ph] = EndedJob(FALSE)]
    BY <1>4 DEF JobBreaks, JobDies
  <2> QED
    BY <2>1, OtherJob
<1> QED
  BY <1>1, <1>2, <1>3, <1>4 DEF ToolStep, FaultStep

\* No delivery goes on behind a finish that says done.
Closing(t) ==
    LET stage == job[t]["deliver"].stage IN
    /\ pend[t]["deliver"].op = "done" => stage \in {"finishing", "idle"}
    /\ row[t].status = "done" => stage = "idle"

LEMMA MoveClosing ==
    ASSUME TypeOK, Prompt, NEW t \in Task, Moves(t), FinishGoesOn(t),
           InPlace(t), Exact(t), Ordered(t), Closing(t)
    PROVE  Closing(t)'
<1>1. ASSUME pend'[t]["deliver"].op = "done"
      PROVE  job'[t]["deliver"].stage \in {"finishing", "idle"}
  <2>1. CASE pend[t]["deliver"].op = "done"
    <3>1. row[t].status = "delivering"
      BY <2>1 DEF Exact
    <3>2. job[t]["deliver"].stage \in {"finishing", "idle"}
      BY <2>1 DEF Closing
    <3> QED
      BY <3>1, <3>2 DEF Moves, Beside, FinishGoesOn
  <2> QED
    BY <1>1, <2>1 DEF FinishGoesOn
<1>2. ASSUME row'[t].status = "done"
      PROVE  job'[t]["deliver"].stage = "idle"
  <2>1. job[t]["deliver"].stage = "idle"
          => job'[t]["deliver"].stage = "idle"
    BY <1>2 DEF Moves, Beside
  <2>2. CASE row[t].status = "done"
    BY <2>1, <2>2 DEF Closing
  <2>3. CASE row[t].status # "done"
    <3>1. Writes(t)
      <4>1. ~Creates(t) /\ ~Ticks(t)
        BY <1>2, <2>3, CreatedFacts, TickFacts
      <4>2. ~Claims(t)
        BY <1>2, ClaimedStatus, RowTyped DEF Claims
      <4> QED
        BY <1>2, <2>3, <4>1, <4>2
        DEF Moves, Move, Decided, Concludes, Drops
    <3>2. PICK s \in Slot :
            row'[t] = Written(row[t], pend[t][s]) /\ Puts(t, s, Idle)
      BY <3>1 DEF Writes
    <3>3. /\ pend[t][s].op \in {"done", "take"}
          /\ Matches(row[t], pend[t][s].expect)
      <4>1. ASSUME NEW op \in Op, Effect(row[t], op, row'[t])
            PROVE  op \in {"done", "take"}
        BY <1>2, <2>3, <4>1 DEF Effect, Op
      <4>2. "cancelled" \in Op
        BY DEF Op
      <4> QED
        BY <2>3, <3>2, <4>1, <4>2, <1>2, WrittenEffect, RowTyped
    <3>4. CASE pend[t][s].op = "take"
      <4>1. row[t].status = "answered"
        BY <3>3, <3>4, WriteMeets
      <4> QED
        BY <2>1, <4>1, NothingGiven DEF Begun
    <3>5. CASE pend[t][s].op = "done"
      <4>1. s \in Phase
        BY <3>5, SlotNames DEF InPlace, SlotFits, ConcludeOps, OrphanOps
      <4>2. s # "run"
        BY <3>5 DEF Exact, RunOps
      <4>3. s = "deliver"
        BY <4>1, <4>2 DEF Phase
      <4>4. pend'[t]["deliver"].op = "idle"
        BY <3>2, <4>3 DEF Puts, Idle
      <4> QED
        BY <2>1, <3>5, <4>3, <4>4 DEF Closing, FinishGoesOn
    <3> QED
      BY <3>3, <3>4, <3>5
  <2> QED
    BY <2>2, <2>3
<1> QED
  BY <1>1, <1>2 DEF Closing

LEMMA ClosingInvariant ==
    ASSUME OwnersApart, Prompt
    PROVE  Spec => [](\A t \in Task : Closing(t))
<1>1. Init => \A t \in Task : Closing(t)
  <2> SUFFICES ASSUME Init, NEW t \in Task PROVE Closing(t)
    OBVIOUS
  <2>1. job[t]["deliver"].stage = "idle"
    BY SlotFacts DEF Init, NoJob
  <2>2. row[t].status = "absent"
    BY DEF Init, AbsentRows
  <2> QED
    BY <2>1, <2>2 DEF Closing
<1>2. TypeOK /\ (\A t \in Task : InPlace(t)) /\ (\A t \in Task : Exact(t))
        /\ (\A t \in Task : Ordered(t)) /\ (\A t \in Task : Closing(t))
        /\ [Next]_vars
      => (\A t \in Task : Closing(t))'
  <2> SUFFICES ASSUME TypeOK, \A t \in Task : InPlace(t),
                      \A t \in Task : Exact(t), \A t \in Task : Ordered(t),
                      \A t \in Task : Closing(t), [Next]_vars, NEW u \in Task
               PROVE  Closing(u)'
    OBVIOUS
  <2>1. CASE UNCHANGED vars
    BY <2>1 DEF vars, Closing
  <2>2. CASE Next
    <3>1. PICK t \in Task : Step(t)
      BY <2>2 DEF Next, Step
    <3>2. Moves(t)
      BY <3>1, StepMoves
    <3>3. FinishGoesOn(t)
      BY <3>1, GatewayGoesOn, JobGoesOn, RestGoesOn DEF Step
    <3>4. CASE u = t
      BY <3>2, <3>3, <3>4, MoveClosing
    <3>5. CASE u # t
      BY <3>2, <3>5 DEF Moves, Away, Closing
    <3> QED
      BY <3>4, <3>5
  <2> QED
    BY <2>1, <2>2
<1>3. "finish" \notin Slow
  BY DEF Prompt
<1> QED
  BY <1>1, <1>2, <1>3, TypeCorrect, SlotsInPlace, ExactInvariant,
     OrderedInvariant, PTL DEF Spec

\* A step of the promise, on what is seen of one task: its progress, whether it
\* was stopped and how its conclusion was given out, before and after.
StepSeen(a, x, g, b, y, h) ==
    \/ a = "none" /\ b \in {"working", "concluded", "failed"} /\ y = x /\ h = g
    \/ a = "working" /\ ~x /\ b \in {"concluded", "failed"} /\ y = x /\ h = g
    \/ a = "concluded" /\ b = "failed" /\ y = x /\ h = g
    \/ a # "none" /\ b = a /\ y = TRUE /\ h = g
    \/ /\ a \in {"working", "concluded"} /\ b = "cancelled"
       /\ y = TRUE /\ g = {} /\ h = g
    \/ a = "concluded" /\ b = "done" /\ y = x /\ g = {} /\ h = {"taken"}
    \/ /\ a \in {"concluded", "failed"} /\ b = a /\ y = x
       /\ "taken" \notin g /\ h = {"posted"}
    \/ a = "concluded" /\ b = "done" /\ y = x /\ "posted" \in g /\ h = g
    \/ b = a /\ y = x /\ h = g

TaskSeen(t) ==
    StepSeen(Progress(row[t]), row[t].stop, handed[t],
             Progress(row'[t]), row'[t].stop, handed'[t])

LEMMA ProgressFacts ==
    ASSUME NEW r \in Row
    PROVE  /\ r.status = "absent" <=> Progress(r) = "none"
           /\ r.status \in RunPhase <=> Progress(r) = "working"
           /\ r.status \in {"answered"} \cup DeliverPhase
                <=> Progress(r) = "concluded"
           /\ r.status \in Terminal => Progress(r) = r.status
           /\ Progress(r) \in Terminal => Progress(r) = r.status
  BY DEF Progress, Row, Status, RunPhase, DeliverPhase, Terminal

\* What a write does to a task, as the person sees it.
LEMMA WriteSeen ==
    ASSUME TypeOK, Prompt, NEW t \in Task, NEW s \in Slot, InPlace(t), Exact(t),
           Ordered(t), Delivered(t), StopSeen(t),
           pend[t][s].op \notin {"idle", "conclude"},
           pend[t][s].op = "take" /\ row[t].status = "answered"
             => handed'[t] # handed[t],
           row'[t] = Written(row[t], pend[t][s]), handed'[t] = handed[t],
           row'[t] \in Row
    PROVE  TaskSeen(t)
<1> DEFINE r == row[t]
           p == row'[t]
           h == pend[t][s]
           op == h.op
           a == Progress(r)
           b == Progress(p)
<1>1. r \in Row /\ h \in Handler /\ op \in Op
  BY RowTyped
<1>2. r.status # "absent" /\ a # "none"
  BY <1>1, ProgressFacts DEF InPlace
<1>3. CASE p = r
  BY <1>3 DEF TaskSeen, StepSeen
<1>4. /\ r.status \in RunPhase => a = "working" /\ handed[t] = {}
      /\ r.status = "answered" => a = "concluded" /\ handed[t] = {}
      /\ r.status \in DeliverPhase => a = "concluded"
  BY <1>1, ProgressFacts, NothingGiven
<1>5. /\ p.status \in RunPhase => b = "working"
      /\ p.status \in {"answered"} \cup DeliverPhase => b = "concluded"
      /\ p.status \in Terminal => b = p.status
  BY ProgressFacts
<1>6. ASSUME r.status \in RunPhase, p.status = "cancelled", p.stop
      PROVE  TaskSeen(t)
  BY <1>4, <1>5, <1>6 DEF TaskSeen, StepSeen, Terminal, Row
<1>7. CASE Effect(r, "cancelled", p) /\ Matches(r, h.expect)
           /\ op \in {"answered", "reporting", "failed"} /\ r.stop
  <2>1. r.status \in RunPhase
    BY <1>7, WriteMeets DEF RunOps
  <2>2. p.status = "cancelled" /\ p.stop
    BY <1>7 DEF Effect
  <2> QED
    BY <1>6, <2>1, <2>2
<1>8. CASE Effect(r, op, p) /\ Matches(r, h.expect)
           /\ (op \in NotCancelledOps => ~r.stop)
  <2>1. CASE op \in {"answered", "reporting", "failed"}
    <3>1. r.status \in RunPhase /\ ~r.stop
      BY <1>8, <2>1, WriteMeets DEF RunOps, NotCancelledOps
    <3>2. p.status = op /\ p.stop = r.stop
      BY <1>8, <2>1 DEF Effect
    <3>3. b \in {"concluded", "failed"}
      BY <1>5, <2>1, <3>2 DEF DeliverPhase, Terminal
    <3> QED
      BY <1>4, <3>1, <3>2, <3>3 DEF TaskSeen, StepSeen
  <2>2. CASE op \in {"cancelled", "void", "halt"}
    <3>1. r.status \in RunPhase /\ r.stop
      BY <1>8, <2>2, WriteMeets DEF RunOps, StopSeen
    <3>2. p.status = "cancelled" /\ p.stop
      BY <1>8, <2>2, <3>1 DEF Effect
    <3> QED
      BY <1>6, <3>1, <3>2
  <2>3. CASE op \in DeliverOps
    <3>1. r.status \in DeliverPhase /\ p.stop = r.stop
      BY <1>8, <2>3, WriteMeets DEF DeliverOps, Effect
    <3>2. a = "concluded"
      BY <1>4, <3>1
    <3>3. CASE op = "again"
      <4>1. b = "concluded"
        BY <1>5, <1>8, <3>3 DEF Effect, DeliverPhase
      <4> QED
        BY <3>1, <3>2, <4>1 DEF TaskSeen, StepSeen
    <3>4. CASE op = "undelivered"
      <4>1. b = "failed"
        BY <1>5, <1>8, <3>4 DEF Effect, Terminal
      <4> QED
        BY <3>1, <3>2, <4>1 DEF TaskSeen, StepSeen
    <3>5. CASE op = "done"
      <4>1. b = "done"
        BY <1>5, <1>8, <3>5 DEF Effect, Terminal
      <4>2. s \in Phase
        BY <3>5, SlotNames DEF InPlace, SlotFits, ConcludeOps, OrphanOps
      <4>3. handed[t] # {} /\ handed[t] \subseteq {"taken", "posted"}
        BY <3>5, <4>2 DEF Delivered, TypeOK
      <4>4. "taken" \notin handed[t]
        BY <3>1 DEF Ordered, TakenAway, DeliverPhase
      <4> QED
        BY <3>1, <3>2, <4>1, <4>3, <4>4 DEF TaskSeen, StepSeen
    <3> QED
      BY <2>3, <3>3, <3>4, <3>5 DEF DeliverOps
  <2>4. CASE op \in OrphanOps
    <3>1. r.status = "answered" /\ p.stop = r.stop
      BY <1>8, <2>4, WriteMeets DEF OrphanOps, Effect
    <3>2. a = "concluded" /\ handed[t] = {}
      BY <1>4, <3>1
    <3>3. CASE op = "handOver"
      <4>1. b = "concluded"
        BY <1>5, <1>8, <3>3 DEF Effect, DeliverPhase
      <4> QED
        BY <3>1, <3>2, <4>1 DEF TaskSeen, StepSeen
    <3>4. CASE op = "giveUp"
      <4>1. b = "failed"
        BY <1>5, <1>8, <3>4 DEF Effect, Terminal
      <4> QED
        BY <3>1, <3>2, <4>1 DEF TaskSeen, StepSeen
    <3>5. CASE op = "drop"
      <4>1. b = "cancelled" /\ p.stop
        BY <1>5, <1>8, <3>1, <3>5 DEF Effect, Terminal, StopSeen
      <4>2. p.stop = TRUE
        BY <4>1 DEF Row
      <4> QED
        BY <3>2, <4>1, <4>2 DEF TaskSeen, StepSeen
    <3> QED
      BY <2>4, <3>3, <3>4, <3>5 DEF OrphanOps
  <2>5. CASE op = "requeue"
    <3>1. r.status \in Claimed /\ p.stop = r.stop
      BY <1>8, <2>5, WriteMeets DEF Effect
    <3>2. b = a
      BY <1>4, <1>5, <1>8, <2>5, <3>1
      DEF Effect, RunPhase, DeliverPhase, Claimed
    <3> QED
      BY <3>1, <3>2 DEF TaskSeen, StepSeen
  <2>6. CASE op = "extend"
    <3>1. p.status = r.status /\ p.stop = r.stop
      BY <1>8, <2>6 DEF Effect
    <3>2. a = b
      BY <3>1 DEF Progress
    <3> QED
      BY <3>1, <3>2 DEF TaskSeen, StepSeen
  <2>7. CASE op = "mark"
    <3>1. p.status = r.status /\ p.stop = TRUE
      BY <1>8, <2>7 DEF Effect
    <3>2. a = b
      BY <3>1 DEF Progress
    <3> QED
      BY <1>2, <3>1, <3>2 DEF TaskSeen, StepSeen
  <2>8. CASE op = "take"
    <3>1. r.status = "answered"
      BY <1>8, <2>8, WriteMeets
    <3> QED
      BY <2>8, <3>1
  <2>9. CASE op \in {"revoke", "withdraw"}
    <3>1. r.status \in {"queued", "answered"}
      BY <1>8, <2>9, WriteMeets
    <3>2. p.status = "cancelled" /\ p.stop = TRUE
      BY <1>8, <2>9 DEF Effect
    <3>3. a \in {"working", "concluded"} /\ handed[t] = {} /\ b = "cancelled"
      BY <1>4, <1>5, <3>1, <3>2 DEF RunPhase, Terminal
    <3> QED
      BY <3>2, <3>3 DEF TaskSeen, StepSeen
  <2> QED
    BY <1>1, <2>1, <2>2, <2>3, <2>4, <2>5, <2>6, <2>7, <2>8, <2>9
    DEF Op, DeliverOps, OrphanOps
<1> QED
  BY <1>1, <1>3, <1>7, <1>8, WrittenEffect

\* A step that gives nothing out.
LEMMA QuietSeen ==
    ASSUME TypeOK, Prompt, NEW t \in Task, Moves(t), InPlace(t), Exact(t),
           Ordered(t), Delivered(t), StopSeen(t), row'[t] \in Row,
           handed'[t] = handed[t]
    PROVE  TaskSeen(t)
<1>1. row[t] \in Row
  BY RowTyped
<1>2. CASE Creates(t)
  <2>1. Progress(row[t]) = "none" /\ row'[t].stop = row[t].stop
    BY <1>1, <1>2, CreatedFacts, ProgressFacts
  <2>2. Progress(row'[t]) \in {"working", "concluded", "failed"}
    BY <1>2, CreatedFacts, ProgressFacts DEF RunPhase, DeliverPhase, Terminal
  <2> QED
    BY <2>1, <2>2 DEF TaskSeen, StepSeen
<1>3. CASE Claims(t)
  <2>1. /\ row[t].status = "queued" => row'[t].status = "running"
        /\ row[t].status = "reporting" => row'[t].status = "delivering"
        /\ row[t].status \in {"queued", "reporting"}
        /\ row'[t].stop = row[t].stop
    BY <1>1, <1>3, ClaimedStatus DEF Claims
  <2>2. Progress(row'[t]) = Progress(row[t])
    <3>1. CASE row[t].status = "queued"
      BY <1>1, <2>1, <3>1, ProgressFacts DEF RunPhase
    <3>2. CASE row[t].status = "reporting"
      BY <1>1, <2>1, <3>2, ProgressFacts DEF DeliverPhase
    <3> QED
      BY <2>1, <3>1, <3>2
  <2> QED
    BY <2>1, <2>2 DEF TaskSeen, StepSeen
<1>4. CASE row'[t] = row[t]
  BY <1>4 DEF TaskSeen, StepSeen
<1>5. CASE Writes(t)
  <2>1. PICK s \in Slot :
          /\ pend[t][s].op \notin {"idle", "conclude"}
          /\ row'[t] = Written(row[t], pend[t][s])
          /\ pend[t][s].op = "take" /\ row[t].status = "answered"
               /\ s = "poll" => "taken" \in handed'[t]
    BY <1>5 DEF Writes
  <2>2. pend[t][s].op = "take" => s = "poll"
    BY SlotNames
    DEF InPlace, SlotFits, RunOps, DeliverOps, ConcludeOps, OrphanOps
  <2>3. row[t].status = "answered" => handed[t] = {}
    BY NothingGiven
  <2> QED
    BY <2>1, <2>2, <2>3, WriteSeen
<1>6. CASE Ticks(t)
  <2>1. row'[t].status = row[t].status /\ row'[t].stop = row[t].stop
    BY <1>6, TickFacts
  <2>2. Progress(row'[t]) = Progress(row[t])
    BY <2>1 DEF Progress
  <2> QED
    BY <2>1, <2>2 DEF TaskSeen, StepSeen
<1> QED
  BY <1>2, <1>3, <1>4, <1>5, <1>6
  DEF Moves, Move, Decided, Concludes, Drops

\* A step that gives the conclusion out: the poll that takes it, or a delivery.
LEMMA GivenSeen ==
    ASSUME TypeOK, NEW t \in Task, Moves(t), InPlace(t), Ordered(t),
           NotRevoked(t), Closing(t), row'[t] \in Row,
           handed'[t] \subseteq {"taken", "posted"}, handed'[t] # handed[t]
    PROVE  TaskSeen(t)
<1>1. handed[t] \subseteq handed'[t] /\ row[t] \in Row
  BY RowTyped DEF Moves, Beside
<1>2. CASE "taken" \in handed'[t] /\ "taken" \notin handed[t]
  <2>1. /\ pend[t]["poll"].op = "take" /\ row[t].status = "answered"
        /\ row'[t] = Written(row[t], pend[t]["poll"])
    BY <1>2 DEF Moves, Beside
  <2>2. handed[t] = {} /\ ~Begun(t)
    BY <2>1, NothingGiven
  <2>3. handed'[t] = {"taken"}
    BY <1>2, <2>2 DEF Moves, Beside, Begun
  <2>4. pend[t]["poll"].expect = [AnyRow EXCEPT !.status = "answered"]
    BY <2>1, SlotFacts DEF InPlace, SlotFits
  <2>5. row'[t].status = "done"
    BY <1>1, <2>1, <2>4, TakeDone, RowTyped, SlotFacts
  <2>6. row'[t].stop = row[t].stop
    <3>1. ASSUME NEW op \in {"take", "cancelled"}, Effect(row[t], op, row'[t])
          PROVE  row'[t].stop = row[t].stop
      BY <3>1 DEF Effect
    <3> QED
      BY <2>1, <3>1, WrittenEffect, RowTyped, SlotFacts
  <2>7. Progress(row[t]) = "concluded" /\ Progress(row'[t]) = "done"
    BY <1>1, <2>1, <2>5, ProgressFacts DEF Terminal
  <2> QED
    BY <2>2, <2>3, <2>6, <2>7 DEF TaskSeen, StepSeen
<1>3. CASE ~("taken" \in handed'[t] /\ "taken" \notin handed[t])
  <2>1. "posted" \in handed'[t] /\ "posted" \notin handed[t]
    BY <1>1, <1>3
  <2>2. Begun(t) /\ row'[t] = row[t] /\ job[t]["deliver"].stage # "idle"
    BY <2>1 DEF Moves, Beside, Begun
  <2>3. row[t].status \in DeliverPhase \cup {"failed"}
    BY <2>2 DEF Ordered, Past, NotRevoked, Closing, Terminal
  <2>4. "taken" \notin handed[t]
    BY <2>2 DEF Ordered, TakenAway
  <2>5. handed'[t] = {"posted"}
    BY <1>3, <2>1, <2>4
  <2>6. Progress(row[t]) \in {"concluded", "failed"}
    BY <1>1, <2>3, ProgressFacts DEF Terminal
  <2> QED
    BY <2>2, <2>4, <2>5, <2>6 DEF TaskSeen, StepSeen
<1> QED
  BY <1>2, <1>3

\* What is seen of one task, the others untouched, is a step of the promise.
LEMMA SeenIsPromised ==
    ASSUME TypeOK, TypeOK', NEW t \in Task, Away(t), TaskSeen(t)
    PROVE  Promise!Next \/ UNCHANGED Promise!vars
<1> DEFINE a(u) == Progress(row[u])
           state == [u \in Task |-> a(u)]
           stopped == [u \in Task |-> row[u].stop]
<1>1. \A u \in Task \ {t} : row'[u] = row[u] /\ handed'[u] = handed[u]
  BY DEF Away
<1>2. Promise!Becomes(t, a(t)')
  BY <1>1 DEF Promise!Becomes
<1>3. stopped' = [stopped EXCEPT ![t] = row'[t].stop]
  BY <1>1
<1>4. handed' = [handed EXCEPT ![t] = handed'[t]]
  BY <1>1 DEF TypeOK
<1>5. a(t)' = a(t) => state' = state
  BY <1>1
<1>6. row'[t].stop = row[t].stop => stopped' = stopped
  BY <1>1
<1>7. handed'[t] = handed[t] => handed' = handed
  BY <1>1 DEF TypeOK
<1>8. CASE /\ a(t) = "none" /\ a(t)' \in {"working", "concluded", "failed"}
           /\ row'[t].stop = row[t].stop /\ handed'[t] = handed[t]
  BY <1>2, <1>6, <1>7, <1>8 DEF Promise!Next, Promise!Delegate
<1>9. CASE /\ a(t) = "working" /\ ~row[t].stop
           /\ a(t)' \in {"concluded", "failed"}
           /\ row'[t].stop = row[t].stop /\ handed'[t] = handed[t]
  BY <1>2, <1>6, <1>7, <1>9 DEF Promise!Next, Promise!Conclude, Promise!Fail
<1>10. CASE /\ a(t) = "concluded" /\ a(t)' = "failed"
            /\ row'[t].stop = row[t].stop /\ handed'[t] = handed[t]
  BY <1>2, <1>6, <1>7, <1>10 DEF Promise!Next, Promise!Fail
<1>11. CASE /\ a(t) # "none" /\ a(t)' = a(t)
            /\ row'[t].stop = TRUE /\ handed'[t] = handed[t]
  BY <1>3, <1>5, <1>7, <1>11 DEF Promise!Next, Promise!Stop
<1>12. CASE /\ a(t) \in {"working", "concluded"} /\ a(t)' = "cancelled"
            /\ row'[t].stop = TRUE /\ handed[t] = {} /\ handed'[t] = handed[t]
  BY <1>2, <1>3, <1>7, <1>12 DEF Promise!Next, Promise!Cancel
<1>13. CASE /\ a(t) = "concluded" /\ a(t)' = "done" /\ handed[t] = {}
            /\ row'[t].stop = row[t].stop /\ handed'[t] = {"taken"}
  BY <1>2, <1>4, <1>6, <1>13 DEF Promise!Next, Promise!Take
<1>14. CASE /\ a(t) \in {"concluded", "failed"} /\ a(t)' = a(t)
            /\ row'[t].stop = row[t].stop
            /\ "taken" \notin handed[t] /\ handed'[t] = {"posted"}
  BY <1>4, <1>5, <1>6, <1>14 DEF Promise!Next, Promise!Post
<1>15. CASE /\ a(t) = "concluded" /\ a(t)' = "done" /\ "posted" \in handed[t]
            /\ row'[t].stop = row[t].stop /\ handed'[t] = handed[t]
  BY <1>2, <1>6, <1>7, <1>15 DEF Promise!Next, Promise!Done
<1>16. CASE /\ a(t)' = a(t)
            /\ row'[t].stop = row[t].stop /\ handed'[t] = handed[t]
  BY <1>5, <1>6, <1>7, <1>16 DEF Promise!vars
<1> QED
  BY <1>8, <1>9, <1>10, <1>11, <1>12, <1>13, <1>14, <1>15, <1>16
  DEF TaskSeen, StepSeen

\* With owners apart and prompt handlers, the rows, handlers, jobs and calls
\* implement the promise of a delegation, whatever fails: one conclusion, taken
\* by the call or posted but not both, none of what was stopped before it,
\* nothing given out of what a stop has cancelled, and nothing posted once the
\* task is done.
THEOREM KeepsThePromise ==
    ASSUME OwnersApart, Prompt
    PROVE  Spec => Delegates
<1>1. Init => Promise!Init
  <2> SUFFICES ASSUME Init PROVE Promise!Init
    OBVIOUS
  <2>1. \A t \in Task : row[t].status = "absent" /\ row[t].stop = FALSE
    BY DEF Init, AbsentRows
  <2>2. \A t \in Task : Progress(row[t]) = "none"
    BY <2>1 DEF Progress, RunPhase, DeliverPhase, Terminal
  <2> QED
    BY <2>1, <2>2 DEF Init, Promise!Init
<1>2. TypeOK /\ TypeOK' /\ (\A t \in Task : InPlace(t))
        /\ (\A t \in Task : Exact(t)) /\ (\A t \in Task : Ordered(t))
        /\ (\A t \in Task : Delivered(t)) /\ (\A t \in Task : StopSeen(t))
        /\ (\A t \in Task : NotRevoked(t)) /\ (\A t \in Task : Closing(t))
        /\ [Next]_vars
      => [Promise!Next]_Promise!vars
  <2> SUFFICES ASSUME TypeOK, TypeOK', \A t \in Task : InPlace(t),
                      \A t \in Task : Exact(t), \A t \in Task : Ordered(t),
                      \A t \in Task : Delivered(t),
                      \A t \in Task : StopSeen(t),
                      \A t \in Task : NotRevoked(t),
                      \A t \in Task : Closing(t), [Next]_vars
               PROVE  Promise!Next \/ UNCHANGED Promise!vars
    OBVIOUS
  <2>1. CASE UNCHANGED vars
    BY <2>1 DEF vars, Promise!vars
  <2>2. CASE Next
    <3>1. PICK t \in Task : Moves(t)
      BY <2>2, NextMoves
    <3>2. row'[t] \in Row /\ handed'[t] \subseteq {"taken", "posted"}
      BY DEF TypeOK
    <3>3. TaskSeen(t)
      BY <3>1, <3>2, QuietSeen, GivenSeen
    <3> QED
      BY <3>1, <3>3, SeenIsPromised DEF Moves
  <2> QED
    BY <2>1, <2>2
<1>3. "finish" \notin Slow
  BY DEF Prompt
<1> QED
  BY <1>1, <1>2, <1>3, TypeCorrect, SlotsInPlace, ExactInvariant,
     OrderedInvariant, DeliveredInvariant, StopSeenInvariant,
     NotRevokedInvariant, ClosingInvariant, PTL
  DEF Spec, Delegates, Promise!Spec
=============================================================================
