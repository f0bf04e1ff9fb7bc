--------------------------- MODULE BotTasksProofs ---------------------------
(***************************************************************************)
(* Theorems about BotTasks for every set of tasks and bots, every layout of *)
(* owners, every choice of faults and of handlers that may be overtaken.    *)
(* A step is first reduced to what it does to the table (RowStep) and to    *)
(* the handlers at work (PendStep); the invariants are proved of those.     *)
(***************************************************************************)
EXTENDS BotTasks, TLAPS

-----------------------------------------------------------------------------
(* Rows.                                                                   *)

\* What every write leaves behind is a row, whatever was read before it: the
\* patches of lib/bot-tasks.ts set no field to a value the column cannot have.
LEMMA PatchType ==
    ASSUME NEW r \in Row, NEW op \in Op
    PROVE  Patch(r, op) \in Row
<1>1. OwnerOf[r.from] \in Owner
  BY OwnersAssumption DEF Row
<1>2. \A s \in Status : Closed(r, s) \in Row /\ Released(r, s) \in Row
  BY ZenonT(30) DEF Closed, Released, Row, Status, Clock
<1>3. Reported(r) \in Row /\ [Reported(r) EXCEPT !.waiter = "none"] \in Row
  BY <1>1 DEF Reported, Row, Status, Clock
<1>4. CASE op \in {"answered", "cancelled", "void", "halt", "failed",
                   "undelivered"}
  BY <1>2, <1>4 DEF Patch, Status
<1>5. CASE op \in {"reporting", "handOver"}
  BY <1>3, <1>5 DEF Patch
<1>6. CASE op \in {"again", "requeue"}
  BY <1>2, <1>6 DEF Patch, Status, RunPhase
<1>7. CASE op \in {"done", "drop", "giveUp", "extend"}
  BY <1>7 DEF Patch, Row, Status, Clock
<1>8. CASE op \in {"take", "revoke", "withdraw", "mark"}
  BY <1>8 DEF Patch, Row, Status, Clock
<1>9. CASE op \in {"idle", "conclude"}
  BY <1>9 DEF Patch
<1> QED
  BY <1>4, <1>5, <1>6, <1>7, <1>8, <1>9 DEF Op

\* updateBotTaskIf writes one of two patches or nothing.
LEMMA WrittenCases ==
    ASSUME NEW r \in Row, NEW h \in Handler
    PROVE  \/ Written(r, h) = r
           \/ /\ Written(r, h) = Patch(r, h.op)
              /\ Matches(r, h.expect)
              /\ ~(h.op \in NotCancelledOps /\ r.stop)
           \/ Written(r, h) = Patch(r, "cancelled")
  BY DEF Written

LEMMA WrittenType ==
    ASSUME NEW r \in Row, NEW h \in Handler
    PROVE  Written(r, h) \in Row
<1>1. h.op \in Op /\ "cancelled" \in Op
  BY DEF Handler, Op
<1> QED
  BY <1>1, WrittenCases, PatchType

\* A claim takes a row to a row.
LEMMA ClaimedType ==
    ASSUME NEW r \in Row
    PROVE  ClaimedRow(r) \in Row
<1>1. r.attempts + 1 \in Nat
  BY DEF Row
<1>2. CASE r.status = "queued"
  BY <1>1, <1>2 DEF ClaimedRow, Row, Status, Clock
<1>3. CASE r.status # "queued"
  BY <1>1, <1>3 DEF ClaimedRow, Row, Status, Clock
<1> QED
  BY <1>2, <1>3

-----------------------------------------------------------------------------
(* Steps.                                                                  *)

\* What a step may do to the table: create a row, claim it, let a handler
\* write, or let a clock of the row move.
RowStep(t) ==
    \/ Create(t)
    \/ /\ Claimable(row[t])
       /\ row' = [row EXCEPT ![t] = ClaimedRow(row[t])]
    \/ \E s \in Slot :
         /\ pend[t][s].op \notin {"idle", "conclude"}
         /\ row' = [row EXCEPT ![t] = Written(row[t], pend[t][s])]
    \/ /\ row[t].status \in Claimed
       /\ \E c \in {"live", "expired"} : row' = [row EXCEPT ![t].lease = c]
    \/ row' = [row EXCEPT ![t].waiter = "expired"]
    \/ row' = [row EXCEPT ![t].overdue = TRUE]

\* The decisions a handler can take on a row as it is now.
Decides(r, op, e) ==
    /\ op \in Op /\ e \in Expect
    /\ op \in {"done", "again", "undelivered"} =>
         e.status \in DeliverPhase \/ r.status \in DeliverPhase
    /\ op \in {"drop", "take"} => e.status = "answered"

\* What a step may do to the handlers at work: end one, let one conclude, or
\* begin one that decides on the row as it is.
PendStep(t) ==
    \/ pend' = pend
    \/ \E s \in Slot : pend' = [pend EXCEPT ![t][s] = Idle]
    \/ \E s \in Slot, op \in {"cancelled", "answered", "reporting", "failed"} :
         pend' = [pend EXCEPT ![t][s].op = op]
    \/ \E s \in Slot, op \in Op, e \in Expect :
         /\ Decides(row[t], op, e)
         /\ Begin(t, s, op, e)
         /\ row[t].status # "absent"

LEMMA HandlerFacts ==
    /\ AnyRow \in Expect
    /\ [AnyRow EXCEPT !.status = "answered"] \in Expect
    /\ Idle \in Handler
    /\ \A r \in Row : AsRead(r) \in Expect
    /\ \A op \in Op, e \in Expect : [op |-> op, expect |-> e] \in Handler
  BY DEF AnyRow, Expect, Idle, Handler, AsRead, Row, Op, Status, Clock

LEMMA SlotFacts ==
    /\ "run" \in Slot /\ "deliver" \in Slot /\ "sweep" \in Slot
    /\ "poll" \in Slot /\ "cancel" \in Slot /\ Phase \subseteq Slot
    /\ "run" \in Phase /\ "deliver" \in Phase
  BY DEF Slot, Phase

LEMMA JobFacts ==
    /\ NoJob \in Job /\ NewJob \in Job
    /\ EndedJob(TRUE) \in Job /\ EndedJob(FALSE) \in Job
    /\ \A j \in Job :
         /\ [j EXCEPT !.stopped = TRUE] \in Job
         /\ \A st \in Stage : [j EXCEPT !.stage = st] \in Job
  BY DEF NoJob, NewJob, EndedJob, Job, Stage

LEMMA TurnFacts ==
    ASSUME NEW ts \in SUBSET Turn, NEW ph \in Phase
    PROVE  /\ Abandoned(ts) \in SUBSET Turn
           /\ LeftBehind(ph, ts) \in SUBSET Turn
           /\ ts \ {"mine"} \in SUBSET Turn
           /\ ts \ {"orphan"} \in SUBSET Turn
           /\ ts \cup {"mine"} \in SUBSET Turn
           /\ ts \cup {"orphan"} \in SUBSET Turn
  BY DEF Abandoned, LeftBehind, Turn

Jobs == [Task -> [Phase -> Job]]

\* The part of the state outside the Gateway's table and handlers.
RestType ==
    /\ job \in Jobs
    /\ live \in [Task -> SUBSET Turn]
    /\ tool \in [Task -> ToolState]
    /\ handed \in [Task -> SUBSET {"taken", "posted"}]

Shape(t) == (row' = row \/ RowStep(t)) /\ PendStep(t) /\ RestType'

\* The tables of jobs and turns a step can make out of the ones before it.
JobSet(t, ph) ==
    {job, [job EXCEPT ![t][ph] = NoJob], [job EXCEPT ![t][ph] = NewJob],
     [job EXCEPT ![t][ph] = EndedJob(TRUE)],
     [job EXCEPT ![t][ph] = EndedJob(FALSE)],
     [job EXCEPT ![t][ph].stopped = TRUE],
     [job EXCEPT ![t][ph].stage = "hooked"],
     [job EXCEPT ![t][ph].stage = "sent"],
     [job EXCEPT ![t][ph].stage = "finishing"]}

LEMMA JobUpdates ==
    ASSUME TypeOK, NEW t \in Task, NEW ph \in Phase
    PROVE  JobSet(t, ph) \subseteq Jobs
<1>1. job \in Jobs /\ job[t][ph] \in Job
  BY DEF TypeOK, Jobs
<1>2. \A j \in Job : [job EXCEPT ![t][ph] = j] \in Jobs
  BY <1>1 DEF Jobs
<1>3. /\ [job EXCEPT ![t][ph].stopped = TRUE]
           = [job EXCEPT ![t][ph] = [job[t][ph] EXCEPT !.stopped = TRUE]]
      /\ \A st \in Stage : [job EXCEPT ![t][ph].stage = st]
           = [job EXCEPT ![t][ph] = [job[t][ph] EXCEPT !.stage = st]]
  OBVIOUS
<1>4. [job EXCEPT ![t][ph].stopped = TRUE] \in Jobs
  BY <1>1, <1>2, <1>3, JobFacts
<1>5. \A st \in Stage : [job EXCEPT ![t][ph].stage = st] \in Jobs
  BY <1>1, <1>2, <1>3, JobFacts
<1>6. {"hooked", "sent", "finishing"} \subseteq Stage
  BY DEF Stage
<1> QED
  BY <1>1, <1>2, <1>4, <1>5, <1>6, JobFacts DEF JobSet

LiveSet(t, ph) ==
    {live} \cup {[live EXCEPT ![t] = ts] : ts \in
        {Abandoned(live[t]), LeftBehind(ph, live[t]), live[t] \ {"mine"},
         live[t] \ {"orphan"}, live[t] \cup {"mine"}, live[t] \cup {"orphan"}}}

LEMMA LiveUpdates ==
    ASSUME TypeOK, NEW t \in Task, NEW ph \in Phase
    PROVE  LiveSet(t, ph) \subseteq [Task -> SUBSET Turn]
<1>1. live \in [Task -> SUBSET Turn] /\ live[t] \in SUBSET Turn
  BY DEF TypeOK
<1>2. \A ts \in SUBSET Turn : [live EXCEPT ![t] = ts] \in [Task -> SUBSET Turn]
  BY <1>1
<1> QED
  BY <1>1, <1>2, TurnFacts DEF LiveSet

-----------------------------------------------------------------------------
(* The Gateway's handlers.                                                 *)

LEMMA CreateShape ==
    ASSUME TypeOK, NEW t \in Task, Create(t)
    PROVE  Shape(t)
<1>1. RowStep(t)
  BY DEF RowStep
<1>2. PendStep(t)
  BY DEF Create, PendStep
<1>3. RestType'
  BY DEF Create, RestType, TypeOK, ToolState, Jobs
<1> QED
  BY <1>1, <1>2, <1>3 DEF Shape

LEMMA ConcludeShape ==
    ASSUME TypeOK, NEW t \in Task, NEW s \in Slot, ConcludeRead(t, s)
    PROVE  Shape(t)
<1>1. PendStep(t)
  BY DEF ConcludeRead, PendStep
<1> QED
  BY <1>1 DEF ConcludeRead, Shape, RestType, TypeOK, Jobs

LEMMA WriteShape ==
    ASSUME TypeOK, NEW t \in Task, NEW s \in Slot, HandlerWrite(t, s)
    PROVE  Shape(t)
<1>1. RowStep(t)
  BY DEF HandlerWrite, RowStep
<1>2. PendStep(t)
  BY DEF HandlerWrite, PendStep
<1>3. RestType'
  BY JobUpdates DEF HandlerWrite, RestType, TypeOK, Jobs, JobSet
<1> QED
  BY <1>1, <1>2, <1>3 DEF Shape

LEMMA HandlerDiesShape ==
    ASSUME TypeOK, NEW t \in Task, NEW s \in Slot, HandlerDies(t, s)
    PROVE  Shape(t)
<1>1. PendStep(t)
  BY DEF HandlerDies, PendStep
<1>2. RestType'
  BY JobUpdates DEF HandlerDies, RestType, TypeOK, Jobs, JobSet
<1> QED
  BY <1>1, <1>2 DEF HandlerDies, Shape

LEMMA ClaimShape ==
    ASSUME TypeOK, NEW t \in Task, Claim(t)
    PROVE  Shape(t)
<1>1. RowStep(t)
  BY DEF Claim, RowStep
<1>2. PendStep(t)
  BY DEF Claim, PendStep
<1>3. PhaseOf(row[t]) \in Phase
  BY DEF PhaseOf, Phase
<1>4. job' \in JobSet(t, PhaseOf(row[t]))
  BY DEF Claim, JobSet
<1>5. job' \in Jobs
  BY <1>3, <1>4, JobUpdates
<1>6. RestType'
  BY <1>5 DEF Claim, RestType, TypeOK
<1> QED
  BY <1>1, <1>2, <1>6 DEF Shape

LEMMA ClaimUnseatedShape ==
    ASSUME TypeOK, NEW t \in Task, ClaimUnseated(t)
    PROVE  Shape(t)
<1>1. RowStep(t)
  BY DEF ClaimUnseated, RowStep
<1>2. PendStep(t)
  <2> DEFINE ph == PhaseOf(row[t])
             op == IF ph = "run" THEN "conclude" ELSE "undelivered"
  <2>1. ph \in Slot /\ op \in Op
    BY DEF PhaseOf, Slot, Op
  <2>2. row[t].status \in {"queued", "reporting"}
    BY DEF ClaimUnseated, Claimable
  <2>3. op = "undelivered" => row[t].status \in DeliverPhase
    BY <2>2 DEF PhaseOf, RunPhase, DeliverPhase
  <2>4. Decides(row[t], op, AnyRow)
    BY <2>1, <2>3, HandlerFacts DEF Decides
  <2>5. Begin(t, ph, op, AnyRow)
    BY DEF ClaimUnseated
  <2>6. row[t].status # "absent"
    BY <2>2
  <2> QED
    BY <2>1, <2>4, <2>5, <2>6, HandlerFacts DEF PendStep
<1>3. RestType'
  BY DEF ClaimUnseated, RestType, TypeOK, Jobs
<1> QED
  BY <1>1, <1>2, <1>3 DEF Shape

-----------------------------------------------------------------------------
(* The jobs.                                                               *)

LEMMA StartedShape ==
    ASSUME TypeOK, NEW t \in Task, NEW ph \in Phase, Started(t, ph)
    PROVE  Shape(t)
<1>1. row' = row \/ RowStep(t)
  BY DEF Started, RowStep, Holds
<1>2. \A op \in {"void", "conclude"} :
        Begin(t, ph, op, AnyRow) /\ row[t].status = "running" => PendStep(t)
  BY HandlerFacts, SlotFacts DEF PendStep, Decides, Op
<1>3. PendStep(t)
  BY <1>2 DEF Started, PendStep
<1>4. job' \in Jobs
  <2>1. job' \in JobSet(t, ph)
    BY DEF Started, JobSet
  <2> QED
    BY <2>1, JobUpdates
<1>5. RestType'
  BY <1>4 DEF Started, RestType, TypeOK
<1> QED
  BY <1>1, <1>3, <1>5 DEF Shape

LEMMA RenewShape ==
    ASSUME TypeOK, NEW t \in Task, NEW ph \in Phase, Renew(t, ph)
    PROVE  Shape(t)
<1>1. row' = row \/ RowStep(t)
  BY DEF Renew, RowStep, Holds
<1>2. PendStep(t)
  BY DEF Renew, PendStep
<1>3. job' \in Jobs
  <2>1. job' \in JobSet(t, ph)
    BY DEF Renew, JobSet
  <2> QED
    BY <2>1, JobUpdates
<1>4. live' \in [Task -> SUBSET Turn]
  <2>1. live' \in LiveSet(t, ph)
    BY DEF Renew, LiveSet
  <2> QED
    BY <2>1, LiveUpdates
<1>5. RestType'
  BY <1>3, <1>4 DEF Renew, RestType, TypeOK
<1> QED
  BY <1>1, <1>2, <1>5 DEF Shape

LEMMA TurnShape ==
    ASSUME TypeOK, NEW t \in Task,
           \/ PostRun(t)
           \/ \E ok \in BOOLEAN : TurnEnds(t, ok)
           \/ StopTarget(t)
    PROVE  Shape(t)
<1>1. row' = row /\ pend' = pend /\ tool' = tool /\ handed' = handed
  BY DEF PostRun, TurnEnds, StopTarget
<1>2. job' \in JobSet(t, "run")
  <2>1. CASE PostRun(t)
    BY <2>1 DEF PostRun, JobSet
  <2>2. CASE \E ok \in BOOLEAN : TurnEnds(t, ok)
    BY <2>2 DEF TurnEnds, JobSet
  <2>3. CASE StopTarget(t)
    BY <2>3 DEF StopTarget, JobSet
  <2> QED
    BY <2>1, <2>2, <2>3
<1>3. job' \in Jobs
  BY <1>2, JobUpdates, SlotFacts
<1>4. live' \in [Task -> SUBSET Turn]
  <2>1. live' \in LiveSet(t, "run")
    BY DEF PostRun, TurnEnds, StopTarget, LiveSet
  <2> QED
    BY <2>1, LiveUpdates, SlotFacts
<1> QED
  BY <1>1, <1>3, <1>4 DEF Shape, PendStep, RestType, TypeOK

LEMMA PostResultShape ==
    ASSUME TypeOK, NEW t \in Task, PostResult(t)
    PROVE  Shape(t)
<1>1. job' \in Jobs
  <2>1. job' \in JobSet(t, "deliver")
    BY DEF PostResult, JobSet
  <2> QED
    BY <2>1, JobUpdates, SlotFacts
<1> QED
  BY <1>1 DEF PostResult, Shape, PendStep, RestType, TypeOK

LEMMA BreaksShape ==
    ASSUME TypeOK, NEW t \in Task, NEW ph \in Phase,
           JobBreaks(t, ph) \/ JobDies(t, ph)
    PROVE  Shape(t)
<1>1. row' = row /\ pend' = pend /\ tool' = tool
  BY DEF JobBreaks, JobDies
<1>2. job' \in Jobs
  <2>1. job' \in JobSet(t, ph)
    BY DEF JobBreaks, JobDies, JobSet
  <2> QED
    BY <2>1, JobUpdates
<1>3. live' \in [Task -> SUBSET Turn]
  <2>1. live' \in LiveSet(t, ph)
    BY DEF JobBreaks, JobDies, LiveSet
  <2> QED
    BY <2>1, LiveUpdates
<1>4. handed' \in [Task -> SUBSET {"taken", "posted"}]
  <2>1. handed' = handed
        \/ handed' = [handed EXCEPT ![t] = handed[t] \cup {"posted"}]
    BY DEF JobBreaks, JobDies
  <2> QED
    BY <2>1, SMTT(30) DEF TypeOK
<1> QED
  BY <1>1, <1>2, <1>3, <1>4 DEF Shape, PendStep, RestType, TypeOK

LEMMA FinishShape ==
    ASSUME TypeOK, NEW t \in Task, NEW ph \in Phase, FinishCall(t, ph)
    PROVE  Shape(t)
<1>1. row' = row /\ live' = live /\ tool' = tool /\ handed' = handed
  BY DEF FinishCall
<1>2. job' \in Jobs
  <2>1. job' \in JobSet(t, ph)
    BY DEF FinishCall, JobSet
  <2> QED
    BY <2>1, JobUpdates
<1>3. PendStep(t)
  <2>1. CASE pend' = pend
    BY <2>1 DEF PendStep
  <2>2. CASE row[t].status \in Claimed /\ row[t].status = "running"
             /\ Begin(t, ph, "conclude", AnyRow)
    BY <2>2, HandlerFacts, SlotFacts DEF PendStep, Decides, Op
  <2>3. ASSUME NEW op \in {"done", "again", "undelivered"},
               row[t].status = "delivering", Begin(t, ph, op, AnyRow)
        PROVE  PendStep(t)
    BY <2>3, HandlerFacts, SlotFacts DEF PendStep, Decides, Op, DeliverPhase
  <2> QED
    BY <2>1, <2>2, <2>3 DEF FinishCall, Holds, Claimed
<1> QED
  BY <1>1, <1>2, <1>3 DEF Shape, RestType, TypeOK

-----------------------------------------------------------------------------
(* The call, the sweep and the clocks.                                     *)

LEMMA PollShape ==
    ASSUME TypeOK, NEW t \in Task, PollCall(t)
    PROVE  Shape(t)
<1>1. PendStep(t)
  <2>1. CASE pend' = pend
    BY <2>1 DEF PendStep
  <2>2. CASE row[t].status = "answered"
             /\ Begin(t, "poll", "take", [AnyRow EXCEPT !.status = "answered"])
    <3>1. [AnyRow EXCEPT !.status = "answered"].status = "answered"
      BY DEF AnyRow
    <3> QED
      BY <2>2, <3>1, HandlerFacts, SlotFacts DEF PendStep, Decides, Op
  <2>3. CASE row[t].status \in RunPhase /\ Begin(t, "poll", "extend", AnyRow)
    BY <2>3, HandlerFacts, SlotFacts DEF PendStep, Decides, Op, RunPhase
  <2> QED
    BY <2>1, <2>2, <2>3 DEF PollCall
<1>2. tool' \in [Task -> ToolState]
  BY DEF PollCall, TypeOK, ToolState, Seen
<1> QED
  BY <1>1, <1>2 DEF PollCall, Shape, RestType, TypeOK, Jobs

LEMMA PollWriteShape ==
    ASSUME TypeOK, NEW t \in Task, PollWrite(t)
    PROVE  Shape(t)
<1>1. RowStep(t)
  BY SlotFacts DEF PollWrite, RowStep
<1>2. PendStep(t)
  BY SlotFacts DEF PollWrite, PendStep
<1>3. tool' \in [Task -> ToolState]
  <2>1. \A st \in Status : Seen(st) \in ToolState
    BY DEF Seen, ToolState
  <2>2. Written(row[t], pend[t]["poll"]) \in Row
    BY WrittenType, SlotFacts DEF TypeOK
  <2>3. Written(row[t], pend[t]["poll"]).status \in Status
    BY <2>2 DEF Row
  <2>4. Seen(Written(row[t], pend[t]["poll"]).status) \in ToolState
        /\ "waiting" \in ToolState
    BY <2>1, <2>3 DEF ToolState
  <2>5. \/ tool' = tool
        \/ tool' = [tool EXCEPT ![t] = "waiting"]
        \/ tool' = [tool EXCEPT ![t] =
                        Seen(Written(row[t], pend[t]["poll"]).status)]
    BY DEF PollWrite
  <2> QED
    BY <2>4, <2>5 DEF TypeOK
<1>4. handed' \in [Task -> SUBSET {"taken", "posted"}]
  <2>1. handed' = handed
        \/ handed' = [handed EXCEPT ![t] = handed[t] \cup {"taken"}]
    BY DEF PollWrite
  <2> QED
    BY <2>1 DEF TypeOK
<1>5. job' = job /\ live' = live
  BY DEF PollWrite
<1> QED
  BY <1>1, <1>2, <1>3, <1>4, <1>5 DEF Shape, RestType, TypeOK, Jobs

LEMMA CancelShape ==
    ASSUME TypeOK, NEW t \in Task, CancelCall(t)
    PROVE  Shape(t)
<1>1. \A op \in {"revoke", "withdraw", "mark"} :
        row[t].status # "absent" /\ Begin(t, "cancel", op, AnyRow)
        => PendStep(t)
  BY HandlerFacts, SlotFacts DEF PendStep, Decides, Op
<1>2. PendStep(t)
  BY <1>1 DEF CancelCall, PendStep, RunPhase
<1>3. tool' \in [Task -> ToolState]
  BY DEF CancelCall, TypeOK, ToolState
<1> QED
  BY <1>2, <1>3 DEF CancelCall, Shape, RestType, TypeOK, Jobs

LEMMA LeaveShape ==
    ASSUME TypeOK, NEW t \in Task, Leave(t) \/ ToolDies(t)
    PROVE  Shape(t)
  BY DEF Leave, ToolDies, Shape, PendStep, RestType, TypeOK, ToolState, Jobs

LEMMA SweepShape ==
    ASSUME TypeOK, NEW t \in Task,
           SweepExpired(t) \/ SweepOrphan(t) \/ SweepUnclaimed(t)
    PROVE  Shape(t)
<1>1. row[t] \in Row /\ AsRead(row[t]) \in Expect
      /\ AsRead(row[t]).status = row[t].status
  BY HandlerFacts DEF TypeOK, AsRead
<1>2. ASSUME NEW op \in {"halt", "requeue", "conclude"},
             row[t].status # "absent", Begin(t, "sweep", op, AsRead(row[t]))
      PROVE  PendStep(t)
  BY <1>1, <1>2, SlotFacts DEF PendStep, Decides, Op
<1>3. ASSUME row[t].status \in DeliverPhase,
             Begin(t, "sweep", "undelivered", AsRead(row[t]))
      PROVE  PendStep(t)
  BY <1>1, <1>3, SlotFacts DEF PendStep, Decides, Op, DeliverPhase
<1>4. ASSUME NEW op \in {"drop", "handOver", "giveUp"},
             row[t].status = "answered",
             Begin(t, "sweep", op, [AnyRow EXCEPT !.status = "answered"])
      PROVE  PendStep(t)
  <2>1. [AnyRow EXCEPT !.status = "answered"].status = "answered"
    BY DEF AnyRow
  <2> QED
    BY <1>4, <2>1, HandlerFacts, SlotFacts DEF PendStep, Decides, Op
<1>5. PendStep(t)
  <2>1. CASE SweepExpired(t)
    BY <2>1, <1>2, <1>3 DEF SweepExpired, Claimed, DeliverPhase
  <2>2. CASE SweepOrphan(t)
    BY <2>2, <1>4 DEF SweepOrphan
  <2>3. CASE SweepUnclaimed(t)
    BY <2>3, <1>2, <1>3 DEF SweepUnclaimed, DeliverPhase
  <2> QED
    BY <2>1, <2>2, <2>3
<1>6. UNCHANGED <<row, job, live, tool, handed>>
  BY DEF SweepExpired, SweepOrphan, SweepUnclaimed
<1> QED
  BY <1>5, <1>6 DEF Shape, RestType, TypeOK, Jobs

LEMMA TimeShape ==
    ASSUME TypeOK, NEW t \in Task, TimeStep(t)
    PROVE  Shape(t)
<1>1. row' = row \/ RowStep(t)
  BY DEF TimeStep, LeaseExpires, WaiterExpires, PickupOverdue, OrphanEnds,
         RowStep
<1>2. pend' = pend /\ job' = job /\ tool' = tool /\ handed' = handed
  BY DEF TimeStep, LeaseExpires, WaiterExpires, PickupOverdue, OrphanEnds
<1>3. live' \in [Task -> SUBSET Turn]
  <2>1. live' \in LiveSet(t, "run")
    BY DEF TimeStep, LeaseExpires, WaiterExpires, PickupOverdue, OrphanEnds,
           LiveSet
  <2> QED
    BY <2>1, LiveUpdates, SlotFacts
<1> QED
  BY <1>1, <1>2, <1>3 DEF Shape, PendStep, RestType, TypeOK, Jobs

\* Every step of the specification is of that shape, for one task.
LEMMA NextShape ==
    ASSUME TypeOK, Next
    PROVE  \E t \in Task : Shape(t)
<1>1. PICK t \in Task :
        \/ Create(t) \/ Claim(t) \/ ClaimUnseated(t)
        \/ GatewayStep(t) \/ JobStep(t) \/ ToolStep(t)
        \/ FaultStep(t) \/ TimeStep(t)
  BY DEF Next
<1>2. CASE Create(t) \/ Claim(t) \/ ClaimUnseated(t)
  BY <1>2, CreateShape, ClaimShape, ClaimUnseatedShape
<1>3. CASE GatewayStep(t)
  BY <1>3, ConcludeShape, WriteShape, PollWriteShape, SweepShape
  DEF GatewayStep
<1>4. CASE JobStep(t)
  BY <1>4, StartedShape, RenewShape, FinishShape, TurnShape, PostResultShape
  DEF JobStep
<1>5. CASE ToolStep(t)
  BY <1>5, PollShape, LeaveShape, CancelShape DEF ToolStep
<1>6. CASE FaultStep(t)
  BY <1>6, HandlerDiesShape, BreaksShape, LeaveShape DEF FaultStep
<1>7. CASE TimeStep(t)
  BY <1>7, TimeShape
<1> QED
  BY <1>1, <1>2, <1>3, <1>4, <1>5, <1>6, <1>7

-----------------------------------------------------------------------------
(* Type correctness.                                                       *)

LEMMA InitType == Init => TypeOK
<1> SUFFICES ASSUME Init PROVE TypeOK
  OBVIOUS
<1>1. row \in [Task -> Row]
  <2> DEFINE Absent ==
        [status : {"absent"}, owner : {NoOwner}, lease : {"none"},
         attempts : {0}, waiter : {"none"}, stop : {FALSE},
         overdue : {FALSE}, from : Mains, to : Bot]
  <2>1. row \in [Task -> Absent]
    BY DEF Init, AbsentRows
  <2>2. ASSUME NEW r \in Absent PROVE r \in Row
    <3>1. /\ r.status \in Status /\ r.owner \in Owner \cup {NoOwner}
          /\ r.lease \in Clock /\ r.waiter \in Clock
          /\ r.stop \in BOOLEAN /\ r.overdue \in BOOLEAN
      BY DEF Status, Clock
    <3>2. r.attempts \in Nat
      OBVIOUS
    <3>3. r.from \in Bot /\ r.to \in Bot
      BY OwnersAssumption
    <3>4. r = [status |-> r.status, owner |-> r.owner, lease |-> r.lease,
               attempts |-> r.attempts, waiter |-> r.waiter, stop |-> r.stop,
               overdue |-> r.overdue, from |-> r.from, to |-> r.to]
      OBVIOUS
    <3> QED
      BY <3>1, <3>2, <3>3, <3>4 DEF Row
  <2> QED
    BY <2>1, <2>2
<1> QED
  BY <1>1, HandlerFacts, JobFacts DEF Init, TypeOK, Slot, Phase, ToolState

\* A step of the table touches one row and leaves a row there.
LEMMA RowStepType ==
    ASSUME TypeOK, NEW t \in Task, RowStep(t)
    PROVE  /\ row' \in [Task -> Row]
           /\ \A u \in Task \ {t} : row'[u] = row[u]
<1>1. row \in [Task -> Row] /\ row[t] \in Row
  BY DEF TypeOK
<1>2. ASSUME NEW r \in Row, row' = [row EXCEPT ![t] = r]
      PROVE  row' \in [Task -> Row] /\ \A u \in Task \ {t} : row'[u] = row[u]
  BY <1>1, <1>2
<1>3. CASE Create(t)
  <2>1. OwnerOf[row[t].to] \in Owner /\ OwnerOf[row[t].from] \in Owner
    BY <1>1, OwnersAssumption DEF Row
  <2>2. PICK s \in {"queued", "answered", "reporting", "failed"},
             o \in Owner \cup {NoOwner}, w \in {"live", "none"} :
          row' = [row EXCEPT ![t].status = s, ![t].lease = "none",
                             ![t].owner = o, ![t].waiter = w]
    BY <1>3, <2>1, Zenon DEF Create
  <2> DEFINE r == [row[t] EXCEPT !.status = s, !.lease = "none",
                                 !.owner = o, !.waiter = w]
  <2>3. r \in Row
    BY <1>1, <2>2 DEF Row, Status, Clock
  <2>4. row' = [row EXCEPT ![t] = r]
    BY <1>1, <2>2
  <2> QED
    BY <1>2, <2>3, <2>4
<1>4. CASE row' = [row EXCEPT ![t] = ClaimedRow(row[t])]
  BY <1>1, <1>2, <1>4, ClaimedType
<1>5. ASSUME NEW s \in Slot,
             row' = [row EXCEPT ![t] = Written(row[t], pend[t][s])]
      PROVE  row' \in [Task -> Row] /\ \A u \in Task \ {t} : row'[u] = row[u]
  <2>1. pend[t][s] \in Handler
    BY DEF TypeOK
  <2> QED
    BY <1>1, <1>2, <1>5, <2>1, WrittenType
<1>6. ASSUME NEW r, row' = [row EXCEPT ![t] = r],
             \/ \E c \in {"live", "expired"} : r = [row[t] EXCEPT !.lease = c]
             \/ r = [row[t] EXCEPT !.waiter = "expired"]
             \/ r = [row[t] EXCEPT !.overdue = TRUE]
      PROVE  row' \in [Task -> Row] /\ \A u \in Task \ {t} : row'[u] = row[u]
  <2>1. r \in Row
    BY <1>1, <1>6 DEF Row, Clock
  <2> QED
    BY <1>2, <1>6, <2>1
<1> QED
  BY <1>1, <1>3, <1>4, <1>5, <1>6 DEF RowStep

LEMMA PendStepType ==
    ASSUME TypeOK, NEW t \in Task, PendStep(t)
    PROVE  pend' \in [Task -> [Slot -> Handler]]
<1>1. pend \in [Task -> [Slot -> Handler]]
  BY DEF TypeOK
<1>2. ASSUME NEW s \in Slot, NEW h \in Handler,
             pend' = [pend EXCEPT ![t][s] = h]
      PROVE  pend' \in [Task -> [Slot -> Handler]]
  BY <1>1, <1>2
<1>3. ASSUME NEW s \in Slot,
             NEW op \in {"cancelled", "answered", "reporting", "failed"},
             pend' = [pend EXCEPT ![t][s].op = op]
      PROVE  pend' \in [Task -> [Slot -> Handler]]
  <2>1. [pend[t][s] EXCEPT !.op = op] \in Handler
    BY <1>1 DEF Handler, Op
  <2>2. pend' = [pend EXCEPT ![t][s] = [pend[t][s] EXCEPT !.op = op]]
    BY <1>1, <1>3
  <2> QED
    BY <1>2, <2>1, <2>2
<1> QED
  BY <1>1, <1>2, <1>3, HandlerFacts DEF PendStep, Begin

LEMMA NextType == TypeOK /\ [Next]_vars => TypeOK'
<1> SUFFICES ASSUME TypeOK, [Next]_vars PROVE TypeOK'
  OBVIOUS
<1>1. CASE UNCHANGED vars
  BY <1>1 DEF vars, TypeOK
<1>2. CASE Next
  <2>1. PICK t \in Task : Shape(t)
    BY <1>2, NextShape
  <2>2. row' \in [Task -> Row]
    BY <2>1, RowStepType DEF Shape, TypeOK
  <2>3. pend' \in [Task -> [Slot -> Handler]]
    BY <2>1, PendStepType DEF Shape
  <2> QED
    BY <2>1, <2>2, <2>3 DEF Shape, RestType, TypeOK, Jobs
<1> QED
  BY <1>1, <1>2

\* Every reachable state of the rows, handlers, jobs and calls is of the
\* types the code declares for them.
THEOREM TypeCorrect == Spec => []TypeOK
<1> QED
  BY InitType, NextType, PTL DEF Spec

-----------------------------------------------------------------------------
(* No row is out of reach.                                                 *)

Covered(r) ==
    /\ r.status \in {"queued", "reporting"} => r.lease = "none"
    /\ r.status \in Claimed => r.lease # "none"

LEMMA PatchCovered ==
    ASSUME NEW r \in Row, NEW op \in Op, Covered(r)
    PROVE  Covered(Patch(r, op))
<1>1. CASE op \in {"answered", "cancelled", "void", "halt", "failed",
                   "undelivered", "done"}
  BY <1>1 DEF Patch, Closed, Covered, Row, Claimed
<1>2. CASE op \in {"reporting", "handOver"}
  BY <1>2 DEF Patch, Reported, Covered, Row, Claimed
<1>3. CASE op \in {"again", "requeue"}
  BY <1>3 DEF Patch, Released, Covered, Row, Claimed, RunPhase
<1>4. CASE op \in {"drop", "giveUp", "take", "revoke", "withdraw"}
  BY <1>4 DEF Patch, Covered, Row, Claimed
<1>5. CASE op \in {"extend", "mark"}
  BY <1>5 DEF Patch, Covered, Row
<1>6. CASE op \in {"idle", "conclude"}
  BY <1>6 DEF Patch
<1> QED
  BY <1>1, <1>2, <1>3, <1>4, <1>5, <1>6 DEF Op

LEMMA RowStepCovered ==
    ASSUME TypeOK, NEW t \in Task, RowStep(t), Covered(row[t])
    PROVE  Covered(row'[t])
<1>1. row \in [Task -> Row] /\ row[t] \in Row
  BY DEF TypeOK
<1>2. CASE Create(t)
  BY <1>1, <1>2 DEF Create, Covered, Claimed, Row
<1>3. CASE row' = [row EXCEPT ![t] = ClaimedRow(row[t])]
  BY <1>1, <1>3 DEF ClaimedRow, Covered, Row
<1>4. ASSUME NEW s \in Slot,
             row' = [row EXCEPT ![t] = Written(row[t], pend[t][s])]
      PROVE  Covered(row'[t])
  <2>1. pend[t][s] \in Handler /\ pend[t][s].op \in Op /\ "cancelled" \in Op
    BY DEF TypeOK, Handler, Op
  <2>2. Covered(Written(row[t], pend[t][s]))
    BY <1>1, <2>1, WrittenCases, PatchCovered
  <2> QED
    BY <1>1, <1>4, <2>2
<1>5. CASE /\ row[t].status \in Claimed
           /\ \E c \in {"live", "expired"} : row' = [row EXCEPT ![t].lease = c]
  BY <1>1, <1>5 DEF Covered, Claimed, Row
<1>6. CASE \/ row' = [row EXCEPT ![t].waiter = "expired"]
           \/ row' = [row EXCEPT ![t].overdue = TRUE]
  BY <1>1, <1>6 DEF Covered, Row
<1> QED
  BY <1>2, <1>3, <1>4, <1>5, <1>6 DEF RowStep

\* A row that waits for a claim has no lease and a claimed row has one, so
\* claimBotTasks and the sweeps between them see every open row but those whose
\* answer waits to be fetched.
THEOREM NoRowOutOfReach == Spec => []SweepCovers
<1>1. SweepCovers <=> \A t \in Task : Covered(row[t])
  BY DEF SweepCovers, Covered
<1>2. SweepCovers' <=> \A t \in Task : Covered(row'[t])
  BY DEF SweepCovers, Covered
<1>3. Init => SweepCovers
  BY DEF Init, AbsentRows, SweepCovers, Claimed
<1>4. TypeOK /\ SweepCovers /\ [Next]_vars => SweepCovers'
  <2> SUFFICES ASSUME TypeOK, SweepCovers, [Next]_vars PROVE SweepCovers'
    OBVIOUS
  <2>1. CASE UNCHANGED vars
    BY <2>1 DEF vars, SweepCovers
  <2>2. CASE Next
    <3>1. PICK t \in Task : Shape(t)
      BY <2>2, NextShape
    <3>2. CASE row' = row
      BY <3>2, <1>1, <1>2
    <3>3. CASE RowStep(t)
      BY <3>3, <1>1, <1>2, RowStepCovered, RowStepType
    <3> QED
      BY <3>1, <3>2, <3>3 DEF Shape
  <2> QED
    BY <2>1, <2>2
<1> QED
  BY <1>3, <1>4, TypeCorrect, PTL DEF Spec

-----------------------------------------------------------------------------
(* Stop holds.                                                             *)

\* A handler that closes the deliver step, or an answer, has read a row past
\* its run step, and no row goes back there.
Fits(r, h) ==
    /\ h.op \in {"done", "again", "undelivered"} =>
         \/ h.expect.status \in DeliverPhase
         \/ r.status \notin RunPhase \cup {"absent"}
    /\ h.op \in {"drop", "take"} => h.expect.status = "answered"

\* Where a write can take a row.
LEMMA PatchForward ==
    ASSUME NEW r \in Row, NEW op \in Op,
           r.status \notin RunPhase \cup {"absent"}
    PROVE  Patch(r, op).status \notin RunPhase \cup {"absent"}
<1>1. CASE op \in {"answered", "cancelled", "void", "halt", "failed",
                   "undelivered", "done"}
  BY <1>1 DEF Patch, Closed, Row, RunPhase
<1>2. CASE op \in {"reporting", "handOver"}
  BY <1>2 DEF Patch, Reported, Row, RunPhase
<1>3. CASE op \in {"again", "requeue"}
  BY <1>3 DEF Patch, Released, Row, RunPhase
<1>4. CASE op \in {"drop", "giveUp", "take", "revoke", "withdraw"}
  BY <1>4 DEF Patch, Row, RunPhase
<1>5. CASE op \in {"extend", "mark"}
  BY <1>5 DEF Patch, Row
<1>6. CASE op \in {"idle", "conclude"}
  BY <1>6 DEF Patch
<1> QED
  BY <1>1, <1>2, <1>3, <1>4, <1>5, <1>6 DEF Op

LEMMA RowStepForward ==
    ASSUME TypeOK, NEW t \in Task, RowStep(t),
           row[t].status \notin RunPhase \cup {"absent"}
    PROVE  row'[t].status \notin RunPhase \cup {"absent"}
<1>1. row \in [Task -> Row] /\ row[t] \in Row
  BY DEF TypeOK
<1>2. CASE Create(t)
  BY <1>2 DEF Create
<1>3. CASE Claimable(row[t]) /\ row' = [row EXCEPT ![t] = ClaimedRow(row[t])]
  BY <1>1, <1>3 DEF Claimable, ClaimedRow, Row, RunPhase
<1>4. ASSUME NEW s \in Slot,
             row' = [row EXCEPT ![t] = Written(row[t], pend[t][s])]
      PROVE  row'[t].status \notin RunPhase \cup {"absent"}
  <2>1. pend[t][s] \in Handler /\ pend[t][s].op \in Op /\ "cancelled" \in Op
    BY DEF TypeOK, Handler, Op
  <2>2. Written(row[t], pend[t][s]).status \notin RunPhase \cup {"absent"}
    BY <1>1, <2>1, WrittenCases, PatchForward
  <2> QED
    BY <1>1, <1>4, <2>2
<1>5. CASE \/ \E c \in {"live", "expired"} : row' = [row EXCEPT ![t].lease = c]
           \/ row' = [row EXCEPT ![t].waiter = "expired"]
           \/ row' = [row EXCEPT ![t].overdue = TRUE]
  BY <1>1, <1>5 DEF Row
<1> QED
  BY <1>2, <1>3, <1>4, <1>5 DEF RowStep

\* What a handler has decided goes on fitting while other handlers write.
LEMMA RowStepFits ==
    ASSUME TypeOK, NEW t \in Task, row' = row \/ RowStep(t),
           NEW s \in Slot, Fits(row[t], pend[t][s])
    PROVE  Fits(row'[t], pend[t][s])
  BY RowStepForward DEF Fits

LEMMA PendStepFits ==
    ASSUME TypeOK, NEW t \in Task, row' = row \/ RowStep(t), PendStep(t),
           \A s \in Slot : Fits(row[t], pend[t][s])
    PROVE  \A s \in Slot : Fits(row'[t], pend'[t][s])
<1>1. pend \in [Task -> [Slot -> Handler]] /\ row \in [Task -> Row]
  BY DEF TypeOK
<1>2. \A s \in Slot : Fits(row'[t], pend[t][s])
  BY RowStepFits
<1>3. CASE pend' = pend
  BY <1>2, <1>3
<1>4. ASSUME NEW s \in Slot, pend' = [pend EXCEPT ![t][s] = Idle]
      PROVE  \A q \in Slot : Fits(row'[t], pend'[t][q])
  <2>1. Fits(row'[t], Idle)
    BY DEF Fits, Idle
  <2> QED
    BY <1>1, <1>2, <1>4, <2>1
<1>5. ASSUME NEW s \in Slot,
             NEW op \in {"cancelled", "answered", "reporting", "failed"},
             pend' = [pend EXCEPT ![t][s].op = op]
      PROVE  \A q \in Slot : Fits(row'[t], pend'[t][q])
  <2>1. pend'[t][s].op = op
    BY <1>1, <1>5 DEF Handler
  <2>2. Fits(row'[t], pend'[t][s])
    BY <2>1 DEF Fits
  <2>3. \A q \in Slot \ {s} : pend'[t][q] = pend[t][q]
    BY <1>1, <1>5
  <2> QED
    BY <1>2, <2>2, <2>3
<1>6. ASSUME NEW s \in Slot, NEW op \in Op, NEW e \in Expect,
             Decides(row[t], op, e), Begin(t, s, op, e)
      PROVE  \A q \in Slot : Fits(row'[t], pend'[t][q])
  <2>1. Fits(row[t], [op |-> op, expect |-> e])
    BY <1>6 DEF Fits, Decides, DeliverPhase, RunPhase
  <2>2. Fits(row'[t], [op |-> op, expect |-> e])
    BY <2>1, RowStepForward DEF Fits
  <2> QED
    BY <1>1, <1>2, <1>6, <2>2 DEF Begin
<1> QED
  BY <1>3, <1>4, <1>5, <1>6 DEF PendStep

LEMMA HandlersFitInvariant == Spec => []HandlersFit
<1>1. HandlersFit <=> \A t \in Task, s \in Slot : Fits(row[t], pend[t][s])
  BY DEF HandlersFit, Fits
<1>2. HandlersFit' <=> \A t \in Task, s \in Slot : Fits(row'[t], pend'[t][s])
  BY DEF HandlersFit, Fits
<1>3. Init => HandlersFit
  BY DEF Init, HandlersFit, Idle
<1>4. TypeOK /\ HandlersFit /\ [Next]_vars => HandlersFit'
  <2> SUFFICES ASSUME TypeOK, HandlersFit, [Next]_vars PROVE HandlersFit'
    OBVIOUS
  <2>1. CASE UNCHANGED vars
    BY <2>1 DEF vars, HandlersFit
  <2>2. CASE Next
    <3>1. PICK t \in Task : Shape(t)
      BY <2>2, NextShape
    <3>2. \A s \in Slot : Fits(row'[t], pend'[t][s])
      BY <3>1, <1>1, PendStepFits DEF Shape
    <3>3. \A u \in Task \ {t} : row'[u] = row[u] /\ pend'[u] = pend[u]
      <4>1. \A u \in Task \ {t} : row'[u] = row[u]
        BY <3>1, RowStepType DEF Shape
      <4>2. \A u \in Task \ {t} : pend'[u] = pend[u]
        BY <3>1 DEF Shape, PendStep, Begin, TypeOK
      <4> QED
        BY <4>1, <4>2
    <3> QED
      BY <1>1, <1>2, <3>2, <3>3
  <2> QED
    BY <2>1, <2>2
<1> QED
  BY <1>3, <1>4, TypeCorrect, PTL DEF Spec

\* Where a write can take a row whose run step is open and stopped.
Halted(r) == r.status \in RunPhase \cup {"cancelled"}

LEMMA WrittenHalted ==
    ASSUME NEW r \in Row, NEW h \in Handler, h.op # "conclude",
           r.stop, r.status \in RunPhase, Fits(r, h)
    PROVE  Halted(Written(r, h))
<1>1. h.op \in Op
  BY DEF Handler
<1>2. CASE Written(r, h) = r
  BY <1>2 DEF Halted
<1>3. CASE Written(r, h) = Patch(r, "cancelled")
  BY <1>3 DEF Patch, Closed, Halted, Row
<1>4. CASE /\ Written(r, h) = Patch(r, h.op)
           /\ Matches(r, h.expect)
           /\ ~(h.op \in NotCancelledOps /\ r.stop)
  <2>1. h.op \notin {"answered", "reporting", "failed", "handOver", "giveUp"}
    BY <1>4 DEF NotCancelledOps
  <2>2. h.expect.status \in {"any", r.status}
    BY <1>4 DEF Matches
  <2>3. h.op \notin {"done", "again", "undelivered", "drop", "take"}
    BY <2>2 DEF Fits, RunPhase, DeliverPhase
  <2>4. CASE h.op \in {"cancelled", "void", "halt"}
    BY <1>4, <2>4 DEF Patch, Closed, Halted, Row
  <2>5. CASE h.op = "requeue"
    BY <1>4, <2>5 DEF Patch, Released, Halted, Row, RunPhase
  <2>6. CASE h.op \in {"revoke", "withdraw", "extend", "mark"}
    BY <1>4, <2>6 DEF Patch, Halted, Row
  <2>7. CASE h.op = "idle"
    BY <1>4, <2>7 DEF Patch, Halted
  <2> QED
    BY <1>1, <2>1, <2>3, <2>4, <2>5, <2>6, <2>7 DEF Op
<1> QED
  BY <1>2, <1>3, <1>4, WrittenCases

LEMMA RowStepHalted ==
    ASSUME TypeOK, HandlersFit, NEW t \in Task, RowStep(t),
           row[t].stop, row[t].status \in RunPhase
    PROVE  Halted(row'[t])
<1>1. row \in [Task -> Row] /\ row[t] \in Row
  BY DEF TypeOK
<1>2. CASE Create(t)
  BY <1>2 DEF Create, RunPhase
<1>3. CASE Claimable(row[t]) /\ row' = [row EXCEPT ![t] = ClaimedRow(row[t])]
  BY <1>3 DEF Claimable, RunPhase
<1>4. ASSUME NEW s \in Slot, pend[t][s].op \notin {"idle", "conclude"},
             row' = [row EXCEPT ![t] = Written(row[t], pend[t][s])]
      PROVE  Halted(row'[t])
  <2>1. pend[t][s] \in Handler
    BY DEF TypeOK
  <2>2. Fits(row[t], pend[t][s])
    BY DEF HandlersFit, Fits
  <2> QED
    BY <1>1, <1>4, <2>1, <2>2, WrittenHalted
<1>5. CASE \/ \E c \in {"live", "expired"} : row' = [row EXCEPT ![t].lease = c]
           \/ row' = [row EXCEPT ![t].waiter = "expired"]
           \/ row' = [row EXCEPT ![t].overdue = TRUE]
  BY <1>1, <1>5 DEF Row, Halted
<1> QED
  BY <1>2, <1>3, <1>4, <1>5 DEF RowStep

\* Stop holds: a row that is stopped while its run step is open, however its
\* handlers interleave and whatever fails, can only go on running or end as
\* cancelled.  HandlersFit is what makes it so: the unconditional writes of the
\* deliver step and those on an answer never meet such a row.
THEOREM StopHolds == Spec => CancelSticks
<1>1. TypeOK /\ HandlersFit /\ [Next]_vars
      => [\A t \in Task :
            row[t].stop /\ row[t].status \in RunPhase =>
               row'[t].status \in RunPhase \cup {"cancelled"}]_vars
  <2> SUFFICES ASSUME TypeOK, HandlersFit, Next, NEW u \in Task,
                      row[u].stop, row[u].status \in RunPhase
               PROVE  Halted(row'[u])
    BY DEF Halted
  <2>1. PICK t \in Task : Shape(t)
    BY NextShape
  <2>2. CASE row'[u] = row[u]
    BY <2>2 DEF Halted
  <2>3. CASE u = t /\ RowStep(t)
    BY <2>3, RowStepHalted
  <2> QED
    BY <2>1, <2>2, <2>3, RowStepType DEF Shape
<1> QED
  BY <1>1, TypeCorrect, HandlersFitInvariant, PTL DEF Spec, CancelSticks
=============================================================================
