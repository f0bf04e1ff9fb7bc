------------------------------ MODULE BotTasks ------------------------------
(***************************************************************************)
(* Delegation from the main bot (docs/bot-tasks.md): the rows of bot_tasks,*)
(* the Gateway handlers that change them (gateway/src/lib/bot-tasks.ts),   *)
(* the jobs that machine workers and local bots run for a claimed step     *)
(* (manager/src/worker/tasks.ts, bot/src/local-tasks/index.ts) and the     *)
(* assign_task call that waits for the conclusion (bot/src/tools/assign.ts)*)
(*                                                                         *)
(* A handler reads a row, decides, and writes later.  The read and the     *)
(* write are separate actions; pend[t][slot] is what a handler has decided *)
(* and not yet written, so that any other handler can get in between.      *)
(* Clocks are abstract: a lease, a wait lease or a readyAt is fresh until  *)
(* an action says that its term has passed.                                *)
(***************************************************************************)
EXTENDS Naturals

CONSTANTS
    Task,         \* the rows that may be created
    Bot,          \* the bots of one account
    Mains,        \* the bots that are at some time the account's main bot
    Owner,        \* who claims: machine ids, desktop:<account>
    OwnerOf,      \* the owner that claims the steps that knock on a bot
    NoOwner,      \* the null of the column owner
    MaxAttempts,  \* MAX_ATTEMPTS: how often one step is claimed
    Slow,         \* the handlers a claim or a sweep may overtake
    Faults        \* what the environment may do

ASSUME OwnersAssumption ==
    /\ Mains \subseteq Bot
    /\ OwnerOf \in [Bot -> Owner]
    /\ NoOwner \notin Owner

ASSUME BoundsAssumption ==
    /\ MaxAttempts \in Nat \ {0}
    /\ Slow \subseteq {"finish", "poll", "cancel"}
    /\ Faults \subseteq {"expire", "crash", "net", "undeploy"}

VARIABLES
    row,      \* the table bot_tasks
    pend,     \* per row and slot, the handler that is between read and write
    job,      \* per row and phase, the job of the process that claimed it
    live,     \* per row, the turns its instruction has opened at the target
    tool,     \* per row, the assign_task call that waits for it
    handed    \* per row, the ways in which its conclusion left the Gateway

vars == <<row, pend, job, live, tool, handed>>

-----------------------------------------------------------------------------
(* Rows.                                                                   *)

Status == {"absent", "queued", "running", "answered", "reporting",
           "delivering", "done", "failed", "cancelled"}
Terminal == {"done", "failed", "cancelled"}
RunPhase == {"queued", "running"}
DeliverPhase == {"reporting", "delivering"}
Claimed == {"running", "delivering"}
Phase == {"run", "deliver"}

\* A deadline that is null, in the future, or passed.
Clock == {"none", "live", "expired"}

Row == [status : Status, owner : Owner \cup {NoOwner}, lease : Clock,
        attempts : Nat, waiter : Clock, stop : BOOLEAN,
        overdue : BOOLEAN, from : Bot, to : Bot]

Open(r) == r.status \notin Terminal \cup {"absent"}

BotOfPhase(r, ph) == IF ph = "run" THEN r.to ELSE r.from

\* Variant: a guard that trusts the owner column alone.
HoldsByOwner(o, r) == r.owner = o

\* The rows claimedTask and renewBotTask accept: owner and status only.
Holds(o, r) == r.owner = o /\ r.lease # "none" /\ r.status \in Claimed

-----------------------------------------------------------------------------
(* Handlers between read and write.                                        *)

Slot == {"run", "deliver", "sweep", "poll", "cancel"}

Op == {"idle", "conclude",                              \* toReporting
       "answered", "cancelled", "reporting", "failed",  \* its writes
       "done", "again", "undelivered", "void",          \* unconditional
       "halt", "requeue",                               \* sweep: expired
       "handOver", "drop", "giveUp",                    \* sweep: orphans
       "extend", "take",                                \* poll
       "revoke", "withdraw", "mark"}                    \* cancel

\* The condition of updateBotTaskIf; "any" stands for a field left out.
Expect == [status : Status \cup {"any"}, lease : Clock \cup {"any"}]
AnyRow == [status |-> "any", lease |-> "any"]
AsRead(r) == [status |-> r.status, lease |-> r.lease]

Handler == [op : Op, expect : Expect]
Idle == [op |-> "idle", expect |-> AnyRow]

\* Variant: a where clause that forgets the status.
MatchesLease(r, e) == e.lease \in {"any", r.lease}

Matches(r, e) == e.status \in {"any", r.status} /\ e.lease \in {"any", r.lease}

\* Variant: only the sweep looks at the stop mark.
NotCancelledSweep == {"handOver", "giveUp"}

\* The writes that also demand that nobody has pressed stop.
NotCancelledOps == {"answered", "reporting", "failed", "handOver", "giveUp"}

\* Variants: the conclusion keeps the owner of the run step; a step that is put
\* back keeps its lease.
ReportedSameOwner(r) == [r EXCEPT !.status = "reporting", !.lease = "none",
                                  !.attempts = 0, !.overdue = FALSE]
ReleasedLeased(r, s) == [r EXCEPT !.status = s, !.overdue = FALSE]

\* What each write sets; a field that a patch does not name keeps its value.
Closed(r, s) == [r EXCEPT !.status = s, !.owner = NoOwner, !.lease = "none"]
Reported(r) == [r EXCEPT !.status = "reporting", !.owner = OwnerOf[r.from],
                         !.lease = "none", !.attempts = 0, !.overdue = FALSE]
Released(r, s) == [r EXCEPT !.status = s, !.lease = "none", !.overdue = FALSE]

Patch(r, op) ==
    CASE op = "answered" -> Closed(r, "answered")
      [] op \in {"cancelled", "void", "halt"} -> Closed(r, "cancelled")
      [] op \in {"failed", "undelivered"} -> Closed(r, "failed")
      [] op = "reporting" -> Reported(r)
      [] op = "done" -> [r EXCEPT !.status = "done", !.lease = "none"]
      [] op = "again" -> Released(r, "reporting")
      [] op = "requeue" ->
           Released(r, IF r.status \in RunPhase THEN "queued" ELSE "reporting")
      [] op = "handOver" -> [Reported(r) EXCEPT !.waiter = "none"]
      [] op = "drop" ->
           [r EXCEPT !.status = "cancelled", !.owner = NoOwner,
                     !.waiter = "none"]
      [] op = "giveUp" ->
           [r EXCEPT !.status = "failed", !.owner = NoOwner,
                     !.waiter = "none"]
      [] op = "extend" -> [r EXCEPT !.waiter = "live"]
      [] op = "take" -> [r EXCEPT !.status = "done", !.waiter = "none"]
      [] op = "revoke" ->
           [r EXCEPT !.status = "cancelled", !.stop = TRUE,
                     !.waiter = "none", !.owner = NoOwner]
      [] op = "withdraw" ->
           [r EXCEPT !.status = "cancelled", !.stop = TRUE,
                     !.waiter = "none"]
      [] op = "mark" -> [r EXCEPT !.stop = TRUE, !.waiter = "none"]
      [] OTHER -> r

\* updateBotTaskIf, and the second chance toReporting gives a stopped row.
Written(r, h) ==
    IF ~Matches(r, h.expect) THEN r
    ELSE IF ~(h.op \in NotCancelledOps /\ r.stop) THEN Patch(r, h.op)
    ELSE IF h.op \in {"handOver", "giveUp"} THEN r
    ELSE Patch(r, "cancelled")

\* A claim, or a beat of the sweep, fits between the read and the write of the
\* handlers in Slow; those of the others are over before the next one comes.
HandlerOf(slot) == IF slot \in Phase THEN "finish" ELSE slot
Settled(t) ==
    \A s \in Slot : pend[t][s].op # "idle" =>
        HandlerOf(s) \in Slow \cup {"sweep"}

Begin(t, s, op, e) ==
    pend' = [pend EXCEPT ![t][s] = [op |-> op, expect |-> e]]

-----------------------------------------------------------------------------
(* Jobs.  ready: claimed, about to report started; hooked: reading history *)
(* and opening the stream; sent: the message is posted; ended: the outcome *)
(* is known; finishing: the finish request is with the Gateway.            *)

Stage == {"idle", "ready", "hooked", "sent", "ended", "finishing"}
Job == [stage : Stage, stopped : BOOLEAN, ok : BOOLEAN]
NoJob == [stage |-> "idle", stopped |-> FALSE, ok |-> FALSE]
NewJob == [NoJob EXCEPT !.stage = "ready"]
EndedJob(ok) == [NoJob EXCEPT !.stage = "ended", !.ok = ok]

\* Turns of the instruction at the target: the one the job reads, and those
\* that nobody reads any more.
Turn == {"mine", "orphan"}
Abandoned(ts) == IF "mine" \in ts THEN (ts \ {"mine"}) \cup {"orphan"} ELSE ts
LeftBehind(ph, ts) == IF ph = "run" THEN Abandoned(ts) ELSE ts

ToolState == {"none", "waiting", "got", "left", "stopped", "dead"}

TypeOK ==
    /\ row \in [Task -> Row]
    /\ pend \in [Task -> [Slot -> Handler]]
    /\ job \in [Task -> [Phase -> Job]]
    /\ live \in [Task -> SUBSET Turn]
    /\ tool \in [Task -> ToolState]
    /\ handed \in [Task -> SUBSET {"taken", "posted"}]

AbsentRows ==
    [Task -> [status : {"absent"}, owner : {NoOwner}, lease : {"none"},
              attempts : {0}, waiter : {"none"}, stop : {FALSE},
              overdue : {FALSE}, from : Mains, to : Bot]]

Init ==
    /\ row \in AbsentRows
    /\ \A t \in Task : row[t].from # row[t].to
    /\ pend = [t \in Task |-> [s \in Slot |-> Idle]]
    /\ job = [t \in Task |-> [ph \in Phase |-> NoJob]]
    /\ live = [t \in Task |-> {}]
    /\ tool = [t \in Task |-> "none"]
    /\ handed = [t \in Task |-> {}]

-----------------------------------------------------------------------------
(* POST /runtime/tasks, in one transaction under the lock of the pair.  The *)
(* target is unreachable when it is not deployed, offline or too old; the   *)
(* main bot then gets the failure in the way it can take it.                *)

OpenBetween(a, b) ==
    \E t \in Task : Open(row[t]) /\ row[t].from = a /\ row[t].to = b

Create(t) ==
    /\ row[t].status = "absent"
    /\ ~OpenBetween(row[t].from, row[t].to)
    /\ ~OpenBetween(row[t].to, row[t].from)
    /\ \E wait \in BOOLEAN :
         /\ tool' = [tool EXCEPT ![t] = IF wait THEN "waiting" ELSE "none"]
         /\ \E s \in IF "undeploy" \notin Faults THEN {"queued"}
                     ELSE IF wait THEN {"queued", "answered"}
                     ELSE {"queued", "reporting", "failed"} :
              row' = [row EXCEPT
                        ![t].status = s,
                        ![t].lease = "none",
                        ![t].owner =
                          CASE s = "queued" -> OwnerOf[row[t].to]
                            [] s = "reporting" -> OwnerOf[row[t].from]
                            [] OTHER -> NoOwner,
                        ![t].waiter = IF wait THEN "live" ELSE "none"]
    /\ UNCHANGED <<pend, job, live, handed>>

-----------------------------------------------------------------------------
(* toReporting: the fresh read that decides what the conclusion becomes.   *)

ConcludeRead(t, s) ==
    /\ pend[t][s].op = "conclude"
    /\ \E op \in IF row[t].stop THEN {"cancelled"}
                 ELSE IF row[t].waiter = "live" THEN {"answered"}
                 ELSE IF "undeploy" \in Faults THEN {"reporting", "failed"}
                 ELSE {"reporting"} :
         pend' = [pend EXCEPT ![t][s].op = op]
    /\ UNCHANGED <<row, job, live, tool, handed>>

\* The write of a claim, a finish, a started or a sweep.  A finish answers the
\* job that asked for it, which is then over.
HandlerWrite(t, s) ==
    /\ s \in {"run", "deliver", "sweep", "cancel"}
    /\ pend[t][s].op \notin {"idle", "conclude"}
    /\ s = "sweep" => Settled(t)
    /\ row' = [row EXCEPT ![t] = Written(row[t], pend[t][s])]
    /\ pend' = [pend EXCEPT ![t][s] = Idle]
    /\ job' = IF s \in Phase /\ job[t][s].stage = "finishing"
              THEN [job EXCEPT ![t][s] = NoJob] ELSE job
    /\ UNCHANGED <<live, tool, handed>>

\* The Gateway stops in the middle of a handler.
HandlerDies(t, s) ==
    /\ "crash" \in Faults
    /\ pend[t][s].op # "idle"
    /\ pend' = [pend EXCEPT ![t][s] = Idle]
    /\ job' = IF s \in Phase /\ job[t][s].stage = "finishing"
              THEN [job EXCEPT ![t][s] = NoJob] ELSE job
    /\ UNCHANGED <<row, live, tool, handed>>

-----------------------------------------------------------------------------
(* Claiming: leaseDueTasks.                                                *)

Claimable(r) ==
    /\ r.owner # NoOwner
    /\ r.lease = "none"
    /\ \/ r.status = "queued" /\ ~r.stop
       \/ r.status = "reporting"

ClaimedRow(r) ==
    [r EXCEPT !.lease = "live", !.attempts = @ + 1,
              !.status = IF @ = "queued" THEN "running" ELSE "delivering"]

PhaseOf(r) == IF r.status \in RunPhase THEN "run" ELSE "deliver"

\* claimBotTasks hands the row out; a job of the same row and phase that this
\* process still runs goes on with it (taskRunning).  The answer may be lost.
Claim(t) ==
    /\ Settled(t)
    /\ Claimable(row[t])
    /\ row' = [row EXCEPT ![t] = ClaimedRow(row[t])]
    /\ LET ph == PhaseOf(row[t]) IN
         \/ /\ job' = IF job[t][ph].stage = "idle"
                      THEN [job EXCEPT ![t][ph] = NewJob] ELSE job
            /\ UNCHANGED pend
         \/ /\ "net" \in Faults
            /\ UNCHANGED <<job, pend>>
    /\ UNCHANGED <<live, tool, handed>>

\* The bot's seat is no longer on the machine that claims: stepLost.
ClaimUnseated(t) ==
    /\ "undeploy" \in Faults
    /\ Settled(t)
    /\ Claimable(row[t])
    /\ row' = [row EXCEPT ![t] = ClaimedRow(row[t])]
    /\ LET ph == PhaseOf(row[t]) IN
         /\ pend[t][ph].op = "idle"
         /\ Begin(t, ph, IF ph = "run" THEN "conclude" ELSE "undelivered",
                  AnyRow)
    /\ UNCHANGED <<job, live, tool, handed>>

-----------------------------------------------------------------------------
(* The job of one claimed step.                                            *)

JobOwner(t, ph) == OwnerOf[BotOfPhase(row[t], ph)]

\* POST started.  404 is an error of the job, which then reports failed.
Started(t, ph) ==
    /\ job[t][ph].stage = "ready"
    /\ LET r == row[t]
           running == r.status = "running" IN
         \/ /\ ~Holds(JobOwner(t, ph), r)
            /\ job' = [job EXCEPT ![t][ph] = EndedJob(FALSE)]
            /\ UNCHANGED <<row, pend>>
         \/ /\ Holds(JobOwner(t, ph), r) /\ running /\ r.stop
            /\ pend[t][ph].op = "idle"
            /\ Begin(t, ph, "void", AnyRow)
            /\ job' = [job EXCEPT ![t][ph] = NoJob]
            /\ UNCHANGED row
         \/ /\ Holds(JobOwner(t, ph), r) /\ running /\ ~r.stop
            /\ pend[t][ph].op = "idle"
            /\ Begin(t, ph, "conclude", AnyRow)  \* a handoff blocks
            /\ job' = [job EXCEPT ![t][ph] = NoJob]
            /\ UNCHANGED row
         \/ /\ Holds(JobOwner(t, ph), r) /\ (running => ~r.stop)
            /\ row' = [row EXCEPT ![t].lease = "live"]
            /\ job' = [job EXCEPT ![t][ph].stage = "hooked"]
            /\ UNCHANGED pend
    /\ UNCHANGED <<live, tool, handed>>

\* POST renew on the interval.  A renewal that finds the row stopped makes the
\* run job stop its turn; one that is refused makes the job stop in silence.
Renew(t, ph) ==
    /\ job[t][ph].stage \in {"ready", "hooked", "sent", "ended"}
    /\ \/ /\ Holds(JobOwner(t, ph), row[t])
          /\ row' = [row EXCEPT ![t].lease = "live"]
          /\ job' = IF row[t].stop /\ row[t].status = "running"
                    THEN [job EXCEPT ![t][ph].stopped = TRUE] ELSE job
          /\ UNCHANGED live
       \/ /\ ~Holds(JobOwner(t, ph), row[t])
          /\ job[t][ph].stage # "ended"
          /\ job' = [job EXCEPT ![t][ph] = NoJob]
          /\ live' = [live EXCEPT ![t] = LeftBehind(ph, @)]
          /\ UNCHANGED row
    /\ UNCHANGED <<pend, tool, handed>>

\* The instruction goes into the target's conversation, unless the job has
\* learnt meanwhile that it is stopped.
PostRun(t) ==
    /\ job[t]["run"].stage = "hooked"
    /\ IF job[t]["run"].stopped
       THEN /\ job' = [job EXCEPT ![t]["run"] = EndedJob(FALSE)]
            /\ UNCHANGED live
       ELSE /\ job' = [job EXCEPT ![t]["run"].stage = "sent"]
            /\ live' = [live EXCEPT ![t] = @ \cup {"mine"}]
    /\ UNCHANGED <<row, pend, tool, handed>>

\* The job reads the end of its own turn.
TurnEnds(t, ok) ==
    /\ job[t]["run"].stage = "sent"
    /\ job' = [job EXCEPT ![t]["run"] = EndedJob(ok)]
    /\ live' = [live EXCEPT ![t] = @ \ {"mine"}]
    /\ UNCHANGED <<row, pend, tool, handed>>

\* stopTarget: withdraw or abort the turn; after 15 s the job reports aborted
\* whether or not the request got through.
StopTarget(t) ==
    /\ job[t]["run"].stage = "sent" /\ job[t]["run"].stopped
    /\ job' = [job EXCEPT ![t]["run"] = EndedJob(FALSE)]
    /\ \/ live' = [live EXCEPT ![t] = @ \ {"mine"}]
       \/ "net" \in Faults /\ live' = [live EXCEPT ![t] = Abandoned(@)]
    /\ UNCHANGED <<row, pend, tool, handed>>

\* Variant: the job reports the delivery before it has posted.
PostResultLater(t) ==
    /\ job[t]["deliver"].stage = "hooked"
    /\ job' = [job EXCEPT ![t]["deliver"] = EndedJob(TRUE)]
    /\ UNCHANGED <<row, pend, live, tool, handed>>

\* The conclusion goes into the main bot's conversation.
PostResult(t) ==
    /\ job[t]["deliver"].stage = "hooked"
    /\ job' = [job EXCEPT ![t]["deliver"] = EndedJob(TRUE)]
    /\ handed' = [handed EXCEPT ![t] = @ \cup {"posted"}]
    /\ UNCHANGED <<row, pend, live, tool>>

\* The stream breaks, a request to the seat fails, the turn takes too long:
\* the job reports failed.  A post whose answer is lost may have got through.
JobBreaks(t, ph) ==
    /\ "net" \in Faults
    /\ job[t][ph].stage \in {"ready", "hooked", "sent"}
    /\ job' = [job EXCEPT ![t][ph] = EndedJob(FALSE)]
    /\ LET through == job[t][ph].stage = "hooked" IN
         \/ live' = [live EXCEPT ![t] = LeftBehind(ph, @)] /\ UNCHANGED handed
         \/ /\ through /\ ph = "run" /\ ~job[t][ph].stopped
            /\ live' = [live EXCEPT ![t] = @ \cup {"orphan"}]
            /\ UNCHANGED handed
         \/ /\ through /\ ph = "deliver"
            /\ handed' = [handed EXCEPT ![t] = @ \cup {"posted"}]
            /\ UNCHANGED live
    /\ UNCHANGED <<row, pend, tool>>

\* POST finish.  taskFinish acts on the phase of the row, not of the job.
FinishCall(t, ph) ==
    LET r == row[t] IN
        /\ job[t][ph].stage = "ended"
        /\ \/ /\ ~Holds(JobOwner(t, ph), r)
              /\ job' = [job EXCEPT ![t][ph] = NoJob]
              /\ UNCHANGED pend
           \/ /\ Holds(JobOwner(t, ph), r)
              /\ pend[t][ph].op = "idle"
              /\ job' = [job EXCEPT ![t][ph].stage = "finishing"]
              /\ IF r.status = "running"
                 THEN Begin(t, ph, "conclude", AnyRow)
                 ELSE Begin(t, ph,
                            IF job[t][ph].ok THEN "done"
                            ELSE IF r.attempts < MaxAttempts THEN "again"
                            ELSE "undelivered", AnyRow)
           \/ /\ "net" \in Faults  \* the request is lost, and only logged
              /\ job' = [job EXCEPT ![t][ph] = NoJob]
              /\ UNCHANGED pend
        /\ UNCHANGED <<row, live, tool, handed>>

\* The process of the job ends; nothing of it survives.
JobDies(t, ph) ==
    /\ "crash" \in Faults
    /\ job[t][ph].stage # "idle"
    /\ job' = [job EXCEPT ![t][ph] = NoJob]
    /\ live' = [live EXCEPT ![t] = LeftBehind(ph, @)]
    /\ UNCHANGED <<row, pend, tool, handed>>

OrphanEnds(t) ==
    /\ "orphan" \in live[t]
    /\ live' = [live EXCEPT ![t] = @ \ {"orphan"}]
    /\ UNCHANGED <<row, pend, job, tool, handed>>

-----------------------------------------------------------------------------
(* The assign_task call: it polls, leaves at its deadline, or is stopped.  *)

\* Variant: a status the call does not know is taken over as it stands.
SeenVerbatim(s) == CASE s = "done" -> "got"
                     [] s \in RunPhase -> "waiting"
                     [] OTHER -> s

\* What the call makes of a status it is shown.
Seen(s) == CASE s \in {"done", "answered"} -> "got"
             [] s \in RunPhase -> "waiting"
             [] OTHER -> "left"

PollCall(t) ==
    /\ tool[t] = "waiting" /\ pend[t]["poll"].op = "idle"
    /\ LET r == row[t] IN
         \/ /\ r.status = "answered"
            /\ Begin(t, "poll", "take",
                     [AnyRow EXCEPT !.status = "answered"])
            /\ UNCHANGED tool
         \/ /\ r.status \in RunPhase /\ ~r.stop
            /\ Begin(t, "poll", "extend", AnyRow)
            /\ UNCHANGED tool
         \/ /\ r.status # "answered" /\ ~(r.status \in RunPhase /\ ~r.stop)
            /\ tool' = [tool EXCEPT ![t] = Seen(r.status)]
            /\ UNCHANGED pend
    /\ UNCHANGED <<row, job, live, handed>>

\* takeAnsweredBotTask is atomic; a poll that comes too late is shown the row
\* as it is then.  The answer may not reach the call.
PollWrite(t) ==
    LET h == pend[t]["poll"]
        r == Written(row[t], h)
        took == h.op = "take" /\ row[t].status = "answered"
        shown == IF h.op = "take" THEN Seen(r.status) ELSE "waiting"
    IN  /\ h.op \in {"extend", "take"}
        /\ row' = [row EXCEPT ![t] = r]
        /\ pend' = [pend EXCEPT ![t]["poll"] = Idle]
        /\ handed' = IF took THEN [handed EXCEPT ![t] = @ \cup {"taken"}]
                             ELSE handed
        /\ \/ tool' = IF tool[t] = "waiting" THEN [tool EXCEPT ![t] = shown]
                                             ELSE tool
           \/ "net" \in Faults /\ UNCHANGED tool
        /\ UNCHANGED <<job, live>>

\* The deadline of the call: the item is detached.
Leave(t) ==
    /\ tool[t] = "waiting" /\ pend[t]["poll"].op = "idle"
    /\ tool' = [tool EXCEPT ![t] = "left"]
    /\ UNCHANGED <<row, pend, job, live, handed>>

\* The person presses stop: cancelBotTask decides on the row it has read.
CancelCall(t) ==
    /\ tool[t] = "waiting"
    /\ pend[t]["poll"].op = "idle" /\ pend[t]["cancel"].op = "idle"
    /\ tool' = [tool EXCEPT ![t] = "stopped"]
    /\ LET r == row[t] IN
         \/ /\ r.status = "queued" /\ r.lease = "none"
            /\ Begin(t, "cancel", "revoke", AnyRow)
         \/ /\ r.status = "answered"
            /\ Begin(t, "cancel", "withdraw", AnyRow)
         \/ /\ r.status \in RunPhase
            /\ ~(r.status = "queued" /\ r.lease = "none")
            /\ Begin(t, "cancel", "mark", AnyRow)
         \/ /\ r.status \notin RunPhase \cup {"answered"} \/ "net" \in Faults
            /\ UNCHANGED pend
    /\ UNCHANGED <<row, job, live, handed>>

ToolDies(t) ==
    /\ "crash" \in Faults
    /\ tool[t] = "waiting"
    /\ tool' = [tool EXCEPT ![t] = "dead"]
    /\ UNCHANGED <<row, pend, job, live, handed>>

-----------------------------------------------------------------------------
(* sweepBotTasks.  Each write demands the row as the sweep read it.        *)

\* Variant: one attempt more than MaxAttempts.
SweepExpiredOneMore(t) ==
    LET r == row[t] IN
    /\ Settled(t) /\ pend[t]["sweep"].op = "idle"
    /\ r.status \in Claimed /\ r.lease = "expired"
    /\ Begin(t, "sweep",
             IF r.stop /\ r.status = "running" THEN "halt"
             ELSE IF r.attempts <= MaxAttempts THEN "requeue"
             ELSE IF r.status = "running" THEN "conclude" ELSE "undelivered",
             AsRead(r))
    /\ UNCHANGED <<row, job, live, tool, handed>>

SweepExpired(t) ==
    LET r == row[t] IN
    /\ Settled(t) /\ pend[t]["sweep"].op = "idle"
    /\ r.status \in Claimed /\ r.lease = "expired"
    /\ Begin(t, "sweep",
             IF r.stop /\ r.status = "running" THEN "halt"
             ELSE IF r.attempts < MaxAttempts THEN "requeue"
             ELSE IF r.status = "running" THEN "conclude" ELSE "undelivered",
             AsRead(r))
    /\ UNCHANGED <<row, job, live, tool, handed>>

SweepOrphan(t) ==
    /\ Settled(t) /\ pend[t]["sweep"].op = "idle"
    /\ row[t].status = "answered" /\ row[t].waiter # "live"
    /\ \E op \in IF row[t].stop THEN {"drop"}
                 ELSE IF "undeploy" \in Faults THEN {"handOver", "giveUp"}
                 ELSE {"handOver"} :
         Begin(t, "sweep", op, [AnyRow EXCEPT !.status = "answered"])
    /\ UNCHANGED <<row, job, live, tool, handed>>

\* Variant: the sweep looks, like a claim, only at rows that are not stopped.
SweepUnclaimedNotStopped(t) ==
    LET r == row[t] IN
    /\ Settled(t) /\ pend[t]["sweep"].op = "idle"
    /\ r.lease = "none" /\ r.overdue /\ ~r.stop
    /\ r.status \in {"queued", "reporting"}
    /\ Begin(t, "sweep",
             IF r.status = "queued" THEN "conclude" ELSE "undelivered",
             AsRead(r))
    /\ UNCHANGED <<row, job, live, tool, handed>>

SweepUnclaimed(t) ==
    LET r == row[t] IN
    /\ Settled(t) /\ pend[t]["sweep"].op = "idle"
    /\ r.lease = "none" /\ r.overdue
    /\ r.status \in {"queued", "reporting"}
    /\ Begin(t, "sweep",
             IF r.status = "queued" THEN "conclude" ELSE "undelivered",
             AsRead(r))
    /\ UNCHANGED <<row, job, live, tool, handed>>

-----------------------------------------------------------------------------
(* Time.  A job that lives renews its lease unless it is cut off from the   *)
(* Gateway; a sweep writes within a lease term of what it has read.         *)

Tended(t) == \E ph \in Phase : job[t][ph].stage # "idle"

LeaseExpires(t) ==
    /\ row[t].status \in Claimed /\ row[t].lease = "live"
    /\ pend[t]["sweep"].op = "idle"
    /\ Tended(t) => "expire" \in Faults
    /\ row' = [row EXCEPT ![t].lease = "expired"]
    /\ UNCHANGED <<pend, job, live, tool, handed>>

WaiterExpires(t) ==
    /\ row[t].waiter = "live"
    /\ tool[t] = "waiting" => "expire" \in Faults
    /\ row' = [row EXCEPT ![t].waiter = "expired"]
    /\ UNCHANGED <<pend, job, live, tool, handed>>

PickupOverdue(t) ==
    /\ row[t].status \in {"queued", "reporting"} /\ ~row[t].overdue
    /\ \/ "expire" \in Faults
       \/ ~Claimable(row[t])
    /\ row' = [row EXCEPT ![t].overdue = TRUE]
    /\ UNCHANGED <<pend, job, live, tool, handed>>

-----------------------------------------------------------------------------
GatewayStep(t) ==
    \/ \E s \in Slot : ConcludeRead(t, s) \/ HandlerWrite(t, s)
    \/ PollWrite(t)
    \/ SweepExpired(t) \/ SweepOrphan(t) \/ SweepUnclaimed(t)

JobStep(t) ==
    \/ \E ph \in Phase : Started(t, ph) \/ Renew(t, ph) \/ FinishCall(t, ph)
    \/ PostRun(t) \/ StopTarget(t) \/ PostResult(t)
    \/ \E ok \in BOOLEAN : TurnEnds(t, ok)

ToolStep(t) == PollCall(t) \/ Leave(t) \/ CancelCall(t)

FaultStep(t) ==
    \/ \E s \in Slot : HandlerDies(t, s)
    \/ \E ph \in Phase : JobBreaks(t, ph) \/ JobDies(t, ph)
    \/ ToolDies(t)

TimeStep(t) ==
    LeaseExpires(t) \/ WaiterExpires(t) \/ PickupOverdue(t) \/ OrphanEnds(t)

Next ==
    \E t \in Task :
        \/ Create(t) \/ Claim(t) \/ ClaimUnseated(t)
        \/ GatewayStep(t) \/ JobStep(t) \/ ToolStep(t)
        \/ FaultStep(t) \/ TimeStep(t)

Spec == Init /\ [][Next]_vars

(* What the code schedules: handlers run to their end, the maintenance beat *)
(* comes round, jobs and calls go on (a turn has its 20 minutes, a call its *)
(* deadline), and time passes for what nobody renews.  Strong fairness: the *)
(* Gateway may die in a handler, but not in every one.  Nothing is assumed  *)
(* of the owners: a step may never be claimed.                              *)
JobProgress(t, ph) ==
    \/ Started(t, ph) \/ FinishCall(t, ph)
    \/ /\ ph = "run"
       /\ PostRun(t) \/ StopTarget(t) \/ \E ok \in BOOLEAN : TurnEnds(t, ok)
    \/ ph = "deliver" /\ PostResult(t)

Fairness ==
    \A t \in Task :
        /\ SF_vars(\E s \in Slot : ConcludeRead(t, s))
        /\ SF_vars(\E s \in Slot : HandlerWrite(t, s))
        /\ WF_vars(PollWrite(t))
        /\ SF_vars(SweepExpired(t) \/ SweepOrphan(t) \/ SweepUnclaimed(t))
        /\ \A ph \in Phase : WF_vars(JobProgress(t, ph))
        /\ SF_vars(Leave(t))
        /\ WF_vars(LeaseExpires(t) /\ ~Tended(t))
        /\ WF_vars(WaiterExpires(t) /\ tool[t] # "waiting")
        /\ WF_vars(PickupOverdue(t))

FairSpec == Spec /\ Fairness

-----------------------------------------------------------------------------
(* Safety.                                                                 *)

\* No row is out of reach: a row that waits for a claim has no lease, so that
\* claimBotTasks and the unclaimed sweep find it, and a claimed row has one,
\* so that the expired sweep finds it.  A write that clears the lease without
\* the status, or the other way round, would leave the row to nobody.
SweepCovers ==
    \A t \in Task :
        /\ row[t].status \in {"queued", "reporting"} => row[t].lease = "none"
        /\ row[t].status \in Claimed => row[t].lease # "none"

\* What a handler is about to write fits what it has read: the writes of the
\* deliver step and those on an answer never meet a row whose run step is open.
HandlersFit ==
    \A t \in Task, s \in Slot :
        LET h == pend[t][s] IN
        /\ h.op \in {"done", "again", "undelivered"} =>
             \/ h.expect.status \in DeliverPhase
             \/ row[t].status \notin RunPhase \cup {"absent"}
        /\ h.op \in {"drop", "take"} => h.expect.status = "answered"

\* Stop holds against every conclusion that comes later: a row on which stop
\* is recorded while its run step is open never becomes a conclusion for the
\* main bot, whatever handler was at work when stop was pressed.
CancelSticks ==
    [][\A t \in Task :
         row[t].stop /\ row[t].status \in RunPhase =>
            row'[t].status \in RunPhase \cup {"cancelled"}]_vars

\* A row is done only if a poll was given the conclusion or a job has put it
\* into the main bot's conversation.
DoneMeansHanded ==
    \A t \in Task : row[t].status = "done" => handed[t] # {}

\* A conclusion that the waiting call has taken is not delivered once more as
\* a message of its own.
TakenOnce == \A t \in Task : "taken" \in handed[t] => "posted" \notin handed[t]

\* What has been settled stays settled, and in the way it was: no late finish,
\* poll, stop or sweep makes anything else of a row that is done, failed or
\* cancelled.
SettledForGood ==
    [][\A t \in Task :
         row[t].status \in Terminal => row'[t].status = row[t].status]_vars

\* An open step is claimable by nobody but the owner of the bot it knocks on.
RightOwner ==
    \A t \in Task :
        LET r == row[t] IN
        /\ r.status \in RunPhase => r.owner = OwnerOf[r.to]
        /\ r.status \in DeliverPhase => r.owner = OwnerOf[r.from]

\* A step is claimed at most MaxAttempts times before it is given up.
AttemptsBounded == \A t \in Task : row[t].attempts <= MaxAttempts

\* Nothing that was delegated stays open: the conclusion is given out, cannot
\* be given out, or is stopped, whoever crashes or is away, as long as the
\* maintenance beat goes on.
Settles ==
    \A t \in Task : row[t].status # "absent" ~> row[t].status \in Terminal

\* Stop reaches the target: a row that stop has cancelled has no turn left at
\* the target that no job knows of.
StopReachesTarget ==
    \A t \in Task :
        row[t].stop /\ row[t].status = "cancelled" => "orphan" \notin live[t]

\* What the person sees of a row.
Progress(r) ==
    CASE r.status = "absent" -> "none"
      [] r.status \in RunPhase -> "working"
      [] r.status \in {"answered"} \cup DeliverPhase -> "concluded"
      [] r.status \in Terminal -> r.status

Promise == INSTANCE Delegation WITH
    state <- [t \in Task |-> Progress(row[t])],
    stopped <- [t \in Task |-> row[t].stop],
    given <- handed

\* The rows, their handlers and jobs keep the promise of a delegation: one
\* conclusion, taken or posted but not both; nothing concluded of what was
\* stopped before; cancelled only by a stop, and then nothing is given out.
Delegates == Promise!Spec
=============================================================================
