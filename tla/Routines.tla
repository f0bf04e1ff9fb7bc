------------------------------ MODULE Routines ------------------------------
(***************************************************************************)
(* Routines (docs/routines.md): the rows of routines and routine_runs, the *)
(* pollers that claim what is due (claimDue, for the machine workers, the  *)
(* local bots and the Gateway's own tick), the jobs that run a claimed one *)
(* (manager/src/worker/index.ts, bot/src/local-routines/index.ts), the     *)
(* settling of a run with its retries, the sweeps, and the PATCHes by which*)
(* people change a routine meanwhile.                                      *)
(*                                                                         *)
(* The columns nextRunAt and retryAt are also what a claim compares with;  *)
(* here nextRunAt is the number of a slot, and retryAt is the run that     *)
(* armed it, with the state of its time.  Each write of the database is an *)
(* action; what a handler has read before is kept in claim, fin or tab.    *)
(***************************************************************************)
EXTENDS Naturals

CONSTANTS
    Routine,   \* the routines that may be created
    Proc,      \* the processes that poll: machine workers, local bots
    Home,      \* the process a routine's bot lives in
    OwnerOf,   \* the name a process claims under; desktop:<account> is shared
    NoOwner,   \* the null of machineId
    Local,     \* the routines of local bots
    Claimer,   \* the polls that may be open at the same time
    ProcOf,    \* whose poll it is; Gateway for tickRoutines
    Gateway,
    Tab,       \* the clients that change routines at the same time
    MaxRuns,   \* bound: how many runs are ever registered
    MaxRetry,  \* ROUTINE_RETRY_MAX
    MaxSlot,   \* bound: how many slots come
    Edits,     \* what people do
    Slow,      \* the writes time and other claims may overtake
    Faults     \* what the environment does

ASSUME NamesAssumption ==
    /\ Home \in [Routine -> Proc]
    /\ ProcOf \in [Claimer -> Proc \cup {Gateway}]
    /\ Gateway \notin Proc
    /\ NoOwner \notin {OwnerOf[p] : p \in Proc}
    /\ Local \subseteq Routine

ASSUME LimitsAssumption ==
    /\ MaxRuns \in Nat /\ MaxRetry \in Nat /\ MaxSlot \in Nat
    /\ Edits \subseteq {"on", "off", "times", "noTimes", "text", "delete",
                        "manual"}
    /\ Slow \subseteq {"patch", "settle", "claim"}
    /\ Faults \subseteq {"expire", "crash", "net", "undeploy"}

VARIABLES
    rt,      \* the table routines
    run,     \* the table routine_runs
    job,     \* per run, the job of the process it was handed to
    turn,    \* per run, the turn its instruction opened in the session
    fin,     \* per run, what settling it still has to write
    claim,   \* per poll, the routine that is being claimed
    tab,     \* per client, the PATCH between its read and its write
    clock    \* half slots: slot n comes at 2n and is missed from 2n+1 on

vars == <<rt, run, job, turn, fin, claim, tab, clock>>

Run == 1..MaxRuns

-----------------------------------------------------------------------------
(* Time and rows.                                                          *)

Due(n) == n # 0 /\ 2 * n <= clock
Late(n) == 2 * n < clock

\* The slot after now; null (0) when the routine does not move by itself.
nextRunAtOf(active, sched) == IF active /\ sched THEN clock \div 2 + 1 ELSE 0

RetryTime == {"none", "later", "due", "late"}

Row == [life : {"none", "there", "deleted"}, active : BOOLEAN,
        sched : BOOLEAN, text : BOOLEAN, seat : BOOLEAN, next : Nat,
        retry : Run \cup {0}, retryAt : RetryTime, count : Nat]

NoRow(seat) ==
    [life |-> "none", active |-> TRUE, sched |-> FALSE, text |-> FALSE,
     seat |-> seat, next |-> 0, retry |-> 0, retryAt |-> "none", count |-> 0]

There(r) == rt[r].life = "there"

\* A bot someone can run: a local one always, another one when deployed.
Seated(r) == r \in Local \/ rt[r].seat

\* clearRoutineRetry, and the same two columns in the other statements.
NoRetry(row) == [row EXCEPT !.retry = 0, !.retryAt = "none", !.count = 0]

Trigger == {"schedule", "retry", "manual"}
Status == {"running", "ok", "error", "gone"}
Unused == [status |-> "unused"]
RunRow == [status : Status, of : Routine, trigger : Trigger,
           owner : {OwnerOf[p] : p \in Proc} \cup {NoOwner},
           lease : {"none", "live", "expired"}, old : BOOLEAN, slot : Nat]

Running(i) == run[i].status = "running"
RunsOf(r) == {i \in Run : run[i] # Unused /\ run[i].of = r}

\* The partial unique index of migration 0035.
Busy(r) == \E i \in RunsOf(r) : Running(i)

Fresh(i) == run[i] = Unused /\ \A j \in Run : j < i => run[j] # Unused

\* Variant: two of the positional values change places.
NewRunSwapped(r, trigger, owner, lease, slot) ==
    [status |-> "running", of |-> owner, trigger |-> trigger, owner |-> r,
     lease |-> lease, old |-> FALSE, slot |-> slot]

NewRun(r, trigger, owner, lease, slot) ==
    [status |-> "running", of |-> r, trigger |-> trigger, owner |-> owner,
     lease |-> lease, old |-> FALSE, slot |-> slot]

\* Variant: the write that goes by the id alone.
FinishedAnyway(i, s) == [run EXCEPT ![i].status = s]

\* finishRoutineRun: a run that is settled is not written again.
Finished(i, s) ==
    IF Running(i) THEN [run EXCEPT ![i].status = s] ELSE run


-----------------------------------------------------------------------------
(* Handlers between read and write.                                        *)

NoClaim == [at |-> "idle"]
Claim == [at : {"slot", "check", "take", "recheck", "stale", "start",
                "missed", "close", "settle"},
          of : Routine, trigger : {"schedule", "retry"}, key : Nat,
          next : Nat, late : BOOLEAN, text : BOOLEAN, run : Run \cup {0}]

Change == {"on", "off", "times", "noTimes"}
NoPatch == [at |-> "idle"]
Patch == [at : {"write"}, of : Routine, what : Change, next : Nat,
          clear : BOOLEAN]

NoFin == [at |-> "idle", count |-> 0]
Fin == [at : {"idle", "clear", "arm", "write"}, count : Nat]

Stage == {"none", "ready", "hooked", "sent", "ended"}
Kind == {"none", "completed", "error", "aborted", "timeout", "failed"}
NoJob == [at |-> "none", kind |-> "none"]
Ready == [at |-> "ready", kind |-> "none"]
Ended(kind) == [at |-> "ended", kind |-> kind]

TypeOK ==
    /\ rt \in [Routine -> Row]
    /\ run \in [Run -> {Unused} \cup RunRow]
    /\ job \in [Run -> [at : Stage, kind : Kind]]
    /\ turn \in [Run -> {"none", "live", "done", "undone"}]
    /\ fin \in [Run -> Fin]
    /\ claim \in [Claimer -> {NoClaim} \cup Claim]
    /\ tab \in [Tab -> {NoPatch} \cup Patch]
    /\ clock \in Nat

Init ==
    /\ \E seat \in IF "undeploy" \in Faults THEN BOOLEAN ELSE {TRUE} :
         rt = [r \in Routine |-> NoRow(seat)]
    /\ run = [i \in Run |-> Unused]
    /\ job = [i \in Run |-> NoJob]
    /\ turn = [i \in Run |-> "none"]
    /\ fin = [i \in Run |-> NoFin]
    /\ claim = [c \in Claimer |-> NoClaim]
    /\ tab = [e \in Tab |-> NoPatch]
    /\ clock = 0

\* What is not in Slow is written before time goes on; a PATCH or the end of a
\* run also before another claim is made.
PatchesWritten == "patch" \in Slow \/ \A e \in Tab : tab[e] = NoPatch
RunsSettled == "settle" \in Slow \/ \A i \in Run : fin[i] = NoFin
ClaimsMade ==
    "claim" \in Slow \/ \A c \in Claimer : claim[c].at \in {"idle", "slot"}

-----------------------------------------------------------------------------
(* settleRun: the status, then what becomes of the retries.                *)

Settle(i, s, retryable) ==
    /\ run' = Finished(i, s)
    /\ fin' = IF ~Running(i) \/ run[i].trigger = "manual" THEN fin
              ELSE [fin EXCEPT ![i].at =
                      IF s = "ok" \/ ~retryable THEN "clear" ELSE "arm"]

ClearRetry(i) ==
    /\ fin[i].at = "clear"
    /\ rt' = IF There(run[i].of)
             THEN [rt EXCEPT ![run[i].of] = NoRetry(@)] ELSE rt
    /\ fin' = [fin EXCEPT ![i] = NoFin]
    /\ UNCHANGED <<run, job, turn, claim, tab, clock>>

\* armRetry reads the routine again and decides.
ArmRead(i) ==
    /\ fin[i].at = "arm"
    /\ LET row == rt[run[i].of] IN
         fin' = [fin EXCEPT ![i] =
                   IF row.life # "there" THEN NoFin
                   ELSE IF ~row.active \/ row.count >= MaxRetry
                   THEN [at |-> "clear", count |-> 0]
                   ELSE [at |-> "write", count |-> row.count + 1]]
    /\ UNCHANGED <<rt, run, job, turn, claim, tab, clock>>

ArmWrite(i) ==
    /\ fin[i].at = "write"
    /\ rt' = IF There(run[i].of)
             THEN [rt EXCEPT ![run[i].of].retry = i,
                             ![run[i].of].retryAt = "later",
                             ![run[i].of].count = fin[i].count]
             ELSE rt
    /\ fin' = [fin EXCEPT ![i] = NoFin]
    /\ UNCHANGED <<run, job, turn, claim, tab, clock>>

\* The Gateway stops between the two writes.
SettleDies(i) ==
    /\ "crash" \in Faults
    /\ fin[i].at # "idle"
    /\ fin' = [fin EXCEPT ![i] = NoFin]
    /\ UNCHANGED <<rt, run, job, turn, claim, tab, clock>>

-----------------------------------------------------------------------------
(* claimDue, the slots.                                                    *)


\* What the query of a poll returns: a worker its machine's routines, a local
\* bot its own, the tick those nobody can run.
Offered(c, r) ==
    /\ There(r)
    /\ rt[r].active
    /\ \/ ProcOf[c] = Home[r] /\ Seated(r)
       \/ ProcOf[c] = Gateway /\ ~Seated(r)

At(c, stage) == claim[c].at = stage
Goes(c, stage) == claim' = [claim EXCEPT ![c].at = stage]
GivesUp(c) == claim' = [claim EXCEPT ![c] = NoClaim]

ReadSlot(c, r) ==
    /\ claim[c] = NoClaim
    /\ Offered(c, r)
    /\ Due(rt[r].next)
    /\ claim' = [claim EXCEPT ![c] =
                   [at |-> "slot", of |-> r, trigger |-> "schedule",
                    key |-> rt[r].next, run |-> 0,
                    next |-> nextRunAtOf(TRUE, rt[r].sched),
                    late |-> Late(rt[r].next), text |-> rt[r].text]]
    /\ UNCHANGED <<rt, run, job, turn, fin, tab, clock>>

\* Variant: the update goes by the id alone.
HasSlotById(c) == There(claim[c].of)

\* claimRoutine: compares nextRunAt with what was read, and drops the retries.
HasSlot(c) == There(claim[c].of) /\ rt[claim[c].of].next = claim[c].key

TakeSlot(c) ==
    /\ At(c, "slot")
    /\ PatchesWritten /\ RunsSettled
    /\ LET k == claim[c] IN
         IF ~HasSlot(c) THEN GivesUp(c) /\ UNCHANGED rt
         ELSE /\ rt' = [rt EXCEPT ![k.of] =
                          [NoRetry(rt[k.of]) EXCEPT !.next = k.next]]
              /\ IF ~k.text THEN GivesUp(c)
                 ELSE Goes(c, IF k.late THEN "missed" ELSE "check")
    /\ UNCHANGED <<run, job, turn, fin, tab, clock>>

\* routineRunning: after the claim of a slot, before that of a retry.
CheckRunning(c) ==
    /\ claim[c].at \in {"check", "recheck"}
    /\ IF Busy(claim[c].of) THEN GivesUp(c)
       ELSE Goes(c, IF At(c, "check") THEN "start" ELSE "take")
    /\ UNCHANGED <<rt, run, job, turn, fin, tab, clock>>

-----------------------------------------------------------------------------
(* claimDue, the retries.                                                  *)

ReadRetry(c, r) ==
    /\ claim[c] = NoClaim
    /\ Offered(c, r)
    /\ rt[r].retryAt \in {"due", "late"}
    /\ LET late == rt[r].retryAt = "late" IN
       claim' = [claim EXCEPT ![c] =
                   [at |-> IF late \/ ~rt[r].text THEN "stale" ELSE "recheck",
                    of |-> r, trigger |-> "retry", key |-> rt[r].retry,
                    run |-> 0, next |-> 0, late |-> late,
                    text |-> rt[r].text]]
    /\ UNCHANGED <<rt, run, job, turn, fin, tab, clock>>

ClearStale(c) ==
    /\ At(c, "stale")
    /\ rt' = IF There(claim[c].of)
             THEN [rt EXCEPT ![claim[c].of] = NoRetry(@)] ELSE rt
    /\ GivesUp(c)
    /\ UNCHANGED <<run, job, turn, fin, tab, clock>>

\* Variants: by the id alone; the time stays in the row.
HasRetryById(c) == There(claim[c].of)
TakenKeepsTime(row) == row

\* claimRoutineRetry compares retryAt with what was read, and keeps the count.
HasRetry(c) == There(claim[c].of) /\ rt[claim[c].of].retry = claim[c].key
Taken(row) == [row EXCEPT !.retry = 0, !.retryAt = "none"]

TakeRetry(c) ==
    /\ At(c, "take")
    /\ RunsSettled
    /\ IF ~HasRetry(c) THEN GivesUp(c) /\ UNCHANGED rt
       ELSE /\ rt' = [rt EXCEPT ![claim[c].of] = Taken(@)]
            /\ Goes(c, "start")
    /\ UNCHANGED <<run, job, turn, fin, tab, clock>>

-----------------------------------------------------------------------------
(* Registering the run of a claim, which the index or the foreign key may  *)
(* refuse, and handing its job over.                                       *)

SlotOf(k) == IF k.trigger = "schedule" THEN k.key ELSE run[k.key].slot

Refused(r) == ~There(r) \/ Busy(r)

\* leaseDue's start; the answer with the job may not arrive.
Start(c) ==
    /\ At(c, "start")
    /\ ProcOf[c] # Gateway
    /\ LET k == claim[c] IN
         IF ~Seated(k.of) \/ Refused(k.of) THEN UNCHANGED <<run, job>>
         ELSE \E i \in Run : \E got \in {TRUE} \cup {"net" \notin Faults} :
                /\ Fresh(i)
                /\ run' = [run EXCEPT ![i] =
                             NewRun(k.of, k.trigger, OwnerOf[ProcOf[c]],
                                    "live", SlotOf(k))]
                /\ job' = [job EXCEPT ![i] = IF got THEN Ready ELSE NoJob]
    /\ GivesUp(c)
    /\ UNCHANGED <<rt, turn, fin, tab, clock>>

\* noteMissed and noteUnrunnable register a run only to close it.
Note(c) ==
    /\ At(c, "missed") \/ (At(c, "start") /\ ProcOf[c] = Gateway)
    /\ LET k == claim[c] IN
         IF Refused(k.of) THEN GivesUp(c) /\ UNCHANGED run
         ELSE \E i \in Run :
                /\ Fresh(i)
                /\ run' = [run EXCEPT ![i] =
                             NewRun(k.of, k.trigger, NoOwner, "none",
                                    SlotOf(k))]
                /\ claim' = [claim EXCEPT
                               ![c].at = IF k.at = "missed" THEN "close"
                                         ELSE "settle",
                               ![c].run = i]
    /\ UNCHANGED <<rt, job, turn, fin, tab, clock>>

Close(c) ==
    /\ \/ At(c, "close") /\ run' = Finished(claim[c].run, "error")
                         /\ UNCHANGED fin
       \/ At(c, "settle") /\ Settle(claim[c].run, "error", FALSE)
    /\ GivesUp(c)
    /\ UNCHANGED <<rt, job, turn, tab, clock>>

ClaimDies(c) ==
    /\ "crash" \in Faults
    /\ claim[c] # NoClaim
    /\ GivesUp(c)
    /\ UNCHANGED <<rt, run, job, turn, fin, tab, clock>>

-----------------------------------------------------------------------------
(* Manual runs wait, without a lease, for a poll of their owner.  Local    *)
(* bots of an account share the owner: a bot leaves another's job alone.   *)

Manual(r) ==
    /\ "manual" \in Edits
    /\ There(r) /\ rt[r].text /\ Seated(r) /\ ~Busy(r)
    /\ \E i \in Run :
         /\ Fresh(i)
         /\ run' = [run EXCEPT ![i] =
                      NewRun(r, "manual", OwnerOf[Home[r]], "none", 0)]
    /\ UNCHANGED <<rt, job, turn, fin, claim, tab, clock>>

PickUp(p, i) ==
    /\ Running(i) /\ run[i].lease = "none" /\ run[i].owner = OwnerOf[p]
    /\ \/ /\ Seated(run[i].of)
          /\ run' = [run EXCEPT ![i].lease = "live"]
          /\ \E got \in {TRUE} \cup {"net" \notin Faults} :
               job' = [job EXCEPT ![i] =
                         IF got /\ Home[run[i].of] = p THEN Ready ELSE NoJob]
          /\ UNCHANGED fin
       \/ /\ ~Seated(run[i].of)
          /\ Settle(i, "error", FALSE)
          /\ UNCHANGED job
    /\ UNCHANGED <<rt, turn, claim, tab, clock>>

-----------------------------------------------------------------------------
(* runJob.  ready: claimed, has not reported started; hooked: may run, the *)
(* stream is being opened; sent: the message is posted; ended: the kind is *)
(* known and about to be reported.                                         *)

JobIs(i, stages) == job[i].at \in stages
JobGoes(i, next) == job' = [job EXCEPT ![i] = next]

\* POST started.  A 404 makes the job report failed, which nobody takes.
Started(i) ==
    /\ JobIs(i, {"ready"})
    /\ \/ ~Running(i) /\ JobGoes(i, Ended("failed")) /\ UNCHANGED <<run, fin>>
       \/ /\ Running(i)
          /\ run' = [run EXCEPT ![i].lease = "live"]
          /\ JobGoes(i, [at |-> "hooked", kind |-> "none"])
          /\ UNCHANGED fin
       \/ /\ Running(i)
          /\ Settle(i, "error", FALSE)  \* a handoff blocks the session
          /\ JobGoes(i, NoJob)
    /\ UNCHANGED <<rt, turn, claim, tab, clock>>

\* The beat: 404 means the run is no longer this job's, which stops.
Renew(i) ==
    /\ JobIs(i, {"ready", "hooked", "sent"})
    /\ IF Running(i)
       THEN run' = [run EXCEPT ![i].lease = "live"] /\ UNCHANGED job
       ELSE JobGoes(i, NoJob) /\ UNCHANGED run
    /\ UNCHANGED <<rt, turn, fin, claim, tab, clock>>

\* The message opens a turn; its answer may be lost.
Post(i) ==
    /\ JobIs(i, {"hooked"})
    /\ turn' = [turn EXCEPT ![i] = "live"]
    /\ \/ JobGoes(i, [at |-> "sent", kind |-> "none"])
       \/ "net" \in Faults /\ JobGoes(i, Ended("failed"))
    /\ UNCHANGED <<rt, run, fin, claim, tab, clock>>

\* The turn ends, whether or not a job still reads the stream.
TurnEnds(i, kind) ==
    /\ turn[i] = "live"
    /\ turn' = [turn EXCEPT
                  ![i] = IF kind = "completed" THEN "done" ELSE "undone"]
    /\ job' = IF JobIs(i, {"sent"}) THEN [job EXCEPT ![i] = Ended(kind)]
              ELSE job
    /\ UNCHANGED <<rt, run, fin, claim, tab, clock>>

\* The seat cannot be reached, or the stream breaks.
Breaks(i) ==
    /\ JobIs(i, {"ready", "hooked"} \cup
                (IF "net" \in Faults THEN {"sent"} ELSE {}))
    /\ JobGoes(i, Ended("failed"))
    /\ UNCHANGED <<rt, run, turn, fin, claim, tab, clock>>

TimesOut(i) ==
    /\ JobIs(i, {"hooked", "sent"})
    /\ JobGoes(i, Ended("timeout"))
    /\ UNCHANGED <<rt, run, turn, fin, claim, tab, clock>>

\* Variant: a timeout is a failure like any other.
RetryableTimeout(kind) == kind \notin {"completed", "aborted"}

\* routineFinish: which ends are tried again.
Retryable(kind) == kind \notin {"completed", "timeout", "aborted"}

\* The report is sent once.
Finish(i) ==
    /\ JobIs(i, {"ended"})
    /\ LET kind == job[i].kind IN
         \/ Settle(i, IF kind = "completed" THEN "ok" ELSE "error",
                   Retryable(kind))
         \/ "net" \in Faults /\ UNCHANGED <<run, fin>>
    /\ JobGoes(i, NoJob)
    /\ UNCHANGED <<rt, turn, claim, tab, clock>>

\* The process stops; the turn at the seat goes on.
JobDies(i) ==
    /\ "crash" \in Faults
    /\ job[i] # NoJob
    /\ JobGoes(i, NoJob)
    /\ UNCHANGED <<rt, run, turn, fin, claim, tab, clock>>

-----------------------------------------------------------------------------
(* The sweeps.                                                             *)

\* A lease runs out when nobody renews it, or when the beats do not arrive.
LeaseExpires(i) ==
    /\ Running(i) /\ run[i].lease = "live"
    /\ job[i] = NoJob \/ "expire" \in Faults
    /\ run' = [run EXCEPT ![i].lease = "expired"]
    /\ UNCHANGED <<rt, job, turn, fin, claim, tab, clock>>

\* PICKUP_MS have passed since the run was registered.
WaitsTooLong(i) ==
    /\ Running(i) /\ run[i].lease = "none" /\ ~run[i].old
    /\ run' = [run EXCEPT ![i].old = TRUE]
    /\ UNCHANGED <<rt, job, turn, fin, claim, tab, clock>>

LeaseOver(i) == run[i].lease = "expired"

\* failExpiredRoutineLeases; sweepLeases then arms the retries.
SweepLease(i) ==
    /\ Running(i) /\ LeaseOver(i)
    /\ Settle(i, "error", TRUE)
    /\ UNCHANGED <<rt, job, turn, claim, tab, clock>>

\* Variant: only the runs that were registered for someone.
UnclaimedOwned(i) ==
    run[i].lease = "none" /\ run[i].old /\ run[i].owner # NoOwner

\* failUnclaimedRoutineRuns: nobody is told, nothing is tried again.
Unclaimed(i) == run[i].lease = "none" /\ run[i].old

SweepUnclaimed(i) ==
    /\ Running(i) /\ Unclaimed(i)
    /\ run' = Finished(i, "error")
    /\ UNCHANGED <<rt, job, turn, fin, claim, tab, clock>>

-----------------------------------------------------------------------------
(* What people do: POST, PATCH in two steps, DELETE.  A routine without    *)
(* "times" or "text" in Edits is created with its time or its instruction. *)

Create(r) ==
    /\ rt[r].life = "none"
    /\ \E sched \in {TRUE} \cup {"times" \notin Edits} :
       \E text \in {TRUE} \cup {"text" \notin Edits} :
         rt' = [rt EXCEPT ![r] =
                  [NoRow(@.seat) EXCEPT
                     !.life = "there", !.sched = sched, !.text = text,
                     !.next = nextRunAtOf(TRUE, sched)]]
    /\ UNCHANGED <<run, job, turn, fin, claim, tab, clock>>

Switch == {"on", "off"}
ActiveBy(what, row) == IF what \in Switch THEN what = "on" ELSE row.active
SchedBy(what, row) == IF what \in Switch THEN row.sched ELSE what = "times"

\* Variant: the next time is computed as if the routine had times.
NextForSwitch(what, row) == nextRunAtOf(ActiveBy(what, row), TRUE)

NextBy(what, row) == nextRunAtOf(ActiveBy(what, row), SchedBy(what, row))
Clears(what, row) == NextBy(what, row) = 0 \/ ActiveBy(what, row) # row.active

PatchRead(e, r, what) ==
    /\ what \in Edits
    /\ tab[e] = NoPatch
    /\ PatchesWritten
    /\ There(r)
    /\ tab' = [tab EXCEPT ![e] =
                 [at |-> "write", of |-> r, what |-> what,
                  next |-> NextBy(what, rt[r]),
                  clear |-> Clears(what, rt[r])]]
    /\ UNCHANGED <<rt, run, job, turn, fin, claim, clock>>

\* updateRoutine sets the columns of the patch and no others.
Patched(row, p) ==
    LET changed == [row EXCEPT !.active = ActiveBy(p.what, row),
                               !.sched = SchedBy(p.what, row),
                               !.next = p.next]
    IN IF p.clear THEN NoRetry(changed) ELSE changed

PatchWrite(e) ==
    /\ tab[e] # NoPatch
    /\ rt' = IF There(tab[e].of)
             THEN [rt EXCEPT ![tab[e].of] = Patched(@, tab[e])] ELSE rt
    /\ tab' = [tab EXCEPT ![e] = NoPatch]
    /\ UNCHANGED <<run, job, turn, fin, claim, clock>>

EditText(r) ==
    /\ "text" \in Edits
    /\ There(r)
    /\ rt' = [rt EXCEPT ![r].text = ~@]
    /\ UNCHANGED <<run, job, turn, fin, claim, tab, clock>>

\* The runs go with the routine.
Delete(r) ==
    /\ "delete" \in Edits
    /\ There(r)
    /\ rt' = [rt EXCEPT ![r] = [NoRow(@.seat) EXCEPT !.life = "deleted"]]
    /\ run' = [i \in Run |-> IF i \in RunsOf(r)
                             THEN [run[i] EXCEPT !.status = "gone"]
                             ELSE run[i]]
    /\ UNCHANGED <<job, turn, fin, claim, tab, clock>>

-----------------------------------------------------------------------------
(* The environment: time, and bots that are deployed and removed.          *)

TimeMoves == PatchesWritten /\ RunsSettled /\ ClaimsMade

Tick ==
    /\ TimeMoves
    /\ clock <= 2 * MaxSlot
    /\ clock' = clock + 1
    /\ UNCHANGED <<rt, run, job, turn, fin, claim, tab>>

RetryComes(r) ==
    /\ TimeMoves
    /\ \/ rt[r].retryAt = "later" /\ rt' = [rt EXCEPT ![r].retryAt = "due"]
       \/ rt[r].retryAt = "due" /\ rt' = [rt EXCEPT ![r].retryAt = "late"]
    /\ UNCHANGED <<run, job, turn, fin, claim, tab, clock>>

Redeploy(r) ==
    /\ "undeploy" \in Faults /\ r \notin Local
    /\ rt' = [rt EXCEPT ![r].seat = ~@]
    /\ UNCHANGED <<run, job, turn, fin, claim, tab, clock>>

-----------------------------------------------------------------------------

Claiming(c) ==
    \/ \E r \in Routine : ReadSlot(c, r) \/ ReadRetry(c, r)
    \/ TakeSlot(c) \/ CheckRunning(c) \/ TakeRetry(c) \/ ClearStale(c)
    \/ Start(c) \/ Note(c) \/ Close(c)

Working(i) ==
    \/ Started(i) \/ Renew(i) \/ Post(i) \/ Breaks(i) \/ TimesOut(i)
    \/ \E kind \in {"completed", "error", "aborted"} : TurnEnds(i, kind)
    \/ Finish(i) \/ JobDies(i)

Settling(i) ==
    \/ ClearRetry(i) \/ ArmRead(i) \/ ArmWrite(i) \/ SettleDies(i)
    \/ LeaseExpires(i) \/ WaitsTooLong(i) \/ SweepLease(i)
    \/ SweepUnclaimed(i) \/ \E p \in Proc : PickUp(p, i)

Editing(r) ==
    \/ Create(r) \/ Manual(r) \/ EditText(r) \/ Delete(r)
    \/ \E e \in Tab, what \in Change : PatchRead(e, r, what)

Next ==
    \/ \E c \in Claimer : Claiming(c) \/ ClaimDies(c)
    \/ \E i \in Run : Working(i) \/ Settling(i)
    \/ \E r \in Routine : Editing(r) \/ RetryComes(r) \/ Redeploy(r)
    \/ \E e \in Tab : PatchWrite(e)
    \/ Tick

Spec == Init /\ [][Next]_vars

-----------------------------------------------------------------------------
(* Safety.                                                                 *)

\* A slot is answered once, however many polls, of both sides, read it as due:
\* claimRoutine's promise that the nine o'clock report is not sent twice.
SlotOnce ==
    \A i, j \in Run :
        /\ i # j
        /\ run[i] # Unused /\ run[j] # Unused
        /\ run[i].of = run[j].of
        /\ run[i].trigger = "schedule" /\ run[j].trigger = "schedule"
        => run[i].slot # run[j].slot

\* Once a run of a slot is reported as done, the slot is at an end: none of
\* its other runs is on, waits for a report, or was done too, however many
\* polls read its retry, and whatever leases, handlers, processes and reports
\* were lost before.  (A turn whose run was given up may still do the work.)
DoneIsDone ==
    \A i, j \in Run :
        /\ i # j
        /\ run[i] # Unused /\ run[j] # Unused
        /\ run[i].of = run[j].of /\ run[i].slot = run[j].slot
        /\ run[i].trigger # "manual" /\ run[j].trigger # "manual"
        => ~(run[i].status = "ok" /\ run[j].status \in {"running", "ok"})

\* The work of a slot is not done twice: no two of its runs have a turn that
\* did it or may still be doing it.  This is why what ends in a timeout or in
\* silence of unknown outcome must not be tried again.
SlotWorkOnce ==
    \A i, j \in Run :
        /\ i # j
        /\ run[i] # Unused /\ run[j] # Unused
        /\ run[i].of = run[j].of /\ run[i].slot = run[j].slot
        /\ run[i].trigger # "manual" /\ run[j].trigger # "manual"
        => ~(turn[i] \in {"live", "done"} /\ turn[j] \in {"live", "done"})

\* A routine has a next time exactly when it is on and has times, whatever
\* was claimed and changed in between.
NextIffScheduled ==
    (\A e \in Tab : tab[e] = NoPatch) =>
        \A r \in Routine : There(r) =>
            (rt[r].next # 0 <=> rt[r].active /\ rt[r].sched)

\* Settled is settled: what reports or sweeps later cannot revive a run or
\* turn its outcome over; only deleting its routine removes it.
SettledRunsStay ==
    [][\A i \in Run : run[i].status \in {"ok", "error"} =>
         run'[i].status \in {run[i].status, "gone"}]_vars

\* The two claims that lead to a run.
ClaimsOf(c) ==
    \/ At(c, "slot") /\ claim'[c].at \in {"check", "missed"}
    \/ At(c, "take") /\ claim'[c].at = "start"

\* Off means off: a claim read before the switch was turned does not get
\* through after it.
OffMeansOff ==
    [][\A c \in Claimer : ClaimsOf(c) => rt[claim[c].of].active]_vars

\* A local bot's poll leaves the other bots' runs to their own processes.
OnlyOwnProcess ==
    [][\A i \in Run : run[i] # Unused /\ run[i].lease = "none" /\ Running(i)
         /\ run'[i].lease = "live" => job'[i] # NoJob]_vars

-----------------------------------------------------------------------------
(* Liveness.  Pollers poll, the jobs' steps and handlers that have begun   *)
(* are finished, a job gives up when its time is over, leases run out and  *)
(* the sweeps come round.  A process may die within a claim, but does not  *)
(* die within every claim.                                                 *)

Fairness ==
    /\ \A c \in Claimer :
         WF_vars(TakeSlot(c) \/ CheckRunning(c) \/ TakeRetry(c)
                 \/ ClearStale(c) \/ Start(c) \/ Note(c) \/ Close(c))
    /\ \A c \in Claimer, r \in Routine : SF_vars(ReadSlot(c, r))
    /\ \A c \in Claimer : SF_vars(TakeSlot(c))
    /\ \A i \in Run :
         /\ WF_vars(Started(i) \/ Post(i) \/ TimesOut(i) \/ Finish(i))
         /\ WF_vars(ClearRetry(i) \/ ArmRead(i) \/ ArmWrite(i))
         /\ WF_vars(LeaseExpires(i))
         /\ WF_vars(WaitsTooLong(i))
         /\ WF_vars(SweepLease(i) \/ SweepUnclaimed(i))
    /\ \A e \in Tab : WF_vars(PatchWrite(e))

FairSpec == Spec /\ Fairness

\* No run stays in the running state, which would keep its routine from ever
\* running again: not with lost answers, dead workers or a dead Gateway.
RunEnds ==
    \A i \in Run : run[i].status = "running" ~> run[i].status # "running"


=============================================================================
