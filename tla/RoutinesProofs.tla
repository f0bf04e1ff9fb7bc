--------------------------- MODULE RoutinesProofs ---------------------------
(***************************************************************************)
(* Theorems about Routines for any number of routines, processes, polls    *)
(* and clients, and every choice of faults.  Most actions are minor: they  *)
(* start no claim, register no run and change of a routine no more than    *)
(* its retry.  Each invariant is proved once for those (Minor) and then for*)
(* the others one by one.                                                  *)
(***************************************************************************)
EXTENDS Routines, TLAPS

-----------------------------------------------------------------------------
(* Minor steps.                                                            *)

\* No run appears; a run keeps what it is for, and once it is settled it can
\* only go with its routine.
RunsKept ==
    /\ run' \in [Run -> {Unused} \cup RunRow]
    /\ \A i \in Run :
         /\ run'[i] = Unused <=> run[i] = Unused
         /\ run[i] # Unused =>
              /\ run'[i].of = run[i].of
              /\ run'[i].trigger = run[i].trigger
              /\ run'[i].slot = run[i].slot
              /\ run'[i].status = "running" => run[i].status = "running"
              /\ run[i].status # "running" =>
                   run'[i].status \in {run[i].status, "gone"}

RowsKept ==
    /\ rt' \in [Routine -> Row]
    /\ \A r \in Routine :
         /\ rt'[r].life = rt[r].life
         /\ rt'[r].active = rt[r].active
         /\ rt'[r].sched = rt[r].sched
         /\ rt'[r].next = rt[r].next
         /\ \/ /\ rt'[r].retry = rt[r].retry
               /\ rt'[r].retryAt = "none" <=> rt[r].retryAt = "none"
            \/ rt'[r].retry = 0 /\ rt'[r].retryAt = "none"

FinsKept ==
    /\ fin' \in [Run -> Fin]
    /\ \A i \in Run : fin'[i].at # "idle" =>
         \/ fin[i].at # "idle"
         \/ run[i].status = "running" /\ run'[i].status # "running"

ClaimsKept ==
    /\ claim' \in [Claimer -> {NoClaim} \cup Claim]
    /\ \A c \in Claimer : claim'[c] \in {claim[c], NoClaim}

JobsTyped ==
    /\ job' \in [Run -> [at : Stage, kind : Kind]]
    /\ turn' \in [Run -> {"none", "live", "done", "undone"}]

Minor ==
    /\ RunsKept /\ RowsKept /\ FinsKept /\ ClaimsKept /\ JobsTyped
    /\ UNCHANGED <<tab, clock>>

\* A run that is not unused is a row of routine_runs.
LEMMA RunFacts ==
    ASSUME TypeOK, NEW i \in Run
    PROVE  /\ Running(i) => run[i] \in RunRow
           /\ run[i] # Unused => run[i] \in RunRow
  BY DEF TypeOK, Running, Unused

\* What a step leaves alone is kept.
LEMMA Kept ==
    ASSUME TypeOK
    PROVE  /\ UNCHANGED run => RunsKept
           /\ UNCHANGED rt => RowsKept
           /\ UNCHANGED fin => FinsKept
           /\ UNCHANGED claim => ClaimsKept
           /\ UNCHANGED <<job, turn>> => JobsTyped
  BY DEF TypeOK, RunsKept, RowsKept, FinsKept, ClaimsKept, JobsTyped, RunRow

\* A run that is running may change its status, its lease or its age.
LEMMA RunChanges ==
    ASSUME TypeOK, NEW i \in Run, Running(i), NEW new \in RunRow,
           new.of = run[i].of, new.trigger = run[i].trigger,
           new.slot = run[i].slot,
           run' = [run EXCEPT ![i] = new]
    PROVE  RunsKept
<1>1. run[i] \in RunRow /\ new # Unused
  BY DEF TypeOK, Running, Unused, RunRow, Status
<1>2. run[i].status = "running" /\ run[i] # Unused
  BY DEF Running, Unused
<1>3. run \in [Run -> {Unused} \cup RunRow]
  BY DEF TypeOK
<1>4. run'[i] = new /\ \A j \in Run : j # i => run'[j] = run[j]
  BY <1>3
<1>5. run' \in [Run -> {Unused} \cup RunRow]
  BY <1>3
<1>6. ASSUME NEW j \in Run
      PROVE  /\ run'[j] = Unused <=> run[j] = Unused
             /\ run[j] # Unused =>
                  /\ run'[j].of = run[j].of
                  /\ run'[j].trigger = run[j].trigger
                  /\ run'[j].slot = run[j].slot
                  /\ run'[j].status = "running" => run[j].status = "running"
                  /\ run[j].status # "running" =>
                       run'[j].status \in {run[j].status, "gone"}
  <2>1. CASE j = i
    BY <1>1, <1>2, <1>4, <2>1
  <2>2. CASE j # i
    BY <1>4, <2>2
  <2> QED
    BY <2>1, <2>2
<1> QED
  BY <1>5, <1>6 DEF RunsKept

\* finishRoutineRun settles a running run and touches no other.
LEMMA FinishedKeeps ==
    ASSUME TypeOK, NEW i \in Run, NEW s \in {"ok", "error"},
           run' = Finished(i, s)
    PROVE  RunsKept /\ (Running(i) => run'[i].status # "running")
<1>1. CASE ~Running(i)
  BY <1>1, Kept DEF Finished
<1>2. CASE Running(i)
  <2>1. run[i] \in RunRow
    BY <1>2, RunFacts
  <2>2. [run[i] EXCEPT !.status = s] \in RunRow
    BY <2>1 DEF RunRow, Status
  <2>3. run' = [run EXCEPT ![i] = [run[i] EXCEPT !.status = s]]
    BY <1>2 DEF Finished
  <2>4. RunsKept
    BY <1>2, <2>1, <2>2, <2>3, RunChanges DEF RunRow
  <2> QED
    BY <2>1, <2>3, <2>4 DEF TypeOK, RunRow
<1> QED
  BY <1>1, <1>2

\* Settling a run opens its retry only while the run was running.
LEMMA SettleKeeps ==
    ASSUME TypeOK, NEW i \in Run, NEW s \in {"ok", "error"},
           NEW b \in BOOLEAN, Settle(i, s, b)
    PROVE  RunsKept /\ FinsKept
<1>1. RunsKept /\ (Running(i) => run'[i].status # "running")
  BY FinishedKeeps DEF Settle
<1>2. CASE fin' = fin
  BY <1>1, <1>2, Kept
<1>3. CASE Running(i) /\ \E at \in {"clear", "arm"} :
             fin' = [fin EXCEPT ![i].at = at]
  BY <1>1, <1>3 DEF TypeOK, FinsKept, Fin, Running
<1> QED
  BY <1>2, <1>3 DEF Settle

\* Leases and age leave a run what it is.
LEMMA LeaseKeeps ==
    ASSUME TypeOK, NEW i \in Run, Running(i),
           \/ \E l \in {"live", "expired"} :
                run' = [run EXCEPT ![i].lease = l]
           \/ run' = [run EXCEPT ![i].old = TRUE]
    PROVE  RunsKept
<1>1. run[i] \in RunRow
  BY RunFacts
<1>2. /\ \A l \in {"live", "expired"} :
           [run[i] EXCEPT !.lease = l] \in RunRow
      /\ [run[i] EXCEPT !.old = TRUE] \in RunRow
  BY <1>1 DEF RunRow
<1>3. \E new \in RunRow :
        /\ new.of = run[i].of /\ new.trigger = run[i].trigger
        /\ new.slot = run[i].slot
        /\ run' = [run EXCEPT ![i] = new]
  BY <1>1, <1>2 DEF RunRow
<1> QED
  BY <1>3, RunChanges

\* A row changed in columns no claim compares.
LEMMA RowKeeps ==
    ASSUME TypeOK, NEW r \in Routine, NEW new \in Row,
           new.life = rt[r].life, new.active = rt[r].active,
           new.sched = rt[r].sched, new.next = rt[r].next,
           \/ /\ new.retry = rt[r].retry
              /\ new.retryAt = "none" <=> rt[r].retryAt = "none"
           \/ new.retry = 0 /\ new.retryAt = "none",
           rt' = [rt EXCEPT ![r] = new]
    PROVE  RowsKept
  BY DEF TypeOK, RowsKept

\* Clearing the retry of a routine.
LEMMA NoRetryKeeps ==
    ASSUME TypeOK, NEW r \in Routine,
           rt' = IF There(r) THEN [rt EXCEPT ![r] = NoRetry(rt[r])] ELSE rt
    PROVE  RowsKept
<1>1. rt[r] \in Row
  BY DEF TypeOK
<1>2. NoRetry(rt[r]) \in Row
  BY <1>1 DEF NoRetry, Row, RetryTime
<1>3. CASE There(r)
  BY <1>1, <1>2, <1>3, RowKeeps DEF NoRetry, Row
<1>4. CASE ~There(r)
  BY <1>4, Kept
<1> QED
  BY <1>3, <1>4

\* Runs that settle are of a routine.
LEMMA OfFacts ==
    ASSUME TypeOK, NEW i \in Run, run[i] # Unused
    PROVE  run[i] \in RunRow /\ run[i].of \in Routine
  BY DEF TypeOK, RunRow

\* A poll that gives its claim up.
LEMMA GivesUpKeeps ==
    ASSUME TypeOK, NEW c \in Claimer, GivesUp(c)
    PROVE  ClaimsKept
  BY DEF TypeOK, GivesUp, ClaimsKept

\* A claim under way is a claim of a routine.
LEMMA ClaimFacts ==
    ASSUME TypeOK, NEW c \in Claimer, claim[c].at # "idle"
    PROVE  claim[c] \in Claim /\ claim[c].of \in Routine
  BY DEF TypeOK, NoClaim, Claim

\* A settling that ends.
LEMMA NoFinKeeps ==
    ASSUME TypeOK, NEW i \in Run, fin' = [fin EXCEPT ![i] = NoFin]
    PROVE  FinsKept
  BY DEF TypeOK, FinsKept, Fin, NoFin

\* A job that goes on.
LEMMA JobKeeps ==
    ASSUME TypeOK, NEW i \in Run, NEW next \in [at : Stage, kind : Kind],
           JobGoes(i, next), UNCHANGED turn
    PROVE  JobsTyped
  BY DEF TypeOK, JobsTyped, JobGoes

\* The states of a job are of its type.
LEMMA JobFacts ==
    /\ NoJob \in [at : Stage, kind : Kind]
    /\ Ready \in [at : Stage, kind : Kind]
    /\ \A kind \in Kind : Ended(kind) \in [at : Stage, kind : Kind]
    /\ \A at \in Stage : [at |-> at, kind |-> "none"]
                           \in [at : Stage, kind : Kind]
  BY DEF NoJob, Ready, Ended, Stage, Kind

\* The steps of a job.
LEMMA WorkingMinor ==
    ASSUME TypeOK, NEW i \in Run, Working(i)
    PROVE  Minor
<1> USE DEF Minor
<1>1. CASE Started(i)
  <2>1. JobsTyped
    BY <1>1, JobKeeps, JobFacts DEF Started, Stage, Kind
  <2>2. CASE UNCHANGED <<run, fin>>
    BY <1>1, <2>1, <2>2, Kept DEF Started
  <2>3. CASE Running(i) /\ run' = [run EXCEPT ![i].lease = "live"]
                       /\ UNCHANGED fin
    BY <1>1, <2>1, <2>3, Kept, LeaseKeeps DEF Started
  <2>4. CASE Settle(i, "error", FALSE)
    BY <1>1, <2>1, <2>4, Kept, SettleKeeps DEF Started
  <2> QED
    BY <1>1, <2>2, <2>3, <2>4 DEF Started
<1>2. CASE Renew(i)
  <2>1. CASE Running(i)
    BY <1>2, <2>1, Kept, LeaseKeeps DEF Renew
  <2>2. CASE ~Running(i)
    BY <1>2, <2>2, Kept, JobKeeps, JobFacts DEF Renew
  <2> QED
    BY <2>1, <2>2
<1>3. CASE Post(i)
  <2>1. turn' \in [Run -> {"none", "live", "done", "undone"}]
    BY <1>3 DEF Post, TypeOK
  <2>2. job' \in [Run -> [at : Stage, kind : Kind]]
    BY <1>3, JobFacts DEF Post, TypeOK, JobGoes, Stage, Kind
  <2> QED
    BY <1>3, <2>1, <2>2, Kept DEF Post, JobsTyped
<1>4. CASE Breaks(i)
  BY <1>4, Kept, JobKeeps, JobFacts DEF Breaks, Kind
<1>5. CASE TimesOut(i)
  BY <1>5, Kept, JobKeeps, JobFacts DEF TimesOut, Kind
<1>6. ASSUME NEW kind \in {"completed", "error", "aborted"},
             TurnEnds(i, kind)
      PROVE  Minor
  <2>1. turn' \in [Run -> {"none", "live", "done", "undone"}]
    BY <1>6 DEF TurnEnds, TypeOK
  <2>2. job' \in [Run -> [at : Stage, kind : Kind]]
    BY <1>6, JobFacts DEF TurnEnds, TypeOK, Kind
  <2> QED
    BY <1>6, <2>1, <2>2, Kept DEF TurnEnds, JobsTyped
<1>7. CASE Finish(i)
  <2>1. JobsTyped
    BY <1>7, JobKeeps, JobFacts DEF Finish
  <2>2. CASE UNCHANGED <<run, fin>>
    BY <1>7, <2>1, <2>2, Kept DEF Finish
  <2>3. CASE Settle(i, IF job[i].kind = "completed" THEN "ok" ELSE "error",
                    Retryable(job[i].kind))
    <3>1. RunsKept /\ FinsKept
      BY <2>3, SettleKeeps DEF Retryable
    <3> QED
      BY <1>7, <2>1, <3>1, Kept DEF Finish
  <2> QED
    BY <1>7, <2>2, <2>3 DEF Finish
<1>8. CASE JobDies(i)
  BY <1>8, Kept, JobKeeps, JobFacts DEF JobDies
<1> QED
  BY <1>1, <1>2, <1>3, <1>4, <1>5, <1>6, <1>7, <1>8 DEF Working

\* The sweeps, and what settling a run still writes, except a retry.
LEMMA SettlingMinor ==
    ASSUME TypeOK, NEW i \in Run, Settling(i), ~ArmWrite(i),
           \A j \in Run : fin[j].at # "idle" => run[j] # Unused
    PROVE  Minor
<1> USE DEF Minor
<1>1. CASE ClearRetry(i)
  <2>1. run[i].of \in Routine
    BY <1>1, OfFacts DEF ClearRetry
  <2>2. RowsKept
    BY <1>1, <2>1, NoRetryKeeps DEF ClearRetry
  <2> QED
    BY <1>1, <2>2, Kept, NoFinKeeps DEF ClearRetry
<1>2. CASE ArmRead(i)
  <2>1. rt[run[i].of] \in Row
    BY <1>2, OfFacts DEF ArmRead, TypeOK
  <2>2. \E new \in Fin : fin' = [fin EXCEPT ![i] = new]
    <3>1. NoFin \in Fin /\ [at |-> "clear", count |-> 0] \in Fin
      BY DEF Fin, NoFin
    <3>2. [at |-> "write", count |-> rt[run[i].of].count + 1] \in Fin
      BY <2>1 DEF Fin, Row
    <3> QED
      BY <1>2, <3>1, <3>2 DEF ArmRead
  <2>3. FinsKept
    BY <1>2, <2>2 DEF ArmRead, FinsKept, TypeOK
  <2> QED
    BY <1>2, <2>3, Kept DEF ArmRead
<1>3. CASE SettleDies(i)
  BY <1>3, Kept, NoFinKeeps DEF SettleDies
<1>4. CASE LeaseExpires(i)
  BY <1>4, Kept, LeaseKeeps DEF LeaseExpires
<1>5. CASE WaitsTooLong(i)
  BY <1>5, Kept, LeaseKeeps DEF WaitsTooLong
<1>6. CASE SweepLease(i)
  BY <1>6, Kept, SettleKeeps DEF SweepLease
<1>7. CASE SweepUnclaimed(i)
  BY <1>7, Kept, FinishedKeeps DEF SweepUnclaimed
<1>8. ASSUME NEW p \in Proc, PickUp(p, i)
      PROVE  Minor
  <2>1. CASE /\ Running(i) /\ run' = [run EXCEPT ![i].lease = "live"]
             /\ \E b \in {Ready, NoJob} : job' = [job EXCEPT ![i] = b]
             /\ UNCHANGED fin
    <3>1. JobsTyped
      BY <1>8, <2>1, JobFacts DEF PickUp, JobsTyped, TypeOK
    <3> QED
      BY <1>8, <2>1, <3>1, Kept, LeaseKeeps DEF PickUp
  <2>2. CASE Settle(i, "error", FALSE) /\ UNCHANGED job
    BY <1>8, <2>2, Kept, SettleKeeps DEF PickUp
  <2> QED
    BY <1>8, <2>1, <2>2 DEF PickUp
<1> QED
  BY <1>1, <1>2, <1>3, <1>4, <1>5, <1>6, <1>7, <1>8 DEF Settling

\* What becomes of a claim that is given up, or whose run is closed.
LEMMA ClosingMinor ==
    ASSUME TypeOK, NEW c \in Claimer, ClaimDies(c) \/ ClearStale(c) \/ Close(c)
    PROVE  Minor
<1> USE DEF Minor
<1>1. CASE ClaimDies(c)
  BY <1>1, Kept, GivesUpKeeps DEF ClaimDies
<1>2. CASE ClearStale(c)
  <2>1. claim[c].of \in Routine
    BY <1>2 DEF ClearStale, At, TypeOK, Claim, NoClaim
  <2>2. RowsKept
    BY <1>2, <2>1, NoRetryKeeps DEF ClearStale
  <2> QED
    BY <1>2, <2>2, Kept, GivesUpKeeps DEF ClearStale
<1>3. CASE Close(c)
  <2> DEFINE i == claim[c].run
  <2>1. i \in Run \cup {0}
    BY <1>3, ClaimFacts DEF Close, At, Claim
  <2>2. ClaimsKept /\ UNCHANGED <<rt, job, turn, tab, clock>>
    BY <1>3, GivesUpKeeps DEF Close
  <2>3. CASE i \in Run
    BY <1>3, <2>2, <2>3, Kept, FinishedKeeps, SettleKeeps DEF Close
  <2>4. CASE i \notin Run
    <3>1. \A v : [run EXCEPT ![i] = v] = run /\ [fin EXCEPT ![i] = v] = fin
      BY <2>4 DEF TypeOK
    <3>2. run' = run /\ fin' = fin
      BY <1>3, <3>1 DEF Close, Settle, Finished
    <3> QED
      BY <2>2, <3>2, Kept
  <2> QED
    BY <2>1, <2>3, <2>4
<1> QED
  BY <1>1, <1>2, <1>3

\* Other changes of a routine that leave its schedule alone.
LEMMA RowMinor ==
    ASSUME TypeOK, NEW r \in Routine, EditText(r) \/ RetryComes(r) \/ Redeploy(r)
    PROVE  Minor
<1> USE DEF Minor
<1>1. rt[r] \in Row
  BY DEF TypeOK
<1>2. /\ UNCHANGED <<run, job, turn, fin, claim, tab, clock>>
      /\ \/ rt' = [rt EXCEPT ![r].text = ~rt[r].text]
         \/ rt' = [rt EXCEPT ![r].seat = ~rt[r].seat]
         \/ /\ rt[r].retryAt # "none"
            /\ \E at \in {"due", "late"} : rt' = [rt EXCEPT ![r].retryAt = at]
  BY DEF EditText, RetryComes, Redeploy
<1>3. CASE rt' = [rt EXCEPT ![r].text = ~rt[r].text]
  <2> DEFINE new == [rt[r] EXCEPT !.text = ~rt[r].text]
  <2>1. new \in Row /\ rt' = [rt EXCEPT ![r] = new]
    BY <1>1, <1>3 DEF Row
  <2> QED
    BY <1>1, <1>2, <2>1, Kept, RowKeeps, ZenonT(30) DEF Row
<1>4. CASE rt' = [rt EXCEPT ![r].seat = ~rt[r].seat]
  <2> DEFINE new == [rt[r] EXCEPT !.seat = ~rt[r].seat]
  <2>1. new \in Row /\ rt' = [rt EXCEPT ![r] = new]
    BY <1>1, <1>4 DEF Row
  <2> QED
    BY <1>1, <1>2, <2>1, Kept, RowKeeps DEF Row
<1>5. ASSUME NEW at \in {"due", "late"}, rt' = [rt EXCEPT ![r].retryAt = at],
             rt[r].retryAt # "none"
      PROVE  Minor
  <2> DEFINE new == [rt[r] EXCEPT !.retryAt = at]
  <2>1. new \in Row /\ rt' = [rt EXCEPT ![r] = new]
    BY <1>1, <1>5 DEF Row, RetryTime
  <2>2. /\ new.life = rt[r].life /\ new.active = rt[r].active
        /\ new.sched = rt[r].sched /\ new.next = rt[r].next
        /\ new.retry = rt[r].retry /\ new.retryAt = at
    BY <1>1 DEF Row
  <2>3. new.retryAt # "none" /\ rt[r].retryAt # "none"
    BY <1>5, <2>2
  <2>4. RowsKept
    BY <2>1, <2>2, <2>3, RowKeeps
  <2> QED
    BY <1>2, <2>4, Kept
<1> QED
  BY <1>2, <1>3, <1>4, <1>5

-----------------------------------------------------------------------------
(* The other steps, and types.                                             *)

\* What handlers have read of a run is a registered run, and the stages of a
\* claim belong to slots or to retries.
Registered ==
    /\ \A i \in Run : fin[i].at # "idle" => run[i] # Unused
    /\ \A r \in Routine : rt[r].retryAt # "none" => rt[r].retry # 0
    /\ \A r \in Routine : rt[r].retry # 0 => run[rt[r].retry] # Unused
    /\ \A c \in Claimer :
         /\ claim[c].at \in {"slot", "check", "missed"} =>
              claim[c].trigger = "schedule"
         /\ claim[c].at \in {"recheck", "take", "stale"} =>
              claim[c].trigger = "retry"
         /\ claim[c].at # "idle" /\ claim[c].trigger = "retry" =>
              claim[c].key \in Run /\ run[claim[c].key] # Unused

ClaimStep(c) ==
    \/ \E r \in Routine : ReadSlot(c, r) \/ ReadRetry(c, r)
    \/ TakeSlot(c) \/ CheckRunning(c) \/ TakeRetry(c) \/ Start(c) \/ Note(c)

\* Every step is minor or one of the others.
LEMMA StepCases ==
    ASSUME TypeOK, Registered, [Next]_vars
    PROVE  \/ Minor
           \/ \E c \in Claimer : ClaimStep(c)
           \/ \E i \in Run : ArmWrite(i)
           \/ \E r \in Routine : Create(r) \/ Manual(r) \/ Delete(r)
           \/ \E r \in Routine, e \in Tab, what \in Change : PatchRead(e, r, what)
           \/ \E e \in Tab : PatchWrite(e)
           \/ Tick
<1>1. CASE UNCHANGED vars
  BY <1>1, Kept DEF vars, Minor
<1>2. \A i \in Run : Settling(i) => Minor \/ ArmWrite(i)
  BY SettlingMinor DEF Registered
<1>3. \A i \in Run : Working(i) => Minor
  BY WorkingMinor
<1>4. \A c \in Claimer : ClaimDies(c) \/ ClearStale(c) \/ Close(c) => Minor
  BY ClosingMinor
<1>5. \A r \in Routine : EditText(r) \/ RetryComes(r) \/ Redeploy(r) => Minor
  BY RowMinor
<1>6. CASE \E c \in Claimer : Claiming(c) \/ ClaimDies(c)
  BY <1>4, <1>6 DEF Claiming, ClaimStep
<1>7. CASE \E r \in Routine : Editing(r)
  BY <1>5, <1>7 DEF Editing
<1> QED
  BY <1>1, <1>2, <1>3, <1>5, <1>6, <1>7 DEF Next

\* Registering a run.
Adds(i, new) ==
    /\ run[i] = Unused
    /\ new \in RunRow /\ new.status = "running"
    /\ run' = [run EXCEPT ![i] = new]

\* A run that is registered is a row.
LEMMA NewRunType ==
    ASSUME NEW r \in Routine, NEW trigger \in Trigger,
           NEW owner \in {OwnerOf[p] : p \in Proc} \cup {NoOwner},
           NEW lease \in {"none", "live"}, NEW slot \in Nat
    PROVE  NewRun(r, trigger, owner, lease, slot) \in RunRow
  BY DEF NewRun, RunRow, Status

\* The slot of a claim, also that of a retry, is a number.
LEMMA SlotOfType ==
    ASSUME TypeOK, Registered, NEW c \in Claimer, claim[c].at # "idle"
    PROVE  SlotOf(claim[c]) \in Nat
<1>1. claim[c] \in Claim
  BY ClaimFacts
<1>2. CASE claim[c].trigger = "schedule"
  BY <1>1, <1>2 DEF SlotOf, Claim
<1>3. CASE claim[c].trigger = "retry"
  BY <1>1, <1>3, OfFacts DEF SlotOf, Registered, RunRow
<1> QED
  BY <1>1, <1>2, <1>3 DEF Claim

\* A run by hand is registered under the routine's own owner.
LEMMA ManualAdds ==
    ASSUME NEW r \in Routine, Manual(r)
    PROVE  \E i \in Run :
             Adds(i, NewRun(r, "manual", OwnerOf[Home[r]], "none", 0))
<1>1. OwnerOf[Home[r]] \in {OwnerOf[p] : p \in Proc} \cup {NoOwner}
  BY NamesAssumption
<1>2. NewRun(r, "manual", OwnerOf[Home[r]], "none", 0) \in RunRow
  BY <1>1, NewRunType DEF Trigger
<1> QED
  BY <1>2 DEF Manual, Adds, Fresh, NewRun

\* A claim registers a run for its routine with its trigger and slot, or none.
Registers(c, i, new) ==
    /\ claim[c].at \in {"start", "missed"}
    /\ Adds(i, new)
    /\ new.of = claim[c].of /\ new.trigger = claim[c].trigger
    /\ new.slot = SlotOf(claim[c])

\* leaseDue registers the claim's run or gives the claim up.
LEMMA StartCases ==
    ASSUME TypeOK, Registered, NEW c \in Claimer, Start(c)
    PROVE  \/ Minor
           \/ /\ \E i \in Run, new \in RunRow : Registers(c, i, new)
              /\ claim' = [claim EXCEPT ![c] = NoClaim]
              /\ JobsTyped /\ UNCHANGED <<rt, fin, tab, clock>>
<1>1. claim[c] \in Claim /\ claim[c].of \in Routine /\ claim[c].at = "start"
  BY ClaimFacts DEF Start, At
<1>2. CASE UNCHANGED <<run, job>>
  BY <1>2, Kept, GivesUpKeeps DEF Start, Minor
<1>3. ASSUME NEW i \in Run, NEW got \in BOOLEAN, Fresh(i),
             run' = [run EXCEPT ![i] =
                       NewRun(claim[c].of, claim[c].trigger,
                              OwnerOf[ProcOf[c]], "live", SlotOf(claim[c]))],
             job' = [job EXCEPT ![i] = IF got THEN Ready ELSE NoJob]
      PROVE  /\ \E new \in RunRow : Registers(c, i, new)
             /\ JobsTyped
  <2> DEFINE new == NewRun(claim[c].of, claim[c].trigger,
                           OwnerOf[ProcOf[c]], "live", SlotOf(claim[c]))
  <2>1. ProcOf[c] \in Proc
    BY NamesAssumption DEF Start
  <2>2. new \in RunRow
    BY <1>1, <2>1, NewRunType, SlotOfType DEF Claim, Trigger
  <2>3. Registers(c, i, new)
    BY <1>1, <1>3, <2>2 DEF Registers, Adds, Fresh, NewRun
  <2>4. JobsTyped
    BY <1>3, JobFacts DEF Start, JobsTyped, TypeOK
  <2> QED
    BY <2>2, <2>3, <2>4
<1>4. /\ claim' = [claim EXCEPT ![c] = NoClaim]
      /\ UNCHANGED <<rt, fin, tab, clock>>
  BY DEF Start, GivesUp
<1> QED
  BY <1>2, <1>3, <1>4 DEF Start

\* noteMissed and noteUnrunnable register a run they are about to close.
LEMMA NoteCases ==
    ASSUME TypeOK, Registered, NEW c \in Claimer, Note(c)
    PROVE  \/ Minor
           \/ /\ \E i \in Run, new \in RunRow, at \in {"close", "settle"} :
                   /\ Registers(c, i, new)
                   /\ claim' = [claim EXCEPT ![c].at = at, ![c].run = i]
              /\ UNCHANGED <<rt, job, turn, fin, tab, clock>>
<1>1. /\ claim[c] \in Claim /\ claim[c].of \in Routine
      /\ claim[c].at \in {"start", "missed"}
  BY ClaimFacts DEF Note, At
<1>2. CASE UNCHANGED run /\ GivesUp(c)
  BY <1>2, Kept, GivesUpKeeps DEF Note, Minor
<1>3. ASSUME NEW i \in Run, Fresh(i),
             run' = [run EXCEPT ![i] =
                       NewRun(claim[c].of, claim[c].trigger, NoOwner, "none",
                              SlotOf(claim[c]))]
      PROVE  \E new \in RunRow : Registers(c, i, new)
  <2> DEFINE new == NewRun(claim[c].of, claim[c].trigger, NoOwner, "none",
                           SlotOf(claim[c]))
  <2>1. new \in RunRow
    BY <1>1, NewRunType, SlotOfType DEF Claim, Trigger
  <2>2. Registers(c, i, new)
    BY <1>1, <1>3, <2>1 DEF Registers, Adds, Fresh, NewRun
  <2> QED
    BY <2>1, <2>2
<1> QED
  BY <1>2, <1>3 DEF Note

\* Claims that go on from one stage to the next, without or with a change of
\* their routine.
LEMMA ClaimGoes ==
    ASSUME TypeOK, NEW c \in Claimer, claim[c].at # "idle",
           NEW at \in {"check", "missed", "start", "take"}, Goes(c, at)
    PROVE  /\ claim' \in [Claimer -> {NoClaim} \cup Claim]
           /\ claim'[c] = [claim[c] EXCEPT !.at = at]
           /\ \A d \in Claimer : d # c => claim'[d] = claim[d]
<1>1. claim[c] \in Claim
  BY ClaimFacts
<1>2. [claim[c] EXCEPT !.at = at] \in Claim
  BY <1>1 DEF Claim
<1>3. claim' = [claim EXCEPT ![c] = [claim[c] EXCEPT !.at = at]]
  BY DEF Goes
<1> QED
  BY <1>2, <1>3 DEF TypeOK

\* Reading what is due.
LEMMA ReadTypes ==
    ASSUME TypeOK, NEW c \in Claimer, NEW r \in Routine,
           ReadSlot(c, r) \/ ReadRetry(c, r)
    PROVE  /\ claim' \in [Claimer -> {NoClaim} \cup Claim]
           /\ claim'[c] \in Claim
           /\ \A d \in Claimer : d # c => claim'[d] = claim[d]
<1>1. rt[r] \in Row
  BY DEF TypeOK
<1>2. clock \div 2 + 1 \in Nat
  BY DEF TypeOK
<1>3. CASE ReadSlot(c, r)
  <2>1. nextRunAtOf(TRUE, rt[r].sched) \in Nat
    BY <1>2 DEF nextRunAtOf
  <2>2. Late(rt[r].next) \in BOOLEAN
    BY DEF Late
  <2> QED
    BY <1>1, <1>3, <2>1, <2>2, ZenonT(30) DEF ReadSlot, TypeOK, Claim, Row
<1>4. CASE ReadRetry(c, r)
  <2>1. \E at \in {"stale", "recheck"}, late \in BOOLEAN :
          claim' = [claim EXCEPT ![c] =
                      [at |-> at, of |-> r, trigger |-> "retry",
                       key |-> rt[r].retry, run |-> 0, next |-> 0,
                       late |-> late, text |-> rt[r].text]]
    BY <1>4 DEF ReadRetry
  <2>2. rt[r].retry \in Nat /\ rt[r].text \in BOOLEAN
    BY <1>1 DEF Row, Run
  <2>3. \A at \in {"stale", "recheck"}, late \in BOOLEAN :
           [at |-> at, of |-> r, trigger |-> "retry", key |-> rt[r].retry,
            run |-> 0, next |-> 0, late |-> late, text |-> rt[r].text]
             \in Claim
    BY <2>2 DEF Claim
  <2> QED
    BY <2>1, <2>3 DEF TypeOK
<1> QED
  BY <1>3, <1>4

\* A claim that is taken changes the row of its routine.
LEMMA TakenTypes ==
    ASSUME TypeOK, NEW c \in Claimer, TakeSlot(c) \/ TakeRetry(c)
    PROVE  rt' \in [Routine -> Row]
<1>1. claim[c] \in Claim /\ rt[claim[c].of] \in Row
  BY ClaimFacts DEF TakeSlot, TakeRetry, At, TypeOK
<1>2. Taken(rt[claim[c].of]) \in Row
  BY <1>1 DEF Taken, Row, RetryTime
<1>3. [NoRetry(rt[claim[c].of]) EXCEPT !.next = claim[c].next] \in Row
  BY <1>1 DEF NoRetry, Row, RetryTime, Claim
<1> QED
  BY <1>1, <1>2, <1>3 DEF TakeSlot, TakeRetry, TypeOK

\* What people change.
LEMMA EditTypes ==
    ASSUME TypeOK,
           \/ \E r \in Routine : Create(r) \/ Delete(r)
           \/ \E r \in Routine, e \in Tab, what \in Change : PatchRead(e, r, what)
           \/ \E e \in Tab : PatchWrite(e)
    PROVE  /\ rt' \in [Routine -> Row]
           /\ run' \in [Run -> {Unused} \cup RunRow]
           /\ tab' \in [Tab -> {NoPatch} \cup Patch]
<1>1. \A active, sched \in BOOLEAN : nextRunAtOf(active, sched) \in Nat
  BY DEF nextRunAtOf, TypeOK
<1>2. \A r \in Routine : rt[r] \in Row /\ NoRow(rt[r].seat) \in Row
  BY DEF TypeOK, NoRow, Row, RetryTime
<1>3. ASSUME NEW r \in Routine, Create(r)
      PROVE  rt' \in [Routine -> Row]
  <2>1. \A sched, text \in BOOLEAN :
           [NoRow(rt[r].seat) EXCEPT !.life = "there", !.sched = sched,
                                     !.text = text,
                                     !.next = nextRunAtOf(TRUE, sched)] \in Row
    BY <1>1, <1>2 DEF Row
  <2>2. \E sched, text \in BOOLEAN :
          rt' = [rt EXCEPT ![r] =
                   [NoRow(rt[r].seat) EXCEPT
                      !.life = "there", !.sched = sched, !.text = text,
                      !.next = nextRunAtOf(TRUE, sched)]]
    <3>1. ("times" \notin Edits) \in BOOLEAN /\ ("text" \notin Edits) \in BOOLEAN
      OBVIOUS
    <3> QED
      BY <1>3, <3>1, Zenon DEF Create
  <2> QED
    BY <2>1, <2>2 DEF TypeOK
<1>4. ASSUME NEW r \in Routine, Delete(r)
      PROVE  rt' \in [Routine -> Row] /\ run' \in [Run -> {Unused} \cup RunRow]
  <2>1. rt' \in [Routine -> Row]
    BY <1>2, <1>4 DEF Delete, TypeOK, Row, NoRow
  <2>2. \A i \in Run : run[i] # Unused =>
           [run[i] EXCEPT !.status = "gone"] \in RunRow
    BY OfFacts DEF RunRow, Status
  <2>3. run' \in [Run -> {Unused} \cup RunRow]
    BY <1>4, <2>2 DEF Delete, RunsOf, TypeOK
  <2> QED
    BY <2>1, <2>3
<1>5. ASSUME NEW r \in Routine, NEW e \in Tab, NEW what \in Change,
             PatchRead(e, r, what)
      PROVE  tab' \in [Tab -> {NoPatch} \cup Patch]
  <2>1. /\ ActiveBy(what, rt[r]) \in BOOLEAN
        /\ SchedBy(what, rt[r]) \in BOOLEAN
    BY <1>2 DEF ActiveBy, SchedBy, Row
  <2>2. NextBy(what, rt[r]) \in Nat /\ Clears(what, rt[r]) \in BOOLEAN
    BY <1>1, <2>1 DEF NextBy, Clears
  <2> QED
    BY <1>5, <2>2 DEF PatchRead, TypeOK, Patch
<1>6. ASSUME NEW e \in Tab, PatchWrite(e)
      PROVE  /\ rt' \in [Routine -> Row]
             /\ tab' \in [Tab -> {NoPatch} \cup Patch]
  <2>1. tab[e] \in Patch
    BY <1>6 DEF PatchWrite, TypeOK
  <2>2. \A row \in Row : Patched(row, tab[e]) \in Row
    <3>1. SUFFICES ASSUME NEW row \in Row
                   PROVE  Patched(row, tab[e]) \in Row
      OBVIOUS
    <3> DEFINE new == [row EXCEPT !.active = ActiveBy(tab[e].what, row),
                                  !.sched = SchedBy(tab[e].what, row),
                                  !.next = tab[e].next]
    <3>2. /\ ActiveBy(tab[e].what, row) \in BOOLEAN
          /\ SchedBy(tab[e].what, row) \in BOOLEAN
          /\ tab[e].next \in Nat
      BY <2>1 DEF ActiveBy, SchedBy, Row, Patch
    <3>3. new \in Row
      BY <3>2 DEF Row
    <3>4. NoRetry(new) \in Row
      BY <3>3 DEF NoRetry, Row, RetryTime
    <3> QED
      BY <3>3, <3>4 DEF Patched
  <2> QED
    BY <1>2, <1>6, <2>1, <2>2 DEF PatchWrite, TypeOK, Patch
<1> QED
  BY <1>3, <1>4, <1>5, <1>6 DEF TypeOK, Create, Delete, PatchRead, PatchWrite

\* Registering keeps the other runs.
LEMMA AddsFacts ==
    ASSUME TypeOK, NEW i \in Run, NEW new, Adds(i, new)
    PROVE  /\ run' \in [Run -> {Unused} \cup RunRow]
           /\ run'[i] = new /\ run[i] = Unused /\ new \in RunRow
           /\ new # Unused
           /\ \A j \in Run : j # i => run'[j] = run[j]
           /\ \A j \in Run : run[j] # Unused => run'[j] = run[j]
<1>1. new # Unused
  BY DEF Adds, Unused
<1> QED
  BY <1>1 DEF TypeOK, Adds

\* Minor steps keep the types.
LEMMA RegisteredMinor ==
    ASSUME TypeOK, Registered, Minor
    PROVE  TypeOK' /\ Registered'
<1>1. TypeOK'
  BY DEF TypeOK, Minor, RunsKept, RowsKept, FinsKept, ClaimsKept, JobsTyped
<1>2. \A i \in Run : fin'[i].at # "idle" => run'[i] # Unused
  BY DEF Registered, Minor, FinsKept, RunsKept, Unused
<1>3. \A r \in Routine : rt'[r].retryAt # "none" => rt'[r].retry # 0
  BY DEF Registered, Minor, RowsKept
<1>4. \A r \in Routine : rt'[r].retry # 0 =>
         /\ rt'[r].retry = rt[r].retry /\ rt[r].retry \in Run
         /\ run[rt[r].retry] # Unused
  BY DEF Registered, Minor, RowsKept, TypeOK, Row
<1>5. \A r \in Routine : rt'[r].retry # 0 => run'[rt'[r].retry] # Unused
  BY <1>4 DEF Minor, RunsKept
<1>6. ASSUME NEW c \in Claimer, claim'[c].at # "idle"
      PROVE  claim'[c] = claim[c]
  BY <1>6 DEF Minor, ClaimsKept, NoClaim
<1>7. \A j \in Run : run[j] # Unused => run'[j] # Unused
  BY DEF Minor, RunsKept
<1> QED
  BY <1>1, <1>2, <1>3, <1>5, <1>6, <1>7 DEF Registered

\* Steps of a claim keep the types.
LEMMA RegisteredClaim ==
    ASSUME TypeOK, Registered, NEW c \in Claimer, ClaimStep(c)
    PROVE  TypeOK' /\ Registered'
<1>1. ASSUME NEW r \in Routine, ReadSlot(c, r)
      PROVE  TypeOK' /\ Registered'
  <2>1. TypeOK'
    BY <1>1, ReadTypes DEF TypeOK, ReadSlot
  <2>2. claim'[c].at = "slot" /\ claim'[c].trigger = "schedule"
    BY <1>1 DEF ReadSlot, TypeOK
  <2> QED
    BY <1>1, <2>1, <2>2, ReadTypes DEF Registered, ReadSlot
<1>2. ASSUME NEW r \in Routine, ReadRetry(c, r)
      PROVE  TypeOK' /\ Registered'
  <2>1. TypeOK'
    BY <1>2, ReadTypes DEF TypeOK, ReadRetry
  <2>2. /\ claim'[c].at \in {"stale", "recheck"}
        /\ claim'[c].trigger = "retry" /\ claim'[c].key = rt[r].retry
    BY <1>2 DEF ReadRetry, TypeOK
  <2>3. rt[r].retry \in Run /\ run[rt[r].retry] # Unused
    BY <1>2 DEF ReadRetry, Registered, TypeOK, Row
  <2> QED
    BY <1>2, <2>1, <2>2, <2>3, ReadTypes DEF Registered, ReadRetry
<1>3. CASE TakeSlot(c)
  <2>1. CASE ~HasSlot(c) /\ GivesUp(c) /\ UNCHANGED rt
    BY <1>3, <2>1, Kept, GivesUpKeeps, RegisteredMinor DEF TakeSlot, Minor
  <2> DEFINE r == claim[c].of
  <2>2. CASE /\ rt' = [rt EXCEPT ![r] =
                         [NoRetry(rt[r]) EXCEPT !.next = claim[c].next]]
             /\ \/ GivesUp(c)
                \/ \E at \in {"missed", "check"} : Goes(c, at)
    <3>1. claim[c].at = "slot" /\ claim[c].trigger = "schedule"
          /\ r \in Routine /\ claim[c] \in Claim
      BY <1>3, ClaimFacts DEF TakeSlot, At, Registered
    <3>2. /\ claim' \in [Claimer -> {NoClaim} \cup Claim]
          /\ \/ claim'[c].at = "idle"
             \/ /\ claim'[c].at \in {"missed", "check"}
                /\ claim'[c].trigger = "schedule"
          /\ \A d \in Claimer : d # c => claim'[d] = claim[d]
      <4>1. CASE GivesUp(c)
        BY <4>1 DEF GivesUp, TypeOK, NoClaim
      <4>2. ASSUME NEW at \in {"missed", "check"}, Goes(c, at)
            PROVE  /\ claim' \in [Claimer -> {NoClaim} \cup Claim]
                   /\ claim'[c].at \in {"missed", "check"}
                   /\ claim'[c].trigger = "schedule"
                   /\ \A d \in Claimer : d # c => claim'[d] = claim[d]
        <5>1. claim'[c] = [claim[c] EXCEPT !.at = at]
          BY <3>1, <4>2, ClaimGoes
        <5>2. claim'[c].at = at /\ claim'[c].trigger = "schedule"
          BY <3>1, <5>1 DEF Claim
        <5> QED
          BY <3>1, <4>2, <5>2, ClaimGoes
      <4> QED
        BY <2>2, <4>1, <4>2
    <3>3. TypeOK'
      BY <1>3, <3>2, TakenTypes DEF TakeSlot, TypeOK
    <3>4. \A s \in Routine : \/ rt'[s] = rt[s]
                             \/ rt'[s].retry = 0 /\ rt'[s].retryAt = "none"
      <4>1. rt[r] \in Row
        BY <3>1 DEF TypeOK
      <4> QED
        BY <2>2, <3>1, <4>1 DEF TypeOK, NoRetry, Row
    <3> QED
      BY <1>3, <3>1, <3>2, <3>3, <3>4 DEF Registered, TakeSlot
  <2> QED
    BY <1>3, <2>1, <2>2 DEF TakeSlot
<1>4. CASE CheckRunning(c)
  <2>1. CASE GivesUp(c)
    BY <1>4, <2>1, Kept, GivesUpKeeps, RegisteredMinor DEF CheckRunning, Minor
  <2>2. CASE \/ At(c, "check") /\ Goes(c, "start")
             \/ At(c, "recheck") /\ Goes(c, "take")
    <3>1. \E at \in {"start", "take"} :
            /\ Goes(c, at)
            /\ at = "take" => claim[c].at = "recheck"
      BY <2>2 DEF At
    <3>2. PICK at \in {"start", "take"} :
            /\ Goes(c, at)
            /\ at = "take" => claim[c].at = "recheck"
      BY <3>1
    <3>3. claim[c].at # "idle" /\ claim[c] \in Claim
      BY <1>4, ClaimFacts DEF CheckRunning
    <3>4. /\ claim' \in [Claimer -> {NoClaim} \cup Claim]
          /\ claim'[c] = [claim[c] EXCEPT !.at = at]
          /\ \A d \in Claimer : d # c => claim'[d] = claim[d]
      BY <3>2, <3>3, ClaimGoes
    <3>5. TypeOK'
      BY <1>4, <3>4 DEF CheckRunning, TypeOK
    <3>6. /\ claim'[c].at = at /\ claim'[c].trigger = claim[c].trigger
          /\ claim'[c].key = claim[c].key
      BY <3>3, <3>4 DEF Claim
    <3> QED
      BY <1>4, <3>2, <3>3, <3>4, <3>5, <3>6, ZenonT(30) DEF Registered, CheckRunning
  <2> QED
    BY <1>4, <2>1, <2>2 DEF CheckRunning, At
<1>5. CASE TakeRetry(c)
  <2>1. CASE GivesUp(c) /\ UNCHANGED rt
    BY <1>5, <2>1, Kept, GivesUpKeeps, RegisteredMinor DEF TakeRetry, Minor
  <2> DEFINE r == claim[c].of
  <2>2. CASE rt' = [rt EXCEPT ![r] = Taken(rt[r])] /\ Goes(c, "start")
    <3>1. /\ claim[c].at = "take" /\ claim[c].trigger = "retry"
          /\ r \in Routine /\ claim[c] \in Claim /\ rt[r] \in Row
      BY <1>5, ClaimFacts DEF TakeRetry, At, Registered, TypeOK
    <3>2. /\ claim' \in [Claimer -> {NoClaim} \cup Claim]
          /\ claim'[c] = [claim[c] EXCEPT !.at = "start"]
          /\ \A d \in Claimer : d # c => claim'[d] = claim[d]
      BY <2>2, <3>1, ClaimGoes
    <3>3. TypeOK'
      BY <1>5, <3>2, TakenTypes DEF TakeRetry, TypeOK
    <3>4. \A s \in Routine : \/ rt'[s] = rt[s]
                             \/ rt'[s].retry = 0 /\ rt'[s].retryAt = "none"
      BY <2>2, <3>1 DEF TypeOK, Taken, Row
    <3>5. /\ claim'[c].at = "start" /\ claim'[c].trigger = "retry"
          /\ claim'[c].key = claim[c].key
      BY <3>1, <3>2 DEF Claim
    <3>6. UNCHANGED <<run, fin>>
      BY <1>5 DEF TakeRetry
    <3>7. \A s \in Routine :
            /\ rt'[s].retryAt # "none" => rt'[s].retry # 0
            /\ rt'[s].retry # 0 => run'[rt'[s].retry] # Unused
      BY <3>4, <3>6 DEF Registered
    <3>8. ASSUME NEW d \in Claimer
          PROVE  /\ claim'[d].at \in {"slot", "check", "missed"} =>
                      claim'[d].trigger = "schedule"
                 /\ claim'[d].at \in {"recheck", "take", "stale"} =>
                      claim'[d].trigger = "retry"
                 /\ claim'[d].at # "idle" /\ claim'[d].trigger = "retry" =>
                      claim'[d].key \in Run /\ run'[claim'[d].key] # Unused
      <4>1. CASE d = c
        BY <3>1, <3>5, <3>6, <4>1 DEF Registered
      <4>2. CASE d # c
        BY <3>2, <3>6, <4>2 DEF Registered
      <4> QED
        BY <4>1, <4>2
    <3> QED
      BY <3>3, <3>6, <3>7, <3>8 DEF Registered
  <2> QED
    BY <1>5, <2>1, <2>2 DEF TakeRetry
<1>6. ASSUME NEW i \in Run, NEW new, Registers(c, i, new),
             UNCHANGED <<rt, fin, tab, clock>>, JobsTyped,
             \/ claim' = [claim EXCEPT ![c] = NoClaim]
             \/ \E at \in {"close", "settle"} :
                  claim' = [claim EXCEPT ![c].at = at, ![c].run = i]
      PROVE  TypeOK' /\ Registered'
  <2>1. Adds(i, new)
    BY <1>6 DEF Registers
  <2>2. claim[c] \in Claim /\ claim[c].at # "idle"
    BY <1>6, ClaimFacts DEF Registers
  <2>3. /\ claim' \in [Claimer -> {NoClaim} \cup Claim]
        /\ \/ claim'[c].at = "idle"
           \/ /\ claim'[c].at \in {"close", "settle"}
              /\ claim'[c].trigger = claim[c].trigger
              /\ claim'[c].key = claim[c].key
        /\ \A d \in Claimer : d # c => claim'[d] = claim[d]
    <3>1. CASE claim' = [claim EXCEPT ![c] = NoClaim]
      BY <3>1 DEF TypeOK, NoClaim
    <3>2. ASSUME NEW at \in {"close", "settle"},
                 claim' = [claim EXCEPT ![c].at = at, ![c].run = i]
          PROVE  /\ claim' \in [Claimer -> {NoClaim} \cup Claim]
                 /\ claim'[c].at \in {"close", "settle"}
                 /\ claim'[c].trigger = claim[c].trigger
                 /\ claim'[c].key = claim[c].key
                 /\ \A d \in Claimer : d # c => claim'[d] = claim[d]
      BY <2>2, <3>2 DEF TypeOK, Claim
    <3> QED
      BY <1>6, <3>1, <3>2
  <2>4. TypeOK'
    BY <1>6, <2>1, <2>3, AddsFacts DEF TypeOK, JobsTyped
  <2>5. \A j \in Run : run[j] # Unused => run'[j] # Unused
    BY <2>1, AddsFacts
  <2>6. \A r \in Routine : rt[r].retry # 0 => rt[r].retry \in Run
    BY DEF TypeOK, Row
  <2> QED
    BY <1>6, <2>2, <2>3, <2>4, <2>5, <2>6 DEF Registered
<1>7. CASE Start(c)
  BY <1>6, <1>7, StartCases, RegisteredMinor
<1>8. CASE Note(c)
  BY <1>6, <1>8, NoteCases, RegisteredMinor, Kept
<1> QED
  BY <1>1, <1>2, <1>3, <1>4, <1>5, <1>7, <1>8 DEF ClaimStep

\* When no claim moves and the registered runs remain.
LEMMA RegisteredOthers ==
    ASSUME TypeOK, Registered, TypeOK', UNCHANGED <<fin, claim>>,
           \A i \in Run : run[i] # Unused => run'[i] # Unused,
           \A r \in Routine :
             \/ rt'[r].retry = rt[r].retry /\ rt'[r].retryAt = rt[r].retryAt
             \/ rt'[r].retry = 0 /\ rt'[r].retryAt = "none"
    PROVE  Registered'
<1>1. \A r \in Routine : rt[r].retry # 0 => rt[r].retry \in Run
  BY DEF TypeOK, Row
<1> QED
  BY <1>1 DEF Registered

\* Every step keeps the types.
LEMMA RegisteredStep ==
    ASSUME TypeOK, Registered, [Next]_vars
    PROVE  TypeOK' /\ Registered'
<1>1. ASSUME NEW i \in Run, ArmWrite(i)
      PROVE  TypeOK' /\ Registered'
  <2> DEFINE r == run[i].of
  <2>1. run[i] # Unused /\ r \in Routine /\ rt[r] \in Row
    BY <1>1, OfFacts DEF ArmWrite, Registered, TypeOK
  <2>2. /\ fin' = [fin EXCEPT ![i] = NoFin] /\ fin[i].count \in Nat
        /\ UNCHANGED <<run, job, turn, claim, tab, clock>>
    BY <1>1 DEF ArmWrite, TypeOK, Fin
  <2>3. fin' \in [Run -> Fin]
        /\ \A j \in Run : fin'[j].at # "idle" => fin[j].at # "idle"
    BY <2>2 DEF TypeOK, Fin, NoFin
  <2>4. CASE ~There(r)
    <3>1. rt' = rt
      BY <1>1, <2>4 DEF ArmWrite
    <3> QED
      BY <2>2, <2>3, <3>1 DEF TypeOK, Registered
  <2>5. CASE There(r)
    <3> DEFINE new == [rt[r] EXCEPT !.retry = i, !.retryAt = "later",
                                    !.count = fin[i].count]
    <3>1. rt' = [rt EXCEPT ![r] = new]
      BY <1>1, <2>5 DEF ArmWrite
    <3>2. new \in Row /\ new.retry = i
      BY <2>1, <2>2 DEF Row, RetryTime
    <3>3. rt' \in [Routine -> Row]
      BY <3>1, <3>2 DEF TypeOK
    <3>4. \A s \in Routine : rt'[s] = rt[s] \/ rt'[s].retry = i
      BY <3>1, <3>2 DEF TypeOK
    <3>5. TypeOK'
      BY <2>2, <2>3, <3>3 DEF TypeOK
    <3>6. i # 0
      BY DEF Run
    <3> QED
      BY <2>1, <2>2, <2>3, <3>4, <3>5, <3>6 DEF Registered
  <2> QED
    BY <2>4, <2>5
<1>2. ASSUME NEW r \in Routine, Manual(r)
      PROVE  TypeOK' /\ Registered'
  <2>1. TypeOK'
    BY <1>2, ManualAdds, AddsFacts DEF Manual, TypeOK
  <2>2. \A i \in Run : run[i] # Unused => run'[i] # Unused
    BY <1>2, ManualAdds, AddsFacts
  <2> QED
    BY <1>2, <2>1, <2>2, RegisteredOthers DEF Manual
<1>3. ASSUME NEW r \in Routine, Create(r)
      PROVE  TypeOK' /\ Registered'
  <2>1. TypeOK'
    BY <1>3, EditTypes DEF Create, TypeOK
  <2>2. \A s \in Routine :
           \/ rt'[s] = rt[s]
           \/ rt'[s].retry = 0 /\ rt'[s].retryAt = "none"
    BY <1>3 DEF Create, NoRow, TypeOK
  <2> QED
    BY <1>3, <2>1, <2>2, RegisteredOthers DEF Create
<1>4. ASSUME NEW r \in Routine, Delete(r)
      PROVE  TypeOK' /\ Registered'
  <2>1. TypeOK'
    BY <1>4, EditTypes DEF Delete, TypeOK
  <2>2. \A s \in Routine :
           \/ rt'[s] = rt[s]
           \/ rt'[s].retry = 0 /\ rt'[s].retryAt = "none"
    BY <1>4 DEF Delete, NoRow, TypeOK
  <2>3. ASSUME NEW i \in Run, run[i] # Unused
        PROVE  run'[i] # Unused
    <3>1. run[i] \in RunRow
      BY <2>3, OfFacts
    <3>2. run'[i] = run[i] \/ run'[i] = [run[i] EXCEPT !.status = "gone"]
      BY <1>4 DEF Delete
    <3>3. [run[i] EXCEPT !.status = "gone"].status = "gone"
      BY <3>1 DEF RunRow
    <3> QED
      BY <2>3, <3>2, <3>3 DEF Unused
  <2> QED
    BY <1>4, <2>1, <2>2, <2>3, RegisteredOthers DEF Delete
<1>5. ASSUME NEW r \in Routine, NEW e \in Tab, NEW what \in Change,
             PatchRead(e, r, what)
      PROVE  TypeOK' /\ Registered'
  <2>1. TypeOK'
    BY <1>5, EditTypes DEF PatchRead, TypeOK
  <2> QED
    BY <1>5, <2>1, RegisteredOthers DEF PatchRead
<1>6. ASSUME NEW e \in Tab, PatchWrite(e)
      PROVE  TypeOK' /\ Registered'
  <2>1. TypeOK'
    BY <1>6, EditTypes DEF PatchWrite, TypeOK
  <2>2. \A row \in Row : \/ /\ Patched(row, tab[e]).retry = row.retry
                            /\ Patched(row, tab[e]).retryAt = row.retryAt
                         \/ /\ Patched(row, tab[e]).retry = 0
                            /\ Patched(row, tab[e]).retryAt = "none"
    BY DEF Patched, NoRetry, Row
  <2>3. \A s \in Routine :
          \/ rt'[s].retry = rt[s].retry /\ rt'[s].retryAt = rt[s].retryAt
          \/ rt'[s].retry = 0 /\ rt'[s].retryAt = "none"
    BY <1>6, <2>2 DEF PatchWrite, TypeOK
  <2> QED
    BY <1>6, <2>1, <2>3, RegisteredOthers DEF PatchWrite
<1>7. CASE Tick
  BY <1>7, RegisteredOthers DEF Tick, TypeOK
<1> QED
  BY <1>1, <1>2, <1>3, <1>4, <1>5, <1>6, <1>7, StepCases, RegisteredMinor,
     RegisteredClaim

\* They hold at the start.
LEMMA RegisteredInit ==
    ASSUME Init
    PROVE  TypeOK /\ Registered
<1>1. \A seat \in BOOLEAN : NoRow(seat) \in Row
  BY DEF NoRow, Row, RetryTime
<1>2. PICK seat \in BOOLEAN : rt = [r \in Routine |-> NoRow(seat)]
  BY Zenon DEF Init
<1>3. /\ rt \in [Routine -> Row]
      /\ \A r \in Routine : rt[r].retryAt = "none" /\ rt[r].retry = 0
  BY <1>1, <1>2 DEF NoRow
<1>4. TypeOK
  BY <1>3 DEF Init, TypeOK, NoJob, NoFin, Fin, Stage, Kind
<1> QED
  BY <1>3, <1>4 DEF Init, Registered, NoFin, NoClaim

\* Every table, handler and job stays within its type: in particular the run a
\* retry, a claim or a settling refers to has been registered, whatever is
\* deleted, lost or overtaken.
THEOREM TypeCorrect == Spec => [](TypeOK /\ Registered)
<1>1. Init => TypeOK /\ Registered
  BY RegisteredInit
<1>2. TypeOK /\ Registered /\ [Next]_vars => (TypeOK /\ Registered)'
  BY RegisteredStep
<1> QED
  BY <1>1, <1>2, PTL DEF Spec

-----------------------------------------------------------------------------
(* Settled is settled.                                                     *)

\* No step changes a settled run but to delete it.
LEMMA SettledStep ==
    ASSUME TypeOK, Registered, [Next]_vars, NEW i \in Run,
           run[i].status \in {"ok", "error", "gone"}
    PROVE  run'[i].status \in {run[i].status, "gone"}
<1>1. run[i] # Unused /\ run[i] \in RunRow
  BY OfFacts DEF Unused
<1>2. CASE run'[i] = run[i]
  BY <1>2
<1>3. CASE Minor
  BY <1>1, <1>3 DEF Minor, RunsKept
<1>4. ASSUME NEW c \in Claimer, ClaimStep(c)
      PROVE  Minor \/ run'[i] = run[i]
  <2>1. \A j \in Run, new \in RunRow :
           Registers(c, j, new) => run'[i] = run[i]
    BY <1>1, AddsFacts DEF Registers
  <2>2. CASE Start(c)
    BY <2>1, <2>2, StartCases
  <2>3. CASE Note(c)
    BY <2>1, <2>3, NoteCases
  <2> QED
    BY <1>4, <2>2, <2>3
    DEF ClaimStep, ReadSlot, ReadRetry, TakeSlot, CheckRunning, TakeRetry
<1>5. ASSUME NEW r \in Routine, Manual(r)
      PROVE  run'[i] = run[i]
  BY <1>1, <1>5, ManualAdds, AddsFacts
<1>6. ASSUME NEW r \in Routine, Delete(r)
      PROVE  run'[i].status \in {run[i].status, "gone"}
  <2>1. run'[i] = run[i] \/ run'[i] = [run[i] EXCEPT !.status = "gone"]
    BY <1>6 DEF Delete
  <2> QED
    BY <1>1, <2>1 DEF RunRow
<1> QED
  BY <1>2, <1>3, <1>4, <1>5, <1>6, StepCases
  DEF ArmWrite, Create, PatchRead, PatchWrite, Tick

\* What reports or sweeps a run later cannot revive it or turn its outcome
\* over (finishRoutineRun writes only a running one), with any number of jobs,
\* sweeps and polls.
THEOREM SettledIsSettled == Spec => SettledRunsStay
<1>1. TypeOK /\ Registered /\ [Next]_vars =>
        [\A i \in Run : run[i].status \in {"ok", "error"} =>
           run'[i].status \in {run[i].status, "gone"}]_vars
  BY SettledStep
<1> QED
  BY <1>1, TypeCorrect, PTL DEF Spec, SettledRunsStay

-----------------------------------------------------------------------------
(* A slot is answered once.                                                *)

\* A claim that has taken its slot, and a run that answers one.
Holding(c) ==
    claim[c].at \in {"check", "start", "missed"} /\ claim[c].trigger = "schedule"
ByTimes(i) == run[i] # Unused /\ run[i].trigger = "schedule"

\* A slot that is used has come, and the next time of its routine is after it.
Used(r, s) ==
    2 * s <= clock /\ (There(r) => rt[r].next = 0 \/ s < rt[r].next)

Slots ==
    /\ \A i \in Run : ByTimes(i) => Used(run[i].of, run[i].slot)
    /\ \A c \in Claimer : Holding(c) => Used(claim[c].of, claim[c].key)
    /\ \A c \in Claimer : claim[c].at = "slot" =>
         /\ claim[c].key # 0 /\ 2 * claim[c].key <= clock
         /\ claim[c].next = 0 \/ claim[c].key < claim[c].next
    /\ \A e \in Tab : tab[e] # NoPatch =>
         tab[e].next = 0 \/ clock < 2 * tab[e].next

SlotsApart ==
    /\ \A i \in Run, c \in Claimer :
         ByTimes(i) /\ Holding(c) /\ run[i].of = claim[c].of =>
           run[i].slot # claim[c].key
    /\ \A c, d \in Claimer :
         c # d /\ Holding(c) /\ Holding(d) /\ claim[c].of = claim[d].of =>
           claim[c].key # claim[d].key
    /\ SlotOnce

\* Types of what holds slots and of what is read.
LEMMA HolderTypes ==
    ASSUME TypeOK
    PROVE  /\ \A i \in Run : ByTimes(i) =>
                run[i].of \in Routine /\ run[i].slot \in Nat
           /\ \A c \in Claimer : claim[c].at # "idle" =>
                /\ claim[c] \in Claim /\ claim[c].of \in Routine
                /\ claim[c].key \in Nat /\ claim[c].next \in Nat
           /\ \A c \in Claimer : Holding(c) => claim[c].at # "idle"
           /\ \A r \in Routine : rt[r].next \in Nat
           /\ \A e \in Tab : tab[e] # NoPatch =>
                /\ tab[e] \in Patch /\ tab[e].of \in Routine
                /\ tab[e].next \in Nat
           /\ clock \in Nat
<1>1. \A c \in Claimer : claim[c].at # "idle" =>
         /\ claim[c] \in Claim /\ claim[c].of \in Routine
         /\ claim[c].key \in Nat /\ claim[c].next \in Nat
  BY ClaimFacts DEF Claim
<1>2. \A i \in Run : ByTimes(i) => run[i].of \in Routine /\ run[i].slot \in Nat
  BY OfFacts DEF ByTimes, RunRow
<1> QED
  BY <1>1, <1>2 DEF TypeOK, Row, Patch, Holding

\* Steps that neither take nor use a slot.
LEMMA SlotsSame ==
    ASSUME TypeOK, Slots, SlotsApart, TypeOK', UNCHANGED <<tab, clock>>,
           \A i \in Run : ByTimes(i)' =>
             /\ ByTimes(i)
             /\ run'[i].of = run[i].of /\ run'[i].slot = run[i].slot,
           \A c \in Claimer : Holding(c)' =>
             /\ Holding(c)
             /\ claim'[c].of = claim[c].of /\ claim'[c].key = claim[c].key,
           \A c \in Claimer : claim'[c].at = "slot" => claim'[c] = claim[c],
           \A r \in Routine : There(r)' => There(r) /\ rt'[r].next = rt[r].next
    PROVE  Slots' /\ SlotsApart'
<1>1. \A r \in Routine, s \in Nat : Used(r, s) => Used(r, s)'
  BY DEF Used
<1>2. Slots'
  <2>1. \A i \in Run : ByTimes(i)' => Used(run[i].of, run[i].slot)'
    <3>1. SUFFICES ASSUME NEW i \in Run, ByTimes(i)'
                   PROVE  Used(run[i].of, run[i].slot)'
      OBVIOUS
    <3>2. /\ Used(run[i].of, run[i].slot)
          /\ run'[i].of = run[i].of /\ run'[i].slot = run[i].slot
          /\ run[i].of \in Routine
      BY <3>1, HolderTypes DEF Slots
    <3> QED
      BY <3>2 DEF Used
  <2>2. \A c \in Claimer : Holding(c)' => Used(claim[c].of, claim[c].key)'
    <3>1. SUFFICES ASSUME NEW c \in Claimer, Holding(c)'
                   PROVE  Used(claim[c].of, claim[c].key)'
      OBVIOUS
    <3>2. /\ Used(claim[c].of, claim[c].key)
          /\ claim'[c].of = claim[c].of /\ claim'[c].key = claim[c].key
          /\ claim[c].of \in Routine
      BY <3>1, HolderTypes DEF Slots
    <3> QED
      BY <3>2 DEF Used
  <2> QED
    BY <2>1, <2>2 DEF Slots
<1>3. SlotOnce'
  BY DEF SlotsApart, SlotOnce, ByTimes
<1> QED
  BY <1>2, <1>3 DEF SlotsApart

\* Minor steps take no slot.
LEMMA SlotsMinor ==
    ASSUME TypeOK, Slots, SlotsApart, TypeOK', Minor
    PROVE  Slots' /\ SlotsApart'
<1>1. \A i \in Run : ByTimes(i)' =>
         /\ ByTimes(i)
         /\ run'[i].of = run[i].of /\ run'[i].slot = run[i].slot
  BY DEF Minor, RunsKept, ByTimes
<1>2. \A c \in Claimer : claim'[c].at # "idle" => claim'[c] = claim[c]
  BY DEF Minor, ClaimsKept, NoClaim
<1>3. \A r \in Routine : There(r)' => There(r) /\ rt'[r].next = rt[r].next
  BY DEF Minor, RowsKept, There
<1>4. \A c \in Claimer : Holding(c)' =>
         /\ Holding(c)
         /\ claim'[c].of = claim[c].of /\ claim'[c].key = claim[c].key
  BY <1>2 DEF Holding
<1> QED
  BY <1>1, <1>2, <1>3, <1>4, SlotsSame DEF Minor

\* Taking a slot: the next time was the slot, so no run and no other claim has
\* used it, and moves past it.
LEMMA SlotsTaken ==
    ASSUME TypeOK, Registered, Slots, SlotsApart, TypeOK', NEW c \in Claimer,
           TakeSlot(c), NEW r \in Routine, claim[c].of = r,
           NEW k \in Nat, claim[c].key = k
    PROVE  Slots' /\ SlotsApart'
<1>1. /\ claim[c].at = "slot" /\ claim[c] \in Claim
      /\ claim[c].next \in Nat /\ k # 0 /\ 2 * k <= clock
      /\ claim[c].next = 0 \/ k < claim[c].next
      /\ claim[c].trigger = "schedule" /\ rt[r] \in Row
  BY HolderTypes DEF TakeSlot, At, Slots, Registered, TypeOK
<1>2. CASE UNCHANGED rt /\ GivesUp(c)
  <2>1. Minor
    BY <1>2, Kept, GivesUpKeeps DEF TakeSlot, Minor
  <2> QED
    BY <2>1, SlotsMinor
<1>3. CASE /\ HasSlot(c)
           /\ rt' = [rt EXCEPT ![r] =
                       [NoRetry(rt[r]) EXCEPT !.next = claim[c].next]]
           /\ \/ GivesUp(c)
              \/ \E at \in {"missed", "check"} : Goes(c, at)
  <2>1. UNCHANGED <<run, job, turn, fin, tab, clock>>
    BY DEF TakeSlot
  <2>2. rt[r].next = k /\ There(r)
    BY <1>3 DEF HasSlot
  <2>3. /\ rt'[r].next = claim[c].next
        /\ \A s \in Routine : s # r => rt'[s] = rt[s]
    BY <1>1, <1>3 DEF TypeOK, NoRetry, Row
  <2>4. /\ \A d \in Claimer : d # c => claim'[d] = claim[d]
        /\ claim'[c].at # "slot"
        /\ Holding(c)' => claim'[c].of = r /\ claim'[c].key = k
    <3>1. CASE GivesUp(c)
      BY <3>1 DEF GivesUp, TypeOK, NoClaim, Holding
    <3>2. ASSUME NEW at \in {"missed", "check"}, Goes(c, at)
          PROVE  /\ \A d \in Claimer : d # c => claim'[d] = claim[d]
                 /\ claim'[c].at # "slot"
                 /\ claim'[c].of = r /\ claim'[c].key = k
      <4>1. claim'[c] = [claim[c] EXCEPT !.at = at]
        BY <1>1, <3>2, ClaimGoes
      <4>2. claim'[c].at = at /\ claim'[c].of = r /\ claim'[c].key = k
        BY <1>1, <4>1 DEF Claim
      <4> QED
        BY <1>1, <3>2, <4>2, ClaimGoes
    <3> QED
      BY <1>3, <3>1, <3>2
  <2>5. \A s \in Routine, n \in Nat : Used(s, n) => Used(s, n)' /\ (s = r => n # k)
    <3>1. SUFFICES ASSUME NEW s \in Routine, NEW n \in Nat, Used(s, n)
                   PROVE  Used(s, n)' /\ (s = r => n # k)
      OBVIOUS
    <3>2. CASE s = r
      <4>1. n < k
        BY <1>1, <2>2, <3>1, <3>2 DEF Used
      <4>2. rt'[r].next = 0 \/ n < rt'[r].next
        BY <1>1, <2>3, <4>1
      <4> QED
        BY <2>1, <3>1, <3>2, <4>1, <4>2 DEF Used
    <3>3. CASE s # r
      BY <2>1, <2>3, <3>1, <3>3 DEF Used, There
    <3> QED
      BY <3>2, <3>3
  <2>6. Used(r, k)'
    BY <1>1, <2>1, <2>3 DEF Used
  <2>7. Slots'
    <3>1. \A i \in Run : ByTimes(i)' => Used(run[i].of, run[i].slot)'
      <4>1. SUFFICES ASSUME NEW i \in Run, ByTimes(i)
                     PROVE  Used(run[i].of, run[i].slot)'
        BY <2>1 DEF ByTimes
      <4>2. /\ Used(run[i].of, run[i].slot)
            /\ run[i].of \in Routine /\ run[i].slot \in Nat
        BY <4>1, HolderTypes DEF Slots
      <4> QED
        BY <2>1, <2>5, <4>2 DEF Used
    <3>2. \A d \in Claimer : Holding(d)' => Used(claim[d].of, claim[d].key)'
      <4>1. SUFFICES ASSUME NEW d \in Claimer, Holding(d)'
                     PROVE  Used(claim[d].of, claim[d].key)'
        OBVIOUS
      <4>2. CASE d = c
        BY <2>4, <2>6, <4>1, <4>2 DEF Used
      <4>3. CASE d # c
        <5>1. claim'[d] = claim[d] /\ Holding(d)
          BY <2>4, <4>1, <4>3 DEF Holding
        <5>2. /\ Used(claim[d].of, claim[d].key)
              /\ claim[d].of \in Routine /\ claim[d].key \in Nat
          BY <5>1, HolderTypes DEF Slots
        <5> QED
          BY <2>5, <5>1, <5>2 DEF Used
      <4> QED
        BY <4>2, <4>3
    <3> QED
      BY <2>1, <2>4, <3>1, <3>2 DEF Slots
  <2>8. \A i \in Run : ByTimes(i) /\ run[i].of = r => run[i].slot # k
    BY <2>5, HolderTypes DEF Slots
  <2>9. \A d \in Claimer : Holding(d) /\ claim[d].of = r => claim[d].key # k
    BY <2>5, HolderTypes DEF Slots
  <2>10. ASSUME NEW d \in Claimer, Holding(d)', d # c
         PROVE  Holding(d) /\ claim'[d] = claim[d]
    <3>1. claim'[d] = claim[d]
      BY <2>4, <2>10
    <3> QED
      BY <2>10, <3>1 DEF Holding
  <2>11. SlotsApart'
    BY <2>1, <2>4, <2>8, <2>9, <2>10 DEF SlotsApart, SlotOnce, ByTimes
  <2> QED
    BY <2>7, <2>11
<1> QED
  BY <1>2, <1>3 DEF TakeSlot

\* A run that is registered takes the slot over from its claim.
LEMMA SlotsRegistered ==
    ASSUME TypeOK, Registered, Slots, SlotsApart, TypeOK', NEW c \in Claimer,
           NEW i \in Run, NEW new, Registers(c, i, new),
           UNCHANGED <<rt, tab, clock>>,
           \A d \in Claimer : d # c => claim'[d] = claim[d],
           claim'[c].at \in {"idle", "close", "settle"}
    PROVE  Slots' /\ SlotsApart'
<1>1. /\ run'[i] = new /\ run[i] = Unused /\ new \in RunRow
      /\ \A j \in Run : j # i => run'[j] = run[j]
  BY AddsFacts DEF Registers
<1>2. /\ new.of = claim[c].of /\ new.trigger = claim[c].trigger
      /\ claim[c].trigger = "schedule" => new.slot = claim[c].key
      /\ claim[c].at \in {"start", "missed"}
  BY DEF Registers, SlotOf
<1>3. \A j \in Run : j # i => (ByTimes(j)' <=> ByTimes(j))
  BY <1>1 DEF ByTimes
<1>4. ByTimes(i)' => Holding(c)
  BY <1>1, <1>2 DEF ByTimes, Holding
<1>5. \A d \in Claimer : Holding(d)' => d # c /\ Holding(d) /\ claim'[d] = claim[d]
  <2>1. ~Holding(c)'
    BY DEF Holding
  <2>2. \A d \in Claimer : d # c => (Holding(d)' <=> Holding(d))
    BY DEF Holding
  <2> QED
    BY <2>1, <2>2
<1>6. \A r \in Routine : \A s : Used(r, s)' <=> Used(r, s)
  BY DEF Used, There
<1>7. Slots'
  <2>1. ASSUME NEW j \in Run, ByTimes(j)'
        PROVE  Used(run[j].of, run[j].slot)'
    <3>1. CASE j = i
      <4>1. Holding(c) /\ claim[c].trigger = "schedule"
        BY <1>4, <2>1, <3>1 DEF Holding
      <4>2. Used(new.of, new.slot)
        BY <1>2, <4>1 DEF Slots
      <4> QED
        BY <1>1, <3>1, <4>2 DEF Used, There
    <3>2. CASE j # i
      <4>1. Used(run[j].of, run[j].slot) /\ run'[j] = run[j]
        BY <1>1, <1>3, <2>1, <3>2 DEF Slots
      <4> QED
        BY <4>1 DEF Used, There
    <3> QED
      BY <3>1, <3>2
  <2>2. ASSUME NEW d \in Claimer, Holding(d)'
        PROVE  Used(claim[d].of, claim[d].key)'
    <3>1. Used(claim[d].of, claim[d].key) /\ claim'[d] = claim[d]
      BY <1>5, <2>2 DEF Slots
    <3> QED
      BY <3>1 DEF Used, There
  <2> QED
    BY <2>1, <2>2 DEF Slots
<1>8. ASSUME NEW j \in Run, NEW d \in Claimer, ByTimes(j)', Holding(d)',
             run'[j].of = claim'[d].of
      PROVE  run'[j].slot # claim'[d].key
  <2>1. d # c /\ Holding(d) /\ claim'[d] = claim[d]
    BY <1>5, <1>8
  <2>2. CASE j = i
    <3>1. Holding(c) /\ new.slot = claim[c].key
      BY <1>2, <1>4, <1>8, <2>2 DEF Holding
    <3> QED
      BY <1>1, <1>2, <1>8, <2>1, <2>2, <3>1 DEF SlotsApart
  <2>3. CASE j # i
    BY <1>1, <1>3, <1>8, <2>1, <2>3 DEF SlotsApart
  <2> QED
    BY <2>2, <2>3
<1>9. ASSUME NEW j \in Run, ByTimes(j)', ByTimes(i)', j # i,
             run'[j].of = run'[i].of
      PROVE  run'[j].slot # run'[i].slot
  <2>1. Holding(c) /\ new.slot = claim[c].key
    BY <1>2, <1>4, <1>9 DEF Holding
  <2>2. ByTimes(j) /\ run'[j] = run[j]
    BY <1>1, <1>3, <1>9
  <2> QED
    BY <1>1, <1>2, <1>9, <2>1, <2>2 DEF SlotsApart
<1>10. ASSUME NEW j \in Run, NEW k \in Run, j # k, j # i, k # i,
              ByTimes(j)', ByTimes(k)', run'[j].of = run'[k].of
       PROVE  run'[j].slot # run'[k].slot
  <2>1. /\ ByTimes(j) /\ run'[j] = run[j]
        /\ ByTimes(k) /\ run'[k] = run[k]
    BY <1>1, <1>3, <1>10
  <2> QED
    BY <1>10, <2>1 DEF SlotsApart, SlotOnce, ByTimes
<1>11. SlotOnce'
  BY <1>9, <1>10 DEF SlotOnce, ByTimes
<1>12. ASSUME NEW d \in Claimer, NEW e \in Claimer, d # e, Holding(d)',
              Holding(e)', claim'[d].of = claim'[e].of
       PROVE  claim'[d].key # claim'[e].key
  BY <1>5, <1>12 DEF SlotsApart
<1> QED
  BY <1>7, <1>8, <1>11, <1>12 DEF SlotsApart

\* A slot that is read has come, and the next one computed with it is later.
LEMMA SlotsRead ==
    ASSUME TypeOK, Slots, SlotsApart, TypeOK', NEW c \in Claimer,
           NEW r \in Routine, ReadSlot(c, r)
    PROVE  Slots' /\ SlotsApart'
<1>1. /\ claim'[c].at = "slot" /\ claim'[c].key = rt[r].next
      /\ claim'[c].next = nextRunAtOf(TRUE, rt[r].sched)
      /\ \A d \in Claimer : d # c => claim'[d] = claim[d]
  BY DEF ReadSlot, TypeOK
<1>2. rt[r].next # 0 /\ 2 * rt[r].next <= clock /\ rt[r].next \in Nat
      /\ clock \in Nat
  BY HolderTypes DEF ReadSlot, Due
<1>3. nextRunAtOf(TRUE, rt[r].sched) = 0 \/ rt[r].next < clock \div 2 + 1
  BY <1>2 DEF nextRunAtOf
<1>4. \A d \in Claimer : Holding(d)' => d # c /\ Holding(d) /\ claim'[d] = claim[d]
  <2>1. ~Holding(c)'
    BY <1>1 DEF Holding
  <2>2. \A d \in Claimer : d # c => (Holding(d)' <=> Holding(d))
    BY <1>1 DEF Holding
  <2> QED
    BY <1>1, <2>1, <2>2
<1>5. UNCHANGED <<rt, run, tab, clock>>
  BY DEF ReadSlot
<1>6. nextRunAtOf(TRUE, rt[r].sched) \in {0, clock \div 2 + 1}
  BY DEF nextRunAtOf
<1>7. claim'[c].next = 0 \/ claim'[c].key < claim'[c].next
  BY <1>1, <1>3, <1>6
<1>8. Slots'
  <2>1. ASSUME NEW j \in Run, ByTimes(j)'
        PROVE  Used(run[j].of, run[j].slot)'
    BY <1>5, <2>1 DEF Slots, Used, There, ByTimes
  <2>2. ASSUME NEW d \in Claimer, Holding(d)'
        PROVE  Used(claim[d].of, claim[d].key)'
    BY <1>4, <1>5, <2>2 DEF Slots, Used, There
  <2>3. ASSUME NEW d \in Claimer, claim'[d].at = "slot"
        PROVE  /\ claim'[d].key # 0 /\ 2 * claim'[d].key <= clock'
               /\ claim'[d].next = 0 \/ claim'[d].key < claim'[d].next
    <3>1. CASE d = c
      BY <1>1, <1>2, <1>5, <1>7, <3>1
    <3>2. CASE d # c
      BY <1>1, <1>5, <2>3, <3>2 DEF Slots
    <3> QED
      BY <3>1, <3>2
  <2> QED
    BY <1>5, <2>1, <2>2, <2>3 DEF Slots
<1>9. SlotOnce'
  BY <1>5 DEF SlotsApart, SlotOnce
<1>10. ASSUME NEW d \in Claimer, NEW e \in Claimer, d # e, Holding(d)',
              Holding(e)', claim'[d].of = claim'[e].of
       PROVE  claim'[d].key # claim'[e].key
  BY <1>4, <1>10 DEF SlotsApart
<1>11. ASSUME NEW j \in Run, NEW d \in Claimer, ByTimes(j)', Holding(d)',
             run'[j].of = claim'[d].of
      PROVE  run'[j].slot # claim'[d].key
  BY <1>4, <1>5, <1>11 DEF SlotsApart, ByTimes
<1> QED
  BY <1>8, <1>9, <1>10, <1>11 DEF SlotsApart

\* People and time: a next time that changes lies ahead, and while a PATCH is
\* being written time stands still.
LEMMA SlotsAhead ==
    ASSUME TypeOK, Slots, SlotsApart, TypeOK', UNCHANGED <<run, claim>>,
           clock <= clock',
           \A r \in Routine : There(r)' =>
             \/ There(r) /\ rt'[r].next = rt[r].next
             \/ rt'[r].next = 0
             \/ clock < 2 * rt'[r].next,
           \A e \in Tab : tab'[e] # NoPatch =>
             tab'[e].next = 0 \/ clock' < 2 * tab'[e].next
    PROVE  Slots' /\ SlotsApart'
<1>1. ASSUME NEW r \in Routine, NEW s \in Nat, Used(r, s)
      PROVE  Used(r, s)'
  <2>1. 2 * s <= clock /\ 2 * s <= clock'
    BY <1>1 DEF Used, TypeOK
  <2>2. rt'[r].next \in Nat /\ rt[r].next \in Nat /\ clock \in Nat
    BY DEF TypeOK, Row
  <2>3. There(r)' => rt'[r].next = 0 \/ s < rt'[r].next
    BY <1>1, <2>1, <2>2 DEF Used
  <2> QED
    BY <2>1, <2>3 DEF Used
<1>2. ASSUME NEW j \in Run, ByTimes(j)'
      PROVE  Used(run[j].of, run[j].slot)'
  <2>1. /\ Used(run[j].of, run[j].slot)
        /\ run[j].of \in Routine /\ run[j].slot \in Nat
    BY <1>2, HolderTypes DEF Slots, ByTimes
  <2> QED
    BY <1>1, <2>1 DEF Used, There
<1>3. ASSUME NEW d \in Claimer, Holding(d)'
      PROVE  Used(claim[d].of, claim[d].key)'
  <2>1. Holding(d)
    BY <1>3 DEF Holding
  <2>2. /\ Used(claim[d].of, claim[d].key)
        /\ claim[d].of \in Routine /\ claim[d].key \in Nat
    BY <2>1, HolderTypes DEF Slots
  <2> QED
    BY <1>1, <2>2 DEF Used, There
<1>4. ASSUME NEW d \in Claimer, claim[d].at = "slot"
      PROVE  /\ claim[d].key # 0 /\ 2 * claim[d].key <= clock'
             /\ claim[d].next = 0 \/ claim[d].key < claim[d].next
  BY <1>4, HolderTypes DEF Slots, TypeOK
<1>5. Slots'
  BY <1>2, <1>3, <1>4 DEF Slots
<1>6. SlotsApart'
  BY DEF SlotsApart, SlotOnce, ByTimes, Holding
<1> QED
  BY <1>5, <1>6

\* A next time is computed in the future.
LEMMA NextAhead ==
    ASSUME TypeOK, NEW active \in BOOLEAN, NEW sched \in BOOLEAN
    PROVE  \/ nextRunAtOf(active, sched) = 0
           \/ clock < 2 * nextRunAtOf(active, sched)
<1>1. clock \in Nat
  BY DEF TypeOK
<1>2. clock < 2 * (clock \div 2 + 1)
  BY <1>1
<1> QED
  BY <1>2 DEF nextRunAtOf

\* What people do and time keep used slots behind the next time.
LEMMA SlotsEdited ==
    ASSUME TypeOK, Registered, Slots, SlotsApart, TypeOK', "patch" \notin Slow,
           \/ \E r \in Routine : Create(r) \/ Manual(r) \/ Delete(r)
           \/ \E r \in Routine, e \in Tab, what \in Change : PatchRead(e, r, what)
           \/ \E e \in Tab : PatchWrite(e)
           \/ \E i \in Run : ArmWrite(i)
           \/ Tick
    PROVE  Slots' /\ SlotsApart'
<1>0. clock \in Nat
  BY DEF TypeOK
<1>1. ASSUME NEW r \in Routine, Create(r)
      PROVE  Slots' /\ SlotsApart'
  <2>1. \A s \in Routine : s # r => rt'[s] = rt[s]
    BY <1>1 DEF Create, TypeOK
  <2>2. \E sched \in BOOLEAN : rt'[r].next = nextRunAtOf(TRUE, sched)
    <3>1. \A sched, text \in BOOLEAN :
            [NoRow(rt[r].seat) EXCEPT !.life = "there", !.sched = sched,
                                      !.text = text,
                                      !.next = nextRunAtOf(TRUE, sched)].next
              = nextRunAtOf(TRUE, sched)
      BY DEF NoRow
    <3>2. ("times" \notin Edits) \in BOOLEAN /\ ("text" \notin Edits) \in BOOLEAN
      OBVIOUS
    <3>3. \E sched, text \in BOOLEAN :
            rt' = [rt EXCEPT ![r] =
                   [NoRow(rt[r].seat) EXCEPT
                      !.life = "there", !.sched = sched, !.text = text,
                      !.next = nextRunAtOf(TRUE, sched)]]
      BY <1>1, <3>2, Zenon DEF Create
    <3> QED
      BY <3>1, <3>3 DEF TypeOK
  <2>3. rt'[r].next = 0 \/ clock < 2 * rt'[r].next
    BY <2>2, NextAhead
  <2>4. UNCHANGED <<run, claim, tab, clock>>
    BY <1>1 DEF Create
  <2> QED
    BY <1>0, <2>1, <2>3, <2>4, SlotsAhead DEF There, Slots
<1>2. ASSUME NEW r \in Routine, Manual(r)
      PROVE  Slots' /\ SlotsApart'
  <2>1. PICK i \in Run :
          Adds(i, NewRun(r, "manual", OwnerOf[Home[r]], "none", 0))
    BY <1>2, ManualAdds
  <2>2. run'[i].trigger = "manual" /\ \A j \in Run : j # i => run'[j] = run[j]
    BY <2>1, AddsFacts DEF NewRun
  <2>3. \A j \in Run : ByTimes(j)' => ByTimes(j) /\ run'[j] = run[j]
    BY <2>2 DEF ByTimes
  <2> QED
    BY <1>2, <2>3, SlotsSame DEF Manual, Holding, There
<1>3. ASSUME NEW r \in Routine, Delete(r)
      PROVE  Slots' /\ SlotsApart'
  <2>1. \A s \in Routine : There(s)' => There(s) /\ rt'[s] = rt[s]
    BY <1>3 DEF Delete, There, NoRow, TypeOK
  <2>2. ASSUME NEW j \in Run, ByTimes(j)'
        PROVE  ByTimes(j) /\ run'[j].of = run[j].of /\ run'[j].slot = run[j].slot
    <3>1. run'[j] = run[j] \/ (/\ run[j] # Unused
                               /\ run'[j] = [run[j] EXCEPT !.status = "gone"])
      BY <1>3 DEF Delete, RunsOf
    <3> QED
      BY <2>2, <3>1, OfFacts DEF ByTimes, RunRow
  <2> QED
    BY <1>3, <2>1, <2>2, SlotsSame DEF Delete, Holding
<1>4. ASSUME NEW r \in Routine, NEW e \in Tab, NEW what \in Change,
             PatchRead(e, r, what)
      PROVE  Slots' /\ SlotsApart'
  <2>1. rt[r] \in Row
    BY DEF TypeOK
  <2>2. ActiveBy(what, rt[r]) \in BOOLEAN /\ SchedBy(what, rt[r]) \in BOOLEAN
    BY <2>1 DEF ActiveBy, SchedBy, Row
  <2>3. NextBy(what, rt[r]) = 0 \/ clock < 2 * NextBy(what, rt[r])
    BY <2>2, NextAhead DEF NextBy
  <2>4. /\ tab'[e].next = NextBy(what, rt[r])
        /\ \A f \in Tab : f # e => tab'[f] = tab[f]
    BY <1>4 DEF PatchRead, TypeOK
  <2>5. \A f \in Tab : tab'[f] # NoPatch =>
           tab'[f].next = 0 \/ clock < 2 * tab'[f].next
    BY <2>3, <2>4 DEF Slots
  <2> QED
    BY <1>0, <1>4, <2>5, SlotsAhead DEF PatchRead, There
<1>5. ASSUME NEW e \in Tab, PatchWrite(e)
      PROVE  Slots' /\ SlotsApart'
  <2>1. /\ tab[e] \in Patch
        /\ tab[e].next = 0 \/ clock < 2 * tab[e].next
    BY <1>5, HolderTypes DEF PatchWrite, Slots
  <2>2. \A row \in Row : Patched(row, tab[e]).next = tab[e].next
    BY DEF Patched, NoRetry, Row
  <2>3. \A s \in Routine : \/ rt'[s] = rt[s]
                           \/ rt'[s].next = tab[e].next
    BY <1>5, <2>2 DEF PatchWrite, TypeOK
  <2>4. \A f \in Tab : tab'[f] # NoPatch => tab'[f] = tab[f]
    BY <1>5 DEF PatchWrite, TypeOK
  <2>5. UNCHANGED <<run, claim, clock>>
    BY <1>5 DEF PatchWrite
  <2>6. \A s \in Routine : There(s)' =>
           \/ There(s) /\ rt'[s].next = rt[s].next
           \/ rt'[s].next = 0
           \/ clock < 2 * rt'[s].next
    BY <2>1, <2>3 DEF There
  <2>7. \A f \in Tab : tab'[f] # NoPatch =>
           tab'[f].next = 0 \/ clock' < 2 * tab'[f].next
    BY <2>4, <2>5 DEF Slots
  <2>8. clock <= clock'
    BY <2>5 DEF TypeOK
  <2> QED
    BY <1>0, <2>5, <2>6, <2>7, <2>8, SlotsAhead
<1>6. ASSUME NEW i \in Run, ArmWrite(i)
      PROVE  Slots' /\ SlotsApart'
  <2>1. \A s \in Routine : There(s)' => There(s) /\ rt'[s].next = rt[s].next
    <3>1. \A s \in Routine :
             \/ rt'[s] = rt[s]
             \/ rt'[s] = [rt[s] EXCEPT !.retry = i, !.retryAt = "later",
                                       !.count = fin[i].count]
      BY <1>6 DEF ArmWrite, TypeOK
    <3>2. \A s \in Routine : rt[s] \in Row
      BY DEF TypeOK
    <3> QED
      BY <3>1, <3>2 DEF There, Row
  <2> QED
    BY <1>6, <2>1, SlotsSame DEF ArmWrite, ByTimes, Holding
<1>7. CASE Tick
  <2>1. \A e \in Tab : tab'[e] = NoPatch
    BY <1>7 DEF Tick, TimeMoves, PatchesWritten
  <2>2. UNCHANGED <<rt, run, claim>> /\ clock' = clock + 1
    BY <1>7 DEF Tick
  <2> QED
    BY <1>0, <2>1, <2>2, SlotsAhead DEF There
<1> QED
  BY <1>1, <1>2, <1>3, <1>4, <1>5, <1>6, <1>7

\* Every step of a claim keeps slots apart.
LEMMA SlotsClaimed ==
    ASSUME TypeOK, Registered, Slots, SlotsApart, TypeOK', NEW c \in Claimer,
           ClaimStep(c)
    PROVE  Slots' /\ SlotsApart'
<1>1. ASSUME NEW r \in Routine, ReadRetry(c, r)
      PROVE  Slots' /\ SlotsApart'
  <2>1. /\ claim'[c].at \in {"stale", "recheck"}
        /\ \A d \in Claimer : d # c => claim'[d] = claim[d]
    BY <1>1 DEF ReadRetry, TypeOK
  <2> QED
    BY <1>1, <2>1, SlotsSame DEF ReadRetry, ByTimes, Holding, There
<1>2. CASE CheckRunning(c) \/ TakeRetry(c)
  <2>1. /\ claim[c] \in Claim /\ claim[c].at \in {"check", "recheck", "take"}
        /\ claim[c].at \in {"recheck", "take"} => claim[c].trigger = "retry"
    BY <1>2, ClaimFacts DEF CheckRunning, TakeRetry, At, Registered
  <2>2. /\ \A d \in Claimer : d # c => claim'[d] = claim[d]
        /\ \/ claim'[c].at = "idle"
           \/ /\ claim'[c].at \in {"start", "take"}
              /\ claim'[c].of = claim[c].of /\ claim'[c].key = claim[c].key
              /\ claim'[c].trigger = claim[c].trigger
    <3>1. CASE GivesUp(c)
      BY <3>1 DEF GivesUp, TypeOK, NoClaim
    <3>2. ASSUME NEW at \in {"start", "take"}, Goes(c, at)
          PROVE  /\ \A d \in Claimer : d # c => claim'[d] = claim[d]
                 /\ claim'[c].at \in {"start", "take"}
                 /\ claim'[c].of = claim[c].of /\ claim'[c].key = claim[c].key
                 /\ claim'[c].trigger = claim[c].trigger
      <4>1. /\ claim'[c] = [claim[c] EXCEPT !.at = at]
            /\ \A d \in Claimer : d # c => claim'[d] = claim[d]
        BY <2>1, <3>2, ClaimGoes
      <4> QED
        BY <2>1, <4>1 DEF Claim
    <3> QED
      BY <1>2, <3>1, <3>2 DEF CheckRunning, TakeRetry
  <2>3. ASSUME NEW d \in Claimer, Holding(d)'
        PROVE  /\ Holding(d)
               /\ claim'[d].of = claim[d].of /\ claim'[d].key = claim[d].key
    BY <2>1, <2>2, <2>3 DEF Holding
  <2>4. UNCHANGED <<run, tab, clock>>
    BY <1>2 DEF CheckRunning, TakeRetry
  <2>5. \A s \in Routine : There(s)' => There(s) /\ rt'[s].next = rt[s].next
    <3>1. \A s \in Routine : rt'[s] = rt[s] \/ rt'[s] = Taken(rt[s])
      BY <1>2 DEF CheckRunning, TakeRetry, TypeOK
    <3>2. \A s \in Routine : rt[s] \in Row
      BY DEF TypeOK
    <3> QED
      BY <3>1, <3>2 DEF There, Taken, Row
  <2> QED
    BY <2>2, <2>3, <2>4, <2>5, SlotsSame DEF ByTimes
<1>3. CASE TakeSlot(c)
  <2>1. claim[c].of \in Routine /\ claim[c].key \in Nat
    BY <1>3, HolderTypes DEF TakeSlot, At
  <2> QED
    BY <1>3, <2>1, SlotsTaken
<1>4. CASE Start(c)
  <2>1. CASE claim' = [claim EXCEPT ![c] = NoClaim]
    <3>1. /\ \A d \in Claimer : d # c => claim'[d] = claim[d]
          /\ claim'[c].at = "idle"
      BY <2>1 DEF TypeOK, NoClaim
    <3> QED
      BY <1>4, <3>1, StartCases, SlotsMinor, SlotsRegistered
  <2> QED
    BY <1>4, <2>1 DEF Start, GivesUp
<1>5. CASE Note(c)
  <2>1. ASSUME NEW i \in Run, NEW new \in RunRow, NEW at \in {"close", "settle"},
               Registers(c, i, new), UNCHANGED <<rt, tab, clock>>,
               claim' = [claim EXCEPT ![c].at = at, ![c].run = i]
        PROVE  Slots' /\ SlotsApart'
    <3>1. claim[c] \in Claim
      BY <1>5, ClaimFacts DEF Note, At
    <3>2. /\ \A d \in Claimer : d # c => claim'[d] = claim[d]
          /\ claim'[c].at = at
      BY <2>1, <3>1 DEF TypeOK, Claim
    <3> QED
      BY <2>1, <3>2, SlotsRegistered
  <2> QED
    BY <1>5, <2>1, NoteCases, SlotsMinor
<1> QED
  BY <1>1, <1>2, <1>3, <1>4, <1>5, SlotsRead DEF ClaimStep

\* Claimed once: with any number of machines and polls, and whatever is
\* deleted, lost or run by hand meanwhile, no slot of a routine gets two runs.
\* A PATCH is written before the clock goes on and before a slot is taken;
\* one that is not may set the next time back.
THEOREM OneRunPerSlot ==
    ASSUME "patch" \notin Slow
    PROVE  Spec => []SlotOnce
<1>1. Init => Slots /\ SlotsApart
  BY DEF Init, Slots, SlotsApart, SlotOnce, ByTimes, Holding, NoClaim
<1>2. TypeOK /\ Registered /\ TypeOK' /\ Slots /\ SlotsApart /\ [Next]_vars
        => (Slots /\ SlotsApart)'
  BY StepCases, SlotsMinor, SlotsClaimed, SlotsEdited
<1>3. SlotsApart => SlotOnce
  BY DEF SlotsApart
<1> QED
  BY <1>1, <1>2, <1>3, TypeCorrect, PTL DEF Spec

-----------------------------------------------------------------------------
(* A next time exactly when it is on and has times.                        *)

Fits ==
    /\ \A r \in Routine : There(r) =>
         (rt[r].next # 0 <=> rt[r].active /\ rt[r].sched)
    /\ \A e, f \in Tab : tab[e] # NoPatch /\ tab[f] # NoPatch => e = f
    /\ \A e \in Tab : tab[e] # NoPatch =>
         LET row == rt[tab[e].of] IN
           /\ row.life # "none"
           /\ There(tab[e].of) =>
                (tab[e].next # 0 <=> /\ ActiveBy(tab[e].what, row)
                                     /\ SchedBy(tab[e].what, row))
    /\ \A c \in Claimer : claim[c].at = "slot" =>
         claim[c].key # 0 /\ claim[c].next # 0

\* Steps that leave every schedule alone.
ScheduleKept ==
    \A r \in Routine :
      /\ rt'[r].life = rt[r].life /\ rt'[r].active = rt[r].active
      /\ rt'[r].sched = rt[r].sched /\ rt'[r].next = rt[r].next

\* Only taking a slot and people change schedules.
LEMMA SchedulesKept ==
    ASSUME TypeOK, Registered,
           \/ Minor
           \/ \E c \in Claimer : ClaimStep(c) /\ ~TakeSlot(c)
           \/ \E i \in Run : ArmWrite(i)
           \/ \E r \in Routine : Manual(r)
           \/ Tick
    PROVE  ScheduleKept
<1>1. CASE UNCHANGED rt
  BY <1>1 DEF ScheduleKept
<1>2. CASE Minor
  BY <1>2 DEF Minor, RowsKept, ScheduleKept
<1>3. \A s \in Routine : rt[s] \in Row
  BY DEF TypeOK
<1>4. ASSUME NEW c \in Claimer, TakeRetry(c)
      PROVE  ScheduleKept
  <2>1. \A s \in Routine : rt'[s] = rt[s] \/ rt'[s] = Taken(rt[s])
    BY <1>4 DEF TakeRetry, TypeOK
  <2> QED
    BY <1>3, <2>1 DEF ScheduleKept, Taken, Row
<1>5. ASSUME NEW i \in Run, ArmWrite(i)
      PROVE  ScheduleKept
  <2>1. \A s \in Routine :
           \/ rt'[s] = rt[s]
           \/ rt'[s] = [rt[s] EXCEPT !.retry = i, !.retryAt = "later",
                                     !.count = fin[i].count]
    BY <1>5 DEF ArmWrite, TypeOK
  <2> QED
    BY <1>3, <2>1 DEF ScheduleKept, Row
<1>6. ASSUME NEW c \in Claimer, ClaimStep(c), ~TakeSlot(c), ~TakeRetry(c)
      PROVE  UNCHANGED rt
  BY <1>6 DEF ClaimStep, ReadSlot, ReadRetry, CheckRunning, Start, Note
<1> QED
  BY <1>1, <1>2, <1>4, <1>5, <1>6 DEF Manual, Tick

\* Claims begin only by reading.
LEMMA SlotsOnlyRead ==
    ASSUME TypeOK, Registered,
           \/ Minor
           \/ \E c \in Claimer :
                ClaimStep(c) /\ \A r \in Routine : ~ReadSlot(c, r)
           \/ UNCHANGED claim
    PROVE  \A d \in Claimer : claim'[d].at = "slot" => claim'[d] = claim[d]
<1>1. CASE Minor
  BY <1>1 DEF Minor, ClaimsKept, NoClaim
<1>2. ASSUME NEW c \in Claimer, NEW r \in Routine, ReadRetry(c, r)
      PROVE  \A d \in Claimer : claim'[d].at = "slot" => claim'[d] = claim[d]
  BY <1>2 DEF ReadRetry, TypeOK
<1>3. ASSUME NEW c \in Claimer, GivesUp(c)
      PROVE  \A d \in Claimer : claim'[d].at = "slot" => claim'[d] = claim[d]
  BY <1>3 DEF GivesUp, TypeOK, NoClaim
<1>4. ASSUME NEW c \in Claimer, claim[c].at # "idle",
             NEW at \in {"check", "missed", "start", "take"}, Goes(c, at)
      PROVE  \A d \in Claimer : claim'[d].at = "slot" => claim'[d] = claim[d]
  <2>1. claim[c] \in Claim
    BY <1>4, ClaimFacts
  <2>2. claim'[c].at = at
    BY <1>4, <2>1, ClaimGoes DEF Claim
  <2> QED
    BY <1>4, <2>2, ClaimGoes
<1>5. ASSUME NEW c \in Claimer, Note(c)
      PROVE  \A d \in Claimer : claim'[d].at = "slot" => claim'[d] = claim[d]
  <2>1. claim[c] \in Claim
    BY <1>5, ClaimFacts DEF Note, At
  <2>2. ASSUME NEW i \in Run, NEW at \in {"close", "settle"},
               claim' = [claim EXCEPT ![c].at = at, ![c].run = i]
        PROVE  \A d \in Claimer : claim'[d].at = "slot" => claim'[d] = claim[d]
    <3>1. claim'[c].at = at /\ \A d \in Claimer : d # c => claim'[d] = claim[d]
      BY <2>1, <2>2 DEF TypeOK, Claim
    <3> QED
      BY <3>1
  <2> QED
    BY <1>1, <1>5, <2>2, NoteCases
<1> QED
  BY <1>1, <1>2, <1>3, <1>4, <1>5
  DEF ClaimStep, TakeSlot, CheckRunning, TakeRetry, Start, At

\* Where schedules and what is pending stay, rows fit.
LEMMA FitsSame ==
    ASSUME TypeOK, Fits, ScheduleKept, UNCHANGED tab,
           \A d \in Claimer : claim'[d].at = "slot" => claim'[d] = claim[d]
    PROVE  Fits'
<1>1. \A e \in Tab : tab[e] # NoPatch => tab[e].of \in Routine
  BY HolderTypes
<1>2. \A r \in Routine, what \in Change :
         /\ ActiveBy(what, rt[r])' = ActiveBy(what, rt[r])
         /\ SchedBy(what, rt[r])' = SchedBy(what, rt[r])
  BY DEF ActiveBy, SchedBy, ScheduleKept
<1>3. \A e \in Tab : tab[e] # NoPatch => tab[e].what \in Change
  BY HolderTypes DEF Patch
<1>4. \A r \in Routine : There(r)' <=> There(r)
  BY DEF There, ScheduleKept
<1>5. ASSUME NEW e \in Tab, tab[e] # NoPatch
      PROVE  /\ rt'[tab[e].of].life # "none"
             /\ There(tab[e].of)' =>
                  (tab[e].next # 0 <=> /\ ActiveBy(tab[e].what, rt'[tab[e].of])
                                       /\ SchedBy(tab[e].what, rt'[tab[e].of]))
  <2>1. /\ rt[tab[e].of].life # "none"
        /\ There(tab[e].of) =>
             (tab[e].next # 0 <=> /\ ActiveBy(tab[e].what, rt[tab[e].of])
                                  /\ SchedBy(tab[e].what, rt[tab[e].of]))
    BY <1>5 DEF Fits
  <2> QED
    BY <1>1, <1>2, <1>3, <1>5, <2>1 DEF ScheduleKept, There
<1> QED
  BY <1>4, <1>5 DEF Fits, ScheduleKept, There

\* No PATCH is pending when a slot is taken: its routine is on and has times,
\* and the next time read with it is one.
LEMMA FitsTaken ==
    ASSUME TypeOK, Registered, Fits, "patch" \notin Slow, NEW c \in Claimer,
           TakeSlot(c)
    PROVE  Fits'
<1>1. /\ \A e \in Tab : tab[e] = NoPatch
      /\ UNCHANGED tab
  BY DEF TakeSlot, PatchesWritten
<1>2. \A d \in Claimer : claim'[d].at = "slot" => claim'[d] = claim[d]
  <2>1. ClaimStep(c) /\ \A r \in Routine : ~ReadSlot(c, r)
    <3>1. claim[c] # NoClaim
      BY DEF TakeSlot, At, NoClaim
    <3> QED
      BY <3>1, Zenon DEF ClaimStep, ReadSlot
  <2> QED
    BY <2>1, SlotsOnlyRead
<1>3. \A r \in Routine : There(r)' =>
         (rt'[r].next # 0 <=> rt'[r].active /\ rt'[r].sched)
  <2>1. CASE UNCHANGED rt
    BY <2>1 DEF Fits, There
  <2>2. CASE /\ HasSlot(c)
             /\ rt' = [rt EXCEPT ![claim[c].of] =
                         [NoRetry(rt[claim[c].of]) EXCEPT !.next = claim[c].next]]
    <3>1. claim[c].at = "slot" /\ claim[c].of \in Routine
      BY HolderTypes DEF TakeSlot, At
    <3>2. claim[c].key # 0 /\ claim[c].next # 0
      BY <3>1 DEF Fits
    <3>3. rt[claim[c].of].next # 0 /\ There(claim[c].of)
      BY <2>2, <3>2 DEF HasSlot
    <3>4. rt[claim[c].of] \in Row
      BY <3>1 DEF TypeOK
    <3>5. /\ rt'[claim[c].of].next = claim[c].next
          /\ rt'[claim[c].of].active = rt[claim[c].of].active
          /\ rt'[claim[c].of].sched = rt[claim[c].of].sched
          /\ \A s \in Routine : s # claim[c].of => rt'[s] = rt[s]
      BY <2>2, <3>1, <3>4 DEF TypeOK, NoRetry, Row
    <3> QED
      BY <3>1, <3>2, <3>3, <3>5 DEF Fits, There
  <2> QED
    BY <2>1, <2>2 DEF TakeSlot
<1> QED
  BY <1>1, <1>2, <1>3 DEF Fits

\* A slot is due only for a routine that has times.
LEMMA FitsRead ==
    ASSUME TypeOK, Fits, NEW c \in Claimer, NEW r \in Routine, ReadSlot(c, r)
    PROVE  Fits'
<1>1. /\ There(r) /\ rt[r].next # 0 /\ clock \in Nat
      /\ UNCHANGED <<rt, tab>>
  BY DEF ReadSlot, Offered, Due, TypeOK
<1>2. rt[r].sched
  BY <1>1 DEF Fits
<1>3. nextRunAtOf(TRUE, rt[r].sched) # 0
  BY <1>1, <1>2 DEF nextRunAtOf
<1>4. /\ claim'[c].key # 0 /\ claim'[c].next # 0
      /\ \A d \in Claimer : d # c => claim'[d] = claim[d]
  BY <1>1, <1>3 DEF ReadSlot, TypeOK
<1>5. \A d \in Claimer : claim'[d].at = "slot" =>
         claim'[d].key # 0 /\ claim'[d].next # 0
  BY <1>4 DEF Fits
<1> QED
  BY <1>1, <1>5 DEF Fits, There

\* A next time is computed exactly for what is on and has times.
LEMMA NextFits ==
    ASSUME TypeOK, NEW active \in BOOLEAN, NEW sched \in BOOLEAN
    PROVE  nextRunAtOf(active, sched) # 0 <=> active /\ sched
<1>1. clock \div 2 + 1 # 0
  BY DEF TypeOK
<1> QED
  BY <1>1 DEF nextRunAtOf

\* People change the switch and the times together with the next time.
LEMMA FitsEdited ==
    ASSUME TypeOK, Fits, "patch" \notin Slow,
           \/ \E r \in Routine : Create(r) \/ Delete(r)
           \/ \E r \in Routine, e \in Tab, what \in Change : PatchRead(e, r, what)
           \/ \E e \in Tab : PatchWrite(e)
    PROVE  Fits'
<1>0. \A r \in Routine : rt[r] \in Row
  BY DEF TypeOK
<1>1. ASSUME NEW r \in Routine, Create(r)
      PROVE  Fits'
  <2>1. \A s \in Routine : s # r => rt'[s] = rt[s]
    BY <1>1 DEF Create, TypeOK
  <2>2. \E sched \in BOOLEAN : /\ rt'[r].next = nextRunAtOf(TRUE, sched)
                               /\ rt'[r].active = TRUE /\ rt'[r].sched = sched
    <3>1. \A sched, text \in BOOLEAN :
            LET new == [NoRow(rt[r].seat) EXCEPT
                          !.life = "there", !.sched = sched, !.text = text,
                          !.next = nextRunAtOf(TRUE, sched)]
            IN /\ new.next = nextRunAtOf(TRUE, sched)
               /\ new.active = TRUE /\ new.sched = sched
      BY DEF NoRow
    <3>2. ("times" \notin Edits) \in BOOLEAN /\ ("text" \notin Edits) \in BOOLEAN
      OBVIOUS
    <3>3. \E sched, text \in BOOLEAN :
            rt' = [rt EXCEPT ![r] =
                   [NoRow(rt[r].seat) EXCEPT
                      !.life = "there", !.sched = sched, !.text = text,
                      !.next = nextRunAtOf(TRUE, sched)]]
      BY <1>1, <3>2, Zenon DEF Create
    <3> QED
      BY <3>1, <3>3, ZenonT(30) DEF TypeOK
  <2>3. rt'[r].next # 0 <=> rt'[r].active /\ rt'[r].sched
    BY <2>2, NextFits
  <2>4. \A e \in Tab : tab[e] # NoPatch => tab[e].of # r /\ tab[e].of \in Routine
    BY <1>1, HolderTypes DEF Create, Fits
  <2>5. UNCHANGED <<tab, claim>>
    BY <1>1 DEF Create
  <2>6. \A s \in Routine : There(s)' =>
          (rt'[s].next # 0 <=> rt'[s].active /\ rt'[s].sched)
    BY <2>1, <2>3 DEF Fits, There
  <2>7. \A e \in Tab : tab[e] # NoPatch => rt'[tab[e].of] = rt[tab[e].of]
    BY <2>1, <2>4
  <2> QED
    BY <2>5, <2>6, <2>7 DEF Fits, There
<1>2. ASSUME NEW r \in Routine, Delete(r)
      PROVE  Fits'
  <2>1. /\ \A s \in Routine : s # r => rt'[s] = rt[s]
        /\ rt'[r].life = "deleted"
        /\ UNCHANGED <<tab, claim>>
    BY <1>2 DEF Delete, TypeOK, NoRow
  <2>2. \A e \in Tab : tab[e] # NoPatch =>
          /\ rt'[tab[e].of].life # "none"
          /\ rt'[tab[e].of].life = "there" => rt'[tab[e].of] = rt[tab[e].of]
    BY <2>1, HolderTypes DEF Fits
  <2> QED
    BY <2>1, <2>2 DEF Fits, There
<1>3. ASSUME NEW r \in Routine, NEW e \in Tab, NEW what \in Change,
             PatchRead(e, r, what)
      PROVE  Fits'
  <2>1. /\ \A f \in Tab : tab[f] = NoPatch
        /\ There(r) /\ UNCHANGED <<rt, claim>>
    BY <1>3 DEF PatchRead, PatchesWritten
  <2>2. /\ \A f \in Tab : f # e => tab'[f] = NoPatch
        /\ tab'[e].of = r /\ tab'[e].what = what
        /\ tab'[e].next = NextBy(what, rt[r])
    BY <1>3, <2>1 DEF PatchRead, TypeOK
  <2>3. ActiveBy(what, rt[r]) \in BOOLEAN /\ SchedBy(what, rt[r]) \in BOOLEAN
    BY <1>0 DEF ActiveBy, SchedBy, Row
  <2>4. NextBy(what, rt[r]) # 0 <=> ActiveBy(what, rt[r]) /\ SchedBy(what, rt[r])
    BY <2>3, NextFits DEF NextBy
  <2> QED
    BY <2>1, <2>2, <2>4 DEF Fits, There
<1>4. ASSUME NEW e \in Tab, PatchWrite(e)
      PROVE  Fits'
  <2> DEFINE r == tab[e].of
  <2>1. /\ r \in Routine /\ tab[e] # NoPatch
        /\ \A f \in Tab : f # e => tab[f] = NoPatch
    BY <1>4, HolderTypes DEF PatchWrite, Fits
  <2>2. \A f \in Tab : tab'[f] = NoPatch
    BY <1>4, <2>1 DEF PatchWrite, TypeOK
  <2>3. UNCHANGED claim /\ \A s \in Routine : s # r => rt'[s] = rt[s]
    BY <1>4 DEF PatchWrite, TypeOK
  <2>4. CASE ~There(r)
    BY <1>4, <2>2, <2>3, <2>4 DEF PatchWrite, Fits, There
  <2>5. CASE There(r)
    <3>1. rt'[r] = Patched(rt[r], tab[e])
      BY <1>4, <2>1, <2>5 DEF PatchWrite, TypeOK
    <3>2. /\ Patched(rt[r], tab[e]).next = tab[e].next
          /\ Patched(rt[r], tab[e]).active = ActiveBy(tab[e].what, rt[r])
          /\ Patched(rt[r], tab[e]).sched = SchedBy(tab[e].what, rt[r])
      BY <1>0, <2>1 DEF Patched, NoRetry, Row
    <3>3. tab[e].next # 0 <=> /\ ActiveBy(tab[e].what, rt[r])
                              /\ SchedBy(tab[e].what, rt[r])
      BY <2>1, <2>5 DEF Fits
    <3>4. \A s \in Routine : There(s)' =>
            (rt'[s].next # 0 <=> rt'[s].active /\ rt'[s].sched)
      BY <2>3, <3>1, <3>2, <3>3 DEF Fits, There
    <3> QED
      BY <2>2, <2>3, <3>4 DEF Fits
  <2> QED
    BY <2>4, <2>5
<1> QED
  BY <1>1, <1>2, <1>3, <1>4

\* Every step keeps the rows fitting.
LEMMA FitsStep ==
    ASSUME TypeOK, Registered, Fits, "patch" \notin Slow, [Next]_vars
    PROVE  Fits'
<1>1. CASE Minor
  BY <1>1, SchedulesKept, SlotsOnlyRead, FitsSame DEF Minor
<1>2. ASSUME NEW c \in Claimer, ClaimStep(c)
      PROVE  Fits'
  <2>1. CASE \A r \in Routine : ~ReadSlot(c, r)
    <3>1. CASE TakeSlot(c)
      BY <3>1, FitsTaken
    <3>2. CASE ~TakeSlot(c)
      <4>1. UNCHANGED tab
        BY <1>2 DEF ClaimStep, ReadSlot, ReadRetry, TakeSlot, CheckRunning,
                    TakeRetry, Start, Note
      <4> QED
        BY <1>2, <2>1, <3>2, <4>1, SchedulesKept, SlotsOnlyRead, FitsSame
    <3> QED
      BY <3>1, <3>2
  <2> QED
    BY <2>1, FitsRead
<1>3. ASSUME NEW i \in Run, ArmWrite(i)
      PROVE  Fits'
  BY <1>3, SchedulesKept, SlotsOnlyRead, FitsSame DEF ArmWrite
<1>4. ASSUME NEW r \in Routine, Manual(r)
      PROVE  Fits'
  BY <1>4, SchedulesKept, SlotsOnlyRead, FitsSame DEF Manual
<1>5. CASE Tick
  BY <1>5, SchedulesKept, SlotsOnlyRead, FitsSame DEF Tick
<1> QED
  BY <1>1, <1>2, <1>3, <1>4, <1>5, StepCases, FitsEdited

\* However claims, ends of runs, retries and PATCHes interleave, a routine has
\* a next time exactly when it is on and has times, as long as one PATCH is
\* written before the next one reads and before a slot is taken.
THEOREM NextTimeFits ==
    ASSUME "patch" \notin Slow
    PROVE  Spec => []NextIffScheduled
<1>1. Init => Fits
  <2>1. SUFFICES ASSUME Init PROVE Fits
    OBVIOUS
  <2>2. PICK seat \in BOOLEAN : rt = [r \in Routine |-> NoRow(seat)]
    BY <2>1, Zenon DEF Init
  <2>3. \A r \in Routine : ~There(r)
    BY <2>2 DEF There, NoRow
  <2> QED
    BY <2>1, <2>3 DEF Init, Fits, NoClaim
<1>2. TypeOK /\ Registered /\ Fits /\ [Next]_vars => Fits'
  BY FitsStep
<1>3. Fits => NextIffScheduled
  BY DEF Fits, NextIffScheduled
<1> QED
  BY <1>1, <1>2, <1>3, TypeCorrect, PTL DEF Spec

-----------------------------------------------------------------------------
(* Off means off.                                                          *)

\* The retry of a run is armed once, when the run is settled.
Armed(i) == run[i].status # "running" /\ fin[i].at = "idle"

RetriesOff ==
    /\ \A i \in Run : fin[i].at # "idle" => run[i].status # "running"
    /\ \A r \in Routine : rt[r].retry # 0 => Armed(rt[r].retry)
    /\ \A c \in Claimer : claim[c].at \in {"recheck", "take"} =>
         /\ Armed(claim[c].key)
         /\ There(claim[c].of) /\ rt[claim[c].of].retry = claim[c].key =>
              rt[claim[c].of].active
    /\ \A e \in Tab : tab[e] # NoPatch /\ tab[e].what = "off" => tab[e].clear


\* Minor steps arm no retry.
LEMMA OffMinor ==
    ASSUME TypeOK, Registered, RetriesOff, Minor
    PROVE  RetriesOff'
<1>1. ASSUME NEW i \in Run, run[i] # Unused, Armed(i)
      PROVE  run'[i].status # "running" /\ fin'[i].at = "idle"
  BY <1>1 DEF Armed, Minor, RunsKept, FinsKept
<1>2. \A i \in Run : fin'[i].at # "idle" => run'[i].status # "running"
  BY DEF Minor, RunsKept, FinsKept, RetriesOff, Registered
<1>3. ASSUME NEW r \in Routine, rt'[r].retry # 0
      PROVE  run'[rt'[r].retry].status # "running" /\ fin'[rt'[r].retry].at = "idle"
  <2>1. /\ rt'[r].retry = rt[r].retry /\ rt[r].retry \in Run
        /\ run[rt[r].retry] # Unused /\ Armed(rt[r].retry)
    BY <1>3 DEF Minor, RowsKept, Registered, RetriesOff, TypeOK, Row
  <2> QED
    BY <1>1, <2>1
<1>4. ASSUME NEW c \in Claimer, claim'[c].at \in {"recheck", "take"}
      PROVE  /\ run'[claim'[c].key].status # "running"
             /\ fin'[claim'[c].key].at = "idle"
             /\ There(claim[c].of)' /\ rt'[claim[c].of].retry = claim[c].key =>
                  rt'[claim[c].of].active
             /\ claim'[c] = claim[c]
  <2>1. claim'[c] = claim[c]
    BY <1>4 DEF Minor, ClaimsKept, NoClaim
  <2>2. /\ claim[c].key \in Run /\ run[claim[c].key] # Unused
        /\ Armed(claim[c].key) /\ claim[c].of \in Routine
    BY <1>4, <2>1, ClaimFacts DEF Registered, RetriesOff
  <2>3. There(claim[c].of)' /\ rt'[claim[c].of].retry = claim[c].key =>
          rt'[claim[c].of].active
    <3>1. claim[c].key # 0
      BY <2>2 DEF Run
    <3>2. rt'[claim[c].of].retry = claim[c].key =>
            rt[claim[c].of].retry = claim[c].key
      BY <2>2, <3>1 DEF Minor, RowsKept
    <3>3. rt'[claim[c].of].active = rt[claim[c].of].active
          /\ rt'[claim[c].of].life = rt[claim[c].of].life
      BY <2>2 DEF Minor, RowsKept
    <3> QED
      BY <1>4, <2>1, <3>2, <3>3 DEF There, RetriesOff, Minor, ClaimsKept
  <2> QED
    BY <1>1, <2>1, <2>2, <2>3
<1>5. UNCHANGED tab
  BY DEF Minor
<1> QED
  BY <1>2, <1>3, <1>4, <1>5 DEF RetriesOff, Armed, There

\* Steps that arm no retry and read none.
LEMMA OffSame ==
    ASSUME TypeOK, Registered, RetriesOff, TypeOK',
           \A i \in Run : run[i] # Unused /\ run'[i].status = "running" =>
             run[i].status = "running",
           UNCHANGED fin,
           \A r \in Routine : rt'[r].retry # 0 =>
             /\ rt'[r].retry = rt[r].retry
             /\ There(r)' => There(r) /\ (rt[r].active => rt'[r].active),
           \A d \in Claimer : claim'[d].at \in {"recheck", "take"} =>
             /\ claim[d].at \in {"recheck", "take"}
             /\ claim'[d].key = claim[d].key /\ claim'[d].of = claim[d].of,
           \A e \in Tab : tab'[e] # NoPatch /\ tab'[e].what = "off" =>
             tab'[e].clear
    PROVE  RetriesOff'
<1>1. ASSUME NEW i \in Run, run[i] # Unused, Armed(i)
      PROVE  run'[i].status # "running" /\ fin'[i].at = "idle"
  BY <1>1 DEF Armed
<1>2. \A i \in Run : fin'[i].at # "idle" => run'[i].status # "running"
  BY DEF RetriesOff, Registered
<1>3. ASSUME NEW r \in Routine, rt'[r].retry # 0
      PROVE  run'[rt'[r].retry].status # "running" /\ fin'[rt'[r].retry].at = "idle"
  <2>1. /\ rt'[r].retry = rt[r].retry /\ rt[r].retry \in Run
        /\ run[rt[r].retry] # Unused /\ Armed(rt[r].retry)
    BY <1>3 DEF Registered, RetriesOff, TypeOK, Row
  <2> QED
    BY <1>1, <2>1
<1>4. ASSUME NEW c \in Claimer, claim'[c].at \in {"recheck", "take"}
      PROVE  /\ run'[claim'[c].key].status # "running"
             /\ fin'[claim'[c].key].at = "idle"
             /\ There(claim[c].of)' /\ rt'[claim'[c].of].retry = claim'[c].key =>
                  rt'[claim'[c].of].active
  <2>1. /\ claim[c].at \in {"recheck", "take"}
        /\ claim'[c].key = claim[c].key /\ claim'[c].of = claim[c].of
    BY <1>4
  <2>2. /\ claim[c].key \in Run /\ run[claim[c].key] # Unused
        /\ Armed(claim[c].key) /\ claim[c].of \in Routine
        /\ There(claim[c].of) /\ rt[claim[c].of].retry = claim[c].key =>
             rt[claim[c].of].active
    BY <2>1, ClaimFacts DEF Registered, RetriesOff
  <2>3. claim[c].key # 0
    BY <2>2 DEF Run
  <2>4. There(claim[c].of)' /\ rt'[claim'[c].of].retry = claim'[c].key =>
          rt'[claim'[c].of].active
    BY <2>1, <2>2, <2>3 DEF There
  <2> QED
    BY <1>1, <2>1, <2>2, <2>4
<1> QED
  BY <1>2, <1>3, <1>4 DEF RetriesOff, Armed, There

\* A retry is read of a routine that is on, and of a run that is settled.
LEMMA OffRead ==
    ASSUME TypeOK, Registered, RetriesOff, NEW c \in Claimer,
           NEW r \in Routine, ReadRetry(c, r)
    PROVE  RetriesOff'
<1>1. /\ rt[r].retry # 0 /\ rt[r].active /\ UNCHANGED <<rt, run, fin, tab>>
  BY DEF ReadRetry, Offered, Registered
<1>2. Armed(rt[r].retry)
  BY <1>1 DEF RetriesOff
<1>3. /\ claim'[c].key = rt[r].retry /\ claim'[c].of = r
      /\ \A d \in Claimer : d # c => claim'[d] = claim[d]
  BY DEF ReadRetry, TypeOK
<1>4. ASSUME NEW d \in Claimer, claim'[d].at \in {"recheck", "take"}
      PROVE  /\ Armed(claim'[d].key)
             /\ There(claim'[d].of) /\ rt[claim'[d].of].retry = claim'[d].key =>
                  rt[claim'[d].of].active
  <2>1. CASE d = c
    BY <1>1, <1>2, <1>3, <2>1
  <2>2. CASE d # c
    BY <1>3, <1>4, <2>2 DEF RetriesOff
  <2> QED
    BY <2>1, <2>2
<1> QED
  BY <1>1, <1>4 DEF RetriesOff, Armed, There

\* A retry is armed only by a settling that has not ended, so under a run that
\* no claim has read.
LEMMA OffArmed ==
    ASSUME TypeOK, Registered, RetriesOff, NEW i \in Run, ArmWrite(i)
    PROVE  RetriesOff'
<1>1. /\ fin[i].at = "write" /\ run[i].status # "running" /\ run[i] # Unused
      /\ run[i].of \in Routine
      /\ UNCHANGED <<run, claim, tab>>
  BY OfFacts DEF ArmWrite, RetriesOff, Registered
<1>2. /\ fin'[i].at = "idle"
      /\ \A j \in Run : j # i => fin'[j] = fin[j]
  BY DEF ArmWrite, TypeOK, NoFin
<1>3. \A j \in Run : Armed(j) => Armed(j)' /\ j # i
  BY <1>1, <1>2 DEF Armed
<1>4. \A s \in Routine :
         \/ rt'[s] = rt[s]
         \/ rt'[s] = [rt[s] EXCEPT !.retry = i, !.retryAt = "later",
                                   !.count = fin[i].count]
  BY DEF ArmWrite, TypeOK
<1>5. \A s \in Routine :
         /\ rt'[s].life = rt[s].life /\ rt'[s].active = rt[s].active
         /\ rt'[s].retry \in {rt[s].retry, i}
         /\ rt[s].retry \in Run \cup {0}
  <2>1. \A s \in Routine : rt[s] \in Row
    BY DEF TypeOK
  <2> QED
    BY <1>4, <2>1 DEF Row
<1>6. ASSUME NEW s \in Routine, rt'[s].retry # 0
      PROVE  /\ run'[rt'[s].retry].status # "running"
             /\ fin'[rt'[s].retry].at = "idle"
  <2>1. CASE rt'[s].retry = i
    BY <1>1, <1>2, <2>1 DEF Armed
  <2>2. CASE rt'[s].retry = rt[s].retry
    <3>1. Armed(rt[s].retry) /\ rt[s].retry \in Run
      BY <1>5, <1>6, <2>2 DEF RetriesOff
    <3> QED
      BY <1>3, <2>2, <3>1 DEF Armed
  <2> QED
    BY <1>5, <2>1, <2>2
<1>7. ASSUME NEW c \in Claimer, claim[c].at \in {"recheck", "take"}
      PROVE  /\ Armed(claim[c].key)'
             /\ There(claim[c].of)' /\ rt'[claim[c].of].retry = claim[c].key =>
                  rt'[claim[c].of].active
  <2>1. /\ claim[c].key \in Run /\ claim[c].of \in Routine
        /\ Armed(claim[c].key)
        /\ There(claim[c].of) /\ rt[claim[c].of].retry = claim[c].key =>
             rt[claim[c].of].active
    BY <1>7, ClaimFacts DEF Registered, RetriesOff
  <2>2. claim[c].key # i /\ Armed(claim[c].key)'
    BY <1>1, <1>3, <2>1 DEF Armed
  <2> QED
    BY <1>1, <1>5, <2>1, <2>2 DEF There
<1>8. \A j \in Run : fin'[j].at # "idle" => run'[j].status # "running"
  BY <1>1, <1>2 DEF RetriesOff
<1> QED
  BY <1>1, <1>6, <1>7, <1>8 DEF RetriesOff, Armed, There

\* What a claim goes on with.
LEMMA ClaimAfter ==
    ASSUME TypeOK, Registered, NEW c \in Claimer, ClaimStep(c)
    PROVE  /\ \A d \in Claimer : d # c => claim'[d] = claim[d]
           /\ \/ claim'[c].at = "idle"
              \/ \E r \in Routine : ReadSlot(c, r) \/ ReadRetry(c, r)
              \/ /\ claim'[c].at = "take" /\ claim[c].at = "recheck"
                 /\ claim'[c].of = claim[c].of /\ claim'[c].key = claim[c].key
              \/ claim'[c].at = "start" /\ claim[c].at = "check"
              \/ /\ claim'[c].at = "start" /\ claim[c].at = "take"
                 /\ TakeRetry(c) /\ HasRetry(c)
              \/ /\ claim'[c].at \in {"check", "missed"}
                 /\ claim[c].at = "slot" /\ HasSlot(c)
              \/ claim'[c].at \in {"close", "settle"}
              \/ claim'[c] = claim[c]
<1>1. CASE GivesUp(c)
  BY <1>1 DEF GivesUp, TypeOK, NoClaim
<1>2. ASSUME NEW at \in {"check", "missed", "start", "take"}, Goes(c, at),
             claim[c].at # "idle"
      PROVE  /\ \A d \in Claimer : d # c => claim'[d] = claim[d]
             /\ claim'[c].at = at
             /\ claim'[c].of = claim[c].of /\ claim'[c].key = claim[c].key
  <2>1. claim[c] \in Claim /\ claim'[c] = [claim[c] EXCEPT !.at = at]
    BY <1>2, ClaimFacts, ClaimGoes
  <2>2. /\ claim'[c].at = at
        /\ claim'[c].of = claim[c].of /\ claim'[c].key = claim[c].key
    BY <2>1 DEF Claim
  <2> QED
    BY <1>2, <2>2, ClaimGoes
<1>3. CASE \E r \in Routine : ReadSlot(c, r) \/ ReadRetry(c, r)
  BY <1>3, ReadTypes
<1>4. CASE TakeSlot(c)
  BY <1>1, <1>2, <1>4 DEF TakeSlot, At
<1>5. CASE CheckRunning(c)
  BY <1>1, <1>2, <1>5 DEF CheckRunning, At
<1>6. CASE TakeRetry(c)
  BY <1>1, <1>2, <1>6 DEF TakeRetry, At
<1>7. CASE Start(c)
  BY <1>1, <1>7 DEF Start
<1>8. CASE Note(c)
  <2>1. claim[c] \in Claim
    BY <1>8, ClaimFacts DEF Note, At
  <2>2. ASSUME NEW i \in Run, NEW at \in {"close", "settle"},
               claim' = [claim EXCEPT ![c].at = at, ![c].run = i]
        PROVE  /\ claim'[c].at = at
               /\ \A d \in Claimer : d # c => claim'[d] = claim[d]
    BY <2>1, <2>2 DEF TypeOK, Claim
  <2>3. CASE \E i \in Run, at \in {"close", "settle"} :
               claim' = [claim EXCEPT ![c].at = at, ![c].run = i]
    BY <2>2, <2>3
  <2>4. \/ GivesUp(c)
        \/ \E i \in Run, at \in {"close", "settle"} :
             claim' = [claim EXCEPT ![c].at = at, ![c].run = i]
    BY <1>8 DEF Note
  <2> QED
    BY <1>1, <2>3, <2>4
<1> QED
  BY <1>3, <1>4, <1>5, <1>6, <1>7, <1>8 DEF ClaimStep

\* Steps of a claim switch nothing on.
LEMMA OffClaimed ==
    ASSUME TypeOK, Registered, RetriesOff, TypeOK', NEW c \in Claimer,
           ClaimStep(c)
    PROVE  RetriesOff'
<1>1. CASE Minor
  BY <1>1, OffMinor
<1>2. CASE \E r \in Routine : ReadRetry(c, r)
  BY <1>2, OffRead
<1>3. CASE ~Minor /\ \A r \in Routine : ~ReadRetry(c, r)
  <2>1. UNCHANGED <<fin, tab>>
    BY DEF ClaimStep, ReadSlot, ReadRetry, TakeSlot, CheckRunning, TakeRetry,
           Start, Note
  <2>2. \A i \in Run : run[i] # Unused => run'[i] = run[i]
    <3>1. CASE Start(c) \/ Note(c)
      BY <1>3, <3>1, StartCases, NoteCases, AddsFacts DEF Registers
    <3>2. CASE ~Start(c) /\ ~Note(c)
      BY <3>2 DEF ClaimStep, ReadSlot, ReadRetry, TakeSlot, CheckRunning,
                  TakeRetry
    <3> QED
      BY <3>1, <3>2
  <2>3. \A r \in Routine : rt'[r].retry # 0 => rt'[r] = rt[r]
    <3>1. CASE TakeSlot(c) \/ TakeRetry(c)
      <4>1. claim[c].of \in Routine
        BY <3>1, ClaimFacts DEF TakeSlot, TakeRetry, At
      <4> DEFINE slotTaken == [NoRetry(rt[claim[c].of]) EXCEPT
                                 !.next = claim[c].next]
      <4>2. slotTaken.retry = 0 /\ Taken(rt[claim[c].of]).retry = 0
        BY <4>1 DEF TypeOK, NoRetry, Taken, Row
      <4>3. \/ rt' = rt
            \/ rt' = [rt EXCEPT ![claim[c].of] = slotTaken]
            \/ rt' = [rt EXCEPT ![claim[c].of] = Taken(rt[claim[c].of])]
        BY <3>1 DEF TakeSlot, TakeRetry
      <4> HIDE DEF slotTaken
      <4> QED
        BY <4>1, <4>2, <4>3 DEF TypeOK
    <3>2. CASE ~TakeSlot(c) /\ ~TakeRetry(c)
      BY <3>2 DEF ClaimStep, ReadSlot, ReadRetry, CheckRunning, Start, Note
    <3> QED
      BY <3>1, <3>2
  <2>4. \A r \in Routine : ReadSlot(c, r) => claim'[c].at = "slot"
    BY DEF ReadSlot, TypeOK
  <2>5. \A d \in Claimer : claim'[d].at \in {"recheck", "take"} =>
          /\ claim[d].at \in {"recheck", "take"}
          /\ claim'[d].key = claim[d].key /\ claim'[d].of = claim[d].of
    BY <1>3, <2>4, ClaimAfter
  <2> QED
    BY <2>1, <2>2, <2>3, <2>5, OffSame DEF RetriesOff, There
<1> QED
  BY <1>1, <1>2, <1>3

\* Switching off clears the retry; other changes leave the switch.
LEMMA OffEdited ==
    ASSUME TypeOK, Registered, RetriesOff, TypeOK',
           \/ \E r \in Routine : Create(r) \/ Manual(r) \/ Delete(r)
           \/ \E r \in Routine, e \in Tab, what \in Change : PatchRead(e, r, what)
           \/ \E e \in Tab : PatchWrite(e)
           \/ Tick
    PROVE  RetriesOff'
<1>0. \A r \in Routine : rt[r] \in Row
  BY DEF TypeOK
<1>1. ASSUME NEW r \in Routine, Create(r)
      PROVE  RetriesOff'
  <2>1. \A s \in Routine : rt'[s].retry # 0 => rt'[s] = rt[s]
    BY <1>1, ZenonT(30) DEF Create, NoRow, TypeOK
  <2> QED
    BY <1>1, <2>1, OffSame DEF Create, RetriesOff, There
<1>2. ASSUME NEW r \in Routine, Manual(r)
      PROVE  RetriesOff'
  <2>1. \A i \in Run : run[i] # Unused => run'[i] = run[i]
    BY <1>2, ManualAdds, AddsFacts
  <2> QED
    BY <1>2, <2>1, OffSame DEF Manual, RetriesOff, There
<1>3. ASSUME NEW r \in Routine, Delete(r)
      PROVE  RetriesOff'
  <2>1. \A s \in Routine : rt'[s].retry # 0 => rt'[s] = rt[s]
    BY <1>3 DEF Delete, NoRow, TypeOK
  <2>2. ASSUME NEW i \in Run, run[i] # Unused, run'[i].status = "running"
        PROVE  run[i].status = "running"
    <3>1. run'[i] = run[i] \/ run'[i] = [run[i] EXCEPT !.status = "gone"]
      BY <1>3 DEF Delete
    <3> QED
      BY <2>2, <3>1, OfFacts DEF RunRow
  <2> QED
    BY <1>3, <2>1, <2>2, OffSame DEF Delete, RetriesOff, There
<1>4. ASSUME NEW r \in Routine, NEW e \in Tab, NEW what \in Change,
             PatchRead(e, r, what)
      PROVE  RetriesOff'
  <2>1. /\ tab'[e].what = what /\ tab'[e].clear = Clears(what, rt[r])
        /\ \A f \in Tab : f # e => tab'[f] = tab[f]
        /\ UNCHANGED <<rt, run, fin, claim>>
    BY <1>4 DEF PatchRead, TypeOK
  <2>2. Clears("off", rt[r])
    BY DEF Clears, NextBy, ActiveBy, nextRunAtOf, Switch
  <2>3. \A f \in Tab : tab'[f] # NoPatch /\ tab'[f].what = "off" => tab'[f].clear
    BY <2>1, <2>2 DEF RetriesOff
  <2> QED
    BY <2>1, <2>3, OffSame DEF There
<1>5. ASSUME NEW e \in Tab, PatchWrite(e)
      PROVE  RetriesOff'
  <2>1. /\ tab[e] \in Patch /\ tab[e] # NoPatch
        /\ tab[e].what = "off" => tab[e].clear
    BY <1>5, HolderTypes DEF PatchWrite, RetriesOff
  <2>2. ASSUME NEW row \in Row, Patched(row, tab[e]).retry # 0
        PROVE  /\ Patched(row, tab[e]).retry = row.retry
               /\ Patched(row, tab[e]).life = row.life
               /\ row.active => Patched(row, tab[e]).active
    <3>1. ~tab[e].clear
      BY <2>2 DEF Patched, NoRetry, Row
    <3>2. tab[e].what # "off"
      BY <2>1, <3>1
    <3>3. row.active => ActiveBy(tab[e].what, row)
      BY <2>1, <3>2 DEF ActiveBy, Switch, Patch, Change
    <3>4. /\ Patched(row, tab[e]).retry = row.retry
          /\ Patched(row, tab[e]).life = row.life
          /\ Patched(row, tab[e]).active = ActiveBy(tab[e].what, row)
      BY <3>1 DEF Patched, Row
    <3> QED
      BY <3>3, <3>4
  <2>3. \A s \in Routine : rt'[s] = rt[s] \/ rt'[s] = Patched(rt[s], tab[e])
    BY <1>5 DEF PatchWrite, TypeOK
  <2>4. \A s \in Routine : rt'[s].retry # 0 =>
          /\ rt'[s].retry = rt[s].retry
          /\ There(s)' => There(s) /\ (rt[s].active => rt'[s].active)
    BY <1>0, <2>2, <2>3 DEF There
  <2>5. \A f \in Tab : tab'[f] # NoPatch => tab'[f] = tab[f]
    BY <1>5 DEF PatchWrite, TypeOK
  <2>6. UNCHANGED <<run, fin, claim>>
    BY <1>5 DEF PatchWrite
  <2> QED
    BY <2>4, <2>5, <2>6, OffSame DEF RetriesOff
<1>6. CASE Tick
  BY <1>6, OffSame DEF Tick, RetriesOff, There
<1> QED
  BY <1>1, <1>2, <1>3, <1>4, <1>5, <1>6

\* Both claims that lead to a run find their routine on.
LEMMA OffClaims ==
    ASSUME TypeOK, Registered, Fits, RetriesOff, [Next]_vars,
           NEW c \in Claimer, ClaimsOf(c)
    PROVE  rt[claim[c].of].active
<1>1. /\ claim[c].at \in {"slot", "take"}
      /\ claim'[c].at # claim[c].at /\ claim'[c].at # "idle"
      /\ claim[c].at = "slot" => claim'[c].at \in {"check", "missed"}
      /\ claim[c].at = "take" => claim'[c].at = "start"
  BY DEF ClaimsOf, At
<1>2. claim[c] # NoClaim /\ claim'[c] # claim[c] /\ claim'[c] # NoClaim
  BY <1>1 DEF NoClaim
<1>3. ~Minor /\ ~UNCHANGED claim
  BY <1>2 DEF Minor, ClaimsKept
<1>4. PICK d \in Claimer : ClaimStep(d)
  BY <1>3, StepCases
  DEF ArmWrite, Create, Manual, Delete, PatchRead, PatchWrite, Tick
<1>5. d = c
  BY <1>2, <1>4, ClaimAfter
<1>6. \A r \in Routine : ~ReadSlot(c, r) /\ ~ReadRetry(c, r)
  BY <1>2 DEF ReadSlot, ReadRetry
<1>7. \/ claim[c].at = "slot" /\ HasSlot(c)
      \/ claim[c].at = "take" /\ HasRetry(c)
  BY <1>1, <1>4, <1>5, <1>6, ClaimAfter
<1>8. claim[c].of \in Routine
  BY <1>1, ClaimFacts
<1>9. CASE claim[c].at = "slot" /\ HasSlot(c)
  BY <1>8, <1>9 DEF Fits, HasSlot
<1>10. CASE claim[c].at = "take" /\ HasRetry(c)
  BY <1>8, <1>10 DEF RetriesOff, HasRetry
<1> QED
  BY <1>7, <1>9, <1>10

\* Off means off: a claim that has read a routine as due, for a slot or for a
\* retry, does not get through once the routine has been switched off, not even
\* when the end of an earlier run arms a retry meanwhile or the routine is
\* switched on and off again.
THEOREM OffIsOff ==
    ASSUME "patch" \notin Slow
    PROVE  Spec => OffMeansOff
<1>1. Init => Fits /\ RetriesOff
  <2>1. SUFFICES ASSUME Init PROVE Fits /\ RetriesOff
    OBVIOUS
  <2>2. PICK seat \in BOOLEAN : rt = [r \in Routine |-> NoRow(seat)]
    BY <2>1, Zenon DEF Init
  <2>3. \A r \in Routine : ~There(r) /\ rt[r].retry = 0
    BY <2>2 DEF There, NoRow
  <2> QED
    BY <2>1, <2>3 DEF Init, Fits, RetriesOff, NoClaim, NoFin
<1>2. TypeOK /\ Registered /\ TypeOK' /\ Fits /\ RetriesOff /\ [Next]_vars
        => (Fits /\ RetriesOff)'
  BY FitsStep, StepCases, OffMinor, OffClaimed, OffArmed, OffEdited
<1>3. TypeOK /\ Registered /\ Fits /\ RetriesOff /\ [Next]_vars
        => [\A c \in Claimer : ClaimsOf(c) => rt[claim[c].of].active]_vars
  BY OffClaims
<1> QED
  BY <1>1, <1>2, <1>3, TypeCorrect, PTL DEF Spec, OffMeansOff
=============================================================================
