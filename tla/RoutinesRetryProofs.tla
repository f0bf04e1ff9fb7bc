------------------------- MODULE RoutinesRetryProofs -------------------------
(***************************************************************************)
(* The work of a slot is done once (WorkIsDoneOnce), though it may be      *)
(* tried several times.  The proof rests on where a retry hangs (Chained): *)
(* it is owed by one settled run, in one place at a time.  The theorem     *)
(* names what it needs of faults and of handlers that are overtaken.       *)
(***************************************************************************)
EXTENDS RoutinesProofs, FiniteSetTheorems

-----------------------------------------------------------------------------
(* What a slot is still owed.                                              *)

\* The runs of slots; a run by hand belongs to none.
Works(i) == run[i] # Unused /\ run[i].trigger # "manual"

Mates(i, j) ==
    /\ Works(i) /\ Works(j)
    /\ run[i].of = run[j].of /\ run[i].slot = run[j].slot

\* A poll has taken a retry, or a slot, and has not registered the run yet.
Starting(c) == claim[c].at = "start" /\ claim[c].trigger = "retry"

\* A retry of run i is being armed, is armed, or has been taken.
Owes(i) ==
    \/ fin[i].at \in {"arm", "write"}
    \/ rt[run[i].of].retry = i
    \/ \E c \in Claimer : Starting(c) /\ claim[c].key = i

\* A retry hangs on one run of a slot, which has been settled and written off,
\* and it is in one place; the runs of a slot go back to the one of its claim.
Chained ==
    /\ \A i \in Run : fin[i].at # "idle" => Works(i) /\ ~Running(i)
    /\ \A r \in Routine : rt[r].retry # 0 =>
         /\ Works(rt[r].retry) /\ Armed(rt[r].retry)
         /\ run[rt[r].retry].of = r
    /\ \A c \in Claimer :
         claim[c].at \in {"recheck", "take"} \/ Starting(c) =>
           /\ Works(claim[c].key) /\ Armed(claim[c].key)
           /\ run[claim[c].key].of = claim[c].of
    /\ \A c \in Claimer : Starting(c) => rt[claim[c].of].retry # claim[c].key
    /\ \A c, d \in Claimer :
         c # d /\ Starting(c) /\ Starting(d) => claim[c].key # claim[d].key

Rooted ==
    \A i \in Run : Works(i) => \E j \in Run : ByTimes(j) /\ Mates(i, j)

-----------------------------------------------------------------------------
(* Steps.                                                                  *)

SameRun(i) ==
    /\ run'[i] = Unused <=> run[i] = Unused
    /\ run[i] # Unused =>
         /\ run'[i].of = run[i].of /\ run'[i].trigger = run[i].trigger
         /\ run'[i].slot = run[i].slot

SameRow(r) ==
    /\ rt'[r].life = rt[r].life /\ rt'[r].active = rt[r].active
    /\ rt'[r].next = rt[r].next /\ rt'[r].retry = rt[r].retry
    /\ rt'[r].retryAt = rt[r].retryAt /\ rt'[r].count = rt[r].count
    /\ rt'[r].text = rt[r].text \/ "text" \in Edits

\* A claim goes on as it was, or is given up.
ClaimsHold == \A c \in Claimer : claim'[c] \in {claim[c], NoClaim}

\* Jobs, turns, leases and seats; nothing that retries depend on.
Quiet ==
    /\ \A i \in Run : SameRun(i) /\ run'[i].status = run[i].status
    /\ \A r \in Routine : SameRow(r)
    /\ ClaimsHold
    /\ UNCHANGED <<fin, tab, clock>>

\* A run leaves the running state; what becomes of its retries is begun.
Settles(i) ==
    /\ Running(i) /\ run'[i].status \in {"ok", "error"}
    /\ \A j \in Run : SameRun(j) /\ (j # i => run'[j].status = run[j].status)
    /\ \/ UNCHANGED fin
       \/ /\ run[i].trigger # "manual" /\ fin'[i].at \in {"clear", "arm"}
          /\ \A j \in Run \ {i} : fin'[j] = fin[j]
    /\ ClaimsHold
    /\ UNCHANGED <<rt, tab, clock>>

LEMMA Unchanged ==
    ASSUME TypeOK
    PROVE  /\ UNCHANGED run =>
                \A i \in Run : SameRun(i) /\ run'[i].status = run[i].status
           /\ UNCHANGED rt => \A r \in Routine : SameRow(r)
           /\ UNCHANGED claim => ClaimsHold
  BY DEF SameRun, SameRow, ClaimsHold

LEMMA RunQuiet ==
    ASSUME TypeOK, NEW i \in Run, Running(i),
           \/ \E l \in {"live", "expired"} :
                run' = [run EXCEPT ![i].lease = l]
           \/ run' = [run EXCEPT ![i].old = TRUE]
    PROVE  \A j \in Run : SameRun(j) /\ run'[j].status = run[j].status
<1>1. run[i] \in RunRow /\ run[i] # Unused /\ run[i].status = "running"
  BY RunFacts DEF Running, Unused
<1>2. \A j \in Run : j # i => run'[j] = run[j]
  BY DEF TypeOK
<1>3. run'[i].status = run[i].status /\ run'[i].of = run[i].of
      /\ run'[i].trigger = run[i].trigger /\ run'[i].slot = run[i].slot
  <2>1. CASE run' = [run EXCEPT ![i].old = TRUE]
    BY <1>1, <2>1 DEF TypeOK, RunRow
  <2>2. ASSUME NEW l \in {"live", "expired"},
               run' = [run EXCEPT ![i].lease = l]
        PROVE  /\ run'[i].status = run[i].status /\ run'[i].of = run[i].of
               /\ run'[i].trigger = run[i].trigger
               /\ run'[i].slot = run[i].slot
    BY <1>1, <2>2 DEF TypeOK, RunRow
  <2> QED
    BY <2>1, <2>2
<1>4. run'[i] # Unused
  BY <1>1, <1>3 DEF Unused
<1> QED
  BY <1>1, <1>2, <1>3, <1>4 DEF SameRun

LEMMA FinishedSettles ==
    ASSUME TypeOK, NEW i \in Run, Running(i), NEW s \in {"ok", "error"},
           run' = Finished(i, s)
    PROVE  /\ run'[i].status \in {"ok", "error"}
           /\ \A j \in Run :
                SameRun(j) /\ (j # i => run'[j].status = run[j].status)
<1>1. run[i] \in RunRow /\ run[i] # Unused
  BY RunFacts DEF Running, Unused
<1>2. run' = [run EXCEPT ![i].status = s]
  BY DEF Finished
<1>3. \A j \in Run : j # i => run'[j] = run[j]
  BY <1>2 DEF TypeOK
<1>4. /\ run'[i].status = s
      /\ run'[i].of = run[i].of /\ run'[i].trigger = run[i].trigger
      /\ run'[i].slot = run[i].slot
  BY <1>1, <1>2 DEF TypeOK, RunRow
<1>5. run'[i] # Unused
  BY <1>4 DEF Unused
<1> QED
  BY <1>1, <1>3, <1>4, <1>5 DEF SameRun

\* settleRun settles a running run, and leaves every other as it is.
LEMMA SettleCases ==
    ASSUME TypeOK, NEW i \in Run, NEW s \in {"ok", "error"}, NEW b \in BOOLEAN,
           Settle(i, s, b), ClaimsHold, UNCHANGED <<rt, tab, clock>>
    PROVE  \/ Quiet /\ UNCHANGED <<run, fin>>
           \/ /\ Settles(i)
              /\ fin'[i].at = "arm" /\ fin[i].at # "arm" => b
<1>1. CASE ~Running(i)
  BY <1>1, Unchanged DEF Settle, Finished, Quiet
<1>2. CASE Running(i)
  <2>1. /\ run'[i].status \in {"ok", "error"}
        /\ \A j \in Run :
             SameRun(j) /\ (j # i => run'[j].status = run[j].status)
    BY <1>2, FinishedSettles DEF Settle
  <2>2. CASE run[i].trigger = "manual"
    <3>1. UNCHANGED fin
      BY <1>2, <2>2 DEF Settle
    <3> QED
      BY <1>2, <2>1, <3>1 DEF Settles
  <2>3. CASE run[i].trigger # "manual"
    <3>1. fin' = [fin EXCEPT ![i].at =
                    IF s = "ok" \/ ~b THEN "clear" ELSE "arm"]
      BY <1>2, <2>3 DEF Settle
    <3>2. fin[i] \in Fin
      BY DEF TypeOK
    <3>3. /\ fin'[i].at = (IF s = "ok" \/ ~b THEN "clear" ELSE "arm")
          /\ \A j \in Run \ {i} : fin'[j] = fin[j]
      BY <3>1, <3>2 DEF TypeOK, Fin
    <3> QED
      BY <1>2, <2>1, <2>3, <3>3 DEF Settles
  <2> QED
    BY <2>2, <2>3
<1> QED
  BY <1>1, <1>2

\* The steps of a job and of its turn.
LEMMA WorkingCases ==
    ASSUME TypeOK, NEW i \in Run, Working(i)
    PROVE  Quiet \/ Settles(i)
<1>1. CASE UNCHANGED <<run, fin>> /\ UNCHANGED <<rt, claim, tab, clock>>
  BY <1>1, Unchanged DEF Quiet
<1>2. CASE /\ Running(i) /\ run' = [run EXCEPT ![i].lease = "live"]
           /\ UNCHANGED <<fin, rt, claim, tab, clock>>
  BY <1>2, RunQuiet, Unchanged DEF Quiet
<1>3. CASE \E s \in {"ok", "error"}, b \in BOOLEAN :
             Settle(i, s, b) /\ UNCHANGED <<rt, claim, tab, clock>>
  BY <1>3, SettleCases, Unchanged
<1>4. CASE Started(i)
  BY <1>1, <1>2, <1>3, <1>4 DEF Started
<1>5. CASE Renew(i)
  BY <1>1, <1>2, <1>5 DEF Renew
<1>6. CASE Post(i) \/ Breaks(i) \/ TimesOut(i) \/ JobDies(i)
  BY <1>1, <1>6 DEF Post, Breaks, TimesOut, JobDies
<1>7. CASE \E kind \in {"completed", "error", "aborted"} : TurnEnds(i, kind)
  BY <1>1, <1>7 DEF TurnEnds
<1>8. CASE Finish(i)
  <2>1. Retryable(job[i].kind) \in BOOLEAN
    BY DEF Retryable
  <2> QED
    BY <1>1, <1>3, <1>8, <2>1 DEF Finish
<1> QED
  BY <1>4, <1>5, <1>6, <1>7, <1>8 DEF Working

\* Leases, pickups and sweeps, and the writes of settling one by one.
LEMMA SettlingCases ==
    ASSUME TypeOK, NEW i \in Run, Settling(i)
    PROVE  \/ Quiet \/ Settles(i)
           \/ ClearRetry(i) \/ ArmRead(i) \/ ArmWrite(i) \/ SettleDies(i)
<1>1. CASE LeaseExpires(i) \/ WaitsTooLong(i)
  BY <1>1, RunQuiet, Unchanged DEF LeaseExpires, WaitsTooLong, Quiet
<1>2. CASE SweepLease(i)
  BY <1>2, SettleCases, Unchanged DEF SweepLease
<1>3. CASE SweepUnclaimed(i)
  BY <1>3, FinishedSettles, Unchanged DEF SweepUnclaimed, Settles
<1>4. ASSUME NEW p \in Proc, PickUp(p, i)
      PROVE  Quiet \/ Settles(i)
  <2>1. CASE run' = [run EXCEPT ![i].lease = "live"] /\ UNCHANGED fin
    BY <1>4, <2>1, RunQuiet, Unchanged DEF PickUp, Quiet
  <2>2. CASE Settle(i, "error", FALSE)
    BY <1>4, <2>2, SettleCases, Unchanged DEF PickUp
  <2> QED
    BY <1>4, <2>1, <2>2 DEF PickUp
<1> QED
  BY <1>1, <1>2, <1>3, <1>4 DEF Settling

LEMMA ClosingCases ==
    ASSUME TypeOK, NEW c \in Claimer, ClaimDies(c) \/ Close(c)
    PROVE  Quiet \/ \E i \in Run : Settles(i)
<1>1. ClaimsHold
  BY DEF ClaimDies, Close, GivesUp, ClaimsHold, TypeOK
<1>2. CASE UNCHANGED <<run, fin, rt, tab, clock>>
  BY <1>1, <1>2, Unchanged DEF Quiet
<1>3. CASE Close(c)
  <2>1. claim[c] \in Claim
    BY <1>3, ClaimFacts DEF Close, At
  <2> DEFINE i == claim[c].run
  <2>2. CASE i \notin Run
    <3>1. \A v : [run EXCEPT ![i] = v] = run /\ [fin EXCEPT ![i] = v] = fin
      BY <2>2 DEF TypeOK
    <3>2. run' = run /\ fin' = fin
      BY <1>3, <3>1 DEF Close, Settle, Finished
    <3> QED
      BY <1>2, <1>3, <3>2 DEF Close
  <2>3. CASE i \in Run /\ run' = Finished(i, "error") /\ UNCHANGED fin
    <3>1. CASE Running(i)
      BY <1>1, <1>3, <2>3, <3>1, FinishedSettles DEF Close, Settles
    <3>2. CASE ~Running(i)
      BY <1>2, <1>3, <2>3, <3>2 DEF Close, Finished
    <3> QED
      BY <3>1, <3>2
  <2>4. CASE i \in Run /\ Settle(i, "error", FALSE)
    BY <1>1, <1>3, <2>4, SettleCases DEF Close
  <2> QED
    BY <1>3, <2>2, <2>3, <2>4 DEF Close
<1> QED
  BY <1>2, <1>3 DEF ClaimDies


\* Every step: it is quiet, settles a run, writes what settling decided, is
\* one of a claim, or is made by people or by time.
LEMMA RetryCases ==
    ASSUME TypeOK, [Next]_vars
    PROVE  \/ Quiet
           \/ \E i \in Run :
                \/ Settles(i) \/ ClearRetry(i) \/ ArmRead(i) \/ ArmWrite(i)
                \/ SettleDies(i)
           \/ \E c \in Claimer : ClaimStep(c) \/ ClearStale(c)
           \/ \E r \in Routine :
                Create(r) \/ Manual(r) \/ Delete(r) \/ RetryComes(r)
           \/ \E r \in Routine, e \in Tab, what \in Change :
                PatchRead(e, r, what)
           \/ \E e \in Tab : PatchWrite(e)
           \/ Tick
<1>1. CASE UNCHANGED vars
  BY <1>1, Unchanged DEF vars, Quiet
<1>2. ASSUME NEW r \in Routine, EditText(r) \/ Redeploy(r)
      PROVE  Quiet
  <2>1. rt[r] \in Row
    BY DEF TypeOK
  <2>2. \A q \in Routine : SameRow(q)
    <3>1. CASE EditText(r)
      BY <2>1, <3>1 DEF EditText, SameRow, TypeOK, Row
    <3>2. CASE Redeploy(r)
      BY <2>1, <3>2 DEF Redeploy, SameRow, TypeOK, Row
    <3> QED
      BY <1>2, <3>1, <3>2
  <2>3. UNCHANGED <<run, fin, claim, tab, clock>>
    BY <1>2 DEF EditText, Redeploy
  <2> QED
    BY <2>2, <2>3, Unchanged DEF Quiet
<1>3. CASE \E c \in Claimer : Claiming(c) \/ ClaimDies(c)
  BY <1>3, ClosingCases DEF Claiming, ClaimStep
<1>4. CASE \E i \in Run : Working(i) \/ Settling(i)
  BY <1>4, WorkingCases, SettlingCases
<1>5. CASE \E r \in Routine : Editing(r) \/ RetryComes(r) \/ Redeploy(r)
  BY <1>2, <1>5 DEF Editing
<1> QED
  BY <1>1, <1>3, <1>4, <1>5 DEF Next

-----------------------------------------------------------------------------
(* Where a retry hangs.                                                    *)

RunsStay ==
    \A i \in Run : run[i] # Unused =>
      /\ run'[i] # Unused
      /\ run'[i].of = run[i].of /\ run'[i].trigger = run[i].trigger
      /\ run'[i].slot = run[i].slot
      /\ run'[i].status = "running" => run[i].status = "running"

FinsStay ==
    \A i \in Run : fin'[i].at # "idle" =>
      \/ fin[i].at # "idle"
      \/ Works(i) /\ Running(i) /\ run'[i].status # "running"

RowsStay == \A r \in Routine : rt'[r].retry \in {0, rt[r].retry}

Before(c) == claim[c].at \in {"recheck", "take"} \/ Starting(c)

ClaimsStay ==
    \A c \in Claimer : Before(c)' =>
      /\ Before(c) /\ (Starting(c)' => Starting(c))
      /\ claim'[c].of = claim[c].of /\ claim'[c].key = claim[c].key

\* No retry is armed, read or taken.
Calm == RunsStay /\ FinsStay /\ RowsStay /\ ClaimsStay

LEMMA StartingFacts ==
    ASSUME TypeOK, Registered, NEW c \in Claimer
    PROVE  /\ Before(c) => /\ claim[c] \in Claim /\ claim[c].of \in Routine
                           /\ claim[c].trigger = "retry"
                           /\ claim[c].key \in Run
           /\ Starting(c) => Before(c)
  BY ClaimFacts DEF Before, Starting, Registered

LEMMA ChainedCalm ==
    ASSUME TypeOK, Registered, Chained, Calm
    PROVE  Chained'
<1> USE DEF Calm
<1>1. \A i \in Run : Works(i) => Works(i)' /\ run'[i].of = run[i].of
  BY DEF RunsStay, Works
<1>2. \A i \in Run : Works(i) /\ Armed(i) => Armed(i)'
  BY DEF RunsStay, FinsStay, Works, Armed, Running
<1>3. \A i \in Run : fin'[i].at # "idle" => Works(i)' /\ ~Running(i)'
  BY <1>1 DEF RunsStay, FinsStay, Chained, Running, Works
<1>4. ASSUME NEW r \in Routine, rt'[r].retry # 0
      PROVE  /\ Works(rt[r].retry)' /\ Armed(rt[r].retry)'
             /\ run'[rt'[r].retry].of = r
  <2>1. rt'[r].retry = rt[r].retry /\ rt[r].retry \in Run
    BY <1>4 DEF RowsStay, TypeOK, Row
  <2>2. Works(rt[r].retry) /\ Armed(rt[r].retry) /\ run[rt[r].retry].of = r
    BY <1>4, <2>1 DEF Chained
  <2> DEFINE i == rt[r].retry
  <2>3. i \in Run /\ Works(i) /\ Armed(i) /\ rt'[r].retry = i
    BY <2>1, <2>2
  <2>4. run'[i] # Unused /\ run'[i].trigger # "manual" /\ run'[i].of = r
        /\ run'[i].status # "running" /\ fin'[i].at = "idle"
    BY <1>1, <1>2, <2>2, <2>3 DEF Works, Armed
  <2> QED
    BY <2>3, <2>4 DEF Works, Armed
<1>5. ASSUME NEW c \in Claimer, Before(c)'
      PROVE  /\ Works(claim[c].key)' /\ Armed(claim[c].key)'
             /\ run'[claim'[c].key].of = claim'[c].of
  <2>1. /\ Before(c) /\ claim[c].key \in Run
        /\ claim'[c].of = claim[c].of /\ claim'[c].key = claim[c].key
    BY <1>5, StartingFacts DEF ClaimsStay
  <2>2. /\ Works(claim[c].key) /\ Armed(claim[c].key)
        /\ run[claim[c].key].of = claim[c].of
    BY <2>1 DEF Chained, Before
  <2> DEFINE i == claim[c].key
  <2>3. i \in Run /\ Works(i) /\ Armed(i) /\ claim'[c].key = i
    BY <2>1, <2>2
  <2>4. run'[i] # Unused /\ run'[i].trigger # "manual"
        /\ run'[i].of = claim'[c].of
        /\ run'[i].status # "running" /\ fin'[i].at = "idle"
    BY <1>1, <1>2, <2>1, <2>2, <2>3 DEF Works, Armed
  <2> QED
    BY <2>3, <2>4 DEF Works, Armed
<1>6. ASSUME NEW c \in Claimer, Starting(c)'
      PROVE  rt'[claim'[c].of].retry # claim'[c].key
  <2>1. /\ Starting(c) /\ claim[c].key \in Run /\ claim[c].of \in Routine
        /\ claim'[c].of = claim[c].of /\ claim'[c].key = claim[c].key
    BY <1>6, StartingFacts DEF ClaimsStay, Before, Starting
  <2>2. rt[claim[c].of].retry # claim[c].key
    BY <2>1 DEF Chained
  <2> QED
    BY <2>1, <2>2 DEF RowsStay, Run
<1>7. ASSUME NEW c \in Claimer, NEW d \in Claimer, c # d,
             Starting(c)', Starting(d)'
      PROVE  claim'[c].key # claim'[d].key
  BY <1>7 DEF ClaimsStay, Before, Starting, Chained
<1> QED
  BY <1>3, <1>4, <1>5, <1>6, <1>7 DEF Chained, Before


\* A claim that holds, or is given up, is no more than it was.
LEMMA HoldStays ==
    ASSUME ClaimsHold
    PROVE  ClaimsStay
  BY DEF ClaimsHold, ClaimsStay, Before, Starting, NoClaim

LEMMA Stays ==
    ASSUME TypeOK
    PROVE  /\ UNCHANGED run => RunsStay
           /\ UNCHANGED fin => FinsStay
           /\ UNCHANGED rt => RowsStay
           /\ UNCHANGED claim => ClaimsStay
  BY DEF RunsStay, FinsStay, RowsStay, ClaimsStay, Before, Starting

LEMMA QuietCalm ==
    ASSUME TypeOK, Quiet
    PROVE  Calm
<1>1. RunsStay
  BY DEF Quiet, SameRun, RunsStay
<1>2. RowsStay
  BY DEF Quiet, SameRow, RowsStay
<1> QED
  BY <1>1, <1>2, HoldStays, Stays DEF Quiet, Calm

LEMMA SettlesCalm ==
    ASSUME TypeOK, NEW i \in Run, Settles(i)
    PROVE  Calm
<1>1. run[i] # Unused /\ run[i].status = "running"
  BY DEF Settles, Running, Unused
<1>2. RunsStay
  BY <1>1 DEF Settles, SameRun, RunsStay
<1>3. \A j \in Run : fin'[j].at # "idle" =>
        \/ fin[j].at # "idle"
        \/ j = i /\ run[i].trigger # "manual"
  BY DEF Settles
<1>4. FinsStay
  BY <1>1, <1>3 DEF Settles, FinsStay, Works, Running
<1> QED
  BY <1>2, <1>4, HoldStays, Stays DEF Settles, Calm

LEMMA NoRetryStays ==
    ASSUME TypeOK, NEW r \in Routine,
           rt' = IF There(r) THEN [rt EXCEPT ![r] = NoRetry(rt[r])] ELSE rt
    PROVE  /\ RowsStay
           /\ \A q \in Routine \ {r} : rt'[q] = rt[q]
           /\ rt'[r] = IF There(r) THEN NoRetry(rt[r]) ELSE rt[r]
<1>1. rt[r] \in Row
  BY DEF TypeOK
<1>2. NoRetry(rt[r]).retry = 0
  BY <1>1 DEF NoRetry, Row
<1> QED
  BY <1>1, <1>2 DEF RowsStay, TypeOK

\* The writes of settling that arm nothing.
LEMMA WritesCalm ==
    ASSUME TypeOK, Registered, NEW i \in Run,
           ClearRetry(i) \/ ArmRead(i) \/ SettleDies(i)
    PROVE  Calm
<1>1. fin[i].at # "idle" /\ fin[i] \in Fin
  BY DEF ClearRetry, ArmRead, SettleDies, TypeOK
<1>2. \A j \in Run : j # i => fin'[j] = fin[j]
  BY DEF ClearRetry, ArmRead, SettleDies, TypeOK
<1>3. FinsStay
  BY <1>1, <1>2 DEF FinsStay
<1>4. UNCHANGED <<run, claim>>
  BY DEF ClearRetry, ArmRead, SettleDies
<1>5. RowsStay
  <2>1. run[i].of \in Routine
    BY <1>1, OfFacts DEF Registered
  <2>2. CASE ClearRetry(i)
    BY <2>1, <2>2, NoRetryStays DEF ClearRetry
  <2>3. CASE UNCHANGED rt
    BY <2>3, Stays
  <2> QED
    BY <2>2, <2>3 DEF ArmRead, SettleDies
<1> QED
  BY <1>3, <1>4, <1>5, Stays DEF Calm

LEMMA StaleCalm ==
    ASSUME TypeOK, NEW c \in Claimer, ClearStale(c)
    PROVE  Calm
<1>1. claim[c].of \in Routine
  BY ClaimFacts DEF ClearStale, At
<1>2. RowsStay
  BY <1>1, NoRetryStays DEF ClearStale
<1>3. ClaimsHold
  BY DEF ClearStale, GivesUp, ClaimsHold, TypeOK
<1> QED
  BY <1>2, <1>3, HoldStays, Stays DEF ClearStale, Calm

\* A run that is registered disturbs no other.
LEMMA AddsStay ==
    ASSUME TypeOK, NEW i \in Run, NEW new, Adds(i, new)
    PROVE  RunsStay
  BY AddsFacts DEF RunsStay

LEMMA ClaimCalm ==
    ASSUME TypeOK, Registered, NEW c \in Claimer, ClaimStep(c),
           \A r \in Routine : ~ReadRetry(c, r), ~TakeRetry(c)
    PROVE  Calm
<1>1. ClaimsStay
  <2>1. ASSUME NEW r \in Routine, ReadSlot(c, r)
        PROVE  claim'[c].at = "slot"
    BY <2>1 DEF ReadSlot, TypeOK
  <2>2. CASE claim'[c].at = "start" /\ claim[c].at = "check"
    <3>1. CheckRunning(c)
      <4>1. \A r \in Routine : ~ReadSlot(c, r) /\ ~ReadRetry(c, r)
        <5>1. claim[c] # NoClaim
          BY <2>2 DEF NoClaim
        <5> QED
          BY <5>1 DEF ReadSlot, ReadRetry
      <4>2. ~TakeSlot(c) /\ ~TakeRetry(c) /\ ~Start(c) /\ ~Note(c)
        BY <2>2 DEF TakeSlot, TakeRetry, Start, Note, At
      <4> QED
        BY <4>1, <4>2, Zenon DEF ClaimStep
    <3>2. ~GivesUp(c)
      BY <2>2 DEF GivesUp, TypeOK, NoClaim
    <3>3. Goes(c, "start") /\ claim[c] \in Claim
      BY <2>2, <3>1, <3>2, ClaimFacts DEF CheckRunning, At
    <3>4. claim'[c] = [claim[c] EXCEPT !.at = "start"]
      BY <2>2, <3>3, ClaimGoes
    <3>5. claim'[c].trigger = claim[c].trigger /\ claim[c].trigger = "schedule"
      BY <2>2, <3>3, <3>4 DEF Registered, Claim
    <3> QED
      BY <2>2, <3>5, ClaimAfter DEF ClaimsStay, Before, Starting
  <2> QED
    BY <2>1, <2>2, ClaimAfter DEF ClaimsStay, Before, Starting
<1>2. CASE \/ \E r \in Routine : ReadSlot(c, r)
           \/ CheckRunning(c)
  BY <1>1, <1>2, Stays DEF ReadSlot, CheckRunning, Calm
<1>3. CASE TakeSlot(c)
  <2>1. claim[c].of \in Routine /\ rt[claim[c].of] \in Row
    BY <1>3, ClaimFacts DEF TakeSlot, At, TypeOK
  <2> DEFINE k == claim[c]
             new == [NoRetry(rt[k.of]) EXCEPT !.next = k.next]
  <2>2. new.retry = 0
    BY <2>1 DEF NoRetry, Row
  <2>3. rt' = rt \/ rt' = [rt EXCEPT ![k.of] = new]
    BY <1>3 DEF TakeSlot
  <2> HIDE DEF new
  <2>4. RowsStay
    BY <2>1, <2>2, <2>3 DEF RowsStay, TypeOK
  <2> QED
    BY <1>1, <1>3, <2>4, Stays DEF TakeSlot, Calm
<1>4. CASE Start(c) \/ Note(c)
  <2>1. UNCHANGED <<rt, fin>>
    BY <1>4 DEF Start, Note
  <2>2. RunsStay
    <3>1. CASE Minor
      BY <3>1 DEF Minor, RunsKept, RunsStay
    <3>2. CASE \E i \in Run, new \in RunRow : Registers(c, i, new)
      BY <3>2, AddsStay DEF Registers
    <3> QED
      BY <1>4, <3>1, <3>2, StartCases, NoteCases
  <2> QED
    BY <1>1, <2>1, <2>2, Stays DEF Calm
<1> QED
  BY <1>2, <1>3, <1>4 DEF ClaimStep

\* What people and time do.
LEMMA OthersCalm ==
    ASSUME TypeOK,
           \/ \E r \in Routine :
                Create(r) \/ Manual(r) \/ Delete(r) \/ RetryComes(r)
           \/ \E r \in Routine, e \in Tab, what \in Change :
                PatchRead(e, r, what)
           \/ \E e \in Tab : PatchWrite(e)
           \/ Tick
    PROVE  Calm
<1>1. UNCHANGED <<fin, claim>>
  BY DEF Create, Manual, Delete, RetryComes, PatchRead, PatchWrite, Tick
<1>2. RunsStay
  <2>1. CASE \E r \in Routine : Manual(r)
    BY <2>1, ManualAdds, AddsStay
  <2>2. ASSUME NEW r \in Routine, Delete(r)
        PROVE  RunsStay
    <3>1. \A i \in Run : run'[i] = IF i \in RunsOf(r)
                                    THEN [run[i] EXCEPT !.status = "gone"]
                                    ELSE run[i]
      BY <2>2 DEF Delete
    <3>2. ASSUME NEW i \in Run, run[i] # Unused
          PROVE  /\ run'[i] # Unused
                 /\ run'[i].of = run[i].of
                 /\ run'[i].trigger = run[i].trigger
                 /\ run'[i].slot = run[i].slot
                 /\ run'[i].status = "running" => run[i].status = "running"
      <4>1. run[i] \in RunRow
        BY <3>2, RunFacts
      <4>2. CASE i \in RunsOf(r)
        <5>1. run'[i] = [run[i] EXCEPT !.status = "gone"]
          BY <3>1, <4>2
        <5> QED
          BY <4>1, <5>1 DEF RunRow, Unused
      <4> QED
        BY <3>1, <3>2, <4>2
    <3> QED
      BY <3>2 DEF RunsStay
  <2>3. CASE UNCHANGED run
    BY <2>3, Stays
  <2> QED
    BY <2>1, <2>2, <2>3 DEF Create, RetryComes, PatchRead, PatchWrite, Tick
<1>3. RowsStay
  <2>1. ASSUME NEW r \in Routine, Create(r) \/ Delete(r) \/ RetryComes(r)
        PROVE  RowsStay
    <3>1. rt[r] \in Row
      BY DEF TypeOK
    <3>2. CASE Create(r)
      <4> DEFINE New(sched, text) ==
                   [NoRow(rt[r].seat) EXCEPT
                      !.life = "there", !.sched = sched, !.text = text,
                      !.next = nextRunAtOf(TRUE, sched)]
      <4>1. \A sched, text : New(sched, text).retry = 0
        BY DEF NoRow
      <4>2. \E sched, text : rt' = [rt EXCEPT ![r] = New(sched, text)]
        BY <3>2, Zenon DEF Create
      <4> HIDE DEF New
      <4> QED
        BY <4>1, <4>2 DEF RowsStay, TypeOK
    <3>3. CASE Delete(r)
      BY <3>1, <3>3 DEF Delete, RowsStay, TypeOK, NoRow
    <3>4. CASE RetryComes(r)
      <4>1. \A at : [rt[r] EXCEPT !.retryAt = at].retry = rt[r].retry
        BY <3>1 DEF Row
      <4>2. \E at : rt' = [rt EXCEPT ![r] = [rt[r] EXCEPT !.retryAt = at]]
        BY <3>4 DEF RetryComes
      <4> QED
        BY <4>1, <4>2 DEF RowsStay, TypeOK
    <3> QED
      BY <2>1, <3>2, <3>3, <3>4
  <2>2. ASSUME NEW e \in Tab, PatchWrite(e)
        PROVE  RowsStay
    <3> DEFINE r == tab[e].of
    <3>1. tab[e] \in Patch /\ r \in Routine /\ rt[r] \in Row
      BY <2>2 DEF PatchWrite, TypeOK, Patch
    <3>2. Patched(rt[r], tab[e]).retry \in {0, rt[r].retry}
      BY <3>1 DEF Patched, NoRetry, Row
    <3> QED
      BY <2>2, <3>1, <3>2 DEF PatchWrite, RowsStay, TypeOK
  <2>3. CASE UNCHANGED rt
    BY <2>3, Stays
  <2> QED
    BY <2>1, <2>2, <2>3 DEF Manual, PatchRead, Tick
<1> QED
  BY <1>1, <1>2, <1>3, Stays DEF Calm

\* Every step but those that arm, read or take a retry.
LEMMA CalmCases ==
    ASSUME TypeOK, Registered, [Next]_vars
    PROVE  \/ Calm
           \/ \E i \in Run : ArmWrite(i)
           \/ \E c \in Claimer, r \in Routine : ReadRetry(c, r)
           \/ \E c \in Claimer : TakeRetry(c)
  BY RetryCases, QuietCalm, SettlesCalm, WritesCalm, StaleCalm, ClaimCalm,
     OthersCalm

LEMMA ChainedRead ==
    ASSUME TypeOK, Registered, Chained, NEW c \in Claimer, NEW r \in Routine,
           ReadRetry(c, r)
    PROVE  Chained'
<1>1. UNCHANGED <<rt, run, fin>>
  BY DEF ReadRetry
<1>2. /\ claim'[c].at \in {"stale", "recheck"}
      /\ claim'[c].of = r /\ claim'[c].key = rt[r].retry
      /\ \A d \in Claimer : d # c => claim'[d] = claim[d]
  BY DEF ReadRetry, TypeOK
<1>3. rt[r].retry # 0
  BY DEF ReadRetry, Registered
<1>4. \A d \in Claimer : Starting(d)' => d # c /\ Starting(d)
  BY <1>2 DEF Starting
<1>5. ASSUME NEW d \in Claimer, Before(d)'
      PROVE  /\ Works(claim'[d].key) /\ Armed(claim'[d].key)
             /\ run[claim'[d].key].of = claim'[d].of
  <2>1. CASE d = c
    BY <1>2, <1>3, <2>1 DEF Chained
  <2>2. CASE d # c
    BY <1>2, <1>4, <1>5, <2>2 DEF Chained, Before
  <2> QED
    BY <2>1, <2>2
<1>6. \A d \in Claimer : Before(d)' =>
        /\ Works(claim[d].key)' /\ Armed(claim[d].key)'
        /\ run'[claim'[d].key].of = claim'[d].of
  BY <1>1, <1>5 DEF Works, Armed
<1>7. \A d \in Claimer : Starting(d)' => rt'[claim'[d].of].retry # claim'[d].key
  BY <1>1, <1>2, <1>4 DEF Chained
<1>8. \A d, e \in Claimer : d # e /\ Starting(d)' /\ Starting(e)' =>
        claim'[d].key # claim'[e].key
  BY <1>2, <1>4 DEF Chained
<1>9. /\ \A i \in Run : fin'[i].at # "idle" => Works(i)' /\ ~Running(i)'
      /\ \A q \in Routine : rt'[q].retry # 0 =>
           /\ Works(rt[q].retry)' /\ Armed(rt[q].retry)'
           /\ run'[rt'[q].retry].of = q
  BY <1>1 DEF Chained, Works, Armed, Running
<1> QED
  BY <1>6, <1>7, <1>8, <1>9 DEF Chained, Before

LEMMA ChainedTaken ==
    ASSUME TypeOK, Registered, Chained, NEW c \in Claimer, TakeRetry(c)
    PROVE  Chained'
<1>1. UNCHANGED <<run, fin>>
  BY DEF TakeRetry
<1>2. CASE ~HasRetry(c)
  <2>1. ClaimsHold /\ UNCHANGED rt
    BY <1>2 DEF TakeRetry, GivesUp, ClaimsHold, TypeOK
  <2> QED
    BY <1>1, <2>1, HoldStays, Stays, ChainedCalm DEF Calm
<1>3. CASE HasRetry(c)
  <2> DEFINE r == claim[c].of
             k == claim[c].key
  <2>1. /\ claim[c].at = "take" /\ claim[c] \in Claim /\ r \in Routine
        /\ rt[r] \in Row /\ k \in Run /\ claim[c].trigger = "retry"
    BY ClaimFacts DEF TakeRetry, At, Registered, TypeOK
  <2>2. claim'[c] = [claim[c] EXCEPT !.at = "start"]
        /\ \A d \in Claimer : d # c => claim'[d] = claim[d]
    BY <1>3, <2>1, ClaimGoes DEF TakeRetry
  <2>3. /\ claim'[c].at = "start" /\ claim'[c].trigger = "retry"
        /\ claim'[c].of = r /\ claim'[c].key = k
    BY <2>1, <2>2 DEF Claim
  <2>4. rt[r].retry = k
    BY <1>3 DEF HasRetry
  <2>5. rt' = [rt EXCEPT ![r] = Taken(rt[r])] /\ Taken(rt[r]).retry = 0
    BY <1>3, <2>1 DEF TakeRetry, Taken, Row
  <2>6. rt'[r].retry = 0 /\ \A q \in Routine : q # r => rt'[q] = rt[q]
    BY <2>1, <2>5 DEF TypeOK
  <2>7. Works(k) /\ Armed(k) /\ run[k].of = r
    BY <2>1 DEF Chained
  <2>8. ASSUME NEW d \in Claimer, d # c, Starting(d)
        PROVE  claim[d].key # k
    <3>1. run[claim[d].key].of = claim[d].of
          /\ rt[claim[d].of].retry # claim[d].key
      BY <2>8 DEF Chained
    <3> QED
      BY <2>4, <2>7, <3>1
  <2>9. ASSUME NEW d \in Claimer, Before(d)'
        PROVE  /\ Works(claim'[d].key) /\ Armed(claim'[d].key)
               /\ run[claim'[d].key].of = claim'[d].of
    <3>1. CASE d = c
      BY <2>3, <2>7, <3>1
    <3>2. CASE d # c
      BY <2>2, <2>9, <3>2 DEF Chained, Before, Starting
    <3> QED
      BY <3>1, <3>2
  <2>10. \A d \in Claimer : Before(d)' =>
          /\ Works(claim[d].key)' /\ Armed(claim[d].key)'
          /\ run'[claim'[d].key].of = claim'[d].of
    BY <1>1, <2>9 DEF Works, Armed
  <2>11. ASSUME NEW d \in Claimer, Starting(d)'
         PROVE  rt'[claim'[d].of].retry # claim'[d].key
    <3>1. CASE d = c
      BY <2>1, <2>3, <2>6, <3>1 DEF Run
    <3>2. CASE d # c
      <4>1. Starting(d) /\ claim'[d] = claim[d]
        BY <2>2, <2>11, <3>2 DEF Starting
      <4>2. /\ rt[claim[d].of].retry # claim[d].key
            /\ claim[d].of \in Routine /\ claim[d].key \in Run
        BY <4>1, StartingFacts DEF Chained
      <4> QED
        BY <2>6, <4>1, <4>2 DEF Run
    <3> QED
      BY <3>1, <3>2
  <2>12. ASSUME NEW d \in Claimer, NEW e \in Claimer, d # e,
                Starting(d)', Starting(e)'
         PROVE  claim'[d].key # claim'[e].key
    <3>1. \A f \in Claimer : f # c /\ Starting(f)' =>
             Starting(f) /\ claim'[f] = claim[f]
      BY <2>2 DEF Starting
    <3>2. CASE d = c \/ e = c
      BY <2>3, <2>8, <2>12, <3>1, <3>2
    <3>3. CASE d # c /\ e # c
      BY <2>12, <3>1, <3>3 DEF Chained
    <3> QED
      BY <3>2, <3>3
  <2>13. ASSUME NEW q \in Routine, rt'[q].retry # 0
         PROVE  /\ Works(rt[q].retry)' /\ Armed(rt[q].retry)'
                /\ run'[rt'[q].retry].of = q
    <3>1. q # r /\ rt'[q] = rt[q]
      BY <2>6, <2>13
    <3> QED
      BY <1>1, <2>13, <3>1 DEF Chained, Works, Armed
  <2>14. \A i \in Run : fin'[i].at # "idle" => Works(i)' /\ ~Running(i)'
    BY <1>1 DEF Chained, Works, Running
  <2> QED
    BY <2>10, <2>11, <2>12, <2>13, <2>14 DEF Chained, Before
<1> QED
  BY <1>2, <1>3

LEMMA ChainedArmed ==
    ASSUME TypeOK, Registered, Chained, NEW i \in Run, ArmWrite(i)
    PROVE  Chained'
<1> DEFINE r == run[i].of
<1>1. UNCHANGED <<run, claim>> /\ fin[i].at = "write"
  BY DEF ArmWrite
<1>2. Works(i) /\ ~Running(i)
  BY <1>1 DEF Chained
<1>3. r \in Routine /\ rt[r] \in Row
  BY <1>2, OfFacts DEF Works, TypeOK
<1>4. fin'[i].at = "idle" /\ \A j \in Run : j # i => fin'[j] = fin[j]
  BY DEF ArmWrite, TypeOK, NoFin
<1>5. /\ rt'[r].retry \in {rt[r].retry, i}
      /\ \A q \in Routine : q # r => rt'[q] = rt[q]
  BY <1>3 DEF ArmWrite, TypeOK, Row
<1>6. \A j \in Run : Works(j) /\ Armed(j) => Works(j)' /\ Armed(j)'
  BY <1>1, <1>4 DEF Works, Armed
<1>7. Works(i)' /\ Armed(i)'
  BY <1>1, <1>2, <1>4 DEF Works, Armed, Running
<1>8. ASSUME NEW q \in Routine, rt'[q].retry # 0
      PROVE  /\ Works(rt[q].retry)' /\ Armed(rt[q].retry)'
             /\ run'[rt'[q].retry].of = q
  <2>1. CASE q = r /\ rt'[q].retry = i
    BY <1>1, <1>7, <2>1 DEF Works, Armed
  <2>2. CASE rt'[q].retry = rt[q].retry
    <3> DEFINE k == rt[q].retry
    <3>1. k \in Run /\ Works(k) /\ Armed(k) /\ run[k].of = q
      BY <1>8, <2>2 DEF Chained, TypeOK, Row
    <3>2. Works(k)' /\ Armed(k)'
      BY <1>6, <2>2, <3>1 DEF Works, Armed
    <3> QED
      BY <1>1, <2>2, <3>1, <3>2 DEF Works, Armed
  <2> QED
    BY <1>5, <2>1, <2>2
<1>9. ASSUME NEW c \in Claimer, Before(c)'
      PROVE  /\ Works(claim[c].key)' /\ Armed(claim[c].key)'
             /\ run'[claim'[c].key].of = claim'[c].of
  <2> DEFINE k == claim[c].key
  <2>1. /\ k \in Run /\ Works(k) /\ Armed(k)
        /\ run[k].of = claim[c].of
    BY <1>1, <1>9, StartingFacts DEF Chained, Before, Starting
  <2>2. Works(k)' /\ Armed(k)'
    BY <1>1, <1>6, <2>1 DEF Works, Armed
  <2> QED
    BY <1>1, <2>1, <2>2 DEF Works, Armed
<1>10. ASSUME NEW c \in Claimer, Starting(c)'
       PROVE  rt'[claim'[c].of].retry # claim'[c].key
  <2>1. /\ claim[c].of \in Routine /\ Armed(claim[c].key)
        /\ rt[claim[c].of].retry # claim[c].key
    BY <1>1, <1>10, StartingFacts DEF Chained, Starting, Before
  <2>2. claim[c].key # i
    BY <1>1, <2>1 DEF Armed
  <2> QED
    BY <1>1, <1>5, <2>1, <2>2
<1>11. \A c, d \in Claimer : c # d /\ Starting(c)' /\ Starting(d)' =>
         claim'[c].key # claim'[d].key
  BY <1>1 DEF Chained, Starting
<1>12. \A j \in Run : fin'[j].at # "idle" => Works(j)' /\ ~Running(j)'
  BY <1>1, <1>4 DEF Chained, Works, Running
<1> QED
  BY <1>8, <1>9, <1>10, <1>11, <1>12 DEF Chained, Before

LEMMA ChainedStep ==
    ASSUME TypeOK, Registered, Chained, [Next]_vars
    PROVE  Chained'
  BY CalmCases, ChainedCalm, ChainedRead, ChainedTaken, ChainedArmed

\* Every step keeps the runs that are registered.
LEMMA RunsStayed ==
    ASSUME TypeOK, Registered, [Next]_vars
    PROVE  RunsStay
<1>1. CASE UNCHANGED run
  BY <1>1, Stays
<1> QED
  BY <1>1, CalmCases DEF Calm, ArmWrite, ReadRetry, TakeRetry

\* Runs of slots are registered by claims only.
LEMMA RunCases ==
    ASSUME TypeOK, Registered, [Next]_vars
    PROVE  \/ \A i \in Run : Works(i)' => Works(i)
           \/ \E c \in Claimer, i \in Run, new \in RunRow :
                /\ Registers(c, i, new)
                /\ ~Starting(c)' /\ UNCHANGED <<rt, fin>>
                /\ claim'[c].at \in {"idle", "close", "settle"}
                /\ ~Refused(claim[c].of)
                /\ \A d \in Claimer : d # c => claim'[d] = claim[d]
<1>1. CASE UNCHANGED run
  BY <1>1 DEF Works
<1>2. CASE Minor
  BY <1>2 DEF Minor, RunsKept, Works
<1>3. ASSUME NEW c \in Claimer, Start(c), ~Minor
      PROVE  \E i \in Run, new \in RunRow :
                /\ Registers(c, i, new)
                /\ ~Starting(c)' /\ UNCHANGED <<rt, fin>>
                /\ claim'[c].at \in {"idle", "close", "settle"}
                /\ ~Refused(claim[c].of)
                /\ \A d \in Claimer : d # c => claim'[d] = claim[d]
  <2>1. /\ \E i \in Run, new \in RunRow : Registers(c, i, new)
        /\ claim' = [claim EXCEPT ![c] = NoClaim]
        /\ UNCHANGED <<rt, fin>>
    BY <1>3, StartCases
  <2>2. /\ claim'[c].at = "idle"
        /\ \A d \in Claimer : d # c => claim'[d] = claim[d]
    BY <2>1 DEF TypeOK, NoClaim
  <2>3. ~Refused(claim[c].of)
    BY <1>3, <2>1, AddsFacts DEF Start, Registers
  <2> QED
    BY <2>1, <2>2, <2>3 DEF Starting
<1>4. ASSUME NEW c \in Claimer, Note(c), ~Minor
      PROVE  \E i \in Run, new \in RunRow :
                /\ Registers(c, i, new)
                /\ ~Starting(c)' /\ UNCHANGED <<rt, fin>>
                /\ claim'[c].at \in {"idle", "close", "settle"}
                /\ ~Refused(claim[c].of)
                /\ \A d \in Claimer : d # c => claim'[d] = claim[d]
  <2>1. PICK i \in Run, new \in RunRow, at \in {"close", "settle"} :
          /\ Registers(c, i, new)
          /\ claim' = [claim EXCEPT ![c].at = at, ![c].run = i]
          /\ UNCHANGED <<rt, fin>>
    BY <1>4, NoteCases
  <2>2. claim[c] \in Claim
    BY <2>1, ClaimFacts DEF Registers
  <2>3. /\ claim'[c].at = at
        /\ \A d \in Claimer : d # c => claim'[d] = claim[d]
    BY <2>1, <2>2 DEF TypeOK, Claim
  <2>4. ~Refused(claim[c].of)
    BY <1>4, <2>1, AddsFacts DEF Note, Registers
  <2> QED
    BY <2>1, <2>3, <2>4 DEF Starting
<1>5. ASSUME NEW r \in Routine, Manual(r)
      PROVE  \A i \in Run : Works(i)' => Works(i)
  <2>1. PICK i \in Run :
          Adds(i, NewRun(r, "manual", OwnerOf[Home[r]], "none", 0))
    BY <1>5, ManualAdds
  <2>2. NewRun(r, "manual", OwnerOf[Home[r]], "none", 0).trigger = "manual"
    BY DEF NewRun
  <2> QED
    BY <2>1, <2>2, AddsFacts DEF Works
<1>6. ASSUME NEW r \in Routine, Delete(r)
      PROVE  \A i \in Run : Works(i)' => Works(i)
  <2>1. \A i \in Run : run[i] = Unused => run'[i] = Unused
    BY <1>6 DEF Delete, RunsOf
  <2>2. RunsStay
    BY RunsStayed
  <2> QED
    BY <2>1, <2>2 DEF Works, RunsStay
<1>7. CASE \E c \in Claimer : ClaimStep(c)
  BY <1>1, <1>2, <1>3, <1>4, <1>7
     DEF ClaimStep, ReadSlot, ReadRetry, TakeSlot, CheckRunning, TakeRetry
<1> QED
  BY <1>1, <1>2, <1>5, <1>6, <1>7, StepCases
     DEF ArmWrite, Create, PatchRead, PatchWrite, Tick

\* A retry is registered for the slot of the run it hangs on.
LEMMA RootedStep ==
    ASSUME TypeOK, Registered, Chained, Rooted, [Next]_vars
    PROVE  Rooted'
<1>0. RunsStay
  BY RunsStayed
<1>1. \A i, j \in Run : Mates(i, j) => Mates(i, j)'
  BY <1>0 DEF RunsStay, Mates, Works
<1>2. \A j \in Run : ByTimes(j) => ByTimes(j)'
  BY <1>0 DEF RunsStay, ByTimes
<1>3. ASSUME NEW i \in Run, Works(i)
      PROVE  \E j \in Run : ByTimes(j)' /\ Mates(i, j)'
  BY <1>1, <1>2, <1>3 DEF Rooted
<1>4. ASSUME NEW c \in Claimer, NEW i \in Run, NEW new \in RunRow,
             Registers(c, i, new)
      PROVE  \E j \in Run : ByTimes(j)' /\ Mates(i, j)'
  <2>1. /\ run'[i] = new /\ new # Unused
        /\ new.of = claim[c].of /\ new.trigger = claim[c].trigger
        /\ new.slot = SlotOf(claim[c]) /\ claim[c].at \in {"start", "missed"}
        /\ claim[c] \in Claim
    BY <1>4, AddsFacts, ClaimFacts DEF Registers
  <2>2. CASE claim[c].trigger = "schedule"
    <3>1. ByTimes(i)' /\ Mates(i, i)'
      BY <2>1, <2>2 DEF ByTimes, Mates, Works
    <3> QED
      BY <3>1
  <2>3. CASE claim[c].trigger = "retry"
    <3>1. Starting(c)
      BY <2>1, <2>3 DEF Starting, Registered
    <3>2. claim[c].key \in Run /\ Works(claim[c].key)
          /\ run[claim[c].key].of = claim[c].of
      BY <3>1, StartingFacts DEF Chained
    <3>3. new.slot = run[claim[c].key].slot
      BY <2>1, <2>3 DEF SlotOf
    <3>4. PICK k \in Run : k = claim[c].key
      BY <3>2
    <3>5. PICK j \in Run : ByTimes(j)' /\ Mates(k, j)'
      BY <1>3, <3>2, <3>4
    <3>6. run'[k] = run[k]
      BY <1>4, <3>2, <3>4, AddsFacts DEF Registers, Works
    <3>7. Mates(i, j)'
      BY <2>1, <2>3, <3>2, <3>3, <3>4, <3>5, <3>6 DEF Mates, Works
    <3> QED
      BY <3>5, <3>7
  <2> QED
    BY <2>1, <2>2, <2>3 DEF Claim
<1>5. ASSUME NEW i \in Run, Works(i)', ~Works(i)
      PROVE  \E j \in Run : ByTimes(j)' /\ Mates(i, j)'
  <2>1. PICK c \in Claimer, k \in Run, new \in RunRow : Registers(c, k, new)
    BY <1>5, RunCases
  <2>2. k = i
    BY <1>5, <2>1, AddsFacts DEF Registers, Works
  <2> QED
    BY <1>4, <2>1, <2>2
<1> QED
  BY <1>3, <1>5 DEF Rooted

-----------------------------------------------------------------------------
(* Work is done once.                                                      *)

\* No turn of the run has done its work, is on, or can still be opened.
Over(i) ==
    /\ ~Running(i) /\ job[i].at \in {"none", "ended"}
    /\ turn[i] \in {"none", "undone"}

\* What the job knows is true: a run without a job is not running, and one that
\* will be tried again has no turn that is on or did its work.
JobTrue(i) ==
    /\ run[i] = Unused => job[i].at = "none" /\ turn[i] = "none"
    /\ Works(i) =>
         /\ run[i].lease # "expired"
         /\ run[i].lease = "none" => run[i].owner = NoOwner
         /\ Running(i) /\ run[i].lease = "live" => job[i].at # "none"
         /\ job[i].at \in {"ready", "hooked"} => turn[i] = "none"
         /\ job[i].at = "ended" /\ Retryable(job[i].kind) =>
              turn[i] \in {"none", "undone"}

JobsTrue == \A i \in Run : JobTrue(i)

WorkedOnce ==
    /\ \A i, j \in Run : Mates(i, j) /\ i # j => Over(i) \/ Over(j)
    /\ \A i, j \in Run : Mates(i, j) /\ Works(i) /\ Owes(i) => Over(j)
    /\ \A i, j \in Run : Mates(i, j) /\ Owes(i) /\ Owes(j) => i = j


\* What a step leaves of a run for its job.
RunKept(i) ==
    /\ run'[i] = Unused <=> run[i] = Unused
    /\ run[i] # Unused =>
         /\ run'[i].trigger = run[i].trigger
         /\ run'[i].lease = run[i].lease /\ run'[i].owner = run[i].owner
         /\ run'[i].status = "running" => run[i].status = "running"

JobKept(i) ==
    /\ RunKept(i) /\ UNCHANGED <<job[i], turn[i]>>

Truly(i) == JobTrue(i)' /\ (run[i] # Unused /\ Over(i) => Over(i)')

LEMMA KeptTruly ==
    ASSUME NEW i \in Run, JobTrue(i), JobKept(i)
    PROVE  Truly(i)
  BY DEF JobKept, RunKept, Truly, JobTrue, Over, Works, Running

LEMMA FinishedKept ==
    ASSUME TypeOK, NEW i \in Run, NEW s \in {"ok", "error"},
           run' = Finished(i, s)
    PROVE  /\ \A j \in Run : RunKept(j)
           /\ ~Running(i)'
<1>1. CASE ~Running(i)
  BY <1>1 DEF Finished, RunKept, Running
<1>2. CASE Running(i)
  <2>1. run[i] \in RunRow
    BY <1>2, RunFacts
  <2>2. run'[i] = [run[i] EXCEPT !.status = s]
        /\ \A j \in Run : j # i => run'[j] = run[j]
    BY <1>2 DEF Finished, TypeOK
  <2>3. /\ run'[i].status = s /\ run'[i].trigger = run[i].trigger
        /\ run'[i].lease = run[i].lease /\ run'[i].owner = run[i].owner
    BY <2>1, <2>2 DEF RunRow
  <2>4. run[i] # Unused /\ run'[i] # Unused /\ run'[i].status # "running"
    BY <1>2, <2>3 DEF Running, Unused
  <2> QED
    BY <2>2, <2>3, <2>4 DEF RunKept, Running
<1> QED
  BY <1>1, <1>2

LEMMA LeasedKept ==
    ASSUME TypeOK, NEW i \in Run, Running(i), NEW l \in {"live", "expired"},
           run' = [run EXCEPT ![i].lease = l]
    PROVE  /\ \A j \in Run : j # i => run'[j] = run[j]
           /\ run[i] # Unused /\ run'[i] # Unused
           /\ run'[i].trigger = run[i].trigger
           /\ run'[i].status = "running" /\ run'[i].lease = l
<1>1. run[i] \in RunRow /\ run[i].status = "running"
  BY RunFacts DEF Running
<1>2. run'[i] = [run[i] EXCEPT !.lease = l]
      /\ \A j \in Run : j # i => run'[j] = run[j]
  BY DEF TypeOK
<1>3. run'[i].status = "running" /\ run'[i].trigger = run[i].trigger
      /\ run'[i].lease = l
  BY <1>1, <1>2 DEF RunRow
<1> QED
  BY <1>1, <1>2, <1>3 DEF Unused

\* The steps of a job, when no answer is lost and no process dies.
LEMMA WorkingTruly ==
    ASSUME TypeOK, JobsTrue, Faults \cap {"crash", "net"} = {},
           NEW i \in Run, Working(i)
    PROVE  \A j \in Run : Truly(j)
<1>1. JobTrue(i) /\ job[i] \in [at : Stage, kind : Kind]
  BY DEF JobsTrue, TypeOK
<1>2. \A j \in Run : j # i /\ JobKept(j) => Truly(j)
  BY KeptTruly DEF JobsTrue
<1>3. ASSUME NEW new, job' = [job EXCEPT ![i] = new]
      PROVE  job'[i] = new /\ \A j \in Run : j # i => job'[j] = job[j]
  BY <1>3 DEF TypeOK
<1>4. UNCHANGED run => \A j \in Run : RunKept(j)
  BY DEF RunKept
<1>5. CASE Started(i)
  <2>1. UNCHANGED turn /\ job[i].at = "ready"
    BY <1>5 DEF Started, JobIs
  <2>2. CASE ~Running(i) /\ JobGoes(i, Ended("failed")) /\ UNCHANGED run
    <3>1. job'[i].at = "ended" /\ \A j \in Run : j # i => job'[j] = job[j]
      BY <1>3, <2>2 DEF JobGoes, Ended
    <3>2. Truly(i)
      BY <1>1, <2>1, <2>2, <3>1 DEF Truly, JobTrue, Over, Works, Running
    <3> QED
      BY <1>2, <1>4, <2>1, <2>2, <3>1, <3>2 DEF JobKept
  <2>3. CASE /\ Running(i) /\ run' = [run EXCEPT ![i].lease = "live"]
             /\ JobGoes(i, [at |-> "hooked", kind |-> "none"])
    <3>1. job'[i].at = "hooked" /\ \A j \in Run : j # i => job'[j] = job[j]
      BY <1>3, <2>3 DEF JobGoes
    <3>2. Truly(i)
      BY <1>1, <2>1, <2>3, <3>1, LeasedKept
         DEF Truly, JobTrue, Over, Works, Running
    <3> QED
      BY <1>2, <2>1, <2>3, <3>1, <3>2, LeasedKept DEF JobKept, RunKept
  <2>4. CASE /\ Running(i) /\ Settle(i, "error", FALSE) /\ JobGoes(i, NoJob)
    <3>1. job'[i].at = "none" /\ \A j \in Run : j # i => job'[j] = job[j]
      BY <1>3, <2>4 DEF JobGoes, NoJob
    <3>2. run' = Finished(i, "error")
      BY <2>4 DEF Settle
    <3>3. (\A j \in Run : RunKept(j)) /\ ~Running(i)'
      BY <3>2, FinishedKept
    <3>4. Truly(i)
      BY <1>1, <2>1, <2>4, <3>1, <3>3
         DEF Truly, JobTrue, Over, Works, Running, RunKept
    <3> QED
      BY <1>2, <2>1, <3>1, <3>3, <3>4 DEF JobKept
  <2> QED
    BY <1>5, <2>2, <2>3, <2>4 DEF Started
<1>6. CASE Renew(i)
  <2>1. UNCHANGED turn /\ job[i].at \in {"ready", "hooked", "sent"}
    BY <1>6 DEF Renew, JobIs
  <2>2. CASE Running(i) /\ run' = [run EXCEPT ![i].lease = "live"]
             /\ UNCHANGED job
    <3>1. Truly(i)
      BY <1>1, <2>1, <2>2, LeasedKept
         DEF Truly, JobTrue, Over, Works, Running
    <3> QED
      BY <1>2, <2>1, <2>2, <3>1, LeasedKept DEF JobKept, RunKept
  <2>3. CASE ~Running(i) /\ JobGoes(i, NoJob) /\ UNCHANGED run
    <3>1. job'[i].at = "none" /\ \A j \in Run : j # i => job'[j] = job[j]
      BY <1>3, <2>3 DEF JobGoes, NoJob
    <3>2. Truly(i)
      BY <1>1, <2>1, <2>3, <3>1 DEF Truly, JobTrue, Over, Works, Running
    <3> QED
      BY <1>2, <1>4, <2>1, <2>3, <3>1, <3>2 DEF JobKept
  <2> QED
    BY <1>6, <2>2, <2>3 DEF Renew
<1>7. CASE Post(i)
  <2>1. /\ job[i].at = "hooked" /\ UNCHANGED run
        /\ turn' = [turn EXCEPT ![i] = "live"]
        /\ job' = [job EXCEPT ![i] = [at |-> "sent", kind |-> "none"]]
    BY <1>7 DEF Post, JobIs, JobGoes
  <2>2. /\ job'[i].at = "sent" /\ turn'[i] = "live"
        /\ \A j \in Run : j # i => job'[j] = job[j] /\ turn'[j] = turn[j]
    BY <1>3, <2>1 DEF TypeOK
  <2>3. run[i] # Unused
    BY <1>1, <2>1 DEF JobTrue
  <2>4. Truly(i)
    BY <1>1, <2>1, <2>2, <2>3 DEF Truly, JobTrue, Over, Works, Running
  <2> QED
    BY <1>2, <1>4, <2>1, <2>2, <2>4 DEF JobKept
<1>8. ASSUME NEW kind \in {"completed", "error", "aborted"}, TurnEnds(i, kind)
      PROVE  \A j \in Run : Truly(j)
  <2>1. /\ turn[i] = "live" /\ UNCHANGED run
        /\ turn'[i] = (IF kind = "completed" THEN "done" ELSE "undone")
        /\ \A j \in Run : j # i => turn'[j] = turn[j]
    BY <1>8 DEF TurnEnds, TypeOK
  <2>2. run[i] # Unused
    BY <1>1, <2>1 DEF JobTrue
  <2>3. \A j \in Run : j # i => job'[j] = job[j]
    BY <1>8 DEF TurnEnds, TypeOK
  <2>4. Truly(i)
    <3>1. CASE job[i].at = "sent"
      <4>1. job'[i].at = "ended" /\ job'[i].kind = kind
        BY <1>3, <1>8, <3>1 DEF TurnEnds, JobIs, Ended
      <4>2. Retryable(kind) => turn'[i] = "undone"
        BY <2>1 DEF Retryable
      <4> QED
        BY <1>1, <2>1, <2>2, <3>1, <4>1, <4>2
           DEF Truly, JobTrue, Over, Works, Running
    <3>2. CASE job[i].at # "sent"
      <4>1. job' = job
        BY <1>8, <3>2 DEF TurnEnds, JobIs
      <4> QED
        BY <1>1, <2>1, <2>2, <4>1 DEF Truly, JobTrue, Over, Works, Running
    <3> QED
      BY <3>1, <3>2
  <2> QED
    BY <1>2, <1>4, <2>1, <2>3, <2>4 DEF JobKept
<1>9. CASE Breaks(i) \/ TimesOut(i)
  <2>1. /\ UNCHANGED <<run, turn>>
        /\ \/ job[i].at \in {"ready", "hooked"}
              /\ job' = [job EXCEPT ![i] = Ended("failed")]
           \/ job[i].at \in {"hooked", "sent"}
              /\ job' = [job EXCEPT ![i] = Ended("timeout")]
    BY <1>9 DEF Breaks, TimesOut, JobIs, JobGoes
  <2>2. /\ job'[i].at = "ended"
        /\ \/ job[i].at \in {"ready", "hooked"}
           \/ job'[i].kind = "timeout" /\ job[i].at = "sent"
        /\ \A j \in Run : j # i => job'[j] = job[j]
    BY <1>3, <2>1 DEF Ended
  <2>3. run[i] # Unused /\ ~Retryable("timeout")
    BY <1>1, <2>2 DEF JobTrue, Retryable
  <2>4. Truly(i)
    BY <1>1, <2>1, <2>2, <2>3 DEF Truly, JobTrue, Over, Works, Running
  <2> QED
    BY <1>2, <1>4, <2>1, <2>2, <2>4 DEF JobKept
<1>10. CASE Finish(i)
  <2>1. /\ job[i].at = "ended" /\ UNCHANGED turn
        /\ job' = [job EXCEPT ![i] = NoJob]
        /\ \E s \in {"ok", "error"} : run' = Finished(i, s)
    BY <1>10 DEF Finish, JobIs, JobGoes, Settle
  <2>2. job'[i].at = "none" /\ \A j \in Run : j # i => job'[j] = job[j]
    BY <1>3, <2>1 DEF NoJob
  <2>3. (\A j \in Run : RunKept(j)) /\ ~Running(i)'
    BY <2>1, FinishedKept
  <2>4. Truly(i)
    BY <1>1, <2>1, <2>2, <2>3
       DEF Truly, JobTrue, Over, Works, Running, RunKept
  <2> QED
    BY <1>2, <2>1, <2>2, <2>3, <2>4 DEF JobKept
<1> QED
  BY <1>5, <1>6, <1>7, <1>8, <1>9, <1>10 DEF Working, JobDies

\* Leases, sweeps and pickups: nothing that works is swept for its lease.
LEMMA SettlingTruly ==
    ASSUME TypeOK, Registered, JobsTrue, "expire" \notin Faults,
           NEW i \in Run, Settling(i)
    PROVE  \A j \in Run : Truly(j)
<1>1. JobTrue(i)
  BY DEF JobsTrue
<1>2. \A j \in Run : JobKept(j) => Truly(j)
  BY KeptTruly DEF JobsTrue
<1>3. CASE UNCHANGED <<run, job, turn>>
  BY <1>2, <1>3 DEF JobKept, RunKept
<1>4. CASE LeaseExpires(i)
  <2>1. /\ Running(i) /\ run[i].lease = "live" /\ job[i].at = "none"
        /\ run' = [run EXCEPT ![i].lease = "expired"]
        /\ UNCHANGED <<job, turn>>
    BY <1>4 DEF LeaseExpires, NoJob
  <2>2. Truly(i)
    BY <1>1, <2>1, LeasedKept DEF Truly, JobTrue, Over, Works, Running
  <2> QED
    BY <1>2, <2>1, <2>2, LeasedKept DEF JobKept, RunKept
<1>5. CASE WaitsTooLong(i)
  <2>1. /\ Running(i) /\ run' = [run EXCEPT ![i].old = TRUE]
        /\ UNCHANGED <<job, turn>>
    BY <1>5 DEF WaitsTooLong
  <2>2. /\ run'[i] = [run[i] EXCEPT !.old = TRUE] /\ run[i] \in RunRow
        /\ run[i] # Unused /\ \A j \in Run : j # i => run'[j] = run[j]
    BY <2>1, RunFacts DEF TypeOK, Running, Unused
  <2>3. /\ run'[i].trigger = run[i].trigger /\ run'[i].lease = run[i].lease
        /\ run'[i].owner = run[i].owner /\ run'[i].status = run[i].status
    BY <2>2 DEF RunRow
  <2>4. run'[i] # Unused
    BY <2>1, <2>3 DEF Running, Unused
  <2> QED
    BY <1>2, <2>1, <2>2, <2>3, <2>4 DEF JobKept, RunKept
<1>6. CASE SweepLease(i) \/ SweepUnclaimed(i)
  <2>1. run' = Finished(i, "error") /\ UNCHANGED <<job, turn>>
    BY <1>6 DEF SweepLease, SweepUnclaimed, Settle
  <2> QED
    BY <1>2, <2>1, FinishedKept DEF JobKept
<1>7. ASSUME NEW p \in Proc, PickUp(p, i)
      PROVE  \A j \in Run : Truly(j)
  <2>1. Running(i) /\ ~Works(i) /\ run[i] # Unused /\ UNCHANGED turn
    <3>1. /\ Running(i) /\ run[i].lease = "none"
          /\ run[i].owner = OwnerOf[p] /\ UNCHANGED turn
      BY <1>7 DEF PickUp
    <3> QED
      BY <1>1, <3>1, NamesAssumption DEF JobTrue, Running, Unused
  <2>2. CASE /\ run' = [run EXCEPT ![i].lease = "live"]
             /\ \E new : job' = [job EXCEPT ![i] = new]
    <3>1. \A j \in Run : j # i => job'[j] = job[j]
      BY <2>2 DEF TypeOK
    <3>2. Truly(i)
      BY <2>1, <2>2, LeasedKept DEF Truly, JobTrue, Over, Works
    <3> QED
      BY <1>2, <2>1, <2>2, <3>1, <3>2, LeasedKept DEF JobKept, RunKept
  <2>3. CASE Settle(i, "error", FALSE) /\ UNCHANGED job
    <3>1. run' = Finished(i, "error")
      BY <2>3 DEF Settle
    <3> QED
      BY <1>2, <2>1, <2>3, <3>1, FinishedKept DEF JobKept
  <2> QED
    BY <1>7, <2>2, <2>3 DEF PickUp
<1> QED
  BY <1>3, <1>4, <1>5, <1>6, <1>7
     DEF Settling, ClearRetry, ArmRead, ArmWrite, SettleDies

\* A run that is registered is handed over, or closed by its claim.
LEMMA ClaimingTruly ==
    ASSUME TypeOK, Registered, JobsTrue, "net" \notin Faults,
           NEW c \in Claimer, Claiming(c) \/ ClaimDies(c)
    PROVE  \A j \in Run : Truly(j)
<1>1. \A j \in Run : JobKept(j) => Truly(j)
  BY KeptTruly DEF JobsTrue
<1>2. CASE UNCHANGED <<run, job, turn>>
  BY <1>1, <1>2 DEF JobKept, RunKept
<1>3. CASE Start(c) /\ ~UNCHANGED <<run, job>>
  <2> DEFINE k == claim[c]
             new == NewRun(k.of, k.trigger, OwnerOf[ProcOf[c]], "live",
                           SlotOf(k))
  <2>1. PICK i \in Run : /\ run[i] = Unused
                         /\ run' = [run EXCEPT ![i] = new]
                         /\ job' = [job EXCEPT ![i] = Ready]
    BY <1>3 DEF Start, Fresh
  <2>2. /\ run'[i] = new /\ job'[i] = Ready
        /\ \A j \in Run : j # i => run'[j] = run[j] /\ job'[j] = job[j]
        /\ UNCHANGED turn
    BY <1>3, <2>1 DEF TypeOK, Start
  <2>3. new.lease = "live" /\ new.status = "running" /\ new # Unused
    BY DEF NewRun, Unused
  <2>4. turn[i] = "none"
    BY <2>1 DEF JobsTrue, JobTrue
  <2> HIDE DEF new
  <2>5. Truly(i)
    BY <2>1, <2>2, <2>3, <2>4 DEF Truly, JobTrue, Works, Ready
  <2> QED
    BY <1>1, <2>2, <2>5 DEF JobKept, RunKept
<1>4. CASE Note(c) /\ ~UNCHANGED run
  <2> DEFINE k == claim[c]
             new == NewRun(k.of, k.trigger, NoOwner, "none", SlotOf(k))
  <2>1. PICK i \in Run : run[i] = Unused /\ run' = [run EXCEPT ![i] = new]
    BY <1>4 DEF Note, Fresh
  <2>2. /\ run'[i] = new /\ UNCHANGED <<job, turn>>
        /\ \A j \in Run : j # i => run'[j] = run[j]
    BY <1>4, <2>1 DEF TypeOK, Note
  <2>3. new.lease = "none" /\ new.owner = NoOwner /\ new # Unused
    BY DEF NewRun, Unused
  <2>4. turn[i] = "none" /\ job[i].at = "none"
    BY <2>1 DEF JobsTrue, JobTrue
  <2> HIDE DEF new
  <2>5. Truly(i)
    BY <2>1, <2>2, <2>3, <2>4 DEF Truly, JobTrue, Works
  <2> QED
    BY <1>1, <2>2, <2>5 DEF JobKept, RunKept
<1>5. CASE Close(c)
  <2>1. claim[c] \in Claim /\ UNCHANGED <<job, turn>>
        /\ run' = Finished(claim[c].run, "error")
    BY <1>5, ClaimFacts DEF Close, At, Settle
  <2>2. CASE claim[c].run \in Run
    BY <1>1, <2>1, <2>2, FinishedKept DEF JobKept
  <2>3. CASE claim[c].run \notin Run
    <3>1. \A v : [run EXCEPT ![claim[c].run] = v] = run
      BY <2>3 DEF TypeOK
    <3> QED
      BY <1>2, <2>1, <3>1 DEF Finished
  <2> QED
    BY <2>2, <2>3
<1>6. Start(c) \/ Note(c) => UNCHANGED turn
  BY DEF Start, Note
<1>7. Note(c) => UNCHANGED job
  BY DEF Note
<1>8. CASE \/ \E r \in Routine : ReadSlot(c, r) \/ ReadRetry(c, r)
           \/ TakeSlot(c) \/ CheckRunning(c) \/ TakeRetry(c)
           \/ ClearStale(c) \/ ClaimDies(c)
  BY <1>2, <1>8 DEF ReadSlot, ReadRetry, TakeSlot, CheckRunning, TakeRetry,
                    ClearStale, ClaimDies
<1> QED
  BY <1>2, <1>3, <1>4, <1>5, <1>6, <1>7, <1>8 DEF Claiming

LEMMA OthersTruly ==
    ASSUME TypeOK, JobsTrue,
           \/ \E r \in Routine : Editing(r) \/ RetryComes(r) \/ Redeploy(r)
           \/ \E e \in Tab : PatchWrite(e)
           \/ Tick \/ UNCHANGED vars
    PROVE  \A j \in Run : Truly(j)
<1>1. \A j \in Run : JobKept(j) => Truly(j)
  BY KeptTruly DEF JobsTrue
<1>2. CASE UNCHANGED <<run, job, turn>>
  BY <1>1, <1>2 DEF JobKept, RunKept
<1>3. ASSUME NEW r \in Routine, Manual(r)
      PROVE  \A j \in Run : Truly(j)
  <2>1. PICK i \in Run :
          Adds(i, NewRun(r, "manual", OwnerOf[Home[r]], "none", 0))
    BY <1>3, ManualAdds
  <2>2. NewRun(r, "manual", OwnerOf[Home[r]], "none", 0).trigger = "manual"
    BY DEF NewRun
  <2>3. UNCHANGED <<job, turn>>
    BY <1>3 DEF Manual
  <2>4. Truly(i)
    BY <2>1, <2>2, AddsFacts DEF Truly, JobTrue, Works
  <2> QED
    BY <1>1, <2>1, <2>3, <2>4, AddsFacts DEF JobKept, RunKept
<1>4. ASSUME NEW r \in Routine, Delete(r)
      PROVE  \A j \in Run : Truly(j)
  <2>1. ASSUME NEW j \in Run
        PROVE  RunKept(j)
    <3>1. run'[j] = IF j \in RunsOf(r)
                    THEN [run[j] EXCEPT !.status = "gone"] ELSE run[j]
      BY <1>4 DEF Delete
    <3>2. CASE j \in RunsOf(r)
      <4>1. run[j] \in RunRow /\ run[j] # Unused
        BY <3>2, RunFacts DEF RunsOf
      <4>2. /\ run'[j].status = "gone" /\ run'[j].trigger = run[j].trigger
            /\ run'[j].lease = run[j].lease /\ run'[j].owner = run[j].owner
        BY <3>1, <3>2, <4>1 DEF RunRow
      <4> QED
        BY <4>1, <4>2 DEF RunKept, Unused
    <3>3. CASE j \notin RunsOf(r)
      BY <3>1, <3>3 DEF RunKept
    <3> QED
      BY <3>2, <3>3
  <2> QED
    BY <1>1, <1>4, <2>1 DEF JobKept, Delete
<1> QED
  BY <1>2, <1>3, <1>4
     DEF Editing, Create, EditText, PatchRead, PatchWrite, RetryComes,
         Redeploy, Tick, vars

LEMMA TrulyStep ==
    ASSUME TypeOK, Registered, JobsTrue,
           Faults \cap {"expire", "crash", "net"} = {}, [Next]_vars
    PROVE  \A j \in Run : Truly(j)
<1>1. /\ Faults \cap {"crash", "net"} = {}
      /\ "expire" \notin Faults /\ "net" \notin Faults
  OBVIOUS
<1> QED
  BY <1>1, WorkingTruly, SettlingTruly, ClaimingTruly, OthersTruly DEF Next

\* What begins to be owed: a run whose work is known not to be done.
Arms(i) ==
    fin'[i].at \in {"arm", "write"} =>
      \/ fin[i].at \in {"arm", "write"}
      \/ Works(i) /\ Running(i) /\ Over(i)'

LEMMA FinSame ==
    ASSUME UNCHANGED fin
    PROVE  \A j \in Run : Arms(j)
  BY DEF Arms

\* settleRun arms only what may be tried again.
LEMMA SettleArms ==
    ASSUME TypeOK, NEW i \in Run, NEW s, NEW b \in BOOLEAN, Settle(i, s, b),
           b => (Running(i) /\ Works(i) => Over(i)')
    PROVE  \A j \in Run : Arms(j)
<1>1. CASE UNCHANGED fin
  BY <1>1, FinSame
<1>2. CASE ~UNCHANGED fin
  <2>1. /\ Running(i) /\ run[i].trigger # "manual"
        /\ fin' = [fin EXCEPT ![i].at = IF s = "ok" \/ ~b THEN "clear"
                                        ELSE "arm"]
    BY <1>2 DEF Settle
  <2>2. fin[i] \in Fin
    BY DEF TypeOK
  <2>3. /\ fin'[i].at = IF s = "ok" \/ ~b THEN "clear" ELSE "arm"
        /\ \A j \in Run : j # i => fin'[j] = fin[j]
    BY <2>1, <2>2 DEF TypeOK, Fin
  <2>4. Works(i)
    BY <2>1 DEF Works, Running, Unused
  <2> QED
    BY <2>1, <2>3, <2>4 DEF Arms
<1> QED
  BY <1>1, <1>2

LEMMA ArmsStep ==
    ASSUME TypeOK, JobsTrue, Faults \cap {"expire", "crash", "net"} = {},
           [Next]_vars
    PROVE  \A j \in Run : Arms(j)
<1>1. CASE UNCHANGED fin
  BY <1>1, FinSame
<1>2. ASSUME NEW i \in Run, NEW s, Settle(i, s, FALSE)
      PROVE  \A j \in Run : Arms(j)
  BY <1>2, SettleArms
<1>3. ASSUME NEW c \in Claimer, Close(c)
      PROVE  \A j \in Run : Arms(j)
  <2>1. CASE claim[c].run \in Run
    BY <1>1, <1>2, <1>3, <2>1 DEF Close
  <2>2. CASE claim[c].run \notin Run
    <3>1. \A v : [fin EXCEPT ![claim[c].run] = v] = fin
      BY <2>2 DEF TypeOK
    <3>2. UNCHANGED fin
      BY <1>3, <3>1 DEF Close, Settle
    <3> QED
      BY <1>1, <3>2
  <2> QED
    BY <2>1, <2>2
<1>4. ASSUME NEW i \in Run, Finish(i)
      PROVE  \A j \in Run : Arms(j)
  <2>1. /\ job[i].at = "ended" /\ UNCHANGED turn
        /\ job' = [job EXCEPT ![i] = NoJob]
        /\ \E s \in {"ok", "error"} : Settle(i, s, Retryable(job[i].kind))
    BY <1>4 DEF Finish, JobIs, JobGoes
  <2>2. PICK s \in {"ok", "error"} : Settle(i, s, Retryable(job[i].kind))
    BY <2>1
  <2>3. job'[i].at = "none"
    BY <2>1 DEF NoJob, TypeOK
  <2>4. ~Running(i)'
    BY <2>2, FinishedKept DEF Settle
  <2>5. Retryable(job[i].kind) /\ Works(i) => Over(i)'
    BY <2>1, <2>3, <2>4 DEF JobsTrue, JobTrue, Over, Running
  <2>6. Retryable(job[i].kind) \in BOOLEAN
    BY DEF Retryable
  <2> QED
    BY <2>2, <2>5, <2>6, SettleArms
<1>5. ASSUME NEW i \in Run, SweepLease(i)
      PROVE  \A j \in Run : Arms(j)
  <2>1. Running(i) /\ run[i].lease = "expired" /\ Settle(i, "error", TRUE)
    BY <1>5 DEF SweepLease, LeaseOver
  <2>2. ~Works(i)
    BY <2>1 DEF JobsTrue, JobTrue
  <2> QED
    BY <2>1, <2>2, SettleArms
<1>6. ASSUME NEW i \in Run, ClearRetry(i) \/ ArmRead(i) \/ ArmWrite(i)
      PROVE  \A j \in Run : Arms(j)
  <2>1. /\ \A j \in Run : j # i => fin'[j] = fin[j]
        /\ fin'[i].at \in {"arm", "write"} => fin[i].at \in {"arm", "write"}
    BY <1>6 DEF ClearRetry, ArmRead, ArmWrite, TypeOK, NoFin
  <2> QED
    BY <2>1 DEF Arms
<1>7. CASE \E c \in Claimer : Claiming(c) \/ ClaimDies(c)
  BY <1>1, <1>3, <1>7 DEF Claiming, ClaimDies, ReadSlot, ReadRetry, TakeSlot,
     CheckRunning, TakeRetry, ClearStale, Start, Note
<1>8. ASSUME NEW i \in Run, Working(i)
      PROVE  \A j \in Run : Arms(j)
  BY <1>1, <1>2, <1>4, <1>8 DEF Working, Started, Renew, Post, Breaks,
     TimesOut, TurnEnds, JobDies
<1>9. ASSUME NEW i \in Run, Settling(i)
      PROVE  \A j \in Run : Arms(j)
  BY <1>1, <1>2, <1>5, <1>6, <1>9 DEF Settling, SettleDies, LeaseExpires,
     WaitsTooLong, SweepUnclaimed, PickUp
<1>10. CASE \/ \E r \in Routine : Editing(r) \/ RetryComes(r) \/ Redeploy(r)
            \/ \E e \in Tab : PatchWrite(e)
            \/ Tick \/ UNCHANGED vars
  BY <1>1, <1>10 DEF Editing, Create, Manual, EditText, Delete, PatchRead,
     RetryComes, Redeploy, PatchWrite, Tick, vars
<1> QED
  BY <1>7, <1>8, <1>9, <1>10 DEF Next

\* What is owed was owed, or begins to be armed.
LEMMA OwesGrows ==
    ASSUME TypeOK, Registered, Chained, [Next]_vars
    PROVE  \A i \in Run : Works(i) /\ Owes(i)' =>
             Owes(i) \/ fin'[i].at \in {"arm", "write"}
<1> SUFFICES ASSUME NEW i \in Run, Works(i), Owes(i)'
             PROVE  Owes(i) \/ fin'[i].at \in {"arm", "write"}
  OBVIOUS
<1>0. run'[i].of = run[i].of /\ run[i].of \in Routine
  BY RunsStayed, OfFacts DEF RunsStay, Works
<1>1. CASE rt'[run[i].of].retry = i
  <2>1. CASE RowsStay
    BY <1>0, <1>1, <2>1 DEF RowsStay, Owes, Run
  <2>2. ASSUME NEW j \in Run, ArmWrite(j)
        PROVE  Owes(i)
    <3>1. /\ fin[j].at = "write"
          /\ rt'[run[i].of].retry \in {rt[run[i].of].retry, j}
      <4>1. rt[run[i].of] \in Row
        BY <1>0 DEF TypeOK
      <4> QED
        BY <1>0, <2>2, <4>1 DEF ArmWrite, TypeOK, Row
    <3> QED
      BY <1>1, <3>1 DEF Owes
  <2>3. ASSUME NEW c \in Claimer, TakeRetry(c)
        PROVE  RowsStay
    <3>1. \A q \in Routine : rt'[q] = rt[q] \/ rt'[q] = Taken(rt[q])
      BY <2>3 DEF TakeRetry, TypeOK
    <3>2. \A q \in Routine : Taken(rt[q]).retry = 0
      BY DEF TypeOK, Taken, Row
    <3> QED
      BY <3>1, <3>2 DEF RowsStay
  <2>4. ASSUME NEW c \in Claimer, NEW r \in Routine, ReadRetry(c, r)
        PROVE  RowsStay
    BY <2>4, Stays DEF ReadRetry
  <2> QED
    BY <2>1, <2>2, <2>3, <2>4, CalmCases DEF Calm
<1>2. ASSUME NEW c \in Claimer, Starting(c)', claim'[c].key = i
      PROVE  Owes(i)
  <2>1. CASE ClaimsStay
    BY <1>2, <2>1 DEF ClaimsStay, Before, Starting, Owes
  <2>2. ASSUME NEW j \in Run, ArmWrite(j)
        PROVE  ClaimsStay
    BY <2>2, Stays DEF ArmWrite
  <2>3. ASSUME NEW d \in Claimer, TakeRetry(d)
        PROVE  Owes(i)
    <3>1. claim[d] \in Claim /\ claim[d].at = "take"
      BY <2>3, ClaimFacts DEF TakeRetry, At
    <3>2. CASE d # c
      <4>1. claim'[c] = claim[c]
        BY <2>3, <3>2 DEF TakeRetry, GivesUp, Goes, TypeOK
      <4> QED
        BY <1>2, <4>1 DEF Starting, Owes
    <3>3. CASE d = c
      <4>1. HasRetry(c) /\ Goes(c, "start")
        BY <1>2, <2>3, <3>3 DEF TakeRetry, GivesUp, Starting, TypeOK, NoClaim
      <4>2. claim'[c] = [claim[c] EXCEPT !.at = "start"]
        BY <3>1, <3>3, <4>1, ClaimGoes
      <4>3. claim[c].key = i
        BY <1>2, <3>1, <3>3, <4>2 DEF Claim
      <4>4. run[claim[c].key].of = claim[c].of
        BY <3>1, <3>3 DEF Chained
      <4> QED
        BY <4>1, <4>3, <4>4 DEF HasRetry, Owes
    <3> QED
      BY <3>2, <3>3
  <2>4. ASSUME NEW d \in Claimer, NEW r \in Routine, ReadRetry(d, r)
        PROVE  Owes(i)
    <3>1. claim'[d].at \in {"stale", "recheck"}
          /\ (d # c => claim'[c] = claim[c])
      BY <2>4 DEF ReadRetry, TypeOK
    <3> QED
      BY <1>2, <3>1 DEF Starting, Owes
  <2> QED
    BY <2>1, <2>2, <2>3, <2>4, CalmCases DEF Calm
<1> QED
  BY <1>0, <1>1, <1>2 DEF Owes

\* What is owed was owed, or has just failed with its work not done.
LEMMA OwesStep ==
    ASSUME TypeOK, Registered, Chained, JobsTrue,
           Faults \cap {"expire", "crash", "net"} = {}, [Next]_vars
    PROVE  \A i \in Run : Works(i) /\ Owes(i)' =>
             Owes(i) \/ (Running(i) /\ Over(i)')
  BY ArmsStep, OwesGrows DEF Arms, Owes

\* As long as no run of a slot is registered.
LEMMA WorkedSame ==
    ASSUME TypeOK, Registered, Chained, JobsTrue, WorkedOnce, [Next]_vars,
           Faults \cap {"expire", "crash", "net"} = {}
    PROVE  \A i, j \in Run : Works(i) /\ Works(j) /\ Mates(i, j)' =>
             /\ i # j => Over(i)' \/ Over(j)'
             /\ Owes(i)' => Over(j)'
             /\ Owes(i)' /\ Owes(j)' => i = j
<1> SUFFICES ASSUME NEW i \in Run, NEW j \in Run, Works(i), Works(j),
                    Mates(i, j)'
             PROVE  /\ i # j => Over(i)' \/ Over(j)'
                    /\ Owes(i)' => Over(j)'
                    /\ Owes(i)' /\ Owes(j)' => i = j
  OBVIOUS
<1>1. Mates(i, j) /\ Mates(j, i)
  BY RunsStayed DEF RunsStay, Mates, Works
<1>2. (Over(i) => Over(i)') /\ (Over(j) => Over(j)')
  BY TrulyStep DEF Truly, Works
<1>3. /\ Owes(i)' => Owes(i) \/ (Running(i) /\ Over(i)')
      /\ Owes(j)' => Owes(j) \/ (Running(j) /\ Over(j)')
  BY OwesStep
<1>4. /\ i # j => Over(i) \/ Over(j)
      /\ Owes(i) => Over(j)
      /\ Owes(j) => Over(i)
      /\ Owes(i) /\ Owes(j) => i = j
  BY <1>1 DEF WorkedOnce, Mates
<1>5. (Running(i) => ~Over(i)) /\ (Running(j) => ~Over(j))
  BY DEF Over
<1> QED
  BY <1>2, <1>3, <1>4, <1>5

\* A slot's first run has no mates; a retry is registered when a run of the
\* slot owes it, which then owes nothing more.
LEMMA RegisteredMates ==
    ASSUME TypeOK, Registered, SlotsApart, Chained, Rooted,
           NEW c \in Claimer, NEW k \in Run, NEW new \in RunRow,
           Registers(c, k, new), ~Starting(c)', UNCHANGED <<rt, fin>>,
           \A d \in Claimer : d # c => claim'[d] = claim[d]
    PROVE  \A j \in Run : Mates(k, j)' /\ j # k =>
             \E q \in Run : /\ Works(q) /\ Works(j)
                            /\ Mates(q, j) /\ Mates(j, q)
                            /\ Owes(q) /\ ~Owes(q)'
<1>1. /\ run[k] = Unused /\ run'[k] = new
      /\ \A j \in Run : j # k => run'[j] = run[j]
      /\ new.of = claim[c].of /\ new.trigger = claim[c].trigger
      /\ new.slot = SlotOf(claim[c]) /\ claim[c].at \in {"start", "missed"}
      /\ claim[c] \in Claim
  BY AddsFacts, ClaimFacts DEF Registers
<1> SUFFICES ASSUME NEW j \in Run, Mates(k, j)', j # k
             PROVE  \E q \in Run : /\ Works(q) /\ Works(j)
                                   /\ Mates(q, j) /\ Mates(j, q)
                                   /\ Owes(q) /\ ~Owes(q)'
  OBVIOUS
<1>2. /\ Works(j) /\ run[j].of = claim[c].of
      /\ run[j].slot = SlotOf(claim[c])
  BY <1>1 DEF Mates, Works
<1>3. CASE claim[c].trigger = "schedule"
  <2>1. PICK i \in Run : ByTimes(i) /\ Mates(j, i)
    BY <1>2 DEF Rooted
  <2>2. /\ Holding(c) /\ run[i].of = claim[c].of
        /\ run[i].slot = claim[c].key
    BY <1>1, <1>2, <1>3, <2>1 DEF Holding, Mates, SlotOf
  <2> QED
    BY <2>1, <2>2 DEF SlotsApart
<1>4. CASE claim[c].trigger = "retry"
  <2>1. Starting(c)
    BY <1>1, <1>4 DEF Starting, Registered
  <2>2. PICK q \in Run : q = claim[c].key
    BY <2>1, StartingFacts
  <2>3. /\ Works(q) /\ Armed(q) /\ run[q].of = claim[c].of
        /\ rt[claim[c].of].retry # q
    BY <2>1, <2>2 DEF Chained
  <2>4. Owes(q)
    BY <2>1, <2>2 DEF Owes
  <2>5. Mates(q, j) /\ Mates(j, q)
    BY <1>2, <1>4, <2>2, <2>3 DEF Mates, SlotOf
  <2>6. ~Owes(q)'
    <3>1. q # k /\ run'[q] = run[q]
      BY <1>1, <2>3 DEF Works
    <3>2. fin'[q].at = "idle" /\ rt'[run'[q].of].retry # q
      BY <2>3, <3>1 DEF Armed
    <3>3. \A d \in Claimer : Starting(d)' => claim'[d].key # q
      BY <2>1, <2>2 DEF Starting, Chained
    <3> QED
      BY <3>2, <3>3 DEF Owes
  <2> QED
    BY <1>2, <2>3, <2>4, <2>5, <2>6
<1> QED
  BY <1>1, <1>3, <1>4 DEF Claim

\* The run that is registered owes nothing.
LEMMA RegisteredOwesNot ==
    ASSUME TypeOK, Registered, Chained, NEW c \in Claimer, NEW k \in Run,
           NEW new \in RunRow, Registers(c, k, new), ~Starting(c)',
           UNCHANGED <<rt, fin>>,
           \A d \in Claimer : d # c => claim'[d] = claim[d]
    PROVE  ~Owes(k)'
<1>1. run[k] = Unused /\ run'[k] = new
  BY AddsFacts DEF Registers
<1>2. ~Works(k)
  BY <1>1 DEF Works
<1>3. fin'[k].at = "idle"
  BY <1>2 DEF Chained
<1>4. \A r \in Routine : rt'[r].retry # k
  BY <1>2 DEF Chained, Run
<1>5. \A d \in Claimer : Starting(d)' => claim'[d].key # k
  BY <1>2 DEF Chained, Starting
<1>6. run'[k].of \in Routine
  BY <1>1 DEF RunRow
<1> QED
  BY <1>3, <1>4, <1>5, <1>6 DEF Owes

\* A run is registered when every other of its slot is over and owes nothing.
LEMMA WorkedRegistered ==
    ASSUME TypeOK, Registered, SlotsApart, Chained, Rooted, JobsTrue,
           WorkedOnce, [Next]_vars,
           Faults \cap {"expire", "crash", "net"} = {},
           NEW c \in Claimer, NEW k \in Run, NEW new \in RunRow,
           Registers(c, k, new), ~Starting(c)', UNCHANGED <<rt, fin>>,
           \A d \in Claimer : d # c => claim'[d] = claim[d]
    PROVE  \A j \in Run : Mates(k, j)' /\ j # k =>
             /\ Works(j) /\ Over(j)' /\ ~Owes(j)'
<1> SUFFICES ASSUME NEW j \in Run, Mates(k, j)', j # k
             PROVE  Works(j) /\ Over(j)' /\ ~Owes(j)'
  OBVIOUS
<1>1. PICK q \in Run : /\ Works(q) /\ Works(j)
                       /\ Mates(q, j) /\ Mates(j, q)
                       /\ Owes(q) /\ ~Owes(q)'
  BY RegisteredMates
<1>2. Over(j)
  BY <1>1 DEF WorkedOnce
<1>3. Over(j)'
  BY <1>1, <1>2, TrulyStep DEF Truly, Works
<1>4. Owes(j)' => Owes(j)
  BY <1>1, <1>2, OwesStep DEF Over
<1>5. Owes(j)' => j = q
  BY <1>1, <1>4 DEF WorkedOnce
<1> QED
  BY <1>1, <1>3, <1>5

LEMMA WorkedStep ==
    ASSUME TypeOK, Registered, Slots, SlotsApart, Chained, Rooted, JobsTrue,
           WorkedOnce, [Next]_vars, TypeOK', Registered', Chained',
           Faults \cap {"expire", "crash", "net"} = {}
    PROVE  WorkedOnce'
<1>1. CASE \A i \in Run : Works(i)' => Works(i)
  <2>1. \A i, j \in Run : Mates(i, j)' => Works(i) /\ Works(j)
    BY <1>1 DEF Mates
  <2> QED
    BY <2>1, WorkedSame DEF WorkedOnce
<1>2. ASSUME NEW c \in Claimer, NEW k \in Run, NEW new \in RunRow,
             Registers(c, k, new), ~Starting(c)', UNCHANGED <<rt, fin>>,
             \A d \in Claimer : d # c => claim'[d] = claim[d]
      PROVE  WorkedOnce'
  <2>1. \A j \in Run : Mates(k, j)' /\ j # k =>
          Works(j) /\ Over(j)' /\ ~Owes(j)'
    BY <1>2, WorkedRegistered
  <2>2. \A i, j \in Run : Mates(i, j)' => Mates(j, i)'
    BY DEF Mates
  <2>3. \A i \in Run : i # k /\ Works(i)' => Works(i)
    BY <1>2, AddsFacts DEF Registers, Works
  <2>4. ~Owes(k)'
    BY <1>2, RegisteredOwesNot
  <2>5. ASSUME NEW i \in Run, NEW j \in Run, Mates(i, j)'
        PROVE  /\ i # j => Over(i)' \/ Over(j)'
               /\ Owes(i)' => Over(j)'
               /\ Owes(i)' /\ Owes(j)' => i = j
    <3>1. CASE i = k
      BY <2>1, <2>4, <2>5, <3>1
    <3>2. CASE j = k /\ i # k
      BY <2>1, <2>2, <2>4, <2>5, <3>2
    <3>3. CASE i # k /\ j # k
      <4>1. Works(i) /\ Works(j)
        BY <2>3, <2>5, <3>3 DEF Mates
      <4> QED
        BY <2>5, <4>1, WorkedSame
    <3> QED
      BY <3>1, <3>2, <3>3
  <2> QED
    BY <2>5 DEF WorkedOnce
<1> QED
  BY <1>1, <1>2, RunCases

\* The work of a slot is done once: of all runs of a slot, the one of its claim
\* and its retries, at most one has a turn that did the work or may still do it,
\* whoever settles, sweeps, claims and deletes at the same time.  It rests on
\* what settleRun tries again: no run whose turn may go on.  A job that dies, a
\* beat or an answer that is lost leave a turn nobody knows of, and a PATCH
\* that is overtaken may set the next time back; these are excluded.
THEOREM WorkIsDoneOnce ==
    ASSUME "patch" \notin Slow, Faults \cap {"expire", "crash", "net"} = {}
    PROVE  Spec => []SlotWorkOnce
<1> DEFINE WInv == Slots /\ SlotsApart /\ Chained /\ Rooted /\ JobsTrue
                   /\ WorkedOnce
<1>1. Init => WInv
  <2> SUFFICES ASSUME Init PROVE WInv
    OBVIOUS
  <2>1. Slots /\ SlotsApart
    BY DEF Init, Slots, SlotsApart, SlotOnce, ByTimes, Holding, NoClaim
  <2>2. PICK seat \in BOOLEAN : rt = [r \in Routine |-> NoRow(seat)]
    BY Zenon DEF Init
  <2>3. /\ \A r \in Routine : rt[r].retry = 0
        /\ \A i \in Run : ~Works(i) /\ fin[i].at = "idle"
        /\ \A c \in Claimer : claim[c].at = "idle"
    BY <2>2 DEF Init, NoRow, Works, NoFin, NoClaim
  <2>4. Chained /\ Rooted /\ WorkedOnce
    BY <2>3 DEF Chained, Rooted, WorkedOnce, Starting, Mates
  <2>5. JobsTrue
    BY <2>3 DEF Init, JobsTrue, JobTrue, NoJob
  <2> QED
    BY <2>1, <2>4, <2>5
<1>2. TypeOK /\ Registered /\ TypeOK' /\ Registered' /\ WInv /\ [Next]_vars
        => WInv'
  <2> SUFFICES ASSUME TypeOK, Registered, TypeOK', Registered', WInv,
                      [Next]_vars
               PROVE  WInv'
    OBVIOUS
  <2>1. Slots' /\ SlotsApart'
    BY StepCases, SlotsMinor, SlotsClaimed, SlotsEdited
  <2>2. Chained' /\ Rooted'
    BY ChainedStep, RootedStep
  <2>3. JobsTrue'
    BY TrulyStep DEF Truly, JobsTrue
  <2>4. WorkedOnce'
    BY <2>2, WorkedStep
  <2> QED
    BY <2>1, <2>2, <2>3, <2>4
<1>3. TypeOK /\ WInv => SlotWorkOnce
  BY DEF WorkedOnce, SlotWorkOnce, Mates, Works, Over
<1> HIDE DEF WInv
<1> QED
  BY <1>1, <1>2, <1>3, TypeCorrect, PTL DEF Spec

-----------------------------------------------------------------------------
(* Done is done.                                                           *)

Failed(i) == run[i].status \in {"error", "gone"}

FailedOnce ==
    /\ \A i, j \in Run : Mates(i, j) /\ i # j => Failed(i) \/ Failed(j)
    /\ \A i, j \in Run : Mates(i, j) /\ Owes(i) => Failed(j)
    /\ \A i, j \in Run : Mates(i, j) /\ Owes(i) /\ Owes(j) => i = j

\* What begins to be owed: a run that has just failed.
ArmsFailed(i) ==
    fin'[i].at \in {"arm", "write"} =>
      \/ fin[i].at \in {"arm", "write"}
      \/ Running(i) /\ Failed(i)'

\* settleRun arms no run that it settles as done.
LEMMA SettleArmsFailed ==
    ASSUME TypeOK, NEW i \in Run, NEW s \in {"ok", "error"}, NEW b \in BOOLEAN,
           Settle(i, s, b)
    PROVE  \A j \in Run : ArmsFailed(j)
<1>1. CASE UNCHANGED fin
  BY <1>1 DEF ArmsFailed
<1>2. CASE ~UNCHANGED fin
  <2>1. /\ Running(i) /\ run' = [run EXCEPT ![i].status = s]
        /\ fin' = [fin EXCEPT ![i].at = IF s = "ok" \/ ~b THEN "clear"
                                        ELSE "arm"]
    BY <1>2 DEF Settle, Finished
  <2>2. fin[i] \in Fin /\ run[i] \in RunRow
    BY <2>1, RunFacts DEF TypeOK
  <2>3. /\ fin'[i].at = IF s = "ok" \/ ~b THEN "clear" ELSE "arm"
        /\ \A j \in Run : j # i => fin'[j] = fin[j]
    BY <2>1, <2>2 DEF TypeOK, Fin
  <2>4. run'[i].status = s
    BY <2>1, <2>2 DEF TypeOK, RunRow
  <2> QED
    BY <2>1, <2>3, <2>4 DEF ArmsFailed, Failed
<1> QED
  BY <1>1, <1>2

LEMMA ArmsFailedStep ==
    ASSUME TypeOK, [Next]_vars
    PROVE  \A j \in Run : ArmsFailed(j)
<1>1. CASE UNCHANGED fin
  BY <1>1 DEF ArmsFailed
<1>2. ASSUME NEW i \in Run, NEW b \in BOOLEAN, Settle(i, "error", b)
      PROVE  \A j \in Run : ArmsFailed(j)
  BY <1>2, SettleArmsFailed
<1>3. ASSUME NEW c \in Claimer, Close(c)
      PROVE  \A j \in Run : ArmsFailed(j)
  <2>1. CASE claim[c].run \in Run
    BY <1>1, <1>2, <1>3, <2>1 DEF Close
  <2>2. CASE claim[c].run \notin Run
    <3>1. \A v : [fin EXCEPT ![claim[c].run] = v] = fin
      BY <2>2 DEF TypeOK
    <3>2. UNCHANGED fin
      BY <1>3, <3>1 DEF Close, Settle
    <3> QED
      BY <1>1, <3>2
  <2> QED
    BY <2>1, <2>2
<1>4. ASSUME NEW i \in Run, Finish(i)
      PROVE  \A j \in Run : ArmsFailed(j)
  <2>1. \/ UNCHANGED fin
        \/ \E s \in {"ok", "error"} : Settle(i, s, Retryable(job[i].kind))
    BY <1>4 DEF Finish
  <2>2. Retryable(job[i].kind) \in BOOLEAN
    BY DEF Retryable
  <2> QED
    BY <1>1, <2>1, <2>2, SettleArmsFailed
<1>5. ASSUME NEW i \in Run, ClearRetry(i) \/ ArmRead(i) \/ ArmWrite(i)
                            \/ SettleDies(i)
      PROVE  \A j \in Run : ArmsFailed(j)
  <2>1. /\ \A j \in Run : j # i => fin'[j] = fin[j]
        /\ fin'[i].at \in {"arm", "write"} => fin[i].at \in {"arm", "write"}
    BY <1>5 DEF ClearRetry, ArmRead, ArmWrite, SettleDies, TypeOK, NoFin
  <2> QED
    BY <2>1 DEF ArmsFailed
<1>6. CASE \E c \in Claimer : Claiming(c) \/ ClaimDies(c)
  BY <1>1, <1>3, <1>6 DEF Claiming, ClaimDies, ReadSlot, ReadRetry, TakeSlot,
     CheckRunning, TakeRetry, ClearStale, Start, Note
<1>7. ASSUME NEW i \in Run, Working(i)
      PROVE  \A j \in Run : ArmsFailed(j)
  BY <1>1, <1>2, <1>4, <1>7 DEF Working, Started, Renew, Post, Breaks,
     TimesOut, TurnEnds, JobDies
<1>8. ASSUME NEW i \in Run, Settling(i)
      PROVE  \A j \in Run : ArmsFailed(j)
  BY <1>1, <1>2, <1>5, <1>8 DEF Settling, LeaseExpires, WaitsTooLong,
     SweepLease, SweepUnclaimed, PickUp
<1>9. CASE \/ \E r \in Routine : Editing(r) \/ RetryComes(r) \/ Redeploy(r)
           \/ \E e \in Tab : PatchWrite(e)
           \/ Tick \/ UNCHANGED vars
  BY <1>1, <1>9 DEF Editing, Create, Manual, EditText, Delete, PatchRead,
     RetryComes, Redeploy, PatchWrite, Tick, vars
<1> QED
  BY <1>6, <1>7, <1>8, <1>9 DEF Next

\* What a step leaves of two runs of a slot.
LEMMA FailedSame ==
    ASSUME TypeOK, Registered, Chained, FailedOnce, [Next]_vars
    PROVE  \A i, j \in Run : Works(i) /\ Works(j) /\ Mates(i, j)' =>
             /\ i # j => Failed(i)' \/ Failed(j)'
             /\ Owes(i)' => Failed(j)'
             /\ Owes(i)' /\ Owes(j)' => i = j
<1> SUFFICES ASSUME NEW i \in Run, NEW j \in Run, Works(i), Works(j),
                    Mates(i, j)'
             PROVE  /\ i # j => Failed(i)' \/ Failed(j)'
                    /\ Owes(i)' => Failed(j)'
                    /\ Owes(i)' /\ Owes(j)' => i = j
  OBVIOUS
<1>1. Mates(i, j) /\ Mates(j, i)
  BY RunsStayed DEF RunsStay, Mates, Works
<1>2. (Failed(i) => Failed(i)') /\ (Failed(j) => Failed(j)')
  BY SettledStep DEF Failed
<1>3. /\ Owes(i)' => Owes(i) \/ (Running(i) /\ Failed(i)')
      /\ Owes(j)' => Owes(j) \/ (Running(j) /\ Failed(j)')
  BY ArmsFailedStep, OwesGrows DEF ArmsFailed, Owes
<1>4. /\ i # j => Failed(i) \/ Failed(j)
      /\ Owes(i) => Failed(j)
      /\ Owes(j) => Failed(i)
      /\ Owes(i) /\ Owes(j) => i = j
  BY <1>1 DEF FailedOnce
<1>5. (Running(i) => ~Failed(i)) /\ (Running(j) => ~Failed(j))
  BY DEF Failed, Running
<1> QED
  BY <1>2, <1>3, <1>4, <1>5

LEMMA FailedStep ==
    ASSUME TypeOK, Registered, SlotsApart, Chained, Rooted, FailedOnce,
           [Next]_vars
    PROVE  FailedOnce'
<1>1. CASE \A i \in Run : Works(i)' => Works(i)
  <2>1. \A i, j \in Run : Mates(i, j)' => Works(i) /\ Works(j)
    BY <1>1 DEF Mates
  <2> QED
    BY <2>1, FailedSame DEF FailedOnce
<1>2. ASSUME NEW c \in Claimer, NEW k \in Run, NEW new \in RunRow,
             Registers(c, k, new), ~Starting(c)', UNCHANGED <<rt, fin>>,
             \A d \in Claimer : d # c => claim'[d] = claim[d]
      PROVE  FailedOnce'
  <2>1. ASSUME NEW j \in Run, Mates(k, j)', j # k
        PROVE  Failed(j)' /\ ~Owes(j)'
    <3>1. PICK q \in Run : /\ Works(q) /\ Works(j)
                           /\ Mates(q, j) /\ Mates(j, q)
                           /\ Owes(q) /\ ~Owes(q)'
      BY <1>2, <2>1, RegisteredMates
    <3>2. Failed(j)
      BY <3>1 DEF FailedOnce
    <3>3. Failed(j)'
      BY <3>2, SettledStep DEF Failed
    <3>4. Owes(j)' => Owes(j)
      BY <3>1, <3>2, ArmsFailedStep, OwesGrows
         DEF ArmsFailed, Owes, Failed, Running
    <3>5. Owes(j)' => j = q
      BY <3>1, <3>4 DEF FailedOnce
    <3> QED
      BY <3>1, <3>3, <3>5
  <2>2. \A i, j \in Run : Mates(i, j)' => Mates(j, i)'
    BY DEF Mates
  <2>3. \A i \in Run : i # k /\ Works(i)' => Works(i)
    BY <1>2, AddsFacts DEF Registers, Works
  <2>4. ~Owes(k)'
    BY <1>2, RegisteredOwesNot
  <2>5. ASSUME NEW i \in Run, NEW j \in Run, Mates(i, j)'
        PROVE  /\ i # j => Failed(i)' \/ Failed(j)'
               /\ Owes(i)' => Failed(j)'
               /\ Owes(i)' /\ Owes(j)' => i = j
    <3>1. CASE i = k
      BY <2>1, <2>4, <2>5, <3>1
    <3>2. CASE j = k /\ i # k
      BY <2>1, <2>2, <2>4, <2>5, <3>2
    <3>3. CASE i # k /\ j # k
      <4>1. Works(i) /\ Works(j)
        BY <2>3, <2>5, <3>3 DEF Mates
      <4> QED
        BY <2>5, <4>1, FailedSame
    <3> QED
      BY <3>1, <3>2, <3>3
  <2> QED
    BY <2>5 DEF FailedOnce
<1> QED
  BY <1>1, <1>2, RunCases

\* Once a run of a slot is reported as done, none of its other runs is on or
\* done too: a retry hangs on a run that failed, and only one of them is owed
\* at a time, whatever fails and whoever settles late.  A PATCH that is
\* overtaken may set the next time back, so that a slot comes twice.
THEOREM DoneStaysDone ==
    ASSUME "patch" \notin Slow
    PROVE  Spec => []DoneIsDone
<1> DEFINE DInv == Slots /\ SlotsApart /\ Chained /\ Rooted /\ FailedOnce
<1>1. Init => DInv
  <2> SUFFICES ASSUME Init PROVE DInv
    OBVIOUS
  <2>1. Slots /\ SlotsApart
    BY DEF Init, Slots, SlotsApart, SlotOnce, ByTimes, Holding, NoClaim
  <2>2. PICK seat \in BOOLEAN : rt = [r \in Routine |-> NoRow(seat)]
    BY Zenon DEF Init
  <2>3. /\ \A r \in Routine : rt[r].retry = 0
        /\ \A i \in Run : ~Works(i) /\ fin[i].at = "idle"
        /\ \A c \in Claimer : claim[c].at = "idle"
    BY <2>2 DEF Init, NoRow, Works, NoFin, NoClaim
  <2>4. Chained /\ Rooted /\ FailedOnce
    BY <2>3 DEF Chained, Rooted, FailedOnce, Starting, Mates
  <2> QED
    BY <2>1, <2>4
<1>2. TypeOK /\ Registered /\ TypeOK' /\ Registered' /\ DInv /\ [Next]_vars
        => DInv'
  <2> SUFFICES ASSUME TypeOK, Registered, TypeOK', Registered', DInv,
                      [Next]_vars
               PROVE  DInv'
    OBVIOUS
  <2>1. Slots' /\ SlotsApart'
    BY StepCases, SlotsMinor, SlotsClaimed, SlotsEdited
  <2>2. Chained' /\ Rooted'
    BY ChainedStep, RootedStep
  <2>3. FailedOnce'
    BY FailedStep
  <2> QED
    BY <2>1, <2>2, <2>3
<1>3. TypeOK /\ DInv => DoneIsDone
  BY DEF FailedOnce, DoneIsDone, Mates, Works, Failed
<1> HIDE DEF DInv
<1> QED
  BY <1>1, <1>2, <1>3, TypeCorrect, PTL DEF Spec

=============================================================================
