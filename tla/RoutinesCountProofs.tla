------------------------- MODULE RoutinesCountProofs -------------------------
(***************************************************************************)
(* The retries of a slot are bounded (RetriesAreBounded).  The count of a  *)
(* routine is begun again whenever something clears it, also while runs of *)
(* an earlier slot are on; what bounds the retries is that the next time   *)
(* moves on whenever that happens, or that nothing else is under way.      *)
(***************************************************************************)
EXTENDS RoutinesRetryProofs

-----------------------------------------------------------------------------
(* Retries are counted.                                                    *)

RetriesOf(r, s) ==
    {i \in RunsOf(r) : run[i].trigger = "retry" /\ run[i].slot = s}

\* MaxRetry retries of a slot for each slot that has come since, as long as
\* the writes of a handler are not overtaken by another's (see the theorem).
\* docs/routines.md:192 has MaxRetry for the slot altogether.  That is not so:
\* a slot that comes while a retry of the last one is on is dropped, but its
\* claim has set the count to 0 by then.
RetriesBounded ==
    \A r \in Routine, s \in 1..MaxSlot :
        LET slots == IF Due(s) THEN clock \div 2 - s + 1 ELSE 0
        IN  Cardinality(RetriesOf(r, s)) <= MaxRetry * slots

\* Nothing refers to a routine that has not been created.
Known ==
    /\ \A i \in Run : Works(i) => rt[run[i].of].life # "none"
    /\ \A c \in Claimer : claim[c].at # "idle" => rt[claim[c].of].life # "none"

Retried(r, s) == Cardinality(RetriesOf(r, s))

\* The slots from s on, up to the next time, leave so many retries to slot s;
\* with used of them registered or in hand, and count of those counted, what
\* may still be counted up fits.
Left(next, s, used, count) == used + MaxRetry <= MaxRetry * (next - s) + count

\* The run can still be tried again; what has been decided about it is not
\* written; a poll is between the read and the end of its claim.
Open(i) == Works(i) /\ (Running(i) \/ fin[i].at = "arm")
Ends(i, r) == Works(i) /\ run[i].of = r /\ (Running(i) \/ fin[i].at # "idle")
Party(c, r) ==
    /\ claim[c].at # "idle" /\ claim[c].of = r
    /\ Starting(c) \/ Holding(c) \/ claim[c].at = "stale"

SlotOfKey(c) == run[claim[c].key].slot

\* What is under way for a routine fits, by its present count.
RunWithin(i, r) ==
    LET s == run[i].slot IN
    /\ s < rt[r].next
    /\ Open(i) => Left(rt[r].next, s, Retried(r, s), rt[r].count)
    /\ fin[i].at = "write" =>
         Left(rt[r].next, s, Retried(r, s) + 1, fin[i].count)
    /\ rt[r].retry = i => Left(rt[r].next, s, Retried(r, s) + 1, rt[r].count)

ClaimWithin(c, r) ==
    /\ Starting(c) =>
         LET s == SlotOfKey(c)
         IN  Left(rt[r].next, s, Retried(r, s) + 1, rt[r].count)
    /\ Holding(c) => claim[c].key < rt[r].next

Within(r) ==
    /\ \A i \in Run : Works(i) /\ run[i].of = r => RunWithin(i, r)
    /\ \A c \in Claimer : Party(c, r) => ClaimWithin(c, r)

\* It would fit if the count began again.
Relaxed(r) ==
    /\ \A i \in Run : Open(i) /\ run[i].of = r =>
         LET s == run[i].slot IN Left(rt[r].next, s, Retried(r, s), 0)
    /\ \A c \in Claimer : Starting(c) /\ claim[c].of = r =>
         LET s == SlotOfKey(c) IN Left(rt[r].next, s, Retried(r, s) + 1, 0)

\* One run, or one claim, is all that is under way.
SoleRun(r) ==
    /\ rt[r].retry = 0
    /\ \A c \in Claimer : ~Party(c, r)
    /\ \A i, j \in Run : Ends(i, r) /\ Ends(j, r) => i = j
SoleClaim(r) ==
    /\ rt[r].retry = 0
    /\ \A i \in Run : ~Ends(i, r)
    /\ \A c, d \in Claimer : Party(c, r) /\ Party(d, r) => c = d

\* The count is begun again only for what does not need it, or is alone.
Fitting(r) ==
    There(r) => Within(r) /\ (Relaxed(r) \/ SoleRun(r) \/ SoleClaim(r))

\* What is armed has been counted.
Counts ==
    /\ \A r \in Routine : /\ rt[r].count <= MaxRetry
                          /\ rt[r].retry # 0 => rt[r].count # 0
    /\ \A i \in Run : fin[i].at = "write" => fin[i].count \in 1..MaxRetry

\* A retry that can be taken finds no claim under way.
InTime ==
    /\ \A r \in Routine : There(r) /\ rt[r].retryAt \in {"due", "late"} =>
         \A c \in Claimer : claim[c].at # "idle" /\ claim[c].of = r =>
           ~Starting(c) /\ ~Holding(c)
    /\ \A c \in Claimer : claim[c].at # "idle" /\ There(claim[c].of) =>
         LET r == claim[c].of IN
         /\ claim[c].at \in {"recheck", "take"} /\ claim[c].key = rt[r].retry =>
              /\ rt[r].retryAt = "due" /\ rt[r].text
              /\ claim[c].at = "take" => \A i \in RunsOf(r) :
                   Running(i) => run[i].trigger = "manual"
         /\ claim[c].at = "stale" => rt[r].retryAt # "due" \/ ~rt[r].text
    /\ \A c, d \in Claimer :
         c # d /\ Starting(c) /\ Starting(d) => claim[c].of # claim[d].of

\* Next times lie at most one slot ahead, and a PATCH puts none back.
Ahead ==
    /\ \A r \in Routine : There(r) =>
         rt[r].active /\ rt[r].next <= clock \div 2 + 1
    /\ \A c \in Claimer : claim[c].at = "slot" =>
         claim[c].next <= clock \div 2 + 1
    /\ \A e \in Tab : tab[e] # NoPatch =>
         /\ tab[e].what \notin {"off", "noTimes"}
         /\ There(tab[e].of) =>
              LET row == rt[tab[e].of] IN
              /\ row.next <= tab[e].next /\ tab[e].next <= clock \div 2 + 1
              /\ tab[e].clear => row.next = 0

-----------------------------------------------------------------------------
(* Counting.                                                               *)

\* The retries of a slot are finitely many, and one more when one is added.
LEMMA RetriedFacts ==
    ASSUME NEW r, NEW s
    PROVE  /\ IsFiniteSet(RetriesOf(r, s)) /\ Retried(r, s) \in Nat
           /\ Retried(r, s)' \in Nat
<1>1. IsFiniteSet(Run)
  BY LimitsAssumption, FS_Interval DEF Run
<1>2. RetriesOf(r, s) \in SUBSET Run /\ RetriesOf(r, s)' \in SUBSET Run
  BY DEF RetriesOf, RunsOf
<1> QED
  BY <1>1, <1>2, FS_Subset, FS_CardinalityType DEF Retried

\* Next times that only grow leave no less room.
LEMMA RoomGrows ==
    ASSUME NEW a \in Nat, NEW b \in Nat, NEW s \in Nat, a <= b
    PROVE  /\ MaxRetry * (a - s) \in Int
           /\ MaxRetry * (a - s) <= MaxRetry * (b - s)
           /\ a < b => MaxRetry * (a - s) + MaxRetry <= MaxRetry * (b - s)
           /\ s < a => MaxRetry <= MaxRetry * (a - s)
<1>1. MaxRetry \in Nat
  BY LimitsAssumption
<1>2. \A m, d \in Nat : m * d \in Nat
  OBVIOUS
<1>3. PICK d \in Nat : b = a + d
  <2>1. b - a \in Nat /\ b = a + (b - a)
    OBVIOUS
  <2> QED
    BY <2>1
<1>4. MaxRetry * (b - s) = MaxRetry * (a - s) + MaxRetry * d
  BY <1>1, <1>3
<1>5. MaxRetry * (a - s) \in Int /\ MaxRetry * d \in Nat
  BY <1>1, <1>2, <1>3
<1>6. ASSUME NEW e \in Nat, e # 0
      PROVE  MaxRetry <= MaxRetry * e
  <2>1. e - 1 \in Nat /\ e = (e - 1) + 1
    BY <1>6
  <2>2. MaxRetry * e = MaxRetry * (e - 1) + MaxRetry
    BY <1>1, <2>1
  <2> QED
    BY <1>1, <1>2, <2>1, <2>2
<1>7. a < b => MaxRetry <= MaxRetry * d
  BY <1>3, <1>6
<1>8. s < a => a - s \in Nat /\ a - s # 0
  OBVIOUS
<1>9. s < a => MaxRetry <= MaxRetry * (a - s)
  BY <1>6, <1>8
<1> QED
  BY <1>1, <1>4, <1>5, <1>7, <1>9

\* What fits keeps fitting when the next time moves on or more is counted.
LEMMA LeftStays ==
    ASSUME NEW a \in Nat, NEW b \in Nat, a <= b, NEW s \in Nat,
           NEW used \in Nat, NEW count \in Nat, NEW more \in Nat,
           count <= more, Left(a, s, used, count)
    PROVE  Left(b, s, used, more)
<1>1. /\ MaxRetry \in Nat /\ MaxRetry * (a - s) \in Int
      /\ MaxRetry * (b - s) \in Int
      /\ MaxRetry * (a - s) <= MaxRetry * (b - s)
  BY LimitsAssumption, RoomGrows
<1> QED
  BY <1>1 DEF Left

\* Facts about what is numbered.
LEMMA NumberFacts ==
    ASSUME TypeOK, Registered
    PROVE  /\ MaxRetry \in Nat /\ clock \in Nat
           /\ \A r \in Routine : rt[r].next \in Nat /\ rt[r].count \in Nat
           /\ \A i \in Run : fin[i].count \in Nat
           /\ \A i \in Run :
                Works(i) => run[i].slot \in Nat /\ run[i].of \in Routine
           /\ \A c \in Claimer : Starting(c) =>
                SlotOfKey(c) \in Nat /\ claim[c].of \in Routine
<1>1. \A i \in Run :
        run[i] # Unused => run[i].slot \in Nat /\ run[i].of \in Routine
  BY OfFacts DEF RunRow
<1>2. \A c \in Claimer : Starting(c) =>
        /\ claim[c].key \in Run /\ run[claim[c].key] # Unused
        /\ claim[c].of \in Routine
  BY StartingFacts DEF Starting, Registered
<1> QED
  BY <1>1, <1>2, LimitsAssumption DEF TypeOK, Row, Fin, Works, SlotOfKey

-----------------------------------------------------------------------------
(* Steps that leave what is under way for a routine as it fits.            *)

RowEase(r) ==
    There(r)' => /\ There(r) /\ rt[r].next <= rt'[r].next
                 /\ rt'[r].retry = rt[r].retry /\ rt'[r].count = rt[r].count

RunEase(i) == SameRun(i) /\ (Running(i)' => Running(i))

FinEase(i) ==
    /\ fin'[i].at = "arm" => Open(i)
    /\ fin'[i].at = "write" =>
         \/ fin'[i] = fin[i]
         \/ /\ fin[i].at = "arm" /\ Works(i)
            /\ fin'[i].count = rt[run[i].of].count + 1
    /\ fin'[i].at # "idle" => Works(i) /\ (Running(i) \/ fin[i].at # "idle")

ClaimEase(c, r) ==
    Party(c, r)' =>
      /\ Party(c, r) \/ rt[r].retry # 0
      /\ Starting(c)' =>
           Starting(c) /\ Party(c, r) /\ SlotOfKey(c)' = SlotOfKey(c)
      /\ Holding(c)' =>
           Holding(c) /\ Party(c, r) /\ claim'[c].key = claim[c].key

RetriesSame(r) == \A s \in Nat : RetriesOf(r, s)' = RetriesOf(r, s)

RunsEase(r) ==
    \A i \in Run : Works(i)' /\ run'[i].of = r => Works(i) /\ RunEase(i)

Eases(r) ==
    /\ RowEase(r) /\ RunsEase(r) /\ RetriesSame(r)
    /\ \A i \in Run : FinEase(i)
    /\ \A c \in Claimer : ClaimEase(c, r)

LEMMA FittingEases ==
    ASSUME TypeOK, TypeOK', Registered, NEW r \in Routine, Fitting(r), Eases(r)
    PROVE  Fitting(r)'
<1> SUFFICES ASSUME There(r)'
             PROVE  Within(r)' /\ (Relaxed(r)' \/ SoleRun(r)' \/ SoleClaim(r)')
  BY DEF Fitting
<1>1. /\ There(r) /\ rt[r].next <= rt'[r].next
      /\ rt'[r].retry = rt[r].retry /\ rt'[r].count = rt[r].count
  BY DEF Eases, RowEase
<1>2. Within(r) /\ (Relaxed(r) \/ SoleRun(r) \/ SoleClaim(r))
  BY <1>1 DEF Fitting
<1>3. \A s \in Nat : Retried(r, s)' = Retried(r, s) /\ Retried(r, s) \in Nat
  BY RetriedFacts DEF Eases, RetriesSame, Retried
<1>4. /\ MaxRetry \in Nat /\ rt[r].next \in Nat /\ rt[r].count \in Nat
      /\ rt'[r].next \in Nat
  BY NumberFacts DEF TypeOK, Row
<1>12. \A s \in Nat : /\ MaxRetry * (rt[r].next - s) \in Int
                     /\ MaxRetry * (rt'[r].next - s) \in Int
                     /\ MaxRetry * (rt[r].next - s)
                          <= MaxRetry * (rt'[r].next - s)
  BY <1>1, <1>4, RoomGrows
<1>5. ASSUME NEW i \in Run, Works(i)', run'[i].of = r
      PROVE  /\ Works(i) /\ run[i].of = r /\ run'[i].slot = run[i].slot
             /\ run[i].slot \in Nat
             /\ Open(i)' => Open(i)
             /\ Ends(i, r)' => Ends(i, r)
             /\ fin'[i].at = "write" =>
                  \/ fin'[i] = fin[i]
                  \/ Open(i) /\ fin'[i].count = rt[r].count + 1
  <2>1. Works(i) /\ RunEase(i) /\ FinEase(i)
    BY <1>5 DEF Eases, RunsEase
  <2>2. /\ run[i].of = r /\ run'[i].slot = run[i].slot /\ run[i].slot \in Nat
        /\ Running(i)' => Running(i)
    BY <1>5, <2>1, NumberFacts DEF RunEase, SameRun, Works
  <2>3. Open(i)' => Open(i)
    BY <2>1, <2>2 DEF FinEase, Open
  <2> QED
    BY <1>5, <2>1, <2>2, <2>3 DEF FinEase, Open, Ends
<1>6. ASSUME NEW i \in Run, Works(i)', run'[i].of = r
      PROVE  RunWithin(i, r)'
  <2>1. PICK s \in Nat : s = run[i].slot
    BY <1>5, <1>6
  <2>2. run'[i].slot = s /\ RunWithin(i, r)
    BY <1>2, <1>5, <1>6, <2>1 DEF Within
  <2>3. PICK n \in Nat : n = Retried(r, s) /\ n = Retried(r, s)'
    BY <1>3
  <2>4. s < rt'[r].next
    BY <1>1, <1>4, <2>1, <2>2 DEF RunWithin
  <2>5. Open(i) => Left(rt[r].next, s, n, rt[r].count)
    BY <2>1, <2>2, <2>3 DEF RunWithin
  <2>6. Open(i)' => Left(rt'[r].next, s, n, rt'[r].count)
    BY <1>1, <1>4, <1>5, <1>6, <2>5, LeftStays, SMTT(30)
  <2>7. rt[r].retry = i => Left(rt[r].next, s, n + 1, rt[r].count)
    BY <2>1, <2>2, <2>3 DEF RunWithin
  <2>8. rt'[r].retry = i => Left(rt'[r].next, s, n + 1, rt'[r].count)
    BY <1>1, <1>4, <2>7, LeftStays, SMTT(30)
  <2>9. fin'[i].at = "write" => Left(rt'[r].next, s, n + 1, fin'[i].count)
    <3>1. CASE fin'[i] = fin[i]
      <4>1. fin[i].at = "write" => Left(rt[r].next, s, n + 1, fin[i].count)
        BY <2>1, <2>2, <2>3 DEF RunWithin
      <4>2. PICK m \in Nat : m = fin[i].count /\ m = fin'[i].count
        BY <3>1, NumberFacts
      <4>3. PICK a \in Nat, b \in Nat :
              a = rt[r].next /\ b = rt'[r].next /\ a <= b
        BY <1>1, <1>4
      <4>4. n + 1 \in Nat
        OBVIOUS
      <4>5. Left(a, s, n + 1, m) => Left(b, s, n + 1, m)
        BY <4>3, <4>4, LeftStays
      <4>6. fin[i].at = "write" => Left(a, s, n + 1, m)
        BY <4>1, <4>2, <4>3
      <4> QED
        BY <3>1, <4>2, <4>3, <4>5, <4>6
    <3>2. CASE Open(i) /\ fin'[i].count = rt[r].count + 1
      <4>1. Left(rt[r].next, s, n + 1, rt[r].count + 1)
        <5>1. MaxRetry * (rt[r].next - s) \in Int
          BY <1>4, RoomGrows
        <5> QED
          BY <1>4, <2>5, <3>2, <5>1 DEF Left
      <4>2. PICK a \in Nat, b \in Nat :
              a = rt[r].next /\ b = rt'[r].next /\ a <= b
        BY <1>1, <1>4
      <4>3. PICK k \in Nat, m \in Nat : k = n + 1 /\ m = rt[r].count + 1
        <5>1. n + 1 \in Nat
          OBVIOUS
        <5>2. rt[r].count + 1 \in Nat
          BY <1>4
        <5> QED
          BY <5>1, <5>2, Zenon
      <4>4. Left(a, s, k, m)
        BY <4>1, <4>2, <4>3
      <4>5. Left(b, s, k, m)
        BY <4>2, <4>4, LeftStays, SMTT(30)
      <4> QED
        BY <3>2, <4>2, <4>3, <4>5
    <3> QED
      BY <1>5, <1>6, <3>1, <3>2
  <2> QED
    BY <2>2, <2>3, <2>4, <2>6, <2>8, <2>9 DEF RunWithin
<1>7. ASSUME NEW c \in Claimer, Party(c, r)'
      PROVE  /\ Starting(c)' => /\ Starting(c) /\ Party(c, r)
                                /\ SlotOfKey(c)' = SlotOfKey(c)
                                /\ SlotOfKey(c) \in Nat
             /\ Holding(c)' => /\ Holding(c) /\ Party(c, r)
                               /\ claim'[c].key = claim[c].key
  BY <1>7, NumberFacts DEF Eases, ClaimEase
<1>8. ASSUME NEW c \in Claimer, Party(c, r)'
      PROVE  ClaimWithin(c, r)'
  <2>1. ASSUME Starting(c)', NEW s \in Nat, s = SlotOfKey(c)'
        PROVE  Left(rt'[r].next, s, Retried(r, s)' + 1, rt'[r].count)
    <3>1. Starting(c) /\ Party(c, r) /\ s = SlotOfKey(c)
      BY <1>7, <1>8, <2>1
    <3>2. Left(rt[r].next, s, Retried(r, s) + 1, rt[r].count)
      BY <1>2, <3>1 DEF Within, ClaimWithin
    <3>3. Retried(r, s)' = Retried(r, s) /\ Retried(r, s) \in Nat
      BY <1>3, <2>1
    <3>4. Left(rt'[r].next, s, Retried(r, s) + 1, rt[r].count)
      BY <1>4, <1>12, <2>1, <3>2, <3>3 DEF Left
    <3> QED
      BY <1>1, <3>3, <3>4
  <2>2. Holding(c)' => claim'[c].key < rt'[r].next
    <3>1. Holding(c)' => claim[c].key < rt[r].next /\ claim[c].key \in Nat
      BY <1>2, <1>7, <1>8, HolderTypes DEF Within, ClaimWithin
    <3> QED
      BY <1>1, <1>4, <1>7, <1>8, <3>1
  <2>3. Starting(c)' => SlotOfKey(c)' \in Nat
    BY <1>7, <1>8
  <2> QED
    BY <2>1, <2>2, <2>3 DEF ClaimWithin
<1>9. CASE Relaxed(r)
  <2>1. ASSUME NEW i \in Run, Open(i)', run'[i].of = r
        PROVE  \E s \in Nat :
                 /\ s = run'[i].slot
                 /\ Left(rt'[r].next, s, Retried(r, s)', 0)
    <3>1. PICK s \in Nat : s = run[i].slot /\ s = run'[i].slot /\ Open(i)
                            /\ run[i].of = r
      BY <1>5, <2>1 DEF Open
    <3>2. Left(rt[r].next, s, Retried(r, s), 0)
      BY <1>9, <3>1 DEF Relaxed
    <3>3. Left(rt'[r].next, s, Retried(r, s)', 0)
      <4>1. Retried(r, s)' = Retried(r, s) /\ Retried(r, s) \in Nat
        BY <1>3
      <4>2. Left(rt'[r].next, s, Retried(r, s), 0)
        BY <1>1, <1>4, <3>2, <4>1, LeftStays
      <4> QED
        BY <4>1, <4>2
    <3> QED
      BY <3>1, <3>3
  <2>2. ASSUME NEW c \in Claimer, Starting(c)', claim'[c].of = r
        PROVE  \E s \in Nat :
                 /\ s = SlotOfKey(c)'
                 /\ Left(rt'[r].next, s, Retried(r, s)' + 1, 0)
    <3>1. Party(c, r)'
      BY <2>2 DEF Party, Starting
    <3>2. PICK s \in Nat : s = SlotOfKey(c) /\ s = SlotOfKey(c)' /\ Starting(c)
                            /\ claim[c].of = r
      BY <1>7, <2>2, <3>1 DEF Party
    <3>3. Left(rt[r].next, s, Retried(r, s) + 1, 0)
      BY <1>9, <3>2 DEF Relaxed
    <3>4. Left(rt'[r].next, s, Retried(r, s)' + 1, 0)
      <4>1. Retried(r, s)' = Retried(r, s) /\ Retried(r, s) + 1 \in Nat
        BY <1>3
      <4>2. Left(rt'[r].next, s, Retried(r, s) + 1, 0)
        BY <1>1, <1>4, <3>3, <4>1, LeftStays, SMTT(30)
      <4> QED
        BY <4>1, <4>2
    <3> QED
      BY <3>2, <3>4
  <2>3. Relaxed(r)'
    BY <2>1, <2>2 DEF Relaxed
  <2> QED
    BY <1>6, <1>8, <2>3 DEF Within
<1>10. CASE SoleRun(r)
  <2>1. \A c \in Claimer : ~Party(c, r)'
    BY <1>10 DEF SoleRun, Eases, ClaimEase
  <2>2. \A i \in Run : Ends(i, r)' => Ends(i, r)
    BY <1>5 DEF Ends
  <2>3. SoleRun(r)'
    BY <1>1, <1>10, <2>1, <2>2 DEF SoleRun
  <2> QED
    BY <1>6, <1>8, <2>3 DEF Within
<1>11. CASE SoleClaim(r)
  <2>1. \A c \in Claimer : Party(c, r)' => Party(c, r)
    BY <1>11 DEF SoleClaim, Eases, ClaimEase
  <2>2. \A i \in Run : ~Ends(i, r)'
    BY <1>5, <1>11 DEF Ends, SoleClaim
  <2>3. SoleClaim(r)'
    BY <1>1, <1>11, <2>1, <2>2 DEF SoleClaim
  <2> QED
    BY <1>6, <1>8, <2>3 DEF Within
<1> QED
  BY <1>2, <1>9, <1>10, <1>11

-----------------------------------------------------------------------------
(* What every step leaves as it is.                                        *)

LEMMA FinsEased ==
    ASSUME TypeOK, Registered, Chained, [Next]_vars
    PROVE  \A i \in Run : FinEase(i)
<1>1. CASE UNCHANGED fin
  BY <1>1 DEF FinEase, Chained, Open
<1>2. ASSUME NEW i \in Run, Settles(i)
      PROVE  \A j \in Run : FinEase(j)
  <2>1. \A j \in Run : fin'[j] = fin[j] => FinEase(j)
    BY DEF FinEase, Chained, Open
  <2>2. CASE run[i].trigger # "manual" /\ fin'[i].at \in {"clear", "arm"}
             /\ \A j \in Run \ {i} : fin'[j] = fin[j]
    <3>1. Works(i) /\ Running(i)
      BY <1>2, <2>2 DEF Settles, Works, Running, Unused
    <3>2. FinEase(i)
      BY <2>2, <3>1 DEF FinEase, Open
    <3> QED
      BY <2>1, <2>2, <3>2
  <2> QED
    BY <1>1, <1>2, <2>2 DEF Settles
<1>3. ASSUME NEW i \in Run,
             ClearRetry(i) \/ ArmRead(i) \/ ArmWrite(i) \/ SettleDies(i)
      PROVE  \A j \in Run : FinEase(j)
  <2>1. \A j \in Run : j # i => fin'[j] = fin[j]
    BY <1>3 DEF ClearRetry, ArmRead, ArmWrite, SettleDies, TypeOK
  <2>2. fin[i].at # "idle" /\ Works(i)
    BY <1>3 DEF ClearRetry, ArmRead, ArmWrite, SettleDies, Chained
  <2>3. \/ fin'[i].at \in {"idle", "clear"}
        \/ /\ fin[i].at = "arm" /\ fin'[i].at = "write"
           /\ fin'[i].count = rt[run[i].of].count + 1
    <3>1. CASE ArmRead(i)
      BY <3>1 DEF ArmRead, TypeOK, NoFin
    <3>2. CASE ClearRetry(i) \/ ArmWrite(i) \/ SettleDies(i)
      BY <3>2 DEF ClearRetry, ArmWrite, SettleDies, TypeOK, NoFin
    <3> QED
      BY <1>3, <3>1, <3>2
  <2>4. FinEase(i)
    BY <2>2, <2>3 DEF FinEase
  <2> QED
    BY <2>1, <2>4 DEF FinEase, Chained, Open
<1>4. CASE Quiet
  BY <1>1, <1>4 DEF Quiet
<1>5. CASE \/ \E c \in Claimer : ClaimStep(c) \/ ClearStale(c)
           \/ \E r \in Routine :
                Create(r) \/ Manual(r) \/ Delete(r) \/ RetryComes(r)
           \/ \E r \in Routine, e \in Tab, what \in Change :
                PatchRead(e, r, what)
           \/ \E e \in Tab : PatchWrite(e)
           \/ Tick
  BY <1>1, <1>5 DEF ClaimStep, ReadSlot, ReadRetry, TakeSlot, CheckRunning,
     TakeRetry, Start, Note, ClearStale, Create, Manual, Delete, RetryComes,
     PatchRead, PatchWrite, Tick
<1> QED
  BY <1>2, <1>3, <1>4, <1>5, RetryCases

\* Runs of other routines, and all if none is registered.
LEMMA RunsEased ==
    ASSUME TypeOK, Registered, [Next]_vars
    PROVE  \/ \A r \in Routine : RunsEase(r) /\ RetriesSame(r)
           \/ \E c \in Claimer, k \in Run, new \in RunRow :
                /\ Registers(c, k, new)
                /\ \A r \in Routine : ~Party(c, r)'
                /\ UNCHANGED <<rt, fin>> /\ ~Refused(claim[c].of)
                /\ \A d \in Claimer : d # c => claim'[d] = claim[d]
                /\ \A r \in Routine :
                     r # claim[c].of => RunsEase(r) /\ RetriesSame(r)
<1>0. RunsStay
  BY RunsStayed
<1>1. \A i \in Run : Works(i) => RunEase(i)
  BY <1>0 DEF RunsStay, Works, RunEase, SameRun, Running
<1>2. ASSUME NEW r \in Routine,
             \A i \in Run : Works(i)' /\ run'[i].of = r => Works(i)
      PROVE  RunsEase(r) /\ RetriesSame(r)
  <2>1. RunsEase(r)
    BY <1>1, <1>2 DEF RunsEase
  <2>2. ASSUME NEW s \in Nat, NEW i \in Run
        PROVE  i \in RetriesOf(r, s)' <=> i \in RetriesOf(r, s)
    <3>1. CASE Works(i)
      BY <1>1, <3>1 DEF RetriesOf, RunsOf, RunEase, SameRun, Works
    <3>2. CASE ~Works(i)
      <4>1. ~(Works(i)' /\ run'[i].of = r)
        BY <1>2, <3>2
      <4> QED
        BY <3>2, <4>1 DEF RetriesOf, RunsOf, Works
    <3> QED
      BY <3>1, <3>2
  <2>3. \A s \in Nat : RetriesOf(r, s)' = RetriesOf(r, s)
    BY <2>2 DEF RetriesOf, RunsOf
  <2> QED
    BY <2>1, <2>3 DEF RetriesSame
<1>3. CASE \A i \in Run : Works(i)' => Works(i)
  BY <1>2, <1>3
<1>4. ASSUME NEW c \in Claimer, NEW k \in Run, NEW new \in RunRow,
             Registers(c, k, new), NEW r \in Routine, r # claim[c].of
      PROVE  RunsEase(r) /\ RetriesSame(r)
  <2>1. /\ run'[k] = new /\ new.of = claim[c].of
        /\ \A j \in Run : j # k => run'[j] = run[j]
    BY <1>4, AddsFacts DEF Registers
  <2> QED
    BY <1>2, <1>4, <2>1 DEF Works
<1>5. \A c \in Claimer : claim'[c].at \in {"idle", "close", "settle"} =>
        \A r \in Routine : ~Party(c, r)'
  BY DEF Party, Starting, Holding
<1> QED
  BY <1>3, <1>4, <1>5, RunCases

\* The claims that get through.
Takes(c) ==
    \/ TakeSlot(c) /\ HasSlot(c)
    \/ TakeRetry(c) /\ HasRetry(c)

\* Claims that go on are what they were, but those that take what they read.
LEMMA ClaimsEased ==
    ASSUME TypeOK, Registered, [Next]_vars,
           NEW c \in Claimer, NEW r \in Routine
    PROVE  \/ ClaimEase(c, r)
           \/ Takes(c) /\ claim[c].of = r
<1>0. RunsStay
  BY RunsStayed
<1>1. CASE claim'[c] \in {claim[c], NoClaim}
  <2>1. SUFFICES ASSUME Party(c, r)' PROVE ClaimEase(c, r)
    BY DEF ClaimEase
  <2>2. claim'[c] = claim[c]
    BY <1>1, <2>1 DEF Party, NoClaim
  <2>3. Party(c, r)
    BY <2>1, <2>2 DEF Party, Starting, Holding
  <2>4. Starting(c) => SlotOfKey(c)' = SlotOfKey(c)
    <3>1. Starting(c) => claim[c].key \in Run /\ run[claim[c].key] # Unused
      BY StartingFacts DEF Starting, Registered
    <3> QED
      BY <1>0, <2>2, <3>1 DEF RunsStay, SlotOfKey
  <2> QED
    BY <2>2, <2>3, <2>4 DEF ClaimEase, Starting, Holding
<1>2. CASE claim'[c].at \in
             {"idle", "slot", "recheck", "take", "close", "settle"}
  BY <1>2 DEF ClaimEase, Party, Starting, Holding
<1>3. ASSUME NEW q \in Routine, ReadRetry(c, q)
      PROVE  ClaimEase(c, r)
  <2>1. /\ claim'[c].at \in {"stale", "recheck"} /\ claim'[c].of = q
        /\ rt[q].retry # 0
    BY <1>3 DEF ReadRetry, TypeOK, Registered
  <2> QED
    BY <2>1 DEF ClaimEase, Party, Starting, Holding
<1>4. CASE CheckRunning(c) /\ claim'[c].at = "start"
  <2>1. claim[c] \in Claim /\ claim[c].at \in {"check", "recheck"}
    BY <1>4, ClaimFacts DEF CheckRunning
  <2>2. ~GivesUp(c)
    BY <1>4 DEF GivesUp, TypeOK, NoClaim
  <2>3. \/ claim[c].at = "check" /\ Goes(c, "start")
        \/ Goes(c, "take")
    BY <1>4, <2>2, <2>1 DEF CheckRunning, At
  <2>4. \A at \in {"start", "take"} : Goes(c, at) =>
          claim'[c] = [claim[c] EXCEPT !.at = at]
    BY <2>1, ClaimGoes
  <2>5. /\ claim[c].at = "check" /\ claim'[c].of = claim[c].of
        /\ claim'[c].key = claim[c].key
        /\ claim'[c].trigger = claim[c].trigger
        /\ claim[c].trigger = "schedule"
    BY <1>4, <2>1, <2>3, <2>4 DEF Claim, Registered
  <2> QED
    BY <1>4, <2>5 DEF ClaimEase, Party, Starting, Holding
<1>5. ASSUME NEW d \in Claimer, ClaimStep(d)
      PROVE  \/ ClaimEase(c, r)
             \/ Takes(c) /\ claim[c].of = r
  <2>1. CASE d # c
    BY <1>1, <1>5, <2>1, ClaimAfter
  <2>2. CASE d = c /\ claim'[c].at = "start" /\ claim[c].at = "check"
    <3>1. CheckRunning(c)
      <4>1. \A q \in Routine : ~ReadSlot(c, q) /\ ~ReadRetry(c, q)
        <5>1. claim[c] # NoClaim
          BY <2>2 DEF NoClaim
        <5> QED
          BY <5>1 DEF ReadSlot, ReadRetry
      <4>2. ~TakeSlot(c) /\ ~TakeRetry(c) /\ ~Start(c) /\ ~Note(c)
        BY <2>2 DEF TakeSlot, TakeRetry, Start, Note, At
      <4> QED
        BY <1>5, <2>2, <4>1, <4>2, Zenon DEF ClaimStep
    <3> QED
      BY <1>4, <2>2, <3>1
  <2>3. ASSUME d = c, claim'[c].at \in {"check", "missed"},
               claim[c].at = "slot", HasSlot(c)
        PROVE  \/ ClaimEase(c, r)
               \/ Takes(c) /\ claim[c].of = r
    <3>1. TakeSlot(c)
      <4>1. \A q \in Routine : ~ReadSlot(c, q) /\ ~ReadRetry(c, q)
        <5>1. claim[c] # NoClaim
          BY <2>3 DEF NoClaim
        <5> QED
          BY <5>1 DEF ReadSlot, ReadRetry
      <4>2. ~CheckRunning(c) /\ ~TakeRetry(c) /\ ~Start(c) /\ ~Note(c)
        BY <2>3 DEF CheckRunning, TakeRetry, Start, Note, At
      <4> QED
        BY <1>5, <2>3, <4>1, <4>2, Zenon DEF ClaimStep
    <3>2. claim'[c].of = claim[c].of
      <4>1. claim[c] \in Claim
        BY <2>3, ClaimFacts
      <4>2. ~GivesUp(c)
        BY <2>3 DEF GivesUp, TypeOK, NoClaim
      <4>3. Goes(c, "check") \/ Goes(c, "missed")
        BY <2>3, <3>1, <4>2 DEF TakeSlot
      <4>4. \E at \in {"check", "missed"} :
              claim'[c] = [claim[c] EXCEPT !.at = at]
        BY <2>3, <4>3, ClaimGoes
      <4> QED
        BY <4>1, <4>4 DEF Claim
    <3> QED
      BY <2>3, <3>1, <3>2 DEF ClaimEase, Party, Takes
  <2>4. ASSUME d = c, claim'[c].at = "start", claim[c].at = "take",
               TakeRetry(c), HasRetry(c)
        PROVE  \/ ClaimEase(c, r)
               \/ Takes(c) /\ claim[c].of = r
    <3>1. claim[c] \in Claim
      BY <2>4, ClaimFacts
    <3>2. Goes(c, "start")
      BY <2>4 DEF TakeRetry
    <3>3. claim'[c].of = claim[c].of
      BY <2>4, <3>1, <3>2, ClaimGoes DEF Claim
    <3> QED
      BY <2>4, <3>3 DEF ClaimEase, Party, Takes
  <2>5. \A q \in Routine : ReadSlot(c, q) => claim'[c].at = "slot"
    BY DEF ReadSlot, TypeOK
  <2>6. CASE d = c
    <3>1. \/ claim'[c].at \in {"idle", "take", "close", "settle"}
          \/ \E q \in Routine : ReadSlot(c, q) \/ ReadRetry(c, q)
          \/ claim'[c].at = "start" /\ claim[c].at = "check"
          \/ /\ claim'[c].at = "start" /\ claim[c].at = "take"
             /\ TakeRetry(c) /\ HasRetry(c)
          \/ /\ claim'[c].at \in {"check", "missed"}
             /\ claim[c].at = "slot" /\ HasSlot(c)
          \/ claim'[c] = claim[c]
      BY <1>5, <2>6, ClaimAfter
    <3>2. CASE claim'[c].at \in {"idle", "slot", "take", "close", "settle"}
      BY <1>2, <3>2
    <3>3. CASE claim'[c] = claim[c]
      BY <1>1, <3>3
    <3>4. ASSUME NEW q \in Routine, ReadSlot(c, q) \/ ReadRetry(c, q)
          PROVE  \/ ClaimEase(c, r)
                 \/ Takes(c) /\ claim[c].of = r
      <4>1. CASE ReadSlot(c, q)
        <5>1. claim'[c].at = "slot"
          BY <2>5, <4>1
        <5> QED
          BY <1>2, <5>1
      <4>2. CASE ReadRetry(c, q)
        BY <1>3, <4>2
      <4> QED
        BY <3>4, <4>1, <4>2
    <3>5. CASE /\ claim'[c].at = "start" /\ claim[c].at = "take"
               /\ TakeRetry(c) /\ HasRetry(c)
      <4>1. \/ ClaimEase(c, r)
            \/ Takes(c) /\ claim[c].of = r
        BY <2>4, <2>6, <3>5
      <4> QED
        BY <4>1
    <3>6. CASE /\ claim'[c].at \in {"check", "missed"}
               /\ claim[c].at = "slot" /\ HasSlot(c)
      <4>1. \/ ClaimEase(c, r)
            \/ Takes(c) /\ claim[c].of = r
        BY <2>3, <2>6, <3>6
      <4> QED
        BY <4>1
    <3>7. CASE claim'[c].at = "start" /\ claim[c].at = "check"
      BY <2>2, <2>6, <3>7
    <3> QED
      BY <3>1, <3>2, <3>3, <3>4, <3>5, <3>6, <3>7, Zenon
  <2> QED
    BY <2>1, <2>6
<1>6. CASE ClaimsHold
  BY <1>1, <1>6 DEF ClaimsHold
<1>7. ASSUME NEW d \in Claimer, ClearStale(d)
      PROVE  ClaimsHold
  BY <1>7 DEF ClearStale, GivesUp, ClaimsHold, TypeOK
<1>8. CASE UNCHANGED claim
  BY <1>1, <1>8
<1> QED
  BY <1>5, <1>6, <1>7, <1>8, RetryCases
     DEF Quiet, Settles, ClearRetry, ArmRead, ArmWrite, SettleDies, Create,
         Manual, Delete, RetryComes, PatchRead, PatchWrite, Tick

-----------------------------------------------------------------------------
(* What every step makes of a row.                                         *)

ArmedRow(i, r) ==
    [rt[r] EXCEPT !.retry = i, !.retryAt = "later", !.count = fin[i].count]
SlotTaken(c, r) == [NoRetry(rt[r]) EXCEPT !.next = claim[c].next]

Armings(r) ==
    \E i \in Run : /\ ArmWrite(i) /\ run[i].of = r /\ There(r)
                   /\ rt'[r] = ArmedRow(i, r)
Droppings(r) ==
    /\ There(r) /\ rt'[r] = NoRetry(rt[r])
    /\ \/ \E i \in Run : ClearRetry(i) /\ run[i].of = r
       \/ \E c \in Claimer : ClearStale(c) /\ claim[c].of = r
Takings(r) ==
    \E c \in Claimer :
      /\ claim[c].of = r
      /\ \/ TakeSlot(c) /\ HasSlot(c) /\ rt'[r] = SlotTaken(c, r)
         \/ TakeRetry(c) /\ HasRetry(c) /\ rt'[r] = Taken(rt[r])
Created(r) ==
    /\ Create(r)
    /\ rt'[r].active /\ rt'[r].retry = 0 /\ rt'[r].retryAt = "none"
    /\ rt'[r].count = 0
    /\ \E sched \in BOOLEAN : rt'[r].next = nextRunAtOf(TRUE, sched)
Deleted(r) ==
    /\ Delete(r)
    /\ rt'[r].life = "deleted" /\ rt'[r].retry = 0 /\ rt'[r].count = 0
    /\ rt'[r].retryAt = "none"
Comings(r) ==
    /\ RetryComes(r)
    /\ rt'[r].retryAt \in {"due", "late"} /\ rt[r].retryAt # "none"
    /\ rt'[r].life = rt[r].life /\ rt'[r].active = rt[r].active
    /\ rt'[r].next = rt[r].next /\ rt'[r].retry = rt[r].retry
    /\ rt'[r].count = rt[r].count /\ rt'[r].text = rt[r].text
Patchings(r) ==
    \E e \in Tab : /\ PatchWrite(e) /\ tab[e].of = r /\ There(r)
                   /\ rt'[r] = Patched(rt[r], tab[e])

LEMMA RowCases ==
    ASSUME TypeOK, Registered, [Next]_vars, NEW r \in Routine
    PROVE  \/ SameRow(r) \/ Droppings(r) \/ Armings(r) \/ Takings(r)
           \/ Created(r) \/ Deleted(r) \/ Comings(r) \/ Patchings(r)
<1>1. rt \in [Routine -> Row] /\ rt[r] \in Row
  BY DEF TypeOK
<1>2. CASE rt'[r] = rt[r]
  BY <1>2 DEF SameRow
<1>3. ASSUME NEW i \in Run, ClearRetry(i)
      PROVE  rt'[r] = rt[r] \/ Droppings(r)
  BY <1>1, <1>3 DEF ClearRetry, Droppings
<1>4. ASSUME NEW c \in Claimer, ClearStale(c)
      PROVE  rt'[r] = rt[r] \/ Droppings(r)
  BY <1>1, <1>4 DEF ClearStale, Droppings
<1>5. ASSUME NEW i \in Run, ArmWrite(i)
      PROVE  rt'[r] = rt[r] \/ Armings(r)
  <2>1. CASE ~There(run[i].of) \/ run[i].of # r
    BY <1>1, <1>5, <2>1 DEF ArmWrite
  <2>2. CASE There(run[i].of) /\ run[i].of = r
    <3>1. rt'[r] = ArmedRow(i, r)
      BY <1>1, <1>5, <2>2 DEF ArmWrite, ArmedRow, Row
    <3> QED
      BY <1>5, <2>2, <3>1 DEF Armings
  <2> QED
    BY <2>1, <2>2
<1>6. ASSUME NEW c \in Claimer, TakeSlot(c)
      PROVE  rt'[r] = rt[r] \/ Takings(r)
  BY <1>1, <1>6 DEF TakeSlot, Takings, SlotTaken
<1>7. ASSUME NEW c \in Claimer, TakeRetry(c)
      PROVE  rt'[r] = rt[r] \/ Takings(r)
  BY <1>1, <1>7 DEF TakeRetry, Takings
<1>8. ASSUME NEW q \in Routine, Create(q)
      PROVE  rt'[r] = rt[r] \/ Created(r)
  <2>1. CASE q # r
    BY <1>1, <1>8, <2>1 DEF Create
  <2>2. CASE q = r
    <3>1. PICK sched \in BOOLEAN, text \in BOOLEAN :
            rt'[r] = [NoRow(rt[r].seat) EXCEPT
                        !.life = "there", !.sched = sched, !.text = text,
                        !.next = nextRunAtOf(TRUE, sched)]
      <4>1. PICK sched \in {TRUE} \cup {"times" \notin Edits},
                 text \in {TRUE} \cup {"text" \notin Edits} :
              rt' = [rt EXCEPT ![r] =
                       [NoRow(@.seat) EXCEPT
                          !.life = "there", !.sched = sched, !.text = text,
                          !.next = nextRunAtOf(TRUE, sched)]]
        BY <1>8, <2>2, Zenon DEF Create
      <4>2. sched \in BOOLEAN /\ text \in BOOLEAN
        BY <4>1
      <4> QED
        BY <1>1, <4>1, <4>2
    <3> QED
      BY <1>8, <2>2, <3>1 DEF Created, NoRow
  <2> QED
    BY <2>1, <2>2
<1>9. ASSUME NEW q \in Routine, Delete(q)
      PROVE  rt'[r] = rt[r] \/ Deleted(r)
  BY <1>1, <1>9 DEF Delete, Deleted, NoRow
<1>10. ASSUME NEW q \in Routine, RetryComes(q)
       PROVE  rt'[r] = rt[r] \/ Comings(r)
  <2>1. CASE q # r
    BY <1>1, <1>10, <2>1 DEF RetryComes
  <2>2. CASE q = r
    <3>1. /\ rt[r].retryAt # "none"
          /\ \E at \in {"due", "late"} : rt' = [rt EXCEPT ![r].retryAt = at]
      BY <1>10, <2>2 DEF RetryComes
    <3>2. PICK at \in {"due", "late"} :
            rt'[r] = [rt[r] EXCEPT !.retryAt = at]
      BY <1>1, <3>1
    <3> QED
      BY <1>1, <1>10, <2>2, <3>1, <3>2 DEF Comings, Row
  <2> QED
    BY <2>1, <2>2
<1>11. ASSUME NEW e \in Tab, PatchWrite(e)
       PROVE  rt'[r] = rt[r] \/ Patchings(r)
  BY <1>1, <1>11 DEF PatchWrite, Patchings
<1>12. CASE UNCHANGED rt
  BY <1>2, <1>12
<1>13. ASSUME NEW c \in Claimer, ClaimStep(c)
       PROVE  rt'[r] = rt[r] \/ Takings(r)
  <2>1. UNCHANGED rt \/ TakeSlot(c) \/ TakeRetry(c)
    BY <1>13 DEF ClaimStep, ReadSlot, ReadRetry, CheckRunning, Start, Note
  <2> QED
    BY <1>6, <1>7, <2>1
<1>14. CASE Quiet
  BY <1>14 DEF Quiet
<1>15. ASSUME \/ \E i \in Run : Settles(i) \/ ArmRead(i) \/ SettleDies(i)
              \/ \E q \in Routine : Manual(q)
              \/ \E q \in Routine, e \in Tab, what \in Change :
                   PatchRead(e, q, what)
              \/ Tick
       PROVE  UNCHANGED rt
  BY <1>15 DEF Settles, ArmRead, SettleDies, Manual, PatchRead, Tick
<1> QED
  BY <1>2, <1>3, <1>4, <1>5, <1>8, <1>9, <1>10, <1>11, <1>12, <1>13, <1>14,
     <1>15, RetryCases

-----------------------------------------------------------------------------
(* Routines that exist, counts, and next times.                            *)

\* A handler has ended before the next one begins, and nobody switches a
\* routine off, takes its times away or changes its instruction.
Orderly == Slow = {} /\ Edits \cap {"off", "noTimes", "text"} = {}

LEMMA OrderlyFacts ==
    ASSUME TypeOK, Orderly
    PROVE  /\ PatchesWritten => \A e \in Tab : tab[e] = NoPatch
           /\ RunsSettled => \A i \in Run : fin[i].at = "idle"
           /\ ClaimsMade => \A c \in Claimer : claim[c].at \in {"idle", "slot"}
           /\ "text" \notin Edits /\ "patch" \notin Slow
  BY DEF Orderly, PatchesWritten, RunsSettled, ClaimsMade, NoFin

LEMMA LivesOn ==
    ASSUME TypeOK, Registered, [Next]_vars, NEW r \in Routine
    PROVE  /\ rt[r].life # "none" => rt'[r].life # "none"
           /\ There(r)' => There(r) \/ Created(r)
<1>1. rt[r] \in Row
  BY DEF TypeOK
<1>2. CASE rt'[r].life = rt[r].life
  BY <1>2 DEF There
<1>3. CASE SameRow(r)
  BY <1>2, <1>3 DEF SameRow
<1>4. CASE Droppings(r)
  BY <1>1, <1>2, <1>4 DEF Droppings, NoRetry, Row
<1>5. CASE Armings(r)
  BY <1>1, <1>2, <1>5 DEF Armings, ArmedRow, Row
<1>6. CASE Takings(r)
  BY <1>1, <1>2, <1>6 DEF Takings, SlotTaken, NoRetry, Taken, Row
<1>7. CASE Created(r)
  BY <1>7 DEF Created, Create
<1>8. CASE Deleted(r)
  BY <1>8 DEF Deleted, There
<1>9. CASE Comings(r)
  BY <1>2, <1>9 DEF Comings
<1>10. CASE Patchings(r)
  BY <1>1, <1>2, <1>10 DEF Patchings, Patched, NoRetry, Row
<1> QED
  BY <1>3, <1>4, <1>5, <1>6, <1>7, <1>8, <1>9, <1>10, RowCases

\* What every step makes of a claim.
Moves(c) ==
    /\ claim[c].at # "idle"
    /\ claim'[c].of = claim[c].of /\ claim'[c].key = claim[c].key
    /\ claim'[c].trigger = claim[c].trigger
    /\ \/ claim'[c] = claim[c]
       \/ /\ claim[c].at = "recheck" /\ claim'[c].at = "take"
          /\ ~Busy(claim[c].of)
       \/ claim[c].at = "check" /\ claim'[c].at = "start"
       \/ /\ claim[c].at = "take" /\ claim'[c].at = "start"
          /\ TakeRetry(c) /\ HasRetry(c)
       \/ /\ claim[c].at = "slot" /\ claim'[c].at \in {"check", "missed"}
          /\ TakeSlot(c) /\ HasSlot(c)
       \/ claim'[c].at \in {"close", "settle"}

LEMMA ClaimMoved ==
    ASSUME TypeOK, Registered, [Next]_vars, NEW c \in Claimer
    PROVE  \/ claim'[c].at = "idle"
           \/ \E r \in Routine : ReadSlot(c, r) \/ ReadRetry(c, r)
           \/ Moves(c)
<1>0. claim[c].at # "idle" => claim[c] \in Claim
  BY ClaimFacts
<1>1. CASE claim'[c] \in {claim[c], NoClaim}
  BY <1>1 DEF Moves, NoClaim
<1>2. CASE GivesUp(c)
  BY <1>2 DEF GivesUp, TypeOK, NoClaim
<1>3. ASSUME NEW at \in {"check", "missed", "start", "take"}, Goes(c, at),
             claim[c].at # "idle"
      PROVE  /\ claim'[c].at = at /\ claim'[c].trigger = claim[c].trigger
             /\ claim'[c].of = claim[c].of /\ claim'[c].key = claim[c].key
  <2>1. claim[c] \in Claim /\ claim'[c] = [claim[c] EXCEPT !.at = at]
    BY <1>0, <1>3, ClaimGoes
  <2> QED
    BY <2>1 DEF Claim
<1>4. CASE TakeSlot(c)
  <2>1. \/ GivesUp(c)
        \/ /\ HasSlot(c) /\ claim[c].at = "slot"
           /\ Goes(c, "missed") \/ Goes(c, "check")
    BY <1>4 DEF TakeSlot, At
  <2> QED
    BY <1>2, <1>3, <1>4, <2>1 DEF Moves
<1>5. CASE CheckRunning(c)
  <2>1. \/ GivesUp(c)
        \/ /\ ~Busy(claim[c].of) /\ claim[c].at = "check" /\ Goes(c, "start")
        \/ /\ ~Busy(claim[c].of) /\ claim[c].at = "recheck" /\ Goes(c, "take")
    BY <1>5 DEF CheckRunning, At
  <2> QED
    BY <1>2, <1>3, <2>1 DEF Moves
<1>6. CASE TakeRetry(c)
  <2>1. \/ GivesUp(c)
        \/ HasRetry(c) /\ claim[c].at = "take" /\ Goes(c, "start")
    BY <1>6 DEF TakeRetry, At
  <2> QED
    BY <1>2, <1>3, <1>6, <2>1 DEF Moves
<1>7. CASE Start(c)
  BY <1>2, <1>7 DEF Start
<1>8. CASE Note(c)
  <2>1. \/ GivesUp(c)
        \/ \E i \in Run, at \in {"close", "settle"} :
             claim' = [claim EXCEPT ![c].at = at, ![c].run = i]
    BY <1>8 DEF Note
  <2>2. claim[c].at # "idle" /\ claim[c] \in Claim
    BY <1>0, <1>8 DEF Note, At
  <2>3. ASSUME NEW i \in Run, NEW at \in {"close", "settle"},
               claim' = [claim EXCEPT ![c].at = at, ![c].run = i]
        PROVE  Moves(c)
    <3>1. /\ claim'[c].at = at /\ claim'[c].trigger = claim[c].trigger
          /\ claim'[c].of = claim[c].of /\ claim'[c].key = claim[c].key
      BY <2>2, <2>3 DEF TypeOK, Claim
    <3> QED
      BY <2>2, <3>1 DEF Moves
  <2> QED
    BY <1>2, <2>1, <2>3
<1>9. ASSUME NEW d \in Claimer, ClaimStep(d)
      PROVE  \/ claim'[c].at = "idle"
             \/ \E r \in Routine : ReadSlot(c, r) \/ ReadRetry(c, r)
             \/ Moves(c)
  <2>1. CASE d # c
    BY <1>1, <1>9, <2>1, ClaimAfter
  <2>2. CASE d = c
    BY <1>4, <1>5, <1>6, <1>7, <1>8, <1>9, <2>2 DEF ClaimStep
  <2> QED
    BY <2>1, <2>2
<1>10. CASE ClaimsHold
  BY <1>1, <1>10 DEF ClaimsHold
<1>11. ASSUME NEW d \in Claimer, ClearStale(d)
       PROVE  ClaimsHold
  BY <1>11 DEF ClearStale, GivesUp, ClaimsHold, TypeOK
<1>12. CASE UNCHANGED claim
  BY <1>1, <1>12
<1> QED
  BY <1>9, <1>10, <1>11, <1>12, RetryCases
     DEF Quiet, Settles, ClearRetry, ArmRead, ArmWrite, SettleDies, Create,
         Manual, Delete, RetryComes, PatchRead, PatchWrite, Tick

LEMMA KnownStep ==
    ASSUME TypeOK, Registered, TypeOK', Known, [Next]_vars
    PROVE  Known'
<1>0. RunsStay
  BY RunsStayed
<1>1. \A r \in Routine : rt[r].life # "none" => rt'[r].life # "none"
  BY LivesOn
<1>2. ASSUME NEW i \in Run, Works(i)
      PROVE  rt'[run'[i].of].life # "none"
  <2>1. run[i].of \in Routine /\ run'[i].of = run[i].of
    BY <1>0, <1>2, OfFacts DEF RunsStay, Works
  <2> QED
    BY <1>1, <1>2, <2>1 DEF Known
<1>3. ASSUME NEW i \in Run, ~Works(i), Works(i)'
      PROVE  rt'[run'[i].of].life # "none"
  <2>1. PICK c \in Claimer, k \in Run, new \in RunRow :
          Registers(c, k, new) /\ ~Refused(claim[c].of)
    BY <1>3, RunCases
  <2>2. k = i
    BY <1>3, <2>1, AddsFacts DEF Registers, Works
  <2>3. /\ run'[i] = new /\ new.of = claim[c].of
        /\ claim[c].of \in Routine
    BY <2>1, <2>2, AddsFacts, ClaimFacts DEF Registers
  <2>4. rt[claim[c].of].life # "none"
    BY <2>1 DEF Refused, There
  <2> QED
    BY <1>1, <2>3, <2>4
<1>4. ASSUME NEW c \in Claimer, claim'[c].at # "idle"
      PROVE  rt'[claim'[c].of].life # "none"
  <2>1. CASE claim[c].at # "idle" /\ claim'[c].of = claim[c].of
    <3>1. claim[c].of \in Routine
      BY <2>1, ClaimFacts
    <3> QED
      BY <1>1, <2>1, <3>1 DEF Known
  <2>2. ASSUME NEW r \in Routine, ReadSlot(c, r) \/ ReadRetry(c, r)
        PROVE  rt'[claim'[c].of].life # "none"
    <3>1. claim'[c].of = r /\ There(r)
      <4>1. CASE ReadSlot(c, r)
        BY <4>1 DEF ReadSlot, Offered, TypeOK
      <4>2. CASE ReadRetry(c, r)
        BY <4>2 DEF ReadRetry, Offered, TypeOK
      <4> QED
        BY <2>2, <4>1, <4>2
    <3> QED
      BY <1>1, <3>1 DEF There
  <2> QED
    BY <1>4, <2>1, <2>2, ClaimMoved DEF Moves
<1> QED
  BY <1>2, <1>3, <1>4 DEF Known


\* What is counted never exceeds the bound, and what is armed is counted.
LEMMA CountsStep ==
    ASSUME TypeOK, Registered, Counts, [Next]_vars
    PROVE  Counts'
<1>0. MaxRetry \in Nat
  BY LimitsAssumption
<1>1. ASSUME NEW r \in Routine
      PROVE  /\ rt'[r].count <= MaxRetry
             /\ rt'[r].retry # 0 => rt'[r].count # 0
  <2>1. /\ rt[r] \in Row /\ rt[r].count <= MaxRetry /\ rt[r].count \in Nat
        /\ rt[r].retry # 0 => rt[r].count # 0
    BY DEF TypeOK, Row, Counts
  <2>2. CASE /\ rt'[r].retry \in {0, rt[r].retry}
             /\ rt'[r].count = rt[r].count
    BY <2>1, <2>2
  <2>3. CASE rt'[r].retry = 0 /\ rt'[r].count = 0
    BY <1>0, <2>3
  <2>4. CASE SameRow(r)
    BY <2>2, <2>4 DEF SameRow
  <2>5. CASE Droppings(r)
    BY <2>1, <2>3, <2>5 DEF Droppings, NoRetry, Row
  <2>6. ASSUME NEW i \in Run, ArmWrite(i), rt'[r] = ArmedRow(i, r)
        PROVE  rt'[r].count <= MaxRetry /\ rt'[r].count # 0
    <3>1. fin[i].count \in 1..MaxRetry
      BY <2>6 DEF ArmWrite, Counts
    <3>2. rt'[r].count = fin[i].count
      BY <2>1, <2>6 DEF ArmedRow, Row
    <3> QED
      BY <1>0, <3>1, <3>2
  <2>7. ASSUME NEW c \in Claimer,
               \/ rt'[r] = SlotTaken(c, r)
               \/ rt'[r] = Taken(rt[r])
        PROVE  /\ rt'[r].retry \in {0, rt[r].retry}
               /\ rt'[r].count \in {0, rt[r].count}
               /\ rt'[r].retry = 0
    BY <2>1, <2>7 DEF SlotTaken, NoRetry, Taken, Row
  <2>8. CASE Created(r) \/ Deleted(r)
    BY <2>3, <2>8 DEF Created, Deleted
  <2>9. CASE Comings(r)
    BY <2>2, <2>9 DEF Comings
  <2>10. CASE Patchings(r)
    BY <2>1, <2>2, <2>3, <2>10 DEF Patchings, Patched, NoRetry, Row
  <2>11. CASE Takings(r)
    BY <1>0, <2>1, <2>7, <2>11 DEF Takings
  <2>12. CASE Armings(r)
    BY <2>6, <2>12 DEF Armings
  <2> QED
    BY <2>4, <2>5, <2>8, <2>9, <2>10, <2>11, <2>12, RowCases
<1>2. ASSUME NEW i \in Run, fin'[i].at = "write"
      PROVE  fin'[i].count \in 1..MaxRetry
  <2>1. CASE fin'[i] = fin[i]
    BY <1>2, <2>1 DEF Counts
  <2>2. CASE UNCHANGED fin
    BY <2>1, <2>2
  <2>3. ASSUME NEW j \in Run, Settles(j)
        PROVE  fin'[i] = fin[i]
    BY <1>2, <2>3 DEF Settles
  <2>4. ASSUME NEW j \in Run, ClearRetry(j) \/ ArmWrite(j) \/ SettleDies(j)
        PROVE  fin'[i] = fin[i]
    BY <1>2, <2>4 DEF ClearRetry, ArmWrite, SettleDies, TypeOK, NoFin
  <2>5. ASSUME NEW j \in Run, ArmRead(j), j # i
        PROVE  fin'[i] = fin[i]
    BY <1>2, <2>5 DEF ArmRead, TypeOK
  <2>6. CASE ArmRead(i)
    <3>1. run[i].of \in Routine
      BY <2>6, OfFacts DEF ArmRead, Registered
    <3>2. PICK count \in Nat : count = rt[run[i].of].count
      BY <3>1 DEF TypeOK, Row
    <3>3. ~(count >= MaxRetry) /\ fin'[i].count = count + 1
      BY <1>2, <2>6, <3>2 DEF ArmRead, TypeOK, NoFin
    <3> QED
      BY <1>0, <3>3
  <2>7. CASE Quiet
    BY <2>2, <2>7 DEF Quiet
  <2>8. CASE \/ \E c \in Claimer : ClaimStep(c) \/ ClearStale(c)
             \/ \E r \in Routine :
                  Create(r) \/ Manual(r) \/ Delete(r) \/ RetryComes(r)
             \/ \E r \in Routine, e \in Tab, what \in Change :
                  PatchRead(e, r, what)
             \/ \E e \in Tab : PatchWrite(e)
             \/ Tick
    BY <2>2, <2>8 DEF ClaimStep, ReadSlot, ReadRetry, TakeSlot, CheckRunning,
       TakeRetry, Start, Note, ClearStale, Create, Manual, Delete, RetryComes,
       PatchRead, PatchWrite, Tick
  <2> QED
    BY <2>1, <2>3, <2>4, <2>5, <2>6, <2>7, <2>8, RetryCases
<1> QED
  BY <1>1, <1>2 DEF Counts


LEMMA ClockGrows ==
    ASSUME TypeOK, [Next]_vars
    PROVE  clock' \in {clock, clock + 1}
<1> USE DEF vars
<1>1. CASE UNCHANGED clock
  BY <1>1
<1> QED
  BY <1>1, RetryCases
     DEF Quiet, Settles, ClearRetry, ArmRead, ArmWrite, SettleDies, ClaimStep,
         ReadSlot, ReadRetry, TakeSlot, CheckRunning, TakeRetry, Start, Note,
         ClearStale, Create, Manual, Delete, RetryComes, PatchRead, PatchWrite,
         Tick


LEMMA SoonStays ==
    ASSUME TypeOK, [Next]_vars, NEW n \in Nat, n <= clock \div 2 + 1
    PROVE  n <= clock' \div 2 + 1
<1>1. clock \in Nat
  BY DEF TypeOK
<1>2. clock \div 2 <= (clock + 1) \div 2
  BY <1>1
<1> QED
  BY <1>1, <1>2, ClockGrows

LEMMA SoonNext ==
    ASSUME TypeOK, NEW active \in BOOLEAN, NEW sched \in BOOLEAN
    PROVE  /\ nextRunAtOf(active, sched) \in Nat
           /\ nextRunAtOf(active, sched) <= clock \div 2 + 1
           /\ active /\ sched => nextRunAtOf(active, sched) = clock \div 2 + 1
           /\ ~(active /\ sched) => nextRunAtOf(active, sched) = 0
<1>1. clock \in Nat
  BY DEF TypeOK
<1>2. clock \div 2 + 1 \in Nat
  BY <1>1
<1> QED
  BY <1>2 DEF nextRunAtOf

LEMMA PatchFacts ==
    ASSUME TypeOK, Ahead, Fits, NEW e \in Tab, tab[e] # NoPatch,
           There(tab[e].of)
    PROVE  /\ tab[e].what \in {"on", "times"} /\ tab[e] \in Patch
           /\ tab[e].of \in Routine /\ rt[tab[e].of] \in Row
           /\ Patched(rt[tab[e].of], tab[e]).active
           /\ Patched(rt[tab[e].of], tab[e]).next = tab[e].next
           /\ rt[tab[e].of].next <= tab[e].next
           /\ tab[e].next <= clock \div 2 + 1
           /\ IF tab[e].clear
              THEN /\ rt[tab[e].of].next = 0
                   /\ Patched(rt[tab[e].of], tab[e]).retry = 0
                   /\ Patched(rt[tab[e].of], tab[e]).retryAt = "none"
              ELSE /\ Patched(rt[tab[e].of], tab[e]).retry
                        = rt[tab[e].of].retry
                   /\ Patched(rt[tab[e].of], tab[e]).retryAt
                        = rt[tab[e].of].retryAt
                   /\ Patched(rt[tab[e].of], tab[e]).count
                        = rt[tab[e].of].count
<1> DEFINE row == rt[tab[e].of]
           p == tab[e]
<1>1. /\ p \in Patch /\ p.of \in Routine /\ row \in Row
      /\ p.what \in Change \ {"off", "noTimes"}
      /\ row.active /\ row.next <= p.next /\ p.next <= clock \div 2 + 1
      /\ p.clear => row.next = 0
  BY DEF TypeOK, Ahead, Patch
<1>2. p.what \in {"on", "times"}
  BY <1>1 DEF Change
<1>3. ActiveBy(p.what, row) = TRUE
  BY <1>1, <1>2 DEF ActiveBy, Switch, Row
<1>4. PICK b \in BOOLEAN : b = SchedBy(p.what, row)
  BY <1>1, <1>2 DEF SchedBy, Switch, Row
<1>5. PICK n \in Nat : n = p.next
  BY <1>1 DEF Patch
<1>6. Patched(row, p) =
        IF p.clear
        THEN NoRetry([row EXCEPT !.active = TRUE, !.sched = b, !.next = n])
        ELSE [row EXCEPT !.active = TRUE, !.sched = b, !.next = n]
  BY <1>3, <1>4, <1>5 DEF Patched
<1>7. /\ Patched(row, p).active /\ Patched(row, p).next = n
      /\ p.clear => /\ Patched(row, p).retry = 0
                    /\ Patched(row, p).retryAt = "none"
      /\ ~p.clear => /\ Patched(row, p).retry = row.retry
                     /\ Patched(row, p).retryAt = row.retryAt
                     /\ Patched(row, p).count = row.count
  <2> HIDE DEF p
  <2> QED
    BY <1>1, <1>6 DEF NoRetry, Row
<1> QED
  BY <1>1, <1>2, <1>5, <1>7


\* Next times lie at most one slot ahead, and nothing but taking a slot and
\* PATCHes that set them forward change them.
LEMMA RowAhead ==
    ASSUME TypeOK, Registered, TypeOK', Fits, Ahead, [Next]_vars,
           NEW r \in Routine, There(r)'
    PROVE  /\ rt'[r].active /\ rt'[r].next <= clock \div 2 + 1
           /\ Created(r) \/ Takings(r) \/ Patchings(r)
                \/ rt'[r].next = rt[r].next
<1>1. /\ rt[r] \in Row
      /\ There(r) => rt[r].active /\ rt[r].next <= clock \div 2 + 1
      /\ There(r) \/ Created(r)
  BY LivesOn DEF TypeOK, Ahead
<1>2. CASE rt'[r].active = rt[r].active /\ rt'[r].next = rt[r].next
           /\ There(r)
  BY <1>1, <1>2
<1>3. CASE Created(r)
  BY <1>3, SoonNext DEF Created
<1>4. CASE Takings(r) /\ There(r)
  <2>1. PICK c \in Claimer :
          /\ claim[c].of = r
          /\ \/ TakeSlot(c) /\ HasSlot(c) /\ rt'[r] = SlotTaken(c, r)
             \/ TakeRetry(c) /\ HasRetry(c) /\ rt'[r] = Taken(rt[r])
    BY <1>4 DEF Takings
  <2>2. CASE TakeSlot(c) /\ rt'[r] = SlotTaken(c, r)
    <3>1. PICK n \in Nat : n = claim[c].next /\ n <= clock \div 2 + 1
      BY <2>2, HolderTypes DEF Ahead, TakeSlot, At
    <3>2. rt'[r].active = rt[r].active /\ rt'[r].next = n
      BY <1>1, <2>2, <3>1 DEF SlotTaken, NoRetry, Row
    <3> QED
      BY <1>1, <1>4, <3>1, <3>2
  <2>3. CASE rt'[r] = Taken(rt[r])
    <3>1. rt'[r].active = rt[r].active /\ rt'[r].next = rt[r].next
      BY <1>1, <2>3 DEF Taken, Row
    <3> QED
      BY <1>2, <1>4, <3>1
  <2> QED
    BY <2>1, <2>2, <2>3
<1>5. CASE Patchings(r) /\ There(r)
  <2>1. PICK e \in Tab : /\ PatchWrite(e) /\ tab[e].of = r
                         /\ rt'[r] = Patched(rt[r], tab[e])
    BY <1>5 DEF Patchings
  <2>2. rt'[r].active /\ rt'[r].next <= clock \div 2 + 1
    BY <1>5, <2>1, PatchFacts DEF PatchWrite
  <2> QED
    BY <1>5, <2>2
<1>6. CASE SameRow(r) \/ Comings(r)
  BY <1>1, <1>2, <1>3, <1>6 DEF SameRow, Comings
<1>7. CASE Droppings(r)
  BY <1>1, <1>2, <1>3, <1>7 DEF Droppings, NoRetry, Row
<1>8. CASE Armings(r)
  BY <1>1, <1>2, <1>3, <1>8 DEF Armings, ArmedRow, Row
<1>9. CASE Deleted(r)
  BY <1>9 DEF Deleted, There
<1> QED
  BY <1>1, <1>3, <1>4, <1>5, <1>6, <1>7, <1>8, <1>9, RowCases

\* What a PATCH computes does not set the next time back, and it drops the
\* retries only where there is none.
LEMMA PatchReads ==
    ASSUME TypeOK, Fits, Ahead, Orderly, NEW r \in Routine, NEW e \in Tab,
           NEW what \in Change, PatchRead(e, r, what)
    PROVE  /\ tab'[e].what \notin {"off", "noTimes"} /\ tab'[e].of = r
           /\ rt[r].next <= tab'[e].next
           /\ tab'[e].next <= clock \div 2 + 1
           /\ tab'[e].clear => rt[r].next = 0
<1>1. what \in {"on", "times"} /\ There(r)
  BY DEF PatchRead, Orderly, Change
<1>2. /\ rt[r] \in Row /\ rt[r].active = TRUE /\ rt[r].next <= clock \div 2 + 1
      /\ rt[r].next # 0 <=> rt[r].active /\ rt[r].sched
  BY <1>1 DEF TypeOK, Ahead, Fits, Row
<1>3. PICK sched \in BOOLEAN : sched = SchedBy(what, rt[r])
  BY <1>1, <1>2 DEF SchedBy, Switch, Row
<1>4. ActiveBy(what, rt[r]) = TRUE /\ (~sched => rt[r].sched = FALSE)
  BY <1>1, <1>2, <1>3 DEF ActiveBy, SchedBy, Switch, Row
<1>5. NextBy(what, rt[r]) = nextRunAtOf(TRUE, sched)
  BY <1>3, <1>4 DEF NextBy
<1>6. PICK n \in Nat : n = NextBy(what, rt[r])
  BY <1>5, SoonNext
<1>7. /\ rt[r].next <= n /\ n <= clock \div 2 + 1
      /\ n = 0 => rt[r].next = 0
  <2>1. CASE sched
    <3>1. n = clock \div 2 + 1 /\ clock \in Nat
      BY <1>5, <1>6, <2>1, SoonNext DEF TypeOK
    <3> QED
      BY <1>2, <3>1
  <2>2. CASE ~sched
    <3>1. n = 0 /\ clock \in Nat
      BY <1>5, <1>6, <2>2, SoonNext DEF TypeOK
    <3>2. rt[r].next = 0
      BY <1>2, <1>4, <2>2 DEF Row
    <3> QED
      BY <3>1, <3>2
  <2> QED
    BY <2>1, <2>2
<1>8. Clears(what, rt[r]) => n = 0
  BY <1>2, <1>4, <1>6 DEF Clears
<1>9. tab'[e] = [at |-> "write", of |-> r, what |-> what,
                 next |-> n, clear |-> Clears(what, rt[r])]
  BY <1>6 DEF PatchRead, TypeOK
<1> QED
  BY <1>1, <1>7, <1>8, <1>9

LEMMA AheadStep ==
    ASSUME TypeOK, Registered, TypeOK', Fits, Fits', Ahead, Orderly,
           [Next]_vars
    PROVE  Ahead'
<1>0. clock \in Nat
  BY DEF TypeOK
<1>1. \A r \in Routine : There(r)' =>
        rt'[r].active /\ rt'[r].next <= clock' \div 2 + 1
  <2> SUFFICES ASSUME NEW r \in Routine, There(r)'
               PROVE  rt'[r].active /\ rt'[r].next <= clock' \div 2 + 1
    OBVIOUS
  <2>1. PICK n \in Nat : n = rt'[r].next
    BY DEF TypeOK, Row
  <2>2. rt'[r].active /\ n <= clock \div 2 + 1
    BY <2>1, RowAhead
  <2> QED
    BY <2>1, <2>2, SoonStays
<1>2. ASSUME NEW c \in Claimer, claim'[c].at = "slot"
      PROVE  claim'[c].next <= clock' \div 2 + 1
  <2>1. CASE claim'[c] = claim[c]
    BY <1>2, <2>1, SoonStays, HolderTypes DEF Ahead
  <2>2. ASSUME NEW r \in Routine, ReadSlot(c, r)
        PROVE  claim'[c].next <= clock' \div 2 + 1
    <3>1. /\ claim'[c].next = nextRunAtOf(TRUE, rt[r].sched)
          /\ rt[r].sched \in BOOLEAN
      BY <2>2 DEF ReadSlot, TypeOK, Row
    <3> QED
      BY <3>1, SoonNext, SoonStays
  <2>3. ASSUME NEW r \in Routine, ReadRetry(c, r)
        PROVE  claim'[c].at # "slot"
    BY <2>3 DEF ReadRetry, TypeOK
  <2> QED
    BY <1>2, <2>1, <2>2, <2>3, ClaimMoved DEF Moves
<1>3. ASSUME NEW e \in Tab, tab'[e] # NoPatch
      PROVE  /\ tab'[e].what \notin {"off", "noTimes"}
             /\ There(tab[e].of)' =>
                  /\ rt'[tab'[e].of].next <= tab'[e].next
                  /\ tab'[e].next <= clock' \div 2 + 1
                  /\ tab'[e].clear => rt'[tab'[e].of].next = 0
  <2>0. tab'[e] \in Patch /\ tab'[e].of \in Routine /\ tab'[e].next \in Nat
    BY <1>3 DEF TypeOK, Patch
  <2>1. CASE tab'[e] = tab[e]
    <3> DEFINE r == tab[e].of
    <3>1. /\ tab[e].what \notin {"off", "noTimes"}
          /\ There(r) => /\ rt[r].next <= tab[e].next
                         /\ tab[e].next <= clock \div 2 + 1
                         /\ tab[e].clear => rt[r].next = 0
          /\ rt[r].life # "none"
      BY <1>3, <2>1 DEF Ahead, Fits
    <3>2. ASSUME There(r)'
          PROVE  There(r) /\ rt'[r].next = rt[r].next
      <4>1. ~Created(r)
        BY <3>1 DEF Created, Create
      <4>2. There(r)
        BY <2>0, <2>1, <3>2, <4>1, LivesOn
      <4>3. rt[r] \in Row
        BY <2>0, <2>1 DEF TypeOK
      <4>4. CASE Takings(r)
        <5>1. \A c \in Claimer : ~TakeSlot(c)
          BY <1>3, <2>1, OrderlyFacts DEF TakeSlot
        <5>2. rt'[r] = Taken(rt[r])
          BY <4>4, <5>1 DEF Takings
        <5> QED
          BY <4>2, <4>3, <5>2 DEF Taken, Row
      <4>5. ~Patchings(r)
        <5> SUFFICES ASSUME NEW d \in Tab, PatchWrite(d), tab[d].of = r
                     PROVE  FALSE
          BY DEF Patchings
        <5>1. d = e
          BY <1>3, <2>1 DEF PatchWrite, Fits
        <5> QED
          BY <1>3, <5>1 DEF PatchWrite, TypeOK
      <4> QED
        BY <2>0, <2>1, <3>2, <4>1, <4>2, <4>4, <4>5, RowAhead
    <3> QED
      BY <2>0, <2>1, <3>1, <3>2, SoonStays
  <2>2. ASSUME NEW r \in Routine, NEW what \in Change, PatchRead(e, r, what)
        PROVE  /\ tab'[e].what \notin {"off", "noTimes"}
               /\ There(tab[e].of)' =>
                    /\ rt'[tab'[e].of].next <= tab'[e].next
                    /\ tab'[e].next <= clock' \div 2 + 1
                    /\ tab'[e].clear => rt'[tab'[e].of].next = 0
    <3>1. /\ tab'[e].what \notin {"off", "noTimes"} /\ tab'[e].of = r
          /\ rt[r].next <= tab'[e].next
          /\ tab'[e].next <= clock \div 2 + 1
          /\ tab'[e].clear => rt[r].next = 0
      BY <2>2, PatchReads
    <3>2. UNCHANGED <<rt, clock>>
      BY <2>2 DEF PatchRead
    <3> QED
      BY <3>1, <3>2
  <2>3. ASSUME NEW r \in Routine, NEW d \in Tab, NEW what \in Change,
               PatchRead(d, r, what), d # e
        PROVE  tab'[e] = tab[e]
    BY <2>3 DEF PatchRead, TypeOK
  <2>4. ASSUME NEW d \in Tab, PatchWrite(d)
        PROVE  tab'[e] = tab[e]
    BY <1>3, <2>4 DEF PatchWrite, TypeOK
  <2>5. UNCHANGED tab => tab'[e] = tab[e]
    OBVIOUS
  <2> QED
    BY <2>1, <2>2, <2>3, <2>4, <2>5, RetryCases
     DEF Quiet, Settles, ClearRetry, ArmRead, ArmWrite, SettleDies, ClaimStep,
         ReadSlot, ReadRetry, TakeSlot, CheckRunning, TakeRetry, Start, Note,
         ClearStale, Create, Manual, Delete, RetryComes, Tick
<1> QED
  BY <1>1, <1>2, <1>3 DEF Ahead

-----------------------------------------------------------------------------
(* A retry that can be taken finds no claim under way.                     *)

\* A retry stays as it is, is dropped, is armed, or its time comes, which
\* waits for the claims.
LEMMA RetryRow ==
    ASSUME TypeOK, Registered, Orderly, Fits, Ahead, [Next]_vars,
           NEW r \in Routine, There(r), There(r)'
    PROVE  /\ rt'[r].text = rt[r].text
           /\ \/ rt'[r].retry = rt[r].retry /\ rt'[r].retryAt = rt[r].retryAt
              \/ rt'[r].retry = 0 /\ rt'[r].retryAt = "none"
              \/ /\ rt'[r].retryAt = "later"
                 /\ \E i \in Run : ArmWrite(i) /\ rt'[r].retry = i
              \/ /\ rt'[r].retry = rt[r].retry
                 /\ \A c \in Claimer : claim'[c] = claim[c]
                 /\ \A c \in Claimer : claim[c].at \in {"idle", "slot"}
<1>1. rt[r] \in Row
  BY DEF TypeOK
<1>2. ~Created(r) /\ ~Deleted(r)
  BY DEF Created, Create, Deleted, There
<1>3. CASE SameRow(r)
  BY <1>3, OrderlyFacts DEF SameRow
<1>4. CASE Droppings(r)
  BY <1>1, <1>4 DEF Droppings, NoRetry, Row
<1>5. CASE Armings(r)
  BY <1>1, <1>5 DEF Armings, ArmedRow, Row
<1>6. CASE Takings(r)
  BY <1>1, <1>6 DEF Takings, SlotTaken, NoRetry, Taken, Row
<1>7. CASE Comings(r)
  BY <1>7, OrderlyFacts DEF Comings, RetryComes, TimeMoves
<1>8. CASE Patchings(r)
  <2>1. PICK e \in Tab : /\ tab[e] # NoPatch /\ tab[e].of = r
                         /\ rt'[r] = Patched(rt[r], tab[e])
    BY <1>8 DEF Patchings, PatchWrite
  <2>2. rt'[r].text = rt[r].text
    <3>1. ASSUME NEW p PROVE Patched(rt[r], p).text = rt[r].text
      BY <1>1 DEF Patched, NoRetry, Row
    <3> QED
      BY <2>1, <3>1
  <2> QED
    BY <2>1, <2>2, PatchFacts
<1> QED
  BY <1>2, <1>3, <1>4, <1>5, <1>6, <1>7, <1>8, RowCases

\* What makes a claim hold a slot, or start a retry.
LEMMA InTimeTaken ==
    ASSUME TypeOK, Registered, InTime, Orderly, TypeOK', Registered',
           [Next]_vars, NEW c \in Claimer, NEW r \in Routine,
           claim'[c].at # "idle", claim'[c].of = r,
           Starting(c)' \/ Holding(c)'
    PROVE  \/ /\ Starting(c)' => Starting(c)
              /\ Holding(c)' => Holding(c)
              /\ claim[c].of = r /\ claim[c].at # "idle"
              /\ claim'[c].key = claim[c].key
           \/ /\ Takes(c) /\ claim[c].of = r /\ claim'[c].key = claim[c].key
              /\ Starting(c)' => TakeRetry(c) /\ HasRetry(c)
                                 /\ claim[c].at = "take"
              /\ rt'[r].retryAt = "none" /\ rt'[r].retry = 0
<1>1. Moves(c)
  <2>1. \A q \in Routine : ~ReadSlot(c, q) /\ ~ReadRetry(c, q)
    <3>1. \A q \in Routine : ReadSlot(c, q) => claim'[c].at = "slot"
      BY DEF ReadSlot, TypeOK
    <3>2. \A q \in Routine : ReadRetry(c, q) =>
            claim'[c].at \in {"stale", "recheck"}
      BY DEF ReadRetry, TypeOK
    <3>3. claim'[c].at \in {"start", "check", "missed"}
      BY DEF Starting, Holding
    <3> QED
      BY <3>1, <3>2, <3>3
  <2> QED
    BY <2>1, ClaimMoved
<1>2. /\ claim[c].of = r /\ claim[c].at # "idle" /\ claim[c] \in Claim
      /\ claim'[c].key = claim[c].key /\ claim'[c].trigger = claim[c].trigger
  BY <1>1, ClaimFacts DEF Moves
<1>3. CASE claim'[c] = claim[c]
  BY <1>2, <1>3 DEF Starting, Holding
<1>4. CASE claim[c].at = "check" /\ claim'[c].at = "start"
  <2>1. claim[c].trigger = "schedule"
    BY <1>4 DEF Registered
  <2> QED
    BY <1>2, <1>4, <2>1 DEF Starting, Holding
<1>5. CASE TakeRetry(c) /\ HasRetry(c) /\ claim[c].at = "take"
           /\ claim'[c].at = "start"
  <2>1. rt'[r] = Taken(rt[r]) /\ rt[r] \in Row
    BY <1>2, <1>5 DEF TakeRetry, TypeOK
  <2>2. rt'[r].retryAt = "none" /\ rt'[r].retry = 0
    BY <2>1 DEF Taken, Row
  <2> QED
    BY <1>2, <1>5, <2>2 DEF Takes
<1>6. CASE TakeSlot(c) /\ HasSlot(c) /\ claim[c].at = "slot"
           /\ claim'[c].at \in {"check", "missed"}
  <2>1. rt'[r] = SlotTaken(c, r) /\ rt[r] \in Row
    BY <1>2, <1>6 DEF TakeSlot, TypeOK, SlotTaken
  <2>2. rt'[r].retryAt = "none" /\ rt'[r].retry = 0
    BY <2>1 DEF SlotTaken, NoRetry, Row
  <2> QED
    BY <1>2, <1>6, <2>2 DEF Takes, Starting
<1>7. ~(claim'[c].at \in {"take", "close", "settle"})
  BY DEF Starting, Holding
<1> QED
  BY <1>1, <1>3, <1>4, <1>5, <1>6, <1>7 DEF Moves


\* No claim gets through while a retry can be taken, nor does another retry.
LEMMA InTimeApart ==
    ASSUME TypeOK, Registered, Known, Fits, Ahead, Orderly, InTime,
           TypeOK', Registered', [Next]_vars
    PROVE  /\ \A r \in Routine :
                There(r)' /\ rt'[r].retryAt \in {"due", "late"} =>
                  \A c \in Claimer : claim'[c].at # "idle" /\ claim'[c].of = r =>
                    ~Starting(c)' /\ ~Holding(c)'
           /\ \A c, d \in Claimer :
                c # d /\ Starting(c)' /\ Starting(d)' =>
                  claim'[c].of # claim'[d].of
<1>1. ASSUME NEW r \in Routine, There(r)', rt'[r].retryAt \in {"due", "late"},
             NEW c \in Claimer, claim'[c].at # "idle", claim'[c].of = r,
             Starting(c)' \/ Holding(c)'
      PROVE  FALSE
  <2>1. \/ /\ Starting(c)' => Starting(c)
           /\ Holding(c)' => Holding(c)
           /\ claim[c].of = r /\ claim[c].at # "idle"
        \/ rt'[r].retryAt = "none"
    BY <1>1, InTimeTaken
  <2>2. /\ Starting(c) \/ Holding(c)
        /\ claim[c].of = r /\ claim[c].at # "idle"
    BY <1>1, <2>1
  <2>3. There(r)
    <3>1. rt[r].life # "none"
      BY <2>2 DEF Known
    <3> QED
      BY <1>1, <3>1, LivesOn DEF Created, Create
  <2>4. rt[r].retryAt \notin {"due", "late"}
    BY <2>2, <2>3 DEF InTime
  <2>5. rt'[r].retry # 0
    BY <1>1 DEF Registered
  <2>6. \A d \in Claimer : claim[d].at \in {"idle", "slot"}
    BY <1>1, <2>3, <2>4, <2>5, RetryRow
  <2> QED
    BY <2>2, <2>6 DEF Starting, Holding
<1>2. ASSUME NEW c \in Claimer, NEW d \in Claimer, c # d, Starting(c)',
             Starting(d)', claim'[c].of = claim'[d].of
      PROVE  FALSE
  <2>1. PICK r \in Routine : r = claim'[c].of /\ r = claim'[d].of
    <3>1. claim'[c] \in Claim
      <4>1. claim'[c] # NoClaim
        BY <1>2 DEF Starting, NoClaim
      <4> QED
        BY <4>1 DEF TypeOK
    <3> QED
      BY <1>2, <3>1 DEF Claim
  <2>2. ASSUME NEW e \in Claimer, e \in {c, d}
        PROVE  /\ claim[e].of = r
               /\ \/ Starting(e)
                  \/ TakeRetry(e) /\ HasRetry(e) /\ claim[e].at = "take"
    <3>1. claim'[e].at # "idle" /\ claim'[e].of = r /\ Starting(e)'
      BY <1>2, <2>1, <2>2 DEF Starting
    <3> QED
      BY <3>1, InTimeTaken
  <2>3. ~(Starting(c) /\ Starting(d))
    BY <1>2, <2>2 DEF InTime
  <2>4. ASSUME NEW e \in Claimer, NEW f \in Claimer, e # f, Starting(f),
               TakeRetry(e), HasRetry(e), claim[e].at = "take",
               claim[e].of = r, claim[f].of = r
        PROVE  FALSE
    <3>1. There(r) /\ claim[e].key = rt[r].retry
      BY <2>4 DEF HasRetry
    <3>2. rt[r].retryAt = "due"
      BY <2>4, <3>1 DEF InTime
    <3>3. claim[f].at # "idle"
      BY <2>4 DEF Starting
    <3> QED
      BY <2>4, <3>1, <3>2, <3>3 DEF InTime
  <2>5. ~(TakeRetry(c) /\ TakeRetry(d) /\ claim[c].at = "take"
            /\ claim[d].at = "take" /\ Starting(c)' /\ Starting(d)')
    <3> SUFFICES ASSUME TakeRetry(c), TakeRetry(d) PROVE FALSE
      BY <1>2
    <3>1. claim[c] \in Claim /\ claim[c].at = "take"
      BY ClaimFacts DEF TakeRetry, At
    <3>2. claim'[c] \in {claim[c], NoClaim}
      BY <1>2, ClaimAfter DEF ClaimStep
    <3> QED
      BY <1>2, <3>1, <3>2 DEF Starting, NoClaim
  <2> QED
    BY <1>2, <2>2, <2>3, <2>4, <2>5
<1> QED
  BY <1>1, <1>2


\* What a claim has read of a retry is still so while it is the retry.
LEMMA InTimeStep ==
    ASSUME TypeOK, Registered, Chained, Known, Fits, Ahead, Orderly, InTime,
           TypeOK', Registered', [Next]_vars
    PROVE  InTime'
<1>0. RunsStay
  BY RunsStayed
<1> SUFFICES ASSUME NEW c \in Claimer, NEW r \in Routine,
                    claim'[c].at # "idle", claim'[c].of = r, There(r)'
             PROVE  /\ /\ claim'[c].at \in {"recheck", "take"}
                       /\ claim'[c].key = rt'[r].retry
                       => /\ rt'[r].retryAt = "due" /\ rt'[r].text
                          /\ claim'[c].at = "take" =>
                               \A i \in Run :
                                 Works(i)' /\ run'[i].of = r => ~Running(i)'
                    /\ claim'[c].at = "stale" =>
                         rt'[r].retryAt # "due" \/ ~rt'[r].text
  <2>1. \A d \in Claimer : claim'[d].at # "idle" => claim'[d].of \in Routine
    BY DEF TypeOK, NoClaim, Claim
  <2> QED
    BY <2>1, InTimeApart, Zenon DEF InTime, RunsOf, Works
<1>1. ASSUME NEW q \in Routine, ReadSlot(c, q)
      PROVE  claim'[c].at = "slot"
  BY <1>1 DEF ReadSlot, TypeOK
<1>2. CASE ReadRetry(c, r)
  <2>1. UNCHANGED rt /\ claim'[c].at \in {"recheck", "stale"}
    BY <1>2 DEF ReadRetry, TypeOK
  <2>2. claim'[c].at = IF rt[r].retryAt = "late" \/ ~rt[r].text THEN "stale"
                       ELSE "recheck"
    BY <1>2 DEF ReadRetry, TypeOK
  <2>3. rt[r].retryAt \in {"due", "late"}
    BY <1>2 DEF ReadRetry
  <2> QED
    BY <2>1, <2>2, <2>3
<1>3. ASSUME NEW q \in Routine, ReadRetry(c, q)
      PROVE  q = r
  BY <1>3 DEF ReadRetry, TypeOK
<1>4. ASSUME claim[c].at # "idle", claim[c].of = r
      PROVE  There(r)
  <2>1. rt[r].life # "none"
    BY <1>4 DEF Known
  <2> QED
    BY <2>1, LivesOn DEF Created, Create
<1>5. ASSUME Moves(c), claim'[c].at = "stale"
      PROVE  rt'[r].retryAt # "due" \/ ~rt'[r].text
  <2>1. claim[c].at = "stale" /\ claim[c].of = r
    BY <1>5 DEF Moves
  <2>2. There(r) /\ (rt[r].retryAt # "due" \/ ~rt[r].text)
    BY <1>4, <2>1 DEF InTime
  <2> QED
    BY <2>1, <2>2, RetryRow
<1>6. ASSUME Moves(c), claim'[c].at \in {"recheck", "take"},
             claim'[c].key = rt'[r].retry
      PROVE  /\ rt'[r].retryAt = "due" /\ rt'[r].text
             /\ claim'[c].at = "take" =>
                  \A i \in Run : Works(i)' /\ run'[i].of = r => ~Running(i)'
  <2>1. /\ claim[c].at \in {"recheck", "take"} /\ claim[c].of = r
        /\ claim'[c].key = claim[c].key /\ There(r)
        /\ claim'[c].at = "take" => claim[c].at = "take" \/ ~Busy(r)
    BY <1>4, <1>6 DEF Moves
  <2>2. claim[c].key \in Run /\ Armed(claim[c].key)
    BY <2>1, StartingFacts DEF Before, Chained
  <2>3. rt'[r].retry # 0
    BY <1>6, <2>1, <2>2 DEF Run
  <2>4. ~\E i \in Run : ArmWrite(i) /\ rt'[r].retry = i
    BY <1>6, <2>1, <2>2 DEF ArmWrite, Armed
  <2>5. /\ rt'[r].retry = rt[r].retry /\ rt'[r].retryAt = rt[r].retryAt
        /\ rt'[r].text = rt[r].text
    BY <2>1, <2>3, <2>4, RetryRow
  <2>6. rt[r].retryAt = "due" /\ rt[r].text
    BY <1>6, <2>1, <2>5 DEF InTime
  <2>7. ASSUME claim'[c].at = "take", NEW i \in Run, Works(i)',
               run'[i].of = r, Running(i)'
        PROVE  FALSE
    <3>1. \A j \in RunsOf(r) : Running(j) => run[j].trigger = "manual"
      <4>1. CASE claim[c].at = "take"
        BY <1>6, <2>1, <2>5, <4>1 DEF InTime
      <4>2. CASE ~Busy(r)
        BY <4>2 DEF Busy
      <4> QED
        BY <2>1, <2>7, <4>1, <4>2
    <3>2. CASE Works(i)
      <4>1. Running(i) /\ run[i].of = r /\ run[i].trigger # "manual"
        BY <1>0, <2>7, <3>2 DEF RunsStay, Works, Running
      <4> QED
        BY <3>1, <3>2, <4>1 DEF RunsOf, Works
    <3>3. CASE ~Works(i)
      <4>1. PICK d \in Claimer, k \in Run, new \in RunRow :
              Registers(d, k, new)
        BY <2>7, <3>3, RunCases
      <4>2. k = i
        BY <2>7, <3>3, <4>1, AddsFacts DEF Registers, Works
      <4>3. claim[d].of = r /\ claim[d].at \in {"start", "missed"}
            /\ claim[d] \in Claim
        BY <2>7, <4>1, <4>2, AddsFacts, ClaimFacts DEF Registers
      <4>4. Starting(d) \/ Holding(d)
        BY <4>3 DEF Starting, Holding, Registered, Claim
      <4> QED
        BY <2>1, <2>6, <4>3, <4>4 DEF InTime
    <3> QED
      BY <3>2, <3>3
  <2> QED
    BY <2>5, <2>6, <2>7
<1> QED
  BY <1>1, <1>2, <1>3, <1>5, <1>6, ClaimMoved

-----------------------------------------------------------------------------
(* Steps after which counts fit without regard to what has been counted.   *)

LEMMA RowsEased ==
    ASSUME TypeOK, Registered, TypeOK', Fits, Ahead, [Next]_vars,
           NEW r \in Routine
    PROVE  \/ RowEase(r) \/ Droppings(r) \/ Armings(r) \/ Takings(r)
           \/ Created(r)
           \/ /\ There(r) /\ rt[r].next = 0
              /\ \E e \in Tab : PatchWrite(e)
<1>1. rt[r] \in Row /\ rt[r].next \in Nat
  BY DEF TypeOK, Row
<1>2. CASE SameRow(r) \/ Comings(r)
  <2>1. /\ rt'[r].life = rt[r].life /\ rt'[r].next = rt[r].next
        /\ rt'[r].retry = rt[r].retry /\ rt'[r].count = rt[r].count
    BY <1>2 DEF SameRow, Comings
  <2>2. RowEase(r)
    BY <1>1, <2>1 DEF RowEase, There
  <2> QED
    BY <2>2
<1>3. CASE Deleted(r)
  BY <1>3 DEF Deleted, RowEase, There
<1>4. CASE Patchings(r)
  <2>1. PICK e \in Tab : /\ PatchWrite(e) /\ tab[e].of = r /\ There(r)
                         /\ rt'[r] = Patched(rt[r], tab[e])
    BY <1>4 DEF Patchings
  <2>2. tab[e] # NoPatch
    BY <2>1 DEF PatchWrite
  <2>3. CASE tab[e].clear
    <3>1. rt[r].next = 0
      BY <2>1, <2>2, <2>3, PatchFacts
    <3> QED
      BY <2>1, <3>1
  <2>4. CASE ~tab[e].clear
    <3>1. /\ rt'[r].retry = rt[r].retry /\ rt'[r].count = rt[r].count
          /\ rt[r].next <= rt'[r].next
      BY <2>1, <2>2, <2>4, PatchFacts
    <3>2. RowEase(r)
      BY <2>1, <3>1 DEF RowEase
    <3> QED
      BY <3>2
  <2> QED
    BY <2>3, <2>4
<1> QED
  BY <1>2, <1>3, <1>4, RowCases

\* What is left for a count of nothing is left for any count.
LEMMA FittingRelaxed ==
    ASSUME TypeOK', Registered', NEW r \in Routine, Relaxed(r)',
           \A i \in Run, s \in Nat :
             Works(i)' /\ run'[i].of = r /\ s = run'[i].slot =>
               /\ s < rt'[r].next
               /\ fin'[i].at = "write" =>
                    Left(rt'[r].next, s, Retried(r, s)' + 1, fin'[i].count)
               /\ rt'[r].retry = i =>
                    Left(rt'[r].next, s, Retried(r, s)' + 1, rt'[r].count),
           \A c \in Claimer : Holding(c)' /\ claim'[c].of = r =>
             claim'[c].key < rt'[r].next
    PROVE  Fitting(r)'
<1>1. MaxRetry \in Nat /\ rt'[r].next \in Nat /\ rt'[r].count \in Nat
  BY LimitsAssumption DEF TypeOK, Row
<1>2. \A s \in Nat : MaxRetry * (rt'[r].next - s) \in Int
  BY <1>1, RoomGrows
<1>3. \A s \in Nat, n \in Nat :
        Left(rt'[r].next, s, n, 0) => Left(rt'[r].next, s, n, rt'[r].count)
  BY <1>1, <1>2 DEF Left
<1>4. ASSUME NEW i \in Run, Works(i)', run'[i].of = r
      PROVE  RunWithin(i, r)'
  <2>1. PICK s \in Nat : s = run'[i].slot
    <3>1. run'[i] \in RunRow
      BY <1>4 DEF TypeOK, Works
    <3> QED
      BY <3>1 DEF RunRow
  <2>2. Open(i)' => Left(rt'[r].next, s, Retried(r, s)', 0)
    BY <1>4, <2>1 DEF Relaxed
  <2>3. Retried(r, s)' \in Nat
    BY RetriedFacts
  <2>4. Open(i)' => Left(rt'[r].next, s, Retried(r, s)', rt'[r].count)
    BY <1>3, <2>2, <2>3
  <2> QED
    BY <1>4, <2>1, <2>4 DEF RunWithin
<1>5. ASSUME NEW c \in Claimer, Party(c, r)'
      PROVE  ClaimWithin(c, r)'
  <2>1. claim'[c].of = r
    BY <1>5 DEF Party
  <2>2. ASSUME Starting(c)'
        PROVE  \E s \in Nat :
                 /\ s = SlotOfKey(c)'
                 /\ Left(rt'[r].next, s, Retried(r, s)' + 1, rt'[r].count)
    <3>1. claim'[c] \in Claim /\ claim'[c].trigger = "retry"
      BY <2>2 DEF Starting, TypeOK, NoClaim
    <3>2. claim'[c].key \in Run /\ run'[claim'[c].key] # Unused
      BY <2>2, <3>1 DEF Registered, Starting
    <3>3. PICK s \in Nat : s = SlotOfKey(c)'
      <4>1. run'[claim'[c].key] \in RunRow
        BY <3>2 DEF TypeOK
      <4> QED
        BY <4>1 DEF RunRow, SlotOfKey
    <3>4. Left(rt'[r].next, s, Retried(r, s)' + 1, 0)
      BY <2>1, <2>2, <3>3 DEF Relaxed
    <3>5. Retried(r, s)' + 1 \in Nat
      BY RetriedFacts
    <3>6. Left(rt'[r].next, s, Retried(r, s)' + 1, rt'[r].count)
      BY <1>3, <3>4, <3>5
    <3> QED
      BY <3>3, <3>6
  <2>3. Holding(c)' => claim'[c].key < rt'[r].next
    BY <2>1
  <2> QED
    BY <2>2, <2>3 DEF ClaimWithin
<1> QED
  BY <1>4, <1>5 DEF Fitting, Within

\* Where nothing ends and nothing is claimed, nothing is open.
LEMMA NothingOpen ==
    ASSUME NEW r \in Routine,
           \A i \in Run : ~Ends(i, r)', \A c \in Claimer : ~Party(c, r)'
    PROVE  Relaxed(r)'
<1>1. \A i \in Run : ~(Open(i)' /\ run'[i].of = r)
  BY DEF Open, Ends
<1>2. \A c \in Claimer : ~(Starting(c)' /\ claim'[c].of = r)
  BY DEF Starting, Party
<1> QED
  BY <1>1, <1>2 DEF Relaxed

\* A row that drops its retry.
LEMMA FittingDropped ==
    ASSUME TypeOK, Registered, Chained, TypeOK', Registered',
           NEW r \in Routine, Fitting(r), Droppings(r)
    PROVE  Fitting(r)'
<1>1. /\ There(r) /\ rt[r] \in Row /\ rt'[r].next = rt[r].next
      /\ rt'[r].retry = 0
  BY DEF Droppings, NoRetry, TypeOK, Row
<1>2. Within(r) /\ (Relaxed(r) \/ SoleRun(r) \/ SoleClaim(r))
  BY <1>1 DEF Fitting
<1>3. /\ UNCHANGED run
      /\ \A i \in Run : fin'[i] = fin[i] \/ fin'[i].at = "idle"
      /\ \A c \in Claimer : claim'[c] = claim[c] \/ claim'[c].at = "idle"
  <2>1. ASSUME NEW i \in Run, ClearRetry(i)
        PROVE  /\ UNCHANGED <<run, claim>>
               /\ \A j \in Run : fin'[j] = fin[j] \/ fin'[j].at = "idle"
    BY <2>1 DEF ClearRetry, TypeOK, NoFin
  <2>2. ASSUME NEW c \in Claimer, ClearStale(c)
        PROVE  /\ UNCHANGED <<run, fin>>
               /\ \A d \in Claimer :
                    claim'[d] = claim[d] \/ claim'[d].at = "idle"
    BY <2>2 DEF ClearStale, GivesUp, TypeOK, NoClaim
  <2> QED
    BY <2>1, <2>2 DEF Droppings
<1>4. \A s \in Nat : Retried(r, s)' = Retried(r, s)
  BY <1>3 DEF Retried, RetriesOf, RunsOf
<1>5. \A i \in Run : /\ Works(i)' <=> Works(i)
                     /\ Open(i)' => Open(i)
                     /\ Ends(i, r)' => Ends(i, r)
  BY <1>3 DEF Open, Ends, Works, Running
<1>6. \A c \in Claimer : /\ Starting(c)' => Starting(c) /\ claim'[c] = claim[c]
                         /\ Holding(c)' => Holding(c) /\ claim'[c] = claim[c]
                         /\ Party(c, r)' => Party(c, r)
  BY <1>3 DEF Starting, Holding, Party
<1>7. Relaxed(r)'
  <2>1. CASE Relaxed(r)
    <3>1. ASSUME NEW i \in Run, Open(i)', run'[i].of = r
          PROVE  \E s \in Nat : /\ s = run'[i].slot
                                /\ Left(rt'[r].next, s, Retried(r, s)', 0)
      <4>1. PICK s \in Nat : s = run[i].slot
        BY <1>5, <3>1, NumberFacts DEF Open
      <4>2. Left(rt[r].next, s, Retried(r, s), 0)
        BY <1>3, <1>5, <2>1, <3>1, <4>1 DEF Relaxed
      <4> QED
        BY <1>1, <1>3, <1>4, <4>1, <4>2
    <3>2. ASSUME NEW c \in Claimer, Starting(c)', claim'[c].of = r
          PROVE  \E s \in Nat : /\ s = SlotOfKey(c)'
                                /\ Left(rt'[r].next, s, Retried(r, s)' + 1, 0)
      <4>1. PICK s \in Nat : s = SlotOfKey(c)
        BY <1>6, <3>2, NumberFacts
      <4>2. s = SlotOfKey(c)'
        BY <1>3, <1>6, <3>2, <4>1 DEF SlotOfKey
      <4>3. Left(rt[r].next, s, Retried(r, s) + 1, 0)
        BY <1>6, <2>1, <3>2, <4>1 DEF Relaxed
      <4> QED
        BY <1>1, <1>4, <4>2, <4>3
    <3> QED
      BY <3>1, <3>2 DEF Relaxed
  <2>2. CASE SoleRun(r)
    <3>1. ASSUME NEW i \in Run, ClearRetry(i), run[i].of = r
          PROVE  \A j \in Run : ~Ends(j, r)'
      <4>1. Works(i) /\ ~Running(i) /\ Ends(i, r)
        BY <3>1 DEF ClearRetry, Chained, Ends
      <4>2. \A j \in Run : Ends(j, r) => j = i
        BY <2>2, <4>1 DEF SoleRun
      <4>3. ~Ends(i, r)'
        BY <3>1, <4>1 DEF ClearRetry, Ends, Running, TypeOK, NoFin
      <4> QED
        BY <1>5, <4>2, <4>3
    <3>2. ASSUME NEW c \in Claimer, ClearStale(c), claim[c].of = r
          PROVE  FALSE
      BY <2>2, <3>2 DEF ClearStale, At, SoleRun, Party
    <3>3. \A j \in Run : ~Ends(j, r)'
      BY <3>1, <3>2 DEF Droppings
    <3>4. \A c \in Claimer : ~Party(c, r)'
      BY <1>6, <2>2 DEF SoleRun
    <3> QED
      BY <3>3, <3>4, NothingOpen
  <2>3. CASE SoleClaim(r)
    <3>1. ASSUME NEW i \in Run, ClearRetry(i), run[i].of = r
          PROVE  FALSE
      BY <2>3, <3>1 DEF ClearRetry, Chained, Ends, SoleClaim
    <3>2. ASSUME NEW c \in Claimer, ClearStale(c), claim[c].of = r
          PROVE  \A d \in Claimer : ~Party(d, r)'
      <4>1. Party(c, r)
        BY <3>2 DEF ClearStale, At, Party
      <4>2. ~Party(c, r)'
        BY <3>2 DEF ClearStale, GivesUp, TypeOK, NoClaim, Party
      <4> QED
        BY <1>6, <2>3, <4>1, <4>2 DEF SoleClaim
    <3>3. \A d \in Claimer : ~Party(d, r)'
      BY <3>1, <3>2 DEF Droppings
    <3>4. \A j \in Run : ~Ends(j, r)'
      BY <1>5, <2>3 DEF SoleClaim
    <3> QED
      BY <3>3, <3>4, NothingOpen
  <2> QED
    BY <1>2, <2>1, <2>2, <2>3
<1>8. ASSUME NEW i \in Run, NEW s \in Nat, Works(i)', run'[i].of = r,
             s = run'[i].slot
      PROVE  /\ s < rt'[r].next
             /\ fin'[i].at = "write" =>
                  Left(rt'[r].next, s, Retried(r, s)' + 1, fin'[i].count)
             /\ rt'[r].retry # i
  <2>1. RunWithin(i, r)
    BY <1>2, <1>3, <1>5, <1>8 DEF Within
  <2>2. /\ s < rt[r].next
        /\ fin[i].at = "write" =>
             Left(rt[r].next, s, Retried(r, s) + 1, fin[i].count)
    BY <1>3, <1>8, <2>1 DEF RunWithin
  <2> QED
    BY <1>1, <1>3, <1>4, <2>2 DEF Run
<1>9. ASSUME NEW c \in Claimer, Holding(c)', claim'[c].of = r
      PROVE  claim'[c].key < rt'[r].next
  <2>1. ClaimWithin(c, r)
    BY <1>2, <1>6, <1>9 DEF Within, Party, Holding
  <2> QED
    BY <1>1, <1>6, <1>9, <2>1 DEF ClaimWithin
<1> QED
  BY <1>7, <1>8, <1>9, FittingRelaxed


\* A retry is armed with the count that was decided.
LEMMA FittingArmed ==
    ASSUME TypeOK, Registered, Chained, TypeOK', Registered',
           NEW r \in Routine, Fitting(r), Armings(r)
    PROVE  Fitting(r)'
<1>1. PICK i \in Run : /\ ArmWrite(i) /\ run[i].of = r /\ There(r)
                       /\ rt'[r] = ArmedRow(i, r)
  BY DEF Armings
<1>2. /\ UNCHANGED <<run, claim>> /\ fin[i].at = "write"
      /\ fin'[i].at = "idle" /\ \A j \in Run : j # i => fin'[j] = fin[j]
  BY <1>1 DEF ArmWrite, TypeOK, NoFin
<1>3. /\ rt[r] \in Row /\ rt'[r].next = rt[r].next /\ rt'[r].retry = i
      /\ rt'[r].count = fin[i].count
  BY <1>1 DEF ArmedRow, TypeOK, Row
<1>4. Within(r) /\ (Relaxed(r) \/ SoleRun(r) \/ SoleClaim(r))
  BY <1>1 DEF Fitting
<1>5. \A s \in Nat : Retried(r, s)' = Retried(r, s)
  BY <1>2 DEF Retried, RetriesOf, RunsOf
<1>6. \A j \in Run : /\ Works(j)' <=> Works(j)
                     /\ Open(j)' => Open(j)
                     /\ Ends(j, r)' => Ends(j, r)
  <2>1. \A j \in Run : fin'[j] = fin[j] \/ fin'[j].at = "idle"
    BY <1>2
  <2> QED
    BY <1>2, <2>1 DEF Open, Ends, Works, Running
<1>7. Works(i) /\ ~Running(i) /\ Ends(i, r) /\ ~Ends(i, r)'
  <2>1. Works(i) /\ ~Running(i)
    BY <1>2 DEF Chained
  <2> QED
    BY <1>1, <1>2, <2>1 DEF Ends, Running
<1>8. \A c \in Claimer : /\ Starting(c)' <=> Starting(c)
                         /\ Holding(c)' <=> Holding(c)
                         /\ Party(c, r)' <=> Party(c, r)
  BY <1>2 DEF Starting, Holding, Party
<1>9. Relaxed(r)'
  <2>1. CASE Relaxed(r)
    <3>1. ASSUME NEW j \in Run, Open(j)', run'[j].of = r
          PROVE  \E s \in Nat : /\ s = run'[j].slot
                                /\ Left(rt'[r].next, s, Retried(r, s)', 0)
      <4>1. PICK s \in Nat : s = run[j].slot
        BY <1>6, <3>1, NumberFacts DEF Open
      <4>2. Left(rt[r].next, s, Retried(r, s), 0)
        BY <1>2, <1>6, <2>1, <3>1, <4>1 DEF Relaxed
      <4> QED
        BY <1>2, <1>3, <1>5, <4>1, <4>2
    <3>2. ASSUME NEW c \in Claimer, Starting(c)', claim'[c].of = r
          PROVE  \E s \in Nat : /\ s = SlotOfKey(c)'
                                /\ Left(rt'[r].next, s, Retried(r, s)' + 1, 0)
      <4>1. PICK s \in Nat : s = SlotOfKey(c)
        BY <1>8, <3>2, NumberFacts
      <4>2. s = SlotOfKey(c)'
        BY <1>2, <4>1 DEF SlotOfKey
      <4>3. Left(rt[r].next, s, Retried(r, s) + 1, 0)
        BY <1>2, <1>8, <2>1, <3>2, <4>1 DEF Relaxed
      <4> QED
        BY <1>3, <1>5, <4>2, <4>3
    <3> QED
      BY <3>1, <3>2 DEF Relaxed
  <2>2. CASE SoleRun(r)
    <3>1. \A j \in Run : ~Ends(j, r)'
      BY <1>6, <1>7, <2>2 DEF SoleRun
    <3>2. \A c \in Claimer : ~Party(c, r)'
      BY <1>8, <2>2 DEF SoleRun
    <3> QED
      BY <3>1, <3>2, NothingOpen
  <2>3. ~SoleClaim(r)
    BY <1>7 DEF SoleClaim
  <2> QED
    BY <1>4, <2>1, <2>2, <2>3
<1>10. ASSUME NEW j \in Run, NEW s \in Nat, Works(j)', run'[j].of = r,
              s = run'[j].slot
       PROVE  /\ s < rt'[r].next
              /\ fin'[j].at = "write" =>
                   Left(rt'[r].next, s, Retried(r, s)' + 1, fin'[j].count)
              /\ rt'[r].retry = j =>
                   Left(rt'[r].next, s, Retried(r, s)' + 1, rt'[r].count)
  <2>1. RunWithin(j, r)
    BY <1>2, <1>4, <1>6, <1>10 DEF Within
  <2>2. /\ s < rt[r].next
        /\ fin[j].at = "write" =>
             Left(rt[r].next, s, Retried(r, s) + 1, fin[j].count)
    BY <1>2, <1>10, <2>1 DEF RunWithin
  <2>3. fin'[j].at = "write" => fin'[j] = fin[j]
    BY <1>2
  <2> QED
    BY <1>2, <1>3, <1>5, <2>2, <2>3
<1>11. ASSUME NEW c \in Claimer, Holding(c)', claim'[c].of = r
       PROVE  claim'[c].key < rt'[r].next
  <2>1. ClaimWithin(c, r)
    BY <1>2, <1>4, <1>8, <1>11 DEF Within, Party, Holding
  <2> QED
    BY <1>2, <1>3, <1>8, <1>11, <2>1 DEF ClaimWithin
<1> QED
  BY <1>9, <1>10, <1>11, FittingRelaxed

\* A routine without anything under way.
LEMMA FittingIdle ==
    ASSUME TypeOK', Registered', NEW r \in Routine,
           \A i \in Run : ~(Works(i)' /\ run'[i].of = r),
           \A c \in Claimer : ~Party(c, r)'
    PROVE  Fitting(r)'
<1>1. Relaxed(r)'
  BY NothingOpen DEF Ends
<1>2. \A c \in Claimer : ~(Holding(c)' /\ claim'[c].of = r)
  BY DEF Party, Holding
<1> QED
  BY <1>1, <1>2, FittingRelaxed

\* A routine that is created, and one that has had no time yet.
LEMMA FittingNew ==
    ASSUME TypeOK, Registered, Chained, Known, TypeOK', Registered',
           NEW r \in Routine, Fitting(r),
           \/ Created(r)
           \/ There(r) /\ rt[r].next = 0 /\ \E e \in Tab : PatchWrite(e)
    PROVE  Fitting(r)'
<1>1. UNCHANGED <<run, claim>>
  BY DEF Created, Create, PatchWrite
<1>2. CASE Created(r)
  <2>1. rt[r].life = "none"
    BY <1>2 DEF Created, Create
  <2>2. \A i \in Run : ~(Works(i) /\ run[i].of = r)
    BY <2>1 DEF Known
  <2>3. \A c \in Claimer : ~Party(c, r)
    BY <2>1 DEF Known, Party
  <2> QED
    BY <1>1, <2>2, <2>3, FittingIdle DEF Works, Party, Starting, Holding
<1>3. CASE There(r) /\ rt[r].next = 0
  <2>1. Within(r)
    BY <1>3 DEF Fitting
  <2>2. \A i \in Run : ~(Works(i) /\ run[i].of = r)
    BY <1>3, <2>1, NumberFacts DEF Within, RunWithin
  <2>3. \A c \in Claimer : ~(Starting(c) /\ claim[c].of = r)
    <3>1. \A c \in Claimer : Starting(c) => claim[c].key \in Run
      BY StartingFacts
    <3> QED
      BY <2>2, <3>1 DEF Chained
  <2>4. \A c \in Claimer : ~(Holding(c) /\ claim[c].of = r)
    BY <1>3, <2>1, HolderTypes DEF Within, ClaimWithin, Party
  <2>5. Relaxed(r)'
    BY <1>1, <2>2, <2>3 DEF Relaxed, Open, Works, Starting
  <2> QED
    BY <1>1, <2>2, <2>4, <2>5, FittingRelaxed DEF Works, Holding
<1> QED
  BY <1>2, <1>3


\* The next slot gives every earlier one as many retries again.
LEMMA LeftGrows ==
    ASSUME NEW a \in Nat, NEW b \in Nat, a < b, NEW s \in Nat,
           NEW used \in Nat, NEW count \in Nat, count <= MaxRetry,
           Left(a, s, used, count)
    PROVE  Left(b, s, used, 0)
<1>1. /\ MaxRetry \in Nat /\ MaxRetry * (a - s) \in Int
      /\ MaxRetry * (b - s) \in Int
      /\ MaxRetry * (a - s) + MaxRetry <= MaxRetry * (b - s)
  BY LimitsAssumption, RoomGrows
<1> QED
  BY <1>1 DEF Left

\* Taking a slot begins the count again, and moves the next time on.
LEMMA FittingSlot ==
    ASSUME TypeOK, Registered, Slots, Fits, Counts, TypeOK', Registered',
           NEW c \in Claimer, NEW r \in Routine, claim[c].of = r,
           TakeSlot(c), HasSlot(c), Fitting(r)
    PROVE  Fitting(r)'
<1>1. /\ UNCHANGED <<run, fin>> /\ claim[c] \in Claim /\ claim[c].at = "slot"
      /\ There(r) /\ rt[r].next = claim[c].key /\ rt[r] \in Row
      /\ rt' = [rt EXCEPT ![r] = SlotTaken(c, r)]
  BY ClaimFacts DEF TakeSlot, At, HasSlot, SlotTaken, TypeOK
<1>2. PICK a \in Nat, b \in Nat, n \in Nat :
        a = rt[r].next /\ b = claim[c].next /\ n = rt[r].count
  BY <1>1, NumberFacts, HolderTypes
<1>3. a < b
  BY <1>1, <1>2 DEF Slots, Fits
<1>4. n <= MaxRetry
  BY <1>2 DEF Counts
<1>5. rt'[r].next = b /\ rt'[r].retry = 0 /\ rt'[r].count = 0
  <2>1. rt'[r] = SlotTaken(c, r)
    BY <1>1 DEF TypeOK
  <2>2. rt[r] \in Row
    BY <1>1
  <2> QED
    BY <1>2, <2>1, <2>2 DEF SlotTaken, NoRetry, Row
<1>6. /\ \A d \in Claimer : d # c => claim'[d] = claim[d]
      /\ claim'[c].at \in {"idle", "check", "missed"}
      /\ claim'[c].at # "idle" => claim'[c].key = a
  <2>1. CASE GivesUp(c)
    BY <2>1 DEF GivesUp, TypeOK, NoClaim
  <2>2. ASSUME NEW at \in {"check", "missed"}, Goes(c, at)
        PROVE  /\ \A d \in Claimer : d # c => claim'[d] = claim[d]
               /\ claim'[c].at = at /\ claim'[c].key = claim[c].key
    <3>1. /\ claim'[c] = [claim[c] EXCEPT !.at = at]
          /\ \A d \in Claimer : d # c => claim'[d] = claim[d]
      BY <1>1, <2>2, ClaimGoes
    <3> QED
      BY <1>1, <3>1 DEF Claim
  <2>3. GivesUp(c) \/ Goes(c, "missed") \/ Goes(c, "check")
    BY DEF TakeSlot
  <2> QED
    BY <1>1, <1>2, <2>1, <2>2, <2>3
<1>7. Within(r)
  BY <1>1 DEF Fitting
<1>8. \A s \in Nat : /\ Retried(r, s)' = Retried(r, s)
                     /\ Retried(r, s) \in Nat /\ Retried(r, s) + 1 \in Nat
  <2>1. \A s \in Nat : Retried(r, s) \in Nat /\ Retried(r, s) + 1 \in Nat
    BY RetriedFacts
  <2>2. \A s \in Nat : Retried(r, s)' = Retried(r, s)
    BY <1>1 DEF Retried, RetriesOf, RunsOf
  <2> QED
    BY <2>1, <2>2
<1>9. Relaxed(r)'
  <2>1. ASSUME NEW j \in Run, Open(j)', run'[j].of = r
        PROVE  \E s \in Nat : /\ s = run'[j].slot
                              /\ Left(rt'[r].next, s, Retried(r, s)', 0)
    <3>1. Open(j) /\ Works(j) /\ run[j].of = r
      BY <1>1, <2>1 DEF Open, Works, Running
    <3>2. PICK s \in Nat : s = run[j].slot
      BY <3>1, NumberFacts
    <3>3. Left(a, s, Retried(r, s), n)
      BY <1>2, <1>7, <3>1, <3>2 DEF Within, RunWithin
    <3>4. Left(b, s, Retried(r, s), 0)
      BY <1>3, <1>4, <1>8, <3>3, LeftGrows
    <3> QED
      BY <1>1, <1>5, <1>8, <3>2, <3>4
  <2>2. ASSUME NEW d \in Claimer, Starting(d)', claim'[d].of = r
        PROVE  \E s \in Nat : /\ s = SlotOfKey(d)'
                              /\ Left(rt'[r].next, s, Retried(r, s)' + 1, 0)
    <3>1. Starting(d) /\ claim'[d] = claim[d] /\ Party(d, r)
      BY <1>6, <2>2 DEF Starting, Party
    <3>2. PICK s \in Nat : s = SlotOfKey(d)
      BY <3>1, NumberFacts
    <3>3. s = SlotOfKey(d)'
      BY <1>1, <3>1, <3>2 DEF SlotOfKey
    <3>4. Left(a, s, Retried(r, s) + 1, n)
      BY <1>2, <1>7, <3>1, <3>2 DEF Within, ClaimWithin
    <3>5. Left(b, s, Retried(r, s) + 1, 0)
      BY <1>3, <1>4, <1>8, <3>4, LeftGrows
    <3> QED
      BY <1>5, <1>8, <3>3, <3>5
  <2> QED
    BY <2>1, <2>2 DEF Relaxed
<1>10. ASSUME NEW j \in Run, NEW s \in Nat, Works(j)', run'[j].of = r,
              s = run'[j].slot
       PROVE  /\ s < rt'[r].next
              /\ fin'[j].at = "write" =>
                   Left(rt'[r].next, s, Retried(r, s)' + 1, fin'[j].count)
              /\ rt'[r].retry # j
  <2>1. RunWithin(j, r)
    BY <1>1, <1>7, <1>10 DEF Within, Works
  <2>2. /\ s < a
        /\ fin[j].at = "write" =>
             Left(a, s, Retried(r, s) + 1, fin[j].count)
    BY <1>1, <1>2, <1>10, <2>1 DEF RunWithin
  <2>3. fin[j].count \in Nat
    BY NumberFacts
  <2>4. fin[j].at = "write" => Left(b, s, Retried(r, s) + 1, fin[j].count)
    <3>1. PICK m \in Nat : m = fin[j].count
      BY <2>3
    <3>2. PICK k \in Nat : k = Retried(r, s) + 1
      BY <1>8
    <3>3. Left(a, s, k, m) => Left(b, s, k, m)
      BY <1>3, LeftStays
    <3> QED
      BY <2>2, <3>1, <3>2, <3>3
  <2> QED
    BY <1>1, <1>3, <1>5, <1>8, <2>2, <2>4 DEF Run
<1>11. ASSUME NEW d \in Claimer, Holding(d)', claim'[d].of = r
       PROVE  claim'[d].key < rt'[r].next
  <2>1. CASE d = c
    BY <1>3, <1>5, <1>6, <1>11, <2>1 DEF Holding
  <2>2. CASE d # c
    <3>1. Holding(d) /\ Party(d, r) /\ claim'[d] = claim[d]
      BY <1>6, <1>11, <2>2 DEF Holding, Party
    <3>2. claim[d].key < a /\ claim[d].key \in Nat
      BY <1>2, <1>7, <3>1, HolderTypes DEF Within, ClaimWithin
    <3> QED
      BY <1>3, <1>5, <3>1, <3>2
  <2> QED
    BY <2>1, <2>2
<1> QED
  BY <1>9, <1>10, <1>11, FittingRelaxed

\* A retry that is taken finds nothing else under way.
LEMMA FittingRetry ==
    ASSUME TypeOK, Registered, Chained, InTime, Orderly, TypeOK', Registered',
           NEW c \in Claimer, NEW r \in Routine, claim[c].of = r,
           TakeRetry(c), HasRetry(c), Fitting(r)
    PROVE  Fitting(r)'
<1>1. /\ UNCHANGED <<run, fin>> /\ claim[c] \in Claim /\ claim[c].at = "take"
      /\ There(r) /\ rt[r].retry = claim[c].key /\ rt[r] \in Row
      /\ rt' = [rt EXCEPT ![r] = Taken(rt[r])]
      /\ claim[c].trigger = "retry" /\ claim[c].key \in Run
  BY ClaimFacts DEF TakeRetry, At, HasRetry, TypeOK, Registered
<1>2. /\ rt'[r].next = rt[r].next /\ rt'[r].retry = 0
      /\ rt'[r].count = rt[r].count
  <2>1. rt'[r] = Taken(rt[r])
    BY <1>1 DEF TypeOK
  <2>2. rt[r] \in Row
    BY <1>1
  <2> QED
    BY <2>1, <2>2 DEF Taken, Row
<1>3. /\ claim'[c].at = "start" /\ claim'[c].trigger = "retry"
      /\ claim'[c].of = r /\ claim'[c].key = claim[c].key
      /\ \A d \in Claimer : d # c => claim'[d] = claim[d]
  <2>1. /\ claim'[c] = [claim[c] EXCEPT !.at = "start"]
        /\ \A d \in Claimer : d # c => claim'[d] = claim[d]
    BY <1>1, ClaimGoes DEF TakeRetry
  <2> QED
    BY <1>1, <2>1 DEF Claim
<1>4. /\ rt[r].retryAt = "due" /\ rt[r].text
      /\ \A i \in RunsOf(r) : Running(i) => run[i].trigger = "manual"
  BY <1>1 DEF InTime
<1>5. \A i \in Run : ~Ends(i, r) /\ ~Ends(i, r)'
  <2>1. \A i \in Run : fin[i].at = "idle"
    BY OrderlyFacts DEF TakeRetry
  <2>2. \A i \in Run : Works(i) /\ run[i].of = r => ~Running(i)
    BY <1>4 DEF Works, RunsOf
  <2> QED
    BY <1>1, <2>1, <2>2 DEF Ends, Works, Running
<1>6. \A d \in Claimer : d # c => ~Party(d, r)'
  <2>1. \A d \in Claimer : ~Party(d, r)
    BY <1>1, <1>4 DEF InTime, Party
  <2> QED
    BY <1>3, <2>1 DEF Party, Starting, Holding
<1>7. SoleClaim(r)'
  BY <1>2, <1>5, <1>6 DEF SoleClaim
<1>8. Within(r)
  BY <1>1 DEF Fitting
<1>9. \A s \in Nat : Retried(r, s)' = Retried(r, s)
  BY <1>1 DEF Retried, RetriesOf, RunsOf
<1>10. ASSUME NEW i \in Run, Works(i)', run'[i].of = r
       PROVE  RunWithin(i, r)'
  <2>1. PICK s \in Nat : s = run'[i].slot
    <3>1. run'[i] \in RunRow
      BY <1>10 DEF TypeOK, Works
    <3> QED
      BY <3>1 DEF RunRow
  <2>2. s < rt'[r].next
    BY <1>1, <1>2, <1>8, <1>10, <2>1 DEF Within, RunWithin, Works
  <2>3. ~Open(i)' /\ fin'[i].at = "idle"
    BY <1>5, <1>10 DEF Ends, Open
  <2>4. rt'[r].retry # i
    BY <1>2 DEF Run
  <2> QED
    BY <2>1, <2>2, <2>3, <2>4 DEF RunWithin
<1>11. ASSUME NEW d \in Claimer, Party(d, r)'
       PROVE  ClaimWithin(d, r)'
  <2>1. d = c /\ ~Holding(c)'
    BY <1>3, <1>6, <1>11 DEF Holding
  <2>2. PICK k \in Run : k = claim[c].key /\ k = claim'[c].key
    BY <1>1, <1>3
  <2>3. /\ Works(k) /\ run[k].of = r
    BY <1>1, <2>2 DEF Chained
  <2>4. PICK s \in Nat : s = run[k].slot
    BY <2>3, NumberFacts
  <2>5. Left(rt[r].next, s, Retried(r, s) + 1, rt[r].count)
    BY <1>1, <1>8, <2>2, <2>3, <2>4 DEF Within, RunWithin
  <2>6. s = SlotOfKey(c)'
    BY <1>1, <2>2, <2>4 DEF SlotOfKey
  <2>7. Left(rt'[r].next, s, Retried(r, s)' + 1, rt'[r].count)
    BY <1>2, <1>9, <2>5
  <2> QED
    BY <2>1, <2>6, <2>7 DEF ClaimWithin
<1> QED
  BY <1>7, <1>10, <1>11 DEF Fitting, Within

-----------------------------------------------------------------------------
(* Registering a run.                                                      *)

\* A retry that is registered is one more of its slot.
LEMMA RetriesAdded ==
    ASSUME TypeOK, Registered, NEW c \in Claimer, NEW i \in Run,
           NEW new \in RunRow, Registers(c, i, new),
           NEW r \in Routine, r = claim[c].of
    PROVE  /\ claim[c].trigger = "schedule" => RetriesSame(r)
           /\ \A s \in Nat : claim[c].trigger = "retry" =>
                Retried(r, s)' = IF s = SlotOf(claim[c])
                                 THEN Retried(r, s) + 1 ELSE Retried(r, s)
<1>1. /\ run'[i] = new /\ run[i] = Unused /\ new # Unused
      /\ \A j \in Run : j # i => run'[j] = run[j]
      /\ new.of = r /\ new.trigger = claim[c].trigger
      /\ new.slot = SlotOf(claim[c])
  BY AddsFacts DEF Registers
<1>2. CASE claim[c].trigger = "schedule"
  <2>1. \A s \in Nat, j \in Run :
          j \in RetriesOf(r, s)' <=> j \in RetriesOf(r, s)
    BY <1>1, <1>2 DEF RetriesOf, RunsOf
  <2>2. \A s \in Nat : RetriesOf(r, s)' = RetriesOf(r, s)
    BY <2>1 DEF RetriesOf, RunsOf
  <2> QED
    BY <1>2, <2>2 DEF RetriesSame
<1>3. ASSUME claim[c].trigger = "retry", NEW s \in Nat
      PROVE  Retried(r, s)' = IF s = SlotOf(claim[c])
                              THEN Retried(r, s) + 1 ELSE Retried(r, s)
  <2>1. CASE s = SlotOf(claim[c])
    <3>1. \A j \in Run : j \in RetriesOf(r, s)' <=>
            j \in RetriesOf(r, s) \cup {i}
      BY <1>1, <1>3, <2>1 DEF RetriesOf, RunsOf
    <3>2. RetriesOf(r, s)' = RetriesOf(r, s) \cup {i}
      BY <3>1 DEF RetriesOf, RunsOf
    <3>3. i \notin RetriesOf(r, s)
      BY <1>1 DEF RetriesOf, RunsOf
    <3>4. IsFiniteSet(RetriesOf(r, s))
      BY RetriedFacts
    <3>5. Cardinality(RetriesOf(r, s) \cup {i})
            = Cardinality(RetriesOf(r, s)) + 1
      BY <3>3, <3>4, FS_AddElement
    <3> QED
      BY <2>1, <3>2, <3>5 DEF Retried
  <2>2. CASE s # SlotOf(claim[c])
    <3>1. \A j \in Run : j \in RetriesOf(r, s)' <=> j \in RetriesOf(r, s)
      BY <1>1, <2>2 DEF RetriesOf, RunsOf
    <3>2. RetriesOf(r, s)' = RetriesOf(r, s)
      BY <3>1 DEF RetriesOf, RunsOf
    <3> QED
      BY <2>2, <3>2 DEF Retried
  <2> QED
    BY <2>1, <2>2
<1> QED
  BY <1>2, <1>3

\* A slot that is held has no retries.
LEMMA NoRetriesYet ==
    ASSUME TypeOK, Rooted, SlotsApart, NEW c \in Claimer, Holding(c)
    PROVE  Retried(claim[c].of, claim[c].key) = 0
<1> DEFINE r == claim[c].of
           s == claim[c].key
<1>1. ASSUME NEW j \in RetriesOf(r, s)
      PROVE  FALSE
  <2>1. j \in Run /\ Works(j) /\ run[j].of = r /\ run[j].slot = s
    BY <1>1 DEF RetriesOf, RunsOf, Works
  <2>2. PICK k \in Run : ByTimes(k) /\ Mates(j, k)
    BY <2>1 DEF Rooted
  <2>3. run[k].of = r /\ run[k].slot = s
    BY <2>1, <2>2 DEF Mates
  <2> QED
    BY <2>2, <2>3 DEF SlotsApart
<1>2. RetriesOf(r, s) = {}
  BY <1>1
<1> QED
  BY <1>2, FS_EmptySet DEF Retried

\* The run of a slot is the first of its slot.
LEMMA FittingFirst ==
    ASSUME TypeOK, Registered, Rooted, SlotsApart, TypeOK', Registered',
           NEW c \in Claimer, NEW i \in Run, NEW new \in RunRow,
           Registers(c, i, new), claim[c].trigger = "schedule",
           NEW r \in Routine, r = claim[c].of, Fitting(r),
           ~Party(c, r)', UNCHANGED <<rt, fin>>, ~Refused(r),
           \A d \in Claimer : d # c => claim'[d] = claim[d]
    PROVE  Fitting(r)'
<1>1. /\ run'[i] = new /\ run[i] = Unused /\ new # Unused
      /\ \A j \in Run : j # i => run'[j] = run[j]
      /\ new.of = r /\ new.trigger = "schedule"
      /\ new.slot = claim[c].key
  BY AddsFacts DEF Registers, SlotOf
<1>2. /\ Holding(c) /\ Party(c, r) /\ ~Starting(c) /\ claim[c].key \in Nat
      /\ There(r)
  BY HolderTypes DEF Registers, Holding, Party, Starting, Refused
<1>3. Within(r) /\ (Relaxed(r) \/ SoleClaim(r))
  BY <1>2 DEF Fitting, SoleRun
<1>4. claim[c].key < rt[r].next
  BY <1>2, <1>3 DEF Within, ClaimWithin
<1>5. fin[i].at = "idle" /\ rt[r].retry # i
  BY <1>1 DEF Registered, Run
<1>6. \A s \in Nat : Retried(r, s)' = Retried(r, s)
  BY RetriesAdded DEF RetriesSame, Retried
<1>7. Left(rt[r].next, claim[c].key, 0, 0)
  <2>1. PICK s \in Nat, next \in Nat :
          s = claim[c].key /\ next = rt[r].next /\ s < next
    BY <1>2, <1>4, NumberFacts
  <2>2. /\ MaxRetry \in Nat /\ MaxRetry * (next - s) \in Int
        /\ MaxRetry <= MaxRetry * (next - s)
    <3>1. next <= next
      OBVIOUS
    <3>2. /\ MaxRetry * (next - s) \in Int
          /\ s < next => MaxRetry <= MaxRetry * (next - s)
      BY <3>1, RoomGrows
    <3> QED
      BY <2>1, <3>2, LimitsAssumption
  <2> QED
    BY <2>1, <2>2 DEF Left
<1>8. \A d \in Claimer : Party(d, r)' =>
        /\ d # c /\ claim'[d] = claim[d] /\ Party(d, r)
        /\ Starting(d)' => Starting(d)
        /\ Holding(d)' => Holding(d)
  BY DEF Party, Starting, Holding
<1>9. Relaxed(r)'
  <2>1. ASSUME NEW j \in Run, Open(j)', run'[j].of = r
        PROVE  \E s \in Nat : /\ s = run'[j].slot
                              /\ Left(rt'[r].next, s, Retried(r, s)', 0)
    <3>1. CASE j = i
      BY <1>1, <1>2, <1>6, <1>7, <3>1, NoRetriesYet
    <3>2. CASE j # i
      <4>1. Open(j) /\ run[j].of = r /\ Works(j)
        BY <1>1, <2>1, <3>2 DEF Open, Works, Running
      <4>2. ~SoleClaim(r)
        BY <4>1 DEF SoleClaim, Ends, Open
      <4>3. PICK s \in Nat : s = run[j].slot
        BY <4>1, NumberFacts
      <4>4. Left(rt[r].next, s, Retried(r, s), 0)
        BY <1>3, <4>1, <4>2, <4>3 DEF Relaxed
      <4> QED
        BY <1>1, <1>6, <3>2, <4>3, <4>4
    <3> QED
      BY <3>1, <3>2
  <2>2. ASSUME NEW d \in Claimer, Starting(d)', claim'[d].of = r
        PROVE  \E s \in Nat : /\ s = SlotOfKey(d)'
                              /\ Left(rt'[r].next, s, Retried(r, s)' + 1, 0)
    <3>1. Party(d, r)'
      BY <2>2 DEF Party, Starting
    <3>2. d # c /\ claim'[d] = claim[d] /\ Party(d, r) /\ Starting(d)
      BY <1>8, <2>2, <3>1
    <3>3. ~SoleClaim(r)
      BY <1>2, <3>2 DEF SoleClaim
    <3>4. PICK s \in Nat : s = SlotOfKey(d)
      BY <3>2, NumberFacts
    <3>5. s = SlotOfKey(d)'
      <4>1. claim[d].key \in Run /\ run[claim[d].key] # Unused
        BY <3>2, StartingFacts DEF Registered, Starting
      <4> QED
        BY <1>1, <3>2, <3>4, <4>1 DEF SlotOfKey
    <3>6. Left(rt[r].next, s, Retried(r, s) + 1, 0)
      BY <1>3, <3>2, <3>3, <3>4 DEF Relaxed, Party
    <3> QED
      BY <1>6, <3>5, <3>6
  <2> QED
    BY <2>1, <2>2 DEF Relaxed
<1>10. ASSUME NEW j \in Run, NEW s \in Nat, Works(j)', run'[j].of = r,
              s = run'[j].slot
       PROVE  /\ s < rt'[r].next
              /\ fin'[j].at = "write" =>
                   Left(rt'[r].next, s, Retried(r, s)' + 1, fin'[j].count)
              /\ rt'[r].retry = j =>
                   Left(rt'[r].next, s, Retried(r, s)' + 1, rt'[r].count)
  <2>1. CASE j = i
    BY <1>1, <1>4, <1>5, <1>10, <2>1
  <2>2. CASE j # i
    <3>1. RunWithin(j, r)
      BY <1>1, <1>3, <1>10, <2>2 DEF Within, Works
    <3>2. /\ s < rt[r].next
          /\ fin[j].at = "write" =>
               Left(rt[r].next, s, Retried(r, s) + 1, fin[j].count)
          /\ rt[r].retry = j =>
               Left(rt[r].next, s, Retried(r, s) + 1, rt[r].count)
      BY <1>1, <1>10, <2>2, <3>1 DEF RunWithin
    <3> QED
      BY <1>6, <3>2
  <2> QED
    BY <2>1, <2>2
<1>11. ASSUME NEW d \in Claimer, Holding(d)', claim'[d].of = r
       PROVE  claim'[d].key < rt'[r].next
  <2>1. Party(d, r)'
    BY <1>11 DEF Party, Holding
  <2> QED
    BY <1>3, <1>8, <1>11, <2>1 DEF Within, ClaimWithin
<1> QED
  BY <1>9, <1>10, <1>11, FittingRelaxed


\* A retry uses up one of what its slot has left.
LEMMA FittingAgain ==
    ASSUME TypeOK, Registered, Chained, Counts, InTime, TypeOK', Registered',
           NEW c \in Claimer, NEW i \in Run, NEW new \in RunRow,
           Registers(c, i, new), claim[c].trigger = "retry",
           NEW r \in Routine, r = claim[c].of, Fitting(r),
           ~Party(c, r)', UNCHANGED <<rt, fin>>, ~Refused(r),
           \A d \in Claimer : d # c => claim'[d] = claim[d]
    PROVE  Fitting(r)'
<1>1. /\ run'[i] = new /\ run[i] = Unused /\ new # Unused
      /\ \A j \in Run : j # i => run'[j] = run[j]
      /\ new.of = r /\ new.trigger = "retry" /\ new.slot = SlotOf(claim[c])
  BY AddsFacts DEF Registers
<1>2. Starting(c) /\ Party(c, r) /\ There(r) /\ ~Busy(r)
  BY DEF Registers, Starting, Party, Refused, Registered
<1>3. PICK s \in Nat : s = SlotOfKey(c) /\ s = new.slot
  BY <1>1, <1>2, NumberFacts DEF SlotOf, SlotOfKey
<1>4. Within(r) /\ (Relaxed(r) \/ SoleClaim(r))
  BY <1>2 DEF Fitting, SoleRun
<1>5. PICK n \in Nat, next \in Nat, count \in Nat :
        n = Retried(r, s) /\ next = rt[r].next /\ count = rt[r].count
  BY RetriedFacts, NumberFacts
<1>6. /\ Retried(r, s)' = n + 1
      /\ \A t \in Nat : t # s => Retried(r, t)' = Retried(r, t)
  BY <1>1, <1>3, <1>5, RetriesAdded
<1>7. Left(next, s, n + 1, count)
  BY <1>2, <1>3, <1>4, <1>5 DEF Within, ClaimWithin
<1>8. s < next
  <2>1. PICK k \in Run : k = claim[c].key
    BY <1>2, StartingFacts
  <2>2. Works(k) /\ run[k].of = r
    BY <1>2, <2>1 DEF Chained
  <2> QED
    BY <1>3, <1>4, <1>5, <2>1, <2>2 DEF Within, RunWithin, SlotOfKey
<1>9. fin[i].at = "idle" /\ rt[r].retry # i
  BY <1>1 DEF Registered, Run
<1>10. \A d \in Claimer : Party(d, r)' =>
         /\ d # c /\ claim'[d] = claim[d] /\ Party(d, r)
         /\ ~Starting(d)' /\ (Holding(d)' => Holding(d))
  <2>1. ASSUME NEW d \in Claimer, Party(d, r)'
        PROVE  /\ d # c /\ claim'[d] = claim[d] /\ Party(d, r)
               /\ Starting(d)' => Starting(d)
               /\ Holding(d)' => Holding(d)
    BY <2>1 DEF Party, Starting, Holding
  <2>2. \A d \in Claimer : d # c /\ Starting(d) /\ claim[d].of = r => FALSE
    BY <1>2 DEF InTime
  <2> QED
    BY <2>1, <2>2 DEF Party
<1>11. ASSUME NEW j \in Run, Works(j)', run'[j].of = r, j # i
       PROVE  /\ Works(j) /\ run[j].of = r /\ run'[j] = run[j]
              /\ RunWithin(j, r) /\ ~Running(j)
  <2>1. Works(j) /\ run[j].of = r /\ run'[j] = run[j]
    BY <1>1, <1>11 DEF Works
  <2>2. ~Running(j)
    BY <1>2, <2>1 DEF Busy, RunsOf, Works
  <2> QED
    BY <1>4, <2>1, <2>2 DEF Within
<1>12. CASE Relaxed(r)
  <2>1. Left(next, s, n + 1, 0)
    BY <1>2, <1>3, <1>5, <1>12 DEF Relaxed
  <2>2. \A m \in Nat : m # 0 => Left(next, s, n + 2, m)
    <3>1. MaxRetry \in Nat /\ MaxRetry * (next - s) \in Int
      BY LimitsAssumption, RoomGrows
    <3> QED
      BY <2>1, <3>1 DEF Left
  <2>3. Relaxed(r)'
    <3>1. ASSUME NEW j \in Run, Open(j)', run'[j].of = r
          PROVE  \E t \in Nat : /\ t = run'[j].slot
                                /\ Left(rt'[r].next, t, Retried(r, t)', 0)
      <4>1. CASE j = i
        BY <1>1, <1>3, <1>5, <1>6, <2>1, <4>1
      <4>2. CASE j # i
        <5>1. Works(j) /\ run[j].of = r /\ run'[j] = run[j] /\ Open(j)
          BY <1>11, <3>1, <4>2 DEF Open, Running
        <5>2. PICK t \in Nat : t = run[j].slot
          BY <5>1, NumberFacts
        <5>3. Left(next, t, Retried(r, t), 0)
          BY <1>5, <1>12, <5>1, <5>2 DEF Relaxed
        <5> QED
          BY <1>5, <1>6, <2>1, <5>1, <5>2, <5>3
      <4> QED
        BY <4>1, <4>2
    <3>2. \A d \in Claimer : ~(Starting(d)' /\ claim'[d].of = r)
      BY <1>10 DEF Party, Starting
    <3> QED
      BY <3>1, <3>2 DEF Relaxed
  <2>4. ASSUME NEW j \in Run, NEW t \in Nat, Works(j)', run'[j].of = r,
               t = run'[j].slot
        PROVE  /\ t < rt'[r].next
               /\ fin'[j].at = "write" =>
                    Left(rt'[r].next, t, Retried(r, t)' + 1, fin'[j].count)
               /\ rt'[r].retry = j =>
                    Left(rt'[r].next, t, Retried(r, t)' + 1, rt'[r].count)
    <3>1. CASE j = i
      BY <1>1, <1>3, <1>5, <1>8, <1>9, <2>4, <3>1
    <3>2. CASE j # i
      <4>1. /\ t < next
            /\ fin[j].at = "write" =>
                 Left(next, t, Retried(r, t) + 1, fin[j].count)
            /\ rt[r].retry = j => Left(next, t, Retried(r, t) + 1, count)
        BY <1>5, <1>11, <2>4, <3>2 DEF RunWithin
      <4>2. CASE t # s
        BY <1>5, <1>6, <4>1, <4>2
      <4>3. CASE t = s
        <5>1. fin[j].at = "write" => fin[j].count \in Nat /\ fin[j].count # 0
          BY LimitsAssumption DEF Counts
        <5>2. rt[r].retry = j => count # 0
          BY <1>5 DEF Counts, Run
        <5>3. n + 2 = (n + 1) + 1
          OBVIOUS
        <5> QED
          BY <1>5, <1>6, <2>2, <4>1, <4>3, <5>1, <5>2, <5>3
      <4> QED
        BY <4>2, <4>3
    <3> QED
      BY <3>1, <3>2
  <2>5. ASSUME NEW d \in Claimer, Holding(d)', claim'[d].of = r
        PROVE  claim'[d].key < rt'[r].next
    <3>1. Party(d, r)'
      BY <2>5 DEF Party, Holding
    <3> QED
      BY <1>4, <1>10, <2>5, <3>1 DEF Within, ClaimWithin
  <2> QED
    BY <2>3, <2>4, <2>5, FittingRelaxed
<1>13. CASE SoleClaim(r)
  <2>1. /\ \A d \in Claimer : ~Party(d, r)'
        /\ rt'[r].retry = 0
    BY <1>2, <1>10, <1>13 DEF SoleClaim
  <2>2. ASSUME NEW j \in Run, Works(j)', run'[j].of = r, j # i
        PROVE  ~Ends(j, r) /\ ~Ends(j, r)'
    BY <1>11, <1>13, <2>2 DEF SoleClaim, Ends, Running
  <2>3. SoleRun(r)'
    BY <2>1, <2>2 DEF SoleRun, Ends
  <2>4. ASSUME NEW j \in Run, Works(j)', run'[j].of = r
        PROVE  RunWithin(j, r)'
    <3>1. rt'[r].retry # j
      BY <2>1 DEF Run
    <3>2. CASE j = i
      <4>1. Left(rt'[r].next, s, Retried(r, s)', rt'[r].count)
        BY <1>5, <1>6, <1>7
      <4> QED
        BY <1>1, <1>3, <1>5, <1>8, <1>9, <3>1, <3>2, <4>1 DEF RunWithin
    <3>3. CASE j # i
      <4>1. PICK t \in Nat : t = run'[j].slot
        BY <1>11, <2>4, <3>3, NumberFacts
      <4>2. t < rt'[r].next
        BY <1>11, <2>4, <3>3, <4>1 DEF RunWithin
      <4>3. ~Open(j)' /\ fin'[j].at = "idle"
        BY <1>11, <2>2, <2>4, <3>3 DEF Ends, Open
      <4> QED
        BY <3>1, <4>1, <4>2, <4>3 DEF RunWithin
    <3> QED
      BY <3>2, <3>3
  <2> QED
    BY <2>1, <2>3, <2>4 DEF Fitting, Within
<1> QED
  BY <1>4, <1>12, <1>13

-----------------------------------------------------------------------------
(* Every step.                                                             *)

LEMMA FittingStep ==
    ASSUME TypeOK, Registered, Chained, Rooted, Slots, SlotsApart, Fits,
           Known, Counts, InTime, Ahead, Orderly, TypeOK', Registered',
           [Next]_vars, NEW r \in Routine, Fitting(r)
    PROVE  Fitting(r)'
<1>1. ASSUME NEW c \in Claimer, NEW i \in Run, NEW new \in RunRow,
             Registers(c, i, new), r = claim[c].of, ~Party(c, r)',
             UNCHANGED <<rt, fin>>, ~Refused(r),
             \A d \in Claimer : d # c => claim'[d] = claim[d]
      PROVE  Fitting(r)'
  <2>1. claim[c].trigger \in {"schedule", "retry"}
    BY <1>1, ClaimFacts DEF Registers, Claim
  <2> QED
    BY <1>1, <2>1, FittingFirst, FittingAgain
<1>2. ASSUME NEW c \in Claimer, Takes(c), claim[c].of = r
      PROVE  Fitting(r)'
  BY <1>2, FittingSlot, FittingRetry DEF Takes
<1>3. CASE Takings(r)
  BY <1>2, <1>3 DEF Takings, Takes
<1>4. CASE Droppings(r)
  BY <1>4, FittingDropped
<1>5. CASE Armings(r)
  BY <1>5, FittingArmed
<1>6. CASE Created(r) \/ (There(r) /\ rt[r].next = 0
                          /\ \E e \in Tab : PatchWrite(e))
  BY <1>6, FittingNew
<1>7. CASE /\ RowEase(r) /\ RunsEase(r) /\ RetriesSame(r)
           /\ \A c \in Claimer : ClaimEase(c, r)
  BY <1>7, FinsEased, FittingEases DEF Eases
<1>8. \/ RunsEase(r) /\ RetriesSame(r)
      \/ Fitting(r)'
  <2>1. CASE \A q \in Routine : RunsEase(q) /\ RetriesSame(q)
    BY <2>1
  <2>2. ASSUME NEW c \in Claimer, NEW k \in Run, NEW new \in RunRow,
               Registers(c, k, new), \A q \in Routine : ~Party(c, q)',
               UNCHANGED <<rt, fin>>, ~Refused(claim[c].of),
               \A d \in Claimer : d # c => claim'[d] = claim[d],
               \A q \in Routine :
                 q # claim[c].of => RunsEase(q) /\ RetriesSame(q)
        PROVE  \/ RunsEase(r) /\ RetriesSame(r)
               \/ Fitting(r)'
    BY <1>1, <2>2
  <2> QED
    BY <2>1, <2>2, RunsEased
<1>9. (\A c \in Claimer : ClaimEase(c, r)) \/ Fitting(r)'
  BY <1>2, ClaimsEased
<1> QED
  BY <1>3, <1>4, <1>5, <1>6, <1>7, <1>8, <1>9, RowsEased

\* As many as MaxRetry for each slot that has come since.
Bound(s) == IF Due(s) THEN clock \div 2 - s + 1 ELSE 0

LEMMA Halves ==
    ASSUME NEW a \in Nat, NEW s \in Nat
    PROVE  /\ a \div 2 \in Nat /\ a \div 2 <= (a + 1) \div 2
           /\ 2 * s <= a => s <= a \div 2
<1>1. a \div 2 \in Nat
  OBVIOUS
<1>2. a \div 2 <= (a + 1) \div 2
  OBVIOUS
<1>3. 2 * s <= a => s <= a \div 2
  OBVIOUS
<1> QED
  BY <1>1, <1>2, <1>3

LEMMA BoundGrows ==
    ASSUME TypeOK, TypeOK', [Next]_vars, NEW s \in 1..MaxSlot
    PROVE  Bound(s) \in Nat /\ Bound(s)' \in Nat /\ Bound(s) <= Bound(s)'
<1>1. PICK a \in Nat, b \in Nat : a = clock /\ b = clock' /\ b \in {a, a + 1}
  BY ClockGrows DEF TypeOK
<1>2. s \in Nat /\ s # 0
  BY LimitsAssumption
<1>3. a \div 2 \in Nat /\ b \div 2 \in Nat /\ a \div 2 <= b \div 2
  <2>1. a \div 2 \in Nat
    BY <1>2, Halves
  <2>2. CASE b = a
    BY <2>1, <2>2
  <2>3. CASE b = a + 1
    <3>1. (a + 1) \div 2 \in Nat
      BY <1>2, Halves
    <3>2. a \div 2 <= (a + 1) \div 2
      BY <1>2, Halves
    <3> QED
      BY <2>1, <2>3, <3>1, <3>2
  <2> QED
    BY <1>1, <2>2, <2>3
<1>4. /\ 2 * s <= a => s <= a \div 2 /\ 2 * s <= b
      /\ 2 * s <= b => s <= b \div 2
  <2>1. 2 * s <= a => 2 * s <= b
    BY <1>1, <1>2
  <2> QED
    BY <1>2, <2>1, Halves
<1>5. /\ Bound(s) = IF 2 * s <= a THEN a \div 2 - s + 1 ELSE 0
      /\ Bound(s)' = IF 2 * s <= b THEN b \div 2 - s + 1 ELSE 0
  BY <1>1, <1>2 DEF Bound, Due
<1> QED
  BY <1>2, <1>3, <1>4, <1>5

LEMMA TimesGrow ==
    ASSUME NEW a \in Nat, NEW b \in Nat, a <= b
    PROVE  /\ MaxRetry * a \in Nat /\ MaxRetry * b \in Nat
           /\ MaxRetry * a <= MaxRetry * b
<1>1. \A m, d \in Nat : m * d \in Nat
  OBVIOUS
<1>2. MaxRetry * (a - 0) <= MaxRetry * (b - 0)
  <2>1. 0 \in Nat
    OBVIOUS
  <2> QED
    BY <2>1, RoomGrows
<1>3. a - 0 = a /\ b - 0 = b
  OBVIOUS
<1> QED
  BY <1>1, <1>2, <1>3, LimitsAssumption

LEMMA BoundedStep ==
    ASSUME TypeOK, Registered, Chained, Rooted, Slots, Counts, Ahead,
           TypeOK', Registered', [Next]_vars, RetriesBounded,
           \A r \in Routine : Fitting(r)
    PROVE  RetriesBounded'
<1>0. MaxRetry \in Nat
  BY LimitsAssumption
<1> SUFFICES ASSUME NEW r \in Routine, NEW s \in 1..MaxSlot
             PROVE  Retried(r, s)' <= MaxRetry * Bound(s)'
  BY DEF RetriesBounded, Retried, Bound
<1>1. s \in Nat \ {0}
  BY LimitsAssumption
<1>2. Retried(r, s) \in Nat /\ Retried(r, s) <= MaxRetry * Bound(s)
  BY <1>1, RetriedFacts DEF RetriesBounded, Retried, Bound
<1>3. CASE Retried(r, s)' = Retried(r, s)
  <2>1. PICK a \in Nat, b \in Nat :
          a = Bound(s) /\ b = Bound(s)' /\ a <= b
    BY BoundGrows
  <2>2. /\ MaxRetry * a \in Nat /\ MaxRetry * b \in Nat
        /\ MaxRetry * a <= MaxRetry * b
    BY <2>1, TimesGrow
  <2> QED
    BY <1>2, <1>3, <2>1, <2>2
<1>4. ASSUME NEW c \in Claimer, NEW i \in Run, NEW new \in RunRow,
             Registers(c, i, new), r = claim[c].of, ~Refused(r),
             UNCHANGED <<rt, fin>>, claim[c].trigger = "retry",
             s = SlotOf(claim[c])
      PROVE  Retried(r, s)' <= MaxRetry * Bound(s)'
  <2>1. Starting(c) /\ Party(c, r) /\ There(r)
    BY <1>4 DEF Registers, Starting, Party, Refused, Registered
  <2>2. s = SlotOfKey(c)
    BY <1>4 DEF SlotOf, SlotOfKey
  <2>3. Retried(r, s)' = Retried(r, s) + 1
    BY <1>1, <1>4, RetriesAdded
  <2>4. Left(rt[r].next, s, Retried(r, s) + 1, rt[r].count)
    BY <2>1, <2>2 DEF Fitting, Within, ClaimWithin
  <2>5. rt[r].count <= MaxRetry /\ rt[r].next <= clock \div 2 + 1
    BY <2>1 DEF Counts, Ahead
  <2>6. 2 * s <= clock
    <3>1. PICK k \in Run : k = claim[c].key /\ Works(k) /\ s = run[k].slot
      BY <2>1, <2>2, StartingFacts DEF Chained, SlotOfKey
    <3>2. PICK j \in Run : ByTimes(j) /\ Mates(k, j)
      BY <3>1 DEF Rooted
    <3> QED
      BY <3>1, <3>2 DEF Slots, Used, Mates
  <2>7. PICK a \in Nat, b \in Nat, n \in Nat, m \in Nat :
          /\ a = rt[r].next /\ b = clock \div 2 + 1
          /\ n = Retried(r, s) /\ m = rt[r].count
    BY <1>2, NumberFacts
  <2>8. Bound(s) = b - s /\ clock \in Nat
    BY <1>1, <2>6, <2>7 DEF Bound, Due, TypeOK
  <2>9. /\ MaxRetry * (a - s) \in Int /\ MaxRetry * (b - s) \in Int
        /\ MaxRetry * (a - s) <= MaxRetry * (b - s)
    BY <1>1, <2>5, <2>7, RoomGrows
  <2>10. n + 1 <= MaxRetry * (b - s)
    BY <1>0, <2>4, <2>5, <2>7, <2>9 DEF Left
  <2>11. PICK d \in Nat, e \in Nat : d = Bound(s) /\ e = Bound(s)' /\ d <= e
    BY BoundGrows
  <2>12. /\ MaxRetry * d \in Nat /\ MaxRetry * e \in Nat
         /\ MaxRetry * d <= MaxRetry * e
    BY <2>11, TimesGrow
  <2> QED
    BY <2>3, <2>7, <2>8, <2>10, <2>11, <2>12
<1>5. ASSUME NEW c \in Claimer, NEW k \in Run, NEW new \in RunRow,
             Registers(c, k, new), UNCHANGED <<rt, fin>>,
             ~Refused(claim[c].of), claim[c].of = r
      PROVE  Retried(r, s)' <= MaxRetry * Bound(s)'
  <2>1. claim[c].trigger \in {"schedule", "retry"}
    BY <1>5, ClaimFacts DEF Registers, Claim
  <2>2. CASE claim[c].trigger = "schedule"
    <3>1. Retried(r, s)' = Retried(r, s)
      BY <1>1, <1>5, <2>2, RetriesAdded DEF RetriesSame, Retried
    <3> QED
      BY <1>3, <3>1
  <2>3. CASE claim[c].trigger = "retry" /\ s # SlotOf(claim[c])
    <3>1. Retried(r, s)' = Retried(r, s)
      BY <1>1, <1>5, <2>3, RetriesAdded
    <3> QED
      BY <1>3, <3>1
  <2> QED
    BY <1>4, <1>5, <2>1, <2>2, <2>3
<1>6. CASE RetriesSame(r)
  <2>1. Retried(r, s)' = Retried(r, s)
    BY <1>1, <1>6 DEF RetriesSame, Retried
  <2> QED
    BY <1>3, <2>1
<1> QED
  BY <1>5, <1>6, RunsEased

-----------------------------------------------------------------------------

\* A slot gets at most the retries of RETRY_DELAYS_MS for every slot that has
\* come since, whatever settles, sweeps, claims, dies and is deleted at the
\* same time, with any number of machines, polls and slots.  It is proved for
\* handlers that are not overtaken, which may count a retry twice or not at
\* all, and for routines that are not switched off, left without times or
\* without text, which begin the count again.
THEOREM RetriesAreBounded ==
    ASSUME Slow = {}, Edits \cap {"off", "noTimes", "text"} = {}
    PROVE  Spec => []RetriesBounded
<1> DEFINE CInv == /\ Slots /\ SlotsApart /\ Fits /\ Chained /\ Rooted
                   /\ Known /\ Counts /\ InTime /\ Ahead
                   /\ \A r \in Routine : Fitting(r)
                   /\ RetriesBounded
<1>0. Orderly /\ "patch" \notin Slow
  BY DEF Orderly
<1>1. Init => CInv
  <2> SUFFICES ASSUME Init PROVE CInv
    OBVIOUS
  <2>1. Slots /\ SlotsApart
    BY DEF Init, Slots, SlotsApart, SlotOnce, ByTimes, Holding, NoClaim
  <2>2. PICK seat \in BOOLEAN : rt = [r \in Routine |-> NoRow(seat)]
    BY Zenon DEF Init
  <2>3. /\ \A r \in Routine : /\ rt[r].retry = 0 /\ ~There(r)
                              /\ rt[r].count = 0 /\ rt[r].retryAt = "none"
        /\ \A i \in Run : run[i] = Unused /\ ~Works(i) /\ fin[i].at = "idle"
        /\ \A c \in Claimer : claim[c].at = "idle"
        /\ \A e \in Tab : tab[e] = NoPatch
    BY <2>2 DEF Init, NoRow, Works, NoFin, NoClaim, There
  <2>4. Chained /\ Rooted
    BY <2>3 DEF Chained, Rooted, Starting
  <2>5. Fits /\ Known /\ InTime /\ Ahead
    BY <2>3 DEF Fits, Known, InTime, Ahead, Starting, Holding
  <2>6. Counts
    BY <2>3, LimitsAssumption DEF Counts
  <2>7. \A r \in Routine : Fitting(r)
    BY <2>3 DEF Fitting
  <2>8. RetriesBounded
    <3> SUFFICES ASSUME NEW r \in Routine, NEW s \in 1..MaxSlot
                 PROVE  Cardinality(RetriesOf(r, s)) <= MaxRetry * Bound(s)
      BY DEF RetriesBounded, Bound
    <3>1. RetriesOf(r, s) = {}
      BY <2>3 DEF RetriesOf, RunsOf
    <3>2. Bound(s) = 0
      BY LimitsAssumption DEF Init, Bound, Due
    <3> QED
      BY <3>1, <3>2, FS_EmptySet, LimitsAssumption
  <2> QED
    BY <2>1, <2>4, <2>5, <2>6, <2>7, <2>8
<1>2. TypeOK /\ Registered /\ TypeOK' /\ Registered' /\ CInv /\ [Next]_vars
        => CInv'
  <2> SUFFICES ASSUME TypeOK, Registered, TypeOK', Registered', CInv,
                      [Next]_vars
               PROVE  CInv'
    OBVIOUS
  <2>1. Slots' /\ SlotsApart'
    BY <1>0, StepCases, SlotsMinor, SlotsClaimed, SlotsEdited
  <2>2. Chained' /\ Rooted'
    BY ChainedStep, RootedStep
  <2>3. Fits'
    BY <1>0, FitsStep
  <2>4. Known' /\ Counts'
    BY KnownStep, CountsStep
  <2>5. InTime' /\ Ahead'
    BY <1>0, <2>3, InTimeStep, AheadStep
  <2>6. \A r \in Routine : Fitting(r)'
    BY <1>0, FittingStep
  <2>7. RetriesBounded'
    BY BoundedStep
  <2> QED
    BY <2>1, <2>2, <2>3, <2>4, <2>5, <2>6, <2>7
<1>3. CInv => RetriesBounded
  OBVIOUS
<1> HIDE DEF CInv
<1> QED
  BY <1>1, <1>2, <1>3, TypeCorrect, PTL DEF Spec

=============================================================================
