------------------------------- MODULE Handoffs -------------------------------
(***************************************************************************)
(* One handoff slip: a Bot in a turn passes a matter to people, they take  *)
(* it and hand it back, the Bot reads their words in a turn, or nobody     *)
(* comes and the Gateway's sweep expires it.  The seat keeps the slip (a   *)
(* HandoffService and the session's turns); the Gateway keeps a row copied *)
(* from the seat's reports, which two generations of it may sweep at once. *)
(*                                                                         *)
(* Slips of a session share nothing but its turns, which here come at any  *)
(* time, so one slip is enough.  `log` has its states as its changes are   *)
(* announced (handoff/change): version v is log[v].  A report or an answer *)
(* carries a version and reaches the Gateway late, twice, out of order or  *)
(* never.                                                                  *)
(*                                                                         *)
(* Stamps (updatedAt) only order things, by one clock, and two versions    *)
(* never share a millisecond: the seat's version v is stamped 2v and what  *)
(* the Gateway stamps then 2v+1.  The age of a slip is left out: a sweep   *)
(* may find it due at any time, but for the older slips that are due too:  *)
(* a sweep reads the `Batch` oldest and no more.                           *)
(***************************************************************************)
EXTENDS Integers, Sequences, SequencesExt

CONSTANTS
    Sweepers,    \* the generations of the Gateway that sweep
    Batch,       \* BATCH: how many slips a sweep reads, the oldest first
    Events,      \* the disturbances that come: see Disturbances
    MaxEvents    \* bound: how many of them come

(* A Gateway's end in the middle of a sweep, the same matter raised again, *)
(* a seat that is quiesced or restarted.                                   *)
Disturbances == {"death", "repeat", "quiesce", "restart"}

ASSUME HandoffsAssumption ==
    /\ Batch \in Nat \ {0}
    /\ Events \subseteq Disturbances
    /\ MaxEvents \in Nat

Waiting == {"open", "claimed"}
Ended == {"closed", "cancelled", "expired"}
States == Waiting \union {"returned"} \union Ended

VARIABLES
    log,      \* the slip's versions, oldest first
    awaits,   \* awaitStart of the slip: "none", "start" (true), "end" (false)
    turn,     \* the session's turn
    words,    \* where the words are that the Bot must read
    quiet,    \* the seat starts no turn
    row,      \* the Gateway's row
    sweep,    \* where a sweep is with the slip, with the step it read
    nudges,   \* reminders sent to people
    older,    \* the slips before this one that are due, up to a batch
    used      \* how many disturbances came

seat == <<log, awaits, turn, words, quiet>>
gateway == <<row, sweep, nudges, older>>
vars == <<log, awaits, turn, words, quiet, row, sweep, nudges,
          older, used>>

Stages == {"idle", "nudge", "stale", "calling", "done", "gone", "away"}

TypeOK ==
    /\ log \in Seq(States)
    /\ awaits \in {"none", "start", "end"}
    /\ turn \in {"idle", "starting", "begun", "live", "ending", "over", "cut"}
    /\ words \in {"none", "held", "turn", "logged", "read", "lost"}
    /\ quiet \in BOOLEAN
    /\ row \in [state : States \union {"none"}, at : Nat, step : 0..2]
    /\ sweep \in [Sweepers -> [at : Stages, step : 0..1]]
    /\ nudges \in Nat
    /\ older \in 0..Batch
    /\ used \in 0..MaxEvents

Init ==
    /\ log = <<>> /\ awaits = "none"
    /\ turn = "idle" /\ words = "none" /\ quiet = FALSE
    /\ row = [state |-> "none", at |-> 0, step |-> 0]
    /\ sweep = [s \in Sweepers |-> [at |-> "idle", step |-> 0]]
    /\ nudges = 0 /\ older = 0
    /\ used = 0

Uses(e) ==
    /\ e \in Events /\ used < MaxEvents
    /\ used' = used + 1

(***************************************************************************)
(* The slip on the seat.                                                   *)
(***************************************************************************)
Opened == log # <<>>
Slip == Last(log)
In(S) == Opened /\ Slip \in S
Live == Waiting \union {"returned"}

Writes(state) == log' = Append(log, state)
(* save: a slip that has ended waits for nothing more.                     *)
Saves(state) ==
    /\ Writes(state)
    /\ awaits' = IF state \in Ended THEN "none" ELSE awaits

(* escalate_to_human in a turn; the same matter again joins the open slip. *)
Open ==
    /\ turn = "live" /\ ~Opened
    /\ Saves("open")
    /\ UNCHANGED <<turn, words, quiet, gateway, used>>
Repeat ==
    /\ turn = "live" /\ In(Waiting)
    /\ Uses("repeat")
    /\ Writes(Slip)
    /\ UNCHANGED <<awaits, turn, words, quiet, gateway>>

Claim ==
    /\ In({"open"})
    /\ Saves("claimed")
    /\ UNCHANGED <<turn, words, quiet, gateway, used>>

(* No new turn may begin: what would wake the Bot is refused.              *)
QuietBlocks == quiet /\ turn \in {"idle", "cut"}

(* finish with words for the Bot: they are held until deliver runs, after  *)
(* the event was written.                                                  *)
Return ==
    /\ In(Waiting) /\ ~QuietBlocks
    /\ Saves("returned")
    /\ words' = "held"
    /\ UNCHANGED <<turn, quiet, gateway, used>>
(* finish with the disposition closed: the Bot is not woken.               *)
Close ==
    /\ In(Waiting)
    /\ Saves("closed")
    /\ UNCHANGED <<turn, words, quiet, gateway, used>>
Cancel ==
    /\ In(Live)
    /\ Saves("cancelled")
    /\ UNCHANGED <<turn, words, quiet, gateway, used>>

(* waitFor: only a stored slip waits.                                      *)
WaitFor(what) == awaits' = IF In(Live) THEN what ELSE awaits

(* Mutant: waits for a turn that need not come. *)
SteerWaitsForStart ==
    /\ words = "held" /\ turn = "live"
    /\ words' = "turn"
    /\ WaitFor("start")
    /\ UNCHANGED <<log, turn, quiet, gateway, used>>

(* deliver: steer into the live turn, or send a turn of its own.  send     *)
(* throws while any turn of the session is not quite over.                 *)
Steer ==
    /\ words = "held" /\ turn = "live"
    /\ words' = "turn"
    /\ WaitFor("end")
    /\ UNCHANGED <<log, turn, quiet, gateway, used>>
SendFails == quiet \/ turn \notin {"idle", "cut"}
Send ==
    /\ words = "held" /\ turn # "live"
    /\ WaitFor("start")
    /\ IF SendFails
         THEN words' = "lost" /\ UNCHANGED turn
         ELSE words' = "turn" /\ turn' = "starting"
    /\ UNCHANGED <<log, quiet, gateway, used>>
Deliver == Steer \/ Send

(***************************************************************************)
(* The session's turns.  isRunning is everything but idle and cut; steer   *)
(* needs live, which ends before turn/end is written; over lasts until     *)
(* runGuarded lets go of the session.                                      *)
(***************************************************************************)
(* What a restart left in the log is read by the next turn.                *)
TurnBegins ==
    /\ turn = "idle" /\ ~quiet
    /\ turn' = "starting"
    /\ words' = IF words = "logged" THEN "turn" ELSE words
    /\ UNCHANGED <<log, awaits, quiet, gateway, used>>
(* turn/start: from now on the turn's end counts.                          *)
TurnStart ==
    /\ turn = "starting"
    /\ turn' = "begun"
    /\ awaits' = IF In(Live) THEN "none" ELSE awaits
    /\ UNCHANGED <<log, words, quiet, gateway, used>>
TurnLive ==
    /\ turn = "begun"
    /\ turn' = "live"
    /\ UNCHANGED <<log, awaits, words, quiet, gateway, used>>
TurnEnding ==
    /\ turn = "live"
    /\ turn' = "ending"
    /\ UNCHANGED <<log, awaits, words, quiet, gateway, used>>
(* turn/end: a returned slip whose turn this was is closed.  A turn can    *)
(* fail before it is live; one cut off by a restart is ended on loading.   *)
EndCloses == In({"returned"}) /\ awaits # "start"
TurnEnd ==
    /\ turn \in {"begun", "ending", "cut"}
    /\ turn' = IF turn = "cut" THEN "idle" ELSE "over"
    /\ words' = IF words = "turn" THEN "read" ELSE words
    /\ IF EndCloses THEN Saves("closed")
                    ELSE UNCHANGED <<log, awaits>>
    /\ UNCHANGED <<quiet, gateway, used>>
TurnOver ==
    /\ turn = "over"
    /\ turn' = "idle"
    /\ UNCHANGED <<log, awaits, words, quiet, gateway, used>>
TurnStep == TurnStart \/ TurnLive \/ TurnEnding \/ TurnEnd \/ TurnOver

Quiesce ==
    /\ ~quiet /\ Uses("quiesce")
    /\ quiet' = TRUE
    /\ UNCHANGED <<log, awaits, turn, words, gateway>>
Resume ==
    /\ quiet
    /\ quiet' = FALSE
    /\ UNCHANGED <<log, awaits, turn, words, gateway, used>>
(* A new process: the stored slip and the log are there, what was only in  *)
(* memory is gone.  Words are in the log from turn/start on.               *)
Restart ==
    /\ Uses("restart")
    /\ quiet' = FALSE /\ awaits' = "none"
    /\ turn' = IF turn \in {"begun", "live", "ending", "cut"} THEN "cut"
                                                              ELSE "idle"
    /\ words' = CASE words = "held" -> "lost"
                  [] words = "turn" /\ turn = "starting" -> "lost"
                  [] words = "turn" /\ turn # "starting" -> "logged"
                  [] OTHER -> words
    /\ UNCHANGED <<log, gateway>>

(***************************************************************************)
(* The Gateway's row.                                                      *)
(***************************************************************************)
Now == 2 * Len(log) + 1

(* Mutant: the last writer wins. *)
UpsertAnyStamp(state, at) == row' = [row EXCEPT !.state = state, !.at = at]

(* upsertHandoff: an older stamp changes nothing.                          *)
Upsert(state, at) ==
    row' = IF row.state # "none" /\ at < row.at THEN row
           ELSE [row EXCEPT !.state = state, !.at = at]

(* A report of the seat (POST /internal/handoffs), at once or from its     *)
(* outbox, or an answer to a person's click (syncFromSeat).                *)
Report(v) ==
    /\ Upsert(log[v], 2 * v)
    /\ UNCHANGED <<seat, sweep, nudges, older, used>>

(***************************************************************************)
(* The sweep (sweepHandoffs): reads, bumps and calls are steps of their    *)
(* own, and a Gateway may end between any two.                             *)
(***************************************************************************)
Goes(s, at) ==
    sweep' = [sweep EXCEPT
                ![s] = [at |-> at, step |-> IF at = "idle" THEN 0 ELSE @.step]]

(* handoffsNeedingNudge, then the bump from 0 to 1 and the reminder.       *)
FindsUnclaimed(s) ==
    /\ sweep[s].at = "idle" /\ row.state = "open" /\ row.step = 0
    /\ Goes(s, "nudge")
    /\ UNCHANGED <<seat, row, nudges, older, used>>
(* bumpHandoffNotify stamps the row, whatever its state has become.        *)
Bump(from, to) ==
    /\ row.step = from
    /\ row' = [row EXCEPT !.step = to, !.at = Now]

(* Mutant: no check of the old step. *)
NudgeNoCas(s) ==
    /\ sweep[s].at = "nudge"
    /\ Goes(s, "idle")
    /\ row' = [row EXCEPT !.step = 1, !.at = Now]
    /\ nudges' = nudges + 1
    /\ UNCHANGED <<seat, older, used>>

Nudge(s) ==
    /\ sweep[s].at = "nudge"
    /\ Goes(s, "idle")
    /\ \/ Bump(0, 1) /\ nudges' = nudges + 1
       \/ row.step # 0 /\ UNCHANGED <<row, nudges>>
    /\ UNCHANGED <<seat, older, used>>

(* Mutant: claimed slips are not swept. *)
StaleOpenOnly == row.state = "open" /\ row.step < 2

(* staleHandoffs reads the oldest slips that are due.  Those whose seat    *)
(* does not answer are put back and come first again in the next round,    *)
(* so older slips of absent seats may fill the batch for good.             *)
OlderComes ==
    /\ older < Batch
    /\ older' = older + 1
    /\ UNCHANGED <<seat, row, sweep, nudges, used>>
OlderEnds ==
    /\ older > 0
    /\ older' = older - 1
    /\ UNCHANGED <<seat, row, sweep, nudges, used>>

(* Then the bump to 2, which the others leave alone.                       *)
Stale == row.state \in Waiting /\ row.step < 2
FindsStale(s) ==
    /\ sweep[s].at = "idle" /\ Stale /\ older < Batch
    /\ sweep' = [sweep EXCEPT ![s] = [at |-> "stale", step |-> row.step]]
    /\ UNCHANGED <<seat, row, nudges, older, used>>

(* Mutant: the step is raised by two. *)
HoldsAddsTwo(s) ==
    /\ sweep[s].at = "stale"
    /\ \/ Bump(sweep[s].step, sweep[s].step + 2) /\ Goes(s, "calling")
       \/ row.step # sweep[s].step /\ Goes(s, "idle") /\ UNCHANGED row
    /\ UNCHANGED <<seat, nudges, older, used>>

Holds(s) ==
    /\ sweep[s].at = "stale"
    /\ \/ Bump(sweep[s].step, 2) /\ Goes(s, "calling")
       \/ row.step # sweep[s].step /\ Goes(s, "idle") /\ UNCHANGED row
    /\ UNCHANGED <<seat, nudges, older, used>>

(* Mutant: a returned slip expires. *)
AnyLive == In(Live)

(* The seat handles POST .../expire: the slip expires and the Bot is told, *)
(* or it is no longer waiting, which the Gateway takes for its end.        *)
(* The answer may miss the Gateway's 15 seconds.                           *)
Expirable == In(Waiting)
SeatExpires(s) ==
    /\ sweep[s].at = "calling" /\ ~QuietBlocks
    /\ IF Expirable
         THEN /\ Saves("expired") /\ words' = "held"
              /\ \E answer \in {"done", "away"} : Goes(s, answer)
         ELSE Goes(s, "gone") /\ UNCHANGED <<log, awaits, words>>
    /\ UNCHANGED <<turn, quiet, row, nudges, older, used>>

(* Mutant: a quiesced 409 passes for the end. *)
QuietIsGone(s) ==
    /\ sweep[s].at = "calling"
    /\ Goes(s, IF QuietBlocks THEN "gone" ELSE "away")
    /\ UNCHANGED <<seat, row, nudges, older, used>>

(* The seat is away, too slow, or quiesced (a 409 that says so).           *)
NoAnswer(s) ==
    /\ sweep[s].at = "calling"
    /\ Goes(s, "away")
    /\ UNCHANGED <<seat, row, nudges, older, used>>
Expires(s) ==
    /\ sweep[s].at \in {"done", "gone"}
    /\ Goes(s, "idle")
    /\ Upsert("expired", Now)
    /\ UNCHANGED <<seat, nudges, older, used>>
(* Back to the step it had, for the next round: no other sweep bumps a 2.  *)
PutsBack(s) ==
    /\ sweep[s].at = "away"
    /\ Goes(s, "idle")
    /\ Bump(2, sweep[s].step)
    /\ UNCHANGED <<seat, nudges, older, used>>
(* The Gateway ends, or a query throws: this sweep leaves the slip as is.  *)
Dies(s) ==
    /\ sweep[s].at # "idle" /\ Uses("death")
    /\ Goes(s, "idle")
    /\ UNCHANGED <<seat, row, nudges, older>>

SweepStep(s) ==
    FindsUnclaimed(s) \/ Nudge(s) \/ FindsStale(s) \/ Holds(s)
    \/ SeatExpires(s) \/ NoAnswer(s) \/ Expires(s) \/ PutsBack(s) \/ Dies(s)

Next ==
    \/ Open \/ Repeat
    \/ Claim \/ Return \/ Close \/ Cancel
    \/ Deliver \/ TurnBegins \/ TurnStep
    \/ Quiesce \/ Resume \/ Restart
    \/ \E v \in DOMAIN log : Report(v)
    \/ OlderComes \/ OlderEnds
    \/ \E s \in Sweepers : SweepStep(s)

Spec == Init /\ [][Next]_vars

(* A seat's process runs on: it delivers, its turns come to an end, and    *)
(* quiet has a time limit.  A Gateway sweeps every half minute, and each   *)
(* step of a sweep returns or times out.  Nothing is owed by a seat that   *)
(* is called (it may be off for good) or by the older slips.               *)
Sweeping(s) ==
    FindsStale(s) \/ Holds(s) \/ Nudge(s) \/ NoAnswer(s) \/ Expires(s)
    \/ PutsBack(s)

FairSpec ==
    /\ Spec
    /\ WF_vars(Deliver) /\ WF_vars(TurnStep) /\ WF_vars(Resume)
    /\ \A s \in Sweepers : WF_vars(Sweeping(s))

(***************************************************************************)
(* Properties.                                                             *)
(***************************************************************************)
(* The Bot gets one answer: a slip handed back does not expire too, one    *)
(* that expired is not handed back, and an end is the last thing written,  *)
(* whoever's clicks, sweeps and turn ends meet.                            *)
OneAnswer ==
    \A i, j \in DOMAIN log :
       i < j => /\ log[i] \notin Ended
                /\ log[i] = "returned" =>
                     log[j] \in {"closed", "cancelled"}

(* People are reminded once, though two Gateways sweep and a sweep that    *)
(* found the seat away puts the step back.                                 *)
NudgedOnce == nudges <= 1

(* The Gateway never holds a slip for ended that people could still take   *)
(* on the seat.                                                            *)
NoFalseEnd == row.state \in Ended => ~In(Waiting)

(* Once the Gateway has a slip for ended, no late report, sweep or answer  *)
(* brings it back to those that wait for somebody.                         *)
EndStays == [][row.state \in Ended => row'.state \in Ended]_vars

(* A sweep that had the slip ended without putting the step back.          *)
Stranded ==
    /\ row.step = 2
    /\ \A s \in Sweepers : sweep[s].at \notin {"calling", "done", "gone", "away"}
(* The batch has room for the slip from some time on. *)
Room == <>[](older < Batch)
(* A seat that the sweeps call again and again answers once in time. *)
SeatAnswers == SF_vars(\E s \in Sweepers : SeatExpires(s))
(* A slip the Gateway knows of stops waiting for people, open or claimed,  *)
(* when they never come: the sweep ends it, though the seat was often      *)
(* away, quiet or too slow, and another Gateway sweeps too.  Three things  *)
(* leave it open, each against docs/handoff.md (an open slip must end):    *)
(* older slips of absent seats fill the batch for good, its own seat never *)
(* answers, or a Gateway ends within the sweep (Stranded).                 *)
WaitingEnds ==
    Room /\ SeatAnswers =>
       (row.state \in Waiting ~> row.state \notin Waiting \/ Stranded)

(* Words that reached a turn close their slip by the end of that turn,     *)
(* steered or sent, unless the seat was restarted.                         *)
Reading == words = "turn" /\ In({"returned"})
ReadCloses ==
    Reading ~> ~Reading /\ (In({"returned"}) => words \in {"logged", "lost"})

(* The comments on deliver and awaitStart: what people handed back reaches *)
(* the Bot, and the slip is closed when the Bot has read it.               *)
ClosedMeansRead ==
    [][In({"returned"}) /\ In({"closed"})' => words # "lost"]_vars
=============================================================================
