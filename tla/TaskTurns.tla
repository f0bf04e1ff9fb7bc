------------------------------- MODULE TaskTurns -------------------------------
(***************************************************************************)
(* The job of a delegated task against the session of the target bot, in   *)
(* which people talk to the same bot.  The job (runTaskJob of the Manager, *)
(* and its twin in the local bot) posts the instruction, reads the events  *)
(* of the session until the turn of its own instruction has ended, and     *)
(* stops that turn, or withdraws the instruction from the queue, when stop *)
(* is pressed at the main bot.  The seat opens one turn at a time and      *)
(* drains its queue after each.                                            *)
(*                                                                         *)
(* A turn is named by the message that opened it, and a message by its     *)
(* number in the order of arrival.  A task that is put back after a lost   *)
(* lease is posted again as another copy of the instruction.               *)
(* `inbox` has the frames of the event stream the job has not read yet.    *)
(* What the bot says is left out, and so are the timers' lengths: a timer  *)
(* may fire as soon as it is set.                                          *)
(***************************************************************************)
EXTENDS Integers, Sequences, FiniteSets

CONSTANTS
    MaxMessages, \* bound: how many messages come to the seat
    MaxClaims,   \* bound: how often the task is claimed
    None,
    QueueMax,    \* how many messages the queue takes
    Events,      \* the disturbances that come: see Disturbances
    MaxEvents    \* bound: how many of them come

(* People stop a turn or withdraw a queued message; the seat is quiesced   *)
(* or restarted; a turn fails before it is live; the job's requests are    *)
(* lost, its lease is lost, its process dies, its time is over.            *)
Disturbances == {"abort", "withdraw", "quiesce", "restart", "fail",
                 "net", "lease", "death", "timeout"}

Messages == [by : {"people", "job"}, n : 1..MaxMessages]
People == {m \in Messages : m.by = "people"}
Copies == {m \in Messages : m.by = "job"}

ASSUME TurnsAssumption ==
    /\ MaxMessages \in Nat /\ MaxClaims \in Nat
    /\ None \notin Messages
    /\ QueueMax \in Nat \ {0}
    /\ Events \subseteq Disturbances
    /\ MaxEvents \in Nat

VARIABLES
    queue,       \* the messages that wait for a turn, the oldest first
    turn,        \* the session's turn
    aborting,    \* the session's mark that its turn was stopped
    drains,      \* loops of drainQueue about to look at the queue
    boot,        \* drainAtBoot waits for the catalog
    quiet,       \* the seat opens no turn
    started,     \* queued messages whose turn was opened (startedIds)
    job,         \* the job
    inbox,       \* frames on the way to the job
    pressed,     \* stop was pressed at the main bot
    came,        \* how many messages came to the seat
    claims,      \* how often the task was claimed
    past,        \* copies whose turn is over
    withdrawn,   \* copies people took out of the queue
    used         \* how many disturbances came

seat == <<queue, turn, aborting, drains, boot, quiet, started>>
bounds == <<came, claims>>
people == <<withdrawn, used>>
vars == <<seat, job, inbox, pressed, bounds, past, people>>

Kinds == {"completed", "aborted", "error"}
NoTurn == [at |-> "none", of |-> None, sig |-> FALSE, kind |-> "completed"]
NoJob == [at |-> "none", of |-> None, ans |-> "none", queueId |-> FALSE,
          stopped |-> FALSE, req |-> "none", mine |-> FALSE, own |-> None,
          left |-> FALSE, lost |-> FALSE, broken |-> FALSE, out |-> "none"]

Frame == [type : {"opens", "ends", "queue"}, of : Messages \union {None},
          kind : Kinds, queued : SUBSET Messages]
Opens(m) == [type |-> "opens", of |-> m, kind |-> "completed", queued |-> {}]
EndsAs(m, kind) == [type |-> "ends", of |-> m, kind |-> kind, queued |-> {}]
Snapshot(q) == [type |-> "queue", of |-> None, kind |-> "completed",
                queued |-> q \intersect Copies]

(* The state is what the code can hold in it; a turn has a message, and    *)
(* only a turn that is not live yet can be stopped by its signal.          *)
SeatOK ==
    /\ queue \subseteq Messages /\ IsFiniteSet(queue)
    /\ Cardinality(queue) <= QueueMax
    /\ turn \in [at : {"none", "starting", "begun", "live", "ending", "over"},
                 of : Messages \union {None}, sig : BOOLEAN, kind : Kinds]
    /\ turn.at = "none" <=> turn.of = None
    /\ turn.sig => turn.at \notin {"none", "live", "ending"}
    /\ aborting \in BOOLEAN /\ drains \in Nat
    /\ boot \in BOOLEAN /\ quiet \in BOOLEAN /\ started \subseteq Messages
JobOK ==
    job \in [at : {"none", "claimed", "hooked", "posting", "reading", "over"},
            of : Copies \union {None},
            ans : {"none", "queued", "opened", "refused", "lost"},
            queueId : BOOLEAN, stopped : BOOLEAN,
            req : {"none", "delete", "abort", "sent", "done", "lost"},
            mine : BOOLEAN, own : Messages \union {None}, left : BOOLEAN,
            lost : BOOLEAN, broken : BOOLEAN,
            out : Kinds \union {"none", "stopped", "gone", "timeout",
                                "failed", "lost", "dead"}]
TypeOK ==
    /\ SeatOK /\ JobOK
    /\ inbox \in Seq(Frame)
    /\ pressed \in BOOLEAN
    /\ came \in 0..MaxMessages /\ claims \in 0..MaxClaims
    /\ past \subseteq Copies /\ withdrawn \subseteq Copies
    /\ used \in 0..MaxEvents

Init ==
    /\ queue = {} /\ turn = NoTurn /\ aborting = FALSE
    /\ drains = 0 /\ boot = FALSE /\ quiet = FALSE /\ started = {}
    /\ job = NoJob /\ inbox = <<>> /\ pressed = FALSE
    /\ came = 0 /\ claims = 0
    /\ past = {} /\ withdrawn = {} /\ used = 0

Uses(e) ==
    /\ e \in Events /\ used < MaxEvents
    /\ used' = used + 1

(***************************************************************************)
(* The seat's turns and its queue.                                         *)
(***************************************************************************)
Running == turn.at # "none"
Waits(m) == m \in queue

(* The stream is there from the moment the job hooks it.                   *)
Listens == job.at \in {"hooked", "posting", "reading"} /\ ~job.broken
Emits(frame) == inbox' = IF Listens THEN Append(inbox, frame) ELSE inbox
Emits2(f, g) == inbox' = IF Listens THEN inbox \o <<f, g>> ELSE inbox

Begin(m) == turn' = [NoTurn EXCEPT !.at = "starting", !.of = m]
Goes(at) == turn' = [turn EXCEPT !.at = at]
IsPast == past' = past \union (Copies \intersect {turn.of})

Arrives(by) == [by |-> by, n |-> came + 1]

(* The seat takes a message: how it answers is its answer to the request.  *)
Enqueue(m) ==
    /\ Running /\ ~quiet /\ Cardinality(queue) < QueueMax
    /\ queue' = queue \union {m}
    /\ Emits(Snapshot(queue'))
    /\ UNCHANGED turn
Send(m) ==
    /\ ~Running /\ ~quiet
    /\ Begin(m)
    /\ UNCHANGED <<queue, inbox>>
(* In quiet a person's words still join a person's turn.                   *)
Steer(m) ==
    /\ quiet /\ turn.at = "live" /\ turn.of \in People /\ m.by = "people"
    /\ UNCHANGED <<queue, turn, inbox>>
Refuses ==
    \/ Running /\ (quiet \/ Cardinality(queue) >= QueueMax)
    \/ ~Running /\ quiet

(* One number is kept for an instruction that has not come yet.            *)
Awaited == claims = 0 \/ (job.at # "over" /\ job.ans = "none")
Say ==
    /\ came < IF Awaited THEN MaxMessages - 1 ELSE MaxMessages
    /\ LET m == Arrives("people") IN Enqueue(m) \/ Send(m) \/ Steer(m)
    /\ came' = came + 1
    /\ UNCHANGED <<aborting, drains, boot, quiet, started, job, pressed,
                   claims, past, people>>

(* Out of the queue, a message is remembered as one whose turn was opened. *)
MarkNothing(m) == UNCHANGED started
MarkStarted(m) == started' = started \union {m}

(* A loop of drainQueue: out of the queue first, then the turn; at its end *)
(* the loop looks again.                                                   *)
Drain ==
    /\ drains > 0
    /\ drains' = drains - 1
    /\ IF quiet \/ Running \/ queue = {}
         THEN UNCHANGED <<queue, turn, started, inbox>>
         ELSE \E m \in queue :
                /\ \A k \in queue : m.n <= k.n
                /\ queue' = queue \ {m}
                /\ MarkStarted(m) /\ Begin(m)
                /\ Emits(Snapshot(queue'))
    /\ UNCHANGED <<aborting, boot, quiet, job, pressed, bounds, past, people>>

Sits == UNCHANGED <<queue, drains, boot, quiet, started, job, pressed, bounds,
                    people>>

(* The head of a turn reads the log, pulls the catalog, may compact; then  *)
(* the message and turn/start are written, unless it was stopped.          *)
HeadDone ==
    /\ turn.at = "starting" /\ ~turn.sig
    /\ Goes("begun") /\ Emits(Opens(turn.of))
    /\ Sits /\ UNCHANGED <<aborting, past>>
HeadStops ==
    /\ turn.at = "starting" /\ turn.sig
    /\ Goes("over") /\ IsPast
    /\ Emits2(Opens(turn.of), EndsAs(turn.of, "aborted"))
    /\ aborting' = FALSE
    /\ Sits
BegunStops ==
    /\ turn.at = "begun" /\ turn.sig
    /\ Goes("over") /\ IsPast
    /\ Emits(EndsAs(turn.of, "aborted"))
    /\ aborting' = FALSE
    /\ Sits
GoesLive ==
    /\ turn.at = "begun" /\ ~turn.sig
    /\ Goes("live")
    /\ Sits /\ UNCHANGED <<inbox, aborting, past>>
(* The turn fails before it is live: aborting is left as it is.            *)
HeadFails ==
    /\ turn.at \in {"starting", "begun"} /\ Uses("fail")
    /\ turn' = [turn EXCEPT !.at = "over", !.kind = "error"] /\ IsPast
    /\ IF turn.at = "starting"
         THEN Emits2(Opens(turn.of), EndsAs(turn.of, "error"))
         ELSE Emits(EndsAs(turn.of, "error"))
    /\ UNCHANGED <<queue, aborting, drains, boot, quiet, started, job, pressed,
                   bounds, withdrawn>>
(* The agent is done or stopped; turn/end is written a little later.       *)
Leaves(kind) ==
    /\ turn.at = "live"
    /\ turn' = [turn EXCEPT !.at = "ending", !.kind = kind]
    /\ aborting' = FALSE
    /\ Sits /\ UNCHANGED <<inbox, past>>
Completes == ~aborting /\ Leaves("completed")
Aborts == aborting /\ Leaves("aborted")
TurnEnd ==
    /\ turn.at = "ending"
    /\ Goes("over") /\ IsPast
    /\ Emits(EndsAs(turn.of, turn.kind))
    /\ Sits /\ UNCHANGED aborting
TurnOver ==
    /\ turn.at = "over"
    /\ turn' = NoTurn /\ drains' = drains + 1
    /\ UNCHANGED <<queue, aborting, boot, quiet, started, job, inbox, pressed,
                   bounds, past, people>>

(* abort: the live agent, or the signal of a turn that is not live yet; a  *)
(* turn that failed keeps its signal to its end.                           *)
SignalStays == turn.at # "none"
HasSignal ==
    turn.at \in {"starting", "begun"} \/ (turn.at = "over" /\ turn.kind = "error")
Stoppable == turn.at = "live" \/ (HasSignal /\ ~turn.sig)
Abort ==
    IF Stoppable
      THEN /\ aborting' = TRUE
           /\ turn' = [turn EXCEPT !.sig = turn.at # "live"]
      ELSE UNCHANGED <<aborting, turn>>

(* cancelQueued: takes a message out of the queue, if it is there.         *)
CancelSilently(m) ==
    /\ Waits(m)
    /\ queue' = queue \ {m}
    /\ UNCHANGED inbox
Cancel(m) ==
    /\ Waits(m)
    /\ queue' = queue \ {m}
    /\ Emits(Snapshot(queue'))

PressStop ==
    /\ Stoppable /\ Uses("abort")
    /\ Abort
    /\ UNCHANGED <<queue, drains, boot, quiet, started, job, inbox, pressed,
                   bounds, past, withdrawn>>
Withdraw(m) ==
    /\ Uses("withdraw") /\ Cancel(m)
    /\ withdrawn' = withdrawn \union (Copies \intersect {m})
    /\ UNCHANGED <<turn, aborting, drains, boot, quiet, started, job, pressed,
                   bounds, past>>

Quiesce ==
    /\ ~quiet /\ Uses("quiesce")
    /\ quiet' = TRUE
    /\ UNCHANGED <<queue, turn, aborting, drains, boot, started, job, inbox,
                   pressed, bounds, past, withdrawn>>
ResumeSilently ==
    /\ quiet
    /\ quiet' = FALSE
    /\ UNCHANGED <<queue, turn, aborting, drains, boot, started, job, inbox,
                   pressed, bounds, past, people>>
Resume ==
    /\ quiet
    /\ quiet' = FALSE /\ drains' = drains + 1
    /\ UNCHANGED <<queue, turn, aborting, boot, started, job, inbox, pressed,
                   bounds, past, people>>

(* A new process: the queue was stored, but its instructions are dropped   *)
(* at boot; what was in memory is gone, and so is the job's stream.        *)
Restart ==
    /\ Uses("restart")
    /\ queue' = queue \intersect People
    /\ turn' = NoTurn /\ aborting' = FALSE /\ drains' = 0
    /\ boot' = TRUE /\ quiet' = FALSE /\ started' = {}
    /\ IsPast
    /\ job' = [job EXCEPT !.broken = job.at \in {"hooked", "posting", "reading"}]
    /\ UNCHANGED <<inbox, pressed, bounds, withdrawn>>
BootDrains ==
    /\ boot
    /\ boot' = FALSE /\ drains' = IF Running THEN drains ELSE drains + 1
    /\ UNCHANGED <<queue, turn, aborting, quiet, started, job, inbox, pressed,
                   bounds, past, people>>

(***************************************************************************)
(* The job.                                                                *)
(***************************************************************************)
Alive == job.at \in {"claimed", "hooked", "posting", "reading"}
Ends(out) == [job EXCEPT !.at = "over", !.out = IF job.lost THEN "lost" ELSE out]
(* catch: what is reported when reading does not come to an end.           *)
Fails(out) == Ends(IF job.stopped THEN "stopped" ELSE out)
Works == UNCHANGED <<seat, pressed, past, withdrawn>>
(* What is on the way to a job that is over is read by nobody.             *)
Keeps == inbox' = IF job'.at = "over" THEN <<>> ELSE inbox

(* A task that was put back has a new job; one that is stopped has none.   *)
Claim ==
    /\ claims < MaxClaims /\ ~pressed
    /\ job.at = "none" \/ job.out \in {"lost", "dead"}
    /\ job.req \notin {"delete", "abort"}
    /\ job' = [NoJob EXCEPT !.at = "claimed"]
    /\ claims' = claims + 1
    /\ inbox' = <<>>
    /\ Works /\ UNCHANGED <<came, used>>

Press ==
    /\ Alive /\ ~pressed
    /\ pressed' = TRUE
    /\ UNCHANGED <<seat, job, inbox, bounds, past, people>>

(* History, then the stream; the aborted fetch of a lost job throws.       *)
Hook ==
    /\ job.at = "claimed"
    /\ job' = IF job.lost THEN Ends("lost") ELSE [job EXCEPT !.at = "hooked"]
    /\ Works /\ Keeps /\ UNCHANGED <<bounds, used>>
Post ==
    /\ job.at = "hooked"
    /\ job' = IF job.stopped THEN Ends("stopped")
                             ELSE [job EXCEPT !.at = "posting"]
    /\ Works /\ Keeps /\ UNCHANGED <<bounds, used>>
PostArrives ==
    /\ job.at = "posting" /\ job.ans = "none"
    /\ \/ /\ Refuses /\ job' = [job EXCEPT !.ans = "refused"]
          /\ UNCHANGED <<queue, turn, inbox, came>>
       \/ LET m == Arrives("job") IN
          /\ came < MaxMessages /\ came' = came + 1
          /\ \/ Enqueue(m) /\ job' = [job EXCEPT !.of = m, !.ans = "queued"]
             \/ Send(m) /\ job' = [job EXCEPT !.of = m, !.ans = "opened"]
    /\ UNCHANGED <<aborting, drains, boot, quiet, started, pressed, claims,
                   past, people>>

(* stopTarget, once the instruction is sent: what is queued is withdrawn,  *)
(* and only a turn of one's own is aborted.                                *)
TargetsTurn(j) == [j EXCEPT !.stopped = TRUE, !.req = "abort"]
Target(j) == [j EXCEPT !.stopped = TRUE, !.queueId = FALSE,
                       !.req = IF j.queueId THEN "delete" ELSE "abort"]
(* A stop that came while the instruction was being posted is made up for. *)
StopsLater(j) == j
StopsNow(j) == IF j.stopped THEN Target(j) ELSE j
PostAnswered ==
    /\ job.at = "posting" /\ job.ans \notin {"none", "lost"}
    /\ LET j == [job EXCEPT !.at = "reading", !.queueId = job.ans = "queued"]
       IN job' = IF job.ans = "refused" THEN Fails("failed")
                 ELSE IF job.lost
                 THEN [StopsNow(j) EXCEPT !.at = "over", !.out = "lost"]
                 ELSE StopsNow(j)
    /\ Works /\ Keeps /\ UNCHANGED <<bounds, used>>
(* A renewal is told that stop was pressed.                                *)
Renew ==
    /\ Alive /\ pressed /\ ~job.stopped
    /\ job' = IF job.at = "reading" THEN Target(job)
                                    ELSE [job EXCEPT !.stopped = TRUE]
    /\ Works /\ UNCHANGED <<inbox, bounds, used>>

(* DELETE of the queued instruction: withdrawn, started (409) or missing   *)
(* (404).  The answer is taken even when the job is over.                  *)
DeleteArrives ==
    /\ job.req = "delete"
    /\ \/ /\ Cancel(job.of)
          /\ job' = [Ends(IF Alive THEN "stopped" ELSE job.out)
                       EXCEPT !.req = "done"]
       \/ /\ ~Waits(job.of) /\ UNCHANGED <<queue, inbox>>
          /\ job' = IF job.of \in started THEN [job EXCEPT !.req = "abort"]
                    ELSE [Ends(IF Alive THEN "stopped" ELSE job.out)
                            EXCEPT !.req = "done"]
    /\ UNCHANGED <<turn, aborting, drains, boot, quiet, started, pressed, bounds,
                   past, people>>
(* The request or its answer is lost: the next renewal tries again.        *)
DeleteLost ==
    /\ job.req = "delete" /\ Uses("net")
    /\ Cancel(job.of) \/ UNCHANGED <<queue, inbox>>
    /\ job' = IF Alive THEN [job EXCEPT !.req = "none", !.queueId = TRUE,
                                        !.stopped = FALSE]
                       ELSE [job EXCEPT !.req = "lost"]
    /\ UNCHANGED <<turn, aborting, drains, boot, quiet, started, pressed, bounds,
                   past, withdrawn>>
AbortArrives ==
    /\ job.req = "abort"
    /\ Abort
    /\ job' = [job EXCEPT !.req = "sent"]
    /\ UNCHANGED <<queue, drains, boot, quiet, started, inbox, pressed, bounds,
                   past, people>>
(* A failed abort is not repeated.                                         *)
AbortLost ==
    /\ job.req = "abort" /\ Uses("net")
    /\ job' = [job EXCEPT !.req = "lost"]
    /\ UNCHANGED <<seat, inbox, pressed, bounds, past, withdrawn>>

(* The instruction is known by its text, which its copies share.           *)
AnyMessage(f) == f.type = "opens"
Mine(f) == job.mine \/ f.of \in Copies
(* readTurnResult: the first turn that begins after the instruction was    *)
(* seen is its own; its end is the outcome.                                *)
Read ==
    /\ job.at = "reading" /\ inbox # <<>>
    /\ LET f == Head(inbox)
       IN job' = CASE f.type = "opens" ->
                        [job EXCEPT !.mine = Mine(f),
                           !.own = IF @ = None /\ Mine(f) THEN f.of ELSE @]
                   [] f.type = "ends" ->
                        IF job.own # None /\ job.own = f.of
                        THEN Ends(f.kind) ELSE job
                   [] f.type = "queue" ->
                        [job EXCEPT
                           !.left = @ \/ (job.queueId /\ job.of \notin f.queued)]
    /\ inbox' = IF job'.at = "over" THEN <<>> ELSE Tail(inbox)
    /\ Works /\ UNCHANGED <<bounds, used>>

(* The timers: 15 s after an abort; 5 s after the instruction has left the *)
(* queue unseen; the time of the whole job.                                *)
GivesUp ==
    /\ job.at = "reading" /\ job.req \in {"abort", "sent", "lost"}
    /\ job' = Fails("failed")
    /\ Works /\ Keeps /\ UNCHANGED <<bounds, used>>
Gone ==
    /\ job.at = "reading" /\ job.queueId /\ job.left /\ ~job.mine
    /\ job' = Ends("gone")
    /\ Works /\ Keeps /\ UNCHANGED <<bounds, used>>
TimesOut ==
    /\ job.at = "reading" /\ Uses("timeout")
    /\ job' = Fails("timeout")
    /\ Works /\ Keeps /\ UNCHANGED bounds

(* The stream ends, here with the seat's process; the answer to the post   *)
(* is lost; the renewal is refused, after which nothing is reported; the   *)
(* Manager's process dies.                                                 *)
Breaks ==
    /\ job.at = "reading" /\ job.broken /\ inbox = <<>>
    /\ job' = Fails("failed")
    /\ Works /\ UNCHANGED <<inbox, bounds, used>>
PostLost ==
    /\ job.at = "posting" /\ Uses("net")
    /\ job' = [Fails("failed") EXCEPT !.ans = "lost"]
    /\ Works /\ Keeps /\ UNCHANGED bounds
LeaseLost ==
    /\ Alive /\ ~job.lost /\ Uses("lease")
    /\ job' = IF job.at = "reading"
                THEN [job EXCEPT !.at = "over", !.out = "lost"]
                ELSE [job EXCEPT !.lost = TRUE]
    /\ Works /\ Keeps /\ UNCHANGED bounds
Dies ==
    /\ Alive /\ Uses("death")
    /\ job' = [job EXCEPT !.at = "over", !.out = "dead"]
    /\ Works /\ Keeps /\ UNCHANGED bounds

(***************************************************************************)
(* The specification.                                                      *)
(***************************************************************************)
TurnStep == \/ HeadDone \/ HeadStops \/ BegunStops \/ GoesLive
            \/ Aborts \/ TurnEnd \/ TurnOver
JobStep == \/ Hook \/ Post \/ PostArrives \/ PostAnswered
           \/ DeleteArrives \/ AbortArrives \/ Read \/ Gone \/ Breaks

Next ==
    \/ Say \/ \E m \in Messages : Withdraw(m)
    \/ TurnStep \/ Completes \/ HeadFails \/ Drain \/ BootDrains
    \/ PressStop \/ Quiesce \/ Resume \/ Restart
    \/ Claim \/ Press \/ Renew \/ JobStep \/ DeleteLost \/ AbortLost \/ PostLost
    \/ GivesUp \/ TimesOut \/ LeaseLost \/ Dies

Spec == Init /\ [][Next]_vars

(* A turn comes to be live, and one that was stopped comes to its end; a   *)
(* turn that nobody stops may take for ever.  Loops go on, quiet has a     *)
(* limit, the catalog comes.  The job goes on and renews.                  *)
FairSpec ==
    /\ Spec
    /\ WF_vars(TurnStep) /\ WF_vars(Drain) /\ WF_vars(BootDrains)
    /\ WF_vars(Resume) /\ WF_vars(Renew) /\ WF_vars(JobStep)

(***************************************************************************)
(* Properties.                                                             *)
(***************************************************************************)
(* What the job reports as the end of a turn is the end of a turn of its   *)
(* task, never of one that a person's message opened before or after.      *)
OwnResult == job.out \in Kinds => job.own \in past

(* The abort of a job hits no person's turn that was there first, nor one  *)
(* that comes while its instruction waits: only when the instruction's own *)
(* turn is over already can the abort be late and hit what follows.        *)
StopSparesPeople ==
    [][AbortArrives /\ turn.of \in People => job.of \in past]_vars

(* A job that reports stopped, having withdrawn its instruction or not     *)
(* posted it, has left nothing in the session that will still run.         *)
Standing(m) == m # None /\ (Waits(m) \/ turn.of = m)
StoppedStaysOut ==
    /\ job.out = "stopped"
    /\ job.req \in {"none", "done"} /\ job.ans # "lost"
    => ~Standing(job.of)

(* Stop, pressed at any moment of the job, ends the instruction: it is not *)
(* posted, or leaves the queue, or its turn is aborted; not if the job is  *)
(* lost, over already, or its abort gets lost.                             *)
Excused ==
    \/ job.out \in {"lost", "dead", "timeout", "gone", "failed"}
    \/ job.req = "lost" \/ job.ans = "lost"
    \/ job.own \notin {None, job.of}
StopEnds == <>pressed => <>[](Standing(job.of) => Excused)

(* Nothing is stranded in the queue: a seat that runs no turn comes to     *)
(* open one for what waits, for the loop that found the session busy,      *)
(* quiet or just started is made up for by another.                        *)
NeverStranded == ~Running /\ queue # {} ~> Running \/ queue = {}

(* When people over there withdraw the instruction, the job notices; it    *)
(* does not wait for its whole time.  An earlier copy whose turn it takes  *)
(* for its own may go on.                                                  *)
WithdrawnEnds ==
    job.of \in withdrawn ~> job.at = "over" \/ job.own # None
=============================================================================
