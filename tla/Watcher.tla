------------------------------ MODULE Watcher ------------------------------
(***************************************************************************)
(* JsonlWatcher and the half of the outbound pipeline that lives by time:  *)
(* when a tick comes, what a tick on a quiet file does, and whether the    *)
(* card ends without its spinner.  One unit of time is one poll.           *)
(*                                                                         *)
(* Time stamps are kept as ages, the time since, which stop counting one   *)
(* unit past the limit they are compared with.  Within a unit of time any  *)
(* order of steps is possible; time passes only when no callback of the    *)
(* event loop is due, or while synchronous code holds the loop, or while a *)
(* flush awaits Feishu.  Requests and saves succeed here, and the chat is  *)
(* known from the start or never: failures, and the replay for a chat that *)
(* is found, are the subject of Outbound.                                  *)
(***************************************************************************)
EXTENDS Integers

CONSTANTS
    Fresh,        \* a file written this recently is still streaming  (5 s)
    Settle,       \* SETTLE_AFTER_SECONDS                             (6 s)
    Slack,        \* what the active window adds to Settle            (1 s)
    Throttle,     \* two frames of the spinner are further apart    (0.1 s)
    MaxDraw,      \* bound: time this binding's diagrams hold the loop
    MaxHold,      \* bound: time other synchronous code holds it
    MaxSize,      \* bound: chunks in the transcript
    MaxRestarts   \* bound: crashes and stops

ASSUME TimesAssumption ==
    /\ Fresh \in Nat /\ Settle \in Nat /\ Slack \in Nat /\ Throttle \in Nat
    /\ MaxDraw \in Nat /\ MaxHold \in Nat
ASSUME BoundsAssumption == MaxSize \in Nat /\ MaxRestarts \in Nat

Window == Settle + Slack

\* How long after the poll task has seen the file grow the last frame with a spinner
\* may be out of date; one poll later the window is still open.
LastFrame == Fresh + Throttle
ASSUME WindowAssumption == LastFrame + 1 < Window

VARIABLES
    size, written,              \* the file: its size, and the age of its mtime
    lastSize, changed, polled,  \* poll task: locals, and whether it ran in this unit
    notice, alive,              \* watchfiles task: an event it may report; has it not crashed
    queue,                      \* ticks nobody has taken
    offset, saved,              \* jsonl_offset, in memory and on disk
    open, final,                \* there is a current turn; it is marked final at this offset
    shows, chat,                \* the turn renders some element; the chat is known
    newAge, animAge,            \* ages of _last_new_bytes_at, _last_anim_flushed_at
    pc, job,                    \* where the loop is; its flush
    watching,                   \* start_binding's own backlog is done
    card,                       \* Feishu's card of the current turn
    held, heldFor,              \* who holds the event loop, and since when
    frozen,                     \* history: others held it too long since the last growth
    restarts

file == <<size, written>>
poll == <<lastSize, changed, polled>>
turn == <<open, final, shows, newAge, animAge>>
loop == <<pc, job, watching, chat>>
hold == <<held, heldFor, frozen>>
vars == <<file, poll, notice, alive, queue, offset, saved, turn, loop, card, hold, restarts>>

Kinds == {"batch", "close", "final", "anim"}
NoJob == [kind |-> "batch", live |-> FALSE, age |-> 0]
NoCard == [shown |-> 0, spin |-> FALSE]
Ages(limit) == 0 .. limit + 1
LongAgo(limit) == limit + 1
Older(age, limit) == IF age <= limit THEN age + 1 ELSE age

Init ==
    /\ size \in 0 .. MaxSize /\ written = LongAgo(Fresh)
    /\ lastSize = -1 /\ changed = LongAgo(Window) /\ polled = FALSE
    /\ notice = FALSE /\ alive = TRUE /\ queue = 0
    /\ offset = 0 /\ saved = 0
    /\ open = FALSE /\ final = FALSE /\ shows = FALSE
    /\ newAge = LongAgo(Settle) /\ animAge = LongAgo(Throttle)
    /\ pc = "start" /\ job = NoJob /\ watching = FALSE /\ chat \in BOOLEAN
    /\ card = NoCard /\ held = "none" /\ heldFor = 0 /\ frozen = FALSE /\ restarts = 0

-----------------------------------------------------------------------------
(* Claude and the clock.                                                   *)

Write ==
    /\ size < MaxSize
    /\ size' = size + 1 /\ written' = 0 /\ notice' = alive
    /\ UNCHANGED <<poll, alive, queue, offset, saved, turn, loop, card, hold, restarts>>

\* Nothing is due: the poll task sleeps, the loop waits for a tick or for Feishu.
Asleep ==
    /\ watching => polled
    /\ pc = "idle" => queue = 0
    /\ pc \notin {"start", "over"}
LongestHold == IF held = "self" THEN MaxDraw ELSE MaxHold

Tick ==
    /\ IF held = "none" THEN Asleep ELSE heldFor < LongestHold
    /\ heldFor' = IF held = "none" THEN 0 ELSE heldFor + 1
    /\ polled' = FALSE
    /\ written' = Older(written, Fresh) /\ changed' = Older(changed, Window)
    /\ newAge' = Older(newAge, Settle) /\ animAge' = Older(animAge, Throttle)
    /\ job' = [job EXCEPT !.age = Older(@, Throttle)]
    /\ frozen' = (frozen \/ (held = "other" /\ LastFrame + heldFor + 1 >= Window))
    /\ UNCHANGED <<size, lastSize, notice, alive, queue, offset, saved, open, final, shows,
                   pc, watching, chat, card, held, restarts>>

\* No coroutine is between two awaits, and the thread waits for nobody.
Free == held = "none" /\ pc # "over"

\* Another pipeline draws a diagram, which blocks the thread all coroutines share.
HoldLoop ==
    /\ Free /\ MaxHold > 0 /\ (watching => polled)
    /\ held' = "other" /\ heldFor' = 0
    /\ UNCHANGED <<file, poll, notice, alive, queue, offset, saved, turn, loop, card, frozen,
                   restarts>>

ReleaseLoop ==
    /\ held = "other"
    /\ held' = "none" /\ heldFor' = 0
    /\ UNCHANGED <<file, poll, notice, alive, queue, offset, saved, turn, loop, card, frozen,
                   restarts>>

-----------------------------------------------------------------------------
(* The two producers of ticks.                                             *)

ActiveUntilSettled(grown, age) == grown \/ age < Settle  \* mutant
InActiveWindow(grown, age) == grown \/ age < Window

Poll ==
    LET grown == size # lastSize
        age == IF grown THEN 0 ELSE changed
    IN  /\ watching /\ ~polled /\ Free
        /\ polled' = TRUE /\ lastSize' = size /\ changed' = age
        /\ queue' = IF size > 0 /\ InActiveWindow(grown, age) THEN queue + 1 ELSE queue
        /\ frozen' = (frozen /\ ~grown)
        /\ UNCHANGED <<file, notice, alive, offset, saved, turn, loop, card, held, heldFor,
                       restarts>>

Notify ==
    /\ watching /\ alive /\ notice /\ Free
    /\ queue' = queue + 1 /\ notice' = FALSE
    /\ UNCHANGED <<file, poll, alive, offset, saved, turn, loop, card, hold, restarts>>

WatchfilesCrash ==
    /\ alive /\ alive' = FALSE /\ notice' = FALSE
    /\ UNCHANGED <<file, poll, queue, offset, saved, turn, loop, card, hold, restarts>>

-----------------------------------------------------------------------------
(* process_backlog.                                                        *)

\* A call begins: the first one is start_binding's, the others take a tick.
Called ==
    /\ held = "none"
    /\ \/ pc = "start" /\ UNCHANGED queue
       \/ pc = "idle" /\ queue > 0 /\ queue' = queue - 1

\* _flush_current_turn returns at once without a turn or a chat, and otherwise awaits
\* uploads; it shows a spinner only if the file was written just now.
Begin == pc' = IF open' /\ chat THEN "upload" ELSE "over"
FlushAlive(kind, live) ==  \* mutant
    Begin /\ job' = [kind |-> kind, live |-> live, age |-> 0]
Flush(kind, live) ==
    Begin /\ job' = [kind |-> kind, live |-> live /\ written <= Fresh, age |-> 0]

ClearMark == final' = FALSE /\ newAge' = 0

\* New bytes, in which there may be no line, lines that render nothing, and one that
\* opens a turn, whose predecessor then gets its last flush.
Ingest ==
    /\ Called /\ size > offset
    /\ offset' = size
    /\ ClearMark
    /\ open' \in {open, TRUE} /\ shows' \in {shows, open'}
    /\ \/ Flush("batch", TRUE)
       \/ open /\ Flush("close", FALSE)
    /\ UNCHANGED <<file, poll, notice, alive, saved, animAge, watching, chat, card, hold,
                   restarts>>

Idle == newAge > Settle
NextFrame == animAge > Throttle
Unfinished == size = offset /\ open /\ ~final

FinalFlush ==
    /\ Called /\ Unfinished /\ Idle
    /\ UNCHANGED <<file, poll, notice, alive, offset, saved, turn, watching, chat, card, hold,
                   restarts>>
    /\ Flush("final", FALSE)

AnimationFlush ==
    /\ Called /\ Unfinished /\ ~Idle /\ NextFrame
    /\ UNCHANGED <<file, poll, notice, alive, offset, saved, turn, watching, chat, card, hold,
                   restarts>>
    /\ Flush("anim", TRUE)

\* process_backlog returns; the loop, and not start_binding, saves the state.
SaveSize == saved' = IF watching THEN size ELSE saved  \* mutant
Save == saved' = IF watching THEN offset ELSE saved
Return == pc' = "idle" /\ watching' = TRUE /\ Save

NothingToDo ==
    /\ Called /\ size = offset
    /\ Unfinished => ~Idle /\ ~NextFrame
    /\ Return
    /\ UNCHANGED <<file, poll, notice, alive, offset, turn, job, chat, card, hold, restarts>>

-----------------------------------------------------------------------------
(* The rest of a flush: uploads, diagrams, the request.                    *)

\* The images are uploaded; without a spinner the diagrams are drawn as well, in a
\* subprocess the thread waits for.  A card without elements is not sent.
HasElements == shows \/ job.live
Uploaded ==
    /\ pc = "upload" /\ held = "none"
    /\ \/ pc' = (IF HasElements THEN "send" ELSE "over") /\ UNCHANGED hold
       \/ /\ ~job.live /\ shows /\ MaxDraw > 0
          /\ pc' = "draw" /\ held' = "self" /\ heldFor' = 0 /\ UNCHANGED frozen
    /\ UNCHANGED <<file, poll, notice, alive, queue, offset, saved, turn, job, watching, chat,
                   card, restarts>>

Drawn ==
    /\ pc = "draw"
    /\ pc' = "send" /\ held' = "none" /\ heldFor' = 0
    /\ UNCHANGED <<file, poll, notice, alive, queue, offset, saved, turn, job, watching, chat,
                   card, frozen, restarts>>

Flushed == [shown |-> offset, spin |-> job.live]

\* The old turn has its last card: the new one begins, and is flushed as a batch.
Closed ==
    /\ pc \in {"send", "over"} /\ held = "none" /\ job.kind = "close"
    /\ card' = NoCard /\ open' = open /\ shows' \in BOOLEAN
    /\ Flush("batch", TRUE)
    /\ UNCHANGED <<file, poll, notice, alive, queue, offset, saved, final, newAge, animAge,
                   watching, chat, hold, restarts>>

MarkFinal == final' = (final \/ job.kind = "final")

\* The flush has sent its card, or had none to send.
Sent ==
    /\ held = "none" /\ job.kind # "close"
    /\ \/ pc = "send" /\ card' = Flushed
       \/ pc = "over" /\ UNCHANGED card
    /\ MarkFinal
    /\ animAge' = IF job.kind = "anim" THEN job.age ELSE animAge
    /\ Return
    /\ UNCHANGED <<file, poll, notice, alive, queue, offset, open, shows, newAge, job, chat,
                   hold, restarts>>

\* The daemon dies, or the binding is stopped, whose loop saves the offset; the
\* request it was making may still arrive.  The new pipeline knows the offset alone.
Restart ==
    /\ restarts < MaxRestarts /\ restarts' = restarts + 1
    /\ \E o \in {saved} \cup (IF watching THEN {offset} ELSE {}) : offset' = o /\ saved' = o
    /\ \/ UNCHANGED card
       \/ pc = "send" /\ job.kind # "close" /\ card' = Flushed
    /\ lastSize' = -1 /\ changed' = LongAgo(Window) /\ polled' = FALSE
    /\ notice' = FALSE /\ alive' = TRUE /\ queue' = 0
    /\ open' = FALSE /\ final' = FALSE /\ shows' = FALSE
    /\ newAge' = LongAgo(Settle) /\ animAge' = LongAgo(Throttle)
    /\ pc' = "start" /\ job' = NoJob /\ watching' = FALSE
    /\ held' = "none" /\ heldFor' = 0 /\ frozen' = FALSE
    /\ UNCHANGED <<file, chat>>

-----------------------------------------------------------------------------

Producers == Poll \/ Notify
Backlog == Ingest \/ FinalFlush \/ AnimationFlush \/ NothingToDo
FlushSteps == Uploaded \/ Drawn \/ Closed \/ Sent
Faults == HoldLoop \/ WatchfilesCrash \/ Restart

Next == Write \/ Tick \/ Producers \/ Backlog \/ FlushSteps \/ ReleaseLoop \/ Faults

Spec == Init /\ [][Next]_vars

\* Time passes, Feishu answers, subprocesses end, and the event loop runs what is
\* due in turn, so that nobody who holds it again and again keeps others from it.
\* Claude, watchfiles and the faults owe nothing.
Fairness ==
    /\ WF_vars(Tick) /\ WF_vars(Poll) /\ WF_vars(ReleaseLoop)
    /\ SF_vars(Backlog) /\ SF_vars(FlushSteps)
FairSpec == Spec /\ Fairness

-----------------------------------------------------------------------------
(* Correctness.                                                            *)

\* Every variable has its type; what was saved, read and shown is in the file.
TypeOK ==
    /\ size \in 0 .. MaxSize /\ written \in Ages(Fresh)
    /\ lastSize \in -1 .. size /\ changed \in Ages(Window) /\ polled \in BOOLEAN
    /\ notice \in BOOLEAN /\ alive \in BOOLEAN /\ queue \in Nat
    /\ offset \in 0 .. size /\ saved \in 0 .. offset
    /\ open \in BOOLEAN /\ final \in BOOLEAN /\ shows \in BOOLEAN /\ chat \in BOOLEAN
    /\ newAge \in Ages(Settle) /\ animAge \in Ages(Throttle)
    /\ pc \in {"start", "idle", "upload", "draw", "send", "over"}
    /\ job \in [kind : Kinds, live : BOOLEAN, age : Ages(Throttle)]
    /\ watching \in BOOLEAN
    /\ card \in [shown : 0 .. size, spin : BOOLEAN]
    /\ held \in {"none", "self", "other"} /\ heldFor \in 0 .. MaxDraw + MaxHold
    /\ frozen \in BOOLEAN /\ restarts \in 0 .. MaxRestarts

\* No tick will come before the file grows: the window is closed, and the loop
\* has taken every tick there was.
AtRest ==
    /\ watching /\ pc = "idle" /\ queue = 0 /\ held = "none"
    /\ lastSize = size /\ changed >= Window

\* When the ticks have stopped, all of the file has been read, and the card of a turn
\* that renders something shows all of it and no spinner: the last tick comes late
\* enough for its flush to be a final one, however slow the flushes before it were,
\* unless other code held the loop from the last frame to the end of the window.
Complete == card = [shown |-> size, spin |-> FALSE]
RestIsFinal == AtRest => offset = size /\ (chat /\ shows /\ ~frozen => Complete)

\* The tick after the settle time is there for this: no card of a turn that renders
\* something keeps its spinner for good.  It takes a loop that is never frozen.
SpinnerLeaves == AtRest /\ shows => ~card.spin

\* Once Claude falls silent all it wrote is read, and the card of a turn that renders
\* something gets it and loses the spinner, whichever of the two producers noticed; a
\* restart forgets the turn.
EventuallyFinal ==
    <>[](restarts = 0 => offset = size /\ (chat /\ shows /\ ~frozen => Complete))
=============================================================================
