--------------------------- MODULE WatcherProofs ---------------------------
(***************************************************************************)
(* Proofs about Watcher: when the ticks have stopped, all of the file has  *)
(* been read and the card of a turn that renders something shows it        *)
(* without a spinner, for every size, every number of restarts, and        *)
(* however long diagrams are drawn and requests take, unless other code    *)
(* has frozen the event loop from the last frame to the end of the window. *)
(*                                                                         *)
(* The argument is about a card that is, or is about to be, shown with a   *)
(* spinner.  Its flush began when the file was fresh, so that the poll     *)
(* task counts the window from a moment not long before; each tick taken   *)
(* since then came before the next frame was due, which is just as long    *)
(* ago; and the poll task misses no more ticks in a row than the loop is   *)
(* held for.  So a tick waits in the queue, or the window is open, or the  *)
(* loop was held past the end of it.                                       *)
(***************************************************************************)
EXTENDS Watcher, TLAPS

\* The loop's place tells what it knows of the turn.
PlaceInv ==
    /\ pc = "start" => ~open
    /\ pc \in {"upload", "draw", "send"} => open /\ chat
    /\ pc \in {"upload", "draw", "send", "over"} => ~final
    /\ pc = "over" => ~(chat /\ shows) /\ (job.kind = "close" => open)
    /\ open => offset > 0
    /\ shows => open
    /\ job.kind \in {"close", "final"} => ~job.live
    /\ pc = "draw" => ~job.live
    /\ held = "self" <=> pc = "draw"
    /\ pc = "idle" => watching
    /\ ~watching => lastSize = -1

\* What the poll task has seen is read, or a tick is waiting.
ReadInv == lastSize = size => offset = size \/ queue > 0

\* The card of a turn that renders something shows, after the flush, what was read,
\* and spins only while the turn is not final.
CardInv ==
    pc = "idle" /\ chat /\ shows => card.shown = offset /\ (final => ~card.spin)

Flushing == pc \in {"upload", "draw", "send"} /\ job.live
Spinning == pc = "idle" /\ chat /\ shows /\ card.spin

\* The ages compared: the poll task sees a write after it, a live flush begins
\* while the file is fresh, and the next frame is counted from a live flush.
AgeInv ==
    lastSize = size =>
        /\ written <= Fresh => changed <= written
        /\ Flushing /\ job.age <= Throttle => changed <= Fresh + job.age
        /\ (Flushing \/ Spinning) /\ animAge <= Throttle => changed <= Fresh + animAge

\* With a spinner there is a tick, or the window is open, or the loop was frozen.
TickInv ==
    /\ held = "other" /\ polled => heldFor = 0
    /\ held = "other" /\ ~frozen => LastFrame + heldFor < Window
    /\ (Flushing \/ Spinning) /\ lastSize = size /\ queue = 0 /\ ~frozen =>
        IF held = "other" THEN changed <= LastFrame + heldFor
        ELSE IF polled THEN changed <= LastFrame
        ELSE changed < Window

IInv == TypeOK /\ PlaceInv /\ ReadInv /\ CardInv /\ AgeInv /\ TickInv

-----------------------------------------------------------------------------
(* Types.                                                                  *)

LEMMA OlderType ==
    ASSUME NEW limit \in Nat, NEW age \in Ages(limit)
    PROVE  /\ Older(age, limit) \in Ages(limit)
           /\ Older(age, limit) <= age + 1
           /\ age <= limit => Older(age, limit) = age + 1
           /\ age > limit => Older(age, limit) = age
  BY DEF Older, Ages

LEMMA Limits ==
    /\ Fresh \in Nat /\ Settle \in Nat /\ Slack \in Nat /\ Throttle \in Nat
    /\ Window \in Nat /\ MaxDraw \in Nat /\ MaxHold \in Nat
    /\ LastFrame \in Nat /\ Fresh <= LastFrame /\ LastFrame + 1 < Window
    /\ 0 \in Ages(Fresh) /\ 0 \in Ages(Settle) /\ 0 \in Ages(Throttle) /\ 0 \in Ages(Window)
    /\ LongAgo(Fresh) \in Ages(Fresh) /\ LongAgo(Settle) \in Ages(Settle)
    /\ LongAgo(Throttle) \in Ages(Throttle) /\ LongAgo(Window) \in Ages(Window)
  BY TimesAssumption, WindowAssumption DEF Window, LastFrame, Ages, LongAgo

\* The flush an action of the loop begins has its type.
LEMMA FlushType ==
    ASSUME NEW kind \in Kinds, NEW live \in BOOLEAN, Flush(kind, live)
    PROVE  /\ pc' \in {"upload", "over"} /\ (pc' = "upload" <=> open' /\ chat)
           /\ job' \in [kind : Kinds, live : BOOLEAN, age : Ages(Throttle)]
           /\ job'.kind = kind /\ job'.age = 0 /\ (job'.live => live /\ written <= Fresh)
  <1> DEFINE spin == live /\ written <= Fresh
  <1>1. /\ job' = [kind |-> kind, live |-> spin, age |-> 0]
        /\ pc' = IF open' /\ chat THEN "upload" ELSE "over"
    BY DEF Flush, Begin
  <1>2. spin \in BOOLEAN /\ (spin => live /\ written <= Fresh)
    OBVIOUS
  <1> HIDE DEF spin
  <1> QED BY <1>1, <1>2, Limits

\* The variables that are TRUE or FALSE.
Flags == /\ polled \in BOOLEAN /\ notice \in BOOLEAN /\ alive \in BOOLEAN
         /\ open \in BOOLEAN /\ final \in BOOLEAN /\ watching \in BOOLEAN
         /\ shows \in BOOLEAN /\ chat \in BOOLEAN /\ frozen \in BOOLEAN

LEMMA FlagsPreserved == ASSUME Flags, Next PROVE Flags'
  <1>1. CASE Ingest
    <2>1. open' \in BOOLEAN /\ shows' \in BOOLEAN
      <3>1. open' \in {open, TRUE} /\ shows' \in {shows, open'}
        BY <1>1 DEF Ingest
      <3> QED BY <3>1, Zenon DEF Flags
    <2> QED BY <1>1, <2>1, Zenon DEF Flags, Ingest, ClearMark, poll, hold
  <1>2. CASE ReleaseLoop \/ HoldLoop \/ WatchfilesCrash
    BY <1>2, Zenon DEF Flags, ReleaseLoop, HoldLoop, WatchfilesCrash, poll, turn, loop, hold
  <1>3. CASE Restart
    BY <1>3, Zenon DEF Flags, Restart
  <1>4. CASE Producers
    <2>1. frozen' \in BOOLEAN
      BY <1>4, Zenon DEF Flags, Producers, Poll, Notify, hold
    <2> QED BY <1>4, <2>1, Zenon DEF Flags, Producers, Poll, Notify, poll, turn, loop
  <1>5. CASE Write
    BY <1>5, Zenon DEF Flags, Write, poll, turn, loop, hold
  <1>6. CASE Tick
    <2>1. frozen' \in BOOLEAN
      BY <1>6, Zenon DEF Tick
    <2> QED BY <1>6, <2>1, Zenon DEF Flags, Tick
  <1>7. CASE FinalFlush \/ AnimationFlush \/ NothingToDo
    BY <1>7, Zenon DEF Flags, FinalFlush, AnimationFlush, NothingToDo, Return, poll, turn, hold
  <1>8. CASE FlushSteps
    <2>1. CASE Sent
      <3>1. final' \in BOOLEAN
        BY <2>1, Zenon DEF Sent, MarkFinal
      <3> QED BY <2>1, <3>1, Zenon DEF Flags, Sent, Return, poll, hold
    <2> QED BY <1>8, <2>1, Zenon DEF Flags, FlushSteps, Uploaded, Drawn, Closed, poll, turn, hold
  <1> QED BY <1>1, <1>2, <1>3, <1>4, <1>5, <1>6, <1>7, <1>8
          DEF Next, Faults, Backlog

LEMMA TypePreserved == ASSUME TypeOK, [Next]_vars PROVE TypeOK'
  <1> USE Limits, BoundsAssumption
  <1>0. Flags'
    <2>1. Flags
      BY DEF TypeOK, Flags
    <2>2. CASE UNCHANGED vars
      BY <2>1, <2>2, Zenon DEF Flags, vars, poll, turn, loop, hold
    <2> QED BY <2>1, <2>2, FlagsPreserved
  <1>1. CASE UNCHANGED vars
    BY <1>1 DEF TypeOK, vars, file, poll, turn, loop, hold
  <1>2. CASE Write
    BY <1>2 DEF TypeOK, Write, poll, turn, loop, hold
  <1>3. CASE Tick
    <2>1. /\ written' \in Ages(Fresh) /\ changed' \in Ages(Window)
          /\ newAge' \in Ages(Settle) /\ animAge' \in Ages(Throttle)
      BY <1>3, OlderType DEF Tick, TypeOK
    <2>2. job' \in [kind : Kinds, live : BOOLEAN, age : Ages(Throttle)]
      <3>1. Older(job.age, Throttle) \in Ages(Throttle)
        BY OlderType DEF TypeOK
      <3> QED BY <1>3, <3>1 DEF Tick, TypeOK
    <2>3. heldFor' \in 0 .. MaxDraw + MaxHold
      BY <1>3 DEF Tick, TypeOK, LongestHold
    <2> QED BY <1>0, <1>3, <2>1, <2>2, <2>3 DEF Flags, Tick, TypeOK
  <1>4. CASE Producers
    <2>1. lastSize' \in -1 .. size' /\ changed' \in Ages(Window) /\ queue' \in Nat
      BY <1>4 DEF TypeOK, Producers, Poll, Notify, poll, file
    <2> QED BY <1>0, <1>4, <2>1 DEF Flags, TypeOK, Producers, Poll, Notify, file, turn, loop, hold, poll
  <1>5. CASE Backlog
    <2>1. CASE Ingest
      <3>1. pc' \in {"upload", "over"} /\ job' \in [kind : Kinds, live : BOOLEAN, age : Ages(Throttle)]
        BY <2>1, FlushType DEF Ingest, Kinds
      <3>2. size' \in 0 .. MaxSize /\ offset' \in 0 .. size' /\ saved' \in 0 .. offset'
        BY <2>1 DEF TypeOK, Ingest, file
      <3>3. queue' \in Nat /\ newAge' \in Ages(Settle)
        BY <2>1 DEF TypeOK, Ingest, Called, ClearMark
      <3> QED BY <1>0, <2>1, <3>1, <3>2, <3>3 DEF Flags, TypeOK, Ingest, file, poll, hold
    <2>2. CASE FinalFlush \/ AnimationFlush
      <3>1. pc' \in {"upload", "over"} /\ job' \in [kind : Kinds, live : BOOLEAN, age : Ages(Throttle)]
        BY <2>2, FlushType DEF FinalFlush, AnimationFlush, Kinds
      <3>2. queue' \in Nat
        <4>1. Called
          BY <2>2 DEF FinalFlush, AnimationFlush
        <4> QED BY <4>1 DEF Called, TypeOK
      <3>3. UNCHANGED <<file, poll, notice, alive, offset, saved, turn, watching, chat, card, hold,
                        restarts>>
        BY <2>2 DEF FinalFlush, AnimationFlush
      <3> QED BY <3>1, <3>2, <3>3 DEF TypeOK, file, poll, turn, hold
    <2>3. CASE NothingToDo
      BY <2>3 DEF TypeOK, NothingToDo, Called, Return, Save, file, poll, turn, hold
    <2> QED BY <1>5, <2>1, <2>2, <2>3 DEF Backlog
  <1>6. CASE FlushSteps
    <2>1. CASE Uploaded \/ Drawn
      BY <2>1 DEF TypeOK, Uploaded, Drawn, file, poll, turn, hold
    <2>2. CASE Closed
      <3>1. pc' \in {"upload", "over"} /\ job' \in [kind : Kinds, live : BOOLEAN, age : Ages(Throttle)]
        BY <2>2, FlushType DEF Closed, Kinds
      <3>2. card' \in [shown : 0 .. size, spin : BOOLEAN]
        BY <2>2 DEF Closed, NoCard, TypeOK
      <3> QED BY <1>0, <2>2, <3>1, <3>2 DEF Flags, TypeOK, Closed, file, poll, turn, hold
    <2>3. CASE Sent
      <3>1. card' \in [shown : 0 .. size, spin : BOOLEAN]
        BY <2>3 DEF Sent, Flushed, TypeOK
      <3>2. final' \in BOOLEAN
        BY <2>3 DEF Sent, MarkFinal, TypeOK
      <3> QED BY <2>3, <3>1, <3>2 DEF TypeOK, Sent, Return, Save, file, poll, hold
    <2> QED BY <1>6, <2>1, <2>2, <2>3 DEF FlushSteps
  <1>7. CASE ReleaseLoop \/ HoldLoop \/ WatchfilesCrash
    BY <1>0, <1>7 DEF Flags, TypeOK, ReleaseLoop, HoldLoop, WatchfilesCrash, file, poll, turn, loop, hold
  <1>8. CASE Restart
    <2>1. card' \in [shown : 0 .. size, spin : BOOLEAN]
      BY <1>8 DEF Restart, Flushed, TypeOK
    <2>2. offset' \in 0 .. size' /\ saved' \in 0 .. offset'
      BY <1>8 DEF Restart, TypeOK, file
    <2>3. job' \in [kind : Kinds, live : BOOLEAN, age : Ages(Throttle)]
      BY <1>8 DEF Restart, NoJob, Kinds
    <2> QED BY <1>0, <1>8, <2>1, <2>2, <2>3 DEF Flags, TypeOK, Restart, file
  <1> QED BY <1>1, <1>2, <1>3, <1>4, <1>5, <1>6, <1>7, <1>8 DEF Next, Faults

LEMMA TypeInitial == Init => TypeOK
  <1> SUFFICES ASSUME Init PROVE TypeOK
    OBVIOUS
  <1>1. job \in [kind : Kinds, live : BOOLEAN, age : Ages(Throttle)]
    BY Limits DEF Init, NoJob, Kinds
  <1>2. card \in [shown : 0 .. size, spin : BOOLEAN]
    BY BoundsAssumption DEF Init, NoCard
  <1>3. Flags
    BY Zenon DEF Init, Flags
  <1> QED BY <1>1, <1>2, <1>3, Limits, BoundsAssumption DEF Init, TypeOK, Flags

\* What is saved, read, seen by the poll task and shown is in the file, whatever
\* was cut off by a crash.
THEOREM TypeCorrect == Spec => []TypeOK
  BY TypeInitial, TypePreserved, PTL DEF Spec

-----------------------------------------------------------------------------
(* The places of the loop, and what has been read.                         *)

LEMMA PlaceKept == ASSUME TypeOK, PlaceInv, [Next]_vars PROVE PlaceInv'
  <1>1. CASE UNCHANGED vars
    BY <1>1, Zenon DEF PlaceInv, vars, file, poll, turn, loop, hold
  <1>2. CASE Write
    BY <1>2 DEF TypeOK, PlaceInv, Write, poll, turn, loop, hold
  <1>3. CASE Tick
    <2>1. UNCHANGED <<pc, open, final, shows, chat, offset, held, watching, lastSize>>
      BY <1>3 DEF Tick
    <2>2. job'.kind = job.kind /\ job'.live = job.live
      BY <1>3 DEF Tick, TypeOK
    <2> QED BY <2>1, <2>2 DEF PlaceInv
  <1>4. CASE Producers
    BY <1>4 DEF PlaceInv, Producers, Poll, Notify, file, turn, loop, hold
  <1>5. CASE Backlog
    <2>1. CASE Ingest
      <3>1. /\ offset' > 0 /\ ~final' /\ held # "self"
            /\ UNCHANGED <<watching, lastSize, held, chat>>
        BY <2>1 DEF TypeOK, PlaceInv, Ingest, Called, ClearMark, poll, hold
      <3>2. (open => open') /\ (shows' => open')
        <4>1. (open' = open \/ open' = TRUE) /\ (shows' = shows \/ shows' = open')
          BY <2>1 DEF Ingest
        <4>2. shows => open
          BY DEF PlaceInv
        <4>3. open => open'
          BY <4>1, Zenon
        <4>4. CASE shows' = shows
          BY <4>2, <4>3, <4>4
        <4>5. CASE shows' = open'
          BY <4>3, <4>5
        <4> QED BY <4>1, <4>4, <4>5, Zenon
      <3>3. /\ pc' \in {"upload", "over"} /\ (pc' = "upload" <=> open' /\ chat)
            /\ job'.kind \in {"close", "final"} => ~job'.live
            /\ job'.kind = "close" => open
        <4>1. CASE Flush("batch", TRUE)
          BY <4>1, FlushType DEF Kinds
        <4>2. CASE open /\ Flush("close", FALSE)
          BY <4>2, FlushType DEF Kinds
        <4> QED BY <2>1, <4>1, <4>2 DEF Ingest
      <3> QED BY <3>1, <3>2, <3>3 DEF PlaceInv
    <2>2. CASE FinalFlush \/ AnimationFlush
      BY <2>2 DEF TypeOK, PlaceInv, FinalFlush, AnimationFlush, Called, Unfinished, Flush,
                  Begin, poll, turn, hold
    <2>3. CASE NothingToDo
      BY <2>3 DEF PlaceInv, NothingToDo, Called, Return, poll, turn, hold
    <2> QED BY <1>5, <2>1, <2>2, <2>3 DEF Backlog
  <1>6. CASE FlushSteps
    <2>1. CASE Uploaded \/ Drawn
      BY <2>1 DEF PlaceInv, Uploaded, HasElements, Drawn, file, poll, turn, hold
    <2>2. CASE Closed
      <3>1. open /\ open' = open
        BY <2>2 DEF PlaceInv, Closed
      <3> QED BY <2>2, <3>1 DEF PlaceInv, Closed, Flush, Begin, file, poll, hold
    <2>3. CASE Sent
      BY <2>3 DEF PlaceInv, Sent, Return, poll, hold
    <2> QED BY <1>6, <2>1, <2>2, <2>3 DEF FlushSteps
  <1>7. CASE ReleaseLoop \/ HoldLoop \/ WatchfilesCrash
    BY <1>7 DEF PlaceInv, ReleaseLoop, HoldLoop, Free, WatchfilesCrash, file, poll, turn, loop,
                hold
  <1>8. CASE Restart
    BY <1>8 DEF PlaceInv, Restart, NoJob
  <1> QED BY <1>1, <1>2, <1>3, <1>4, <1>5, <1>6, <1>7, <1>8 DEF Next, Faults

LEMMA ReadKept == ASSUME TypeOK, ReadInv, [Next]_vars PROVE ReadInv'
  <1>1. CASE UNCHANGED vars
    BY <1>1 DEF ReadInv, vars, file, poll
  <1>2. CASE Write
    BY <1>2 DEF TypeOK, ReadInv, Write, poll
  <1>3. CASE Tick \/ FlushSteps \/ ReleaseLoop \/ HoldLoop \/ WatchfilesCrash
    <2>1. UNCHANGED <<size, lastSize, offset, queue>>
      BY <1>3 DEF Tick, FlushSteps, Uploaded, Drawn, Closed, Sent, ReleaseLoop, HoldLoop,
                  WatchfilesCrash, file, poll
    <2> QED BY <2>1 DEF ReadInv
  <1>4. CASE Producers
    <2>1. CASE Notify
      BY <2>1 DEF ReadInv, TypeOK, Notify, file, poll
    <2>2. CASE Poll /\ size = lastSize
      BY <2>2 DEF ReadInv, TypeOK, Poll, file
    <2>3. CASE Poll /\ size # lastSize
      BY <2>3 DEF ReadInv, TypeOK, Poll, file, InActiveWindow
    <2> QED BY <1>4, <2>1, <2>2, <2>3 DEF Producers
  <1>5. CASE Backlog
    <2>1. UNCHANGED <<size, lastSize>> /\ offset' = size
      BY <1>5 DEF Backlog, Ingest, FinalFlush, AnimationFlush, NothingToDo, Unfinished, file, poll
    <2> QED BY <2>1 DEF ReadInv
  <1>6. CASE Restart
    BY <1>6 DEF ReadInv, TypeOK, Restart, file
  <1> QED BY <1>1, <1>2, <1>3, <1>4, <1>5, <1>6 DEF Next, Faults

LEMMA CardKept == ASSUME TypeOK, PlaceInv, CardInv, [Next]_vars PROVE CardInv'
  <1>1. CASE Sent
    <2> SUFFICES ASSUME chat, shows PROVE CardInv'
      BY <1>1 DEF Sent, CardInv
    <2>1. card'.shown = offset /\ card'.spin = job.live /\ offset' = offset
      BY <1>1 DEF Sent, Flushed, PlaceInv
    <2>2. final' => ~job.live
      BY <1>1 DEF Sent, PlaceInv, MarkFinal
    <2> QED BY <2>1, <2>2 DEF CardInv
  <1>2. CASE Restart
    BY <1>2 DEF Restart, CardInv
  <1>3. CASE pc' # "idle" \/ ~shows'
    BY <1>3 DEF CardInv
  <1>4. CASE pc = "idle" /\ UNCHANGED <<card, offset, chat, shows, final>>
    BY <1>4 DEF CardInv
  <1>5. CASE NothingToDo
    BY <1>5 DEF PlaceInv, CardInv, NothingToDo, Called, turn
  <1> QED BY <1>1, <1>2, <1>3, <1>4, <1>5
          DEF vars, Next, Write, Tick, Producers, Poll, Notify, Backlog, Ingest, FinalFlush,
              AnimationFlush, Flush, Begin, FlushSteps, Uploaded, Drawn, Closed, ReleaseLoop, Faults,
              HoldLoop, WatchfilesCrash, file, poll, turn, loop, hold

-----------------------------------------------------------------------------
(* Ages, ticks and the spinner.                                            *)

BeginsFlush == Ingest \/ FinalFlush \/ AnimationFlush \/ Closed
Elsewhere == Notify \/ ReleaseLoop \/ HoldLoop \/ WatchfilesCrash

\* A flush begins with a spinner only while the file is fresh.
LEMMA FlushBegins ==
    ASSUME BeginsFlush
    PROVE  /\ pc' # "idle" /\ job'.age = 0 /\ (job'.live => written <= Fresh)
           /\ held # "other"
           /\ UNCHANGED <<size, written, lastSize, changed, polled, animAge, held, heldFor>>
  <1>1. \E k \in Kinds, live \in BOOLEAN : Flush(k, live)
    BY DEF BeginsFlush, Ingest, FinalFlush, AnimationFlush, Closed, Kinds
  <1>2. pc' # "idle" /\ job'.age = 0 /\ (job'.live => written <= Fresh)
    BY <1>1, FlushType
  <1>3. /\ held # "other"
        /\ UNCHANGED <<size, written, lastSize, changed, polled, animAge, held, heldFor>>
    BY DEF BeginsFlush, Ingest, FinalFlush, AnimationFlush, Closed, Called, file, poll, turn, hold
  <1> QED BY <1>2, <1>3

\* The other steps of the loop begin no spinner.
LEMMA NoNewSpinner ==
    ASSUME PlaceInv, Uploaded \/ Drawn \/ NothingToDo \/ Sent, (Flushing \/ Spinning)'
    PROVE  /\ Flushing \/ Spinning
           /\ \/ Flushing' /\ UNCHANGED <<job, animAge, queue>>
              \/ Spinning' /\ UNCHANGED animAge
              \/ Spinning' /\ Flushing /\ animAge' = job.age
           /\ held # "other" /\ held' # "other"
           /\ UNCHANGED <<size, written, lastSize, changed, polled>>
  <1>1. CASE Uploaded \/ Drawn
    <2>1. pc' \in {"send", "draw", "over"} /\ UNCHANGED <<job, file, poll, queue, animAge>>
      BY <1>1 DEF Uploaded, Drawn, turn
    <2>2. pc' = "send" /\ job.live
      BY <1>1, <2>1 DEF Uploaded, Drawn, Flushing, Spinning, PlaceInv
    <2>3. pc = "upload" /\ held = "none" /\ held' = "none"
      BY <1>1, <2>2 DEF Uploaded, Drawn, PlaceInv, hold
    <2> QED BY <2>1, <2>2, <2>3 DEF Flushing, file, poll
  <1>2. CASE NothingToDo
    BY <1>2 DEF NothingToDo, Called, Return, Flushing, Spinning, PlaceInv, file, poll, turn, hold
  <1>3. CASE Sent
    <2>1. card'.spin = job.live /\ pc' = "idle" /\ pc = "send"
      BY <1>3 DEF Sent, Flushed, Return, PlaceInv, Flushing, Spinning
    <2> QED BY <1>3, <2>1 DEF Sent, Flushing, Spinning, file, poll, hold
  <1> QED BY <1>1, <1>2, <1>3

LEMMA AgeKept == ASSUME TypeOK, PlaceInv, AgeInv, [Next]_vars PROVE AgeInv'
  <1> USE Limits
  <1> SUFFICES ASSUME lastSize' = size' PROVE AgeInv'
    BY DEF AgeInv
  <1>0. /\ written \in Nat /\ changed \in Nat /\ animAge \in Nat /\ job.age \in Nat
    BY DEF TypeOK, Ages
  <1>1. CASE UNCHANGED vars \/ Elsewhere
    <2>1. UNCHANGED <<size, lastSize, written, changed, animAge, pc, job, chat, shows, card>>
      BY <1>1 DEF Elsewhere, Notify, ReleaseLoop, HoldLoop, WatchfilesCrash, vars, file, poll,
                  turn, loop
    <2> QED BY <2>1 DEF AgeInv, Flushing, Spinning
  <1>2. CASE Write \/ Restart
    BY <1>2 DEF Write, Restart, TypeOK, file, poll
  <1>3. CASE Tick
    <2>1. /\ lastSize = size /\ (Flushing' <=> Flushing) /\ (Spinning' <=> Spinning)
      BY <1>3 DEF Tick, Flushing, Spinning, TypeOK
    <2>2. /\ changed' <= changed + 1 /\ changed' \in Nat
          /\ written' <= Fresh => written' = written + 1 /\ written <= Fresh
          /\ animAge' <= Throttle => animAge' = animAge + 1 /\ animAge <= Throttle
      BY <1>0, <1>3 DEF Tick, Older
    <2>3. job'.age <= Throttle => job'.age = job.age + 1 /\ job.age <= Throttle
      BY <1>0, <1>3 DEF Tick, Older, TypeOK
    <2>4. job'.age \in Nat /\ animAge' \in Nat /\ written' \in Nat
      BY TypePreserved DEF TypeOK, Ages
    <2>5. (written <= Fresh => changed <= written)'
      BY <1>0, <2>1, <2>2, <2>4 DEF AgeInv
    <2>6. (Flushing /\ job.age <= Throttle => changed <= Fresh + job.age)'
      BY <1>0, <2>1, <2>2, <2>3, <2>4 DEF AgeInv
    <2>7. ((Flushing \/ Spinning) /\ animAge <= Throttle => changed <= Fresh + animAge)'
      BY <1>0, <2>1, <2>2, <2>4 DEF AgeInv
    <2> QED BY <2>5, <2>6, <2>7 DEF AgeInv
  <1>4. CASE Poll
    <2>1. /\ UNCHANGED <<written, animAge, pc, job, chat, shows, card>>
          /\ IF size = lastSize THEN changed' = changed ELSE changed' = 0
      BY <1>4 DEF Poll, file, turn, loop
    <2> QED BY <1>0, <2>1 DEF AgeInv, Flushing, Spinning
  <1>5. CASE BeginsFlush
    <2>1. ~Spinning' /\ lastSize = size
      BY <1>5, FlushBegins DEF Spinning
    <2>2. Flushing' => written <= Fresh
      BY <1>5, FlushBegins DEF Flushing
    <2> QED BY <1>0, <1>5, <2>1, <2>2, FlushBegins DEF AgeInv
  <1>6. CASE Uploaded \/ Drawn \/ NothingToDo \/ Sent
    <2>1. UNCHANGED <<size, written, lastSize, changed>>
      BY <1>6 DEF Uploaded, Drawn, NothingToDo, Sent, file, poll
    <2>2. CASE (Flushing \/ Spinning)'
      <3>1. /\ Flushing \/ Spinning
            /\ \/ Flushing' /\ UNCHANGED <<job, animAge>>
               \/ Spinning' /\ UNCHANGED animAge
               \/ Spinning' /\ Flushing /\ animAge' = job.age
        BY <1>6, <2>2, NoNewSpinner
      <3>2. CASE Flushing'
        <4>1. Flushing /\ UNCHANGED <<job, animAge>> /\ ~Spinning'
          BY <1>6, <3>1, <3>2 DEF Uploaded, Drawn, NothingToDo, Sent, Return, Flushing, Spinning
        <4> QED BY <1>0, <2>1, <4>1 DEF AgeInv
      <3>3. CASE ~Flushing'
        BY <1>0, <2>1, <3>1, <3>3 DEF AgeInv
      <3> QED BY <3>2, <3>3
    <2>3. CASE ~(Flushing \/ Spinning)'
      BY <2>1, <2>3 DEF AgeInv
    <2> QED BY <2>2, <2>3
  <1> QED BY <1>1, <1>2, <1>3, <1>4, <1>5, <1>6
          DEF Next, Producers, Backlog, FlushSteps, Faults, BeginsFlush, Elsewhere

LEMMA TickKept ==
    ASSUME TypeOK, PlaceInv, CardInv, AgeInv, TickInv, [Next]_vars
    PROVE  TickInv'
  <1> USE Limits
  <1>0. /\ written \in Nat /\ changed \in Nat /\ animAge \in Nat /\ heldFor \in Nat
        /\ queue \in Nat
    BY DEF TypeOK, Ages
  <1>1. /\ (held = "other" /\ polled => heldFor = 0)'
        /\ (held = "other" /\ ~frozen => LastFrame + heldFor < Window)'
    <2>1. CASE UNCHANGED <<held, heldFor>> /\ (UNCHANGED <<polled, frozen>> \/ held # "other")
      BY <2>1 DEF TickInv
    <2>2. CASE Tick
      <3>1. polled' = FALSE /\ UNCHANGED held
        BY <2>2 DEF Tick
      <3>2. ASSUME held = "other", ~frozen' PROVE LastFrame + heldFor' < Window
        <4>1. heldFor' = heldFor + 1 /\ ~(LastFrame + heldFor + 1 >= Window)
          BY <2>2, <3>2 DEF Tick
        <4> QED BY <1>0, <4>1
      <3> QED BY <3>1, <3>2
    <2>3. CASE held' # "other" \/ heldFor' = 0
      BY <2>3
    <2> QED BY <2>1, <2>2, <2>3
            DEF vars, Next, Write, Producers, Poll, Notify, Backlog, Ingest, FinalFlush,
                AnimationFlush, NothingToDo, FlushSteps, Uploaded, Drawn, Closed, Sent,
                ReleaseLoop, Faults, HoldLoop, WatchfilesCrash, Restart, Free, file, poll, hold
  <1>2. ASSUME (Flushing \/ Spinning)', lastSize' = size', queue' = 0, ~frozen'
        PROVE  IF held' = "other" THEN changed' <= LastFrame + heldFor'
               ELSE IF polled' THEN changed' <= LastFrame
               ELSE changed' < Window
    <2>1. CASE UNCHANGED vars \/ WatchfilesCrash \/ Notify
      <3>1. UNCHANGED <<size, lastSize, changed, polled, held, heldFor, frozen, pc, job, chat,
                        shows, card>>
        BY <2>1 DEF WatchfilesCrash, Notify, vars, file, poll, turn, loop, hold
      <3>2. queue = 0
        BY <1>0, <1>2, <2>1 DEF WatchfilesCrash, Notify, vars
      <3> QED BY <1>2, <3>1, <3>2 DEF TickInv, Flushing, Spinning
    <2>2. CASE Write \/ Restart
      BY <1>2, <2>2 DEF Write, Restart, TypeOK, file, poll
    <2>3. CASE Tick
      <3>1. /\ lastSize = size /\ queue = 0 /\ (Flushing \/ Spinning) /\ held' = held
            /\ polled' = FALSE /\ ~frozen
        BY <1>2, <2>3 DEF Tick, Flushing, Spinning, TypeOK
      <3>2. changed' <= changed + 1 /\ changed' \in Nat
        BY <1>0, <2>3 DEF Tick, Older
      <3>3. held # "self" /\ watching
        BY <3>1 DEF PlaceInv, Flushing, Spinning, TypeOK
      <3>4. CASE held = "other"
        BY <1>0, <2>3, <3>1, <3>2, <3>4 DEF Tick, TickInv
      <3>5. CASE held # "other"
        <4>1. polled
          BY <2>3, <3>3, <3>5 DEF Tick, Asleep, TypeOK
        <4> QED BY <1>0, <3>1, <3>2, <3>5, <4>1 DEF TickInv
      <3> QED BY <3>4, <3>5
    <2>4. CASE Poll
      <3>1. /\ UNCHANGED <<size, held, heldFor, pc, job, chat, shows, open, card, offset>>
            /\ held = "none" /\ ~polled
        BY <2>4 DEF Poll, Free, file, turn, loop
      <3>2. size > 0
        BY <1>2, <3>1 DEF Flushing, Spinning, PlaceInv, TypeOK
      <3>3. size = lastSize /\ ~InActiveWindow(FALSE, changed) /\ queue = 0
        BY <1>0, <1>2, <2>4, <3>2 DEF Poll, InActiveWindow
      <3>4. ~frozen
        BY <1>2, <2>4, <3>3 DEF Poll
      <3>5. changed < Window
        BY <1>2, <3>1, <3>3, <3>4 DEF TickInv, Flushing, Spinning
      <3> QED BY <1>0, <3>3, <3>5 DEF InActiveWindow
    <2>5. CASE ReleaseLoop
      <3>1. /\ UNCHANGED <<size, lastSize, changed, polled, queue, frozen, pc, job, chat, shows,
                           card>>
            /\ held = "other" /\ held' = "none"
        BY <2>5 DEF ReleaseLoop, file, poll, turn, loop
      <3>2. changed <= LastFrame + heldFor
        BY <1>2, <3>1 DEF TickInv, Flushing, Spinning
      <3>3. LastFrame + heldFor < Window /\ (polled => heldFor = 0)
        BY <1>2, <3>1 DEF TickInv
      <3> QED BY <1>0, <3>1, <3>2, <3>3
    <2>6. CASE HoldLoop
      <3>1. /\ UNCHANGED <<size, lastSize, changed, polled, queue, frozen, pc, job, chat, shows,
                           card, watching>>
            /\ held = "none" /\ held' = "other" /\ heldFor' = 0 /\ (watching => polled)
        BY <2>6 DEF HoldLoop, Free, file, poll, turn, loop
      <3>2. watching
        BY <1>2, <3>1 DEF PlaceInv, TypeOK
      <3> QED BY <1>2, <3>1, <3>2 DEF TickInv, Flushing, Spinning
    <2>7. CASE BeginsFlush
      <3>1. written <= Fresh /\ lastSize = size /\ held' # "other" /\ changed' = changed
        BY <1>2, <2>7, FlushBegins DEF Flushing, Spinning
      <3>2. changed <= Fresh
        BY <1>0, <3>1 DEF AgeInv
      <3> QED BY <1>0, <3>1, <3>2 DEF LastFrame
    <2>8. CASE Uploaded \/ Drawn \/ Sent
      <3>1. /\ (Flushing \/ Spinning) /\ held # "other" /\ held' # "other"
            /\ UNCHANGED <<size, lastSize, changed, polled, queue, frozen>>
        BY <1>2, <2>8, NoNewSpinner DEF Uploaded, Drawn, Sent, hold
      <3> QED BY <1>2, <3>1 DEF TickInv
    <2>9. CASE NothingToDo
      <3>1. /\ Spinning /\ held' # "other" /\ size = offset
            /\ UNCHANGED <<size, lastSize, changed, animAge, open, final, chat, shows>>
        BY <1>2, <2>9 DEF NothingToDo, Called, Return, Flushing, Spinning, PlaceInv, file, poll,
                          turn, hold
      <3>2. ~final => animAge <= Throttle
        BY <1>0, <2>9, <3>1 DEF NothingToDo, Unfinished, NextFrame, Spinning, PlaceInv
      <3>3. ~final
        BY <3>1 DEF CardInv, Spinning
      <3>4. changed <= LastFrame
        BY <1>0, <1>2, <3>1, <3>2, <3>3 DEF AgeInv, LastFrame
      <3> QED BY <1>0, <3>1, <3>4
    <2> QED BY <2>1, <2>2, <2>3, <2>4, <2>5, <2>6, <2>7, <2>8, <2>9
            DEF Next, Producers, Backlog, FlushSteps, Faults, BeginsFlush
  <1> QED BY <1>1, <1>2 DEF TickInv

\* When the ticks have stopped all of the file has been read, and the card of a turn
\* that renders something shows all of it without a spinner, however slow the flushes
\* were and however long the pipeline's own diagrams took, unless other code has held
\* the event loop from the last frame to the end of the window.
THEOREM RestShowsAll == Spec => []RestIsFinal
<1>1. Init => IInv
  <2> SUFFICES ASSUME Init PROVE IInv
    OBVIOUS
  <2>1. TypeOK
    BY TypeInitial
  <2> QED BY <2>1 DEF IInv, Init, TypeOK, PlaceInv, ReadInv, CardInv, AgeInv, TickInv, Flushing,
                      Spinning, NoJob
<1>2. IInv /\ [Next]_vars => IInv'
  BY TypePreserved, PlaceKept, ReadKept, CardKept, AgeKept, TickKept DEF IInv
<1>3. IInv => RestIsFinal
  <2> SUFFICES ASSUME IInv, AtRest
               PROVE  offset = size /\ (chat /\ shows /\ ~frozen => Complete)
    BY DEF RestIsFinal
  <2>1. offset = size
    BY DEF AtRest, IInv, ReadInv, TypeOK
  <2>2. ASSUME chat, shows, ~frozen PROVE Complete
    <3>1. card.shown = size /\ card \in [shown : 0 .. size, spin : BOOLEAN]
      BY <2>1, <2>2 DEF AtRest, IInv, CardInv, TypeOK
    <3>2. ASSUME card.spin PROVE FALSE
      <4>1. changed < Window
        BY <2>2, <3>2, Limits DEF IInv, TickInv, TypeOK, Ages, AtRest, Spinning
      <4> QED BY <4>1, Limits DEF IInv, TypeOK, AtRest, Ages
    <3> QED BY <3>1, <3>2 DEF Complete
  <2> QED BY <2>1, <2>2
<1> QED BY <1>1, <1>2, <1>3, PTL DEF Spec
=============================================================================
