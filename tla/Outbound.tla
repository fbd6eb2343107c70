------------------------------ MODULE Outbound ------------------------------
(***************************************************************************)
(* The outbound half of one binding: the transcript Claude Code appends to *)
(* (jsonl), the OutboundPipeline that groups its lines into turns and      *)
(* mirrors each turn into a Feishu card, the BindingRuntimeState it keeps  *)
(* in memory and on disk, and the two coroutines that run process_backlog  *)
(* on the same pipeline: the outbound loop ("loop") and the replay that    *)
(* the inbound task starts on the user's first message ("boot").           *)
(*                                                                         *)
(* The daemon is one asyncio thread: a coroutine runs until it awaits      *)
(* something that suspends.  The program counters in Running are points    *)
(* inside such a stretch, where no other coroutine can move (Turnstile);   *)
(* the others are awaits.  Claude, time, Feishu and a crash move anywhere. *)
(*                                                                         *)
(* A line is its kind and is named by its number.  "user" opens a turn,    *)
(* "text" renders as an element, "file" does and names a file to push, and *)
(* "meta" renders as nothing (a tool result or a metadata line).  Only      *)
(* lines that parse are here: the reading of lines is the Transcript's.    *)
(***************************************************************************)
EXTENDS Integers, Sequences, FiniteSets

CONSTANTS
    Kinds,          \* the kinds of line Claude writes in this instance
    Chats,          \* may the chat be known (TRUE), unknown, or either at first?
    Contended,      \* may the token bucket be empty and a turn hold new images?
    MaxLines,       \* bound: lines in the transcript
    Faults,         \* what may go wrong: "fail", "crash", "stop", "gap", "save"
    MaxFaults       \* bound: how many times something does

ASSUME KindsAssumption == Kinds \subseteq {"user", "text", "file", "meta"}
ASSUME ChatsAssumption == Chats \subseteq BOOLEAN /\ Contended \in BOOLEAN
ASSUME FaultsAssumption == Faults \subseteq {"fail", "crash", "stop", "gap", "save"}
ASSUME BoundsAssumption == MaxLines \in Nat /\ MaxFaults \in Nat

VARIABLES
    jsonl,      \* the transcript: the kind of each line
    quiet,      \* has the file not been written for more than 5 s?
    idle,       \* more than SETTLE_AFTER_SECONDS since the last new bytes?
    phase,      \* "down", "starting" (inside start_binding) or "up"
    mem,        \* BindingRuntimeState: jsonl_offset, current_turn_card_id, chat_id
    disk,       \* the same record in state-<name>.json
    turn,       \* _current_turn
    finalAt,    \* _final_flushed_at_offset
    sentFiles,  \* _sent_file_paths
    pc,         \* where each coroutine is
    job,        \* the locals of each coroutine
    cards,      \* Feishu: the cards of the chat, oldest first
    files,      \* Feishu: the file messages of the chat, oldest first
    handed,     \* history: the lines of every request Feishu has accepted
    replayed,   \* history: has the transcript been replayed for a new chat?
    faults,     \* how many times something has gone wrong
    happened    \* history: what has

pipeline == <<mem, turn, finalAt, sentFiles>>
feishu == <<cards, files, handed>>
history == <<replayed, faults, happened>>
vars == <<jsonl, quiet, idle, phase, disk, pipeline, pc, job, feishu, history>>

Procs == {"loop", "boot"}
\* Uploads and bucket.acquire are awaits that return at once unless Contended.
PCs == {"idle", "tick", "run", "flush", "upload", "acquire", "request", "sent",
        "updated", "attach", "push", "after"}
Running == {"tick", "run", "flush", "attach", "after"}
           \cup (IF Contended THEN {} ELSE {"upload", "acquire"})
Afters == {"user", "end", "settle", "anim"}

NoCard == 0         \* card ids are positions in cards
NoOffset == -1
NoTurn == [open |-> FALSE, user |-> 0, evs |-> << >>]
TurnFrom(line) == [open |-> TRUE, user |-> line, evs |-> << >>]
NoJob == [next |-> 0, last |-> 0, live |-> FALSE, after |-> "end",
          body |-> [turn |-> 0, evs |-> << >>, live |-> FALSE],
          key |-> 0, card |-> NoCard, file |-> 0, files |-> {}]

Renders(line) == jsonl[line] \in {"text", "file"}

\* A coroutine may take a step only when no other one is between two awaits.
Turnstile(p) == \A q \in Procs \ {p} : pc[q] \notin Running

Mishap(f) ==
    /\ f \in Faults /\ faults < MaxFaults
    /\ faults' = faults + 1 /\ happened' = happened \cup {f}
Fault(f) == Mishap(f) /\ UNCHANGED replayed

\* BindingRuntimeState.save.  Who calls it swallows its exception, and state-<name>.json
\* keeps what the last good save has left there.
Save(state) ==
    \/ disk' = state /\ UNCHANGED <<faults, happened>>
    \/ UNCHANGED disk /\ Mishap("save")

Goto(p, l) == pc' = [pc EXCEPT ![p] = l]
Keep(p, locals) == job' = [job EXCEPT ![p] = locals]

Init ==
    /\ jsonl = << >> /\ quiet = FALSE /\ idle = TRUE
    /\ phase = "down"
    /\ \E chat \in Chats : mem = [offset |-> 0, card |-> NoCard, chat |-> chat]
    /\ disk = mem
    /\ turn = NoTurn /\ finalAt = NoOffset /\ sentFiles = {}
    /\ pc = [p \in Procs |-> "idle"] /\ job = [p \in Procs |-> NoJob]
    /\ cards = << >> /\ files = << >> /\ handed = {}
    /\ replayed = FALSE /\ faults = 0 /\ happened = {}

-----------------------------------------------------------------------------
(* Claude and time.                                                        *)

Write(k) ==
    /\ Len(jsonl) < MaxLines
    /\ jsonl' = Append(jsonl, k) /\ quiet' = FALSE
    /\ UNCHANGED <<idle, phase, disk, pipeline, pc, job, feishu, history>>

\* The file's mtime becomes more than 5 s old.
GoQuiet ==
    /\ ~quiet /\ quiet' = TRUE
    /\ UNCHANGED <<jsonl, idle, phase, disk, pipeline, pc, job, feishu, history>>

\* SETTLE_AFTER_SECONDS since the last ingestion, which is never before the write.
GoIdle ==
    /\ ~idle
    /\ quiet \/ Len(jsonl) > mem.offset
    /\ idle' = TRUE
    /\ UNCHANGED <<jsonl, quiet, phase, disk, pipeline, pc, job, feishu, history>>

-----------------------------------------------------------------------------
(* process_backlog: ticks, ingestion and the two flushes of a quiet tick.  *)

\* A watcher signal reaches the outbound loop.
Tick ==
    /\ phase = "up" /\ pc["loop"] = "idle" /\ Turnstile("loop")
    /\ Goto("loop", "tick")
    /\ UNCHANGED <<jsonl, quiet, idle, phase, disk, pipeline, job, feishu, history>>

\* process_backlog returns: the loop saves the state, start_binding (which has
\* run it once before there is a loop) and the replay do not.
Return(p) ==
    /\ Goto(p, "idle")
    /\ phase' = IF p = "loop" THEN "up" ELSE phase
    /\ IF p = "loop" /\ phase = "up"
         THEN Save(mem)
         ELSE UNCHANGED <<disk, faults, happened>>
    /\ UNCHANGED replayed

\* state.jsonl_offset moves to the size; the file of the state does not.
AdvanceAndSave(size) == mem' = [mem EXCEPT !.offset = size] /\ disk' = mem'  \* mutant
Advance(size) == mem' = [mem EXCEPT !.offset = size] /\ UNCHANGED disk

Ingest(p) ==
    /\ pc[p] = "tick" /\ Len(jsonl) > mem.offset
    /\ \E size \in mem.offset + 1 .. Len(jsonl) :
        /\ IF size = Len(jsonl) THEN UNCHANGED history ELSE Fault("gap")
        /\ Advance(size)
    /\ Keep(p, [NoJob EXCEPT !.next = mem.offset + 1, !.last = Len(jsonl)])
    /\ finalAt' = NoOffset /\ idle' = FALSE
    /\ Goto(p, "run")
    /\ UNCHANGED <<jsonl, quiet, phase, turn, sentFiles, feishu>>

\* Nothing new, and no turn, or its final card is out, or its frame is too recent.
NothingToDo(p) ==
    /\ pc[p] = "tick" /\ Len(jsonl) <= mem.offset
    /\ \/ ~turn.open
       \/ finalAt = mem.offset
       \/ ~idle
    /\ Return(p)
    /\ UNCHANGED <<jsonl, quiet, idle, pipeline, job, feishu>>

\* Nothing new: final flush once the turn has settled, else a spinner frame.
QuietFlush(p) ==
    /\ pc[p] = "tick" /\ Len(jsonl) <= mem.offset
    /\ turn.open /\ finalAt # mem.offset
    /\ Keep(p, [NoJob EXCEPT !.live = ~idle, !.after = IF idle THEN "settle" ELSE "anim"])
    /\ Goto(p, "flush")
    /\ UNCHANGED <<jsonl, quiet, idle, phase, disk, pipeline, feishu, history>>

-----------------------------------------------------------------------------
(* _handle_event over the lines of the batch.                              *)

UserLineUnflushed(p) ==  \* mutant: the turn the user line closes is not flushed
    /\ pc[p] = "run" /\ job[p].next <= job[p].last
    /\ jsonl[job[p].next] = "user"
    /\ Keep(p, [job[p] EXCEPT !.live = FALSE, !.after = "user"])
    /\ Goto(p, "after")
    /\ UNCHANGED <<jsonl, quiet, idle, phase, disk, pipeline, feishu, history>>

UserLine(p) ==
    /\ pc[p] = "run" /\ job[p].next <= job[p].last
    /\ jsonl[job[p].next] = "user"
    /\ Keep(p, [job[p] EXCEPT !.live = FALSE, !.after = "user"])
    /\ Goto(p, "flush")
    /\ UNCHANGED <<jsonl, quiet, idle, phase, disk, pipeline, feishu, history>>

OtherLine(p) ==
    LET line == job[p].next
        cur == IF turn.open THEN turn ELSE TurnFrom(0)
    IN  /\ pc[p] = "run" /\ line <= job[p].last
        /\ jsonl[line] # "user"
        /\ turn' = IF Renders(line) THEN [cur EXCEPT !.evs = Append(@, line)] ELSE cur
        /\ Keep(p, [job[p] EXCEPT !.next = line + 1])
        /\ UNCHANGED <<jsonl, quiet, idle, phase, disk, mem, finalAt, sentFiles,
                       pc, feishu, history>>

EndBatch(p) ==
    /\ pc[p] = "run" /\ job[p].next > job[p].last
    /\ Keep(p, [job[p] EXCEPT !.live = TRUE, !.after = "end"])
    /\ Goto(p, "flush")
    /\ UNCHANGED <<jsonl, quiet, idle, phase, disk, pipeline, feishu, history>>

\* What follows the flush: the new turn opens, or process_backlog returns.
NewTurnKeepsLines(line) ==  \* mutant
    /\ turn' = [turn EXCEPT !.open = TRUE, !.user = line]
    /\ mem' = [mem EXCEPT !.card = NoCard]
NewTurn(line) == turn' = TurnFrom(line) /\ mem' = [mem EXCEPT !.card = NoCard]

OpenTurn(p) ==
    /\ pc[p] = "after" /\ job[p].after = "user"
    /\ NewTurn(job[p].next)
    /\ Keep(p, [job[p] EXCEPT !.next = @ + 1])
    /\ Goto(p, "run")
    /\ UNCHANGED <<jsonl, quiet, idle, phase, disk, finalAt, sentFiles, feishu, history>>

MarkEveryFlush(p) == finalAt' = mem.offset  \* mutant
MarkFinal(p) == finalAt' = IF job[p].after = "settle" THEN mem.offset ELSE finalAt

FinishBacklog(p) ==
    /\ pc[p] = "after" /\ job[p].after # "user"
    /\ MarkFinal(p)
    /\ Keep(p, NoJob)
    /\ Return(p)
    /\ UNCHANGED <<jsonl, quiet, idle, mem, turn, sentFiles, feishu>>

-----------------------------------------------------------------------------
(* _flush_current_turn and _send_or_update_with_card.                      *)

FlushNothing(p) ==
    /\ pc[p] = "flush" /\ ~(turn.open /\ mem.chat)
    /\ Goto(p, "after")
    /\ UNCHANGED <<jsonl, quiet, idle, phase, disk, pipeline, job, feishu, history>>

\* Decide whether the card shows a spinner, then await the uploads of images.
Flush(p) ==
    /\ pc[p] = "flush" /\ turn.open /\ mem.chat
    /\ Keep(p, [job[p] EXCEPT !.live = @ /\ ~quiet])
    /\ Goto(p, "upload")
    /\ UNCHANGED <<jsonl, quiet, idle, phase, disk, pipeline, feishu, history>>

\* The card is the turn as it now is; without a spinner it may have no element.
Render(p) ==
    LET body == [turn |-> turn.user, evs |-> turn.evs, live |-> job[p].live]
    IN  /\ pc[p] = "upload" /\ Turnstile(p)
        /\ Keep(p, [job[p] EXCEPT !.body = body])
        /\ Goto(p, IF body.evs # << >> \/ body.live THEN "acquire" ELSE "after")
        /\ UNCHANGED <<jsonl, quiet, idle, phase, disk, pipeline, feishu, history>>

\* The token is granted: whether to send or to update, and the idempotency key
\* of a send, are decided now, from the turn and the card of now.
KeyByOffset == -mem.offset  \* mutant
IdempotencyKey == IF turn.user > 0 THEN turn.user ELSE -mem.offset

AlwaysSend == NoCard  \* mutant
Target == mem.card

Request(p) ==
    /\ pc[p] = "acquire" /\ Turnstile(p)
    /\ Keep(p, [job[p] EXCEPT !.card = Target, !.key = IdempotencyKey])
    /\ Goto(p, "request")
    /\ UNCHANGED <<jsonl, quiet, idle, phase, disk, pipeline, feishu, history>>

\* Feishu applies a send.  One whose key it knows posts nothing and is answered
\* with the message first sent under that key.
SameKey(k) == {c \in DOMAIN cards : cards[c].key = k}
Hand(evs) == handed' = handed \cup {evs[i] : i \in DOMAIN evs}

Send(p) ==
    LET b == job[p].body
        known == SameKey(job[p].key)
    IN  /\ pc[p] = "request" /\ job[p].card = NoCard
        /\ \/ /\ known = {}
              /\ cards' = Append(cards, [key |-> job[p].key, turn |-> b.turn,
                                         evs |-> b.evs, live |-> b.live])
              /\ Keep(p, [job[p] EXCEPT !.card = Len(cards) + 1])
           \/ /\ UNCHANGED cards
              /\ \E c \in known : Keep(p, [job[p] EXCEPT !.card = c])
        /\ Hand(b.evs)
        /\ Goto(p, "sent")
        /\ UNCHANGED <<jsonl, quiet, idle, phase, disk, pipeline, files, history>>

\* Feishu applies an update.
Update(p) ==
    LET b == job[p].body
        c == job[p].card
    IN  /\ pc[p] = "request" /\ c # NoCard
        /\ cards' = [cards EXCEPT ![c] = [key |-> @.key, turn |-> b.turn,
                                          evs |-> b.evs, live |-> b.live]]
        /\ Hand(b.evs)
        /\ Goto(p, "updated")
        /\ UNCHANGED <<jsonl, quiet, idle, phase, disk, pipeline, job, files, history>>

\* What a final flush goes on with: the files the turn of now names.
FilesOf(t) == {t.evs[i] : i \in {n \in DOMAIN t.evs : jsonl[t.evs[n]] = "file"}}

PushFiles(p) ==
    /\ Keep(p, [job[p] EXCEPT !.files = IF job[p].live THEN {} ELSE FilesOf(turn)])
    /\ Goto(p, "attach")

\* The answer arrives; only that of a send is kept.
ForgetCard(p) == UNCHANGED mem  \* mutant
KeepCard(p) ==
    mem' = IF pc[p] = "sent" THEN [mem EXCEPT !.card = job[p].card] ELSE mem

Reply(p) ==
    /\ pc[p] \in {"sent", "updated"} /\ Turnstile(p)
    /\ KeepCard(p)
    /\ PushFiles(p)
    /\ UNCHANGED <<jsonl, quiet, idle, phase, disk, turn, finalAt, sentFiles,
                   feishu, history>>

\* The request fails, or was applied and its answer is an error or late: the
\* exception is logged and the flush goes on as if it had succeeded.
RequestFails(p) ==
    /\ pc[p] \in {"request", "sent", "updated"} /\ Turnstile(p)
    /\ Fault("fail")
    /\ PushFiles(p)
    /\ UNCHANGED <<jsonl, quiet, idle, phase, disk, pipeline, feishu>>

-----------------------------------------------------------------------------
(* _send_attached_files: each path is checked, then uploaded and sent.     *)

PushFile(p) ==
    /\ pc[p] = "attach"
    /\ \E f \in job[p].files \ sentFiles :
        Keep(p, [job[p] EXCEPT !.file = f, !.files = @ \ {f}])
    /\ Goto(p, "push")
    /\ UNCHANGED <<jsonl, quiet, idle, phase, disk, pipeline, feishu, history>>

MarkNothing(f) == UNCHANGED sentFiles  \* mutant
MarkSent(f) == sentFiles' = sentFiles \cup {f}

\* Feishu has the file message, or has not: either way the path is marked sent.
FilePushed(p) ==
    /\ pc[p] = "push" /\ Turnstile(p)
    /\ \/ files' = Append(files, job[p].file) /\ UNCHANGED history
       \/ UNCHANGED files /\ Fault("fail")
    /\ MarkSent(job[p].file)
    /\ Goto(p, "attach")
    /\ UNCHANGED <<jsonl, quiet, idle, phase, disk, mem, turn, finalAt, job, cards, handed>>

FilesPushed(p) ==
    /\ pc[p] = "attach" /\ job[p].files \subseteq sentFiles
    /\ Goto(p, "after")
    /\ UNCHANGED <<jsonl, quiet, idle, phase, disk, pipeline, job, feishu, history>>

-----------------------------------------------------------------------------
(* The life of the pipeline.                                               *)

SaveLater == UNCHANGED <<disk, faults, happened>>  \* mutant
SaveChat == Save(mem')

\* The user's first message: the chat is known, and all of jsonl is replayed,
\* whether or not the chat could be saved.
Bootstrap ==
    /\ phase = "up" /\ ~mem.chat /\ pc["boot"] = "idle" /\ Turnstile("boot")
    /\ replayed' = TRUE
    /\ mem' = [offset |-> 0, card |-> NoCard, chat |-> TRUE]
    /\ SaveChat /\ turn' = NoTurn
    /\ Goto("boot", "tick")
    /\ UNCHANGED <<jsonl, quiet, idle, phase, finalAt, sentFiles, job, feishu>>

\* start_binding: a new pipeline over the saved state processes the backlog.
Start ==
    /\ phase = "down" /\ phase' = "starting"
    /\ Goto("loop", "tick")
    /\ UNCHANGED <<jsonl, quiet, idle, disk, pipeline, job, feishu, history>>

TasksLeft == UNCHANGED <<pc, job>>  \* mutant
NoTasks == pc' = [p \in Procs |-> "idle"] /\ job' = [p \in Procs |-> NoJob]

Down(state) ==
    /\ phase' = "down" /\ disk' = state /\ mem' = state /\ idle' = TRUE
    /\ turn' = NoTurn /\ finalAt' = NoOffset /\ sentFiles' = {}
    /\ NoTasks
    /\ UNCHANGED <<jsonl, quiet, feishu>>

\* The daemon dies: only what was saved survives.
Crash ==
    /\ phase # "down" /\ Fault("crash")
    /\ Down(disk)

\* stop_binding cancels both tasks at the await they are in, and the loop saves,
\* or fails to, in which case the stop leaves what a crash would.
Stop ==
    /\ phase = "up" /\ \A p \in Procs : pc[p] \notin Running
    /\ Fault("stop")
    /\ Down(mem) \/ ("save" \in Faults /\ Down(disk))

-----------------------------------------------------------------------------

Backlog(p) == Ingest(p) \/ NothingToDo(p) \/ QuietFlush(p) \/ FinishBacklog(p)
Handle(p) == UserLine(p) \/ OtherLine(p) \/ EndBatch(p) \/ OpenTurn(p)
FlushTurn(p) == FlushNothing(p) \/ Flush(p) \/ Render(p) \/ Request(p) \/ Reply(p)
Attach(p) == PushFile(p) \/ FilePushed(p) \/ FilesPushed(p)
Feishu(p) == Send(p) \/ Update(p)
Coroutine(p) == Backlog(p) \/ Handle(p) \/ FlushTurn(p) \/ Attach(p) \/ Feishu(p)

Time == GoQuiet \/ GoIdle
Environment == Time \/ \E k \in Kinds : Write(k)
Lifecycle == Tick \/ Bootstrap \/ Start \/ Crash \/ Stop

Next ==
    \/ Environment
    \/ Lifecycle
    \/ \E p \in Procs : Coroutine(p) \/ RequestFails(p)

Spec == Init /\ [][Next]_vars

\* The loop is ticked while the file is active, awaits are answered, time passes
\* and launchd restarts the daemon; Claude, the user and the faults owe nothing.
Fairness ==
    /\ \A p \in Procs : WF_vars(Coroutine(p))
    /\ WF_vars(Tick) /\ WF_vars(Start) /\ WF_vars(GoQuiet) /\ WF_vars(GoIdle)

FairSpec == Spec /\ Fairness

-----------------------------------------------------------------------------
(* Correctness.                                                            *)

Lines == 1 .. Len(jsonl)
RangeOf(s) == {s[i] : i \in DOMAIN s}
Rendering(n) == {i \in 1 .. n : Renders(i)}
OnCards == UNION {RangeOf(cards[c].evs) : c \in DOMAIN cards}

State == [offset : 0 .. MaxLines, card : Nat, chat : BOOLEAN]
Turn == [open : BOOLEAN, user : Nat, evs : Seq(Nat)]
Body == [turn : Nat, evs : Seq(Nat), live : BOOLEAN]
Job == [next : Nat, last : Nat, live : BOOLEAN, after : Afters, body : Body,
        key : Int, card : Nat, file : Nat, files : SUBSET Nat]
CardType == [key : Int, turn : Nat, evs : Seq(Nat), live : BOOLEAN]

CardsExist ==
    /\ mem.card <= Len(cards) /\ disk.card <= Len(cards)
    /\ \A p \in Procs : job[p].card <= Len(cards)
TasksBelong == phase = "down" => \A p \in Procs : pc[p] = "idle"

\* Every variable has its type, a card id names a card that exists, wherever it
\* is kept, and no task outlives its pipeline.
TypeOK ==
    /\ jsonl \in Seq(Kinds) /\ Len(jsonl) <= MaxLines
    /\ quiet \in BOOLEAN /\ idle \in BOOLEAN /\ phase \in {"down", "starting", "up"}
    /\ mem \in State /\ disk \in State
    /\ turn \in Turn /\ finalAt \in Int /\ sentFiles \subseteq Nat
    /\ pc \in [Procs -> PCs] /\ job \in [Procs -> Job]
    /\ cards \in Seq(CardType) /\ files \in Seq(Nat) /\ handed \subseteq Nat
    /\ replayed \in BOOLEAN /\ faults \in 0 .. MaxFaults /\ happened \subseteq Faults
    /\ CardsExist /\ TasksBelong

\* Read card after card, the chat shows the lines of the transcript in their
\* order and each of them once (offset, grouping and card id agree).
InTranscriptOrder ==
    \A c, d \in DOMAIN cards : \A i \in DOMAIN cards[c].evs, j \in DOMAIN cards[d].evs :
        c < d \/ (c = d /\ i < j) => cards[c].evs[i] < cards[d].evs[j]

\* Requests that fail, or whose answer is lost, never give a turn that a user
\* line opened a second card: the idempotency key is the same at every attempt.
OneCardPerUserTurn ==
    ~replayed => \A c, d \in DOMAIN cards :
        cards[c].turn = cards[d].turn /\ cards[c].turn # 0 => c = d

\* The loop is at rest on all of the transcript and has sent its final card.
Settled ==
    /\ phase = "up" /\ mem.chat /\ \A p \in Procs : pc[p] = "idle"
    /\ turn.open /\ finalAt = mem.offset /\ mem.offset = Len(jsonl)

\* When the pipeline is at rest nothing is missing from the chat, unless a
\* request failed: no flush is skipped that was the last chance of a line.
SettledIsComplete ==
    Settled /\ "fail" \notin happened => Rendering(Len(jsonl)) \subseteq OnCards

\* At rest, a card that shows lines of its turn no longer shows the spinner.
SettledIsFinal ==
    Settled /\ "fail" \notin happened =>
        \A c \in DOMAIN cards : cards[c].evs # << >> => ~cards[c].live

\* A file a turn names is pushed into the chat once, however many flushes see it.
FilesSentOnce == \A i, j \in DOMAIN files : files[i] = files[j] => i = j

\* One turn = one card: a card is never overwritten with another turn.
CardsKeepTheirTurn ==
    [][\A c \in DOMAIN cards : cards'[c].turn = cards[c].turn]_vars

\* A restart skips no line: what the saved offset has passed, Feishu has got.
NothingSkipped == disk.chat => Rendering(disk.offset) \subseteq handed

\* It holds across crashes, which find the state of the last whole batch, as long
\* as no request fails, no stop cuts a batch and no replay runs beside the loop.
CrashSkipsNothing ==
    happened \cap {"fail", "stop"} = {} /\ ~replayed => NothingSkipped

\* The chat is never written to before a restart would know of it, unless a save
\* has failed: bootstrap_with_chat_id saves the chat and replays in any case.
ChatSavedFirst == "save" \notin happened => (cards # << >> => disk.chat)

\* Once Claude falls silent, all it wrote gets into the chat and stays there,
\* and the spinner leaves every card that has lines to show.
CaughtUp ==
    /\ Rendering(Len(jsonl)) \subseteq OnCards
    /\ \A c \in DOMAIN cards : cards[c].evs # << >> => ~cards[c].live
EventuallyCaughtUp == <>[](mem.chat /\ happened = {} => CaughtUp)

\* The pipeline implements Mirror: a card is its turn and the set of its lines.
ShownCards == [c \in DOMAIN cards |-> [turn |-> cards[c].turn,
                                       lines |-> RangeOf(cards[c].evs),
                                       live |-> cards[c].live]]
Mirrored == INSTANCE Mirror WITH cards <- ShownCards
ImplementsMirror == Mirrored!Spec
=============================================================================
