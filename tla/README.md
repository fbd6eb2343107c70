# feishu-bot-claude: models, checks and proofs

feishu-bot-claude is a daemon that mirrors the terminal session of Claude Code
(or Codex) into a Feishu chat and types what the user writes in that chat into
the terminal. This directory holds TLA+ models of the daemon, the
configurations with which TLC checks them, and proofs that TLAPS checks. Paths
such as `outbound.py` are below `src/feishu_bot_claude/`; `design` is
`src/docs/superpowers/specs/2026-05-26-feishu-bot-claude-design.md`.

Run a check with `tlc -config X.cfg MCModule`, a proof with `tlapm XProofs.tla`.
`PROJECT.json` lists the runs, the theorems, the source lines of every
definition, the hazards, and for every checked property a mutation of the model
that breaks it.

## 1. The system

The daemon is one asyncio thread: a coroutine runs until it awaits something
that suspends. Everything below is interleaving at awaits, plus what moves
outside of the thread: Claude appending to the transcript, Feishu applying or
losing requests, lark-cli and tmux, the user, other processes, crashes.

| Part | State it keeps | Operations | What makes it correct |
|---|---|---|---|
| Outbound pipeline (`daemon/outbound.py`) | current turn, final-flush marker, pushed files | `process_backlog`, `_handle_event`, `_flush_current_turn`, `_send_or_update_with_card`, `_send_attached_files`, `bootstrap_with_chat_id` | one turn is one card; the card ends complete and without spinner; nothing lost or repeated |
| Binding runtime state (`daemon/state.py`) | offset, card id, chat id, in memory and in `state-<name>.json` | load, save, set/reset card | the saved offset never passes what has been sent; the chat is saved before it is used, if saving works |
| Token bucket (`daemon/ratelimit.py`) | tokens, time of last refill | `acquire`, `try_acquire` | rate bound over every interval, no polling |
| Inbound pipeline (`daemon/inbound.py`) | ring of event ids (memory and `seen-<name>.json`), is the chat known | `_handle` and the handlers of each kind of event | an event is typed once and whole; the first message alone is swallowed |
| Event source (`daemon/feishu.py`, `daemon/feishu_ws.py`) | a child process, or a WebSocket client with a thread | `consume_events` | events keep coming while the binding runs |
| Orchestrator (`daemon/orchestrator.py`) | `_running`, markers `running-<name>` | `start_binding`, `stop_binding`, `restore_from_disk`, `stop_all` | every task that runs is registered under its name; a restart restores what ran |
| Binding store (`config/binding.py`) | cache, known names, `bindings.toml` | `add`, `remove`, merge on save | names and directories bound once; no process loses what another added |
| Handlers (`daemon/handlers.py`) with the OAuth flow (`daemon/auth.py`) | `pending_binds`, QR future, background task | bind, unbind, start, stop, list, ping, status | one flow per name; no flow hangs; a name is free again when its flow ends |
| Watcher (`daemon/jsonl_watcher.py`) | size and time of the last change | two producers of ticks | a tick comes for every change and for the final flush |
| Rendering (`rendering/*`) | none; the caches of uploads are the outbound pipeline's | turn to card, images, files, mermaid | within the limits of a card, and honest about what they cut off |
| Control server, protocol, dispatcher (`daemon/server.py`, `proto.py`, `daemon/dispatcher.py`) | a Unix socket | one request, a stream of events, done | one verdict per request, a true one, then done |
| Command line (`cli.py`) | whether a verdict was a failure | `run_op`, exit code | every command ends, and its exit code is the verdict |
| Daemon entry, tmux wrapper, keychain, menu push, scripts | — | wiring and calls of external tools | — |

How they interact: the command line talks to the control server, whose handlers
call the orchestrator and the store. `start_binding` makes an outbound and an
inbound pipeline that share one `BindingRuntimeState`, one token bucket and one
Feishu client; it processes the backlog once, then starts two tasks. The
outbound loop waits for ticks of the watcher. The inbound loop reads events; the
first message of the chat calls `bootstrap_with_chat_id` of the *outbound*
pipeline from the *inbound* task. `restore_from_disk` runs while the server
already answers, so that a stop may be answered before its binding is restored.

What is hard: the replay and the outbound loop run on one pipeline without a
lock; the offset moves before the lines are sent; requests fail after they have
been applied; `start_binding` and `stop_binding` await between check and update;
the background task of a bind outlives its request; caches of the store merge;
events are delivered at least once; a message is typed in several calls with an
await after each; ticks come only for a while after a write, and diagrams are drawn
in the thread that produces them; a read may end inside a line, and `splitlines` cut
one; saves and markers may fail after what they record has happened; the socket belongs to
whoever bound it last. `PROJECT.json` lists these hazards at their lines, each with
the properties that would catch it.

## 2. The modules

| Module | Models | Variables that are code state | History and environment |
|---|---|---|---|
| `Mirror` | the promise of the outbound half: cards in transcript order, only the newest changes, and only grows | `jsonl`, `cards` | |
| `Outbound` | outbound pipeline, runtime state, both coroutines that drive it, Feishu's cards | `mem` (`BindingRuntimeState`), `disk` (its file), `turn` (`_current_turn`), `finalAt`, `sentFiles`, `pc`/`job` (where the outbound loop and the replay are, and their locals) | `jsonl`, `quiet`, `idle`, `cards`, `files`; `handed`, `replayed`, `happened` |
| `TokenBucket` | `TokenBucket` and its callers | `tokens`, `lastRefill`, `state`, `wake` | `now`; `window`, `granted`, `robbed` |
| `Inbound` | inbound pipeline and event source | `seen`/`seenDisk`, `chat`/`chatDisk`, `queue`, `connected`, `orphans`, `pc`, `step` | `kind`, `delivered`, `again`, `pane`; `accepted`, `swallowed`, `happened` |
| `Orchestrator` | registry, markers, requests, restore, shutdown | `store`, `running`, `marker`, `groups` (what `start_binding` makes, with its tasks), `job` (what each request awaits), `up`, `todo` | `sessions`; `overlapped`, `excused` |
| `Bind` | bind and unbind, the store's instances in several processes | `disk`, `cache`, `binds` (handler, task, QR future), `pending` | `removed` |
| `Watcher` | both producers of ticks, the queue, and when the outbound loop flushes | `lastSize`, `changed`, `alive`, `queue`, `offset`, `saved`, `open`, `final`, `shows` (the turn renders something), `chat`, `newAge`, `animAge`, `pc`, `job`, `watching` | `size`, `written`, `notice`, `card`, `held`, `polled`, `restarts`; `frozen` |
| `Card` | `render_turn_to_card`: elements, tools, images, diagrams, caps, and what is collected for upload (operators, no state) | | |
| `Transcript` | reads that end anywhere, parsing, the upload caches, and the card `Card` makes of the turn | `offset`, `handled` (the lines of `_current_turn`), `due`, `keys`/`failed`, `drawn`/`undrawn`, `style` | `lines`, `file`, `card`; `end`, `split`, `doubled`, `dropped` |
| `Control` | command lines, the socket, `_handle_client`, every handler with its events | `path`, `bound`, `restore`, `running`, `pending`, `handler`, `out`, `flow`; `pc`, `exit` of a command | `alive`, `file`, `sent`; `cut`, `overlapped`, `unmarked`, `doubled` |

`MCOutbound`, `MCTokenBucket`, `MCInbound`, `MCOrchestrator`, `MCBind`, `MCWatcher`,
`MCTranscript` and `MCControl` are the roots of the runs; the proofs about a module `M`
are in `MProofs` (all of the modules above but `Mirror` and `Card`, whose operators are
treated in `OutboundProofs` and `TranscriptProofs`).

**Steps.** An action is a stretch of a handler between two awaits; where a
stretch is long (`process_backlog` handles a batch line by line) it is split into
several actions, and `Turnstile` in `Outbound` lets no other coroutine move in
between. A crash may come anywhere, a stop only at an await, as in asyncio. A
request to Feishu is two steps: Feishu applies it (`Send`, `Update`), and the
answer arrives (`Reply`); `RequestFails` is an exception before or after it was
applied. Feishu's de-duplication is `SameKey`: a send whose idempotency key it
knows posts nothing and answers with the earlier message. `Contended = FALSE`
makes uploads and token waits awaits that return at once, which is what asyncio
does with an await that has nothing to wait for.

**Data.** A line of the transcript is one of four kinds: it opens a turn, renders,
renders and names a file, or renders nothing. A card is the turn, the lines it
shows and whether it has a spinner. An event of the chat is one of thirteen
kinds, distinguished by the calls of tmux they become and by how an exception is
handled. Times are two facts: the file has been quiet for 5 s, the turn idle for
6 s (which cannot be before the bytes were read). A binding is a name and a
directory, with one transcript per directory: the guess of the newest transcript
is left out.

**The two halves of a binding.** `Outbound` contains the replay as a second
coroutine that `Bootstrap` starts at any moment; `Inbound` contains it as an await
that ends or raises. The only state they share is the chat id and the replay.
`Orchestrator` contains neither pipeline: a group has tasks that live, are
cancelled and end.

**Three views of the outbound half.** `Outbound` has every await and every fault, and of
time only two facts: that the file is quiet and that the turn is idle. `Watcher` has the
clock, with ages that stop counting past their limits and one unit of time for one
poll, turns that render something or nothing, and no failing requests; the chat is known or
not throughout a run. `Transcript` has the bytes and what is on the card, and neither time
nor turns. Each leaves out what the other two are about.

**Lines in `Transcript`.** A line is written in one piece or two. `str.splitlines`
(outbound.py:127) cuts not only at line ends but at every Unicode separator, three of which
(U+2028, U+2029, U+0085) a JSON string may hold as they are. The field `cut` of a line
says what becomes of it: nothing; pieces that are all malformed, which are skipped; or a
piece that reads as a JSON scalar, on which `JsonlEvent.from_dict` raises, in the first or
the second of the line's two writes. The lines after it in that batch are behind the offset and are
never handled (`dropped`), and the flush of the batch does not happen (`due` is "later").

**Saves in `Outbound`.** `Save` writes the state or leaves what was there: the exception is
swallowed by `bootstrap_with_chat_id` (outbound.py:391-394) and by the loop
(orchestrator.py:302-306). Where a run's `Faults` have no "save", saves succeed.

**Time in `Watcher`.** Time passes when no coroutine is due, while a flush awaits Feishu,
and while synchronous code holds the event loop: `Drawn` is the pipeline's own diagram,
`HoldLoop` that of another binding. A flush may take any time; a held loop at most
`MaxDraw` or `MaxHold`.

**The handlers in `Control`** are the awaits and outcomes of the handlers that `Orchestrator` and
`Bind` model from inside; there is one binding, and a start or a stop is one await that
ends, or raises before or after the binding is registered or removed: the marker is written
(orchestrator.py:209) after the registration (:207) and removed after the tasks have ended
(:227). A daemon restores its binding in steps of its own, while it serves. In exchange there are several daemons, deaths at every event,
and the two ends of the connection.

## 3. The runs

States are the distinct states TLC finds.

| Run | Instance | States | Question |
|---|---|---|---|
| `outbound_turns` | all transcripts of up to 4 lines of the 4 kinds, chat known, no faults, uploads and token waits suspend; fairness | 1.2 M | grouping, cards, final state, `Mirror`, catching up |
| `outbound_faults` | up to 3 lines; chat known or found by a replay; any 2 of: failed or lost request, crash, stop, failing save, gap between stat and read | 12.8 M | what still holds when things go wrong |
| `token_bucket` | 2 callers, 2 tokens of 3 parts, 2 parts a tick, 7 ticks | 56 k | rate and sleep |
| `inbound` | 3 events of 4 kinds, ring of 2, either event source, one redelivery, one of: failure, crash, stop, end of source; fairness | 1.8 M | duplicates, bootstrap, the terminal's input |
| `orchestrator` | 2 names, 2 directories, 1 client and the daemon, 2 groups; fairness | 1.0 M | registry, markers, restore, shutdown |
| `bind` | 2 processes, 2 names, 2 directories, 2 binds; fairness | 0.6 M | merges, pending binds, hung flows |
| `watcher` | 2 chunks; file fresh for 1, settle 2, window 4, frames 1 apart; own diagrams of up to 5, others' of 3; a restart; fairness | 1.4 M | the last tick comes late enough |
| `control` | 2 commands, 2 daemons; start, stop, bind, and one of the two also ping and unbind; fairness | 0.9 M | verdicts, exit codes, ends |
| `transcript` | 3 lines of 7 kinds, 2 of them cut, 1 line torn, 2 images, 1 diagram, 2 styles; 6 elements, 10 bytes | 0.8 M | reads, upload caches, caps |
| `outbound_replay_race`, `orchestrator_double_start`, `watcher_frozen` | the smallest instance that shows it | — | a statement of the documentation the code does not keep |

### What the passing runs show

*`outbound_turns`.* Read card after card, the chat shows the transcript in order
and each line once (`InTranscriptOrder`); when the pipeline rests
after its final flush nothing is missing (`SettledIsComplete`) and cards with lines
have no spinner (`SettledIsFinal`); a file is pushed once however many final flushes
name it (`FilesSentOnce`). The pipeline implements `Mirror` under the mapping
`ShownCards` (`ImplementsMirror`): no turn has two cards, a card keeps its turn and never
loses a line. Under fairness the chat catches up with a transcript that has stopped
growing (`EventuallyCaughtUp`). Four lines give two full turns with two lines in
one of them, or an orphan turn followed by a turn, in every split into batches.

*`outbound_faults`.* A turn opened by a user line never gets a second card, whatever
requests fail after being applied and whoever restarts (`OneCardPerUserTurn`): the
idempotency key is that of the user line. A turn without a user line has a key that
contains the offset, so a retry of its first card *may* give it a second one; the
property says so by excluding turn 0. A crash skips no line (`CrashSkipsNothing`): the
file on disk is that of the last whole batch. The chat is on disk before the first card is sent, unless a save has
failed (`ChatSavedFirst`): `bootstrap_with_chat_id` saves before it replays, but swallows an
exception of the save and replays all the same. With such a failure cards may be in a chat
that the disk does not name until the loop saves again; a crash before that makes the next
message a bootstrap message, and the transcript is replayed into new cards.
Two faults of any kind at any step include a lost
answer followed by a crash and two lost answers in one turn; three lines are a turn
closed by the next one.

*`token_bucket`.* In any interval at most `Capacity` tokens plus what the rate adds are
taken (`RateBound`); the computed sleep suffices unless another caller took the token
(`NapSuffices`). The interval may start at any state, so the bound is about every
interval of every run of at most 7 ticks.

*`inbound`.* An event delivered again passes the ring only if at least `Ring` others
passed in between (`DuplicatesDropped`), across stops and crashes, unless writing the
ring failed; only one message is ever swallowed as the bootstrap message
(`OneBootstrap`); without a stop or crash a new message is appended to the remains of a
failed one only after a yes/no shortcut, whose exception is caught on the spot
(`RemainsAreSafe`); when nothing goes wrong every event is typed in full
(`EventuallyForwarded`). Three events and a ring of two are the least with which an
event can be evicted and come back. The four kinds are the text with an image
(download, line, Enter), the yes/no click (caught exceptions), the card command
(no keystrokes) and the skipped message.

*`orchestrator`.* A group whose tasks run is the registered one of its name
(`LiveIsRegistered`), which is what a stop of the name or a shutdown goes by as long as the store
knows the name (after an unbind it does not, see section 4), and the marker of a running binding names its transcript
(`RunningIsMarked`), in both cases unless two requests about that name were in progress
at once; when the restore has ended every binding with a live session runs, unless
a client, the session or an exception intervened (`RestoreIsComplete`); a shutdown ends
(`ShutdownEnds`). The instance lets the client's request overlap with the daemon's own
start, stop or restore of the same name; with one name, two clients and three groups
the same properties were checked as well. Markers can be written here; `Control` has the start
whose marker cannot.

*`bind`.* What one process added, no later save of another process with an older
cache takes out (`NoAddIsLost`); a directory is bound twice only if two processes
bound it or one of the names was unbound (`OneDirEach`); neither the file nor a cache
has a name twice (`TypeOK`); an entry of `pending_binds` belongs to a bind whose task has
not ended (`PendingIsAlive`), so a name is never blocked for good; a lark-cli that shows
no QR code is ended (`NoHungBind`). One process with three binds was checked as well.

*`watcher`.* The window in which ticks come is one second longer than the settle time
(jsonl_watcher.py:89-91), and the final flush is decided by another clock, that of
the consumer. `RestIsFinal`: whenever no further tick will come, the whole file has been
read, and the card of an open turn shows all of it without a spinner, although flushes take any time and
the own diagrams of the binding may hold the loop for longer than the window; a tick is
taken after the flush that delayed it. `EventuallyFinal`: the card does get there, also when
watchfiles has crashed. Both have the conditions the code has: the chat is known
(outbound.py:168-170), the turn renders something (:203-204; section 4 has the other turns), and no *other* code has held the loop from the last frame to the end of
the window (`frozen`; `watcher_frozen` shows that case). With others' diagrams of up to 3
units in a window of 4 the instance has both outcomes of a held loop: those the window
survives and those it does not. The freshness of the file, the settle time and the window
keep their order, with frames closer together than any of them. Neither property says anything of a turn the daemon
has forgotten: after a restart the spinner of a card that was spinning stays.

*`control`.* A request that is served to its end gets one verdict, then done, whatever
raises in its handler (`OneVerdict`). What the verdict says is true at that moment
(`VerdictsHold`). Who is refused leaves no entry of `pending_binds`, and no running
binding unless the marker alone could not be written: then the client reads "server
crash" and the binding runs (`unmarked`). After a stop the binding runs nowhere and nothing is about
to start it, unless the stop was served beside another request or before the restore was
over (`overlapped`), a rival daemon is alive, or its daemon has started the binding twice
(`doubled`: the first group is in nobody's registry, see finding 2). The exit
code is the verdict, except that a stream cut off before its verdict counts as success
(`ExitCodeHonest` excludes what a death cut off; see section 4). A command ends even if its daemon hangs in an OAuth flow, loses its socket
to a rival or dies (`EveryRequestEnds`). Two commands can overlap in every handler, with a
restore beside them; two daemons are a rival or a restart. The commands are
interchangeable, so that one of them need not make every request: of all pairs only
two that both ping or unbind are left out, which answer without an await.

*`transcript`.* A line behind the offset was handled, and once (`LinesHandledOnce`), with
four exceptions, each a way the code loses or repeats a line: the offset came to rest inside
it (`split`), `splitlines` cut it, a line it cut raised before it in the same batch
(`dropped`), or bytes were read twice (`doubled`). With four lines, two of them torn, cut in
each of the four ways, it was checked as well. The card shows the longest beginning of its
turn that both caps allow, and one note if something is missing (`CapsAreHonest`); the
number in the note is exact unless the byte cap cut off the note of the element cap. No
flush takes anything from a card without such a note, although diagrams replace their
source and images come late (`NothingVanishes`). Six elements and ten bytes are few enough
for three lines to exceed either cap or both.

### Bounds

`MaxLines`, `MaxEvents`, `MaxBinds`, `MaxTime`, `MaxAgain`, `MaxFaults`, `MaxSize`,
`MaxRestarts`, `MaxDraw`, `MaxHold`, `MaxDaemons`, `MaxTorn` and the finite sets are bounds of the
instances; `Ring` is 1024 in the code, `Rate` and `Capacity` 45/s and 50, `MaxElements` 40,
`Budget` 28000, `CharLimit` 4000. `Watcher`'s times are 5, 6, 1 and 0.1 s in the code, where a poll
is 0.033 s. The theorems of section 5 hold for all values of these.

### Fairness

* `Outbound`: every coroutine that can step does (`WF(Coroutine)`): asyncio schedules
  fairly, requests have timeouts, so each is answered or fails. `WF(Tick)`: the watcher
  polls while the file is active and for 7 s after. `WF(Start)`: launchd restarts
  the daemon and it restores its bindings. `WF(GoQuiet)`, `WF(GoIdle)`: time passes.
  Claude, the user and the faults have none.
* `Inbound`: the pipeline's steps, the start after a stop, and for every event at least
  one delivery to the running client, which is what Feishu promises.
* `Orchestrator`: the daemon's coroutine goes through `stop_all`; cancelled tasks end;
  the handler that awaits them goes on. Nothing is assumed of starts.
* `Bind`: the 30 s of a handler elapse; a cancelled task ends (`auth_bot_new_stream`
  kills the child).

* `Watcher`: time passes, the poll task runs (`WF(Poll)`), a subprocess ends
  (`WF(ReleaseLoop)`), and the event loop runs what is due in turn: `SF(Backlog)` and
  `SF(FlushSteps)`, strong because other bindings may hold the loop again and again
  without any of them keeping a coroutine that is ready from its turn. Nothing is
  assumed of watchfiles.
* `Control`: a command reads what comes; a handler goes on, since cancelled tasks end,
  requests have timeouts and so has the wait for a QR code. Nothing is assumed of the
  OAuth flow, the user, starts and deaths of daemons.

`CHECK_DEADLOCK FALSE` is set for `Inbound.cfg` (when the event source of a WebSocket
client has ended and every event is delivered, nothing can happen any more), `Control.cfg`
(every command is run once) and `Transcript.cfg` (the transcript is bounded and its
last flush repeats nothing new).

## 4. Where code and documents disagree

Each of the first three is a run whose property TLC finds violated.

1. `outbound_replay_race` / `CardsKeepTheirTurn`. design:184 "one turn = one updatable
   card"; :247 has events that arrive during the replay wait. `bootstrap_with_chat_id`
   (outbound.py:371-395) runs `process_backlog` in the inbound task while the outbound
   loop runs it too. One of them opens a turn and resets the card id while the other
   awaits its answer; the card id stored then (outbound.py:355) is that of the old turn,
   and the next flush overwrites the old card with the new turn.
2. `orchestrator_double_start` / `OneGroupEach`. design:614 answers the second of two starts
   with "already running". The check (orchestrator.py:66) and the registration (:207)
   are separated by the await of the backlog (:194).
3. `watcher_frozen` / `SpinnerLeaves`. jsonl_watcher.py:28-30 promises one more tick after
   the settle time, and :39 a poll that "always works". A final flush of another binding
   draws its diagrams by `subprocess.run` and `urlopen` in the thread of the event loop
   (outbound.py:278, mermaid.py:69 and :109; 15 s and 10 s at most). When the poll task runs
   again the window of 7 s has closed; the card keeps its spinner until the file grows.

Seen while modelling, without a run of their own:

* design:547 has the offset written after each event. outbound.py:121 moves it before the
  first line of the batch, and a stopped loop saves it (orchestrator.py:304-306): the rest
  of the batch is never sent. `CrashSkipsNothing` excludes a stop for this reason.
* A turn with nothing to render gets a card with a spinner alone; its final flush renders no
  element and returns (outbound.py:203-204), and the spinner stays, although :159-160 has the turn
  "flushed one final time WITHOUT the pacer". `SettledIsFinal`, `RestIsFinal` and `EventuallyFinal`
  are about turns that render something for this reason.
* outbound.py:387-389 has the chat persisted "immediately so a crash during replay still leaves
  the binding bootstrapped"; :391-394 swallows a failing save and replays all the same.
* `start_binding` registers a binding (orchestrator.py:207) before it writes the marker (:209). If
  that raises, the client reads "server crash" although the binding runs. A marker that cannot be
  removed (:227) makes a stop that has happened fail in the same way.
* A stop that is answered while `restore_from_disk` is on its way (__main__.py:68-79) does not
  keep the binding from being restored afterwards.
* `splitlines` (outbound.py:127) cuts a line at U+2028, U+2029 and U+0085, which JSON allows in a
  string: its pieces are skipped as malformed. Should a piece in the middle read as a JSON
  scalar, `from_dict` raises (turn.py:29), and the rest of the batch is lost.
* design:332 and :527 restart the event subprocess after 1 s. When it exits, `_inbound_loop`
  returns (orchestrator.py:308-313) and the binding stays registered.
  `EventuallyForwarded` excludes it.
* A daemon that is stopped or dies while a card spins leaves the spinner on it for good: the
  new pipeline has no turn, and its process_backlog returns (outbound.py:100-101).
* outbound.py:109-114 reckons at most 10 updates a second per binding; only frames of
  the spinner are throttled, and a batch may be flushed at every poll.
* cli.py:114 says "0 on ok, 1 on failure". A stream that ends before any verdict gives 0
  (:115, :133). A socket that is missing raises FileNotFoundError, where :31 announces
  ConnectionRefusedError, and ends in a traceback.
* unbind removes the binding before it deletes the secret (handlers.py:327-328); if that
  raises, as on a machine without the `security` tool, the client reads "server crash" and the
  binding is gone. `security` is called without a timeout and holds the event loop.
* A second daemon takes the socket over (server.py:143-144), and the first goes on mirroring:
  a stop reaches the tasks of one of them only.
* turn.py:185 says 40 elements at most. 38, the note, the tokens and the spinner are 41.
  The note of the byte cap may replace that of the element cap, and then tells of
  too few. A single element may exceed the byte budget: the input of a pending call is
  not truncated in the style "full" (tools.py:125-127). tools.py:93 calls 4000 characters
  "safe under 8KB even with multibyte"; in UTF-8, 4000 Chinese characters are 12 KB.
* The caps drop the end of a long turn, so that its newest lines do not show while it
  grows; a late result or diagram can push out elements that were shown, with a note.
* Diagrams inside results of tools are drawn and uploaded, although no card shows them; an
  image or diagram that failed once is not tried again, though its file may exist by then.
* A read that ends inside a line (outbound.py:118-136) loses that line when the size was
  taken inside it too: both halves are malformed. `LinesHandledOnce` excludes it (`split`).
* After a restart in the middle of a turn the tail of the turn is rendered alone and
  overwrites its card (`_current_turn` is not saved, the card id is). For the same reason
  `ImplementsMirror` and `FilesSentOnce` are checked without restarts.
* outbound.py:91 takes the size of the file, :118-121 read to its end and set the offset
  to that size: bytes written in between are handled now and again by the next tick
  (`Ingest` with the fault `gap`). jsonl_watcher.py:41-43 calls the consumer idempotent.
* A crash during the replay loses nothing only if the loop had not yet saved an
  offset past it (outbound.py:387-389); `CrashSkipsNothing` excludes replays.
* A send folded by Feishu's de-duplication leaves the content of the first send on the
  card until the next update.
* design:80 speaks of a shared rate-limit bucket; every binding makes its own
  (orchestrator.py:81). A bucket of 45/s with capacity 50 lets 95 requests pass in one
  second.
* `BackoffPolicy` and `try_acquire` are never called; the ring of event ids is a FIFO
  where the README calls it an LRU.
* inbound.py:44-45 says a yes/no is typed "atomically"; there is an await of 0.2 s between
  the letter and Enter. An exception in between leaves the letter in the input box
  and the loop goes on.
* feishu_ws.py:35 says one client per app; a stop leaves the thread connected, so
  after a start there are two, and Feishu may push an event to the one nobody reads.
  `EventuallyForwarded` therefore assumes no stop.
* unbind (handlers.py:316-330) neither stops the tasks of a running binding nor removes
  its state and marker; after it, stop answers "no binding" and a later bind of
  the name reads the old offset and chat.
* orchestrator.py:238 says markers are not relied on; :266-275 still take the transcript
  from them.
* The timeout of a bind pops `pending_binds` by name (handlers.py:306): when its own
  task has failed early the entry may be that of a later bind, and two OAuth flows of one
  name can then run. handlers.py:298 tells the client that the binding will be saved; if
  `store.add` then refuses, nobody is told.
* binding.py:176 says conflicting content of one name raises. It does for a name new to
  this process; a name it knows is overwritten with its cached content, and an unbind is
  undone by the next save of a process that still has the binding in its cache.
  Nothing stops two processes from binding one directory. `OneDirEach` and
  `NoAddIsLost` state exactly what is left.

## 5. The proofs

TLAPS checks the following for every value of the constants.

**`TokenBucketProofs`** (from `UnitAssumption`, `RateAssumption`, `CapacityAssumption`,
`TimeAssumption`). `TypeCorrect`; `RateIsBounded`: `RateBound` is not inductive, since a step
that takes a token must know that the bucket held it. `Budget` adds what is left in
the bucket (after the refill that is due) to what was taken, and is inductive: a tick
raises both sides by `Rate` at most, a grant moves one token from one summand to the
other. `NapIsEnough` follows from an invariant on the deficit a sleeper had seen.

**`OutboundProofs`**. `TypeCorrect` includes that a card id names an existing card
wherever it is kept, and that no task outlives its pipeline. `ChatIsSaved` needs
`ChatInv`: a coroutine that is past the check of the chat inside a flush implies that the memory
knows the chat, and as long as no save has failed so does any card, and memory and file agree on
the chat. `CardPerUserTurn` needs
`KeyInv`: as long as nothing was replayed only the loop runs, the request a coroutine
makes is one for the turn that is open (`FlushOfTurn`: body, key and card belong to the
current user line), and each card of a user turn carries that turn's key
(`KeysIdentify`). A second card of a user turn would need a send with that key, which
Feishu answers with the first card.

The other theorems are about the loop alone, and each one's condition is the
weakest the code allows:

* `CrashesSkipNothing` has none of its own (the property excludes replays, stops and
  failed requests, since the code loses lines in each of these, see section 4). `HandInv`: what the
  *saved* offset has passed Feishu has got, and what the offset in memory has passed it
  has got too, or it waits in the open turn or in the rest of the batch. The save comes after
  the batch, so the two meet.
* `FilesAreSentOnce`: without a replay, a crash or a stop, but whatever requests fail
  (`FilesInv`: what is in the chat is
  marked, and what is being pushed is not).
* `CardsKeep`, and `OneTurnOneCard` for instances whose chat is known at the start and
  whose pipeline is not restarted: a card keeps its turn. The run
  `outbound_replay_race` is the same property where a replay comes in.
* `ChatIsInOrder`, `RestIsComplete`, `RestIsWithoutSpinner`: as long as nothing failed and
  nothing was replayed (`Undisturbed`), whatever the transcript, its length and its
  batches. `TurnInv`: the open turn is what follows the last user line handled; `FlushInv`: a
  flush carries that turn; `ChatInOrder`: cards are in the order of their turns, and the newest
  one alone belongs to the open turn; `ShownInv`: what was handled is on a card or waits
  for the flush in hand; `EndedInv`: the cards of turns that are over have no spinner.
* `MirrorIsImplemented`: from the same invariants, for instances without faults whose chat is
  known at the start. A line that is written, a send and an update map to `Write`, `Post` and
  `Extend`; every other step changes neither the transcript nor a card.

**`OrchestratorProofs`** (from `AbsentAssumption`, `NamesAssumption`, `ProcsAssumption`).
`IInv` is `TypeOK`, `LiveIsRegistered`, `RunningIsMarked` and three strengthenings. `Apart`: no two
requests await the same group. `OverlapsKnown`: two requests in progress about one
name, or one about a registered name, have put the name into `overlapped`; this is what
makes the exception in the two properties exact, for it is established where the
second request begins and used where the first one ends. `Restoring`: a binding nothing
has happened to runs, is being started, or is still in `todo`. There is one lemma per
request half (`StartKeeps`, `RegisterKeeps`, `ReleaseKeeps`, `StopKeeps`, `DieKeeps`), one per group of
actions, then `Inductive` and the four theorems.

**`BindProofs`** (from `BoundAssumption`, `AbsentAssumption`). `IInv` is `TypeOK`, `PendingIsAlive`,
`NoAddIsLost`, `OneDirEach` and three facts about caches. `CachesAgree`: what a cache holds is in
the file unless its name was unbound. `AddersKnow`: who added a binding has it in its
cache. `EverybodyKnows`: what nobody added was there at the start, so every cache has it.
They are needed because a save writes what the cache says of the names it knew:
`NoAddIsLost` survives another's save only because a name that process knew is in its
cache with the same content, and `OneDirEach` only because the adder would have seen
the directory.

**`InboundProofs`**. `RingInv`: as long as saving the ring succeeds, the ring in memory is
the ring on disk and holds the last `Ring` events that were accepted: an event that is in
the ring was accepted at most `Ring` events ago, which is `DuplicatesAreDropped`, across
stops and crashes. `ChatInv`: a swallowed message implies that memory and disk know the
chat, so `BootstrapIsOne`. `BoxInv`: what stands in the input box without Enter is being typed
by the newest event, or the loop is dead, or it is what a shortcut left whose exception was
caught (`RemainsSafe`). All three hold for every number of events and faults.

**`WatcherProofs`** (from `TimesAssumption`, `BoundsAssumption`, and `WindowAssumption`: a poll that
comes one unit after the last frame finds the window open, which 5 + 0.1 and 7 s give).
`RestShowsAll` has no hypothesis about how long other bindings hold the loop: that is in the
property, as `frozen`, which is set when the loop is held past the end of the window and
cleared when the file grows. Own diagrams may take any time. `TickInv` is the argument: if a card of a turn
that renders something has a spinner, or is about to be shown with one, and no tick is in
the queue, then the window is still open or the loop was frozen, for its last live flush began while
the file was fresh (`AgeInv`), and the poll task misses no more ticks than the loop is held for.
`CardInv` has what a card shows of a turn that renders something, and `PlaceInv` what the place of
the loop tells of the turn, as that a flush that is past its returns has a chat.

**`ControlProofs`** (from `ClientsAssumption`: a command is not one of the small numbers that
stand for daemons). `StreamInv`: what was sent to a client, followed by what its handler has
yielded, begins one of the four streams a request can be answered with, as far as the place of the
handler says. `VerdictIsOne` reads off the end of it, and so does `ExitIsHonest`, which needs
to know where the client is as well (`PlaceInv`). `VerdictsAreTrue` is an action property:
`OwnerInv` says who is registered and who has an entry in `pending_binds`, `StopInv` that a stop served
alone, after the restore, waits beside nobody who could start anything. Both outlast a start whose
marker raises and a restore that is on its way. TLC finds a counterexample to the property
without the exception `unmarked`, and without either half of `overlapped` (another request, the
restore). `doubled` is of another kind: after a double start the registry no longer stands for
all that mirrors, so the property, which reads the registry, claims nothing then.

**`TranscriptProofs`** (from `CapsAssumption`, `BoundsAssumption`, `LinesAssumption`: what a
line says is well formed). `EachLineOnce`: writes are in the order of their lines, two
pieces side by side (`WritesInOrder`); what was read was handled unless the offset came to rest inside
it, `splitlines` cut it or its batch had raised before it, and while no byte was read twice the handled lines rise (`ReadsInOrder`).
`CapsHold`: a card is a beginning of its turn's elements, a note or none, and the feet (`Layout`),
and the beginning is the longest that fits (`CapBytesIs`, `CappedIs`). What the card shows is
picked out of it by tag, which `LayoutShows` turns back into that beginning and that note.
`ShownStaysShown`: the elements of a turn are computed part by part (`ElementsAre`), each
part keeps what it showed when the turn grows and more images are known (`PartKeeps`), and the
card is always that of an earlier state of the turn (`CardIsOfTurn`). It assumes
`ResultsAgree`: should a result be given twice, both name the same images, since the last one
counts. Claude gives one result to a call.

What the recursive functions of `Card` compute is proved by induction. The induction theorems
of the library take an operator as a parameter, which the provers cannot
instantiate; `Least`, `Induction`, `Recursion` and `Recursive` at the top of the module state
the same about *sets* of numbers and about functions, from the library's theorem that the order of the
natural numbers is well founded. `Card` picks elements out of a sequence by `Picked` and not
by `SelectSeq`, of which the provers know nothing.

**Checked by TLC only.** Liveness (`EventuallyCaughtUp`, `EventuallyForwarded`,
`ShutdownEnds`, `NoHungBind`, `EventuallyFinal`, `EveryRequestEnds`), which is out of reach of the
installed provers. Every invariant and every action property that a passing run checks is
also the subject of a theorem.

## 6. What is not modelled

* Formatting, wording, tool summaries, the regular expressions that find paths and
  diagrams: a text is its length and what is found in it.
* The cards of status and search (`status.py`), which read the transcript and keep no state.
  The search reads the last 5 MB of the file and stops at the first 50 matches, the oldest.
* The commands that create or attach tmux sessions, printing and the browser
  (`cli.py`); installation scripts.
* Menu push: calls of external tools; it ends a task of `Bind`. Of the keychain only that a
  deletion may raise.
* Reactions: background tasks that touch no state. In `Outbound`, uploads and diagrams are
  one await whose result decorates a card; the caches are in `Transcript`, the time in `Watcher`.
* The stderr pipe of the fallback event source, which nobody reads.
* A transcript that shrinks. A piece of a line that `splitlines` cut and that is a JSON object
  by itself, which would be handled as a line of its own (a string that quotes a whole transcript line
  between two separators). A read that ends between a line and its newline counts as whole.
* Events without an id, which bypass the ring; a state file that cannot be parsed.
* SIGTERM: it kills the daemon without `stop_all` and is the `Crash` of `Orchestrator`. On
  an interrupt newer Pythons wait for open connections before `stop_all`; `Shutdown`
  begins after that.
* Two daemons on one data directory, except for the store (`Bind`) and the socket (`Control`).

## 7. Plan

1. *More proofs.* `Outbound` with failed requests: which lines may be missing when a
   request failed and what repairs them. `Orchestrator`: `OneGroupEach` for instances
   without overlapping requests. The lemmas on `Joined` and `Picked` in a module of their own.
2. *More of the system.* The offset of a re-bound name in `Orchestrator`; several bindings that
   share the event loop and the tenant's rate.
