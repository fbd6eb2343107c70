------------------------------- MODULE Inbound -------------------------------
(***************************************************************************)
(* The inbound half of one binding: Feishu delivers the user's messages    *)
(* and menu clicks, at least once, to the event source of the running      *)
(* binding; the InboundPipeline drops duplicates with a ring of event ids  *)
(* that it saves, takes the first message to learn the chat (bootstrap),   *)
(* and types the others into the terminal of Claude Code, one call of tmux *)
(* per line, soft newline, Enter or special key.                           *)
(*                                                                         *)
(* The event source is the WebSocket client of lark-oapi (socket) or the   *)
(* subprocess of lark-cli.  Between two awaits of the pipeline only a      *)
(* crash can come; a stop cancels it at an await.                          *)
(***************************************************************************)
EXTENDS Integers, Sequences, FiniteSets

CONSTANTS
    Kinds,          \* the kinds of event in this instance
    MaxEvents,      \* bound: messages and menu clicks of the user
    Ring,           \* _seen_event_ids_max
    Sockets,        \* may the event source be the WebSocket client (TRUE), or lark-cli?
    Chats,          \* may the chat be known (TRUE), unknown, or either at first?
    MaxAgain,       \* bound: how many times Feishu delivers something again
    Faults,         \* what may go wrong: "fail", "crash", "stop", "end"
    MaxFaults       \* bound: how many times something does

\* Kinds of message: one line of text, two lines, a text with an image in it, a
\* key command, a yes/no command, a command answered with a card, an image, a
\* file, and what is dropped (type, content or sender).
Messages == {"text", "lines", "inline", "key", "yesno", "card", "image", "file", "skipped"}
\* Menu clicks: a special key, a yes/no shortcut, a text command; anything else.
Clicks == {"press", "pick", "menu", "other"}

ASSUME KindsAssumption == Kinds \subseteq Messages \cup Clicks
ASSUME RingAssumption == Ring \in Nat \ {0}
ASSUME ChatsAssumption == Chats \subseteq BOOLEAN /\ Sockets \subseteq BOOLEAN
ASSUME FaultsAssumption == Faults \subseteq {"fail", "crash", "stop", "end"}
ASSUME BoundsAssumption == MaxEvents \in Nat /\ MaxAgain \in Nat /\ MaxFaults \in Nat

VARIABLES
    socket,     \* is the event source the WebSocket client? (the app secret is known)
    kind,       \* the kind of each event; an event is named by its number
    delivered,  \* Feishu: the events some client of the app has been given
    again,      \* Feishu: how many deliveries were not the first
    connected,  \* does the event source of the running binding get events?
    orphans,    \* WebSocket clients of stopped bindings that are still connected
    queue,      \* events on their way to the pipeline
    pc,         \* where the pipeline is; "dead": its task has ended
    step,       \* the next keystroke of the event being typed
    seen,       \* _seen_event_ids, oldest first
    seenDisk,   \* the same in seen-<name>.json
    chat,       \* is the chat known: _chat_id_seen and state.chat_id
    chatDisk,   \* the same in state-<name>.json
    accepted,   \* history: the events that passed the ring, in that order
    swallowed,  \* history: which of them were taken as the bootstrap message
    pane,       \* the keystrokes the terminal got, and which event typed each
    faults,     \* how many times something has gone wrong
    happened    \* history: what has

feishu == <<kind, delivered, again, socket>>
source == <<connected, orphans, queue>>
memory == <<seen, chat>>
saved == <<seenDisk, chatDisk>>
history == <<accepted, swallowed>>
wrong == <<faults, happened>>
vars == <<feishu, source, pc, step, memory, saved, history, pane, wrong>>

\* The calls of tmux an event of each kind is made into.
Script ==
    [k \in Messages \cup Clicks |->
        CASE k \in {"key", "press"} -> <<"special">>
          [] k = "lines" -> <<"line", "newline", "line", "enter">>
          [] k \in {"card", "skipped", "other"} -> << >>
          [] OTHER -> <<"line", "enter">>]

Downloads == {"inline", "image", "file"}
Guarded == {"key", "yesno", "press", "pick"}    \* a failing call is logged
OneCall == {"image"}                            \* line and Enter in one call

Current == accepted[Len(accepted)]
CurrentKind == kind[Current]

\* No await before the first keystroke, nor inside a call.
BetweenAwaits ==
    \/ pc = "accepted"
    \/ pc = "typing" /\ (step = 1 \/ CurrentKind \in OneCall)

Fault(f) ==
    /\ f \in Faults /\ faults < MaxFaults
    /\ faults' = faults + 1 /\ happened' = happened \cup {f}

Init ==
    /\ socket \in Sockets
    /\ kind = << >> /\ delivered = {} /\ again = 0
    /\ connected = FALSE /\ orphans = 0 /\ queue = << >>
    /\ pc = "down" /\ step = 1
    /\ seen = << >> /\ seenDisk = << >>
    /\ chatDisk \in Chats /\ chat = chatDisk
    /\ accepted = << >> /\ swallowed = {} /\ pane = << >>
    /\ faults = 0 /\ happened = {}

-----------------------------------------------------------------------------
(* The user and Feishu.                                                    *)

Make(k) ==
    /\ Len(kind) < MaxEvents /\ kind' = Append(kind, k)
    /\ UNCHANGED <<delivered, again, socket, source, pc, step, memory, saved,
                   history, pane, wrong>>

\* An event is pushed to one client of the app, and may be pushed again.
Push(e) ==
    /\ \/ e \notin delivered /\ UNCHANGED again
       \/ e \in delivered /\ again < MaxAgain /\ again' = again + 1
    /\ delivered' = delivered \cup {e}
    /\ UNCHANGED <<kind, socket, connected, orphans, pc, step, memory, saved,
                   history, pane, wrong>>

Deliver(e) == Push(e) /\ connected /\ queue' = Append(queue, e)

\* An orphan puts the event into a queue that nobody reads.
Misdeliver(e) == Push(e) /\ orphans > 0 /\ UNCHANGED queue

-----------------------------------------------------------------------------
(* _handle: the ring of event ids.                                         *)

RangeOf(s) == {s[i] : i \in DOMAIN s}
LastOf(s, n) == IF Len(s) <= n THEN s ELSE SubSeq(s, Len(s) - n + 1, Len(s))

Drop ==
    /\ pc = "idle" /\ queue # << >> /\ Head(queue) \in RangeOf(seen)
    /\ queue' = Tail(queue)
    /\ UNCHANGED <<feishu, connected, orphans, pc, step, memory, saved, history,
                   pane, wrong>>

NeverEvicted(s) == s  \* mutant
Evicted(s) == LastOf(s, Ring)

PersistNothing(ids) == UNCHANGED seenDisk  \* mutant
Persist(ids) == seenDisk' = ids

\* A new event id is remembered, and saved on a best effort.
Accept ==
    /\ pc = "idle" /\ queue # << >> /\ Head(queue) \notin RangeOf(seen)
    /\ queue' = Tail(queue)
    /\ seen' = Evicted(Append(seen, Head(queue)))
    /\ \/ Persist(seen') /\ UNCHANGED wrong
       \/ Fault("fail") /\ UNCHANGED seenDisk
    /\ accepted' = Append(accepted, Head(queue))
    /\ pc' = "accepted"
    /\ UNCHANGED <<feishu, connected, orphans, step, chat, chatDisk, swallowed, pane>>

-----------------------------------------------------------------------------
(* _handle_message and _handle_menu.                                       *)

IsBootstrap == ~chat /\ CurrentKind \in Messages

Become(l) == pc' = l /\ step' = 1

KnowChatLater == chat' = TRUE /\ UNCHANGED chatDisk  \* mutant
KnowChat == chat' = TRUE /\ chatDisk' = TRUE

\* The first message reveals the chat: it is saved, on a best effort, and the
\* replay is awaited; the message itself goes no further.
Bootstrap ==
    /\ pc = "accepted" /\ IsBootstrap
    /\ \/ KnowChat /\ UNCHANGED wrong
       \/ chat' = TRUE /\ Fault("fail") /\ UNCHANGED chatDisk
    /\ swallowed' = swallowed \cup {Len(accepted)}
    /\ Become("replay")
    /\ UNCHANGED <<feishu, source, seen, seenDisk, accepted, pane>>

Ignore ==
    /\ pc = "accepted" /\ ~IsBootstrap /\ CurrentKind \in {"skipped", "other"}
    /\ Become("idle")
    /\ UNCHANGED <<feishu, source, memory, saved, history, pane, wrong>>

\* Images and files are downloaded first; a card is sent to the chat.
Prepare ==
    /\ pc = "accepted" /\ ~IsBootstrap /\ CurrentKind \in Downloads \cup {"card"}
    /\ Become(IF CurrentKind = "card" THEN "reply" ELSE "download")
    /\ UNCHANGED <<feishu, source, memory, saved, history, pane, wrong>>

StartTyping ==
    /\ pc = "accepted" /\ ~IsBootstrap
    /\ CurrentKind \notin Downloads \cup {"card", "skipped", "other"}
    /\ Become("typing")
    /\ UNCHANGED <<feishu, source, memory, saved, history, pane, wrong>>

\* A text whose image could not be had is typed without it; an image or file is not.
Downloaded ==
    /\ pc = "download"
    /\ \/ Become("typing") /\ UNCHANGED wrong
       \/ Fault("fail") /\ Become(IF CurrentKind = "inline" THEN "typing" ELSE "idle")
    /\ UNCHANGED <<feishu, source, memory, saved, history, pane>>

\* Sent or failed, a card leads back to the next event.
Replied ==
    /\ pc = "reply" /\ Become("idle")
    /\ UNCHANGED <<feishu, source, memory, saved, history, pane, wrong>>

\* An exception out of the replay ends the inbound loop.
Replayed ==
    /\ pc = "replay"
    /\ \/ Become("idle") /\ UNCHANGED wrong
       \/ Fault("fail") /\ Become("dead")
    /\ UNCHANGED <<feishu, source, memory, saved, history, pane>>

-----------------------------------------------------------------------------
(* The calls of tmux, an await after each but the last.                    *)

Key == [by |-> Len(accepted), at |-> step, key |-> Script[CurrentKind][step]]

DoneBeforeEnter == step + 1 >= Len(Script[CurrentKind])  \* mutant
Done == step = Len(Script[CurrentKind])

Type ==
    /\ pc = "typing"
    /\ pane' = Append(pane, Key)
    /\ IF Done THEN Become("idle") ELSE step' = step + 1 /\ UNCHANGED pc
    /\ UNCHANGED <<feishu, source, memory, saved, history, wrong>>

AlwaysGoOn == "idle"  \* mutant
AfterFailure == IF CurrentKind \in Guarded THEN "idle" ELSE "dead"

\* The session is gone, or tmux fails: unless it is caught on the spot the
\* exception ends the inbound loop.
TypeFails ==
    /\ pc = "typing" /\ Fault("fail")
    /\ Become(AfterFailure)
    /\ UNCHANGED <<feishu, source, memory, saved, history, pane>>

-----------------------------------------------------------------------------
(* The life of the pipeline and of its event source.                       *)

\* A new pipeline loads the saved ring and chat, and a new client connects.
Start ==
    /\ pc = "down" /\ Become("idle")
    /\ connected' = TRUE /\ queue' = << >>
    /\ seen' = LastOf(seenDisk, Ring) /\ chat' = chatDisk
    /\ UNCHANGED <<feishu, orphans, saved, history, pane, wrong>>

\* The outbound loop saves the state now and then.
SaveState ==
    /\ pc # "down" /\ chatDisk # chat /\ chatDisk' = chat
    /\ UNCHANGED <<feishu, source, pc, step, memory, seenDisk, history, pane, wrong>>

\* lark-cli exits, or the WebSocket client gives up.  Once it has handled what
\* is queued the pipeline's task ends (lark-cli) or waits for ever (socket).
SourceEnds ==
    /\ connected /\ Fault("end") /\ connected' = FALSE
    /\ UNCHANGED <<feishu, orphans, queue, pc, step, memory, saved, history, pane>>

RunDry ==
    /\ ~socket /\ pc = "idle" /\ ~connected /\ queue = << >>
    /\ Become("dead")
    /\ UNCHANGED <<feishu, source, memory, saved, history, pane, wrong>>

\* A task that ends by an exception takes the subprocess with it; the WebSocket
\* client stays connected and fills the queue.
Abandon ==
    /\ ~socket /\ pc = "dead" /\ connected
    /\ connected' = FALSE /\ queue' = << >>
    /\ UNCHANGED <<feishu, orphans, pc, step, memory, saved, history, pane, wrong>>

\* stop_binding: the outbound loop saves the state; the thread of a WebSocket
\* client goes on.
Stop ==
    /\ pc # "down" /\ ~BetweenAwaits /\ Fault("stop")
    /\ Become("down")
    /\ connected' = FALSE /\ queue' = << >>
    /\ orphans' = IF socket /\ connected THEN orphans + 1 ELSE orphans
    /\ chatDisk' = chat
    /\ UNCHANGED <<feishu, memory, seenDisk, history, pane>>

Crash ==
    /\ pc # "down" /\ Fault("crash")
    /\ Become("down")
    /\ connected' = FALSE /\ queue' = << >> /\ orphans' = 0
    /\ UNCHANGED <<feishu, memory, saved, history, pane>>

-----------------------------------------------------------------------------

HandleEvent ==
    \/ Drop \/ Accept \/ Bootstrap \/ Ignore \/ Prepare \/ StartTyping
    \/ Downloaded \/ Replied \/ Replayed \/ Type \/ RunDry \/ Abandon

User == \E k \in Kinds : Make(k)
Feishu == \E e \in DOMAIN kind : Deliver(e) \/ Misdeliver(e)
Lifecycle == Start \/ SaveState \/ SourceEnds \/ Stop \/ Crash

Next == User \/ Feishu \/ HandleEvent \/ TypeFails \/ Lifecycle

Spec == Init /\ [][Next]_vars

\* Awaits are answered, a stopped binding is started again, and Feishu pushes
\* every event at least once; the user and the faults owe nothing.
Fairness ==
    /\ WF_vars(HandleEvent) /\ WF_vars(Start)
    /\ \A e \in 1 .. MaxEvents : WF_vars(e \in DOMAIN kind \ delivered /\ Deliver(e))

FairSpec == Spec /\ Fairness

-----------------------------------------------------------------------------
(* Correctness.                                                            *)

EventOf(n) == accepted[n]
TypedOf(n) == {i \in DOMAIN pane : pane[i].by = n}
Distinct(s) == \A i, j \in DOMAIN s : s[i] = s[j] => i = j

\* Every variable has its type; the ring holds each id once and no more than it
\* may; what Feishu has delivered is what the user made.
TypeOK ==
    /\ kind \in Seq(Kinds) /\ Len(kind) <= MaxEvents
    /\ delivered \subseteq DOMAIN kind /\ again \in 0 .. MaxAgain
    /\ socket \in Sockets /\ connected \in BOOLEAN /\ orphans \in 0 .. MaxFaults
    /\ queue \in Seq(delivered) /\ RangeOf(accepted) \subseteq delivered
    /\ pc \in {"down", "idle", "accepted", "replay", "download", "reply", "typing", "dead"}
    /\ step \in Nat \ {0} /\ chat \in BOOLEAN /\ chatDisk \in BOOLEAN
    /\ \A ids \in {seen, seenDisk} :
        ids \in Seq(RangeOf(accepted)) /\ Distinct(ids) /\ Len(ids) <= Ring
    /\ swallowed \subseteq DOMAIN accepted
    /\ \A i \in DOMAIN pane : pane[i].by \in DOMAIN accepted
    /\ faults \in 0 .. MaxFaults /\ happened \subseteq Faults

\* An event delivered again, before or after a restart, passes the ring only when
\* Ring other events have passed it meanwhile (unless saving the ring failed).
DuplicatesDropped ==
    "fail" \notin happened =>
        \A i, j \in DOMAIN accepted :
            i < j /\ accepted[i] = accepted[j] =>
                Cardinality({accepted[n] : n \in i + 1 .. j - 1}) >= Ring

\* Only one message in the life of a binding is taken as the bootstrap message
\* and not forwarded, across stops and crashes (unless saving the chat failed).
OneBootstrap == "fail" \notin happened => Cardinality(swallowed) <= 1

\* As long as the pipeline is neither stopped nor killed, a message is appended to
\* what a failed one has left in the input box only after a yes/no shortcut: any
\* other failure ends the loop.
Glued(i) == pane[i].key \in {"line", "newline"} /\ pane[i + 1].by # pane[i].by
RemainsAreSafe ==
    happened \cap {"stop", "crash"} = {} =>
        \A i \in 1 .. Len(pane) - 1 : Glued(i) => kind[EventOf(pane[i].by)] \in Guarded

\* When nothing goes wrong every event but the bootstrap message is typed in full.
Handled(n) ==
    n \in swallowed \/ Cardinality(TypedOf(n)) = Len(Script[kind[EventOf(n)]])
EventuallyForwarded ==
    <>[](happened = {} => \A e \in DOMAIN kind :
            \E n \in DOMAIN accepted : accepted[n] = e /\ Handled(n))
=============================================================================
