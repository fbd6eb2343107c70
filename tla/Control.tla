------------------------------ MODULE Control ------------------------------
(***************************************************************************)
(* The control socket: command lines that each send one request, daemons   *)
(* that answer it with a stream of events, and what the exit code of the   *)
(* command line says of it.  A daemon may die or a rival may take over the *)
(* path of the socket; a user may interrupt a command.                     *)
(*                                                                         *)
(* There is one binding, as a name and a directory.  What start_binding,   *)
(* the store and the OAuth flow do inside is the subject of Orchestrator   *)
(* and Bind: here each is the awaits and the outcomes a handler sees.  A   *)
(* step is what a coroutine does between two awaits.                       *)
(***************************************************************************)
EXTENDS Sequences, FiniteSets, Integers

CONSTANTS
    Clients,    \* command lines, each run once
    MaxDaemons, \* bound: daemon processes, numbered as they start
    Ops,        \* the requests each command may make
    None        \* no client, no daemon

ASSUME DaemonsAssumption == MaxDaemons \in Nat
ASSUME NoneAssumption == None \notin Clients \cup Nat
ASSUME ClientsAssumption == \A c \in Clients : c \notin Nat

Daemons == 1 .. MaxDaemons
Requests == UNION {Ops[c] : c \in Clients}

VARIABLES
    alive, started,         \* daemons that run, and how many ever ran
    path,                   \* the daemon whose socket the path names, dead or not
    file,                   \* bindings.toml has the binding
    bound,                  \* daemons whose store has it
    restore,                \* restore_from_disk, in each daemon
    running,                \* who started what is registered, in each daemon
    pending,                \* who has its entry in pending_binds, in each daemon
    pc, op, server,         \* client: where it is, what it asks of whom
    exit,                   \* its exit code
    handler, out, sent,     \* its connection: the handler, events yielded, events sent
    flow,                   \* the background task of its bind
    cut, overlapped,        \* history: requests a death cut off, stops served beside others
    unmarked, doubled       \* history: starts without a marker, daemons that started twice

daemon == <<alive, started, path, restore>>
service == <<file, bound, running, pending, flow>>
client == <<pc, op, server, exit>>
connection == <<handler, out, sent>>
starts == <<unmarked, doubled>>
history == <<cut, overlapped, starts>>
vars == <<daemon, service, client, connection, history>>

Init ==
    /\ alive = {} /\ started = 0 /\ path = None
    /\ file \in BOOLEAN /\ bound = {}
    /\ restore = [d \in Daemons |-> "none"]
    /\ running = [d \in Daemons |-> None] /\ pending = [d \in Daemons |-> None]
    /\ pc = [c \in Clients |-> "new"] /\ op = [c \in Clients |-> "none"]
    /\ server = [c \in Clients |-> None] /\ exit = [c \in Clients |-> "none"]
    /\ handler = [c \in Clients |-> "none"]
    /\ out = [c \in Clients |-> << >>] /\ sent = [c \in Clients |-> << >>]
    /\ flow = [c \in Clients |-> "none"]
    /\ cut = {} /\ overlapped = {} /\ unmarked = {} /\ doubled = {}

-----------------------------------------------------------------------------
(* The command line.                                                       *)

Exit(c, code) == pc' = [pc EXCEPT ![c] = "ended"] /\ exit' = [exit EXCEPT ![c] = code]

\* The socket accepts, and the request is sent at once.
Connect(c) ==
    /\ pc[c] = "new" /\ path \in alive
    /\ \E o \in Ops[c] : op' = [op EXCEPT ![c] = o]
    /\ pc' = [pc EXCEPT ![c] = "reading"]
    /\ server' = [server EXCEPT ![c] = path]
    /\ handler' = [handler EXCEPT ![c] = "request"]
    /\ UNCHANGED <<daemon, service, exit, out, sent, history>>

\* Only a refused connection is caught; a missing socket is another exception.
NoDaemon(c) ==
    /\ pc[c] = "new" /\ path \notin alive
    /\ Exit(c, IF path = None THEN "traceback" ELSE "no daemon")
    /\ UNCHANGED <<daemon, service, op, server, connection, history>>

FailedLast(events) == events # << >> /\ events[Len(events)] = "fail"  \* mutant
Failed(events) == \E i \in DOMAIN events : events[i] = "fail"
ExitOf(events) == IF Failed(events) THEN "failed" ELSE "ok"

\* It reads all that was sent, up to done or the end of the stream.
ReadDone(c) ==
    /\ pc[c] = "reading" /\ \E i \in DOMAIN sent[c] : sent[c][i] = "done"
    /\ Exit(c, ExitOf(sent[c]))
    /\ UNCHANGED <<daemon, service, op, server, connection, history>>

\* The end of the stream is no error, unless the socket died with the request unread.
EndOfStream(c) ==
    /\ pc[c] = "reading"
    /\ \/ handler[c] \in {"closed", "unread"} /\ Exit(c, ExitOf(sent[c]))
       \/ handler[c] = "unread" /\ Exit(c, "traceback")
    /\ UNCHANGED <<daemon, service, op, server, connection, history>>

\* The user interrupts the command.
Leave(c) ==
    /\ pc[c] = "reading"
    /\ pc' = [pc EXCEPT ![c] = "gone"]
    /\ sent' = [sent EXCEPT ![c] = << >>]
    /\ UNCHANGED <<daemon, service, op, server, exit, handler, out, history>>

-----------------------------------------------------------------------------
(* _handle_client: the request, and the events its handler yields.         *)

Busy == {"request", "reply", "launch", "qr", "start", "stop"}
InService(c) == handler[c] \in Busy \ {"request"}

\* The request is read and its handler runs to its first await or event.  Another
\* request may be in service, or what ran when the daemon went down be restored.
Receive(c, ops) == handler[c] = "request" /\ op[c] \in ops
Note(c) ==
    LET others == {b \in Clients \ {c} : InService(b)}
        all == IF others = {} /\ restore[server[c]] = "none" THEN {} ELSE others \cup {c}
    IN  overlapped' = overlapped \cup {b \in all : op[b] = "stop"}

Go(c, where) == handler' = [handler EXCEPT ![c] = where]
Yield(c, events, where) == Go(c, where) /\ out' = [out EXCEPT ![c] = events]
Answer(c, verdict) == Yield(c, <<verdict, "done">>, "reply")

\* One event is written, and after the last one the connection is closed.  The
\* write to a client that left is lost, or raises, and then the handler is
\* abandoned where it stands.
Emit(c) ==
    /\ out[c] # << >>
    /\ \/ /\ out' = [out EXCEPT ![c] = Tail(@)]
          /\ IF Len(out[c]) = 1 /\ handler[c] = "reply" THEN Go(c, "closed")
             ELSE UNCHANGED handler
       \/ pc[c] = "gone" /\ Yield(c, << >>, "closed")
    /\ sent' = IF pc[c] = "gone" THEN sent ELSE [sent EXCEPT ![c] = Append(@, Head(out[c]))]
    /\ UNCHANGED <<daemon, service, client, history>>

-----------------------------------------------------------------------------
(* The handlers.                                                           *)

\* ping, list and status; config and shell; what is malformed or unknown.
Ping(c) ==
    /\ Receive(c, {"ping", "config", "bad"}) /\ Note(c)
    /\ Answer(c, IF op[c] = "ping" THEN "ok" ELSE "fail")
    /\ UNCHANGED <<daemon, service, client, sent, cut, starts>>

Unbound(c) == server[c] \notin bound
Started(c) == running[server[c]] # None

\* start: the directory is unknown, the binding runs, or there is no session for it.
StartRefused(c) ==
    /\ Receive(c, {"start"}) /\ Note(c)
    /\ Answer(c, "fail")
    /\ UNCHANGED <<daemon, service, client, sent, cut, starts>>

MayStart(c) == ~Unbound(c) /\ ~Started(c)
Start(c) ==
    /\ Receive(c, {"start"}) /\ MayStart(c) /\ Note(c)
    /\ Go(c, "start")
    /\ UNCHANGED <<daemon, service, client, out, sent, cut, starts>>

\* A second start that passed the check takes the place of the first, whose tasks
\* go on and are in nobody's registry.
Register(d, who) ==
    /\ running' = [running EXCEPT ![d] = who]
    /\ doubled' = IF running[d] = None THEN doubled ELSE doubled \cup {d}

\* The backlog is processed, the binding registered and its marker written; what
\* came before the registration raises, or the write of the marker does.
StartEnds(c) ==
    /\ handler[c] = "start"
    /\ \/ Answer(c, "ok") /\ Register(server[c], c) /\ UNCHANGED unmarked
       \/ Answer(c, "fail") /\ UNCHANGED <<running, starts>>
       \/ Answer(c, "fail") /\ Register(server[c], c) /\ unmarked' = unmarked \cup {c}
    /\ UNCHANGED <<daemon, file, bound, pending, flow, client, sent, cut, overlapped>>

StopNothing(c) ==
    /\ Receive(c, {"stop"}) /\ (Unbound(c) \/ ~Started(c)) /\ Note(c)
    /\ Answer(c, IF Unbound(c) THEN "fail" ELSE "ok")
    /\ UNCHANGED <<daemon, service, client, sent, cut, starts>>

LeaveRegistered(c) == UNCHANGED running  \* mutant
Deregister(c) == running' = [running EXCEPT ![server[c]] = None]
Stop(c) ==
    /\ Receive(c, {"stop"}) /\ ~Unbound(c) /\ Started(c) /\ Note(c)
    /\ Deregister(c)
    /\ Go(c, "stop")
    /\ UNCHANGED <<daemon, file, bound, pending, flow, client, out, sent, cut, starts>>

\* The cancelled tasks have ended, and the marker is removed, which may raise.
StopEnds(c) ==
    /\ handler[c] = "stop"
    /\ Answer(c, "ok") \/ Answer(c, "fail")
    /\ UNCHANGED <<daemon, service, client, sent, history>>

UnbindRefused(c) ==
    /\ Receive(c, {"unbind"}) /\ Unbound(c) /\ Note(c)
    /\ Answer(c, "fail")
    /\ UNCHANGED <<daemon, service, client, sent, cut, starts>>

\* The binding is removed; then its secret is, which may raise.
EarlyVerdict(c) ==  \* mutant: the verdict is yielded before the secret is deleted
    \/ Answer(c, "ok")
    \/ Yield(c, <<"ok", "fail", "done">>, "reply")
DeleteSecret(c) == Answer(c, "ok") \/ Answer(c, "fail")
Unbind(c) ==
    /\ Receive(c, {"unbind"}) /\ ~Unbound(c) /\ Note(c)
    /\ file' = FALSE /\ bound' = bound \ {server[c]}
    /\ DeleteSecret(c)
    /\ UNCHANGED <<daemon, running, pending, flow, client, sent, cut, starts>>

BindRefused(c) ==
    /\ Receive(c, {"bind"}) /\ (~Unbound(c) \/ pending[server[c]] # None) /\ Note(c)
    /\ Answer(c, "fail")
    /\ UNCHANGED <<daemon, service, client, sent, cut, starts>>

Bind(c) ==
    /\ Receive(c, {"bind"}) /\ Unbound(c) /\ pending[server[c]] = None /\ Note(c)
    /\ Yield(c, <<"log">>, "launch")
    /\ UNCHANGED <<daemon, service, client, sent, cut, starts>>

Launch(c) ==
    /\ handler[c] = "launch" /\ out[c] = << >>
    /\ flow' = [flow EXCEPT ![c] = "auth"]
    /\ pending' = [pending EXCEPT ![server[c]] = c]
    /\ Go(c, "qr")
    /\ UNCHANGED <<daemon, file, bound, running, client, out, sent, history>>

AwaitingScan(c) ==
    /\ handler[c] = "qr" /\ flow[c] \in {"shown", "pushing", "over"}
    /\ Yield(c, <<"qr", "ok", "done">>, "reply")
    /\ UNCHANGED <<daemon, service, client, sent, history>>

OnlyIfFailed(c) == flow[c] = "blank"  \* mutant
NoUrl(c) == flow[c] \in {"auth", "blank"}
Pop(c) == pending' = [pending EXCEPT ![server[c]] = None]
TimeOut(c) ==
    /\ handler[c] = "qr" /\ NoUrl(c)
    /\ flow' = [flow EXCEPT ![c] = "blank"]
    /\ Pop(c)
    /\ Answer(c, "fail")
    /\ UNCHANGED <<daemon, file, bound, running, client, sent, history>>

-----------------------------------------------------------------------------
(* The background task of a bind, which outlives its request.              *)

ShowQR(c) ==
    /\ flow[c] = "auth" /\ flow' = [flow EXCEPT ![c] = "shown"]
    /\ UNCHANGED <<daemon, file, bound, running, pending, client, connection, history>>

FlowFails(c) ==
    /\ flow[c] \in {"auth", "shown"}
    /\ flow' = [flow EXCEPT ![c] = IF @ = "shown" THEN "over" ELSE "blank"]
    /\ Pop(c)
    /\ UNCHANGED <<daemon, file, bound, running, client, connection, history>>

\* The user has scanned the code: the binding is saved, and its menu pushed.
Scan(c) ==
    /\ flow[c] = "shown" /\ Unbound(c) /\ ~file
    /\ file' = TRUE /\ bound' = bound \cup {server[c]}
    /\ flow' = [flow EXCEPT ![c] = "pushing"]
    /\ UNCHANGED <<daemon, running, pending, client, connection, history>>

PushEnds(c) ==
    /\ flow[c] = "pushing" /\ flow' = [flow EXCEPT ![c] = "over"]
    /\ Pop(c)
    /\ UNCHANGED <<daemon, file, bound, running, client, connection, history>>

-----------------------------------------------------------------------------
(* The daemons.                                                            *)

\* serve takes the path, whoever listens on it.  The bindings in the file are yet
\* to be restored, one after the other, while requests are served.
Serve(d) ==
    /\ d = started + 1 /\ started' = d /\ alive' = alive \cup {d}
    /\ path' = d
    /\ bound' = IF file THEN bound \cup {d} ELSE bound
    /\ restore' = [restore EXCEPT ![d] = IF file THEN "due" ELSE "none"]
    /\ UNCHANGED <<file, running, pending, flow, client, connection, history>>

\* It is the binding's turn: there is no session, or it is unbound or started by now.
RestoreStarts(d) ==
    /\ restore[d] = "due"
    /\ \/ restore' = [restore EXCEPT ![d] = "none"]
       \/ d \in bound /\ running[d] = None /\ restore' = [restore EXCEPT ![d] = "started"]
    /\ UNCHANGED <<alive, started, path, service, client, connection, history>>

\* As StartEnds, but nobody is told.
RestoreEnds(d) ==
    /\ restore[d] = "started" /\ restore' = [restore EXCEPT ![d] = "none"]
    /\ Register(d, d) \/ UNCHANGED <<running, doubled>>
    /\ UNCHANGED <<alive, started, path, file, bound, pending, flow, client, connection,
                   cut, overlapped, unmarked>>

FlowsGoOn(mine) == UNCHANGED flow  \* mutant
FlowsEnd(mine) == flow' = [c \in Clients |-> IF c \in mine THEN "none" ELSE flow[c]]

\* A daemon dies or shuts down: what it has sent can still be read.  A shutdown of
\* a newer Python removes the socket.
Die(d) ==
    LET mine == {c \in Clients : server[c] = d}
        lost == {c \in mine : handler[c] \in Busy}
    IN  /\ d \in alive /\ alive' = alive \ {d}
        /\ path' \in {path} \cup (IF path = d THEN {None} ELSE {})
        /\ bound' = bound \ {d}
        /\ restore' = [restore EXCEPT ![d] = "none"]
        /\ running' = [running EXCEPT ![d] = None]
        /\ pending' = [pending EXCEPT ![d] = None]
        /\ FlowsEnd(mine)
        /\ handler' = [c \in Clients |-> IF c \notin lost THEN handler[c]
                                         ELSE IF handler[c] = "request" THEN "unread"
                                         ELSE "closed"]
        /\ out' = [c \in Clients |-> IF c \in lost THEN << >> ELSE out[c]]
        /\ cut' = cut \cup lost
        /\ UNCHANGED <<started, file, client, sent, overlapped, starts>>

-----------------------------------------------------------------------------

Handle(c) ==
    \/ Ping(c)
    \/ StartRefused(c) \/ Start(c) \/ StartEnds(c)
    \/ StopNothing(c) \/ Stop(c) \/ StopEnds(c)
    \/ UnbindRefused(c) \/ Unbind(c)
    \/ BindRefused(c) \/ Bind(c) \/ Launch(c) \/ AwaitingScan(c) \/ TimeOut(c)
HandleClient(c) == Handle(c) \/ Emit(c)
Flow(c) == ShowQR(c) \/ FlowFails(c) \/ Scan(c) \/ PushEnds(c)
RunOp(c) == Connect(c) \/ NoDaemon(c) \/ ReadDone(c) \/ EndOfStream(c)

Next ==
    \/ \E c \in Clients : RunOp(c) \/ Leave(c) \/ HandleClient(c) \/ Flow(c)
    \/ \E d \in Daemons : Serve(d) \/ RestoreStarts(d) \/ RestoreEnds(d) \/ Die(d)

Spec == Init /\ [][Next]_vars

\* A command reads what comes.  A handler goes on: the tasks a stop cancels end,
\* requests to Feishu have timeouts, and the wait for a QR code has one too.  The
\* OAuth flow, the user and the daemons owe nothing.
Fairness == \A c \in Clients : WF_vars(ReadDone(c) \/ EndOfStream(c)) /\ WF_vars(HandleClient(c))
FairSpec == Spec /\ Fairness

-----------------------------------------------------------------------------
(* Correctness.                                                            *)

Events == {"log", "qr", "ok", "fail", "done"}
Verdicts == {"ok", "fail"}
Has(events, e) == \E i \in DOMAIN events : events[i] = e
Stream(c) == sent[c] \o out[c]

\* Every variable has its type; a daemon that is not alive has no state but the
\* path it leaves behind, and a handler runs only in a live daemon.
TypeOK ==
    /\ started \in 0 .. MaxDaemons /\ alive \subseteq 1 .. started
    /\ path \in 1 .. started \cup {None}
    /\ file \in BOOLEAN /\ bound \subseteq alive
    /\ running \in [Daemons -> Clients \cup Daemons \cup {None}]
    /\ pending \in [Daemons -> Clients \cup {None}]
    /\ restore \in [Daemons -> {"none", "due", "started"}]
    /\ \A d \in Daemons \ alive :
           restore[d] = "none" /\ running[d] = None /\ pending[d] = None
    /\ pc \in [Clients -> {"new", "reading", "gone", "ended"}]
    /\ op \in [Clients -> Requests \cup {"none"}] /\ server \in [Clients -> Daemons \cup {None}]
    /\ exit \in [Clients -> {"none", "ok", "failed", "no daemon", "traceback"}]
    /\ handler \in [Clients -> Busy \cup {"none", "closed", "unread"}]
    /\ out \in [Clients -> Seq(Events)] /\ sent \in [Clients -> Seq(Events)]
    /\ flow \in [Clients -> {"none", "auth", "shown", "blank", "pushing", "over"}]
    /\ cut \subseteq Clients /\ overlapped \subseteq Clients
    /\ unmarked \subseteq Clients /\ doubled \subseteq Daemons
    /\ \A c \in Clients : handler[c] \in Busy => server[c] \in alive

\* A request is answered by one verdict, then done, then nothing, whatever raises
\* in its handler; a stream that ends without them was cut off.
OneVerdict ==
    \A c \in {b \in Clients : pc[b] # "gone"} :
        LET s == Stream(c)
            verdicts == {i \in DOMAIN s : s[i] \in Verdicts}
        IN  /\ Cardinality(verdicts) <= 1
            /\ \A i \in DOMAIN s : s[i] = "done" => i = Len(s) /\ i - 1 \in verdicts
            /\ handler[c] = "closed" /\ c \notin cut => Has(s, "done")

\* Exit code 0 means that the verdict was ok, and 1 that it was not, unless the
\* daemon died in the middle.
ExitCodeHonest ==
    \A c \in Clients :
        /\ exit[c] = "ok" => Has(sent[c], "ok") \/ c \in cut
        /\ exit[c] = "failed" => Has(sent[c], "fail")
        /\ Has(sent[c], "fail") /\ pc[c] = "ended" => exit[c] = "failed"

\* What a verdict says is true when it is given.  Whoever is refused leaves no OAuth
\* flow that blocks its name, nor a binding that runs, unless the marker alone could
\* not be written.  After a stop no daemon mirrors the binding nor is about to, if the
\* stop was not served beside another request or before the restore was over, and
\* its daemon has no rival and did not start the binding twice.
Given(c, v) == Has(out[c]', v) /\ ~Has(Stream(c), v)
RefusedLeavesNothing(c) ==
    \A d \in Daemons : (c \notin unmarked => running[d] # c) /\ pending[d] # c
StoppedEverywhere(c) ==
    alive = {server[c]} => /\ \A d \in Daemons : running[d] = None /\ restore[d] = "none"
                           /\ \A b \in Clients : handler[b] # "start"
VerdictHolds(c) ==
    /\ Given(c, "fail") => RefusedLeavesNothing(c)'
    /\ Given(c, "ok") /\ op[c] = "stop" /\ c \notin overlapped' /\ server[c] \notin doubled'
       => StoppedEverywhere(c)'
VerdictsHold == [][\A c \in Clients : VerdictHolds(c)]_vars

\* Every command that is not interrupted ends, whether its daemon answers, hangs
\* in an OAuth flow, loses its socket to a rival or dies.
EveryRequestEnds ==
    \A c \in Clients : pc[c] = "reading" ~> pc[c] \in {"ended", "gone"}
=============================================================================
