--------------------------- MODULE ControlProofs ---------------------------
(***************************************************************************)
(* Proofs about Control, for every number of command lines and daemons: a  *)
(* request is answered by one verdict, the exit code says what the verdict *)
(* was, and the verdict is true when it is given.                          *)
(*                                                                         *)
(* The stream of a connection follows one of a few answers, and the place  *)
(* of its handler tells how much of it has been yielded and sent.          *)
(***************************************************************************)
EXTENDS Control, SequenceTheorems, FiniteSetTheorems, TLAPS

\* The streams a client that waits gets in full, unless its daemon dies.
Answers ==
    {<<"ok", "done">>, <<"fail", "done">>, <<"log", "fail", "done">>,
     <<"log", "qr", "ok", "done">>}

\* What was sent to c, and then what its handler has yielded, begin the answer a.
NSent(c) == Len(sent[c])
NLeft(c) == Len(out[c])
Follows(c, a) ==
    /\ NSent(c) + NLeft(c) <= Len(a)
    /\ \A i \in 1 .. NSent(c) : sent[c][i] = a[i]
    /\ \A i \in 1 .. NLeft(c) : out[c][i] = a[NSent(c) + i]

\* How much of it, at each place.
Progress(c, a) ==
    /\ handler[c] \in {"none", "request", "start", "stop", "unread"} => NSent(c) = 0 /\ NLeft(c) = 0
    /\ handler[c] \in {"launch", "qr"} => NSent(c) + NLeft(c) = 1 /\ a[1] = "log"
    /\ handler[c] = "qr" => NLeft(c) = 0
    /\ handler[c] = "reply" => NLeft(c) # 0 /\ NSent(c) + NLeft(c) = Len(a)
    /\ handler[c] = "closed" => NLeft(c) = 0 /\ (c \notin cut => NSent(c) = Len(a))

OnItsWay(c) == \E a \in Answers : Follows(c, a) /\ Progress(c, a)
StreamInv == \A c \in Clients : pc[c] # "gone" => OnItsWay(c)

\* The client and its connection.
PlaceInv ==
    \A c \in Clients :
        /\ pc[c] = "new" => handler[c] = "none"
        /\ handler[c] = "none" => pc[c] \in {"new", "ended"}
        /\ pc[c] = "ended" => handler[c] \in {"none", "closed", "unread"}
        /\ pc[c] # "ended" => exit[c] = "none"
        /\ handler[c] = "unread" => c \in cut
        /\ handler[c] = "start" => op[c] = "start"
        /\ handler[c] = "stop" => op[c] = "stop"
        /\ handler[c] \in {"launch", "qr"} => op[c] = "bind"

\* A bind goes on only in a live daemon.
FlowInv == \A c \in Clients : flow[c] # "none" => server[c] \in alive

\* Who started what runs has been told so, and who waits for a scan is named.
OwnerInv ==
    \A c \in Clients : \A d \in Daemons :
        /\ running[d] = c => handler[c] \in {"reply", "closed"}
        /\ pending[d] = c => handler[c] \in {"qr", "reply", "closed"} /\ server[c] = d

\* A stop that is served alone, once its daemon has restored what ran.
StopInv ==
    \A c \in Clients :
        handler[c] = "stop" /\ c \notin overlapped =>
            /\ running[server[c]] = None /\ restore[server[c]] = "none"
            /\ \A b \in Clients \ {c} : ~InService(b)

TypeInv == TypeOK /\ FlowInv
IInv == TypeInv /\ StreamInv /\ PlaceInv /\ OwnerInv /\ StopInv /\ ExitCodeHonest

-----------------------------------------------------------------------------
(* The answers.                                                            *)

LEMMA AnswerShape ==
    ASSUME NEW a \in Answers
    PROVE  /\ a \in Seq(Events) /\ Len(a) \in 2 .. 4
           /\ \A i \in 1 .. Len(a) : a[i] = "done" <=> i = Len(a)
           /\ \A i \in 1 .. Len(a) : a[i] \in Verdicts <=> i = Len(a) - 1
  <1>1. CASE a = <<"ok", "done">>
    BY <1>1 DEF Events, Verdicts
  <1>4. CASE a = <<"fail", "done">>
    BY <1>4 DEF Events, Verdicts
  <1>2. CASE a = <<"log", "fail", "done">>
    BY <1>2 DEF Events, Verdicts
  <1>3. CASE a = <<"log", "qr", "ok", "done">>
    BY <1>3 DEF Events, Verdicts
  <1> QED BY <1>1, <1>2, <1>3, <1>4 DEF Answers

LEMMA Literals ==
    /\ << >> \in Seq(Events) /\ <<"log">> \in Seq(Events)
    /\ \A v \in Verdicts : <<v, "done">> \in Seq(Events)
    /\ <<"qr", "ok", "done">> \in Seq(Events) /\ <<"ok", "fail", "done">> \in Seq(Events)
  BY DEF Events, Verdicts

-----------------------------------------------------------------------------
(* What a step of a handler does.                                          *)

\* The handlers leave the client and what was sent to it alone.
LEMMA HandleFrame ==
    ASSUME NEW c \in Clients, Handle(c)
    PROVE  UNCHANGED <<daemon, client, sent, cut>>
  BY DEF Handle, Ping, StartRefused, Start, StartEnds, StopNothing, Stop, StopEnds,
         UnbindRefused, Unbind, BindRefused, Bind, Launch, AwaitingScan, TimeOut, history

\* What they yield, and where they go.
LEMMA HandleYields ==
    ASSUME TypeOK, NEW c \in Clients, Handle(c)
    PROVE  /\ \A b \in Clients \ {c} : handler'[b] = handler[b] /\ out'[b] = out[b]
           /\ handler' \in [Clients -> Busy \cup {"none", "closed", "unread"}]
           /\ out' \in [Clients -> Seq(Events)]
           /\ \/ /\ handler[c] \in {"request", "start", "stop"} /\ handler'[c] = "reply"
                 /\ \E v \in Verdicts : out'[c] = <<v, "done">>
              \/ /\ handler[c] = "request" /\ handler'[c] = op[c] /\ op[c] \in {"start", "stop"}
                 /\ out'[c] = out[c]
              \/ /\ handler[c] = "request" /\ handler'[c] = "launch" /\ op[c] = "bind"
                 /\ out'[c] = <<"log">>
              \/ handler[c] = "launch" /\ handler'[c] = "qr" /\ out[c] = << >> /\ out'[c] = out[c]
              \/ /\ handler[c] = "qr" /\ handler'[c] = "reply"
                 /\ out'[c] \in {<<"qr", "ok", "done">>, <<"fail", "done">>}
  <1>0. /\ handler \in [Clients -> Busy \cup {"none", "closed", "unread"}]
        /\ out \in [Clients -> Seq(Events)]
    BY DEF TypeOK
  <1>1. ASSUME NEW v \in Verdicts, Answer(c, v)
        PROVE  /\ \A b \in Clients \ {c} : handler'[b] = handler[b] /\ out'[b] = out[b]
               /\ handler' \in [Clients -> Busy \cup {"none", "closed", "unread"}]
               /\ out' \in [Clients -> Seq(Events)]
               /\ handler'[c] = "reply" /\ out'[c] = <<v, "done">>
    BY <1>0, <1>1, Literals DEF Answer, Yield, Go, Busy
  <1>2. ASSUME NEW w \in Busy, Go(c, w), UNCHANGED out
        PROVE  /\ \A b \in Clients \ {c} : handler'[b] = handler[b] /\ out'[b] = out[b]
               /\ handler' \in [Clients -> Busy \cup {"none", "closed", "unread"}]
               /\ out' \in [Clients -> Seq(Events)]
               /\ handler'[c] = w /\ out'[c] = out[c]
    BY <1>0, <1>2 DEF Go
  <1>3. ASSUME NEW w \in Busy, NEW o \in Seq(Events), Yield(c, o, w)
        PROVE  /\ \A b \in Clients \ {c} : handler'[b] = handler[b] /\ out'[b] = out[b]
               /\ handler' \in [Clients -> Busy \cup {"none", "closed", "unread"}]
               /\ out' \in [Clients -> Seq(Events)]
               /\ handler'[c] = w /\ out'[c] = o
    BY <1>0, <1>3 DEF Yield, Go
  <1>4. CASE Ping(c) \/ StartRefused(c) \/ StartEnds(c) \/ StopNothing(c) \/ StopEnds(c)
             \/ UnbindRefused(c) \/ Unbind(c) \/ BindRefused(c)
    <2>1. /\ handler[c] \in {"request", "start", "stop"}
          /\ \E v \in Verdicts : Answer(c, v)
      BY <1>4 DEF Ping, StartRefused, StartEnds, StopNothing, StopEnds, UnbindRefused, Unbind,
                  BindRefused, Receive, DeleteSecret, Verdicts
    <2> QED BY <1>1, <2>1
  <1>5. CASE Start(c) \/ Stop(c)
    <2>1. /\ handler[c] = "request" /\ UNCHANGED out
          /\ \E w \in {"start", "stop"} : Go(c, w) /\ op[c] = w
      BY <1>5 DEF Start, Stop, Receive
    <2> QED BY <1>2, <2>1 DEF Busy
  <1>6. CASE Bind(c)
    <2>1. handler[c] = "request" /\ op[c] = "bind" /\ Yield(c, <<"log">>, "launch")
      BY <1>6 DEF Bind, Receive
    <2> QED BY <1>3, <2>1, Literals DEF Busy
  <1>7. CASE Launch(c)
    <2>1. handler[c] = "launch" /\ out[c] = << >> /\ Go(c, "qr") /\ UNCHANGED out
      BY <1>7 DEF Launch
    <2> QED BY <1>2, <2>1 DEF Busy
  <1>8. CASE AwaitingScan(c)
    <2>1. handler[c] = "qr" /\ Yield(c, <<"qr", "ok", "done">>, "reply")
      BY <1>8 DEF AwaitingScan
    <2> QED BY <1>3, <2>1, Literals DEF Busy
  <1>9. CASE TimeOut(c)
    <2>1. handler[c] = "qr" /\ Answer(c, "fail")
      BY <1>9 DEF TimeOut
    <2> QED BY <1>1, <2>1 DEF Verdicts
  <1> QED BY <1>4, <1>5, <1>6, <1>7, <1>8, <1>9 DEF Handle

\* One event is on its way, or the handler of a client that left is abandoned.
LEMMA EmitMoves ==
    ASSUME TypeOK, NEW c \in Clients, Emit(c)
    PROVE  /\ \A b \in Clients \ {c} :
                handler'[b] = handler[b] /\ out'[b] = out[b] /\ sent'[b] = sent[b]
           /\ handler' \in [Clients -> Busy \cup {"none", "closed", "unread"}]
           /\ out' \in [Clients -> Seq(Events)] /\ sent' \in [Clients -> Seq(Events)]
           /\ UNCHANGED <<daemon, service, client, history>>
           /\ \/ handler'[c] = handler[c]
              \/ handler'[c] = "closed" /\ (handler[c] = "reply" \/ pc[c] = "gone")
           /\ \A e \in Events : Has(out'[c], e) => Has(out[c], e)
           /\ pc[c] # "gone" =>
                /\ out[c] # << >>
                /\ out'[c] = Tail(out[c]) /\ sent'[c] = Append(sent[c], Head(out[c]))
                /\ handler'[c] = IF Len(out[c]) = 1 /\ handler[c] = "reply" THEN "closed"
                                 ELSE handler[c]
  <1>0. /\ handler \in [Clients -> Busy \cup {"none", "closed", "unread"}]
        /\ out \in [Clients -> Seq(Events)] /\ sent \in [Clients -> Seq(Events)]
    BY DEF TypeOK
  <1>1. out[c] # << >> /\ out[c] \in Seq(Events) /\ sent[c] \in Seq(Events)
    BY <1>0 DEF Emit
  <1>2. Head(out[c]) \in Events /\ Tail(out[c]) \in Seq(Events)
    BY <1>1, HeadTailProperties
  <1>3. Append(sent[c], Head(out[c])) \in Seq(Events)
    BY <1>1, <1>2, AppendProperties
  <1>4. sent' = IF pc[c] = "gone" THEN sent
                ELSE [sent EXCEPT ![c] = Append(sent[c], Head(out[c]))]
    BY <1>0 DEF Emit
  <1>5. UNCHANGED <<daemon, service, client, history>>
    BY DEF Emit
  <1>6. ASSUME NEW e, Has(Tail(out[c]), e) PROVE Has(out[c], e)
    <2>1. PICK i \in 1 .. Len(Tail(out[c])) : Tail(out[c])[i] = e
      BY <1>2, <1>6, LenProperties DEF Has
    <2>2. /\ Tail(out[c])[i] = out[c][i + 1] /\ Len(Tail(out[c])) = Len(out[c]) - 1
      BY <1>1, HeadTailProperties
    <2>3. i + 1 \in DOMAIN out[c]
      BY <1>1, <2>2, LenProperties
    <2> QED BY <2>1, <2>2, <2>3 DEF Has
  <1>7. CASE /\ out' = [out EXCEPT ![c] = Tail(out[c])]
             /\ handler' = IF Len(out[c]) = 1 /\ handler[c] = "reply"
                           THEN [handler EXCEPT ![c] = "closed"] ELSE handler
    BY <1>0, <1>1, <1>2, <1>3, <1>4, <1>5, <1>6, <1>7
  <1>8. CASE pc[c] = "gone" /\ Yield(c, << >>, "closed")
    <2>1. out' = [out EXCEPT ![c] = << >>] /\ handler' = [handler EXCEPT ![c] = "closed"]
      BY <1>8 DEF Yield, Go
    <2>2. out'[c] = << >> /\ ~\E e : Has(out'[c], e)
      BY <1>0, <2>1 DEF Has
    <2> QED BY <1>0, <1>4, <1>5, <1>8, <2>1, <2>2, Literals
  <1> QED BY <1>0, <1>7, <1>8 DEF Emit, Go

-----------------------------------------------------------------------------
(* Types.                                                                  *)

LEMMA DaemonNumbers ==
    ASSUME TypeOK
    PROVE  /\ MaxDaemons \in Nat /\ started \in Nat /\ started <= MaxDaemons
           /\ alive \subseteq Daemons /\ alive \subseteq 1 .. started
           /\ \A d \in Daemons : d \in Nat /\ 1 <= d /\ d <= MaxDaemons
  <1>1. started \in 0 .. MaxDaemons /\ alive \subseteq 1 .. started
    BY DEF TypeOK
  <1> QED BY <1>1, DaemonsAssumption DEF Daemons

LEMMA HandleType ==
    ASSUME TypeOK, NEW c \in Clients, Handle(c)
    PROVE  TypeOK'
  <1>1. /\ handler[c] \in Busy /\ server[c] \in alive /\ server[c] \in Daemons
        /\ UNCHANGED <<daemon, client, sent, cut>>
    <2>1. handler[c] \in Busy
      BY HandleYields DEF Busy
    <2> QED BY <2>1, HandleFrame, DaemonNumbers DEF TypeOK
  <1>2. overlapped' \subseteq Clients
    <2>1. Note(c) \/ UNCHANGED overlapped
      BY DEF Handle, Ping, StartRefused, Start, StartEnds, StopNothing, Stop, StopEnds,
           UnbindRefused, Unbind, BindRefused, Bind, Launch, AwaitingScan, TimeOut, history
    <2>2. CASE Note(c)
      <3>1. overlapped \subseteq Clients /\ {b \in Clients \ {c} : InService(b)} \cup {c} \subseteq Clients
        BY DEF TypeOK
      <3> QED BY <2>2, <3>1 DEF Note
    <2> QED BY <2>1, <2>2 DEF TypeOK
  <1>8. unmarked' \subseteq Clients /\ doubled' \subseteq Daemons
    <2>1. CASE StartEnds(c)
      <3>1. unmarked' \in {unmarked, unmarked \cup {c}}
        BY <2>1 DEF StartEnds, starts
      <3>2. doubled' \in {doubled, doubled \cup {server[c]}}
        BY <2>1 DEF StartEnds, Register, starts
      <3> QED BY <1>1, <3>1, <3>2 DEF TypeOK
    <2>2. CASE ~StartEnds(c)
      BY <2>2 DEF TypeOK, Handle, Ping, StartRefused, Start, StopNothing, Stop, StopEnds,
           UnbindRefused, Unbind, BindRefused, Bind, Launch, AwaitingScan, TimeOut, history, starts
    <2> QED BY <2>1, <2>2
  <1>3. file' \in BOOLEAN /\ bound' \subseteq alive
    BY DEF TypeOK, Handle, Ping, StartRefused, Start, StartEnds, StopNothing, Stop, StopEnds,
           UnbindRefused, Unbind, BindRefused, Bind, Launch, AwaitingScan, TimeOut, service
  <1>4. /\ running' \in [Daemons -> Clients \cup Daemons \cup {None}]
        /\ pending' \in [Daemons -> Clients \cup {None}]
        /\ \A d \in Daemons \ {server[c]} : running'[d] = running[d] /\ pending'[d] = pending[d]
    <2>1. /\ running' = running \/ \E x \in {c, None} : running' = [running EXCEPT ![server[c]] = x]
          /\ pending' = pending \/ \E x \in {c, None} : pending' = [pending EXCEPT ![server[c]] = x]
      BY DEF Handle, Ping, StartRefused, Start, StartEnds, StopNothing, Stop, StopEnds,
           UnbindRefused, Unbind, BindRefused, Bind, Launch, AwaitingScan, TimeOut, service,
           Register, Deregister, Pop
    <2>2. /\ running \in [Daemons -> Clients \cup Daemons \cup {None}]
          /\ pending \in [Daemons -> Clients \cup {None}]
      BY DEF TypeOK
    <2> QED BY <1>1, <2>1, <2>2
  <1>5. flow' \in [Clients -> {"none", "auth", "shown", "blank", "pushing", "over"}]
    BY DEF TypeOK, Handle, Ping, StartRefused, Start, StartEnds, StopNothing, Stop, StopEnds,
           UnbindRefused, Unbind, BindRefused, Bind, Launch, AwaitingScan, TimeOut, service
  <1>6. /\ handler' \in [Clients -> Busy \cup {"none", "closed", "unread"}]
        /\ out' \in [Clients -> Seq(Events)]
        /\ \A b \in Clients : handler'[b] \in Busy => handler[b] \in Busy
    BY <1>1, HandleYields
  <1>7. \A d \in Daemons \ alive : running'[d] = None /\ pending'[d] = None
    BY <1>1, <1>4 DEF TypeOK
  <1> QED BY <1>1, <1>2, <1>3, <1>4, <1>5, <1>6, <1>7, <1>8 DEF TypeOK, daemon, client

LEMMA FlowType ==
    ASSUME TypeOK, FlowInv, NEW c \in Clients, Flow(c)
    PROVE  TypeOK'
  <1>1. UNCHANGED <<daemon, running, client, connection, history>>
    BY DEF Flow, ShowQR, FlowFails, Scan, PushEnds
  <1>2. flow' \in [Clients -> {"none", "auth", "shown", "blank", "pushing", "over"}]
    <2>1. \E f \in {"shown", "blank", "pushing", "over"} : flow' = [flow EXCEPT ![c] = f]
      BY DEF Flow, ShowQR, FlowFails, Scan, PushEnds
    <2> QED BY <2>1 DEF TypeOK
  <1>3. /\ pending' \in [Daemons -> Clients \cup {None}]
        /\ \A d \in Daemons : pending'[d] \in {pending[d], None}
    BY DEF TypeOK, Flow, ShowQR, FlowFails, Scan, PushEnds, Pop
  <1>4. file' \in BOOLEAN
    BY Zenon DEF TypeOK, Flow, ShowQR, FlowFails, Scan, PushEnds
  <1>5. bound' \subseteq alive
    <2>1. bound' \subseteq bound \cup {server[c]} /\ flow[c] # "none"
      BY DEF Flow, ShowQR, FlowFails, Scan, PushEnds
    <2> QED BY <2>1 DEF TypeOK, FlowInv
  <1> QED BY <1>1, <1>2, <1>3, <1>4, <1>5
          DEF TypeOK, daemon, client, connection, history, starts

LEMMA ClientType ==
    ASSUME TypeOK, NEW c \in Clients, RunOp(c) \/ Leave(c)
    PROVE  TypeOK'
  <1>1. CASE Connect(c)
    <2>1. path \in Daemons
      BY <1>1, DaemonNumbers DEF Connect
    <2>2. PICK o \in Ops[c] : op' = [op EXCEPT ![c] = o]
      BY <1>1 DEF Connect
    <2>3. o \in Requests
      BY <2>2 DEF Requests
    <2> QED BY <1>1, <2>1, <2>2, <2>3 DEF Connect, TypeOK, daemon, service, history, starts, Busy
  <1>2. CASE NoDaemon(c)
    BY <1>2 DEF NoDaemon, Exit, TypeOK, daemon, service, connection, history, starts
  <1>3. CASE ReadDone(c) \/ EndOfStream(c)
    <2>1. /\ pc' = [pc EXCEPT ![c] = "ended"]
          /\ \E code \in {"failed", "ok", "traceback"} : exit' = [exit EXCEPT ![c] = code]
      BY <1>3 DEF ReadDone, EndOfStream, Exit, ExitOf
    <2>2. UNCHANGED <<daemon, service, op, server, connection, history>>
      BY <1>3 DEF ReadDone, EndOfStream
    <2>3. exit \in [Clients -> {"none", "ok", "failed", "no daemon", "traceback"}]
      BY DEF TypeOK
    <2>4. exit' \in [Clients -> {"none", "ok", "failed", "no daemon", "traceback"}]
      BY <2>1, <2>3
    <2>5. pc' \in [Clients -> {"new", "reading", "gone", "ended"}]
      BY <2>1 DEF TypeOK
    <2> QED BY <2>2, <2>4, <2>5 DEF TypeOK, daemon, service, connection, history, starts
  <1>4. CASE Leave(c)
    BY <1>4, Literals DEF Leave, TypeOK, daemon, service, history, starts
  <1> QED BY <1>1, <1>2, <1>3, <1>4 DEF RunOp

\* A daemon restores the binding; nobody is told.
Restore(d) == RestoreStarts(d) \/ RestoreEnds(d)
LEMMA RestoreSteps ==
    ASSUME TypeOK, NEW d \in Daemons, Restore(d)
    PROVE  /\ UNCHANGED <<alive, started, path, file, bound, pending, flow, client, connection,
                          cut, overlapped, unmarked>>
           /\ running' \in [Daemons -> Clients \cup Daemons \cup {None}]
           /\ restore' \in [Daemons -> {"none", "due", "started"}]
           /\ doubled' \subseteq Daemons
           /\ restore[d] # "none" /\ running'[d] \in {running[d], d}
           /\ \A e \in Daemons \ {d} : running'[e] = running[e] /\ restore'[e] = restore[e]
  <1>0. /\ running \in [Daemons -> Clients \cup Daemons \cup {None}]
        /\ restore \in [Daemons -> {"none", "due", "started"}] /\ doubled \subseteq Daemons
    BY DEF TypeOK
  <1>1. CASE RestoreStarts(d)
    BY <1>0, <1>1 DEF RestoreStarts, service, history, starts
  <1>2. CASE RestoreEnds(d)
    BY <1>0, <1>2 DEF RestoreEnds, Register
  <1> QED BY <1>1, <1>2 DEF Restore

LEMMA DaemonType ==
    ASSUME TypeOK, NEW d \in Daemons, Serve(d) \/ Restore(d) \/ Die(d)
    PROVE  TypeOK'
  <1>0. d \in Nat /\ started \in Nat /\ MaxDaemons \in Nat /\ d <= MaxDaemons
    BY DaemonNumbers
  <1>1. CASE Serve(d)
    <2>1. /\ started' \in 0 .. MaxDaemons /\ alive' \subseteq 1 .. started' /\ d \notin alive
          /\ path' \in 1 .. started' \cup {None} /\ bound' \subseteq alive'
      <3>1. d = started + 1 /\ started' = d /\ path' = d /\ alive' = alive \cup {d}
        BY <1>1 DEF Serve
      <3>2. bound' \subseteq bound \cup {d} /\ bound \subseteq alive
        BY <1>1 DEF Serve, TypeOK
      <3>3. alive \subseteq 1 .. started
        BY DaemonNumbers
      <3> QED BY <1>0, <3>1, <3>2, <3>3
    <2>2. restore' \in [Daemons -> {"none", "due", "started"}]
      BY <1>1 DEF Serve, TypeOK
    <2>3. /\ UNCHANGED <<file, running, pending, flow, client, connection, history>>
          /\ alive' = alive \cup {d} /\ \A e \in Daemons \ {d} : restore'[e] = restore[e]
      BY <1>1 DEF Serve, TypeOK
    <2> QED BY <2>1, <2>2, <2>3 DEF TypeOK, client, connection, history, starts
  <1>3. CASE Restore(d)
    <2>1. d \in alive
      BY <1>3, RestoreSteps DEF TypeOK
    <2> QED BY <1>3, <2>1, RestoreSteps DEF TypeOK, client, connection
  <1>2. CASE Die(d)
    <2> DEFINE lost == {c \in Clients : server[c] = d /\ handler[c] \in Busy}
    <2>1. /\ handler' \in [Clients -> Busy \cup {"none", "closed", "unread"}]
          /\ \A c \in Clients : handler'[c] \in Busy => handler[c] \in Busy /\ server[c] # d
      BY <1>2, Zenon DEF Die, TypeOK, Busy
    <2>2. out' \in [Clients -> Seq(Events)]
      BY <1>2, Literals DEF Die, TypeOK
    <2>3. flow' \in [Clients -> {"none", "auth", "shown", "blank", "pushing", "over"}]
      BY <1>2 DEF Die, FlowsEnd, TypeOK
    <2>4. cut' \subseteq Clients
      BY <1>2 DEF Die, TypeOK
    <2>5. /\ running' \in [Daemons -> Clients \cup Daemons \cup {None}]
          /\ pending' \in [Daemons -> Clients \cup {None}]
          /\ restore' \in [Daemons -> {"none", "due", "started"}]
          /\ \A e \in Daemons \ alive' :
                restore'[e] = "none" /\ running'[e] = None /\ pending'[e] = None
      <3>1. /\ restore' = [restore EXCEPT ![d] = "none"] /\ alive' = alive \ {d}
            /\ running' = [running EXCEPT ![d] = None] /\ pending' = [pending EXCEPT ![d] = None]
        BY <1>2 DEF Die
      <3>2. /\ running \in [Daemons -> Clients \cup Daemons \cup {None}]
            /\ pending \in [Daemons -> Clients \cup {None}]
            /\ restore \in [Daemons -> {"none", "due", "started"}]
            /\ \A e \in Daemons \ alive :
                  restore[e] = "none" /\ running[e] = None /\ pending[e] = None
        BY DEF TypeOK
      <3> QED BY <3>1, <3>2
    <2>6. alive' = alive \ {d} /\ bound' \subseteq alive' /\ path' \in {path, None}
      BY <1>2 DEF Die, TypeOK
    <2>8. unmarked' \subseteq Clients /\ doubled' \subseteq Daemons
      BY <1>2 DEF Die, TypeOK, starts
    <2>7. UNCHANGED <<started, file, client, sent, overlapped, starts>>
      BY <1>2 DEF Die
    <2> HIDE DEF lost
    <2> QED BY <2>1, <2>2, <2>3, <2>4, <2>5, <2>6, <2>7, <2>8 DEF TypeOK, client
  <1> QED BY <1>1, <1>2, <1>3

LEMMA FlowKept == ASSUME TypeOK, FlowInv, [Next]_vars PROVE FlowInv'
  <1>1. CASE UNCHANGED <<flow, server, alive>>
    BY <1>1 DEF FlowInv
  <1>2. ASSUME NEW c \in Clients, Connect(c) PROVE FlowInv'
    BY <1>2 DEF FlowInv, Connect, daemon, service, TypeOK
  <1>3. ASSUME NEW c \in Clients, Handle(c) PROVE FlowInv'
    <2>1. UNCHANGED <<server, alive>> /\ server[c] \in alive
      BY <1>3, HandleFrame, HandleYields DEF daemon, client, TypeOK, Busy
    <2>2. flow' = flow \/ \E f \in {"auth", "blank"} : flow' = [flow EXCEPT ![c] = f]
      BY <1>3 DEF Handle, Ping, StartRefused, Start, StartEnds, StopNothing, Stop, StopEnds,
           UnbindRefused, Unbind, BindRefused, Bind, Launch, AwaitingScan, TimeOut, service
    <2> QED BY <2>1, <2>2 DEF FlowInv, TypeOK
  <1>4. ASSUME NEW c \in Clients, Flow(c) PROVE FlowInv'
    <2>1. flow[c] # "none" /\ UNCHANGED <<server, alive>>
      BY <1>4 DEF Flow, ShowQR, FlowFails, Scan, PushEnds, daemon, client
    <2>2. \E f : flow' = [flow EXCEPT ![c] = f]
      BY <1>4 DEF Flow, ShowQR, FlowFails, Scan, PushEnds
    <2> QED BY <2>1, <2>2 DEF FlowInv, TypeOK
  <1>5. ASSUME NEW d \in Daemons, Serve(d) \/ Restore(d) \/ Die(d) PROVE FlowInv'
    <2>1. CASE Serve(d)
      BY <2>1 DEF FlowInv, Serve, client
    <2>2. CASE Die(d)
      <3>1. /\ alive' = alive \ {d} /\ UNCHANGED server
            /\ flow' = [c \in Clients |-> IF c \in {b \in Clients : server[b] = d} THEN "none"
                                         ELSE flow[c]]
        BY <2>2 DEF Die, FlowsEnd, client
      <3> QED BY <3>1 DEF FlowInv
    <2>3. CASE Restore(d)
      BY <1>1, <2>3, RestoreSteps DEF client
    <2> QED BY <1>5, <2>1, <2>2, <2>3
  <1> QED BY <1>1, <1>2, <1>3, <1>4, <1>5
          DEF vars, Restore, Next, RunOp, NoDaemon, ReadDone, EndOfStream, Leave, HandleClient, Emit,
              daemon, service, client

LEMMA TypePreserved == ASSUME TypeInv, [Next]_vars PROVE TypeInv'
  <1>1. ASSUME NEW c \in Clients, Emit(c) PROVE TypeOK'
    <2>1. \A b \in Clients : handler'[b] \in Busy => handler[b] \in Busy
      BY <1>1, EmitMoves DEF Busy, TypeInv
    <2>2. UNCHANGED <<daemon, service, client, history>>
      BY <1>1, EmitMoves DEF TypeInv
    <2>3. /\ handler' \in [Clients -> Busy \cup {"none", "closed", "unread"}]
          /\ out' \in [Clients -> Seq(Events)] /\ sent' \in [Clients -> Seq(Events)]
      BY <1>1, EmitMoves DEF TypeInv
    <2> QED BY <2>1, <2>2, <2>3 DEF TypeInv, TypeOK, daemon, service, client, history, starts
  <1>2. ASSUME UNCHANGED vars PROVE TypeOK'
    <2>1. TypeOK
      BY DEF TypeInv
    <2> QED BY <1>2, <2>1 DEF TypeOK, vars, daemon, service, client, connection, history, starts
  <1>3. TypeOK'
    BY <1>1, <1>2, HandleType, FlowType, ClientType, DaemonType DEF TypeInv, Next, HandleClient, Restore
  <1> QED BY <1>3, FlowKept DEF TypeInv

LEMMA TypeInvariant == Spec => []TypeInv
<1>1. Init => TypeInv
  BY Literals, DaemonsAssumption DEF Init, TypeInv, TypeOK, FlowInv, Busy
<1> QED BY <1>1, TypePreserved, PTL DEF Spec

\* A handler runs only in a live daemon, and one that is dead leaves nothing but
\* the path of its socket.
THEOREM TypeCorrect == Spec => []TypeOK
<1>1. TypeInv => TypeOK
  BY DEF TypeInv
<1> QED BY <1>1, TypeInvariant, PTL

-----------------------------------------------------------------------------
(* Places and streams.                                                     *)

LEMMA Counts ==
    ASSUME TypeOK, NEW c \in Clients
    PROVE  /\ NSent(c) \in Nat /\ NLeft(c) \in Nat
           /\ DOMAIN sent[c] = 1 .. NSent(c) /\ DOMAIN out[c] = 1 .. NLeft(c)
           /\ NLeft(c) = 0 <=> out[c] = << >>
  <1>1. sent[c] \in Seq(Events) /\ out[c] \in Seq(Events)
    BY DEF TypeOK
  <1> QED BY <1>1, LenProperties, EmptySeq DEF NSent, NLeft

\* Once done has been sent the connection is closed, after a verdict.
LEMMA DoneIsLast ==
    ASSUME TypeOK, NEW c \in Clients, OnItsWay(c), Has(sent[c], "done")
    PROVE  handler[c] = "closed" /\ (Has(sent[c], "ok") \/ Has(sent[c], "fail"))
  <1>1. PICK a \in Answers : Follows(c, a) /\ Progress(c, a)
    BY DEF OnItsWay
  <1>2. /\ NSent(c) \in Nat /\ NLeft(c) \in Nat /\ DOMAIN sent[c] = 1 .. NSent(c)
    BY Counts
  <1>3. PICK i \in 1 .. NSent(c) : sent[c][i] = "done"
    BY <1>2 DEF Has
  <1>4. NSent(c) = Len(a) /\ NLeft(c) = 0 /\ Len(a) \in 2 .. 4
    <2>1. /\ Len(a) \in 2 .. 4 /\ \A j \in 1 .. Len(a) : a[j] = "done" <=> j = Len(a)
      BY AnswerShape
    <2>2. NSent(c) + NLeft(c) <= Len(a) /\ a[i] = "done"
      BY <1>1, <1>3 DEF Follows
    <2>3. i = Len(a)
      BY <1>2, <2>1, <2>2
    <2> QED BY <1>2, <2>1, <2>2, <2>3
  <1>5. handler[c] = "closed"
    <2>1. handler[c] \notin {"none", "request", "start", "stop", "unread", "launch", "qr", "reply"}
      BY <1>1, <1>2, <1>4 DEF Progress
    <2> QED BY <2>1 DEF TypeOK, Busy
  <1>6. sent[c][Len(a) - 1] \in Verdicts /\ Len(a) - 1 \in DOMAIN sent[c]
    <2>1. Len(a) - 1 \in 1 .. NSent(c) /\ Len(a) - 1 \in 1 .. Len(a)
      BY <1>4
    <2>2. a[Len(a) - 1] \in Verdicts
      BY <2>1, AnswerShape
    <2> QED BY <1>1, <1>2, <2>1, <2>2 DEF Follows
  <1> QED BY <1>5, <1>6 DEF Has, Verdicts

LEMMA PlaceKept == ASSUME TypeOK, StreamInv, PlaceInv, [Next]_vars PROVE PlaceInv'
  <1> DEFINE Placed(c) ==
        /\ pc[c] = "new" => handler[c] = "none"
        /\ handler[c] = "none" => pc[c] \in {"new", "ended"}
        /\ pc[c] = "ended" => handler[c] \in {"none", "closed", "unread"}
        /\ pc[c] # "ended" => exit[c] = "none"
        /\ handler[c] = "unread" => c \in cut
        /\ handler[c] = "start" => op[c] = "start"
        /\ handler[c] = "stop" => op[c] = "stop"
        /\ handler[c] \in {"launch", "qr"} => op[c] = "bind"
  <1> SUFFICES ASSUME NEW c \in Clients PROVE Placed(c)'
    BY DEF PlaceInv
  <1>0. Placed(c)
    BY DEF PlaceInv
  <1>1. CASE UNCHANGED <<pc[c], handler[c], op[c], exit[c]>> /\ cut \subseteq cut'
    BY <1>0, <1>1
  <1>2. CASE Connect(c)
    BY <1>0, <1>2 DEF Connect, TypeOK, history
  <1>3. CASE NoDaemon(c)
    BY <1>0, <1>3 DEF NoDaemon, Exit, TypeOK, history, connection
  <1>4. CASE ReadDone(c) \/ EndOfStream(c)
    <2>1. /\ pc[c] = "reading" /\ pc'[c] = "ended" /\ UNCHANGED <<handler, op, cut>>
          /\ Has(sent[c], "done") \/ handler[c] \in {"closed", "unread"}
      BY <1>4 DEF ReadDone, EndOfStream, Exit, TypeOK, history, connection, Has
    <2>2. handler[c] \in {"closed", "unread"}
      BY <2>1, DoneIsLast DEF StreamInv
    <2> QED BY <1>0, <2>1, <2>2
  <1>5. CASE Leave(c)
    BY <1>0, <1>5 DEF Leave, TypeOK, history
  <1>6. CASE Handle(c)
    <2>1. UNCHANGED <<pc, op, exit, cut>>
      BY <1>6, HandleFrame DEF client
    <2> QED BY <1>0, <1>6, <2>1, HandleYields
  <1>7. CASE Emit(c)
    <2>1. UNCHANGED <<pc, op, exit, cut>>
      BY <1>7, EmitMoves DEF client, history
    <2> QED BY <1>0, <1>7, <2>1, EmitMoves
  <1>8. ASSUME NEW d \in Daemons, Die(d) PROVE Placed(c)'
    <2>1. /\ UNCHANGED <<pc, op, exit>> /\ cut \subseteq cut'
          /\ \/ handler'[c] = handler[c]
             \/ handler[c] = "request" /\ handler'[c] = "unread" /\ c \in cut'
             \/ handler[c] \in Busy /\ handler'[c] = "closed"
      BY <1>8 DEF Die, client
    <2> QED BY <1>0, <2>1 DEF Busy
  <1>9. ASSUME NEW b \in Clients \ {c}, RunOp(b) \/ Leave(b) \/ HandleClient(b) PROVE Placed(c)'
    <2>1. CASE RunOp(b) \/ Leave(b)
      BY <1>1, <1>9, <2>1 DEF RunOp, Connect, NoDaemon, ReadDone, EndOfStream, Leave, Exit, TypeOK,
                         history, connection, client
    <2>2. CASE Handle(b)
      BY <1>1, <1>9, <2>2, HandleFrame, HandleYields DEF client
    <2>3. CASE Emit(b)
      BY <1>1, <1>9, <2>3, EmitMoves DEF client, history
    <2> QED BY <1>9, <2>1, <2>2, <2>3 DEF HandleClient
  <1>10. ASSUME NEW b \in Clients, Flow(b) PROVE Placed(c)'
    BY <1>1, <1>10 DEF Flow, ShowQR, FlowFails, Scan, PushEnds, client, connection, history
  <1>11. ASSUME NEW d \in Daemons, Serve(d) \/ Restore(d) PROVE Placed(c)'
    BY <1>1, <1>11, RestoreSteps DEF Serve, client, connection, history
  <1>12. CASE UNCHANGED vars
    BY <1>1, <1>12 DEF vars, client, connection, history
  <1> HIDE DEF Placed
  <1> QED BY <1>2, <1>3, <1>4, <1>5, <1>6, <1>7, <1>8, <1>9, <1>10, <1>11, <1>12
          DEF Next, RunOp, HandleClient, Restore

\* What another client does is no concern of a stream.
LEMMA StreamStays ==
    ASSUME NEW c \in Clients, OnItsWay(c), UNCHANGED <<handler[c], out[c], sent[c]>>,
           cut \subseteq cut'
    PROVE  OnItsWay(c)'
  BY DEF OnItsWay, Follows, Progress, NSent, NLeft

LEMMA StreamHandled ==
    ASSUME TypeOK, NEW c \in Clients, OnItsWay(c), Handle(c)
    PROVE  OnItsWay(c)'
  <1>1. PICK a \in Answers : Follows(c, a) /\ Progress(c, a)
    BY DEF OnItsWay
  <1>2. /\ NSent(c) \in Nat /\ NLeft(c) \in Nat /\ sent'[c] = sent[c] /\ cut' = cut
        /\ NSent(c)' = NSent(c)
    BY Counts, HandleFrame DEF NSent
  <1>3. CASE /\ handler[c] \in {"request", "start", "stop"} /\ handler'[c] = "reply"
             /\ \E v \in Verdicts : out'[c] = <<v, "done">>
    <2>1. PICK v \in Verdicts : out'[c] = <<v, "done">>
      BY <1>3
    <2>2. NSent(c)' = 0
      BY <1>1, <1>2, <1>3 DEF Progress
    <2>3. <<v, "done">> \in Answers /\ Len(<<v, "done">>) = 2 /\ NLeft(c)' = 2
      BY <2>1 DEF Answers, Verdicts, NLeft
    <2>4. Follows(c, <<v, "done">>)' /\ Progress(c, <<v, "done">>)'
      BY <1>3, <2>1, <2>2, <2>3 DEF Follows, Progress
    <2> QED BY <2>3, <2>4 DEF OnItsWay
  <1>4. CASE handler[c] = "request" /\ handler'[c] \in {"start", "stop"} /\ out'[c] = out[c]
    <2>1. NLeft(c)' = NLeft(c)
      BY <1>4 DEF NLeft
    <2> QED BY <1>1, <1>2, <1>4, <2>1 DEF OnItsWay, Follows, Progress
  <1>5. CASE handler[c] = "request" /\ handler'[c] = "launch" /\ out'[c] = <<"log">>
    <2> DEFINE b == <<"log", "fail", "done">>
    <2>1. b \in Answers /\ NSent(c)' = 0 /\ NLeft(c)' = 1 /\ Len(b) = 3
      BY <1>1, <1>2, <1>5 DEF Answers, Progress, NLeft
    <2>2. Follows(c, b)' /\ Progress(c, b)'
      BY <1>5, <2>1 DEF Follows, Progress
    <2> QED BY <2>1, <2>2 DEF OnItsWay
  <1>6. CASE handler[c] = "launch" /\ handler'[c] = "qr" /\ out[c] = << >> /\ out'[c] = out[c]
    <2>1. NLeft(c)' = NLeft(c) /\ NLeft(c) = 0
      BY <1>6, Counts DEF NLeft
    <2> QED BY <1>1, <1>2, <1>6, <2>1 DEF OnItsWay, Follows, Progress
  <1>7. CASE /\ handler[c] = "qr" /\ handler'[c] = "reply"
             /\ out'[c] \in {<<"qr", "ok", "done">>, <<"fail", "done">>}
    <2>1. NSent(c)' = 1 /\ sent'[c][1] = "log"
      BY <1>1, <1>2, <1>7 DEF Progress, Follows
    <2>2. CASE out'[c] = <<"qr", "ok", "done">>
      <3> DEFINE b == <<"log", "qr", "ok", "done">>
      <3>1. b \in Answers /\ NLeft(c)' = 3 /\ Len(b) = 4
        BY <2>2 DEF Answers, NLeft
      <3>2. Follows(c, b)'
        BY <2>1, <2>2, <3>1 DEF Follows
      <3>3. Progress(c, b)'
        BY <1>7, <2>1, <3>1 DEF Progress
      <3> QED BY <3>1, <3>2, <3>3 DEF OnItsWay
    <2>3. CASE out'[c] = <<"fail", "done">>
      <3> DEFINE b == <<"log", "fail", "done">>
      <3>1. b \in Answers /\ NLeft(c)' = 2 /\ Len(b) = 3
        BY <2>3 DEF Answers, NLeft
      <3>2. Follows(c, b)'
        BY <2>1, <2>3, <3>1 DEF Follows
      <3>3. Progress(c, b)'
        BY <1>7, <2>1, <3>1 DEF Progress
      <3> QED BY <3>1, <3>2, <3>3 DEF OnItsWay
    <2> QED BY <1>7, <2>2, <2>3
  <1> QED BY <1>3, <1>4, <1>5, <1>6, <1>7, HandleYields

LEMMA StreamEmitted ==
    ASSUME TypeOK, NEW c \in Clients, OnItsWay(c), pc[c] # "gone", Emit(c)
    PROVE  OnItsWay(c)'
  <1>1. PICK a \in Answers : Follows(c, a) /\ Progress(c, a)
    BY DEF OnItsWay
  <1>2. /\ sent[c] \in Seq(Events) /\ out[c] \in Seq(Events) /\ out[c] # << >>
        /\ out'[c] = Tail(out[c]) /\ sent'[c] = Append(sent[c], Head(out[c])) /\ cut' = cut
        /\ handler'[c] = IF NLeft(c) = 1 /\ handler[c] = "reply" THEN "closed" ELSE handler[c]
    BY EmitMoves DEF TypeOK, history, NLeft
  <1>3. /\ NSent(c) \in Nat /\ NLeft(c) \in Nat \ {0}
    BY <1>2, Counts
  <1>4. /\ NLeft(c)' = NLeft(c) - 1 /\ Head(out[c]) \in Events /\ Head(out[c]) = out[c][1]
        /\ \A i \in 1 .. NLeft(c)' : out'[c][i] = out[c][i + 1]
    BY <1>2, HeadTailProperties DEF NLeft
  <1>5. /\ NSent(c)' = NSent(c) + 1
        /\ \A i \in 1 .. NSent(c) : sent'[c][i] = sent[c][i]
        /\ sent'[c][NSent(c) + 1] = out[c][1]
    BY <1>2, <1>4, AppendProperties DEF NSent
  <1>6. (NSent(c) + NLeft(c))' = NSent(c) + NLeft(c)
    BY <1>3, <1>4, <1>5
  <1>7. Follows(c, a)'
    <2>1. ASSUME NEW i \in 1 .. NSent(c)' PROVE sent'[c][i] = a[i]
      <3>1. CASE i = NSent(c) + 1
        <4>1. 1 \in 1 .. NLeft(c)
          BY <1>3
        <4>2. out[c][1] = a[NSent(c) + 1]
          BY <1>1, <4>1 DEF Follows
        <4> QED BY <1>5, <3>1, <4>2
      <3>2. CASE i \in 1 .. NSent(c)
        BY <1>1, <1>5, <3>2 DEF Follows
      <3> QED BY <1>3, <1>5, <3>1, <3>2
    <2>2. ASSUME NEW i \in 1 .. NLeft(c)' PROVE out'[c][i] = a[NSent(c)' + i]
      <3>1. i + 1 \in 1 .. NLeft(c) /\ NSent(c) + (i + 1) = NSent(c)' + i
        BY <1>3, <1>4, <1>5
      <3>2. out[c][i + 1] = a[NSent(c) + (i + 1)]
        BY <1>1, <3>1 DEF Follows
      <3> QED BY <1>4, <3>1, <3>2
    <2> QED BY <1>1, <1>6, <2>1, <2>2 DEF Follows
  <1>8. Progress(c, a)'
    <2>1. handler[c] \in {"launch", "reply"}
      <3>1. handler[c] \notin {"none", "request", "start", "stop", "unread", "qr", "closed"}
        BY <1>1, <1>3 DEF Progress
      <3> QED BY <3>1 DEF TypeOK, Busy
    <2>2. CASE handler[c] = "launch"
      BY <1>1, <1>2, <1>6, <2>2 DEF Progress
    <2>3. CASE handler[c] = "reply"
      <3>1. NLeft(c)' = 0 <=> NLeft(c) = 1
        BY <1>3, <1>4
      <3>2. (NSent(c) + NLeft(c))' = Len(a)
        BY <1>1, <1>6, <2>3 DEF Progress
      <3>3. NLeft(c)' = 0 => NSent(c)' = Len(a)
        BY <1>3, <1>4, <1>5, <3>2
      <3> QED BY <1>2, <2>3, <3>1, <3>2, <3>3 DEF Progress
    <2> QED BY <2>1, <2>2, <2>3
  <1> QED BY <1>7, <1>8 DEF OnItsWay

\* Whose step it can be that changes a connection.
LEMMA StepsOf ==
    ASSUME TypeOK, [Next]_vars, NEW c \in Clients
    PROVE  \/ RunOp(c) \/ Leave(c) \/ HandleClient(c)
           \/ \E d \in Daemons : Die(d)
           \/ UNCHANGED <<pc[c], exit[c], handler[c], out[c], sent[c]>> /\ cut' = cut
  <1>1. ASSUME NEW b \in Clients \ {c}, RunOp(b) \/ Leave(b)
        PROVE  UNCHANGED <<pc[c], exit[c], handler[c], out[c], sent[c]>> /\ cut' = cut
    BY <1>1 DEF RunOp, Connect, NoDaemon, ReadDone, EndOfStream, Leave, Exit, TypeOK, connection,
                history
  <1>2. ASSUME NEW b \in Clients \ {c}, Handle(b)
        PROVE  UNCHANGED <<pc[c], exit[c], handler[c], out[c], sent[c]>> /\ cut' = cut
    BY <1>2, HandleFrame, HandleYields DEF client
  <1>3. ASSUME NEW b \in Clients \ {c}, Emit(b)
        PROVE  UNCHANGED <<pc[c], exit[c], handler[c], out[c], sent[c]>> /\ cut' = cut
    BY <1>3, EmitMoves DEF client, history
  <1>4. ASSUME UNCHANGED <<client, connection, cut>>
        PROVE  UNCHANGED <<pc[c], exit[c], handler[c], out[c], sent[c]>> /\ cut' = cut
    BY <1>4 DEF client, connection
  <1>5. ASSUME NEW b \in Clients, Flow(b) PROVE UNCHANGED <<client, connection, cut>>
    BY <1>5 DEF Flow, ShowQR, FlowFails, Scan, PushEnds, history
  <1>6. ASSUME NEW d \in Daemons, Serve(d) \/ Restore(d)
        PROVE  UNCHANGED <<client, connection, cut>>
    BY <1>6, RestoreSteps DEF Serve, history
  <1> QED BY <1>1, <1>2, <1>3, <1>4, <1>5, <1>6 DEF Next, HandleClient, Restore, vars, history

LEMMA StreamKept == ASSUME TypeOK, StreamInv, PlaceInv, [Next]_vars PROVE StreamInv'
  <1> SUFFICES ASSUME NEW c \in Clients, pc'[c] # "gone" PROVE OnItsWay(c)'
    BY DEF StreamInv
  <1>0. pc[c] # "gone" /\ OnItsWay(c)
    <2>1. ASSUME pc[c] = "gone" PROVE pc'[c] = "gone"
      <3>1. ~RunOp(c) /\ ~Leave(c)
        BY <2>1 DEF RunOp, Connect, NoDaemon, ReadDone, EndOfStream, Leave
      <3>2. HandleClient(c) => UNCHANGED pc
        BY HandleFrame, EmitMoves DEF HandleClient, client
      <3>3. ASSUME NEW d \in Daemons, Die(d) PROVE UNCHANGED pc
        BY <3>3 DEF Die, client
      <3> QED BY <2>1, <3>1, <3>2, <3>3, StepsOf
    <2> QED BY <2>1 DEF StreamInv
  <1>1. CASE UNCHANGED <<handler[c], out[c], sent[c]>> /\ cut \subseteq cut'
    BY <1>0, <1>1, StreamStays
  <1>2. CASE Connect(c)
    <2>1. handler[c] = "none" /\ handler'[c] = "request" /\ UNCHANGED <<out, sent, cut>>
      BY <1>2 DEF Connect, PlaceInv, TypeOK, history
    <2> QED BY <1>0, <2>1 DEF OnItsWay, Follows, Progress, NSent, NLeft
  <1>3. CASE Handle(c)
    BY <1>0, <1>3, StreamHandled
  <1>4. CASE Emit(c)
    BY <1>0, <1>4, StreamEmitted
  <1>5. CASE NoDaemon(c) \/ ReadDone(c) \/ EndOfStream(c)
    BY <1>1, <1>5 DEF NoDaemon, ReadDone, EndOfStream, connection, history
  <1>6. ASSUME NEW d \in Daemons, Die(d) PROVE OnItsWay(c)'
    <2>1. /\ sent' = sent /\ cut \subseteq cut'
          /\ \/ handler'[c] = handler[c] /\ out'[c] = out[c]
             \/ handler[c] = "request" /\ handler'[c] = "unread" /\ out'[c] = << >>
             \/ handler'[c] = "closed" /\ out'[c] = << >> /\ c \in cut'
      BY <1>6 DEF Die, client
    <2>2. PICK a \in Answers : Follows(c, a) /\ Progress(c, a)
      BY <1>0 DEF OnItsWay
    <2>3. CASE out'[c] = << >> /\ handler'[c] \in {"unread", "closed"}
               /\ (handler'[c] = "unread" => handler[c] = "request") /\ (handler'[c] = "closed" => c \in cut')
      <3>1. NSent(c)' = NSent(c) /\ NLeft(c)' = 0 /\ NSent(c) \in Nat /\ NLeft(c) \in Nat
        BY <2>1, <2>3, Counts, EmptySeq DEF NSent, NLeft
      <3>2. NSent(c)' + NLeft(c)' <= Len(a)
        <4>1. Len(a) \in 2 .. 4 /\ NSent(c) + NLeft(c) <= Len(a)
          BY <2>2, AnswerShape DEF Follows
        <4> QED BY <3>1, <4>1
      <3>3. Follows(c, a)'
        BY <2>1, <2>2, <3>1, <3>2 DEF Follows
      <3>4. Progress(c, a)'
        BY <2>2, <2>3, <3>1 DEF Progress
      <3> QED BY <3>3, <3>4 DEF OnItsWay
    <2> QED BY <1>1, <2>1, <2>3
  <1>7. ASSUME NEW b \in Clients \ {c}, RunOp(b) \/ Leave(b) \/ HandleClient(b) PROVE OnItsWay(c)'
    <2>1. CASE RunOp(b) \/ Leave(b)
      BY <1>1, <1>7, <2>1 DEF RunOp, Connect, NoDaemon, ReadDone, EndOfStream, Leave, TypeOK,
                              history, connection
    <2>2. CASE Handle(b)
      BY <1>1, <1>7, <2>2, HandleFrame, HandleYields
    <2>3. CASE Emit(b)
      BY <1>1, <1>7, <2>3, EmitMoves DEF history
    <2> QED BY <1>7, <2>1, <2>2, <2>3 DEF HandleClient
  <1>8. ASSUME NEW b \in Clients, Flow(b) PROVE OnItsWay(c)'
    BY <1>1, <1>8 DEF Flow, ShowQR, FlowFails, Scan, PushEnds, connection, history
  <1>9. ASSUME NEW d \in Daemons, Serve(d) \/ Restore(d) PROVE OnItsWay(c)'
    BY <1>1, <1>9, RestoreSteps DEF Serve, connection, history
  <1>10. CASE UNCHANGED vars
    BY <1>1, <1>10 DEF vars, connection, history
  <1>11. CASE Leave(c)
    BY <1>11 DEF Leave, TypeOK
  <1> QED BY <1>2, <1>3, <1>4, <1>5, <1>6, <1>7, <1>8, <1>9, <1>10, <1>11
          DEF Next, RunOp, HandleClient, Restore

\* What a connection has yielded is the beginning of an answer.
LEMMA StreamIsPrefix ==
    ASSUME TypeOK, NEW c \in Clients, NEW a \in Answers, Follows(c, a)
    PROVE  /\ DOMAIN Stream(c) = 1 .. NSent(c) + NLeft(c)
           /\ Len(Stream(c)) = NSent(c) + NLeft(c)
           /\ NSent(c) + NLeft(c) \in Nat /\ NSent(c) + NLeft(c) <= Len(a)
           /\ \A i \in 1 .. NSent(c) + NLeft(c) : Stream(c)[i] = a[i]
  <1>1. sent[c] \in Seq(Events) /\ out[c] \in Seq(Events)
    BY DEF TypeOK
  <1>2. /\ Stream(c) \in Seq(Events) /\ Len(Stream(c)) = NSent(c) + NLeft(c)
        /\ \A i \in 1 .. NSent(c) + NLeft(c) :
                Stream(c)[i] = IF i <= NSent(c) THEN sent[c][i] ELSE out[c][i - NSent(c)]
    BY <1>1, ConcatProperties DEF Stream, NSent, NLeft
  <1>3. DOMAIN Stream(c) = 1 .. NSent(c) + NLeft(c)
    BY <1>2, LenProperties
  <1>4. NSent(c) \in Nat /\ NLeft(c) \in Nat
    BY Counts
  <1>5. NSent(c) + NLeft(c) \in Nat /\ NSent(c) + NLeft(c) <= Len(a)
    BY <1>4 DEF Follows
  <1>6. ASSUME NEW i \in 1 .. NSent(c) + NLeft(c) PROVE Stream(c)[i] = a[i]
    <2>1. CASE i <= NSent(c)
      <3>1. i \in 1 .. NSent(c)
        BY <1>4, <2>1
      <3>2. sent[c][i] = a[i]
        BY <3>1 DEF Follows
      <3> QED BY <1>2, <2>1, <3>2
    <2>2. CASE ~(i <= NSent(c))
      <3>1. i - NSent(c) \in 1 .. NLeft(c) /\ NSent(c) + (i - NSent(c)) = i
        BY <1>4, <2>2
      <3>2. out[c][i - NSent(c)] = a[NSent(c) + (i - NSent(c))]
        BY <3>1 DEF Follows
      <3> QED BY <1>2, <2>2, <3>1, <3>2
    <2> QED BY <2>1, <2>2
  <1> QED BY <1>2, <1>3, <1>5, <1>6

LEMMA StreamInvariant == Spec => [](TypeInv /\ PlaceInv /\ StreamInv)
<1>1. Init => PlaceInv /\ StreamInv
  <2> SUFFICES ASSUME Init PROVE PlaceInv /\ StreamInv
    OBVIOUS
  <2>1. PlaceInv
    BY DEF Init, PlaceInv
  <2>2. ASSUME NEW c \in Clients PROVE OnItsWay(c)
    <3>1. <<"ok", "done">> \in Answers /\ NSent(c) = 0 /\ NLeft(c) = 0 /\ Len(<<"ok", "done">>) = 2
      BY EmptySeq DEF Init, Answers, NSent, NLeft
    <3>2. Follows(c, <<"ok", "done">>) /\ Progress(c, <<"ok", "done">>)
      BY <3>1 DEF Init, Follows, Progress
    <3> QED BY <3>1, <3>2 DEF OnItsWay
  <2> QED BY <2>1, <2>2 DEF StreamInv
<1>2. TypeInv /\ PlaceInv /\ StreamInv /\ [Next]_vars => (PlaceInv /\ StreamInv)'
  BY PlaceKept, StreamKept DEF TypeInv
<1> QED BY <1>1, <1>2, TypeInvariant, PTL DEF Spec

\* Every request is answered by one verdict, then done, then nothing; only a death
\* of the daemon leaves a stream without them.
THEOREM VerdictIsOne == Spec => []OneVerdict
<1>1. TypeInv /\ StreamInv => OneVerdict
  <2> SUFFICES ASSUME TypeInv, StreamInv, NEW c \in Clients, pc[c] # "gone"
               PROVE  LET s == Stream(c)
                          verdicts == {i \in DOMAIN s : s[i] \in Verdicts}
                      IN  /\ Cardinality(verdicts) <= 1
                          /\ \A i \in DOMAIN s : s[i] = "done" => i = Len(s) /\ i - 1 \in verdicts
                          /\ handler[c] = "closed" /\ c \notin cut => Has(s, "done")
    BY DEF OneVerdict
  <2> DEFINE s == Stream(c)
             verdicts == {i \in DOMAIN s : s[i] \in Verdicts}
  <2>1. PICK a \in Answers : Follows(c, a) /\ Progress(c, a)
    BY DEF StreamInv, OnItsWay
  <2>2. /\ Len(a) \in 2 .. 4
        /\ \A i \in 1 .. Len(a) : a[i] = "done" <=> i = Len(a)
        /\ \A i \in 1 .. Len(a) : a[i] \in Verdicts <=> i = Len(a) - 1
    BY AnswerShape
  <2>3. /\ DOMAIN s = 1 .. Len(s) /\ Len(s) \in Nat /\ Len(s) <= Len(a)
        /\ \A i \in 1 .. Len(s) : s[i] = a[i]
    BY <2>1, StreamIsPrefix DEF TypeInv
  <2>4. handler[c] = "closed" /\ c \notin cut => Len(s) = Len(a)
    <3>1. handler[c] = "closed" /\ c \notin cut => NSent(c) = Len(a) /\ NLeft(c) = 0
      BY <2>1 DEF Progress
    <3>2. Len(s) = NSent(c) + NLeft(c) /\ Len(a) \in Nat
      BY <2>1, <2>2, StreamIsPrefix DEF TypeInv
    <3> HIDE DEF s
    <3> QED BY <3>1, <3>2
  <2> HIDE DEF s
  <2>5. verdicts \subseteq {Len(a) - 1}
    BY <2>2, <2>3
  <2>6. Cardinality(verdicts) <= 1
    <3>1. IsFiniteSet({Len(a) - 1}) /\ Cardinality({Len(a) - 1}) = 1
      BY FS_Singleton
    <3>2. Cardinality(verdicts) <= Cardinality({Len(a) - 1})
      BY <2>5, <3>1, FS_Subset
    <3> QED BY <3>1, <3>2
  <2>7. ASSUME NEW i \in DOMAIN s, s[i] = "done" PROVE i = Len(s) /\ i - 1 \in verdicts
    <3>1. i = Len(a) /\ i = Len(s)
      BY <2>2, <2>3, <2>7
    <3>2. i - 1 \in 1 .. Len(s) /\ i - 1 \in 1 .. Len(a) /\ i - 1 = Len(a) - 1
      BY <2>2, <3>1
    <3>3. s[i - 1] \in Verdicts
      BY <2>2, <2>3, <3>2
    <3> QED BY <2>3, <3>1, <3>2, <3>3
  <2>8. handler[c] = "closed" /\ c \notin cut => Has(s, "done")
    <3> SUFFICES ASSUME Len(s) = Len(a) PROVE Has(s, "done")
      BY <2>4
    <3>1. Len(s) \in DOMAIN s /\ s[Len(s)] = "done"
      <4>1. Len(a) \in 1 .. Len(a)
        BY <2>2
      <4>2. Len(a) \in DOMAIN s /\ s[Len(a)] = a[Len(a)]
        BY <2>3, <4>1
      <4> QED BY <2>2, <4>1, <4>2
    <3> QED BY <3>1 DEF Has
  <2> QED BY <2>6, <2>7, <2>8 DEF s
<1> QED BY <1>1, StreamInvariant, PTL

-----------------------------------------------------------------------------
(* The exit code.                                                          *)

\* A stream that has ended holds a verdict, unless it was cut off.
LEMMA ClosedHasVerdict ==
    ASSUME TypeOK, NEW c \in Clients, OnItsWay(c), handler[c] = "closed", c \notin cut
    PROVE  Has(sent[c], "ok") \/ Has(sent[c], "fail")
  <1>1. PICK a \in Answers : Follows(c, a) /\ NSent(c) = Len(a)
    BY DEF OnItsWay, Progress
  <1>2. Len(a) - 1 \in 1 .. Len(a)
    BY AnswerShape
  <1>3. a[Len(a) - 1] \in Verdicts
    BY <1>2, AnswerShape
  <1>4. Len(a) - 1 \in DOMAIN sent[c]
    BY <1>1, <1>2, Counts
  <1>5. sent[c][Len(a) - 1] \in Verdicts
    BY <1>1, <1>2, <1>3 DEF Follows
  <1> QED BY <1>4, <1>5 DEF Has, Verdicts

LEMMA ExitKept ==
    ASSUME TypeOK, PlaceInv, StreamInv, ExitCodeHonest, [Next]_vars
    PROVE  ExitCodeHonest'
  <1> DEFINE Honest(c) == /\ exit[c] = "ok" => Has(sent[c], "ok") \/ c \in cut
                          /\ exit[c] = "failed" => Has(sent[c], "fail")
                          /\ Has(sent[c], "fail") /\ pc[c] = "ended" => exit[c] = "failed"
  <1> SUFFICES ASSUME NEW c \in Clients PROVE Honest(c)'
    BY DEF ExitCodeHonest
  <1>1. CASE pc'[c] # "ended"
    BY <1>1, PlaceKept DEF PlaceInv
  <1>2. CASE pc[c] = "ended"
    <2>1. out[c] = << >>
      <3>1. handler[c] \in {"none", "closed", "unread"} /\ OnItsWay(c)
        BY <1>2 DEF PlaceInv, StreamInv
      <3>2. NLeft(c) = 0
        BY <3>1 DEF OnItsWay, Progress
      <3> QED BY <3>2, Counts
    <2>2. UNCHANGED <<exit[c], sent[c], pc[c]>> /\ cut \subseteq cut'
      <3>1. ~RunOp(c) /\ ~Leave(c) /\ ~Emit(c)
        BY <1>2, <2>1 DEF RunOp, Connect, NoDaemon, ReadDone, EndOfStream, Leave, Emit
      <3>2. ASSUME Handle(c) PROVE FALSE
        BY <1>2, <3>2, HandleYields DEF PlaceInv
      <3>3. ASSUME NEW d \in Daemons, Die(d)
            PROVE  UNCHANGED <<exit[c], sent[c], pc[c]>> /\ cut \subseteq cut'
        BY <3>3 DEF Die, client
      <3> QED BY <3>1, <3>2, <3>3, StepsOf DEF HandleClient
    <2> QED BY <2>2 DEF ExitCodeHonest
  <1>3. CASE pc[c] # "ended" /\ pc'[c] = "ended"
    <2>1. /\ NoDaemon(c) \/ ReadDone(c) \/ EndOfStream(c)
          /\ UNCHANGED <<sent, cut, handler>>
      <3>1. ASSUME Connect(c) \/ Leave(c) PROVE FALSE
        BY <1>3, <3>1 DEF Connect, Leave, TypeOK
      <3>2. ASSUME HandleClient(c) PROVE FALSE
        BY <1>3, <3>2, HandleFrame, EmitMoves DEF HandleClient, client
      <3>3. ASSUME NEW d \in Daemons, Die(d) PROVE FALSE
        BY <1>3, <3>3 DEF Die, client
      <3>4. NoDaemon(c) \/ ReadDone(c) \/ EndOfStream(c)
        BY <1>3, <3>1, <3>2, <3>3, StepsOf DEF RunOp
      <3> QED BY <3>4 DEF NoDaemon, ReadDone, EndOfStream, connection, history
    <2>2. ASSUME handler[c] \in {"none", "unread"} PROVE ~Has(sent[c], "fail")
      <3>1. OnItsWay(c)
        BY <2>1 DEF StreamInv, NoDaemon, ReadDone, EndOfStream
      <3>2. NSent(c) = 0
        BY <2>2, <3>1 DEF OnItsWay, Progress
      <3> QED BY <3>2, Counts DEF Has
    <2>3. CASE NoDaemon(c)
      <3>1. handler[c] = "none" /\ exit'[c] \in {"traceback", "no daemon"}
        BY <2>3 DEF NoDaemon, Exit, PlaceInv, TypeOK
      <3> QED BY <2>1, <2>2, <3>1
    <2>4. CASE exit'[c] = ExitOf(sent[c]) /\ pc[c] = "reading"
               /\ (Has(sent[c], "done") \/ handler[c] \in {"closed", "unread"})
      <3>1. OnItsWay(c)
        BY <2>4 DEF StreamInv
      <3>2. c \in cut \/ Has(sent[c], "ok") \/ Has(sent[c], "fail")
        BY <2>4, <3>1, DoneIsLast, ClosedHasVerdict DEF PlaceInv
      <3> QED BY <2>1, <2>4, <3>2 DEF ExitOf, Failed, Has
    <2>5. CASE exit'[c] = "traceback" /\ handler[c] = "unread"
      BY <2>1, <2>2, <2>5
    <2> QED BY <2>1, <2>3, <2>4, <2>5 DEF ReadDone, EndOfStream, Exit, TypeOK, Has
  <1> QED BY <1>1, <1>2, <1>3

\* The exit code is 0 only after an ok, and 1 exactly after a fail, unless the
\* daemon died in the middle.
THEOREM ExitIsHonest == Spec => []ExitCodeHonest
<1>1. Init => ExitCodeHonest
  BY DEF Init, ExitCodeHonest, Has
<1>2. TypeInv /\ PlaceInv /\ StreamInv /\ ExitCodeHonest /\ [Next]_vars => ExitCodeHonest'
  BY ExitKept DEF TypeInv
<1> QED BY <1>1, <1>2, StreamInvariant, PTL DEF Spec

-----------------------------------------------------------------------------
(* What the verdicts say.                                                  *)

\* The actions that yield a verdict, and what they find.
LEMMA VerdictSteps ==
    ASSUME TypeOK, PlaceInv, [Next]_vars, NEW c \in Clients, NEW v \in Verdicts, Given(c, v)
    PROVE  /\ Handle(c) /\ Has(out'[c], v) /\ out'[c] # out[c]
           /\ op[c] = "stop" => StopEnds(c) \/ StopNothing(c)
  <1>1. Has(out'[c], v) /\ ~Has(out[c], v)
    <2>1. sent[c] \in Seq(Events) /\ out[c] \in Seq(Events)
      BY DEF TypeOK
    <2>2. ASSUME NEW i \in DOMAIN out[c], out[c][i] = v PROVE Has(Stream(c), v)
      <3>1. /\ i \in 1 .. NLeft(c) /\ NSent(c) \in Nat /\ NLeft(c) \in Nat
        BY Counts
      <3>2. NSent(c) + i \in 1 .. NSent(c) + NLeft(c) /\ ~(NSent(c) + i <= NSent(c))
            /\ (NSent(c) + i) - NSent(c) = i
        BY <3>1
      <3>3. /\ Stream(c) \in Seq(Events) /\ Len(Stream(c)) = NSent(c) + NLeft(c)
            /\ Stream(c)[NSent(c) + i] = out[c][i]
        BY <2>1, <3>2, ConcatProperties DEF Stream, NSent, NLeft
      <3>4. NSent(c) + i \in DOMAIN Stream(c)
        BY <3>2, <3>3, LenProperties
      <3> QED BY <2>2, <3>3, <3>4 DEF Has
    <2> QED BY <2>2 DEF Given, Has
  <1>2. out'[c] # out[c]
    BY <1>1
  <1>3. Handle(c)
    <2>1. ASSUME NEW b \in Clients \ {c} PROVE ~Handle(b) /\ ~Emit(b)
      BY <1>2, <2>1, HandleYields, EmitMoves
    <2>2. ~Emit(c)
      BY <1>1, EmitMoves DEF Verdicts, Events
    <2>3. ASSUME NEW d \in Daemons, Die(d) PROVE FALSE
      <3>1. out'[c] = << >>
        BY <1>2, <2>3 DEF Die
      <3> QED BY <1>1, <3>1 DEF Has
    <2> QED BY <1>2, <2>1, <2>2, <2>3
            DEF vars, Next, RunOp, Connect, NoDaemon, ReadDone, EndOfStream, Leave, HandleClient,
                Flow, ShowQR, FlowFails, Scan, PushEnds, Serve, RestoreStarts, RestoreEnds,
                connection
  <1>4. op[c] = "stop" => StopEnds(c) \/ StopNothing(c)
    BY <1>2, <1>3 DEF PlaceInv, Handle, Ping, StartRefused, Start, StartEnds, Stop, UnbindRefused,
                      Unbind, BindRefused, Bind, Launch, AwaitingScan, TimeOut, Receive
  <1> QED BY <1>1, <1>2, <1>3, <1>4

\* How a handler changes who runs and who is pending.
LEMMA OwnerSteps ==
    ASSUME TypeOK, NEW c \in Clients, Handle(c), NEW d \in Daemons
    PROVE  /\ \/ running'[d] \in {running[d], None}
              \/ /\ running'[d] = c /\ handler[c] = "start"
                 /\ out'[c] = <<"ok", "done">> \/ c \in unmarked'
           /\ \/ pending'[d] \in {pending[d], None}
              \/ pending'[d] = c /\ handler[c] = "launch" /\ server[c] = d
           /\ handler[c] = "qr" /\ server[c] = d =>
                out'[c] = <<"qr", "ok", "done">> \/ pending'[d] = None
  <1>0. /\ running \in [Daemons -> Clients \cup Daemons \cup {None}]
        /\ pending \in [Daemons -> Clients \cup {None}] /\ out \in [Clients -> Seq(Events)]
    BY DEF TypeOK
  <1>1. CASE StartEnds(c)
    BY <1>0, <1>1 DEF StartEnds, Answer, Yield, Register
  <1>2. CASE Launch(c)
    BY <1>0, <1>2 DEF Launch
  <1>3. CASE AwaitingScan(c)
    BY <1>0, <1>3 DEF AwaitingScan, Yield, service
  <1>4. CASE TimeOut(c)
    BY <1>0, <1>4 DEF TimeOut, Pop
  <1>5. CASE Stop(c)
    BY <1>0, <1>5 DEF Stop, Deregister, Receive
  <1>6. CASE Ping(c) \/ StartRefused(c) \/ Start(c) \/ StopNothing(c) \/ StopEnds(c)
             \/ UnbindRefused(c) \/ Unbind(c) \/ BindRefused(c) \/ Bind(c)
    <2>1. UNCHANGED <<running, pending>> /\ handler[c] # "qr"
      BY <1>6 DEF Ping, StartRefused, Start, StopNothing, StopEnds, UnbindRefused, Unbind,
                  BindRefused, Bind, Receive, service
    <2> QED BY <2>1
  <1> QED BY <1>1, <1>2, <1>3, <1>4, <1>5, <1>6 DEF Handle

LEMMA OwnerKept == ASSUME TypeOK, PlaceInv, OwnerInv, [Next]_vars PROVE OwnerInv'
  <1> SUFFICES ASSUME NEW c \in Clients, NEW d \in Daemons
               PROVE  /\ running'[d] = c => handler'[c] \in {"reply", "closed"}
                      /\ pending'[d] = c =>
                            handler'[c] \in {"qr", "reply", "closed"} /\ server'[c] = d
    BY DEF OwnerInv
  <1>0. /\ running[d] = c => handler[c] \in {"reply", "closed"}
        /\ pending[d] = c => handler[c] \in {"qr", "reply", "closed"} /\ server[c] = d
        /\ c # None /\ c \notin Nat
    BY NoneAssumption, ClientsAssumption DEF OwnerInv
  <1>1. CASE /\ running'[d] = c => running[d] = c
             /\ pending'[d] = c => pending[d] = c
             /\ server'[c] = server[c]
             /\ handler'[c] = handler[c] \/ handler'[c] = "closed" \/ handler[c] = "request"
    BY <1>0, <1>1
  <1>2. CASE Handle(c)
    <2>1. server' = server
      BY <1>2, HandleFrame DEF client
    <2> QED BY <1>0, <1>2, <2>1, HandleYields, OwnerSteps
  <1>3. CASE \E b \in Clients \ {c} : Handle(b)
    <2>1. PICK b \in Clients \ {c} : Handle(b)
      BY <1>3
    <2>2. server' = server
      BY <2>1, HandleFrame DEF client
    <2> QED BY <1>0, <1>1, <2>1, <2>2, HandleYields, OwnerSteps
  <1>4. CASE \E b \in Clients : Emit(b)
    <2>1. PICK b \in Clients : Emit(b)
      BY <1>4
    <2>2. /\ UNCHANGED <<running, pending, server>>
          /\ handler'[c] = handler[c] \/ handler'[c] = "closed"
      BY <2>1, EmitMoves DEF service, client
    <2> QED BY <1>1, <2>2
  <1>5. CASE Connect(c)
    <2>1. handler[c] = "none" /\ UNCHANGED <<running, pending>>
      BY <1>5 DEF Connect, PlaceInv, service
    <2> QED BY <1>0, <2>1
  <1>6. CASE \E e \in Daemons : Serve(e) \/ Restore(e)
    <2>1. PICK e \in Daemons : Serve(e) \/ Restore(e)
      BY <1>6
    <2>2. running'[d] \in {running[d], e} /\ UNCHANGED <<pending, server, handler>>
      BY <2>1, RestoreSteps DEF Serve, client, connection
    <2>3. e # c
      BY <1>0, DaemonNumbers
    <2> QED BY <1>0, <1>1, <2>2, <2>3
  <1>7. CASE \E e \in Daemons : Die(e)
    <2>1. PICK e \in Daemons : Die(e)
      BY <1>7
    <2>2. running'[d] \in {running[d], None} /\ pending'[d] \in {pending[d], None}
      BY <2>1 DEF Die, TypeOK
    <2>3. /\ server' = server
          /\ handler'[c] = handler[c] \/ handler'[c] = "closed" \/ handler[c] = "request"
      BY <2>1 DEF Die, client
    <2> QED BY <1>0, <1>1, <2>2, <2>3
  <1>8. CASE \E b \in Clients : Flow(b)
    <2>1. PICK b \in Clients : Flow(b)
      BY <1>8
    <2>2. pending'[d] \in {pending[d], None} /\ UNCHANGED <<running, server, handler>>
      BY <2>1 DEF Flow, ShowQR, FlowFails, Scan, PushEnds, Pop, TypeOK, client, connection
    <2> QED BY <1>0, <1>1, <2>2
  <1>9. CASE \E b \in Clients : RunOp(b) \/ Leave(b)
    <2>1. PICK b \in Clients : RunOp(b) \/ Leave(b)
      BY <1>9
    <2>2. Connect(c) \/ UNCHANGED <<running, pending, server[c], handler[c]>>
      BY <2>1 DEF RunOp, Connect, NoDaemon, ReadDone, EndOfStream, Leave, TypeOK, service,
                  connection
    <2> QED BY <1>1, <1>5, <2>2
  <1>10. CASE UNCHANGED vars
    BY <1>1, <1>10 DEF vars, service, client, connection
  <1> QED BY <1>2, <1>3, <1>4, <1>6, <1>7, <1>8, <1>9, <1>10 DEF Next, HandleClient, Restore

\* Who is noted as served beside others.
LEMMA Noted ==
    ASSUME NEW c \in Clients, Note(c)
    PROVE  /\ overlapped \subseteq overlapped'
           /\ op[c] = "stop" /\ c \notin overlapped' =>
                restore[server[c]] = "none" /\ \A b \in Clients \ {c} : ~InService(b)
           /\ \A b \in Clients \ {c} : InService(b) /\ op[b] = "stop" => b \in overlapped'
  BY DEF Note

\* A handler that begins notes it.
LEMMA Begins ==
    ASSUME NEW c \in Clients, Handle(c), handler[c] = "request"
    PROVE  Note(c)
  BY DEF Handle, Ping, StartRefused, Start, StartEnds, StopNothing, Stop, StopEnds,
         UnbindRefused, Unbind, BindRefused, Bind, Launch, AwaitingScan, TimeOut

LEMMA StopKept == ASSUME TypeOK, PlaceInv, StopInv, [Next]_vars PROVE StopInv'
  <1> SUFFICES ASSUME NEW c \in Clients, handler'[c] = "stop", c \notin overlapped'
               PROVE  /\ running'[server'[c]] = None /\ restore'[server'[c]] = "none"
                      /\ \A b \in Clients \ {c} : ~InService(b)'
    BY DEF StopInv
  <1>1. overlapped \subseteq overlapped'
    <2>1. ASSUME NEW b \in Clients, Handle(b) PROVE Note(b) \/ UNCHANGED overlapped
      BY <2>1 DEF Handle, Ping, StartRefused, Start, StartEnds, StopNothing, Stop, StopEnds,
         UnbindRefused, Unbind, BindRefused, Bind, Launch, AwaitingScan, TimeOut, history
    <2>2. \A b \in Clients : Handle(b) => overlapped \subseteq overlapped'
      BY <2>1, Noted
    <2> QED BY <2>2 DEF vars, Next, RunOp, Connect, NoDaemon, ReadDone, EndOfStream, Leave,
                HandleClient, Emit, Flow, ShowQR, FlowFails, Scan, PushEnds, Serve,
                RestoreStarts, RestoreEnds, Die, history
  <1>2. CASE handler[c] = "stop"
    <2>1. /\ running[server[c]] = None /\ restore[server[c]] = "none"
          /\ server[c] \in alive /\ server[c] \in Daemons /\ op[c] = "stop" /\ InService(c)
          /\ \A b \in Clients \ {c} : ~InService(b)
      BY <1>1, <1>2, DaemonNumbers DEF StopInv, PlaceInv, TypeOK, Busy, InService
    <2> DEFINE Alone == \A b \in Clients \ {c} : ~InService(b)'
    <2>2. CASE UNCHANGED <<running, restore, server>> /\ \A b \in Clients \ {c} : InService(b)' => InService(b)
      BY <2>1, <2>2
    <2>3. ASSUME NEW b \in Clients \ {c}, Handle(b) PROVE FALSE
      <3>1. handler[b] = "request"
        BY <2>1, <2>3, HandleYields DEF InService, Busy
      <3>2. Note(b)
        BY <2>3, <3>1, Begins
      <3> QED BY <2>1, <3>2, Noted
    <2>4. ~Handle(c)
      BY <1>2, HandleYields
    <2>5. CASE \E b \in Clients : Emit(b)
      <3>1. PICK b \in Clients : Emit(b)
        BY <2>5
      <3>2. \A x \in Clients : handler'[x] = handler[x] \/ handler'[x] = "closed"
        BY <3>1, EmitMoves
      <3> QED BY <2>2, <3>1, <3>2, EmitMoves DEF InService, Busy, daemon, service, client
    <2>6. CASE \E b \in Clients : Flow(b)
      BY <2>2, <2>6 DEF Flow, ShowQR, FlowFails, Scan, PushEnds, InService, daemon, client, connection
    <2>7. CASE \E b \in Clients : RunOp(b) \/ Leave(b)
      <3>1. PICK b \in Clients : RunOp(b) \/ Leave(b)
        BY <2>7
      <3>2. /\ UNCHANGED <<running, restore>>
            /\ \A x \in Clients : handler'[x] = handler[x] \/ handler'[x] = "request"
            /\ server'[c] = server[c] \/ handler'[c] = "request"
        BY <3>1 DEF RunOp, Connect, NoDaemon, ReadDone, EndOfStream, Leave, TypeOK, daemon,
                    service, connection
      <3> QED BY <2>1, <3>2 DEF InService, Busy
    <2>8. CASE \E e \in Daemons : Serve(e) \/ Restore(e)
      <3>1. PICK e \in Daemons : Serve(e) \/ Restore(e)
        BY <2>8
      <3>2. e # server[c]
        BY <2>1, <3>1, DaemonNumbers, RestoreSteps DEF Serve
      <3>3. /\ running'[server[c]] = running[server[c]] /\ restore'[server[c]] = restore[server[c]]
            /\ UNCHANGED <<server, handler>>
        <4>1. CASE Serve(e)
          BY <2>1, <3>2, <4>1 DEF Serve, TypeOK, client, connection
        <4>2. CASE Restore(e)
          BY <2>1, <3>2, <4>2, RestoreSteps DEF client, connection
        <4> QED BY <3>1, <4>1, <4>2
      <3> QED BY <2>1, <3>3 DEF InService
    <2>9. CASE \E e \in Daemons : Die(e)
      <3>1. PICK e \in Daemons : Die(e)
        BY <2>9
      <3>2. running'[server[c]] = None /\ restore'[server[c]] = "none" /\ server' = server
        BY <2>1, <3>1, DaemonNumbers DEF Die, TypeOK, client
      <3>3. \A x \in Clients : handler'[x] = handler[x] \/ handler'[x] \in {"closed", "unread"}
        BY <3>1 DEF Die
      <3> QED BY <2>1, <3>2, <3>3 DEF InService, Busy
    <2>10. CASE UNCHANGED vars
      BY <2>2, <2>10 DEF vars, daemon, service, client, connection, InService
    <2> QED BY <2>3, <2>4, <2>5, <2>6, <2>7, <2>8, <2>9, <2>10 DEF Next, HandleClient, Restore
  <1>3. CASE handler[c] # "stop"
    <2>1. Stop(c)
      <3>1. Handle(c)
        <4>1. ASSUME RunOp(c) \/ Leave(c) \/ Emit(c) PROVE FALSE
          BY <1>3, <4>1, EmitMoves DEF RunOp, Connect, NoDaemon, ReadDone, EndOfStream, Leave,
                                      TypeOK, connection
        <4>2. ASSUME NEW d \in Daemons, Die(d) PROVE FALSE
          BY <1>3, <4>2 DEF Die
        <4> QED BY <1>3, <4>1, <4>2, StepsOf DEF HandleClient
      <3>2. op[c] = "stop" /\ handler[c] = "request" /\ out'[c] = out[c]
        BY <1>3, <3>1, HandleYields
      <3>3. ASSUME NEW v \in Verdicts, Answer(c, v) PROVE FALSE
        BY <1>3, <3>3 DEF Answer, Yield, Go, TypeOK
      <3>4. \/ Stop(c) \/ StopNothing(c)
        BY <3>1, <3>2 DEF Handle, Ping, StartRefused, Start, StartEnds, StopEnds, UnbindRefused,
                          Unbind, BindRefused, Bind, Launch, AwaitingScan, TimeOut, Receive
      <3> QED BY <3>3, <3>4 DEF StopNothing, Verdicts
    <2>2. Note(c) /\ op[c] = "stop" /\ handler[c] = "request" /\ server' = server
      BY <2>1 DEF Stop, Receive, client
    <2>3. \A b \in Clients \ {c} : ~InService(b) /\ handler'[b] = handler[b]
      BY <2>1, <2>2, Noted, HandleYields DEF Handle
    <2>4. running'[server[c]] = None /\ restore'[server[c]] = "none"
      <3>1. server[c] \in Daemons
        BY <2>2, DaemonNumbers DEF TypeOK, Busy
      <3>2. restore[server[c]] = "none"
        BY <2>2, Noted
      <3> QED BY <2>1, <3>1, <3>2 DEF Stop, Deregister, TypeOK, daemon
    <2> QED BY <2>2, <2>3, <2>4 DEF InService
  <1> QED BY <1>2, <1>3

LEMMA OwnerInvariant == Spec => [](TypeInv /\ PlaceInv /\ OwnerInv /\ StopInv)
<1>1. Init => OwnerInv /\ StopInv
  BY NoneAssumption DEF Init, OwnerInv, StopInv
<1>2. TypeInv /\ PlaceInv /\ StreamInv /\ OwnerInv /\ StopInv /\ [Next]_vars => (OwnerInv /\ StopInv)'
  BY OwnerKept, StopKept DEF TypeInv
<1> QED BY <1>1, <1>2, StreamInvariant, PTL DEF Spec

LEMMA TrueWhenGiven ==
    ASSUME TypeOK, PlaceInv, OwnerInv, StopInv, [Next]_vars, NEW c \in Clients
    PROVE  VerdictHolds(c)
  <1>1. ASSUME Given(c, "fail") PROVE RefusedLeavesNothing(c)'
    <2>1. Handle(c) /\ Has(out'[c], "fail") /\ out'[c] # out[c]
      BY <1>1, VerdictSteps DEF Verdicts
    <2>2. out'[c] # <<"ok", "done">> /\ out'[c] # <<"qr", "ok", "done">>
      BY <2>1 DEF Has
    <2>3. handler[c] \in {"request", "start", "stop", "qr"}
      BY <2>1, HandleYields
    <2> SUFFICES ASSUME NEW d \in Daemons
                 PROVE  (c \notin unmarked' => running'[d] # c) /\ pending'[d] # c
      BY DEF RefusedLeavesNothing
    <2>4. /\ running[d] # c
          /\ pending[d] = c => handler[c] = "qr" /\ server[c] = d
          /\ c # None
      BY <2>3, NoneAssumption DEF OwnerInv
    <2>5. running'[d] \in {running[d], None} \/ c \in unmarked'
      BY <2>1, <2>2, OwnerSteps
    <2>6. /\ pending'[d] \in {pending[d], None}
          /\ handler[c] = "qr" /\ server[c] = d => pending'[d] = None
      BY <2>1, <2>2, <2>3, OwnerSteps
    <2> QED BY <2>4, <2>5, <2>6
  <1>2. ASSUME Given(c, "ok"), op[c] = "stop", c \notin overlapped', alive' = {server'[c]}
        PROVE  /\ \A d \in Daemons : running'[d] = None /\ restore'[d] = "none"
               /\ \A b \in Clients : handler'[b] # "start"
    <2>1. Handle(c) /\ (StopEnds(c) \/ StopNothing(c)) /\ Has(out'[c], "ok")
      BY <1>2, VerdictSteps DEF Verdicts
    <2>2. UNCHANGED <<running, restore, alive, server>>
      BY <2>1 DEF StopEnds, StopNothing, daemon, service, client
    <2>3. /\ running[server[c]] = None /\ restore[server[c]] = "none"
          /\ \A b \in Clients \ {c} : ~InService(b)
      <3>1. CASE StopEnds(c)
        BY <1>2, <3>1 DEF StopEnds, StopInv, history
      <3>2. CASE StopNothing(c)
        <4>1. ~Answer(c, "fail")
          <5>1. ASSUME Answer(c, "fail") PROVE out'[c] = <<"fail", "done">>
            BY <5>1 DEF Answer, Yield, TypeOK
          <5> QED BY <2>1, <5>1 DEF Has
        <4>2. Note(c)
          BY <3>2 DEF StopNothing
        <4> QED BY <1>2, <3>2, <4>1, <4>2, Noted DEF StopNothing, Started
      <3> QED BY <2>1, <3>1, <3>2
    <2>4. \A d \in Daemons : d # server[c] => running[d] = None /\ restore[d] = "none"
      BY <1>2, <2>2 DEF TypeOK
    <2>5. ASSUME NEW b \in Clients PROVE handler'[b] # "start"
      <3>1. CASE b = c
        BY <2>1, <3>1 DEF StopEnds, StopNothing, Answer, Yield, Go, TypeOK
      <3>2. CASE b # c
        BY <2>1, <2>3, <3>2, HandleYields DEF InService, Busy
      <3> QED BY <3>1, <3>2
    <2> QED BY <2>2, <2>3, <2>4, <2>5
  <1> QED BY <1>1, <1>2 DEF VerdictHolds, StoppedEverywhere

\* Whoever is refused leaves no OAuth flow that blocks its name, and no binding that
\* runs unless its marker alone could not be written; after a stop that was served
\* alone and after the restore no daemon mirrors the binding or is starting to.
THEOREM VerdictsAreTrue == Spec => VerdictsHold
<1>1. /\ TypeInv /\ PlaceInv /\ OwnerInv /\ StopInv /\ [Next]_vars
      => [\A c \in Clients : VerdictHolds(c)]_vars
  BY TrueWhenGiven DEF TypeInv
<1> QED BY <1>1, OwnerInvariant, PTL DEF Spec, VerdictsHold
=============================================================================
