---------------------------- MODULE Orchestrator ----------------------------
(***************************************************************************)
(* The daemon's registry of running bindings: start_binding, stop_binding, *)
(* restore_from_disk at its start and stop_all at its end, with the client *)
(* handlers that start, stop, bind and unbind while they run.              *)
(*                                                                         *)
(* A group is what start_binding makes: a pipeline pair with its tasks.    *)
(* The clients of the control socket and the daemon's own coroutine are    *)
(* processes of one asyncio thread: what is between two awaits is one      *)
(* step.  A request that is refused changes nothing and is no step.        *)
(***************************************************************************)
EXTENDS FiniteSets

CONSTANTS
    Names,      \* names of bindings
    Dirs,       \* project directories
    Clients,    \* connections to the control socket
    Groups,     \* bound: groups that exist at once
    NoGroup, NoDir

Daemon == "daemon"
Procs == Clients \cup {Daemon}
Bindings == [name : Names, dir : Dirs]

ASSUME AbsentAssumption == NoGroup \notin Groups /\ NoDir \notin Dirs
ASSUME NamesAssumption == Names # {}
ASSUME ProcsAssumption == Daemon \notin Clients

VARIABLES
    store,      \* the bindings of bindings.toml
    sessions,   \* the names whose tmux session is alive
    up,         \* the daemon: "down", "restoring", "serving" or "stopping"
    todo,       \* what restore_from_disk or stop_all has still to go through
    running,    \* _running: the registered group of each name
    marker,     \* running-<name>: the project whose transcript it pins
    groups,     \* each group: its name, whose transcript it follows, its tasks
    job,        \* what each process awaits, and for which group
    overlapped, \* history: names of which two requests were in progress at once
    excused     \* history: names something else has happened to since the start

daemon == <<up, todo>>
registry == <<running, marker, groups, job>>
history == <<overlapped, excused>>
vars == <<store, sessions, daemon, registry, history>>

Free == [name |-> CHOOSE n \in Names : TRUE, jsonl |-> NoDir, tasks |-> "none"]
Idle == [awaits |-> "nothing", group |-> NoGroup]

Init ==
    /\ store \in SUBSET Bindings /\ sessions \in SUBSET Names
    /\ \A a, b \in store : a.name = b.name \/ a.dir = b.dir => a = b
    /\ up = "down" /\ todo = {}
    /\ running = [n \in Names |-> NoGroup] /\ marker = [n \in Names |-> NoDir]
    /\ groups = [g \in Groups |-> Free] /\ job = [p \in Procs |-> Idle]
    /\ overlapped = {} /\ excused = {}

ByDir(d) == {b \in store : b.dir = d}
ByName(n) == {b \in store : b.name = n}
Serving == up \in {"restoring", "serving"}

\* Clients are served from before the restore until the process ends: stop_all
\* runs while connections that were accepted, or the socket itself, remain open.
Listening == up # "down"

\* Some other process is between the two halves of a request about n.
InProgress(n, p) ==
    \E q \in Procs \ {p} : job[q].awaits # "nothing" /\ groups[job[q].group].name = n

-----------------------------------------------------------------------------
(* start_binding: the checks, the initial backlog, the registration.       *)

MayStartTwice(b) == b.name \in sessions  \* mutant
MayStart(b) == running[b.name] = NoGroup /\ b.name \in sessions

BeginStart(p, b, jsonl) ==
    /\ job[p] = Idle /\ MayStart(b)
    /\ \E g \in Groups :
        /\ groups[g].tasks = "none"
        /\ groups' = [groups EXCEPT ![g] = [name |-> b.name, jsonl |-> jsonl,
                                            tasks |-> "starting"]]
        /\ job' = [job EXCEPT ![p] = [awaits |-> "backlog", group |-> g]]
    /\ overlapped' = overlapped \cup {n \in {b.name} : InProgress(n, p)}
    /\ UNCHANGED <<running, marker>>

MarkNothing(g) == UNCHANGED marker  \* mutant
Mark(g) == marker' = [marker EXCEPT ![groups[g].name] = groups[g].jsonl]

Register(p) ==
    LET g == job[p].group
        n == groups[g].name
    IN  /\ job[p].awaits = "backlog"
        /\ running' = [running EXCEPT ![n] = g]
        /\ groups' = [groups EXCEPT ![g].tasks = "live"]
        /\ Mark(g)
        /\ job' = [job EXCEPT ![p] = Idle]
        /\ UNCHANGED <<store, sessions, daemon, history>>

\* The initial backlog raises: nothing is registered.
StartRaises(p) ==
    LET g == job[p].group IN
    /\ job[p].awaits = "backlog"
    /\ groups' = [groups EXCEPT ![g] = Free]
    /\ job' = [job EXCEPT ![p] = Idle]
    /\ excused' = excused \cup {groups[g].name}
    /\ UNCHANGED <<store, sessions, daemon, running, marker, overlapped>>

-----------------------------------------------------------------------------
(* stop_binding: the removal, the tasks that end, the marker.              *)

CancelNothing(g) == UNCHANGED groups  \* mutant
Cancel(g) == groups' = [groups EXCEPT ![g].tasks = "cancelled"]

BeginStop(p, n) ==
    /\ job[p] = Idle /\ running[n] # NoGroup
    /\ running' = [running EXCEPT ![n] = NoGroup]
    /\ Cancel(running[n])
    /\ job' = [job EXCEPT ![p] = [awaits |-> "tasks", group |-> running[n]]]
    /\ UNCHANGED marker

TasksEnd(g) ==
    /\ groups[g].tasks = "cancelled"
    /\ groups' = [groups EXCEPT ![g].tasks = "over"]
    /\ UNCHANGED <<store, sessions, daemon, running, marker, job, history>>

EndStop(p) ==
    LET g == job[p].group IN
    /\ job[p].awaits = "tasks" /\ groups[g].tasks = "over"
    /\ marker' = [marker EXCEPT ![groups[g].name] = NoDir]
    /\ groups' = [groups EXCEPT ![g] = Free]
    /\ job' = [job EXCEPT ![p] = Idle]
    /\ UNCHANGED <<store, sessions, daemon, running, history>>

-----------------------------------------------------------------------------
(* The requests of clients.                                                *)

Start(c, d) ==
    /\ Listening
    /\ \E b \in ByDir(d) : BeginStart(c, b, d)
    /\ UNCHANGED <<store, sessions, daemon, excused>>

Stop(c, d) ==
    /\ Listening
    /\ \E b \in ByDir(d) :
        BeginStop(c, b.name) /\ excused' = excused \cup {b.name}
    /\ UNCHANGED <<store, sessions, daemon, overlapped>>

\* The end of a bind: store.add refuses a name or a directory that is taken.
NameUnused(n, d) == ByName(n) = {}  \* mutant
Unused(n, d) == ByName(n) = {} /\ ByDir(d) = {}

Bind(n, d) ==
    /\ Listening /\ Unused(n, d)
    /\ store' = store \cup {[name |-> n, dir |-> d]}
    /\ excused' = excused \cup {n}
    /\ UNCHANGED <<sessions, daemon, registry, overlapped>>

\* unbind only edits the store.
Unbind(n) ==
    /\ Listening /\ ByName(n) # {}
    /\ store' = store \ ByName(n)
    /\ excused' = excused \cup {n}
    /\ UNCHANGED <<sessions, daemon, registry, overlapped>>

-----------------------------------------------------------------------------
(* The daemon: restore_from_disk beside the clients, stop_all at the end.  *)

Boot ==
    /\ up = "down" /\ up' = "restoring" /\ todo' = store
    /\ excused' = Names \ sessions
    /\ UNCHANGED <<store, sessions, registry, overlapped>>

Through(b) == todo' = todo \ {b}

\* Bindings are restored whether they have a marker or not.
RestorableIfMarked(b) == b.name \in sessions /\ marker[b.name] # NoDir  \* mutant
Restorable(b) == b.name \in sessions

\* No session: the binding is stale.
RestoreStale(b) ==
    /\ up = "restoring" /\ job[Daemon] = Idle /\ ~Restorable(b)
    /\ Through(b)
    /\ marker' = [marker EXCEPT ![b.name] = NoDir]
    /\ overlapped' = overlapped \cup {n \in {b.name} : running[n] # NoGroup}
    /\ UNCHANGED <<store, sessions, up, running, groups, job, excused>>

\* The marker, if there is one, says which transcript to follow.
Pinned(b) == IF marker[b.name] # NoDir THEN marker[b.name] ELSE b.dir

RestoreStart(b) ==
    /\ up = "restoring" /\ Restorable(b)
    /\ \E a \in ByDir(b.dir) : BeginStart(Daemon, a, Pinned(b))
    /\ Through(b)
    /\ UNCHANGED <<store, sessions, up, excused>>

\* A client has unbound or started it before its turn came.
RestoreRefused(b) ==
    /\ up = "restoring" /\ job[Daemon] = Idle /\ Restorable(b)
    /\ \A a \in ByDir(b.dir) : ~MayStart(a)
    /\ Through(b)
    /\ UNCHANGED <<store, sessions, up, registry, history>>

Restored ==
    /\ up = "restoring" /\ todo = {} /\ job[Daemon] = Idle
    /\ up' = "serving"
    /\ UNCHANGED <<store, sessions, todo, registry, history>>

\* An interrupt: what the daemon awaits is cancelled, and stop_all begins.
Shutdown ==
    /\ Serving /\ up' = "stopping"
    /\ todo' = {[name |-> n, dir |-> groups[running[n]].jsonl] :
                    n \in {m \in Names : running[m] # NoGroup}}
    /\ groups' = [g \in Groups |-> IF g = job[Daemon].group THEN Free ELSE groups[g]]
    /\ job' = [job EXCEPT ![Daemon] = Idle]
    /\ UNCHANGED <<store, sessions, running, marker, history>>

StopNext(b) ==
    /\ up = "stopping" /\ ByName(b.name) # {}
    /\ BeginStop(Daemon, b.name)
    /\ Through(b)
    /\ UNCHANGED <<store, sessions, up, history>>

\* Its configuration is gone, or a client has stopped it meanwhile.
StopSkips(b) ==
    /\ up = "stopping" /\ job[Daemon] = Idle
    /\ ByName(b.name) = {} \/ running[b.name] = NoGroup
    /\ Through(b)
    /\ UNCHANGED <<store, sessions, up, registry, history>>

\* The process is gone, and with it every task; the files stay.
Die ==
    /\ up' = "down" /\ todo' = {}
    /\ running' = [n \in Names |-> NoGroup]
    /\ groups' = [g \in Groups |-> Free] /\ job' = [p \in Procs |-> Idle]
    /\ overlapped' = {} /\ excused' = {}
    /\ UNCHANGED <<store, sessions, marker>>

Exit == up = "stopping" /\ todo = {} /\ job[Daemon] = Idle /\ Die
Crash == up # "down" /\ Die

-----------------------------------------------------------------------------
(* The user's terminals.                                                   *)

OpenSession(n) ==
    /\ n \notin sessions /\ sessions' = sessions \cup {n}
    /\ UNCHANGED <<store, daemon, registry, history>>

CloseSession(n) ==
    /\ n \in sessions /\ sessions' = sessions \ {n}
    /\ excused' = excused \cup {n}
    /\ UNCHANGED <<store, daemon, registry, overlapped>>

-----------------------------------------------------------------------------

Requests ==
    \/ \E c \in Clients, d \in Dirs : Start(c, d) \/ Stop(c, d)
    \/ \E n \in Names, d \in Dirs : Bind(n, d)
    \/ \E n \in Names : Unbind(n)

Restore == Restored \/ \E b \in todo : RestoreStale(b) \/ RestoreStart(b) \/ RestoreRefused(b)
StopAll == Exit \/ \E b \in todo : StopNext(b) \/ StopSkips(b)
Await ==
    \/ \E p \in Procs : Register(p) \/ EndStop(p)
    \/ \E g \in Groups : TasksEnd(g)

Next ==
    \/ Requests \/ Restore \/ StopAll \/ Await
    \/ \E p \in Procs : StartRaises(p)
    \/ \E n \in Names : OpenSession(n) \/ CloseSession(n)
    \/ Boot \/ Shutdown \/ Crash

Spec == Init /\ [][Next]_vars

\* The daemon's own coroutine goes on, the tasks of a binding end once they are
\* cancelled, and a client's handler goes on when they have.
Fairness ==
    /\ WF_vars(StopAll)
    /\ \A p \in Procs : WF_vars(EndStop(p))
    /\ \A g \in Groups : WF_vars(TasksEnd(g))

FairSpec == Spec /\ Fairness

-----------------------------------------------------------------------------
(* Correctness.                                                            *)

\* Every variable has its type; the store names no name and no directory twice;
\* a group follows the transcript of a directory; a registered group has live
\* tasks; a process awaits a group of its own.
TypeOK ==
    /\ store \in SUBSET Bindings /\ sessions \in SUBSET Names
    /\ \A a, b \in store : a.name = b.name \/ a.dir = b.dir => a = b
    /\ up \in {"down", "restoring", "serving", "stopping"}
    /\ todo \subseteq Bindings
    /\ running \in [Names -> Groups \cup {NoGroup}]
    /\ marker \in [Names -> Dirs \cup {NoDir}]
    /\ groups \in [Groups -> [name : Names, jsonl : Dirs \cup {NoDir},
                              tasks : {"none", "starting", "live", "cancelled", "over"}]]
    /\ job \in [Procs -> [awaits : {"nothing", "backlog", "tasks"},
                          group : Groups \cup {NoGroup}]]
    /\ \A g \in Groups : groups[g].tasks # "none" => groups[g].jsonl \in Dirs
    /\ \A n \in Names : running[n] # NoGroup =>
        groups[running[n]].tasks = "live" /\ groups[running[n]].name = n
    /\ \A p \in Procs :
        /\ job[p].awaits = "nothing" <=> job[p].group = NoGroup
        /\ job[p].awaits = "backlog" => groups[job[p].group].tasks = "starting"
        /\ job[p].awaits = "tasks" => groups[job[p].group].tasks \in {"cancelled", "over"}
    /\ overlapped \subseteq Names /\ excused \subseteq Names

\* Every group whose tasks run is the registered one of its name, unless two requests
\* about the name were in progress at once.  (A stop finds it by that name only while
\* the binding is in the store: an unbind leaves the group registered and running.)
LiveIsRegistered ==
    \A g \in Groups : groups[g].tasks = "live" =>
        running[groups[g].name] = g \/ groups[g].name \in overlapped

\* A crash finds the marker of every running binding, with the same exception.  The
\* write of the marker, which follows the registration, is taken to succeed here;
\* Control has the start whose marker cannot be written.
RunningIsMarked ==
    \A n \in Names \ overlapped : running[n] # NoGroup =>
        marker[n] = groups[running[n]].jsonl

\* After a restart every binding whose session is alive runs again, unless a
\* client stopped, bound or unbound it since or its backlog raised.
RestoreIsComplete ==
    up = "serving" => \A b \in store :
        b.name \notin excused => running[b.name] # NoGroup

\* A shutdown ends, whatever requests it finds in progress.
ShutdownEnds == up = "stopping" ~> up = "down"

\* The second start of a binding is refused: no two groups mirror one transcript.
OneGroupEach ==
    \A g, h \in Groups :
        groups[g].tasks = "live" /\ groups[h].tasks = "live" /\ groups[g].name = groups[h].name
            => g = h
=============================================================================
