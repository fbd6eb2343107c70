------------------------- MODULE OrchestratorProofs -------------------------
(***************************************************************************)
(* Orchestrator for every set of bindings, of clients and of groups.       *)
(***************************************************************************)
EXTENDS Orchestrator, TLAPS

Awaiting(p) == job[p].awaits # "nothing"
NameOf(p) == groups[job[p].group].name

\* No two processes await for the same group.
Apart ==
    \A p, q \in Procs :
        p # q /\ Awaiting(p) /\ Awaiting(q) => job[p].group # job[q].group

\* Two requests in progress about one name are known to overlap, and so is one
\* about a name that is registered.
OverlapsKnown ==
    /\ \A p, q \in Procs :
        p # q /\ Awaiting(p) /\ Awaiting(q) /\ NameOf(p) = NameOf(q) => NameOf(p) \in overlapped
    /\ \A p \in Procs :
        Awaiting(p) => running[NameOf(p)] = NoGroup \/ NameOf(p) \in overlapped

\* While the daemon restores, a binding that nothing has happened to has a live
\* session, and runs, is being started or is still to come.
Restoring ==
    Serving => \A b \in store : b.name \notin excused =>
        /\ b.name \in sessions
        /\ \/ running[b.name] # NoGroup
           \/ up = "restoring" /\ b \in todo
           \/ up = "restoring" /\ job[Daemon].awaits = "backlog" /\ NameOf(Daemon) = b.name

IInv ==
    /\ TypeOK /\ Apart /\ OverlapsKnown /\ LiveIsRegistered /\ RunningIsMarked
    /\ Restoring

-----------------------------------------------------------------------------

\* The records of the model have their types.
LEMMA FreeFields == Free.name \in Names /\ Free.jsonl = NoDir /\ Free.tasks = "none"
  BY NamesAssumption DEF Free

GroupType == [name : Names, jsonl : Dirs \cup {NoDir},
              tasks : {"none", "starting", "live", "cancelled", "over"}]
JobType == [awaits : {"nothing", "backlog", "tasks"}, group : Groups \cup {NoGroup}]

LEMMA Records ==
    /\ Free \in GroupType
    /\ Idle \in JobType /\ Idle.awaits = "nothing" /\ Idle.group = NoGroup
    /\ Daemon \in Procs /\ Clients \subseteq Procs
  BY FreeFields, NamesAssumption DEF Free, Idle, GroupType, JobType, Procs

LEMMA Initially == Init => IInv
  <1> SUFFICES ASSUME Init PROVE IInv
    OBVIOUS
  <1> USE Records, FreeFields DEF Init
  <1>1. TypeOK
    BY DEF TypeOK, GroupType, JobType, Bindings
  <1>2. Apart /\ OverlapsKnown
    BY DEF Apart, OverlapsKnown, Awaiting
  <1>3. LiveIsRegistered /\ RunningIsMarked
    BY DEF LiveIsRegistered, RunningIsMarked
  <1>4. Restoring
    BY DEF Restoring, Serving
  <1>. QED
    BY <1>1, <1>2, <1>3, <1>4 DEF IInv

\* The process is gone.
LEMMA DieKeeps == ASSUME IInv, Die PROVE IInv'
  <1> USE Records, FreeFields DEF Die, IInv
  <1>1. TypeOK'
    BY DEF TypeOK, GroupType, JobType
  <1>2. Apart' /\ OverlapsKnown'
    BY DEF Apart, OverlapsKnown, Awaiting
  <1>3. LiveIsRegistered' /\ RunningIsMarked'
    BY DEF LiveIsRegistered, RunningIsMarked
  <1>4. Restoring'
    BY DEF Restoring, Serving
  <1>. QED
    BY <1>1, <1>2, <1>3, <1>4

\* A start takes a free group and makes it the process's own.
LEMMA StartKeeps ==
    ASSUME IInv, NEW p \in Procs, NEW b \in Bindings, NEW d \in Dirs,
           BeginStart(p, b, d), UNCHANGED <<store, sessions, up, excused>>,
           todo' \subseteq todo
    PROVE  /\ TypeOK' /\ Apart' /\ OverlapsKnown' /\ LiveIsRegistered' /\ RunningIsMarked'
           /\ job'[p].awaits = "backlog" /\ NameOf(p)' = b.name
           /\ \A q \in Procs \ {p} : job'[q] = job[q] /\ (NameOf(q)' = NameOf(q) \/ ~Awaiting(q))
  <1>1. PICK g \in Groups :
            /\ groups[g].tasks = "none"
            /\ groups' = [groups EXCEPT ![g] = [name |-> b.name, jsonl |-> d, tasks |-> "starting"]]
            /\ job' = [job EXCEPT ![p] = [awaits |-> "backlog", group |-> g]]
    BY DEF BeginStart
  <1>2. /\ b.name \in Names /\ b.name \in sessions
        /\ job[p] = Idle /\ running[b.name] = NoGroup
        /\ running' = running /\ marker' = marker
        /\ overlapped' = overlapped \cup {n \in {b.name} : InProgress(n, p)}
    BY DEF BeginStart, MayStart, Bindings
  <1>3. TypeOK /\ groups \in [Groups -> GroupType] /\ job \in [Procs -> JobType]
    BY DEF IInv, TypeOK, GroupType, JobType
  <1>4. /\ groups'[g] = [name |-> b.name, jsonl |-> d, tasks |-> "starting"]
        /\ \A h \in Groups \ {g} : groups'[h] = groups[h]
        /\ job'[p] = [awaits |-> "backlog", group |-> g]
        /\ \A q \in Procs \ {p} : job'[q] = job[q]
    BY <1>1, <1>3
  <1>5. \A q \in Procs : Awaiting(q) => job[q].group \in Groups \ {g}
    BY <1>1, <1>3 DEF TypeOK, Awaiting, JobType
  <1>6. \A q \in Procs \ {p} : job'[q] = job[q] /\ (NameOf(q)' = NameOf(q) \/ ~Awaiting(q))
    BY <1>4, <1>5 DEF NameOf
  <1>7. \A n \in Names : running[n] # NoGroup => running[n] \in Groups \ {g}
    BY <1>1, <1>3 DEF TypeOK
  <1>8. TypeOK'
    <2>1. groups' \in [Groups -> GroupType] /\ job' \in [Procs -> JobType]
      BY <1>1, <1>2, <1>3 DEF GroupType, JobType
    <2>2. \A n \in Names : running'[n] # NoGroup =>
            groups'[running'[n]].tasks = "live" /\ groups'[running'[n]].name = n
      BY <1>2, <1>3, <1>4, <1>7 DEF TypeOK
    <2>3. \A q \in Procs :
            /\ job'[q].awaits = "nothing" <=> job'[q].group = NoGroup
            /\ job'[q].awaits = "backlog" => groups'[job'[q].group].tasks = "starting"
            /\ job'[q].awaits = "tasks" => groups'[job'[q].group].tasks \in {"cancelled", "over"}
      BY <1>3, <1>4, <1>5, AbsentAssumption DEF TypeOK, Awaiting
    <2>4. overlapped' \subseteq Names
      BY <1>2, <1>3 DEF TypeOK
    <2>5. \A h \in Groups : groups'[h].tasks # "none" => groups'[h].jsonl \in Dirs
      BY <1>3, <1>4 DEF TypeOK
    <2>. QED
      BY <1>2, <1>3, <2>1, <2>2, <2>3, <2>4, <2>5 DEF TypeOK, GroupType, JobType
  <1>9. Apart'
    BY <1>4, <1>5 DEF IInv, Apart, Awaiting
  <1>10. OverlapsKnown'
    <2>1. \A q \in Procs \ {p} : Awaiting(q) /\ NameOf(q) = b.name => b.name \in overlapped'
      BY <1>2 DEF InProgress, Awaiting, NameOf
    <2>2. NameOf(p)' = b.name
      BY <1>4 DEF NameOf
    <2>. QED
      BY <1>2, <1>4, <1>6, <2>1, <2>2 DEF IInv, OverlapsKnown, Awaiting
  <1>11. LiveIsRegistered'
    BY <1>2, <1>4 DEF IInv, LiveIsRegistered
  <1>12. RunningIsMarked'
    BY <1>2, <1>4, <1>7 DEF IInv, RunningIsMarked
  <1>. QED
    BY <1>4, <1>6, <1>8, <1>9, <1>10, <1>11, <1>12 DEF NameOf

\* The group is registered, and the process awaits nothing any more.
LEMMA RegisterKeeps == ASSUME IInv, NEW p \in Procs, Register(p) PROVE IInv'
  <1> DEFINE g == job[p].group
             n == groups[g].name
  <1>1. /\ TypeOK /\ groups \in [Groups -> GroupType] /\ job \in [Procs -> JobType]
        /\ running \in [Names -> Groups \cup {NoGroup}]
    BY DEF IInv, TypeOK, GroupType, JobType
  <1>2. /\ job[p].awaits = "backlog" /\ g \in Groups /\ n \in Names
        /\ groups[g].tasks = "starting"
    BY <1>1 DEF Register, TypeOK, GroupType, JobType
  <1>3. /\ running' = [running EXCEPT ![n] = g]
        /\ groups' = [groups EXCEPT ![g].tasks = "live"]
        /\ marker' = [marker EXCEPT ![n] = groups[g].jsonl]
        /\ job' = [job EXCEPT ![p] = Idle]
        /\ UNCHANGED <<store, sessions, up, todo, overlapped, excused>>
    BY DEF Register, Mark, daemon, history
  <1>4. /\ \A h \in Groups : groups'[h].name = groups[h].name /\ groups'[h].jsonl = groups[h].jsonl
        /\ groups'[g].tasks = "live"
        /\ \A h \in Groups \ {g} : groups'[h] = groups[h]
        /\ groups' \in [Groups -> GroupType]
    BY <1>1, <1>2, <1>3 DEF GroupType
  <1>5. /\ job'[p] = Idle /\ \A q \in Procs \ {p} : job'[q] = job[q]
        /\ job' \in [Procs -> JobType]
    BY <1>1, <1>3, Records
  <1>6. running'[n] = g /\ \A m \in Names \ {n} : running'[m] = running[m]
    BY <1>1, <1>2, <1>3
  <1>7. \A q \in Procs \ {p} : Awaiting(q) => job[q].group \in Groups \ {g}
    BY <1>1, <1>2, AbsentAssumption DEF IInv, Apart, Awaiting, TypeOK, JobType
  <1>8. TypeOK'
    <2>1. \A m \in Names : running'[m] # NoGroup =>
            groups'[running'[m]].tasks = "live" /\ groups'[running'[m]].name = m
      <3> SUFFICES ASSUME NEW m \in Names, running'[m] # NoGroup
                   PROVE  groups'[running'[m]].tasks = "live" /\ groups'[running'[m]].name = m
        OBVIOUS
      <3>1. CASE m = n
        BY <3>1, <1>2, <1>4, <1>6
      <3>2. CASE m # n
        BY <3>2, <1>1, <1>2, <1>4, <1>6 DEF TypeOK
      <3>. QED
        BY <3>1, <3>2
    <2>2. \A q \in Procs :
            /\ job'[q].awaits = "nothing" <=> job'[q].group = NoGroup
            /\ job'[q].awaits = "backlog" => groups'[job'[q].group].tasks = "starting"
            /\ job'[q].awaits = "tasks" => groups'[job'[q].group].tasks \in {"cancelled", "over"}
      <3> SUFFICES ASSUME NEW q \in Procs
                   PROVE  /\ job'[q].awaits = "nothing" <=> job'[q].group = NoGroup
                          /\ job'[q].awaits = "backlog" => groups'[job'[q].group].tasks = "starting"
                          /\ job'[q].awaits = "tasks" =>
                                groups'[job'[q].group].tasks \in {"cancelled", "over"}
        OBVIOUS
      <3>1. CASE q = p
        BY <3>1, <1>5, Records
      <3>2. CASE q # p
        BY <3>2, <1>1, <1>4, <1>5, <1>7 DEF TypeOK, Awaiting
      <3>. QED
        BY <3>1, <3>2
    <2>3. running' \in [Names -> Groups \cup {NoGroup}] /\ marker' \in [Names -> Dirs \cup {NoDir}]
      BY <1>1, <1>2, <1>3 DEF TypeOK, GroupType
    <2>4. \A h \in Groups : groups'[h].tasks # "none" => groups'[h].jsonl \in Dirs
      BY <1>1, <1>2, <1>3, <1>4 DEF TypeOK
    <2>. QED
      BY <1>1, <1>3, <1>4, <1>5, <2>1, <2>2, <2>3, <2>4 DEF TypeOK, GroupType, JobType
  <1>9. Apart'
    BY <1>5, Records DEF IInv, Apart, Awaiting
  <1>10. \A q \in Procs \ {p} : Awaiting(q) => NameOf(q)' = NameOf(q) /\ (NameOf(q) = n => n \in overlapped)
    BY <1>2, <1>4, <1>5, <1>7 DEF IInv, OverlapsKnown, NameOf, Awaiting
  <1>11. OverlapsKnown'
    <2>1. ~Awaiting(p)'
      BY <1>5, Records DEF Awaiting
    <2>2. \A q \in Procs \ {p} : Awaiting(q)' => Awaiting(q) /\ NameOf(q) \in Names
      BY <1>1, <1>5, <1>7 DEF Awaiting, NameOf, GroupType
    <2>. QED
      BY <1>3, <1>6, <1>10, <2>1, <2>2 DEF IInv, OverlapsKnown
  <1>12. LiveIsRegistered'
    <2> SUFFICES ASSUME NEW h \in Groups, groups'[h].tasks = "live"
                 PROVE  running'[groups'[h].name] = h \/ groups'[h].name \in overlapped'
      BY DEF LiveIsRegistered
    <2>1. CASE h = g
      BY <2>1, <1>4, <1>6
    <2>2. CASE h # g /\ groups[h].name = n
      <3>1. running[n] = h \/ n \in overlapped
        BY <2>2, <1>4 DEF IInv, LiveIsRegistered
      <3>2. running[n] = NoGroup \/ n \in overlapped
        BY <1>2 DEF IInv, OverlapsKnown, Awaiting, NameOf
      <3>. QED
        BY <2>2, <1>3, <1>4, <3>1, <3>2, AbsentAssumption
    <2>3. CASE h # g /\ groups[h].name # n
      BY <2>3, <1>1, <1>3, <1>4, <1>6 DEF IInv, LiveIsRegistered, GroupType
    <2>. QED
      BY <2>1, <2>2, <2>3
  <1>13. RunningIsMarked'
    <2> SUFFICES ASSUME NEW m \in Names \ overlapped, running'[m] # NoGroup
                 PROVE  marker'[m] = groups'[running'[m]].jsonl
      BY <1>3 DEF RunningIsMarked
    <2>1. CASE m = n
      BY <2>1, <1>1, <1>2, <1>3, <1>4, <1>6 DEF TypeOK
    <2>2. CASE m # n
      BY <2>2, <1>1, <1>2, <1>3, <1>4, <1>6 DEF IInv, RunningIsMarked, TypeOK
    <2>. QED
      BY <2>1, <2>2
  <1>14. Restoring'
    <2> SUFFICES ASSUME Serving, NEW b \in store, b.name \notin excused
                 PROVE  /\ b.name \in sessions
                        /\ \/ running'[b.name] # NoGroup
                           \/ up = "restoring" /\ b \in todo
                           \/ /\ up = "restoring" /\ job'[Daemon].awaits = "backlog"
                              /\ NameOf(Daemon)' = b.name
      BY <1>3 DEF Restoring, Serving
    <2>1. b.name \in Names
      BY <1>1 DEF TypeOK, Bindings
    <2>2. CASE b.name = n
      BY <2>2, <1>2, <1>6, AbsentAssumption DEF IInv, Restoring
    <2>3. CASE b.name # n
      <3>1. running'[b.name] = running[b.name]
        BY <2>1, <2>3, <1>6
      <3>2. NameOf(Daemon) = b.name /\ job[Daemon].awaits = "backlog" =>
                job'[Daemon].awaits = "backlog" /\ NameOf(Daemon)' = b.name
        BY <2>3, <1>5, <1>10, Records DEF NameOf, Awaiting
      <3>. QED
        BY <3>1, <3>2 DEF IInv, Restoring
    <2>. QED
      BY <2>2, <2>3
  <1>. QED
    BY <1>8, <1>9, <1>11, <1>12, <1>13, <1>14 DEF IInv

\* A process awaits nothing any more, and the group it awaited for is free: the
\* start raised, or the stop is over and the marker gone.
LEMMA ReleaseKeeps ==
    ASSUME IInv, NEW p \in Procs, Awaiting(p),
           UNCHANGED <<store, sessions, up, todo, running, overlapped>>,
           groups' = [groups EXCEPT ![job[p].group] = Free],
           job' = [job EXCEPT ![p] = Idle],
           \/ excused' = excused \cup {NameOf(p)} /\ marker' = marker
           \/ /\ job[p].awaits = "tasks" /\ excused' = excused
              /\ marker' = [marker EXCEPT ![NameOf(p)] = NoDir]
    PROVE  IInv'
  <1> DEFINE g == job[p].group
             n == NameOf(p)
  <1>1. /\ TypeOK /\ groups \in [Groups -> GroupType] /\ job \in [Procs -> JobType]
        /\ running \in [Names -> Groups \cup {NoGroup}]
    BY DEF IInv, TypeOK, GroupType, JobType
  <1>2. /\ g \in Groups /\ n \in Names /\ groups[g].tasks \notin {"none", "live"}
        /\ running[n] = NoGroup \/ n \in overlapped
    BY <1>1 DEF IInv, TypeOK, GroupType, JobType, Awaiting, NameOf, OverlapsKnown
  <1>3. /\ groups'[g] = Free /\ \A h \in Groups \ {g} : groups'[h] = groups[h]
        /\ groups' \in [Groups -> GroupType]
    BY <1>1, <1>2, Records
  <1>4. /\ job'[p] = Idle /\ \A q \in Procs \ {p} : job'[q] = job[q]
        /\ job' \in [Procs -> JobType]
    BY <1>1, Records
  <1>5. \A q \in Procs \ {p} : Awaiting(q) => job[q].group \in Groups \ {g}
    BY <1>1 DEF IInv, Apart, Awaiting, TypeOK, JobType
  <1>6. \A m \in Names : running[m] # NoGroup => running[m] \in Groups \ {g}
    BY <1>1, <1>2 DEF TypeOK
  <1>7. TypeOK'
    <2>1. \A m \in Names : running'[m] # NoGroup =>
            groups'[running'[m]].tasks = "live" /\ groups'[running'[m]].name = m
      BY <1>1, <1>3, <1>6 DEF TypeOK
    <2>2. \A q \in Procs :
            /\ job'[q].awaits = "nothing" <=> job'[q].group = NoGroup
            /\ job'[q].awaits = "backlog" => groups'[job'[q].group].tasks = "starting"
            /\ job'[q].awaits = "tasks" => groups'[job'[q].group].tasks \in {"cancelled", "over"}
      <3> SUFFICES ASSUME NEW q \in Procs
                   PROVE  /\ job'[q].awaits = "nothing" <=> job'[q].group = NoGroup
                          /\ job'[q].awaits = "backlog" => groups'[job'[q].group].tasks = "starting"
                          /\ job'[q].awaits = "tasks" =>
                                groups'[job'[q].group].tasks \in {"cancelled", "over"}
        OBVIOUS
      <3>1. CASE q = p
        BY <3>1, <1>4, Records
      <3>2. CASE q # p
        BY <3>2, <1>1, <1>3, <1>4, <1>5 DEF TypeOK, Awaiting
      <3>. QED
        BY <3>1, <3>2
    <2>3. marker' \in [Names -> Dirs \cup {NoDir}] /\ excused' \subseteq Names
      BY <1>1, <1>2 DEF TypeOK
    <2>4. \A h \in Groups : groups'[h].tasks # "none" => groups'[h].jsonl \in Dirs
      BY <1>1, <1>2, <1>3, FreeFields DEF TypeOK
    <2>. QED
      BY <1>1, <1>3, <1>4, <2>1, <2>2, <2>3, <2>4 DEF TypeOK, GroupType, JobType
  <1>8. Apart'
    BY <1>4, Records DEF IInv, Apart, Awaiting
  <1>9. \A q \in Procs \ {p} : Awaiting(q) => NameOf(q)' = NameOf(q)
    BY <1>3, <1>4, <1>5 DEF NameOf
  <1>10. OverlapsKnown'
    <2>1. ~Awaiting(p)' /\ \A q \in Procs \ {p} : Awaiting(q)' => Awaiting(q)
      BY <1>4, Records DEF Awaiting
    <2>. QED
      BY <1>9, <2>1 DEF IInv, OverlapsKnown
  <1>11. LiveIsRegistered'
    BY <1>3, Records, FreeFields DEF IInv, LiveIsRegistered
  <1>12. RunningIsMarked'
    <2> SUFFICES ASSUME NEW m \in Names \ overlapped, running[m] # NoGroup
                 PROVE  marker'[m] = groups'[running[m]].jsonl
      BY DEF RunningIsMarked
    <2>1. m # n
      BY <1>2
    <2>2. marker'[m] = marker[m]
      BY <1>1, <2>1 DEF TypeOK
    <2>. QED
      BY <1>3, <1>6, <2>2 DEF IInv, RunningIsMarked
  <1>13. Restoring'
    <2> SUFFICES ASSUME Serving, NEW b \in store, b.name \notin excused'
                 PROVE  /\ b.name \in sessions
                        /\ \/ running[b.name] # NoGroup
                           \/ up = "restoring" /\ b \in todo
                           \/ /\ up = "restoring" /\ job'[Daemon].awaits = "backlog"
                              /\ NameOf(Daemon)' = b.name
      BY DEF Restoring, Serving
    <2>1. NameOf(Daemon) = b.name /\ job[Daemon].awaits = "backlog" =>
            job'[Daemon].awaits = "backlog" /\ NameOf(Daemon)' = b.name
      <3>1. CASE p = Daemon
        BY <3>1
      <3>2. CASE p # Daemon
        BY <3>2, <1>4, <1>9, Records DEF Awaiting
      <3>. QED
        BY <3>1, <3>2
    <2>2. b.name \notin excused
      OBVIOUS
    <2>. QED
      BY <2>1, <2>2 DEF IInv, Restoring
  <1>. QED
    BY <1>7, <1>8, <1>10, <1>11, <1>12, <1>13 DEF IInv

\* A registered group is unregistered and cancelled, and is the process's own.
LEMMA StopKeeps ==
    ASSUME IInv, NEW p \in Procs, NEW n \in Names, BeginStop(p, n),
           UNCHANGED <<store, sessions, up, overlapped>>,
           todo' \subseteq todo, excused' \in {excused, excused \cup {n}}
    PROVE  /\ TypeOK' /\ Apart' /\ OverlapsKnown' /\ LiveIsRegistered' /\ RunningIsMarked'
           /\ \A m \in Names \ {n} : running'[m] = running[m]
           /\ \A q \in Procs \ {p} : job'[q] = job[q] /\ (NameOf(q)' = NameOf(q) \/ ~Awaiting(q))
  <1> DEFINE g == running[n]
  <1>1. /\ TypeOK /\ groups \in [Groups -> GroupType] /\ job \in [Procs -> JobType]
        /\ running \in [Names -> Groups \cup {NoGroup}]
    BY DEF IInv, TypeOK, GroupType, JobType
  <1>2. /\ job[p] = Idle /\ g \in Groups /\ groups[g].tasks = "live" /\ groups[g].name = n
        /\ running' = [running EXCEPT ![n] = NoGroup]
        /\ groups' = [groups EXCEPT ![g].tasks = "cancelled"]
        /\ job' = [job EXCEPT ![p] = [awaits |-> "tasks", group |-> g]]
        /\ marker' = marker
    BY <1>1 DEF BeginStop, Cancel, TypeOK
  <1>3. /\ groups'[g].tasks = "cancelled"
        /\ \A h \in Groups : groups'[h].name = groups[h].name /\ groups'[h].jsonl = groups[h].jsonl
        /\ \A h \in Groups \ {g} : groups'[h] = groups[h]
        /\ groups' \in [Groups -> GroupType]
    BY <1>1, <1>2 DEF GroupType
  <1>4. /\ job'[p] = [awaits |-> "tasks", group |-> g] /\ \A q \in Procs \ {p} : job'[q] = job[q]
        /\ job' \in [Procs -> JobType]
    BY <1>1, <1>2 DEF JobType
  <1>5. running'[n] = NoGroup /\ \A m \in Names \ {n} : running'[m] = running[m]
    BY <1>1, <1>2
  <1>6. \A q \in Procs : Awaiting(q) => job[q].group \in Groups \ {g}
    BY <1>1, <1>2 DEF TypeOK, Awaiting, JobType
  <1>7. \A q \in Procs \ {p} : Awaiting(q) => NameOf(q)' = NameOf(q)
    BY <1>3, <1>4, <1>6 DEF NameOf
  <1>8. \A m \in Names \ {n} : running[m] # NoGroup => running[m] \in Groups \ {g}
    BY <1>1, <1>2 DEF TypeOK
  <1>9. TypeOK'
    <2>1. \A m \in Names : running'[m] # NoGroup =>
            groups'[running'[m]].tasks = "live" /\ groups'[running'[m]].name = m
      BY <1>1, <1>3, <1>5, <1>8 DEF TypeOK
    <2>2. \A q \in Procs :
            /\ job'[q].awaits = "nothing" <=> job'[q].group = NoGroup
            /\ job'[q].awaits = "backlog" => groups'[job'[q].group].tasks = "starting"
            /\ job'[q].awaits = "tasks" => groups'[job'[q].group].tasks \in {"cancelled", "over"}
      <3> SUFFICES ASSUME NEW q \in Procs
                   PROVE  /\ job'[q].awaits = "nothing" <=> job'[q].group = NoGroup
                          /\ job'[q].awaits = "backlog" => groups'[job'[q].group].tasks = "starting"
                          /\ job'[q].awaits = "tasks" =>
                                groups'[job'[q].group].tasks \in {"cancelled", "over"}
        OBVIOUS
      <3>1. CASE q = p
        BY <3>1, <1>2, <1>3, <1>4, AbsentAssumption
      <3>2. CASE q # p
        BY <3>2, <1>1, <1>3, <1>4, <1>6 DEF TypeOK, Awaiting
      <3>. QED
        BY <3>1, <3>2
    <2>. QED
      BY <1>1, <1>2, <1>3, <1>4, <2>1, <2>2 DEF TypeOK, GroupType, JobType
  <1>10. Apart'
    BY <1>4, <1>6 DEF IInv, Apart, Awaiting
  <1>11. OverlapsKnown'
    <2>1. NameOf(p)' = n
      BY <1>2, <1>3, <1>4 DEF NameOf
    <2>2. \A q \in Procs \ {p} : Awaiting(q) /\ NameOf(q) = n => n \in overlapped
      BY <1>2, AbsentAssumption DEF IInv, OverlapsKnown
    <2>3. \A q \in Procs \ {p} : Awaiting(q)' => Awaiting(q) /\ NameOf(q) \in Names
      BY <1>1, <1>4, <1>6 DEF Awaiting, NameOf, GroupType
    <2>. QED
      BY <1>5, <1>7, <2>1, <2>2, <2>3 DEF IInv, OverlapsKnown
  <1>12. LiveIsRegistered'
    <2> SUFFICES ASSUME NEW h \in Groups, groups'[h].tasks = "live"
                 PROVE  running'[groups'[h].name] = h \/ groups'[h].name \in overlapped'
      BY DEF LiveIsRegistered
    <2>1. h # g /\ groups[h].tasks = "live" /\ groups'[h].name = groups[h].name
      BY <1>3
    <2>2. running[groups[h].name] = h \/ groups[h].name \in overlapped
      BY <2>1 DEF IInv, LiveIsRegistered
    <2>3. groups[h].name \in Names
      BY <1>1 DEF GroupType
    <2>. QED
      BY <1>5, <2>1, <2>2, <2>3
  <1>13. RunningIsMarked'
    BY <1>2, <1>3, <1>5, <1>8 DEF IInv, RunningIsMarked
  <1>. QED
    BY <1>4, <1>5, <1>7, <1>9, <1>10, <1>11, <1>12, <1>13

\* A step that leaves the registry alone, or only ends the tasks of a group.
LEMMA FrameKeeps ==
    ASSUME IInv, UNCHANGED <<running, marker, job, overlapped>>,
           \/ groups' = groups
           \/ \E g \in Groups : /\ groups[g].tasks = "cancelled"
                               /\ groups' = [groups EXCEPT ![g].tasks = "over"],
           store' \subseteq Bindings, sessions' \subseteq Names, todo' \subseteq Bindings,
           \A a, b \in store' : a.name = b.name \/ a.dir = b.dir => a = b,
           up' \in {"down", "restoring", "serving", "stopping"}, excused' \subseteq Names
    PROVE  /\ TypeOK' /\ Apart' /\ OverlapsKnown' /\ LiveIsRegistered' /\ RunningIsMarked'
           /\ \A q \in Procs : Awaiting(q) => NameOf(q)' = NameOf(q)
  <1>1. /\ TypeOK /\ groups \in [Groups -> GroupType] /\ job \in [Procs -> JobType]
    BY DEF IInv, TypeOK, GroupType, JobType
  <1>2. /\ groups' \in [Groups -> GroupType]
        /\ \A h \in Groups : /\ groups'[h].name = groups[h].name /\ groups'[h].jsonl = groups[h].jsonl
                             /\ \/ groups'[h].tasks = groups[h].tasks
                                \/ groups[h].tasks = "cancelled" /\ groups'[h].tasks = "over"
    BY <1>1 DEF GroupType
  <1>3. \A q \in Procs : Awaiting(q) => job[q].group \in Groups
    BY <1>1 DEF TypeOK, Awaiting, JobType
  <1>4. TypeOK'
    BY <1>1, <1>2, <1>3 DEF TypeOK, Awaiting, GroupType, JobType
  <1>5. \A q \in Procs : Awaiting(q) => NameOf(q)' = NameOf(q)
    BY <1>2, <1>3 DEF NameOf
  <1>6. Apart'
    BY DEF IInv, Apart, Awaiting
  <1>7. OverlapsKnown'
    <2>1. \A q \in Procs : Awaiting(q)' <=> Awaiting(q)
      BY DEF Awaiting
    <2>. QED
      BY <1>5, <2>1 DEF IInv, OverlapsKnown
  <1>8. LiveIsRegistered'
    BY <1>2 DEF IInv, LiveIsRegistered
  <1>9. RunningIsMarked'
    BY <1>1, <1>2 DEF IInv, RunningIsMarked, TypeOK
  <1>. QED
    BY <1>4, <1>5, <1>6, <1>7, <1>8, <1>9

LEMMA RequestsKeep == ASSUME IInv, Requests PROVE IInv'
  <1>1. TypeOK
    BY DEF IInv
  <1>2. ASSUME NEW c \in Clients, NEW d \in Dirs, Start(c, d) PROVE IInv'
    <2>1. PICK b \in ByDir(d) : BeginStart(c, b, d)
      BY <1>2 DEF Start
    <2>2. b \in Bindings /\ c \in Procs /\ c # Daemon
      BY <1>1, ProcsAssumption, Records DEF ByDir, TypeOK
    <2>3. UNCHANGED <<store, sessions, up, todo, excused, running>>
      BY <1>2, <2>1 DEF Start, daemon, BeginStart
    <2>4. /\ TypeOK' /\ Apart' /\ OverlapsKnown' /\ LiveIsRegistered' /\ RunningIsMarked'
          /\ job'[Daemon] = job[Daemon] /\ (NameOf(Daemon)' = NameOf(Daemon) \/ ~Awaiting(Daemon))
      BY <2>1, <2>2, <2>3, StartKeeps, Records
    <2>5. Restoring'
      BY <2>3, <2>4 DEF IInv, Restoring, Serving, Awaiting
    <2>. QED
      BY <2>4, <2>5 DEF IInv
  <1>3. ASSUME NEW c \in Clients, NEW d \in Dirs, Stop(c, d) PROVE IInv'
    <2>1. PICK b \in ByDir(d) : BeginStop(c, b.name) /\ excused' = excused \cup {b.name}
      BY <1>3 DEF Stop
    <2>2. b.name \in Names /\ c \in Procs /\ c # Daemon
      BY <1>1, ProcsAssumption, Records DEF ByDir, TypeOK, Bindings
    <2>3. UNCHANGED <<store, sessions, up, todo, overlapped>>
      BY <1>3 DEF Stop, daemon
    <2>4. /\ TypeOK' /\ Apart' /\ OverlapsKnown' /\ LiveIsRegistered' /\ RunningIsMarked'
          /\ job'[Daemon] = job[Daemon] /\ (NameOf(Daemon)' = NameOf(Daemon) \/ ~Awaiting(Daemon))
          /\ \A m \in Names \ {b.name} : running'[m] = running[m]
      BY <2>1, <2>2, <2>3, StopKeeps, Records
    <2>5. \A a \in store : a.name \in Names
      BY <1>1 DEF TypeOK, Bindings
    <2>6. Restoring'
      BY <2>1, <2>3, <2>4, <2>5 DEF IInv, Restoring, Serving, Awaiting
    <2>. QED
      BY <2>4, <2>6 DEF IInv
  <1>4. ASSUME NEW n \in Names, NEW d \in Dirs, Bind(n, d) PROVE IInv'
    <2>1. /\ store' = store \cup {[name |-> n, dir |-> d]} /\ excused' = excused \cup {n}
          /\ ByName(n) = {} /\ ByDir(d) = {}
          /\ UNCHANGED <<sessions, up, todo, running, marker, groups, job, overlapped>>
      BY <1>4 DEF Bind, Unused, daemon, registry
    <2>2. /\ store' \subseteq Bindings /\ excused' \subseteq Names
          /\ \A a, b \in store' : a.name = b.name \/ a.dir = b.dir => a = b
      BY <1>1, <2>1 DEF TypeOK, Bindings, ByName, ByDir
    <2>3. TypeOK' /\ Apart' /\ OverlapsKnown' /\ LiveIsRegistered' /\ RunningIsMarked'
      BY <1>1, <2>1, <2>2, FrameKeeps DEF TypeOK
    <2>4. Restoring'
      BY <2>1 DEF IInv, Restoring, Serving, NameOf
    <2>. QED
      BY <2>3, <2>4 DEF IInv
  <1>5. ASSUME NEW n \in Names, Unbind(n) PROVE IInv'
    <2>1. /\ store' \subseteq store /\ excused' = excused \cup {n}
          /\ UNCHANGED <<sessions, up, todo, running, marker, groups, job, overlapped>>
      BY <1>5 DEF Unbind, daemon, registry
    <2>2. TypeOK' /\ Apart' /\ OverlapsKnown' /\ LiveIsRegistered' /\ RunningIsMarked'
      BY <1>1, <2>1, FrameKeeps DEF TypeOK
    <2>3. Restoring'
      BY <2>1 DEF IInv, Restoring, Serving, NameOf
    <2>. QED
      BY <2>2, <2>3 DEF IInv
  <1>. QED
    BY <1>2, <1>3, <1>4, <1>5 DEF Requests

LEMMA RestoreKeeps == ASSUME IInv, Restore PROVE IInv'
  <1>1. TypeOK /\ Daemon \in Procs
    BY Records DEF IInv
  <1>2. CASE Restored
    <2>1. UNCHANGED <<store, sessions, todo, running, marker, groups, job, overlapped, excused>>
      BY <1>2 DEF Restored, registry, history
    <2>2. up = "restoring" /\ todo = {} /\ job[Daemon] = Idle /\ up' = "serving"
      BY <1>2 DEF Restored
    <2>3. TypeOK' /\ Apart' /\ OverlapsKnown' /\ LiveIsRegistered' /\ RunningIsMarked'
      BY <1>1, <2>1, <2>2, FrameKeeps DEF TypeOK
    <2>4. Restoring'
      BY <2>1, <2>2, Records DEF IInv, Restoring, Serving
    <2>. QED
      BY <2>3, <2>4 DEF IInv
  <1>3. ASSUME NEW b \in todo, RestoreStale(b) PROVE IInv'
    <2>1. /\ b.name \in Names /\ b.name \notin sessions /\ up = "restoring"
          /\ todo' = todo \ {b} /\ marker' = [marker EXCEPT ![b.name] = NoDir]
          /\ overlapped' = overlapped \cup {n \in {b.name} : running[n] # NoGroup}
          /\ UNCHANGED <<store, sessions, up, running, groups, job, excused>>
      BY <1>1, <1>3 DEF RestoreStale, Restorable, Through, TypeOK, Bindings
    <2>2. TypeOK'
      BY <1>1, <2>1 DEF TypeOK
    <2>3. Apart'
      BY <2>1 DEF IInv, Apart, Awaiting
    <2>4. OverlapsKnown'
      BY <2>1 DEF IInv, OverlapsKnown, Awaiting, NameOf
    <2>5. LiveIsRegistered'
      BY <2>1 DEF IInv, LiveIsRegistered
    <2>6. RunningIsMarked'
      BY <1>1, <2>1 DEF IInv, RunningIsMarked, TypeOK
    <2>7. Restoring'
      BY <2>1 DEF IInv, Restoring, Serving, NameOf
    <2>. QED
      BY <2>2, <2>3, <2>4, <2>5, <2>6, <2>7 DEF IInv
  <1>4. ASSUME NEW b \in todo, RestoreStart(b) PROVE IInv'
    <2>1. PICK a \in ByDir(b.dir) : BeginStart(Daemon, a, Pinned(b))
      BY <1>4 DEF RestoreStart
    <2>2. /\ a \in Bindings /\ a \in store /\ a.dir = b.dir /\ b \in Bindings
          /\ Pinned(b) \in Dirs /\ todo' = todo \ {b} /\ up = "restoring"
          /\ UNCHANGED <<store, sessions, up, excused>>
      BY <1>1, <1>4 DEF ByDir, TypeOK, Bindings, Pinned, RestoreStart, Through
    <2>3. running' = running /\ job[Daemon].awaits = "nothing"
      BY <2>1, Records DEF BeginStart
    <2>4. /\ TypeOK' /\ Apart' /\ OverlapsKnown' /\ LiveIsRegistered' /\ RunningIsMarked'
          /\ job'[Daemon].awaits = "backlog" /\ NameOf(Daemon)' = a.name
      BY <1>1, <2>1, <2>2, StartKeeps
    <2>5. b \in store => a = b
      BY <1>1, <2>2 DEF TypeOK
    <2>6. Restoring'
      BY <2>2, <2>3, <2>4, <2>5 DEF IInv, Restoring, Serving
    <2>. QED
      BY <2>4, <2>6 DEF IInv
  <1>5. ASSUME NEW b \in todo, RestoreRefused(b) PROVE IInv'
    <2>1. /\ up = "restoring" /\ b.name \in sessions /\ todo' = todo \ {b}
          /\ \A a \in ByDir(b.dir) : ~MayStart(a)
          /\ UNCHANGED <<store, sessions, up, running, marker, groups, job, overlapped, excused>>
      BY <1>5 DEF RestoreRefused, Restorable, Through, registry, history
    <2>2. TypeOK' /\ Apart' /\ OverlapsKnown' /\ LiveIsRegistered' /\ RunningIsMarked'
      BY <1>1, <2>1, FrameKeeps DEF TypeOK
    <2>3. b \in store => running[b.name] # NoGroup
      BY <2>1 DEF ByDir, MayStart
    <2>4. Restoring'
      BY <2>1, <2>3 DEF IInv, Restoring, Serving, NameOf
    <2>. QED
      BY <2>2, <2>4 DEF IInv
  <1>. QED
    BY <1>2, <1>3, <1>4, <1>5 DEF Restore

LEMMA StopAllKeeps == ASSUME IInv, StopAll PROVE IInv'
  <1>1. TypeOK /\ Daemon \in Procs
    BY Records DEF IInv
  <1>2. CASE Exit
    BY <1>2, DieKeeps DEF Exit
  <1>3. ASSUME NEW b \in todo, StopNext(b) PROVE IInv'
    <2>1. /\ b.name \in Names /\ BeginStop(Daemon, b.name) /\ up = "stopping"
          /\ todo' \subseteq todo /\ UNCHANGED <<store, sessions, up, overlapped, excused>>
      BY <1>1, <1>3 DEF StopNext, Through, TypeOK, Bindings, history
    <2>2. TypeOK' /\ Apart' /\ OverlapsKnown' /\ LiveIsRegistered' /\ RunningIsMarked'
      BY <1>1, <2>1, StopKeeps
    <2>3. Restoring'
      BY <2>1 DEF Restoring, Serving
    <2>. QED
      BY <2>2, <2>3 DEF IInv
  <1>4. ASSUME NEW b \in todo, StopSkips(b) PROVE IInv'
    <2>1. /\ up = "stopping" /\ todo' \subseteq todo
          /\ UNCHANGED <<store, sessions, up, running, marker, groups, job, overlapped, excused>>
      BY <1>4 DEF StopSkips, Through, registry, history
    <2>2. TypeOK' /\ Apart' /\ OverlapsKnown' /\ LiveIsRegistered' /\ RunningIsMarked'
      BY <1>1, <2>1, FrameKeeps DEF TypeOK
    <2>3. Restoring'
      BY <2>1 DEF Restoring, Serving
    <2>. QED
      BY <2>2, <2>3 DEF IInv
  <1>. QED
    BY <1>2, <1>3, <1>4 DEF StopAll

LEMMA AwaitKeeps == ASSUME IInv, Await PROVE IInv'
  <1>1. TypeOK
    BY DEF IInv
  <1>2. ASSUME NEW p \in Procs, Register(p) PROVE IInv'
    BY <1>2, RegisterKeeps
  <1>3. ASSUME NEW p \in Procs, EndStop(p) PROVE IInv'
    BY <1>3, ReleaseKeeps DEF EndStop, daemon, history, Awaiting, NameOf
  <1>4. ASSUME NEW g \in Groups, TasksEnd(g) PROVE IInv'
    <2>1. /\ groups[g].tasks = "cancelled" /\ groups' = [groups EXCEPT ![g].tasks = "over"]
          /\ UNCHANGED <<store, sessions, up, todo, running, marker, job, overlapped, excused>>
      BY <1>4 DEF TasksEnd, daemon, history
    <2>2. /\ TypeOK' /\ Apart' /\ OverlapsKnown' /\ LiveIsRegistered' /\ RunningIsMarked'
          /\ \A q \in Procs : Awaiting(q) => NameOf(q)' = NameOf(q)
      BY <1>1, <2>1, FrameKeeps DEF TypeOK
    <2>3. Restoring'
      BY <2>1, <2>2, Records DEF IInv, Restoring, Serving, Awaiting
    <2>. QED
      BY <2>2, <2>3 DEF IInv
  <1>. QED
    BY <1>2, <1>3, <1>4 DEF Await

\* An interrupt frees the group the daemon was starting.
LEMMA ShutdownKeeps == ASSUME IInv, Shutdown PROVE IInv'
  <1> DEFINE g == job[Daemon].group
  <1>1. /\ TypeOK /\ groups \in [Groups -> GroupType] /\ job \in [Procs -> JobType]
        /\ Daemon \in Procs
    BY Records DEF IInv, TypeOK, GroupType, JobType
  <1>2. /\ Serving /\ up' = "stopping"
        /\ todo' = {[name |-> n, dir |-> groups[running[n]].jsonl] :
                        n \in {m \in Names : running[m] # NoGroup}}
        /\ groups' = [h \in Groups |-> IF h = g THEN Free ELSE groups[h]]
        /\ job' = [job EXCEPT ![Daemon] = Idle]
        /\ UNCHANGED <<store, sessions, running, marker, overlapped, excused>>
    BY DEF Shutdown, history
  <1>3. /\ \A h \in Groups \ {g} : groups'[h] = groups[h]
        /\ g \in Groups => groups'[g] = Free /\ groups[g].tasks # "live"
        /\ groups' \in [Groups -> GroupType]
    BY <1>1, <1>2, Records, AbsentAssumption DEF TypeOK, JobType
  <1>4. /\ job'[Daemon] = Idle /\ \A q \in Procs \ {Daemon} : job'[q] = job[q]
        /\ job' \in [Procs -> JobType]
    BY <1>1, <1>2, Records
  <1>5. \A q \in Procs \ {Daemon} : Awaiting(q) => job[q].group \in Groups \ {g}
    BY <1>1, AbsentAssumption DEF IInv, Apart, Awaiting, TypeOK, JobType
  <1>6. \A m \in Names : running[m] # NoGroup => running[m] \in Groups \ {g}
    BY <1>1, <1>3 DEF TypeOK
  <1>7. TypeOK'
    <2>1. \A m \in Names : running'[m] # NoGroup =>
            groups'[running'[m]].tasks = "live" /\ groups'[running'[m]].name = m
      BY <1>1, <1>2, <1>3, <1>6 DEF TypeOK
    <2>2. \A q \in Procs :
            /\ job'[q].awaits = "nothing" <=> job'[q].group = NoGroup
            /\ job'[q].awaits = "backlog" => groups'[job'[q].group].tasks = "starting"
            /\ job'[q].awaits = "tasks" => groups'[job'[q].group].tasks \in {"cancelled", "over"}
      <3> SUFFICES ASSUME NEW q \in Procs
                   PROVE  /\ job'[q].awaits = "nothing" <=> job'[q].group = NoGroup
                          /\ job'[q].awaits = "backlog" => groups'[job'[q].group].tasks = "starting"
                          /\ job'[q].awaits = "tasks" =>
                                groups'[job'[q].group].tasks \in {"cancelled", "over"}
        OBVIOUS
      <3>1. CASE q = Daemon
        BY <3>1, <1>4, Records
      <3>2. CASE q # Daemon
        BY <3>2, <1>1, <1>3, <1>4, <1>5 DEF TypeOK, Awaiting
      <3>. QED
        BY <3>1, <3>2
    <2>3. todo' \subseteq Bindings
      <3>1. \A m \in Names : running[m] # NoGroup => groups[running[m]].jsonl \in Dirs
        BY <1>1 DEF TypeOK
      <3>. QED
        BY <1>2, <3>1 DEF Bindings
    <2>4. \A h \in Groups : groups'[h].tasks # "none" => groups'[h].jsonl \in Dirs
      BY <1>1, <1>3, FreeFields DEF TypeOK
    <2>. QED
      BY <1>1, <1>2, <1>3, <1>4, <2>1, <2>2, <2>3, <2>4 DEF TypeOK, GroupType, JobType
  <1>8. Apart'
    BY <1>4, Records DEF IInv, Apart, Awaiting
  <1>9. OverlapsKnown'
    <2>1. ~Awaiting(Daemon)' /\ \A q \in Procs \ {Daemon} : Awaiting(q)' => Awaiting(q)
      BY <1>4, Records DEF Awaiting
    <2>2. \A q \in Procs \ {Daemon} : Awaiting(q) => NameOf(q)' = NameOf(q)
      BY <1>3, <1>4, <1>5 DEF NameOf
    <2>. QED
      BY <1>2, <2>1, <2>2 DEF IInv, OverlapsKnown
  <1>10. LiveIsRegistered'
    BY <1>2, <1>3, FreeFields DEF IInv, LiveIsRegistered
  <1>11. RunningIsMarked'
    BY <1>1, <1>2, <1>3, <1>6 DEF IInv, RunningIsMarked, TypeOK
  <1>12. Restoring'
    BY <1>2 DEF Restoring, Serving
  <1>. QED
    BY <1>7, <1>8, <1>9, <1>10, <1>11, <1>12 DEF IInv

\* What is left of Next: a start raises, the daemon starts, and the terminals.
LEMMA OthersKeep ==
    ASSUME IInv,
           \/ \E p \in Procs : StartRaises(p)
           \/ \E n \in Names : OpenSession(n) \/ CloseSession(n)
           \/ Boot
    PROVE  IInv'
  <1>1. TypeOK
    BY DEF IInv
  <1>2. ASSUME NEW p \in Procs, StartRaises(p) PROVE IInv'
    BY <1>2, ReleaseKeeps DEF StartRaises, daemon, Awaiting, NameOf
  <1>3. ASSUME NEW n \in Names, OpenSession(n) PROVE IInv'
    <2>1. /\ sessions' = sessions \cup {n}
          /\ UNCHANGED <<store, up, todo, running, marker, groups, job, overlapped, excused>>
      BY <1>3 DEF OpenSession, daemon, registry, history
    <2>2. TypeOK' /\ Apart' /\ OverlapsKnown' /\ LiveIsRegistered' /\ RunningIsMarked'
      BY <1>1, <2>1, FrameKeeps DEF TypeOK
    <2>3. Restoring'
      BY <2>1 DEF IInv, Restoring, Serving, NameOf
    <2>. QED
      BY <2>2, <2>3 DEF IInv
  <1>4. ASSUME NEW n \in Names, CloseSession(n) PROVE IInv'
    <2>1. /\ sessions' = sessions \ {n} /\ excused' = excused \cup {n}
          /\ UNCHANGED <<store, up, todo, running, marker, groups, job, overlapped>>
      BY <1>4 DEF CloseSession, daemon, registry
    <2>2. TypeOK' /\ Apart' /\ OverlapsKnown' /\ LiveIsRegistered' /\ RunningIsMarked'
      BY <1>1, <2>1, FrameKeeps DEF TypeOK
    <2>3. Restoring'
      BY <2>1 DEF IInv, Restoring, Serving, NameOf
    <2>. QED
      BY <2>2, <2>3 DEF IInv
  <1>5. CASE Boot
    <2>1. /\ up' = "restoring" /\ todo' = store /\ excused' = Names \ sessions
          /\ UNCHANGED <<store, sessions, running, marker, groups, job, overlapped>>
      BY <1>5 DEF Boot, registry
    <2>2. TypeOK' /\ Apart' /\ OverlapsKnown' /\ LiveIsRegistered' /\ RunningIsMarked'
      BY <1>1, <2>1, FrameKeeps DEF TypeOK
    <2>3. Restoring'
      BY <1>1, <2>1 DEF Restoring, Serving, TypeOK, Bindings
    <2>. QED
      BY <2>2, <2>3 DEF IInv
  <1>. QED
    BY <1>2, <1>3, <1>4, <1>5

LEMMA NextKeeps == IInv /\ [Next]_vars => IInv'
  <1> SUFFICES ASSUME IInv, [Next]_vars PROVE IInv'
    OBVIOUS
  <1>1. CASE Next
    BY <1>1, RequestsKeep, RestoreKeeps, StopAllKeeps, AwaitKeeps, OthersKeep, ShutdownKeeps,
       DieKeeps DEF Next, Crash
  <1>2. CASE UNCHANGED vars
    <2>1. UNCHANGED <<store, sessions, up, todo, running, marker, groups, job, overlapped, excused>>
      BY <1>2 DEF vars, daemon, registry, history
    <2>2. TypeOK' /\ Apart' /\ OverlapsKnown' /\ LiveIsRegistered' /\ RunningIsMarked'
      BY <2>1, FrameKeeps DEF IInv, TypeOK
    <2>3. Restoring'
      BY <2>1 DEF IInv, Restoring, Serving, NameOf
    <2>. QED
      BY <2>2, <2>3 DEF IInv
  <1>. QED
    BY <1>1, <1>2

-----------------------------------------------------------------------------
(* The theorems.                                                           *)

\* Everything below follows from the inductive invariant.
THEOREM Inductive == Spec => []IInv
  BY Initially, NextKeeps, PTL DEF Spec

\* Types, a store without duplicates, and a registry that names live groups, for
\* every interleaving of clients, restore, shutdown and crashes.
THEOREM TypeCorrect == Spec => []TypeOK
  <1>1. IInv => TypeOK
    BY DEF IInv
  <1>. QED
    BY <1>1, Inductive, PTL

\* A group whose tasks run is the one registered under its name, unless two requests
\* about the name were in progress at once.  (Whether a stop reaches it also takes
\* the binding to be in the store.)
THEOREM Registered == Spec => []LiveIsRegistered
  <1>1. IInv => LiveIsRegistered
    BY DEF IInv
  <1>. QED
    BY <1>1, Inductive, PTL

\* The marker of a running binding pins the transcript its group follows, with
\* the same exception, as long as markers can be written.
THEOREM Marked == Spec => []RunningIsMarked
  <1>1. IInv => RunningIsMarked
    BY DEF IInv
  <1>. QED
    BY <1>1, Inductive, PTL

\* When restore_from_disk has ended, every binding with a live session runs that
\* nothing else has happened to.
THEOREM RestoredAll == Spec => []RestoreIsComplete
  <1>1. IInv => RestoreIsComplete
    BY DEF IInv, Restoring, RestoreIsComplete, Serving
  <1>. QED
    BY <1>1, Inductive, PTL
=============================================================================
