--------------------------------- MODULE Bind ---------------------------------
(***************************************************************************)
(* Binding a directory to a new bot, and the file of bindings.             *)
(*                                                                         *)
(* A bind checks the store, starts lark-cli's OAuth flow as a background   *)
(* task remembered in pending_binds, and waits at most 30 s for the QR     *)
(* code; the task outlives the request and adds the binding when the user  *)
(* has scanned.  Each process has its own instance of the BindingStore, a  *)
(* cache that a save merges with the file under a lock: since nothing is   *)
(* awaited between the edit of the cache and the end of the save, that is  *)
(* one step, and between saves _known_names are the names of the cache.    *)
(***************************************************************************)
EXTENDS Naturals

CONSTANTS
    Processes,  \* processes with an instance of the store
    Names,      \* names of bindings
    Dirs,       \* project directories
    MaxBinds,   \* bound: requests to bind
    NoBind

Bindings == [name : Names, dir : Dirs]
Requests == 1 .. MaxBinds

ASSUME BoundAssumption == MaxBinds \in Nat
ASSUME AbsentAssumption == NoBind \notin Requests

VARIABLES
    disk,       \* the bindings of bindings.toml
    cache,      \* _cache of each process
    binds,      \* the requests to bind, each with its handler and its task; what a
                \* request will ask for is chosen in advance
    pending,    \* pending_binds of each process: the request of a name
    removed     \* history: the names that some process has unbound

store == <<disk, cache>>
vars == <<store, binds, pending, removed>>

NamesOf(bs) == {b.name : b \in bs}
DirsOf(bs) == {b.dir : b \in bs}

Init ==
    /\ disk \in SUBSET Bindings
    /\ \A a, b \in disk : a.name = b.name \/ a.dir = b.dir => a = b
    /\ cache = [p \in Processes |-> disk]
    /\ binds \in [Requests -> [process : Processes, name : Names, dir : Dirs,
                              handler : {"none"}, task : {"none"},
                              qr : {FALSE}, saved : {FALSE}]]
    /\ pending = [p \in Processes |-> [n \in Names |-> NoBind]]
    /\ removed = {}

-----------------------------------------------------------------------------
(* BindingStore.                                                           *)

MergeNothing(old, new) == new  \* mutant

\* What the instance did not know is kept; of the rest its cache decides.
Merge(old, new) == {b \in disk : b.name \notin NamesOf(old)} \cup new

NeverConflict(old, new) == FALSE  \* mutant

\* Somebody else has added the same name meanwhile: the save raises.
Conflict(old, new) == \E b \in disk : b.name \in NamesOf(new) \ NamesOf(old)

Save(p, new) ==
    /\ ~Conflict(cache[p], new)
    /\ disk' = Merge(cache[p], new)
    /\ cache' = [cache EXCEPT ![p] = disk']

NameUnused(p, b) == b.name \notin NamesOf(cache[p])  \* mutant
Unused(p, b) == b.name \notin NamesOf(cache[p]) /\ b.dir \notin DirsOf(cache[p])

Add(p, b) == Unused(p, b) /\ Save(p, cache[p] \cup {b})
Remove(p, n) == n \in NamesOf(cache[p]) /\ Save(p, {b \in cache[p] : b.name # n})

-----------------------------------------------------------------------------
(* The handlers of bind and unbind.                                        *)

BindingOf(r) == [name |-> binds[r].name, dir |-> binds[r].dir]

PopNothing(r) == UNCHANGED pending  \* mutant
Pop(r) == pending' = [pending EXCEPT ![binds[r].process][binds[r].name] = NoBind]

\* The checks, up to the await on the client's connection.
Ask(r) ==
    /\ binds[r].handler = "none"
    /\ Unused(binds[r].process, BindingOf(r))
    /\ pending[binds[r].process][binds[r].name] = NoBind
    /\ binds' = [binds EXCEPT ![r].handler = "asked"]
    /\ UNCHANGED <<store, pending, removed>>

\* The client is gone before its first event could be written.
HangUp(r) ==
    /\ binds[r].handler = "asked"
    /\ binds' = [binds EXCEPT ![r].handler = "over"]
    /\ UNCHANGED <<store, pending, removed>>

Launch(r) ==
    /\ binds[r].handler = "asked"
    /\ binds' = [binds EXCEPT ![r] = [@ EXCEPT !.handler = "waiting", !.task = "auth"]]
    /\ pending' = [pending EXCEPT ![binds[r].process][binds[r].name] = r]
    /\ UNCHANGED <<store, removed>>

ShowQR(r) ==
    /\ binds[r].task = "auth" /\ ~binds[r].qr
    /\ binds' = [binds EXCEPT ![r].qr = TRUE]
    /\ UNCHANGED <<store, pending, removed>>

Answer(r) ==
    /\ binds[r].handler = "waiting" /\ binds[r].qr
    /\ binds' = [binds EXCEPT ![r].handler = "over"]
    /\ UNCHANGED <<store, pending, removed>>

CancelNothing(r) == binds[r].task  \* mutant
Cancelled(r) == IF binds[r].task = "auth" THEN "cancelled" ELSE binds[r].task

\* 30 s without a QR code: the task is cancelled, if it has not failed already,
\* and the entry of its name is popped, whosever it is by now.
TimeOut(r) ==
    /\ binds[r].handler = "waiting" /\ ~binds[r].qr
    /\ binds' = [binds EXCEPT ![r] = [@ EXCEPT !.handler = "over", !.task = Cancelled(r)]]
    /\ Pop(r)
    /\ UNCHANGED <<store, removed>>

\* The user has scanned: the binding is added, and the menu push is awaited.
Complete(r) ==
    /\ binds[r].task = "auth" /\ binds[r].qr
    /\ Add(binds[r].process, BindingOf(r))
    /\ binds' = [binds EXCEPT ![r] = [@ EXCEPT !.task = "menu", !.saved = TRUE]]
    /\ UNCHANGED <<pending, removed>>

\* The task ends: OAuth, the look-up of the app or the add has failed, the menu
\* is pushed or not, or the task is cancelled.
End(r) ==
    /\ binds[r].task \in {"auth", "menu", "cancelled"}
    /\ binds' = [binds EXCEPT ![r].task = "ended"]
    /\ Pop(r)
    /\ UNCHANGED <<store, removed>>

Unbind(p, n) ==
    /\ Remove(p, n)
    /\ removed' = removed \cup {n}
    /\ UNCHANGED <<binds, pending>>

\* The process dies with its tasks, and a new one loads the file.
Restart(p) ==
    /\ cache' = [cache EXCEPT ![p] = disk]
    /\ pending' = [pending EXCEPT ![p] = [n \in Names |-> NoBind]]
    /\ binds' = [r \in Requests |->
                    IF binds[r].process # p \/ binds[r].handler = "none" THEN binds[r]
                    ELSE [binds[r] EXCEPT !.handler = "over", !.task = "ended"]]
    /\ UNCHANGED <<disk, removed>>

-----------------------------------------------------------------------------

Request(r) ==
    \/ Ask(r) \/ HangUp(r) \/ Launch(r) \/ Answer(r) \/ TimeOut(r)
    \/ ShowQR(r) \/ Complete(r) \/ End(r)

Next ==
    \/ \E r \in Requests : Request(r)
    \/ \E p \in Processes, n \in Names : Unbind(p, n)
    \/ \E p \in Processes : Restart(p)

Spec == Init /\ [][Next]_vars

\* The clock of a handler runs, and a cancelled lark-cli is killed in the end.
Fairness ==
    \A r \in Requests :
        /\ WF_vars(TimeOut(r))
        /\ WF_vars(binds[r].task = "cancelled" /\ End(r))

FairSpec == Spec /\ Fairness

-----------------------------------------------------------------------------
(* Correctness.                                                            *)

\* Every variable has its type, and neither the file nor a cache has a name twice.
TypeOK ==
    /\ disk \in SUBSET Bindings /\ cache \in [Processes -> SUBSET Bindings]
    /\ \A a, b \in disk : a.name = b.name => a = b
    /\ \A p \in Processes : \A a, b \in cache[p] : a.name = b.name => a = b
    /\ binds \in [Requests -> [process : Processes, name : Names, dir : Dirs,
                              handler : {"none", "asked", "waiting", "over"},
                              task : {"none", "auth", "menu", "cancelled", "ended"},
                              qr : BOOLEAN, saved : BOOLEAN]]
    /\ pending \in [Processes -> [Names -> Requests \cup {NoBind}]]
    /\ removed \subseteq Names

\* A name is refused as "already in progress" only while a bind of it is: however
\* a bind ends, its name can be tried again.
PendingIsAlive ==
    \A p \in Processes, n \in Names : pending[p][n] # NoBind =>
        LET r == binds[pending[p][n]] IN
        r.process = p /\ r.name = n /\ r.task \in {"auth", "menu", "cancelled"}

\* A binding that a process has saved stays in the file, whatever processes with
\* older caches save later, until its name is unbound.
NoAddIsLost ==
    \A r \in Requests :
        binds[r].saved => BindingOf(r) \in disk \/ binds[r].name \in removed

\* A directory is bound twice only when two processes have added it, or when a
\* name was unbound in one of them and kept in another.
AddersOf(b) == {binds[r].process : r \in {i \in Requests :
                                            binds[i].saved /\ BindingOf(i) = b}}
OneDirEach ==
    \A a, b \in disk :
        a # b /\ a.dir = b.dir /\ a.name \notin removed /\ b.name \notin removed =>
            \E p \in AddersOf(a), q \in AddersOf(b) : p # q

\* A lark-cli that never shows a QR code is not left running.
NoHungBind ==
    \A r \in Requests :
        binds[r].task = "auth" ~> binds[r].qr \/ binds[r].task = "ended"
=============================================================================
