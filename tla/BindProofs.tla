------------------------------ MODULE BindProofs ------------------------------
(***************************************************************************)
(* Bind for every set of processes, names and directories, and for every   *)
(* number of requests.                                                     *)
(***************************************************************************)
EXTENDS Bind, TLAPS

BindType == [process : Processes, name : Names, dir : Dirs,
             handler : {"none", "asked", "waiting", "over"},
             task : {"none", "auth", "menu", "cancelled", "ended"},
             qr : BOOLEAN, saved : BOOLEAN]

\* What a cache holds and the file does not has been unbound.
CachesAgree ==
    \A p \in Processes : \A b \in cache[p] : b \in disk \/ b.name \in removed

\* The process that has added a binding keeps it in its cache.
AddersKnow ==
    \A r \in Requests :
        binds[r].saved => BindingOf(r) \in cache[binds[r].process] \/ binds[r].name \in removed

\* A binding that nobody has added was there before, and everybody knows it.
EverybodyKnows ==
    \A b \in disk : AddersOf(b) = {} /\ b.name \notin removed =>
        \A p \in Processes : b \in cache[p]

IInv ==
    /\ TypeOK /\ PendingIsAlive /\ CachesAgree /\ NoAddIsLost /\ AddersKnow
    /\ EverybodyKnows /\ OneDirEach

-----------------------------------------------------------------------------

LEMMA Initially == Init => IInv
  <1> SUFFICES ASSUME Init PROVE IInv
    OBVIOUS
  <1>1. TypeOK
    BY DEF Init, TypeOK
  <1>2. PendingIsAlive
    BY DEF Init, PendingIsAlive
  <1>3. CachesAgree /\ EverybodyKnows
    BY DEF Init, CachesAgree, EverybodyKnows
  <1>4. NoAddIsLost /\ AddersKnow
    BY DEF Init, NoAddIsLost, AddersKnow
  <1>5. OneDirEach
    BY DEF Init, OneDirEach
  <1>. QED
    BY <1>1, <1>2, <1>3, <1>4, <1>5 DEF IInv

\* A step of a request that touches neither the store nor what has been saved.
LEMMA StoreKeeps ==
    ASSUME IInv, UNCHANGED <<disk, removed>>,
           cache' \in [Processes -> SUBSET Bindings],
           \A p \in Processes : cache'[p] \in {cache[p], disk},
           binds' \in [Requests -> BindType],
           \A r \in Requests :
              /\ binds'[r].process = binds[r].process /\ binds'[r].name = binds[r].name
              /\ binds'[r].dir = binds[r].dir /\ binds'[r].saved = binds[r].saved
    PROVE  /\ CachesAgree' /\ NoAddIsLost' /\ AddersKnow' /\ EverybodyKnows' /\ OneDirEach'
           /\ \A p \in Processes : \A a, b \in cache'[p] : a.name = b.name => a = b
  <1>1. \A r \in Requests : BindingOf(r)' = BindingOf(r)
    BY DEF BindingOf
  <1>2. \A b : AddersOf(b)' = AddersOf(b)
    BY <1>1 DEF AddersOf
  <1>3. CachesAgree'
    BY DEF IInv, CachesAgree
  <1>4. NoAddIsLost'
    BY <1>1 DEF IInv, NoAddIsLost
  <1>5. AddersKnow'
    BY <1>1 DEF IInv, AddersKnow, NoAddIsLost, TypeOK, BindType
  <1>6. EverybodyKnows'
    BY <1>2 DEF IInv, EverybodyKnows
  <1>7. OneDirEach'
    BY <1>2 DEF IInv, OneDirEach
  <1>8. \A p \in Processes : \A a, b \in cache'[p] : a.name = b.name => a = b
    BY DEF IInv, TypeOK
  <1>. QED
    BY <1>3, <1>4, <1>5, <1>6, <1>7, <1>8

\* The steps of a request that do not save.
LEMMA RequestKeeps ==
    ASSUME IInv, NEW r \in Requests,
           \/ Ask(r) \/ HangUp(r) \/ Launch(r) \/ Answer(r) \/ TimeOut(r)
           \/ ShowQR(r) \/ End(r)
    PROVE  IInv'
  <1> DEFINE p == binds[r].process
             n == binds[r].name
  <1>1. /\ TypeOK /\ binds \in [Requests -> BindType] /\ r \notin {NoBind}
        /\ pending \in [Processes -> [Names -> Requests \cup {NoBind}]]
        /\ p \in Processes /\ n \in Names
    BY AbsentAssumption DEF IInv, TypeOK, BindType
  <1>2. /\ UNCHANGED <<disk, cache, removed>>
        /\ \A q \in Requests \ {r} : binds'[q] = binds[q]
        /\ binds' \in [Requests -> BindType]
        /\ binds'[r].process = p /\ binds'[r].name = n
        /\ binds'[r].dir = binds[r].dir /\ binds'[r].saved = binds[r].saved
    <2>1. CASE Ask(r)
      BY <1>1, <2>1 DEF Ask, store, BindType
    <2>2. CASE HangUp(r)
      BY <1>1, <2>2 DEF HangUp, store, BindType
    <2>3. CASE Launch(r)
      BY <1>1, <2>3 DEF Launch, store, BindType
    <2>4. CASE Answer(r)
      BY <1>1, <2>4 DEF Answer, store, BindType
    <2>5. CASE TimeOut(r)
      BY <1>1, <2>5 DEF TimeOut, Cancelled, store, BindType
    <2>6. CASE ShowQR(r)
      BY <1>1, <2>6 DEF ShowQR, store, BindType
    <2>7. CASE End(r)
      BY <1>1, <2>7 DEF End, store, BindType
    <2>. QED
      BY <2>1, <2>2, <2>3, <2>4, <2>5, <2>6, <2>7
  <1>3. CachesAgree' /\ NoAddIsLost' /\ AddersKnow' /\ EverybodyKnows' /\ OneDirEach'
    BY <1>1, <1>2, StoreKeeps DEF TypeOK
  <1>4. pending' \in [Processes -> [Names -> Requests \cup {NoBind}]] /\ PendingIsAlive'
    <2>1. CASE pending' = pending /\ (binds'[r].task = binds[r].task \/ binds[r].task = "none")
      BY <2>1, <1>1, <1>2 DEF IInv, PendingIsAlive
    <2>2. CASE Launch(r)
      <3>1. /\ pending' = [pending EXCEPT ![p][n] = r] /\ binds'[r].task = "auth"
        BY <2>2, <1>1 DEF Launch, BindType
      <3>2. pending'[p][n] = r /\ \A q \in Processes, m \in Names :
                <<q, m>> # <<p, n>> => pending'[q][m] = pending[q][m]
        BY <3>1, <1>1
      <3>3. pending' \in [Processes -> [Names -> Requests \cup {NoBind}]]
        BY <3>1, <1>1
      <3>. QED
        BY <3>1, <3>2, <3>3, <1>1, <1>2 DEF IInv, PendingIsAlive
    <2>3. CASE Pop(r)
      <3>1. pending'[p][n] = NoBind /\ \A q \in Processes, m \in Names :
                <<q, m>> # <<p, n>> => pending'[q][m] = pending[q][m]
        BY <2>3, <1>1 DEF Pop
      <3>2. pending' \in [Processes -> [Names -> Requests \cup {NoBind}]]
        BY <2>3, <1>1 DEF Pop
      <3>3. \A q \in Processes, m \in Names : pending'[q][m] # NoBind =>
                pending'[q][m] = pending[q][m] /\ pending[q][m] \in Requests \ {r}
        BY <3>1, <1>1 DEF IInv, PendingIsAlive
      <3>. QED
        BY <3>2, <3>3, <1>2 DEF IInv, PendingIsAlive
    <2>4. CASE Ask(r) \/ HangUp(r) \/ Answer(r) \/ ShowQR(r)
      <3>1. pending' = pending /\ binds'[r].task = binds[r].task
        BY <2>4, <1>1 DEF Ask, HangUp, Answer, ShowQR, BindType
      <3>. QED
        BY <2>1, <3>1
    <2>. QED
      BY <2>2, <2>3, <2>4 DEF TimeOut, End
  <1>5. TypeOK'
    BY <1>1, <1>2, <1>4 DEF TypeOK, BindType
  <1>. QED
    BY <1>3, <1>4, <1>5 DEF IInv

\* A process dies and another loads the file.
LEMMA RestartKeeps == ASSUME IInv, NEW p \in Processes, Restart(p) PROVE IInv'
  <1>1. /\ TypeOK /\ binds \in [Requests -> BindType]
        /\ pending \in [Processes -> [Names -> Requests \cup {NoBind}]]
    BY DEF IInv, TypeOK, BindType
  <1>2. /\ UNCHANGED <<disk, removed>>
        /\ cache' \in [Processes -> SUBSET Bindings]
        /\ \A q \in Processes : cache'[q] \in {cache[q], disk}
    BY <1>1 DEF Restart, TypeOK
  <1>3. /\ binds' \in [Requests -> BindType]
        /\ \A r \in Requests :
              /\ binds'[r].process = binds[r].process /\ binds'[r].name = binds[r].name
              /\ binds'[r].dir = binds[r].dir /\ binds'[r].saved = binds[r].saved
              /\ binds[r].process # p => binds'[r] = binds[r]
    BY <1>1 DEF Restart, BindType
  <1>4. /\ CachesAgree' /\ NoAddIsLost' /\ AddersKnow' /\ EverybodyKnows' /\ OneDirEach'
        /\ \A q \in Processes : \A a, b \in cache'[q] : a.name = b.name => a = b
    BY <1>2, <1>3, StoreKeeps
  <1>5. /\ pending' \in [Processes -> [Names -> Requests \cup {NoBind}]]
        /\ \A m \in Names : pending'[p][m] = NoBind
        /\ \A q \in Processes \ {p} : pending'[q] = pending[q]
    BY <1>1 DEF Restart
  <1>6. PendingIsAlive'
    BY <1>1, <1>3, <1>5 DEF IInv, PendingIsAlive
  <1>7. TypeOK'
    BY <1>1, <1>2, <1>3, <1>4, <1>5 DEF TypeOK, BindType
  <1>. QED
    BY <1>4, <1>6, <1>7 DEF IInv

\* The user has scanned: the binding is added to the cache and to the file.
LEMMA CompleteKeeps == ASSUME IInv, NEW r \in Requests, Complete(r) PROVE IInv'
  <1> DEFINE p == binds[r].process
             b == BindingOf(r)
  <1>1. /\ TypeOK /\ binds \in [Requests -> BindType]
        /\ cache \in [Processes -> SUBSET Bindings] /\ disk \subseteq Bindings
    BY DEF IInv, TypeOK, BindType
  <1>2. p \in Processes /\ b \in Bindings /\ b.name = binds[r].name /\ b.dir = binds[r].dir
    BY <1>1 DEF BindType, BindingOf, Bindings
  <1>3. /\ binds[r].task = "auth"
        /\ b.name \notin NamesOf(cache[p]) /\ b.dir \notin DirsOf(cache[p])
        /\ ~Conflict(cache[p], cache[p] \cup {b})
        /\ disk' = Merge(cache[p], cache[p] \cup {b})
        /\ cache' = [cache EXCEPT ![p] = disk']
        /\ binds' = [binds EXCEPT ![r] = [@ EXCEPT !.task = "menu", !.saved = TRUE]]
        /\ UNCHANGED <<pending, removed>>
    BY DEF Complete, Add, Unused, Save
  <1>4. /\ \A a \in cache[p] : a.name # b.name /\ a.dir # b.dir
        /\ \A a \in disk : a.name # b.name
    BY <1>3 DEF NamesOf, DirsOf, Conflict
  <1>5. /\ b \in disk' /\ disk' \subseteq Bindings
        /\ \A a \in disk : a.name \notin removed => a \in disk'
        /\ \A a \in disk' : a = b \/ a \in disk \/ a.name \in removed
        /\ \A a, c \in disk' : a.name = c.name => a = c
    <2>1. disk' = {a \in disk : a.name \notin NamesOf(cache[p])} \cup (cache[p] \cup {b})
      BY <1>3 DEF Merge
    <2>2. b \in disk' /\ disk' \subseteq Bindings
      BY <2>1, <1>1, <1>2
    <2>3. \A a \in disk : a.name \notin removed => a \in disk'
      <3> SUFFICES ASSUME NEW a \in disk, a.name \notin removed, a.name \in NamesOf(cache[p])
                   PROVE  a \in cache[p]
        BY <2>1
      <3>1. PICK c \in cache[p] : c.name = a.name
        BY DEF NamesOf
      <3>2. c \in disk
        BY <3>1, <1>2 DEF IInv, CachesAgree
      <3>. QED
        BY <3>1, <3>2, <1>1 DEF TypeOK
    <2>4. \A a \in disk' : a = b \/ a \in disk \/ a.name \in removed
      BY <2>1, <1>2 DEF IInv, CachesAgree
    <2>5. \A a, c \in disk' : a.name = c.name => a = c
      BY <2>1, <1>1, <1>2, <1>4 DEF TypeOK, NamesOf
    <2>. QED
      BY <2>2, <2>3, <2>4, <2>5
  <1>6. /\ cache'[p] = disk' /\ \A q \in Processes \ {p} : cache'[q] = cache[q]
        /\ cache' \in [Processes -> SUBSET Bindings]
    BY <1>1, <1>2, <1>3, <1>5
  <1>7. /\ binds' \in [Requests -> BindType]
        /\ binds'[r].process = p /\ binds'[r].saved /\ binds'[r].task = "menu"
        /\ \A q \in Requests : BindingOf(q)' = BindingOf(q) /\ binds'[q].process = binds[q].process
                               /\ binds'[q].name = binds[q].name
        /\ \A q \in Requests \ {r} : binds'[q] = binds[q]
    BY <1>1, <1>3 DEF BindType, BindingOf
  <1>8. /\ \A a : a = b => p \in AddersOf(a)'
        /\ \A a : AddersOf(a) \subseteq AddersOf(a)'
    BY <1>7 DEF AddersOf
  <1>9. TypeOK'
    BY <1>1, <1>3, <1>5, <1>6, <1>7 DEF TypeOK, BindType
  <1>10. PendingIsAlive'
    BY <1>3, <1>7 DEF IInv, PendingIsAlive, TypeOK
  <1>11. CachesAgree'
    BY <1>3, <1>5, <1>6 DEF IInv, CachesAgree
  <1>12. NoAddIsLost'
    <2> SUFFICES ASSUME NEW q \in Requests, binds'[q].saved, binds[q].name \notin removed
                 PROVE  BindingOf(q) \in disk'
      BY <1>3, <1>7 DEF NoAddIsLost
    <2>1. CASE q = r
      BY <2>1, <1>5
    <2>2. CASE q # r
      <3>1. BindingOf(q) \in disk
        BY <2>2, <1>7 DEF IInv, NoAddIsLost
      <3>. QED
        BY <3>1, <1>5 DEF BindingOf
    <2>. QED
      BY <2>1, <2>2
  <1>13. AddersKnow'
    <2> SUFFICES ASSUME NEW q \in Requests, binds'[q].saved, binds[q].name \notin removed
                 PROVE  BindingOf(q) \in cache'[binds[q].process]
      BY <1>3, <1>7 DEF AddersKnow
    <2>1. CASE binds[q].process = p
      BY <2>1, <1>3, <1>6, <1>7, <1>12 DEF NoAddIsLost
    <2>2. CASE binds[q].process # p
      <3>1. q # r /\ binds[q].saved /\ binds[q].process \in Processes
        BY <2>2, <1>1, <1>7 DEF BindType
      <3>. QED
        BY <2>2, <3>1, <1>6 DEF IInv, AddersKnow
    <2>. QED
      BY <2>1, <2>2
  <1>14. EverybodyKnows'
    <2> SUFFICES ASSUME NEW a \in disk', AddersOf(a)' = {}, a.name \notin removed,
                        NEW q \in Processes
                 PROVE  a \in cache'[q]
      BY <1>3 DEF EverybodyKnows
    <2>1. a # b /\ a \in disk /\ AddersOf(a) = {}
      BY <1>5, <1>8
    <2>2. a \in cache[q]
      BY <2>1 DEF IInv, EverybodyKnows
    <2>. QED
      BY <2>2, <1>6
  <1>15. OneDirEach'
    <2> SUFFICES ASSUME NEW a \in disk', NEW c \in disk', a # c, a.dir = c.dir,
                        a.name \notin removed, c.name \notin removed
                 PROVE  \E u \in AddersOf(a)', v \in AddersOf(c)' : u # v
      BY <1>3 DEF OneDirEach
    <2>1. ASSUME NEW d \in disk', d # b, d.dir = b.dir, d.name \notin removed
          PROVE  \E u \in AddersOf(d)' : u # p
      <3>1. d \in disk /\ d \notin cache[p]
        BY <2>1, <1>4, <1>5
      <3>2. AddersOf(d) # {}
        BY <2>1, <3>1, <1>2 DEF IInv, EverybodyKnows
      <3>3. PICK i \in Requests : binds[i].saved /\ BindingOf(i) = d
        BY <3>2 DEF AddersOf
      <3>4. binds[i].process # p
        BY <2>1, <3>1, <3>3 DEF IInv, AddersKnow, BindingOf
      <3>5. binds[i].process \in AddersOf(d)
        BY <3>3 DEF AddersOf
      <3>. QED
        BY <3>4, <3>5, <1>8
    <2>2. CASE a = b
      BY <2>2, <2>1, <1>8
    <2>3. CASE c = b
      BY <2>3, <2>1, <1>8
    <2>4. CASE a # b /\ c # b
      <3>1. a \in disk /\ c \in disk
        BY <2>4, <1>5
      <3>. QED
        BY <3>1, <1>8 DEF IInv, OneDirEach
    <2>. QED
      BY <2>2, <2>3, <2>4
  <1>. QED
    BY <1>9, <1>10, <1>11, <1>12, <1>13, <1>14, <1>15 DEF IInv

\* A name leaves the file, unless another process has it in its cache and saves.
LEMMA UnbindKeeps ==
    ASSUME IInv, NEW p \in Processes, NEW n \in Names, Unbind(p, n)
    PROVE  IInv'
  <1> DEFINE new == {b \in cache[p] : b.name # n}
  <1>1. /\ TypeOK /\ cache \in [Processes -> SUBSET Bindings] /\ disk \subseteq Bindings
    BY DEF IInv, TypeOK
  <1>2. /\ n \in NamesOf(cache[p])
        /\ disk' = {b \in disk : b.name \notin NamesOf(cache[p])} \cup new
        /\ cache' = [cache EXCEPT ![p] = disk']
        /\ removed' = removed \cup {n} /\ UNCHANGED <<binds, pending>>
    BY DEF Unbind, Remove, Save, Merge
  <1>3. /\ disk' \subseteq Bindings
        /\ \A a \in disk : a.name \notin removed' => a \in disk'
        /\ \A a \in disk' : a \in disk \/ a.name \in removed'
        /\ \A a, c \in disk' : a.name = c.name => a = c
    <2>1. \A a \in disk : a.name \notin removed' => a \in disk'
      <3> SUFFICES ASSUME NEW a \in disk, a.name \notin removed, a.name # n,
                          a.name \in NamesOf(cache[p])
                   PROVE  a \in cache[p]
        BY <1>2
      <3>1. PICK c \in cache[p] : c.name = a.name
        BY DEF NamesOf
      <3>2. c \in disk
        BY <3>1 DEF IInv, CachesAgree
      <3>. QED
        BY <3>1, <3>2, <1>1 DEF TypeOK
    <2>2. \A a \in disk' : a \in disk \/ a.name \in removed'
      BY <1>2 DEF IInv, CachesAgree
    <2>3. \A a, c \in disk' : a.name = c.name => a = c
      BY <1>1, <1>2 DEF TypeOK, NamesOf
    <2>. QED
      BY <1>1, <1>2, <2>1, <2>2, <2>3
  <1>4. /\ cache'[p] = disk' /\ \A q \in Processes \ {p} : cache'[q] = cache[q]
        /\ cache' \in [Processes -> SUBSET Bindings]
    BY <1>1, <1>2, <1>3
  <1>5. \A r \in Requests : BindingOf(r)' = BindingOf(r)
    BY <1>2 DEF BindingOf
  <1>6. \A a : AddersOf(a)' = AddersOf(a)
    BY <1>2, <1>5 DEF AddersOf
  <1>7. TypeOK'
    BY <1>1, <1>2, <1>3, <1>4 DEF TypeOK
  <1>8. PendingIsAlive'
    BY <1>2 DEF IInv, PendingIsAlive
  <1>9. CachesAgree'
    BY <1>2, <1>3, <1>4 DEF IInv, CachesAgree
  <1>10. NoAddIsLost'
    BY <1>2, <1>3, <1>5 DEF IInv, NoAddIsLost, BindingOf
  <1>11. AddersKnow'
    BY <1>2, <1>4, <1>5, <1>10 DEF IInv, AddersKnow, NoAddIsLost, TypeOK
  <1>12. EverybodyKnows'
    <2> SUFFICES ASSUME NEW a \in disk', AddersOf(a) = {}, a.name \notin removed',
                        NEW q \in Processes
                 PROVE  a \in cache'[q]
      BY <1>6 DEF EverybodyKnows
    <2>1. a \in disk /\ a.name \notin removed
      BY <1>2, <1>3
    <2>2. a \in cache[q]
      BY <2>1 DEF IInv, EverybodyKnows
    <2>. QED
      BY <2>2, <1>4
  <1>13. OneDirEach'
    BY <1>2, <1>3, <1>6 DEF IInv, OneDirEach
  <1>. QED
    BY <1>7, <1>8, <1>9, <1>10, <1>11, <1>12, <1>13 DEF IInv

LEMMA NextKeeps == IInv /\ [Next]_vars => IInv'
  <1> SUFFICES ASSUME IInv, [Next]_vars PROVE IInv'
    OBVIOUS
  <1>1. ASSUME NEW r \in Requests, Request(r) PROVE IInv'
    BY <1>1, RequestKeeps, CompleteKeeps DEF Request
  <1>2. ASSUME NEW p \in Processes, NEW n \in Names, Unbind(p, n) PROVE IInv'
    BY <1>2, UnbindKeeps
  <1>3. ASSUME NEW p \in Processes, Restart(p) PROVE IInv'
    BY <1>3, RestartKeeps
  <1>4. CASE UNCHANGED vars
    <2>1. UNCHANGED <<disk, cache, binds, pending, removed>>
      BY <1>4 DEF vars, store
    <2>2. \A r \in Requests : BindingOf(r)' = BindingOf(r)
      BY <2>1 DEF BindingOf
    <2>3. \A a : AddersOf(a)' = AddersOf(a)
      BY <2>1, <2>2 DEF AddersOf
    <2>. QED
      BY <2>1, <2>2, <2>3 DEF IInv, TypeOK, PendingIsAlive, CachesAgree, NoAddIsLost, AddersKnow,
         EverybodyKnows, OneDirEach
  <1>. QED
    BY <1>1, <1>2, <1>3, <1>4 DEF Next

-----------------------------------------------------------------------------
(* The theorems.                                                           *)

\* Everything below follows from the inductive invariant.
THEOREM Inductive == Spec => []IInv
  BY Initially, NextKeeps, PTL DEF Spec

\* Types, and no name twice in the file or in a cache, for every number of
\* processes that merge.
THEOREM TypeCorrect == Spec => []TypeOK
  <1>1. IInv => TypeOK
    BY DEF IInv
  <1>. QED
    BY <1>1, Inductive, PTL

\* A name is "already in progress" only while a bind of it is.
THEOREM PendingAlive == Spec => []PendingIsAlive
  <1>1. IInv => PendingIsAlive
    BY DEF IInv
  <1>. QED
    BY <1>1, Inductive, PTL

\* What one process has added no save of another takes out of the file.
THEOREM AddsAreKept == Spec => []NoAddIsLost
  <1>1. IInv => NoAddIsLost
    BY DEF IInv
  <1>. QED
    BY <1>1, Inductive, PTL

\* Two bindings of one directory were added by different processes.
THEOREM OneDirPerProcess == Spec => []OneDirEach
  <1>1. IInv => OneDirEach
    BY DEF IInv
  <1>. QED
    BY <1>1, Inductive, PTL
=============================================================================
