--------------------------- MODULE OutboundProofs ---------------------------
(***************************************************************************)
(* Outbound for every kind of transcript, every length of it, and every    *)
(* number and mixture of faults, with or without a replay.                 *)
(***************************************************************************)
EXTENDS Outbound, SequenceTheorems, TLAPS

\* The constant records of the model have their types.
LEMMA Records ==
    /\ NoJob \in Job /\ NoJob.card = 0
    /\ NoTurn \in Turn
    /\ \A n \in Nat : TurnFrom(n) \in Turn
  BY DEF NoJob, NoTurn, Afters, Job, Turn, Body, TurnFrom, NoCard

\* Reading a field of a state, and writing one.
LEMMA StateFields ==
    ASSUME NEW m \in State
    PROVE  /\ m.offset \in 0 .. MaxLines /\ m.card \in Nat /\ m.chat \in BOOLEAN
           /\ \A n \in 0 .. MaxLines : [m EXCEPT !.offset = n] \in State
           /\ \A c \in Nat : [m EXCEPT !.card = c] \in State
           /\ \A n \in 0 .. MaxLines : [m EXCEPT !.offset = n].card = m.card
           /\ \A c \in Nat : [m EXCEPT !.card = c].card = c
           /\ \A n \in Int : [m EXCEPT !.offset = n].chat = m.chat
           /\ \A c \in Int : [m EXCEPT !.card = c].chat = m.chat
  BY DEF State

\* Reading the fields of a coroutine's locals.
LEMMA JobFields ==
    ASSUME NEW j \in Job
    PROVE  /\ j.next \in Nat /\ j.last \in Nat /\ j.live \in BOOLEAN /\ j.after \in Afters
           /\ j.body \in Body /\ j.key \in Int /\ j.card \in Nat
           /\ j.file \in Nat /\ j.files \subseteq Nat
  BY DEF Job

\* Renumbering the lines of a batch, and naming a card.
LEMMA Renumbered ==
    ASSUME NEW j \in Job, NEW m \in Nat, NEW n \in Nat
    PROVE  /\ [j EXCEPT !.next = m] \in Job /\ [j EXCEPT !.next = m].card = j.card
           /\ [j EXCEPT !.next = m, !.last = n] \in Job
           /\ [j EXCEPT !.next = m, !.last = n].card = j.card
  BY DEF Job

LEMMA Named ==
    ASSUME NEW j \in Job, NEW c \in Nat, NEW k \in Int
    PROVE  /\ [j EXCEPT !.card = c] \in Job /\ [j EXCEPT !.card = c].card = c
           /\ [j EXCEPT !.card = c, !.key = k] \in Job
           /\ [j EXCEPT !.card = c, !.key = k].card = c
  BY DEF Job

\* A coroutine that keeps well-typed locals leaves all of them well-typed.
LEMMA KeepJob ==
    ASSUME job \in [Procs -> Job], NEW p \in Procs, NEW j \in Job, Keep(p, j),
           NEW n \in Nat, \A q \in Procs : job[q].card <= n, j.card <= n
    PROVE  job' \in [Procs -> Job] /\ \A q \in Procs : job'[q].card <= n
  BY DEF Keep

\* A coroutine that moves to a program counter.
LEMMA GotoPC ==
    ASSUME pc \in [Procs -> PCs], NEW p \in Procs, NEW l \in PCs, Goto(p, l)
    PROVE  pc' \in [Procs -> PCs]
  BY DEF Goto

\* What process_backlog leaves when it returns.
LEMMA Returned ==
    ASSUME NEW p \in Procs, Return(p)
    PROVE  /\ Goto(p, "idle") /\ disk' \in {mem, disk} /\ phase' \in {"up", phase}
           /\ UNCHANGED replayed
           /\ faults \in 0 .. MaxFaults => faults' \in 0 .. MaxFaults
           /\ happened \subseteq Faults => happened' \subseteq Faults
           /\ happened \subseteq happened'
  BY BoundsAssumption DEF Return, Save, Mishap

\* Type correctness.
THEOREM TypeCorrect == Spec => []TypeOK
<1>1. Init => TypeOK
  <2> SUFFICES ASSUME Init PROVE TypeOK
    OBVIOUS
  <2>1. mem \in State /\ disk \in State /\ mem.card = 0 /\ disk.card = 0
    BY ChatsAssumption, BoundsAssumption DEF Init, State, NoCard
  <2>2. pc \in [Procs -> PCs] /\ job \in [Procs -> Job] /\ CardsExist /\ TasksBelong
    BY <2>1, Records DEF Init, PCs, CardsExist, TasksBelong
  <2>3. jsonl \in Seq(Kinds) /\ Len(jsonl) <= MaxLines
    BY BoundsAssumption DEF Init
  <2>4. cards \in Seq(CardType) /\ files \in Seq(Nat)
    BY DEF Init
  <2>5. turn \in Turn /\ finalAt \in Int /\ faults \in 0 .. MaxFaults
    BY Records, BoundsAssumption DEF Init, NoOffset
  <2> QED BY <2>1, <2>2, <2>3, <2>4, <2>5 DEF Init, TypeOK
<1>2. TypeOK /\ [Next]_vars => TypeOK'
  <2> SUFFICES ASSUME TypeOK, [Next]_vars PROVE TypeOK'
    OBVIOUS
  <2> USE DEF TypeOK, feishu, history, pipeline
  <2>1. ASSUME NEW k \in Kinds, Write(k) PROVE TypeOK'
    <3>1. jsonl' \in Seq(Kinds) /\ Len(jsonl') <= MaxLines
      BY <2>1, BoundsAssumption DEF Write
    <3> QED BY <2>1, <3>1 DEF Write, CardsExist, TasksBelong
  <2>2. CASE GoQuiet
    BY <2>2 DEF GoQuiet, CardsExist, TasksBelong
  <2>3. CASE GoIdle
    BY <2>3 DEF GoIdle, CardsExist, TasksBelong
  <2>4. CASE Tick
    BY <2>4 DEF Tick, Goto, PCs, Procs, CardsExist, TasksBelong
  <2>5. CASE Start
    BY <2>5 DEF Start, Goto, PCs, Procs, CardsExist, TasksBelong
  <2>6. ASSUME NEW p \in Procs, Coroutine(p) \/ RequestFails(p) PROVE TypeOK'
    <3>1. /\ job[p] \in Job /\ pc[p] \in PCs /\ Len(cards) \in Nat
          /\ mem.card <= Len(cards) /\ disk.card <= Len(cards)
          /\ \A q \in Procs : job[q].card <= Len(cards)
      BY DEF CardsExist
    <3>2. CASE Ingest(p)
      <4> DEFINE j == [NoJob EXCEPT !.next = mem.offset + 1, !.last = Len(jsonl)]
      <4>1. PICK size \in mem.offset + 1 .. Len(jsonl) :
                Advance(size) /\ (UNCHANGED history \/ Fault("gap"))
        BY <3>2 DEF Ingest
      <4>2. mem.offset \in Nat /\ Len(jsonl) \in Nat /\ size \in 0 .. MaxLines
        BY BoundsAssumption, StateFields
      <4>3. mem' \in State /\ mem'.card = mem.card /\ disk' = disk
        BY <4>1, <4>2, StateFields DEF Advance
      <4>4. j \in Job /\ j.card <= Len(cards)
        <5>1. mem.offset + 1 \in Nat /\ NoJob \in Job /\ NoJob.card <= Len(cards)
          BY <3>1, <4>2, Records
        <5> QED BY <4>2, <5>1, Renumbered
      <4>5. job' \in [Procs -> Job] /\ \A q \in Procs : job'[q].card <= Len(cards)
        BY <3>1, <3>2, <4>4, KeepJob DEF Ingest
      <4>6. faults' \in 0 .. MaxFaults /\ happened' \subseteq Faults /\ replayed' = replayed
        BY <4>1, BoundsAssumption DEF Fault, Mishap
      <4>7. pc' \in [Procs -> PCs] /\ phase # "down"
        BY <3>2, GotoPC DEF Ingest, PCs, TasksBelong
      <4>8. finalAt' \in Int /\ idle' = FALSE
        <5>1. NoOffset \in Int
          BY DEF NoOffset
        <5> QED BY <3>2, <5>1 DEF Ingest
      <4>9. CardsExist' /\ TasksBelong'
        BY <3>1, <3>2, <4>3, <4>5, <4>7 DEF Ingest, CardsExist, TasksBelong
      <4> QED BY <3>2, <4>3, <4>5, <4>6, <4>7, <4>8, <4>9 DEF Ingest
    <3>3. CASE NothingToDo(p)
      <4>1. pc' \in [Procs -> PCs] /\ phase # "down"
        BY <3>3, GotoPC, Returned DEF NothingToDo, PCs, TasksBelong
      <4>2. /\ disk' \in {mem, disk} /\ phase' \in {"up", phase} /\ replayed' = replayed
            /\ faults' \in 0 .. MaxFaults /\ happened' \subseteq Faults
        BY <3>3, Returned DEF NothingToDo
      <4> QED BY <3>1, <3>3, <4>1, <4>2 DEF NothingToDo, CardsExist, TasksBelong
    <3>4. CASE QuietFlush(p)
      <4> DEFINE j == [NoJob EXCEPT !.live = ~idle, !.after = IF idle THEN "settle" ELSE "anim"]
      <4>1. pc' \in [Procs -> PCs] /\ phase # "down"
        BY <3>4, GotoPC DEF QuietFlush, PCs, TasksBelong
      <4>2. j \in Job /\ j.card \in {0, job[p].card}
        BY <3>1, JobFields, Records DEF Job, Afters
      <4>3. j \in Job /\ j.card <= Len(cards)
        BY <3>1, <4>2
      <4>4. job' \in [Procs -> Job] /\ \A q \in Procs : job'[q].card <= Len(cards)
        BY <3>1, <3>4, <4>3, KeepJob DEF QuietFlush
      <4> QED BY <3>1, <3>4, <4>1, <4>4 DEF QuietFlush, CardsExist, TasksBelong
    <3>5. CASE FinishBacklog(p)
      <4> DEFINE j == NoJob
      <4>1. pc' \in [Procs -> PCs] /\ phase # "down"
        BY <3>5, GotoPC, Returned DEF FinishBacklog, PCs, TasksBelong
      <4>2. j \in Job /\ j.card \in {0, job[p].card}
        BY <3>1, JobFields, Records DEF Job
      <4>3. j \in Job /\ j.card <= Len(cards)
        BY <3>1, <4>2
      <4>4. job' \in [Procs -> Job] /\ \A q \in Procs : job'[q].card <= Len(cards)
        BY <3>1, <3>5, <4>3, KeepJob DEF FinishBacklog
      <4>5. /\ disk' \in {mem, disk} /\ phase' \in {"up", phase} /\ replayed' = replayed
            /\ faults' \in 0 .. MaxFaults /\ happened' \subseteq Faults
        BY <3>5, Returned DEF FinishBacklog
      <4>6. finalAt' \in Int
        BY <3>5, StateFields DEF FinishBacklog, MarkFinal
      <4> QED BY <3>1, <3>5, <4>1, <4>4, <4>5, <4>6 DEF FinishBacklog, CardsExist, TasksBelong
    <3>6. CASE UserLine(p)
      <4> DEFINE j == [job[p] EXCEPT !.live = FALSE, !.after = "user"]
      <4>1. pc' \in [Procs -> PCs] /\ phase # "down"
        BY <3>6, GotoPC DEF UserLine, PCs, TasksBelong
      <4>2. j \in Job /\ j.card \in {0, job[p].card}
        BY <3>1, JobFields DEF Job, Afters
      <4>3. j \in Job /\ j.card <= Len(cards)
        BY <3>1, <4>2
      <4>4. job' \in [Procs -> Job] /\ \A q \in Procs : job'[q].card <= Len(cards)
        BY <3>1, <3>6, <4>3, KeepJob DEF UserLine
      <4> QED BY <3>1, <3>6, <4>1, <4>4 DEF UserLine, CardsExist, TasksBelong
    <3>7. CASE OtherLine(p)
      <4> DEFINE j == [job[p] EXCEPT !.next = job[p].next + 1]
                 cur == IF turn.open THEN turn ELSE TurnFrom(0)
      <4>1. job[p].next \in Nat
        BY <3>1, JobFields
      <4>2. cur \in Turn /\ cur.evs \in Seq(Nat)
        BY Records DEF Turn
      <4>3. Append(cur.evs, job[p].next) \in Seq(Nat)
        BY <4>1, <4>2, AppendProperties
      <4>4. turn' \in Turn
        BY <3>7, <4>2, <4>3 DEF OtherLine, Turn
      <4>5. j \in Job /\ j.card <= Len(cards)
        <5>1. job[p].next + 1 \in Nat
          BY <4>1
        <5> QED BY <3>1, <5>1, Renumbered
      <4>6. Keep(p, j)
        BY <3>7 DEF OtherLine
      <4>7. job' \in [Procs -> Job] /\ \A q \in Procs : job'[q].card <= Len(cards)
        BY <3>1, <4>5, <4>6, KeepJob
      <4> QED BY <3>1, <3>7, <4>4, <4>7 DEF OtherLine, CardsExist, TasksBelong
    <3>8. CASE EndBatch(p)
      <4> DEFINE j == [job[p] EXCEPT !.live = TRUE, !.after = "end"]
      <4>1. pc' \in [Procs -> PCs] /\ phase # "down"
        BY <3>8, GotoPC DEF EndBatch, PCs, TasksBelong
      <4>2. j \in Job /\ j.card \in {0, job[p].card}
        BY <3>1, JobFields DEF Job, Afters
      <4>3. j \in Job /\ j.card <= Len(cards)
        BY <3>1, <4>2
      <4>4. job' \in [Procs -> Job] /\ \A q \in Procs : job'[q].card <= Len(cards)
        BY <3>1, <3>8, <4>3, KeepJob DEF EndBatch
      <4> QED BY <3>1, <3>8, <4>1, <4>4 DEF EndBatch, CardsExist, TasksBelong
    <3>9. CASE OpenTurn(p)
      <4> DEFINE j == [job[p] EXCEPT !.next = @ + 1]
      <4>1. job[p].next \in Nat
        BY <3>1, JobFields
      <4>2. pc' \in [Procs -> PCs] /\ phase # "down"
        BY <3>9, GotoPC DEF OpenTurn, PCs, TasksBelong
      <4>3. job[p].next + 1 \in Nat
        BY <4>1
      <4>4. j \in Job /\ j.card <= Len(cards)
        BY <3>1, <4>3, Renumbered
      <4>5. job' \in [Procs -> Job] /\ \A q \in Procs : job'[q].card <= Len(cards)
        BY <3>1, <3>9, <4>4, KeepJob DEF OpenTurn
      <4>6. turn' \in Turn
        BY <3>9, <4>1, Records DEF OpenTurn, NewTurn
      <4>7. mem' \in State /\ mem'.card = 0
        BY <3>9, StateFields DEF OpenTurn, NewTurn, NoCard
      <4> QED BY <3>1, <3>9, <4>2, <4>5, <4>6, <4>7 DEF OpenTurn, CardsExist, TasksBelong
    <3>10. CASE FlushNothing(p)
      <4>1. pc' \in [Procs -> PCs] /\ phase # "down"
        BY <3>10, GotoPC DEF FlushNothing, PCs, TasksBelong
      <4> QED BY <3>1, <3>10, <4>1 DEF FlushNothing, CardsExist, TasksBelong
    <3>11. CASE Flush(p)
      <4> DEFINE j == [job[p] EXCEPT !.live = @ /\ ~quiet]
      <4>1. pc' \in [Procs -> PCs] /\ phase # "down"
        BY <3>11, GotoPC DEF Flush, PCs, TasksBelong
      <4>2. j \in Job /\ j.card \in {0, job[p].card}
        BY <3>1, JobFields, JobFields DEF Job
      <4>3. j \in Job /\ j.card <= Len(cards)
        BY <3>1, <4>2
      <4>4. job' \in [Procs -> Job] /\ \A q \in Procs : job'[q].card <= Len(cards)
        BY <3>1, <3>11, <4>3, KeepJob DEF Flush
      <4> QED BY <3>1, <3>11, <4>1, <4>4 DEF Flush, CardsExist, TasksBelong
    <3>12. CASE Render(p)
      <4> DEFINE body == [turn |-> turn.user, evs |-> turn.evs, live |-> job[p].live]
                 j == [job[p] EXCEPT !.body = body]
      <4>1. body \in Body
        BY <3>1, JobFields DEF Turn, Body
      <4>2. pc' \in [Procs -> PCs] /\ phase # "down"
        BY <3>12, GotoPC DEF Render, PCs, TasksBelong
      <4>3. j \in Job /\ j.card \in {0, job[p].card}
        BY <3>1, JobFields, <4>1 DEF Job
      <4>4. j \in Job /\ j.card <= Len(cards)
        BY <3>1, <4>3
      <4>5. job' \in [Procs -> Job] /\ \A q \in Procs : job'[q].card <= Len(cards)
        BY <3>1, <3>12, <4>4, KeepJob DEF Render
      <4> QED BY <3>1, <3>12, <4>2, <4>5 DEF Render, CardsExist, TasksBelong
    <3>13. CASE Request(p)
      <4> DEFINE j == [job[p] EXCEPT !.card = Target, !.key = IdempotencyKey]
      <4>1. Target \in Nat /\ Target <= Len(cards) /\ IdempotencyKey \in Int
        BY <3>1, StateFields DEF Target, IdempotencyKey, Turn
      <4>2. pc' \in [Procs -> PCs] /\ phase # "down"
        BY <3>13, GotoPC DEF Request, PCs, TasksBelong
      <4>3. j \in Job /\ j.card = Target
        BY ONLY <3>1, <4>1, Named
      <4>4. j \in Job /\ j.card <= Len(cards)
        BY <4>1, <4>3
      <4>5. job' \in [Procs -> Job] /\ \A q \in Procs : job'[q].card <= Len(cards)
        BY <3>1, <3>13, <4>4, KeepJob DEF Request
      <4> QED BY <3>1, <3>13, <4>2, <4>5 DEF Request, CardsExist, TasksBelong
    <3>14. CASE Reply(p)
      <4> DEFINE j == [job[p] EXCEPT !.files = IF job[p].live THEN {} ELSE FilesOf(turn)]
      <4>1. FilesOf(turn) \subseteq Nat
        BY LenProperties DEF FilesOf, Turn
      <4>2. pc' \in [Procs -> PCs] /\ phase # "down"
        BY <3>14, GotoPC DEF Reply, PCs, TasksBelong, PushFiles
      <4>3. j \in Job /\ j.card \in {0, job[p].card}
        BY <3>1, JobFields, <4>1 DEF Job
      <4>4. j \in Job /\ j.card <= Len(cards)
        BY <3>1, <4>3
      <4>5. job' \in [Procs -> Job] /\ \A q \in Procs : job'[q].card <= Len(cards)
        BY <3>1, <3>14, <4>4, KeepJob DEF Reply, PushFiles
      <4>6. mem' \in State /\ mem'.card <= Len(cards)
        BY <3>1, <3>14, JobFields, StateFields DEF Reply, KeepCard
      <4> QED BY <3>1, <3>14, <4>2, <4>5, <4>6 DEF Reply, CardsExist, TasksBelong, PushFiles
    <3>15. CASE RequestFails(p)
      <4> DEFINE j == [job[p] EXCEPT !.files = IF job[p].live THEN {} ELSE FilesOf(turn)]
      <4>1. FilesOf(turn) \subseteq Nat
        BY LenProperties DEF FilesOf, Turn
      <4>2. pc' \in [Procs -> PCs] /\ phase # "down"
        BY <3>15, GotoPC DEF RequestFails, PCs, TasksBelong, PushFiles
      <4>3. j \in Job /\ j.card \in {0, job[p].card}
        BY <3>1, JobFields, <4>1 DEF Job
      <4>4. j \in Job /\ j.card <= Len(cards)
        BY <3>1, <4>3
      <4>5. job' \in [Procs -> Job] /\ \A q \in Procs : job'[q].card <= Len(cards)
        BY <3>1, <3>15, <4>4, KeepJob DEF RequestFails, PushFiles
      <4>6. faults' \in 0 .. MaxFaults /\ happened' \subseteq Faults /\ replayed' = replayed
        BY <3>15, BoundsAssumption DEF RequestFails, Fault, Mishap
      <4> QED BY <3>1, <3>15, <4>2, <4>5, <4>6 DEF RequestFails, CardsExist, TasksBelong, PushFiles
    <3>16. CASE PushFile(p)
      <4>1. PICK f \in job[p].files :
                Keep(p, [job[p] EXCEPT !.file = f, !.files = @ \ {f}])
        BY <3>16 DEF PushFile
      <4> DEFINE j == [job[p] EXCEPT !.file = f, !.files = @ \ {f}]
      <4>2. j \in Job /\ j.card <= Len(cards)
        BY <3>1, JobFields DEF Job
      <4>3. job' \in [Procs -> Job] /\ \A q \in Procs : job'[q].card <= Len(cards)
        BY <3>1, <4>1, <4>2, KeepJob
      <4>4. pc' \in [Procs -> PCs] /\ phase # "down"
        BY <3>16, GotoPC DEF PushFile, PCs, TasksBelong
      <4> QED BY <3>1, <3>16, <4>3, <4>4 DEF PushFile, CardsExist, TasksBelong
    <3>17. CASE FilePushed(p)
      <4>1. pc' \in [Procs -> PCs] /\ phase # "down"
        BY <3>17, GotoPC DEF FilePushed, PCs, TasksBelong
      <4>2. job[p].file \in Nat
        BY <3>1, JobFields
      <4>3. Append(files, job[p].file) \in Seq(Nat) /\ files \in Seq(Nat)
        BY <4>2, AppendProperties
      <4>4. files' \in Seq(Nat) /\ sentFiles' \subseteq Nat
        BY <3>17, <4>2, <4>3 DEF FilePushed, MarkSent
      <4>5. faults' \in 0 .. MaxFaults /\ happened' \subseteq Faults /\ replayed' = replayed
        BY <3>17, BoundsAssumption DEF FilePushed, Fault, Mishap
      <4> QED BY <3>1, <3>17, <4>1, <4>4, <4>5 DEF FilePushed, CardsExist, TasksBelong
    <3>18. CASE FilesPushed(p)
      <4>1. pc' \in [Procs -> PCs] /\ phase # "down"
        BY <3>18, GotoPC DEF FilesPushed, PCs, TasksBelong
      <4> QED BY <3>1, <3>18, <4>1 DEF FilesPushed, CardsExist, TasksBelong
    <3>19. CASE Send(p)
      <4> DEFINE card == [key |-> job[p].key, turn |-> job[p].body.turn,
                          evs |-> job[p].body.evs, live |-> job[p].body.live]
      <4>1. /\ job[p].body \in Body /\ job[p].key \in Int /\ job[p].body.turn \in Nat
            /\ job[p].body.evs \in Seq(Nat) /\ job[p].body.live \in BOOLEAN
        BY <3>1, JobFields DEF Body
      <4>2. {job[p].body.evs[i] : i \in DOMAIN job[p].body.evs} \subseteq Nat
        BY <4>1, LenProperties
      <4>3. handed' \subseteq Nat
        BY <3>19, <4>2 DEF Send, Hand
      <4>4. PICK c \in Nat : Keep(p, [job[p] EXCEPT !.card = c]) /\ c <= Len(cards')
                /\ Len(cards') \in Nat /\ Len(cards') >= Len(cards)
                /\ cards' \in Seq(CardType)
        <5>1. CASE cards' = Append(cards, card) /\ Keep(p, [job[p] EXCEPT !.card = Len(cards) + 1])
          <6>1. card \in CardType
            BY <4>1 DEF CardType
          <6>2. cards' \in Seq(CardType) /\ Len(cards') = Len(cards) + 1
            BY <5>1, <6>1, AppendProperties
          <6>3. Len(cards) + 1 \in Nat /\ Len(cards) + 1 >= Len(cards) /\ Len(cards) + 1 <= Len(cards')
            BY <3>1, <6>2
          <6>4. WITNESS Len(cards) + 1 \in Nat
          <6> QED BY <3>1, <5>1, <6>2, <6>3
        <5>2. CASE cards' = cards /\ \E c \in DOMAIN cards : Keep(p, [job[p] EXCEPT !.card = c])
          <6>1. PICK c \in DOMAIN cards : Keep(p, [job[p] EXCEPT !.card = c])
            BY <5>2
          <6>2. c \in Nat /\ c <= Len(cards)
            BY <3>1, LenProperties
          <6>3. WITNESS c \in Nat
          <6> QED BY <3>1, <5>2, <6>1, <6>2
        <5> QED BY <3>19, <5>1, <5>2 DEF Send, SameKey
      <4> DEFINE j == [job[p] EXCEPT !.card = c]
      <4>5. j \in Job /\ j.card <= Len(cards') /\ \A q \in Procs : job[q].card <= Len(cards')
        <5>1. \A q \in Procs : job[q].card \in Nat
          BY JobFields
        <5>2. \A q \in Procs : job[q].card <= Len(cards')
          BY <3>1, <4>4, <5>1
        <5> QED BY <3>1, <4>4, <5>2, Named
      <4>6. job' \in [Procs -> Job] /\ \A q \in Procs : job'[q].card <= Len(cards')
        BY <4>4, <4>5, KeepJob
      <4>7. pc' \in [Procs -> PCs] /\ phase # "down"
        BY <3>19, GotoPC DEF Send, PCs, TasksBelong
      <4>8. mem.card <= Len(cards') /\ disk.card <= Len(cards')
        BY <3>1, <4>4, StateFields
      <4> QED BY <3>19, <4>3, <4>4, <4>6, <4>7, <4>8 DEF Send, CardsExist, TasksBelong
    <3>20. CASE Update(p)
      <4>1. /\ job[p].body \in Body /\ job[p].key \in Int /\ job[p].body.turn \in Nat
            /\ job[p].body.evs \in Seq(Nat) /\ job[p].body.live \in BOOLEAN
        BY <3>1, JobFields DEF Body
      <4>2. {job[p].body.evs[i] : i \in DOMAIN job[p].body.evs} \subseteq Nat
        BY <4>1, LenProperties
      <4>3. handed' \subseteq Nat
        BY <3>20, <4>2 DEF Update, Hand
      <4>4. job[p].card \in 1 .. Len(cards)
        BY <3>1, <3>20, JobFields DEF Update, NoCard
      <4>5. cards[job[p].card] \in CardType
        BY <4>4, ElementOfSeq
      <4>6. [key |-> cards[job[p].card].key, turn |-> job[p].body.turn,
             evs |-> job[p].body.evs, live |-> job[p].body.live] \in CardType
        BY <4>1, <4>5 DEF CardType
      <4>7. cards' \in Seq(CardType) /\ Len(cards') = Len(cards)
        BY <3>20, <4>4, <4>6, ExceptSeq DEF Update
      <4>8. pc' \in [Procs -> PCs] /\ phase # "down"
        BY <3>20, GotoPC DEF Update, PCs, TasksBelong
      <4> QED BY <3>1, <3>20, <4>3, <4>7, <4>8 DEF Update, CardsExist, TasksBelong
    <3> QED BY <2>6, <3>2, <3>3, <3>4, <3>5, <3>6, <3>7, <3>8, <3>9, <3>10, <3>11, <3>12,
               <3>13, <3>14, <3>15, <3>16, <3>17, <3>18, <3>19, <3>20
        DEF Coroutine, Backlog, Handle, FlushTurn, Attach, Feishu
  <2>7. CASE Bootstrap
    <3>1. /\ mem' \in State /\ mem'.card = 0 /\ disk' \in {mem', disk} /\ turn' \in Turn
          /\ replayed' = TRUE
      BY <2>7, Records, BoundsAssumption DEF Bootstrap, SaveChat, Save, State, NoCard
    <3>2. faults' \in 0 .. MaxFaults /\ happened' \subseteq Faults
      BY <2>7, BoundsAssumption DEF Bootstrap, SaveChat, Save, Mishap
    <3>3. /\ pc' \in [Procs -> PCs] /\ TasksBelong' /\ disk' \in State
      BY <2>7, <3>1 DEF Bootstrap, Goto, PCs, TasksBelong, Procs
    <3>4. CardsExist'
      BY <2>7, <3>1, LenProperties DEF Bootstrap, CardsExist
    <3> QED BY <2>7, <3>1, <3>2, <3>3, <3>4 DEF Bootstrap
  <2>8. ASSUME NEW s \in {mem, disk}, Down(s) PROVE
            /\ mem' \in State /\ disk' \in State /\ turn' \in Turn
            /\ pc' \in [Procs -> PCs] /\ job' \in [Procs -> Job]
            /\ CardsExist' /\ TasksBelong'
    BY <2>8, Records DEF Down, NoTasks, PCs, CardsExist, TasksBelong
  <2>9. ASSUME NEW f, Fault(f) PROVE
            faults' \in 0 .. MaxFaults /\ happened' \subseteq Faults /\ replayed' = replayed
    BY <2>9, BoundsAssumption DEF Fault, Mishap
  <2>10. CASE Crash
    BY <2>8, <2>9, <2>10 DEF Crash, Down, NoOffset
  <2>11. CASE Stop
    <3>1. PICK s \in {mem, disk} : Down(s)
      BY <2>11 DEF Stop
    <3> QED BY <2>8, <2>9, <2>11, <3>1 DEF Stop, Down, NoOffset
  <2>12. CASE UNCHANGED vars
    BY <2>12 DEF vars, CardsExist, TasksBelong
  <2> QED BY <2>1, <2>2, <2>3, <2>4, <2>5, <2>6, <2>7, <2>10, <2>11, <2>12
      DEF Next, Environment, Time, Lifecycle
<1> QED BY <1>1, <1>2, PTL DEF Spec

-----------------------------------------------------------------------------
(* The chat is saved before the first card.                                *)

\* A flush that has something in flight.
Flushing == {"upload", "acquire", "request", "sent", "updated"}

\* Nobody but a coroutine past the guard of _flush_current_turn reaches Feishu,
\* the guard wants the chat, and the chat is saved as soon as it is known, if it can
\* be.  (After a crash the pipeline starts again with what was saved.)
ChatInv ==
    /\ disk.chat => mem.chat
    /\ "save" \notin happened => mem.chat = disk.chat
    /\ "save" \notin happened /\ cards # << >> => mem.chat
    /\ \A p \in Procs : pc[p] \in Flushing => mem.chat

\* A step that touches neither the state nor the cards, forgets no fault and moves
\* no coroutine into a flush keeps ChatInv.
LEMMA ChatInvUntouched ==
    ASSUME ChatInv, pc \in [Procs -> PCs], UNCHANGED <<mem, disk, cards>>,
           happened \subseteq happened',
           \/ UNCHANGED pc
           \/ \E q \in Procs, l \in PCs : Goto(q, l) /\ (l \in Flushing => mem.chat)
    PROVE  ChatInv'
  BY DEF ChatInv, Goto

LEMMA ChatHolds == Spec => []ChatInv
<1>1. Init => ChatInv
  BY DEF Init, ChatInv, Flushing
<1>2. TypeOK /\ ChatInv /\ [Next]_vars => ChatInv'
  <2> SUFFICES ASSUME TypeOK, ChatInv, [Next]_vars PROVE ChatInv'
    OBVIOUS
  <2> USE DEF feishu, history, pipeline
  <2>1. pc \in [Procs -> PCs] /\ mem \in State /\ disk \in State
    BY DEF TypeOK
  <2>2. CASE Environment
    BY <2>1, <2>2, ChatInvUntouched DEF Environment, Time, GoQuiet, GoIdle, Write
  <2>3. CASE Tick \/ Start
    BY <2>1, <2>3, ChatInvUntouched DEF Tick, Start, Procs, PCs, Flushing
  <2>4. CASE Bootstrap
    BY <2>1, <2>4 DEF Bootstrap, SaveChat, Save, Mishap, State, Goto, ChatInv
  <2>5. ASSUME NEW s \in {mem, disk}, Down(s), happened \subseteq happened' PROVE ChatInv'
    BY <2>5 DEF Down, NoTasks, ChatInv, Flushing
  <2>6. CASE Crash \/ Stop
    BY <2>5, <2>6 DEF Crash, Stop, Fault, Mishap
  <2>7. ASSUME NEW p \in Procs, Coroutine(p) \/ RequestFails(p) PROVE ChatInv'
    <3>1. CASE QuietFlush(p) \/ UserLine(p) \/ EndBatch(p)
      BY <2>1, <3>1, ChatInvUntouched DEF QuietFlush, UserLine, EndBatch, PCs, Flushing
    <3>2. CASE FlushNothing(p) \/ Flush(p)
      BY <2>1, <3>2, ChatInvUntouched DEF FlushNothing, Flush, PCs, Flushing
    <3>3. CASE OtherLine(p)
      BY <2>1, <3>3, ChatInvUntouched DEF OtherLine
    <3>4. CASE PushFile(p) \/ FilePushed(p) \/ FilesPushed(p)
      BY <2>1, <3>4, ChatInvUntouched
         DEF PushFile, FilePushed, FilesPushed, Fault, Mishap, PCs, Flushing
    <3>5. CASE RequestFails(p)
      BY <2>1, <3>5, ChatInvUntouched DEF RequestFails, PushFiles, Fault, Mishap, PCs, Flushing
    <3>6. CASE Render(p) \/ Request(p)
      <4>1. mem.chat
        BY <3>6 DEF Render, Request, ChatInv, Flushing
      <4>2. UNCHANGED <<mem, disk, cards, happened>> /\ \E l \in PCs : Goto(p, l)
        BY <3>6 DEF Render, Request, PCs
      <4> QED BY <2>1, <4>1, <4>2, ChatInvUntouched
    <3>7. CASE Send(p) \/ Update(p)
      <4>1. mem.chat /\ UNCHANGED <<mem, disk, happened>>
        BY <3>7 DEF Send, Update, ChatInv, Flushing
      <4> QED BY <4>1 DEF ChatInv
    <3>8. CASE Reply(p)
      <4>1. mem'.chat = mem.chat /\ UNCHANGED <<disk, cards, happened>> /\ Goto(p, "attach")
        BY <2>1, <3>8, StateFields DEF Reply, KeepCard, PushFiles
      <4> QED BY <2>1, <4>1 DEF ChatInv, Goto, Flushing
    <3>9. CASE Ingest(p)
      <4>1. /\ mem'.chat = mem.chat /\ UNCHANGED <<disk, cards>> /\ Goto(p, "run")
            /\ happened \subseteq happened'
        BY <2>1, <3>9, StateFields DEF Ingest, Advance, Fault, Mishap
      <4> QED BY <2>1, <4>1 DEF ChatInv, Goto, Flushing
    <3>10. CASE OpenTurn(p)
      <4>1. mem'.chat = mem.chat /\ UNCHANGED <<disk, cards, happened>> /\ Goto(p, "run")
        BY <2>1, <3>10, StateFields DEF OpenTurn, NewTurn
      <4> QED BY <2>1, <4>1 DEF ChatInv, Goto, Flushing
    <3>11. CASE NothingToDo(p) \/ FinishBacklog(p)
      <4>1. /\ disk' \in {mem, disk} /\ UNCHANGED <<mem, cards>> /\ Goto(p, "idle")
            /\ happened \subseteq happened'
        BY <3>11, Returned DEF NothingToDo, FinishBacklog
      <4> QED BY <2>1, <4>1 DEF ChatInv, Goto, Flushing
    <3> QED BY <2>7, <3>1, <3>2, <3>3, <3>4, <3>5, <3>6, <3>7, <3>8, <3>9, <3>10, <3>11
        DEF Coroutine, Backlog, Handle, FlushTurn, Attach, Feishu
  <2>8. CASE UNCHANGED vars
    BY <2>1, <2>8, ChatInvUntouched DEF vars
  <2> QED BY <2>2, <2>3, <2>4, <2>6, <2>7, <2>8 DEF Next, Lifecycle
<1> QED BY <1>1, <1>2, TypeCorrect, PTL DEF Spec

\* The chat is never written to before a restart would know of it, unless a save has
\* failed: the replay that follows the save does not ask whether it succeeded.
THEOREM ChatIsSaved == Spec => []ChatSavedFirst
<1>1. ChatInv => ChatSavedFirst
  BY DEF ChatInv, ChatSavedFirst
<1> QED BY <1>1, ChatHolds, PTL

-----------------------------------------------------------------------------
(* One card per user turn.                                                 *)

\* The flush in progress is that of the turn that is open, its key and its card
\* are those of this turn, and the answer names a card with this key.
FlushOfTurn ==
    /\ pc["loop"] \in Flushing \ {"upload"} => job["loop"].body.turn = turn.user
    /\ pc["loop"] \in {"request", "sent"} /\ turn.user # 0 => job["loop"].key = turn.user
    /\ pc["loop"] = "request" => job["loop"].card = mem.card
    /\ pc["loop"] = "sent" =>
          /\ job["loop"].card \in DOMAIN cards
          /\ cards[job["loop"].card].key = job["loop"].key

\* Keys tell cards apart, a card shows the turn of its key or lines without a
\* turn, and the card the state remembers has the key of the open turn.
KeysIdentify ==
    /\ \A c, d \in DOMAIN cards : cards[c].key = cards[d].key => c = d
    /\ \A c \in DOMAIN cards : cards[c].turn \in {0, cards[c].key}
    /\ mem.card # 0 /\ turn.user # 0 => cards[mem.card].key = turn.user

KeyInv == ~replayed => pc["boot"] = "idle" /\ FlushOfTurn /\ KeysIdentify

\* A step that touches neither the turn, the cards nor the card of the state, nor
\* the locals of a flush, and moves no coroutine into one, keeps KeyInv.
LEMMA KeyInvUntouched ==
    ASSUME TypeOK, KeyInv, UNCHANGED <<turn, cards, replayed>>, mem'.card = mem.card,
           \/ UNCHANGED <<pc, job>>
           \/ \E l \in PCs \ (Flushing \ {"upload"}) : Goto("loop", l)
           \/ \E p \in Procs, l \in PCs : Goto(p, l) /\ pc["boot"] # "idle"
    PROVE  KeyInv'
  BY DEF TypeOK, KeyInv, FlushOfTurn, KeysIdentify, Goto, Procs, Flushing

\* A replay is not forgotten.
LEMMA ReplayRemembered == replayed /\ [Next]_vars => replayed'
  BY DEF Next, vars, history, Environment, Time, GoQuiet, GoIdle, Write, Lifecycle, Tick,
         Bootstrap, Start, Crash, Stop, Fault, Return, Coroutine, Backlog, Ingest, NothingToDo,
         QuietFlush, FinishBacklog, Handle, UserLine, OtherLine, EndBatch, OpenTurn,
         FlushTurn, FlushNothing, Flush, Render, Request, Reply, Attach, PushFile,
         FilePushed, FilesPushed, Feishu, Send, Update, RequestFails

LEMMA KeysHold == Spec => []KeyInv
<1>1. Init => KeyInv
  BY DEF Init, KeyInv, FlushOfTurn, KeysIdentify, Flushing, Procs, NoTurn, NoCard
<1>2. TypeOK /\ KeyInv /\ [Next]_vars => KeyInv'
  <2> SUFFICES ASSUME TypeOK, KeyInv, [Next]_vars, ~replayed PROVE KeyInv'
    BY ReplayRemembered DEF KeyInv
  <2> USE DEF feishu, history, pipeline
  <2>1. /\ pc \in [Procs -> PCs] /\ job \in [Procs -> Job]
        /\ mem \in State /\ disk \in State /\ mem.card \in 0 .. Len(cards)
        /\ cards \in Seq(CardType) /\ Len(cards) \in Nat /\ DOMAIN cards = 1 .. Len(cards)
        /\ turn \in Turn /\ turn.user \in Nat
    <3>1. mem.card \in Nat
      BY StateFields DEF TypeOK
    <3>2. turn.user \in Nat
      BY DEF TypeOK, Turn
    <3> QED BY <3>1, <3>2, LenProperties DEF TypeOK, CardsExist
  <2>2. pc["boot"] = "idle" /\ FlushOfTurn /\ KeysIdentify
    BY DEF KeyInv
  <2>3. CASE Environment
    BY <2>3, KeyInvUntouched DEF Environment, Time, GoQuiet, GoIdle, Write
  <2>4. CASE Tick \/ Start
    BY <2>4, KeyInvUntouched DEF Tick, Start, PCs, Flushing
  <2>5. CASE Bootstrap
    BY <2>5 DEF Bootstrap, KeyInv
  <2>6. ASSUME NEW s \in {mem, disk}, Down(s) PROVE KeyInv'
    <3>1. turn'.user = 0 /\ \A p \in Procs : pc'[p] = "idle"
      BY <2>6 DEF Down, NoTurn, NoTasks
    <3>2. KeysIdentify'
      BY <2>2, <2>6, <3>1 DEF Down, KeysIdentify
    <3> QED BY <3>1, <3>2 DEF KeyInv, FlushOfTurn, Flushing, Procs
  <2>7. CASE Crash \/ Stop
    BY <2>6, <2>7 DEF Crash, Stop
  <2>8. ASSUME NEW p \in Procs, Coroutine(p) \/ RequestFails(p) PROVE KeyInv'
    <3>1. p = "loop"
      BY <2>2, <2>8 DEF Procs, Coroutine, Backlog, Ingest, NothingToDo, QuietFlush,
         FinishBacklog, Handle, UserLine, OtherLine, EndBatch, OpenTurn, FlushTurn,
         FlushNothing, Flush, Render, Request, Reply, Attach, PushFile, FilePushed,
         FilesPushed, Feishu, Send, Update, RequestFails
    <3>2. CASE QuietFlush(p) \/ UserLine(p) \/ EndBatch(p)
      BY <3>1, <3>2, KeyInvUntouched DEF QuietFlush, UserLine, EndBatch, PCs, Flushing
    <3>3. CASE FlushNothing(p) \/ Flush(p)
      BY <3>1, <3>3, KeyInvUntouched DEF FlushNothing, Flush, PCs, Flushing
    <3>4. CASE PushFile(p) \/ FilePushed(p) \/ FilesPushed(p)
      BY <3>1, <3>4, KeyInvUntouched
         DEF PushFile, FilePushed, FilesPushed, Fault, PCs, Flushing
    <3>5. CASE RequestFails(p)
      BY <3>1, <3>5, KeyInvUntouched DEF RequestFails, PushFiles, Fault, PCs, Flushing
    <3>6. CASE NothingToDo(p) \/ FinishBacklog(p)
      BY <3>1, <3>6, KeyInvUntouched DEF NothingToDo, FinishBacklog, Return, PCs, Flushing
    <3>7. CASE Ingest(p)
      <4>1. mem'.card = mem.card
        BY <2>1, <3>7, StateFields DEF Ingest, Advance
      <4> QED BY <3>1, <3>7, <4>1, KeyInvUntouched DEF Ingest, Fault, PCs, Flushing
    <3>8. CASE OtherLine(p)
      <4>1. turn'.user \in {0, turn.user} /\ pc["loop"] = "run"
        BY <2>1, <3>1, <3>8 DEF OtherLine, TurnFrom, Turn
      <4> QED BY <2>1, <2>2, <3>8, <4>1
          DEF OtherLine, KeyInv, FlushOfTurn, KeysIdentify, Flushing
    <3>9. CASE OpenTurn(p)
      <4>1. mem'.card = 0 /\ pc' = [pc EXCEPT !["loop"] = "run"]
        BY <2>1, <3>1, <3>9, StateFields DEF OpenTurn, NewTurn, NoCard, Goto
      <4> QED BY <2>1, <2>2, <3>9, <4>1
          DEF OpenTurn, KeyInv, FlushOfTurn, KeysIdentify, Flushing, Procs
    <3>10. CASE Render(p)
      <4>1. pc' \in {[pc EXCEPT !["loop"] = "acquire"], [pc EXCEPT !["loop"] = "after"]}
        BY <3>1, <3>10 DEF Render, Goto
      <4>2. job'["loop"].body.turn = turn.user
        BY <2>1, <3>1, <3>10 DEF Render, Keep, Job
      <4> QED BY <2>1, <2>2, <3>10, <4>1, <4>2
          DEF Render, KeyInv, FlushOfTurn, KeysIdentify, Flushing, Procs
    <3>11. CASE Request(p)
      <4>1. pc["loop"] = "acquire" /\ pc' = [pc EXCEPT !["loop"] = "request"]
        BY <3>1, <3>11 DEF Request, Goto
      <4>2. /\ job'["loop"].body = job["loop"].body
            /\ job'["loop"].card = mem.card /\ job'["loop"].key = IdempotencyKey
        BY <2>1, <3>1, <3>11 DEF Request, Keep, Job, Target
      <4> QED BY <2>1, <2>2, <3>11, <4>1, <4>2
          DEF Request, KeyInv, FlushOfTurn, KeysIdentify, Flushing, Procs, IdempotencyKey
    <3>12. CASE Reply(p)
      <4>1. pc' = [pc EXCEPT !["loop"] = "attach"] /\ UNCHANGED <<turn, cards, replayed>>
        BY <3>1, <3>12 DEF Reply, PushFiles, Goto
      <4>2. \/ mem' = mem
            \/ pc["loop"] = "sent" /\ mem'.card = job["loop"].card
        BY <2>1, <3>1, <3>12, JobFields, StateFields DEF Reply, KeepCard
      <4> QED BY <2>1, <2>2, <4>1, <4>2
          DEF KeyInv, FlushOfTurn, KeysIdentify, Flushing, Procs
    <3>13. CASE Send(p)
      <4> DEFINE j == job["loop"]
                 card == [key |-> j.key, turn |-> j.body.turn,
                          evs |-> j.body.evs, live |-> j.body.live]
      <4>1. /\ pc["loop"] = "request" /\ pc' = [pc EXCEPT !["loop"] = "sent"]
            /\ UNCHANGED <<mem, turn, replayed>>
        BY <3>1, <3>13 DEF Send, Goto
      <4>2. /\ mem.card = 0 /\ j.body.turn = turn.user
            /\ turn.user # 0 => j.key = turn.user
        BY <2>2, <3>1, <3>13 DEF Send, FlushOfTurn, Flushing, NoCard
      <4>3. CASE SameKey(j.key) = {} /\ cards' = Append(cards, card)
                 /\ Keep("loop", [j EXCEPT !.card = Len(cards) + 1])
        <5>1. card \in CardType
          BY <2>1, JobFields DEF CardType, Body, Procs
        <5>2. /\ DOMAIN cards' = 1 .. Len(cards) + 1
              /\ \A c \in DOMAIN cards : cards'[c] = cards[c] /\ cards[c].key # j.key
              /\ cards'[Len(cards) + 1] = card
          BY <2>1, <4>3, <5>1, AppendProperties, LenProperties DEF SameKey
        <5>3. KeysIdentify'
          BY <2>1, <2>2, <4>1, <4>2, <5>2 DEF KeysIdentify
        <5>4. job'["loop"].card = Len(cards) + 1 /\ job'["loop"].key = j.key
              /\ job'["loop"].body = j.body
          BY <2>1, <4>3 DEF Keep, Job, Procs
        <5> QED BY <2>1, <2>2, <4>1, <4>2, <5>2, <5>3, <5>4
            DEF KeyInv, FlushOfTurn, Flushing, Procs
      <4>4. CASE cards' = cards /\ \E c \in SameKey(j.key) : Keep("loop", [j EXCEPT !.card = c])
        <5>1. job'["loop"].key = j.key /\ job'["loop"].body = j.body
              /\ job'["loop"].card \in SameKey(j.key)
          BY <2>1, <4>4 DEF Keep, Job, Procs
        <5> QED BY <2>1, <2>2, <4>1, <4>2, <4>4, <5>1
            DEF KeyInv, KeysIdentify, FlushOfTurn, Flushing, Procs, SameKey
      <4> QED BY <3>1, <3>13, <4>3, <4>4 DEF Send
    <3>14. CASE Update(p)
      <4> DEFINE j == job["loop"]
                 card == [key |-> cards[mem.card].key, turn |-> j.body.turn,
                          evs |-> j.body.evs, live |-> j.body.live]
      <4>1. /\ pc["loop"] = "request" /\ pc' = [pc EXCEPT !["loop"] = "updated"]
            /\ UNCHANGED <<mem, turn, job, replayed>>
        BY <3>1, <3>14 DEF Update, Goto
      <4>2. /\ j.card = mem.card /\ mem.card \in DOMAIN cards /\ j.body.turn = turn.user
            /\ cards' = [cards EXCEPT ![mem.card] = card]
        <5>1. j.card = mem.card /\ j.body.turn = turn.user
          BY <2>2, <4>1 DEF FlushOfTurn, Flushing
        <5>2. mem.card # 0
          BY <3>1, <3>14, <5>1 DEF Update, NoCard
        <5>3. cards' = [cards EXCEPT ![j.card] = [key |-> @.key, turn |-> j.body.turn,
                                       evs |-> j.body.evs, live |-> j.body.live]]
          BY <3>1, <3>14 DEF Update
        <5> QED BY <2>1, <5>1, <5>2, <5>3
      <4>3. /\ DOMAIN cards' = DOMAIN cards
            /\ \A c \in DOMAIN cards : c # mem.card => cards'[c] = cards[c]
            /\ cards'[mem.card] = card
        BY <4>2
      <4>4. \A c \in DOMAIN cards : cards'[c].key = cards[c].key
        BY <4>3
      <4>5. turn.user # 0 => cards[mem.card].key = turn.user
        BY <2>1, <2>2, <4>2 DEF KeysIdentify
      <4>6. KeysIdentify'
        BY <2>2, <4>1, <4>2, <4>3, <4>4, <4>5 DEF KeysIdentify
      <4> QED BY <2>1, <2>2, <4>1, <4>2, <4>6 DEF KeyInv, FlushOfTurn, Flushing, Procs
    <3> QED BY <2>8, <3>2, <3>3, <3>4, <3>5, <3>6, <3>7, <3>8, <3>9, <3>10, <3>11, <3>12,
               <3>13, <3>14
        DEF Coroutine, Backlog, Handle, FlushTurn, Attach, Feishu
  <2>9. CASE UNCHANGED vars
    BY <2>9, KeyInvUntouched DEF vars
  <2> QED BY <2>3, <2>4, <2>5, <2>7, <2>8, <2>9 DEF Next, Lifecycle
<1> QED BY <1>1, <1>2, TypeCorrect, PTL DEF Spec

\* Requests that fail, or whose answer is lost, never give a user turn a second card.
THEOREM CardPerUserTurn == Spec => []OneCardPerUserTurn
<1>1. KeyInv => OneCardPerUserTurn
  BY DEF KeyInv, KeysIdentify, OneCardPerUserTurn
<1> QED BY <1>1, KeysHold, PTL


-----------------------------------------------------------------------------
(* The loop alone.  As long as nothing has been replayed the loop is the   *)
(* only coroutine, and what is proved below is about its own steps.        *)

At == pc["loop"]
Locals == job["loop"]

\* The loop is in a flush, and the lines of the turn may not have reached Feishu yet.
InFlush == {"flush", "attach", "push", "after"} \cup Flushing
Unflushed == {"run", "flush", "upload", "acquire", "request"}

\* The lines of the batch that the loop has still to handle, how many of the
\* transcript it has handled, and the lines of the turn that wait for a flush.
InBatch == At = "run" \/ (At \in InFlush /\ Locals.after = "user")
Left == IF InBatch THEN Locals.next .. Locals.last ELSE {}
Handled == IF InBatch THEN Locals.next - 1 ELSE mem.offset
Waiting == IF At \in Unflushed THEN RangeOf(turn.evs) ELSE {}

\* What the loop's steps assign, action by action.
LEMMA LoopTypes ==
    ASSUME TypeOK
    PROVE  /\ At \in PCs /\ Locals \in Job /\ mem \in State /\ disk \in State /\ turn \in Turn
           /\ Locals.next \in Nat /\ Locals.last \in Nat /\ Locals.after \in Afters
           /\ mem.offset \in Nat /\ disk.offset \in Nat /\ mem.card \in Nat
           /\ mem.card <= Len(cards) /\ Len(cards) \in Nat /\ Len(jsonl) \in Nat
           /\ turn.user \in Nat /\ turn.evs \in Seq(Nat) /\ mem.offset <= MaxLines
           /\ cards \in Seq(CardType) /\ DOMAIN cards = 1 .. Len(cards)
           /\ jsonl \in Seq(Kinds) /\ DOMAIN jsonl = 1 .. Len(jsonl) /\ finalAt \in Int
<1>1. Locals \in Job /\ At \in PCs
  BY DEF TypeOK, Locals, At, Procs
<1>2. turn.user \in Nat /\ turn.evs \in Seq(Nat) /\ turn \in Turn
  BY DEF TypeOK, Turn
<1>3. mem \in State /\ disk \in State /\ mem.card <= Len(cards)
  BY DEF TypeOK, CardsExist
<1>4. cards \in Seq(CardType) /\ jsonl \in Seq(Kinds) /\ finalAt \in Int
  BY DEF TypeOK
<1>5. Len(cards) \in Nat /\ Len(jsonl) \in Nat
      /\ DOMAIN cards = 1 .. Len(cards) /\ DOMAIN jsonl = 1 .. Len(jsonl)
  BY <1>4, LenProperties
<1>6. Locals.next \in Nat /\ Locals.last \in Nat /\ Locals.after \in Afters
  BY <1>1, JobFields
<1>7. mem.offset \in Nat /\ disk.offset \in Nat /\ mem.card \in Nat /\ mem.offset <= MaxLines
  BY <1>3, StateFields, BoundsAssumption
<1> QED BY <1>1, <1>2, <1>3, <1>4, <1>5, <1>6, <1>7

LEMMA LoopMoves ==
    ASSUME TypeOK
    PROVE  /\ \A l : Goto("loop", l) => At' = l /\ pc'["boot"] = pc["boot"]
           /\ \A j : Keep("loop", j) => Locals' = j
  BY DEF TypeOK, Goto, Keep, At, Locals, Procs

LEMMA LoopIngests ==
    ASSUME TypeOK, Ingest("loop")
    PROVE  /\ At = "tick" /\ At' = "run" /\ pc'["boot"] = pc["boot"]
           /\ Locals'.next = mem.offset + 1 /\ Locals'.last = Len(jsonl)
           /\ mem'.offset \in mem.offset + 1 .. Len(jsonl) /\ mem.offset < Len(jsonl)
           /\ mem'.card = mem.card /\ mem'.chat = mem.chat /\ finalAt' = NoOffset
           /\ UNCHANGED <<jsonl, phase, disk, turn, sentFiles, cards, files, handed, replayed>>
           /\ \/ mem'.offset = Len(jsonl) /\ UNCHANGED happened
              \/ happened' = happened \cup {"gap"}
<1> DEFINE j == [NoJob EXCEPT !.next = mem.offset + 1, !.last = Len(jsonl)]
<1>1. At = "tick" /\ Keep("loop", j) /\ Goto("loop", "run") /\ mem.offset < Len(jsonl)
  BY LoopTypes DEF Ingest, At
<1>2. j.next = mem.offset + 1 /\ j.last = Len(jsonl)
  BY Records DEF Job
<1>3. Locals' = j /\ At' = "run" /\ pc'["boot"] = pc["boot"]
  BY <1>1, LoopMoves
<1>4. PICK size \in mem.offset + 1 .. Len(jsonl) :
          /\ Advance(size)
          /\ IF size = Len(jsonl) THEN UNCHANGED history ELSE Fault("gap")
  BY DEF Ingest
<1>5. size \in 0 .. MaxLines
  BY <1>4, LoopTypes, BoundsAssumption DEF TypeOK
<1>6. mem'.offset = size /\ mem'.card = mem.card /\ mem'.chat = mem.chat /\ disk' = disk
  BY <1>4, <1>5, LoopTypes, StateFields DEF Advance, State
<1>7. \/ size = Len(jsonl) /\ UNCHANGED happened
      \/ happened' = happened \cup {"gap"}
  BY <1>4 DEF history, Fault, Mishap
<1>8. UNCHANGED replayed
  BY <1>4 DEF history, Fault
<1> QED BY <1>1, <1>2, <1>3, <1>4, <1>6, <1>7, <1>8 DEF Ingest, feishu

LEMMA LoopReturns ==
    ASSUME TypeOK, NothingToDo("loop") \/ FinishBacklog("loop")
    PROVE  /\ At \in {"tick", "after"} /\ At' = "idle" /\ pc'["boot"] = pc["boot"]
           /\ UNCHANGED <<jsonl, mem, turn, sentFiles, cards, files, handed, replayed>>
           /\ disk' \in {mem, disk} /\ happened \subseteq happened'
           /\ At = "tick" => UNCHANGED <<finalAt, job>>
           /\ At = "after" => /\ Locals.after # "user"
                              /\ finalAt' = IF Locals.after = "settle" THEN mem.offset
                                            ELSE finalAt
  BY LoopMoves, Returned DEF NothingToDo, FinishBacklog, MarkFinal, At, Locals,
     pipeline, feishu, Procs

LEMMA LoopFlushes ==
    ASSUME TypeOK, QuietFlush("loop")
    PROVE  /\ At = "tick" /\ At' = "flush" /\ pc'["boot"] = pc["boot"]
           /\ Locals'.after \in {"settle", "anim"} /\ finalAt # mem.offset
           /\ Locals'.after = "settle" => ~Locals'.live
           /\ UNCHANGED <<jsonl, disk, mem, turn, finalAt, sentFiles, cards, files, handed,
                          replayed, happened>>
<1> DEFINE j == [NoJob EXCEPT !.live = ~idle, !.after = IF idle THEN "settle" ELSE "anim"]
<1>1. At = "tick" /\ Keep("loop", j) /\ Goto("loop", "flush")
  BY DEF QuietFlush, At
<1>2. j.after = IF idle THEN "settle" ELSE "anim"
  BY Records DEF Job
<1>3. NoJob \in Job
  BY Records
<1>4. ASSUME NEW k \in Job, NEW a
      PROVE  [k EXCEPT !.live = ~idle, !.after = a].live <=> ~idle
  BY Zenon DEF Job
<1>5. idle => ~j.live
  BY <1>3, <1>4, Zenon
<1>6. Locals' = j /\ At' = "flush" /\ pc'["boot"] = pc["boot"]
  BY <1>1, LoopMoves
<1> HIDE DEF j
<1>7. Locals'.after \in {"settle", "anim"} /\ (Locals'.after = "settle" => ~Locals'.live)
  BY <1>2, <1>5, <1>6
<1> QED BY <1>1, <1>6, <1>7 DEF QuietFlush, pipeline, feishu, history

\* A user line, or the end of the batch, asks for a flush.
LEMMA LoopAsks ==
    ASSUME TypeOK, UserLine("loop") \/ EndBatch("loop")
    PROVE  /\ At = "run" /\ At' = "flush" /\ pc'["boot"] = pc["boot"]
           /\ Locals'.next = Locals.next /\ Locals'.last = Locals.last
           /\ IF Locals.next <= Locals.last
              THEN Locals'.after = "user" /\ ~Locals'.live /\ jsonl[Locals.next] = "user"
              ELSE Locals'.after = "end"
           /\ UNCHANGED <<jsonl, disk, mem, turn, finalAt, sentFiles, cards, files, handed,
                          replayed, happened>>
<1> DEFINE u == [Locals EXCEPT !.live = FALSE, !.after = "user"]
           e == [Locals EXCEPT !.live = TRUE, !.after = "end"]
<1>1. At = "run" /\ Goto("loop", "flush")
  BY DEF UserLine, EndBatch, At
<1>2. /\ u.next = Locals.next /\ u.last = Locals.last /\ u.after = "user" /\ u.live = FALSE
      /\ e.next = Locals.next /\ e.last = Locals.last /\ e.after = "end"
  BY LoopTypes DEF Job
<1>3. \/ Keep("loop", u) /\ Locals.next <= Locals.last /\ jsonl[Locals.next] = "user"
      \/ Keep("loop", e) /\ Locals.next > Locals.last
  BY DEF UserLine, EndBatch, Locals
<1>4. ~(Locals.next <= Locals.last /\ Locals.next > Locals.last)
  BY LoopTypes
<1> QED BY <1>1, <1>2, <1>3, <1>4, LoopMoves DEF UserLine, EndBatch, pipeline, feishu, history

LEMMA LoopReads ==
    ASSUME TypeOK, OtherLine("loop")
    PROVE  /\ At = "run" /\ At' = "run" /\ UNCHANGED pc
           /\ Locals.next <= Locals.last /\ jsonl[Locals.next] # "user"
           /\ Locals'.next = Locals.next + 1 /\ Locals'.last = Locals.last
           /\ turn'.open /\ turn'.user = IF turn.open THEN turn.user ELSE 0
           /\ LET evs == IF turn.open THEN turn.evs ELSE << >>
              IN  turn'.evs = IF Renders(Locals.next) THEN Append(evs, Locals.next) ELSE evs
           /\ UNCHANGED <<jsonl, disk, mem, finalAt, sentFiles, cards, files, handed,
                          replayed, happened>>
<1> DEFINE j == [Locals EXCEPT !.next = Locals.next + 1]
           cur == IF turn.open THEN turn ELSE TurnFrom(0)
<1>1. At = "run" /\ Keep("loop", j) /\ UNCHANGED pc
  BY DEF OtherLine, At, Locals
<1>2. j.next = Locals.next + 1 /\ j.last = Locals.last
  BY LoopTypes DEF Job
<1>3. turn' = IF Renders(Locals.next) THEN [cur EXCEPT !.evs = Append(@, Locals.next)] ELSE cur
  BY DEF OtherLine, Locals
<1>4. /\ cur \in Turn /\ cur.open /\ cur.user = IF turn.open THEN turn.user ELSE 0
      /\ cur.evs = IF turn.open THEN turn.evs ELSE << >>
  BY LoopTypes, Records DEF TurnFrom
<1> HIDE DEF cur
<1>5. LET e == [cur EXCEPT !.evs = Append(@, Locals.next)]
      IN  e.open = cur.open /\ e.user = cur.user /\ e.evs = Append(cur.evs, Locals.next)
  BY <1>4, Zenon DEF Turn
<1>6. /\ turn'.open /\ turn'.user = cur.user
      /\ turn'.evs = IF Renders(Locals.next) THEN Append(cur.evs, Locals.next) ELSE cur.evs
  BY <1>3, <1>4, <1>5
<1> QED BY <1>1, <1>2, <1>4, <1>6, LoopMoves DEF OtherLine, feishu, history, Locals, At

LEMMA LoopOpens ==
    ASSUME TypeOK, OpenTurn("loop")
    PROVE  /\ At = "after" /\ At' = "run" /\ pc'["boot"] = pc["boot"]
           /\ Locals.after = "user" /\ turn' = TurnFrom(Locals.next)
           /\ Locals'.next = Locals.next + 1 /\ Locals'.last = Locals.last
           /\ mem'.card = NoCard /\ mem'.offset = mem.offset /\ mem'.chat = mem.chat
           /\ UNCHANGED <<jsonl, disk, finalAt, sentFiles, cards, files, handed, replayed,
                          happened>>
<1> DEFINE j == [Locals EXCEPT !.next = @ + 1]
<1>1. /\ At = "after" /\ Keep("loop", j) /\ Goto("loop", "run")
      /\ mem' = [mem EXCEPT !.card = NoCard]
  BY DEF OpenTurn, NewTurn, At, Locals
<1>2. j.next = Locals.next + 1 /\ j.last = Locals.last
  BY LoopTypes DEF Job
<1>3. mem'.card = NoCard /\ mem'.offset = mem.offset /\ mem'.chat = mem.chat
  BY <1>1, LoopTypes DEF State
<1> QED BY <1>1, <1>2, <1>3, LoopMoves DEF OpenTurn, NewTurn, feishu, history, Locals

LEMMA LoopStartsFlush ==
    ASSUME TypeOK, FlushNothing("loop") \/ Flush("loop")
    PROVE  /\ At = "flush" /\ pc'["boot"] = pc["boot"]
           /\ \/ At' = "after" /\ ~(turn.open /\ mem.chat)
              \/ At' = "upload" /\ turn.open /\ mem.chat
           /\ Locals'.next = Locals.next /\ Locals'.last = Locals.last
           /\ Locals'.after = Locals.after /\ (Locals'.live => Locals.live)
           /\ UNCHANGED <<jsonl, disk, mem, turn, finalAt, sentFiles, cards, files, handed,
                          replayed, happened>>
<1> DEFINE j == [Locals EXCEPT !.live = @ /\ ~quiet]
<1>1. /\ j.next = Locals.next /\ j.last = Locals.last /\ j.after = Locals.after
  BY LoopTypes DEF Job
<1>2. j.live => Locals.live
  BY LoopTypes, Zenon DEF Job
<1>3. CASE FlushNothing("loop")
  BY <1>3, LoopMoves DEF FlushNothing, At, Locals, pipeline, feishu, history
<1>4. CASE Flush("loop")
  <2>1. At = "flush" /\ Keep("loop", j) /\ Goto("loop", "upload") /\ turn.open /\ mem.chat
    BY <1>4 DEF Flush, At, Locals
  <2> QED BY <1>1, <1>2, <1>4, <2>1, LoopMoves DEF Flush, pipeline, feishu, history
<1> QED BY <1>3, <1>4

LEMMA LoopRenders ==
    ASSUME TypeOK, Render("loop")
    PROVE  /\ At = "upload" /\ pc'["boot"] = pc["boot"]
           /\ At' = IF turn.evs # << >> \/ Locals.live THEN "acquire" ELSE "after"
           /\ Locals'.next = Locals.next /\ Locals'.last = Locals.last
           /\ Locals'.after = Locals.after /\ Locals'.live = Locals.live
           /\ Locals'.body = [turn |-> turn.user, evs |-> turn.evs, live |-> Locals.live]
           /\ UNCHANGED <<jsonl, disk, mem, turn, finalAt, sentFiles, cards, files, handed,
                          replayed, happened>>
<1> DEFINE body == [turn |-> turn.user, evs |-> turn.evs, live |-> Locals.live]
           j == [Locals EXCEPT !.body = body]
<1>1. /\ At = "upload" /\ Keep("loop", j)
      /\ Goto("loop", IF body.evs # << >> \/ body.live THEN "acquire" ELSE "after")
  BY DEF Render, At, Locals
<1>2. /\ j.next = Locals.next /\ j.last = Locals.last /\ j.after = Locals.after
      /\ j.live = Locals.live /\ j.body = body
  BY LoopTypes, Zenon DEF Job
<1>3. body.evs = turn.evs /\ body.live = Locals.live
  BY Zenon
<1> HIDE DEF body, j
<1>4. At' = IF turn.evs # << >> \/ Locals.live THEN "acquire" ELSE "after"
  BY <1>1, <1>3, LoopMoves
<1>5. Locals' = j /\ pc'["boot"] = pc["boot"]
  BY <1>1, LoopMoves
<1> QED BY <1>1, <1>2, <1>4, <1>5 DEF Render, pipeline, feishu, history, body

LEMMA LoopRequests ==
    ASSUME TypeOK, Request("loop")
    PROVE  /\ At = "acquire" /\ At' = "request" /\ pc'["boot"] = pc["boot"]
           /\ Locals'.next = Locals.next /\ Locals'.last = Locals.last
           /\ Locals'.after = Locals.after /\ Locals'.live = Locals.live
           /\ Locals'.body = Locals.body
           /\ Locals'.card = mem.card
           /\ Locals'.key = IF turn.user > 0 THEN turn.user ELSE -mem.offset
           /\ UNCHANGED <<jsonl, disk, mem, turn, finalAt, sentFiles, cards, files, handed,
                          replayed, happened>>
<1> DEFINE j == [Locals EXCEPT !.card = Target, !.key = IdempotencyKey]
<1>1. At = "acquire" /\ Keep("loop", j) /\ Goto("loop", "request")
  BY DEF Request, At, Locals
<1>2. /\ j.next = Locals.next /\ j.last = Locals.last /\ j.after = Locals.after
      /\ j.live = Locals.live /\ j.body = Locals.body
      /\ j.card = mem.card /\ j.key = IF turn.user > 0 THEN turn.user ELSE -mem.offset
  BY LoopTypes, Zenon DEF Job, Target, IdempotencyKey
<1> QED BY <1>1, <1>2, LoopMoves DEF Request, pipeline, feishu, history

LEMMA LoopSends ==
    ASSUME TypeOK, Send("loop")
    PROVE  /\ At = "request" /\ At' = "sent" /\ pc'["boot"] = pc["boot"]
           /\ Locals.card = NoCard
           /\ Locals'.next = Locals.next /\ Locals'.last = Locals.last
           /\ Locals'.after = Locals.after /\ Locals'.live = Locals.live
           /\ Locals'.body = Locals.body /\ Locals'.key = Locals.key
           /\ \/ /\ \A c \in DOMAIN cards : cards[c].key # Locals.key
                 /\ cards' = Append(cards, [key |-> Locals.key, turn |-> Locals.body.turn,
                                            evs |-> Locals.body.evs, live |-> Locals.body.live])
                 /\ Locals'.card = Len(cards) + 1
              \/ /\ UNCHANGED cards
                 /\ Locals'.card \in DOMAIN cards
                 /\ cards[Locals'.card].key = Locals.key
           /\ handed' = handed \cup RangeOf(Locals.body.evs)
           /\ UNCHANGED <<jsonl, disk, mem, turn, finalAt, sentFiles, files, replayed, happened>>
<1>1. At = "request" /\ Goto("loop", "sent") /\ Locals.card = NoCard
  BY DEF Send, At, Locals
<1>2. PICK c \in Nat :
          /\ Keep("loop", [Locals EXCEPT !.card = c])
          /\ \/ /\ \A d \in DOMAIN cards : cards[d].key # Locals.key
                /\ cards' = Append(cards, [key |-> Locals.key, turn |-> Locals.body.turn,
                                           evs |-> Locals.body.evs, live |-> Locals.body.live])
                /\ c = Len(cards) + 1
             \/ UNCHANGED cards /\ c \in DOMAIN cards /\ cards[c].key = Locals.key
  <2> DEFINE card == [key |-> Locals.key, turn |-> Locals.body.turn,
                      evs |-> Locals.body.evs, live |-> Locals.body.live]
  <2>1. CASE SameKey(Locals.key) = {} /\ cards' = Append(cards, card)
             /\ Keep("loop", [Locals EXCEPT !.card = Len(cards) + 1])
    <3>1. Len(cards) + 1 \in Nat /\ \A d \in DOMAIN cards : cards[d].key # Locals.key
      BY <2>1, LoopTypes DEF SameKey
    <3> QED BY <2>1, <3>1
  <2>2. CASE UNCHANGED cards /\ \E d \in SameKey(Locals.key) :
                 Keep("loop", [Locals EXCEPT !.card = d])
    <3>1. PICK d \in SameKey(Locals.key) : Keep("loop", [Locals EXCEPT !.card = d])
      BY <2>2
    <3>2. d \in Nat /\ d \in DOMAIN cards /\ cards[d].key = Locals.key
      BY LoopTypes DEF SameKey
    <3> QED BY <2>2, <3>1, <3>2
  <2> QED BY <2>1, <2>2 DEF Send, Locals
<1> DEFINE j == [Locals EXCEPT !.card = c]
<1>3. /\ j.next = Locals.next /\ j.last = Locals.last /\ j.after = Locals.after
      /\ j.live = Locals.live /\ j.body = Locals.body /\ j.key = Locals.key /\ j.card = c
  BY LoopTypes, Zenon DEF Job
<1>4. Locals' = j /\ At' = "sent" /\ pc'["boot"] = pc["boot"]
  BY <1>1, <1>2, LoopMoves
<1>5. handed' = handed \cup RangeOf(Locals.body.evs)
  BY DEF Send, Hand, RangeOf, Locals
<1> HIDE DEF j
<1>6. UNCHANGED <<jsonl, disk, mem, turn, finalAt, sentFiles, files, replayed, happened>>
  BY DEF Send, pipeline, history
<1> QED BY <1>1, <1>2, <1>3, <1>4, <1>5, <1>6

LEMMA LoopUpdates ==
    ASSUME TypeOK, Update("loop")
    PROVE  /\ At = "request" /\ At' = "updated" /\ Locals' = Locals
           /\ Locals.card # NoCard
           /\ pc'["boot"] = pc["boot"]
           /\ cards' = [cards EXCEPT ![Locals.card] =
                           [key |-> cards[Locals.card].key, turn |-> Locals.body.turn,
                            evs |-> Locals.body.evs, live |-> Locals.body.live]]
           /\ handed' = handed \cup RangeOf(Locals.body.evs)
           /\ UNCHANGED <<jsonl, disk, mem, turn, finalAt, sentFiles, files, replayed, happened>>
<1>1. handed' = handed \cup RangeOf(Locals.body.evs)
  BY DEF Update, Hand, RangeOf, Locals
<1>2. At = "request" /\ Goto("loop", "updated") /\ Locals.card # NoCard
  BY DEF Update, At, Locals
<1>3. cards' = [cards EXCEPT ![Locals.card] =
                   [key |-> cards[Locals.card].key, turn |-> Locals.body.turn,
                    evs |-> Locals.body.evs, live |-> Locals.body.live]]
  BY DEF Update, Locals
<1>4. UNCHANGED <<jsonl, disk, mem, turn, finalAt, sentFiles, files, replayed, happened, job>>
  BY DEF Update, pipeline, history
<1> QED BY <1>1, <1>2, <1>3, <1>4, LoopMoves DEF Locals

\* An answer, or the exception it ends in: only the answer of a send names the card.
LEMMA LoopIsAnswered ==
    ASSUME TypeOK, Reply("loop") \/ RequestFails("loop")
    PROVE  /\ At \in {"request", "sent", "updated"} /\ At' = "attach"
           /\ pc'["boot"] = pc["boot"]
           /\ Locals'.next = Locals.next /\ Locals'.last = Locals.last
           /\ Locals'.after = Locals.after /\ Locals'.live = Locals.live
           /\ mem'.offset = mem.offset /\ mem'.chat = mem.chat
           /\ \/ /\ UNCHANGED happened /\ At # "request"
                 /\ mem'.card = IF At = "sent" THEN Locals.card ELSE mem.card
              \/ happened' = happened \cup {"fail"} /\ UNCHANGED mem
           /\ UNCHANGED <<jsonl, disk, turn, finalAt, sentFiles, cards, files, handed, replayed>>
<1> DEFINE j == [Locals EXCEPT !.files = IF Locals.live THEN {} ELSE FilesOf(turn)]
<1>1. /\ At \in {"request", "sent", "updated"} /\ Keep("loop", j) /\ Goto("loop", "attach")
  BY DEF Reply, RequestFails, PushFiles, At, Locals
<1>2. /\ j.next = Locals.next /\ j.last = Locals.last /\ j.after = Locals.after
      /\ j.live = Locals.live
  BY LoopTypes, Zenon DEF Job
<1>3. Locals' = j /\ At' = "attach" /\ pc'["boot"] = pc["boot"]
  BY <1>1, LoopMoves
<1> HIDE DEF j
<1>4. CASE Reply("loop")
  <2>1. mem' = IF At = "sent" THEN [mem EXCEPT !.card = Locals.card] ELSE mem
    BY <1>4 DEF Reply, KeepCard, At, Locals
  <2>2. /\ mem'.offset = mem.offset /\ mem'.chat = mem.chat
        /\ mem'.card = IF At = "sent" THEN Locals.card ELSE mem.card
    BY <2>1, LoopTypes DEF State
  <2>3. At # "request"
    BY <1>4 DEF Reply, At
  <2> QED BY <1>1, <1>2, <1>3, <1>4, <2>2, <2>3 DEF Reply, feishu, history
<1>5. CASE RequestFails("loop")
  BY <1>1, <1>2, <1>3, <1>5 DEF RequestFails, Fault, Mishap, pipeline, feishu
<1> QED BY <1>4, <1>5

LEMMA LoopAttaches ==
    ASSUME TypeOK, Attach("loop")
    PROVE  /\ pc'["boot"] = pc["boot"]
           /\ Locals'.next = Locals.next /\ Locals'.last = Locals.last
           /\ Locals'.after = Locals.after /\ Locals'.live = Locals.live
           /\ \/ /\ At = "attach" /\ At' = "push"
                 /\ Locals'.file \notin sentFiles /\ UNCHANGED <<files, sentFiles, happened>>
              \/ /\ At = "push" /\ At' = "attach" /\ Locals.file \in Nat
                 /\ sentFiles' = sentFiles \cup {Locals.file}
                 /\ \/ files' = Append(files, Locals.file) /\ UNCHANGED happened
                    \/ UNCHANGED files /\ happened' = happened \cup {"fail"}
              \/ /\ At = "attach" /\ At' = "after" /\ UNCHANGED <<files, sentFiles, happened>>
           /\ UNCHANGED <<jsonl, disk, mem, turn, finalAt, cards, handed, replayed>>
<1>1. CASE PushFile("loop")
  <2>1. PICK f \in Locals.files \ sentFiles :
            Keep("loop", [Locals EXCEPT !.file = f, !.files = @ \ {f}])
    BY <1>1 DEF PushFile, Locals
  <2> DEFINE j == [Locals EXCEPT !.file = f, !.files = @ \ {f}]
  <2>2. At = "attach" /\ At' = "push" /\ pc'["boot"] = pc["boot"] /\ Locals' = j
    BY <1>1, <2>1, LoopMoves DEF PushFile, At
  <2>3. /\ j.next = Locals.next /\ j.last = Locals.last /\ j.after = Locals.after
        /\ j.live = Locals.live /\ j.file = f
    BY LoopTypes, Zenon DEF Job
  <2> HIDE DEF j
  <2> QED BY <1>1, <2>1, <2>2, <2>3 DEF PushFile, pipeline, feishu, history
<1>2. CASE FilePushed("loop")
  <2>1. Locals.file \in Nat
    BY LoopTypes, JobFields
  <2> QED BY <1>2, <2>1, LoopMoves
      DEF FilePushed, MarkSent, Fault, Mishap, At, Locals, pipeline, feishu, history
<1>3. CASE FilesPushed("loop")
  BY <1>3, LoopMoves DEF FilesPushed, At, Locals, pipeline, feishu, history
<1> QED BY <1>1, <1>2, <1>3 DEF Attach

\* The steps of everyone else: Claude's, those that only pass time or wake the
\* loop, and the two that end the pipeline.
Wakes ==
    /\ UNCHANGED <<jsonl, mem, disk, turn, finalAt, sentFiles, cards, files, handed, replayed,
                   happened>>
    /\ Locals' = Locals /\ pc'["boot"] = pc["boot"]
    /\ At' = At \/ (At = "idle" /\ At' = "tick")

LEMMA LoopWrites ==
    ASSUME TypeOK, NEW k \in Kinds, Write(k)
    PROVE  /\ UNCHANGED <<mem, disk, turn, finalAt, sentFiles, cards, files, handed,
                          replayed, happened>>
           /\ At' = At /\ Locals' = Locals /\ pc'["boot"] = pc["boot"]
           /\ Len(jsonl') = Len(jsonl) + 1 /\ \A i \in 1 .. Len(jsonl) : jsonl'[i] = jsonl[i]
<1>1. jsonl' = Append(jsonl, k) /\ jsonl \in Seq(Kinds)
  BY DEF Write, TypeOK
<1>2. Len(jsonl') = Len(jsonl) + 1 /\ \A i \in 1 .. Len(jsonl) : jsonl'[i] = jsonl[i]
  BY <1>1, AppendProperties
<1> QED BY <1>2 DEF Write, At, Locals, pipeline, feishu, history

LEMMA LoopDies ==
    ASSUME TypeOK, Crash \/ Stop
    PROVE  /\ At' = "idle" /\ pc'["boot"] = "idle" /\ Locals' = NoJob /\ turn' = NoTurn
           /\ finalAt' = NoOffset /\ sentFiles' = {}
           /\ \/ mem' = disk /\ happened' = happened \cup {"crash"}
              \/ mem' \in {mem, disk} /\ happened' = happened \cup {"stop"}
           /\ disk' = mem'
           /\ UNCHANGED <<jsonl, cards, files, handed, replayed>>
  BY DEF Crash, Stop, Down, NoTasks, Fault, Mishap, At, Locals, feishu, Procs

LEMMA LoopSteps ==
    ASSUME TypeOK, pc["boot"] = "idle", ~replayed', [Next]_vars
    PROVE  \/ \E k \in Kinds : Write(k)
           \/ Wakes \/ Crash \/ Stop
           \/ Coroutine("loop") \/ RequestFails("loop")
<1>1. CASE GoQuiet \/ GoIdle \/ UNCHANGED vars
  BY <1>1 DEF GoQuiet, GoIdle, vars, Wakes, At, Locals, pipeline, feishu, history
<1>2. CASE Tick
  BY <1>2, LoopMoves DEF Tick, Wakes, At, Locals, pipeline, feishu, history
<1>3. CASE Start
  <2>1. At = "idle"
    BY <1>3 DEF Start, TypeOK, TasksBelong, At, Procs
  <2> QED BY <1>3, <2>1, LoopMoves DEF Start, Wakes, At, Locals, pipeline, feishu, history
<1>4. CASE Bootstrap
  BY <1>4 DEF Bootstrap
<1>5. ASSUME NEW p \in Procs, Coroutine(p) \/ RequestFails(p)
      PROVE  Coroutine("loop") \/ RequestFails("loop")
  <2>1. p = "loop"
    BY <1>5 DEF Procs, Coroutine, Backlog, Ingest, NothingToDo, QuietFlush,
       FinishBacklog, Handle, UserLine, OtherLine, EndBatch, OpenTurn, FlushTurn,
       FlushNothing, Flush, Render, Request, Reply, Attach, PushFile, FilePushed,
       FilesPushed, Feishu, Send, Update, RequestFails
  <2> QED BY <1>5, <2>1
<1> QED BY <1>1, <1>2, <1>3, <1>4, <1>5 DEF Next, Environment, Time, Lifecycle

\* The batch is a part of the transcript and reaches the offset; a flush that a user
\* line asked for has this line next; and only a pipeline without a turn is closed.
BatchInv == ~replayed =>
    /\ pc["boot"] = "idle"
    /\ mem.offset <= Len(jsonl) /\ disk.offset <= Len(jsonl)
    /\ At = "run" => Locals.next <= Locals.last + 1
    /\ InBatch =>
          1 <= Locals.next /\ mem.offset <= Locals.last /\ Locals.last <= Len(jsonl)
    /\ At \in InFlush /\ Locals.after = "user" =>
          Locals.next <= Locals.last /\ jsonl[Locals.next] = "user"
    /\ turn.open \/ (turn.user = 0 /\ turn.evs = << >>)

LEMMA Batches == Spec => []BatchInv
<1>1. Init => BatchInv
  BY DEF Init, BatchInv, InBatch, InFlush, Flushing, At, NoTurn, Procs
<1>2. TypeOK /\ BatchInv /\ [Next]_vars => BatchInv'
  <2> SUFFICES ASSUME TypeOK, BatchInv, [Next]_vars, ~replayed' PROVE BatchInv'
    BY DEF BatchInv
  <2>1. ~replayed /\ pc["boot"] = "idle"
    BY ReplayRemembered DEF BatchInv
  <2> USE LoopTypes DEF BatchInv, InBatch, InFlush, Flushing
  <2>2. ASSUME NEW k \in Kinds, Write(k) PROVE BatchInv'
    BY <2>1, <2>2, LoopWrites
  <2>3. CASE Wakes
    BY <2>1, <2>3 DEF Wakes
  <2>4. CASE Crash \/ Stop
    BY <2>1, <2>4, LoopDies DEF NoTurn
  <2>5. CASE Ingest("loop")
    BY <2>1, <2>5, LoopIngests
  <2>6. CASE NothingToDo("loop") \/ FinishBacklog("loop")
    BY <2>1, <2>6, LoopReturns
  <2>7. CASE QuietFlush("loop")
    BY <2>1, <2>7, LoopFlushes
  <2>8. CASE UserLine("loop") \/ EndBatch("loop")
    BY <2>1, <2>8, LoopAsks
  <2>9. CASE OtherLine("loop")
    BY <2>1, <2>9, LoopReads
  <2>10. CASE OpenTurn("loop")
    BY <2>1, <2>10, LoopOpens DEF TurnFrom
  <2>11. CASE FlushNothing("loop") \/ Flush("loop")
    BY <2>1, <2>11, LoopStartsFlush
  <2>12. CASE Render("loop")
    BY <2>1, <2>12, LoopRenders
  <2>13. CASE Request("loop")
    BY <2>1, <2>13, LoopRequests
  <2>14. CASE Send("loop")
    BY <2>1, <2>14, LoopSends
  <2>15. CASE Update("loop")
    BY <2>1, <2>15, LoopUpdates
  <2>16. CASE Reply("loop") \/ RequestFails("loop")
    BY <2>1, <2>16, LoopIsAnswered
  <2>17. CASE Attach("loop")
    BY <2>1, <2>17, LoopAttaches
  <2> QED BY <2>1, <2>2, <2>3, <2>4, <2>5, <2>6, <2>7, <2>8, <2>9, <2>10, <2>11, <2>12, <2>13,
             <2>14, <2>15, <2>16, <2>17, LoopSteps
      DEF Coroutine, Backlog, Handle, FlushTurn, Feishu
<1> QED BY <1>1, <1>2, TypeCorrect, PTL DEF Spec

-----------------------------------------------------------------------------
(* A file is pushed once.                                                  *)

\* What is in the chat is marked, and what is being pushed is not.
FilesInv == ~replayed /\ happened \cap {"crash", "stop"} = {} =>
    /\ RangeOf(files) \subseteq sentFiles
    /\ At = "push" => Locals.file \notin sentFiles
    /\ FilesSentOnce

\* However many flushes see a file, and whatever requests fail, it is pushed once,
\* as long as one pipeline lives and nothing is replayed beside it.
THEOREM FilesAreSentOnce ==
    Spec => [](~replayed /\ happened \cap {"crash", "stop"} = {} => FilesSentOnce)
<1>1. Init => FilesInv
  BY DEF Init, FilesInv, RangeOf, FilesSentOnce, At, Procs
<1>2. TypeOK /\ BatchInv /\ FilesInv /\ [Next]_vars => FilesInv'
  <2> SUFFICES ASSUME TypeOK, BatchInv, FilesInv, [Next]_vars,
                      ~replayed', happened' \cap {"crash", "stop"} = {}
               PROVE  FilesInv'
    BY DEF FilesInv
  <2>1. ~replayed /\ pc["boot"] = "idle"
    BY ReplayRemembered DEF BatchInv
  <2> USE DEF FilesInv
  <2>2. ASSUME happened \subseteq happened', UNCHANGED <<files, sentFiles>>,
               At' = "push" => At = "push" /\ Locals'.file = Locals.file
        PROVE  FilesInv'
    BY <2>1, <2>2 DEF RangeOf, FilesSentOnce
  <2>3. ASSUME NEW k \in Kinds, Write(k) PROVE FilesInv'
    BY <2>2, <2>3, LoopWrites
  <2>4. CASE Wakes
    BY <2>2, <2>4 DEF Wakes
  <2>5. CASE Crash \/ Stop
    BY <2>5, LoopDies
  <2>6. CASE Backlog("loop") \/ Handle("loop") \/ Feishu("loop") \/ RequestFails("loop")
    BY <2>2, <2>6, LoopIngests, LoopReturns, LoopFlushes, LoopAsks, LoopReads, LoopOpens,
       LoopSends, LoopUpdates, LoopIsAnswered DEF Backlog, Handle, Feishu
  <2>7. CASE FlushTurn("loop")
    BY <2>2, <2>7, LoopStartsFlush, LoopRenders, LoopRequests, LoopIsAnswered DEF FlushTurn
  <2>8. CASE Attach("loop")
    <3>1. CASE At = "attach" /\ At' = "push" /\ Locals'.file \notin sentFiles
               /\ UNCHANGED <<files, sentFiles, happened>>
      BY <2>1, <3>1 DEF RangeOf, FilesSentOnce
    <3>2. CASE At' # "push" /\ UNCHANGED <<files, sentFiles, happened>>
      BY <2>2, <3>2
    <3>3. CASE /\ At = "push" /\ At' = "attach" /\ Locals.file \in Nat
               /\ sentFiles' = sentFiles \cup {Locals.file}
               /\ files' = Append(files, Locals.file) /\ UNCHANGED happened
      <4>1. files \in Seq(Nat) /\ Len(files) \in Nat /\ DOMAIN files = 1 .. Len(files)
        BY LenProperties DEF TypeOK
      <4>2. /\ DOMAIN files' = 1 .. Len(files) + 1 /\ files'[Len(files) + 1] = Locals.file
            /\ \A i \in 1 .. Len(files) : files'[i] = files[i]
        <5>1. files' \in Seq(Nat) /\ Len(files') = Len(files) + 1
              /\ files'[Len(files) + 1] = Locals.file
              /\ \A i \in 1 .. Len(files) : files'[i] = files[i]
          BY <3>3, <4>1, AppendProperties
        <5> QED BY <5>1, LenProperties
      <4>3. Locals.file \notin sentFiles /\ RangeOf(files) \subseteq sentFiles /\ FilesSentOnce
        BY <2>1, <3>3
      <4>4. \A i \in 1 .. Len(files) : files'[i] \in sentFiles /\ files'[i] # Locals.file
        BY <4>1, <4>2, <4>3 DEF RangeOf
      <4>5. RangeOf(files') \subseteq sentFiles'
        BY <3>3, <4>1, <4>2, <4>4 DEF RangeOf
      <4>6. FilesSentOnce'
        BY <4>1, <4>2, <4>3, <4>4 DEF FilesSentOnce
      <4> QED BY <3>3, <4>5, <4>6
    <3>4. CASE /\ At = "push" /\ At' = "attach" /\ sentFiles' = sentFiles \cup {Locals.file}
               /\ UNCHANGED files /\ happened' = happened \cup {"fail"}
      BY <2>1, <3>4 DEF RangeOf, FilesSentOnce
    <3> QED BY <2>8, <3>1, <3>2, <3>3, <3>4, LoopAttaches
  <2> QED BY <2>1, <2>3, <2>4, <2>5, <2>6, <2>7, <2>8, LoopSteps DEF Coroutine
<1>3. FilesInv => (~replayed /\ happened \cap {"crash", "stop"} = {} => FilesSentOnce)
  BY DEF FilesInv
<1> QED BY <1>1, <1>2, <1>3, TypeCorrect, Batches, PTL DEF Spec

-----------------------------------------------------------------------------
(* A crash skips no line.                                                  *)

\* What the saved offset has passed Feishu has got; what the offset of the pipeline
\* has passed it has got too, or it is in the turn or in the rest of the batch.
HandInv == ~replayed /\ happened \cap {"fail", "stop"} = {} /\ mem.chat =>
    /\ Rendering(disk.offset) \subseteq handed
    /\ Rendering(mem.offset) \subseteq handed \cup Left \cup Waiting
    /\ At \in {"acquire", "request"} => Locals.body.evs = turn.evs

\* The lines that render do not change.
LEMMA RendersOn ==
    ASSUME NEW n \in Nat, TypeOK, n <= Len(jsonl),
           UNCHANGED jsonl \/ \E k \in Kinds : Write(k)
    PROVE  Rendering(n)' = Rendering(n)
<1>1. CASE UNCHANGED jsonl
  BY <1>1 DEF Rendering, Renders
<1>2. ASSUME NEW k \in Kinds, Write(k) PROVE Rendering(n)' = Rendering(n)
  <2>1. \A i \in 1 .. n : jsonl'[i] = jsonl[i]
    BY <1>2, LoopWrites, LoopTypes
  <2> QED BY <2>1 DEF Rendering, Renders
<1> QED BY <1>1, <1>2

\* The lines of a sequence of lines with one more.
LEMMA RangeOfAppend ==
    ASSUME NEW s \in Seq(Nat), NEW e \in Nat
    PROVE  RangeOf(Append(s, e)) = RangeOf(s) \cup {e}
<1>1. Append(s, e) \in Seq(Nat) /\ Len(Append(s, e)) = Len(s) + 1 /\ Append(s, e)[Len(s) + 1] = e
      /\ \A i \in 1 .. Len(s) : Append(s, e)[i] = s[i]
  BY AppendProperties
<1>2. DOMAIN Append(s, e) = 1 .. Len(s) + 1 /\ DOMAIN s = 1 .. Len(s) /\ Len(s) \in Nat
  BY <1>1, LenProperties
<1> QED BY <1>1, <1>2 DEF RangeOf

LEMMA HandPreserved ==
    ASSUME TypeOK, TypeOK', BatchInv, BatchInv', ChatInv, HandInv, [Next]_vars
    PROVE  HandInv'
<1> SUFFICES ASSUME ~replayed', happened' \cap {"fail", "stop"} = {}, mem'.chat PROVE HandInv'
  BY DEF HandInv
<1>1. ~replayed /\ pc["boot"] = "idle"
  BY ReplayRemembered DEF BatchInv
<1> USE LoopTypes DEF InBatch, InFlush, Flushing, Left, Waiting, Unflushed
<1>2. ASSUME happened \subseteq happened', mem'.chat = mem.chat
      PROVE  /\ Rendering(disk.offset) \subseteq handed
             /\ Rendering(mem.offset) \subseteq handed \cup Left \cup Waiting
             /\ At \in {"acquire", "request"} => Locals.body.evs = turn.evs
  BY <1>1, <1>2 DEF HandInv
<1>3. /\ mem.offset <= Len(jsonl) /\ disk.offset <= Len(jsonl)
      /\ InBatch => 1 <= Locals.next /\ mem.offset <= Locals.last
      /\ At \in InFlush /\ Locals.after = "user" => jsonl[Locals.next] = "user"
      /\ turn.open \/ turn.evs = << >>
  BY <1>1 DEF BatchInv
\* A step that gives Feishu no line and saves what it has got.
<1>4. ASSUME happened \subseteq happened', UNCHANGED <<jsonl, handed>>,
             mem'.offset = mem.offset, mem'.chat = mem.chat,
             disk' = disk \/ (disk' = mem /\ Left \cup Waiting = {}),
             (Left \cup Waiting) \subseteq (Left \cup Waiting)',
             At' \in {"acquire", "request"} => Locals'.body.evs = turn'.evs
      PROVE  HandInv'
  <2>1. Rendering(mem.offset)' = Rendering(mem.offset)
    BY <1>4 DEF Rendering, Renders
  <2>2. Rendering(disk.offset)' \subseteq handed
    <3>1. Rendering(disk.offset) \subseteq handed
          /\ Rendering(mem.offset) \subseteq handed \cup Left \cup Waiting
      BY <1>2, <1>4
    <3>2. CASE disk' = disk
      <4>1. Rendering(disk.offset)' = Rendering(disk.offset)
        BY <1>4, <3>2 DEF Rendering, Renders
      <4> QED BY <3>1, <4>1
    <3>3. CASE disk' = mem /\ Left \cup Waiting = {}
      <4>1. Rendering(disk.offset)' = Rendering(mem.offset)
        BY <1>4, <3>3 DEF Rendering, Renders
      <4> QED BY <3>1, <3>3, <4>1
    <3> QED BY <1>4, <3>2, <3>3
  <2> QED BY <1>2, <1>4, <2>1, <2>2 DEF HandInv
<1>5. ASSUME NEW k \in Kinds, Write(k) PROVE HandInv'
  <2>1. Rendering(mem.offset)' = Rendering(mem.offset) /\ Rendering(disk.offset)' = Rendering(disk.offset)
    <3>1. \A n \in Nat : n <= Len(jsonl) => Rendering(n)' = Rendering(n)
      BY <1>5, RendersOn
    <3>2. mem' = mem /\ disk' = disk
      BY <1>5, LoopWrites
    <3> QED BY <1>3, <3>1, <3>2 DEF Rendering, Renders
  <2>2. Left' = Left /\ Waiting' = Waiting
    BY <1>5, LoopWrites DEF RangeOf
  <2>3. /\ UNCHANGED <<handed, happened, mem>> /\ At' = At /\ Locals' = Locals /\ turn' = turn
    BY <1>5, LoopWrites
  <2> QED BY <1>2, <2>1, <2>2, <2>3 DEF HandInv
<1>6. CASE Wakes
  <2>1. Left' = Left /\ Waiting' = Waiting
    BY <1>6 DEF Wakes, RangeOf
  <2>2. At' \in {"acquire", "request"} => Locals'.body.evs = turn'.evs
    BY <1>2, <1>6 DEF Wakes
  <2> QED BY <1>4, <1>6, <2>1, <2>2 DEF Wakes
<1>7. CASE Crash \/ Stop
  <2>1. mem' = disk /\ disk' = disk /\ happened' = happened \cup {"crash"}
        /\ UNCHANGED <<jsonl, handed>> /\ At' = "idle"
    BY <1>7, LoopDies
  <2>2. disk.chat /\ mem.chat
    BY <2>1 DEF ChatInv
  <2>3. Rendering(disk.offset) \subseteq handed
    BY <1>2, <2>1, <2>2
  <2>4. Rendering(mem.offset)' = Rendering(disk.offset)
        /\ Rendering(disk.offset)' = Rendering(disk.offset)
    BY <2>1 DEF Rendering, Renders
  <2> QED BY <2>1, <2>3, <2>4 DEF HandInv
<1>8. CASE Ingest("loop")
  <2>1. /\ At = "tick" /\ At' = "run" /\ UNCHANGED <<jsonl, disk, handed, turn>>
        /\ Locals'.next = mem.offset + 1 /\ Locals'.last = Len(jsonl)
        /\ mem'.offset \in mem.offset + 1 .. Len(jsonl) /\ mem'.chat = mem.chat
        /\ happened \subseteq happened'
    BY <1>8, LoopIngests
  <2>2. Rendering(mem.offset) \subseteq handed
    BY <1>2, <2>1
  <2>3. Left' = mem.offset + 1 .. Len(jsonl)
    BY <2>1
  <2>4. mem'.offset \in Nat /\ mem'.offset <= Len(jsonl)
    BY <2>1
  <2>5. Rendering(mem.offset)' \subseteq Rendering(mem.offset) \cup Left'
    BY <2>1, <2>3, <2>4 DEF Rendering, Renders
  <2>6. Rendering(disk.offset)' = Rendering(disk.offset)
    BY <2>1 DEF Rendering, Renders
  <2> QED BY <1>2, <2>1, <2>2, <2>5, <2>6 DEF HandInv
<1>9. CASE NothingToDo("loop") \/ FinishBacklog("loop")
  <2>1. /\ At \in {"tick", "after"} /\ At' = "idle" /\ (At = "after" => Locals.after # "user")
        /\ UNCHANGED <<jsonl, mem, turn, handed>> /\ disk' \in {mem, disk}
        /\ happened \subseteq happened'
    BY <1>9, LoopReturns
  <2>2. Left = {} /\ Waiting = {}
    BY <2>1
  <2> QED BY <1>4, <2>1, <2>2
<1>10. CASE QuietFlush("loop")
  <2>1. /\ At = "tick" /\ At' = "flush" /\ UNCHANGED <<jsonl, disk, mem, turn, handed, happened>>
    BY <1>10, LoopFlushes
  <2>2. Left = {} /\ Waiting = {}
    BY <2>1
  <2> QED BY <1>4, <2>1, <2>2
<1>11. CASE UserLine("loop") \/ EndBatch("loop")
  <2>1. /\ At = "run" /\ At' = "flush" /\ UNCHANGED <<jsonl, disk, mem, turn, handed, happened>>
        /\ Locals'.next = Locals.next /\ Locals'.last = Locals.last
        /\ Locals.next <= Locals.last => Locals'.after = "user"
    BY <1>11, LoopAsks
  <2>2. Left \subseteq Left' /\ Waiting' = Waiting
    BY <2>1 DEF RangeOf
  <2> QED BY <1>4, <2>1, <2>2
<1>12. CASE OtherLine("loop")
  <2>1. /\ At = "run" /\ At' = "run" /\ UNCHANGED <<jsonl, disk, mem, handed, happened>>
        /\ Locals.next <= Locals.last /\ jsonl[Locals.next] # "user"
        /\ Locals'.next = Locals.next + 1 /\ Locals'.last = Locals.last
        /\ LET evs == IF turn.open THEN turn.evs ELSE << >>
           IN  turn'.evs = IF Renders(Locals.next) THEN Append(evs, Locals.next) ELSE evs
    BY <1>12, LoopReads
  <2>2. turn'.evs = IF Renders(Locals.next) THEN Append(turn.evs, Locals.next) ELSE turn.evs
    BY <1>3, <2>1
  <2>3. RangeOf(turn'.evs) = RangeOf(turn.evs) \cup (IF Renders(Locals.next) THEN {Locals.next} ELSE {})
    BY <2>2, RangeOfAppend
  <2>4. Left \subseteq Left' \cup {Locals.next}
    BY <2>1
  <2>5. Waiting = RangeOf(turn.evs) /\ Waiting' = RangeOf(turn'.evs)
    BY <2>1 DEF RangeOf
  <2>6. Rendering(mem.offset) \subseteq handed \cup Left' \cup Waiting'
    <3> SUFFICES ASSUME NEW i \in Rendering(mem.offset), i \notin handed
                 PROVE  i \in Left' \cup Waiting'
      OBVIOUS
    <3>1. i \in Left \cup Waiting /\ Renders(i)
      BY <1>2, <2>1 DEF Rendering
    <3> QED BY <2>3, <2>4, <2>5, <3>1
  <2>7. Rendering(mem.offset)' = Rendering(mem.offset)
        /\ Rendering(disk.offset)' = Rendering(disk.offset)
    BY <2>1 DEF Rendering, Renders
  <2> QED BY <1>2, <2>1, <2>6, <2>7 DEF HandInv
<1>13. CASE OpenTurn("loop")
  <2>1. /\ At = "after" /\ At' = "run" /\ Locals.after = "user"
        /\ UNCHANGED <<jsonl, disk, handed, happened>>
        /\ mem'.offset = mem.offset /\ mem'.chat = mem.chat
        /\ Locals'.next = Locals.next + 1 /\ Locals'.last = Locals.last
    BY <1>13, LoopOpens
  <2>2. ~Renders(Locals.next)
    BY <1>3, <2>1 DEF Renders
  <2>3. Left \subseteq Left' \cup {Locals.next} /\ Waiting = {}
    BY <2>1
  <2>4. Rendering(mem.offset) \subseteq handed \cup Left'
    BY <1>2, <2>1, <2>2, <2>3 DEF Rendering
  <2>5. Rendering(mem.offset)' = Rendering(mem.offset)
        /\ Rendering(disk.offset)' = Rendering(disk.offset)
    BY <2>1 DEF Rendering, Renders
  <2> QED BY <1>2, <2>1, <2>4, <2>5 DEF HandInv
<1>14. CASE FlushNothing("loop") \/ Flush("loop")
  <2>1. /\ At = "flush" /\ At' \in {"after", "upload"}
        /\ At' = "after" => ~(turn.open /\ mem.chat)
        /\ Locals'.next = Locals.next /\ Locals'.last = Locals.last
        /\ Locals'.after = Locals.after
        /\ UNCHANGED <<jsonl, disk, mem, turn, handed, happened>>
    BY <1>14, LoopStartsFlush
  <2>2. Left' = Left
    BY <2>1
  <2>3. Waiting \subseteq Waiting'
    <3>1. CASE At' = "upload"
      BY <2>1, <3>1 DEF RangeOf
    <3>2. CASE At' = "after"
      <4>1. turn.evs = << >>
        BY <1>3, <2>1, <3>2
      <4> QED BY <4>1 DEF RangeOf
    <3> QED BY <2>1, <3>1, <3>2
  <2> QED BY <1>4, <2>1, <2>2, <2>3
<1>15. CASE Render("loop")
  <2>1. /\ At = "upload" /\ At' = IF turn.evs # << >> \/ Locals.live THEN "acquire" ELSE "after"
        /\ Locals'.next = Locals.next /\ Locals'.last = Locals.last
        /\ Locals'.after = Locals.after /\ Locals'.body.evs = turn.evs
        /\ UNCHANGED <<jsonl, disk, mem, turn, handed, happened>>
    BY <1>15, LoopRenders
  <2>2. Left' = Left /\ Waiting \subseteq Waiting'
    BY <2>1 DEF RangeOf
  <2> QED BY <1>4, <2>1, <2>2
<1>16. CASE Request("loop")
  <2>1. /\ At = "acquire" /\ At' = "request" /\ Locals'.body = Locals.body
        /\ Locals'.next = Locals.next /\ Locals'.last = Locals.last
        /\ Locals'.after = Locals.after
        /\ UNCHANGED <<jsonl, disk, mem, turn, handed, happened>>
    BY <1>16, LoopRequests
  <2>2. Left' = Left /\ Waiting' = Waiting
    BY <2>1 DEF RangeOf
  <2> QED BY <1>2, <1>4, <2>1, <2>2
<1>17. CASE Send("loop") \/ Update("loop")
  <2>1. /\ At = "request" /\ At' \in {"sent", "updated"}
        /\ Locals'.next = Locals.next /\ Locals'.last = Locals.last
        /\ Locals'.after = Locals.after
        /\ handed' = handed \cup RangeOf(Locals.body.evs)
        /\ UNCHANGED <<jsonl, disk, mem, turn, happened>>
    BY <1>17, LoopSends, LoopUpdates
  <2>2. Locals.body.evs = turn.evs /\ Waiting = RangeOf(turn.evs)
    BY <1>2, <2>1
  <2>3. Left' = Left
    BY <2>1
  <2>4. Rendering(mem.offset)' = Rendering(mem.offset)
        /\ Rendering(disk.offset)' = Rendering(disk.offset)
    BY <2>1 DEF Rendering, Renders
  <2> QED BY <1>2, <2>1, <2>2, <2>3, <2>4 DEF HandInv
<1>18. CASE Reply("loop") \/ RequestFails("loop")
  <2>1. /\ At \in {"sent", "updated"} /\ At' = "attach"
        /\ Locals'.next = Locals.next /\ Locals'.last = Locals.last
        /\ Locals'.after = Locals.after
        /\ mem'.offset = mem.offset /\ mem'.chat = mem.chat
        /\ UNCHANGED <<jsonl, disk, turn, handed, happened>>
    BY <1>18, LoopIsAnswered
  <2>2. Left' = Left /\ Waiting = {}
    BY <2>1
  <2> QED BY <1>4, <2>1, <2>2
<1>19. CASE Attach("loop")
  <2>1. /\ At \in {"attach", "push"} /\ At' \in {"attach", "push", "after"}
        /\ Locals'.next = Locals.next /\ Locals'.last = Locals.last
        /\ Locals'.after = Locals.after
        /\ UNCHANGED <<jsonl, disk, mem, turn, handed, happened>>
    BY <1>19, LoopAttaches
  <2>2. Left' = Left /\ Waiting = {}
    BY <2>1
  <2> QED BY <1>4, <2>1, <2>2
<1> QED BY <1>1, <1>5, <1>6, <1>7, <1>8, <1>9, <1>10, <1>11, <1>12, <1>13, <1>14, <1>15,
           <1>16, <1>17, <1>18, <1>19, LoopSteps
    DEF Coroutine, Backlog, Handle, FlushTurn, Feishu

\* Crashes and restarts, and reads that find more than the size taken before them,
\* skip no line: what a restart goes on from, Feishu has got up to there.
THEOREM CrashesSkipNothing == Spec => []CrashSkipsNothing
<1>1. Init => HandInv
  BY DEF Init, HandInv, Rendering, At, Procs
<1>2. HandInv /\ ChatInv => CrashSkipsNothing
  BY DEF HandInv, ChatInv, CrashSkipsNothing, NothingSkipped
<1> QED BY <1>1, <1>2, HandPreserved, TypeCorrect, Batches, ChatHolds, PTL DEF Spec

-----------------------------------------------------------------------------
(* A card keeps its turn.                                                  *)

\* One pipeline, which is never replaced and beside which nothing is replayed.
OnePipeline == ~replayed /\ happened \cap {"crash", "stop"} = {}

\* The key of a card tells its turn, and the card the state remembers, or the one
\* an answer is about to name, is that of the open turn.
KeepInv == OnePipeline =>
    /\ \A c \in DOMAIN cards : cards[c].turn = IF cards[c].key > 0 THEN cards[c].key ELSE 0
    /\ mem.card # 0 => cards[mem.card].turn = turn.user
    /\ At \in {"request", "sent"} => (turn.user = 0 => Locals.key <= 0)

\* What KeyInv says of the loop.
LEMMA LoopKeys ==
    ASSUME TypeOK, KeyInv, ~replayed
    PROVE  /\ At \in Flushing \ {"upload"} => Locals.body.turn = turn.user
           /\ At \in {"request", "sent"} /\ turn.user # 0 => Locals.key = turn.user
           /\ At = "request" => Locals.card = mem.card
           /\ At = "sent" =>
                 Locals.card \in DOMAIN cards /\ cards[Locals.card].key = Locals.key
           /\ Locals.key \in Int /\ \A c \in DOMAIN cards : cards[c].key \in Int
<1>1. Locals.key \in Int
  BY LoopTypes, JobFields
<1>2. \A c \in DOMAIN cards : cards[c].key \in Int
  <2> SUFFICES ASSUME NEW c \in DOMAIN cards PROVE cards[c].key \in Int
    OBVIOUS
  <2>1. cards[c] \in CardType
    BY LoopTypes, ElementOfSeq
  <2> QED BY <2>1 DEF CardType
<1> QED BY <1>1, <1>2 DEF KeyInv, FlushOfTurn, At, Locals

LEMMA KeepPreserved ==
    ASSUME TypeOK, BatchInv, KeyInv, KeepInv, [Next]_vars, OnePipeline'
    PROVE  KeepInv' /\ \A c \in DOMAIN cards : cards'[c].turn = cards[c].turn
<1>1. ~replayed /\ pc["boot"] = "idle"
  BY ReplayRemembered DEF BatchInv, OnePipeline
<1> DEFINE Kept == KeepInv' /\ \A c \in DOMAIN cards : cards'[c].turn = cards[c].turn
<1> USE LoopTypes, LoopKeys DEF Flushing
<1>2. ASSUME happened \subseteq happened'
      PROVE  /\ \A c \in DOMAIN cards : cards[c].turn = IF cards[c].key > 0 THEN cards[c].key ELSE 0
             /\ mem.card # 0 => cards[mem.card].turn = turn.user
             /\ At \in {"request", "sent"} => (turn.user = 0 => Locals.key <= 0)
  BY <1>1, <1>2 DEF KeepInv, OnePipeline
\* A step that leaves the cards and their turns alone.
<1>3. ASSUME happened \subseteq happened', UNCHANGED cards, mem'.card = mem.card,
             turn'.user = turn.user,
             At' \in {"request", "sent"} => At' = At /\ Locals'.key = Locals.key
      PROVE  Kept
  BY <1>2, <1>3 DEF KeepInv
<1>4. ASSUME NEW k \in Kinds, Write(k) PROVE Kept
  BY <1>3, <1>4, LoopWrites
<1>5. CASE Wakes
  BY <1>3, <1>5 DEF Wakes
<1>6. CASE Crash \/ Stop
  BY <1>6, LoopDies DEF OnePipeline
<1>7. CASE Backlog("loop")
  BY <1>3, <1>7, LoopIngests, LoopReturns, LoopFlushes DEF Backlog
<1>8. CASE UserLine("loop") \/ EndBatch("loop")
  BY <1>3, <1>8, LoopAsks
<1>9. CASE OtherLine("loop")
  <2>1. turn'.user = turn.user
    BY <1>1, <1>9, LoopReads DEF BatchInv
  <2> QED BY <1>3, <1>9, <2>1, LoopReads
<1>10. CASE OpenTurn("loop")
  <2>1. mem'.card = 0 /\ UNCHANGED <<cards, happened>> /\ At' = "run"
    BY <1>10, LoopOpens DEF NoCard
  <2> QED BY <1>2, <2>1 DEF KeepInv
<1>11. CASE FlushNothing("loop") \/ Flush("loop") \/ Render("loop")
  BY <1>3, <1>11, LoopStartsFlush, LoopRenders
<1>12. CASE Request("loop")
  <2>1. /\ At' = "request" /\ UNCHANGED <<cards, mem, turn, happened>>
        /\ Locals'.key = IF turn.user > 0 THEN turn.user ELSE -mem.offset
    BY <1>12, LoopRequests
  <2>2. turn.user = 0 => Locals'.key <= 0
    BY <2>1
  <2> QED BY <1>2, <2>1, <2>2 DEF KeepInv
<1>13. CASE Send("loop")
  <2>1. /\ At = "request" /\ At' = "sent" /\ Locals'.key = Locals.key
        /\ UNCHANGED <<mem, turn, happened>> /\ Locals.card = NoCard
    BY <1>13, LoopSends
  <2>2. mem.card = 0 /\ Locals.body.turn = turn.user
    BY <1>1, <2>1 DEF NoCard
  <2>3. CASE UNCHANGED cards
    BY <1>2, <2>1, <2>3 DEF KeepInv
  <2>4. CASE cards' = Append(cards, [key |-> Locals.key, turn |-> Locals.body.turn,
                                     evs |-> Locals.body.evs, live |-> Locals.body.live])
    <3> DEFINE card == [key |-> Locals.key, turn |-> Locals.body.turn,
                        evs |-> Locals.body.evs, live |-> Locals.body.live]
    <3>1. card \in CardType
      BY JobFields DEF CardType, Body
    <3>2. /\ DOMAIN cards' = 1 .. Len(cards) + 1 /\ cards'[Len(cards) + 1] = card
          /\ \A c \in DOMAIN cards : cards'[c] = cards[c]
      <4>1. cards' \in Seq(CardType) /\ Len(cards') = Len(cards) + 1
            /\ cards'[Len(cards) + 1] = card /\ \A c \in 1 .. Len(cards) : cards'[c] = cards[c]
        BY <2>4, <3>1, AppendProperties
      <4> QED BY <4>1, LenProperties
    <3>3. card.turn = IF card.key > 0 THEN card.key ELSE 0
      BY <1>1, <1>2, <2>1, <2>2
    <3> HIDE DEF card
    <3>4. \A c \in DOMAIN cards' : cards'[c].turn = IF cards'[c].key > 0 THEN cards'[c].key ELSE 0
      BY <1>2, <2>1, <3>2, <3>3
    <3> QED BY <1>2, <2>1, <2>2, <3>2, <3>4 DEF KeepInv
  <2> QED BY <1>13, <2>3, <2>4, LoopSends
<1>14. CASE Update("loop")
  <2>1. /\ At = "request" /\ At' = "updated" /\ UNCHANGED <<mem, turn, happened>>
        /\ Locals.card # NoCard
        /\ cards' = [cards EXCEPT ![Locals.card] =
                        [key |-> cards[Locals.card].key, turn |-> Locals.body.turn,
                         evs |-> Locals.body.evs, live |-> Locals.body.live]]
    BY <1>14, LoopUpdates
  <2>2. Locals.card = mem.card /\ mem.card \in DOMAIN cards /\ Locals.body.turn = turn.user
    BY <1>1, <2>1 DEF NoCard
  <2>3. cards[mem.card].turn = turn.user
    BY <1>2, <2>1, <2>2 DEF NoCard
  <2>4. DOMAIN cards' = DOMAIN cards /\
        \A c \in DOMAIN cards : cards'[c].turn = cards[c].turn /\ cards'[c].key = cards[c].key
    BY <2>1, <2>2, <2>3
  <2> QED BY <1>2, <2>1, <2>2, <2>4 DEF KeepInv
<1>15. CASE Reply("loop") \/ RequestFails("loop")
  <2>1. /\ At' = "attach" /\ UNCHANGED <<cards, turn>> /\ happened \subseteq happened'
        /\ mem'.card = mem.card \/ (At = "sent" /\ mem'.card = Locals.card)
    BY <1>15, LoopIsAnswered
  <2>2. At = "sent" => cards[Locals.card].turn = turn.user
    BY <1>1, <1>2, <2>1
  <2> QED BY <1>2, <2>1, <2>2 DEF KeepInv
<1>16. CASE Attach("loop")
  BY <1>3, <1>16, LoopAttaches
<1> QED BY <1>1, <1>4, <1>5, <1>6, <1>7, <1>8, <1>9, <1>10, <1>11, <1>12, <1>13, <1>14, <1>15,
           <1>16, LoopSteps
    DEF Coroutine, Handle, FlushTurn, Feishu, OnePipeline

\* One turn = one card: as long as one pipeline lives and nothing is replayed beside
\* it, no card is overwritten with another turn, whatever requests fail.
THEOREM CardsKeep ==
    Spec => [][OnePipeline' => \A c \in DOMAIN cards : cards'[c].turn = cards[c].turn]_vars
<1>1. Init => KeepInv
  BY DEF Init, KeepInv, At, Procs, NoCard
<1>2. TypeOK /\ BatchInv /\ KeyInv /\ KeepInv /\ [Next]_vars => KeepInv'
  BY KeepPreserved DEF KeepInv, OnePipeline
<1>3. TypeOK /\ BatchInv /\ KeyInv /\ KeepInv /\ [Next]_vars =>
          [OnePipeline' => \A c \in DOMAIN cards : cards'[c].turn = cards[c].turn]_vars
  BY KeepPreserved
<1> QED BY <1>1, <1>2, <1>3, TypeCorrect, Batches, KeysHold, PTL DEF Spec

\* A chat that is known from the start is never replayed.
LEMMA NoReplay == ASSUME Chats \subseteq {TRUE} PROVE Spec => [](~replayed /\ mem.chat)
<1> DEFINE Known == ~replayed /\ mem.chat /\ disk.chat
<1>1. Init => Known
  <2> SUFFICES ASSUME Init PROVE Known
    OBVIOUS
  <2>1. PICK chat \in Chats : mem = [offset |-> 0, card |-> NoCard, chat |-> chat]
    BY DEF Init
  <2>2. chat = TRUE /\ disk = mem /\ replayed = FALSE
    BY Zenon DEF Init
  <2> QED BY <2>1, <2>2, Zenon
<1>2. TypeOK /\ BatchInv /\ Known /\ [Next]_vars => Known'
  <2> SUFFICES ASSUME TypeOK, BatchInv, Known, [Next]_vars PROVE Known'
    OBVIOUS
  <2>1. ~replayed'
    BY DEF Next, vars, history, Environment, Time, GoQuiet, GoIdle, Write, Lifecycle, Tick,
         Bootstrap, Start, Crash, Stop, Fault, Return, Coroutine, Backlog, Ingest, NothingToDo,
         QuietFlush, FinishBacklog, Handle, UserLine, OtherLine, EndBatch, OpenTurn,
         FlushTurn, FlushNothing, Flush, Render, Request, Reply, Attach, PushFile,
         FilePushed, FilesPushed, Feishu, Send, Update, RequestFails
  <2>2. pc["boot"] = "idle"
    BY DEF BatchInv
  <2>3. CASE (\E k \in Kinds : Write(k)) \/ Wakes \/ Crash \/ Stop
    BY <2>1, <2>3, LoopWrites, LoopDies DEF Wakes
  <2>4. CASE Backlog("loop") \/ Handle("loop")
    BY <2>1, <2>4, LoopIngests, LoopReturns, LoopFlushes, LoopAsks, LoopReads, LoopOpens
       DEF Backlog, Handle
  <2>5. CASE FlushTurn("loop") \/ Attach("loop") \/ Feishu("loop") \/ RequestFails("loop")
    BY <2>1, <2>5, LoopStartsFlush, LoopRenders, LoopRequests, LoopIsAnswered, LoopAttaches,
       LoopSends, LoopUpdates DEF FlushTurn, Feishu
  <2> QED BY <2>1, <2>2, <2>3, <2>4, <2>5, LoopSteps DEF Coroutine
<1> QED BY <1>1, <1>2, TypeCorrect, Batches, PTL DEF Spec

\* What the run that looks for a card with two turns finds is the replay's doing: when
\* the chat is known from the start and the daemon stays up, there is none.
THEOREM OneTurnOneCard ==
    ASSUME Chats \subseteq {TRUE}, Faults \cap {"crash", "stop"} = {}
    PROVE  Spec => CardsKeepTheirTurn
<1>1. TypeOK' /\ (~replayed /\ mem.chat)' => OnePipeline'
  BY DEF TypeOK, OnePipeline
<1>2. TypeOK' /\ (~replayed /\ mem.chat)'
          /\ [OnePipeline' => \A c \in DOMAIN cards : cards'[c].turn = cards[c].turn]_vars
      => [\A c \in DOMAIN cards : cards'[c].turn = cards[c].turn]_vars
  BY <1>1
<1> QED BY <1>2, CardsKeep, TypeCorrect, NoReplay, PTL DEF CardsKeepTheirTurn

-----------------------------------------------------------------------------
(* The chat is the transcript.  As long as nothing goes wrong and nothing  *)
(* is replayed, the open turn is what the transcript says it is, and every *)
(* card is a part of one turn.                                             *)

Undisturbed == ~replayed /\ happened = {}

Increasing(s) == \A i, j \in DOMAIN s : i < j => s[i] < s[j]

\* The open turn starts at the last user line handled and has every line handled
\* since that renders, in order; a flush carries it as it is.
TurnInv == Undisturbed =>
    /\ InBatch => Locals.last = mem.offset
    /\ turn.user <= Handled /\ (turn.user # 0 => jsonl[turn.user] = "user")
    /\ \A i \in turn.user + 1 .. Handled : jsonl[i] # "user"
    /\ RangeOf(turn.evs) = {i \in turn.user + 1 .. Handled : Renders(i)}
    /\ Increasing(turn.evs)
    /\ turn.open \/ Handled = 0

\* A flush in flight carries the turn as it is, and shows a spinner only if it is
\* neither the last of its turn nor the one of a turn that has settled.
FlushInv == Undisturbed =>
    /\ At \in {"acquire", "request"} =>
          /\ Locals.body.evs = turn.evs /\ (Locals.body.live => Locals.live)
          /\ Locals.body.evs # << >> \/ Locals.body.live
    /\ At \in InFlush /\ Locals.after \in {"user", "settle"} => ~Locals.live

LEMMA HandledBounds ==
    ASSUME TypeOK, BatchInv, TurnInv, Undisturbed
    PROVE  Handled \in Nat /\ Handled <= Len(jsonl) /\ Handled <= mem.offset
  BY LoopTypes DEF BatchInv, TurnInv, Undisturbed, Handled, InBatch

\* What an undisturbed step is, by what it does to the turn.
LEMMA TurnSteps ==
    ASSUME TypeOK, BatchInv, TurnInv, [Next]_vars, Undisturbed'
    PROVE  /\ Undisturbed
           /\ \/ OtherLine("loop") /\ Handled = Locals.next - 1 /\ Handled' = Locals.next
              \/ OpenTurn("loop") /\ Handled = Locals.next - 1 /\ Handled' = Locals.next
              \/ /\ Handled' = Handled /\ turn' = turn
                 /\ UNCHANGED jsonl \/ \E k \in Kinds : Write(k)
                 /\ InBatch' => Locals'.last = mem'.offset
<1>1. Undisturbed /\ pc["boot"] = "idle"
  <2>1. ~replayed
    BY ReplayRemembered DEF Undisturbed
  <2>2. happened = {}
    BY DEF Undisturbed, Next, vars, history, Environment, Time, GoQuiet, GoIdle, Write,
       Lifecycle, Tick, Bootstrap, SaveChat, Start, Crash, Stop, Fault, Mishap, Return, Save,
       Coroutine, Backlog, Ingest, NothingToDo, QuietFlush, FinishBacklog, Handle, UserLine, OtherLine, EndBatch,
       OpenTurn, FlushTurn, FlushNothing, Flush, Render, Request, Reply, Attach, PushFile,
       FilePushed, FilesPushed, Feishu, Send, Update, RequestFails
  <2> QED BY <2>1, <2>2 DEF Undisturbed, BatchInv
<1> DEFINE Same == /\ Handled' = Handled /\ turn' = turn
                   /\ UNCHANGED jsonl \/ \E k \in Kinds : Write(k)
                   /\ InBatch' => Locals'.last = mem'.offset
<1>2. /\ InBatch => Locals.last = mem.offset
      /\ At = "run" => Locals.next <= Locals.last + 1
  BY <1>1 DEF TurnInv, BatchInv, Undisturbed
<1> USE <1>1, <1>2, LoopTypes DEF Handled, InBatch, InFlush, Flushing
<1>3. ASSUME NEW k \in Kinds, Write(k) PROVE Same
  BY <1>3, LoopWrites
<1>4. CASE Wakes
  BY <1>4 DEF Wakes
<1>5. CASE Crash \/ Stop
  BY <1>5, LoopDies DEF Undisturbed
<1>6. CASE Ingest("loop")
  <2>1. /\ At = "tick" /\ At' = "run" /\ Locals'.next = mem.offset + 1
        /\ Locals'.last = Len(jsonl) /\ mem'.offset = Len(jsonl) /\ UNCHANGED <<jsonl, turn>>
    BY <1>6, LoopIngests DEF Undisturbed
  <2> QED BY <2>1
<1>7. CASE NothingToDo("loop") \/ FinishBacklog("loop")
  BY <1>7, LoopReturns
<1>8. CASE QuietFlush("loop")
  BY <1>8, LoopFlushes
<1>9. CASE UserLine("loop") \/ EndBatch("loop")
  BY <1>9, LoopAsks
<1>10. CASE OtherLine("loop")
  <2>1. At = "run" /\ At' = "run" /\ Locals'.next = Locals.next + 1
    BY <1>10, LoopReads
  <2>2. Handled = Locals.next - 1 /\ Handled' = Locals.next
    BY <2>1
  <2> QED BY <1>10, <2>2
<1>11. CASE OpenTurn("loop")
  <2>1. At = "after" /\ At' = "run" /\ Locals'.next = Locals.next + 1 /\ Locals.after = "user"
    BY <1>11, LoopOpens
  <2>2. Handled = Locals.next - 1 /\ Handled' = Locals.next
    BY <2>1
  <2> QED BY <1>11, <2>2
<1>12. CASE FlushNothing("loop") \/ Flush("loop")
  BY <1>12, LoopStartsFlush
<1>13. CASE Render("loop")
  BY <1>13, LoopRenders
<1>14. CASE Request("loop")
  BY <1>14, LoopRequests
<1>15. CASE Send("loop")
  BY <1>15, LoopSends
<1>16. CASE Update("loop")
  BY <1>16, LoopUpdates
<1>17. CASE Reply("loop") \/ RequestFails("loop")
  BY <1>17, LoopIsAnswered
<1>18. CASE Attach("loop")
  BY <1>18, LoopAttaches
<1> QED BY <1>3, <1>4, <1>5, <1>6, <1>7, <1>8, <1>9, <1>10, <1>11, <1>12, <1>13, <1>14, <1>15,
           <1>16, <1>17, <1>18, LoopSteps
    DEF Undisturbed, Coroutine, Backlog, Handle, FlushTurn, Feishu

LEMMA IncreasingAppend ==
    ASSUME NEW s \in Seq(Nat), NEW e \in Nat, Increasing(s), \A i \in RangeOf(s) : i < e
    PROVE  Increasing(Append(s, e))
<1>1. Append(s, e) \in Seq(Nat) /\ Len(Append(s, e)) = Len(s) + 1 /\ Append(s, e)[Len(s) + 1] = e
      /\ \A i \in 1 .. Len(s) : Append(s, e)[i] = s[i]
  BY AppendProperties
<1>2. DOMAIN Append(s, e) = 1 .. Len(s) + 1 /\ DOMAIN s = 1 .. Len(s) /\ Len(s) \in Nat
  BY <1>1, LenProperties
<1>3. \A i \in 1 .. Len(s) : s[i] \in Nat /\ s[i] < e
  BY <1>2, ElementOfSeq DEF RangeOf
<1> QED BY <1>1, <1>2, <1>3 DEF Increasing

LEMMA TurnPreserved ==
    ASSUME TypeOK, BatchInv, TurnInv, [Next]_vars
    PROVE  TurnInv'
<1> SUFFICES ASSUME Undisturbed' PROVE TurnInv'
  BY DEF TurnInv
<1>1. Undisturbed /\ Handled \in Nat /\ Handled <= Len(jsonl)
  BY TurnSteps, HandledBounds
<1>2. /\ InBatch => Locals.last = mem.offset
      /\ turn.user <= Handled /\ (turn.user # 0 => jsonl[turn.user] = "user")
      /\ \A i \in turn.user + 1 .. Handled : jsonl[i] # "user"
      /\ RangeOf(turn.evs) = {i \in turn.user + 1 .. Handled : Renders(i)}
      /\ Increasing(turn.evs)
      /\ turn.open \/ Handled = 0
      /\ turn.open \/ (turn.user = 0 /\ turn.evs = << >>)
  BY <1>1 DEF TurnInv, BatchInv, Undisturbed
<1>3. CASE /\ Handled' = Handled /\ turn' = turn
           /\ UNCHANGED jsonl \/ \E k \in Kinds : Write(k)
           /\ InBatch' => Locals'.last = mem'.offset
  <2>1. \A i \in 1 .. Len(jsonl) : jsonl'[i] = jsonl[i]
    BY <1>3, LoopWrites
  <2>2. \A i \in turn.user + 1 .. Handled : jsonl'[i] = jsonl[i] /\ Renders(i)' = Renders(i)
    BY <1>1, <2>1, LoopTypes DEF Renders
  <2>3. {i \in turn.user + 1 .. Handled : Renders(i)}' = {i \in turn.user + 1 .. Handled : Renders(i)}
    BY <1>3, <2>2
  <2>4. turn.user # 0 => jsonl'[turn.user] = "user"
    BY <1>1, <1>2, <2>1, LoopTypes
  <2>5. RangeOf(turn.evs)' = RangeOf(turn.evs) /\ Increasing(turn.evs)'
    BY <1>2, <1>3 DEF RangeOf, Increasing
  <2> QED BY <1>1, <1>2, <1>3, <2>2, <2>3, <2>4, <2>5 DEF TurnInv
<1>4. CASE OtherLine("loop") /\ Handled = Locals.next - 1 /\ Handled' = Locals.next
  <2> DEFINE line == Locals.next
  <2>1. /\ turn'.open /\ turn'.user = turn.user /\ UNCHANGED <<jsonl, mem>>
        /\ turn'.evs = IF Renders(line) THEN Append(turn.evs, line) ELSE turn.evs
        /\ Locals'.last = Locals.last /\ At = "run" /\ jsonl[line] # "user"
    BY <1>2, <1>4, LoopReads
  <2>2. line \in Nat /\ line = Handled + 1 /\ line \notin turn.user + 1 .. Handled
        /\ turn.user + 1 .. Handled' = (turn.user + 1 .. Handled) \cup {line}
    BY <1>1, <1>2, <1>4, LoopTypes
  <2>3. \A i \in RangeOf(turn.evs) : i < line
    <3>1. RangeOf(turn.evs) \subseteq turn.user + 1 .. Handled
      BY <1>2
    <3> QED BY <1>1, <2>2, <3>1, LoopTypes
  <2>4. RangeOf(turn'.evs) = RangeOf(turn.evs) \cup (IF Renders(line) THEN {line} ELSE {})
    BY <2>1, <2>2, RangeOfAppend, LoopTypes
  <2>5. Increasing(turn'.evs)
    BY <1>2, <2>1, <2>2, <2>3, IncreasingAppend, LoopTypes
  <2>6. \A i : Renders(i)' = Renders(i)
    BY <2>1 DEF Renders
  <2>7. RangeOf(turn'.evs) = {i \in turn.user + 1 .. Handled' : Renders(i)'}
    BY <1>2, <2>2, <2>4, <2>6
  <2>8. RangeOf(turn.evs)' = RangeOf(turn'.evs) /\ (Increasing(turn.evs)' <=> Increasing(turn'.evs))
    BY DEF RangeOf, Increasing
  <2>9. InBatch' => Locals'.last = mem'.offset
    BY <1>2, <2>1 DEF InBatch
  <2>10. turn.user <= Handled' /\ \A i \in turn.user + 1 .. Handled' : jsonl[i] # "user"
    BY <1>1, <1>2, <1>4, <2>1, <2>2, LoopTypes
  <2> QED BY <1>2, <2>1, <2>5, <2>7, <2>8, <2>9, <2>10 DEF TurnInv
<1>5. CASE OpenTurn("loop") /\ Handled = Locals.next - 1 /\ Handled' = Locals.next
  <2>1. /\ turn' = TurnFrom(Locals.next) /\ At = "after" /\ Locals.after = "user"
        /\ UNCHANGED jsonl /\ mem'.offset = mem.offset /\ Locals'.last = Locals.last
    BY <1>5, LoopOpens
  <2>2. turn'.open /\ turn'.user = Locals.next /\ turn'.evs = << >>
    BY <2>1 DEF TurnFrom
  <2>3. jsonl[Locals.next] = "user" /\ Locals.last = mem.offset
    BY <1>1, <1>2, <2>1 DEF BatchInv, Undisturbed, InBatch, InFlush
  <2>4. Locals.next + 1 .. Handled' = {}
    BY <1>5, LoopTypes
  <2>5. RangeOf(turn.evs)' = {} /\ Increasing(turn.evs)'
    BY <2>2 DEF RangeOf, Increasing
  <2> QED BY <1>5, <2>1, <2>2, <2>3, <2>4, <2>5, LoopTypes DEF TurnInv
<1> QED BY <1>3, <1>4, <1>5, TurnSteps

LEMMA FlushPreserved ==
    ASSUME TypeOK, BatchInv, TurnInv, FlushInv, [Next]_vars
    PROVE  FlushInv'
<1> SUFFICES ASSUME Undisturbed' PROVE FlushInv'
  BY DEF FlushInv
<1>1. Undisturbed /\ pc["boot"] = "idle"
  BY TurnSteps DEF BatchInv, Undisturbed
<1>2. /\ At \in {"acquire", "request"} =>
            /\ Locals.body.evs = turn.evs /\ (Locals.body.live => Locals.live)
            /\ Locals.body.evs # << >> \/ Locals.body.live
      /\ At \in InFlush /\ Locals.after \in {"user", "settle"} => ~Locals.live
  BY <1>1 DEF FlushInv
<1> USE <1>2 DEF FlushInv, InFlush, Flushing
<1>3. CASE (\E k \in Kinds : Write(k)) \/ Wakes \/ Crash \/ Stop
  BY <1>3, LoopWrites, LoopDies DEF Wakes
<1>4. CASE Backlog("loop") \/ UserLine("loop") \/ EndBatch("loop")
  BY <1>4, LoopIngests, LoopReturns, LoopFlushes, LoopAsks DEF Backlog
<1>5. CASE OtherLine("loop") \/ OpenTurn("loop")
  BY <1>5, LoopReads, LoopOpens
<1>6. CASE FlushNothing("loop") \/ Flush("loop")
  BY <1>6, LoopStartsFlush
<1>7. CASE Render("loop")
  <2>1. /\ Locals'.body.evs = turn.evs /\ (Locals'.body.live <=> Locals.live) /\ turn' = turn
        /\ At' \in {"acquire", "after"} /\ At = "upload"
        /\ At' = "acquire" => turn.evs # << >> \/ Locals.live
        /\ Locals'.after = Locals.after /\ Locals'.live = Locals.live
    BY <1>7, LoopRenders
  <2> QED BY <2>1
<1>8. CASE Request("loop")
  BY <1>8, LoopRequests
<1>9. CASE Feishu("loop")
  BY <1>9, LoopSends, LoopUpdates DEF Feishu
<1>10. CASE Reply("loop") \/ RequestFails("loop") \/ Attach("loop")
  BY <1>10, LoopIsAnswered, LoopAttaches
<1> QED BY <1>1, <1>3, <1>4, <1>5, <1>6, <1>7, <1>8, <1>9, <1>10, LoopSteps
    DEF Undisturbed, Coroutine, Handle, FlushTurn

\* The card of the open turn: the one the state remembers, or an answer will name.
CardOfTurn == IF At = "sent" THEN Locals.card ELSE mem.card

\* Cards show turns in their order, each lines of its own turn in their order, and
\* the card of the open turn, if there is one, is the newest.
ChatInOrder == Undisturbed =>
    /\ \A c, d \in DOMAIN cards : c < d => cards[c].turn < cards[d].turn
    /\ \A c \in DOMAIN cards : cards[c].key <= cards[c].turn /\ cards[c].turn <= turn.user
    /\ \A c \in DOMAIN cards : Increasing(cards[c].evs)
    /\ \A c \in DOMAIN cards : \A i \in RangeOf(cards[c].evs) :
          /\ cards[c].turn < i /\ i <= Handled /\ Renders(i)
          /\ cards[c].turn < turn.user => i < turn.user
          /\ \A d \in DOMAIN cards : c < d => i < cards[d].turn
    /\ CardOfTurn = NoCard => \A c \in DOMAIN cards : cards[c].turn < turn.user
    /\ CardOfTurn # NoCard => CardOfTurn = Len(cards) /\ cards[CardOfTurn].turn = turn.user

LEMMA CardTypes ==
    ASSUME TypeOK
    PROVE  \A c \in DOMAIN cards :
              /\ c \in Nat /\ cards[c].turn \in Nat /\ cards[c].key \in Int
              /\ cards[c].evs \in Seq(Nat) /\ RangeOf(cards[c].evs) \subseteq Nat
<1> SUFFICES ASSUME NEW c \in DOMAIN cards
             PROVE  /\ c \in Nat /\ cards[c].turn \in Nat /\ cards[c].key \in Int
                    /\ cards[c].evs \in Seq(Nat) /\ RangeOf(cards[c].evs) \subseteq Nat
  OBVIOUS
<1>1. cards[c] \in CardType /\ c \in Nat
  BY LoopTypes, ElementOfSeq
<1>2. cards[c].turn \in Nat /\ cards[c].key \in Int /\ cards[c].evs \in Seq(Nat)
  BY <1>1 DEF CardType
<1>3. RangeOf(cards[c].evs) \subseteq Nat
  BY <1>2, LenProperties DEF RangeOf
<1> QED BY <1>1, <1>2, <1>3

\* What a send adds and an update replaces, as far as the order is concerned.
LEMMA SendPosts ==
    ASSUME TypeOK, BatchInv, KeyInv, KeepInv, ChatInOrder, FlushInv, Undisturbed, Send("loop")
    PROVE  /\ At = "request" /\ CardOfTurn = NoCard /\ CardOfTurn' = Len(cards) + 1
           /\ DOMAIN cards' = 1 .. Len(cards) + 1 /\ Len(cards') = Len(cards) + 1
           /\ \A c \in DOMAIN cards : cards'[c] = cards[c] /\ cards[c].turn < turn.user
           /\ cards' = Append(cards, cards'[Len(cards) + 1])
           /\ cards'[Len(cards) + 1].turn = turn.user
           /\ cards'[Len(cards) + 1].evs = turn.evs
           /\ cards'[Len(cards) + 1].live = Locals.body.live
           /\ cards'[Len(cards) + 1].key <= turn.user
<1> DEFINE card == [key |-> Locals.key, turn |-> Locals.body.turn,
                    evs |-> Locals.body.evs, live |-> Locals.body.live]
<1>1. /\ At = "request" /\ At' = "sent" /\ Locals.card = NoCard /\ ~replayed
      /\ \/ cards' = Append(cards, card) /\ Locals'.card = Len(cards) + 1
         \/ Locals'.card \in DOMAIN cards /\ cards[Locals'.card].key = Locals.key
  BY LoopSends DEF Undisturbed
<1>2. /\ Locals.body.turn = turn.user /\ mem.card = NoCard /\ Locals.key \in Int
      /\ turn.user # 0 => Locals.key = turn.user
  BY <1>1, LoopKeys DEF Flushing
<1>3. \A c \in DOMAIN cards : cards[c].turn < turn.user /\ cards[c].key <= cards[c].turn
  BY <1>1, <1>2 DEF ChatInOrder, CardOfTurn
<1>4. \A c \in DOMAIN cards : cards[c].key # Locals.key
  BY <1>2, <1>3, CardTypes, LoopTypes
<1>5. cards' = Append(cards, card) /\ Locals'.card = Len(cards) + 1
  BY <1>1, <1>4
<1>6. card \in CardType
  BY LoopTypes, JobFields DEF CardType, Body
<1>7. cards' \in Seq(CardType) /\ Len(cards') = Len(cards) + 1 /\ cards'[Len(cards) + 1] = card
      /\ \A c \in 1 .. Len(cards) : cards'[c] = cards[c]
  BY <1>5, <1>6, LoopTypes, AppendProperties
<1>8. DOMAIN cards' = 1 .. Len(cards) + 1
  BY <1>7, LenProperties
<1>9. Locals.key <= turn.user
  BY <1>1, <1>2, LoopTypes DEF KeepInv, OnePipeline, Undisturbed
<1>10. /\ card.turn = turn.user /\ card.evs = turn.evs
       /\ card.live = Locals.body.live /\ card.key = Locals.key
  BY <1>1, <1>2, Zenon DEF FlushInv
<1> HIDE DEF card
<1> QED BY <1>1, <1>2, <1>3, <1>5, <1>7, <1>8, <1>9, <1>10, LoopTypes DEF CardOfTurn

LEMMA UpdateReplaces ==
    ASSUME TypeOK, BatchInv, KeyInv, ChatInOrder, FlushInv, Undisturbed, Update("loop")
    PROVE  /\ At = "request" /\ CardOfTurn = Len(cards) /\ CardOfTurn' = Len(cards)
           /\ Len(cards) \in DOMAIN cards /\ DOMAIN cards' = DOMAIN cards
           /\ Len(cards') = Len(cards) /\ CardOfTurn # NoCard
           /\ \A c \in DOMAIN cards : c # Len(cards) => cards'[c] = cards[c]
           /\ cards[Len(cards)].turn = turn.user
           /\ cards' = [cards EXCEPT ![Len(cards)] = cards'[Len(cards)]]
           /\ cards'[Len(cards)] = [key |-> cards[Len(cards)].key, turn |-> turn.user,
                                    evs |-> turn.evs, live |-> Locals.body.live]
<1> DEFINE card == [key |-> cards[Locals.card].key, turn |-> Locals.body.turn,
                    evs |-> Locals.body.evs, live |-> Locals.body.live]
<1>1. /\ At = "request" /\ At' = "updated" /\ Locals.card # NoCard /\ ~replayed
      /\ cards' = [cards EXCEPT ![Locals.card] = card] /\ UNCHANGED mem
  BY LoopUpdates DEF Undisturbed
<1>2. Locals.body.turn = turn.user /\ mem.card = Locals.card /\ Locals.body.evs = turn.evs
  BY <1>1, LoopKeys DEF Flushing, FlushInv
<1>3. Locals.card = Len(cards) /\ cards[Len(cards)].turn = turn.user
      /\ Len(cards) \in DOMAIN cards
  BY <1>1, <1>2, LoopTypes DEF ChatInOrder, CardOfTurn, NoCard
<1>4. DOMAIN cards' = DOMAIN cards /\ cards'[Len(cards)] = card
      /\ \A c \in DOMAIN cards : c # Len(cards) => cards'[c] = cards[c]
  BY <1>1, <1>3
<1>5. Len(cards') = Len(cards)
  BY <1>1, <1>3, <1>4, LoopTypes, ExceptSeq DEF TypeOK
<1> QED BY <1>1, <1>2, <1>3, <1>4, <1>5 DEF CardOfTurn

LEMMA OrderPreserved ==
    ASSUME TypeOK, BatchInv, KeyInv, KeepInv, TurnInv, FlushInv, ChatInOrder, [Next]_vars
    PROVE  ChatInOrder'
<1> SUFFICES ASSUME Undisturbed' PROVE ChatInOrder'
  BY DEF ChatInOrder
<1>1. Undisturbed /\ ~replayed /\ pc["boot"] = "idle"
  BY TurnSteps DEF BatchInv, Undisturbed
<1>2. /\ \A c, d \in DOMAIN cards : c < d => cards[c].turn < cards[d].turn
      /\ \A c \in DOMAIN cards : cards[c].key <= cards[c].turn /\ cards[c].turn <= turn.user
      /\ \A c \in DOMAIN cards : Increasing(cards[c].evs)
      /\ \A c \in DOMAIN cards : \A i \in RangeOf(cards[c].evs) :
            /\ cards[c].turn < i /\ i <= Handled /\ Renders(i)
            /\ cards[c].turn < turn.user => i < turn.user
            /\ \A d \in DOMAIN cards : c < d => i < cards[d].turn
      /\ CardOfTurn = NoCard => \A c \in DOMAIN cards : cards[c].turn < turn.user
      /\ CardOfTurn # NoCard => CardOfTurn = Len(cards) /\ cards[CardOfTurn].turn = turn.user
  BY <1>1 DEF ChatInOrder
<1>3. /\ RangeOf(turn.evs) = {i \in turn.user + 1 .. Handled : Renders(i)}
      /\ Increasing(turn.evs) /\ turn.user <= Handled
  BY <1>1 DEF TurnInv
<1>4. Handled \in Nat /\ Handled <= Len(jsonl)
  BY <1>1, HandledBounds
\* A step that leaves the cards and the turn's card alone.
<1>5. ASSUME cards' = cards, turn'.user = turn.user, Handled' \in {Handled, Handled + 1},
             UNCHANGED jsonl \/ \E k \in Kinds : Write(k), CardOfTurn' = CardOfTurn
      PROVE  ChatInOrder'
  <2>1. \A i \in 1 .. Handled : Renders(i)' = Renders(i)
    BY <1>4, <1>5, LoopWrites, LoopTypes DEF Renders
  <2>2. \A c \in DOMAIN cards : \A i \in RangeOf(cards[c].evs) :
            i \in 1 .. Handled /\ i <= Handled' /\ Renders(i)'
    <3> SUFFICES ASSUME NEW c \in DOMAIN cards, NEW i \in RangeOf(cards[c].evs)
                 PROVE  i \in 1 .. Handled /\ i <= Handled' /\ Renders(i)'
      OBVIOUS
    <3>1. i \in Nat /\ cards[c].turn \in Nat /\ cards[c].turn < i /\ i <= Handled /\ Renders(i)
      BY <1>2, CardTypes
    <3>2. i \in 1 .. Handled
      BY <1>4, <3>1
    <3>3. i <= Handled'
      BY <1>4, <1>5, <3>1
    <3> QED BY <2>1, <3>1, <3>2, <3>3
  <2>3. \A c \in DOMAIN cards : RangeOf(cards[c].evs)' = RangeOf(cards[c].evs)
            /\ Increasing(cards[c].evs)'
    BY <1>2, <1>5 DEF RangeOf, Increasing
  <2> QED BY <1>2, <1>5, <2>2, <2>3 DEF ChatInOrder
<1>6. ASSUME cards' = cards, mem'.card = mem.card, At # "sent", At' # "sent",
             ~OtherLine("loop") /\ ~OpenTurn("loop")
      PROVE  ChatInOrder'
  BY <1>5, <1>6, TurnSteps DEF CardOfTurn
<1>7. ASSUME NEW k \in Kinds, Write(k) PROVE ChatInOrder'
  <2>1. Handled' = Handled /\ UNCHANGED <<turn, cards>> /\ CardOfTurn' = CardOfTurn
    BY <1>7, LoopWrites DEF Handled, InBatch, InFlush, Flushing, CardOfTurn
  <2> QED BY <1>5, <1>7, <2>1
<1>8. CASE Wakes
  <2>1. UNCHANGED <<jsonl, turn, cards>> /\ CardOfTurn' = CardOfTurn /\ Handled' = Handled
    BY <1>8 DEF Wakes, CardOfTurn, Handled, InBatch, InFlush, Flushing
  <2> QED BY <1>5, <2>1
<1>9. CASE Crash \/ Stop
  BY <1>9, LoopDies DEF Undisturbed
<1>10. CASE OtherLine("loop")
  <2>1. UNCHANGED <<jsonl, mem, cards>> /\ At = "run" /\ At' = "run"
    BY <1>10, LoopReads
  <2>2. turn'.user = turn.user
    BY <1>1, <1>10, LoopReads DEF BatchInv
  <2>3. Handled' \in {Handled, Handled + 1}
    BY <1>10, TurnSteps, LoopTypes
  <2> QED BY <1>5, <2>1, <2>2, <2>3 DEF CardOfTurn
<1>11. CASE OpenTurn("loop")
  <2>1. /\ cards' = cards /\ UNCHANGED jsonl /\ mem'.card = NoCard /\ At' = "run"
        /\ turn'.user = Locals.next
    BY <1>11, LoopOpens DEF TurnFrom
  <2>2. turn'.user = Handled + 1 /\ Handled' = Handled + 1
    <3>1. At = "after" /\ At' = "run" /\ Locals.after = "user" /\ Locals'.next = Locals.next + 1
      BY <1>11, LoopOpens
    <3>2. Handled = Locals.next - 1
      BY <3>1 DEF Handled, InBatch, InFlush
    <3>3. Handled' = Locals'.next - 1
      BY <3>1 DEF Handled, InBatch
    <3> QED BY <2>1, <3>1, <3>2, <3>3, LoopTypes
  <2>3. \A c \in DOMAIN cards : cards[c].turn < turn'.user
    BY <1>2, <1>3, <1>4, <2>2, CardTypes, LoopTypes
  <2>4. \A c \in DOMAIN cards : \A i \in RangeOf(cards[c].evs) :
            i < turn'.user /\ i <= Handled' /\ Renders(i)'
    <3> SUFFICES ASSUME NEW c \in DOMAIN cards, NEW i \in RangeOf(cards[c].evs)
                 PROVE  i < turn'.user /\ i <= Handled' /\ Renders(i)'
      OBVIOUS
    <3>1. i \in Nat /\ i <= Handled /\ Renders(i)
      BY <1>2, CardTypes
    <3>2. Renders(i)'
      BY <2>1, <3>1 DEF Renders
    <3> QED BY <1>4, <2>2, <3>1, <3>2
  <2>5. \A c \in DOMAIN cards : RangeOf(cards[c].evs)' = RangeOf(cards[c].evs)
            /\ Increasing(cards[c].evs)'
    BY <1>2, <2>1 DEF RangeOf, Increasing
  <2>6. \A c \in DOMAIN cards : cards[c].key <= cards[c].turn /\ cards[c].turn <= turn'.user
    BY <1>2, <1>4, <2>2, <2>3, CardTypes, LoopTypes
  <2>7. CardOfTurn' = NoCard
    BY <2>1 DEF CardOfTurn
  <2> QED BY <1>2, <2>1, <2>3, <2>4, <2>5, <2>6, <2>7 DEF ChatInOrder
<1>12. CASE Backlog("loop") \/ UserLine("loop") \/ EndBatch("loop")
  <2>1. UNCHANGED cards /\ mem'.card = mem.card /\ At # "sent" /\ At' # "sent"
    BY <1>12, LoopIngests, LoopReturns, LoopFlushes, LoopAsks DEF Backlog
  <2>2. At = "run" /\ At' = "run" => FALSE
    BY <1>12, LoopIngests, LoopReturns, LoopFlushes, LoopAsks DEF Backlog
  <2>3. At = "after" /\ At' = "run" => FALSE
    BY <1>12, LoopIngests, LoopReturns, LoopFlushes, LoopAsks DEF Backlog
  <2> QED BY <1>6, <2>1, <2>2, <2>3, LoopReads, LoopOpens
<1>13. CASE FlushNothing("loop") \/ Flush("loop") \/ Render("loop") \/ Request("loop")
            \/ Attach("loop")
  <2>1. UNCHANGED cards /\ mem'.card = mem.card /\ At # "sent" /\ At' # "sent" /\ At' # "run"
    BY <1>13, LoopStartsFlush, LoopRenders, LoopRequests, LoopAttaches
  <2> QED BY <1>6, <2>1, LoopReads, LoopOpens
<1>14. CASE Reply("loop") \/ RequestFails("loop")
  <2>1. /\ UNCHANGED <<cards, jsonl, turn>> /\ At' = "attach"
        /\ mem'.card = IF At = "sent" THEN Locals.card ELSE mem.card
    BY <1>14, LoopIsAnswered DEF Undisturbed
  <2>2. Handled' = Handled
    BY <1>14, <2>1, TurnSteps, LoopReads, LoopOpens
  <2> QED BY <1>5, <2>1, <2>2 DEF CardOfTurn
<1>15. CASE Send("loop")
  <2> DEFINE n == Len(cards) + 1
  <2>1. /\ At = "request" /\ CardOfTurn' = n /\ DOMAIN cards' = 1 .. n /\ Len(cards') = n
        /\ \A c \in DOMAIN cards : cards'[c] = cards[c] /\ cards[c].turn < turn.user
        /\ cards'[n].turn = turn.user /\ cards'[n].evs = turn.evs
        /\ cards'[n].key <= turn.user
    BY <1>1, <1>15, SendPosts
  <2>2. UNCHANGED <<turn, jsonl>> /\ At' = "sent"
    BY <1>15, LoopSends
  <2>3. Handled' = Handled
    BY <1>15, <2>1, <2>2, TurnSteps, LoopReads, LoopOpens
  <2>4. n \in Nat /\ DOMAIN cards' = DOMAIN cards \cup {n} /\ \A c \in DOMAIN cards : c < n
    BY <2>1, LoopTypes
  <2>5. \A c \in DOMAIN cards' : Increasing(cards'[c].evs)
    BY <1>2, <1>3, <2>1, <2>4
  <2>6. \A c, d \in DOMAIN cards' : c < d => cards'[c].turn < cards'[d].turn
    <3> SUFFICES ASSUME NEW c \in DOMAIN cards', NEW d \in DOMAIN cards', c < d
                 PROVE  cards'[c].turn < cards'[d].turn
      OBVIOUS
    <3>1. c \in DOMAIN cards
      BY <2>1, LoopTypes
    <3>2. CASE d = n
      BY <2>1, <3>1, <3>2
    <3>3. CASE d \in DOMAIN cards
      BY <1>2, <2>1, <3>1, <3>3
    <3> QED BY <2>4, <3>2, <3>3
  <2>7. \A c \in DOMAIN cards' : cards'[c].key <= cards'[c].turn /\ cards'[c].turn <= turn.user
    BY <1>2, <2>1, <2>4, CardTypes, LoopTypes
  <2>8. \A i \in RangeOf(turn.evs) : turn.user < i /\ i <= Handled /\ Renders(i)
    BY <1>3, <1>4, LoopTypes
  <2>9. \A c \in DOMAIN cards' : \A i \in RangeOf(cards'[c].evs) :
            /\ cards'[c].turn < i /\ i <= Handled /\ Renders(i)
            /\ cards'[c].turn < turn.user => i < turn.user
            /\ \A d \in DOMAIN cards' : c < d => i < cards'[d].turn
    <3> SUFFICES ASSUME NEW c \in DOMAIN cards', NEW i \in RangeOf(cards'[c].evs)
                 PROVE  /\ cards'[c].turn < i /\ i <= Handled /\ Renders(i)
                        /\ cards'[c].turn < turn.user => i < turn.user
                        /\ \A d \in DOMAIN cards' : c < d => i < cards'[d].turn
      OBVIOUS
    <3>1. CASE c = n
      BY <2>1, <2>4, <2>8, <3>1, LoopTypes
    <3>2. CASE c \in DOMAIN cards
      BY <1>2, <2>1, <2>4, <3>2
    <3> QED BY <2>4, <3>1, <3>2
  <2>10. \A c : /\ RangeOf(cards[c].evs)' = RangeOf(cards'[c].evs)
                /\ Increasing(cards[c].evs)' <=> Increasing(cards'[c].evs)
                /\ Renders(c)' <=> Renders(c)
    BY <2>2 DEF RangeOf, Increasing, Renders
  <2>11. n # NoCard
    BY LoopTypes DEF NoCard
  <2> HIDE DEF n
  <2> QED BY <2>1, <2>2, <2>3, <2>5, <2>6, <2>7, <2>9, <2>10, <2>11 DEF ChatInOrder
<1>16. CASE Update("loop")
  <2> DEFINE n == Len(cards)
  <2>1. /\ At = "request" /\ CardOfTurn' = n /\ n \in DOMAIN cards /\ Len(cards') = n
        /\ DOMAIN cards' = DOMAIN cards /\ cards[n].turn = turn.user
        /\ \A c \in DOMAIN cards : c # n => cards'[c] = cards[c]
        /\ cards'[n].turn = turn.user /\ cards'[n].evs = turn.evs
        /\ cards'[n].key = cards[n].key
    BY <1>1, <1>16, UpdateReplaces
  <2>2. UNCHANGED <<turn, jsonl>> /\ At' = "updated"
    BY <1>16, LoopUpdates
  <2>3. Handled' = Handled
    BY <1>16, <2>1, <2>2, TurnSteps, LoopReads, LoopOpens
  <2>4. \A c \in DOMAIN cards' : cards'[c].turn = cards[c].turn /\ cards'[c].key = cards[c].key
    BY <2>1
  <2>5. \A c \in DOMAIN cards' : Increasing(cards'[c].evs)
    BY <1>2, <1>3, <2>1
  <2>6. \A i \in RangeOf(turn.evs) : turn.user < i /\ i <= Handled /\ Renders(i)
    BY <1>3, <1>4, LoopTypes
  <2>7. \A c \in DOMAIN cards' : \A i \in RangeOf(cards'[c].evs) :
            /\ cards'[c].turn < i /\ i <= Handled /\ Renders(i)
            /\ cards'[c].turn < turn.user => i < turn.user
            /\ \A d \in DOMAIN cards' : c < d => i < cards'[d].turn
    <3> SUFFICES ASSUME NEW c \in DOMAIN cards', NEW i \in RangeOf(cards'[c].evs)
                 PROVE  /\ cards'[c].turn < i /\ i <= Handled /\ Renders(i)
                        /\ cards'[c].turn < turn.user => i < turn.user
                        /\ \A d \in DOMAIN cards' : c < d => i < cards'[d].turn
      OBVIOUS
    <3>1. CASE c = n
      BY <2>1, <2>6, <3>1, LoopTypes
    <3>2. CASE c # n
      BY <1>2, <2>1, <2>4, <3>2
    <3> QED BY <3>1, <3>2
  <2>8. \A c : /\ RangeOf(cards[c].evs)' = RangeOf(cards'[c].evs)
               /\ Increasing(cards[c].evs)' <=> Increasing(cards'[c].evs)
               /\ Renders(c)' <=> Renders(c)
    BY <2>2 DEF RangeOf, Increasing, Renders
  <2>9. n # NoCard
    BY <1>1, <1>16, UpdateReplaces
  <2> HIDE DEF n
  <2> QED BY <1>2, <2>1, <2>2, <2>3, <2>4, <2>5, <2>7, <2>8, <2>9 DEF ChatInOrder
<1> QED BY <1>1, <1>7, <1>8, <1>9, <1>10, <1>11, <1>12, <1>13, <1>14, <1>15, <1>16, LoopSteps
    DEF Undisturbed, Coroutine, Handle, FlushTurn, Feishu

\* What has been handled and renders is in the chat or waits for the flush in hand.
ShownInv == Undisturbed /\ mem.chat => Rendering(Handled) \subseteq OnCards \cup Waiting

\* A card that shows lines has lost its spinner.
Ended(c) == cards[c].evs # << >> => ~cards[c].live

\* Every card of a turn that is over has; when the final card is marked as out, or a
\* flush that ends a turn has been through, the card of the open turn has too.
EndedInv == Undisturbed =>
    /\ finalAt = mem.offset => At \in {"idle", "tick"}
    /\ \A c \in DOMAIN cards :
          \/ cards[c].turn < turn.user
          \/ finalAt = mem.offset
          \/ At \in InFlush \ Unflushed /\ Locals.after \in {"user", "settle"}
          => Ended(c)

LEMMA NoElements ==
    ASSUME NEW s \in Seq(Nat), RangeOf(s) = {}
    PROVE  s = << >>
<1>1. Len(s) \in Nat /\ DOMAIN s = 1 .. Len(s)
  BY LenProperties
<1>2. DOMAIN s = {}
  BY DEF RangeOf
<1>3. Len(s) = 0
  BY <1>1, <1>2
<1> QED BY <1>3, EmptySeq

\* The card of the open turn shows lines of the turn.
LEMMA NewestIsPart ==
    ASSUME TypeOK, BatchInv, TurnInv, ChatInOrder, Undisturbed,
           NEW c \in DOMAIN cards, cards[c].turn = turn.user
    PROVE  RangeOf(cards[c].evs) \subseteq RangeOf(turn.evs)
<1> SUFFICES ASSUME NEW i \in RangeOf(cards[c].evs) PROVE i \in RangeOf(turn.evs)
  OBVIOUS
<1>1. turn.user < i /\ i <= Handled /\ Renders(i) /\ i \in Nat
  BY CardTypes DEF ChatInOrder
<1>2. i \in turn.user + 1 .. Handled
  BY <1>1, HandledBounds, LoopTypes
<1> QED BY <1>1, <1>2 DEF TurnInv

LEMMA OnCardsGrow ==
    ASSUME TypeOK, BatchInv, KeyInv, KeepInv, TurnInv, FlushInv, ChatInOrder, Undisturbed,
           Feishu("loop")
    PROVE  OnCards \cup RangeOf(turn.evs) \subseteq OnCards'
<1>1. CASE Send("loop")
  <2> DEFINE n == Len(cards) + 1
  <2>1. /\ DOMAIN cards' = 1 .. n /\ cards'[n].evs = turn.evs
        /\ \A c \in DOMAIN cards : cards'[c] = cards[c]
    BY <1>1, SendPosts
  <2>2. n \in DOMAIN cards' /\ DOMAIN cards \subseteq DOMAIN cards'
    BY <2>1, LoopTypes
  <2> HIDE DEF n
  <2>3. \A c \in DOMAIN cards' : RangeOf(cards'[c].evs) \subseteq OnCards'
    BY DEF OnCards, RangeOf
  <2> QED BY <2>1, <2>2, <2>3 DEF OnCards
<1>2. CASE Update("loop")
  <2> DEFINE n == Len(cards)
  <2>1. /\ DOMAIN cards' = DOMAIN cards /\ n \in DOMAIN cards /\ cards'[n].evs = turn.evs
        /\ \A c \in DOMAIN cards : c # n => cards'[c] = cards[c]
        /\ cards[n].turn = turn.user
    BY <1>2, UpdateReplaces
  <2>2. RangeOf(cards[n].evs) \subseteq RangeOf(turn.evs)
    BY <2>1, NewestIsPart
  <2> HIDE DEF n
  <2>3. \A c \in DOMAIN cards' : RangeOf(cards'[c].evs) \subseteq OnCards'
    BY DEF OnCards, RangeOf
  <2> QED BY <2>1, <2>2, <2>3 DEF OnCards
<1> QED BY <1>1, <1>2 DEF Feishu

LEMMA ShownPreserved ==
    ASSUME TypeOK, BatchInv, KeyInv, KeepInv, TurnInv, FlushInv, ChatInOrder, ShownInv,
           [Next]_vars
    PROVE  ShownInv'
<1> SUFFICES ASSUME Undisturbed', mem'.chat PROVE ShownInv'
  BY DEF ShownInv
<1>1. Undisturbed /\ pc["boot"] = "idle" /\ Handled \in Nat /\ Handled <= Len(jsonl)
  BY TurnSteps, HandledBounds DEF BatchInv, Undisturbed
<1>2. mem.chat => Rendering(Handled) \subseteq OnCards \cup Waiting
  BY <1>1 DEF ShownInv
<1> USE DEF InFlush, Flushing, Unflushed
\* A step that handles no line and takes nothing away from the chat.
<1>3. ASSUME mem'.chat = mem.chat, Handled' = Handled,
             UNCHANGED jsonl \/ \E k \in Kinds : Write(k),
             OnCards \cup Waiting \subseteq (OnCards \cup Waiting)'
      PROVE  ShownInv'
  <2>1. Rendering(Handled)' = Rendering(Handled)
    <3>1. Rendering(Handled)' = {i \in 1 .. Handled : Renders(i)'}
      BY <1>3 DEF Rendering
    <3>2. \A i \in 1 .. Handled : Renders(i)' <=> Renders(i)
      BY <1>1, <1>3, LoopWrites, LoopTypes DEF Renders
    <3> QED BY <3>1, <3>2 DEF Rendering
  <2> QED BY <1>2, <1>3, <2>1 DEF ShownInv
<1>4. ASSUME UNCHANGED cards, mem'.chat = mem.chat, Waiting \subseteq Waiting',
             ~OtherLine("loop"), ~OpenTurn("loop")
      PROVE  ShownInv'
  <2>1. Handled' = Handled /\ (UNCHANGED jsonl \/ \E k \in Kinds : Write(k))
    BY <1>4, TurnSteps
  <2>2. OnCards' = OnCards
    BY <1>4 DEF OnCards, RangeOf
  <2> QED BY <1>3, <1>4, <2>1, <2>2
<1>5. ASSUME NEW k \in Kinds, Write(k) PROVE ShownInv'
  <2>1. Handled' = Handled /\ UNCHANGED <<turn, cards, mem>> /\ Waiting' = Waiting
    BY <1>5, LoopWrites DEF Handled, InBatch, Waiting, RangeOf
  <2>2. OnCards' = OnCards
    BY <2>1 DEF OnCards, RangeOf
  <2> QED BY <1>3, <1>5, <2>1, <2>2
<1>6. CASE Wakes
  <2>1. UNCHANGED <<jsonl, turn, cards, mem>> /\ Handled' = Handled /\ Waiting' = Waiting
    BY <1>6 DEF Wakes, Handled, InBatch, Waiting, RangeOf
  <2>2. OnCards' = OnCards
    BY <2>1 DEF OnCards, RangeOf
  <2> QED BY <1>3, <2>1, <2>2
<1>7. CASE Crash \/ Stop
  BY <1>7, LoopDies DEF Undisturbed
<1>8. CASE OtherLine("loop")
  <2> DEFINE line == Locals.next
  <2>1. /\ UNCHANGED <<jsonl, mem, cards>> /\ At = "run" /\ At' = "run"
    BY <1>8, LoopReads
  <2>2. turn'.evs = IF Renders(line) THEN Append(turn.evs, line) ELSE turn.evs
    BY <1>1, <1>8, LoopReads DEF BatchInv, Undisturbed
  <2>3. Waiting = RangeOf(turn.evs) /\ Waiting' = RangeOf(turn'.evs)
    BY <2>1 DEF Waiting, RangeOf
  <2>4. Waiting' = Waiting \cup (IF Renders(line) THEN {line} ELSE {})
    BY <2>2, <2>3, RangeOfAppend, LoopTypes
  <2>5. Handled' = line /\ line = Handled + 1
    <3>1. Locals'.next = line + 1
      BY <1>8, LoopReads
    <3>2. Handled = line - 1 /\ Handled' = Locals'.next - 1
      BY <2>1 DEF Handled, InBatch
    <3> QED BY <3>1, <3>2, LoopTypes
  <2>6. OnCards' = OnCards
    BY <2>1 DEF OnCards, RangeOf
  <2>7. Rendering(Handled)' \subseteq Rendering(Handled) \cup (IF Renders(line) THEN {line} ELSE {})
    <3>1. Rendering(Handled)' = {i \in 1 .. Handled' : Renders(i)}
      BY <2>1 DEF Rendering, Renders
    <3>2. 1 .. Handled' = 1 .. Handled \cup {line}
      BY <1>1, <2>5
    <3> QED BY <3>1, <3>2 DEF Rendering
  <2> QED BY <1>2, <2>1, <2>4, <2>6, <2>7 DEF ShownInv
<1>9. CASE OpenTurn("loop")
  <2> DEFINE line == Locals.next
  <2>1. /\ UNCHANGED <<jsonl, cards>> /\ mem'.chat = mem.chat /\ At = "after" /\ At' = "run"
        /\ Locals.after = "user" /\ Locals'.next = line + 1
    BY <1>9, LoopOpens
  <2>2. ~Renders(line)
    BY <1>1, <2>1 DEF BatchInv, Undisturbed, Renders
  <2>3. Handled = line - 1
    BY <2>1 DEF Handled, InBatch
  <2>4. Handled' = Locals'.next - 1
    BY <2>1 DEF Handled, InBatch
  <2>5. 1 .. Handled' = 1 .. Handled \cup {line}
    BY <1>1, <2>1, <2>3, <2>4, LoopTypes
  <2>6. Rendering(Handled)' = {i \in 1 .. Handled' : Renders(i)}
    BY <2>1 DEF Rendering, Renders
  <2>7. Rendering(Handled)' \subseteq Rendering(Handled)
    BY <2>2, <2>5, <2>6 DEF Rendering
  <2>8. Waiting = {} /\ OnCards' = OnCards
    BY <2>1 DEF Waiting, OnCards, RangeOf
  <2> QED BY <1>2, <2>1, <2>7, <2>8 DEF ShownInv
<1>10. CASE Backlog("loop") \/ UserLine("loop") \/ EndBatch("loop")
  <2>1. UNCHANGED <<cards, turn>> /\ mem'.chat = mem.chat
    BY <1>10, LoopIngests, LoopReturns, LoopFlushes, LoopAsks DEF Backlog
  <2>2. Waiting = {} \/ (At \in Unflushed /\ At' \in Unflushed)
    BY <1>10, LoopIngests, LoopReturns, LoopFlushes, LoopAsks DEF Backlog, Waiting
  <2>3. Waiting \subseteq Waiting'
    BY <2>1, <2>2 DEF Waiting, RangeOf
  <2>4. ~(At = "run" /\ At' = "run") /\ ~(At = "after" /\ At' = "run")
    BY <1>10, LoopIngests, LoopReturns, LoopFlushes, LoopAsks DEF Backlog
  <2> QED BY <1>4, <2>1, <2>3, <2>4, LoopReads, LoopOpens
<1>11. CASE FlushNothing("loop") \/ Flush("loop")
  <2>1. /\ At = "flush" /\ At' \in {"after", "upload"} /\ UNCHANGED <<cards, turn, mem>>
        /\ At' = "after" => ~(turn.open /\ mem.chat)
    BY <1>11, LoopStartsFlush
  <2>2. Waiting \subseteq Waiting'
    <3>1. CASE At' = "upload"
      BY <2>1, <3>1 DEF Waiting, RangeOf
    <3>2. CASE At' = "after"
      <4>1. turn.evs = << >>
        BY <1>1, <2>1, <3>2 DEF BatchInv, Undisturbed
      <4> QED BY <4>1 DEF Waiting, RangeOf
    <3> QED BY <2>1, <3>1, <3>2
  <2> QED BY <1>4, <2>1, <2>2, LoopReads, LoopOpens
<1>12. CASE Render("loop") \/ Request("loop")
  <2>1. /\ At \in {"upload", "acquire"} /\ UNCHANGED <<cards, turn, mem>>
        /\ At' \in Unflushed \/ turn.evs = << >>
    BY <1>12, LoopRenders, LoopRequests
  <2>2. Waiting \subseteq Waiting'
    BY <2>1 DEF Waiting, RangeOf
  <2> QED BY <1>4, <2>1, <2>2, LoopReads, LoopOpens
<1>13. CASE Feishu("loop")
  <2>1. /\ At = "request" /\ At' \in {"sent", "updated"} /\ UNCHANGED <<turn, mem, jsonl>>
    BY <1>13, LoopSends, LoopUpdates DEF Feishu
  <2>2. Waiting = RangeOf(turn.evs) /\ OnCards \cup RangeOf(turn.evs) \subseteq OnCards'
    BY <1>1, <1>13, <2>1, OnCardsGrow DEF Waiting
  <2>3. Handled' = Handled
    BY <2>1, TurnSteps, LoopReads, LoopOpens
  <2> QED BY <1>3, <2>1, <2>2, <2>3
<1>14. CASE Reply("loop") \/ RequestFails("loop") \/ Attach("loop")
  <2>1. /\ At \in {"sent", "updated", "attach", "push"} /\ UNCHANGED <<cards, turn>>
        /\ mem'.chat = mem.chat
    BY <1>14, LoopIsAnswered, LoopAttaches DEF Undisturbed
  <2>2. Waiting = {}
    BY <2>1 DEF Waiting
  <2> QED BY <1>4, <2>1, <2>2, LoopReads, LoopOpens
<1> QED BY <1>1, <1>5, <1>6, <1>7, <1>8, <1>9, <1>10, <1>11, <1>12, <1>13, <1>14, LoopSteps
    DEF Undisturbed, Coroutine, Handle, FlushTurn

LEMMA EndedPreserved ==
    ASSUME TypeOK, BatchInv, ChatInv, KeyInv, KeepInv, TurnInv, FlushInv, ChatInOrder, EndedInv,
           [Next]_vars
    PROVE  EndedInv'
<1> SUFFICES ASSUME Undisturbed' PROVE EndedInv'
  BY DEF EndedInv
<1>1. Undisturbed /\ pc["boot"] = "idle"
  BY TurnSteps DEF BatchInv, Undisturbed
<1>2. /\ finalAt = mem.offset => At \in {"idle", "tick"}
      /\ \A c \in DOMAIN cards :
            \/ cards[c].turn < turn.user
            \/ finalAt = mem.offset
            \/ At \in InFlush \ Unflushed /\ Locals.after \in {"user", "settle"}
            => Ended(c)
  BY <1>1 DEF EndedInv
<1> USE LoopTypes DEF InFlush, Flushing, Unflushed
\* A step that leaves the cards alone and ends nothing.
<1>3. ASSUME UNCHANGED cards, mem'.offset = mem.offset, turn'.user = turn.user,
             finalAt' = mem.offset =>
                 At' \in {"idle", "tick"} /\ (finalAt = mem.offset \/
                    (At \in InFlush \ Unflushed /\ Locals.after \in {"user", "settle"})),
             At' \in InFlush \ Unflushed =>
                 At \in InFlush \ Unflushed /\ Locals'.after = Locals.after
      PROVE  EndedInv'
  BY <1>2, <1>3 DEF EndedInv, Ended
<1>4. CASE (\E k \in Kinds : Write(k)) \/ Wakes
  <2>1. /\ UNCHANGED <<cards, mem, turn, finalAt>> /\ Locals' = Locals
        /\ At' = At \/ (At' = "tick" /\ At = "idle")
    BY <1>4, LoopWrites DEF Wakes
  <2> QED BY <1>2, <1>3, <2>1
<1>5. CASE Crash \/ Stop
  BY <1>5, LoopDies DEF Undisturbed
<1>6. CASE Ingest("loop")
  <2>1. /\ UNCHANGED <<cards, turn>> /\ At' = "run" /\ finalAt' = NoOffset
        /\ mem'.offset # NoOffset
    BY <1>6, LoopIngests DEF NoOffset
  <2> QED BY <1>2, <2>1 DEF EndedInv, Ended
<1>7. CASE NothingToDo("loop") \/ FinishBacklog("loop")
  <2>1. /\ UNCHANGED <<cards, mem, turn>> /\ At' = "idle"
        /\ \/ At = "tick" /\ finalAt' = finalAt
           \/ At = "after" /\ finalAt' = IF Locals.after = "settle" THEN mem.offset ELSE finalAt
    BY <1>7, LoopReturns
  <2> QED BY <1>2, <1>3, <2>1
<1>8. CASE QuietFlush("loop") \/ UserLine("loop") \/ EndBatch("loop")
  <2>1. /\ UNCHANGED <<cards, mem, turn, finalAt>> /\ At' = "flush"
        /\ finalAt # mem.offset
    BY <1>2, <1>8, LoopFlushes, LoopAsks
  <2> QED BY <1>3, <2>1
<1>9. CASE OtherLine("loop")
  <2>1. /\ UNCHANGED <<cards, mem, finalAt>> /\ At = "run" /\ At' = "run"
    BY <1>9, LoopReads
  <2>2. turn'.user = turn.user
    BY <1>1, <1>9, LoopReads DEF BatchInv, Undisturbed
  <2> QED BY <1>2, <1>3, <2>1, <2>2
<1>10. CASE OpenTurn("loop")
  <2>1. /\ UNCHANGED <<cards, finalAt>> /\ At = "after" /\ At' = "run" /\ Locals.after = "user"
        /\ mem'.offset = mem.offset
    BY <1>10, LoopOpens
  <2> QED BY <1>2, <2>1 DEF EndedInv, Ended
\* A flush that finds nothing to show leaves a card that shows nothing.
<1>11. ASSUME At \in {"flush", "upload"}, At' = "after", turn.evs = << >> \/ cards = << >>,
              UNCHANGED <<cards, mem, turn, finalAt>>
       PROVE  EndedInv'
  <2>1. finalAt # mem.offset
    BY <1>2, <1>11
  <2>2. \A c \in DOMAIN cards : cards[c].turn < turn.user \/ cards[c].evs = << >>
    <3> SUFFICES ASSUME NEW c \in DOMAIN cards, ~(cards[c].turn < turn.user)
                 PROVE  cards[c].evs = << >>
      OBVIOUS
    <3>1. turn.evs = << >>
      BY <1>11
    <3>2. cards[c].turn = turn.user /\ cards[c].evs \in Seq(Nat)
      BY <1>1, CardTypes DEF ChatInOrder
    <3>3. \A i \in turn.user + 1 .. Handled : ~Renders(i)
      BY <1>1, <3>1 DEF TurnInv, RangeOf
    <3>4. \A i \in RangeOf(cards[c].evs) : i \in turn.user + 1 .. Handled /\ Renders(i)
      <4> SUFFICES ASSUME NEW i \in RangeOf(cards[c].evs)
                   PROVE  i \in turn.user + 1 .. Handled /\ Renders(i)
        OBVIOUS
      <4>1. turn.user < i /\ i <= Handled /\ Renders(i)
        BY <1>1, <3>2 DEF ChatInOrder
      <4>2. i \in Nat /\ Handled \in Nat
        BY <1>1, CardTypes, HandledBounds
      <4> QED BY <4>1, <4>2
    <3>5. RangeOf(cards[c].evs) = {}
      BY <3>3, <3>4
    <3> QED BY <3>2, <3>5, NoElements
  <2>3. \A c \in DOMAIN cards : Ended(c)
    BY <1>2, <2>2 DEF Ended
  <2> QED BY <1>11, <2>1, <2>3 DEF EndedInv, Ended
<1>12. CASE FlushNothing("loop") \/ Flush("loop")
  <2>1. /\ UNCHANGED <<cards, mem, turn, finalAt>> /\ At = "flush"
        /\ \/ At' = "after" /\ ~(turn.open /\ mem.chat)
           \/ At' = "upload"
    BY <1>12, LoopStartsFlush
  <2>2. CASE At' = "after"
    <3>1. turn.evs = << >> \/ cards = << >>
      BY <1>1, <2>1, <2>2 DEF BatchInv, ChatInv, Undisturbed
    <3> QED BY <1>11, <2>1, <2>2, <3>1
  <2>3. CASE At' = "upload"
    BY <1>2, <1>3, <2>1, <2>3
  <2> QED BY <2>1, <2>2, <2>3
<1>13. CASE Render("loop")
  <2>1. /\ UNCHANGED <<cards, mem, turn, finalAt>> /\ At = "upload"
        /\ At' = "acquire" \/ (At' = "after" /\ turn.evs = << >>)
    BY <1>13, LoopRenders
  <2>2. CASE At' = "after"
    BY <1>11, <2>1, <2>2
  <2>3. CASE At' = "acquire"
    BY <1>2, <1>3, <2>1, <2>3
  <2> QED BY <2>1, <2>2, <2>3
<1>14. CASE Request("loop")
  <2>1. /\ UNCHANGED <<cards, mem, turn, finalAt>> /\ At = "acquire" /\ At' = "request"
    BY <1>14, LoopRequests
  <2> QED BY <1>2, <1>3, <2>1
<1>15. CASE Send("loop") \/ Update("loop")
  <2>1. /\ UNCHANGED <<mem, turn, finalAt>> /\ At = "request" /\ At' \in {"sent", "updated"}
        /\ Locals'.after = Locals.after
    BY <1>15, LoopSends, LoopUpdates
  <2>2. PICK n \in DOMAIN cards' :
            /\ cards'[n].turn = turn.user /\ cards'[n].live = Locals.body.live
            /\ \A c \in DOMAIN cards' : c # n => c \in DOMAIN cards /\ cards'[c] = cards[c]
                                                 /\ cards[c].turn < turn.user
    <3>1. CASE Send("loop")
      <4>1. /\ DOMAIN cards' = 1 .. Len(cards) + 1
            /\ \A c \in DOMAIN cards : cards'[c] = cards[c] /\ cards[c].turn < turn.user
            /\ cards'[Len(cards) + 1].turn = turn.user
            /\ cards'[Len(cards) + 1].live = Locals.body.live
        BY <1>1, <3>1, SendPosts
      <4>2. \A c \in DOMAIN cards' : c # Len(cards) + 1 => c \in DOMAIN cards
        BY <4>1
      <4> QED BY <4>1, <4>2
    <3>2. CASE Update("loop")
      <4>1. /\ DOMAIN cards' = DOMAIN cards /\ Len(cards) \in DOMAIN cards
            /\ \A c \in DOMAIN cards : c # Len(cards) => cards'[c] = cards[c]
            /\ cards[Len(cards)].turn = turn.user
            /\ cards'[Len(cards)].turn = turn.user
            /\ cards'[Len(cards)].live = Locals.body.live
        BY <1>1, <3>2, UpdateReplaces
      <4>2. \A c \in DOMAIN cards : c # Len(cards) => cards[c].turn < turn.user
        <5>1. \A c \in DOMAIN cards : c # Len(cards) => c < Len(cards)
          OBVIOUS
        <5> QED BY <1>1, <4>1, <5>1 DEF ChatInOrder
      <4> QED BY <4>1, <4>2
    <3> QED BY <1>15, <3>1, <3>2
  <2>3. finalAt # mem.offset
    BY <1>2, <2>1
  <2>4. Locals.after \in {"user", "settle"} => ~cards'[n].live
    BY <1>1, <2>1, <2>2 DEF FlushInv
  <2>5. \A c \in DOMAIN cards' : c # n => (cards'[c].evs # << >> => ~cards'[c].live)
    BY <1>2, <2>2 DEF Ended
  <2> QED BY <2>1, <2>2, <2>3, <2>4, <2>5 DEF EndedInv, Ended
<1>16. CASE Reply("loop") \/ RequestFails("loop")
  <2>1. /\ UNCHANGED <<cards, turn, finalAt>> /\ mem'.offset = mem.offset
        /\ At \in {"sent", "updated"} /\ At' = "attach" /\ Locals'.after = Locals.after
    BY <1>16, LoopIsAnswered DEF Undisturbed
  <2> QED BY <1>2, <1>3, <2>1
<1>17. CASE Attach("loop")
  <2>1. /\ UNCHANGED <<cards, mem, turn, finalAt>> /\ Locals'.after = Locals.after
        /\ At \in {"attach", "push"} /\ At' \in {"attach", "push", "after"}
    BY <1>17, LoopAttaches
  <2> QED BY <1>2, <1>3, <2>1
<1> QED BY <1>1, <1>4, <1>5, <1>6, <1>7, <1>8, <1>9, <1>10, <1>12, <1>13, <1>14, <1>15, <1>16,
           <1>17, LoopSteps
    DEF Undisturbed, Coroutine, Backlog, Handle, FlushTurn, Feishu

MirrorInv == TurnInv /\ FlushInv /\ ChatInOrder /\ ShownInv /\ EndedInv

LEMMA Mirrors ==
    Spec => [](TypeOK /\ BatchInv /\ ChatInv /\ KeyInv /\ KeepInv /\ MirrorInv)
<1> DEFINE Base == TypeOK /\ BatchInv /\ ChatInv /\ KeyInv
           I == Base /\ KeepInv /\ MirrorInv
<1>1. Init => KeepInv /\ MirrorInv
  <2> SUFFICES ASSUME Init PROVE KeepInv /\ MirrorInv
    OBVIOUS
  <2>1. /\ jsonl = << >> /\ cards = << >> /\ At = "idle" /\ turn = NoTurn /\ finalAt = NoOffset
        /\ mem.offset = 0 /\ mem.card = 0
    BY DEF Init, At, Procs, NoCard
  <2>2. Handled = 0 /\ turn.user = 0 /\ turn.evs = << >> /\ finalAt # mem.offset /\ ~InBatch
    BY <2>1 DEF Handled, InBatch, InFlush, Flushing, NoTurn, NoOffset
  <2>3. KeepInv /\ TurnInv /\ FlushInv
    BY <2>1, <2>2 DEF KeepInv, TurnInv, FlushInv, InFlush, Flushing, RangeOf, Increasing
  <2>4. ChatInOrder /\ ShownInv /\ EndedInv
    BY <2>1, <2>2 DEF ChatInOrder, CardOfTurn, NoCard, ShownInv, Rendering, EndedInv, InFlush,
                      Flushing
  <2> QED BY <2>3, <2>4 DEF MirrorInv
<1>2. I /\ [Next]_vars => KeepInv' /\ MirrorInv'
  <2> SUFFICES ASSUME I, [Next]_vars PROVE KeepInv' /\ MirrorInv'
    OBVIOUS
  <2>1. KeepInv'
    BY KeepPreserved DEF KeepInv
  <2>2. MirrorInv'
    BY TurnPreserved, FlushPreserved, OrderPreserved, ShownPreserved, EndedPreserved
       DEF MirrorInv
  <2> QED BY <2>1, <2>2
<1>3. Spec => []Base
  BY TypeCorrect, Batches, ChatHolds, KeysHold, PTL
<1> QED BY <1>1, <1>2, <1>3, PTL DEF Spec

\* Read card after card, the chat shows the lines of the transcript in their order
\* and each of them once.
THEOREM ChatIsInOrder == Spec => [](Undisturbed => InTranscriptOrder)
<1>1. TypeOK /\ MirrorInv => (Undisturbed => InTranscriptOrder)
  <2> SUFFICES ASSUME TypeOK, MirrorInv, Undisturbed,
                      NEW c \in DOMAIN cards, NEW d \in DOMAIN cards,
                      NEW i \in DOMAIN cards[c].evs, NEW j \in DOMAIN cards[d].evs,
                      c < d \/ (c = d /\ i < j)
               PROVE  cards[c].evs[i] < cards[d].evs[j]
    BY DEF InTranscriptOrder
  <2>1. /\ cards[c].evs[i] \in RangeOf(cards[c].evs) /\ cards[d].evs[j] \in RangeOf(cards[d].evs)
    BY DEF RangeOf
  <2>2. /\ cards[c].evs[i] \in Nat /\ cards[d].evs[j] \in Nat /\ cards[d].turn \in Nat
    BY <2>1, CardTypes
  <2>3. CASE c < d
    <3>1. cards[c].evs[i] < cards[d].turn /\ cards[d].turn < cards[d].evs[j]
      BY <2>1, <2>3 DEF MirrorInv, ChatInOrder
    <3> QED BY <2>2, <3>1
  <2>4. CASE c = d /\ i < j
    BY <2>4 DEF MirrorInv, ChatInOrder, Increasing
  <2> QED BY <2>3, <2>4
<1> QED BY <1>1, Mirrors, PTL

\* When the pipeline is at rest nothing is missing from the chat.
THEOREM RestIsComplete == Spec => [](Undisturbed => SettledIsComplete)
<1>1. TypeOK /\ MirrorInv => (Undisturbed => SettledIsComplete)
  <2> SUFFICES ASSUME TypeOK, MirrorInv, Undisturbed, Settled
               PROVE  Rendering(Len(jsonl)) \subseteq OnCards
    BY DEF SettledIsComplete
  <2>1. At = "idle" /\ mem.chat /\ mem.offset = Len(jsonl)
    BY DEF Settled, At, Procs
  <2>2. Handled = Len(jsonl) /\ Waiting = {}
    BY <2>1 DEF Handled, InBatch, InFlush, Flushing, Waiting, Unflushed
  <2> QED BY <2>1, <2>2 DEF MirrorInv, ShownInv
<1> QED BY <1>1, Mirrors, PTL

\* At rest no card that shows lines still shows the spinner.
THEOREM RestIsWithoutSpinner == Spec => [](Undisturbed => SettledIsFinal)
<1>1. MirrorInv => (Undisturbed => SettledIsFinal)
  BY DEF MirrorInv, EndedInv, Ended, Settled, SettledIsFinal
<1> QED BY <1>1, Mirrors, PTL

\* A sequence is a function on an initial segment, and what appending to one gives.
LEMMA LenOfFunction ==
    ASSUME NEW S, NEW n \in Nat, NEW f \in [1 .. n -> S]
    PROVE  f \in Seq(S) /\ Len(f) = n
<1>1. f \in Seq(S)
  BY SeqDef
<1>2. DOMAIN f = 1 .. Len(f) /\ Len(f) \in Nat
  BY <1>1, LenProperties
<1> QED BY <1>1, <1>2

LEMMA AppendIs ==
    ASSUME NEW S, NEW n \in Nat, NEW s \in [1 .. n -> S], NEW e \in S,
           NEW t \in [1 .. n + 1 -> S], t[n + 1] = e, \A i \in 1 .. n : t[i] = s[i]
    PROVE  t = Append(s, e)
<1>1. s \in Seq(S) /\ Len(s) = n /\ t \in Seq(S) /\ Len(t) = n + 1
  BY LenOfFunction
<1>2. Append(s, e) \in Seq(S) /\ Len(Append(s, e)) = n + 1 /\ Append(s, e)[n + 1] = e
      /\ \A i \in 1 .. n : Append(s, e)[i] = s[i]
  BY <1>1, AppendProperties
<1>3. \A i \in 1 .. n + 1 : t[i] = Append(s, e)[i]
  BY <1>2
<1> QED BY <1>1, <1>2, <1>3, SeqEqual

\* A card of Mirror.
ShownType == [turn : Nat, lines : SUBSET Nat, live : BOOLEAN]

LEMMA ShownTyped ==
    ASSUME NEW cs \in Seq(CardType)
    PROVE  [c \in DOMAIN cs |-> [turn |-> cs[c].turn, lines |-> RangeOf(cs[c].evs),
                                 live |-> cs[c].live]] \in [1 .. Len(cs) -> ShownType]
<1>1. ASSUME NEW c \in DOMAIN cs
      PROVE  [turn |-> cs[c].turn, lines |-> RangeOf(cs[c].evs), live |-> cs[c].live]
                 \in ShownType
  <2>1. cs[c] \in CardType
    BY ElementOfSeq, LenProperties
  <2>2. cs[c].turn \in Nat /\ cs[c].live \in BOOLEAN /\ cs[c].evs \in Seq(Nat)
    BY <2>1 DEF CardType
  <2>3. RangeOf(cs[c].evs) \in SUBSET Nat
    BY <2>2, ElementOfSeq, LenProperties DEF RangeOf
  <2> QED BY <2>2, <2>3 DEF ShownType
<1> QED BY <1>1, LenProperties

\* The pipeline implements Mirror when the chat is known and nothing goes wrong: a
\* send posts the card of the open turn, an update extends it, and no other step
\* is seen.
THEOREM MirrorIsImplemented ==
    ASSUME Chats \subseteq {TRUE}, Faults = {}
    PROVE  Spec => ImplementsMirror
<1> DEFINE Inv == /\ TypeOK /\ BatchInv /\ ChatInv /\ KeyInv /\ KeepInv /\ MirrorInv
                  /\ Undisturbed
<1>1. Init => Mirrored!Init
  BY DEF Init, Mirrored!Init, ShownCards
<1>2. Inv /\ Inv' /\ [Next]_vars => [Mirrored!Next]_(Mirrored!vars)
  <2> SUFFICES ASSUME Inv, Inv', [Next]_vars PROVE [Mirrored!Next]_(Mirrored!vars)
    OBVIOUS
  <2> DEFINE Still == jsonl' = jsonl /\ ShownCards' = ShownCards
  <2>1. ASSUME jsonl' = jsonl, cards' = cards PROVE Still
    BY <2>1 DEF ShownCards, RangeOf
  <2>2. Handled \in 0 .. Len(jsonl) /\ Len(jsonl) \in Nat
    BY HandledBounds, LoopTypes DEF MirrorInv
  <2>3. turn.user \in Mirrored!Turns
    <3>1. turn.user \in Nat /\ turn.user <= Handled /\ (turn.user # 0 => jsonl[turn.user] = "user")
      BY LoopTypes DEF MirrorInv, TurnInv
    <3>2. turn.user # 0 => turn.user \in DOMAIN jsonl
      BY <2>2, <3>1, LoopTypes
    <3> QED BY <3>1, <3>2 DEF Mirrored!Turns
  <2>4. RangeOf(turn.evs) = Mirrored!LinesOf(turn.user, Handled)
    <3>1. /\ RangeOf(turn.evs) = {i \in turn.user + 1 .. Handled : Renders(i)}
          /\ \A i \in turn.user + 1 .. Handled : jsonl[i] # "user"
          /\ turn.user \in Nat
      BY LoopTypes DEF MirrorInv, TurnInv
    <3>2. \A i \in 1 .. Handled : Mirrored!InTurn(turn.user, i) <=> turn.user < i
      BY <2>2, <3>1 DEF Mirrored!InTurn
    <3>3. Mirrored!LinesOf(turn.user, Handled) =
              {i \in 1 .. Handled : turn.user < i /\ jsonl[i] \in {"text", "file"}}
      BY <3>2 DEF Mirrored!LinesOf
    <3>4. {i \in turn.user + 1 .. Handled : Renders(i)} =
              {i \in 1 .. Handled : turn.user < i /\ jsonl[i] \in {"text", "file"}}
      BY <2>2, <3>1 DEF Renders
    <3> QED BY <3>1, <3>3, <3>4
  <2>5. /\ ShownCards \in [1 .. Len(cards) -> ShownType] /\ DOMAIN cards = 1 .. Len(cards)
        /\ \A c \in DOMAIN cards : ShownCards[c] = [turn |-> cards[c].turn,
               lines |-> RangeOf(cards[c].evs), live |-> cards[c].live]
    <3>1. cards \in Seq(CardType)
      BY LoopTypes
    <3> QED BY <3>1, ShownTyped, LenProperties DEF ShownCards, RangeOf
  <2>15. /\ ShownCards' \in [1 .. Len(cards') -> ShownType]
        /\ \A c \in DOMAIN cards' : ShownCards'[c] = [turn |-> cards'[c].turn,
               lines |-> RangeOf(cards'[c].evs), live |-> cards'[c].live]
    <3>1. ShownCards' \in [1 .. Len(cards') -> ShownType]
      <4>1. cards' \in Seq(CardType)
        BY DEF TypeOK
      <4> QED BY <4>1, ShownTyped DEF ShownCards, RangeOf
    <3> QED BY <3>1 DEF ShownCards, RangeOf
  <2>6. ASSUME At = "request" PROVE Locals.body.live \/ Mirrored!LinesOf(turn.user, Handled) # {}
    <3>1. Locals.body.live \/ turn.evs # << >>
      BY <2>6 DEF MirrorInv, FlushInv
    <3> QED BY <2>4, <3>1, NoElements, LoopTypes
  <2>7. ASSUME NEW k \in Kinds, Write(k) PROVE Mirrored!Next
    <3>1. Len(jsonl) < MaxLines /\ jsonl' = Append(jsonl, k) /\ cards' = cards
      BY <2>7 DEF Write, feishu
    <3>2. ShownCards' = ShownCards
      BY <3>1 DEF ShownCards, RangeOf
    <3> QED BY <3>1, <3>2 DEF Mirrored!Next, Mirrored!Write
  <2>8. ASSUME Wakes \/ Crash \/ Stop PROVE Still
    <3>1. jsonl' = jsonl /\ cards' = cards
      BY <2>8, LoopDies DEF Wakes
    <3> QED BY <2>1, <3>1
  <2>9. ASSUME Backlog("loop") \/ Handle("loop") PROVE Still
    <3>1. jsonl' = jsonl /\ cards' = cards
      BY <2>9, LoopIngests, LoopReturns, LoopFlushes, LoopAsks, LoopReads, LoopOpens
         DEF Backlog, Handle
    <3> QED BY <2>1, <3>1
  <2>10. ASSUME FlushTurn("loop") \/ Attach("loop") \/ RequestFails("loop") PROVE Still
    <3>1. jsonl' = jsonl /\ cards' = cards
      BY <2>10, LoopStartsFlush, LoopRenders, LoopRequests, LoopIsAnswered, LoopAttaches
         DEF FlushTurn
    <3> QED BY <2>1, <3>1
  <2>11. CASE Send("loop")
    <3> DEFINE n == Len(cards) + 1
               live == Locals.body.live
               card == [turn |-> turn.user, lines |-> RangeOf(turn.evs), live |-> live]
    <3>1. /\ At = "request" /\ DOMAIN cards' = 1 .. n /\ Len(cards') = n
          /\ \A c \in DOMAIN cards : cards'[c] = cards[c] /\ cards[c].turn < turn.user
          /\ cards'[n].turn = turn.user /\ cards'[n].evs = turn.evs
          /\ cards'[n].live = live
      BY <2>11, SendPosts DEF MirrorInv
    <3>2. UNCHANGED jsonl
      BY <2>11, LoopSends
    <3>3. ShownCards' = Append(ShownCards, card)
      <4>1. card \in ShownType /\ ShownCards'[n] = card
        <5>1. n \in 1 .. Len(cards') /\ n \in DOMAIN cards'
          BY <3>1, LoopTypes
        <5> QED BY <2>15, <3>1, <5>1
      <4>2. \A c \in 1 .. Len(cards) : ShownCards'[c] = ShownCards[c]
        <5>1. \A c \in DOMAIN cards : c \in DOMAIN cards'
          BY <3>1, LoopTypes
        <5> QED BY <2>5, <2>15, <3>1, <5>1
      <4>3. ShownCards' \in [1 .. n -> ShownType]
        BY <2>15, <3>1
      <4> HIDE DEF card
      <4> QED BY <2>5, <4>1, <4>2, <4>3, AppendIs, LoopTypes
    <3>4. \A c \in DOMAIN ShownCards : ShownCards[c].turn < turn.user
      BY <2>5, <3>1
    <3>5. live \in BOOLEAN
      BY LoopTypes, JobFields DEF Body
    <3>6. Mirrored!Post(turn.user, Handled, live)
      BY <2>4, <2>6, <3>1, <3>2, <3>3, <3>4 DEF Mirrored!Post
    <3> QED BY <2>2, <2>3, <3>5, <3>6 DEF Mirrored!Next
  <2>12. CASE Update("loop")
    <3> DEFINE n == Len(cards)
               live == Locals.body.live
    <3>1. /\ At = "request" /\ DOMAIN cards' = DOMAIN cards /\ n \in DOMAIN cards
          /\ \A c \in DOMAIN cards : c # n => cards'[c] = cards[c]
          /\ cards[n].turn = turn.user
          /\ cards'[n].turn = turn.user /\ cards'[n].evs = turn.evs
          /\ cards'[n].live = live
      BY <2>12, UpdateReplaces DEF MirrorInv
    <3>2. UNCHANGED jsonl
      BY <2>12, LoopUpdates
    <3>3. ShownCards[n].lines \subseteq Mirrored!LinesOf(turn.user, Handled)
      <4>1. RangeOf(cards[n].evs) \subseteq RangeOf(turn.evs)
        BY <3>1, NewestIsPart DEF MirrorInv
      <4> QED BY <2>4, <2>5, <3>1, <4>1
    <3>4. Len(ShownCards) = n /\ ShownCards # << >> /\ ShownCards[n].turn = turn.user
      <4>1. Len(ShownCards) = n
        BY <2>5, LenOfFunction, LoopTypes
      <4>2. n \in DOMAIN ShownCards
        BY <2>5, <3>1
      <4>3. ShownCards # << >>
        BY <4>2
      <4> QED BY <2>5, <3>1, <4>1, <4>3
    <3> DEFINE lines == Mirrored!LinesOf(turn.user, Handled)
    <3>5. ShownCards' = [ShownCards EXCEPT ![n].lines = lines, ![n].live = live]
      <4>1. \A c \in DOMAIN cards : c # n => ShownCards'[c] = ShownCards[c]
        BY <2>5, <2>15, <3>1
      <4>2. ShownCards'[n] = [turn |-> turn.user, lines |-> lines, live |-> live]
        BY <2>4, <2>15, <3>1
      <4>3. ShownCards' \in [1 .. n -> ShownType] /\ ShownCards \in [1 .. n -> ShownType]
        BY <2>5, <2>15, <3>1
      <4>4. lines \in SUBSET Nat /\ live \in BOOLEAN /\ turn.user \in Nat
        <5>1. lines \in SUBSET Nat
          BY <2>2 DEF Mirrored!LinesOf
        <5> QED BY <5>1, LoopTypes, JobFields DEF Body
      <4>5. n \in 1 .. n /\ ShownCards[n].turn = turn.user /\ DOMAIN cards = 1 .. n
        BY <2>5, <3>1, <3>4
      <4>6. n \in Nat /\ ShownCards'[n] = [turn |-> ShownCards[n].turn, lines |-> lines, live |-> live]
            /\ \A c \in 1 .. n : c # n => ShownCards'[c] = ShownCards[c]
        BY <4>1, <4>2, <4>5, LoopTypes
      <4> HIDE DEF lines, live, n
      <4>7. ASSUME NEW F \in [1 .. n -> ShownType], NEW G \in [1 .. n -> ShownType],
                   \A c \in 1 .. n : c # n => G[c] = F[c],
                   G[n] = [turn |-> F[n].turn, lines |-> lines, live |-> live]
            PROVE  G = [F EXCEPT ![n].lines = lines, ![n].live = live]
        <5> DEFINE E == [F EXCEPT ![n].lines = lines, ![n].live = live]
        <5>1. n \in 1 .. n /\ F[n] \in ShownType
          BY <4>5
        <5>2. E \in [1 .. n -> ShownType]
              /\ E[n] = [turn |-> F[n].turn, lines |-> lines, live |-> live]
              /\ \A c \in (1 .. n) \ {n} : E[c] = F[c]
          BY <4>4, <5>1 DEF ShownType
        <5> HIDE DEF E
        <5>3. \A c \in 1 .. n : G[c] = E[c]
          BY <4>7, <5>2
        <5> QED BY <5>2, <5>3 DEF E
      <4> QED BY <4>3, <4>6, <4>7
    <3>6. live \in BOOLEAN
      BY LoopTypes, JobFields DEF Body
    <3>7. Mirrored!Extend(Handled, live)
      <4>1. live \/ lines # {}
        BY <2>6, <3>1
      <4> HIDE DEF live, lines
      <4> QED BY <3>2, <3>3, <3>4, <3>5, <4>1 DEF Mirrored!Extend, lines
    <3> QED BY <2>2, <3>6, <3>7 DEF Mirrored!Next
  <2>13. pc["boot"] = "idle" /\ ~replayed'
    BY DEF BatchInv, Undisturbed
  <2>14. CASE Still
    BY <2>14 DEF Mirrored!vars
  <2> QED BY <2>7, <2>8, <2>9, <2>10, <2>11, <2>12, <2>13, <2>14, LoopSteps
      DEF Coroutine, Feishu
<1>3. TypeOK /\ ~replayed => Undisturbed
  BY DEF TypeOK, Undisturbed
<1> QED BY <1>1, <1>2, <1>3, Mirrors, NoReplay, PTL DEF Spec, ImplementsMirror, Mirrored!Spec
=============================================================================
