--------------------------- MODULE InboundProofs ---------------------------
(***************************************************************************)
(* Inbound for every number of events, every size of the ring, every kind  *)
(* of event source, and every number and mixture of faults.                *)
(***************************************************************************)
EXTENDS Inbound, SequenceTheorems, FiniteSetTheorems, TLAPS

Strokes == {"special", "line", "newline", "enter"}
Unfinished == {"line", "newline"}
InHand == {"accepted", "replay", "download", "reply", "typing"}

\* An event is in hand only after it was accepted, what is typed has keystrokes, and
\* each orphan stands for a stop.
TypeInv ==
    /\ TypeOK
    /\ accepted \in Seq(Nat)
    /\ pane \in Seq([by : Nat, at : Nat, key : Strokes])
    /\ orphans <= faults
    /\ pc \in InHand => accepted # << >>
    /\ pc = "download" => CurrentKind \in Downloads
    /\ pc = "typing" => step <= Len(Script[CurrentKind])

\* As long as every save of the ring succeeded, the ring in memory is the ring on
\* disk, and holds the last Ring events that were accepted.
IsRing(ids) ==
    /\ Len(ids) = IF Len(accepted) <= Ring THEN Len(accepted) ELSE Ring
    /\ \A k \in 1 .. Len(ids) : ids[k] = accepted[Len(accepted) - Len(ids) + k]
RingInv ==
    "fail" \notin happened => seen = seenDisk /\ IsRing(seen) /\ DuplicatesDropped

\* As long as every save of the chat succeeded, a message that was swallowed is
\* known to memory and to the disk.
ChatInv ==
    "fail" \notin happened =>
        /\ swallowed # {} => chat /\ chatDisk
        /\ \A m, n \in swallowed : m = n

\* What is in the input box without Enter is being typed, or nobody will type again,
\* or its exception was caught on the spot.
Excused == kind[EventOf(pane[Len(pane)].by)] \in Guarded
InTheBox == pane # << >> /\ pane[Len(pane)].key \in Unfinished
BoxInv ==
    happened \cap {"stop", "crash"} = {} =>
        /\ InTheBox => \/ pc = "typing" /\ pane[Len(pane)].by = Len(accepted)
                       \/ pc = "dead"
                       \/ Excused
        /\ pc = "down" => pane = << >>
        /\ RemainsAreSafe

IInv == TypeInv /\ RingInv /\ ChatInv /\ BoxInv

-----------------------------------------------------------------------------
(* Sequences.                                                              *)

LEMMA RangeOfSeqOf ==
    ASSUME NEW S, NEW s \in Seq(S)
    PROVE  /\ RangeOf(s) \subseteq S /\ s \in Seq(RangeOf(s))
           /\ \A i \in 1 .. Len(s) : s[i] \in RangeOf(s)
  <1>1. Len(s) \in Nat /\ DOMAIN s = 1 .. Len(s) /\ s \in [1 .. Len(s) -> S]
    BY LenProperties
  <1>2. RangeOf(s) \subseteq S /\ \A i \in 1 .. Len(s) : s[i] \in RangeOf(s)
    BY <1>1 DEF RangeOf
  <1>3. s \in [1 .. Len(s) -> RangeOf(s)]
    BY <1>1, <1>2
  <1> QED BY <1>1, <1>2, <1>3, SeqDef

LEMMA RangeOfAppend ==
    ASSUME NEW S, NEW s \in Seq(S), NEW e \in S
    PROVE  RangeOf(Append(s, e)) = RangeOf(s) \cup {e}
  <1>1. Len(s) \in Nat /\ DOMAIN s = 1 .. Len(s)
    BY LenProperties
  <1>2. DOMAIN Append(s, e) = 1 .. Len(s) + 1
    BY AppendProperties, LenProperties
  <1>3. /\ \A i \in 1 .. Len(s) : Append(s, e)[i] = s[i]
        /\ Append(s, e)[Len(s) + 1] = e
    BY AppendProperties
  <1> QED BY <1>1, <1>2, <1>3 DEF RangeOf

\* What LastOf returns: the end of the sequence.
LEMMA LastOfProperties ==
    ASSUME NEW S, NEW s \in Seq(S), NEW n \in Nat
    PROVE  /\ LastOf(s, n) \in Seq(S)
           /\ Len(LastOf(s, n)) = IF Len(s) <= n THEN Len(s) ELSE n
           /\ \A k \in 1 .. Len(LastOf(s, n)) :
                  LastOf(s, n)[k] = s[Len(s) - Len(LastOf(s, n)) + k]
           /\ Len(s) <= n => LastOf(s, n) = s
  <1>1. Len(s) \in Nat /\ \A i \in 1 .. Len(s) : s[i] \in S
    BY LenProperties
  <1>2. CASE Len(s) <= n
    BY <1>1, <1>2 DEF LastOf
  <1>3. CASE Len(s) > n
    <2> DEFINE m == Len(s) - n + 1
    <2>1. m \in Int /\ Len(s) \in Int /\ \A i \in m .. Len(s) : s[i] \in S
      BY <1>1, <1>3
    <2>2. LastOf(s, n) = SubSeq(s, m, Len(s))
      BY <1>1, <1>3 DEF LastOf
    <2>3. /\ SubSeq(s, m, Len(s)) \in Seq(S)
          /\ Len(SubSeq(s, m, Len(s))) = IF m <= Len(s) THEN Len(s) - m + 1 ELSE 0
          /\ \A i \in 1 .. Len(s) - m + 1 : SubSeq(s, m, Len(s))[i] = s[m + i - 1]
      BY <2>1, SubSeqProperties
    <2> HIDE DEF m
    <2>4. m = Len(s) - n + 1
      BY DEF m
    <2> QED BY <1>1, <1>3, <2>2, <2>3, <2>4
  <1> QED BY <1>1, <1>2, <1>3

\* The end of a sequence without repetitions has none.
LEMMA LastOfDistinct ==
    ASSUME NEW S, NEW s \in Seq(S), NEW n \in Nat, Distinct(s)
    PROVE  Distinct(LastOf(s, n))
  <1> DEFINE t == LastOf(s, n)
             d == Len(s) - Len(t)
  <1>1. Len(s) \in Nat /\ DOMAIN s = 1 .. Len(s) /\ DOMAIN t = 1 .. Len(t)
        /\ Len(t) \in Nat /\ Len(t) <= Len(s)
    BY LenProperties, LastOfProperties
  <1>2. \A k \in DOMAIN t : t[k] = s[d + k] /\ d + k \in DOMAIN s
    BY <1>1, LastOfProperties
  <1>3. d \in Int
    BY <1>1
  <1> HIDE DEF d, t
  <1>4. \A i, j \in DOMAIN t : t[i] = t[j] => i = j
    BY <1>1, <1>2, <1>3 DEF Distinct
  <1> QED BY <1>4 DEF Distinct, t

LEMMA AppendDistinct ==
    ASSUME NEW S, NEW s \in Seq(S), NEW e \in S, Distinct(s), e \notin RangeOf(s)
    PROVE  Distinct(Append(s, e))
  <1>1. Len(s) \in Nat /\ DOMAIN s = 1 .. Len(s) /\ DOMAIN Append(s, e) = 1 .. Len(s) + 1
    BY LenProperties, AppendProperties
  <1>2. /\ \A i \in 1 .. Len(s) : Append(s, e)[i] = s[i]
        /\ Append(s, e)[Len(s) + 1] = e
    BY AppendProperties
  <1> QED BY <1>1, <1>2 DEF Distinct, RangeOf

\* A sequence without repetitions has as many members as elements.
LEMMA DistinctCardinality ==
    ASSUME NEW S, NEW s \in Seq(S)
    PROVE  /\ IsFiniteSet(RangeOf(s))
           /\ Distinct(s) => Cardinality(RangeOf(s)) = Len(s)
  <1> DEFINE D == 1 .. Len(s)
  <1>1. Len(s) \in Nat /\ DOMAIN s = D /\ s \in [D -> RangeOf(s)]
    <2>1. Len(s) \in Nat /\ DOMAIN s = D /\ s \in [D -> S]
      BY LenProperties
    <2> QED BY <2>1, RangeOfSeqOf
  <1>2. IsFiniteSet(D) /\ Cardinality(D) = Len(s)
    BY <1>1, FS_Interval
  <1>3. s \in Surjection(D, RangeOf(s))
    BY <1>1 DEF Surjection, RangeOf
  <1>4. Distinct(s) => s \in Injection(D, RangeOf(s))
    BY <1>1 DEF Distinct, Injection, IsInjective
  <1> HIDE DEF D
  <1> QED BY <1>2, <1>3, <1>4, FS_Surjection

-----------------------------------------------------------------------------
(* Keystrokes.                                                             *)

\* A script ends with a key or with Enter, and only three kinds have none.
LEMMA Scripts ==
    ASSUME NEW k \in Messages \cup Clicks
    PROVE  /\ Script[k] \in Seq(Strokes) /\ Len(Script[k]) \in Nat
           /\ k \notin {"card", "skipped", "other"} => Len(Script[k]) > 0
           /\ Len(Script[k]) > 0 => Script[k][Len(Script[k])] \notin Unfinished
  <1>1. CASE k \in {"key", "press"}
    <2>1. Script[k] = <<"special">>
      BY <1>1 DEF Script, Messages, Clicks
    <2> QED BY <1>1, <2>1 DEF Strokes, Unfinished
  <1>2. CASE k = "lines"
    <2>1. Script[k] = <<"line", "newline", "line", "enter">>
      BY <1>2 DEF Script, Messages, Clicks
    <2> QED BY <1>2, <2>1 DEF Strokes, Unfinished
  <1>3. CASE k \in {"card", "skipped", "other"}
    <2>1. Script[k] = << >>
      BY <1>3 DEF Script, Messages, Clicks
    <2> QED BY <1>3, <2>1
  <1>4. CASE k \notin {"key", "press", "lines", "card", "skipped", "other"}
    <2>1. Script[k] = <<"line", "enter">>
      BY <1>4 DEF Script, Messages, Clicks
    <2> QED BY <1>4, <2>1 DEF Strokes, Unfinished
  <1> QED BY <1>1, <1>2, <1>3, <1>4
-----------------------------------------------------------------------------
(* Types.                                                                  *)

Rings(ids) == ids \in Seq(RangeOf(accepted)) /\ Distinct(ids) /\ Len(ids) <= Ring

\* What TypeInv says of the event in hand.
LEMMA InHandTypes ==
    ASSUME TypeInv
    PROVE  /\ Kinds \subseteq Messages \cup Clicks
           /\ Len(accepted) \in Nat /\ DOMAIN accepted = 1 .. Len(accepted)
           /\ delivered \subseteq DOMAIN kind /\ DOMAIN kind = 1 .. Len(kind) /\ Len(kind) \in Nat
           /\ \A i \in DOMAIN accepted : accepted[i] \in delivered
           /\ \A e \in DOMAIN kind : kind[e] \in Kinds
           /\ accepted # << >> => /\ Len(accepted) \in DOMAIN accepted
                                  /\ Current \in delivered
                                  /\ CurrentKind \in Messages \cup Clicks
  <1>1. Kinds \subseteq Messages \cup Clicks
    BY KindsAssumption
  <1>2. Len(accepted) \in Nat /\ DOMAIN accepted = 1 .. Len(accepted)
    BY LenProperties DEF TypeInv
  <1>3. /\ delivered \subseteq DOMAIN kind /\ DOMAIN kind = 1 .. Len(kind) /\ Len(kind) \in Nat
        /\ \A e \in DOMAIN kind : kind[e] \in Kinds
    BY LenProperties DEF TypeInv, TypeOK
  <1>4. \A i \in DOMAIN accepted : accepted[i] \in delivered
    BY DEF TypeInv, TypeOK, RangeOf
  <1>5. accepted # << >> => Len(accepted) \in DOMAIN accepted
    BY <1>2, EmptySeq DEF TypeInv
  <1> QED BY <1>1, <1>2, <1>3, <1>4, <1>5 DEF Current, CurrentKind

\* Going to another place of the pipeline with nothing new in hand.
LEMMA BecomeType ==
    ASSUME TypeInv, NEW l \in {"down", "idle", "accepted", "replay", "download",
                               "reply", "typing", "dead"}, Become(l)
    PROVE  /\ pc' \in {"down", "idle", "accepted", "replay", "download", "reply",
                       "typing", "dead"}
           /\ step' \in Nat \ {0} /\ pc' = l /\ step' = 1
  BY DEF Become

LEMMA FaultType ==
    ASSUME TypeInv, NEW f, UNCHANGED wrong \/ Fault(f)
    PROVE  /\ faults' \in 0 .. MaxFaults /\ happened' \subseteq Faults
           /\ orphans <= faults' /\ happened \subseteq happened'
           /\ happened' = happened \/ happened' = happened \cup {f}
           /\ Fault(f) => orphans + 1 <= faults' /\ f \in happened'
  <1>1. MaxFaults \in Nat /\ orphans \in Nat /\ faults \in Nat /\ faults <= MaxFaults
    BY BoundsAssumption DEF TypeInv, TypeOK
  <1> QED BY <1>1 DEF TypeInv, TypeOK, Fault, wrong

\* A step of the pipeline that accepts nothing, types nothing and swallows nothing.
LEMMA MovePreserves ==
    ASSUME TypeInv, NEW l \in {"idle", "replay", "download", "reply", "typing", "dead"},
           NEW f, Become(l), UNCHANGED wrong \/ Fault(f), pc \in InHand,
           l = "download" => CurrentKind \in Downloads,
           l = "typing" => CurrentKind \notin {"card", "skipped", "other"},
           UNCHANGED <<feishu, source, memory, saved, history, pane>>
    PROVE  TypeInv'
  <1> USE DEF feishu, source, memory, saved, history
  <1>1. accepted # << >> /\ CurrentKind \in Messages \cup Clicks
    BY InHandTypes DEF TypeInv
  <1>2. pc' = "typing" => step' <= Len(Script[CurrentKind])
    <2>1. l = "typing" => Len(Script[CurrentKind]) > 0 /\ Len(Script[CurrentKind]) \in Nat
      BY <1>1, Scripts
    <2> QED BY <2>1 DEF Become
  <1>3. CurrentKind' = CurrentKind
    BY DEF CurrentKind, Current
  <1>4. TypeOK'
    BY BecomeType, FaultType DEF TypeInv, TypeOK
  <1>5. orphans' <= faults'
    BY FaultType
  <1> QED BY <1>1, <1>2, <1>3, <1>4, <1>5 DEF TypeInv, Become

LEMMA AcceptPreserves == ASSUME TypeInv, Accept PROVE TypeInv'
  <1> DEFINE e == Head(queue)
             grown == Append(seen, e)
             R == RangeOf(accepted) \cup {e}
  <1> USE DEF feishu
  <1>1. /\ queue \in Seq(delivered) /\ queue # << >> /\ e \notin RangeOf(seen)
        /\ queue' = Tail(queue) /\ accepted' = Append(accepted, e)
        /\ seen' = LastOf(grown, Ring) /\ pc' = "accepted"
        /\ UNCHANGED <<kind, delivered, again, socket, connected, orphans, step, chat,
                       chatDisk, swallowed, pane>>
        /\ (seenDisk' = seen' /\ UNCHANGED wrong) \/ (Fault("fail") /\ seenDisk' = seenDisk)
    BY DEF Accept, TypeInv, TypeOK, Evicted, Persist
  <1>2. e \in delivered /\ queue' \in Seq(delivered) /\ e \in Nat
    <2>1. e \in delivered /\ Tail(queue) \in Seq(delivered)
      BY <1>1, HeadTailProperties
    <2> QED BY <1>1, <2>1, InHandTypes
  <1>3. /\ RangeOf(accepted') = R /\ accepted' \in Seq(Nat)
        /\ Len(accepted') = Len(accepted) + 1
    BY <1>1, <1>2, RangeOfAppend, AppendProperties DEF TypeInv
  <1>4. Rings(seen) /\ Rings(seenDisk)
    BY DEF TypeInv, TypeOK, Rings
  <1>5. seen \in Seq(R) /\ seenDisk \in Seq(R) /\ e \in R
    BY <1>4, SeqMonotonic DEF Rings
  <1>6. grown \in Seq(R) /\ Distinct(grown)
    BY <1>1, <1>4, <1>5, AppendProperties, AppendDistinct DEF Rings
  <1>7. seen' \in Seq(R) /\ Len(seen') <= Ring /\ Distinct(seen')
    <2>1. Ring \in Nat /\ Len(grown) \in Nat
      BY <1>6, RingAssumption, LenProperties
    <2>2. seen' \in Seq(R) /\ Len(seen') = IF Len(grown) <= Ring THEN Len(grown) ELSE Ring
      BY <1>1, <1>6, <2>1, LastOfProperties
    <2>3. Distinct(seen')
      BY <1>1, <1>6, <2>1, LastOfDistinct
    <2> QED BY <2>1, <2>2, <2>3
  <1>8. \A ids \in {seen', seenDisk'} :
            ids \in Seq(RangeOf(accepted')) /\ Distinct(ids) /\ Len(ids) <= Ring
    BY <1>1, <1>3, <1>4, <1>5, <1>7 DEF Rings
  <1>9. \A d \in DOMAIN accepted : d \in DOMAIN accepted'
    <2>1. DOMAIN accepted' = 1 .. Len(accepted) + 1
      BY <1>3, LenProperties
    <2> QED BY <2>1, InHandTypes
  <1>10. RangeOf(accepted') \subseteq delivered
    BY <1>2, <1>3 DEF TypeInv, TypeOK
  <1>11. faults' \in 0 .. MaxFaults /\ happened' \subseteq Faults /\ orphans <= faults'
    BY <1>1, FaultType
  <1>12. TypeOK'
    BY <1>1, <1>2, <1>8, <1>9, <1>10, <1>11 DEF TypeInv, TypeOK
  <1>13. accepted' # << >> /\ orphans' <= faults'
    <2>1. accepted \in Seq(Nat)
      BY DEF TypeInv
    <2>2. Append(accepted, e) # << >>
      BY <1>2, <2>1, AppendProperties
    <2> QED BY <1>1, <1>11, <2>2
  <1> QED BY <1>1, <1>3, <1>12, <1>13 DEF TypeInv

LEMMA TypePreserves == ASSUME TypeInv, Type PROVE TypeInv'
  <1> USE DEF feishu, source, memory, saved, history, wrong
  <1>1. /\ accepted # << >> /\ CurrentKind \in Messages \cup Clicks
        /\ Len(accepted) \in Nat /\ step \in Nat \ {0} /\ step <= Len(Script[CurrentKind])
    BY InHandTypes DEF TypeInv, TypeOK, Type, InHand
  <1>2. Script[CurrentKind][step] \in Strokes /\ Len(Script[CurrentKind]) \in Nat
    <2>1. Script[CurrentKind] \in Seq(Strokes) /\ Len(Script[CurrentKind]) \in Nat
      BY <1>1, Scripts
    <2>2. step \in 1 .. Len(Script[CurrentKind])
      BY <1>1, <2>1
    <2> QED BY <2>1, <2>2, ElementOfSeq
  <1>3. Key \in [by : Nat, at : Nat, key : Strokes] /\ Key.by = Len(accepted)
    BY <1>1, <1>2 DEF Key
  <1>4. /\ pane' \in Seq([by : Nat, at : Nat, key : Strokes])
        /\ \A i \in DOMAIN pane' : (i \in DOMAIN pane /\ pane'[i] = pane[i]) \/ pane'[i] = Key
    <2>1. pane' = Append(pane, Key)
      BY DEF Type
    <2>2. pane \in Seq([by : Nat, at : Nat, key : Strokes])
      BY DEF TypeInv
    <2>3. /\ pane' \in Seq([by : Nat, at : Nat, key : Strokes])
          /\ Len(pane') = Len(pane) + 1 /\ pane'[Len(pane) + 1] = Key
          /\ \A i \in 1 .. Len(pane) : pane'[i] = pane[i]
      BY <1>3, <2>1, <2>2, AppendProperties
    <2>4. DOMAIN pane' = 1 .. Len(pane) + 1 /\ DOMAIN pane = 1 .. Len(pane) /\ Len(pane) \in Nat
      BY <2>2, <2>3, LenProperties
    <2> QED BY <2>3, <2>4
  <1>5. \A i \in DOMAIN pane' : pane'[i].by \in DOMAIN accepted
    BY <1>1, <1>3, <1>4, InHandTypes DEF TypeInv, TypeOK
  <1>6. UNCHANGED <<feishu, source, memory, saved, history, wrong>>
    BY DEF Type
  <1>7. /\ pc' \in {"idle", "typing"} /\ step' \in Nat \ {0}
        /\ pc' = "typing" => step' <= Len(Script[CurrentKind])
    BY <1>1, <1>2 DEF Type, Become, Done
  <1>8. TypeOK'
    BY <1>5, <1>6, <1>7 DEF TypeInv, TypeOK
  <1>9. CurrentKind' = CurrentKind
    BY <1>6 DEF CurrentKind, Current
  <1> QED BY <1>1, <1>4, <1>6, <1>7, <1>8, <1>9 DEF TypeInv

\* The life of the pipeline: whoever goes down keeps what it has learnt, and only a
\* stop makes an orphan.
LEMMA LifecyclePreserves == ASSUME TypeInv, Lifecycle PROVE TypeInv'
  <1> USE DEF feishu, source, memory, saved, history
  <1>1. CASE Start
    <2>1. pc' = "idle" /\ step' = 1 /\ connected' = TRUE /\ queue' = << >>
      BY <1>1 DEF Start, Become
    <2>2. seen' \in Seq(RangeOf(accepted)) /\ Distinct(seen') /\ Len(seen') <= Ring
      <3>1. seen' = LastOf(seenDisk, Ring) /\ Rings(seenDisk) /\ Ring \in Nat
        BY <1>1, RingAssumption DEF Start, TypeInv, TypeOK, Rings
      <3> QED BY <3>1, LastOfProperties, LastOfDistinct DEF Rings
    <2>3. TypeOK'
      BY <1>1, <2>1, <2>2 DEF Start, TypeInv, TypeOK, wrong
    <2> QED BY <1>1, <2>1, <2>3 DEF Start, TypeInv, InHand, wrong
  <1>2. CASE SaveState
    <2>1. TypeOK'
      BY <1>2 DEF SaveState, TypeInv, TypeOK, wrong
    <2> QED BY <1>2, <2>1 DEF SaveState, TypeInv, CurrentKind, Current, wrong
  <1>3. CASE SourceEnds
    <2>1. faults' \in 0 .. MaxFaults /\ happened' \subseteq Faults /\ orphans <= faults'
      BY <1>3, FaultType DEF SourceEnds
    <2>2. TypeOK'
      BY <1>3, <2>1 DEF SourceEnds, TypeInv, TypeOK
    <2> QED BY <1>3, <2>1, <2>2 DEF SourceEnds, TypeInv, CurrentKind, Current
  <1>4. CASE Stop
    <2>1. /\ faults' \in 0 .. MaxFaults /\ happened' \subseteq Faults
          /\ orphans <= faults' /\ orphans + 1 <= faults' /\ MaxFaults \in Nat
      BY <1>4, FaultType, BoundsAssumption DEF Stop
    <2>2. orphans' \in 0 .. MaxFaults /\ orphans' <= faults'
      BY <1>4, <2>1 DEF Stop, TypeInv, TypeOK
    <2>3. pc' = "down" /\ step' = 1 /\ queue' = << >>
      BY <1>4 DEF Stop, Become
    <2>4. TypeOK'
      <3>1. queue' \in Seq(delivered) /\ connected' \in BOOLEAN
        BY <1>4, <2>3, EmptySeq DEF Stop
      <3>2. /\ TypeOK /\ chatDisk' \in BOOLEAN
            /\ UNCHANGED <<kind, delivered, again, socket, seen, chat, seenDisk,
                           accepted, swallowed, pane>>
        BY <1>4 DEF Stop, TypeInv, TypeOK
      <3> QED BY <2>1, <2>2, <2>3, <3>1, <3>2 DEF TypeOK
    <2> QED BY <1>4, <2>2, <2>3, <2>4 DEF Stop, TypeInv, InHand
  <1>5. CASE Crash
    <2>1. faults' \in 0 .. MaxFaults /\ happened' \subseteq Faults /\ MaxFaults \in Nat
      BY <1>5, FaultType, BoundsAssumption DEF Crash
    <2>2. orphans' \in 0 .. MaxFaults /\ orphans' <= faults'
      BY <1>5, <2>1 DEF Crash
    <2>3. pc' = "down" /\ step' = 1 /\ queue' = << >>
      BY <1>5 DEF Crash, Become
    <2>4. TypeOK'
      <3>1. queue' \in Seq(delivered) /\ connected' \in BOOLEAN
        BY <1>5, <2>3, EmptySeq DEF Crash
      <3>2. /\ TypeOK /\ chatDisk' \in BOOLEAN
            /\ UNCHANGED <<kind, delivered, again, socket, seen, chat, seenDisk,
                           accepted, swallowed, pane>>
        BY <1>5 DEF Crash, TypeInv, TypeOK
      <3> QED BY <2>1, <2>2, <2>3, <3>1, <3>2 DEF TypeOK
    <2> QED BY <1>5, <2>2, <2>3, <2>4 DEF Crash, TypeInv, InHand
  <1> QED BY <1>1, <1>2, <1>3, <1>4, <1>5 DEF Lifecycle

\* The user makes an event; Feishu delivers one.
LEMMA EnvironmentPreserves == ASSUME TypeInv, User \/ Feishu PROVE TypeInv'
  <1> USE DEF source, memory, saved, history, wrong
  <1>1. ASSUME NEW k \in Kinds, Make(k) PROVE TypeInv'
    <2>1. /\ kind' \in Seq(Kinds) /\ Len(kind') = Len(kind) + 1 /\ Len(kind) \in Nat
          /\ \A e \in 1 .. Len(kind) : kind'[e] = kind[e]
      BY <1>1, AppendProperties, LenProperties DEF Make, TypeInv, TypeOK
    <2>2. DOMAIN kind' = 1 .. Len(kind) + 1 /\ DOMAIN kind = 1 .. Len(kind)
      BY <2>1, LenProperties DEF TypeInv, TypeOK
    <2>3. Len(kind') <= MaxEvents
      BY <1>1, <2>1, BoundsAssumption DEF Make
    <2>4. DOMAIN kind \subseteq DOMAIN kind'
      BY <2>1, <2>2
    <2>5. TypeOK'
      BY <1>1, <2>1, <2>3, <2>4 DEF Make, TypeInv, TypeOK
    <2>6. accepted # << >> => CurrentKind' = CurrentKind
      BY <1>1, <2>1, <2>2, InHandTypes DEF Make, CurrentKind, Current
    <2> QED BY <1>1, <2>5, <2>6 DEF Make, TypeInv, InHand
  <1>2. ASSUME NEW e \in DOMAIN kind, Deliver(e) \/ Misdeliver(e) PROVE TypeInv'
    <2>1. /\ delivered' = delivered \cup {e} /\ again' \in 0 .. MaxAgain
          /\ UNCHANGED <<kind, socket, connected, orphans, pc, step, memory, saved,
                         history, pane, wrong>>
      <3>1. MaxAgain \in Nat /\ again \in Nat /\ again <= MaxAgain
        BY BoundsAssumption DEF TypeInv, TypeOK
      <3> QED BY <1>2, <3>1 DEF Deliver, Misdeliver, Push
    <2>2. queue \in Seq(delivered') /\ e \in delivered'
      BY <2>1, SeqMonotonic DEF TypeInv, TypeOK
    <2>3. queue' \in Seq(delivered')
      BY <1>2, <2>2, AppendProperties DEF Deliver, Misdeliver
    <2>4. TypeOK'
      BY <2>1, <2>3 DEF TypeInv, TypeOK
    <2> QED BY <2>1, <2>4 DEF TypeInv, CurrentKind, Current
  <1> QED BY <1>1, <1>2 DEF User, Feishu

LEMMA HandlePreserves == ASSUME TypeInv, HandleEvent \/ TypeFails PROVE TypeInv'
  <1> USE DEF feishu, source, memory, saved, history
  <1>1. CASE Drop
    <2>1. queue' \in Seq(delivered)
      BY <1>1, HeadTailProperties DEF Drop, TypeInv, TypeOK
    <2>2. TypeOK'
      BY <1>1, <2>1 DEF Drop, TypeInv, TypeOK, wrong
    <2> QED BY <1>1, <2>2 DEF Drop, TypeInv, CurrentKind, Current, wrong
  <1>2. CASE Accept
    BY <1>2, AcceptPreserves
  <1>3. CASE Bootstrap
    <2>1. pc \in InHand /\ accepted # << >> /\ Len(accepted) \in DOMAIN accepted
      BY <1>3, InHandTypes DEF Bootstrap, TypeInv, InHand
    <2>2. pc' = "replay" /\ step' = 1
      BY <1>3 DEF Bootstrap, Become
    <2>3. /\ chat' \in BOOLEAN /\ chatDisk' \in BOOLEAN
          /\ faults' \in 0 .. MaxFaults /\ happened' \subseteq Faults /\ orphans <= faults'
      BY <1>3, FaultType DEF Bootstrap, KnowChat, TypeInv, TypeOK
    <2>4. swallowed' \subseteq DOMAIN accepted
      BY <1>3, <2>1 DEF Bootstrap, TypeInv, TypeOK
    <2>5. TypeOK'
      BY <1>3, <2>2, <2>3, <2>4 DEF Bootstrap, TypeInv, TypeOK
    <2> QED BY <1>3, <2>1, <2>2, <2>3, <2>5 DEF Bootstrap, TypeInv
  <1>4. CASE Ignore
    BY <1>4, MovePreserves DEF Ignore, InHand
  <1>5. CASE Prepare
    <2>1. PICK l \in {"reply", "download"} : Become(l)
      BY <1>5 DEF Prepare
    <2> QED BY <1>5, <2>1, MovePreserves DEF Prepare, InHand
  <1>6. CASE StartTyping
    BY <1>6, MovePreserves DEF StartTyping, InHand
  <1>7. CASE Downloaded
    <2>1. PICK l \in {"typing", "idle"} :
              Become(l) /\ (UNCHANGED wrong \/ Fault("fail"))
      BY <1>7 DEF Downloaded
    <2>2. CurrentKind \in Downloads
      BY <1>7 DEF Downloaded, TypeInv
    <2> QED BY <1>7, <2>1, <2>2, MovePreserves DEF Downloaded, InHand, Downloads
  <1>8. CASE Replied
    BY <1>8, MovePreserves DEF Replied, InHand
  <1>9. CASE Replayed
    <2>1. PICK l \in {"idle", "dead"} : Become(l) /\ (UNCHANGED wrong \/ Fault("fail"))
      BY <1>9 DEF Replayed
    <2> QED BY <1>9, <2>1, MovePreserves DEF Replayed, InHand
  <1>10. CASE Type
    BY <1>10, TypePreserves
  <1>11. CASE RunDry
    <2>1. pc' = "dead" /\ step' = 1
      BY <1>11 DEF RunDry, Become
    <2>2. TypeOK'
      BY <1>11, <2>1 DEF RunDry, TypeInv, TypeOK, wrong
    <2> QED BY <1>11, <2>1, <2>2 DEF RunDry, TypeInv, InHand, wrong
  <1>12. CASE Abandon
    <2>1. TypeOK'
      <3>1. queue' \in Seq(delivered)
        BY <1>12, EmptySeq DEF Abandon
      <3> QED BY <1>12, <3>1 DEF Abandon, TypeInv, TypeOK, wrong
    <2> QED BY <1>12, <2>1 DEF Abandon, TypeInv, CurrentKind, Current, wrong
  <1>13. CASE TypeFails
    <2>1. PICK l \in {"idle", "dead"} : Become(l)
      BY <1>13 DEF TypeFails, AfterFailure
    <2> QED BY <1>13, <2>1, MovePreserves DEF TypeFails, InHand
  <1> QED BY <1>1, <1>2, <1>3, <1>4, <1>5, <1>6, <1>7, <1>8, <1>9, <1>10, <1>11, <1>12,
             <1>13 DEF HandleEvent

LEMMA TypeInvariant == Spec => []TypeInv
<1>1. Init => TypeInv
  <2> SUFFICES ASSUME Init PROVE TypeInv
    OBVIOUS
  <2>1. /\ kind \in Seq(Kinds) /\ queue \in Seq(delivered) /\ seen \in Seq(RangeOf(accepted))
        /\ accepted \in Seq(Nat) /\ pane \in Seq([by : Nat, at : Nat, key : Strokes])
        /\ Len(kind) = 0 /\ Len(seen) = 0 /\ seenDisk = seen
    BY EmptySeq DEF Init
  <2>2. 0 \in 0 .. MaxFaults /\ 0 \in 0 .. MaxAgain /\ 0 <= MaxEvents /\ 0 <= Ring
    BY BoundsAssumption, RingAssumption
  <2>3. /\ DOMAIN seen = {} /\ DOMAIN pane = {} /\ RangeOf(accepted) = {}
        /\ chat \in BOOLEAN /\ chatDisk \in BOOLEAN
    BY ChatsAssumption DEF Init, RangeOf
  <2>4. TypeOK
    <3>1. \A ids \in {seen, seenDisk} :
              ids \in Seq(RangeOf(accepted)) /\ Distinct(ids) /\ Len(ids) <= Ring
      BY <2>1, <2>2, <2>3 DEF Distinct
    <3>2. /\ socket \in Sockets /\ connected \in BOOLEAN /\ orphans = 0 /\ faults = 0 /\ again = 0
          /\ delivered = {} /\ happened = {} /\ swallowed = {} /\ pc = "down" /\ step = 1
      BY DEF Init
    <3> QED BY <2>1, <2>2, <2>3, <3>1, <3>2 DEF TypeOK
  <2> QED BY <2>1, <2>2, <2>4 DEF Init, TypeInv, InHand
<1>2. TypeInv /\ [Next]_vars => TypeInv'
  <2> SUFFICES ASSUME TypeInv, [Next]_vars PROVE TypeInv'
    OBVIOUS
  <2>1. CASE UNCHANGED vars
    BY <2>1 DEF vars, feishu, source, memory, saved, history, wrong, TypeInv, TypeOK,
         CurrentKind, Current
  <2> QED BY <2>1, LifecyclePreserves, EnvironmentPreserves, HandlePreserves DEF Next
<1> QED BY <1>1, <1>2, PTL DEF Spec

\* Every variable has its type, the ring holds an id once and no more than it may.
THEOREM TypeCorrect == Spec => []TypeOK
<1>1. TypeInv => TypeOK
  BY DEF TypeInv
<1> QED BY <1>1, TypeInvariant, PTL

-----------------------------------------------------------------------------
(* The ring.                                                               *)

\* What has gone wrong is remembered, and only two actions touch the ring.
LEMMA RingSteps ==
    ASSUME [Next]_vars
    PROVE  /\ happened \subseteq happened'
           /\ Accept \/ Start \/ UNCHANGED <<seen, seenDisk, accepted>>
  BY DEF vars, Next, User, Make, Feishu, Deliver, Misdeliver, Push, HandleEvent, Drop,
         Accept, Bootstrap, Ignore, Prepare, StartTyping, Downloaded, Replied, Replayed,
         Type, RunDry, Abandon, TypeFails, Lifecycle, Start, SaveState, SourceEnds, Stop,
         Crash, Fault, feishu, source, memory, saved, history, wrong

\* The events accepted between two places.
Between(i, j) == {accepted[n] : n \in i + 1 .. j - 1}

\* The ring of the events accepted so far goes on to be their ring.
LEMMA RingAppend ==
    ASSUME TypeInv, IsRing(seen), NEW e \in Nat, accepted' = Append(accepted, e),
           seen' = LastOf(Append(seen, e), Ring)
    PROVE  IsRing(seen)'
  <1> DEFINE L == Len(accepted)
             m == Len(seen)
             grown == Append(seen, e)
             k0 == Len(seen')
  <1>1. /\ L \in Nat /\ Ring \in Nat /\ Ring > 0 /\ m \in Nat
        /\ m = IF L <= Ring THEN L ELSE Ring
        /\ \A k \in 1 .. m : seen[k] = accepted[L - m + k]
    <2>1. L \in Nat /\ Ring \in Nat /\ Ring > 0
      BY RingAssumption, InHandTypes
    <2> QED BY <2>1 DEF IsRing
  <1>2. /\ Len(accepted') = L + 1 /\ accepted'[L + 1] = e
        /\ \A i \in 1 .. L : accepted'[i] = accepted[i]
    BY AppendProperties DEF TypeInv
  <1>3. seen \in Seq(Nat)
    BY SeqMonotonic, RangeOfSeqOf DEF TypeInv, TypeOK
  <1>4. /\ grown \in Seq(Nat) /\ Len(grown) = m + 1 /\ grown[m + 1] = e
        /\ \A i \in 1 .. m : grown[i] = seen[i]
    BY <1>3, AppendProperties
  <1>5. /\ k0 = IF m + 1 <= Ring THEN m + 1 ELSE Ring
        /\ \A k \in 1 .. k0 : seen'[k] = grown[m + 1 - k0 + k]
    <2>1. grown \in Seq(Nat) /\ Ring \in Nat /\ seen' = LastOf(grown, Ring)
      BY <1>1, <1>4
    <2>2. Len(grown) = m + 1 /\ m \in Nat
      BY <1>1, <1>4
    <2> HIDE DEF grown, m
    <2>3. /\ Len(LastOf(grown, Ring)) = IF Len(grown) <= Ring THEN Len(grown) ELSE Ring
          /\ \A k \in 1 .. Len(LastOf(grown, Ring)) :
                 LastOf(grown, Ring)[k] = grown[Len(grown) - Len(LastOf(grown, Ring)) + k]
      BY <2>1, LastOfProperties
    <2> QED BY <2>1, <2>2, <2>3
  <1> HIDE DEF L, m, grown, k0
  <1>6. k0 = IF L + 1 <= Ring THEN L + 1 ELSE Ring
    BY <1>1, <1>5
  <1>7. ASSUME NEW k \in 1 .. k0 PROVE seen'[k] = accepted'[L + 1 - k0 + k]
    <2>1. k0 \in Nat /\ k \in Nat /\ k <= k0 /\ k0 <= m + 1 /\ m <= L /\ m + 1 - k0 \in Nat
      BY <1>1, <1>5
    <2>2. CASE k = k0
      <3>1. m + 1 - k0 + k = m + 1 /\ L + 1 - k0 + k = L + 1
        BY <1>1, <2>1, <2>2
      <3>2. seen'[k] = grown[m + 1]
        BY <1>5, <3>1
      <3> QED BY <1>2, <1>4, <3>1, <3>2
    <2>3. CASE k < k0
      <3>1. m + 1 - k0 + k \in 1 .. m /\ L - m + (m + 1 - k0 + k) = L + 1 - k0 + k
        BY <1>1, <2>1, <2>3
      <3>2. seen'[k] = seen[m + 1 - k0 + k]
        BY <1>4, <1>5, <3>1
      <3>3. seen[m + 1 - k0 + k] = accepted[L + 1 - k0 + k]
        BY <1>1, <3>1
      <3>4. L + 1 - k0 + k \in 1 .. L
        BY <1>1, <2>1, <2>3, <3>1
      <3> QED BY <1>2, <3>2, <3>3, <3>4
    <2>4. k = k0 \/ k < k0
      BY <2>1
    <2> QED BY <2>2, <2>3, <2>4
  <1> QED BY <1>2, <1>6, <1>7 DEF IsRing, L, k0

\* An event that is not in the ring was accepted before all the events that are.
LEMMA OutOfRing ==
    ASSUME TypeInv, IsRing(seen), NEW i \in DOMAIN accepted, accepted[i] \notin RangeOf(seen)
    PROVE  /\ i <= Len(accepted) - Ring
           /\ Cardinality({accepted[n] : n \in i + 1 .. Len(accepted)}) >= Ring
  <1> DEFINE L == Len(accepted)
             m == Len(seen)
             E == {accepted[n] : n \in i + 1 .. L}
  <1>1. /\ L \in Nat /\ Ring \in Nat /\ Ring > 0 /\ m \in Nat
        /\ m = IF L <= Ring THEN L ELSE Ring
        /\ \A k \in 1 .. m : seen[k] = accepted[L - m + k]
        /\ i \in 1 .. L /\ DOMAIN accepted = 1 .. L /\ DOMAIN seen = 1 .. m
    <2>1. L \in Nat /\ Ring \in Nat /\ Ring > 0 /\ DOMAIN accepted = 1 .. L
      BY RingAssumption, InHandTypes
    <2>2. DOMAIN seen = 1 .. m
      BY LenProperties DEF TypeInv, TypeOK
    <2> QED BY <2>1, <2>2 DEF IsRing
  <1> HIDE DEF L, m
  <1>2. i <= L - m
    <2>1. ASSUME i > L - m PROVE FALSE
      <3>1. i - (L - m) \in 1 .. m /\ L - m + (i - (L - m)) = i
        BY <1>1, <2>1
      <3>2. seen[i - (L - m)] = accepted[i]
        BY <1>1, <3>1
      <3> QED BY <1>1, <3>1, <3>2 DEF RangeOf
    <2> QED BY <1>1, <2>1
  <1>3. m = Ring
    BY <1>1, <1>2
  <1>4. RangeOf(seen) \subseteq E
    <2>1. ASSUME NEW k \in 1 .. m PROVE seen[k] \in E
      <3>1. L - m + k \in i + 1 .. L /\ seen[k] = accepted[L - m + k]
        BY <1>1, <1>2
      <3> QED BY <3>1
    <2> QED BY <1>1, <2>1 DEF RangeOf
  <1>5. E \subseteq RangeOf(accepted)
    BY <1>1 DEF RangeOf
  <1>6. IsFiniteSet(RangeOf(accepted)) /\ Cardinality(RangeOf(seen)) = m
    BY DistinctCardinality DEF TypeInv, TypeOK, m
  <1> HIDE DEF E
  <1>7. IsFiniteSet(E)
    BY <1>5, <1>6, FS_Subset
  <1>8. Cardinality(RangeOf(seen)) <= Cardinality(E)
    BY <1>4, <1>7, FS_Subset
  <1> QED BY <1>2, <1>3, <1>6, <1>8 DEF E, L, m

LEMMA RingKept == ASSUME TypeInv, RingInv, [Next]_vars PROVE RingInv'
  <1> SUFFICES ASSUME "fail" \notin happened'
               PROVE  seen' = seenDisk' /\ IsRing(seen)' /\ DuplicatesDropped'
    BY DEF RingInv
  <1>1. "fail" \notin happened /\ seen = seenDisk /\ IsRing(seen) /\ DuplicatesDropped
    BY RingSteps DEF RingInv
  <1>2. CASE UNCHANGED <<seen, seenDisk, accepted>>
    BY <1>1, <1>2 DEF IsRing, DuplicatesDropped
  <1>3. CASE Start
    <2>1. seen \in Seq(RangeOf(accepted)) /\ Len(seen) <= Ring /\ Ring \in Nat
      BY RingAssumption DEF TypeInv, TypeOK
    <2>2. seen' = seen /\ UNCHANGED <<seenDisk, accepted>>
      BY <1>1, <1>3, <2>1, LastOfProperties DEF Start, saved, history
    <2> QED BY <1>1, <2>2 DEF IsRing, DuplicatesDropped
  <1>4. CASE Accept
    <2> DEFINE e == Head(queue)
               L == Len(accepted)
    <2>1. /\ seen' = LastOf(Append(seen, e), Ring) /\ seenDisk' = seen'
          /\ accepted' = Append(accepted, e) /\ e \notin RangeOf(seen)
      BY <1>4 DEF Accept, Evicted, Persist, Fault
    <2>2. e \in Nat
      <3>1. e \in delivered
        BY <1>4, HeadTailProperties DEF Accept, TypeInv, TypeOK
      <3> QED BY <3>1, InHandTypes
    <2>3. IsRing(seen)'
      BY <1>1, <2>1, <2>2, RingAppend
    <2>4. /\ L \in Nat /\ DOMAIN accepted = 1 .. L /\ DOMAIN accepted' = 1 .. L + 1
          /\ \A i \in 1 .. L : accepted'[i] = accepted[i]
          /\ accepted'[L + 1] = e
      BY <2>1, <2>2, InHandTypes, AppendProperties DEF TypeInv
    <2>5. ASSUME NEW i \in DOMAIN accepted', NEW j \in DOMAIN accepted',
                 i < j, accepted'[i] = accepted'[j]
          PROVE  Cardinality(Between(i, j)') >= Ring
      <3>1. \A n \in i + 1 .. j - 1 : n \in 1 .. L
        BY <2>4
      <3>2. Between(i, j)' = Between(i, j)
        BY <2>4, <3>1 DEF Between
      <3>3. CASE j <= L
        <4>1. i \in DOMAIN accepted /\ j \in DOMAIN accepted /\ accepted[i] = accepted[j]
          BY <2>4, <2>5, <3>3
        <4>2. Cardinality(Between(i, j)) >= Ring
          BY <1>1, <2>5, <4>1 DEF DuplicatesDropped, Between
        <4> QED BY <3>2, <4>2
      <3>4. CASE j = L + 1
        <4>1. i \in 1 .. L /\ accepted[i] = e /\ j - 1 = L
          BY <2>4, <2>5, <3>4
        <4>2. Cardinality({accepted[n] : n \in i + 1 .. L}) >= Ring
          BY <1>1, <2>1, <2>4, <4>1, OutOfRing
        <4> QED BY <3>2, <4>1, <4>2 DEF Between
      <3> QED BY <2>4, <3>3, <3>4
    <2> QED BY <2>1, <2>3, <2>5 DEF DuplicatesDropped, Between
  <1> QED BY <1>2, <1>3, <1>4, RingSteps

\* An event delivered again passes the ring only after Ring others.
THEOREM DuplicatesAreDropped == Spec => []DuplicatesDropped
<1>1. Init => RingInv
  <2>1. Init => Len(accepted) = 0 /\ Len(seen) = 0 /\ DOMAIN accepted = {} /\ seen = seenDisk
    BY DEF Init
  <2> QED BY <2>1, RingAssumption DEF RingInv, IsRing, DuplicatesDropped
<1>2. RingInv => DuplicatesDropped
  BY DEF RingInv, DuplicatesDropped
<1>3. Spec => []TypeInv
  BY TypeInvariant
<1> QED BY <1>1, <1>2, <1>3, RingKept, PTL DEF Spec

-----------------------------------------------------------------------------
(* The bootstrap message.                                                  *)

LEMMA ChatSteps ==
    ASSUME [Next]_vars
    PROVE  Bootstrap \/ Start \/ SaveState \/ Stop \/ UNCHANGED <<chat, chatDisk, swallowed>>
  BY DEF vars, Next, User, Make, Feishu, Deliver, Misdeliver, Push, HandleEvent, Drop,
         Accept, Ignore, Prepare, StartTyping, Downloaded, Replied, Replayed,
         Type, RunDry, Abandon, TypeFails, Lifecycle, SourceEnds,
         Crash, feishu, source, memory, saved, history, wrong

LEMMA ChatKept == ASSUME TypeInv, ChatInv, [Next]_vars PROVE ChatInv'
  <1> SUFFICES ASSUME "fail" \notin happened'
               PROVE  /\ swallowed' # {} => chat' /\ chatDisk'
                      /\ \A m, n \in swallowed' : m = n
    BY DEF ChatInv
  <1>1. /\ swallowed # {} => chat /\ chatDisk
        /\ \A m, n \in swallowed : m = n
    BY RingSteps DEF ChatInv
  <1>2. CASE Bootstrap
    <2>1. chat' /\ chatDisk' /\ swallowed = {}
      BY <1>1, <1>2 DEF Bootstrap, IsBootstrap, KnowChat, Fault
    <2>2. swallowed' = {Len(accepted)}
      BY <1>2, <2>1 DEF Bootstrap
    <2> QED BY <2>1, <2>2
  <1>3. CASE Start
    BY <1>1, <1>3 DEF Start, saved, history
  <1>4. CASE SaveState
    BY <1>1, <1>4 DEF SaveState, memory, history
  <1>5. CASE Stop
    BY <1>1, <1>5 DEF Stop, memory, history
  <1>6. CASE UNCHANGED <<chat, chatDisk, swallowed>>
    BY <1>1, <1>6
  <1> QED BY <1>2, <1>3, <1>4, <1>5, <1>6, ChatSteps

\* Only one message in the life of a binding is swallowed.
THEOREM BootstrapIsOne == Spec => []OneBootstrap
<1>1. Init => ChatInv
  BY DEF Init, ChatInv
<1>2. ChatInv => OneBootstrap
  <2> SUFFICES ASSUME \A m, n \in swallowed : m = n
               PROVE  Cardinality(swallowed) <= 1
    BY DEF ChatInv, OneBootstrap
  <2>1. CASE swallowed = {}
    BY <2>1, FS_EmptySet
  <2>2. CASE swallowed # {}
    <3>1. PICK n : swallowed = {n}
      BY <2>2
    <3> QED BY <3>1, FS_Singleton
  <2> QED BY <2>1, <2>2
<1> QED BY <1>1, <1>2, TypeInvariant, ChatKept, PTL DEF Spec

-----------------------------------------------------------------------------
(* The input box.                                                          *)

\* What was accepted stays accepted, and keeps its kind.
LEMMA EventsStay ==
    ASSUME TypeInv, [Next]_vars, NEW n \in DOMAIN accepted
    PROVE  kind'[accepted'[n]] = kind[accepted[n]]
  <1>1. accepted'[n] = accepted[n]
    <2>1. accepted' = accepted \/ Accept
      BY DEF vars, Next, User, Make, Feishu, Deliver, Misdeliver, Push, HandleEvent, Drop,
             Bootstrap, Ignore, Prepare, StartTyping, Downloaded, Replied, Replayed,
             Type, RunDry, Abandon, TypeFails, Lifecycle, Start, SaveState, SourceEnds, Stop,
             Crash, feishu, source, memory, saved, history, wrong
    <2>2. CASE Accept
      <3>1. Head(queue) \in delivered
        BY <2>2, HeadTailProperties DEF Accept, TypeInv, TypeOK
      <3>2. Head(queue) \in Nat
        BY <3>1, InHandTypes
      <3>3. accepted' = Append(accepted, Head(queue)) /\ accepted \in Seq(Nat)
        BY <2>2 DEF Accept, TypeInv
      <3> QED BY <3>2, <3>3, AppendProperties
    <2> QED BY <2>1, <2>2
  <1>2. ASSUME NEW e \in DOMAIN kind PROVE kind'[e] = kind[e]
    <2>1. kind' = kind \/ \E k \in Kinds : kind' = Append(kind, k)
      BY DEF vars, Next, User, Make, Feishu, Deliver, Misdeliver, Push, HandleEvent, Drop,
             Accept, Bootstrap, Ignore, Prepare, StartTyping, Downloaded, Replied, Replayed,
             Type, RunDry, Abandon, TypeFails, Lifecycle, Start, SaveState, SourceEnds, Stop,
             Crash, feishu, source, memory, saved, history, wrong
    <2>2. ASSUME NEW k \in Kinds, kind' = Append(kind, k) PROVE kind'[e] = kind[e]
      BY <2>2, AppendProperties, InHandTypes DEF TypeInv, TypeOK
    <2> QED BY <2>1, <2>2
  <1> QED BY <1>1, <1>2, InHandTypes

\* How a step that is no keystroke, no stop and no crash moves the pipeline.
LEMMA BoxSteps ==
    ASSUME [Next]_vars, {"stop", "crash"} \cap happened' = {}
    PROVE  \/ Type
           \/ TypeFails
           \/ pc' = pc /\ UNCHANGED <<accepted, pane>>
           \/ pc \notin {"typing", "dead"} /\ pc' # "down" /\ pane' = pane
  BY DEF vars, Next, User, Make, Feishu, Deliver, Misdeliver, Push, HandleEvent, Drop,
         Accept, Bootstrap, Ignore, Prepare, StartTyping, Downloaded, Replied, Replayed,
         RunDry, Abandon, Lifecycle, Start, SaveState, SourceEnds, Stop, Become,
         Crash, Fault, feishu, source, memory, saved, history, wrong

LEMMA BoxKept == ASSUME TypeInv, BoxInv, [Next]_vars PROVE BoxInv'
  <1> SUFFICES ASSUME happened' \cap {"stop", "crash"} = {} PROVE BoxInv'
    BY DEF BoxInv
  <1> DEFINE last == Len(pane)
  <1>1. /\ InTheBox => \/ pc = "typing" /\ pane[last].by = Len(accepted)
                       \/ pc = "dead"
                       \/ Excused
        /\ pc = "down" => pane = << >>
        /\ \A i \in 1 .. last - 1 : Glued(i) => kind[EventOf(pane[i].by)] \in Guarded
    BY RingSteps DEF BoxInv, RemainsAreSafe
  <1>2. /\ last \in Nat /\ DOMAIN pane = 1 .. last /\ (pane # << >> => last \in DOMAIN pane)
        /\ \A i \in DOMAIN pane : pane[i].by \in DOMAIN accepted
        /\ pane # << >> <=> last # 0
    BY LenProperties, EmptySeq DEF TypeInv, TypeOK
  <1>3. \A i \in DOMAIN pane : kind'[accepted'[pane[i].by]] = kind[accepted[pane[i].by]]
    BY <1>2, EventsStay
  <1>4. CASE pane' = pane /\ ~Type
    <2>1. RemainsAreSafe'
      BY <1>1, <1>2, <1>3, <1>4 DEF RemainsAreSafe, Glued, EventOf
    <2>2. Excused /\ pane # << >> => Excused'
      BY <1>2, <1>3, <1>4 DEF Excused, EventOf
    <2>3. CASE pc' = pc /\ accepted' = accepted
      BY <1>1, <1>4, <2>1, <2>2, <2>3 DEF BoxInv, InTheBox
    <2>4. CASE pc \notin {"typing", "dead"} /\ pc' # "down"
      BY <1>1, <1>4, <2>1, <2>2, <2>4 DEF BoxInv, InTheBox
    <2>5. CASE TypeFails
      <3>1. pc = "typing" /\ pc' = AfterFailure /\ accepted' = accepted
        BY <2>5 DEF TypeFails, Become, history
      <3>2. InTheBox /\ ~Excused => pane[last].by = Len(accepted)
        BY <1>1, <3>1
      <3>3. InTheBox /\ ~Excused => CurrentKind \notin Guarded
        BY <3>2 DEF Excused, EventOf, CurrentKind, Current
      <3>4. InTheBox' => pc' = "dead" \/ Excused'
        BY <1>4, <2>2, <3>1, <3>3 DEF InTheBox, AfterFailure
      <3>5. pc' # "down"
        BY <3>1 DEF AfterFailure
      <3> QED BY <2>1, <3>4, <3>5 DEF BoxInv
    <2> QED BY <1>4, <2>3, <2>4, <2>5, BoxSteps
  <1>5. CASE Type
    <2>1. /\ accepted # << >> /\ CurrentKind \in Messages \cup Clicks
          /\ Len(accepted) \in Nat /\ step \in Nat \ {0} /\ step <= Len(Script[CurrentKind])
          /\ pc = "typing" /\ UNCHANGED <<accepted, kind>>
      BY <1>5, InHandTypes DEF TypeInv, TypeOK, Type, InHand, feishu, history
    <2>2. Script[CurrentKind][step] \in Strokes
      <3>1. Script[CurrentKind] \in Seq(Strokes) /\ step \in 1 .. Len(Script[CurrentKind])
        BY <2>1, Scripts
      <3> QED BY <3>1, ElementOfSeq
    <2>3. /\ Len(pane') = last + 1 /\ pane'[last + 1] = Key
          /\ \A i \in 1 .. last : pane'[i] = pane[i]
      <3>1. Key \in [by : Nat, at : Nat, key : Strokes]
        BY <2>1, <2>2 DEF Key
      <3>2. pane \in Seq([by : Nat, at : Nat, key : Strokes]) /\ pane' = Append(pane, Key)
        BY <1>5 DEF TypeInv, Type
      <3> QED BY <3>1, <3>2, AppendProperties
    <2>4. Key.by = Len(accepted) /\ Key.key = Script[CurrentKind][step]
      BY DEF Key
    <2>5. InTheBox' => pc' = "typing" /\ pane'[Len(pane')].by = Len(accepted')
      <3>1. CASE Done
        BY <1>2, <2>1, <2>3, <2>4, <3>1, Scripts DEF InTheBox, Done
      <3>2. CASE ~Done
        BY <1>2, <1>5, <2>1, <2>3, <2>4, <3>2 DEF Type
      <3> QED BY <3>1, <3>2
    <2>6. pc' # "down"
      BY <1>5, <2>1 DEF Type, Become
    <2>7. ASSUME NEW i \in 1 .. Len(pane') - 1, Glued(i)'
          PROVE  kind'[accepted'[pane'[i].by]] \in Guarded
      <3>1. CASE i < last
        <4>1. i \in 1 .. last - 1 /\ Glued(i)
          BY <1>2, <2>3, <2>7, <3>1 DEF Glued
        <4>2. kind[EventOf(pane[i].by)] \in Guarded
          BY <1>1, <4>1
        <4>3. pane'[i] = pane[i]
          BY <1>2, <2>3, <4>1
        <4> QED BY <2>1, <4>2, <4>3 DEF EventOf
      <3>2. CASE i = last
        <4>1. /\ pane[last].key \in Unfinished /\ pane[last].by # Len(accepted)
              /\ pane # << >> /\ pane'[i] = pane[last]
          BY <1>2, <2>3, <2>4, <2>7, <3>2 DEF Glued, Unfinished
        <4>2. Excused
          BY <1>1, <2>1, <4>1 DEF InTheBox
        <4> QED BY <2>1, <4>1, <4>2 DEF Excused, EventOf
      <3>3. i < last \/ i = last
        <4>1. i \in 1 .. last /\ last \in Nat
          BY <1>2, <2>3
        <4> HIDE DEF last
        <4> QED BY <4>1
      <3> QED BY <3>1, <3>2, <3>3
    <2>8. RemainsAreSafe'
      BY <2>7 DEF RemainsAreSafe, Glued, EventOf
    <2> QED BY <2>5, <2>6, <2>8 DEF BoxInv
  <1>6. pane' = pane \/ Type
    BY BoxSteps DEF TypeFails
  <1> QED BY <1>4, <1>5, <1>6

\* A message is appended to the remains of a failed one only after a yes/no shortcut.
THEOREM RemainsSafe == Spec => []RemainsAreSafe
<1>1. Init => BoxInv
  BY DEF Init, BoxInv, InTheBox, RemainsAreSafe
<1>2. BoxInv => RemainsAreSafe
  BY DEF BoxInv, RemainsAreSafe
<1> QED BY <1>1, <1>2, TypeInvariant, BoxKept, PTL DEF Spec
=============================================================================
