-------------------------- MODULE TranscriptProofs --------------------------
(***************************************************************************)
(* Transcript for every set of lines, every limit of a card, and every     *)
(* interleaving of writes, reads and flushes.  The operators of Card are   *)
(* recursive functions on the natural numbers; what they compute is proved *)
(* by induction, from the fact that a set of numbers has a least one.      *)
(***************************************************************************)
EXTENDS Transcript, SequenceTheorems, FiniteSetTheorems, WellFoundedInduction, TLAPS

\* Induction without an operator as a parameter.
LEMMA Least ==
    ASSUME NEW T \in SUBSET Nat, T # {}
    PROVE  \E x \in T : \A y \in T : x <= y
<1> DEFINE R == {p \in Nat \X Nat : p[1] < p[2]}
<1>1. R = OpToRel(<, Nat)
  BY DEF OpToRel
<1>2. IsWellFoundedOn(R, Nat)
  BY <1>1, NatLessThanWellFounded
<1>4. ASSUME NEW x \in Nat, NEW y \in Nat, y < x PROVE <<y, x>> \in R
  BY <1>4
<1> HIDE DEF R
<1>3. \E x \in T : \A y \in T : ~ (<<y, x>> \in R)
  BY <1>2, WFMin
<1>5. PICK x \in T : \A y \in T : ~ (<<y, x>> \in R)
  BY <1>3
<1>6. \A y \in T : ~ (y < x)
  BY <1>4, <1>5
<1> QED BY <1>5, <1>6

\* A set with 0 and the successor of each of its numbers has all of them.
LEMMA Induction ==
    ASSUME NEW T, 0 \in T, \A n \in Nat : n \in T => n + 1 \in T
    PROVE  Nat \subseteq T
<1> SUFFICES ASSUME Nat \ T # {} PROVE FALSE
  OBVIOUS
<1>1. PICK x \in Nat \ T : \A y \in Nat \ T : x <= y
  BY Least
<1>2. x - 1 \in Nat /\ x - 1 \in T
  BY <1>1
<1> QED BY <1>1, <1>2

\* A function defined by recursion on its argument exists.
Steps(V, n) == [1 .. n -> [V -> V]]
Follows(f, b, H, n) == f[0] = b /\ \A i \in 1 .. n : f[i] = H[i][f[i - 1]]

LEMMA Recursion ==
    ASSUME NEW V, NEW b \in V, NEW n \in Nat, NEW H \in Steps(V, n)
    PROVE  \E f \in [0 .. n -> V] : Follows(f, b, H, n)
<1> DEFINE T == {m \in Nat : m <= n => \E f \in [0 .. m -> V] : Follows(f, b, H, m)}
<1>1. 0 \in T
  <2>1. [i \in 0 .. 0 |-> b] \in [0 .. 0 -> V] /\ Follows([i \in 0 .. 0 |-> b], b, H, 0)
    BY DEF Follows
  <2> QED BY <2>1
<1>2. ASSUME NEW m \in Nat, m \in T PROVE m + 1 \in T
  <2> SUFFICES ASSUME m + 1 <= n PROVE \E f \in [0 .. m + 1 -> V] : Follows(f, b, H, m + 1)
    OBVIOUS
  <2>1. PICK g \in [0 .. m -> V] : Follows(g, b, H, m)
    BY <1>2
  <2> DEFINE f == [i \in 0 .. m + 1 |-> IF i = m + 1 THEN H[m + 1][g[m]] ELSE g[i]]
  <2>2. f \in [0 .. m + 1 -> V]
    <3>1. m + 1 \in 1 .. n /\ g[m] \in V
      OBVIOUS
    <3>2. H[m + 1][g[m]] \in V
      BY <3>1 DEF Steps
    <3> QED BY <3>2
  <2>3. f[0] = b
    BY <2>1 DEF Follows
  <2>4. ASSUME NEW i \in 1 .. m + 1 PROVE f[i] = H[i][f[i - 1]]
    <3>1. CASE i = m + 1
      BY <3>1
    <3>2. CASE i # m + 1
      <4>1. i \in 1 .. m /\ i \in 0 .. m + 1 /\ i - 1 \in 0 .. m + 1 /\ i - 1 # m + 1
        BY <3>2
      <4>2. f[i] = g[i] /\ f[i - 1] = g[i - 1]
        BY <3>2, <4>1
      <4> QED BY <2>1, <4>1, <4>2 DEF Follows
    <3> QED BY <3>1, <3>2
  <2> QED BY <2>2, <2>3, <2>4 DEF Follows
<1>3. \E f \in [0 .. n -> V] : Follows(f, b, H, n)
  <2>1. Nat \subseteq T
    <3> HIDE DEF T
    <3> QED BY <1>1, <1>2, Induction
  <2> QED BY <2>1
<1> QED BY <1>3

\* What holds of every value of such a function.
LEMMA Recursive ==
    ASSUME NEW V, NEW n \in Nat, NEW f, f[0] \in V,
           \A i \in 1 .. n : f[i - 1] \in V => f[i] \in V
    PROVE  \A i \in 0 .. n : f[i] \in V
<1> DEFINE T == {m \in Nat : m <= n => f[m] \in V}
<1>1. 0 \in T
  OBVIOUS
<1>2. ASSUME NEW m \in Nat, m \in T PROVE m + 1 \in T
  <2> SUFFICES ASSUME m + 1 <= n PROVE f[m + 1] \in V
    OBVIOUS
  <2>1. m + 1 \in 1 .. n /\ f[(m + 1) - 1] \in V
    BY <1>2
  <2> QED BY <2>1
<1>3. Nat \subseteq T
  <2> HIDE DEF T
  <2> QED BY <1>1, <1>2, Induction
<1> QED BY <1>3

-----------------------------------------------------------------------------
(* Sequences joined.                                                       *)

LEMMA JoinedIs ==
    ASSUME NEW S, NEW seqs \in Seq(Seq(S))
    PROVE  \E f \in [0 .. Len(seqs) -> Seq(S)] :
              /\ Joined(seqs) = f[Len(seqs)]
              /\ f[0] = << >>
              /\ \A i \in 1 .. Len(seqs) : f[i] = f[i - 1] \o seqs[i]
<1> DEFINE n == Len(seqs)
           V == Seq(S)
           b == << >>
           Eq(f) == f = [i \in 0 .. n |-> IF i = 0 THEN << >> ELSE f[i - 1] \o seqs[i]]
           a == CHOOSE f : Eq(f)
           H == [i \in 1 .. n |-> [v \in V |-> v \o seqs[i]]]
<1>1. n \in Nat /\ b \in V
  BY LenProperties, EmptySeq
<1>2. \A i \in 1 .. n, v \in V : v \o seqs[i] \in V
  <2> SUFFICES ASSUME NEW i \in 1 .. n, NEW v \in V PROVE v \o seqs[i] \in V
    OBVIOUS
  <2> QED BY ElementOfSeq, LenProperties, ConcatProperties
<1>3. H \in Steps(V, n)
  BY <1>2 DEF Steps
<1>4. PICK g \in [0 .. n -> V] : g[0] = b /\ \A i \in 1 .. n : g[i] = H[i][g[i - 1]]
  <2>1. \E g \in [0 .. n -> V] : Follows(g, b, H, n)
    <3> HIDE DEF n, H, V, b, a, Eq
    <3> QED BY <1>1, <1>3, Recursion
  <2> QED BY <2>1 DEF Follows
<1>5. \A i \in 1 .. n : g[i - 1] \in V /\ H[i][g[i - 1]] = g[i - 1] \o seqs[i]
  <2>1. \A i \in 1 .. n : i - 1 \in 0 .. n
    BY <1>1
  <2> QED BY <2>1
<1>6. Eq(g)
  <2>1. ASSUME NEW i \in 0 .. n PROVE g[i] = IF i = 0 THEN << >> ELSE g[i - 1] \o seqs[i]
    <3>1. i = 0 \/ i \in 1 .. n
      BY <1>1
    <3> QED BY <1>4, <1>5, <3>1
  <2> QED BY <2>1
<1>7. Eq(a)
  BY <1>6
<1>8. Joined(seqs) = a[n]
  BY DEF Joined
<1> HIDE DEF a
<1>9. a[0] = << >>
  BY <1>1, <1>7
<1>10. \A i \in 1 .. n : a[i] = a[i - 1] \o seqs[i]
  <2>1. \A i \in 1 .. n : i \in 0 .. n /\ i # 0
    BY <1>1
  <2> QED BY <1>7, <2>1
<1>11. \A i \in 0 .. n : a[i] \in V
  <2>1. a[0] \in V
    BY <1>1, <1>9
  <2>2. \A i \in 1 .. n : a[i - 1] \in V => a[i] \in V
    BY <1>2, <1>10
  <2> HIDE DEF V, n
  <2> QED BY <1>1, <2>1, <2>2, Recursive
<1>12. a \in [0 .. n -> V]
  <2>1. a = [i \in 0 .. n |-> a[i]]
    BY <1>7
  <2> HIDE DEF V, n
  <2> QED BY <1>11, <2>1
<1> QED BY <1>8, <1>9, <1>10, <1>12

LEMMA JoinedType ==
    ASSUME NEW S, NEW seqs \in Seq(Seq(S))
    PROVE  Joined(seqs) \in Seq(S)
<1>1. PICK f \in [0 .. Len(seqs) -> Seq(S)] : Joined(seqs) = f[Len(seqs)]
  BY JoinedIs
<1>2. Len(seqs) \in 0 .. Len(seqs)
  BY LenProperties
<1> QED BY <1>1, <1>2

LEMMA RangeOfConcat ==
    ASSUME NEW S, NEW s \in Seq(S), NEW t \in Seq(S)
    PROVE  RangeOf(s \o t) = RangeOf(s) \cup RangeOf(t)
<1>1. /\ Len(s) \in Nat /\ DOMAIN s = 1 .. Len(s) /\ Len(t) \in Nat /\ DOMAIN t = 1 .. Len(t)
      /\ DOMAIN (s \o t) = 1 .. Len(s) + Len(t)
      /\ \A i \in 1 .. Len(s) + Len(t) :
             (s \o t)[i] = IF i <= Len(s) THEN s[i] ELSE t[i - Len(s)]
  BY ConcatProperties, LenProperties
<1>2. ASSUME NEW i \in 1 .. Len(s) + Len(t)
      PROVE  (s \o t)[i] \in RangeOf(s) \cup RangeOf(t)
  <2>1. CASE i <= Len(s)
    BY <1>1, <2>1 DEF RangeOf
  <2>2. CASE ~(i <= Len(s))
    <3>1. i - Len(s) \in 1 .. Len(t)
      BY <1>1, <2>2
    <3> QED BY <1>1, <2>2, <3>1 DEF RangeOf
  <2> QED BY <2>1, <2>2
<1>3. ASSUME NEW i \in 1 .. Len(s) PROVE s[i] \in RangeOf(s \o t)
  <2>1. i \in 1 .. Len(s) + Len(t) /\ (s \o t)[i] = s[i]
    BY <1>1
  <2> QED BY <1>1, <2>1 DEF RangeOf
<1>4. ASSUME NEW i \in 1 .. Len(t) PROVE t[i] \in RangeOf(s \o t)
  <2>1. Len(s) + i \in 1 .. Len(s) + Len(t) /\ (s \o t)[Len(s) + i] = t[i]
    BY <1>1
  <2> QED BY <1>1, <2>1 DEF RangeOf
<1>5. RangeOf(s \o t) \subseteq RangeOf(s) \cup RangeOf(t)
  BY <1>1, <1>2 DEF RangeOf
<1>6. RangeOf(s) \subseteq RangeOf(s \o t) /\ RangeOf(t) \subseteq RangeOf(s \o t)
  BY <1>1, <1>3, <1>4 DEF RangeOf
<1> QED BY <1>5, <1>6

\* Every element of one of them is in the whole, and no other.
LEMMA JoinedRange ==
    ASSUME NEW S, NEW seqs \in Seq(Seq(S))
    PROVE  RangeOf(Joined(seqs)) = UNION {RangeOf(seqs[i]) : i \in DOMAIN seqs}
<1>1. PICK f \in [0 .. Len(seqs) -> Seq(S)] :
          /\ Joined(seqs) = f[Len(seqs)] /\ f[0] = << >>
          /\ \A i \in 1 .. Len(seqs) : f[i] = f[i - 1] \o seqs[i]
  BY JoinedIs
<1> DEFINE n == Len(seqs)
           T == {m \in Nat : m <= n => RangeOf(f[m]) = UNION {RangeOf(seqs[i]) : i \in 1 .. m}}
<1>2. n \in Nat /\ DOMAIN seqs = 1 .. n
  BY LenProperties
<1>3. 0 \in T
  <2>1. RangeOf(f[0]) = {}
    BY <1>1 DEF RangeOf
  <2> QED BY <2>1
<1>4. ASSUME NEW m \in Nat, m \in T PROVE m + 1 \in T
  <2> SUFFICES ASSUME m + 1 <= n
               PROVE  RangeOf(f[m + 1]) = UNION {RangeOf(seqs[i]) : i \in 1 .. m + 1}
    OBVIOUS
  <2>1. m + 1 \in 1 .. n /\ (m + 1) - 1 = m /\ m \in 0 .. n
    BY <1>2
  <2>2. f[m + 1] = f[m] \o seqs[m + 1] /\ f[m] \in Seq(S) /\ seqs[m + 1] \in Seq(S)
    BY <1>1, <1>2, <2>1, ElementOfSeq
  <2>3. RangeOf(f[m + 1]) = RangeOf(f[m]) \cup RangeOf(seqs[m + 1])
    BY <2>2, RangeOfConcat
  <2>4. RangeOf(f[m]) = UNION {RangeOf(seqs[i]) : i \in 1 .. m}
    BY <1>2, <1>4, <2>1
  <2>5. 1 .. m + 1 = (1 .. m) \cup {m + 1}
    OBVIOUS
  <2> QED BY <2>3, <2>4, <2>5
<1>5. Nat \subseteq T
  <2> HIDE DEF T
  <2> QED BY <1>3, <1>4, Induction
<1>6. n \in T
  <2> HIDE DEF T
  <2> QED BY <1>2, <1>5
<1>7. RangeOf(f[n]) = UNION {RangeOf(seqs[i]) : i \in 1 .. n}
  BY <1>6
<1> QED BY <1>1, <1>2, <1>7

-----------------------------------------------------------------------------
(* Elements picked out of a sequence.                                      *)

Picks(f, s, K) ==
    /\ f[0] = << >>
    /\ \A i \in 1 .. Len(s) : f[i] = IF i \in K THEN Append(f[i - 1], s[i]) ELSE f[i - 1]

LEMMA PickedIs ==
    ASSUME NEW S, NEW s \in Seq(S), NEW K
    PROVE  \E f \in [0 .. Len(s) -> Seq(S)] : Picked(s, K) = f[Len(s)] /\ Picks(f, s, K)
<1> DEFINE n == Len(s)
           seqs == [i \in DOMAIN s |-> IF i \in K THEN <<s[i]>> ELSE << >>]
<1>1. n \in Nat /\ DOMAIN s = 1 .. n /\ \A i \in 1 .. n : s[i] \in S
  BY LenProperties, ElementOfSeq
<1>2. /\ seqs \in [1 .. n -> Seq(S)]
      /\ \A i \in 1 .. n : seqs[i] = IF i \in K THEN <<s[i]>> ELSE << >>
  BY <1>1, EmptySeq
<1> HIDE DEF seqs
<1>3. seqs \in Seq(Seq(S)) /\ Len(seqs) = n
  <2>1. seqs \in Seq(Seq(S))
    BY <1>1, <1>2, SeqDef
  <2> QED BY <1>1, <1>2, <2>1, LenProperties
<1>4. Picked(s, K) = Joined(seqs)
  BY DEF Picked, seqs
<1>5. PICK f \in [0 .. n -> Seq(S)] :
          /\ Joined(seqs) = f[n] /\ f[0] = << >>
          /\ \A i \in 1 .. n : f[i] = f[i - 1] \o seqs[i]
  <2>1. \E f \in [0 .. Len(seqs) -> Seq(S)] :
          /\ Joined(seqs) = f[Len(seqs)] /\ f[0] = << >>
          /\ \A i \in 1 .. Len(seqs) : f[i] = f[i - 1] \o seqs[i]
    BY <1>3, JoinedIs
  <2> QED BY <1>3, <2>1
<1>6. ASSUME NEW i \in 1 .. n
      PROVE  f[i] = IF i \in K THEN Append(f[i - 1], s[i]) ELSE f[i - 1]
  <2>1. f[i] = f[i - 1] \o seqs[i] /\ f[i - 1] \in Seq(S) /\ s[i] \in S
    <3>1. i - 1 \in 0 .. n
      BY <1>1
    <3> QED BY <1>1, <1>5, <3>1
  <2>2. CASE i \in K
    <3>1. seqs[i] = <<s[i]>>
      BY <1>2, <2>2
    <3>2. Append(f[i - 1], s[i]) = f[i - 1] \o <<s[i]>>
      BY <2>1, AppendIsConcat
    <3> QED BY <2>1, <2>2, <3>1, <3>2
  <2>3. CASE i \notin K
    <3>1. seqs[i] = << >>
      BY <1>2, <2>3
    <3>2. f[i - 1] \o << >> = f[i - 1]
      BY <2>1, ConcatEmptySeq
    <3> QED BY <2>1, <2>3, <3>1, <3>2
  <2> QED BY <2>2, <2>3
<1>7. Picks(f, s, K)
  BY <1>5, <1>6 DEF Picks
<1> QED BY <1>4, <1>5, <1>7

LEMMA PickedType ==
    ASSUME NEW S, NEW s \in Seq(S), NEW K
    PROVE  Picked(s, K) \in Seq(S)
<1>1. PICK f \in [0 .. Len(s) -> Seq(S)] : Picked(s, K) = f[Len(s)]
  BY PickedIs
<1> QED BY <1>1, LenProperties

LEMMA RangeOfAppend ==
    ASSUME NEW S, NEW s \in Seq(S), NEW x \in S
    PROVE  RangeOf(Append(s, x)) = RangeOf(s) \cup {x}
<1>1. /\ Len(s) \in Nat /\ DOMAIN s = 1 .. Len(s) /\ DOMAIN Append(s, x) = 1 .. Len(s) + 1
      /\ \A i \in 1 .. Len(s) : Append(s, x)[i] = s[i]
      /\ Append(s, x)[Len(s) + 1] = x
  BY AppendProperties, LenProperties
<1>2. 1 .. Len(s) + 1 = (1 .. Len(s)) \cup {Len(s) + 1}
  BY <1>1
<1> QED BY <1>1, <1>2 DEF RangeOf

\* What is picked is what is at those places.
LEMMA PickedRange ==
    ASSUME NEW S, NEW s \in Seq(S), NEW K
    PROVE  RangeOf(Picked(s, K)) = {s[i] : i \in (1 .. Len(s)) \cap K}
<1>0. PICK f \in [0 .. Len(s) -> Seq(S)] : Picked(s, K) = f[Len(s)] /\ Picks(f, s, K)
  BY PickedIs
<1>1. /\ Picked(s, K) = f[Len(s)] /\ f[0] = << >>
      /\ \A i \in 1 .. Len(s) : f[i] = IF i \in K THEN Append(f[i - 1], s[i]) ELSE f[i - 1]
  BY <1>0 DEF Picks
<1> DEFINE n == Len(s)
           T == {m \in Nat : m <= n => RangeOf(f[m]) = {s[i] : i \in (1 .. m) \cap K}}
<1>2. n \in Nat /\ \A i \in 1 .. n : s[i] \in S
  BY LenProperties, ElementOfSeq
<1>3. 0 \in T
  <2>1. RangeOf(f[0]) = {}
    BY <1>1 DEF RangeOf
  <2> QED BY <2>1
<1>4. ASSUME NEW m \in Nat, m \in T PROVE m + 1 \in T
  <2> SUFFICES ASSUME m + 1 <= n
               PROVE  RangeOf(f[m + 1]) = {s[i] : i \in (1 .. m + 1) \cap K}
    OBVIOUS
  <2>1. m + 1 \in 1 .. n /\ (m + 1) - 1 = m /\ m \in 0 .. n /\ f[m] \in Seq(S) /\ s[m + 1] \in S
    BY <1>2
  <2>2. RangeOf(f[m]) = {s[i] : i \in (1 .. m) \cap K}
    BY <1>2, <1>4, <2>1
  <2>3. 1 .. m + 1 = (1 .. m) \cup {m + 1}
    OBVIOUS
  <2>4. CASE m + 1 \in K
    <3>1. f[m + 1] = Append(f[m], s[m + 1])
      BY <1>1, <2>1, <2>4
    <3>2. RangeOf(f[m + 1]) = RangeOf(f[m]) \cup {s[m + 1]}
      BY <2>1, <3>1, RangeOfAppend
    <3> QED BY <2>2, <2>3, <2>4, <3>2
  <2>5. CASE m + 1 \notin K
    <3>1. f[m + 1] = f[m]
      BY <1>1, <2>1, <2>5
    <3> QED BY <2>2, <2>3, <2>5, <3>1
  <2> QED BY <2>4, <2>5
<1>5. n \in T
  <2> HIDE DEF T
  <2> QED BY <1>2, <1>3, <1>4, Induction
<1>6. RangeOf(f[n]) = {s[i] : i \in (1 .. n) \cap K}
  BY <1>5
<1> QED BY <1>1, <1>2, <1>6

\* Numbers that rise stay in order when some are picked.
Rising(s) == \A i, j \in DOMAIN s : i < j => s[i] < s[j]

LEMMA RisingAppend ==
    ASSUME NEW s \in Seq(Int), NEW x \in Int, Rising(s), \A y \in RangeOf(s) : y < x
    PROVE  Rising(Append(s, x))
<1>1. /\ Len(s) \in Nat /\ DOMAIN s = 1 .. Len(s) /\ DOMAIN Append(s, x) = 1 .. Len(s) + 1
      /\ \A i \in 1 .. Len(s) : Append(s, x)[i] = s[i] /\ s[i] < x
      /\ Append(s, x)[Len(s) + 1] = x
  BY AppendProperties, LenProperties DEF RangeOf
<1> SUFFICES ASSUME NEW i \in 1 .. Len(s) + 1, NEW j \in 1 .. Len(s) + 1, i < j
             PROVE  Append(s, x)[i] < Append(s, x)[j]
  BY <1>1 DEF Rising
<1>2. i \in 1 .. Len(s)
  BY <1>1
<1>3. CASE j = Len(s) + 1
  BY <1>1, <1>2, <1>3
<1>4. CASE j # Len(s) + 1
  <2>1. j \in 1 .. Len(s)
    BY <1>1, <1>4
  <2> QED BY <1>1, <1>2, <2>1 DEF Rising
<1> QED BY <1>3, <1>4

LEMMA PickedRises ==
    ASSUME NEW s \in Seq(Int), NEW K,
           \A i, j \in (1 .. Len(s)) \cap K : i < j => s[i] < s[j]
    PROVE  Rising(Picked(s, K))
<1>0. PICK f \in [0 .. Len(s) -> Seq(Int)] : Picked(s, K) = f[Len(s)] /\ Picks(f, s, K)
  BY PickedIs
<1>1. /\ Picked(s, K) = f[Len(s)] /\ f[0] = << >>
      /\ \A i \in 1 .. Len(s) : f[i] = IF i \in K THEN Append(f[i - 1], s[i]) ELSE f[i - 1]
  BY <1>0 DEF Picks
<1> DEFINE n == Len(s)
           P(m) == Rising(f[m]) /\ \A y \in RangeOf(f[m]) : \E i \in (1 .. m) \cap K : y = s[i]
           T == {m \in Nat : m <= n => P(m)}
<1>2. n \in Nat /\ \A i \in 1 .. n : s[i] \in Int
  BY LenProperties, ElementOfSeq
<1>3. 0 \in T
  BY <1>1 DEF RangeOf, Rising
<1>4. ASSUME NEW m \in Nat, m \in T PROVE m + 1 \in T
  <2> SUFFICES ASSUME m + 1 <= n PROVE P(m + 1)
    OBVIOUS
  <2>1. m + 1 \in 1 .. n /\ (m + 1) - 1 = m /\ m \in 0 .. n /\ f[m] \in Seq(Int)
        /\ s[m + 1] \in Int
    BY <1>2
  <2>2. P(m)
    BY <1>2, <1>4, <2>1
  <2>3. CASE m + 1 \in K
    <3>1. f[m + 1] = Append(f[m], s[m + 1])
      BY <1>1, <2>1, <2>3
    <3>2. \A y \in RangeOf(f[m]) : y < s[m + 1]
      <4> SUFFICES ASSUME NEW y \in RangeOf(f[m]) PROVE y < s[m + 1]
        OBVIOUS
      <4>1. PICK i \in (1 .. m) \cap K : y = s[i]
        BY <2>2
      <4>2. i \in (1 .. n) \cap K /\ m + 1 \in (1 .. n) \cap K /\ i < m + 1
        BY <1>2, <2>1, <2>3
      <4> QED BY <4>1, <4>2
    <3>3. Rising(f[m + 1])
      BY <2>1, <2>2, <3>1, <3>2, RisingAppend
    <3>4. RangeOf(f[m + 1]) = RangeOf(f[m]) \cup {s[m + 1]}
      BY <2>1, <3>1, RangeOfAppend
    <3>5. \A y \in RangeOf(f[m + 1]) : \E i \in (1 .. m + 1) \cap K : y = s[i]
      <4> SUFFICES ASSUME NEW y \in RangeOf(f[m + 1])
                   PROVE  \E i \in (1 .. m + 1) \cap K : y = s[i]
        OBVIOUS
      <4>1. CASE y = s[m + 1]
        BY <2>3, <4>1
      <4>2. CASE y \in RangeOf(f[m])
        <5>1. PICK i \in (1 .. m) \cap K : y = s[i]
          BY <2>2, <4>2
        <5>2. i \in (1 .. m + 1) \cap K
          OBVIOUS
        <5> QED BY <5>1, <5>2
      <4> QED BY <3>4, <4>1, <4>2
    <3> QED BY <3>3, <3>5
  <2>4. CASE m + 1 \notin K
    <3>1. f[m + 1] = f[m]
      BY <1>1, <2>1, <2>4
    <3>2. \A i \in (1 .. m) \cap K : i \in (1 .. m + 1) \cap K
      OBVIOUS
    <3> QED BY <2>2, <3>1, <3>2
  <2> QED BY <2>3, <2>4
<1>5. n \in T
  <2> HIDE DEF T
  <2> QED BY <1>2, <1>3, <1>4, Induction
<1> QED BY <1>1, <1>2, <1>5

\* The places of an interval: its part of the sequence.
LEMMA PickedRun ==
    ASSUME NEW S, NEW s \in Seq(S), NEW K, NEW a \in Nat \ {0}, NEW b \in Nat, b <= Len(s),
           (1 .. Len(s)) \cap K = a .. b
    PROVE  Picked(s, K) = SubSeq(s, a, b)
<1>0. PICK f \in [0 .. Len(s) -> Seq(S)] : Picked(s, K) = f[Len(s)] /\ Picks(f, s, K)
  BY PickedIs
<1>1. /\ Picked(s, K) = f[Len(s)] /\ f[0] = << >>
      /\ \A i \in 1 .. Len(s) : f[i] = IF i \in K THEN Append(f[i - 1], s[i]) ELSE f[i - 1]
  BY <1>0 DEF Picks
<1> DEFINE n == Len(s)
           P(m) == (m <= b => f[m] = SubSeq(s, a, m)) /\ (b < m => f[m] = SubSeq(s, a, b))
           T == {m \in Nat : m <= n => P(m)}
<1>2. n \in Nat /\ \A i \in 1 .. n : s[i] \in S
  BY LenProperties, ElementOfSeq
<1>3. 0 \in T
  <2>1. SubSeq(s, a, 0) = << >>
    BY SubSeqEmpty
  <2> QED BY <1>1, <2>1
<1>4. ASSUME NEW m \in Nat, m \in T PROVE m + 1 \in T
  <2> SUFFICES ASSUME m + 1 <= n PROVE P(m + 1)
    OBVIOUS
  <2>1. m + 1 \in 1 .. n /\ (m + 1) - 1 = m /\ m \in 0 .. n /\ f[m] \in Seq(S) /\ s[m + 1] \in S
    BY <1>2
  <2>2. P(m)
    BY <1>2, <1>4, <2>1
  <2>3. m + 1 \in K <=> a <= m + 1 /\ m + 1 <= b
    BY <2>1
  <2>4. CASE m + 1 \in K
    <3>1. f[m + 1] = Append(SubSeq(s, a, m), s[m + 1]) /\ m + 1 <= b /\ a <= m + 1
      <4>1. f[m + 1] = Append(f[m], s[m + 1])
        BY <1>1, <2>1, <2>4
      <4>2. m + 1 <= b /\ a <= m + 1
        BY <2>3, <2>4
      <4>3. f[m] = SubSeq(s, a, m)
        BY <2>2, <4>2
      <4> QED BY <4>1, <4>2, <4>3
    <3>2. a \in 1 .. n /\ m + 1 \in a .. n
      BY <1>2, <2>1, <3>1
    <3>3. SubSeq(s, a, m + 1) = SubSeq(s, a, m) \o <<s[m + 1]>>
      <4>1. SubSeq(s, a, m + 1) = SubSeq(s, a, (m + 1) - 1) \o <<s[m + 1]>>
        BY <3>2, SubSeqRecursiveSecond
      <4> QED BY <2>1, <4>1
    <3>4. SubSeq(s, a, m) \in Seq(S)
      BY <2>1, <2>2, <3>1
    <3>5. Append(SubSeq(s, a, m), s[m + 1]) = SubSeq(s, a, m) \o <<s[m + 1]>>
      BY <2>1, <3>4, AppendIsConcat
    <3> QED BY <3>1, <3>3, <3>5
  <2>5. CASE m + 1 \notin K
    <3>1. f[m + 1] = f[m]
      BY <1>1, <2>1, <2>5
    <3>2. CASE m + 1 <= b
      <4>1. m + 1 < a /\ m < a /\ m <= b
        BY <2>3, <2>5, <3>2
      <4>2. SubSeq(s, a, m + 1) = << >> /\ SubSeq(s, a, m) = << >>
        BY <4>1, SubSeqEmpty
      <4> QED BY <2>2, <3>1, <3>2, <4>1, <4>2
    <3>3. CASE b < m + 1
      <4>1. b = m \/ b < m
        BY <3>3
      <4> QED BY <2>2, <3>1, <3>3, <4>1
    <3> QED BY <3>2, <3>3
  <2> QED BY <2>4, <2>5
<1>5. n \in T
  <2> HIDE DEF T
  <2> QED BY <1>2, <1>3, <1>4, Induction
<1>6. P(n)
  BY <1>2, <1>5
<1> QED BY <1>1, <1>2, <1>6

-----------------------------------------------------------------------------
(* The writes and the reads.                                               *)

\* Claude finishes a line before it begins the next one.
WritesInOrder ==
    /\ \A i, j \in DOMAIN file : i < j =>
           \/ file[i].line < file[j].line
           \/ file[i].piece = "head" /\ file[j].piece = "tail"
    /\ \A i \in DOMAIN file : file[i].piece = "tail" =>
           i > 1 /\ file[i - 1].piece = "head" /\ file[i - 1].line = file[i].line
    /\ HalfWritten => Last(file).line = Len(lines)

\* Up to the last read every line that ends there was handled, and no other, unless
\* the offset fell into it, splitlines cut it or the batch had raised before it; the
\* offset is behind only after a read that took the size too early.
ReadsInOrder ==
    /\ \A i \in 1 .. end : file[i].piece # "head" /\ Cut(i) = "no" =>
           file[i].line \in split \cup dropped \/ file[i].line \in RangeOf(handled)
    /\ offset > 0 /\ file[offset].piece = "head" => file[offset].line \in split
    /\ \A h \in RangeOf(handled) :
           \E i \in 1 .. end : file[i].piece # "head" /\ file[i].line = h
    /\ ~doubled => offset = end /\ Rising(handled)

LEMMA Writings ==
    ASSUME TypeOK
    PROVE  /\ lines \in Seq(Lines) /\ Len(lines) \in Nat /\ DOMAIN lines = 1 .. Len(lines)
           /\ file \in Seq([line : DOMAIN lines, piece : Pieces])
           /\ Len(file) \in Nat /\ DOMAIN file = 1 .. Len(file)
           /\ \A i \in 1 .. Len(file) : file[i].line \in 1 .. Len(lines) /\ file[i].piece \in Pieces
           /\ offset \in Nat /\ end \in Nat /\ offset <= end /\ end <= Len(file)
           /\ handled \in Seq(DOMAIN lines)
<1>1. lines \in Seq(Lines) /\ file \in Seq([line : DOMAIN lines, piece : Pieces])
      /\ handled \in Seq(DOMAIN lines) /\ offset \in 0 .. end /\ end \in 0 .. Len(file)
  BY DEF TypeOK
<1>2. Len(lines) \in Nat /\ DOMAIN lines = 1 .. Len(lines) /\ Len(file) \in Nat
      /\ DOMAIN file = 1 .. Len(file)
  BY <1>1, LenProperties
<1>3. ASSUME NEW i \in 1 .. Len(file)
      PROVE  file[i].line \in 1 .. Len(lines) /\ file[i].piece \in Pieces
  <2>1. file[i] \in [line : DOMAIN lines, piece : Pieces]
    BY <1>1, ElementOfSeq
  <2> QED BY <1>2, <2>1
<1> QED BY <1>1, <1>2, <1>3

\* A sequence is still one when what it may hold grows.
LEMMA FileGrows ==
    ASSUME TypeOK, NEW D, DOMAIN lines \subseteq D,
           NEW w \in [line : D, piece : Pieces]
    PROVE  /\ Append(file, w) \in Seq([line : D, piece : Pieces])
           /\ handled \in Seq(D)
           /\ Len(Append(file, w)) = Len(file) + 1
           /\ DOMAIN Append(file, w) = 1 .. Len(file) + 1
           /\ \A i \in 1 .. Len(file) : Append(file, w)[i] = file[i]
           /\ Append(file, w)[Len(file) + 1] = w
<1> DEFINE Old == [line : DOMAIN lines, piece : Pieces]
           New == [line : D, piece : Pieces]
<1>1. Old \subseteq New
  OBVIOUS
<1>2. file \in Seq(Old) /\ handled \in Seq(DOMAIN lines) /\ w \in New
  BY Writings
<1> HIDE DEF Old, New
<1>3. file \in Seq(New) /\ handled \in Seq(D)
  <2>1. file \in Seq(New)
    BY <1>1, <1>2, SeqMonotonic
  <2>2. handled \in Seq(D)
    BY <1>2, SeqMonotonic
  <2> QED BY <2>1, <2>2
<1>4. Append(file, w) \in Seq(New)
  BY <1>2, <1>3, AppendProperties
<1>5. /\ Len(Append(file, w)) = Len(file) + 1
      /\ \A i \in 1 .. Len(file) : Append(file, w)[i] = file[i]
      /\ Append(file, w)[Len(file) + 1] = w
  BY <1>2, <1>3, AppendProperties
<1>6. DOMAIN Append(file, w) = 1 .. Len(file) + 1
  BY <1>4, <1>5, LenProperties
<1> QED BY <1>3, <1>4, <1>5, <1>6 DEF New

\* The writes a read finds something with.
LEMMA EndsWithin ==
    ASSUME NEW from
    PROVE  /\ Ends(from) \subseteq Whole(from)
           /\ Whole(from) \subseteq from + 1 .. Len(file)
           /\ Raising(from) \subseteq from + 1 .. Len(file)
           /\ \A i \in Whole(from) : file[i].piece # "head"
           /\ Ends(from) \subseteq from + 1 .. Len(file)
<1>1. Ends(from) \subseteq Whole(from)
  BY DEF Ends
<1>2. /\ Whole(from) \subseteq from + 1 .. Len(file)
      /\ \A i \in Whole(from) : file[i].piece # "head"
  BY DEF Whole
<1>3. Raising(from) \subseteq from + 1 .. Len(file)
  BY DEF Raising
<1> QED BY <1>1, <1>2, <1>3

\* The lines a read finds, and in which order.
LEMMA ParsedIs ==
    ASSUME TypeOK, NEW from \in Nat, from <= Len(file)
    PROVE  /\ Parsed(from) \in Seq(DOMAIN lines)
           /\ RangeOf(Parsed(from)) = {file[i].line : i \in Ends(from)}
           /\ Ends(from) \subseteq from + 1 .. Len(file)
           /\ WritesInOrder => Rising(Parsed(from))
<1> DEFINE s == [i \in DOMAIN file |-> file[i].line]
<1>1. Ends(from) \subseteq from + 1 .. Len(file)
  BY EndsWithin
<1>2. s \in [1 .. Len(file) -> DOMAIN lines] /\ \A i \in 1 .. Len(file) : s[i] = file[i].line
  BY Writings
<1>3. Parsed(from) = Picked(s, Ends(from))
  BY DEF Parsed
<1> HIDE DEF s
<1>4. s \in Seq(DOMAIN lines) /\ Len(s) = Len(file)
  <2>1. s \in Seq(DOMAIN lines)
    BY <1>2, SeqDef, Writings
  <2> QED BY <1>2, <2>1, LenProperties, Writings
<1>5. Parsed(from) \in Seq(DOMAIN lines)
  BY <1>3, <1>4, PickedType
<1>6. RangeOf(Parsed(from)) = {file[i].line : i \in Ends(from)}
  <2>1. RangeOf(Parsed(from)) = {s[i] : i \in (1 .. Len(s)) \cap Ends(from)}
    BY <1>3, <1>4, PickedRange
  <2>2. (1 .. Len(s)) \cap Ends(from) = Ends(from) /\ Ends(from) \subseteq 1 .. Len(file)
    BY <1>1, <1>4, Writings
  <2> QED BY <1>2, <2>1, <2>2
<1>7. ASSUME WritesInOrder PROVE Rising(Parsed(from))
  <2>1. s \in Seq(Int)
    <3>1. DOMAIN lines \subseteq Int
      BY Writings
    <3> QED BY <1>4, <3>1, SeqMonotonic
  <2>2. ASSUME NEW i \in (1 .. Len(s)) \cap Ends(from), NEW j \in (1 .. Len(s)) \cap Ends(from),
               i < j
        PROVE  s[i] < s[j]
    <3>1. i \in DOMAIN file /\ j \in DOMAIN file /\ file[i].piece # "head"
      BY <1>4, Writings, EndsWithin
    <3>2. file[i].line < file[j].line
      BY <1>7, <2>2, <3>1 DEF WritesInOrder
    <3> QED BY <1>2, <3>1, <3>2, Writings
  <2> QED BY <1>3, <2>1, <2>2, PickedRises
<1> QED BY <1>1, <1>5, <1>6, <1>7

\* Each image is tried once.
LEMMA UploadKeepsApart ==
    ASSUME NEW wanted, NEW known, NEW lost, known \cap lost = {},
           NEW u \in Upload(wanted, known, lost)
    PROVE  u.known \cap u.lost = {}
  BY DEF Upload, Remember, Untried

\* Types, and nothing that failed was uploaded as well.
THEOREM TypeCorrect == Spec => []TypeOK
<1>1. Init => TypeOK
  <2> SUFFICES ASSUME Init PROVE TypeOK
    OBVIOUS
  <2>1. lines \in Seq(Lines) /\ Len(lines) = 0 /\ file \in Seq([line : DOMAIN lines, piece : Pieces])
        /\ handled \in Seq(DOMAIN lines) /\ Len(file) = 0
    BY EmptySeq DEF Init
  <2>2. split = {} /\ keys = {} /\ drawn = {} /\ offset = 0 /\ end = 0 /\ due = "none"
        /\ doubled = FALSE /\ dropped = {} /\ style \in Styles
    BY DEF Init
  <2>3. Len(lines) <= MaxLines /\ offset \in 0 .. end /\ end \in 0 .. Len(file)
    BY <2>1, <2>2, BoundsAssumption
  <2> QED BY <2>1, <2>2, <2>3 DEF TypeOK
<1>2. TypeOK /\ [Next]_vars => TypeOK'
  <2> SUFFICES ASSUME TypeOK, [Next]_vars PROVE TypeOK'
    OBVIOUS
  <2>1. ASSUME NEW line \in Lines, Write(line) PROVE TypeOK'
    <3>1. Len(lines) < MaxLines /\ lines' = Append(lines, line)
          /\ \E piece \in {"whole", "head"} :
                 file' = Append(file, [line |-> Len(lines) + 1, piece |-> piece])
          /\ UNCHANGED <<reading, due, caches, style, card>>
      BY <2>1 DEF Write
    <3>2. lines' \in Seq(Lines) /\ Len(lines') = Len(lines) + 1 /\ DOMAIN lines' = 1 .. Len(lines) + 1
      BY <3>1, Writings, AppendProperties, LenProperties
    <3>3. PICK w \in [line : DOMAIN lines', piece : Pieces] : file' = Append(file, w)
      <4>1. PICK piece \in {"whole", "head"} :
                file' = Append(file, [line |-> Len(lines) + 1, piece |-> piece])
        BY <3>1
      <4>2. Len(lines) + 1 \in DOMAIN lines'
        BY <3>2, Writings
      <4>3. [line |-> Len(lines) + 1, piece |-> piece] \in [line : DOMAIN lines', piece : Pieces]
        BY <4>2 DEF Pieces
      <4> QED BY <4>1, <4>3
    <3>5. DOMAIN lines \subseteq DOMAIN lines'
      BY <3>2, Writings
    <3>4. /\ file' \in Seq([line : DOMAIN lines', piece : Pieces])
          /\ handled \in Seq(DOMAIN lines') /\ Len(file') = Len(file) + 1
      BY <3>3, <3>5, FileGrows
    <3> QED BY <3>1, <3>2, <3>4, Writings, BoundsAssumption DEF TypeOK, reading, caches
  <2>2. CASE Finish
    <3>1. /\ lines' = lines /\ UNCHANGED <<reading, due, caches, style, card>>
          /\ file' = Append(file, [line |-> Len(lines), piece |-> "tail"]) /\ file # << >>
      BY <2>2 DEF Finish, HalfWritten
    <3>2. [line |-> Len(lines), piece |-> "tail"] \in [line : DOMAIN lines, piece : Pieces]
      <4>1. Len(file) # 0
        BY <3>1, Writings, EmptySeq
      <4>2. 1 \in 1 .. Len(file)
        BY <4>1, Writings
      <4>3. Len(lines) \in DOMAIN lines
        BY <4>2, Writings
      <4> QED BY <4>3 DEF Pieces
    <3>3. /\ file' \in Seq([line : DOMAIN lines, piece : Pieces]) /\ Len(file') = Len(file) + 1
      BY <3>1, <3>2, Writings, FileGrows
    <3> QED BY <3>1, <3>3, Writings DEF TypeOK, reading, caches
  <2>3. CASE ReadBatch
    <3>1. PICK size \in (IF end > offset THEN end ELSE offset + 1) .. Len(file) :
              /\ due' \in {"now", "later"} /\ handled' = handled \o Parsed(offset)
              /\ offset' = size /\ end' = Len(file)
              /\ split' = split \cup (IF file[size].piece = "head" THEN {file[size].line} ELSE {})
              /\ doubled' = (doubled \/ size < Len(file))
              /\ dropped' = dropped \cup Unread(offset)
              /\ UNCHANGED <<lines, file, caches, style, card>>
      BY <2>3 DEF ReadBatch, MoveOffset
    <3>2. size \in 1 .. Len(file)
      BY Writings
    <3>3. file[size].line \in DOMAIN lines
      BY <3>2, Writings
    <3>4. handled' \in Seq(DOMAIN lines)
      BY <3>1, ParsedIs, Writings, ConcatProperties
    <3>5. Unread(offset) \subseteq DOMAIN lines
      <4>1. Whole(offset) \subseteq 1 .. Len(file)
        BY EndsWithin, Writings
      <4> QED BY <4>1, Writings DEF Unread
    <3> QED BY <3>1, <3>2, <3>3, <3>4, <3>5 DEF TypeOK, caches
  <2>4. ASSUME NEW live \in BOOLEAN, Flush(live) PROVE TypeOK'
    <3>1. PICK images \in Upload(ImagePaths(Turn), keys, failed) :
              keys' = images.known /\ failed' = images.lost
      BY <2>4 DEF Flush
    <3>2. PICK diagrams \in IF live THEN {[known |-> drawn, lost |-> undrawn]}
                            ELSE Upload(Diagrams(Turn), drawn, undrawn) :
              drawn' = diagrams.known /\ undrawn' = diagrams.lost
      BY <2>4 DEF Flush
    <3>3. keys' \cap failed' = {}
      BY <3>1, UploadKeepsApart DEF TypeOK
    <3>4. drawn' \cap undrawn' = {}
      BY <3>2, UploadKeepsApart DEF TypeOK
    <3>5. due' = "none" /\ UNCHANGED <<lines, file, reading, style>>
      BY <2>4 DEF Flush
    <3> QED BY <3>3, <3>4, <3>5 DEF TypeOK, reading
  <2>5. CASE FlushNothing
    BY <2>5 DEF FlushNothing, TypeOK, reading, caches
  <2>6. CASE UNCHANGED vars
    BY <2>6 DEF vars, TypeOK, reading, caches
  <2> QED BY <2>1, <2>2, <2>3, <2>4, <2>5, <2>6 DEF Next
<1> QED BY <1>1, <1>2, PTL DEF Spec

LEMMA RisingConcat ==
    ASSUME NEW s \in Seq(Int), NEW t \in Seq(Int), Rising(s), Rising(t),
           \A x \in RangeOf(s), y \in RangeOf(t) : x < y
    PROVE  Rising(s \o t)
<1>1. /\ Len(s) \in Nat /\ DOMAIN s = 1 .. Len(s) /\ Len(t) \in Nat /\ DOMAIN t = 1 .. Len(t)
      /\ DOMAIN (s \o t) = 1 .. Len(s) + Len(t)
      /\ \A i \in 1 .. Len(s) + Len(t) :
             (s \o t)[i] = IF i <= Len(s) THEN s[i] ELSE t[i - Len(s)]
  BY ConcatProperties, LenProperties
<1> SUFFICES ASSUME NEW i \in 1 .. Len(s) + Len(t), NEW j \in 1 .. Len(s) + Len(t), i < j
             PROVE  (s \o t)[i] < (s \o t)[j]
  BY <1>1 DEF Rising
<1>2. CASE j <= Len(s)
  <2>1. i \in DOMAIN s /\ j \in DOMAIN s /\ i <= Len(s)
    BY <1>1, <1>2
  <2> QED BY <1>1, <1>2, <2>1 DEF Rising
<1>3. CASE i <= Len(s) /\ ~(j <= Len(s))
  <2>1. i \in DOMAIN s /\ j - Len(s) \in DOMAIN t
    BY <1>1, <1>3
  <2> QED BY <1>1, <1>3, <2>1 DEF RangeOf
<1>4. CASE ~(i <= Len(s)) /\ ~(j <= Len(s))
  <2>1. i - Len(s) \in DOMAIN t /\ j - Len(s) \in DOMAIN t /\ i - Len(s) < j - Len(s)
    BY <1>1, <1>4
  <2> QED BY <1>1, <1>4, <2>1 DEF Rising
<1>5. CASE i <= Len(s) \/ ~(j <= Len(s))
  BY <1>1, <1>2, <1>3, <1>4
<1> QED BY <1>1, <1>2, <1>5

\* What a number that occurs, or a rising sequence, has to do with counting.
LEMMA Counted ==
    ASSUME NEW s, DOMAIN s = 1 .. Len(s), Len(s) \in Nat, NEW x
    PROVE  LET n == Cardinality({i \in DOMAIN s : s[i] = x})
           IN  /\ x \in RangeOf(s) => n >= 1
               /\ s \in Seq(Int) /\ Rising(s) => n <= 1
<1> DEFINE C == {i \in DOMAIN s : s[i] = x}
<1>1. IsFiniteSet(C) /\ Cardinality(C) \in Nat
  <2>1. IsFiniteSet(1 .. Len(s))
    BY FS_Interval
  <2>2. C \in SUBSET (1 .. Len(s))
    OBVIOUS
  <2>3. IsFiniteSet(C)
    <3> HIDE DEF C
    <3> QED BY <2>1, <2>2, FS_Subset
  <2> HIDE DEF C
  <2> QED BY <2>3, FS_CardinalityType
<1>2. ASSUME x \in RangeOf(s) PROVE Cardinality(C) >= 1
  <2>1. C # {}
    BY <1>2 DEF RangeOf
  <2> HIDE DEF C
  <2>2. Cardinality(C) # 0
    BY <1>1, <2>1, FS_EmptySet
  <2> QED BY <1>1, <2>2
<1>3. ASSUME s \in Seq(Int), Rising(s) PROVE Cardinality(C) <= 1
  <2>1. \A i, j \in C : i = j
    <3> SUFFICES ASSUME NEW i \in C, NEW j \in C, i < j PROVE FALSE
      OBVIOUS
    <3>1. s[i] < s[j] /\ s[i] = x /\ s[j] = x /\ x \in Int
      BY <1>3, ElementOfSeq DEF Rising
    <3> QED BY <3>1
  <2>2. C = {} \/ \E y : C = {y}
    BY <2>1
  <2> HIDE DEF C
  <2> QED BY <1>1, <2>2, FS_EmptySet, FS_Singleton
<1> QED BY <1>2, <1>3

\* A step that writes keeps the order of the writes.
LEMMA WritesStayInOrder ==
    ASSUME TypeOK, WritesInOrder, [Next]_vars
    PROVE  WritesInOrder'
<1>1. ASSUME NEW line \in Lines, Write(line) PROVE WritesInOrder'
  <2>1. /\ lines' = Append(lines, line) /\ ~HalfWritten
        /\ \E piece \in {"whole", "head"} :
               file' = Append(file, [line |-> Len(lines) + 1, piece |-> piece])
    BY <1>1 DEF Write
  <2>2. PICK piece \in {"whole", "head"} :
            file' = Append(file, [line |-> Len(lines) + 1, piece |-> piece])
    BY <2>1
  <2>3. Len(lines') = Len(lines) + 1 /\ DOMAIN lines' = 1 .. Len(lines) + 1
    <3>1. lines' \in Seq(Lines) /\ Len(lines') = Len(lines) + 1
      BY <2>1, Writings, AppendProperties
    <3> QED BY <3>1, LenProperties
  <2> DEFINE w == [line |-> Len(lines) + 1, piece |-> piece]
  <2>4. w \in [line : DOMAIN lines', piece : Pieces] /\ DOMAIN lines \subseteq DOMAIN lines'
    <3>1. Len(lines) + 1 \in DOMAIN lines'
      BY <2>3, Writings
    <3> QED BY <2>3, <3>1, Writings DEF Pieces
  <2>5. w.line = Len(lines) + 1 /\ w.piece # "tail"
    OBVIOUS
  <2> HIDE DEF w
  <2>6. /\ Len(file') = Len(file) + 1 /\ DOMAIN file' = 1 .. Len(file) + 1
        /\ \A i \in 1 .. Len(file) : file'[i] = file[i]
        /\ file'[Len(file) + 1] = w
    BY <2>2, <2>4, FileGrows DEF w
  <2>7. ASSUME NEW i \in DOMAIN file', NEW j \in DOMAIN file', i < j
        PROVE  file'[i].line < file'[j].line \/ (file'[i].piece = "head" /\ file'[j].piece = "tail")
    <3>1. i \in 1 .. Len(file) /\ file'[i] = file[i] /\ i \in DOMAIN file
      BY <2>6, <2>7, Writings
    <3>2. CASE j = Len(file) + 1
      BY <2>5, <2>6, <3>1, <3>2, Writings
    <3>3. CASE j # Len(file) + 1
      <4>1. j \in 1 .. Len(file) /\ file'[j] = file[j] /\ j \in DOMAIN file
        BY <2>6, <3>3, Writings
      <4> QED BY <2>7, <3>1, <4>1 DEF WritesInOrder
    <3> QED BY <3>2, <3>3
  <2>8. ASSUME NEW i \in DOMAIN file', file'[i].piece = "tail"
        PROVE  i > 1 /\ file'[i - 1].piece = "head" /\ file'[i - 1].line = file'[i].line
    <3>1. i \in 1 .. Len(file) /\ file'[i] = file[i] /\ i \in DOMAIN file
      BY <2>5, <2>6, <2>8, Writings
    <3>2. i > 1 /\ file[i - 1].piece = "head" /\ file[i - 1].line = file[i].line
      BY <2>8, <3>1 DEF WritesInOrder
    <3>3. i - 1 \in 1 .. Len(file)
      BY <3>1, <3>2, Writings
    <3> QED BY <2>6, <3>1, <3>2, <3>3
  <2>9. Last(file').line = Len(lines')
    BY <2>3, <2>5, <2>6 DEF Last
  <2> QED BY <2>7, <2>8, <2>9 DEF WritesInOrder, HalfWritten
<1>2. CASE Finish
  <2>1. /\ lines' = lines /\ HalfWritten
        /\ file' = Append(file, [line |-> Len(lines), piece |-> "tail"]) /\ file # << >>
        /\ Last(file).piece = "head"
    BY <1>2 DEF Finish, HalfWritten
  <2> DEFINE n == Len(file)
             w == [line |-> Len(lines), piece |-> "tail"]
  <2>2. n \in 1 .. n /\ n \in DOMAIN file
    <3>1. n # 0
      BY <2>1, Writings, EmptySeq
    <3> QED BY <3>1, Writings
  <2>3. w \in [line : DOMAIN lines, piece : Pieces]
    <3>1. Len(lines) \in DOMAIN lines
      BY <2>2, Writings
    <3> QED BY <3>1 DEF Pieces
  <2>4. w.line = Len(lines) /\ w.piece = "tail"
    OBVIOUS
  <2>5. file[n].line = Len(lines) /\ file[n].piece = "head"
    BY <2>1 DEF WritesInOrder, Last
  <2>6. /\ Len(file') = n + 1 /\ DOMAIN file' = 1 .. n + 1
        /\ \A i \in 1 .. n : file'[i] = file[i]
        /\ file'[n + 1] = w
    <3> HIDE DEF w
    <3> QED BY <2>1, <2>3, FileGrows DEF w
  <2> HIDE DEF w
  <2>7. ASSUME NEW i \in DOMAIN file', NEW j \in DOMAIN file', i < j
        PROVE  file'[i].line < file'[j].line \/ (file'[i].piece = "head" /\ file'[j].piece = "tail")
    <3>1. i \in 1 .. n /\ file'[i] = file[i] /\ i \in DOMAIN file
      BY <2>6, <2>7, Writings
    <3>2. CASE j = n + 1 /\ i = n
      BY <2>4, <2>5, <2>6, <3>1, <3>2
    <3>3. CASE j = n + 1 /\ i # n
      <4>1. i < n
        BY <3>1, <3>3
      <4>2. file[i].line < file[n].line
        BY <2>2, <2>5, <3>1, <4>1 DEF WritesInOrder
      <4> QED BY <2>4, <2>5, <2>6, <3>1, <3>3, <4>2
    <3>4. CASE j # n + 1
      <4>1. j \in 1 .. n /\ file'[j] = file[j] /\ j \in DOMAIN file
        BY <2>6, <3>4, Writings
      <4> QED BY <2>7, <3>1, <4>1 DEF WritesInOrder
    <3> QED BY <3>2, <3>3, <3>4
  <2>8. ASSUME NEW i \in DOMAIN file', file'[i].piece = "tail"
        PROVE  i > 1 /\ file'[i - 1].piece = "head" /\ file'[i - 1].line = file'[i].line
    <3>1. CASE i = n + 1
      BY <2>2, <2>4, <2>5, <2>6, <3>1
    <3>2. CASE i # n + 1
      <4>1. i \in 1 .. n /\ file'[i] = file[i] /\ i \in DOMAIN file
        BY <2>6, <3>2, Writings
      <4>2. i > 1 /\ file[i - 1].piece = "head" /\ file[i - 1].line = file[i].line
        BY <2>8, <4>1 DEF WritesInOrder
      <4>3. i - 1 \in 1 .. n
        BY <4>1, <4>2, Writings
      <4> QED BY <2>6, <4>1, <4>2, <4>3
    <3> QED BY <3>1, <3>2
  <2>9. Last(file').piece = "tail"
    BY <2>4, <2>6 DEF Last
  <2> QED BY <2>7, <2>8, <2>9 DEF WritesInOrder, HalfWritten
<1>3. ASSUME UNCHANGED <<lines, file>> PROVE WritesInOrder'
  BY <1>3 DEF WritesInOrder, HalfWritten, Last
<1> QED BY <1>1, <1>2, <1>3 DEF Next, ReadBatch, Flush, FlushNothing, vars

\* A read handles what ends in it, except a line the offset had fallen into.
LEMMA ReadsStayInOrder ==
    ASSUME TypeOK, WritesInOrder, ReadsInOrder, [Next]_vars
    PROVE  ReadsInOrder'
<1>1. CASE ReadBatch
  <2>1. PICK size \in (IF end > offset THEN end ELSE offset + 1) .. Len(file) :
            /\ handled' = handled \o Parsed(offset)
            /\ offset' = size /\ end' = Len(file) /\ file' = file
            /\ split' = split \cup (IF file[size].piece = "head" THEN {file[size].line} ELSE {})
            /\ doubled' = (doubled \/ size < Len(file)) /\ lines' = lines
            /\ dropped' = dropped \cup Unread(offset)
    BY <1>1 DEF ReadBatch, MoveOffset
  <2>2. /\ Parsed(offset) \in Seq(DOMAIN lines) /\ Ends(offset) \subseteq offset + 1 .. Len(file)
        /\ RangeOf(Parsed(offset)) = {file[i].line : i \in Ends(offset)}
        /\ Rising(Parsed(offset))
    <3>1. offset \in Nat /\ offset <= Len(file)
      BY Writings
    <3>2. /\ Parsed(offset) \in Seq(DOMAIN lines) /\ Ends(offset) \subseteq offset + 1 .. Len(file)
          /\ RangeOf(Parsed(offset)) = {file[i].line : i \in Ends(offset)}
          /\ WritesInOrder => Rising(Parsed(offset))
      BY <3>1, ParsedIs
    <3> QED BY <3>2
  <2>3. RangeOf(handled') = RangeOf(handled) \cup RangeOf(Parsed(offset))
    <3> DEFINE b == Parsed(offset)
    <3>1. handled \in Seq(DOMAIN lines) /\ b \in Seq(DOMAIN lines) /\ handled' = handled \o b
      BY <2>1, <2>2 DEF TypeOK
    <3> HIDE DEF b
    <3>2. RangeOf(handled \o b) = RangeOf(handled) \cup RangeOf(b)
      BY <3>1, RangeOfConcat
    <3>3. RangeOf(handled') = RangeOf(handled) \cup RangeOf(b)
      BY <3>1, <3>2
    <3> QED BY <3>3 DEF b
  <2>4. ASSUME NEW i \in 1 .. end', file'[i].piece # "head", Cut(i)' = "no"
        PROVE  \/ file'[i].line \in split' \cup dropped'
               \/ file'[i].line \in RangeOf(handled')
    <3>1. /\ i \in 1 .. Len(file) /\ file'[i] = file[i] /\ file[i].piece # "head"
          /\ Cut(i) = "no"
      BY <2>1, <2>4 DEF Cut
    <3>2. CASE i <= offset
      <4>1. i \in 1 .. end
        BY <3>1, <3>2, Writings
      <4>2. file[i].line \in split \cup dropped \/ file[i].line \in RangeOf(handled)
        BY <3>1, <4>1 DEF ReadsInOrder
      <4> QED BY <2>1, <2>3, <3>1, <4>2
    <3>3. CASE i > offset /\ i \in Ends(offset)
      BY <2>2, <2>3, <3>1, <3>3
    <3>5. CASE i \in Whole(offset) /\ i \notin Ends(offset)
      <4>1. PICK j \in Raising(offset) : ~(i < j)
        BY <3>1, <3>5 DEF Ends
      <4>2. j # i
        BY <3>1, <4>1 DEF Raising, Pieces
      <4>3. j < i
        <5>1. i \in Int /\ j \in Int
          BY <3>1, <4>1, EndsWithin, Writings
        <5> QED BY <4>1, <4>2, <5>1
      <4>4. file[i].line \in Unread(offset)
        BY <3>5, <4>1, <4>3 DEF Unread
      <4> QED BY <2>1, <3>1, <4>4
    <3>4. CASE i > offset /\ i \notin Whole(offset)
      <4>1. i \in offset + 1 .. Len(file)
        BY <3>1, <3>4, Writings
      <4>2. file[i].piece = "tail" /\ i = offset + 1
        BY <3>1, <3>4, <4>1, Writings DEF Whole, Pieces
      <4>3. i > 1 /\ file[i - 1].piece = "head" /\ file[i - 1].line = file[i].line
        BY <3>1, <4>2, Writings DEF WritesInOrder
      <4>4. offset > 0 /\ i - 1 = offset
        BY <4>2, <4>3, Writings
      <4>5. file[i].line \in split
        BY <4>3, <4>4 DEF ReadsInOrder
      <4> QED BY <2>1, <3>1, <4>5
    <3> QED BY <3>1, <3>2, <3>3, <3>4, <3>5, Writings
  <2>5. offset' > 0 /\ file'[offset'].piece = "head" => file'[offset'].line \in split'
    BY <2>1
  <2>6. ASSUME NEW h \in RangeOf(handled')
        PROVE  \E i \in 1 .. end' : file'[i].piece # "head" /\ file'[i].line = h
    <3>1. CASE h \in RangeOf(handled)
      <4>1. PICK i \in 1 .. end : file[i].piece # "head" /\ file[i].line = h
        BY <3>1 DEF ReadsInOrder
      <4>2. i \in 1 .. end'
        BY <2>1, Writings
      <4> QED BY <2>1, <4>1, <4>2
    <3>2. CASE h \in RangeOf(Parsed(offset))
      <4>1. PICK i \in Ends(offset) : h = file[i].line
        BY <2>2, <3>2
      <4>2. i \in 1 .. end' /\ file[i].piece # "head"
        BY <2>1, <2>2, Writings, EndsWithin
      <4> QED BY <2>1, <4>1, <4>2
    <3> QED BY <2>3, <3>1, <3>2
  <2>7. ASSUME ~doubled' PROVE offset' = end' /\ Rising(handled')
    <3>1. ~doubled /\ ~(size < Len(file))
      BY <2>1, <2>7
    <3>2. size = Len(file)
      <4>1. size \in Int /\ size <= Len(file)
        BY Writings
      <4>2. Len(file) \in Int
        BY Writings
      <4>3. ~(size < Len(file))
        BY <3>1
      <4> QED BY <4>1, <4>2, <4>3
    <3>3. offset = end /\ Rising(handled)
      BY <3>1 DEF ReadsInOrder
    <3>4. ASSUME NEW x \in RangeOf(handled), NEW y \in RangeOf(Parsed(offset)) PROVE x < y
      <4>1. PICK i \in 1 .. end : file[i].piece # "head" /\ file[i].line = x
        BY DEF ReadsInOrder
      <4>2. PICK j \in Ends(offset) : y = file[j].line
        BY <2>2
      <4>3. i \in DOMAIN file /\ j \in DOMAIN file /\ i < j
        BY <2>2, <3>3, Writings
      <4> QED BY <4>1, <4>2, <4>3 DEF WritesInOrder
    <3>5. handled \in Seq(Int) /\ Parsed(offset) \in Seq(Int)
      <4>1. DOMAIN lines \subseteq Int
        BY Writings
      <4> QED BY <2>2, <4>1, Writings, SeqMonotonic
    <3>6. Rising(handled \o Parsed(offset))
      BY <2>2, <3>3, <3>4, <3>5, RisingConcat
    <3> QED BY <2>1, <3>2, <3>6
  <2> QED BY <2>4, <2>5, <2>6, <2>7 DEF ReadsInOrder
<1>2. ASSUME UNCHANGED reading, \A i \in 1 .. Len(file) : file'[i] = file[i],
             \A n \in DOMAIN lines : lines'[n] = lines[n]
      PROVE  ReadsInOrder'
  <2>1. \A i \in 1 .. end : file'[i] = file[i] /\ Cut(i)' = Cut(i)
    BY <1>2, Writings DEF Cut
  <2>2. offset > 0 => file'[offset] = file[offset]
    BY <1>2, Writings
  <2>3. offset' = offset /\ end' = end /\ handled' = handled /\ split' = split /\ doubled' = doubled
        /\ dropped' = dropped
    BY <1>2 DEF reading
  <2> QED BY <2>1, <2>2, <2>3 DEF ReadsInOrder
<1>3. ASSUME NEW w \in [line : Nat, piece : Pieces], file' = Append(file, w)
      PROVE  \A i \in 1 .. Len(file) : file'[i] = file[i]
  <2>1. DOMAIN lines \subseteq Nat
    BY Writings
  <2> QED BY <1>3, <2>1, FileGrows
<1>4. ASSUME NEW line \in Lines, Write(line) PROVE ReadsInOrder'
  <2>1. PICK piece \in {"whole", "head"} :
            file' = Append(file, [line |-> Len(lines) + 1, piece |-> piece])
    BY <1>4 DEF Write
  <2>2. [line |-> Len(lines) + 1, piece |-> piece] \in [line : Nat, piece : Pieces]
    BY Writings DEF Pieces
  <2>3. UNCHANGED reading /\ lines' = Append(lines, line)
    BY <1>4 DEF Write
  <2>4. \A n \in DOMAIN lines : lines'[n] = lines[n]
    BY <2>3, Writings, AppendProperties
  <2> QED BY <1>2, <1>3, <2>1, <2>2, <2>3, <2>4
<1>5. CASE Finish
  <2>1. file' = Append(file, [line |-> Len(lines), piece |-> "tail"]) /\ UNCHANGED <<lines, reading>>
    BY <1>5 DEF Finish
  <2>2. [line |-> Len(lines), piece |-> "tail"] \in [line : Nat, piece : Pieces]
    BY Writings DEF Pieces
  <2> QED BY <1>2, <1>3, <2>1, <2>2
<1>6. ASSUME UNCHANGED <<lines, file, reading>> PROVE ReadsInOrder'
  BY <1>2, <1>6
<1> QED BY <1>1, <1>4, <1>5, <1>6 DEF Next, Flush, FlushNothing, vars

LEMMA InOrder == Spec => [](TypeOK /\ WritesInOrder /\ ReadsInOrder)
<1>1. Init => WritesInOrder /\ ReadsInOrder
  BY DEF Init, WritesInOrder, HalfWritten, ReadsInOrder, RangeOf, Rising
<1>2. TypeOK /\ WritesInOrder /\ ReadsInOrder /\ [Next]_vars => WritesInOrder' /\ ReadsInOrder'
  BY WritesStayInOrder, ReadsStayInOrder
<1> QED BY <1>1, <1>2, TypeCorrect, PTL DEF Spec

\* A line behind the offset was handled once, however writes in two pieces and reads
\* interleave, unless the offset fell into it, bytes were read twice, splitlines cut
\* it or the handling of its batch raised before it.
THEOREM EachLineOnce == Spec => []LinesHandledOnce
<1>1. TypeOK /\ ReadsInOrder => LinesHandledOnce
  <2> SUFFICES ASSUME TypeOK, ReadsInOrder, NEW line \in DOMAIN lines
               PROVE  /\ Behind(line) /\ lines[line].cut = "no"
                         => line \in split \cup dropped \/ Times(line) >= 1
                      /\ doubled \/ Times(line) <= 1
    BY DEF LinesHandledOnce
  <2>1. DOMAIN handled = 1 .. Len(handled) /\ Len(handled) \in Nat
    BY Writings, LenProperties
  <2>2. /\ line \in RangeOf(handled) => Times(line) >= 1
        /\ handled \in Seq(Int) /\ Rising(handled) => Times(line) <= 1
    BY <2>1, Counted DEF Times
  <2>3. ASSUME Behind(line), lines[line].cut = "no"
        PROVE  line \in split \cup dropped \/ Times(line) >= 1
    <3>1. PICK i \in Places(line) : file[i].piece \in {"whole", "tail"} /\ i <= offset
      BY <2>3 DEF Behind
    <3>2. i \in 1 .. end /\ file[i].line = line /\ file[i].piece # "head" /\ Cut(i) = "no"
      BY <2>3, <3>1, Writings DEF Places, Cut
    <3> QED BY <2>2, <3>2 DEF ReadsInOrder
  <2>4. ASSUME ~doubled PROVE Times(line) <= 1
    <3>1. DOMAIN lines \subseteq Int
      BY Writings
    <3>2. handled \in Seq(Int)
      BY <3>1, Writings, SeqMonotonic
    <3> QED BY <2>2, <2>4, <3>2 DEF ReadsInOrder
  <2> QED BY <2>3, <2>4
<1> QED BY <1>1, InOrder, PTL

-----------------------------------------------------------------------------
(* The elements of a turn.                                                 *)

Parts == UNION {RangeOf(line.parts) : line \in Lines}
Named == {None} \cup Nat \cup UNION {ImagesIn(part) \cup CodesIn(part) : part \in Parts}
Elem == [tag : Content, at : Seq(Nat), of : Named, size : Nat]

LEMMA ElementType ==
    ASSUME NEW tag \in Content, NEW at \in Seq(Nat), NEW of \in Named, NEW chars \in Nat
    PROVE  Element(tag, at, of, chars) \in Elem
<1>1. Width \in Nat /\ Overhead \in Nat
  BY CapsAssumption
<1>2. Width * chars \in Nat
  BY <1>1
<1>3. Overhead + Width * chars \in Nat
  BY <1>1, <1>2
<1> QED BY <1>3 DEF Element, Elem

LEMMA TruncatedType ==
    ASSUME NEW chars \in Nat
    PROVE  Truncated(chars) \in Nat
  BY CapsAssumption DEF Truncated

LEMMA MarkdownType ==
    ASSUME NEW at \in Seq(Nat), NEW chars \in Nat
    PROVE  Markdown(at, chars) \in Elem
<1>1. "text" \in Content /\ None \in Named
  BY DEF Content, Named
<1> QED BY <1>1, TruncatedType, ElementType DEF Markdown

LEMMA ImageType ==
    ASSUME NEW at \in Seq(Nat), NEW path \in Named
    PROVE  Image(at, path) \in Elem
<1>1. "img" \in Content /\ 0 \in Nat
  BY DEF Content
<1> QED BY <1>1, ElementType DEF Image

\* A part of a line is well formed, and what it names is named.
LEMMA PartFacts ==
    ASSUME NEW part \in Parts
    PROVE  IsPart(part) /\ ImagesIn(part) \subseteq Named /\ CodesIn(part) \subseteq Named
  BY LinesAssumption DEF Parts, Named

LEMMA LineFacts ==
    ASSUME NEW line \in Lines
    PROVE  /\ Len(line.parts) \in Nat /\ DOMAIN line.parts = 1 .. Len(line.parts)
           /\ line.parts \in Seq(Parts)
           /\ \A p \in DOMAIN line.parts : line.parts[p] \in Parts
<1>1. line.parts \in Seq(RangeOf(line.parts)) /\ RangeOf(line.parts) \subseteq Parts
  BY LinesAssumption DEF IsSeq, Parts
<1>2. line.parts \in Seq(Parts)
  BY <1>1, SeqMonotonic
<1>3. Len(line.parts) \in Nat /\ DOMAIN line.parts = 1 .. Len(line.parts)
  BY <1>2, LenProperties
<1> QED BY <1>2, <1>3, ElementOfSeq

\* A function on an initial segment is a sequence.
LEMMA SeqOfFunction ==
    ASSUME NEW S, NEW n \in Nat, NEW f \in [1 .. n -> S]
    PROVE  f \in Seq(S) /\ Len(f) = n /\ DOMAIN f = 1 .. n
<1>1. f \in Seq(S)
  BY SeqDef
<1>2. DOMAIN f = 1 .. Len(f) /\ Len(f) \in Nat
  BY <1>1, LenProperties
<1> QED BY <1>1, <1>2

LEMMA InlineIs ==
    ASSUME NEW at \in Seq(Nat), NEW images, IsSeq(images), RangeOf(images) \subseteq Named, NEW known
    PROVE  /\ InlineImages(at, images, known) \in Seq(Elem)
           /\ RangeOf(InlineImages(at, images, known)) =
                  {Image(at, path) : path \in RangeOf(images) \cap known}
<1> DEFINE n == Len(images)
           s == [i \in DOMAIN images |-> Image(at, images[i])]
           K == {i \in DOMAIN images : images[i] \in known}
<1>1. n \in Nat /\ DOMAIN images = 1 .. n
  BY LenProperties DEF IsSeq
<1>2. \A i \in 1 .. n : images[i] \in Named
  BY <1>1 DEF RangeOf
<1>3. s \in [1 .. n -> Elem] /\ \A i \in 1 .. n : s[i] = Image(at, images[i])
  BY <1>1, <1>2, ImageType
<1>4. InlineImages(at, images, known) = Picked(s, K)
  BY DEF InlineImages
<1> HIDE DEF s
<1>5. s \in Seq(Elem) /\ Len(s) = n
  BY <1>1, <1>3, SeqOfFunction
<1>6. Picked(s, K) \in Seq(Elem)
  BY <1>5, PickedType
<1>7. RangeOf(Picked(s, K)) = {s[i] : i \in (1 .. Len(s)) \cap K}
  <2> HIDE DEF K
  <2> QED BY <1>5, PickedRange
<1>8. (1 .. Len(s)) \cap K = K
  BY <1>1, <1>5
<1>9. {s[i] : i \in K} = {Image(at, path) : path \in RangeOf(images) \cap known}
  BY <1>1, <1>3 DEF RangeOf
<1> QED BY <1>4, <1>6, <1>7, <1>8, <1>9

LEMMA NoElement == << >> \in Seq(Elem) /\ RangeOf(<< >>) = {}
  BY DEF RangeOf

LEMMA OneElement ==
    ASSUME NEW x \in Elem
    PROVE  <<x>> \in Seq(Elem) /\ RangeOf(<<x>>) = {x}
  BY DEF RangeOf

LEMMA TwoElements ==
    ASSUME NEW x \in Elem, NEW y \in Elem
    PROVE  <<x, y>> \in Seq(Elem) /\ RangeOf(<<x, y>>) = {x, y}
  BY DEF RangeOf

\* What a piece of a text becomes.
LEMMA SegmentIs ==
    ASSUME NEW at \in Seq(Nat), NEW seg, IsSegment(seg), RangeOf(seg.images) \subseteq Named,
           seg.code \in Named, NEW known, NEW shown
    PROVE  /\ Segment(at, seg, known, shown) \in Seq(Elem)
           /\ RangeOf(Segment(at, seg, known, shown)) =
                IF seg.code = None
                THEN IF seg.chars = 0 THEN {}
                     ELSE {Markdown(at, seg.chars)}
                          \cup {Image(at, path) : path \in RangeOf(seg.images) \cap known}
                ELSE IF seg.code \in shown
                     THEN {Element("placeholder", at, seg.code, 0), Image(at, seg.code)}
                     ELSE {Markdown(at, seg.chars)}
<1>1. Markdown(at, seg.chars) \in Elem
  BY MarkdownType DEF IsSegment
<1>2. /\ InlineImages(at, seg.images, known) \in Seq(Elem)
      /\ RangeOf(InlineImages(at, seg.images, known)) =
             {Image(at, path) : path \in RangeOf(seg.images) \cap known}
  BY InlineIs DEF IsSegment
<1>3. Element("placeholder", at, seg.code, 0) \in Elem /\ Image(at, seg.code) \in Elem
  <2>1. "placeholder" \in Content /\ 0 \in Nat
    BY DEF Content
  <2> QED BY <2>1, ElementType, ImageType
<1>4. CASE seg.code = None /\ seg.chars = 0
  <2>1. Segment(at, seg, known, shown) = << >>
    BY <1>4 DEF Segment
  <2> QED BY <1>1, <1>4, <2>1, NoElement
<1>5. CASE seg.code = None /\ seg.chars # 0
  <2>1. Segment(at, seg, known, shown) = <<Markdown(at, seg.chars)>> \o InlineImages(at, seg.images, known)
    BY <1>5 DEF Segment
  <2>2. <<Markdown(at, seg.chars)>> \in Seq(Elem) /\ RangeOf(<<Markdown(at, seg.chars)>>) = {Markdown(at, seg.chars)}
    BY <1>1, OneElement
  <2>3. Segment(at, seg, known, shown) \in Seq(Elem)
    BY <1>2, <2>1, <2>2, ConcatProperties
  <2>4. RangeOf(Segment(at, seg, known, shown)) =
            RangeOf(<<Markdown(at, seg.chars)>>) \cup RangeOf(InlineImages(at, seg.images, known))
    <3> DEFINE a == <<Markdown(at, seg.chars)>>
               b == InlineImages(at, seg.images, known)
    <3>1. a \in Seq(Elem) /\ b \in Seq(Elem) /\ Segment(at, seg, known, shown) = a \o b
      BY <1>2, <2>1, <2>2
    <3> HIDE DEF a, b
    <3>2. RangeOf(a \o b) = RangeOf(a) \cup RangeOf(b)
      BY <3>1, RangeOfConcat
    <3>3. RangeOf(Segment(at, seg, known, shown)) = RangeOf(a) \cup RangeOf(b)
      BY <3>1, <3>2
    <3> QED BY <3>3 DEF a, b
  <2> QED BY <1>2, <1>5, <2>2, <2>3, <2>4
<1>6. CASE seg.code # None /\ seg.code \in shown
  <2>1. Segment(at, seg, known, shown) = <<Element("placeholder", at, seg.code, 0), Image(at, seg.code)>>
    BY <1>6 DEF Segment
  <2>2. /\ Segment(at, seg, known, shown) \in Seq(Elem)
        /\ RangeOf(Segment(at, seg, known, shown)) =
               {Element("placeholder", at, seg.code, 0), Image(at, seg.code)}
    <3> DEFINE x == Element("placeholder", at, seg.code, 0)
               y == Image(at, seg.code)
    <3>1. x \in Elem /\ y \in Elem /\ Segment(at, seg, known, shown) = <<x, y>>
      BY <1>3, <2>1
    <3> HIDE DEF x, y
    <3>2. <<x, y>> \in Seq(Elem) /\ RangeOf(<<x, y>>) = {x, y}
      BY <3>1, TwoElements
    <3>3. Segment(at, seg, known, shown) \in Seq(Elem) /\ RangeOf(Segment(at, seg, known, shown)) = {x, y}
      BY <3>1, <3>2
    <3> QED BY <3>3 DEF x, y
  <2> QED BY <1>6, <2>2
<1>7. CASE seg.code # None /\ seg.code \notin shown
  <2>1. Segment(at, seg, known, shown) = <<Markdown(at, seg.chars)>>
    BY <1>7 DEF Segment
  <2>2. /\ Segment(at, seg, known, shown) \in Seq(Elem)
        /\ RangeOf(Segment(at, seg, known, shown)) = {Markdown(at, seg.chars)}
    <3> DEFINE x == Markdown(at, seg.chars)
    <3>1. x \in Elem /\ Segment(at, seg, known, shown) = <<x>>
      BY <1>1, <2>1
    <3> HIDE DEF x
    <3>2. <<x>> \in Seq(Elem) /\ RangeOf(<<x>>) = {x}
      BY <3>1, OneElement
    <3>3. Segment(at, seg, known, shown) \in Seq(Elem) /\ RangeOf(Segment(at, seg, known, shown)) = {x}
      BY <3>1, <3>2
    <3> QED BY <3>3 DEF x
  <2> QED BY <1>7, <2>2
<1> QED BY <1>4, <1>5, <1>6, <1>7

LEMMA LeastAndGreatest ==
    ASSUME NEW n \in Nat, NEW T \in SUBSET (1 .. n), T # {}
    PROVE  /\ Min(T) \in T /\ \A x \in T : Min(T) <= x
           /\ Max(T) \in T /\ \A x \in T : x <= Max(T)
<1>1. \E x \in T : \A y \in T : x <= y
  BY Least
<1>2. \A x \in T : x \in Int /\ x <= n
  <2>1. T \subseteq 1 .. n
    OBVIOUS
  <2> SUFFICES ASSUME NEW x \in T PROVE x \in Int /\ x <= n
    OBVIOUS
  <2>2. x \in 1 .. n
    BY <2>1
  <2> QED BY <2>2
<1>3. \E x \in T : \A y \in T : y <= x
  <2> DEFINE U == {n - x : x \in T}
  <2>1. U \subseteq Nat /\ U # {}
    <3>1. \A x \in T : n - x \in Nat
      BY <1>2
    <3>2. \E x \in T : n - x \in U
      OBVIOUS
    <3> QED BY <3>1, <3>2
  <2>2. PICK u \in U : \A v \in U : u <= v
    <3> HIDE DEF U
    <3> QED BY <2>1, Least
  <2>3. PICK x \in T : u = n - x
    OBVIOUS
  <2>4. ASSUME NEW y \in T PROVE y <= x
    <3>1. n - y \in U
      OBVIOUS
    <3> QED BY <2>2, <2>3, <3>1
  <2> QED BY <2>4
<1> QED BY <1>1, <1>3 DEF Min, Max

\* The result of a call is a result part of the turn with its id; there is none only
\* if the turn has no such part.
LEMMA ResultIs ==
    ASSUME NEW turn \in Seq(Lines), NEW id
    PROVE  LET r == ResultOf(turn, id)
           IN  \/ r = None /\ \A l \in DOMAIN turn : ~HasResult(turn[l], id)
               \/ \E l \in DOMAIN turn : \E p \in DOMAIN turn[l].parts :
                      r = turn[l].parts[p] /\ IsResult(r, id) /\ r # None /\ r \in Parts
<1> DEFINE n == Len(turn)
           I == {l \in 1 .. n : HasResult(turn[l], id)}
<1>1. n \in Nat /\ DOMAIN turn = 1 .. n /\ \A l \in 1 .. n : turn[l] \in Lines
  BY LenProperties, ElementOfSeq
<1>2. LastLine(turn, id) = IF I # {} THEN Max(I) ELSE 0
  BY DEF LastLine, SelectLastInSeq
<1>3. CASE I = {}
  <2>1. ResultOf(turn, id) = None
    BY <1>2, <1>3 DEF ResultOf
  <2> QED BY <1>1, <1>3, <2>1
<1>4. CASE I # {}
  <2> DEFINE l == Max(I)
             parts == turn[l].parts
             J == {p \in 1 .. Len(parts) : IsResult(parts[p], id)}
  <2>1. l \in I
    <3> HIDE DEF I
    <3>1. I \in SUBSET (1 .. n)
      BY DEF I
    <3> QED BY <1>1, <1>4, <3>1, LeastAndGreatest
  <2>2. l \in 1 .. n /\ l # 0 /\ HasResult(turn[l], id) /\ turn[l] \in Lines
    BY <1>1, <2>1
  <2> HIDE DEF l
  <2>3. Len(parts) \in Nat /\ DOMAIN parts = 1 .. Len(parts) /\ \A p \in DOMAIN parts : parts[p] \in Parts
    BY <2>2, LineFacts
  <2>4. J # {}
    BY <2>2, <2>3 DEF HasResult
  <2>5. Min(J) \in J
    <3> HIDE DEF J
    <3>1. J \in SUBSET (1 .. Len(parts))
      BY DEF J
    <3> QED BY <2>3, <2>4, <3>1, LeastAndGreatest
  <2>6. ResultOf(turn, id) = parts[Min(J)]
    <3>1. LastLine(turn, id) = l
      BY <1>2, <1>4 DEF l
    <3>2. SelectInSeq(parts, LAMBDA p : IsResult(p, id)) = Min(J)
      BY <2>4 DEF SelectInSeq
    <3> QED BY <2>2, <3>1, <3>2 DEF ResultOf
  <2>7. Min(J) \in DOMAIN parts /\ IsResult(parts[Min(J)], id)
    BY <2>3, <2>5
  <2>8. parts[Min(J)] \in Parts /\ parts[Min(J)] # None
    BY <2>3, <2>7, PartFacts DEF IsPart
  <2> QED BY <1>1, <2>2, <2>6, <2>7, <2>8
<1> QED BY <1>3, <1>4

\* What a call of a tool becomes: its block, and the images of its result.
ResultImages(at, turn, id, known) ==
    IF ResultOf(turn, id) = None THEN {}
    ELSE {Image(at, path) : path \in RangeOf(ResultOf(turn, id).images) \cap known}

LEMMA ToolIs ==
    ASSUME NEW at \in Seq(Nat), NEW part \in Parts, part.type = "use",
           NEW turn \in Seq(Lines), NEW known, NEW how
    PROVE  /\ Tool(at, part, turn, known, how) \in Seq(Elem)
           /\ \E block \in Elem :
                /\ block.tag = "tool" /\ block.at = at
                /\ RangeOf(Tool(at, part, turn, known, how)) =
                       (IF how = "minimal" THEN {} ELSE {block})
                       \cup ResultImages(at, turn, part.id, known)
<1> DEFINE r == ResultOf(turn, part.id)
           block == Element("tool", at, IF r = None THEN None ELSE r.chars,
                            BodyChars(part.input, r, how))
           blocks == IF how = "minimal" THEN << >> ELSE <<block>>
           images == IF r = None THEN << >> ELSE InlineImages(at, r.images, known)
<1>1. part.input \in Nat
  BY PartFacts DEF IsPart
<1>2. r = None \/ (r # None /\ r \in Parts /\ r.type = "result")
  <2> HIDE DEF r
  <2>1. \/ r = None /\ \A l \in DOMAIN turn : ~HasResult(turn[l], part.id)
        \/ \E l \in DOMAIN turn : \E p \in DOMAIN turn[l].parts :
               r = turn[l].parts[p] /\ IsResult(r, part.id) /\ r # None /\ r \in Parts
    BY ResultIs DEF r
  <2> QED BY <2>1 DEF IsResult
<1> HIDE DEF r
<1>3. ASSUME r # None
      PROVE  r.chars \in Nat /\ IsSeq(r.images) /\ RangeOf(r.images) \subseteq Named
  <2>1. IsPart(r) /\ ImagesIn(r) \subseteq Named
    BY <1>2, <1>3, PartFacts
  <2> QED BY <1>2, <1>3, <2>1 DEF IsPart, ImagesIn
<1>4. BodyChars(part.input, r, how) \in Nat
  <2> DEFINE shown == IF how = "full" THEN part.input ELSE 0
  <2>1. shown \in Nat
    BY <1>1
  <2>2. BodyChars(part.input, r, how) =
            IF r = None THEN shown + Pending ELSE Truncated(shown + r.chars)
    BY DEF BodyChars
  <2> HIDE DEF shown
  <2>3. CASE r = None
    BY <2>1, <2>2, <2>3, CapsAssumption
  <2>4. CASE r # None
    <3>1. shown + r.chars \in Nat
      BY <1>3, <2>1, <2>4
    <3> QED BY <2>2, <2>4, <3>1, TruncatedType
  <2> QED BY <2>3, <2>4
<1>5. block \in Elem
  <2>1. "tool" \in Content /\ (IF r = None THEN None ELSE r.chars) \in Named
    BY <1>3 DEF Content, Named
  <2> QED BY <1>4, <2>1, ElementType
<1>6. block.tag = "tool" /\ block.at = at
  BY DEF Element
<1> HIDE DEF block
<1>7. /\ blocks \in Seq(Elem)
      /\ RangeOf(blocks) = IF how = "minimal" THEN {} ELSE {block}
  BY <1>5, NoElement, OneElement
<1>8. /\ images \in Seq(Elem)
      /\ RangeOf(images) = ResultImages(at, turn, part.id, known)
  <2>1. CASE r = None
    <3>1. images = << >> /\ ResultImages(at, turn, part.id, known) = {}
      BY <2>1 DEF ResultImages, r
    <3> QED BY <1>5, <3>1, NoElement
  <2>2. CASE r # None
    <3>1. images = InlineImages(at, r.images, known)
      BY <2>2
    <3>2. ResultImages(at, turn, part.id, known) =
              {Image(at, path) : path \in RangeOf(r.images) \cap known}
      BY <2>2 DEF ResultImages, r
    <3> QED BY <1>3, <2>2, <3>1, <3>2, InlineIs
  <2> QED BY <2>1, <2>2
<1>9. Tool(at, part, turn, known, how) = blocks \o images
  BY DEF Tool, block, r
<1> HIDE DEF blocks, images
<1>10. blocks \o images \in Seq(Elem) /\ RangeOf(blocks \o images) = RangeOf(blocks) \cup RangeOf(images)
  BY <1>7, <1>8, ConcatProperties, RangeOfConcat
<1> QED BY <1>5, <1>6, <1>7, <1>8, <1>9, <1>10

\* What a part of a line becomes.
LEMMA PartIs ==
    ASSUME NEW at \in Seq(Nat), NEW part \in Parts, NEW turn \in Seq(Lines),
           NEW known, NEW shown, NEW how
    PROVE  LET els == Part(at, part, turn, known, shown, how)
           IN  /\ els \in Seq(Elem)
               /\ part.type = "text" => RangeOf(els) =
                      UNION {RangeOf(Segment(Append(at, s), part.segs[s], known, shown)) :
                                 s \in DOMAIN part.segs}
               /\ part.type = "image" =>
                      RangeOf(els) = IF part.path \in known THEN {Image(at, part.path)} ELSE {}
               /\ part.type = "use" => els = Tool(at, part, turn, known, how)
               /\ part.type = "result" => RangeOf(els) = {}
<1> DEFINE els == Part(at, part, turn, known, shown, how)
<1>1. IsPart(part) /\ ImagesIn(part) \subseteq Named /\ CodesIn(part) \subseteq Named
  BY PartFacts
<1>2. CASE part.type = "text"
  <2> DEFINE seqs == [s \in DOMAIN part.segs |-> Segment(Append(at, s), part.segs[s], known, shown)]
             n == Len(part.segs)
  <2>1. IsSeq(part.segs) /\ \A seg \in RangeOf(part.segs) : IsSegment(seg)
    BY <1>1, <1>2 DEF IsPart
  <2>2. n \in Nat /\ DOMAIN part.segs = 1 .. n
    BY <2>1, LenProperties DEF IsSeq
  <2>3. ASSUME NEW s \in 1 .. n
        PROVE  Segment(Append(at, s), part.segs[s], known, shown) \in Seq(Elem)
    <3>1. part.segs[s] \in RangeOf(part.segs)
      BY <2>2 DEF RangeOf
    <3>2. Append(at, s) \in Seq(Nat)
      BY <2>2, AppendProperties
    <3>3. RangeOf(part.segs[s].images) \subseteq Named
      BY <1>1, <1>2, <3>1 DEF ImagesIn
    <3>4. part.segs[s].code \in Named
      BY <1>1, <1>2, <3>1 DEF CodesIn
    <3>5. IsSegment(part.segs[s])
      BY <2>1, <3>1
    <3> QED BY <3>2, <3>3, <3>4, <3>5, SegmentIs
  <2>4. seqs \in [1 .. n -> Seq(Elem)]
        /\ \A s \in 1 .. n : seqs[s] = Segment(Append(at, s), part.segs[s], known, shown)
    BY <2>2, <2>3
  <2>5. els = Joined(seqs)
    BY <1>2 DEF Part
  <2> HIDE DEF seqs, els
  <2>6. seqs \in Seq(Seq(Elem)) /\ DOMAIN seqs = 1 .. n
    BY <2>2, <2>4, SeqOfFunction
  <2>7. Joined(seqs) \in Seq(Elem)
        /\ RangeOf(Joined(seqs)) = UNION {RangeOf(seqs[s]) : s \in DOMAIN seqs}
    BY <2>6, JoinedType, JoinedRange
  <2>8. UNION {RangeOf(seqs[s]) : s \in DOMAIN seqs} =
            UNION {RangeOf(Segment(Append(at, s), part.segs[s], known, shown)) : s \in DOMAIN part.segs}
    BY <2>2, <2>4, <2>6
  <2> QED BY <1>2, <2>5, <2>7, <2>8 DEF els
<1>3. CASE part.type = "image"
  <2>1. els = IF part.path \in known THEN <<Image(at, part.path)>> ELSE << >>
    BY <1>3 DEF Part
  <2>2. Image(at, part.path) \in Elem
    <3>1. part.path \in Named
      BY <1>1, <1>3 DEF ImagesIn
    <3> QED BY <3>1, ImageType
  <2> DEFINE x == Image(at, part.path)
  <2> HIDE DEF x, els
  <2>3. <<x>> \in Seq(Elem) /\ << >> \in Seq(Elem) /\ RangeOf(<<x>>) = {x} /\ RangeOf(<< >>) = {}
    BY <2>2, NoElement, OneElement DEF x
  <2>4. els \in Seq(Elem) /\ RangeOf(els) = IF part.path \in known THEN {x} ELSE {}
    BY <2>1, <2>3 DEF x
  <2> QED BY <1>3, <2>4 DEF x, els
<1>4. CASE part.type = "use"
  <2>1. els = Tool(at, part, turn, known, how)
    BY <1>4 DEF Part
  <2>2. Tool(at, part, turn, known, how) \in Seq(Elem)
    BY <1>4, ToolIs
  <2> HIDE DEF els
  <2> QED BY <1>4, <2>1, <2>2 DEF els
<1>5. CASE part.type = "result"
  <2>1. els = << >>
    BY <1>5 DEF Part
  <2> HIDE DEF els
  <2>2. els \in Seq(Elem) /\ RangeOf(els) = {}
    BY <2>1, EmptySeq DEF RangeOf
  <2> QED BY <1>5, <2>2 DEF els
<1>6. part.type \in {"text", "image", "use", "result"}
  BY <1>1 DEF IsPart
<1> QED BY <1>2, <1>3, <1>4, <1>5, <1>6

\* What a turn becomes: elements of content, each from its part of its line.
LEMMA ElementsAre ==
    ASSUME NEW turn \in Seq(Lines), NEW known, NEW shown, NEW how
    PROVE  /\ Elements(turn, known, shown, how) \in Seq(Elem)
           /\ RangeOf(Elements(turn, known, shown, how)) =
                  UNION {UNION {RangeOf(Part(<<l, p>>, turn[l].parts[p], turn, known, shown, how)) :
                             p \in DOMAIN turn[l].parts} : l \in DOMAIN turn}
<1> DEFINE n == Len(turn)
           Of(l, p) == Part(<<l, p>>, turn[l].parts[p], turn, known, shown, how)
           row(l) == [p \in DOMAIN turn[l].parts |-> Of(l, p)]
           seqs == [l \in DOMAIN turn |-> Joined(row(l))]
<1>1. n \in Nat /\ DOMAIN turn = 1 .. n /\ \A l \in 1 .. n : turn[l] \in Lines
  BY LenProperties, ElementOfSeq
<1>2. ASSUME NEW l \in 1 .. n
      PROVE  /\ Joined(row(l)) \in Seq(Elem)
             /\ RangeOf(Joined(row(l))) = UNION {RangeOf(Of(l, p)) : p \in DOMAIN turn[l].parts}
  <2> DEFINE m == Len(turn[l].parts)
  <2>1. m \in Nat /\ DOMAIN turn[l].parts = 1 .. m
        /\ \A p \in 1 .. m : turn[l].parts[p] \in Parts
    BY <1>1, LineFacts
  <2>2. ASSUME NEW p \in 1 .. m PROVE Of(l, p) \in Seq(Elem)
    <3>1. <<l, p>> \in Seq(Nat)
      BY <1>1, <2>1
    <3> QED BY <2>1, <3>1, PartIs
  <2> HIDE DEF Of
  <2>3. row(l) \in [1 .. m -> Seq(Elem)] /\ \A p \in 1 .. m : row(l)[p] = Of(l, p)
    BY <2>1, <2>2
  <2> DEFINE r == row(l)
  <2>4. r \in [1 .. m -> Seq(Elem)] /\ \A p \in 1 .. m : r[p] = Of(l, p)
    BY <2>3
  <2> HIDE DEF r
  <2>5. r \in Seq(Seq(Elem)) /\ DOMAIN r = 1 .. m
    BY <2>1, <2>4, SeqOfFunction
  <2>6. Joined(r) \in Seq(Elem) /\ RangeOf(Joined(r)) = UNION {RangeOf(r[p]) : p \in DOMAIN r}
    BY <2>5, JoinedType, JoinedRange
  <2>7. UNION {RangeOf(r[p]) : p \in DOMAIN r} = UNION {RangeOf(Of(l, p)) : p \in DOMAIN turn[l].parts}
    BY <2>1, <2>4, <2>5
  <2> QED BY <2>6, <2>7 DEF r
<1>3. Elements(turn, known, shown, how) = Joined(seqs)
  BY DEF Elements
<1> HIDE DEF row, Of
<1>4. seqs \in [1 .. n -> Seq(Elem)] /\ \A l \in 1 .. n : seqs[l] = Joined(row(l))
  BY <1>1, <1>2
<1> HIDE DEF seqs
<1>5. seqs \in Seq(Seq(Elem)) /\ DOMAIN seqs = 1 .. n
  BY <1>1, <1>4, SeqOfFunction
<1>6. Joined(seqs) \in Seq(Elem) /\ RangeOf(Joined(seqs)) = UNION {RangeOf(seqs[l]) : l \in DOMAIN seqs}
  BY <1>5, JoinedType, JoinedRange
<1>7. UNION {RangeOf(seqs[l]) : l \in DOMAIN seqs} =
          UNION {UNION {RangeOf(Of(l, p)) : p \in DOMAIN turn[l].parts} : l \in DOMAIN turn}
  BY <1>1, <1>2, <1>4, <1>5
<1> QED BY <1>3, <1>6, <1>7 DEF Of

-----------------------------------------------------------------------------
(* The two caps.                                                           *)

Marks == {"note", "tokens", "spinner"}
CardElem == [tag : Content \cup Marks, at : Seq(Nat), of : Named, size : Nat]

LEMMA CardElemType ==
    ASSUME NEW tag \in Marks, NEW of \in Nat \cup {None}
    PROVE  Element(tag, << >>, of, 0) \in CardElem /\ Element(tag, << >>, of, 0).tag = tag
           /\ Element(tag, << >>, of, 0).of = of
<1>1. Overhead + Width * 0 \in Nat
  BY CapsAssumption
<1>2. << >> \in Seq(Nat) /\ of \in Named
  BY EmptySeq DEF Named
<1> QED BY <1>1, <1>2 DEF Element, CardElem

LEMMA ElemIsCardElem == ASSUME NEW all \in Seq(Elem) PROVE all \in Seq(CardElem)
<1>1. Elem \subseteq CardElem
  BY DEF Elem, CardElem
<1> QED BY <1>1, SeqMonotonic

\* The bytes of a sequence are the last of its sums.
Sums(f, s) == f[0] = 0 /\ \A i \in 1 .. Len(s) : f[i] = f[i - 1] + s[i].size

LEMMA SumsExist ==
    ASSUME NEW s \in Seq(CardElem)
    PROVE  \E f \in [0 .. Len(s) -> Nat] : Sums(f, s)
<1> DEFINE n == Len(s)
           H == [i \in 1 .. n |-> [v \in Nat |-> v + s[i].size]]
<1>1. n \in Nat /\ \A i \in 1 .. n : s[i].size \in Nat
  <2>1. \A i \in 1 .. n : s[i] \in CardElem
    BY ElementOfSeq
  <2> QED BY <2>1, LenProperties DEF CardElem
<1>2. H \in Steps(Nat, n)
  <2>1. \A i \in 1 .. n, v \in Nat : v + s[i].size \in Nat
    BY <1>1
  <2> QED BY <2>1 DEF Steps
<1>3. PICK f \in [0 .. n -> Nat] : Follows(f, 0, H, n)
  <2> HIDE DEF n, H
  <2> QED BY <1>1, <1>2, Recursion
<1>4. \A i \in 1 .. n : i - 1 \in 0 .. n /\ f[i - 1] \in Nat
  <2>1. \A i \in 1 .. n : i - 1 \in 0 .. n
    BY <1>1
  <2> QED BY <2>1
<1>5. Sums(f, s)
  BY <1>3, <1>4 DEF Follows, Sums
<1> QED BY <1>5

LEMMA BytesBy ==
    ASSUME NEW s \in Seq(CardElem), NEW g \in [0 .. Len(s) -> Nat], Sums(g, s)
    PROVE  BytesOf(s) = g[Len(s)]
<1> DEFINE n == Len(s)
           Eq(f) == f = [i \in 0 .. n |-> IF i = 0 THEN 0 ELSE f[i - 1] + s[i].size]
           a == CHOOSE f : Eq(f)
           T == {m \in Nat : m <= n => a[m] = g[m]}
<1>1. n \in Nat
  BY LenProperties
<1>2. Eq(g)
  <2>1. ASSUME NEW i \in 0 .. n PROVE g[i] = IF i = 0 THEN 0 ELSE g[i - 1] + s[i].size
    <3>1. i = 0 \/ i \in 1 .. n
      BY <1>1
    <3> QED BY <3>1 DEF Sums
  <2> QED BY <2>1
<1>3. Eq(a)
  BY <1>2
<1>4. BytesOf(s) = a[n]
  BY DEF BytesOf
<1> HIDE DEF a
<1>5. a[0] = 0 /\ \A i \in 1 .. n : a[i] = a[i - 1] + s[i].size
  <2>1. \A i \in 1 .. n : i \in 0 .. n /\ i # 0
    BY <1>1
  <2>2. 0 \in 0 .. n
    BY <1>1
  <2> QED BY <1>3, <2>1, <2>2
<1>6. 0 \in T
  BY <1>5 DEF Sums
<1>7. ASSUME NEW m \in Nat, m \in T PROVE m + 1 \in T
  <2> SUFFICES ASSUME m + 1 <= n PROVE a[m + 1] = g[m + 1]
    OBVIOUS
  <2>1. m + 1 \in 1 .. n /\ (m + 1) - 1 = m /\ a[m] = g[m]
    BY <1>1, <1>7
  <2>2. a[m + 1] = a[m] + s[m + 1].size /\ g[m + 1] = g[m] + s[m + 1].size
    BY <1>5, <2>1 DEF Sums
  <2> QED BY <2>1, <2>2
<1>8. n \in T
  <2> HIDE DEF T
  <2> QED BY <1>1, <1>6, <1>7, Induction
<1> QED BY <1>1, <1>4, <1>8

LEMMA PrefixIs ==
    ASSUME NEW S, NEW s \in Seq(S), NEW k \in 0 .. Len(s)
    PROVE  /\ SubSeq(s, 1, k) \in Seq(S) /\ Len(SubSeq(s, 1, k)) = k
           /\ \A i \in 1 .. k : SubSeq(s, 1, k)[i] = s[i]
<1>1. k \in Nat /\ \A i \in 1 .. k : s[i] \in S
  BY LenProperties, ElementOfSeq
<1>2. /\ SubSeq(s, 1, k) \in Seq(S)
      /\ Len(SubSeq(s, 1, k)) = IF 1 <= k THEN k - 1 + 1 ELSE 0
      /\ \A i \in 1 .. k - 1 + 1 : SubSeq(s, 1, k)[i] = s[1 + i - 1]
  BY <1>1, SubSeqProperties
<1>3. \A i \in 1 .. k : i \in 1 .. k - 1 + 1 /\ 1 + i - 1 = i
  BY <1>1
<1> QED BY <1>1, <1>2, <1>3

LEMMA BytesOfPrefix ==
    ASSUME NEW s \in Seq(CardElem), NEW g \in [0 .. Len(s) -> Nat], Sums(g, s),
           NEW k \in 0 .. Len(s)
    PROVE  BytesOf(SubSeq(s, 1, k)) = g[k]
<1> DEFINE t == SubSeq(s, 1, k)
           h == [i \in 0 .. k |-> g[i]]
<1>1. t \in Seq(CardElem) /\ Len(t) = k /\ \A i \in 1 .. k : t[i] = s[i]
  BY PrefixIs
<1>2. Len(s) \in Nat
  BY LenProperties
<1>3. h \in [0 .. k -> Nat]
  BY <1>2
<1>4. Sums(h, t)
  <2>1. h[0] = 0
    BY <1>2 DEF Sums
  <2>2. ASSUME NEW i \in 1 .. k PROVE h[i] = h[i - 1] + t[i].size
    <3>1. i \in 1 .. Len(s) /\ i \in 0 .. k /\ i - 1 \in 0 .. k
      BY <1>2
    <3>2. g[i] = g[i - 1] + s[i].size
      BY <3>1 DEF Sums
    <3> QED BY <1>1, <3>1, <3>2
  <2> QED BY <1>1, <2>1, <2>2 DEF Sums
<1>5. h[k] = g[k]
  BY <1>2
<1> HIDE DEF t, h
<1>6. BytesOf(t) = h[Len(t)]
  BY <1>1, <1>3, <1>4, BytesBy
<1> QED BY <1>1, <1>5, <1>6 DEF t

\* The cap on bytes keeps the longest beginning within the budget, or one element.
LEMMA CapBytesIs ==
    ASSUME NEW es \in Seq(CardElem)
    PROVE  \E k \in 0 .. Len(es) :
              /\ CapBytes(es) = IF k = Len(es) THEN es
                                ELSE Append(SubSeq(es, 1, k), Note(Len(es) - k))
              /\ k <= 1 \/ BytesOf(SubSeq(es, 1, k)) <= Budget
              /\ k < Len(es) => k >= 1 /\ BytesOf(SubSeq(es, 1, k + 1)) > Budget
<1> DEFINE n == Len(es)
           V == [kept : Nat, total : Nat]
           start == [kept |-> 0, total |-> 0]
           next(i, v) == IF v.kept < i - 1 \/ (i > 1 /\ Over(v.total, es[i])) THEN v
                         ELSE [kept |-> i, total |-> v.total + es[i].size]
           H == [i \in 1 .. n |-> [v \in V |-> next(i, v)]]
           Eq(f) == f = [i \in 0 .. n |-> IF i = 0 THEN start ELSE next(i, f[i - 1])]
           acc == CHOOSE f : Eq(f)
<1>1. n \in Nat /\ \A i \in 1 .. n : es[i].size \in Nat
  <2>1. \A i \in 1 .. n : es[i] \in CardElem
    BY ElementOfSeq
  <2> QED BY <2>1, LenProperties DEF CardElem
<1>2. \A i \in 1 .. n, v \in V : next(i, v) \in V
  BY <1>1
<1>3. H \in Steps(V, n) /\ start \in V
  BY <1>2 DEF Steps
<1>4. PICK f \in [0 .. n -> V] : Follows(f, start, H, n)
  <2> HIDE DEF n, V, H, start
  <2> QED BY <1>1, <1>3, Recursion
<1>5. Eq(f)
  <2>1. f[0] = start /\ \A i \in 1 .. n : f[i] = H[i][f[i - 1]]
    BY <1>4 DEF Follows
  <2>2. ASSUME NEW i \in 1 .. n PROVE f[i] = next(i, f[i - 1])
    <3>1. i - 1 \in 0 .. n
      BY <1>1
    <3>2. f[i - 1] \in V
      BY <3>1
    <3> HIDE DEF next, V
    <3> QED BY <2>1, <3>2
  <2>3. ASSUME NEW i \in 0 .. n PROVE f[i] = IF i = 0 THEN start ELSE next(i, f[i - 1])
    <3>1. i = 0 \/ i \in 1 .. n
      BY <1>1
    <3> HIDE DEF next
    <3> QED BY <2>1, <2>2, <3>1
  <2> HIDE DEF next
  <2> QED BY <2>3
<1>6. Eq(acc)
  <2> HIDE DEF Eq
  <2> QED BY <1>5
<1>7. CapBytes(es) = IF acc[n].kept = n THEN es
                     ELSE Append(SubSeq(es, 1, acc[n].kept), Note(n - acc[n].kept))
  BY DEF CapBytes
<1> HIDE DEF acc
<1>8. acc[0] = start /\ \A i \in 1 .. n : acc[i] = next(i, acc[i - 1])
  <2>1. \A i \in 1 .. n : i \in 0 .. n /\ i # 0
    BY <1>1
  <2>2. 0 \in 0 .. n
    BY <1>1
  <2> HIDE DEF next
  <2> QED BY <1>6, <2>1, <2>2
<1>9. PICK g \in [0 .. n -> Nat] : Sums(g, es)
  BY SumsExist
<1> DEFINE P(m) == /\ acc[m].kept \in 0 .. m /\ acc[m].total = g[acc[m].kept]
                   /\ acc[m].kept <= 1 \/ g[acc[m].kept] <= Budget
                   /\ acc[m].kept < m => acc[m].kept >= 1 /\ g[acc[m].kept + 1] > Budget
           T == {m \in Nat : m <= n => P(m)}
<1>10. 0 \in T
  BY <1>8, <1>9 DEF Sums
<1>11. ASSUME NEW m \in Nat, m \in T PROVE m + 1 \in T
  <2> SUFFICES ASSUME m + 1 <= n PROVE P(m + 1)
    OBVIOUS
  <2>1. m + 1 \in 1 .. n /\ (m + 1) - 1 = m /\ P(m)
    BY <1>1, <1>11
  <2>2. acc[m + 1] = next(m + 1, acc[m])
    <3> HIDE DEF next, P
    <3> QED BY <1>8, <2>1
  <2>3. g[m + 1] = g[m] + es[m + 1].size /\ g[m] \in Nat /\ es[m + 1].size \in Nat
    <3>1. m \in 0 .. n
      BY <2>1
    <3>2. \A i \in 1 .. n : g[i] = g[i - 1] + es[i].size
      BY <1>9 DEF Sums
    <3>3. g[m + 1] = g[(m + 1) - 1] + es[m + 1].size
      BY <2>1, <3>2
    <3>4. es[m + 1].size \in Nat
      BY <1>1, <2>1
    <3>5. g[m] \in Nat
      BY <3>1
    <3> HIDE DEF P
    <3> QED BY <2>1, <3>3, <3>4, <3>5
  <2> DEFINE k == acc[m].kept
  <2>4. CASE k < m
    <3>1. acc[m + 1] = acc[m]
      BY <2>1, <2>2, <2>4
    <3> QED BY <2>1, <2>4, <3>1
  <2>5. CASE k = m /\ m >= 1 /\ Over(acc[m].total, es[m + 1])
    <3>1. acc[m + 1] = acc[m]
      BY <2>1, <2>2, <2>5
    <3>2. g[m + 1] > Budget
      BY <2>1, <2>3, <2>5, CapsAssumption DEF Over
    <3> QED BY <2>1, <2>5, <3>1, <3>2
  <2>6. CASE k = m /\ ~(m >= 1 /\ Over(acc[m].total, es[m + 1]))
    <3>1. acc[m + 1].kept = m + 1 /\ acc[m + 1].total = acc[m].total + es[m + 1].size
      BY <2>1, <2>2, <2>6
    <3>2. acc[m + 1].total = g[m + 1]
      BY <2>1, <2>3, <2>6, <3>1
    <3>3. m + 1 <= 1 \/ g[m + 1] <= Budget
      BY <2>1, <2>3, <2>6, CapsAssumption DEF Over
    <3> QED BY <3>1, <3>2, <3>3
  <2>7. k < m \/ k = m
    BY <2>1
  <2> QED BY <2>4, <2>5, <2>6, <2>7
<1>12. n \in T
  <2> HIDE DEF T
  <2> QED BY <1>1, <1>10, <1>11, Induction
<1>13. P(n)
  BY <1>1, <1>12
<1> DEFINE k == acc[n].kept
<1>14. k \in 0 .. n /\ (k <= 1 \/ g[k] <= Budget) /\ (k < n => k >= 1 /\ g[k + 1] > Budget)
  BY <1>13
<1>15. BytesOf(SubSeq(es, 1, k)) = g[k]
  <2> HIDE DEF k
  <2> QED BY <1>9, <1>14, BytesOfPrefix
<1>16. k < n => BytesOf(SubSeq(es, 1, k + 1)) = g[k + 1]
  <2>1. k < n => k + 1 \in 0 .. n
    BY <1>1, <1>14
  <2> HIDE DEF k
  <2> QED BY <1>9, <2>1, BytesOfPrefix
<1> QED BY <1>7, <1>14, <1>15, <1>16

LEMMA BytesTyped ==
    ASSUME NEW s \in Seq(CardElem), NEW k \in 0 .. Len(s)
    PROVE  /\ BytesOf(SubSeq(s, 1, k)) \in Nat
           /\ k > 0 => BytesOf(SubSeq(s, 1, k - 1)) <= BytesOf(SubSeq(s, 1, k))
<1>1. PICK g \in [0 .. Len(s) -> Nat] : Sums(g, s)
  BY SumsExist
<1>2. BytesOf(SubSeq(s, 1, k)) = g[k]
  BY <1>1, BytesOfPrefix
<1>3. ASSUME k > 0 PROVE BytesOf(SubSeq(s, 1, k - 1)) <= BytesOf(SubSeq(s, 1, k))
  <2>1. k - 1 \in 0 .. Len(s) /\ k \in 1 .. Len(s)
    BY <1>3, LenProperties
  <2>2. BytesOf(SubSeq(s, 1, k - 1)) = g[k - 1]
    BY <1>1, <2>1, BytesOfPrefix
  <2>3. g[k] = g[k - 1] + s[k].size /\ s[k].size \in Nat /\ g[k - 1] \in Nat
    <3>1. s[k] \in CardElem
      BY <2>1, ElementOfSeq
    <3> QED BY <1>1, <2>1, <3>1 DEF Sums, CardElem
  <2> QED BY <1>2, <2>2, <2>3
<1> QED BY <1>2, <1>3

\* The same, with the length by another name.
LEMMA CapBytesAt ==
    ASSUME NEW s \in Seq(CardElem), NEW q \in Nat, Len(s) = q
    PROVE  \E k \in 0 .. q :
              /\ CapBytes(s) = IF k = q THEN s ELSE Append(SubSeq(s, 1, k), Note(q - k))
              /\ k <= 1 \/ BytesOf(SubSeq(s, 1, k)) <= Budget
              /\ k < q => k >= 1 /\ BytesOf(SubSeq(s, 1, k + 1)) > Budget
<1>1. PICK k \in 0 .. Len(s) :
          /\ CapBytes(s) = IF k = Len(s) THEN s
                            ELSE Append(SubSeq(s, 1, k), Note(Len(s) - k))
          /\ k <= 1 \/ BytesOf(SubSeq(s, 1, k)) <= Budget
          /\ k < Len(s) => k >= 1 /\ BytesOf(SubSeq(s, 1, k + 1)) > Budget
  BY CapBytesIs
<1>2. k \in 0 .. q
  OBVIOUS
<1>3. CapBytes(s) = IF k = q THEN s ELSE Append(SubSeq(s, 1, k), Note(q - k))
  BY <1>1, Zenon
<1>4. k < q => k >= 1 /\ BytesOf(SubSeq(s, 1, k + 1)) > Budget
  BY <1>1, Zenon
<1>5. k <= 1 \/ BytesOf(SubSeq(s, 1, k)) <= Budget
  BY <1>1, Zenon
<1> QED BY <1>2, <1>3, <1>4, <1>5, Zenon

\* A card as its two caps and its feet leave it: k elements of the turn, a note if
\* something is missing, and the feet.
Foot == [tag : {"tokens", "spinner"}, at : Seq(Nat), of : Named, size : Nat]
Most == MaxElements - 2
Fitting(all, k) == k <= Most /\ (k <= 1 \/ BytesOf(SubSeq(all, 1, k)) <= Budget)

LEMMA CappedIs ==
    ASSUME NEW all \in Seq(Elem)
    PROVE  \E k \in 0 .. Len(all), m \in Nat :
              /\ CapBytes(CapElements(all)) = IF k = Len(all) THEN all
                                              ELSE Append(SubSeq(all, 1, k), Note(m))
              /\ Fitting(all, k)
              /\ k < Len(all) => ~Fitting(all, k + 1)
              /\ k < Len(all) => m \in 1 .. Len(all) - k /\ (m = Len(all) - k \/ Len(all) > Most)
<1> DEFINE n == Len(all)
           es == CapElements(all)
           bytes(j) == BytesOf(SubSeq(all, 1, j))
<1>1. n \in Nat /\ all \in Seq(CardElem) /\ Most \in Nat /\ Most >= 1 /\ Budget \in Nat
  BY LenProperties, ElemIsCardElem, CapsAssumption DEF Most
<1>2. CASE n <= Most
  <2>1. es = all
    BY <1>2 DEF CapElements, Most
  <2>2. PICK k \in 0 .. n :
            /\ CapBytes(all) = IF k = n THEN all ELSE Append(SubSeq(all, 1, k), Note(n - k))
            /\ k <= 1 \/ bytes(k) <= Budget
            /\ k < n => k >= 1 /\ bytes(k + 1) > Budget
    BY <1>1, CapBytesIs
  <2>3. Fitting(all, k)
    BY <1>1, <1>2, <2>2 DEF Fitting
  <2>4. k < n => ~Fitting(all, k + 1)
    <3> SUFFICES ASSUME k < n, k + 1 <= 1 \/ bytes(k + 1) <= Budget PROVE FALSE
      BY DEF Fitting
    <3>1. k >= 1 /\ bytes(k + 1) > Budget
      BY <2>2
    <3>2. bytes(k + 1) \in Nat
      BY <1>1, BytesTyped
    <3> QED BY <1>1, <3>1, <3>2
  <2>5. k < n => n - k \in 1 .. n - k
    BY <1>1
  <2>6. n - k \in Nat
    BY <1>1
  <2> HIDE DEF es
  <2>7. CapBytes(es) = IF k = n THEN all ELSE Append(SubSeq(all, 1, k), Note(n - k))
    BY <2>1, <2>2
  <2> QED BY <2>3, <2>4, <2>5, <2>6, <2>7 DEF es
<1>3. CASE n > Most
  <2> DEFINE top == SubSeq(all, 1, Most)
  <2>1. es = Append(top, Note(n - Most))
    BY <1>1, <1>3 DEF CapElements, Most
  <2>2. top \in Seq(CardElem) /\ Len(top) = Most /\ \A i \in 1 .. Most : top[i] = all[i]
    BY <1>1, <1>3, PrefixIs
  <2>3. n - Most \in Nat /\ Note(n - Most) \in CardElem
    <3>1. n - Most \in Nat /\ "note" \in Marks
      BY <1>1, <1>3 DEF Marks
    <3> QED BY <3>1, CardElemType DEF Note
  <2> HIDE DEF es, top
  <2>4. es \in Seq(CardElem) /\ Len(es) = Most + 1 /\ \A i \in 1 .. Most : es[i] = all[i]
    BY <2>1, <2>2, <2>3, AppendProperties
  <2> DEFINE q == Most + 1
  <2>9. q = Most + 1 /\ q \in Nat /\ Len(es) = q
    BY <1>1, <2>4
  <2> HIDE DEF q
  <2>5. PICK k \in 0 .. q :
            /\ CapBytes(es) = IF k = q THEN es ELSE Append(SubSeq(es, 1, k), Note(q - k))
            /\ k <= 1 \/ BytesOf(SubSeq(es, 1, k)) <= Budget
            /\ k < q => k >= 1 /\ BytesOf(SubSeq(es, 1, k + 1)) > Budget
    BY <2>4, <2>9, CapBytesAt
  <2>6. ASSUME NEW j \in 0 .. Most PROVE SubSeq(es, 1, j) = SubSeq(all, 1, j)
    <3>1. j \in 0 .. Len(es) /\ j \in 0 .. n
      BY <1>1, <1>3, <2>4
    <3>2. /\ SubSeq(es, 1, j) \in Seq(CardElem) /\ Len(SubSeq(es, 1, j)) = j
          /\ \A i \in 1 .. j : SubSeq(es, 1, j)[i] = es[i]
      BY <2>4, <3>1, PrefixIs
    <3>3. /\ SubSeq(all, 1, j) \in Seq(CardElem) /\ Len(SubSeq(all, 1, j)) = j
          /\ \A i \in 1 .. j : SubSeq(all, 1, j)[i] = all[i]
      BY <1>1, <3>1, PrefixIs
    <3>4. \A i \in 1 .. j : SubSeq(es, 1, j)[i] = SubSeq(all, 1, j)[i]
      BY <1>1, <2>4, <3>2, <3>3
    <3> QED BY <3>2, <3>3, <3>4, SeqEqual
  <2>7. CASE k = q
    <3>1. CapBytes(es) = Append(SubSeq(all, 1, Most), Note(n - Most))
      BY <2>1, <2>5, <2>7 DEF top
    <3>2. Fitting(all, Most)
      <4>1. SubSeq(es, 1, Most) = SubSeq(all, 1, Most)
        BY <1>1, <2>6
      <4>2. BytesOf(SubSeq(es, 1, Most)) <= Budget \/ Most <= 1
        <5>1. Most + 1 \in 0 .. Len(es) /\ Most + 1 > 0 /\ (Most + 1) - 1 = Most
          BY <1>1, <2>4
        <5>2. /\ BytesOf(SubSeq(es, 1, Most)) <= BytesOf(SubSeq(es, 1, Most + 1))
              /\ BytesOf(SubSeq(es, 1, Most + 1)) \in Nat
          <6>1. BytesOf(SubSeq(es, 1, (Most + 1) - 1)) <= BytesOf(SubSeq(es, 1, Most + 1))
            BY <2>4, <5>1, BytesTyped
          <6> QED BY <2>4, <5>1, <6>1, BytesTyped
        <5>3. BytesOf(SubSeq(es, 1, Most)) \in Nat
          BY <1>1, <2>4, BytesTyped
        <5>4. BytesOf(SubSeq(es, 1, Most + 1)) <= Budget \/ Most + 1 <= 1
          BY <2>5, <2>7, <2>9
        <5> QED BY <1>1, <5>2, <5>3, <5>4
      <4>3. BytesOf(SubSeq(all, 1, Most)) <= Budget \/ Most <= 1
        BY <4>1, <4>2
      <4>4. Most <= Most
        BY <1>1
      <4> QED BY <4>3, <4>4 DEF Fitting
    <3>3. ~Fitting(all, Most + 1)
      BY <1>1 DEF Fitting
    <3>4. Most \in 0 .. n /\ Most # n /\ n - Most \in 1 .. n - Most
      BY <1>1, <1>3
    <3> QED BY <2>3, <3>1, <3>2, <3>3, <3>4 DEF es
  <2>8. CASE k <= Most
    <3>5. k \in 0 .. Most /\ k # q
      BY <1>1, <2>8, <2>9
    <3>6. SubSeq(es, 1, k) = SubSeq(all, 1, k)
      BY <2>6, <3>5
    <3>1. CapBytes(es) = Append(SubSeq(all, 1, k), Note(q - k))
      BY <2>5, <3>5, <3>6
    <3>2. Fitting(all, k)
      <4>1. k <= 1 \/ BytesOf(SubSeq(all, 1, k)) <= Budget
        BY <2>5, <3>6
      <4> QED BY <2>8, <4>1 DEF Fitting
    <3>3. ~Fitting(all, k + 1)
      <4> SUFFICES ASSUME k + 1 <= Most, k + 1 <= 1 \/ bytes(k + 1) <= Budget PROVE FALSE
        BY DEF Fitting
      <4>1. k >= 1 /\ BytesOf(SubSeq(es, 1, k + 1)) > Budget
        BY <1>1, <2>5, <2>8, <2>9
      <4>2. SubSeq(es, 1, k + 1) = SubSeq(all, 1, k + 1)
        BY <1>1, <2>6
      <4>3. bytes(k + 1) \in Nat
        BY <1>1, <1>3, BytesTyped
      <4>4. ~(k + 1 <= 1)
        BY <4>1
      <4>5. bytes(k + 1) <= Budget /\ bytes(k + 1) > Budget
        BY <4>1, <4>2, <4>4
      <4> HIDE DEF bytes
      <4> QED BY <1>1, <4>3, <4>5
    <3>4. k \in 0 .. n /\ k # n /\ q - k \in Nat /\ q - k \in 1 .. n - k
      BY <1>1, <1>3, <2>8, <2>9
    <3> QED BY <1>3, <3>1, <3>2, <3>3, <3>4 DEF es
  <2> QED BY <1>1, <2>5, <2>7, <2>8, <2>9
<1> QED BY <1>1, <1>2, <1>3

\* A card that shows the first k elements of its turn, a note or none, and feet.
Layout(els, all, k, notes, feet) ==
    /\ els = (SubSeq(all, 1, k) \o notes) \o feet
    /\ notes \in Seq(CardElem) /\ \A i \in DOMAIN notes : notes[i].tag = "note"
    /\ feet \in Seq(Foot)
    /\ Fitting(all, k)
    /\ IF k = Len(all) THEN notes = << >>
       ELSE /\ ~Fitting(all, k + 1)
            /\ Len(notes) = 1 /\ notes[1].of \in 1 .. Len(all) - k
            /\ notes[1].of = Len(all) - k \/ Len(all) > Most

LaidOut(els, all) ==
    \E k \in 0 .. Len(all) : \E notes, feet : Layout(els, all, k, notes, feet)

LEMMA NoteFacts ==
    ASSUME NEW m \in Nat
    PROVE  /\ Note(m) \in CardElem /\ Note(m).tag = "note" /\ Note(m).of = m
           /\ <<Note(m)>> \in Seq(CardElem) /\ Len(<<Note(m)>>) = 1 /\ <<Note(m)>>[1] = Note(m)
           /\ DOMAIN <<Note(m)>> = {1}
<1>1. "note" \in Marks /\ m \in Nat \cup {None}
  BY DEF Marks
<1>2. Note(m) \in CardElem /\ Note(m).tag = "note" /\ Note(m).of = m
  BY <1>1, CardElemType DEF Note
<1> DEFINE x == Note(m)
<1> HIDE DEF x
<1>3. x \in CardElem => /\ <<x>> \in Seq(CardElem) /\ Len(<<x>>) = 1 /\ <<x>>[1] = x /\ DOMAIN <<x>> = {1}
  OBVIOUS
<1> QED BY <1>2, <1>3 DEF x

LEMMA FootType ==
    ASSUME NEW tag \in {"tokens", "spinner"}
    PROVE  <<Footer(tag)>> \in Seq(Foot)
<1>1. tag \in Marks /\ None \in Nat \cup {None}
  BY DEF Marks
<1>2. Footer(tag) \in CardElem /\ Footer(tag).tag = tag
  BY <1>1, CardElemType DEF Footer
<1>3. Footer(tag) \in Foot
  BY <1>2 DEF CardElem, Foot
<1> QED BY <1>3

LEMMA CappedIsLaidOut ==
    ASSUME NEW all \in Seq(Elem), NEW turn, NEW live \in BOOLEAN
    PROVE  LaidOut(Capped(all, turn, live), all)
<1> DEFINE tokens == IF \E l \in DOMAIN turn : turn[l].usage THEN <<Footer("tokens")>> ELSE << >>
           spinner == IF live THEN <<Footer("spinner")>> ELSE << >>
           feet == tokens \o spinner
           top == CapBytes(CapElements(all))
<1>1. tokens \in Seq(Foot) /\ spinner \in Seq(Foot)
  BY FootType, EmptySeq
<1>2. PICK k \in 0 .. Len(all), m \in Nat :
          /\ top = IF k = Len(all) THEN all ELSE Append(SubSeq(all, 1, k), Note(m))
          /\ Fitting(all, k)
          /\ k < Len(all) => ~Fitting(all, k + 1)
          /\ k < Len(all) => m \in 1 .. Len(all) - k /\ (m = Len(all) - k \/ Len(all) > Most)
  BY CappedIs
<1>3. Capped(all, turn, live) = (top \o tokens) \o spinner
  BY DEF Capped
<1> HIDE DEF tokens, spinner, top
<1>4. all \in Seq(CardElem) /\ Len(all) \in Nat /\ SubSeq(all, 1, k) \in Seq(CardElem)
  BY ElemIsCardElem, LenProperties, PrefixIs
<1>5. tokens \in Seq(CardElem) /\ spinner \in Seq(CardElem)
  <2>1. Foot \subseteq CardElem
    BY DEF Foot, CardElem, Marks
  <2> QED BY <1>1, <2>1, SeqMonotonic
<1>6. feet \in Seq(Foot)
  BY <1>1, ConcatProperties
<1> DEFINE notes == IF k = Len(all) THEN << >> ELSE <<Note(m)>>
<1>7. /\ notes \in Seq(CardElem) /\ \A i \in DOMAIN notes : notes[i].tag = "note"
      /\ top = SubSeq(all, 1, k) \o notes /\ top \in Seq(CardElem)
  <2>1. CASE k = Len(all)
    <3>1. notes = << >> /\ top = all /\ SubSeq(all, 1, k) = all
      BY <1>2, <1>4, <2>1, SubSeqFull
    <3>2. all \o << >> = all
      BY <1>4, ConcatEmptySeq
    <3>3. << >> \in Seq(CardElem)
      BY EmptySeq
    <3> HIDE DEF notes
    <3> QED BY <1>4, <3>1, <3>2, <3>3
  <2>2. CASE k # Len(all)
    <3>1. notes = <<Note(m)>> /\ top = Append(SubSeq(all, 1, k), Note(m))
      BY <1>2, <2>2
    <3>2. Append(SubSeq(all, 1, k), Note(m)) = SubSeq(all, 1, k) \o <<Note(m)>>
      BY <1>4, NoteFacts, AppendIsConcat
    <3>3. Append(SubSeq(all, 1, k), Note(m)) \in Seq(CardElem)
      BY <1>4, NoteFacts, AppendProperties
    <3> HIDE DEF notes
    <3> QED BY <3>1, <3>2, <3>3, NoteFacts
  <2> QED BY <2>1, <2>2
<1>8. Capped(all, turn, live) = (SubSeq(all, 1, k) \o notes) \o feet
  <2> HIDE DEF notes
  <2> DEFINE b == SubSeq(all, 1, k)
  <2>1. top \in Seq(CardElem) /\ tokens \in Seq(CardElem) /\ spinner \in Seq(CardElem)
    BY <1>5, <1>7
  <2>2. (top \o tokens) \o spinner = top \o (tokens \o spinner)
    BY <2>1, ConcatAssociative
  <2>3. top = b \o notes
    BY <1>7
  <2> HIDE DEF b
  <2>4. (top \o tokens) \o spinner = (b \o notes) \o feet
    BY <2>2, <2>3
  <2> QED BY <1>3, <2>4 DEF b
<1>9. IF k = Len(all) THEN notes = << >>
      ELSE /\ ~Fitting(all, k + 1)
           /\ Len(notes) = 1 /\ notes[1].of \in 1 .. Len(all) - k
           /\ notes[1].of = Len(all) - k \/ Len(all) > Most
  <2>1. CASE k = Len(all)
    BY <2>1
  <2>2. CASE k # Len(all)
    <3>1. k < Len(all)
      BY <1>4, <2>2
    <3>2. notes = <<Note(m)>>
      BY <2>2
    <3> HIDE DEF notes
    <3>3. Len(notes) = 1 /\ notes[1].of = m
      BY <3>2, NoteFacts
    <3> QED BY <1>2, <2>2, <3>1, <3>3
  <2> QED BY <2>1, <2>2
<1> HIDE DEF notes, feet
<1>10. Layout(Capped(all, turn, live), all, k, notes, feet)
  BY <1>2, <1>6, <1>7, <1>8, <1>9 DEF Layout
<1> QED BY <1>10 DEF LaidOut

\* What is picked out of a card by tag: its beginning, and its notes.
LEMMA LayoutShows ==
    ASSUME NEW all \in Seq(Elem), NEW els, NEW k \in 0 .. Len(all), NEW notes, NEW feet,
           Layout(els, all, k, notes, feet)
    PROVE  /\ Picked(els, {i \in DOMAIN els : els[i].tag \in Content}) = SubSeq(all, 1, k)
           /\ Picked(els, {i \in DOMAIN els : els[i].tag \in {"note"}}) = notes
<1> DEFINE n == Len(notes)
           b == SubSeq(all, 1, k)
           top == b \o notes
<1>1. /\ all \in Seq(CardElem) /\ Len(all) \in Nat /\ b \in Seq(Elem) /\ b \in Seq(CardElem) /\ Len(b) = k
      /\ notes \in Seq(CardElem) /\ n \in Nat /\ DOMAIN notes = 1 .. n
      /\ feet \in Seq(Foot) /\ feet \in Seq(CardElem) /\ Len(feet) \in Nat
  <2>1. Foot \subseteq CardElem
    BY DEF Foot, CardElem, Marks
  <2>2. feet \in Seq(Foot) /\ notes \in Seq(CardElem)
    BY DEF Layout
  <2>3. feet \in Seq(CardElem)
    BY <2>1, <2>2, SeqMonotonic
  <2>4. b \in Seq(Elem) /\ Len(b) = k
    BY PrefixIs
  <2>5. Len(feet) \in Nat /\ Len(notes) \in Nat /\ DOMAIN notes = 1 .. Len(notes)
    BY <2>2, LenProperties
  <2> HIDE DEF b
  <2> QED BY <2>2, <2>3, <2>4, <2>5, ElemIsCardElem, LenProperties
<1>2. \A i \in 1 .. k : b[i].tag \in Content
  <2>1. \A i \in 1 .. k : b[i] \in Elem
    BY <1>1, ElementOfSeq
  <2> QED BY <2>1 DEF Elem
<1>3. \A i \in 1 .. n : notes[i].tag = "note"
  BY <1>1 DEF Layout
<1>4. \A i \in 1 .. Len(feet) : feet[i].tag \in {"tokens", "spinner"}
  <2>1. \A i \in 1 .. Len(feet) : feet[i] \in Foot
    BY <1>1, ElementOfSeq
  <2> QED BY <2>1 DEF Foot
<1>5. els = top \o feet
  BY DEF Layout
<1> HIDE DEF b
<1>6. /\ top \in Seq(CardElem) /\ Len(top) = k + n
      /\ \A i \in 1 .. k + n : top[i] = IF i <= k THEN b[i] ELSE notes[i - k]
  BY <1>1, ConcatProperties
<1> HIDE DEF top
<1> DEFINE z == k + n + Len(feet)
<1>7. /\ els \in Seq(CardElem) /\ Len(els) = z
      /\ \A i \in 1 .. z : els[i] = IF i <= k + n THEN top[i] ELSE feet[i - (k + n)]
  BY <1>1, <1>5, <1>6, ConcatProperties
<1>8. k \in Nat /\ DOMAIN els = 1 .. z
  BY <1>1, <1>7, LenProperties
<1>9. ASSUME NEW i \in 1 .. z
      PROVE  /\ i <= k => els[i] = b[i]
             /\ k < i /\ i <= k + n => els[i] = notes[i - k] /\ els[i].tag = "note"
             /\ k + n < i => els[i].tag \in {"tokens", "spinner"}
             /\ i <= k => els[i].tag \in Content
  <2>1. CASE i <= k
    <3>1. i \in 1 .. k + n /\ i <= k + n /\ i \in 1 .. k
      BY <1>1, <1>8, <2>1
    <3> QED BY <1>1, <1>2, <1>6, <1>7, <1>8, <2>1, <3>1
  <2>2. CASE k < i /\ i <= k + n
    <3>1. i \in 1 .. k + n /\ ~(i <= k) /\ i - k \in 1 .. n
      BY <1>1, <1>8, <2>2
    <3>2. els[i] = notes[i - k]
      BY <1>6, <1>7, <2>2, <3>1
    <3> QED BY <1>1, <1>3, <1>8, <2>2, <3>1, <3>2
  <2>3. CASE k + n < i
    <3>1. ~(i <= k + n) /\ i - (k + n) \in 1 .. Len(feet) /\ ~(i <= k)
      BY <1>1, <1>8, <2>3
    <3>2. els[i] = feet[i - (k + n)]
      BY <1>7, <3>1
    <3> QED BY <1>1, <1>4, <1>8, <2>3, <3>1, <3>2
  <2> QED BY <1>1, <1>8, <2>1, <2>2, <2>3
<1>10. "note" \notin Content /\ "tokens" \notin Content /\ "spinner" \notin Content
  BY DEF Content
<1> DEFINE C == {i \in DOMAIN els : els[i].tag \in Content}
           N == {i \in DOMAIN els : els[i].tag \in {"note"}}
<1>11. Picked(els, C) = b
  <2>1. (1 .. z) \cap C = 1 .. k
    <3>1. \A i \in 1 .. z : i \in C <=> i <= k
      BY <1>1, <1>8, <1>9, <1>10
    <3>2. \A i \in 1 .. k : i \in 1 .. z
      BY <1>1, <1>8
    <3> QED BY <1>8, <3>1, <3>2
  <2>2. k <= z /\ 1 \in Nat \ {0}
    BY <1>1, <1>8
  <2> HIDE DEF C, z
  <2>3. Picked(els, C) = SubSeq(els, 1, k)
    BY <1>7, <1>8, <2>1, <2>2, PickedRun
  <2>4. k \in 0 .. Len(els)
    BY <1>7, <1>8, <2>2
  <2>5. /\ SubSeq(els, 1, k) \in Seq(CardElem) /\ Len(SubSeq(els, 1, k)) = k
        /\ \A i \in 1 .. k : SubSeq(els, 1, k)[i] = els[i]
    BY <1>7, <2>4, PrefixIs
  <2>6. \A i \in 1 .. k : SubSeq(els, 1, k)[i] = b[i]
    <3>1. \A i \in 1 .. k : i \in 1 .. z /\ i <= k
      BY <1>8, <2>2 DEF z
    <3> QED BY <1>9, <2>5, <3>1
  <2>7. SubSeq(els, 1, k) = b
    BY <1>1, <2>5, <2>6, SeqEqual
  <2> QED BY <2>3, <2>7
<1>12. Picked(els, N) = notes
  <2>1. (1 .. z) \cap N = k + 1 .. k + n
    <3>1. ASSUME NEW i \in 1 .. z PROVE i \in N <=> k < i /\ i <= k + n
      <4>1. i \in N <=> els[i].tag = "note"
        BY <1>8
      <4>2. k < i /\ i <= k + n => els[i].tag = "note"
        BY <1>9
      <4>3. k + n < i => els[i].tag # "note"
        BY <1>9
      <4>4. i <= k => els[i].tag # "note"
        BY <1>9, <1>10
      <4> HIDE DEF N
      <4> QED BY <1>1, <1>8, <4>1, <4>2, <4>3, <4>4
    <3>2. \A i \in k + 1 .. k + n : i \in 1 .. z
      BY <1>1, <1>8
    <3> QED BY <1>1, <1>8, <3>1, <3>2
  <2>2. k + n <= z /\ k + 1 \in Nat \ {0} /\ k + n \in Nat
    BY <1>1, <1>8
  <2> HIDE DEF N, z
  <2>3. Picked(els, N) = SubSeq(els, k + 1, k + n)
    BY <1>7, <2>1, <2>2, PickedRun
  <2>4. \A i \in k + 1 .. k + n : els[i] \in CardElem
    <3>1. \A i \in k + 1 .. k + n : i \in 1 .. Len(els)
      BY <1>1, <1>7, <1>8, <2>2
    <3> QED BY <1>7, <3>1, ElementOfSeq
  <2> DEFINE t == SubSeq(els, k + 1, k + n)
  <2>5. /\ t \in Seq(CardElem) /\ Len(t) = n /\ \A i \in 1 .. n : t[i] = els[k + i]
    <3>1. k + 1 \in Int /\ k + n \in Int
      BY <1>1, <1>8
    <3>2. /\ t \in Seq(CardElem)
          /\ Len(t) = IF k + 1 <= k + n THEN (k + n) - (k + 1) + 1 ELSE 0
          /\ \A i \in 1 .. (k + n) - (k + 1) + 1 : t[i] = els[(k + 1) + i - 1]
      BY <2>4, <3>1, SubSeqProperties
    <3>3. (k + n) - (k + 1) + 1 = n /\ \A i \in 1 .. n : (k + 1) + i - 1 = k + i
      BY <1>1, <1>8
    <3> HIDE DEF t
    <3> QED BY <1>1, <1>8, <3>2, <3>3
  <2> HIDE DEF t
  <2>6. \A i \in 1 .. n : t[i] = notes[i]
    <3> SUFFICES ASSUME NEW i \in 1 .. n PROVE t[i] = notes[i]
      OBVIOUS
    <3>0. i \in Int /\ 1 <= i /\ i <= n
      BY <1>1
    <3>1. k + i \in 1 .. z /\ k < k + i /\ k + i <= k + n /\ (k + i) - k = i
      <4>1. k + n + Len(feet) \in Nat /\ k + i \in Int /\ k + i <= k + n
        BY <1>1, <1>8, <3>0
      <4>2. k + i >= 1 /\ k < k + i /\ (k + i) - k = i
        BY <1>8, <3>0
      <4>3. k + i <= k + n + Len(feet)
        BY <1>1, <1>8, <3>0
      <4>4. k + i \in 1 .. k + n + Len(feet)
        BY <4>1, <4>2, <4>3
      <4> QED BY <4>1, <4>2, <4>4 DEF z
    <3>2. els[k + i] = notes[(k + i) - k]
      BY <1>9, <3>1
    <3>3. els[k + i] = notes[i]
      BY <3>1, <3>2
    <3> QED BY <2>5, <3>3
  <2>7. t = notes
    BY <1>1, <2>5, <2>6, SeqEqual
  <2> QED BY <2>3, <2>7 DEF t
<1> QED BY <1>11, <1>12 DEF b

LEMMA TurnIs ==
    ASSUME TypeOK
    PROVE  /\ Turn \in Seq(Lines) /\ Len(Turn) = Len(handled) /\ Len(handled) \in Nat
           /\ \A i \in 1 .. Len(handled) : handled[i] \in DOMAIN lines /\ Turn[i] = lines[handled[i]]
<1>1. /\ handled \in Seq(DOMAIN lines) /\ DOMAIN handled = 1 .. Len(handled) /\ Len(handled) \in Nat
      /\ \A i \in 1 .. Len(handled) : handled[i] \in DOMAIN lines
  BY Writings, LenProperties, ElementOfSeq
<1>2. \A i \in DOMAIN lines : lines[i] \in Lines
  BY Writings, ElementOfSeq
<1>3. /\ Turn \in [1 .. Len(handled) -> Lines]
      /\ \A i \in 1 .. Len(handled) : Turn[i] = lines[handled[i]]
  BY <1>1, <1>2 DEF Turn
<1> HIDE DEF Turn
<1> QED BY <1>1, <1>3, SeqOfFunction

\* The card is the layout of a turn's elements.
CardIsLaidOut == card.all \in Seq(Elem) /\ LaidOut(card.els, card.all)

LEMMA EmptyIsLaidOut == LaidOut(<< >>, << >>)
<1> DEFINE s == << >>
<1>1. s \in Seq(CardElem) /\ s \in Seq(Foot) /\ Len(s) = 0 /\ DOMAIN s = {}
  BY EmptySeq
<1>2. SubSeq(s, 1, 0) = s /\ s \o s = s
  BY <1>1, SubSeqEmpty, ConcatEmptySeq
<1>3. 0 <= Most
  BY CapsAssumption DEF Most
<1> HIDE DEF s
<1>4. Fitting(s, 0)
  BY <1>3 DEF Fitting
<1>5. s = (SubSeq(s, 1, 0) \o s) \o s
  BY <1>2
<1>6. 0 \in 0 .. Len(s)
  BY <1>1
<1>7. s = << >>
  BY DEF s
<1>8. Layout(s, s, 0, s, s)
  BY <1>1, <1>4, <1>5, <1>7 DEF Layout
<1>9. LaidOut(s, s)
  BY <1>6, <1>8 DEF LaidOut
<1> QED BY <1>7, <1>9

\* What a flush shows, if it shows anything.
LEMMA FlushShows ==
    ASSUME TypeOK, NEW live \in BOOLEAN, Flush(live)
    PROVE  \E drawing :
             LET all == Elements(Turn, keys', drawing, style)
                 els == Capped(all, Turn, live)
             IN  card' = IF els = << >> THEN card ELSE [els |-> els, all |-> all]
<1>1. PICK images \in Upload(ImagePaths(Turn), keys, failed),
           diagrams \in (IF live THEN {[known |-> drawn, lost |-> undrawn]}
                         ELSE Upload(Diagrams(Turn), drawn, undrawn)) :
          /\ keys' = images.known
          /\ \E all \in {Elements(Turn, images.known, IF live THEN {} ELSE diagrams.known, style)} :
                 \E els \in {Capped(all, Turn, live)} : Show(all, els)
  BY DEF Flush
<1> DEFINE drawing == IF live THEN {} ELSE diagrams.known
           all == Elements(Turn, keys', drawing, style)
           els == Capped(all, Turn, live)
<1>2. Show(all, els)
  BY <1>1
<1> HIDE DEF all, els
<1>3. card' = IF els = << >> THEN card ELSE [els |-> els, all |-> all]
  BY <1>2 DEF Show
<1> QED BY <1>3 DEF all, els

LEMMA StaysLaidOut ==
    ASSUME TypeOK, CardIsLaidOut, [Next]_vars
    PROVE  CardIsLaidOut'
<1>1. ASSUME NEW live \in BOOLEAN, Flush(live) PROVE CardIsLaidOut'
  <2>1. PICK drawing :
          LET all == Elements(Turn, keys', drawing, style)
              els == Capped(all, Turn, live)
          IN  card' = IF els = << >> THEN card ELSE [els |-> els, all |-> all]
    BY <1>1, FlushShows
  <2> DEFINE all == Elements(Turn, keys', drawing, style)
             els == Capped(all, Turn, live)
  <2>2. card' = IF els = << >> THEN card ELSE [els |-> els, all |-> all]
    BY <2>1
  <2>3. all \in Seq(Elem)
    BY TurnIs, ElementsAre
  <2> HIDE DEF all
  <2>4. LaidOut(els, all)
    BY <2>3, CappedIsLaidOut
  <2> HIDE DEF els
  <2>5. CASE els = << >>
    BY <2>2, <2>5 DEF CardIsLaidOut
  <2>6. CASE els # << >>
    <3>1. card'.els = els /\ card'.all = all
      BY <2>2, <2>6
    <3> QED BY <2>3, <2>4, <3>1 DEF CardIsLaidOut
  <2> QED BY <2>5, <2>6
<1>2. CASE card' = card
  BY <1>2 DEF CardIsLaidOut
<1>3. (\E live \in BOOLEAN : Flush(live)) \/ card' = card
  BY DEF Next, Write, Finish, ReadBatch, FlushNothing, vars
<1> QED BY <1>1, <1>2, <1>3

\* At every moment the card shows as much of its turn as the two caps let it, from
\* the beginning on, and one note says what is missing: exactly, unless the byte cap
\* cut off the note of the other one.
THEOREM CapsHold == Spec => []CapsAreHonest
<1>1. Init => CardIsLaidOut
  <2> SUFFICES ASSUME Init PROVE CardIsLaidOut
    OBVIOUS
  <2>1. card.els = << >> /\ card.all = << >>
    BY DEF Init
  <2> QED BY <2>1, EmptyIsLaidOut, EmptySeq DEF CardIsLaidOut
<1>2. TypeOK /\ CardIsLaidOut => CapsAreHonest
  <2> SUFFICES ASSUME CardIsLaidOut PROVE CapsAreHonest
    OBVIOUS
  <2> DEFINE all == card.all
             n == Len(all)
  <2>1. all \in Seq(Elem) /\ n \in Nat
    BY LenProperties DEF CardIsLaidOut
  <2>0. PICK k \in 0 .. n : \E notes, feet : Layout(card.els, all, k, notes, feet)
    BY DEF CardIsLaidOut, LaidOut
  <2>2. PICK notes, feet : Layout(card.els, all, k, notes, feet)
    BY <2>0
  <2>3. Body = SubSeq(all, 1, k) /\ Notes = notes
    BY <2>1, <2>2, LayoutShows DEF Body, Notes, Tagged
  <2>4. Len(SubSeq(all, 1, k)) = k
    BY <2>1, PrefixIs
  <2>5. Len(Body) = k /\ k \in Nat /\ k <= n
    BY <2>1, <2>3, <2>4
  <2>6. IsPrefix(Body, all)
    BY <2>1, <2>3, <2>5 DEF IsPrefix
  <2>7. \A j \in Nat : Fits(j) <=> Fitting(all, j)
    BY DEF Fits, Fitting, Most
  <2>8. /\ Fitting(all, k)
        /\ IF k = n THEN notes = << >>
           ELSE /\ ~Fitting(all, k + 1)
                /\ Len(notes) = 1 /\ notes[1].of \in 1 .. n - k
                /\ notes[1].of = n - k \/ n > Most
    BY <2>2 DEF Layout
  <2> HIDE DEF all
  <2>9. n > Most => n > MaxElements - 2
    BY DEF Most
  <2>10. Fits(k) /\ (k # n => ~Fits(k + 1))
    BY <2>5, <2>7, <2>8
  <2>11. n - k > 0 <=> k # n
    BY <2>1, <2>5
  <2>12. n - k = 0 <=> k = n
    BY <2>1, <2>5
  <2>13. /\ IsPrefix(Body, all) /\ Fits(Len(Body))
         /\ n - Len(Body) > 0 => ~Fits(Len(Body) + 1)
         /\ IF n - Len(Body) = 0 THEN Notes = << >>
            ELSE /\ Len(Notes) = 1 /\ Notes[1].of \in 1 .. n - Len(Body)
                 /\ Notes[1].of = n - Len(Body) \/ n > MaxElements - 2
    BY <2>3, <2>5, <2>6, <2>8, <2>9, <2>10, <2>11, <2>12
  <2> QED BY <2>13 DEF CapsAreHonest, all
<1>3. CardIsLaidOut /\ TypeOK /\ [Next]_vars => CardIsLaidOut'
  BY StaysLaidOut
<1> QED BY <1>1, <1>2, <1>3, TypeCorrect, PTL DEF Spec

-----------------------------------------------------------------------------
(* What a card shows it goes on showing.                                   *)

\* A call of a tool has one result; should a transcript give it twice, both name the
\* same images.
ResultsAgree ==
    \A r, s \in Parts :
        r.type = "result" /\ s.type = "result" /\ r.id = s.id => RangeOf(r.images) = RangeOf(s.images)

Begins(turn, later) ==
    Len(turn) <= Len(later) /\ \A i \in 1 .. Len(turn) : turn[i] = later[i]

\* A text, a diagram or an image is still in its place.
LEMMA SegmentKeeps ==
    ASSUME NEW at \in Seq(Nat), NEW seg, IsSegment(seg), RangeOf(seg.images) \subseteq Named,
           seg.code \in Named, NEW known, NEW more, known \subseteq more,
           NEW shown, NEW shows, NEW x \in RangeOf(Segment(at, seg, known, shown))
    PROVE  \E y \in RangeOf(Segment(at, seg, more, shows)) : Same(x, y)
<1> DEFINE md == Markdown(at, seg.chars)
           ph == Element("placeholder", at, seg.code, 0)
           img(path) == Image(at, path)
<1>1. /\ md.at = at /\ md.tag = "text" /\ ph.at = at /\ ph.tag = "placeholder"
      /\ \A path : img(path).at = at /\ img(path).tag = "img" /\ img(path).of = path
  BY DEF Markdown, Image, Element
<1> DEFINE old == RangeOf(Segment(at, seg, known, shown))
           new == RangeOf(Segment(at, seg, more, shows))
<1>2. old = IF seg.code = None
            THEN IF seg.chars = 0 THEN {}
                 ELSE {md} \cup {img(path) : path \in RangeOf(seg.images) \cap known}
            ELSE IF seg.code \in shown THEN {ph, img(seg.code)} ELSE {md}
  BY SegmentIs
<1>3. new = IF seg.code = None
            THEN IF seg.chars = 0 THEN {}
                 ELSE {md} \cup {img(path) : path \in RangeOf(seg.images) \cap more}
            ELSE IF seg.code \in shows THEN {ph, img(seg.code)} ELSE {md}
  BY SegmentIs
<1>4. x \in old
  OBVIOUS
<1> HIDE DEF md, ph, img, old, new
<1>5. CASE seg.code = None
  <2>1. x \in new
    BY <1>2, <1>3, <1>4, <1>5
  <2> QED BY <2>1 DEF Same, new
<1>6. CASE seg.code # None
  <2>1. x \in {ph, img(seg.code), md}
    BY <1>2, <1>4, <1>6
  <2>2. CASE seg.code \in shows
    <3>1. ph \in new /\ img(seg.code) \in new
      BY <1>3, <1>6, <2>2
    <3>2. x = img(seg.code) => Same(x, img(seg.code))
      BY DEF Same
    <3>3. x # img(seg.code) => Same(x, ph)
      BY <1>1, <2>1 DEF Same
    <3> QED BY <3>1, <3>2, <3>3 DEF new
  <2>3. CASE seg.code \notin shows
    <3>1. md \in new
      BY <1>3, <1>6, <2>3
    <3>2. Same(x, md)
      BY <1>1, <2>1 DEF Same
    <3> QED BY <3>1, <3>2 DEF new
  <2> QED BY <2>2, <2>3
<1> QED BY <1>5, <1>6

\* So are the images of a result: the later lines may give the result again.
LEMMA ResultKeeps ==
    ASSUME ResultsAgree, NEW turn \in Seq(Lines), NEW later \in Seq(Lines), Begins(turn, later),
           NEW known, NEW more, known \subseteq more, NEW at, NEW id
    PROVE  ResultImages(at, turn, id, known) \subseteq ResultImages(at, later, id, more)
<1> DEFINE r == ResultOf(turn, id)
           s == ResultOf(later, id)
<1>1. CASE r = None
  BY <1>1 DEF ResultImages
<1>2. CASE r # None
  <2>1. PICK l \in DOMAIN turn : \E p \in DOMAIN turn[l].parts :
            r = turn[l].parts[p] /\ IsResult(r, id) /\ r \in Parts
    BY <1>2, ResultIs
  <2>2. l \in DOMAIN later /\ later[l] = turn[l]
    BY LenProperties DEF Begins
  <2>3. HasResult(later[l], id)
    BY <2>1, <2>2 DEF HasResult
  <2>4. s # None /\ IsResult(s, id) /\ s \in Parts
    BY <2>2, <2>3, ResultIs
  <2> HIDE DEF r, s
  <2>5. RangeOf(r.images) = RangeOf(s.images)
    BY <2>1, <2>4 DEF ResultsAgree, IsResult
  <2>6. /\ ResultImages(at, turn, id, known) = {Image(at, path) : path \in RangeOf(r.images) \cap known}
        /\ ResultImages(at, later, id, more) = {Image(at, path) : path \in RangeOf(s.images) \cap more}
    BY <1>2, <2>4 DEF ResultImages, r, s
  <2> QED BY <2>5, <2>6
<1> QED BY <1>1, <1>2

LEMMA PartKeeps ==
    ASSUME ResultsAgree, NEW turn \in Seq(Lines), NEW later \in Seq(Lines), Begins(turn, later),
           NEW known, NEW more, known \subseteq more, NEW shown, NEW shows, NEW how,
           NEW at \in Seq(Nat), NEW part \in Parts,
           NEW x \in RangeOf(Part(at, part, turn, known, shown, how))
    PROVE  \E y \in RangeOf(Part(at, part, later, more, shows, how)) : Same(x, y)
<1> DEFINE old == Part(at, part, turn, known, shown, how)
           new == Part(at, part, later, more, shows, how)
<1>1. IsPart(part) /\ ImagesIn(part) \subseteq Named /\ CodesIn(part) \subseteq Named
  BY PartFacts
<1>2. x \in RangeOf(old)
  OBVIOUS
<1>3. CASE part.type = "text"
  <2>1. RangeOf(old) = UNION {RangeOf(Segment(Append(at, s), part.segs[s], known, shown)) :
                                  s \in DOMAIN part.segs}
    BY <1>3, PartIs
  <2>2. RangeOf(new) = UNION {RangeOf(Segment(Append(at, s), part.segs[s], more, shows)) :
                                  s \in DOMAIN part.segs}
    BY <1>3, PartIs
  <2> HIDE DEF old, new
  <2>3. PICK s \in DOMAIN part.segs : x \in RangeOf(Segment(Append(at, s), part.segs[s], known, shown))
    BY <1>2, <2>1
  <2>4. IsSeq(part.segs) /\ \A seg \in RangeOf(part.segs) : IsSegment(seg)
    BY <1>1, <1>3 DEF IsPart
  <2>5. DOMAIN part.segs = 1 .. Len(part.segs) /\ Len(part.segs) \in Nat
    BY <2>4, LenProperties DEF IsSeq
  <2> DEFINE seg == part.segs[s]
             place == Append(at, s)
  <2>6. seg \in RangeOf(part.segs)
    BY DEF RangeOf
  <2>7. RangeOf(seg.images) \subseteq Named /\ seg.code \in Named
    <3>1. RangeOf(seg.images) \subseteq ImagesIn(part)
      BY <1>3, <2>6 DEF ImagesIn
    <3>2. seg.code \in CodesIn(part)
      BY <1>3, <2>6 DEF CodesIn
    <3> QED BY <1>1, <3>1, <3>2
  <2>8. place \in Seq(Nat)
    BY <2>5, AppendProperties
  <2>9. IsSegment(seg)
    BY <2>4, <2>6
  <2>10. x \in RangeOf(Segment(place, seg, known, shown))
    BY <2>3
  <2>11. \E y \in RangeOf(Segment(place, seg, more, shows)) : Same(x, y)
    <3> HIDE DEF place, seg
    <3> QED BY <2>7, <2>8, <2>9, <2>10, SegmentKeeps
  <2>12. RangeOf(Segment(place, seg, more, shows)) \subseteq RangeOf(new)
    BY <2>2
  <2> HIDE DEF place, seg
  <2> QED BY <2>11, <2>12 DEF new
<1>4. CASE part.type = "image"
  <2>1. RangeOf(old) = IF part.path \in known THEN {Image(at, part.path)} ELSE {}
    BY <1>4, PartIs
  <2>2. RangeOf(new) = IF part.path \in more THEN {Image(at, part.path)} ELSE {}
    BY <1>4, PartIs
  <2> HIDE DEF old, new
  <2>3. x \in RangeOf(new)
    BY <1>2, <2>1, <2>2
  <2> QED BY <2>3 DEF Same, new
<1>5. CASE part.type = "use"
  <2>1. old = Tool(at, part, turn, known, how) /\ new = Tool(at, part, later, more, how)
    BY <1>5, PartIs
  <2>2. PICK b \in Elem :
            /\ b.tag = "tool" /\ b.at = at
            /\ RangeOf(old) = (IF how = "minimal" THEN {} ELSE {b})
                              \cup ResultImages(at, turn, part.id, known)
    BY <1>5, <2>1, ToolIs
  <2>3. PICK c \in Elem :
            /\ c.tag = "tool" /\ c.at = at
            /\ RangeOf(new) = (IF how = "minimal" THEN {} ELSE {c})
                              \cup ResultImages(at, later, part.id, more)
    BY <1>5, <2>1, ToolIs
  <2>4. ResultImages(at, turn, part.id, known) \subseteq ResultImages(at, later, part.id, more)
    BY ResultKeeps
  <2> HIDE DEF old, new
  <2>5. CASE x \in ResultImages(at, turn, part.id, known)
    <3>1. x \in RangeOf(new)
      BY <2>3, <2>4, <2>5
    <3> QED BY <3>1 DEF Same, new
  <2>6. CASE x \notin ResultImages(at, turn, part.id, known)
    <3>1. how # "minimal" /\ x = b
      BY <1>2, <2>2, <2>6
    <3>2. c \in RangeOf(new) /\ Same(x, c)
      BY <2>2, <2>3, <3>1 DEF Same
    <3> QED BY <3>2 DEF new
  <2> QED BY <2>5, <2>6
<1>6. CASE part.type = "result"
  <2>1. RangeOf(old) = {}
    BY <1>6, PartIs
  <2> QED BY <1>2, <2>1
<1>7. part.type \in {"text", "image", "use", "result"}
  BY <1>1 DEF IsPart
<1> QED BY <1>3, <1>4, <1>5, <1>6, <1>7

LEMMA ElementsKeep ==
    ASSUME ResultsAgree, NEW turn \in Seq(Lines), NEW later \in Seq(Lines), Begins(turn, later),
           NEW known, NEW more, known \subseteq more, NEW shown, NEW shows, NEW how,
           NEW x \in RangeOf(Elements(turn, known, shown, how))
    PROVE  \E y \in RangeOf(Elements(later, more, shows, how)) : Same(x, y)
<1>1. RangeOf(Elements(turn, known, shown, how)) =
          UNION {UNION {RangeOf(Part(<<l, p>>, turn[l].parts[p], turn, known, shown, how)) :
                     p \in DOMAIN turn[l].parts} : l \in DOMAIN turn}
  BY ElementsAre
<1>2. RangeOf(Elements(later, more, shows, how)) =
          UNION {UNION {RangeOf(Part(<<l, p>>, later[l].parts[p], later, more, shows, how)) :
                     p \in DOMAIN later[l].parts} : l \in DOMAIN later}
  BY ElementsAre
<1> DEFINE row(l) == {RangeOf(Part(<<l, p>>, turn[l].parts[p], turn, known, shown, how)) :
                          p \in DOMAIN turn[l].parts}
<1>10. x \in UNION {UNION row(l) : l \in DOMAIN turn}
  BY <1>1
<1> HIDE DEF row
<1>3. PICK l \in DOMAIN turn : x \in UNION row(l)
  BY <1>10
<1>4. PICK p \in DOMAIN turn[l].parts :
          x \in RangeOf(Part(<<l, p>>, turn[l].parts[p], turn, known, shown, how))
  BY <1>3 DEF row
<1>5. l \in Nat /\ l \in DOMAIN later /\ later[l] = turn[l] /\ turn[l] \in Lines
  BY LenProperties, ElementOfSeq DEF Begins
<1>6. p \in Nat /\ turn[l].parts[p] \in Parts
  BY <1>5, LineFacts
<1> DEFINE at == <<l, p>>
           part == turn[l].parts[p]
<1>7. at \in Seq(Nat) /\ part \in Parts /\ x \in RangeOf(Part(at, part, turn, known, shown, how))
  BY <1>4, <1>5, <1>6
<1>8. \E y \in RangeOf(Part(at, part, later, more, shows, how)) : Same(x, y)
  <2> HIDE DEF at, part
  <2> QED BY <1>7, PartKeeps
<1>9. RangeOf(Part(at, part, later, more, shows, how)) \subseteq RangeOf(Elements(later, more, shows, how))
  BY <1>2, <1>4, <1>5
<1> HIDE DEF at, part
<1> QED BY <1>8, <1>9

\* The card shows the elements of the turn as it was at some flush, with the images
\* that were uploaded by then.
CardIsOfTurn ==
    \/ card.all = << >>
    \/ \E turn \in Seq(Lines), known \in SUBSET keys : \E shown :
           Begins(turn, Turn) /\ card.all = Elements(turn, known, shown, style)

LEMMA TurnGrows ==
    ASSUME TypeOK, TypeOK', [Next]_vars
    PROVE  Begins(Turn, Turn')
<1>1. /\ Len(handled) \in Nat /\ Len(handled) <= Len(handled')
      /\ \A i \in 1 .. Len(handled) : handled'[i] = handled[i]
  <2>1. handled \in Seq(DOMAIN lines) /\ Len(handled) \in Nat
    BY Writings, LenProperties
  <2>2. CASE ReadBatch
    <3>1. handled' = handled \o Parsed(offset) /\ Parsed(offset) \in Seq(DOMAIN lines)
      BY <2>2, Writings, ParsedIs DEF ReadBatch
    <3> QED BY <2>1, <3>1, ConcatProperties, LenProperties
  <2>3. CASE handled' = handled
    BY <2>1, <2>3
  <2>4. ReadBatch \/ handled' = handled
    BY DEF Next, Write, Finish, Flush, FlushNothing, vars, reading
  <2> QED BY <2>2, <2>3, <2>4
<1>2. \A j \in DOMAIN lines : lines'[j] = lines[j]
  <2>1. CASE \E line : lines' = Append(lines, line)
    BY <2>1, Writings, AppendProperties
  <2>2. (\E line : lines' = Append(lines, line)) \/ lines' = lines
    BY DEF Next, Write, Finish, ReadBatch, Flush, FlushNothing, vars
  <2> QED BY <2>1, <2>2
<1>3. /\ Len(Turn) = Len(handled)
      /\ \A i \in 1 .. Len(handled) : handled[i] \in DOMAIN lines /\ Turn[i] = lines[handled[i]]
  BY TurnIs
<1>4. DOMAIN handled' = 1 .. Len(handled') /\ Len(handled') \in Nat
  <2>1. handled' \in Seq(DOMAIN lines')
    BY DEF TypeOK
  <2> QED BY <2>1, LenProperties
<1>5. Turn' = [i \in 1 .. Len(handled') |-> lines'[handled'[i]]]
  BY <1>4 DEF Turn
<1>6. Len(Turn') = Len(handled')
  <2> DEFINE S == {lines'[handled'[i]] : i \in 1 .. Len(handled')}
             t == Turn'
  <2>1. t \in [1 .. Len(handled') -> S]
    BY <1>5
  <2> HIDE DEF S, t
  <2>2. Len(t) = Len(handled')
    BY <1>4, <2>1, SeqOfFunction
  <2> QED BY <2>2 DEF t
<1>7. \A i \in 1 .. Len(handled) : Turn'[i] = lines'[handled'[i]]
  BY <1>1, <1>4, <1>5
<1>8. \A i \in 1 .. Len(handled) : Turn[i] = Turn'[i]
  BY <1>1, <1>2, <1>3, <1>7
<1> HIDE DEF Turn
<1> QED BY <1>1, <1>3, <1>6, <1>8 DEF Begins

LEMMA KeysGrow ==
    ASSUME [Next]_vars
    PROVE  keys \subseteq keys' /\ style' = style
<1>1. ASSUME NEW live \in BOOLEAN, Flush(live) PROVE keys \subseteq keys' /\ style' = style
  <2>1. PICK images \in Upload(ImagePaths(Turn), keys, failed) : keys' = images.known
    BY <1>1 DEF Flush
  <2>2. keys \subseteq images.known
    BY DEF Upload, Remember
  <2> QED BY <1>1, <2>1, <2>2 DEF Flush
<1>2. (\E live \in BOOLEAN : Flush(live)) \/ (keys' = keys /\ style' = style)
  BY DEF Next, Write, Finish, ReadBatch, FlushNothing, vars, caches
<1> QED BY <1>1, <1>2

LEMMA StaysOfTurn ==
    ASSUME TypeOK, TypeOK', CardIsOfTurn, [Next]_vars
    PROVE  CardIsOfTurn'
<1> DEFINE now == Turn
           later == Turn'
<1>1. Begins(now, later) /\ now \in Seq(Lines)
  BY TurnGrows, TurnIs
<1>2. keys \subseteq keys' /\ style' = style
  BY KeysGrow
<1>3. CASE card' = card
  <2>1. CASE card.all = << >>
    BY <1>3, <2>1 DEF CardIsOfTurn
  <2>2. CASE card.all # << >>
    <3>0. PICK turn \in Seq(Lines), known \in SUBSET keys : \E shown :
              Begins(turn, now) /\ card.all = Elements(turn, known, shown, style)
      BY <2>2 DEF CardIsOfTurn
    <3>1. PICK shown :
              Begins(turn, now) /\ card.all = Elements(turn, known, shown, style)
      BY <3>0
    <3> HIDE DEF now, later
    <3>2. Begins(turn, later)
      BY <1>1, <3>1, LenProperties DEF Begins
    <3>3. known \in SUBSET keys'
      BY <1>2
    <3> QED BY <1>2, <1>3, <3>1, <3>2, <3>3 DEF CardIsOfTurn, later
  <2> QED BY <2>1, <2>2
<1>4. ASSUME NEW live \in BOOLEAN, Flush(live), card' # card PROVE CardIsOfTurn'
  <2>1. PICK drawing :
          LET all == Elements(Turn, keys', drawing, style)
              els == Capped(all, Turn, live)
          IN  card' = IF els = << >> THEN card ELSE [els |-> els, all |-> all]
    BY <1>4, FlushShows
  <2>2. card'.all = Elements(now, keys', drawing, style')
    BY <1>2, <1>4, <2>1
  <2>3. now = later
    BY <1>4 DEF Flush, reading, Turn
  <2>4. Begins(now, later)
    BY <1>1
  <2> HIDE DEF now, later
  <2> QED BY <1>1, <2>2, <2>3, <2>4 DEF CardIsOfTurn, later
<1>5. (\E live \in BOOLEAN : Flush(live)) \/ card' = card
  BY DEF Next, Write, Finish, ReadBatch, FlushNothing, vars
<1> QED BY <1>3, <1>4, <1>5

\* What is laid out with nothing missing is in the card, and a note if something is.
LEMMA LayoutKeeps ==
    ASSUME NEW all \in Seq(Elem), NEW els, LaidOut(els, all)
    PROVE  \/ \E y \in RangeOf(els) : y.tag = "note"
           \/ RangeOf(all) \subseteq RangeOf(els)
<1>0. PICK k \in 0 .. Len(all) : \E notes, feet : Layout(els, all, k, notes, feet)
  BY DEF LaidOut
<1>1. PICK notes, feet : Layout(els, all, k, notes, feet)
  BY <1>0
<1> DEFINE b == SubSeq(all, 1, k)
<1>2. /\ els = (b \o notes) \o feet
      /\ notes \in Seq(CardElem) /\ feet \in Seq(Foot) /\ \A i \in DOMAIN notes : notes[i].tag = "note"
      /\ k # Len(all) => Len(notes) = 1
  BY <1>1 DEF Layout
<1>3. b \in Seq(CardElem) /\ feet \in Seq(CardElem) /\ all \in Seq(CardElem)
  <2>1. Foot \subseteq CardElem
    BY DEF Foot, CardElem, Marks
  <2>2. feet \in Seq(CardElem)
    BY <1>2, <2>1, SeqMonotonic
  <2>3. b \in Seq(Elem)
    BY PrefixIs
  <2> HIDE DEF b
  <2> QED BY <2>2, <2>3, ElemIsCardElem
<1> HIDE DEF b
<1>4. b \o notes \in Seq(CardElem)
  BY <1>2, <1>3, ConcatProperties
<1> DEFINE top == b \o notes
<1>5. RangeOf(top) = RangeOf(b) \cup RangeOf(notes)
  BY <1>2, <1>3, RangeOfConcat
<1>6. RangeOf(els) = RangeOf(top) \cup RangeOf(feet)
  <2>1. top \in Seq(CardElem) /\ els = top \o feet
    BY <1>2, <1>4
  <2> HIDE DEF top
  <2> QED BY <1>3, <2>1, RangeOfConcat
<1>7. CASE k = Len(all)
  <2>1. b = all
    BY <1>3, <1>7, SubSeqFull DEF b
  <2> QED BY <1>5, <1>6, <2>1
<1>8. CASE k # Len(all)
  <2>1. 1 \in DOMAIN notes
    BY <1>2, <1>8, LenProperties
  <2>2. notes[1] \in RangeOf(notes) /\ notes[1].tag = "note"
    BY <1>2, <2>1 DEF RangeOf
  <2>3. notes[1] \in RangeOf(els)
    BY <1>5, <1>6, <2>2
  <2> QED BY <2>2, <2>3
<1> QED BY <1>7, <1>8

\* A flush takes nothing out of a card without a note that says so: images stay
\* uploaded and the turn only grows.
THEOREM ShownStaysShown == ASSUME ResultsAgree PROVE Spec => NothingVanishes
<1>1. Init => CardIsLaidOut /\ CardIsOfTurn
  <2> SUFFICES ASSUME Init PROVE CardIsLaidOut /\ CardIsOfTurn
    OBVIOUS
  <2>1. card.els = << >> /\ card.all = << >>
    BY DEF Init
  <2> QED BY <2>1, EmptyIsLaidOut, EmptySeq DEF CardIsLaidOut, CardIsOfTurn
<1>2. TypeOK /\ TypeOK' /\ CardIsLaidOut /\ CardIsOfTurn /\ [Next]_vars
          => CardIsLaidOut' /\ CardIsOfTurn'
  BY StaysLaidOut, StaysOfTurn
<1>3. ASSUME TypeOK, CardIsLaidOut, CardIsLaidOut', CardIsOfTurn, [Next]_vars,
             NEW x \in RangeOf(Body)
      PROVE  \E y \in RangeOf(card'.els) : y.tag = "note" \/ Same(x, y)
  <2> DEFINE all == card.all
  <2>1. all \in Seq(Elem)
    BY <1>3 DEF CardIsLaidOut
  <2>0. PICK k \in 0 .. Len(all) : \E notes, feet : Layout(card.els, all, k, notes, feet)
    BY <1>3 DEF CardIsLaidOut, LaidOut
  <2>2. PICK notes, feet : Layout(card.els, all, k, notes, feet)
    BY <2>0
  <2>3. Body = SubSeq(all, 1, k)
    BY <2>1, <2>2, LayoutShows DEF Body, Tagged
  <2>4. x \in RangeOf(all) /\ x \in RangeOf(card.els)
    <3> DEFINE b == SubSeq(all, 1, k)
    <3>1. b \in Seq(Elem) /\ Len(b) = k /\ \A i \in 1 .. k : b[i] = all[i]
      BY <2>1, PrefixIs
    <3>2. /\ b \in Seq(CardElem) /\ notes \in Seq(CardElem) /\ feet \in Seq(Foot)
          /\ card.els = (b \o notes) \o feet
      BY <2>2, <3>1, ElemIsCardElem DEF Layout
    <3>3. feet \in Seq(CardElem)
      <4>1. Foot \subseteq CardElem
        BY DEF Foot, CardElem, Marks
      <4> QED BY <3>2, <4>1, SeqMonotonic
    <3>4. x \in RangeOf(b)
      BY <1>3, <2>3
    <3> HIDE DEF b
    <3>5. x \in RangeOf(all)
      <4>1. PICK i \in 1 .. k : x = b[i]
        BY <3>1, <3>4, LenProperties DEF RangeOf
      <4>2. i \in DOMAIN all
        BY <2>1, LenProperties
      <4> QED BY <3>1, <4>1, <4>2 DEF RangeOf
    <3> DEFINE top == b \o notes
    <3>6. top \in Seq(CardElem) /\ RangeOf(top) = RangeOf(b) \cup RangeOf(notes)
      BY <3>2, ConcatProperties, RangeOfConcat
    <3>7. card.els = top \o feet
      BY <3>2
    <3> HIDE DEF top
    <3>8. RangeOf(card.els) = RangeOf(top) \cup RangeOf(feet)
      BY <3>3, <3>6, <3>7, RangeOfConcat
    <3> QED BY <3>4, <3>5, <3>6, <3>8
  <2>5. CASE card' = card
    BY <2>4, <2>5 DEF Same
  <2>6. ASSUME NEW live \in BOOLEAN, Flush(live), card' # card
        PROVE  \E y \in RangeOf(card'.els) : y.tag = "note" \/ Same(x, y)
    <3>1. PICK drawing :
            LET new == Elements(Turn, keys', drawing, style)
                els == Capped(new, Turn, live)
            IN  card' = IF els = << >> THEN card ELSE [els |-> els, all |-> new]
      BY <1>3, <2>6, FlushShows
    <3>2. card'.all = Elements(Turn, keys', drawing, style)
      BY <2>6, <3>1
    <3>3. card'.all \in Seq(Elem) /\ LaidOut(card'.els, card'.all)
      BY <1>3 DEF CardIsLaidOut
    <3>4. \/ \E y \in RangeOf(card'.els) : y.tag = "note"
          \/ RangeOf(card'.all) \subseteq RangeOf(card'.els)
      <4> DEFINE a == card'.all
                 els == card'.els
      <4>1. a \in Seq(Elem) /\ LaidOut(els, a)
        BY <3>3
      <4> HIDE DEF a, els
      <4>2. (\E y \in RangeOf(els) : y.tag = "note") \/ RangeOf(a) \subseteq RangeOf(els)
        BY <4>1, LayoutKeeps
      <4> QED BY <4>2 DEF a, els
    <3>5. \E y \in RangeOf(card'.all) : Same(x, y)
      <4>1. card.all # << >>
        BY <2>4, EmptySeq DEF RangeOf
      <4>0. PICK turn \in Seq(Lines), known \in SUBSET keys : \E shown :
                Begins(turn, Turn) /\ card.all = Elements(turn, known, shown, style)
        BY <1>3, <4>1 DEF CardIsOfTurn
      <4>2. PICK shown :
                Begins(turn, Turn) /\ card.all = Elements(turn, known, shown, style)
        BY <4>0
      <4> DEFINE more == keys'
                 later == Turn
                 how == style
      <4>3. known \subseteq more /\ later \in Seq(Lines) /\ Begins(turn, later)
        BY <1>3, <4>2, KeysGrow, TurnIs
      <4>4. x \in RangeOf(Elements(turn, known, shown, how))
        BY <2>4, <4>2
      <4> HIDE DEF more, later, how
      <4>5. \E y \in RangeOf(Elements(later, more, drawing, how)) : Same(x, y)
        BY <4>2, <4>3, <4>4, ElementsKeep
      <4> QED BY <3>2, <4>5 DEF more, later, how
    <3> QED BY <3>4, <3>5
  <2>7. (\E live \in BOOLEAN : Flush(live)) \/ card' = card
    BY <1>3 DEF Next, Write, Finish, ReadBatch, FlushNothing, vars
  <2> QED BY <2>5, <2>6, <2>7
<1>4. TypeOK /\ CardIsLaidOut /\ CardIsLaidOut' /\ CardIsOfTurn /\ [Next]_vars
          => [\A x \in RangeOf(Body) :
                 \E y \in RangeOf(card'.els) : y.tag = "note" \/ Same(x, y)]_vars
  BY <1>3
<1> QED BY <1>1, <1>2, <1>4, TypeCorrect, PTL DEF Spec, NothingVanishes
=============================================================================
