-------------------------- MODULE TokenBucketProofs --------------------------
(***************************************************************************)
(* TokenBucket for every number of callers, rate, capacity and length of   *)
(* time.  The bound on what an interval can take is not inductive: a step  *)
(* that takes a token must know the bucket held it.  Budget adds what is   *)
(* left in the bucket to what was taken, and is.                           *)
(***************************************************************************)
EXTENDS TokenBucket, TLAPS

\* The products of the model are natural numbers.
LEMMA Products ==
    ASSUME NEW m \in Nat, NEW n \in Nat
    PROVE  m * n \in Nat
  OBVIOUS

\* The bucket's size is a number of parts that holds at least one token.
LEMMA FullType == Full \in Nat /\ Full >= Unit
<1>1. Capacity \in Nat /\ Unit \in Nat /\ Capacity >= 1
  BY UnitAssumption, CapacityAssumption
<1>2. Capacity * Unit \in Nat
  BY <1>1, Products
<1>3. (Capacity - 1) * Unit \in Nat
  BY <1>1, Products
<1>4. Capacity * Unit = (Capacity - 1) * Unit + Unit
  BY <1>1
<1> QED BY <1>1, <1>2, <1>3, <1>4 DEF Full

\* _refill leaves at most a full bucket, and never less than it found.
LEMMA LevelType ==
    ASSUME TypeOK
    PROVE  Level \in 0 .. Full /\ Level >= tokens
<1>1. (now - lastRefill) * Rate \in Nat
  <2>1. now - lastRefill \in Nat /\ Rate \in Nat
    BY RateAssumption DEF TypeOK
  <2> QED BY <2>1, Products
<1> QED BY <1>1, FullType DEF Level, Least, TypeOK

\* The sleep acquire computes is a number of ticks.
LEMMA NapType ==
    ASSUME TypeOK, Level < Unit
    PROVE  Nap(Level) \in Nat
<1>1. Level \in Nat /\ Unit \in Nat /\ Rate \in Nat /\ Rate > 0 /\ Slack \in Nat
  BY LevelType, FullType, UnitAssumption, RateAssumption, TimeAssumption
<1>2. Deficit(Level) + Rate - 1 \in Nat
  BY <1>1 DEF Deficit
<1>3. (Deficit(Level) + Rate - 1) \div Rate \in Nat
  BY <1>1, <1>2
<1> QED BY <1>1, <1>3 DEF Nap

\* Type correctness: in particular the bucket never goes below zero tokens.
THEOREM TypeCorrect == Spec => []TypeOK
<1>1. Init => TypeOK
  BY FullType DEF Init, TypeOK
<1>2. TypeOK /\ [Next]_vars => TypeOK'
  <2> SUFFICES ASSUME TypeOK, [Next]_vars PROVE TypeOK'
    OBVIOUS
  <2> USE DEF TypeOK
  <2>1. Level \in 0 .. Full /\ Full \in Nat /\ Unit \in Nat /\ Unit > 0
    BY LevelType, FullType, UnitAssumption
  <2>2. Take => /\ tokens' \in 0 .. Full /\ lastRefill' \in 0 .. now' /\ now' \in Nat
                /\ wake' \in [Callers -> Nat] /\ robbed' \in [Callers -> BOOLEAN]
                /\ window' \in 0 .. now' /\ granted' \in Nat
    BY <2>1 DEF Take
  <2>3. ASSUME NEW c \in Callers, Call(c) PROVE TypeOK'
    BY <2>3 DEF Call, bucket, Full
  <2>4. ASSUME NEW c \in Callers, Acquire(c) PROVE TypeOK'
    BY <2>2, <2>4 DEF Acquire, Full
  <2>5. ASSUME NEW c \in Callers, Sleep(c) PROVE TypeOK'
    <3>1. Nap(Level) \in Nat
      BY <2>5, NapType DEF Sleep
    <3> QED BY <2>1, <2>5, <3>1 DEF Sleep, Full
  <2>6. ASSUME NEW c \in Callers, Wake(c) PROVE TypeOK'
    BY <2>6 DEF Wake, bucket, Full
  <2>7. CASE TryAcquire
    BY <2>1, <2>2, <2>7 DEF TryAcquire, Full
  <2>8. CASE Tick
    BY <2>8 DEF Tick, bucket, Full
  <2>9. CASE Measure
    BY <2>9 DEF Measure, bucket, Full
  <2>10. CASE UNCHANGED vars
    BY <2>10 DEF vars, bucket, Full
  <2> QED BY <2>3, <2>4, <2>5, <2>6, <2>7, <2>8, <2>9, <2>10 DEF Next
<1> QED BY <1>1, <1>2, PTL DEF Spec

\* Taking a token takes a whole Unit out of the level.
LEMMA TakeLevel ==
    ASSUME TypeOK, Take
    PROVE  Level' = Level - Unit
<1>1. (now' - lastRefill') * Rate = 0
  BY RateAssumption DEF Take, TypeOK
<1>2. tokens' = Level - Unit /\ tokens' <= Full
  BY LevelType, FullType, UnitAssumption DEF Take
<1>3. Level' = Least(Full, tokens' + (now' - lastRefill') * Rate)
  BY DEF Level, Full
<1> QED BY <1>1, <1>2, <1>3, LevelType, FullType, UnitAssumption DEF Least

\* A refill that takes nothing does not change the level.
LEMMA RefillLevel ==
    ASSUME TypeOK, now' = now, tokens' = Level, lastRefill' = now
    PROVE  Level' = Level
<1>1. (now' - lastRefill') * Rate = 0
  BY RateAssumption DEF TypeOK
<1>2. Level' = Least(Full, tokens' + (now' - lastRefill') * Rate)
  BY DEF Level, Full
<1> QED BY <1>1, <1>2, LevelType, FullType DEF Least

\* A tick of the clock adds at most Rate parts.
LEMMA TickLevel ==
    ASSUME TypeOK, Tick
    PROVE  Level' \in Nat /\ Level' <= Level + Rate
<1>1. (now' - lastRefill') * Rate = (now - lastRefill) * Rate + Rate
  BY RateAssumption DEF Tick, bucket, TypeOK
<1>2. Level' = Least(Full, tokens + (now' - lastRefill') * Rate)
  BY DEF Level, Full, Tick, bucket
<1>3. (now - lastRefill) * Rate \in Nat
  BY Products, RateAssumption DEF TypeOK
<1> QED BY <1>1, <1>2, <1>3, FullType, RateAssumption DEF Level, Least, TypeOK

\* What an interval can take, together with what the bucket still holds.
THEOREM BudgetHolds == Spec => []Budget
<1>1. Init => Budget
  BY FullType, RateAssumption, UnitAssumption DEF Init, Budget, Level, Least
<1>2. TypeOK /\ TypeOK' /\ Budget /\ [Next]_vars => Budget'
  <2> SUFFICES ASSUME TypeOK, TypeOK', Budget, [Next]_vars PROVE Budget'
    OBVIOUS
  <2> DEFINE Allowed == Full + (now - window) * Rate
  <2>1. /\ Level \in Nat /\ Full \in Nat /\ Unit \in Nat /\ Rate \in Nat
        /\ granted * Unit \in Nat /\ (now - window) * Rate \in Nat
    BY LevelType, FullType, Products, UnitAssumption, RateAssumption DEF TypeOK
  <2>2. ASSUME Take PROVE Budget'
    <3>1. granted' * Unit = granted * Unit + Unit
      BY <2>1, <2>2 DEF Take, TypeOK
    <3>2. Level' = Level - Unit
      BY <2>2, TakeLevel
    <3>3. Allowed' = Allowed
      BY <2>2 DEF Take, Full
    <3> QED BY <2>1, <3>1, <3>2, <3>3 DEF Budget, Full
  <2>3. ASSUME now' = now, tokens' = Level, lastRefill' = now,
               UNCHANGED <<window, granted>>
        PROVE  Budget'
    <3>1. Level' = Level
      BY <2>3, RefillLevel
    <3> QED BY <2>3, <3>1 DEF Budget, Full
  <2>4. ASSUME UNCHANGED <<now, tokens, lastRefill, window, granted>> PROVE Budget'
    BY <2>4 DEF Budget, Level, Full
  <2>5. ASSUME NEW c \in Callers, Call(c) \/ Acquire(c) \/ Sleep(c) \/ Wake(c)
        PROVE  Budget'
    BY <2>2, <2>3, <2>4, <2>5 DEF Call, Acquire, Sleep, Wake, bucket
  <2>6. CASE TryAcquire
    BY <2>2, <2>3, <2>6 DEF TryAcquire
  <2>7. CASE Tick
    <3>1. Level' <= Level + Rate /\ Level' \in Nat
      BY <2>7, TickLevel
    <3>2. (now' - window') * Rate = (now - window) * Rate + Rate
      BY <2>1, <2>7 DEF Tick, TypeOK
    <3>3. granted' = granted
      BY <2>7 DEF Tick
    <3> QED BY <2>1, <3>1, <3>2, <3>3 DEF Budget, Full
  <2>8. CASE Measure
    <3>1. Level' = Level /\ granted' * Unit = 0 /\ (now' - window') * Rate = 0
      BY <2>1, <2>8 DEF Measure, bucket, Level, Full, TypeOK
    <3>2. Level <= Full
      BY LevelType
    <3> QED BY <2>1, <3>1, <3>2 DEF Budget, Full
  <2>9. CASE UNCHANGED vars
    BY <2>4, <2>9 DEF vars, bucket
  <2> QED BY <2>5, <2>6, <2>7, <2>8, <2>9 DEF Next
<1>3. Spec => []TypeOK
  BY TypeCorrect
<1> QED BY <1>1, <1>2, <1>3, PTL DEF Spec

\* The bound of daemon/ratelimit.py: in any interval of any behaviour at most
\* Capacity tokens are taken, plus what the rate adds over its length.
THEOREM RateIsBounded == Spec => []RateBound
<1>1. TypeOK /\ Budget => RateBound
  <2> SUFFICES ASSUME TypeOK, Budget PROVE RateBound
    OBVIOUS
  <2>1. Level \in Nat /\ granted * Unit \in Nat /\ (now - window) * Rate \in Nat
    BY LevelType, FullType, Products, UnitAssumption, RateAssumption DEF TypeOK
  <2> QED BY <2>1, FullType DEF Budget, RateBound
<1> QED BY <1>1, TypeCorrect, BudgetHolds, PTL

-----------------------------------------------------------------------------
(* The sleep acquire computes is long enough.                              *)

\* A sleeper nobody robbed either has its token or is sure of it by its wake.
Promised(c) ==
    \/ Level >= Unit
    \/ now < wake[c] /\ Level + (wake[c] - now) * Rate >= Unit

Promise == \A c \in Callers : state[c] = "asleep" /\ ~robbed[c] => Promised(c)

\* Rounding up: that many ticks of Rate parts make good what is missing.
LEMMA RoundUp ==
    ASSUME NEW d \in Nat \ {0}, NEW r \in Nat \ {0}
    PROVE  /\ (d + r - 1) \div r \in Nat \ {0}
           /\ ((d + r - 1) \div r) * r >= d
<1> DEFINE n == d + r - 1
           q == n \div r
<1>1. n \in Nat /\ q \in Int
  OBVIOUS
<1>2. n = (r * q) + (n % r) /\ n % r \in 0 .. r - 1
  BY <1>1
<1>3. q * r >= d
  BY <1>1, <1>2
<1>4. q > 0
  <2> SUFFICES ASSUME q <= 0 PROVE FALSE
    BY <1>1
  <2>1. (0 - q) * r \in Nat
    BY <1>1, Products
  <2>2. (0 - q) * r = 0 - (q * r)
    BY <1>1
  <2> QED BY <1>1, <1>3, <2>1, <2>2
<1> QED BY <1>1, <1>3, <1>4

\* A nap from now on keeps the promise.
LEMMA NapKeepsPromise ==
    ASSUME TypeOK, Level < Unit
    PROVE  Nap(Level) > 0 /\ Level + Nap(Level) * Rate >= Unit
<1> DEFINE ticks == (Deficit(Level) + Rate - 1) \div Rate
<1>1. /\ Level \in Nat /\ Unit \in Nat /\ Rate \in Nat \ {0} /\ Slack \in Nat
      /\ Deficit(Level) \in Nat \ {0} /\ Deficit(Level) = Unit - Level
  BY LevelType, FullType, UnitAssumption, RateAssumption, TimeAssumption DEF Deficit
<1>2. ticks \in Nat \ {0} /\ ticks * Rate >= Deficit(Level)
  BY <1>1, RoundUp
<1>3. Nap(Level) = ticks + Slack
  BY DEF Nap
<1>4. (ticks + Slack) * Rate = ticks * Rate + Slack * Rate /\ Slack * Rate \in Nat
  BY <1>1, <1>2, Products
<1> QED BY <1>1, <1>2, <1>3, <1>4

\* A tick adds all of Rate, or fills the bucket.
LEMMA TickFills ==
    ASSUME TypeOK, Tick
    PROVE  Level' >= Level /\ (Level' = Level + Rate \/ Level' >= Unit)
<1>1. (now' - lastRefill') * Rate = (now - lastRefill) * Rate + Rate
  BY RateAssumption DEF Tick, bucket, TypeOK
<1>2. Level' = Least(Full, tokens + (now' - lastRefill') * Rate)
  BY DEF Level, Full, Tick, bucket
<1>3. (now - lastRefill) * Rate \in Nat /\ Unit \in Nat
  BY Products, RateAssumption, UnitAssumption DEF TypeOK
<1> QED BY <1>1, <1>2, <1>3, FullType, RateAssumption DEF Level, Least, TypeOK

\* Every sleeper nobody robbed is promised its token.
THEOREM PromiseHolds == Spec => []Promise
<1>1. Init => Promise
  BY DEF Init, Promise
<1>2. TypeOK /\ Promise /\ [Next]_vars => Promise'
  <2> SUFFICES ASSUME TypeOK, Promise, [Next]_vars,
                      NEW c \in Callers, state'[c] = "asleep", ~robbed'[c]
               PROVE  Promised(c)'
    BY DEF Promise
  <2>1. /\ Level \in Nat /\ Unit \in Nat /\ Rate \in Nat \ {0}
        /\ now \in Nat /\ wake[c] \in Nat
    BY LevelType, FullType, UnitAssumption, RateAssumption DEF TypeOK
  <2>2. ASSUME Level' = Level, now' = now, wake'[c] = wake[c],
               state[c] = "asleep", ~robbed[c]
        PROVE  Promised(c)'
    <3>1. Promised(c)
      BY <2>2 DEF Promise
    <3> QED BY <2>2, <3>1 DEF Promised
  <2>3. ASSUME NEW d \in Callers, Call(d) PROVE Promised(c)'
    BY <2>2, <2>3 DEF Call, bucket, Level, Full, TypeOK
  <2>4. ASSUME NEW d \in Callers, Wake(d) PROVE Promised(c)'
    BY <2>2, <2>4 DEF Wake, bucket, Level, Full, TypeOK
  <2>5. ASSUME Take PROVE FALSE
    BY <2>5 DEF Take
  <2>6. ASSUME NEW d \in Callers, Sleep(d) PROVE Promised(c)'
    <3>1. Level' = Level /\ now' = now /\ Level < Unit
      BY <2>6, RefillLevel DEF Sleep
    <3>2. CASE c = d
      <4>1. wake'[c] = now + Nap(Level)
        BY <2>6, <3>2 DEF Sleep, TypeOK
      <4>2. Nap(Level) \in Nat /\ Nap(Level) > 0 /\ Level + Nap(Level) * Rate >= Unit
        BY <3>1, NapType, NapKeepsPromise
      <4>3. wake'[c] - now' = Nap(Level)
        BY <2>1, <3>1, <4>1, <4>2
      <4> QED BY <2>1, <3>1, <4>1, <4>2, <4>3 DEF Promised
    <3>3. CASE c # d
      BY <2>2, <2>6, <3>1, <3>3 DEF Sleep, TypeOK
    <3> QED BY <3>2, <3>3
  <2>7. CASE TryAcquire
    <3>1. Level' = Level
      BY <2>5, <2>7, RefillLevel DEF TryAcquire
    <3> QED BY <2>2, <2>5, <2>7, <3>1 DEF TryAcquire
  <2>8. CASE Tick
    <3>1. Level' >= Level /\ (Level' = Level + Rate \/ Level' >= Unit) /\ Level' \in Nat
      BY <2>8, TickFills, TickLevel
    <3>2. Promised(c) /\ wake'[c] = wake[c] /\ now' = now + 1
      BY <2>8 DEF Tick, Promise
    <3>3. (wake[c] - now) * Rate = (wake[c] - (now + 1)) * Rate + Rate
      <4>1. wake[c] - now \in Int /\ (wake[c] - now) - 1 = wake[c] - (now + 1)
        BY <2>1
      <4>2. \A a \in Int : a * Rate = (a - 1) * Rate + Rate
        BY <2>1
      <4> QED BY <4>1, <4>2
    <3>4. ASSUME now < wake[c], Level + (wake[c] - now) * Rate >= Unit,
                 Level' = Level + Rate
          PROVE  Promised(c)'
      <4>1. Level' + (wake[c] - (now + 1)) * Rate >= Unit
        BY <2>1, <3>1, <3>3, <3>4
      <4>2. CASE now + 1 < wake[c]
        BY <3>2, <4>1, <4>2 DEF Promised
      <4>3. CASE now + 1 = wake[c]
        <5>1. (wake[c] - (now + 1)) * Rate = 0
          BY <2>1, <4>3
        <5> QED BY <3>1, <4>1, <5>1 DEF Promised
      <4>4. now + 1 < wake[c] \/ now + 1 = wake[c]
        BY <2>1, <3>4
      <4> QED BY <4>2, <4>3, <4>4
    <3>5. Level' >= Unit => Promised(c)'
      BY DEF Promised
    <3> QED BY <2>1, <3>1, <3>2, <3>4, <3>5 DEF Promised
  <2>9. CASE Measure
    BY <2>2, <2>9 DEF Measure, bucket, Level, Full
  <2>10. CASE UNCHANGED vars
    BY <2>2, <2>10 DEF vars, bucket, Level, Full
  <2>11. ASSUME NEW d \in Callers, Acquire(d) PROVE Promised(c)'
    BY <2>5, <2>11 DEF Acquire
  <2> QED BY <2>3, <2>4, <2>6, <2>7, <2>8, <2>9, <2>10, <2>11 DEF Next
<1> QED BY <1>1, <1>2, TypeCorrect, PTL DEF Spec

\* acquire does not poll: a sleep nobody robbed ends with a token in the bucket.
THEOREM NapIsEnough == Spec => []NapSuffices
<1>1. TypeOK /\ Promise => NapSuffices
  BY DEF TypeOK, Promise, Promised, NapSuffices
<1> QED BY <1>1, TypeCorrect, PromiseHolds, PTL
=============================================================================
