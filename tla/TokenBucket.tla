----------------------------- MODULE TokenBucket -----------------------------
(***************************************************************************)
(* The token bucket every Feishu call of a binding goes through            *)
(* (daemon/ratelimit.py), with the coroutines that compete for it.         *)
(*                                                                         *)
(* The code's tokens are a float that grows by rate_per_sec; here a token  *)
(* is Unit parts, a tick of the clock adds Rate parts, and the arithmetic  *)
(* is exact.  acquire holds an asyncio.Lock over a stretch that awaits     *)
(* nothing, so an attempt is one step; between attempts the caller sleeps. *)
(*                                                                         *)
(* window and granted measure an arbitrary interval: Measure may start it  *)
(* at any moment, so what holds of it holds of every interval.             *)
(***************************************************************************)
EXTENDS Integers

CONSTANTS
    Callers,    \* the coroutines that share the bucket
    Unit,       \* parts of one token
    Rate,       \* parts the bucket gains in one tick
    Capacity,   \* tokens the bucket holds at most
    Slack,      \* ticks added to a computed sleep (0.001 s in the code)
    MaxTime     \* bound: ticks of the clock

ASSUME UnitAssumption == Unit \in Nat \ {0}
ASSUME RateAssumption == Rate \in Nat \ {0}
ASSUME CapacityAssumption == Capacity \in Nat \ {0}
ASSUME TimeAssumption == Slack \in Nat /\ MaxTime \in Nat

VARIABLES
    now,        \* time.monotonic()
    tokens,     \* _tokens, in parts
    lastRefill, \* _last_refill
    state,      \* what each caller does: "away", "trying" or "asleep"
    wake,       \* when a sleeper's sleep is over
    robbed,     \* history: has a token been taken since this caller slept?
    window,     \* history: when the measured interval began
    granted     \* history: tokens taken since

bucket == <<tokens, lastRefill>>
vars == <<now, bucket, state, wake, robbed, window, granted>>

Full == Capacity * Unit
Least(a, b) == IF a <= b THEN a ELSE b

\* What _refill leaves in the bucket.
LevelUncapped == tokens + (now - lastRefill) * Rate  \* mutant
Level == Least(Full, tokens + (now - lastRefill) * Rate)

\* Ticks until the bucket gains the missing parts.
Deficit(level) == Unit - level
NapRoundedDown(level) == Deficit(level) \div Rate + Slack  \* mutant
Nap(level) == (Deficit(level) + Rate - 1) \div Rate + Slack

Init ==
    /\ now = 0 /\ tokens = Full /\ lastRefill = 0
    /\ state = [c \in Callers |-> "away"]
    /\ wake = [c \in Callers |-> 0]
    /\ robbed = [c \in Callers |-> FALSE]
    /\ window = 0 /\ granted = 0

\* A coroutine calls acquire.
Call(c) ==
    /\ state[c] = "away"
    /\ state' = [state EXCEPT ![c] = "trying"]
    /\ UNCHANGED <<now, bucket, wake, robbed, window, granted>>

TakeInDebt ==  \* mutant
    /\ tokens' = Level - Unit /\ lastRefill' = now
    /\ granted' = granted + 1
    /\ robbed' = [c \in Callers |-> TRUE]
    /\ UNCHANGED <<now, wake, window>>

\* One token leaves the bucket.
Take ==
    /\ Level >= Unit
    /\ tokens' = Level - Unit /\ lastRefill' = now
    /\ granted' = granted + 1
    /\ robbed' = [c \in Callers |-> TRUE]
    /\ UNCHANGED <<now, wake, window>>

\* The attempt of acquire that succeeds.
Acquire(c) ==
    /\ state[c] = "trying" /\ Take
    /\ state' = [state EXCEPT ![c] = "away"]

\* The attempt that fails: the lock is released and the caller sleeps.
Sleep(c) ==
    /\ state[c] = "trying" /\ Level < Unit
    /\ tokens' = Level /\ lastRefill' = now
    /\ state' = [state EXCEPT ![c] = "asleep"]
    /\ wake' = [wake EXCEPT ![c] = now + Nap(Level)]
    /\ robbed' = [robbed EXCEPT ![c] = FALSE]
    /\ UNCHANGED <<now, window, granted>>

\* The sleep is over (asyncio.sleep may end late, never early): try again.
Wake(c) ==
    /\ state[c] = "asleep" /\ now >= wake[c]
    /\ state' = [state EXCEPT ![c] = "trying"]
    /\ UNCHANGED <<now, bucket, wake, robbed, window, granted>>

\* try_acquire: one attempt that never waits.
TryAcquire ==
    \/ Take /\ UNCHANGED state
    \/ /\ Level < Unit
       /\ tokens' = Level /\ lastRefill' = now
       /\ UNCHANGED <<now, state, wake, robbed, window, granted>>

Tick ==
    /\ now < MaxTime /\ now' = now + 1
    /\ UNCHANGED <<bucket, state, wake, robbed, window, granted>>

\* The measured interval begins here.
Measure ==
    /\ window' = now /\ granted' = 0
    /\ UNCHANGED <<now, bucket, state, wake, robbed>>

Next ==
    \/ \E c \in Callers : Call(c) \/ Acquire(c) \/ Sleep(c) \/ Wake(c)
    \/ TryAcquire \/ Tick \/ Measure

Spec == Init /\ [][Next]_vars

-----------------------------------------------------------------------------
(* Correctness.                                                            *)

\* Every variable has its type, and the bucket is never in debt or over full.
TypeOK ==
    /\ now \in Nat /\ tokens \in 0 .. Full /\ lastRefill \in 0 .. now
    /\ state \in [Callers -> {"away", "trying", "asleep"}]
    /\ wake \in [Callers -> Nat] /\ robbed \in [Callers -> BOOLEAN]
    /\ window \in 0 .. now /\ granted \in Nat

\* In any interval at most Capacity tokens are taken, plus what the rate adds
\* over its length, however many callers race and whenever they wake.
RateBound == granted * Unit <= Full + (now - window) * Rate

\* The strengthening that is inductive: tokens taken and tokens left together.
Budget == granted * Unit + Level <= Full + (now - window) * Rate

\* acquire does not poll: a sleeper whose sleep is over finds a token, unless
\* another caller took one meanwhile.
NapSuffices ==
    \A c \in Callers :
        state[c] = "asleep" /\ now >= wake[c] /\ ~robbed[c] => Level >= Unit
=============================================================================
