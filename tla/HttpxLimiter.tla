---------------------------- MODULE HttpxLimiter ----------------------------
(***************************************************************************)
(* RateLimiter of internal/httpx/client.go, the token bucket every call of *)
(* Client.Do waits on.  Wait holds the mutex while it refills the bucket   *)
(* and takes a token or computes how long to sleep, and again while it     *)
(* empties the bucket after the sleep; it sleeps without the mutex.        *)
(*                                                                         *)
(* The clock ticks TokenTicks times while the bucket earns one token (1 /  *)
(* Config.QPS seconds), and tokens are counted in those fractions, so that *)
(* every amount and every wait is a whole number; the rounding of float64  *)
(* and of time.Duration below a tick is left out.  MaxTicks bounds the     *)
(* clock, and a call begins only while a whole sleep fits before it.       *)
(***************************************************************************)
EXTENDS Integers

CONSTANTS Waiters,
          Burst,        \* Config.Burst, the capacity in tokens
          TokenTicks,   \* ticks in which one token is earned
          MaxTicks

ASSUME BurstAssumption == Burst \in Nat
ASSUME RateAssumption == TokenTicks \in Nat \ {0}   \* int(QPS) is not 0
ASSUME TicksAssumption == MaxTicks \in Nat

VARIABLES
  tokens,     \* r.tokens, in fractions of TokenTicks
  lastTime,   \* r.lastTime
  clock,        \* the clock
  place,         \* "idle", or "sleep" in the select of Wait
  deadline,   \* when a sleeper's timer fires
  paid,       \* history: fractions granted for a token of the bucket
  waited      \* history: per caller, fractions "consumed by waiting"

limiterVars == <<tokens, lastTime, clock, place, deadline, paid, waited>>

Capacity == Burst * TokenTicks

LimiterTypeOK ==
  /\ tokens \in 0..Capacity
  /\ lastTime \in 0..MaxTicks /\ clock \in 0..MaxTicks
  /\ place \in [Waiters -> {"idle", "sleep"}]
  /\ deadline \in [Waiters -> 0..MaxTicks]
  /\ paid \in Nat
  /\ waited \in [Waiters -> Nat]

LimiterInit ==
  /\ tokens = Capacity
  /\ lastTime = 0 /\ clock = 0
  /\ place = [c \in Waiters |-> "idle"]
  /\ deadline = [c \in Waiters |-> 0]
  /\ paid = 0
  /\ waited = [c \in Waiters |-> 0]

Uncapped == tokens + (clock - lastTime)            \* fault: no cap at capacity
Refilled ==
  IF tokens + (clock - lastTime) > Capacity THEN Capacity
  ELSE tokens + (clock - lastTime)

Calls(c) == place[c] = "idle" /\ clock + TokenTicks <= MaxTicks

KeepLastTime == lastTime' = lastTime             \* fault: r.lastTime not moved
TouchLastTime == lastTime' = clock

TakeToken(c) ==
  /\ Calls(c)
  /\ Refilled >= TokenTicks
  /\ tokens' = Refilled - TokenTicks
  /\ TouchLastTime
  /\ paid' = paid + TokenTicks
  /\ UNCHANGED <<clock, place, deadline, waited>>

HalfTheWait == (TokenTicks - Refilled) \div 2    \* fault: wakes too early
WaitTime == TokenTicks - Refilled

GoToSleep(c) ==
  /\ Calls(c)
  /\ Refilled < TokenTicks
  /\ tokens' = Refilled
  /\ TouchLastTime
  /\ place' = [place EXCEPT ![c] = "sleep"]
  /\ deadline' = [deadline EXCEPT ![c] = clock + WaitTime]
  /\ UNCHANGED <<clock, paid, waited>>

Expired(c) == deadline[c] <= clock

(* The timer fires and the mutex is taken again, some time later.  Nothing *)
(* asks whether the bucket changed meanwhile, and lastTime is not moved.   *)
WakeUp(c) ==
  /\ place[c] = "sleep" /\ Expired(c)
  /\ tokens' = 0
  /\ waited' = [waited EXCEPT ![c] = @ + TokenTicks]
  /\ place' = [place EXCEPT ![c] = "idle"]
  /\ UNCHANGED <<lastTime, clock, deadline, paid>>

(* ctx.Done(): the sleeper leaves the bucket as it is. *)
Cancel(c) ==
  /\ place[c] = "sleep"
  /\ place' = [place EXCEPT ![c] = "idle"]
  /\ UNCHANGED <<tokens, lastTime, clock, deadline, paid, waited>>

LimiterTick ==
  /\ clock < MaxTicks
  /\ clock' = clock + 1
  /\ UNCHANGED <<tokens, lastTime, place, deadline, paid, waited>>

LimiterNext ==
  \/ LimiterTick
  \/ \E c \in Waiters : TakeToken(c) \/ GoToSleep(c) \/ WakeUp(c) \/ Cancel(c)

LimiterSpec == LimiterInit /\ [][LimiterNext]_limiterVars

-----------------------------------------------------------------------------
(* The grants that are paid with tokens keep to the burst and the rate,     *)
(* whatever the sleepers do to the bucket meanwhile: emptying it when they  *)
(* wake never creates a token, and no stretch of time is earned twice by    *)
(* those who take one.                                                      *)
PaidGrantsKeepRate == paid <= Capacity + clock

(* The price of sleeping without the mutex, per goroutine: however many     *)
(* others sleep at once and all "consume" the same token, waiting grants    *)
(* one goroutine no more than twice what the bucket earns.                  *)
SleepersAtMostDouble == \A c \in Waiters : waited[c] <= Capacity + 2 * clock

(* The price of not moving lastTime after the sleep: a goroutine alone with *)
(* the limiter is paid for the time it slept and earns it as well, but all  *)
(* its grants stay within the burst and twice the rate.                     *)
SerialUseAtMostDoubles ==
  \A c \in Waiters : Waiters = {c} => paid + waited[c] <= Capacity + 2 * clock

(* What limiter_test.go calls "2 QPS, burst of 5" and the README "Built-in  *)
(* QPS limits and burst control": burst plus rate bounds what is granted,   *)
(* even to a goroutine alone.                                               *)
RateIsRespected ==
  \A c \in Waiters : paid + waited[c] <= Capacity + clock
==============================================================================
