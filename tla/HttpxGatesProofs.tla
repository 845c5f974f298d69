-------------------------- MODULE HttpxGatesProofs --------------------------
(***************************************************************************)
(* The two gates of Client.Do.  The breaker's invariants for any number of *)
(* callers, any threshold, any reset timeout and any bound on the clock;   *)
(* what the token bucket guarantees and what it costs, for any number of   *)
(* goroutines, any burst and any rate.                                     *)
(***************************************************************************)
EXTENDS HttpxBreaker, HttpxLimiter, TLAPS

(* The strengthening: no timestamp lies in the future.  Without it a       *)
(* promotion decided on seen[c] would say nothing of the clock as it is.   *)
NoTimeFromTheFuture ==
  /\ lastFailure <= now
  /\ \A c \in Callers : seen[c] <= now

BreakerInv ==
  /\ TypeOK
  /\ CountMatchesState
  /\ HalfOpenIsCooled
  /\ NoTimeFromTheFuture

-----------------------------------------------------------------------------
(* The initial breaker is closed with nothing on record. *)
LEMMA InitBreakerInv == Init => BreakerInv
  BY ThresholdAssumption, BoundAssumption
  DEF Init, BreakerInv, TypeOK, CountMatchesState, HalfOpenIsCooled,
      NoTimeFromTheFuture, States, Places

(* Every step of every caller, and every tick, preserves the invariant. *)
LEMMA NextBreakerInv == BreakerInv /\ [Next]_breakerVars => BreakerInv'
<1> SUFFICES ASSUME BreakerInv, [Next]_breakerVars PROVE BreakerInv'
  OBVIOUS
<1> USE ThresholdAssumption, TimeoutAssumption, BoundAssumption
    DEF BreakerInv, TypeOK, CountMatchesState, HalfOpenIsCooled,
        NoTimeFromTheFuture, States, Places, Cooled
<1>1. ASSUME NEW c \in Callers, AllowPass(c) PROVE BreakerInv'
  BY <1>1 DEF AllowPass, MoveTo
<1>2. ASSUME NEW c \in Callers, AllowDeny(c) PROVE BreakerInv'
  BY <1>2 DEF AllowDeny, MoveTo
<1>3. ASSUME NEW c \in Callers, AllowExpired(c) PROVE BreakerInv'
  BY <1>3 DEF AllowExpired, MoveTo
<1>4. ASSUME NEW c \in Callers, AllowPromote(c) PROVE BreakerInv'
  BY <1>4 DEF AllowPromote, MoveTo, StillExpired
<1>5. ASSUME NEW c \in Callers, AllowReread(c) PROVE BreakerInv'
  BY <1>5 DEF AllowReread, MoveTo, Reread
<1>6. ASSUME NEW c \in Callers, RecordSuccess(c) PROVE BreakerInv'
  BY <1>6 DEF RecordSuccess, MoveTo
<1>7. ASSUME NEW c \in Callers, NEW next \in {"in", "out"},
             RecordFailure(c, next)
      PROVE  BreakerInv'
  BY <1>7 DEF RecordFailure, MoveTo, Trips, FailureTime
<1>8. ASSUME NEW c \in Callers, Leave(c) PROVE BreakerInv'
  BY <1>8 DEF Leave, MoveTo
<1>9. CASE Tick
  BY <1>9 DEF Tick
<1>10. CASE UNCHANGED breakerVars
  BY <1>10 DEF breakerVars
<1>11. QED
  BY <1>1, <1>2, <1>3, <1>4, <1>5, <1>6, <1>7, <1>8, <1>9, <1>10
  DEF Next, Step

(* The inductive invariant holds in every behaviour of the breaker. *)
LEMMA BreakerInvariance == Spec => []BreakerInv
  BY InitBreakerInv, NextBreakerInv, PTL DEF Spec

-----------------------------------------------------------------------------
(* The variables of the breaker keep their types. *)
THEOREM TypeCorrect == Spec => []TypeOK
<1>1. BreakerInv => TypeOK
  BY DEF BreakerInv
<1>2. QED
  BY <1>1, BreakerInvariance, PTL

(* The failure count and the state of the breaker never disagree. *)
THEOREM CountAndStateAgree == Spec => []CountMatchesState
<1>1. BreakerInv => CountMatchesState
  BY DEF BreakerInv
<1>2. QED
  BY <1>1, BreakerInvariance, PTL

(* A half-open breaker has cooled for ResetTimeout since its last failure, *)
(* whatever failed while a caller was between the locks of Allow.          *)
THEOREM HalfOpenAfterCoolDown == Spec => []HalfOpenIsCooled
<1>1. BreakerInv => HalfOpenIsCooled
  BY DEF BreakerInv
<1>2. QED
  BY <1>1, BreakerInvariance, PTL

(* No step of any caller admits a request while the breaker is open and    *)
(* cooling.                                                                *)
THEOREM AdmissionsWaitForCoolDown == Spec => NoAdmissionWhileCooling
<1> DEFINE Admit(c) == at[c] # "in" /\ at'[c] = "in"
           Safe == \A c \in Callers : Admit(c) => state = "closed" \/ Cooled(now)
<1>1. BreakerInv /\ [Next]_breakerVars => [Safe]_breakerVars
  <2> SUFFICES ASSUME BreakerInv, Next, NEW c \in Callers, Admit(c)
               PROVE  state = "closed" \/ Cooled(now)
    OBVIOUS
  <2> USE DEF BreakerInv, TypeOK, Places, HalfOpenIsCooled, States
  <2>1. at'[c] # at[c] => \E d \in Callers : Step(d) /\ at'[d] # at[d]
    <3>1. CASE Tick
      BY <3>1 DEF Tick
    <3>2. ASSUME NEW d \in Callers, Step(d) PROVE at'[c] # at[c] => d = c
      BY <3>2 DEF Step, AllowPass, AllowDeny, AllowExpired, AllowPromote,
                  AllowReread, RecordSuccess, RecordFailure, Leave, MoveTo
    <3>3. QED
      BY <3>1, <3>2 DEF Next
  <2>2. PICK d \in Callers : Step(d) /\ at'[d] # at[d]
    BY <2>1
  <2>3. d = c
    BY <2>2 DEF Step, AllowPass, AllowDeny, AllowExpired, AllowPromote,
                AllowReread, RecordSuccess, RecordFailure, Leave, MoveTo
  <2>4. AllowPass(c) \/ AllowReread(c)
    BY <2>2, <2>3 DEF Step, AllowDeny, AllowExpired, AllowPromote,
                RecordSuccess, RecordFailure, Leave, MoveTo
  <2>5. state \in {"closed", "half-open"}
    BY <2>4 DEF AllowPass, AllowReread, Reread, MoveTo
  <2>6. QED
    BY <2>5
<1>2. QED
  BY <1>1, BreakerInvariance, PTL DEF Spec, NoAdmissionWhileCooling

-----------------------------------------------------------------------------
(* A failure, first or late, trips the contract's breaker or leaves a      *)
(* closed one as it was.                                                   *)
LEMMA FailureIsTripOrStutter ==
  ASSUME BreakerInv, NEW c \in Callers, NEW next \in {"in", "out"},
         RecordFailure(c, next)
  PROVE  Contract!Trip \/ UNCHANGED Contract!contractVars
<1> USE ThresholdAssumption, TimeoutAssumption
    DEF BreakerInv, TypeOK, CountMatchesState, States,
        RecordFailure, FailureTime, Trips, Contract!Trip, Contract!contractVars
<1>1. CASE Trips
  BY <1>1
<1>2. CASE ~ Trips
  <2>1. state = "closed" /\ state' = "closed"
    BY <1>2
  <2>2. QED
    BY <1>2, <2>1
<1>3. QED
  BY <1>1, <1>2

(* The breaker, locks, windows and late failures included, implements the  *)
(* contract: every step is a trip, a probe of a cooled breaker, a recovery,*)
(* a tick, or nothing.                                                     *)
THEOREM BreakerImplementsContract == Spec => ImplementsContract
<1>1. Init => Contract!Init
  BY DEF Init, Contract!Init, Contract!NoCoolDown
<1>2. BreakerInv /\ [Next]_breakerVars
        => [Contract!Next]_(Contract!contractVars)
  <2> SUFFICES ASSUME BreakerInv, [Next]_breakerVars
               PROVE  Contract!Next \/ UNCHANGED Contract!contractVars
    OBVIOUS
  <2> USE TimeoutAssumption, BoundAssumption
      DEF Contract!contractVars, BreakerInv, TypeOK, States
  <2>1. ASSUME NEW c \in Callers,
               AllowPass(c) \/ AllowDeny(c) \/ AllowExpired(c)
               \/ AllowReread(c) \/ Leave(c)
        PROVE  UNCHANGED Contract!contractVars
    BY <2>1 DEF AllowPass, AllowDeny, AllowExpired, AllowReread, Leave
  <2>2. ASSUME NEW c \in Callers, AllowPromote(c)
        PROVE  Contract!Probe \/ UNCHANGED Contract!contractVars
    <3>1. CASE StillExpired(c)
      <4>1. now >= lastFailure + ResetTimeout
        BY <3>1 DEF StillExpired, Cooled, NoTimeFromTheFuture
      <4>2. QED
        BY <2>2, <3>1, <4>1 DEF AllowPromote, StillExpired, Contract!Probe
    <3>2. CASE ~ StillExpired(c)
      BY <2>2, <3>2 DEF AllowPromote
    <3>3. QED
      BY <3>1, <3>2
  <2>3. ASSUME NEW c \in Callers, RecordSuccess(c)
        PROVE  Contract!Recover \/ UNCHANGED Contract!contractVars
    BY <2>3 DEF RecordSuccess, Contract!Recover, Contract!NoCoolDown
  <2>4. ASSUME Tick PROVE Contract!Pass
    BY <2>4 DEF Tick, Contract!Pass
  <2>5. CASE UNCHANGED breakerVars
    BY <2>5 DEF breakerVars
  <2>6. QED
    BY <2>1, <2>2, <2>3, <2>4, <2>5, FailureIsTripOrStutter
    DEF Next, Step, Contract!Next
<1>3. QED
  BY <1>1, <1>2, BreakerInvariance, PTL
  DEF Spec, ImplementsContract, Contract!Spec

-----------------------------------------------------------------------------
(* The token bucket. *)

(* The timestamps are in order, and the bucket holds only what has been     *)
(* earned up to lastTime and not been granted for a token.                  *)
BucketAccount ==
  /\ lastTime <= clock
  /\ paid + tokens <= Capacity + lastTime

(* A goroutine's own account.  Tokens in the bucket are time that nobody    *)
(* has been granted by waiting for, so they are subtracted; a sleeper's     *)
(* deadline already carries the token it will be granted.                   *)
SleeperAccount ==
  \A c \in Waiters :
    /\ waited[c] + tokens <= Capacity + lastTime + clock
    /\ place[c] = "sleep" =>
         waited[c] + TokenTicks <= Capacity + deadline[c] + lastTime

(* The account of a goroutine that has the limiter to itself. *)
SerialAccount ==
  \A c \in Waiters : Waiters = {c} =>
    /\ paid + waited[c] + tokens <= Capacity + lastTime + clock
    /\ place[c] = "sleep" =>
         paid + waited[c] + TokenTicks <= Capacity + deadline[c] + lastTime

LimiterInv == LimiterTypeOK /\ BucketAccount /\ SleeperAccount /\ SerialAccount

-----------------------------------------------------------------------------
(* The capacity of the bucket is a natural number. *)
LEMMA CapacityNat == Capacity \in Nat
  BY BurstAssumption, RateAssumption DEF Capacity

(* A refill adds no more than the time that has passed, never takes a       *)
(* token away, and never exceeds the capacity.                              *)
LEMMA RefillBounds ==
  ASSUME LimiterInv
  PROVE  /\ Refilled \in 0..Capacity
         /\ Refilled <= tokens + (clock - lastTime)
  BY CapacityNat, TicksAssumption
  DEF LimiterInv, LimiterTypeOK, BucketAccount, Refilled

(* The full bucket and the idle goroutines of the initial state. *)
LEMMA InitLimiterInv == LimiterInit => LimiterInv
<1> SUFFICES ASSUME LimiterInit PROVE LimiterInv
  OBVIOUS
<1> USE CapacityNat, TicksAssumption DEF LimiterInit
<1>1. LimiterTypeOK
  BY DEF LimiterTypeOK
<1>2. BucketAccount
  BY DEF BucketAccount
<1>3. ASSUME NEW c \in Waiters
      PROVE  /\ waited[c] + tokens <= Capacity + lastTime + clock
             /\ paid + waited[c] = waited[c]
             /\ place[c] # "sleep"
  <2>1. waited[c] = 0 /\ place[c] = "idle"
    OBVIOUS
  <2>2. QED
    BY <2>1
<1>4. SleeperAccount /\ SerialAccount
  BY <1>3 DEF SleeperAccount, SerialAccount
<1>5. QED
  BY <1>1, <1>2, <1>4 DEF LimiterInv

(* Every step of every goroutine, and every tick, preserves the invariant. *)
LEMMA NextLimiterInv == LimiterInv /\ [LimiterNext]_limiterVars => LimiterInv'
<1> SUFFICES ASSUME LimiterInv, [LimiterNext]_limiterVars PROVE LimiterInv'
  OBVIOUS
<1> USE CapacityNat, RateAssumption, TicksAssumption
    DEF LimiterInv, LimiterTypeOK, BucketAccount, SleeperAccount, SerialAccount
<1>0. Capacity' = Capacity
  BY DEF Capacity
<1>1. ASSUME NEW c \in Waiters, TakeToken(c) PROVE LimiterInv'
  BY <1>0, <1>1, RefillBounds DEF TakeToken, TouchLastTime, Calls
<1>2. ASSUME NEW c \in Waiters, GoToSleep(c) PROVE LimiterInv'
  <2>1. LimiterTypeOK' /\ BucketAccount'
    BY <1>0, <1>2, RefillBounds DEF GoToSleep, TouchLastTime, Calls, WaitTime
  <2>2. SleeperAccount'
    BY <1>0, <1>2, RefillBounds DEF GoToSleep, TouchLastTime, Calls, WaitTime
  <2>3. SerialAccount'
    BY <1>0, <1>2, RefillBounds DEF GoToSleep, TouchLastTime, Calls, WaitTime
  <2>4. QED
    BY <2>1, <2>2, <2>3
<1>3. ASSUME NEW c \in Waiters, WakeUp(c) PROVE LimiterInv'
  BY <1>0, <1>3 DEF WakeUp, Expired
<1>4. ASSUME NEW c \in Waiters, Cancel(c) PROVE LimiterInv'
  BY <1>0, <1>4 DEF Cancel
<1>5. CASE LimiterTick
  BY <1>0, <1>5 DEF LimiterTick
<1>6. CASE UNCHANGED limiterVars
  BY <1>0, <1>6 DEF limiterVars
<1>7. QED
  BY <1>1, <1>2, <1>3, <1>4, <1>5, <1>6 DEF LimiterNext

(* The inductive invariant holds in every behaviour of the limiter. *)
LEMMA LimiterInvariance == LimiterSpec => []LimiterInv
  BY InitLimiterInv, NextLimiterInv, PTL DEF LimiterSpec

-----------------------------------------------------------------------------
(* The variables of the limiter keep their types. *)
THEOREM BucketTypeCorrect == LimiterSpec => []LimiterTypeOK
<1>1. LimiterInv => LimiterTypeOK
  BY DEF LimiterInv
<1>2. QED
  BY <1>1, LimiterInvariance, PTL

(* Tokens are never granted faster than burst and rate allow. *)
THEOREM TokensKeepTheRate == LimiterSpec => []PaidGrantsKeepRate
<1>1. LimiterInv => PaidGrantsKeepRate
  BY CapacityNat, TicksAssumption
  DEF LimiterInv, LimiterTypeOK, BucketAccount, PaidGrantsKeepRate
<1>2. QED
  BY <1>1, LimiterInvariance, PTL

(* Waiting grants one goroutine at most the burst and twice the rate, with  *)
(* any number of goroutines asleep beside it.                               *)
THEOREM WaitingAtMostDoubles == LimiterSpec => []SleepersAtMostDouble
<1>1. LimiterInv => SleepersAtMostDouble
  <2> SUFFICES ASSUME LimiterInv, NEW c \in Waiters
               PROVE  waited[c] <= Capacity + 2 * clock
    BY DEF SleepersAtMostDouble
  <2>1. /\ waited[c] \in Nat /\ tokens \in Nat /\ lastTime \in Nat /\ clock \in Nat
        /\ lastTime <= clock
    BY CapacityNat, TicksAssumption DEF LimiterInv, LimiterTypeOK, BucketAccount
  <2>2. waited[c] + tokens <= Capacity + lastTime + clock
    BY DEF LimiterInv, SleeperAccount
  <2>3. QED
    BY <2>1, <2>2, CapacityNat
<1>2. QED
  BY <1>1, LimiterInvariance, PTL

(* Used by one goroutine, the limiter grants at most the burst and twice    *)
(* the rate.                                                                *)
THEOREM SerialUseBound == LimiterSpec => []SerialUseAtMostDoubles
<1>1. LimiterInv => SerialUseAtMostDoubles
  BY CapacityNat, TicksAssumption
  DEF LimiterInv, LimiterTypeOK, BucketAccount, SerialAccount, SerialUseAtMostDoubles
<1>2. QED
  BY <1>1, LimiterInvariance, PTL
==============================================================================
