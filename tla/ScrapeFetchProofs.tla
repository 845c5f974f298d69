-------------------------- MODULE ScrapeFetchProofs --------------------------
(***************************************************************************)
(* What Fetch guarantees to the host, for any number of goroutines, any    *)
(* policy, lifetime of the rules, burst and rate.                          *)
(***************************************************************************)
EXTENDS ScrapeFetch, TLAPS

(* The account of the bucket: tokens still in it have been granted to       *)
(* nobody, and the holder of the mutex is granted the time until its        *)
(* deadline, which is credited once more to whoever comes next.             *)
GrantAccount ==
  /\ lastTime <= now
  /\ granted + tokens <= Capacity + lastTime + now
  /\ holder # Nobody => granted + TokenTicks <= Capacity + deadline + lastTime

(* How old rules are: on their way to a goroutine, and in the cache.        *)
RulesAge ==
  /\ \A c \in Callers :
       /\ pc[c] \in {"fetching", "parsing"} =>
            started[c] <= now /\ now <= started[c] + RobotsTimeout
       /\ pc[c] = "parsing" => started[c] <= got[c].servedAt
  /\ cache # NoRobots => cache.fetchedAt <= cache.servedAt + RobotsTimeout

FetchInv == TypeOK /\ GrantAccount /\ RulesAge

-----------------------------------------------------------------------------
(* The capacity of the bucket is a natural number. *)
LEMMA CapacityNat == Capacity \in Nat
  BY BucketAssumption DEF Capacity

(* A refill adds no more than the time that has passed and never exceeds    *)
(* the capacity.                                                            *)
LEMMA RefillBounds ==
  ASSUME TypeOK, lastTime <= now
  PROVE  /\ Refilled \in 0..Capacity
         /\ Refilled <= tokens + (now - lastTime)
  BY CapacityNat DEF TypeOK, Refilled

(* Idle goroutines, an empty cache and a full bucket satisfy the invariant. *)
LEMMA InitFetchInv == Init => FetchInv
<1> SUFFICES ASSUME Init PROVE FetchInv
  OBVIOUS
<1> USE CapacityNat, AttemptsAssumption, BucketAssumption, RobotsAssumption, NobodyAssumption
    DEF Init
<1>1. TypeOK
  <2>1. NoRobots \in Robots
    BY DEF NoRobots, Robots
  <2>2. \A c \in Callers : holder = c <=> pc[c] = "sleep"
    OBVIOUS
  <2>3. QED
    BY <2>1, <2>2 DEF TypeOK, Places
<1>2. GrantAccount
  BY DEF GrantAccount
<1>3. RulesAge
  BY DEF RulesAge
<1>4. QED
  BY <1>1, <1>2, <1>3 DEF FetchInv

-----------------------------------------------------------------------------
(* A goroutine that is not asleep and moves on, or returns, keeps the types *)
(* of its own variables, and leaves the others where they are.              *)
LEMMA Moves ==
  ASSUME TypeOK, NEW c \in Callers, NEW place \in Places \ {"sleep"},
         pc[c] # "sleep", GoOn(c, place) \/ Return(c), holder' = holder,
         place = "backoff" => attempt[c] < Attempts - 1
  PROVE  /\ pc' \in [Callers -> Places]
         /\ attempt' \in [Callers -> 0..(Attempts - 1)]
         /\ \A d \in Callers : pc'[d] = "backoff" => attempt'[d] < Attempts - 1
         /\ done' \in [Callers -> BOOLEAN]
         /\ \A d \in Callers : holder' = d <=> pc'[d] = "sleep"
         /\ pc'[c] \in {place, "idle"}
         /\ \A d \in Callers : d # c => pc'[d] = pc[d]
<1> USE AttemptsAssumption DEF TypeOK, Go, Places
<1>1. CASE GoOn(c, place)
  BY <1>1 DEF GoOn, callVars
<1>2. CASE Return(c)
  BY <1>2 DEF Return
<1>3. QED
  BY <1>1, <1>2

(* The steps of CheckRobots leave the bucket alone; they preserve the types *)
(* and the age of the rules.                                                *)
LEMMA RobotsStepInv ==
  ASSUME FetchInv, NEW c \in Callers,
         \/ CachedRobots(c) \/ RequestRobots(c) \/ ReceiveRobots(c)
         \/ StoreRobots(c) \/ RobotsFail(c)
  PROVE  FetchInv'
<1> USE CapacityNat, RobotsAssumption
    DEF FetchInv, robotsVars, bucketVars
<1>0. "bucket" \in Places \ {"sleep"} /\ TypeOK
  BY DEF Places
<1>1. GrantAccount'
  BY DEF GrantAccount, CachedRobots, RequestRobots, ReceiveRobots,
         StoreRobots, RobotsFail, Judge, Capacity
<1>2. CASE CachedRobots(c)
  <2>1. GoOn(c, "bucket") \/ Return(c)
    BY <1>2 DEF CachedRobots, Judge
  <2>2. TypeOK'
    BY <1>0, <1>2, <2>1, Moves DEF CachedRobots, TypeOK, Capacity
  <2>3. RulesAge'
    BY <1>0, <1>2, <2>1, Moves DEF CachedRobots, RulesAge
  <2>4. QED
    BY <1>1, <2>2, <2>3
<1>3. CASE RequestRobots(c)
  BY <1>1, <1>3 DEF RequestRobots, RulesAge, TypeOK, Go, Places, callVars, Capacity
<1>4. CASE ReceiveRobots(c)
  BY <1>1, <1>4
  DEF ReceiveRobots, RulesAge, Robots, TypeOK, Go, Places, callVars, Capacity
<1>5. CASE StoreRobots(c)
  <2>1. GoOn(c, "bucket") \/ Return(c)
    BY <1>5 DEF StoreRobots, Judge
  <2>2. TypeOK'
    BY <1>0, <1>5, <2>1, Moves
    DEF StoreRobots, ForgetRobots, TypeOK, Robots, NoRobots, Capacity
  <2>3. RulesAge'
    BY <1>0, <1>5, <2>1, Moves
    DEF StoreRobots, ForgetRobots, TypeOK, Robots, NoRobots, RulesAge
  <2>4. QED
    BY <1>1, <2>2, <2>3
<1>6. CASE RobotsFail(c)
  <2>1. GoOn(c, "bucket") \/ Return(c)
    BY <1>6 DEF RobotsFail
  <2>2. TypeOK'
    BY <1>0, <1>6, <2>1, Moves
    DEF RobotsFail, ForgetRobots, TypeOK, Robots, NoRobots, Capacity
  <2>3. RulesAge'
    BY <1>0, <1>6, <2>1, Moves
    DEF RobotsFail, ForgetRobots, TypeOK, Robots, NoRobots, RulesAge
  <2>4. QED
    BY <1>1, <2>2, <2>3
<1>7. QED
  BY <1>2, <1>3, <1>4, <1>5, <1>6

(* The steps of tokenBucket.Wait keep the account: each grant is covered by *)
(* a token of the bucket or by the time its sleeper waited for.             *)
LEMMA BucketStepInv ==
  ASSUME FetchInv, NEW c \in Callers,
         \/ TakeToken(c) \/ GoToSleep(c) \/ WakeUp(c) \/ SleepCancelled(c)
  PROVE  FetchInv'
<1> USE CapacityNat, AttemptsAssumption, BucketAssumption, RobotsAssumption, NobodyAssumption
    DEF FetchInv, TypeOK, robotsVars, callVars, Go, Return, Places
<1>0. Capacity' = Capacity
  BY DEF Capacity
<1>1. Refilled \in 0..Capacity /\ Refilled <= tokens + (now - lastTime)
  BY RefillBounds DEF GrantAccount
<1>2. CASE TakeToken(c)
  <2>1. GrantAccount'
    BY <1>0, <1>1, <1>2 DEF TakeToken, GrantAccount, MutexFree
  <2>2. TypeOK' /\ RulesAge'
    BY <1>0, <1>1, <1>2 DEF TakeToken, RulesAge, MutexFree
  <2>3. QED
    BY <2>1, <2>2
<1>3. CASE GoToSleep(c)
  <2>1. GrantAccount'
    BY <1>0, <1>1, <1>3 DEF GoToSleep, GrantAccount, MutexFree
  <2>2. TypeOK' /\ RulesAge'
    BY <1>0, <1>1, <1>3 DEF GoToSleep, RulesAge, MutexFree
  <2>3. QED
    BY <2>1, <2>2
<1>4. CASE WakeUp(c)
  <2>1. GrantAccount'
    BY <1>0, <1>4 DEF WakeUp, GrantAccount
  <2>2. TypeOK' /\ RulesAge'
    BY <1>0, <1>4 DEF WakeUp, RulesAge
  <2>3. QED
    BY <2>1, <2>2
<1>5. CASE SleepCancelled(c)
  <2>1. GrantAccount'
    BY <1>0, <1>5 DEF SleepCancelled, GrantAccount, Unlock
  <2>2. TypeOK' /\ RulesAge'
    BY <1>0, <1>5 DEF SleepCancelled, RulesAge, Unlock
  <2>3. QED
    BY <2>1, <2>2
<1>6. QED
  BY <1>2, <1>3, <1>4, <1>5

(* The rest of Fetch touches neither the bucket nor the rules. *)
LEMMA LoopStepInv ==
  ASSUME FetchInv, NEW c \in Callers,
         \/ Begin(c) \/ Cancel(c) \/ Succeed(c)
         \/ \E err \in Errors : Fail(c, err)
         \/ RequestCancelled(c) \/ BackoffOver(c) \/ BackoffCancelled(c)
  PROVE  FetchInv'
<1> USE AttemptsAssumption, NobodyAssumption
    DEF FetchInv, TypeOK, robotsVars, bucketVars, callVars, Go, GoOn, Return, Places
<1>1. GrantAccount'
  BY DEF GrantAccount, Capacity, Begin, Cancel, Succeed, Fail,
         RequestCancelled, BackoffOver, BackoffCancelled
<1>2. CASE Begin(c) \/ Cancel(c)
  BY <1>1, <1>2 DEF Begin, Cancel, RulesAge
<1>3. ASSUME pc[c] # "sleep", UNCHANGED <<robotsVars, bucketVars, now>>,
             \/ attempt[c] < Attempts - 1 /\ GoOn(c, "backoff")
             \/ Return(c)
      PROVE  FetchInv'
  <2>1. "backoff" \in Places \ {"sleep"} /\ holder' = holder
    BY <1>3
  <2>2. \E place \in {"backoff", "idle"} :
          /\ GoOn(c, place) \/ Return(c)
          /\ place = "backoff" => attempt[c] < Attempts - 1
    BY <1>3
  <2>3. PICK place \in {"backoff", "idle"} :
          /\ GoOn(c, place) \/ Return(c)
          /\ place = "backoff" => attempt[c] < Attempts - 1
    BY <2>2
  <2>4. TypeOK'
    BY <1>3, <2>1, <2>3, Moves DEF Capacity
  <2>5. RulesAge'
    BY <1>3, <2>1, <2>3, Moves DEF RulesAge
  <2>6. QED
    BY <1>1, <2>4, <2>5
<1>4. CASE Succeed(c) \/ RequestCancelled(c) \/ BackoffCancelled(c)
           \/ \E err \in Errors : Fail(c, err)
  BY <1>3, <1>4 DEF Succeed, RequestCancelled, BackoffCancelled, Fail
<1>5. CASE BackoffOver(c)
  BY <1>1, <1>5 DEF BackoffOver, RulesAge
<1>6. QED
  BY <1>2, <1>3, <1>4, <1>5

(* Every step preserves the invariant. *)
LEMMA NextFetchInv == FetchInv /\ [Next]_vars => FetchInv'
<1> SUFFICES ASSUME FetchInv, [Next]_vars PROVE FetchInv'
  OBVIOUS
<1>1. ASSUME NEW c \in Callers, FetchStep(c) \/ Begin(c) \/ Cancel(c)
      PROVE  FetchInv'
  BY <1>1, RobotsStepInv, BucketStepInv, LoopStepInv DEF FetchStep
<1>2. CASE Tick
  BY <1>2, CapacityNat, RobotsAssumption
  DEF Tick, FetchInv, TypeOK, GrantAccount, RulesAge, robotsVars, bucketVars,
      callVars, Capacity
<1>3. CASE ChangeRobots
  BY <1>3 DEF ChangeRobots, FetchInv, TypeOK, GrantAccount, RulesAge,
              bucketVars, callVars, Capacity
<1>4. CASE UNCHANGED vars
  BY <1>4 DEF vars, FetchInv, TypeOK, GrantAccount, RulesAge, robotsVars,
              bucketVars, callVars, Capacity
<1>5. QED
  BY <1>1, <1>2, <1>3, <1>4 DEF Next

(* The inductive invariant holds in every behaviour. *)
LEMMA FetchInvariance == Spec => []FetchInv
  BY InitFetchInv, NextFetchInv, PTL DEF Spec

-----------------------------------------------------------------------------
(* The variables of Fetch keep their types, and the mutex is held exactly   *)
(* by the goroutine that sleeps.                                            *)
THEOREM TypeCorrect == Spec => []TypeOK
<1>1. FetchInv => TypeOK
  BY DEF FetchInv
<1>2. QED
  BY <1>1, FetchInvariance, PTL

(* All goroutines together are granted at most the burst and twice the      *)
(* rate.                                                                    *)
THEOREM RateAtMostDoubles == Spec => []GrantsAtMostDouble
<1>1. FetchInv => GrantsAtMostDouble
  BY CapacityNat DEF FetchInv, TypeOK, GrantAccount, GrantsAtMostDouble
<1>2. QED
  BY <1>1, FetchInvariance, PTL

(* An enforced policy lets a page through only on rules that allow it and   *)
(* that the host served at most TTL and one robots.txt request ago; one     *)
(* that warns lets every page through.                                      *)
THEOREM PolicyIsKept == Spec => RobotsPolicyIsKept
<1> DEFINE Used(c) == IF pc[c] = "robots" THEN cache ELSE got[c]
           OnRobots(c) == pc[c] \in {"robots", "fetching", "parsing"}
<1>1. ASSUME FetchInv, [Next]_vars, NEW c \in Callers, OnRobots(c),
             policy = "enforce", pc'[c] = "bucket"
      PROVE  /\ pc[c] # "fetching" /\ Used(c).rules = "allow"
             /\ now - Used(c).servedAt <= TTL + RobotsTimeout
  <2>1. CachedRobots(c) \/ StoreRobots(c)
    <3> USE DEF TypeOK, FetchInv, Go, GoOn, Return, Places
    <3>1. ASSUME NEW d \in Callers, FetchStep(d) \/ Begin(d) \/ Cancel(d)
          PROVE  CachedRobots(c) \/ StoreRobots(c)
      BY <1>1, <3>1
      DEF FetchStep, CachedRobots, RequestRobots, ReceiveRobots, StoreRobots,
          RobotsFail, FailureIsIgnored, TakeToken, GoToSleep, WakeUp,
          SleepCancelled, Succeed, Fail, RequestCancelled, BackoffOver,
          BackoffCancelled, Begin, Cancel, Judge
    <3>2. QED
      BY <1>1, <3>1 DEF Next, Tick, ChangeRobots, vars
  <2>2. CASE CachedRobots(c)
    BY <1>1, <2>2, RobotsAssumption
    DEF CachedRobots, IsExpired, Judge, Go, Return, FetchInv, TypeOK, RulesAge, Robots
  <2>3. CASE StoreRobots(c)
    BY <1>1, <2>3, RobotsAssumption
    DEF StoreRobots, Judge, Go, Return, FetchInv, TypeOK, RulesAge, Robots
  <2>4. QED
    BY <2>1, <2>2, <2>3
<1>2. ASSUME FetchInv, [Next]_vars, NEW c \in Callers, OnRobots(c), policy = "warn"
      PROVE  pc'[c] # "idle"
  <2> USE DEF TypeOK, FetchInv, Go, GoOn, Return, Places
  <2>1. ASSUME NEW d \in Callers, FetchStep(d) \/ Begin(d) \/ Cancel(d)
        PROVE  pc'[c] # "idle"
    BY <1>2, <2>1
    DEF FetchStep, CachedRobots, RequestRobots, ReceiveRobots, StoreRobots,
        RobotsFail, FailureIsIgnored, TakeToken, GoToSleep, WakeUp,
        SleepCancelled, Succeed, Fail, RequestCancelled, BackoffOver,
        BackoffCancelled, Begin, Cancel, Judge
  <2>2. QED
    BY <1>2, <2>1 DEF Next, Tick, ChangeRobots, vars
<1>3. FetchInv /\ [Next]_vars => [\A c \in Callers :
        OnRobots(c) =>
          /\ policy = "enforce" /\ pc'[c] = "bucket" =>
               /\ pc[c] # "fetching" /\ Used(c).rules = "allow"
               /\ now - Used(c).servedAt <= TTL + RobotsTimeout
          /\ policy = "warn" => pc'[c] # "idle"]_vars
  BY <1>1, <1>2
<1>4. QED
  BY <1>3, FetchInvariance, PTL DEF Spec, RobotsPolicyIsKept
==============================================================================
