------------------------- MODULE SharedClientProofs -------------------------
(***************************************************************************)
(* What the client keeps between the calls that share it, proved for every *)
(* number of goroutines, symbols, attempts and connections: the pool of    *)
(* HttpxClient, the crumb of CrumbAuth, the cache of markets of RootClient.*)
(***************************************************************************)
EXTENDS HttpxClient, CrumbAuth, RootClient, FiniteSetTheorems, TLAPS

-----------------------------------------------------------------------------
(* HttpxClient.                                                             *)


CallTypes ==
  /\ maxAttempts \in Nat
  /\ pc \in [Callers -> Places]
  /\ attempt \in [Callers -> 0..maxAttempts]
  /\ calls \in [Callers -> 0..MaxCalls]
  /\ result \in [Callers -> Results]
  /\ recorded \in [Callers -> Nat]

(* What the place of a goroutine says of its attempts, its result and the   *)
(* failures it has put on record.                                           *)
InCallOK(p, a, r, n) ==
  /\ p \in {"allow", "denied", "limiter"} => a = 0
  /\ p = "backoff" => a < maxAttempts - 1
  /\ p \in {"wire", "reading"} => a < maxAttempts
  /\ p = "loop" => a < maxAttempts \/ maxAttempts = 0
  /\ p # "idle" => r = "none"
  /\ p \in {"allow", "denied", "limiter"} => n = 0
  /\ p \in {"loop", "wire", "reading"} => n = a
  /\ p = "backoff" => n = a + 1

EndedOK(p, a, r, n) ==
  /\ r = "retryable" => a = maxAttempts - 1
  /\ r = "max-attempts" => maxAttempts = 0
  /\ p = "idle" =>
       /\ r \in {"ok", "unauthorized"} => n = a
       /\ r \in {"none", "circuit-open"} => n = 0
       /\ r = "cancelled" => n \in {0, a + 1}
       /\ r \in {"network", "retryable", "fatal", "max-attempts"} => n = a + 1

CallOK(g) ==
  /\ InCallOK(pc[g], attempt[g], result[g], recorded[g])
  /\ EndedOK(pc[g], attempt[g], result[g], recorded[g])

CallsInv == CallTypes /\ \A g \in Callers : CallOK(g)

-----------------------------------------------------------------------------
LEMMA CallsInit == Init => CallsInv
BY AttemptsAssumption, CallsAssumption
   DEF Init, CallsInv, CallTypes, CallOK, InCallOK, EndedOK, Places, Results

(* g moves: what is its own keeps its type, and nobody else's changes. *)
OnlyMoves(g) ==
  /\ UNCHANGED maxAttempts
  /\ pc' = [pc EXCEPT ![g] = pc'[g]] /\ pc'[g] \in Places
  /\ attempt' = [attempt EXCEPT ![g] = attempt'[g]] /\ attempt'[g] \in 0..maxAttempts
  /\ result' = [result EXCEPT ![g] = result'[g]] /\ result'[g] \in Results
  /\ recorded' = [recorded EXCEPT ![g] = recorded'[g]] /\ recorded'[g] \in Nat
  /\ calls' \in [Callers -> 0..MaxCalls]

LEMMA OneMoves ==
  ASSUME CallsInv, NEW g \in Callers, OnlyMoves(g), CallOK(g)'
  PROVE  CallsInv'
<1>1. CallTypes'
  BY DEF CallsInv, CallTypes, OnlyMoves
<1>2. ASSUME NEW h \in Callers PROVE CallOK(h)'
  <2>1. CASE h = g
    BY <2>1
  <2>2. CASE h # g
    BY <2>2 DEF CallsInv, CallTypes, CallOK, InCallOK, EndedOK, OnlyMoves
  <2>3. QED
    BY <2>1, <2>2
<1>3. QED
  BY <1>1, <1>2 DEF CallsInv

LEMMA CallsStep ==
  ASSUME CallsInv, Next PROVE CallsInv'
<1> USE CallsAssumption DEF CallOK, InCallOK, EndedOK, Places, Results, Go, Return, CountFailure
<1>0. CallTypes /\ \A g \in Callers : CallOK(g)
  BY DEF CallsInv
<1>1. ASSUME Tick PROVE CallsInv'
  BY <1>1 DEF Tick, clientVars, CallsInv, CallTypes
<1>2. ASSUME NEW g \in Callers, Begin(g) PROVE CallsInv'
  <2>1. PICK p \in {"limiter", "denied", "allow"} : pc' = [pc EXCEPT ![g] = p]
    BY <1>2 DEF Begin
  <2>2. OnlyMoves(g) /\ CallOK(g)'
    BY <1>0, <1>2, <2>1 DEF Begin, CallTypes, OnlyMoves
  <2>3. QED
    BY <2>2, OneMoves
<1>3. ASSUME NEW g \in Callers, CallStep(g) PROVE CallsInv'
  <2>1. CASE Promote(g)
    BY <2>1 DEF Promote, clientVars, CallsInv, CallTypes
  <2>2. CASE Reread(g)
    <3>1. OnlyMoves(g) /\ CallOK(g)'
      BY <1>0, <2>2 DEF Reread, AfterReread, CallTypes, OnlyMoves
    <3>2. QED
      BY <3>1, OneMoves
  <2>3. CASE CircuitOpen(g)
    <3>1. OnlyMoves(g) /\ CallOK(g)'
      BY <1>0, <2>3 DEF CircuitOpen, CallTypes, OnlyMoves
    <3>2. QED
      BY <3>1, OneMoves
  <2>4. CASE Granted(g)
    <3>1. OnlyMoves(g) /\ CallOK(g)'
      BY <1>0, <2>4 DEF Granted, CallTypes, OnlyMoves
    <3>2. QED
      BY <3>1, OneMoves
  <2>5. CASE Cancelled(g)
    <3>1. OnlyMoves(g) /\ CallOK(g)'
      BY <1>0, <2>5 DEF Cancelled, CallTypes, OnlyMoves
    <3>2. QED
      BY <3>1, OneMoves
  <2>6. CASE Send(g)
    <3>1. OnlyMoves(g) /\ CallOK(g)'
      BY <1>0, <2>6 DEF Send, MoreAttempts, CallTypes, OnlyMoves
    <3>2. QED
      BY <3>1, OneMoves
  <2>7. CASE NetworkError(g)
    <3>1. attempt[g] < maxAttempts /\ pc[g] \in {"wire", "loop"} /\ result[g] = "none"
      BY <1>0, <2>7 DEF NetworkError, MoreAttempts, CallTypes
    <3>2. \/ pc' = [pc EXCEPT ![g] = "idle"] /\ result' = [result EXCEPT ![g] = "network"]
          \/ /\ attempt[g] < maxAttempts - 1
             /\ pc' = [pc EXCEPT ![g] = "backoff"] /\ UNCHANGED result
      BY <2>7 DEF NetworkError, ShouldRetry
    <3>3. /\ recorded' = [recorded EXCEPT ![g] = @ + 1]
          /\ UNCHANGED <<maxAttempts, attempt, calls>>
      BY <2>7 DEF NetworkError
    <3>4. OnlyMoves(g) /\ CallOK(g)'
      BY <1>0, <3>1, <3>2, <3>3 DEF CallTypes, OnlyMoves
    <3>5. QED
      BY <3>4, OneMoves
  <2>8. CASE RespondOk(g)
    <3>1. OnlyMoves(g) /\ CallOK(g)'
      BY <1>0, <2>8 DEF RespondOk, CallTypes, OnlyMoves
    <3>2. QED
      BY <3>1, OneMoves
  <2>9. ASSUME NEW status \in Statuses, RespondRetry(g, status) PROVE CallsInv'
    <3>1. OnlyMoves(g) /\ CallOK(g)'
      BY <1>0, <2>9 DEF RespondRetry, ShouldRetryResponse, CallTypes, OnlyMoves
    <3>2. QED
      BY <3>1, OneMoves
  <2>10. ASSUME NEW status \in Statuses, RespondFail(g, status) PROVE CallsInv'
    <3>1. status \in {"retryable", "unauthorized", "fatal"}
      BY <2>10 DEF RespondFail, Statuses
    <3>2. status = "retryable" => attempt[g] = maxAttempts - 1
      BY <1>0, <2>10 DEF RespondFail, ShouldRetryResponse, CallTypes
    <3>3. /\ pc[g] = "wire" /\ pc' = [pc EXCEPT ![g] = "idle"]
          /\ result' = [result EXCEPT ![g] = status]
          /\ recorded' = IF status = "unauthorized" THEN recorded
                         ELSE [recorded EXCEPT ![g] = @ + 1]
          /\ UNCHANGED <<maxAttempts, attempt, calls>>
      BY <2>10 DEF RespondFail, CountsAsFailure
    <3>4. OnlyMoves(g) /\ CallOK(g)'
      <4>1. CASE status = "unauthorized"
        BY <1>0, <3>3, <4>1 DEF CallTypes, OnlyMoves
      <4>2. CASE status = "fatal"
        BY <1>0, <3>3, <4>2 DEF CallTypes, OnlyMoves
      <4>3. CASE status = "retryable"
        BY <1>0, <3>2, <3>3, <4>3 DEF CallTypes, OnlyMoves
      <4>4. QED
        BY <3>1, <4>1, <4>2, <4>3
    <3>5. QED
      BY <3>4, OneMoves
  <2>11. CASE BackoffOver(g)
    <3>1. OnlyMoves(g) /\ CallOK(g)'
      BY <1>0, <2>11 DEF BackoffOver, CallTypes, OnlyMoves
    <3>2. QED
      BY <3>1, OneMoves
  <2>12. CASE LoopExhausted(g)
    <3>1. OnlyMoves(g) /\ CallOK(g)'
      BY <1>0, <2>12 DEF LoopExhausted, MoreAttempts, CallTypes, OnlyMoves
    <3>2. QED
      BY <3>1, OneMoves
  <2>13. CASE FinishBody(g)
    <3>1. OnlyMoves(g) /\ CallOK(g)'
      BY <1>0, <2>13 DEF FinishBody, CallTypes, OnlyMoves
    <3>2. QED
      BY <3>1, OneMoves
  <2>14. QED
    BY <1>3, <2>1, <2>2, <2>3, <2>4, <2>5, <2>6, <2>7, <2>8, <2>9, <2>10, <2>11, <2>12, <2>13
       DEF CallStep, Respond
<1>4. QED
  BY <1>1, <1>2, <1>3 DEF Next

LEMMA CallsHold == Spec => []CallsInv
<1>1. CallsInv /\ UNCHANGED vars => CallsInv'
  BY DEF CallsInv, CallTypes, CallOK, InCallOK, EndedOK, vars, clientVars
<1>2. QED
  BY CallsInit, CallsStep, <1>1, PTL DEF Spec

-----------------------------------------------------------------------------
(* The pool: who holds a connection, and how many do. *)
PoolInv ==
  /\ NoConnectionLeak
  /\ conns \subseteq Callers /\ IsFiniteSet(conns)
  /\ Cardinality(conns) <= MaxConnsPerHost

LEMMA PoolInit == Init => PoolInv
BY FS_EmptySet, PoolAssumption DEF Init, PoolInv, NoConnectionLeak

LEMMA HandedBack ==
  ASSUME PoolInv, NEW g, conns' = conns \ {g}
  PROVE  IsFiniteSet(conns') /\ Cardinality(conns') <= MaxConnsPerHost
<1>1. IsFiniteSet(conns \ {g}) /\ Cardinality(conns \ {g}) <= Cardinality(conns)
  BY FS_Subset, conns \ {g} \subseteq conns DEF PoolInv
<1>2. Cardinality(conns) \in Nat /\ Cardinality(conns \ {g}) \in Nat
  BY <1>1, FS_CardinalityType DEF PoolInv
<1>3. Cardinality(conns) <= MaxConnsPerHost /\ MaxConnsPerHost \in Nat
  BY PoolAssumption DEF PoolInv
<1>4. Cardinality(conns \ {g}) <= MaxConnsPerHost
  BY <1>1, <1>2, <1>3
<1>5. QED
  BY <1>1, <1>4

LEMMA PoolStep ==
  ASSUME CallTypes, PoolInv, Next PROVE PoolInv'
<1> USE DEF NoConnectionLeak, Go, Return
<1>1. ASSUME Tick PROVE PoolInv'
  BY <1>1 DEF Tick, clientVars, PoolInv
<1>2. ASSUME NEW g \in Callers, Begin(g) PROVE PoolInv'
  BY <1>2 DEF Begin, PoolInv, CallTypes
<1>3. ASSUME NEW g \in Callers, CallStep(g) PROVE PoolInv'
  <2>1. CASE Promote(g)
    BY <2>1 DEF Promote, clientVars, PoolInv
  <2>2. CASE Reread(g)
    BY <2>2 DEF Reread, AfterReread, PoolInv, CallTypes
  <2>3. CASE CircuitOpen(g)
    BY <2>3 DEF CircuitOpen, PoolInv, CallTypes
  <2>4. CASE Granted(g)
    BY <2>4 DEF Granted, PoolInv, CallTypes
  <2>5. CASE Cancelled(g)
    BY <2>5 DEF Cancelled, PoolInv, CallTypes
  <2>6. CASE Send(g)
    <3>1. /\ g \notin conns /\ Cardinality(conns) < MaxConnsPerHost
          /\ conns' = conns \cup {g} /\ pc' = [pc EXCEPT ![g] = "wire"]
      BY <2>6 DEF Send, PoolFree, PoolInv
    <3>2. IsFiniteSet(conns') /\ Cardinality(conns') = Cardinality(conns) + 1
      BY <3>1, FS_AddElement DEF PoolInv
    <3>3. Cardinality(conns') <= MaxConnsPerHost
      BY <3>1, <3>2, FS_CardinalityType, PoolAssumption DEF PoolInv
    <3>4. conns' = {h \in Callers : pc'[h] \in {"wire", "reading"}}
      BY <3>1 DEF PoolInv, CallTypes
    <3>5. QED
      BY <3>2, <3>3, <3>4 DEF PoolInv
  <2>7. CASE NetworkError(g)
    <3>1. /\ conns' = conns \ {g}
          /\ \E p \in {"backoff", "idle"} : pc' = [pc EXCEPT ![g] = p]
      BY <2>7 DEF NetworkError
    <3>2. QED
      BY <3>1, HandedBack DEF PoolInv, CallTypes
  <2>8. CASE RespondOk(g)
    BY <2>8 DEF RespondOk, PoolInv, CallTypes
  <2>9. ASSUME NEW status \in Statuses, RespondRetry(g, status) PROVE PoolInv'
    <3>1. conns' = conns \ {g} /\ pc' = [pc EXCEPT ![g] = "backoff"]
      BY <2>9 DEF RespondRetry, CloseBody
    <3>2. QED
      BY <3>1, HandedBack DEF PoolInv, CallTypes
  <2>10. ASSUME NEW status \in Statuses, RespondFail(g, status) PROVE PoolInv'
    <3>1. conns' = conns \ {g} /\ pc' = [pc EXCEPT ![g] = "idle"]
      BY <2>10 DEF RespondFail, CloseBody
    <3>2. QED
      BY <3>1, HandedBack DEF PoolInv, CallTypes
  <2>11. CASE BackoffOver(g)
    BY <2>11 DEF BackoffOver, PoolInv, CallTypes
  <2>12. CASE LoopExhausted(g)
    BY <2>12 DEF LoopExhausted, PoolInv, CallTypes
  <2>13. CASE FinishBody(g)
    <3>1. conns' = conns \ {g} /\ pc' = [pc EXCEPT ![g] = "idle"]
      BY <2>13 DEF FinishBody, CloseBody
    <3>2. QED
      BY <3>1, HandedBack DEF PoolInv, CallTypes
  <2>14. QED
    BY <1>3, <2>1, <2>2, <2>3, <2>4, <2>5, <2>6, <2>7, <2>8, <2>9, <2>10, <2>11, <2>12, <2>13
       DEF CallStep, Respond
<1>4. QED
  BY <1>1, <1>2, <1>3 DEF Next

LEMMA PoolHolds == Spec => []PoolInv
<1>1. PoolInv /\ UNCHANGED vars => PoolInv'
  BY DEF PoolInv, NoConnectionLeak, vars, clientVars
<1>2. CallsInv => CallTypes
  BY DEF CallsInv
<1>3. QED
  BY PoolInit, PoolStep, CallsHold, <1>1, <1>2, PTL DEF Spec

-----------------------------------------------------------------------------
(* The breaker's own types, whichever step of the client moves it. *)
LEMMA BreakerTypes == Spec => []Breaker!TypeOK
<1> USE DEF Breaker!TypeOK, Breaker!States, Breaker!Places
<1>1. Init => Breaker!TypeOK
  BY ClockAssumption DEF Init, Breaker!Init
<1>2. ASSUME Breaker!TypeOK, Next PROVE Breaker!TypeOK'
  <2> USE DEF Breaker!MoveTo
  <2>1. ASSUME UNCHANGED breakerVars PROVE Breaker!TypeOK'
    BY <1>2, <2>1 DEF breakerVars
  <2>2. ASSUME Breaker!Tick PROVE Breaker!TypeOK'
    BY <1>2, <2>2, ClockAssumption DEF Breaker!Tick
  <2>3. ASSUME NEW g \in Callers,
               \/ Breaker!AllowPass(g) \/ Breaker!AllowDeny(g) \/ Breaker!AllowExpired(g)
               \/ Breaker!AllowPromote(g) \/ Breaker!AllowReread(g)
               \/ Breaker!RecordSuccess(g) \/ Breaker!Leave(g)
        PROVE  Breaker!TypeOK'
    BY <1>2, <2>3
       DEF Breaker!AllowPass, Breaker!AllowDeny, Breaker!AllowExpired, Breaker!AllowPromote,
           Breaker!AllowReread, Breaker!RecordSuccess, Breaker!Leave
  <2>4. ASSUME NEW g \in Callers, NEW next \in {"in", "out"}, Breaker!RecordFailure(g, next)
        PROVE  Breaker!TypeOK'
    BY <1>2, <2>4 DEF Breaker!RecordFailure, Breaker!FailureTime
  <2>5. ASSUME NEW g \in Callers, Begin(g) \/ CallStep(g) PROVE Breaker!TypeOK'
    <3>1. CASE Begin(g) \/ Promote(g) \/ Reread(g) \/ CircuitOpen(g) \/ Cancelled(g)
      BY <2>3, <3>1 DEF Begin, Promote, Reread, CircuitOpen, Cancelled
    <3>2. CASE Granted(g) \/ Send(g) \/ BackoffOver(g) \/ FinishBody(g)
      BY <2>1, <3>2 DEF Granted, Send, BackoffOver, FinishBody
    <3>3. CASE NetworkError(g) \/ LoopExhausted(g)
      BY <2>4, <3>3 DEF NetworkError, LoopExhausted
    <3>4. CASE Respond(g)
      BY <2>3, <2>4, <3>4 DEF Respond, RespondOk, RespondRetry, RespondFail
    <3>5. QED
      BY <2>5, <3>1, <3>2, <3>3, <3>4 DEF CallStep
  <2>6. QED
    BY <1>2, <2>2, <2>5 DEF Next, Tick
<1>3. Breaker!TypeOK /\ UNCHANGED vars => Breaker!TypeOK'
  BY DEF vars, breakerVars
<1>4. QED
  BY <1>1, <1>2, <1>3, PTL DEF Spec

(* maxAttempts is one of the configured values, and stays it. *)
LEMMA ConfigFixed == Spec => [](maxAttempts \in AttemptsConfigs)
<1>1. Init => maxAttempts \in AttemptsConfigs
  BY DEF Init
<1>2. [Next]_vars => UNCHANGED maxAttempts
  BY DEF Next, vars, clientVars, Tick, Begin, CallStep, Promote, Reread, CircuitOpen, Granted,
         Cancelled, Send, NetworkError, Respond, RespondOk, RespondRetry, RespondFail,
         BackoffOver, LoopExhausted, FinishBody
<1>3. maxAttempts \in AttemptsConfigs /\ UNCHANGED maxAttempts => (maxAttempts \in AttemptsConfigs)'
  OBVIOUS
<1>4. QED
  BY <1>1, <1>2, <1>3, PTL DEF Spec

-----------------------------------------------------------------------------
(* The types of the client and of its breaker, and the bound on the pool:   *)
(* Cardinality(conns) stays within MaxConnsPerHost for every Callers.       *)
THEOREM ClientTypeCorrect == Spec => []ClientTypeOK
<1>1. CallsInv /\ PoolInv /\ Breaker!TypeOK /\ maxAttempts \in AttemptsConfigs => ClientTypeOK
  BY DEF CallsInv, CallTypes, PoolInv, ClientTypeOK
<1>2. QED
  BY <1>1, CallsHold, PoolHolds, BreakerTypes, ConfigFixed, PTL

(* A connection is held by a request on the wire or a body being read, and  *)
(* by nothing else, on every path of Do and Call.                           *)
THEOREM ConnectionsComeBack == Spec => []NoConnectionLeak
<1>1. PoolInv => NoConnectionLeak
  BY DEF PoolInv
<1>2. QED
  BY <1>1, PoolHolds, PTL

(* The failures a call has recorded are its failed attempts, whatever the   *)
(* other callers do to the breaker meanwhile, but for a MaxAttempts of 0:   *)
(* then it is one failure, for a call that has sent nothing.                *)
THEOREM AttemptsAreCounted == Spec => []EachAttemptCountsOnce
<1>1. CallsInv => EachAttemptCountsOnce
  <2> SUFFICES ASSUME CallsInv, NEW g \in Callers
               PROVE  CASE pc[g] = "idle" /\ result[g] = "cancelled"
                             -> recorded[g] \in {0, attempt[g] + 1}
                        [] NothingSent(g) -> maxAttempts = 0 /\ recorded[g] = 1
                        [] OTHER -> recorded[g] = FailedAttempts(g)
    BY DEF EachAttemptCountsOnce
  <2>1. /\ pc[g] \in Places /\ result[g] \in Results
        /\ InCallOK(pc[g], attempt[g], result[g], recorded[g])
        /\ EndedOK(pc[g], attempt[g], result[g], recorded[g])
        /\ attempt[g] \in 0..maxAttempts /\ maxAttempts \in Nat
    BY DEF CallsInv, CallTypes, CallOK
  <2>2. CASE NothingSent(g)
    BY <2>1, <2>2 DEF NothingSent, EndedOK
  <2>3. CASE pc[g] = "idle" /\ ~ NothingSent(g)
    BY <2>1, <2>3 DEF NothingSent, FailedAttempts, EndedOK, Results
  <2>4. CASE pc[g] # "idle"
    BY <2>1, <2>4 DEF NothingSent, FailedAttempts, InCallOK, Places
  <2>5. QED
    BY <2>2, <2>3, <2>4
<1>2. QED
  BY <1>1, CallsHold, PTL

(* A call gives up on a retryable answer only at its last attempt, for      *)
(* every MaxAttempts, and says "max attempts exceeded" only when it has 0.  *)
THEOREM RetriesToTheEnd == Spec => []GivesUpOnlyAtTheEnd
<1>1. CallsInv => GivesUpOnlyAtTheEnd
  BY DEF CallsInv, CallOK, EndedOK, GivesUpOnlyAtTheEnd
<1>2. QED
  BY <1>1, CallsHold, PTL

-----------------------------------------------------------------------------
(* CrumbAuth.                                                               *)


(* The mutex and the crumb it guards: only the holder is on its way to a    *)
(* crumb, it goes there only while there is none, and the first one stays.  *)
CrumbInv ==
  /\ CrumbTypeOK
  /\ \A g \in Askers : stage[g] \in {"cookie", "getcrumb"} => crumb = NoCrumb
  /\ fetched = (IF crumb = NoCrumb THEN 0 ELSE 1)

(* Do returns no response with the status 401, so the crumb is never        *)
(* invalidated.                                                             *)
LEMMA NeverInvalidated ==
  ASSUME NEW status \in {200, 401, 500}
  PROVE  ~ RetryOn401(Do(status))
<1>1. CASE status = 200
  BY <1>1 DEF RetryOn401, Do
<1>2. CASE status # 200
  <2>1. Do(status).err
    BY <1>2 DEF Do
  <2>2. QED
    BY <2>1 DEF RetryOn401
<1>3. QED
  BY <1>1, <1>2

LEMMA InitCrumbInv == CrumbInit => CrumbInv
  BY RotationsAssumption, NobodyAssumption
  DEF CrumbInit, CrumbInv, CrumbTypeOK, NoCrumb, Stages, Endings

(* Every step of a goroutine and every rotation preserve the invariant. *)
LEMMA NextCrumbInv == CrumbInv /\ [CrumbNext]_crumbVars => CrumbInv'
<1> SUFFICES ASSUME CrumbInv, [CrumbNext]_crumbVars PROVE CrumbInv'
  OBVIOUS
<1> USE RotationsAssumption, NobodyAssumption
    DEF CrumbInv, CrumbTypeOK, NoCrumb, Stages, Endings
<1>1. CASE UNCHANGED crumbVars
  BY <1>1 DEF crumbVars
<1>2. CASE Rotate
  BY <1>2 DEF Rotate
<1>3. ASSUME NEW g \in Askers, Ask(g) PROVE CrumbInv'
  BY <1>3 DEF Ask, Query, GoOn
<1>4. ASSUME NEW g \in Askers, CachedCrumb(g) PROVE CrumbInv'
  BY <1>4 DEF CachedCrumb, Query, GoOn
<1>5. ASSUME NEW g \in Askers, Bootstrap(g) PROVE CrumbInv'
  BY <1>5 DEF Bootstrap, Locked, GoOn
<1>6. ASSUME NEW g \in Askers, NEW status \in {200, 403, 500}, Cookie(g, status)
      PROVE  CrumbInv'
  <2>1. CASE Do(status).err
    BY <1>6, <2>1 DEF Cookie, Unlock, Reply, GoOn
  <2>2. CASE ~ Do(status).err
    BY <1>6, <2>2 DEF Cookie, GoOn
  <2>3. QED
    BY <2>1, <2>2
<1>7. ASSUME NEW g \in Askers, GotCrumb(g) PROVE CrumbInv'
  BY <1>7 DEF GotCrumb, Unlock, Query, GoOn
<1>8. ASSUME NEW g \in Askers, NoCrumbGiven(g) PROVE CrumbInv'
  BY <1>8 DEF NoCrumbGiven, Unlock, Reply, GoOn
<1>9. ASSUME NEW g \in Askers, NEW status \in {200, 401, 500}, Answer(g, status)
      PROVE  CrumbInv'
  <2>1. PICK outcome \in Endings : Reply(g, outcome)
    BY <1>9, NeverInvalidated DEF Answer
  <2>2. UNCHANGED <<crumb, tries, managed, holder, carried, queries, valid, fetched>>
    BY <1>9, NeverInvalidated DEF Answer
  <2>3. stage[g] = "query"
    BY <1>9 DEF Answer
  <2>4. QED
    BY <2>1, <2>2, <2>3 DEF Reply, GoOn
<1>10. QED
  BY <1>1, <1>2, <1>3, <1>4, <1>5, <1>6, <1>7, <1>8, <1>9 DEF CrumbNext, QueryStep

LEMMA CrumbInvariance == CrumbSpec => []CrumbInv
  BY InitCrumbInv, NextCrumbInv, PTL DEF CrumbSpec

-----------------------------------------------------------------------------
(* The types of the crumb's state, and that the mutex of Crumb is held by   *)
(* exactly the goroutine that asks the server.                              *)
THEOREM CrumbTypeCorrect == CrumbSpec => []CrumbTypeOK
<1>1. CrumbInv => CrumbTypeOK
  BY DEF CrumbInv
<1>2. QED
  BY <1>1, CrumbInvariance, PTL

(* However many goroutines ask for the first crumb at once, one of them     *)
(* bootstraps, and it is obtained once.                                     *)
THEOREM BootstrapsOnce == CrumbSpec => []OneBootstrap
<1>1. CrumbInv => OneBootstrap
  BY NobodyAssumption DEF CrumbInv, CrumbTypeOK, OneBootstrap
<1>2. QED
  BY <1>1, CrumbInvariance, PTL

-----------------------------------------------------------------------------
(* RootClient.                                                              *)


(* The goroutines that are looking a symbol up. *)
Lookers(s) == {g \in Goroutines : place[g] \in {"ask", "store"} /\ scraped[g] = s}

Alive == \A g \in Goroutines : place[g] # "dead"

(* A lookup leaves its goroutine among the Lookers until the cache holds    *)
(* the symbol, and then no other begins.                                    *)
LookupsInv ==
  /\ Alive \/ \A g \in Goroutines : place[g] = "dead"
  /\ \A s \in Symbols :
       /\ lookups[s] <= Cardinality(Goroutines)
       /\ Alive /\ micCache[s] = NotCached => lookups[s] = Cardinality(Lookers(s))
       /\ Alive /\ micCache[s] # NotCached => Cardinality(Lookers(s)) < lookups[s]

LEMMA LookersAreFinite ==
  ASSUME NEW s
  PROVE  /\ IsFiniteSet(Lookers(s)) /\ Cardinality(Lookers(s)) \in Nat
         /\ Cardinality(Goroutines) \in Nat
         /\ Cardinality(Lookers(s)) <= Cardinality(Goroutines)
<1>1. Lookers(s) \subseteq Goroutines
  BY DEF Lookers
<1>2. QED
  BY <1>1, GoroutinesAssumption, FS_Subset, FS_CardinalityType

-----------------------------------------------------------------------------
LEMMA RootTypeInit == RootInit => RootTypeOK
<1> SUFFICES ASSUME RootInit PROVE RootTypeOK
  OBVIOUS
<1>1. /\ pages \in [Goroutines -> Seq(PageNames)]
      /\ snapshots \in [Goroutines -> Seq(SnapshotRecords)]
  BY DEF RootInit
<1>2. scrapes \in [Goroutines -> 0..MaxScrapes] /\ lookups \in [Symbols -> Nat]
  BY ScrapesAssumption DEF RootInit
<1>3. QED
  BY <1>1, <1>2 DEF RootInit, RootTypeOK, ScrapePlaces

(* Ending a call with an error. *)
LEMMA FailType ==
  ASSUME RootTypeOK, NEW g \in Goroutines, Fail(g),
         UNCHANGED <<micCache, patterns, scraped, pages, mic, scrapes, lookups>>
  PROVE  RootTypeOK'
<1>1. snapshots' \in [Goroutines -> Seq(SnapshotRecords)]
  <2>1. <<>> \in Seq(SnapshotRecords) /\ snapshots \in [Goroutines -> Seq(SnapshotRecords)]
    BY DEF RootTypeOK
  <2>2. QED
    BY <2>1 DEF Fail, Discard
<1>2. /\ place' \in [Goroutines -> ScrapePlaces]
      /\ \A h \in Goroutines : place'[h] \notin {"idle", "dead"} => pages[h] # <<>>
  BY DEF Fail, GoTo, RootTypeOK, ScrapePlaces
<1>3. ended' \in [Goroutines -> {"none", "ok", "error"}]
  BY DEF Fail, RootTypeOK
<1>4. QED
  BY <1>1, <1>2, <1>3 DEF RootTypeOK

LEMMA RootTypeNext == RootTypeOK /\ [RootNext]_rootVars => RootTypeOK'
<1> SUFFICES ASSUME RootTypeOK, [RootNext]_rootVars PROVE RootTypeOK'
  OBVIOUS
<1> USE DEF RootTypeOK, ScrapePlaces, GoTo
<1>1. CASE UNCHANGED rootVars
  BY <1>1 DEF rootVars
<1>2. ASSUME NEW g \in Goroutines, Call(g) PROVE RootTypeOK'
  <2>1. PICK s \in Symbols, call \in Calls :
          scraped' = [scraped EXCEPT ![g] = s] /\ pages' = [pages EXCEPT ![g] = call]
    BY <1>2 DEF Call
  <2>2. call \in Seq(PageNames) /\ call # <<>>
    BY ScrapeCallsAssumption
  <2>3. scrapes[g] + 1 \in 0..MaxScrapes
    <3>1. scrapes[g] \in 0..MaxScrapes /\ scrapes[g] < MaxScrapes
      BY <1>2 DEF Call
    <3>2. QED
      BY <3>1, ScrapesAssumption
  <2>4. /\ scraped' \in [Goroutines -> Symbols]
        /\ pages' \in [Goroutines -> Seq(PageNames)]
        /\ scrapes' \in [Goroutines -> 0..MaxScrapes]
        /\ ended' \in [Goroutines -> {"none", "ok", "error"}]
    BY <1>2, <2>1, <2>2, <2>3 DEF Call
  <2>5. snapshots' \in [Goroutines -> Seq(SnapshotRecords)]
    BY <1>2 DEF Call
  <2>6. /\ place' \in [Goroutines -> ScrapePlaces]
        /\ \A h \in Goroutines : place'[h] \notin {"idle", "dead"} => pages'[h] # <<>>
    BY <1>2, <2>1, <2>2 DEF Call
  <2>7. QED
    BY <1>2, <2>4, <2>5, <2>6 DEF Call
<1>3. ASSUME NEW g \in Goroutines, FetchPage(g) PROVE RootTypeOK'
  <2>1. PICK where \in {"load", "parse", "cache"} : GoTo(g, where)
    BY <1>3 DEF FetchPage, AfterFetch
  <2>2. QED
    BY <1>3, <2>1 DEF FetchPage
<1>4. ASSUME NEW g \in Goroutines, \/ FetchPageFails(g) \/ NoPatterns(g)
                                 \/ PatternsUnreadable(g) \/ ParseFails(g)
      PROVE  RootTypeOK'
  BY <1>4, FailType DEF FetchPageFails, NoPatterns, PatternsUnreadable, ParseFails
<1>5. ASSUME NEW g \in Goroutines, CachedMIC(g) PROVE RootTypeOK'
  BY <1>5 DEF CachedMIC, Cached
<1>6. ASSUME NEW g \in Goroutines, MissMIC(g) PROVE RootTypeOK'
  <2>1. scraped[g] \in Symbols /\ lookups[scraped[g]] + 1 \in Nat
    OBVIOUS
  <2>2. lookups' \in [Symbols -> Nat]
    BY <1>6, <2>1 DEF MissMIC
  <2>3. QED
    BY <1>6, <2>2 DEF MissMIC
<1>7. ASSUME NEW g \in Goroutines, CompanyInfo(g) PROVE RootTypeOK'
  BY <1>7 DEF CompanyInfo
<1>8. ASSUME NEW g \in Goroutines, StoreMIC(g) PROVE RootTypeOK'
  BY <1>8 DEF StoreMIC
<1>9. ASSUME NEW g \in Goroutines, TestLoaded(g) PROVE RootTypeOK'
  <2>1. PICK where \in {"file", "parse"} : GoTo(g, where)
    BY <1>9 DEF TestLoaded
  <2>2. QED
    BY <1>9, <2>1 DEF TestLoaded
<1>10. ASSUME NEW g \in Goroutines, ReadPatterns(g) \/ FillPatterns(g) PROVE RootTypeOK'
  BY <1>10 DEF ReadPatterns, FillPatterns
<1>11. ASSUME NEW g \in Goroutines, ParsePage(g) PROVE RootTypeOK'
  <2>1. pages[g] \in Seq(PageNames) /\ pages[g] # <<>>
    BY <1>11 DEF ParsePage
  <2>2. /\ Head(pages[g]) \in PageNames /\ Tail(pages[g]) \in Seq(PageNames)
        /\ Len(Tail(pages[g])) = Len(pages[g]) - 1 /\ Len(pages[g]) \in Nat \ {0}
    BY <2>1
  <2>3. Kind(Head(pages[g])) \in Kinds
    BY <2>2 DEF Kind, Kinds, PageNames
  <2>4. patterns[Kind(Head(pages[g]))] \in {"empty", "loaded"}
    BY <1>11, <2>3 DEF ParsePage
  <2>5. Snapshot(g) \in SnapshotRecords
    BY <2>2, <2>4 DEF Snapshot, SnapshotRecords
  <2>6. Append(snapshots[g], Snapshot(g)) \in Seq(SnapshotRecords)
    <3>1. snapshots[g] \in Seq(SnapshotRecords)
      OBVIOUS
    <3>2. QED
      BY <2>5, <3>1
  <2>7. CASE Len(pages[g]) = 1
    BY <1>11, <2>2, <2>6, <2>7 DEF ParsePage
  <2>8. CASE Len(pages[g]) # 1
    <3>1. Tail(pages[g]) # <<>>
      <4>1. Len(Tail(pages[g])) # 0
        BY <2>2, <2>8
      <4>2. Len(<<>>) = 0
        OBVIOUS
      <4>3. QED
        BY <4>1, <4>2
    <3>2. QED
      BY <1>11, <2>2, <2>6, <2>8, <3>1 DEF ParsePage
  <2>9. QED
    BY <2>7, <2>8
<1>12. ASSUME NEW g \in Goroutines, Panics(g) PROVE RootTypeOK'
  BY <1>12 DEF Panics
<1>13. QED
  BY <1>1, <1>2, <1>3, <1>4, <1>5, <1>6, <1>7, <1>8, <1>9, <1>10, <1>11, <1>12
  DEF RootNext, ScrapeStep

-----------------------------------------------------------------------------
LEMMA LookupsInit == RootInit => LookupsInv
<1> SUFFICES ASSUME RootInit PROVE LookupsInv
  OBVIOUS
<1>1. ASSUME NEW s \in Symbols PROVE Lookers(s) = {}
  BY DEF RootInit, Lookers
<1>2. Cardinality({}) = 0
  BY FS_EmptySet
<1>3. Cardinality(Goroutines) \in Nat
  BY GoroutinesAssumption, FS_CardinalityType
<1>4. Alive
  BY DEF RootInit, Alive
<1>5. ASSUME NEW s \in Symbols
      PROVE  lookups[s] = 0 /\ micCache[s] = NotCached /\ Cardinality(Lookers(s)) = 0
  BY <1>1, <1>2 DEF RootInit
<1>6. QED
  BY <1>3, <1>4, <1>5 DEF LookupsInv

(* A step of one goroutine within or without a lookup, that neither begins  *)
(* nor ends one.                                                            *)
LEMMA LookupsElsewhere ==
  ASSUME RootTypeOK, LookupsInv, NEW g \in Goroutines, NEW where \in ScrapePlaces \ {"dead"},
         GoTo(g, where), place[g] # "dead",
         place[g] \in {"ask", "store"} <=> where \in {"ask", "store"},
         \/ scraped' = scraped
         \/ place[g] = "idle" /\ \A h \in Goroutines \ {g} : scraped'[h] = scraped[h],
         UNCHANGED <<micCache, lookups>>
  PROVE  LookupsInv'
<1>1. ASSUME NEW s \in Symbols PROVE Lookers(s)' = Lookers(s)
  BY DEF Lookers, GoTo, RootTypeOK
<1>2. Alive /\ Alive'
  BY DEF LookupsInv, Alive, GoTo, RootTypeOK, ScrapePlaces
<1>3. QED
  BY <1>1, <1>2 DEF LookupsInv

LEMMA LookupsNext == RootTypeOK /\ LookupsInv /\ [RootNext]_rootVars => LookupsInv'
<1> SUFFICES ASSUME RootTypeOK, LookupsInv, [RootNext]_rootVars PROVE LookupsInv'
  OBVIOUS
<1>1. CASE UNCHANGED rootVars
  BY <1>1 DEF rootVars, LookupsInv, Alive, Lookers
<1>2. ASSUME NEW g \in Goroutines,
             \/ Call(g) \/ FetchPage(g) \/ FetchPageFails(g) \/ CachedMIC(g) \/ CompanyInfo(g)
             \/ TestLoaded(g) \/ ReadPatterns(g) \/ NoPatterns(g) \/ FillPatterns(g)
             \/ PatternsUnreadable(g) \/ ParsePage(g) \/ ParseFails(g)
      PROVE  LookupsInv'
  <2> DEFINE Moved(where) ==
        /\ GoTo(g, where) /\ place[g] # "dead" /\ UNCHANGED <<micCache, lookups>>
        /\ place[g] \in {"ask", "store"} <=> where \in {"ask", "store"}
        /\ \/ scraped' = scraped
           \/ place[g] = "idle" /\ \A h \in Goroutines \ {g} : scraped'[h] = scraped[h]
  <2>1. CASE Call(g)
    <3>1. Moved("fetch")
      BY <2>1 DEF Call, RootTypeOK
    <3>2. QED
      BY <3>1, LookupsElsewhere DEF ScrapePlaces
  <2>2. CASE FetchPage(g)
    <3>1. PICK where \in {"load", "parse", "cache"} : GoTo(g, where)
      BY <2>2 DEF FetchPage, AfterFetch
    <3>2. Moved(where)
      BY <2>2, <3>1 DEF FetchPage
    <3>3. QED
      BY <3>2, LookupsElsewhere DEF ScrapePlaces
  <2>3. CASE \/ FetchPageFails(g) \/ NoPatterns(g)
            \/ PatternsUnreadable(g) \/ ParseFails(g)
    <3>1. Moved("idle")
      BY <2>3 DEF FetchPageFails, NoPatterns, PatternsUnreadable, ParseFails, Fail
    <3>2. QED
      BY <3>1, LookupsElsewhere DEF ScrapePlaces
  <2>4. CASE CachedMIC(g)
    <3>1. Moved("load")
      BY <2>4 DEF CachedMIC
    <3>2. QED
      BY <3>1, LookupsElsewhere DEF ScrapePlaces
  <2>5. CASE CompanyInfo(g)
    <3>1. Moved("store")
      BY <2>5 DEF CompanyInfo
    <3>2. QED
      BY <3>1, LookupsElsewhere DEF ScrapePlaces
  <2>6. CASE TestLoaded(g) \/ ReadPatterns(g) \/ FillPatterns(g)
    <3>1. PICK where \in {"file", "fill", "parse"} : Moved(where)
      BY <2>6 DEF TestLoaded, ReadPatterns, FillPatterns
    <3>2. QED
      BY <3>1, LookupsElsewhere DEF ScrapePlaces
  <2>7. CASE ParsePage(g)
    <3>1. PICK where \in {"idle", "fetch"} : Moved(where)
      BY <2>7 DEF ParsePage
    <3>2. QED
      BY <3>1, LookupsElsewhere DEF ScrapePlaces
  <2>8. QED
    BY <1>2, <2>1, <2>2, <2>3, <2>4, <2>5, <2>6, <2>7
<1>3. ASSUME NEW g \in Goroutines, MissMIC(g) PROVE LookupsInv'
  <2>0. PICK s \in Symbols : s = scraped[g] /\ micCache[s] = NotCached
                                /\ lookups \in [Symbols -> Nat]
    BY <1>3 DEF MissMIC, Cached, RootTypeOK
  <2>1. Alive /\ Alive'
    BY <1>3 DEF MissMIC, GoTo, LookupsInv, Alive, RootTypeOK
  <2>2. g \notin Lookers(s) /\ Lookers(s)' = Lookers(s) \cup {g}
    BY <1>3, <2>0 DEF MissMIC, GoTo, Lookers, RootTypeOK
  <2>3. Cardinality(Lookers(s)') = Cardinality(Lookers(s)) + 1
    BY <2>2, LookersAreFinite, FS_AddElement
  <2>4. Cardinality(Lookers(s)') <= Cardinality(Goroutines)
    <3>1. Lookers(s)' \subseteq Goroutines
      BY DEF Lookers
    <3>2. QED
      BY <3>1, GoroutinesAssumption, FS_Subset
  <2>5. ASSUME NEW t \in Symbols, t # s PROVE Lookers(t)' = Lookers(t)
    BY <1>3, <2>0, <2>5 DEF MissMIC, GoTo, Lookers, RootTypeOK
  <2>6. /\ lookups'[s] = lookups[s] + 1 /\ micCache' = micCache
        /\ \A t \in Symbols : t # s => lookups'[t] = lookups[t]
    BY <1>3, <2>0 DEF MissMIC
  <2>7. ASSUME NEW t \in Symbols
        PROVE  /\ lookups'[t] <= Cardinality(Goroutines)
               /\ micCache'[t] = NotCached => lookups'[t] = Cardinality(Lookers(t)')
               /\ micCache'[t] # NotCached => Cardinality(Lookers(t)') < lookups'[t]
    <3>1. CASE t = s
      <4>1. lookups[s] = Cardinality(Lookers(s)) /\ lookups[s] \in Nat
        BY <2>0, <2>1 DEF LookupsInv
      <4>2. Cardinality(Lookers(t)') = lookups'[t] /\ micCache'[t] = NotCached
        BY <2>0, <2>3, <2>6, <3>1, <4>1
      <4>3. QED
        BY <2>4, <3>1, <4>2
    <3>2. CASE t # s
      BY <2>1, <2>5, <2>6, <3>2 DEF LookupsInv
    <3>3. QED
      BY <3>1, <3>2
  <2>8. QED
    BY <2>1, <2>7 DEF LookupsInv
<1>4. ASSUME NEW g \in Goroutines, StoreMIC(g) PROVE LookupsInv'
  <2>0. PICK s \in Symbols : s = scraped[g] /\ lookups' = lookups
                                /\ lookups \in [Symbols -> Nat]
    BY <1>4 DEF StoreMIC, RootTypeOK
  <2>1. Alive /\ Alive'
    BY <1>4 DEF StoreMIC, GoTo, LookupsInv, Alive, RootTypeOK
  <2>2. g \in Lookers(s) /\ Lookers(s)' = Lookers(s) \ {g}
    BY <1>4, <2>0 DEF StoreMIC, GoTo, Lookers, RootTypeOK
  <2>3. Cardinality(Lookers(s)') = Cardinality(Lookers(s)) - 1
    BY <2>2, LookersAreFinite, FS_RemoveElement
  <2>4. ASSUME NEW t \in Symbols, t # s PROVE Lookers(t)' = Lookers(t)
    BY <1>4, <2>0, <2>4 DEF StoreMIC, GoTo, Lookers, RootTypeOK
  <2>5. /\ micCache'[s] # NotCached
        /\ \A t \in Symbols : t # s => micCache'[t] = micCache[t]
    BY <1>4, <2>0, ListedAssumption DEF StoreMIC, RootTypeOK, NotCached, NoMIC
  <2>6. Cardinality(Lookers(s)) \in Nat
    BY LookersAreFinite
  <2>7. ASSUME NEW t \in Symbols
        PROVE  /\ lookups'[t] <= Cardinality(Goroutines)
               /\ micCache'[t] = NotCached => lookups'[t] = Cardinality(Lookers(t)')
               /\ micCache'[t] # NotCached => Cardinality(Lookers(t)') < lookups'[t]
    <3>1. CASE t = s
      <4>1. Cardinality(Lookers(s)) <= lookups[s] /\ lookups[s] <= Cardinality(Goroutines)
        BY <2>0, <2>1, <2>6 DEF LookupsInv
      <4>2. lookups'[t] = lookups[s] /\ lookups[s] \in Nat /\ micCache'[t] # NotCached
        BY <2>0, <2>5, <3>1
      <4>3. Cardinality(Lookers(t)') < lookups'[t]
        BY <2>3, <2>6, <3>1, <4>1, <4>2
      <4>4. QED
        BY <3>1, <4>1, <4>2, <4>3
    <3>2. CASE t # s
      BY <2>0, <2>1, <2>4, <2>5, <3>2 DEF LookupsInv
    <3>3. QED
      BY <3>1, <3>2
  <2>8. QED
    BY <2>1, <2>7 DEF LookupsInv
<1>5. ASSUME NEW g \in Goroutines, Panics(g) PROVE LookupsInv'
  <2>1. \A h \in Goroutines : place'[h] = "dead"
    BY <1>5 DEF Panics
  <2>2. ~ Alive'
    BY <2>1 DEF Alive
  <2>3. QED
    BY <1>5, <2>1, <2>2 DEF Panics, LookupsInv
<1>6. QED
  BY <1>1, <1>2, <1>3, <1>4, <1>5 DEF RootNext, ScrapeStep

-----------------------------------------------------------------------------
(* A market m of a symbol s that is on its way to a snapshot or in one is   *)
(* that of the cache, if the cache has been written once.                   *)
Agrees(s, m) == micCache[s] # NotCached /\ (lookups[s] = 1 => m = micCache[s])

Carries(g) ==
  place[g] \in {"load", "file", "fill", "parse"} /\ Head(pages[g]) # "news"

SnapshotsAgree(g) ==
  \A i \in DOMAIN snapshots[g] :
    snapshots[g][i].page # "news" => Agrees(snapshots[g][i].symbol, snapshots[g][i].mic)

AnswerInv ==
  \A g \in Goroutines :
    /\ Carries(g) => Agrees(scraped[g], mic[g])
    /\ SnapshotsAgree(g)

(* No step takes an agreement back: who writes a cached market again had    *)
(* begun a second lookup.                                                   *)
LEMMA AgreesNext ==
  ASSUME RootTypeOK, LookupsInv, RootNext, NEW s \in Symbols, NEW m, Agrees(s, m)
  PROVE  Agrees(s, m)'
<1>1. CASE UNCHANGED <<micCache, lookups>>
  BY <1>1 DEF Agrees
<1>2. ASSUME NEW g \in Goroutines, MissMIC(g) PROVE Agrees(s, m)'
  <2>1. scraped[g] # s
    BY <1>2 DEF MissMIC, Cached, Agrees
  <2>2. QED
    BY <1>2, <2>1 DEF MissMIC, Agrees, RootTypeOK
<1>3. ASSUME NEW g \in Goroutines, StoreMIC(g) PROVE Agrees(s, m)'
  <2>1. CASE scraped[g] # s
    BY <1>3, <2>1 DEF StoreMIC, Agrees, RootTypeOK
  <2>2. CASE scraped[g] = s
    <3>1. Alive
      BY <1>3 DEF StoreMIC, LookupsInv, Alive
    <3>2. g \in Lookers(s)
      BY <1>3, <2>2 DEF StoreMIC, Lookers
    <3>3. Cardinality(Lookers(s)) \in Nat \ {0}
      BY <3>2, LookersAreFinite, FS_EmptySet
    <3>4. lookups[s] # 1
      BY <3>1, <3>3 DEF LookupsInv, Agrees, RootTypeOK
    <3>5. micCache'[s] # NotCached /\ lookups' = lookups
      BY <1>3, <2>2, ListedAssumption DEF StoreMIC, RootTypeOK, NotCached, NoMIC
    <3>6. QED
      BY <3>4, <3>5 DEF Agrees
  <2>3. QED
    BY <2>1, <2>2
<1>4. QED
  BY <1>1, <1>2, <1>3
  DEF RootNext, ScrapeStep, Call, FetchPage, FetchPageFails, CachedMIC, CompanyInfo,
      TestLoaded, ReadPatterns, NoPatterns, FillPatterns, PatternsUnreadable, ParsePage,
      ParseFails, Panics

(* The snapshots of a call that have not changed still agree. *)
LEMMA KeptSnapshots ==
  ASSUME RootTypeOK, LookupsInv, RootNext, NEW g \in Goroutines, SnapshotsAgree(g),
         snapshots'[g] = snapshots[g]
  PROVE  SnapshotsAgree(g)'
<1> SUFFICES ASSUME NEW i \in DOMAIN snapshots[g], snapshots[g][i].page # "news"
             PROVE  Agrees(snapshots[g][i].symbol, snapshots[g][i].mic)'
  BY DEF SnapshotsAgree
<1>1. snapshots[g] \in Seq(SnapshotRecords)
  BY DEF RootTypeOK
<1>2. snapshots[g][i] \in SnapshotRecords
  BY <1>1
<1>3. PICK s \in Symbols, m \in {NoMIC, Listed} : s = snapshots[g][i].symbol /\ m = snapshots[g][i].mic
  BY <1>2 DEF SnapshotRecords
<1>4. Agrees(s, m)'
  BY <1>3, AgreesNext DEF SnapshotsAgree
<1>5. snapshots'[g][i].symbol = s /\ snapshots'[g][i].mic = m
  BY <1>3
<1>6. QED
  BY <1>4, <1>5 DEF Agrees

LEMMA AnswerNext ==
  RootTypeOK /\ LookupsInv /\ AnswerInv /\ [RootNext]_rootVars => AnswerInv'
<1> SUFFICES ASSUME RootTypeOK, LookupsInv, AnswerInv, RootNext PROVE AnswerInv'
  BY DEF AnswerInv, Carries, SnapshotsAgree, Agrees, rootVars
<1>1. ASSUME NEW g \in Goroutines, UNCHANGED <<scraped[g], mic[g], pages[g]>>,
             Carries(g)
      PROVE  (Agrees(scraped[g], mic[g]))'
  <2>1. PICK s \in Symbols, m \in {NoMIC, Listed} : s = scraped[g] /\ m = mic[g]
    BY DEF RootTypeOK
  <2>2. Agrees(s, m)'
    BY <1>1, <2>1, AgreesNext DEF AnswerInv
  <2>3. QED
    BY <1>1, <2>1, <2>2 DEF Agrees
<1>2. ASSUME NEW g \in Goroutines,
             UNCHANGED <<place[g], scraped[g], mic[g], pages[g], snapshots[g]>>
      PROVE  (Carries(g) => Agrees(scraped[g], mic[g]))' /\ SnapshotsAgree(g)'
  BY <1>1, <1>2, KeptSnapshots DEF AnswerInv, Carries
<1>3. ASSUME NEW g \in Goroutines, snapshots'[g] = <<>> PROVE SnapshotsAgree(g)'
  BY <1>3 DEF SnapshotsAgree
<1>4. ASSUME NEW g \in Goroutines, \/ Call(g) \/ FetchPageFails(g) \/ NoPatterns(g)
                                 \/ PatternsUnreadable(g) \/ ParseFails(g)
      PROVE  AnswerInv'
  <2>1. place'[g] \in {"fetch", "idle"} /\ snapshots'[g] = <<>>
    BY <1>4
    DEF Call, FetchPageFails, NoPatterns, PatternsUnreadable, ParseFails, Fail, Discard, GoTo, RootTypeOK
  <2>2. ASSUME NEW h \in Goroutines, h # g
        PROVE  UNCHANGED <<place[h], scraped[h], mic[h], pages[h], snapshots[h]>>
    BY <1>4, <2>2
    DEF Call, FetchPageFails, NoPatterns, PatternsUnreadable, ParseFails, Fail, Discard, GoTo, RootTypeOK
  <2>3. QED
    BY <1>2, <1>3, <2>1, <2>2 DEF AnswerInv, Carries
<1>5. ASSUME NEW g \in Goroutines,
             \/ FetchPage(g) \/ MissMIC(g) \/ CompanyInfo(g) \/ CachedMIC(g) \/ StoreMIC(g)
             \/ TestLoaded(g) \/ ReadPatterns(g) \/ FillPatterns(g)
      PROVE  AnswerInv'
  <2>1. snapshots' = snapshots /\ scraped' = scraped /\ pages' = pages
    BY <1>5
    DEF FetchPage, MissMIC, CompanyInfo, CachedMIC, StoreMIC, TestLoaded, ReadPatterns,
        FillPatterns
  <2>2. ASSUME NEW h \in Goroutines, h # g
        PROVE  UNCHANGED <<place[h], scraped[h], mic[h], pages[h], snapshots[h]>>
    BY <1>5, <2>2
    DEF FetchPage, MissMIC, CompanyInfo, CachedMIC, StoreMIC, TestLoaded, ReadPatterns,
        FillPatterns, GoTo, RootTypeOK
  <2>3. SnapshotsAgree(g)'
    BY <2>1, KeptSnapshots DEF AnswerInv
  <2>4. (Carries(g) => Agrees(scraped[g], mic[g]))'
    <3>1. CASE FetchPage(g)
      BY <2>1, <3>1 DEF FetchPage, AfterFetch, GoTo, Carries, RootTypeOK
    <3>2. CASE MissMIC(g) \/ CompanyInfo(g)
      BY <3>2 DEF MissMIC, CompanyInfo, GoTo, Carries, RootTypeOK
    <3>3. CASE CachedMIC(g)
      BY <3>3 DEF CachedMIC, Cached, Agrees, RootTypeOK
    <3>4. CASE StoreMIC(g)
      BY <3>4, ListedAssumption DEF StoreMIC, Agrees, RootTypeOK, NotCached, NoMIC
    <3>5. CASE TestLoaded(g) \/ ReadPatterns(g) \/ FillPatterns(g)
      <4>1. mic' = mic /\ place[g] \in {"load", "file", "fill"}
        BY <3>5 DEF TestLoaded, ReadPatterns, FillPatterns
      <4>2. Carries(g)' => Carries(g)
        BY <2>1, <4>1 DEF Carries
      <4>3. QED
        BY <1>1, <2>1, <4>1, <4>2
    <3>6. QED
      BY <1>5, <3>1, <3>2, <3>3, <3>4, <3>5
  <2>5. QED
    BY <1>2, <2>2, <2>3, <2>4 DEF AnswerInv
<1>6. ASSUME NEW g \in Goroutines, ParsePage(g) PROVE AnswerInv'
  <2>1. ASSUME NEW h \in Goroutines, h # g
        PROVE  UNCHANGED <<place[h], scraped[h], mic[h], pages[h], snapshots[h]>>
    BY <1>6, <2>1 DEF ParsePage, GoTo, RootTypeOK
  <2>2. ~ Carries(g)'
    BY <1>6 DEF ParsePage, GoTo, Carries, RootTypeOK
  <2>3. /\ snapshots[g] \in Seq(SnapshotRecords)
        /\ snapshots'[g] = Append(snapshots[g], Snapshot(g))
    BY <1>6 DEF ParsePage, RootTypeOK
  <2>4. ASSUME NEW i \in DOMAIN snapshots'[g], snapshots'[g][i].page # "news"
        PROVE  (Agrees(snapshots[g][i].symbol, snapshots[g][i].mic))'
    <3>1. CASE i \in DOMAIN snapshots[g]
      <4>1. snapshots'[g][i] = snapshots[g][i]
        BY <2>3, <3>1
      <4>2. snapshots[g][i] \in SnapshotRecords
        BY <2>3, <3>1
      <4>3. PICK s \in Symbols, m \in {NoMIC, Listed} : s = snapshots[g][i].symbol /\ m = snapshots[g][i].mic
        BY <4>2 DEF SnapshotRecords
      <4>4. Agrees(s, m)'
        BY <2>4, <3>1, <4>1, <4>3, AgreesNext DEF AnswerInv, SnapshotsAgree
      <4>5. QED
        BY <4>1, <4>3, <4>4 DEF Agrees
    <3>2. CASE i \notin DOMAIN snapshots[g]
      <4>1. snapshots'[g][i] = Snapshot(g)
        BY <2>3, <2>4, <3>2
      <4>2. /\ snapshots'[g][i].symbol = scraped[g] /\ snapshots'[g][i].mic = mic[g]
            /\ snapshots'[g][i].page = Head(pages[g])
        BY <4>1 DEF Snapshot
      <4>3. Carries(g)
        BY <1>6, <2>4, <4>2 DEF ParsePage, Carries
      <4>4. PICK s \in Symbols, m \in {NoMIC, Listed} : s = scraped[g] /\ m = mic[g]
        BY DEF RootTypeOK
      <4>5. Agrees(s, m)'
        BY <4>3, <4>4, AgreesNext DEF AnswerInv
      <4>6. QED
        BY <4>2, <4>4, <4>5 DEF Agrees
    <3>3. QED
      BY <3>1, <3>2
  <2>5. SnapshotsAgree(g)'
    BY <2>4 DEF SnapshotsAgree
  <2>6. QED
    BY <1>2, <2>1, <2>2, <2>5 DEF AnswerInv
<1>7. ASSUME NEW g \in Goroutines, Panics(g) PROVE AnswerInv'
  <2>1. ASSUME NEW h \in Goroutines PROVE ~ Carries(h)' /\ SnapshotsAgree(h)'
    BY <1>7, KeptSnapshots DEF Panics, Carries, AnswerInv
  <2>2. QED
    BY <2>1 DEF AnswerInv
<1>8. QED
  BY <1>4, <1>5, <1>6, <1>7 DEF RootNext, ScrapeStep

LEMMA RootTypeInvariance == RootSpec => []RootTypeOK
  BY RootTypeInit, RootTypeNext, PTL DEF RootSpec

LEMMA LookupsInvariance == RootSpec => []LookupsInv
  BY RootTypeInvariance, LookupsInit, LookupsNext, PTL DEF RootSpec

LEMMA AnswerInvariance == RootSpec => []AnswerInv
<1>1. RootInit => AnswerInv
  BY DEF RootInit, AnswerInv, Carries, SnapshotsAgree
<1>2. QED
  BY <1>1, RootTypeInvariance, LookupsInvariance, AnswerNext, PTL DEF RootSpec

-----------------------------------------------------------------------------
(* The types of the root client's state. *)
THEOREM RootTypeCorrect == RootSpec => []RootTypeOK
  BY RootTypeInvariance

(* A symbol is looked up at most once per goroutine, by those that raced    *)
(* for the first answer, and never again.                                   *)
THEOREM LookupsBounded == RootSpec => []LookupsAreShared
<1>1. LookupsInv => LookupsAreShared
  BY DEF LookupsInv, LookupsAreShared
<1>2. QED
  BY <1>1, LookupsInvariance, PTL

(* One lookup's answer is the market of all the snapshots of its symbol,    *)
(* whichever goroutines, calls and pages they come from.                    *)
THEOREM OneAnswerServesAll == RootSpec => []OneLookupOneMarket
<1>1. RootTypeOK /\ AnswerInv => OneLookupOneMarket
  BY DEF AnswerInv, SnapshotsAgree, Agrees, OneLookupOneMarket
<1>2. QED
  BY <1>1, RootTypeInvariance, AnswerInvariance, PTL
=============================================================================
