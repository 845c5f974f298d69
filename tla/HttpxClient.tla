----------------------------- MODULE HttpxClient -----------------------------
(***************************************************************************)
(* Client.Do of internal/httpx/client.go, called by several goroutines     *)
(* through Client.Call (internal/httpx/caller.go): the circuit breaker is  *)
(* asked once, the rate limiter is waited for once, then the request is    *)
(* tried up to maxAttempts times on a pool of MaxConnsPerHost connections. *)
(*                                                                         *)
(* The breaker is HttpxBreaker, with its windows and its clock.  How long  *)
(* the limiter and the backoff wait is left out: a wait ends at any time,  *)
(* with a grant or with the cancellation of the context (HttpxLimiter has  *)
(* the limiter's arithmetic).  pc[g] is where goroutine g is in Do:        *)
(*                                                                         *)
(*   "idle"     not in a call          "loop"     at the head of the loop  *)
(*   "allow"    inside Allow           "wire"     request sent             *)
(*   "denied"   Allow returned false   "backoff"  between two attempts     *)
(*   "limiter"  waiting for a token    "reading"  Call reads the body      *)
(*                                                                         *)
(* MaxCalls bounds the calls of one goroutine.                             *)
(***************************************************************************)
EXTENDS Integers, FiniteSets

CONSTANTS Callers, FailureThreshold, ResetTimeout,
          MaxClock, MaxFailures,
          AttemptsConfigs,   \* what Config.MaxAttempts may be, 0 when it is left out
          MaxConnsPerHost,   \* Config.MaxConnsPerHost
          MaxCalls

ASSUME AttemptsAssumption == AttemptsConfigs \subseteq Nat
ASSUME PoolAssumption == MaxConnsPerHost \in Nat \ {0}
ASSUME CallsAssumption == MaxCalls \in Nat
ASSUME ClockAssumption == MaxClock \in Nat

VARIABLES state, failures, lastFailure, now, at, seen,   \* the breaker's
          maxAttempts,    \* Config.MaxAttempts, fixed when the client is built
          pc, attempt, calls,
          conns,      \* goroutines whose request or open body holds a connection
          result,     \* how the last call ended
          recorded    \* history: failures the current call has put on record

breakerVars == <<state, failures, lastFailure, now, at, seen>>
clientVars == <<maxAttempts, pc, attempt, calls, conns, result, recorded>>
vars == <<breakerVars, clientVars>>

Breaker == INSTANCE HttpxBreaker

Places == {"idle", "allow", "denied", "limiter", "loop", "wire", "backoff", "reading"}
Results == {"none", "ok", "circuit-open", "cancelled", "network", "retryable",
            "fatal", "unauthorized", "max-attempts"}

(* Kinds of status: 2xx; 429 and 500, 502, 503, 504; 401; all the others. *)
Statuses == {"ok", "retryable", "unauthorized", "fatal"}

(* What net/http's Client.Do fails with: always a *url.Error, around the    *)
(* cause; shouldRetry asks for a bare context error or a *TransportError.   *)
HttpErrors == {"url-error"}
RetriedErrors == {"deadline-exceeded", "canceled", "transport-error"}

ClientTypeOK ==
  /\ Breaker!TypeOK
  /\ maxAttempts \in AttemptsConfigs
  /\ pc \in [Callers -> Places]
  /\ attempt \in [Callers -> 0..maxAttempts]
  /\ calls \in [Callers -> 0..MaxCalls]
  /\ conns \subseteq Callers /\ Cardinality(conns) <= MaxConnsPerHost
  /\ result \in [Callers -> Results]
  /\ recorded \in [Callers -> Nat]

Init ==
  /\ Breaker!Init
  /\ maxAttempts \in AttemptsConfigs
  /\ pc = [g \in Callers |-> "idle"]
  /\ attempt = [g \in Callers |-> 0]
  /\ calls = [g \in Callers |-> 0]
  /\ conns = {}
  /\ result = [g \in Callers |-> "none"]
  /\ recorded = [g \in Callers |-> 0]

Go(g, place) == pc' = [pc EXCEPT ![g] = place]
Return(g, outcome) == Go(g, "idle") /\ result' = [result EXCEPT ![g] = outcome]
CountFailure(g) == recorded' = [recorded EXCEPT ![g] = @ + 1]

-----------------------------------------------------------------------------
(* Do asks the breaker. *)
Begin(g) ==
  /\ pc[g] = "idle" /\ calls[g] < MaxCalls
  /\ calls' = [calls EXCEPT ![g] = @ + 1]
  /\ attempt' = [attempt EXCEPT ![g] = 0]
  /\ recorded' = [recorded EXCEPT ![g] = 0]
  /\ result' = [result EXCEPT ![g] = "none"]
  /\ \/ Breaker!AllowPass(g) /\ Go(g, "limiter")
     \/ Breaker!AllowDeny(g) /\ Go(g, "denied")
     \/ Breaker!AllowExpired(g) /\ Go(g, "allow")
  /\ UNCHANGED <<maxAttempts, conns>>

Promote(g) ==
  /\ pc[g] = "allow"
  /\ Breaker!AllowPromote(g)
  /\ UNCHANGED clientVars

AllowAgain(g) == IF at'[g] = "in" THEN "limiter" ELSE "allow"  \* fault: no error
AfterReread(g) == IF at'[g] = "in" THEN "limiter" ELSE "denied"

Reread(g) ==
  /\ pc[g] = "allow"
  /\ Breaker!AllowReread(g)
  /\ Go(g, AfterReread(g))
  /\ UNCHANGED <<maxAttempts, attempt, calls, conns, result, recorded>>

CircuitOpen(g) ==
  /\ pc[g] = "denied"
  /\ Breaker!Leave(g)
  /\ Return(g, "circuit-open")
  /\ UNCHANGED <<maxAttempts, attempt, calls, conns, recorded>>

(* The limiter grants the one token the call gets for all its attempts. *)
Granted(g) ==
  /\ pc[g] = "limiter"
  /\ Go(g, "loop")
  /\ UNCHANGED <<breakerVars, maxAttempts, attempt, calls, conns, result, recorded>>

(* ctx.Done() in the limiter or in the backoff: nothing is recorded. *)
Cancelled(g) ==
  /\ pc[g] \in {"limiter", "backoff"}
  /\ Breaker!Leave(g)
  /\ Return(g, "cancelled")
  /\ UNCHANGED <<maxAttempts, attempt, calls, conns, recorded>>

-----------------------------------------------------------------------------
MoreAttempts(g) == attempt[g] < maxAttempts

PoolUnlimited == TRUE              \* fault: MaxConnsPerHost not handed over
PoolFree == Cardinality(conns) < MaxConnsPerHost

Send(g) ==
  /\ pc[g] = "loop" /\ MoreAttempts(g)
  /\ PoolFree
  /\ conns' = conns \cup {g}
  /\ Go(g, "wire")
  /\ UNCHANGED <<breakerVars, maxAttempts, attempt, calls, result, recorded>>

ShouldRetry(g, err) == attempt[g] < maxAttempts - 1 /\ err \in RetriedErrors

RetryAlways(g, status) == status = "retryable"          \* fault: no last attempt
ShouldRetryResponse(g, status) ==
  attempt[g] < maxAttempts - 1 /\ status = "retryable"

(* The connection cannot be made, or the request fails, or Config.Timeout   *)
(* or the context ends while it waits for a connection or an answer.        *)
NetworkError(g) ==
  /\ \/ pc[g] = "wire"
     \/ pc[g] = "loop" /\ MoreAttempts(g)
  /\ conns' = conns \ {g}
  /\ CountFailure(g)
  /\ \E err \in HttpErrors :
       IF ShouldRetry(g, err)
         THEN Breaker!RecordFailure(g, "in") /\ Go(g, "backoff") /\ UNCHANGED result
         ELSE Breaker!RecordFailure(g, "out") /\ Return(g, "network")
  /\ UNCHANGED <<maxAttempts, attempt, calls>>

BodyLeftOpen(g) == conns' = conns  \* fault: no Close
CloseBody(g) == conns' = conns \ {g}

RespondRetry(g, status) ==
  /\ pc[g] = "wire" /\ ShouldRetryResponse(g, status)
  /\ CloseBody(g)
  /\ Breaker!RecordFailure(g, "in") /\ CountFailure(g)
  /\ Go(g, "backoff")
  /\ UNCHANGED <<maxAttempts, attempt, calls, result>>

RespondOk(g) ==
  /\ pc[g] = "wire"
  /\ Breaker!RecordSuccess(g)
  /\ Go(g, "reading")
  /\ UNCHANGED <<maxAttempts, attempt, calls, conns, result, recorded>>

CountsAll(status) == TRUE          \* fault: 401 counts too
CountsAsFailure(status) == status # "unauthorized"

RespondFail(g, status) ==
  /\ pc[g] = "wire"
  /\ status # "ok" /\ ~ ShouldRetryResponse(g, status)
  /\ CloseBody(g)
  /\ IF CountsAsFailure(status)
       THEN Breaker!RecordFailure(g, "out") /\ CountFailure(g)
       ELSE Breaker!Leave(g) /\ UNCHANGED recorded
  /\ Return(g, status)
  /\ UNCHANGED <<maxAttempts, attempt, calls>>

Respond(g) ==
  \/ RespondOk(g)
  \/ \E status \in Statuses : RespondRetry(g, status) \/ RespondFail(g, status)

(* The backoff timer fires: back to the head of the loop. *)
BackoffOver(g) ==
  /\ pc[g] = "backoff"
  /\ attempt' = [attempt EXCEPT ![g] = @ + 1]
  /\ Go(g, "loop")
  /\ UNCHANGED <<breakerVars, maxAttempts, calls, conns, result, recorded>>

(* Past the loop: one more failure on record. *)
LoopExhausted(g) ==
  /\ pc[g] = "loop" /\ ~ MoreAttempts(g)
  /\ Breaker!RecordFailure(g, "out") /\ CountFailure(g)
  /\ Return(g, "max-attempts")
  /\ UNCHANGED <<maxAttempts, attempt, calls, conns>>

(* Call has read the body (or failed to) and its deferred Close runs. *)
FinishBody(g) ==
  /\ pc[g] = "reading"
  /\ CloseBody(g)
  /\ Return(g, "ok")
  /\ UNCHANGED <<breakerVars, maxAttempts, attempt, calls, recorded>>

Tick == Breaker!Tick /\ UNCHANGED clientVars

CallStep(g) ==
  \/ Promote(g) \/ Reread(g) \/ CircuitOpen(g)
  \/ Granted(g) \/ Cancelled(g)
  \/ Send(g) \/ NetworkError(g) \/ Respond(g)
  \/ BackoffOver(g) \/ LoopExhausted(g) \/ FinishBody(g)

Next == Tick \/ \E g \in Callers : Begin(g) \/ CallStep(g)

Spec == Init /\ [][Next]_vars

(* Every goroutine inside a call is scheduled, the limiter's and the        *)
(* backoff's timers fire, and Config.Timeout ends what the server leaves    *)
(* unanswered.  Nobody is obliged to call, to cancel or to answer 2xx.      *)
FairSpec == Spec /\ \A g \in Callers : WF_vars(CallStep(g))

-----------------------------------------------------------------------------
(* The breaker sees each attempt exactly once: after every step of a call,  *)
(* the failures it has put on record are its failed attempts, a 401 and a   *)
(* cancelled wait adding none ("Don't count 401 errors").  The exception is *)
(* Config.MaxAttempts = 0: the call sends nothing and yet puts one failure  *)
(* on record (client.go:202), so that FailureThreshold such calls open the  *)
(* breaker on a server nobody has asked anything.                           *)
FailedAttempts(g) ==
  CASE pc[g] \in {"allow", "denied", "limiter"} -> 0
    [] pc[g] \in {"loop", "wire", "reading"} -> attempt[g]
    [] pc[g] = "backoff" -> attempt[g] + 1
    [] pc[g] = "idle" /\ result[g] \in {"ok", "unauthorized"} -> attempt[g]
    [] pc[g] = "idle" /\ result[g] \in {"none", "circuit-open", "max-attempts"} -> 0
    [] OTHER -> attempt[g] + 1

NothingSent(g) == pc[g] = "idle" /\ result[g] = "max-attempts"

EachAttemptCountsOnce ==
  \A g \in Callers :
    CASE pc[g] = "idle" /\ result[g] = "cancelled" -> recorded[g] \in {0, attempt[g] + 1}
      [] NothingSent(g) -> maxAttempts = 0 /\ recorded[g] = 1
      [] OTHER -> recorded[g] = FailedAttempts(g)

(* A connection is held by a request on the wire or a body being read, and  *)
(* by nothing else: no retry, no error path leaks one of MaxConnsPerHost.   *)
NoConnectionLeak == conns = {g \in Callers : pc[g] \in {"wire", "reading"}}

(* A server that asks to be retried is, to the last attempt: a call gives   *)
(* up with such a status only when no attempt is left, whatever the breaker *)
(* did in between, and "max attempts exceeded" is said of no other call.    *)
GivesUpOnlyAtTheEnd ==
  \A g \in Callers :
    /\ result[g] = "retryable" => attempt[g] = maxAttempts - 1
    /\ result[g] = "max-attempts" => maxAttempts = 0

(* Every call of Do ends, whatever the server, the network and the other    *)
(* goroutines do: the pool, the breaker and the backoff never hang it.      *)
EveryCallReturns == \A g \in Callers : pc[g] # "idle" ~> pc[g] = "idle"

(* What the comment of shouldRetry says: "Network errors, timeouts, and     *)
(* context cancellation should be retried".  A call would then end with     *)
(* one only after its last attempt.                                         *)
NetworkErrorsAreRetried ==
  \A g \in Callers : result[g] = "network" => attempt[g] = maxAttempts - 1
==============================================================================
