----------------------------- MODULE BusPublish -----------------------------
(***************************************************************************)
(* `yfin pull` publishing to the bus: cmd/yfin/main.go walks the symbols   *)
(* one after the other (fetch, publish, export), under one context that    *)
(* ends after 30 seconds; internal/bus publishes a symbol's bars through   *)
(* ExecuteWithRetry around CircuitBreaker.Execute around the loop that     *)
(* sends the chunks of the payload.                                        *)
(*                                                                         *)
(* One goroutine uses the Bus, so the breaker, which has no lock, is       *)
(* modelled between the steps of that goroutine.  phase is where it is:    *)
(*                                                                         *)
(*   "fetch"    before a symbol         "wait"    retry's backoff          *)
(*   "attempt"  before canExecute       "export"  published, or nothing    *)
(*   "chunk"    before PublishEnvelope            to publish               *)
(*                                                                         *)
(* The ampy-bus client is external: a PublishEnvelope that fails may have  *)
(* delivered the envelope all the same (its acknowledgement was lost).     *)
(* MaxChunks bounds the payloads, MaxClock the clock.                      *)
(***************************************************************************)
EXTENDS Integers, Sequences

CONSTANTS Symbols,           \* how many symbols the universe holds
          Attempts,          \* RetryConfig.Attempts
          Window,            \* CircuitBreakerConfig.Window
          FailurePercent,    \* CircuitBreakerConfig.FailureThreshold, in percent
          ResetTimeout,      \* CircuitBreakerConfig.ResetTimeoutMs, in ticks
          HalfOpenProbes,    \* CircuitBreakerConfig.HalfOpenProbes
          Publishers,        \* per publisher, the errors PublishBars fails with
          MaxChunks, MaxClock

(* validateRetryConfig and validateCircuitBreakerConfig *)
ASSUME SymbolsAssumption == Symbols \in Nat
ASSUME RetryAssumption == Attempts \in Nat \ {0}
ASSUME BreakerAssumption ==
  /\ Window \in Nat \ {0} /\ HalfOpenProbes \in Nat \ {0}
  /\ FailurePercent \in 1..100
  /\ ResetTimeout \in Nat \ {0}
ASSUME BoundAssumption == MaxChunks \in Nat \ {0} /\ MaxClock \in Nat

VARIABLES
  errors,    \* the errors of b.publisher, fixed when the bus is built
  state, failureCount, successCount, nextAttemptTime,    \* CircuitBreaker
  now,
  symbol,    \* index of the symbol being processed
  phase, attempt, chunk,
  chunks,    \* number of chunks of the symbol's payload
  sent,      \* history: the chunks of this symbol that reached the bus
  outcome,   \* per symbol: "pending", "ok", "failed", "circuit-open", "gave-up"
  expired    \* the 30 s context is done

breakerVars == <<state, failureCount, successCount, nextAttemptTime>>
pullVars == <<errors, symbol, phase, attempt, chunk, chunks, sent, outcome>>
vars == <<breakerVars, now, pullVars, expired>>

States == {"closed", "open", "half-open"}
Phases == {"fetch", "attempt", "chunk", "wait", "export"}
Outcomes == {"pending", "ok", "failed", "circuit-open", "gave-up"}

TypeOK ==
  /\ errors \in Publishers
  /\ state \in States /\ failureCount \in Nat /\ successCount \in Nat
  /\ nextAttemptTime \in 0..(MaxClock + ResetTimeout)
  /\ now \in 0..MaxClock
  /\ symbol \in 1..(Symbols + 1)
  /\ phase \in Phases
  /\ attempt \in 0..(Attempts - 1)
  /\ chunks \in 1..MaxChunks /\ chunk \in 1..chunks
  /\ sent \in Seq(1..MaxChunks)
  /\ outcome \in [1..Symbols -> Outcomes]
  /\ expired \in BOOLEAN

Init ==
  /\ errors \in Publishers
  /\ state = "closed" /\ failureCount = 0 /\ successCount = 0
  /\ nextAttemptTime = 0 /\ now = 0
  /\ symbol = 1 /\ phase = "fetch" /\ attempt = 0
  /\ chunk = 1 /\ chunks = 1 /\ sent = <<>>
  /\ outcome = [s \in 1..Symbols |-> "pending"]
  /\ expired = FALSE

-----------------------------------------------------------------------------
StayOnSymbol == symbol' = symbol                   \* fault: a symbol is put back
Advance == symbol' = symbol + 1

(* The loop of runPull: an error is printed and the next symbol begins. *)
NextSymbol(result) ==
  /\ outcome' = [outcome EXCEPT ![symbol] = result]
  /\ Advance
  /\ phase' = "fetch" /\ attempt' = 0 /\ chunk' = 1 /\ chunks' = 1
  /\ sent' = <<>>

(* The bars cannot be fetched, or not turned into a message for the bus. *)
FetchFails ==
  /\ phase = "fetch" /\ symbol <= Symbols
  /\ NextSymbol("failed")
  /\ UNCHANGED <<breakerVars, now, expired, errors>>

(* An empty answer counts as a success and publishes nothing. *)
FetchEmpty ==
  /\ phase = "fetch" /\ symbol <= Symbols /\ ~ expired
  /\ NextSymbol("ok")
  /\ UNCHANGED <<breakerVars, now, expired, errors>>

FetchBars(n) ==
  /\ phase = "fetch" /\ symbol <= Symbols /\ ~ expired
  /\ phase' = "attempt" /\ chunks' = n
  /\ UNCHANGED <<breakerVars, now, expired, errors, symbol, attempt, chunk, sent, outcome>>

-----------------------------------------------------------------------------
(* CircuitBreaker.canExecute *)
KeepSuccessCount == successCount' = successCount   \* fault: probes not reset
ResetSuccessCount == successCount' = 0

AnyTime == TRUE                                    \* fault: no reset timeout
ResetTimeoutPassed == now > nextAttemptTime

CanExecute ==
  \/ state = "closed" /\ UNCHANGED breakerVars
  \/ /\ state = "open" /\ ResetTimeoutPassed
     /\ state' = "half-open" /\ ResetSuccessCount
     /\ UNCHANGED <<failureCount, nextAttemptTime>>
  \/ state = "half-open" /\ successCount < HalfOpenProbes /\ UNCHANGED breakerVars

CannotExecute ==
  \/ state = "open" /\ ~ ResetTimeoutPassed
  \/ state = "half-open" /\ successCount >= HalfOpenProbes

ResumeAtChunk == chunk' = chunk                    \* fault: resumes where it failed
FirstChunk == chunk' = 1

Enter ==
  /\ phase = "attempt" /\ CanExecute
  /\ phase' = "chunk" /\ FirstChunk
  /\ UNCHANGED <<now, expired, errors, symbol, attempt, chunks, sent, outcome>>

(* "circuit breaker is open" is a plain error, which ends the retries. *)
Refuse ==
  /\ phase = "attempt" /\ CannotExecute
  /\ NextSymbol("circuit-open")
  /\ UNCHANGED <<breakerVars, now, expired, errors>>

-----------------------------------------------------------------------------
(* CircuitBreaker.shouldOpenCircuit, of the count after the failure. *)
OneTooMany(count) == count > Window                \* fault: > for >=
ShouldOpenCircuit(count) ==
  count >= Window /\ count * 100 >= FailurePercent * Window

(* CircuitBreaker.recordResult *)
RecordFailure ==
  /\ failureCount' = failureCount + 1
  /\ IF ShouldOpenCircuit(failureCount + 1)
       THEN state' = "open" /\ nextAttemptTime' = now + ResetTimeout
       ELSE UNCHANGED <<state, nextAttemptTime>>
  /\ UNCHANGED successCount

RecordSuccess ==
  /\ successCount' = successCount + 1
  /\ CASE state = "closed" -> failureCount' = 0 /\ UNCHANGED state
       [] state = "half-open" /\ successCount + 1 >= HalfOpenProbes ->
            failureCount' = 0 /\ state' = "closed"
       [] OTHER -> UNCHANGED <<state, failureCount>>
  /\ UNCHANGED nextAttemptTime

OneEarly == chunk + 1 >= chunks                    \* fault: off by one
Last == chunk = chunks

(* One turn of the chunk loop that is not the last. *)
SendChunk ==
  /\ phase = "chunk" /\ ~ expired /\ ~ Last
  /\ sent' = Append(sent, chunk)
  /\ chunk' = chunk + 1
  /\ UNCHANGED <<breakerVars, now, expired, errors, symbol, phase, attempt, chunks, outcome>>

SendLastChunk ==
  /\ phase = "chunk" /\ ~ expired /\ Last
  /\ sent' = Append(sent, chunk)
  /\ RecordSuccess
  /\ phase' = "export"
  /\ UNCHANGED <<now, expired, errors, symbol, attempt, chunk, chunks, outcome>>

RetryAll(err) == TRUE                              \* fault: any error is retried
IsRetryableError(err) == err = "retryable"

RetriesLeftInclusive == attempt <= Attempts - 1    \* fault: one attempt too many
RetriesLeft == attempt < Attempts - 1

(* PublishEnvelope fails at some chunk; the chunks before it stay sent, and *)
(* so may this one.                                                         *)
SendFails(err) ==
  /\ phase = "chunk"
  /\ RecordFailure
  /\ IF IsRetryableError(err) /\ RetriesLeft
       THEN /\ phase' = "wait"
            /\ \/ UNCHANGED sent
               \/ ~ expired /\ sent' = Append(sent, chunk)
            /\ UNCHANGED <<symbol, attempt, chunk, chunks, outcome>>
       ELSE NextSymbol(IF IsRetryableError(err) THEN "gave-up" ELSE "failed")
  /\ UNCHANGED <<now, expired, errors>>

(* The backoff of ExecuteWithRetry: the whole publication starts again. *)
WaitOver ==
  /\ phase = "wait"
  /\ phase' = "attempt" /\ attempt' = attempt + 1
  /\ UNCHANGED <<breakerVars, now, expired, errors, symbol, chunk, chunks, sent, outcome>>

WaitCancelled ==
  /\ phase = "wait" /\ expired
  /\ NextSymbol("failed")
  /\ UNCHANGED <<breakerVars, now, expired, errors>>

(* handleLocalExport, reached only when the publication succeeded. *)
Export ==
  /\ phase = "export"
  /\ \E result \in {"ok", "failed"} : NextSymbol(result)
  /\ UNCHANGED <<breakerVars, now, expired, errors>>

Expire == ~ expired /\ expired' = TRUE /\ UNCHANGED <<breakerVars, now, pullVars>>

Tick ==
  /\ now < MaxClock
  /\ now' = now + 1
  /\ UNCHANGED <<breakerVars, pullVars, expired>>

Process ==
  \/ FetchFails \/ FetchEmpty \/ \E n \in 1..MaxChunks : FetchBars(n)
  \/ Enter \/ Refuse
  \/ SendChunk \/ SendLastChunk \/ \E err \in errors : SendFails(err)
  \/ WaitOver \/ WaitCancelled
  \/ Export

Next == Process \/ Expire \/ Tick

Spec == Init /\ [][Next]_vars

(* The one goroutine runs, and its calls and timers return. *)
FairSpec == Spec /\ WF_vars(Process)

-----------------------------------------------------------------------------
(* The breaker is closed exactly while fewer than Window failures stand     *)
(* since a success or a recovery.  It is what lets ONE failed probe reopen  *)
(* a half-open breaker: the count is not forgotten when the probing starts. *)
CountMatchesState == (state = "closed") <=> (failureCount < Window)

(* A half-open breaker can still be probed.  Were the successes of earlier  *)
(* times counted as probes, canExecute would refuse for ever and nothing    *)
(* would be recorded that could move the breaker again.                     *)
ProbesNeverStuck == state = "half-open" => successCount < HalfOpenProbes

(* Nothing is sent from an opening of the breaker to its nextAttemptTime,   *)
(* neither by the publication that opened it nor by its retries.            *)
OpenMeansSilence ==
  [][Len(sent') > Len(sent) => state = "closed" \/ now > nextAttemptTime]_vars

(* The chunks of a symbol reach the bus as runs 1, 2, 3, ... that each      *)
(* start anew: no chunk overtakes or skips another, even across retries.    *)
ChunksInOrder ==
  \A j \in DOMAIN sent : sent[j] = 1 \/ (j > 1 /\ sent[j] = sent[j - 1] + 1)

(* "Published" is said of a symbol only when all its chunks are on the bus, *)
(* the last run of them being whole.                                        *)
PublishedIsComplete ==
  phase = "export" =>
    /\ Len(sent) >= chunks
    /\ \A i \in 1..chunks : sent[Len(sent) - chunks + i] = i

(* The errors BusPublisher returns are wrapped and never a *RetryableError: *)
(* every chunk of a symbol is delivered at most once.                       *)
NoDuplicateChunk ==
  "retryable" \notin errors =>
    \A i, j \in DOMAIN sent : sent[i] = sent[j] => i = j

(* The pull ends, with an outcome for every symbol, whatever the broker and *)
(* the context do.                                                          *)
PullEnds == <>(symbol = Symbols + 1)

(* What the comment of Bus.PublishBars says: "with retry and circuit        *)
(* breaker protection".  A failed send of BusPublisher would then be        *)
(* followed by another attempt while the context allows it.                 *)
FailuresAreRetried ==
  [][phase = "chunk" /\ outcome' # outcome /\ ~ expired
       => attempt = Attempts - 1]_vars
==============================================================================
