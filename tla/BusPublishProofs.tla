-------------------------- MODULE BusPublishProofs --------------------------
(***************************************************************************)
(* The breaker of the bus, for every window, threshold, number of probes,  *)
(* publisher and universe.                                                 *)
(***************************************************************************)
EXTENDS BusPublish, TLAPS

(* The part of the type invariant the breaker's invariants rest on. *)
BreakerTypeOK ==
  /\ state \in States
  /\ failureCount \in Nat
  /\ successCount \in Nat

BreakerInv == BreakerTypeOK /\ CountMatchesState /\ ProbesNeverStuck

-----------------------------------------------------------------------------
(* The failure rate never matters: once the count has reached the window   *)
(* the rate is at least one, and no threshold may exceed one.              *)
THEOREM WindowDecides ==
  ASSUME NEW count \in Nat
  PROVE  ShouldOpenCircuit(count) <=> count >= Window
<1>1. count >= Window => count * 100 >= Window * 100
  BY BreakerAssumption
<1>2. FailurePercent * Window <= 100 * Window
  <2>1. ASSUME NEW p \in Nat, NEW w \in Nat, p <= 100 PROVE p * w <= 100 * w
    BY <2>1
  <2>2. QED
    BY <2>1, BreakerAssumption
<1>3. QED
  BY <1>1, <1>2, BreakerAssumption DEF ShouldOpenCircuit

(* The breaker starts closed, with nothing counted. *)
LEMMA InitBreakerInv == Init => BreakerInv
  BY BreakerAssumption
  DEF Init, BreakerInv, BreakerTypeOK, CountMatchesState, ProbesNeverStuck, States

(* Every step of the pull preserves the breaker's invariant. *)
LEMMA NextBreakerInv == BreakerInv /\ [Next]_vars => BreakerInv'
<1> SUFFICES ASSUME BreakerInv, [Next]_vars PROVE BreakerInv'
  OBVIOUS
<1> USE BreakerAssumption
    DEF BreakerInv, BreakerTypeOK, CountMatchesState, ProbesNeverStuck, States,
        breakerVars
<1>1. ASSUME UNCHANGED breakerVars PROVE BreakerInv'
  BY <1>1
<1>2. CASE Enter
  BY <1>2 DEF Enter, CanExecute, ResetSuccessCount
<1>3. CASE SendLastChunk
  <2>1. CASE state = "closed"
    BY <1>3, <2>1 DEF SendLastChunk, RecordSuccess
  <2>2. CASE state = "half-open"
    BY <1>3, <2>2 DEF SendLastChunk, RecordSuccess
  <2>3. CASE state = "open"
    BY <1>3, <2>3 DEF SendLastChunk, RecordSuccess
  <2>4. QED
    BY <2>1, <2>2, <2>3
<1>4. ASSUME NEW err \in errors, SendFails(err) PROVE BreakerInv'
  <2>1. ShouldOpenCircuit(failureCount + 1) <=> failureCount + 1 >= Window
    BY WindowDecides
  <2>2. RecordFailure
    BY <1>4 DEF SendFails
  <2>3. QED
    BY <2>1, <2>2 DEF RecordFailure
<1>5. CASE FetchFails \/ FetchEmpty \/ (\E n \in 1..MaxChunks : FetchBars(n))
           \/ Refuse \/ SendChunk \/ WaitOver \/ WaitCancelled \/ Export
           \/ Expire \/ Tick
  BY <1>1, <1>5
  DEF FetchFails, FetchEmpty, FetchBars, Refuse, SendChunk, WaitOver,
      WaitCancelled, Export, Expire, Tick
<1>6. CASE UNCHANGED vars
  BY <1>1, <1>6 DEF vars
<1>7. QED
  BY <1>2, <1>3, <1>4, <1>5, <1>6 DEF Next, Process

(* The breaker's invariant holds throughout every pull. *)
LEMMA BreakerInvariance == Spec => []BreakerInv
  BY InitBreakerInv, NextBreakerInv, PTL DEF Spec

-----------------------------------------------------------------------------
(* The count and the state of the bus's breaker never disagree. *)
THEOREM CountAndStateAgree == Spec => []CountMatchesState
<1>1. BreakerInv => CountMatchesState
  BY DEF BreakerInv
<1>2. QED
  BY <1>1, BreakerInvariance, PTL

(* A half-open breaker can always be probed. *)
THEOREM HalfOpenCanBeProbed == Spec => []ProbesNeverStuck
<1>1. BreakerInv => ProbesNeverStuck
  BY DEF BreakerInv
<1>2. QED
  BY <1>1, BreakerInvariance, PTL

-----------------------------------------------------------------------------
(* What the goroutine knows at each phase of a symbol.  While it sends, the *)
(* last chunk - 1 entries of the bus are this run's; between an entry and   *)
(* its end the breaker cannot be open, since only this goroutine moves it.  *)
RunSoFar == \A i \in 1..(chunk - 1) : sent[Len(sent) - (chunk - 1) + i] = i

PhaseInv ==
  /\ phase # "fetch" => symbol <= Symbols
  /\ phase = "fetch" => sent = <<>> /\ chunk = 1
  /\ phase = "wait" => attempt < Attempts - 1
  /\ phase = "chunk" => Len(sent) >= chunk - 1 /\ RunSoFar
  /\ phase = "chunk" => state # "open"
  /\ state = "half-open" => now > nextAttemptTime

(* Without retryable errors a symbol has one run. *)
OneRun ==
  "retryable" \notin errors =>
    /\ phase # "wait"
    /\ phase = "attempt" => sent = <<>>
    /\ \A i \in DOMAIN sent : sent[i] = i
    /\ phase = "chunk" => Len(sent) = chunk - 1

PullInv ==
  /\ TypeOK /\ BreakerInv
  /\ PhaseInv /\ ChunksInOrder /\ PublishedIsComplete /\ OneRun

(* One more chunk after a run of chunk - 1 of them: the order is kept, the  *)
(* run is one longer, and one run without retries stays one.                *)
LEMMA AppendChunk ==
  ASSUME PullInv, phase = "chunk", sent' = Append(sent, chunk)
  PROVE  /\ sent' \in Seq(1..MaxChunks) /\ Len(sent') = Len(sent) + 1
         /\ \A j \in DOMAIN sent' : sent'[j] = 1 \/ (j > 1 /\ sent'[j] = sent'[j - 1] + 1)
         /\ Len(sent') >= chunk
         /\ \A i \in 1..chunk : sent'[Len(sent') - chunk + i] = i
         /\ "retryable" \notin errors => \A i \in DOMAIN sent' : sent'[i] = i
<1> USE DEF PullInv, TypeOK, PhaseInv
<1>1. sent \in Seq(1..MaxChunks) /\ chunk \in 1..MaxChunks /\ Len(sent) \in Nat
  BY BoundAssumption
<1>2. /\ sent' \in Seq(1..MaxChunks) /\ Len(sent') = Len(sent) + 1
      /\ DOMAIN sent' = 1..(Len(sent) + 1) /\ DOMAIN sent = 1..Len(sent)
      /\ \A j \in 1..Len(sent) : sent'[j] = sent[j]
      /\ sent'[Len(sent) + 1] = chunk
  BY <1>1
<1>3. Len(sent) >= chunk - 1 /\ \A i \in 1..(chunk - 1) : sent[Len(sent) - (chunk - 1) + i] = i
  BY DEF RunSoFar
<1>4. ASSUME NEW i \in 1..chunk PROVE sent'[Len(sent') - chunk + i] = i
  <2>1. CASE i = chunk
    BY <1>1, <1>2, <2>1
  <2>2. CASE i # chunk
    <3>1. i \in 1..(chunk - 1) /\ Len(sent) - (chunk - 1) + i \in 1..Len(sent)
      BY <1>1, <1>3, <2>2
    <3>2. Len(sent') - chunk + i = Len(sent) - (chunk - 1) + i
      BY <1>1, <1>2
    <3>3. QED
      BY <1>2, <1>3, <3>1, <3>2
  <2>3. QED
    BY <2>1, <2>2
<1>5. ASSUME NEW j \in DOMAIN sent'
      PROVE  sent'[j] = 1 \/ (j > 1 /\ sent'[j] = sent'[j - 1] + 1)
  <2>1. CASE j \in 1..Len(sent)
    <3>1. sent[j] = 1 \/ (j > 1 /\ sent[j] = sent[j - 1] + 1)
      BY <1>2, <2>1 DEF ChunksInOrder
    <3>2. j > 1 => j - 1 \in 1..Len(sent)
      BY <1>1, <2>1
    <3>3. QED
      BY <1>2, <2>1, <3>1, <3>2
  <2>2. CASE j = Len(sent) + 1 /\ chunk > 1
    <3>1. sent'[Len(sent') - chunk + (chunk - 1)] = chunk - 1
      BY <1>1, <1>4, <2>2
    <3>2. Len(sent') - chunk + (chunk - 1) = j - 1 /\ j > 1
      BY <1>1, <1>2, <1>3, <2>2
    <3>3. sent'[j - 1] = chunk - 1
      BY <3>1, <3>2
    <3>4. sent'[j] = chunk
      BY <1>2, <2>2
    <3>5. QED
      BY <1>1, <3>2, <3>3, <3>4
  <2>3. CASE j = Len(sent) + 1 /\ chunk = 1
    BY <1>2, <2>3
  <2>4. QED
    BY <1>1, <1>2, <2>1, <2>2, <2>3
<1>6. "retryable" \notin errors => \A i \in DOMAIN sent' : sent'[i] = i
  BY <1>1, <1>2 DEF OneRun
<1>7. Len(sent') >= chunk
  BY <1>1, <1>2, <1>3
<1>8. QED
  BY <1>2, <1>4, <1>5, <1>6, <1>7, Zenon

LEMMA InitPullInv == Init => PullInv
<1> SUFFICES ASSUME Init PROVE PullInv
  OBVIOUS
<1> USE SymbolsAssumption, RetryAssumption, BreakerAssumption, BoundAssumption
<1>1. TypeOK
  <2>1. sent \in Seq(1..MaxChunks) /\ outcome \in [1..Symbols -> Outcomes]
    BY DEF Init, Outcomes
  <2>2. /\ nextAttemptTime \in 0..(MaxClock + ResetTimeout) /\ attempt \in 0..(Attempts - 1)
        /\ symbol \in 1..(Symbols + 1) /\ chunks \in 1..MaxChunks /\ chunk \in 1..chunks
        /\ now \in 0..MaxClock /\ failureCount \in Nat /\ successCount \in Nat
    BY DEF Init
  <2>3. QED
    BY <2>1, <2>2 DEF Init, TypeOK, States, Phases
<1>2. BreakerInv
  BY InitBreakerInv
<1>3. PhaseInv /\ ChunksInOrder /\ PublishedIsComplete /\ OneRun
  BY DEF Init, PhaseInv, ChunksInOrder, PublishedIsComplete, OneRun
<1>4. QED
  BY <1>1, <1>2, <1>3 DEF PullInv

(* However a symbol ends, the next one begins with nothing sent. *)
LEMMA NextSymbolInv ==
  ASSUME PullInv, BreakerInv', phase # "fetch" \/ symbol <= Symbols,
         NEW result \in Outcomes, NextSymbol(result), errors' = errors,
         nextAttemptTime' \in 0..(MaxClock + ResetTimeout), now' = now,
         expired' = expired, state' = "half-open" => now > nextAttemptTime'
  PROVE  PullInv'
<1> USE SymbolsAssumption, RetryAssumption, BreakerAssumption, BoundAssumption
    DEF PullInv, NextSymbol, Advance
<1>1. symbol \in 1..Symbols
  BY DEF TypeOK, PhaseInv
<1>2. TypeOK'
  BY <1>1 DEF TypeOK, BreakerInv, BreakerTypeOK, Phases
<1>3. PhaseInv' /\ ChunksInOrder' /\ PublishedIsComplete' /\ OneRun'
  BY DEF PhaseInv, ChunksInOrder, PublishedIsComplete, OneRun
<1>4. QED
  BY <1>2, <1>3

LEMMA NextPullInv == PullInv /\ [Next]_vars => PullInv'
<1> SUFFICES ASSUME PullInv, [Next]_vars PROVE PullInv'
  OBVIOUS
<1> USE SymbolsAssumption, RetryAssumption, BreakerAssumption, BoundAssumption
<1>0. BreakerInv'
  BY NextBreakerInv DEF PullInv
<1>1. CASE FetchFails \/ FetchEmpty \/ Refuse \/ WaitCancelled \/ Export
  <2>1. PICK result \in Outcomes : NextSymbol(result)
    BY <1>1 DEF FetchFails, FetchEmpty, Refuse, WaitCancelled, Export, Outcomes
  <2>2. /\ phase # "fetch" \/ symbol <= Symbols
        /\ UNCHANGED <<breakerVars, now, expired, errors>>
    BY <1>1 DEF FetchFails, FetchEmpty, Refuse, WaitCancelled, Export
  <2>3. QED
    BY <1>0, <2>1, <2>2, NextSymbolInv DEF breakerVars, PullInv, TypeOK, PhaseInv
<1>2. ASSUME NEW n \in 1..MaxChunks, FetchBars(n) PROVE PullInv'
  <2> USE <1>2 DEF FetchBars, breakerVars, PullInv
  <2>1. chunk = 1
    BY DEF TypeOK, PhaseInv
  <2>2. TypeOK'
    BY <2>1 DEF TypeOK, Phases
  <2>3. PhaseInv' /\ ChunksInOrder' /\ PublishedIsComplete' /\ OneRun'
    BY DEF PhaseInv, ChunksInOrder, PublishedIsComplete, OneRun
  <2>4. QED
    BY <1>0, <2>2, <2>3
<1>3. CASE Enter
  <2> USE <1>3 DEF Enter, CanExecute, FirstChunk, ResetSuccessCount, breakerVars, PullInv
  <2>1. TypeOK'
    BY DEF TypeOK, Phases, States
  <2>2. PhaseInv'
    BY DEF PhaseInv, RunSoFar, ResetTimeoutPassed, TypeOK, States
  <2>3. ChunksInOrder' /\ PublishedIsComplete' /\ OneRun'
    BY DEF ChunksInOrder, PublishedIsComplete, OneRun
  <2>4. QED
    BY <1>0, <2>1, <2>2, <2>3
<1>4. CASE SendChunk
  <2> USE <1>4 DEF SendChunk, Last, breakerVars, PullInv
  <2>1. /\ sent' \in Seq(1..MaxChunks) /\ Len(sent') = Len(sent) + 1
        /\ \A j \in DOMAIN sent' : sent'[j] = 1 \/ (j > 1 /\ sent'[j] = sent'[j - 1] + 1)
        /\ Len(sent') >= chunk
        /\ \A i \in 1..chunk : sent'[Len(sent') - chunk + i] = i
        /\ "retryable" \notin errors => \A i \in DOMAIN sent' : sent'[i] = i
    BY AppendChunk
  <2>2. TypeOK'
    BY <2>1 DEF TypeOK
  <2>3. chunk' - 1 = chunk
    BY DEF TypeOK
  <2>4. RunSoFar'
    BY <2>1, <2>3 DEF RunSoFar
  <2>5. PhaseInv'
    BY <2>1, <2>3, <2>4 DEF PhaseInv
  <2>6. ChunksInOrder' /\ PublishedIsComplete'
    BY <2>1 DEF ChunksInOrder, PublishedIsComplete
  <2>7. OneRun'
    BY <2>1, <2>3 DEF OneRun, TypeOK
  <2>8. QED
    BY <1>0, <2>2, <2>5, <2>6, <2>7
<1>5. CASE SendLastChunk
  <2> USE <1>5 DEF SendLastChunk, Last, PullInv
  <2>1. /\ sent' \in Seq(1..MaxChunks) /\ Len(sent') = Len(sent) + 1
        /\ \A j \in DOMAIN sent' : sent'[j] = 1 \/ (j > 1 /\ sent'[j] = sent'[j - 1] + 1)
        /\ Len(sent') >= chunk
        /\ \A i \in 1..chunk : sent'[Len(sent') - chunk + i] = i
        /\ "retryable" \notin errors => \A i \in DOMAIN sent' : sent'[i] = i
    BY AppendChunk
  <2>2. nextAttemptTime' = nextAttemptTime /\ (state' = "half-open" => state = "half-open")
    BY DEF RecordSuccess, TypeOK, States
  <2>3. TypeOK'
    BY <1>0, <2>1, <2>2 DEF TypeOK, Phases, BreakerInv, BreakerTypeOK
  <2>4. PhaseInv'
    BY <2>2 DEF PhaseInv
  <2>5. ChunksInOrder' /\ PublishedIsComplete'
    BY <2>1 DEF ChunksInOrder, PublishedIsComplete
  <2>6. OneRun'
    BY <2>1 DEF OneRun
  <2>7. QED
    BY <1>0, <2>3, <2>4, <2>5, <2>6
<1>6. ASSUME NEW err \in errors, SendFails(err) PROVE PullInv'
  <2> USE <1>6 DEF PullInv
  <2>1. /\ nextAttemptTime' \in 0..(MaxClock + ResetTimeout)
        /\ state' = "half-open" => now > nextAttemptTime'
    BY DEF SendFails, RecordFailure, TypeOK, PhaseInv, States
  <2>2. CASE IsRetryableError(err) /\ RetriesLeft /\ UNCHANGED sent
    <3>1. TypeOK'
      BY <1>0, <2>1, <2>2 DEF SendFails, TypeOK, Phases, BreakerInv, BreakerTypeOK
    <3>2. PhaseInv' /\ ChunksInOrder' /\ PublishedIsComplete' /\ OneRun'
      BY <2>1, <2>2
      DEF SendFails, PhaseInv, ChunksInOrder, PublishedIsComplete, OneRun, RetriesLeft,
          IsRetryableError
    <3>3. QED
      BY <1>0, <3>1, <3>2
  <2>3. CASE IsRetryableError(err) /\ RetriesLeft /\ sent' = Append(sent, chunk)
    <3>1. /\ sent' \in Seq(1..MaxChunks)
          /\ \A j \in DOMAIN sent' :
               sent'[j] = 1 \/ (j > 1 /\ sent'[j] = sent'[j - 1] + 1)
      BY <2>3, AppendChunk DEF SendFails
    <3>2. TypeOK'
      BY <1>0, <2>1, <2>3, <3>1 DEF SendFails, TypeOK, Phases, BreakerInv, BreakerTypeOK
    <3>3. PhaseInv' /\ ChunksInOrder' /\ PublishedIsComplete' /\ OneRun'
      BY <2>1, <2>3, <3>1
      DEF SendFails, PhaseInv, ChunksInOrder, PublishedIsComplete, OneRun, RetriesLeft,
          IsRetryableError
    <3>4. QED
      BY <1>0, <3>2, <3>3
  <2>4. CASE ~ (IsRetryableError(err) /\ RetriesLeft)
    <3>1. PICK result \in Outcomes : NextSymbol(result)
      BY <2>4 DEF SendFails, Outcomes
    <3>2. QED
      BY <1>0, <2>1, <3>1, NextSymbolInv DEF SendFails
  <2>5. QED
    BY <2>2, <2>3, <2>4 DEF SendFails
<1>7. CASE WaitOver
  BY <1>0, <1>7
  DEF WaitOver, breakerVars, PullInv, TypeOK, Phases, PhaseInv, ChunksInOrder,
      PublishedIsComplete, OneRun
<1>8. CASE Expire \/ UNCHANGED vars
  <2> USE <1>8 DEF Expire, vars, pullVars, breakerVars, PullInv
  <2>1. TypeOK'
    BY DEF TypeOK
  <2>2. PhaseInv'
    BY DEF PhaseInv, RunSoFar
  <2>3. ChunksInOrder' /\ PublishedIsComplete' /\ OneRun'
    BY DEF ChunksInOrder, PublishedIsComplete, OneRun
  <2>4. QED
    BY <1>0, <2>1, <2>2, <2>3
<1>9. CASE Tick
  <2> USE <1>9 DEF Tick, pullVars, breakerVars, PullInv
  <2>1. TypeOK'
    BY DEF TypeOK
  <2>2. PhaseInv'
    BY DEF PhaseInv, RunSoFar, TypeOK
  <2>3. ChunksInOrder' /\ PublishedIsComplete' /\ OneRun'
    BY DEF ChunksInOrder, PublishedIsComplete, OneRun
  <2>4. QED
    BY <1>0, <2>1, <2>2, <2>3
<1>10. QED
  BY <1>1, <1>2, <1>3, <1>4, <1>5, <1>6, <1>7, <1>8, <1>9 DEF Next, Process

LEMMA PullInvariance == Spec => []PullInv
  BY InitPullInv, NextPullInv, PTL DEF Spec

(* The types of the pull's state. *)
THEOREM TypeCorrect == Spec => []TypeOK
<1>1. PullInv => TypeOK
  BY DEF PullInv
<1>2. QED
  BY <1>1, PullInvariance, PTL

(* The chunks of a symbol reach the bus as runs 1, 2, 3, ..., across any    *)
(* number of retries and however the broker's answers are lost.             *)
THEOREM RunsOfChunks == Spec => []ChunksInOrder
<1>1. PullInv => ChunksInOrder
  BY DEF PullInv
<1>2. QED
  BY <1>1, PullInvariance, PTL

(* A symbol counts as published only with a whole last run on the bus. *)
THEOREM PublishedMeansDelivered == Spec => []PublishedIsComplete
<1>1. PullInv => PublishedIsComplete
  BY DEF PullInv
<1>2. QED
  BY <1>1, PullInvariance, PTL

(* BusPublisher, whose errors are never retryable, sends no chunk twice. *)
THEOREM BusPublisherSendsOnce == Spec => []NoDuplicateChunk
<1>1. PullInv => NoDuplicateChunk
  BY DEF PullInv, OneRun, NoDuplicateChunk
<1>2. QED
  BY <1>1, PullInvariance, PTL

(* Nothing is sent while the breaker is open and cooling. *)
THEOREM SilenceWhileOpen == Spec => OpenMeansSilence
<1>1. PullInv /\ [Next]_vars =>
        [Len(sent') > Len(sent) => state = "closed" \/ now > nextAttemptTime]_vars
  <2> SUFFICES ASSUME PullInv, Next, Len(sent') > Len(sent)
               PROVE  state = "closed" \/ now > nextAttemptTime
    OBVIOUS
  <2>1. Len(sent) \in Nat
    BY DEF PullInv, TypeOK
  <2>2. phase = "chunk"
    BY <2>1
    DEF Next, Process, FetchFails, FetchEmpty, FetchBars, Enter, Refuse, WaitOver,
        WaitCancelled, Export, Expire, Tick, NextSymbol, pullVars, SendChunk,
        SendLastChunk, SendFails
  <2>3. QED
    BY <2>2 DEF PullInv, PhaseInv, TypeOK, States
<1>2. QED
  BY <1>1, PullInvariance, PTL DEF Spec, OpenMeansSilence
==============================================================================
