--------------------------- MODULE CommandsProofs ---------------------------
(***************************************************************************)
(* The long commands, for every number of workers, tickers, endpoints and  *)
(* requests: whom a soak run waits for and what it prints (SoakRun), and who*)
(* works on a batch and how its totals add up (Batch).                     *)
(***************************************************************************)
EXTENDS SoakRun, Batch, DataLemmas

-----------------------------------------------------------------------------
(* SoakRun.                                                                 *)


PcPlaces == {"new", "off", "loop", "limit", "count", "api", "scrape", "decide",
             "record", "endpoint"}

SoakTypes ==
  /\ fallback \in Strategies
  /\ main \in {"starting", "running", "stopping", "printed"}
  /\ stopped \in BOOLEAN /\ done \in BOOLEAN
  /\ pc \in [Workers -> PcPlaces]
  /\ endpoint \in [Workers -> Endpoints]
  /\ ending \in [Workers -> Endings]
  /\ total \in Nat /\ ok \in Nat /\ failed \in Nat
  /\ api \in Nat /\ scrape \in Nat /\ decisions \in Nat
  /\ requests \in [Endpoints -> Nat]
  /\ successes \in [Endpoints -> Nat] /\ failures \in [Endpoints -> Nat]
  /\ helper \in [Helpers -> BOOLEAN]
  /\ prober \in {"off", "waiting", "probing", "returned"}
  /\ left \in 0..SampleSize /\ (prober = "probing" => left > 0)
  /\ rounds \in 0..MaxRounds
  /\ passed \in Nat /\ notPassed \in Nat

LEMMA Picked == Unpicked \in Endpoints
BY EndpointsAssumption DEF Unpicked

LEMMA SoakTypesInit == SoakInit => SoakTypes
<1> SUFFICES ASSUME SoakInit PROVE SoakTypes
  OBVIOUS
<1>1. pc \in [Workers -> PcPlaces] /\ ending \in [Workers -> Endings]
  BY DEF SoakInit, PcPlaces, Endings
<1>2. endpoint \in [Workers -> Endpoints]
  BY Picked DEF SoakInit
<1>3. /\ requests \in [Endpoints -> Nat]
      /\ successes \in [Endpoints -> Nat] /\ failures \in [Endpoints -> Nat]
      /\ helper \in [Helpers -> BOOLEAN]
  BY DEF SoakInit
<1>4. left \in 0..SampleSize /\ rounds \in 0..MaxRounds
  BY SampleAssumption, RequestBoundAssumption DEF SoakInit
<1>5. QED
  BY <1>1, <1>2, <1>3, <1>4 DEF SoakInit, SoakTypes

LEMMA SoakTypesStep ==
  ASSUME SoakTypes, SoakNext PROVE SoakTypes'
<1> USE DEF SoakTypes, PcPlaces, Endings, counters, workerVars, proberVars, control
<1>1. CASE StartHelpers
  BY <1>1 DEF StartHelpers
<1>2. ASSUME NEW w \in Workers, StartWorker(w) PROVE SoakTypes'
  <2>1. main' \in {"running", "starting"}
    BY <1>2 DEF StartWorker
  <2>2. QED
    BY <1>2, <2>1 DEF StartWorker
<1>3. CASE Stop \/ PrintResults \/ Cancel
  BY <1>3 DEF Stop, PrintResults, Cancel
<1>4. ASSUME NEW w \in Workers, Pick(w) \/ Leave(w) \/ NoToken(w) PROVE SoakTypes'
  BY <1>4 DEF Pick, Leave, NoToken, ReturnFrom
<1>5. ASSUME NEW w \in Workers, Token(w) PROVE SoakTypes'
  BY <1>5 DEF Token
<1>6. ASSUME NEW w \in Workers, CountEndpoint(w) PROVE SoakTypes'
  <2>1. Source(endpoint[w]) \in {"api", "scrape", "record"}
    BY DEF Source
  <2>2. requests' \in [Endpoints -> Nat]
    BY <1>6 DEF CountEndpoint
  <2>3. pc' \in [Workers -> PcPlaces] /\ ending' \in [Workers -> Endings]
    BY <1>6, <2>1 DEF CountEndpoint
  <2>4. QED
    BY <1>6, <2>2, <2>3 DEF CountEndpoint
<1>7. ASSUME NEW w \in Workers, APIReturns(w) PROVE SoakTypes'
  <2>1. api' \in Nat
    BY <1>7 DEF APIReturns
  <2>2. pc' \in [Workers -> PcPlaces] /\ ending' \in [Workers -> Endings]
    BY <1>7 DEF APIReturns
  <2>3. QED
    BY <1>7, <2>1, <2>2 DEF APIReturns
<1>8. ASSUME NEW w \in Workers, ScrapeReturns(w) PROVE SoakTypes'
  <2>1. pc' \in [Workers -> PcPlaces] /\ ending' \in [Workers -> Endings]
    BY <1>8 DEF ScrapeReturns
  <2>2. QED
    BY <1>8, <2>1 DEF ScrapeReturns
<1>9. ASSUME NEW w \in Workers, CountDecision(w) \/ Record(w) PROVE SoakTypes'
  BY <1>9 DEF CountDecision, Record
<1>10. ASSUME NEW w \in Workers, RecordEndpoint(w) PROVE SoakTypes'
  <2>1. endpoint' \in [Workers -> Endpoints] /\ ending' \in [Workers -> Endings]
    BY <1>10, Picked DEF RecordEndpoint
  <2>2. successes' \in [Endpoints -> Nat] /\ failures' \in [Endpoints -> Nat]
    BY <1>10 DEF RecordEndpoint
  <2>3. QED
    BY <1>10, <2>1, <2>2 DEF RecordEndpoint
<1>11. CASE BeginRound \/ ProberReturns
  <2>1. left' \in 0..SampleSize /\ rounds' \in 0..MaxRounds
    BY <1>11, SampleAssumption, RequestBoundAssumption DEF BeginRound, ProberReturns
  <2>2. QED
    BY <1>11, <2>1, SampleAssumption DEF BeginRound, ProberReturns
<1>12. ASSUME NEW n \in 0..Probes, Validate(n) PROVE SoakTypes'
  BY <1>12, SampleAssumption DEF Validate
<1>13. ASSUME NEW h \in Helpers, HelperReturns(h) PROVE SoakTypes'
  BY <1>13 DEF HelperReturns
<1>14. QED
  BY <1>1, <1>2, <1>3, <1>4, <1>5, <1>6, <1>7, <1>8, <1>9, <1>10, <1>11, <1>12, <1>13
     DEF SoakNext, RunStep, ProberStep, WorkerStep

LEMMA SoakTypesHold == SoakSpec => []SoakTypes
<1>1. SoakTypes /\ UNCHANGED soakVars => SoakTypes'
  BY DEF SoakTypes, soakVars, counters, workerVars, proberVars, control
<1>2. QED
  BY SoakTypesInit, SoakTypesStep, <1>1, PTL DEF SoakSpec

-----------------------------------------------------------------------------
(* Counting goroutines. *)
LEMMA Differ ==
  ASSUME NEW S, IsFiniteSet(S), NEW T, NEW x, T \ {x} = S \ {x}
  PROVE  /\ IsFiniteSet(T) /\ Cardinality(T) \in Nat /\ Cardinality(S) \in Nat
         /\ x \in S /\ x \in T => T = S
         /\ x \notin S /\ x \notin T => T = S
         /\ x \in S /\ x \notin T => Cardinality(T) = Cardinality(S) - 1
         /\ x \notin S /\ x \in T => Cardinality(T) = Cardinality(S) + 1
<1>1. CASE x \in S <=> x \in T
  <2>1. T = S
    BY <1>1
  <2>2. QED
    BY <1>1, <2>1, FS_CardinalityType
<1>2. CASE x \in S /\ x \notin T
  <2>1. T = S \ {x}
    BY <1>2
  <2>2. QED
    BY <1>2, <2>1, FS_RemoveElement, FS_CardinalityType
<1>3. CASE x \notin S /\ x \in T
  <2>1. T = S \cup {x}
    BY <1>3
  <2>2. QED
    BY <1>3, <2>1, FS_AddElement, FS_CardinalityType
<1>4. QED
  BY <1>1, <1>2, <1>3

Helping == {h \in Helpers : helper[h]}
ProberCount == IF prober \in {"off", "returned"} THEN 0 ELSE 1

(* o.wg counts exactly the goroutines that have not returned, and when the  *)
(* results are printed there are none.                                      *)
WgInv ==
  /\ wg = Cardinality(Running) + Cardinality(Helping) + ProberCount
  /\ prober = "off" => Helping = {}
  /\ main = "printed" => Running = {} /\ Helping = {} /\ ProberCount = 0

LEMMA TheyAreFinite ==
  ASSUME SoakTypes
  PROVE  /\ IsFiniteSet(Running) /\ Cardinality(Running) \in Nat
         /\ IsFiniteSet(Helping) /\ Cardinality(Helping) \in Nat
<1>1. Running \subseteq Workers /\ Helping \subseteq Helpers
  BY DEF Running, Helping
<1>2. QED
  BY <1>1, FS_Subset, FS_CardinalityType, SoakWorkersAssumption, HelpersAssumption

LEMMA WgInit == SoakInit => WgInv
<1> SUFFICES ASSUME SoakInit PROVE WgInv
  OBVIOUS
<1>1. Running = {} /\ Helping = {}
  BY DEF SoakInit, Running, Helping
<1>2. Cardinality({}) = 0
  BY FS_EmptySet
<1>3. wg = 0 /\ ProberCount = 0 /\ main = "starting"
  BY DEF SoakInit, ProberCount
<1>4. QED
  BY <1>1, <1>2, <1>3 DEF WgInv

LEMMA WgStep ==
  ASSUME SoakTypes, WgInv, SoakNext PROVE WgInv'
<1> USE DEF counters, workerVars, proberVars, control
<1>0. /\ IsFiniteSet(Running) /\ Cardinality(Running) \in Nat
      /\ IsFiniteSet(Helping) /\ Cardinality(Helping) \in Nat
  BY TheyAreFinite
<1>1. CASE StartHelpers
  <2>1. Helping = {} /\ Helping' = Helpers /\ Running' = Running
    BY <1>1 DEF StartHelpers, WgInv, Helping, Running
  <2>2. Cardinality(Helpers) \in Nat /\ Cardinality({}) = 0
    BY FS_CardinalityType, FS_EmptySet, HelpersAssumption
  <2>3. /\ wg' = wg + Cardinality(Helpers) + 1 /\ main' = "starting"
        /\ prober' = "waiting" /\ ProberCount = 0 /\ ProberCount' = 1
    BY <1>1 DEF StartHelpers, ProberCount
  <2>4. /\ Cardinality(Helping) = 0 /\ Cardinality(Helping') \in Nat
        /\ Cardinality(Helping') = Cardinality(Helpers)
        /\ Cardinality(Running') = Cardinality(Running)
    BY <2>1, <2>2
  <2>5. wg = Cardinality(Running)
    BY <1>0, <2>3, <2>4 DEF WgInv
  <2>6. wg' = Cardinality(Running') + Cardinality(Helping') + ProberCount'
    BY <1>0, <2>2, <2>3, <2>4, <2>5
  <2>7. QED
    BY <2>3, <2>6 DEF WgInv
<1>2. ASSUME NEW w \in Workers, StartWorker(w) PROVE WgInv'
  <2>1. w \notin Running /\ w \in Running' /\ Running' \ {w} = Running \ {w}
    BY <1>2 DEF StartWorker, Running, SoakTypes
  <2>2. Cardinality(Running') = Cardinality(Running) + 1
    BY <1>0, <2>1, Differ
  <2>3. /\ wg' = wg + 1 /\ main' # "printed" /\ UNCHANGED <<prober, helper>>
    BY <1>2 DEF StartWorker, Added
  <2>4. Helping' = Helping /\ ProberCount' = ProberCount
    BY <2>3 DEF Helping, ProberCount
  <2>5. ProberCount \in Nat
    BY DEF ProberCount
  <2>6. QED
    BY <1>0, <2>2, <2>3, <2>4, <2>5 DEF WgInv
<1>3. CASE Stop \/ Cancel
  BY <1>3 DEF Stop, Cancel, WgInv, Running, Helping, ProberCount
<1>4. CASE PrintResults
  <2>1. Cardinality(Running) = 0 /\ Cardinality(Helping) = 0 /\ ProberCount = 0
    BY <1>0, <1>4 DEF PrintResults, WgInv, ProberCount
  <2>2. Running = {} /\ Helping = {}
    BY <1>0, <2>1, FS_EmptySet
  <2>3. UNCHANGED <<wg, prober, pc, helper>>
    BY <1>4 DEF PrintResults
  <2>4. Running' = Running /\ Helping' = Helping /\ ProberCount' = ProberCount
    BY <2>3 DEF Running, Helping, ProberCount
  <2>5. QED
    BY <2>1, <2>2, <2>3, <2>4 DEF WgInv
<1>5. ASSUME NEW w \in Workers, WorkerStep(w) PROVE WgInv'
  <2>1. CASE ReturnFrom(w) /\ pc[w] \in {"loop", "limit"}
    <3>1. w \in Running /\ w \notin Running' /\ Running' \ {w} = Running \ {w}
      BY <2>1 DEF ReturnFrom, Running, SoakTypes
    <3>2. Cardinality(Running') = Cardinality(Running) - 1
      BY <1>0, <3>1, Differ
    <3>3. wg' = wg - 1 /\ UNCHANGED <<main, prober, helper>> /\ main # "printed"
      BY <2>1, <3>1 DEF ReturnFrom, WgInv
    <3>4. Helping' = Helping /\ ProberCount' = ProberCount /\ ProberCount \in Nat
      BY <3>3 DEF Helping, ProberCount
    <3>5. QED
      BY <1>0, <3>2, <3>3, <3>4 DEF WgInv
  <2>2. ASSUME NEW p \in PcPlaces \ {"new", "off"}, pc[w] \notin {"new", "off"},
               pc' = [pc EXCEPT ![w] = p], UNCHANGED <<main, wg, prober, helper>>
        PROVE  WgInv'
    <3>1. Running' = Running
      BY <2>2 DEF Running, SoakTypes
    <3>2. Helping' = Helping /\ ProberCount' = ProberCount
      BY <2>2 DEF Helping, ProberCount
    <3>3. QED
      BY <2>2, <3>1, <3>2 DEF WgInv
  <2>3. CASE Leave(w)
    BY <2>1, <2>3 DEF Leave
  <2>4. CASE NoToken(w)
    <3>1. CASE done
      BY <2>1, <2>4, <3>1 DEF NoToken
    <3>2. CASE ~ done
      BY <2>2, <2>4, <3>2 DEF NoToken, PcPlaces
    <3>3. QED
      BY <3>1, <3>2
  <2>5. CASE Pick(w) \/ Token(w)
    BY <2>2, <2>5 DEF Pick, Token, PcPlaces
  <2>6. CASE CountEndpoint(w)
    <3>1. Source(endpoint[w]) \in {"api", "scrape", "record"}
      BY DEF Source
    <3>2. QED
      BY <2>2, <2>6, <3>1 DEF CountEndpoint, PcPlaces
  <2>7. CASE APIReturns(w)
    <3>1. \E p \in {"scrape", "record"} : pc' = [pc EXCEPT ![w] = p]
      BY <2>7 DEF APIReturns
    <3>2. QED
      BY <2>2, <2>7, <3>1 DEF APIReturns, PcPlaces
  <2>8. CASE ScrapeReturns(w)
    <3>1. \E p \in {"decide", "record"} : pc' = [pc EXCEPT ![w] = p]
      BY <2>8 DEF ScrapeReturns
    <3>2. QED
      BY <2>2, <2>8, <3>1 DEF ScrapeReturns, PcPlaces
  <2>9. CASE CountDecision(w) \/ Record(w) \/ RecordEndpoint(w)
    BY <2>2, <2>9 DEF CountDecision, Record, RecordEndpoint, PcPlaces
  <2>10. QED
    BY <1>5, <2>3, <2>4, <2>5, <2>6, <2>7, <2>8, <2>9 DEF WorkerStep
<1>6. CASE BeginRound \/ \E n \in 0..Probes : Validate(n)
  <2>1. UNCHANGED <<pc, helper, main, wg>> /\ ProberCount = 1 /\ ProberCount' = 1 /\ prober' # "off"
    BY <1>6 DEF BeginRound, Validate, ProberCount
  <2>2. QED
    BY <2>1 DEF WgInv, Running, Helping
<1>7. CASE ProberReturns
  <2>1. /\ ProberCount = 1 /\ ProberCount' = 0 /\ wg' = wg - 1 /\ prober' # "off"
        /\ Running' = Running /\ Helping' = Helping /\ UNCHANGED main
    BY <1>7 DEF ProberReturns, ProberCount, Running, Helping
  <2>2. QED
    BY <1>0, <2>1 DEF WgInv
<1>8. ASSUME NEW h \in Helpers, HelperReturns(h) PROVE WgInv'
  <2>1. h \in Helping /\ h \notin Helping' /\ Helping' \ {h} = Helping \ {h}
    BY <1>8 DEF HelperReturns, Helping, SoakTypes
  <2>2. Cardinality(Helping') = Cardinality(Helping) - 1
    BY <1>0, <2>1, Differ
  <2>3. /\ wg' = wg - 1 /\ Running' = Running /\ ProberCount' = ProberCount
        /\ UNCHANGED <<main, prober>> /\ main # "printed" /\ prober # "off"
    BY <1>8, <2>1 DEF HelperReturns, Running, ProberCount, WgInv
  <2>4. ProberCount \in Nat
    BY DEF ProberCount
  <2>5. QED
    BY <1>0, <2>2, <2>3, <2>4 DEF WgInv
<1>9. QED
  BY <1>1, <1>2, <1>3, <1>4, <1>5, <1>6, <1>7, <1>8 DEF SoakNext, RunStep, ProberStep

LEMMA WgHolds == SoakSpec => []WgInv
<1>1. WgInv /\ UNCHANGED soakVars => WgInv'
  BY DEF WgInv, Running, Helping, ProberCount, soakVars, counters, workerVars, proberVars, control
<1>2. QED
  BY WgInit, WgStep, SoakTypesHold, <1>1, PTL DEF SoakSpec

-----------------------------------------------------------------------------
(* The types of a run, and o.wg: it counts exactly the goroutines that have *)
(* begun and not returned, so its Wait waits for all of them.               *)
THEOREM SoakTypeCorrect == SoakSpec => []SoakTypeOK
<1>1. SoakTypes /\ WgInv => SoakTypeOK
  BY DEF SoakTypes, WgInv, SoakTypeOK, PcPlaces, Helping, ProberCount
<1>2. QED
  BY <1>1, SoakTypesHold, WgHolds, PTL

(* No counter moves once the results are printed, for any number of workers *)
(* and helpers: nothing is left that could move one.                        *)
THEOREM NothingAfterTheResults == SoakSpec => ResultsAreFinal
<1> USE DEF counters, workerVars, proberVars, control
<1>1. ASSUME WgInv, main = "printed", [SoakNext]_soakVars
      PROVE  UNCHANGED <<counters, passed, notPassed>>
  <2>1. /\ \A w \in Workers : pc[w] \in {"new", "off"}
        /\ \A h \in Helpers : ~ helper[h]
        /\ prober \in {"off", "returned"}
    BY <1>1 DEF WgInv, Running, Helping, ProberCount
  <2>2. ~ ProberStep /\ \A w \in Workers : ~ WorkerStep(w)
    <3>1. ~ ProberStep
      <4>1. ~ BeginRound /\ ~ ProberReturns
        BY <2>1 DEF BeginRound, ProberReturns
      <4>2. ASSUME NEW n \in 0..Probes PROVE ~ Validate(n)
        BY <2>1 DEF Validate
      <4>3. QED
        BY <4>1, <4>2 DEF ProberStep
    <3>2. ASSUME NEW w \in Workers, WorkerStep(w) PROVE FALSE
      <4>1. ~ Pick(w) /\ ~ Leave(w) /\ ~ NoToken(w) /\ ~ Token(w) /\ ~ CountEndpoint(w)
        BY <2>1 DEF Pick, Leave, NoToken, Token, CountEndpoint
      <4>2. ~ APIReturns(w) /\ ~ ScrapeReturns(w) /\ ~ CountDecision(w)
        BY <2>1 DEF APIReturns, ScrapeReturns, CountDecision
      <4>3. ~ Record(w) /\ ~ RecordEndpoint(w)
        BY <2>1 DEF Record, RecordEndpoint
      <4>4. QED
        BY <3>2, <4>1, <4>2, <4>3 DEF WorkerStep
    <3>3. QED
      BY <3>1, <3>2
  <2>3. ~ RunStep
    BY <1>1 DEF RunStep, StartHelpers, Stop, PrintResults, StartWorker
  <2>4. ~ Cancel /\ \A h \in Helpers : ~ HelperReturns(h)
    BY <1>1, <2>1 DEF Cancel, HelperReturns
  <2>5. CASE UNCHANGED soakVars
    BY <2>5 DEF soakVars
  <2>6. QED
    BY <1>1, <2>2, <2>3, <2>4, <2>5 DEF SoakNext
<1>2. WgInv /\ [SoakNext]_soakVars =>
        [main = "printed" => UNCHANGED <<counters, passed, notPassed>>]_soakVars
  BY <1>1
<1>3. QED
  BY WgHolds, <1>2, PTL DEF SoakSpec, ResultsAreFinal

-----------------------------------------------------------------------------
(* Requests that are begun and not yet judged, not yet charged to a source, *)
(* about to be told a decision; and those charged to an endpoint and not    *)
(* yet judged there.                                                        *)
Judging == {"count", "api", "scrape", "decide", "record"}
Routing == {"count", "api", "scrape"}
Charging == {"api", "scrape", "decide", "record", "endpoint"}

Among(places) == {w \in Workers : pc[w] \in places}
Judged == Among(Judging)
Routed == Among(Routing)
Decided == Among({"decide"})
ChargedTo(e) == {w \in Workers : endpoint[w] = e /\ pc[w] \in Charging}

One(b) == IF b THEN 1 ELSE 0

KnownStrategy == fallback \in {"auto", "api-only", "scrape-only"}

(* Every counter that lags behind another lags by the workers in between.   *)
SumInv ==
  /\ total = ok + failed + Cardinality(Judged)
  /\ KnownStrategy => total = api + scrape + Cardinality(Routed)
  /\ decisions + Cardinality(Decided) <= scrape
  /\ \A e \in Endpoints : requests[e] = successes[e] + failures[e] + Cardinality(ChargedTo(e))

LEMMA CountsAreNat ==
  /\ IsFiniteSet(Judged) /\ Cardinality(Judged) \in Nat
  /\ IsFiniteSet(Routed) /\ Cardinality(Routed) \in Nat
  /\ IsFiniteSet(Decided) /\ Cardinality(Decided) \in Nat
  /\ \A e : IsFiniteSet(ChargedTo(e)) /\ Cardinality(ChargedTo(e)) \in Nat
<1>1. /\ Judged \subseteq Workers /\ Routed \subseteq Workers /\ Decided \subseteq Workers
      /\ \A e : ChargedTo(e) \subseteq Workers
  BY DEF Judged, Routed, Decided, Among, ChargedTo
<1>2. QED
  BY <1>1, FS_Subset, FS_CardinalityType, SoakWorkersAssumption

LEMMA Shift ==
  ASSUME NEW S, IsFiniteSet(S), NEW T, NEW x, T \ {x} = S \ {x}
  PROVE  Cardinality(T) = Cardinality(S) + One(x \in T) - One(x \in S)
<1>1. CASE x \in S <=> x \in T
  BY <1>1, Differ DEF One
<1>2. CASE x \in S /\ x \notin T
  BY <1>2, Differ DEF One
<1>3. CASE x \notin S /\ x \in T
  BY <1>3, Differ DEF One
<1>4. QED
  BY <1>1, <1>2, <1>3

(* How the numbers move when one worker does. *)
OnlyMoved(w) ==
  /\ pc' = [pc EXCEPT ![w] = pc'[w]] /\ pc'[w] \in PcPlaces
  /\ \A v \in Workers \ {w} : endpoint'[v] = endpoint[v]

Recounted(w) ==
  /\ Cardinality(Judged') =
        Cardinality(Judged) + One(pc'[w] \in Judging) - One(pc[w] \in Judging)
  /\ Cardinality(Routed') =
        Cardinality(Routed) + One(pc'[w] \in Routing) - One(pc[w] \in Routing)
  /\ Cardinality(Decided') =
        Cardinality(Decided) + One(pc'[w] = "decide") - One(pc[w] = "decide")
  /\ \A e : Cardinality(ChargedTo(e)') =
        Cardinality(ChargedTo(e)) + One(endpoint'[w] = e /\ pc'[w] \in Charging)
          - One(endpoint[w] = e /\ pc[w] \in Charging)

LEMMA Moved ==
  ASSUME SoakTypes, NEW w \in Workers, OnlyMoved(w)
  PROVE  Recounted(w)
<1>1. /\ Judged' \ {w} = Judged \ {w}
      /\ w \in Judged' <=> pc'[w] \in Judging
      /\ w \in Judged <=> pc[w] \in Judging
  BY DEF Judged, Among, SoakTypes, OnlyMoved
<1>2. /\ Routed' \ {w} = Routed \ {w}
      /\ w \in Routed' <=> pc'[w] \in Routing
      /\ w \in Routed <=> pc[w] \in Routing
  BY DEF Routed, Among, SoakTypes, OnlyMoved
<1>3. /\ Decided' \ {w} = Decided \ {w}
      /\ w \in Decided' <=> pc'[w] = "decide"
      /\ w \in Decided <=> pc[w] = "decide"
  BY DEF Decided, Among, SoakTypes, OnlyMoved
<1>4. ASSUME NEW e
      PROVE  /\ ChargedTo(e)' \ {w} = ChargedTo(e) \ {w}
             /\ w \in ChargedTo(e)' <=> endpoint'[w] = e /\ pc'[w] \in Charging
             /\ w \in ChargedTo(e) <=> endpoint[w] = e /\ pc[w] \in Charging
  BY DEF ChargedTo, SoakTypes, OnlyMoved
<1>5. Cardinality(Judged') = Cardinality(Judged) + One(pc'[w] \in Judging) - One(pc[w] \in Judging)
  BY <1>1, CountsAreNat, Shift DEF One
<1>6. Cardinality(Routed') = Cardinality(Routed) + One(pc'[w] \in Routing) - One(pc[w] \in Routing)
  BY <1>2, CountsAreNat, Shift DEF One
<1>7. Cardinality(Decided') = Cardinality(Decided) + One(pc'[w] = "decide") - One(pc[w] = "decide")
  BY <1>3, CountsAreNat, Shift DEF One
<1>8. ASSUME NEW e
      PROVE  Cardinality(ChargedTo(e)') =
                Cardinality(ChargedTo(e)) + One(endpoint'[w] = e /\ pc'[w] \in Charging)
                  - One(endpoint[w] = e /\ pc[w] \in Charging)
  BY <1>4, CountsAreNat, Shift DEF One
<1>9. QED
  BY <1>5, <1>6, <1>7, <1>8 DEF Recounted

LEMMA SumInit == SoakInit => SumInv
<1> SUFFICES ASSUME SoakInit PROVE SumInv
  OBVIOUS
<1>1. Judged = {} /\ Routed = {} /\ Decided = {} /\ \A e : ChargedTo(e) = {}
  BY DEF SoakInit, Judged, Routed, Decided, ChargedTo, Among, Judging, Routing, Charging
<1>2. Cardinality({}) = 0
  BY FS_EmptySet
<1>3. QED
  BY <1>1, <1>2 DEF SoakInit, SumInv

LEMMA SumKept ==
  ASSUME SumInv, UNCHANGED <<pc, endpoint, fallback, total, ok, failed, api, scrape, decisions,
                             requests, successes, failures>>
  PROVE  SumInv'
<1>1. Judged' = Judged /\ Routed' = Routed /\ Decided' = Decided
      /\ \A e : ChargedTo(e)' = ChargedTo(e)
  BY DEF Judged, Routed, Decided, ChargedTo, Among
<1>2. QED
  BY <1>1 DEF SumInv, KnownStrategy

LEMMA SumStep ==
  ASSUME SoakTypes, SumInv, SoakNext PROVE SumInv'
<1> USE DEF counters, workerVars, proberVars, control
<1>1. CASE StartHelpers \/ Stop \/ PrintResults \/ Cancel
  BY <1>1, SumKept DEF StartHelpers, Stop, PrintResults, Cancel
<1>2. CASE BeginRound \/ ProberReturns \/ \E n \in 0..Probes : Validate(n)
  BY <1>2, SumKept DEF BeginRound, ProberReturns, Validate
<1>3. ASSUME NEW h \in Helpers, HelperReturns(h) PROVE SumInv'
  BY <1>3, SumKept DEF HelperReturns
<1>4. ASSUME NEW w \in Workers, StartWorker(w) \/ WorkerStep(w) PROVE SumInv'
  <2>0. /\ total \in Nat /\ ok \in Nat /\ failed \in Nat
        /\ api \in Nat /\ scrape \in Nat /\ decisions \in Nat
        /\ \A e \in Endpoints : requests[e] \in Nat /\ successes[e] \in Nat /\ failures[e] \in Nat
        /\ Cardinality(Judged) \in Nat /\ Cardinality(Routed) \in Nat
        /\ Cardinality(Decided) \in Nat /\ \A e : Cardinality(ChargedTo(e)) \in Nat
    BY CountsAreNat DEF SoakTypes
  <2>1. ASSUME NEW p \in {"off", "loop", "limit"}, pc[w] \in {"new", "loop", "limit"},
               pc' = [pc EXCEPT ![w] = p],
               UNCHANGED <<endpoint, fallback, total, ok, failed, api, scrape, decisions,
                           requests, successes, failures>>
        PROVE  SumInv'
    <3>1. /\ Judged' = Judged /\ Routed' = Routed /\ Decided' = Decided
          /\ \A e : ChargedTo(e)' = ChargedTo(e)
      BY <2>1 DEF Judged, Routed, Decided, ChargedTo, Among, Judging, Routing, Charging, SoakTypes
    <3>2. QED
      BY <2>1, <3>1 DEF SumInv, KnownStrategy
  <2>2. CASE StartWorker(w) \/ Pick(w) \/ Leave(w)
    BY <2>1, <2>2 DEF StartWorker, Pick, Leave, ReturnFrom
  <2>3. CASE NoToken(w)
    <3>1. CASE done
      BY <2>1, <2>3, <3>1 DEF NoToken, ReturnFrom
    <3>2. CASE ~ done
      BY <2>1, <2>3, <3>2 DEF NoToken
    <3>3. QED
      BY <3>1, <3>2
  <2>4. CASE Token(w)
    <3>1. /\ pc[w] = "limit" /\ pc' = [pc EXCEPT ![w] = "count"] /\ total' = total + 1
          /\ UNCHANGED <<fallback, ok, failed, api, scrape, decisions, requests, successes, failures>>
      BY <2>4 DEF Token
    <3>2. \A v \in Workers \ {w} : endpoint'[v] = endpoint[v]
      BY <2>4 DEF Token, SoakTypes
    <3>3. /\ Cardinality(Judged') = Cardinality(Judged) + 1
          /\ Cardinality(Routed') = Cardinality(Routed) + 1
          /\ Cardinality(Decided') = Cardinality(Decided)
          /\ \A e : Cardinality(ChargedTo(e)') = Cardinality(ChargedTo(e))
      <4>1. OnlyMoved(w)
        BY <3>1, <3>2 DEF OnlyMoved, PcPlaces, SoakTypes
      <4>2. Recounted(w)
        BY <4>1, Moved
      <4>3. QED
        BY <2>0, <3>1, <3>2, <4>2 DEF Recounted, One, Judging, Routing, Charging, SoakTypes
    <3>4. QED
      BY <2>0, <3>1, <3>3 DEF SumInv, KnownStrategy
  <2>5. CASE CountEndpoint(w)
    <3> DEFINE p == Source(endpoint[w])
    <3>1. /\ pc[w] = "count" /\ pc' = [pc EXCEPT ![w] = p] /\ endpoint[w] \in Endpoints
          /\ requests' = [requests EXCEPT ![endpoint[w]] = @ + 1]
          /\ UNCHANGED <<fallback, endpoint, total, ok, failed, api, scrape, decisions,
                         successes, failures>>
      BY <2>5 DEF CountEndpoint, SoakTypes
    <3>2. p \in {"api", "scrape", "record"} /\ (KnownStrategy => p \in {"api", "scrape"})
      BY DEF Source, KnownStrategy
    <3> HIDE DEF p
    <3>3. /\ Cardinality(Judged') = Cardinality(Judged)
          /\ p \in {"api", "scrape"} => Cardinality(Routed') = Cardinality(Routed)
          /\ Cardinality(Decided') = Cardinality(Decided)
          /\ \A e : Cardinality(ChargedTo(e)') = Cardinality(ChargedTo(e)) + One(endpoint[w] = e)
      <4>1. OnlyMoved(w)
        BY <3>1, <3>2 DEF OnlyMoved, PcPlaces, SoakTypes
      <4>2. Recounted(w)
        BY <4>1, Moved
      <4>3. QED
        BY <2>0, <3>1, <3>2, <4>2 DEF Recounted, One, Judging, Routing, Charging, SoakTypes
    <3>4. \A e \in Endpoints : requests'[e] = requests[e] + One(endpoint[w] = e)
      BY <2>0, <3>1 DEF One, SoakTypes
    <3>5. \A e : One(endpoint[w] = e) \in Nat
      BY DEF One
    <3>6. ASSUME NEW e \in Endpoints
          PROVE  requests'[e] = successes'[e] + failures'[e] + Cardinality(ChargedTo(e)')
      <4>1. /\ requests[e] = successes[e] + failures[e] + Cardinality(ChargedTo(e))
            /\ successes'[e] = successes[e] /\ failures'[e] = failures[e]
        BY <3>1 DEF SumInv
      <4>2. Cardinality(ChargedTo(e)') = Cardinality(ChargedTo(e)) + One(endpoint[w] = e)
        BY <3>3
      <4>3. requests'[e] = requests[e] + One(endpoint[w] = e) /\ One(endpoint[w] = e) \in Nat
        BY <3>4, <3>5
      <4>4. QED
        BY <2>0, <4>1, <4>2, <4>3
    <3>7. QED
      BY <2>0, <3>1, <3>2, <3>3, <3>6 DEF SumInv, KnownStrategy
  <2>6. CASE APIReturns(w)
    <3>1. PICK p \in {"scrape", "record"} :
             pc' = [pc EXCEPT ![w] = p] /\ api' = IF p = "scrape" THEN api ELSE api + 1
      BY <2>6 DEF APIReturns, CountsAsAPI
    <3>2. /\ pc[w] = "api"
          /\ UNCHANGED <<fallback, endpoint, total, ok, failed, scrape, decisions, requests,
                         successes, failures>>
      BY <2>6 DEF APIReturns
    <3>3. /\ Cardinality(Judged') = Cardinality(Judged)
          /\ p = "scrape" => Cardinality(Routed') = Cardinality(Routed)
          /\ p = "record" => Cardinality(Routed') = Cardinality(Routed) - 1
          /\ Cardinality(Decided') = Cardinality(Decided)
          /\ \A e : Cardinality(ChargedTo(e)') = Cardinality(ChargedTo(e))
      <4>1. OnlyMoved(w)
        BY <3>1, <3>2 DEF OnlyMoved, PcPlaces, SoakTypes
      <4>2. Recounted(w)
        BY <4>1, Moved
      <4>3. QED
        BY <2>0, <3>1, <3>2, <4>2 DEF Recounted, One, Judging, Routing, Charging, SoakTypes
    <3>4. QED
      BY <2>0, <3>1, <3>2, <3>3 DEF SumInv, KnownStrategy
  <2>7. CASE ScrapeReturns(w)
    <3>1. PICK p \in {"decide", "record"} : pc' = [pc EXCEPT ![w] = p]
      BY <2>7 DEF ScrapeReturns
    <3>2. /\ pc[w] = "scrape" /\ scrape' = scrape + 1
          /\ UNCHANGED <<fallback, endpoint, total, ok, failed, api, decisions, requests,
                         successes, failures>>
      BY <2>7 DEF ScrapeReturns
    <3>3. /\ Cardinality(Judged') = Cardinality(Judged)
          /\ Cardinality(Routed') = Cardinality(Routed) - 1
          /\ Cardinality(Decided') <= Cardinality(Decided) + 1
          /\ Cardinality(Decided') \in Int
          /\ \A e : Cardinality(ChargedTo(e)') = Cardinality(ChargedTo(e))
      <4>1. OnlyMoved(w)
        BY <3>1, <3>2 DEF OnlyMoved, PcPlaces, SoakTypes
      <4>2. Recounted(w)
        BY <4>1, Moved
      <4>3. QED
        BY <2>0, <3>1, <3>2, <4>2 DEF Recounted, One, Judging, Routing, Charging, SoakTypes
    <3>4. QED
      BY <2>0, <3>2, <3>3 DEF SumInv, KnownStrategy
  <2>8. CASE CountDecision(w)
    <3>1. /\ pc[w] = "decide" /\ pc' = [pc EXCEPT ![w] = "record"] /\ decisions' = decisions + 1
          /\ UNCHANGED <<fallback, endpoint, total, ok, failed, api, scrape, requests, successes, failures>>
      BY <2>8 DEF CountDecision
    <3>2. /\ Cardinality(Judged') = Cardinality(Judged)
          /\ Cardinality(Routed') = Cardinality(Routed)
          /\ Cardinality(Decided') = Cardinality(Decided) - 1
          /\ \A e : Cardinality(ChargedTo(e)') = Cardinality(ChargedTo(e))
      <4>1. OnlyMoved(w)
        BY <3>1 DEF OnlyMoved, PcPlaces, SoakTypes
      <4>2. Recounted(w)
        BY <4>1, Moved
      <4>3. QED
        BY <2>0, <3>1, <4>2 DEF Recounted, One, Judging, Routing, Charging, SoakTypes
    <3>3. QED
      BY <2>0, <3>1, <3>2 DEF SumInv, KnownStrategy
  <2>9. CASE Record(w)
    <3>1. /\ pc[w] = "record" /\ pc' = [pc EXCEPT ![w] = "endpoint"]
          /\ \/ ok' = ok + 1 /\ failed' = failed
             \/ ok' = ok /\ failed' = failed + 1
          /\ UNCHANGED <<fallback, endpoint, total, api, scrape, decisions, requests, successes, failures>>
      BY <2>9 DEF Record
    <3>2. /\ Cardinality(Judged') = Cardinality(Judged) - 1
          /\ Cardinality(Routed') = Cardinality(Routed)
          /\ Cardinality(Decided') = Cardinality(Decided)
          /\ \A e : Cardinality(ChargedTo(e)') = Cardinality(ChargedTo(e))
      <4>1. OnlyMoved(w)
        BY <3>1 DEF OnlyMoved, PcPlaces, SoakTypes
      <4>2. Recounted(w)
        BY <4>1, Moved
      <4>3. QED
        BY <2>0, <3>1, <4>2 DEF Recounted, One, Judging, Routing, Charging, SoakTypes
    <3>3. QED
      BY <2>0, <3>1, <3>2 DEF SumInv, KnownStrategy
  <2>10. CASE RecordEndpoint(w)
    <3>1. /\ pc[w] = "endpoint" /\ pc' = [pc EXCEPT ![w] = "loop"] /\ endpoint[w] \in Endpoints
          /\ \A v \in Workers \ {w} : endpoint'[v] = endpoint[v]
          /\ UNCHANGED <<fallback, total, ok, failed, api, scrape, decisions, requests>>
      BY <2>10 DEF RecordEndpoint, SoakTypes
    <3>2. /\ Cardinality(Judged') = Cardinality(Judged)
          /\ Cardinality(Routed') = Cardinality(Routed)
          /\ Cardinality(Decided') = Cardinality(Decided)
          /\ \A e : Cardinality(ChargedTo(e)') = Cardinality(ChargedTo(e)) - One(endpoint[w] = e)
      <4>1. OnlyMoved(w)
        BY <3>1 DEF OnlyMoved, PcPlaces, SoakTypes
      <4>2. Recounted(w)
        BY <4>1, Moved
      <4>3. QED
        BY <2>0, <3>1, <4>2 DEF Recounted, One, Judging, Routing, Charging, SoakTypes
    <3>3. \A e \in Endpoints :
             successes'[e] + failures'[e] = successes[e] + failures[e] + One(endpoint[w] = e)
      BY <2>0, <2>10 DEF RecordEndpoint, One, SoakTypes
    <3>4. ASSUME NEW e \in Endpoints
          PROVE  requests'[e] = successes'[e] + failures'[e] + Cardinality(ChargedTo(e)')
      <4>1. /\ One(endpoint[w] = e) \in Nat /\ requests'[e] = requests[e]
            /\ requests[e] = successes[e] + failures[e] + Cardinality(ChargedTo(e))
        BY <3>1 DEF One, SumInv
      <4>2. Cardinality(ChargedTo(e)') = Cardinality(ChargedTo(e)) - One(endpoint[w] = e)
        BY <3>2
      <4>3. successes'[e] + failures'[e] = successes[e] + failures[e] + One(endpoint[w] = e)
        BY <3>3
      <4>4. QED
        BY <2>0, <4>1, <4>2, <4>3
    <3>5. QED
      BY <2>0, <3>1, <3>2, <3>4 DEF SumInv, KnownStrategy
  <2>11. QED
    BY <1>4, <2>2, <2>3, <2>4, <2>5, <2>6, <2>7, <2>8, <2>9, <2>10 DEF WorkerStep
<1>5. QED
  BY <1>1, <1>2, <1>3, <1>4 DEF SoakNext, RunStep, ProberStep

LEMMA SumHolds == SoakSpec => []SumInv
<1>1. SumInv /\ UNCHANGED soakVars => SumInv'
  BY SumKept DEF soakVars, counters, workerVars, proberVars, control
<1>2. QED
  BY SumInit, SumStep, SoakTypesHold, <1>1, PTL DEF SoakSpec

(* The counters that are printed agree: each request was judged once, in    *)
(* total and at its endpoint, and charged to one source.                    *)
THEOREM PrintedCountersAgree == SoakSpec => []CountersAgree
<1>1. ASSUME SoakTypes, WgInv, SumInv PROVE CountersAgree
  <2> SUFFICES ASSUME main = "printed"
               PROVE  /\ total = ok + failed
                      /\ \A e \in Endpoints : requests[e] = successes[e] + failures[e]
                      /\ KnownStrategy => total = api + scrape
                      /\ decisions <= scrape
    BY DEF CountersAgree, KnownStrategy
  <2>1. \A w \in Workers : pc[w] \in {"new", "off"}
    BY <1>1 DEF WgInv, Running
  <2>2. Judged = {} /\ Routed = {} /\ Decided = {} /\ \A e : ChargedTo(e) = {}
    BY <2>1 DEF Judged, Routed, Decided, ChargedTo, Among, Judging, Routing, Charging
  <2>3. /\ Cardinality(Judged) = 0 /\ Cardinality(Routed) = 0 /\ Cardinality(Decided) = 0
        /\ \A e : Cardinality(ChargedTo(e)) = 0
    BY <2>2, FS_EmptySet
  <2>4. /\ total \in Nat /\ ok \in Nat /\ failed \in Nat
        /\ api \in Nat /\ scrape \in Nat /\ decisions \in Nat
    BY <1>1 DEF SoakTypes
  <2>5. total = ok + failed /\ (KnownStrategy => total = api + scrape) /\ decisions <= scrape
    BY <1>1, <2>3, <2>4 DEF SumInv
  <2>6. ASSUME NEW e \in Endpoints PROVE requests[e] = successes[e] + failures[e]
    <3>1. successes[e] \in Nat /\ failures[e] \in Nat
      BY <1>1 DEF SoakTypes
    <3>2. requests[e] = successes[e] + failures[e] + Cardinality(ChargedTo(e))
      BY <1>1 DEF SumInv
    <3>3. QED
      BY <2>3, <3>1, <3>2
  <2>7. QED
    BY <2>5, <2>6
<1>2. QED
  BY <1>1, SoakTypesHold, WgHolds, SumHolds, PTL

-----------------------------------------------------------------------------
(* The total is ahead of the endpoints' counters by the workers between the *)
(* two additions.                                                           *)
Counting == Among({"count"})
RequestsInAll == SumFunctionOnSet(requests, Endpoints)

CountedInv == total = RequestsInAll + Cardinality(Counting)

LEMMA CountedTypes ==
  ASSUME SoakTypes
  PROVE  /\ IsFiniteSet(Counting) /\ Cardinality(Counting) \in Nat
         /\ RequestsInAll \in Int /\ requests \in [Endpoints -> Int]
<1>1. Counting \subseteq Workers
  BY DEF Counting, Among
<1>2. requests \in [Endpoints -> Int]
  BY DEF SoakTypes
<1>3. QED
  BY <1>1, <1>2, FS_Subset, FS_CardinalityType, SoakWorkersAssumption, EndpointsAssumption,
     SumType DEF RequestsInAll

LEMMA CountedInit == SoakInit => CountedInv
<1> SUFFICES ASSUME SoakInit PROVE CountedInv
  OBVIOUS
<1>1. Counting = {} /\ Cardinality({}) = 0
  BY FS_EmptySet DEF SoakInit, Counting, Among
<1>2. requests \in [Endpoints -> Int] /\ \A e \in Endpoints : requests[e] = 0
  BY DEF SoakInit
<1>3. RequestsInAll = 0
  BY <1>2, SumOfNothing, EndpointsAssumption DEF RequestsInAll
<1>4. QED
  BY <1>1, <1>3 DEF CountedInv, SoakInit

LEMMA CountedStep ==
  ASSUME SoakTypes, CountedInv, SoakNext PROVE CountedInv'
<1> USE DEF counters, workerVars, proberVars, control
<1>1. ASSUME UNCHANGED <<total, requests>>, Counting' = Counting PROVE CountedInv'
  BY <1>1 DEF CountedInv, RequestsInAll
<1>2. ASSUME NEW w \in Workers, NEW p \in PcPlaces, pc' = [pc EXCEPT ![w] = p]
      PROVE  /\ p # "count" /\ pc[w] # "count" => Counting' = Counting
             /\ p = "count" /\ pc[w] # "count" =>
                  Cardinality(Counting') = Cardinality(Counting) + 1
             /\ p # "count" /\ pc[w] = "count" =>
                  Cardinality(Counting') = Cardinality(Counting) - 1
  <2>1. /\ Counting' \ {w} = Counting \ {w}
        /\ w \in Counting' <=> p = "count"
        /\ w \in Counting <=> pc[w] = "count"
    BY <1>2 DEF Counting, Among, SoakTypes
  <2>2. IsFiniteSet(Counting)
    BY CountedTypes
  <2>3. QED
    BY <2>1, <2>2, Differ
<1>3. ASSUME NEW w \in Workers, StartWorker(w) PROVE CountedInv'
  <2>1. pc' = [pc EXCEPT ![w] = "loop"] /\ pc[w] # "count" /\ UNCHANGED <<total, requests>>
    BY <1>3 DEF StartWorker
  <2>2. QED
    BY <1>1, <1>2, <2>1 DEF PcPlaces
<1>4. CASE StartHelpers \/ Stop \/ PrintResults \/ Cancel
  <2>1. UNCHANGED <<total, requests, pc>>
    BY <1>4 DEF StartHelpers, Stop, PrintResults, Cancel
  <2>2. QED
    BY <1>1, <2>1 DEF Counting, Among
<1>5. CASE ProberStep \/ \E h \in Helpers : HelperReturns(h)
  <2>1. UNCHANGED <<total, requests, pc>>
    BY <1>5 DEF ProberStep, BeginRound, Validate, ProberReturns, HelperReturns
  <2>2. QED
    BY <1>1, <2>1 DEF Counting, Among
<1>6. ASSUME NEW w \in Workers, WorkerStep(w) PROVE CountedInv'
  <2>1. CASE Token(w)
    <3>1. pc' = [pc EXCEPT ![w] = "count"] /\ pc[w] = "limit" /\ total' = total + 1
          /\ UNCHANGED requests
      BY <2>1 DEF Token
    <3>2. Cardinality(Counting') = Cardinality(Counting) + 1
      BY <1>2, <3>1 DEF PcPlaces
    <3>3. RequestsInAll' = RequestsInAll
      BY <3>1 DEF RequestsInAll
    <3>4. QED
      BY <3>1, <3>2, <3>3, CountedTypes DEF CountedInv
  <2>2. CASE CountEndpoint(w)
    <3>1. pc[w] = "count" /\ UNCHANGED total
          /\ \E p \in PcPlaces \ {"count"} : pc' = [pc EXCEPT ![w] = p]
      <4>1. Source(endpoint[w]) \in PcPlaces \ {"count"}
        BY DEF Source, PcPlaces
      <4>2. QED
        BY <2>2, <4>1 DEF CountEndpoint
    <3>2. Cardinality(Counting') = Cardinality(Counting) - 1
      BY <1>2, <3>1
    <3>3. /\ endpoint[w] \in Endpoints
          /\ requests' = [requests EXCEPT ![endpoint[w]] = @ + 1]
      BY <2>2 DEF CountEndpoint, SoakTypes
    <3>4. /\ requests' \in [Endpoints -> Int]
          /\ requests'[endpoint[w]] = requests[endpoint[w]] + 1
          /\ \A e \in Endpoints \ {endpoint[w]} : requests'[e] = requests[e]
      BY <3>3, CountedTypes
    <3>5. RequestsInAll' = RequestsInAll + 1
      BY <3>3, <3>4, CountedTypes, SumOneMore, EndpointsAssumption DEF RequestsInAll
    <3>6. QED
      BY <3>1, <3>2, <3>5, CountedTypes DEF CountedInv
  <2>3. CASE ~ Token(w) /\ ~ CountEndpoint(w)
    <3>1. UNCHANGED <<total, requests>> /\ pc[w] # "count"
          /\ \E p \in PcPlaces \ {"count"} : pc' = [pc EXCEPT ![w] = p]
      BY <1>6, <2>3 DEF WorkerStep, Pick, Leave, NoToken, ReturnFrom, APIReturns, ScrapeReturns,
         CountDecision, Record, RecordEndpoint, PcPlaces
    <3>2. QED
      BY <1>1, <1>2, <3>1
  <2>4. QED
    BY <2>1, <2>2, <2>3
<1>7. QED
  BY <1>3, <1>4, <1>5, <1>6 DEF SoakNext, RunStep

LEMMA CountedHolds == SoakSpec => []CountedInv
<1>1. CountedInv /\ UNCHANGED soakVars => CountedInv'
  BY DEF CountedInv, RequestsInAll, Counting, Among, soakVars, counters, workerVars,
     proberVars, control
<1>2. QED
  BY CountedInit, CountedStep, SoakTypesHold, <1>1, PTL DEF SoakSpec

(* The two sets of counters that are printed, the totals and the map of the *)
(* endpoints, missed no request: the one is the sum of the other, for every *)
(* number of workers and endpoints.                                         *)
THEOREM TheTotalIsTheSum == SoakSpec => []ResultsAddUp
<1>1. ASSUME SoakTypes, WgInv, CountedInv, main = "printed"
      PROVE  total = MapThenSumSet(LAMBDA e : requests[e], Endpoints)
  <2>1. \A w \in Workers : pc[w] \in {"new", "off"}
    BY <1>1 DEF WgInv, Running
  <2>2. Counting = {} /\ Cardinality({}) = 0
    BY <2>1, FS_EmptySet DEF Counting, Among
  <2>3. total = RequestsInAll
    BY <1>1, <2>2, CountedTypes DEF CountedInv
  <2>4. RequestsInAll = MapThenSumSet(LAMBDA e : requests[e], Endpoints)
    BY DEF RequestsInAll, SumFunctionOnSet, FoldFunctionOnSet, MapThenSumSet, MapThenFoldSet
  <2>5. QED
    BY <2>3, <2>4
<1>2. SoakTypes /\ WgInv /\ CountedInv /\ CountersAgree => ResultsAddUp
  BY <1>1 DEF ResultsAddUp
<1>3. QED
  BY <1>2, PrintedCountersAgree, SoakTypesHold, WgHolds, CountedHolds, PTL

-----------------------------------------------------------------------------
(* Batch.                                                                   *)


Under == {"look", "fetch", "write"}
Summing == {"sum", "incr"}
Summed == {"added", "off"}
Holding == Under \cup {"add"} \cup Summing \cup {"added"}

BatchTypes ==
  /\ maxWorkers \in Nat
  /\ next \in Nat \ {0}
  /\ at \in [Tickers -> {"none", "off"} \cup Holding]
  /\ command \in [Tickers -> 1..Len(Commands)]
  /\ outcomes \in [Tickers -> Seq(Fates)]
  /\ counted \in [Tickers -> Nat] /\ register \in [Tickers -> Nat]
  /\ mutex \in {0} \cup Tickers
  /\ totals \in [Fates -> Nat]

(* What a worker has an outcome for, the commands before the one it is at   *)
(* or all of them, and how many of them it has added.                       *)
WorkerInv ==
  \A w \in Tickers :
    /\ w >= next => at[w] = "none"
    /\ at[w] = "none" => outcomes[w] = <<>> /\ command[w] = 1
    /\ at[w] \in Under => Len(outcomes[w]) = command[w] - 1
    /\ at[w] \in {"add"} \cup Summing \cup Summed => Len(outcomes[w]) = Len(Commands)
    /\ at[w] \in {"none", "add"} \cup Under => counted[w] = 0
    /\ at[w] \in Summing => counted[w] <= Len(Commands)
    /\ at[w] = "incr" => counted[w] < Len(Commands)
    /\ at[w] \in Summed => counted[w] = Len(Commands)

(* The mutex is the one's who is summing, and what that one has read is     *)
(* what is still there.                                                     *)
MutexInv ==
  \A w \in Tickers :
    /\ at[w] \in Summing <=> mutex = w
    /\ at[w] = "incr" => register[w] = totals[ToAdd(w)]

(* The slots taken are those of the workers that have not returned, and a   *)
(* total is as many outcomes of its kind as were added.                     *)
Working == {w \in Tickers : at[w] \in Holding}

SlotsInv == slots = Cardinality(Working) /\ slots <= maxWorkers
SumsInv == \A o \in Fates : totals[o] = Cardinality(Counted(o))
DoneInv == batch = "done" => \A w \in Tickers : at[w] = "off"

BatchInv == BatchTypes /\ WorkerInv /\ MutexInv /\ SlotsInv /\ SumsInv /\ DoneInv

LEMMA TickersFinite == IsFiniteSet(Tickers) /\ IsFiniteSet(1..Len(Commands))
BY FS_Interval, ListsAssumption DEF Tickers

LEMMA WorkingFinite == IsFiniteSet(Working) /\ Cardinality(Working) \in Nat
<1>1. Working \subseteq Tickers
  BY DEF Working
<1>2. QED
  BY <1>1, TickersFinite, FS_Subset, FS_CardinalityType

LEMMA CountedFinite ==
  ASSUME NEW o PROVE IsFiniteSet(Counted(o)) /\ Cardinality(Counted(o)) \in Nat
<1>1. IsFiniteSet(Tickers \X (1..Len(Commands)))
  BY TickersFinite, FS_Product
<1>2. Counted(o) \subseteq Tickers \X (1..Len(Commands))
  BY DEF Counted
<1>3. QED
  BY <1>1, <1>2, FS_Subset, FS_CardinalityType

-----------------------------------------------------------------------------
(* A process begins, and ends, with nothing in its memory.                  *)
LEMMA AnewKeeps ==
  ASSUME Anew, maxWorkers' \in Nat, batch' # "done" PROVE BatchInv'
<1>1. /\ at' = [w \in Tickers |-> "none"] /\ command' = [w \in Tickers |-> 1]
      /\ outcomes' = NoWork /\ next' = 1 /\ slots' = 0
      /\ counted' = [w \in Tickers |-> 0] /\ register' = [w \in Tickers |-> 0]
      /\ mutex' = 0 /\ totals' = [o \in Fates |-> 0]
  BY DEF Anew
<1>2. BatchTypes'
  BY <1>1, ListsAssumption DEF BatchTypes, NoWork, Holding
<1>3. WorkerInv'
  BY <1>1 DEF WorkerInv, NoWork, Under, Summing, Summed
<1>4. MutexInv'
  BY <1>1 DEF MutexInv, Summing, Tickers
<1>5. Working' = {}
  BY <1>1 DEF Working, Holding, Under, Summing
<1>6. SlotsInv'
  BY <1>1, <1>5, FS_EmptySet DEF SlotsInv
<1>7. \A o : Counted(o)' = {}
  BY <1>1 DEF Counted
<1>8. SumsInv'
  BY <1>1, <1>7, FS_EmptySet DEF SumsInv
<1>9. QED
  BY <1>2, <1>3, <1>4, <1>6, <1>8 DEF BatchInv, DoneInv

LEMMA BatchInvInit == BatchInit => BatchInv
<1> SUFFICES ASSUME BatchInit PROVE BatchInv
  OBVIOUS
<1>1. maxWorkers \in Nat
  BY SlotsAssumption DEF BatchInit
<1>2. BatchTypes
  BY <1>1, ListsAssumption DEF BatchInit, BatchTypes, NoWork, Holding
<1>3. WorkerInv
  BY DEF BatchInit, WorkerInv, NoWork, Under, Summing, Summed
<1>4. MutexInv
  BY DEF BatchInit, MutexInv, Summing, Tickers
<1>5. Working = {}
  BY DEF BatchInit, Working, Holding, Under, Summing
<1>6. SlotsInv
  BY <1>1, <1>5, FS_EmptySet DEF BatchInit, SlotsInv
<1>7. \A o : Counted(o) = {}
  BY DEF BatchInit, Counted
<1>8. SumsInv
  BY <1>7, FS_EmptySet DEF BatchInit, SumsInv
<1>9. QED
  BY <1>2, <1>3, <1>4, <1>6, <1>8 DEF BatchInit, BatchInv, DoneInv

-----------------------------------------------------------------------------
(* A worker that does not return keeps its slot, and one that touches       *)
(* neither a total nor what it has added keeps the sums.                    *)
Stays(w, where) ==
  /\ at[w] \in Holding /\ where \in Holding
  /\ at' = [at EXCEPT ![w] = where]
  /\ batch \in {"dispatch", "wait"}
  /\ UNCHANGED <<maxWorkers, next, slots, batch>>

LEMMA StaysKeeps ==
  ASSUME BatchTypes, SlotsInv, NEW w \in Tickers, NEW where, Stays(w, where)
  PROVE  SlotsInv' /\ DoneInv'
<1>1. Working' = Working
  BY DEF Stays, BatchTypes, Working
<1>2. QED
  BY <1>1 DEF Stays, SlotsInv, DoneInv

LEMMA ConcludeKeeps ==
  ASSUME BatchInv, NEW w \in Tickers, NEW outcome \in Fates,
         at[w] \in Under, batch \in {"dispatch", "wait"}, Conclude(w, outcome)
  PROVE  BatchInv'
<1>1. /\ outcomes[w] \in Seq(Fates) /\ Len(outcomes[w]) = command[w] - 1
      /\ command[w] \in 1..Len(Commands) /\ counted[w] = 0 /\ mutex # w /\ ~ (w >= next)
  BY DEF BatchInv, BatchTypes, WorkerInv, MutexInv, Under, Summing
<1>2. /\ Append(outcomes[w], outcome) \in Seq(Fates)
      /\ Len(Append(outcomes[w], outcome)) = command[w]
  BY <1>1
<1>3. /\ outcomes' = [outcomes EXCEPT ![w] = Append(outcomes[w], outcome)]
      /\ UNCHANGED <<maxWorkers, batch, next, slots, counted, register, mutex, totals>>
  BY DEF Conclude, settings, shared
<1>4. outcomes' \in [Tickers -> Seq(Fates)] /\ Len(outcomes'[w]) = command[w]
  BY <1>2, <1>3 DEF BatchInv, BatchTypes
<1>5. PICK where \in {"look", "add"} :
        /\ at' = [at EXCEPT ![w] = where]
        /\ where = "look" => /\ command[w] < Len(Commands)
                             /\ command' = [command EXCEPT ![w] = @ + 1]
        /\ where = "add" => command[w] = Len(Commands) /\ command' = command
  BY <1>1, ListsAssumption DEF Conclude
<1>6. command' \in [Tickers -> 1..Len(Commands)]
  <2>1. command \in [Tickers -> 1..Len(Commands)]
    BY DEF BatchInv, BatchTypes
  <2>2. CASE where = "look"
    <3>1. command[w] + 1 \in 1..Len(Commands)
      BY <1>1, <1>5, <2>2, ListsAssumption
    <3>2. QED
      BY <1>5, <2>1, <2>2, <3>1
  <2>3. CASE where = "add"
    BY <1>5, <2>1, <2>3
  <2>4. QED
    BY <2>2, <2>3
<1>7. BatchTypes'
  BY <1>3, <1>4, <1>5, <1>6 DEF BatchInv, BatchTypes, Holding, Under
<1>8. WorkerInv'
  <2> SUFFICES ASSUME NEW v \in Tickers
               PROVE  /\ v >= next' => at'[v] = "none"
                      /\ at'[v] = "none" => outcomes'[v] = <<>> /\ command'[v] = 1
                      /\ at'[v] \in Under => Len(outcomes'[v]) = command'[v] - 1
                      /\ at'[v] \in {"add"} \cup Summing \cup Summed
                           => Len(outcomes'[v]) = Len(Commands)
                      /\ at'[v] \in {"none", "add"} \cup Under => counted'[v] = 0
                      /\ at'[v] \in Summing => counted'[v] <= Len(Commands)
                      /\ at'[v] = "incr" => counted'[v] < Len(Commands)
                      /\ at'[v] \in Summed => counted'[v] = Len(Commands)
    BY DEF WorkerInv
  <2>1. CASE v = w
    BY <1>1, <1>3, <1>4, <1>5, <2>1 DEF BatchInv, BatchTypes, Under, Summing, Summed
  <2>2. CASE v # w
    BY <1>3, <1>5, <2>2 DEF BatchInv, BatchTypes, WorkerInv
  <2>3. QED
    BY <2>1, <2>2
<1>9. MutexInv'
  BY <1>1, <1>3, <1>5 DEF BatchInv, BatchTypes, MutexInv, Summing, ToAdd
<1>10. SlotsInv' /\ DoneInv'
  <2>1. Stays(w, where)
    BY <1>3, <1>5 DEF Stays, Holding, Under
  <2>2. QED
    BY <2>1, StaysKeeps DEF BatchInv
<1>11. SumsInv'
  <2>1. \A o : Counted(o)' = Counted(o)
    BY <1>1, <1>3 DEF Counted, BatchInv, BatchTypes
  <2>2. QED
    BY <1>3, <2>1 DEF BatchInv, SumsInv
<1>12. QED
  BY <1>7, <1>8, <1>9, <1>10, <1>11 DEF BatchInv

LEMMA MovesKeeps ==
  ASSUME BatchInv, NEW w \in Tickers, NEW where \in Under,
         at[w] \in Under, batch \in {"dispatch", "wait"}, Moves(w, where)
  PROVE  BatchInv'
<1>1. /\ at' = [at EXCEPT ![w] = where]
      /\ UNCHANGED <<maxWorkers, batch, next, slots, command, outcomes, counted, register,
                     mutex, totals>>
  BY DEF Moves, settings, shared
<1>2. BatchTypes'
  BY <1>1 DEF BatchInv, BatchTypes, Holding
<1>3. WorkerInv'
  BY <1>1 DEF BatchInv, BatchTypes, WorkerInv, Under, Summing, Summed
<1>4. MutexInv'
  BY <1>1 DEF BatchInv, BatchTypes, MutexInv, Under, Summing, ToAdd
<1>5. SlotsInv' /\ DoneInv'
  <2>1. Stays(w, where)
    BY <1>1 DEF Stays, Holding
  <2>2. QED
    BY <2>1, StaysKeeps DEF BatchInv
<1>6. SumsInv'
  BY <1>1 DEF BatchInv, SumsInv, Counted
<1>7. QED
  BY <1>2, <1>3, <1>4, <1>5, <1>6 DEF BatchInv

LEMMA DispatchKeeps ==
  ASSUME BatchInv, Dispatch PROVE BatchInv'
<1>1. /\ next \in Tickers /\ at[next] = "none" /\ counted[next] = 0
      /\ outcomes[next] = <<>> /\ command[next] = 1 /\ mutex # next
  BY ListsAssumption DEF BatchInv, BatchTypes, WorkerInv, MutexInv, Dispatch, Tickers, Summing
<1>2. /\ at' = [at EXCEPT ![next] = "look"] /\ next' = next + 1 /\ slots' = slots + 1
      /\ slots < maxWorkers /\ batch = "dispatch"
      /\ UNCHANGED <<maxWorkers, batch, command, outcomes, counted, register, mutex, totals>>
  BY DEF Dispatch, settings, shared
<1>3. BatchTypes'
  BY <1>1, <1>2 DEF BatchInv, BatchTypes, Holding, Under
<1>4. WorkerInv'
  <2> SUFFICES ASSUME NEW v \in Tickers
               PROVE  /\ v >= next' => at'[v] = "none"
                      /\ at'[v] = "none" => outcomes'[v] = <<>> /\ command'[v] = 1
                      /\ at'[v] \in Under => Len(outcomes'[v]) = command'[v] - 1
                      /\ at'[v] \in {"add"} \cup Summing \cup Summed
                           => Len(outcomes'[v]) = Len(Commands)
                      /\ at'[v] \in {"none", "add"} \cup Under => counted'[v] = 0
                      /\ at'[v] \in Summing => counted'[v] <= Len(Commands)
                      /\ at'[v] = "incr" => counted'[v] < Len(Commands)
                      /\ at'[v] \in Summed => counted'[v] = Len(Commands)
    BY DEF WorkerInv
  <2>1. CASE v = next
    BY <1>1, <1>2, <2>1 DEF BatchInv, BatchTypes, Tickers, Under, Summing, Summed
  <2>2. CASE v # next
    BY <1>2, <2>2 DEF BatchInv, BatchTypes, WorkerInv, Tickers
  <2>3. QED
    BY <2>1, <2>2
<1>5. MutexInv'
  BY <1>1, <1>2 DEF BatchInv, BatchTypes, MutexInv, Summing, ToAdd
<1>6. SlotsInv'
  <2>1. Working' = Working \cup {next} /\ next \notin Working
    BY <1>1, <1>2 DEF BatchInv, BatchTypes, Working, Holding, Under, Summing
  <2>2. Cardinality(Working') = Cardinality(Working) + 1
    BY <2>1, WorkingFinite, FS_AddElement
  <2>3. QED
    BY <1>2, <2>2, WorkingFinite DEF BatchInv, BatchTypes, SlotsInv
<1>7. SumsInv'
  BY <1>2 DEF BatchInv, SumsInv, Counted
<1>8. QED
  BY <1>2, <1>3, <1>4, <1>5, <1>6, <1>7 DEF BatchInv, DoneInv

-----------------------------------------------------------------------------
(* The totals.                                                              *)
LEMMA LockKeeps ==
  ASSUME BatchInv, NEW w \in Tickers, LockTotals(w) PROVE BatchInv'
<1>1. /\ at[w] = "add" /\ mutex = 0 /\ batch \in {"dispatch", "wait"}
      /\ at' = [at EXCEPT ![w] = "sum"] /\ mutex' = w
      /\ UNCHANGED <<maxWorkers, batch, next, slots, command, outcomes, counted, register,
                     totals>>
  BY DEF LockTotals, MutexFree, Totals, At, settings
<1>2. BatchTypes'
  BY <1>1 DEF BatchInv, BatchTypes, Holding, Summing
<1>3. WorkerInv'
  BY <1>1, ListsAssumption DEF BatchInv, BatchTypes, WorkerInv, Under, Summing, Summed
<1>4. MutexInv'
  BY <1>1 DEF BatchInv, BatchTypes, MutexInv, Summing, ToAdd, Tickers
<1>5. SlotsInv' /\ DoneInv'
  <2>1. Stays(w, "sum")
    BY <1>1 DEF Stays, Holding, Summing
  <2>2. QED
    BY <2>1, StaysKeeps DEF BatchInv
<1>6. SumsInv'
  BY <1>1 DEF BatchInv, SumsInv, Counted
<1>7. QED
  BY <1>2, <1>3, <1>4, <1>5, <1>6 DEF BatchInv

LEMMA Addable ==
  ASSUME BatchInv, NEW w \in Tickers, at[w] \in Summing, counted[w] < Len(Commands)
  PROVE  /\ counted[w] + 1 \in 1..Len(Commands) /\ ToAdd(w) \in Fates
         /\ totals[ToAdd(w)] \in Nat
<1>1. outcomes[w] \in Seq(Fates) /\ Len(outcomes[w]) = Len(Commands) /\ counted[w] \in Nat
  BY DEF BatchInv, BatchTypes, WorkerInv
<1>2. counted[w] + 1 \in 1..Len(outcomes[w])
  BY <1>1, ListsAssumption
<1>3. outcomes[w][counted[w] + 1] \in Fates
  BY <1>1, <1>2
<1>4. QED
  BY <1>1, <1>2, <1>3 DEF ToAdd, BatchInv, BatchTypes

LEMMA ReadKeeps ==
  ASSUME BatchInv, NEW w \in Tickers, ReadTotal(w) PROVE BatchInv'
<1>1. /\ at[w] = "sum" /\ batch \in {"dispatch", "wait"}
      /\ at' = [at EXCEPT ![w] = "incr"]
      /\ register' = [register EXCEPT ![w] = totals[ToAdd(w)]]
      /\ UNCHANGED <<maxWorkers, batch, next, slots, command, outcomes, counted, mutex, totals>>
  BY DEF ReadTotal, Totals, At, settings, shared
<1>2. counted[w] < Len(Commands) /\ at[w] \in Summing
  BY <1>1 DEF ReadTotal, BatchInv, WorkerInv, Summing
<1>3. totals[ToAdd(w)] \in Nat
  BY <1>2, Addable
<1>4. BatchTypes'
  BY <1>1, <1>3 DEF BatchInv, BatchTypes, Holding, Summing
<1>5. WorkerInv'
  BY <1>1, <1>2 DEF BatchInv, BatchTypes, WorkerInv, Under, Summing, Summed
<1>6. MutexInv'
  BY <1>1 DEF BatchInv, BatchTypes, MutexInv, Summing, ToAdd
<1>7. SlotsInv' /\ DoneInv'
  <2>1. Stays(w, "incr")
    BY <1>1 DEF Stays, Holding, Summing
  <2>2. QED
    BY <2>1, StaysKeeps DEF BatchInv
<1>8. SumsInv'
  BY <1>1 DEF BatchInv, SumsInv, Counted
<1>9. QED
  BY <1>4, <1>5, <1>6, <1>7, <1>8 DEF BatchInv

LEMMA WriteKeeps ==
  ASSUME BatchInv, NEW w \in Tickers, WriteTotal(w) PROVE BatchInv'
<1>1. /\ at[w] = "incr" /\ batch \in {"dispatch", "wait"}
      /\ at' = [at EXCEPT ![w] = "sum"]
      /\ totals' = [totals EXCEPT ![ToAdd(w)] = register[w] + 1]
      /\ counted' = [counted EXCEPT ![w] = @ + 1]
      /\ register' = [register EXCEPT ![w] = 0]
      /\ UNCHANGED <<maxWorkers, batch, next, slots, command, outcomes, mutex>>
  BY DEF WriteTotal, Totals, At, settings
<1>2. /\ counted[w] < Len(Commands) /\ counted[w] \in Nat /\ at[w] \in Summing
      /\ register[w] = totals[ToAdd(w)] /\ mutex = w
  BY <1>1 DEF BatchInv, BatchTypes, WorkerInv, MutexInv, Summing
<1>3. /\ counted[w] + 1 \in 1..Len(Commands) /\ ToAdd(w) \in Fates
      /\ totals[ToAdd(w)] \in Nat
  BY <1>2, Addable
<1>4. BatchTypes'
  BY <1>1, <1>2, <1>3 DEF BatchInv, BatchTypes, Holding, Summing
<1>5. WorkerInv'
  BY <1>1, <1>2, ListsAssumption
     DEF BatchInv, BatchTypes, WorkerInv, Under, Summing, Summed
<1>6. MutexInv'
  <2>1. \A v \in Tickers \ {w} : at[v] \notin Summing
    BY <1>2 DEF BatchInv, MutexInv
  <2>2. QED
    BY <1>1, <1>2, <2>1 DEF BatchInv, BatchTypes, MutexInv, Summing
<1>7. SlotsInv' /\ DoneInv'
  <2>1. Stays(w, "sum")
    BY <1>1 DEF Stays, Holding, Summing
  <2>2. QED
    BY <2>1, StaysKeeps DEF BatchInv
<1>8. SumsInv'
  <2> SUFFICES ASSUME NEW o \in Fates PROVE totals'[o] = Cardinality(Counted(o)')
    BY DEF SumsInv
  <2> DEFINE new == <<w, counted[w] + 1>>
  <2>1. CASE o = ToAdd(w)
    <3>1. Counted(o)' = Counted(o) \cup {new}
      BY <1>1, <1>2, <1>3, <2>1 DEF Counted, ToAdd, BatchInv, BatchTypes
    <3>2. new \notin Counted(o)
      BY <1>2 DEF Counted
    <3>3. Cardinality(Counted(o)') = Cardinality(Counted(o)) + 1
      BY <3>1, <3>2, CountedFinite, FS_AddElement
    <3>4. totals'[o] = totals[o] + 1
      BY <1>1, <1>2, <1>3, <2>1 DEF BatchInv, BatchTypes
    <3>5. QED
      BY <3>3, <3>4 DEF BatchInv, SumsInv
  <2>2. CASE o # ToAdd(w)
    <3>1. Counted(o)' = Counted(o)
      BY <1>1, <1>2, <1>3, <2>2 DEF Counted, ToAdd, BatchInv, BatchTypes
    <3>2. totals'[o] = totals[o]
      BY <1>1, <2>2 DEF BatchInv, BatchTypes
    <3>3. QED
      BY <3>1, <3>2 DEF BatchInv, SumsInv
  <2>3. QED
    BY <2>1, <2>2
<1>9. QED
  BY <1>4, <1>5, <1>6, <1>7, <1>8 DEF BatchInv

LEMMA UnlockKeeps ==
  ASSUME BatchInv, NEW w \in Tickers, UnlockTotals(w) PROVE BatchInv'
<1>1. /\ at[w] = "sum" /\ batch \in {"dispatch", "wait"}
      /\ at' = [at EXCEPT ![w] = "added"] /\ mutex' = 0
      /\ UNCHANGED <<maxWorkers, batch, next, slots, command, outcomes, counted, register,
                     totals>>
  BY DEF UnlockTotals, Totals, At, settings
<1>2. counted[w] = Len(Commands) /\ mutex = w
  BY <1>1 DEF UnlockTotals, BatchInv, WorkerInv, MutexInv, Summing
<1>3. BatchTypes'
  BY <1>1 DEF BatchInv, BatchTypes, Holding
<1>4. WorkerInv'
  BY <1>1, <1>2 DEF BatchInv, BatchTypes, WorkerInv, Under, Summing, Summed
<1>5. MutexInv'
  <2>1. \A v \in Tickers \ {w} : at[v] \notin Summing
    BY <1>2 DEF BatchInv, MutexInv
  <2>2. QED
    BY <1>1, <2>1 DEF BatchInv, BatchTypes, MutexInv, Summing, Tickers
<1>6. SlotsInv' /\ DoneInv'
  <2>1. Stays(w, "added")
    BY <1>1 DEF Stays, Holding, Summing
  <2>2. QED
    BY <2>1, StaysKeeps DEF BatchInv
<1>7. SumsInv'
  BY <1>1 DEF BatchInv, SumsInv, Counted
<1>8. QED
  BY <1>3, <1>4, <1>5, <1>6, <1>7 DEF BatchInv

LEMMA DoneKeeps ==
  ASSUME BatchInv, NEW w \in Tickers, Done(w) PROVE BatchInv'
<1>1. /\ at[w] = "added" /\ batch \in {"dispatch", "wait"}
      /\ at' = [at EXCEPT ![w] = "off"] /\ slots' = slots - 1
      /\ UNCHANGED <<maxWorkers, batch, next, command, outcomes, counted, register, mutex,
                     totals>>
  BY DEF Done, GiveBack, Totals, At, settings, shared
<1>2. BatchTypes'
  BY <1>1 DEF BatchInv, BatchTypes
<1>3. WorkerInv'
  BY <1>1 DEF BatchInv, BatchTypes, WorkerInv, Under, Summing, Summed
<1>4. MutexInv'
  BY <1>1 DEF BatchInv, BatchTypes, MutexInv, Summing, ToAdd
<1>5. SlotsInv'
  <2>1. Working' = Working \ {w} /\ w \in Working
    BY <1>1 DEF BatchInv, BatchTypes, Working, Holding, Under, Summing
  <2>2. Cardinality(Working') = Cardinality(Working) - 1
    BY <2>1, WorkingFinite, FS_RemoveElement
  <2>3. QED
    BY <1>1, <2>2, WorkingFinite DEF BatchInv, BatchTypes, SlotsInv
<1>6. SumsInv'
  BY <1>1 DEF BatchInv, SumsInv, Counted
<1>7. QED
  BY <1>1, <1>2, <1>3, <1>4, <1>5, <1>6 DEF BatchInv, DoneInv

-----------------------------------------------------------------------------
(* What is not a worker's step leaves the workers alone or begins anew.     *)
LEMMA MainKeeps ==
  ASSUME BatchInv, UNCHANGED <<maxWorkers, next, slots, workerState, shared>>,
         batch' = "done" => batch = "done" \/ \A w \in Tickers : at[w] = "off"
  PROVE  BatchInv'
<1>1. UNCHANGED <<maxWorkers, next, slots, at, command, outcomes, counted, register, mutex,
                  totals>>
  BY DEF workerState, shared
<1>2. BatchTypes' /\ WorkerInv'
  BY <1>1 DEF BatchInv, BatchTypes, WorkerInv
<1>3. MutexInv' /\ SlotsInv'
  BY <1>1 DEF BatchInv, MutexInv, SlotsInv, ToAdd, Working
<1>4. SumsInv' /\ DoneInv'
  BY <1>1 DEF BatchInv, SumsInv, Counted, DoneInv
<1>5. QED
  BY <1>2, <1>3, <1>4 DEF BatchInv

LEMMA BatchInvNext == BatchInv /\ [BatchNext]_batchVars => BatchInv'
<1> SUFFICES ASSUME BatchInv, [BatchNext]_batchVars PROVE BatchInv'
  OBVIOUS
<1>1. CASE Start \/ Crash \/ \E w \in Tickers : Panic(w)
  <2>1. Anew /\ maxWorkers' = maxWorkers /\ batch' # "done"
    BY <1>1 DEF Start, Crash, Panic, Dies, settings
  <2>2. QED
    BY <2>1, AnewKeeps DEF BatchInv, BatchTypes
<1>2. CASE Dispatch
  BY <1>2, DispatchKeeps
<1>3. CASE AllDispatched \/ Finish \/ Midnight
  <2>1. /\ UNCHANGED <<maxWorkers, next, slots, workerState, shared>>
        /\ batch' = "done" => batch = "done" \/ \A w \in Tickers : at[w] = "off"
    BY <1>3 DEF AllDispatched, Finish, Midnight, settings
  <2>2. QED
    BY <2>1, MainKeeps
<1>4. ASSUME NEW w \in Tickers, WorkStep(w), ~ Panic(w) PROVE BatchInv'
  <2>1. CASE Skip(w) \/ NotFetched(w) \/ WriteFile(w)
    <3>1. at[w] \in Under /\ batch \in {"dispatch", "wait"}
      BY <2>1 DEF Skip, NotFetched, WriteFile, At, Under
    <3>2. PICK outcome \in Fates : Conclude(w, outcome)
      BY <2>1 DEF Skip, NotFetched, WriteFile, Fates
    <3>3. QED
      BY <3>1, <3>2, ConcludeKeeps
  <2>2. CASE Refetch(w) \/ Fetched(w) \/ FetchAgain(w)
    <3>1. at[w] \in Under /\ batch \in {"dispatch", "wait"}
      BY <2>2 DEF Refetch, Fetched, FetchAgain, At, Under
    <3>2. PICK where \in Under : Moves(w, where)
      BY <2>2 DEF Refetch, Fetched, FetchAgain, Under
    <3>3. QED
      BY <3>1, <3>2, MovesKeeps
  <2>3. CASE LockTotals(w) \/ ReadTotal(w) \/ WriteTotal(w) \/ UnlockTotals(w) \/ Done(w)
    BY <2>3, LockKeeps, ReadKeeps, WriteKeeps, UnlockKeeps, DoneKeeps
  <2>4. QED
    BY <1>4, <2>1, <2>2, <2>3 DEF WorkStep
<1>5. CASE UNCHANGED batchVars
  <2>1. UNCHANGED <<maxWorkers, next, slots, workerState, shared, batch>>
    BY <1>5 DEF batchVars, settings
  <2>2. QED
    BY <2>1, MainKeeps
<1>6. QED
  BY <1>1, <1>2, <1>3, <1>4, <1>5 DEF BatchNext, MainStep

LEMMA BatchInvariance == BatchSpec => []BatchInv
BY BatchInvInit, BatchInvNext, PTL DEF BatchSpec

-----------------------------------------------------------------------------
(* The totals of a finished run are those of all its workers' outcomes,     *)
(* each counted once, however the workers overlap: a total is read and      *)
(* written by the holder of the mutex only, so that what it has read is     *)
(* still there when it writes.                                              *)
THEOREM EveryCommandIsCounted == BatchSpec => []TotalsAddUp
<1>1. BatchInv => TotalsAddUp
  <2> SUFFICES ASSUME BatchInv, batch = "done"
               PROVE  /\ \A w \in Tickers : /\ Len(outcomes[w]) = Len(Commands)
                                            /\ counted[w] = Len(Commands)
                      /\ \A o \in Fates : totals[o] = Cardinality(Counted(o))
    BY DEF TotalsAddUp
  <2>1. \A w \in Tickers : at[w] = "off"
    BY DEF BatchInv, DoneInv
  <2>2. QED
    BY <2>1 DEF BatchInv, WorkerInv, SumsInv, Summed
<1>2. QED
  BY <1>1, BatchInvariance, PTL

(* The semaphore holds: never more than --max-workers tickers are worked    *)
(* on, and a slot is taken for each that is and for no other.               *)
THEOREM WorkersHoldSlots ==
  BatchSpec => [](slots = Cardinality(Working) /\ Cardinality(Working) <= maxWorkers)
<1>1. BatchInv => slots = Cardinality(Working) /\ Cardinality(Working) <= maxWorkers
  BY DEF BatchInv, SlotsInv
<1>2. QED
  BY <1>1, BatchInvariance, PTL
=============================================================================
