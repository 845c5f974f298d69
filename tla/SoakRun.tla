------------------------------ MODULE SoakRun ------------------------------
(***************************************************************************)
(* The soak test of internal/soak: Orchestrator.Run starts helpers and     *)
(* workers, waits for the duration or the context, closes stopCh, waits    *)
(* for all of them and prints the counters they have been adding to.  A    *)
(* worker takes a token, picks an endpoint and executes it through the API *)
(* or by scraping, under the fallback strategy; a prober compares the two  *)
(* sources for a sample of tickers.  pc[w]:                                *)
(*                                                                         *)
(*   "new"     not started                 "scrape"   in executeScrape... *)
(*   "loop"    at the select               "decide"   back with a fallback *)
(*   "limit"   in rateLimiter.Wait         "record"   before the ending   *)
(*   "count"   TotalRequests added         "endpoint" before the endpoint's*)
(*   "api"     in executeAPIRequest        "off"      returned             *)
(*                                                                         *)
(* The counters are atomic or locked one by one, so each addition is a     *)
(* step; latencies and the counters of single kinds of errors are left     *)
(* out, and so are the failure server, which no client is pointed at, and  *)
(* the periodic logs.  External: the limiter (golang.org/x/time/rate) and  *)
(* the client, which give a token or an error, an answer or an error.      *)
(* MaxRequests bounds the requests a worker begins, MaxRounds the rounds   *)
(* of the prober.                                                          *)
(***************************************************************************)
EXTENDS Integers, FiniteSets, FiniteSetsExt

CONSTANTS Workers,
          Helpers,       \* "monitor" (under MemoryCheck), "metrics"
          Endpoints,     \* SoakConfig.Endpoints, parsed but not validated
          Strategies,    \* what SoakConfig.Fallback may be
          SampleSize,    \* minInt(10, len(tickers))
          Probes,        \* probes of ValidateTicker (5 in the code)
          MaxRequests, MaxRounds

ASSUME SoakWorkersAssumption == IsFiniteSet(Workers) /\ Workers # {}
ASSUME HelpersAssumption == IsFiniteSet(Helpers)
ASSUME EndpointsAssumption == IsFiniteSet(Endpoints) /\ Endpoints # {}
ASSUME SampleAssumption == SampleSize \in Nat \ {0} /\ Probes \in Nat \ {0}
ASSUME RequestBoundAssumption == MaxRequests \in Nat /\ MaxRounds \in Nat

VARIABLES
  fallback,              \* config.Fallback
  main,                  \* where Run is
  stopped, done,         \* stopCh is closed; the context is done
  wg,                    \* o.wg
  pc, endpoint, ending, \* per worker
  total, ok, failed,     \* TotalRequests, SuccessfulReqs, FailedRequests
  api, scrape, decisions,         \* APIRequests, ScrapeRequests, FallbackDecisions
  requests, successes, failures,  \* EndpointStats
  helper,                \* whether a helper runs
  prober, left, rounds,  \* the prober, and the tickers left of its sample
  passed, notPassed      \* ProbesPassed, ProbesFailed

counters == <<total, ok, failed, api, scrape, decisions, requests, successes, failures>>
workerVars == <<pc, endpoint, ending>>
proberVars == <<prober, left, rounds, passed, notPassed>>
control == <<fallback, main, stopped, done, wg, helper>>
soakVars == <<counters, workerVars, proberVars, control>>

ApiEndpoints == {"quote", "daily-bars", "fundamentals"}
ScrapeEndpoints == {"key-statistics", "financials", "analysis", "profile", "news",
                    "balance-sheet", "cash-flow", "analyst-insights"}

(* How a call ends.  shouldFallbackToScrape looks in the error's text for   *)
(* 401, 429, 500, 502, 503 and some words ("fallback"), any other error is  *)
(* an "error"; an endpoint the switch does not list is "unsupported".       *)
Endings == {"none", "ok", "fallback", "error", "unsupported"}

Unpicked == CHOOSE e \in Endpoints : TRUE

Running == {w \in Workers : pc[w] \notin {"new", "off"}}
InFlight == {w \in Workers : pc[w] \in {"count", "api", "scrape", "decide", "record"}}

SoakTypeOK ==
  /\ fallback \in Strategies
  /\ main \in {"starting", "running", "stopping", "printed"}
  /\ stopped \in BOOLEAN /\ done \in BOOLEAN
  /\ wg = Cardinality(Running) + Cardinality({h \in Helpers : helper[h]})
            + (IF prober \in {"off", "returned"} THEN 0 ELSE 1)
  /\ pc \in [Workers -> {"new", "off", "loop", "limit", "count", "api",
                         "scrape", "decide", "record", "endpoint"}]
  /\ endpoint \in [Workers -> Endpoints]
  /\ ending \in [Workers -> Endings]
  /\ {total, ok, failed, api, scrape, decisions} \subseteq Nat
  /\ {requests, successes, failures} \subseteq [Endpoints -> Nat]
  /\ helper \in [Helpers -> BOOLEAN]
  /\ prober \in {"off", "waiting", "probing", "returned"}
  /\ left \in 0..SampleSize /\ rounds \in 0..MaxRounds
  /\ {passed, notPassed} \subseteq Nat

SoakInit ==
  /\ fallback \in Strategies
  /\ main = "starting" /\ stopped = FALSE /\ done = FALSE
  /\ wg = 0
  /\ pc = [w \in Workers |-> "new"]
  /\ endpoint = [w \in Workers |-> Unpicked]
  /\ ending = [w \in Workers |-> "none"]
  /\ total = 0 /\ ok = 0 /\ failed = 0
  /\ api = 0 /\ scrape = 0 /\ decisions = 0
  /\ requests = [e \in Endpoints |-> 0]
  /\ successes = [e \in Endpoints |-> 0] /\ failures = [e \in Endpoints |-> 0]
  /\ helper = [h \in Helpers |-> FALSE]
  /\ prober = "off" /\ left = 0 /\ rounds = 0 /\ passed = 0 /\ notPassed = 0

-----------------------------------------------------------------------------
(* Orchestrator.Run *)
StartHelpers ==
  /\ main = "starting" /\ prober = "off"
  /\ helper' = [h \in Helpers |-> TRUE]
  /\ prober' = "waiting"
  /\ wg' = wg + Cardinality(Helpers) + 1
  /\ UNCHANGED <<counters, workerVars, left, rounds, passed, notPassed,
                 fallback, main, stopped, done>>

NotAdded == wg                             \* fault: no wg.Add for a worker
Added == wg + 1

StartWorker(w) ==
  /\ main = "starting" /\ prober # "off"
  /\ pc[w] = "new"
  /\ pc' = [pc EXCEPT ![w] = "loop"]
  /\ wg' = Added
  /\ main' = IF \A v \in Workers \ {w} : pc[v] # "new" THEN "running" ELSE main
  /\ UNCHANGED <<counters, endpoint, ending, proberVars, fallback, stopped,
                 done, helper>>

(* The duration has passed, or the context is done. *)
Stop ==
  /\ main = "running"
  /\ main' = "stopping" /\ stopped' = TRUE
  /\ UNCHANGED <<counters, workerVars, proberVars, fallback, done, wg, helper>>

PrintResults ==
  /\ main = "stopping" /\ wg = 0
  /\ main' = "printed"
  /\ UNCHANGED <<counters, workerVars, proberVars, fallback, stopped, done, wg, helper>>

-----------------------------------------------------------------------------
(* Worker.Run *)
ContextOnly == done                        \* fault: stopCh is not looked at
Stops == stopped \/ done

Pick(w) ==
  /\ pc[w] = "loop" /\ ~ Stops /\ total < MaxRequests
  /\ pc' = [pc EXCEPT ![w] = "limit"]
  /\ UNCHANGED <<counters, endpoint, ending, proberVars, control>>

ReturnFrom(w) ==
  /\ pc' = [pc EXCEPT ![w] = "off"]
  /\ wg' = wg - 1
  /\ UNCHANGED <<counters, endpoint, ending, proberVars, fallback, main,
                 stopped, done, helper>>

Leave(w) == pc[w] = "loop" /\ Stops /\ ReturnFrom(w)

(* Wait fails on a context that is done, or for good when QPS is 0.         *)
NoToken(w) ==
  /\ pc[w] = "limit"
  /\ IF done THEN ReturnFrom(w)
     ELSE /\ pc' = [pc EXCEPT ![w] = "loop"]
          /\ UNCHANGED <<counters, endpoint, ending, proberVars, control>>

Token(w) ==
  /\ pc[w] = "limit"
  /\ endpoint' \in {[endpoint EXCEPT ![w] = e] : e \in Endpoints}
  /\ total' = total + 1
  /\ pc' = [pc EXCEPT ![w] = "count"]
  /\ UNCHANGED <<ok, failed, api, scrape, decisions, requests, successes,
                 failures, ending, proberVars, control>>

(* Where a request goes under the strategy, API first under "auto"; an      *)
(* unknown strategy fails it.                                               *)
Source(e) ==
  CASE fallback = "api-only" -> "api"
    [] fallback = "scrape-only" -> "scrape"
    [] fallback = "auto" -> IF e \in ApiEndpoints THEN "api" ELSE "scrape"
    [] OTHER -> "record"

CountEndpoint(w) ==
  /\ pc[w] = "count"
  /\ requests' = [requests EXCEPT ![endpoint[w]] = @ + 1]
  /\ pc' = [pc EXCEPT ![w] = Source(endpoint[w])]
  /\ ending' = [ending EXCEPT ![w] =
                   IF Source(endpoint[w]) = "record" THEN "error" ELSE @]
  /\ UNCHANGED <<total, ok, failed, api, scrape, decisions, successes, failures,
                 endpoint, proberVars, control>>

FallsBack(o) == fallback = "auto" /\ o = "fallback"
BothCounted(o) == TRUE                     \* fault: the API call counts as well
CountsAsAPI(o) == ~ FallsBack(o)

APIReturns(w) ==
  /\ pc[w] = "api"
  /\ \E o \in IF endpoint[w] \in ApiEndpoints THEN {"ok", "fallback", "error"}
              ELSE {"unsupported"} :
       /\ ending' = [ending EXCEPT ![w] = o]
       /\ pc' = [pc EXCEPT ![w] = IF FallsBack(o) THEN "scrape" ELSE "record"]
       /\ api' = IF CountsAsAPI(o) THEN api + 1 ELSE api
  /\ UNCHANGED <<total, ok, failed, scrape, decisions, requests, successes,
                 failures, endpoint, proberVars, control>>

ScrapeReturns(w) ==
  /\ pc[w] = "scrape"
  /\ \E o \in IF endpoint[w] \in ScrapeEndpoints THEN {"ok", "error"}
              ELSE {"unsupported"} :
       ending' = [ending EXCEPT ![w] = o]
  /\ pc' = [pc EXCEPT ![w] = IF FallsBack(ending[w]) THEN "decide" ELSE "record"]
  /\ scrape' = scrape + 1
  /\ UNCHANGED <<total, ok, failed, api, decisions, requests, successes,
                 failures, endpoint, proberVars, control>>

CountDecision(w) ==
  /\ pc[w] = "decide"
  /\ decisions' = decisions + 1
  /\ pc' = [pc EXCEPT ![w] = "record"]
  /\ UNCHANGED <<total, ok, failed, api, scrape, requests, successes, failures,
                 endpoint, ending, proberVars, control>>

Record(w) ==
  /\ pc[w] = "record"
  /\ IF ending[w] = "ok" THEN ok' = ok + 1 /\ UNCHANGED failed
     ELSE failed' = failed + 1 /\ UNCHANGED ok
  /\ pc' = [pc EXCEPT ![w] = "endpoint"]
  /\ UNCHANGED <<total, api, scrape, decisions, requests, successes, failures,
                 endpoint, ending, proberVars, control>>

RecordEndpoint(w) ==
  /\ pc[w] = "endpoint"
  /\ IF ending[w] = "ok"
     THEN successes' = [successes EXCEPT ![endpoint[w]] = @ + 1] /\ UNCHANGED failures
     ELSE failures' = [failures EXCEPT ![endpoint[w]] = @ + 1] /\ UNCHANGED successes
  /\ ending' = [ending EXCEPT ![w] = "none"]
  /\ endpoint' = [endpoint EXCEPT ![w] = Unpicked]
  /\ pc' = [pc EXCEPT ![w] = "loop"]
  /\ UNCHANGED <<total, ok, failed, api, scrape, decisions, requests,
                 proberVars, control>>

-----------------------------------------------------------------------------
(* runCorrectnessProbes.  A round begun is finished: it does not look at    *)
(* stopCh between the tickers of its sample.                                *)
BeginRound ==
  /\ prober = "waiting" /\ rounds < MaxRounds
  /\ prober' = "probing" /\ left' = SampleSize /\ rounds' = rounds + 1
  /\ UNCHANGED <<counters, workerVars, passed, notPassed, control>>

(* ValidateTicker with n of its probes passed. *)
Validate(n) ==
  /\ prober = "probing"
  /\ IF n >= Probes \div 2 THEN passed' = passed + 1 /\ UNCHANGED notPassed
     ELSE notPassed' = notPassed + 1 /\ UNCHANGED passed
  /\ left' = left - 1
  /\ prober' = IF left = 1 THEN "waiting" ELSE "probing"
  /\ UNCHANGED <<counters, workerVars, rounds, control>>

ProberReturns ==
  /\ prober = "waiting" /\ (stopped \/ done)
  /\ prober' = "returned"
  /\ wg' = wg - 1
  /\ UNCHANGED <<counters, workerVars, left, rounds, passed, notPassed,
                 fallback, main, stopped, done, helper>>

(* Monitor and collectMetrics *)
HelperReturns(h) ==
  /\ helper[h] /\ (stopped \/ done)
  /\ helper' = [helper EXCEPT ![h] = FALSE]
  /\ wg' = wg - 1
  /\ UNCHANGED <<counters, workerVars, proberVars, fallback, main, stopped, done>>

Cancel ==
  /\ ~ done /\ main # "printed"
  /\ done' = TRUE
  /\ UNCHANGED <<counters, workerVars, proberVars, fallback, main, stopped, wg, helper>>

-----------------------------------------------------------------------------
WorkerStep(w) ==
  \/ Pick(w) \/ Leave(w) \/ NoToken(w) \/ Token(w) \/ CountEndpoint(w)
  \/ APIReturns(w) \/ ScrapeReturns(w) \/ CountDecision(w)
  \/ Record(w) \/ RecordEndpoint(w)

ProberStep == BeginRound \/ ProberReturns \/ \E n \in 0..Probes : Validate(n)

RunStep == StartHelpers \/ Stop \/ PrintResults \/ \E w \in Workers : StartWorker(w)

SoakNext ==
  \/ RunStep \/ ProberStep \/ Cancel
  \/ \E w \in Workers : WorkerStep(w)
  \/ \E h \in Helpers : HelperReturns(h)

SoakSpec == SoakInit /\ [][SoakNext]_soakVars

(* Goroutines are scheduled, the duration passes, and a call of the client  *)
(* or the limiter ends: every request has a timeout.                        *)
SoakFairSpec ==
  /\ SoakSpec
  /\ WF_soakVars(RunStep) /\ WF_soakVars(ProberStep)
  /\ \A w \in Workers : WF_soakVars(WorkerStep(w))
  /\ \A h \in Helpers : WF_soakVars(HelperReturns(h))

-----------------------------------------------------------------------------
(* The results that are printed add up, whatever the workers did at the end *)
(* of the run: every request succeeded or failed once, in total and at its  *)
(* endpoint, and was counted for exactly one source, the scrape for one     *)
(* that fell back (executeRequest and executeAutoFallbackRequest).          *)
CountersAgree ==
  main = "printed" =>
    /\ total = ok + failed
    /\ \A e \in Endpoints : requests[e] = successes[e] + failures[e]
    /\ fallback \in {"auto", "api-only", "scrape-only"} => total = api + scrape
    /\ decisions <= scrape

(* The printed total is also the sum of what the endpoints counted: the two *)
(* sets of counters, the total's and the map's, missed no request.          *)
ResultsAddUp ==
  /\ CountersAgree
  /\ main = "printed" => total = MapThenSumSet(LAMBDA e : requests[e], Endpoints)

(* Nothing is counted any more once the results are printed: Run waits for  *)
(* every goroutine it started.                                              *)
ResultsAreFinal ==
  [][main = "printed" => UNCHANGED <<counters, passed, notPassed>>]_soakVars

(* A soak run ends after its duration: no goroutine keeps working past      *)
(* stopCh, wherever it was when it was closed.                              *)
RunReturns == main = "running" ~> main = "printed"

(* docs/soak-testing.md "API Endpoints (with fallback to scraping)": when a *)
(* request falls back, scraping can serve its endpoint.                     *)
FallbackIsServed ==
  \A w \in Workers : pc[w] = "decide" => ending[w] # "unsupported"
==============================================================================
