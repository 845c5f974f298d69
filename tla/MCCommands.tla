----------------------------- MODULE MCCommands -----------------------------
(* The long-running commands of yfin; `subject` says which one runs.        *)
(*                                                                          *)
(* "pull": enough symbols to open the breaker, probe it twice and fail or   *)
(* recover.  The publisher that can ask for a retry is the one of           *)
(* internal/bus/retry_test.go; BusPublisher itself never does.              *)
(*                                                                          *)
(* "soak": two workers, an endpoint of the API, one that is scraped and one *)
(* that nobody knows; a single helper, since they all do the same, and no   *)
(* "api-only", which mirrors "scrape-only".                                 *)
(*                                                                          *)
(* "batch": a list that repeats a ticker, a command refreshed daily and one *)
(* every other day, over two runs on two days.  There are slots for both    *)
(* workers, or main waits for one to come free.  The registry is that of    *)
(* batch_test.go, whose fetchers ignore their nil context, or the           *)
(* program's, whose fetchers all look into it.                              *)
EXTENDS BusPublish, SoakRun, Batch, TLC

CONSTANTS w1, w2, Subjects

MCBusPublisher == {{"wrapped"}}
MCPublishers == MCBusPublisher \cup {{"wrapped", "retryable"}}

MCWorkers == {w1, w2}
MCHelpers == {"monitor"}
MCEndpoints == {"quote", "news", "dividends"}
MCStrategies == {"auto", "scrape-only", "always"}

MCTickerList == <<"A", "A">>
MCCommands == <<"news", "info">>
MCTier == "news" :> 1 @@ "info" :> 2
MCRegistries == {{}, {"news", "info"}}

VARIABLE subject

(* What does not run has ended, or not begun. *)
NoPull ==
  /\ errors = {"wrapped"}
  /\ state = "closed" /\ failureCount = 0 /\ successCount = 0
  /\ nextAttemptTime = 0 /\ now = 0
  /\ symbol = Symbols + 1 /\ phase = "fetch" /\ attempt = 0
  /\ chunk = 1 /\ chunks = 1 /\ sent = <<>>
  /\ outcome = [s \in 1..Symbols |-> "pending"]
  /\ expired = FALSE

NoSoak ==
  /\ fallback = "auto" /\ main = "printed" /\ stopped = TRUE /\ done = FALSE /\ wg = 0
  /\ pc = [w \in Workers |-> "off"]
  /\ endpoint = [w \in Workers |-> Unpicked] /\ ending = [w \in Workers |-> "none"]
  /\ total = 0 /\ ok = 0 /\ failed = 0 /\ api = 0 /\ scrape = 0 /\ decisions = 0
  /\ requests = [e \in Endpoints |-> 0] /\ successes = requests /\ failures = requests
  /\ helper = [h \in Helpers |-> FALSE]
  /\ prober = "returned" /\ left = 0 /\ rounds = 0 /\ passed = 0 /\ notPassed = 0

CommandsInit ==
  /\ subject \in Subjects
  /\ IF subject = "pull" THEN Init ELSE NoPull
  /\ IF subject = "soak" THEN SoakInit ELSE NoSoak
  /\ BatchInit
  /\ subject # "batch" => usesContext = {} /\ maxWorkers = 1

CommandsNext ==
  \/ subject = "pull" /\ Next /\ UNCHANGED <<soakVars, batchVars>>
  \/ subject = "soak" /\ SoakNext /\ UNCHANGED <<vars, batchVars>>
  \/ subject = "batch" /\ BatchNext /\ UNCHANGED <<vars, soakVars>>

CommandsSpec ==
  CommandsInit /\ [][CommandsNext /\ UNCHANGED subject]_<<subject, vars, soakVars, batchVars>>

(* As FairSpec, SoakFairSpec and BatchFairSpec: no step of what does not    *)
(* run is enabled.                                                          *)
CommandsFairSpec ==
  /\ CommandsSpec
  /\ WF_vars(Process)
  /\ WF_soakVars(RunStep) /\ WF_soakVars(ProberStep)
  /\ \A w \in Workers : WF_soakVars(WorkerStep(w))
  /\ \A h \in Helpers : WF_soakVars(HelperReturns(h))
  /\ WF_batchVars(MainStep)
  /\ \A w \in Tickers : WF_batchVars(WorkStep(w))
==============================================================================
