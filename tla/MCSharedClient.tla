--------------------------- MODULE MCSharedClient ---------------------------
(* What goroutines share through one client; `subject` says which of it is  *)
(* exercised.                                                               *)
(*                                                                          *)
(* "do": two goroutines in httpx Client.Do on a pool of one connection.     *)
(* The bound on the failure counter is never reached: no call is cut short. *)
(*                                                                          *)
(* "crumb": two of them ask for Yahoo's crumb, which the server rotates     *)
(* between their calls.                                                     *)
(*                                                                          *)
(* "scrape": two of them scrape one symbol with one root client: all its    *)
(* fundamentals, one page of them or its news.                              *)
EXTENDS HttpxClient, CrumbAuth, RootClient

CONSTANTS g1, g2, Subjects

MCCallers == {g1, g2}
MCAttemptsConfigs == {0, 2}
MCMaxFailures == Cardinality(MCCallers) * MaxCalls * 3
MCCalls == {AllFundamentals, <<"balance-sheet">>, <<"news">>}

VARIABLE subject

(* What is not exercised stays in one of its initial states. *)
SharedInit ==
  /\ subject \in Subjects
  /\ Init /\ (subject = "do" \/ maxAttempts = 0)
  /\ CrumbInit /\ (subject = "crumb" \/ ~ managed)
  /\ RootInit

InDo(step) == subject = "do" /\ step /\ UNCHANGED <<subject, crumbVars, rootVars>>
InCrumb(step) == subject = "crumb" /\ step /\ UNCHANGED <<subject, vars, rootVars>>
InScrape(step) == subject = "scrape" /\ step /\ UNCHANGED <<subject, vars, crumbVars>>

SharedNext == InDo(Next) \/ InCrumb(CrumbNext) \/ InScrape(RootNext)

allVars == <<subject, vars, crumbVars, rootVars>>

SharedSpec == SharedInit /\ [][SharedNext]_allVars

(* As FairSpec and CrumbFairSpec. *)
SharedFairSpec ==
  /\ SharedSpec
  /\ \A g \in Callers : WF_allVars(InDo(CallStep(g)))
  /\ \A g \in Askers : SF_allVars(InCrumb(QueryStep(g)))
==============================================================================
