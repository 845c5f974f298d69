------------------------------ MODULE CrumbAuth ------------------------------
(***************************************************************************)
(* Yahoo's cookie and crumb: CrumbManager of internal/yahoo/auth.go under  *)
(* FetchQuoteSummary of internal/yahoo/quotesummary.go, called by several  *)
(* goroutines while the server may rotate the crumb it accepts.            *)
(*                                                                         *)
(* Crumb holds the manager's mutex from the look at the cached crumb to    *)
(* its assignment, over two requests; the others queue behind it.         *)
(* stage[g]:                                                               *)
(*                                                                         *)
(*   "idle"   not in a call             "getcrumb"  fetchCrumb's request   *)
(*   "crumb"  waiting for the mutex     "query"     quoteSummary's request *)
(*   "cookie" bootstrapCookie's request                                    *)
(*                                                                         *)
(* httpx.Client.Do is what HttpxClient says of it: a response for a 2xx    *)
(* status, and an error for every other status.  A crumb is the number of  *)
(* the server's rotation it belongs to; NoCrumb is the empty string.       *)
(* MaxRotations bounds the rotations, MaxQueries those of a goroutine.     *)
(***************************************************************************)
EXTENDS Integers

CONSTANTS Askers, Nobody, MaxRotations, MaxQueries

ASSUME NobodyAssumption == Nobody \notin Askers
ASSUME RotationsAssumption == MaxRotations \in Nat \ {0} /\ MaxQueries \in Nat

VARIABLES
  managed,    \* c.crumb # nil: NewClientWithAuth, and FALSE for NewClient
  crumb,      \* m.crumb
  holder,     \* the goroutine that holds m.mu, or Nobody
  stage,
  carried,    \* the crumb parameter of a goroutine's request
  queries,
  tries,      \* doQuoteSummary queries of the current FetchQuoteSummary
  ending,     \* how the last call ended
  valid,      \* the crumb the server accepts
  fetched     \* history: crumbs obtained from the server

crumbVars == <<managed, crumb, holder, stage, carried, queries, tries, ending, valid, fetched>>

NoCrumb == 0
Stages == {"idle", "crumb", "cookie", "getcrumb", "query"}
Endings == {"none", "ok", "error", "unauthorized", "cookie-refused"}

CrumbTypeOK ==
  /\ managed \in BOOLEAN
  /\ crumb \in 0..MaxRotations
  /\ holder \in Askers \cup {Nobody}
  /\ \A g \in Askers : holder = g <=> stage[g] \in {"cookie", "getcrumb"}
  /\ stage \in [Askers -> Stages]
  /\ carried \in [Askers -> 0..MaxRotations]
  /\ queries \in [Askers -> 0..MaxQueries]
  /\ tries \in [Askers -> 0..2]
  /\ ending \in [Askers -> Endings]
  /\ valid \in 1..MaxRotations
  /\ fetched \in Nat

CrumbInit ==
  /\ managed \in BOOLEAN
  /\ crumb = NoCrumb /\ holder = Nobody
  /\ stage = [g \in Askers |-> "idle"]
  /\ carried = [g \in Askers |-> NoCrumb]
  /\ queries = [g \in Askers |-> 0]
  /\ tries = [g \in Askers |-> 0]
  /\ ending = [g \in Askers |-> "none"]
  /\ valid = 1 /\ fetched = 0

GoOn(g, place) == stage' = [stage EXCEPT ![g] = place]
Reply(g, outcome) == GoOn(g, "idle") /\ ending' = [ending EXCEPT ![g] = outcome]

(* httpx.Client.Do: what the caller gets for a status. *)
Do(status) == [status |-> status, err |-> status # 200]

-----------------------------------------------------------------------------
Query(g, c) == GoOn(g, "query") /\ carried' = [carried EXCEPT ![g] = c]

Ask(g) ==
  /\ stage[g] = "idle" /\ queries[g] < MaxQueries
  /\ queries' = [queries EXCEPT ![g] = @ + 1]
  /\ tries' = [tries EXCEPT ![g] = 1]
  /\ ending' = [ending EXCEPT ![g] = "none"]
  /\ IF managed THEN GoOn(g, "crumb") /\ UNCHANGED carried
     ELSE Query(g, NoCrumb)
  /\ UNCHANGED <<managed, crumb, holder, valid, fetched>>

LockFree == TRUE                       \* fault: m.mu not held over the requests
Locked == holder = Nobody

(* Crumb takes the mutex: the cached crumb, or the way to a new one. *)
CachedCrumb(g) ==
  /\ stage[g] = "crumb" /\ Locked /\ crumb # NoCrumb
  /\ Query(g, crumb)
  /\ UNCHANGED <<managed, crumb, holder, queries, tries, ending, valid, fetched>>

Bootstrap(g) ==
  /\ stage[g] = "crumb" /\ Locked /\ crumb = NoCrumb
  /\ holder' = g
  /\ GoOn(g, "cookie")
  /\ UNCHANGED <<managed, crumb, carried, queries, tries, ending, valid, fetched>>

StillLocked == holder' = holder        \* fault: no deferred Unlock on an error
Unlock == holder' = Nobody

(* bootstrapCookie: the body and the status of a response are not looked    *)
(* at, but Do gives none for a status like 403.                             *)
Cookie(g, status) ==
  /\ stage[g] = "cookie"
  /\ IF Do(status).err
       THEN Unlock /\ Reply(g, IF status = 403 THEN "cookie-refused" ELSE "error")
       ELSE GoOn(g, "getcrumb") /\ UNCHANGED <<holder, ending>>
  /\ UNCHANGED <<managed, crumb, carried, queries, tries, valid, fetched>>

(* fetchCrumb: the crumb valid now, or an error (a status, an empty or an   *)
(* HTML body).                                                              *)
GotCrumb(g) ==
  /\ stage[g] = "getcrumb"
  /\ crumb' = valid /\ fetched' = fetched + 1
  /\ Unlock
  /\ Query(g, valid)
  /\ UNCHANGED <<managed, queries, tries, ending, valid>>

NoCrumbGiven(g) ==
  /\ stage[g] = "getcrumb"
  /\ Unlock
  /\ Reply(g, "error")
  /\ UNCHANGED <<managed, crumb, carried, queries, tries, valid, fetched>>

-----------------------------------------------------------------------------
(* The condition of FetchQuoteSummary's retry.  It is met when Do returns a *)
(* response whose status is 401, and Do never does.                         *)
RetryOn401(res) == ~ res.err /\ res.status = 401 /\ managed

(* doQuoteSummary's request.  The server answers 401 to any other crumb     *)
(* than the valid one, and may fail for other reasons (500).                *)
Answer(g, status) ==
  /\ stage[g] = "query"
  /\ status = 200 => carried[g] = valid
  /\ status = 401 => carried[g] # valid
  /\ IF RetryOn401(Do(status)) /\ tries[g] = 1
       THEN /\ holder = Nobody /\ crumb' = NoCrumb              \* Invalidate
            /\ tries' = [tries EXCEPT ![g] = 2]
            /\ GoOn(g, "crumb")
            /\ UNCHANGED ending
       ELSE /\ Reply(g, CASE status = 200 -> "ok"
                           [] status = 401 -> "unauthorized"
                           [] OTHER -> "error")
            /\ UNCHANGED <<crumb, tries>>
  /\ UNCHANGED <<managed, holder, carried, queries, valid, fetched>>

(* External: the server forgets the crumbs it gave out. *)
Rotate ==
  /\ valid < MaxRotations
  /\ valid' = valid + 1
  /\ UNCHANGED <<managed, crumb, holder, stage, carried, queries, tries, ending, fetched>>

QueryStep(g) ==
  \/ CachedCrumb(g) \/ Bootstrap(g)
  \/ \E status \in {200, 403, 500} : Cookie(g, status)
  \/ GotCrumb(g) \/ NoCrumbGiven(g)
  \/ \E status \in {200, 401, 500} : Answer(g, status)

CrumbNext == Rotate \/ \E g \in Askers : Ask(g) \/ QueryStep(g)

CrumbSpec == CrumbInit /\ [][CrumbNext]_crumbVars

(* Requests end (Config.Timeout), and a mutex that keeps coming free is     *)
(* given to a goroutine that waits for it (sync.Mutex starves no one).      *)
CrumbFairSpec == CrumbSpec /\ \A g \in Askers : SF_crumbVars(QueryStep(g))

-----------------------------------------------------------------------------
(* The mutex covers both requests of a bootstrap: however many goroutines   *)
(* ask for the first crumb at once, one bootstraps at a time and the crumb  *)
(* is obtained once for all of them.                                        *)
OneBootstrap ==
  /\ \A g, h \in Askers :
       stage[g] \in {"cookie", "getcrumb"} /\ stage[h] \in {"cookie", "getcrumb"} => g = h
  /\ fetched <= 1

(* Every call ends: a bootstrap that fails frees those who queue behind it. *)
EveryQueryReturns == \A g \in Askers : stage[g] # "idle" ~> stage[g] = "idle"

(* What the comment of FetchQuoteSummary says: "attaching the crumb and     *)
(* retrying once on 401".  A call that ends unauthorized has then tried     *)
(* twice.                                                                   *)
RetriesOn401 ==
  \A g \in Askers : managed /\ ending[g] = "unauthorized" => tries[g] = 2
==============================================================================
