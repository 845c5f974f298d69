----------------------------- MODULE ScrapeFetch -----------------------------
(***************************************************************************)
(* Fetch of internal/scrape/client.go, called by several goroutines for    *)
(* pages of one host: RobotsManager.CheckRobots, the token bucket, then up *)
(* to Attempts calls of httpx.Client.Do with a backoff between them.       *)
(*                                                                         *)
(* The robots.txt of the host is cached for TTL ticks and fetched without  *)
(* a lock, so two goroutines may fetch it at once and the slower one       *)
(* overwrites the cache.  The bucket's mutex, unlike the one of            *)
(* HttpxLimiter, is held over the sleep: the others queue behind it, and   *)
(* one of them whose context ends has to wait for its turn.  pc[c]:        *)
(*                                                                         *)
(*   "idle"      not in Fetch             "bucket"   waiting for tb.mu     *)
(*   "robots"    before the cache         "sleep"    in tokenBucket.Wait   *)
(*   "fetching"  robots.txt requested     "request"  in httpx.Client.Do    *)
(*   "parsing"   robots.txt received      "backoff"  between attempts      *)
(*                                                                         *)
(* Do is what HttpxClient says of it: a 2xx response or an error.  Tokens  *)
(* are counted in fractions of TokenTicks, as in HttpxLimiter.  MaxClock   *)
(* bounds the time at which a call begins; after it the clock moves only   *)
(* while somebody sleeps, so that every sleep can end.                     *)
(***************************************************************************)
EXTENDS Integers

CONSTANTS Callers, Nobody,
          Policies,        \* what Config.RobotsPolicy may be
          TTL,             \* Config.CacheTTLMs, in ticks
          RobotsTimeout,   \* Timeout of the robots client, in ticks
          Attempts,        \* Config.Retry.Attempts
          Burst, TokenTicks,
          MaxClock

ASSUME NobodyAssumption == Nobody \notin Callers
ASSUME PolicyAssumption == Policies \subseteq {"enforce", "warn", "ignore"}
ASSUME RobotsAssumption == TTL \in Nat /\ RobotsTimeout \in Nat
ASSUME AttemptsAssumption == Attempts \in Nat \ {0}
ASSUME BucketAssumption == Burst \in Nat /\ TokenTicks \in Nat \ {0}
ASSUME ClockAssumption == MaxClock \in Nat

VARIABLES
  policy,      \* rm.policy, fixed when the client is built
  live,        \* external: what the host's robots.txt says of the pages
  cache,       \* rm.cache[host]: the rules and FetchedAt (servedAt: history)
  tokens, lastTime, holder, deadline,    \* the bucket, its mutex and timer
  now,
  pc, attempt,
  started,     \* when the goroutine's robots.txt request was made
  got,         \* the robots.txt it received
  done,        \* its context is done
  granted      \* history: fractions granted by the bucket, to all

robotsVars == <<policy, live, cache, started, got>>
bucketVars == <<tokens, lastTime, holder, deadline, granted>>
callVars == <<attempt, done>>
vars == <<robotsVars, bucketVars, callVars, now, pc>>

Capacity == Burst * TokenTicks
Verdicts == {"allow", "deny"}
NoRobots == [rules |-> "none", servedAt |-> 0, fetchedAt |-> 0]
Robots == [rules : Verdicts \cup {"none"}, servedAt : Nat, fetchedAt : Nat]

Places == {"idle", "robots", "fetching", "parsing", "bucket", "sleep", "request", "backoff"}

(* What Do, and reading the body, fail with: a status no retry of Do could  *)
(* change, an open breaker, a network error by its text ("connection        *)
(* refused"), Config.Timeout ("Client.Timeout exceeded", with a capital),   *)
(* a body above 8 MiB, a connection reset in the middle of the body.        *)
Errors == {"status", "circuit-open", "network", "client-timeout", "too-large", "reset"}

TypeOK ==
  /\ policy \in Policies /\ live \in Verdicts
  /\ cache \in Robots /\ got \in [Callers -> Robots]
  /\ tokens \in 0..Capacity
  /\ lastTime \in Nat /\ now \in Nat
  /\ holder \in Callers \cup {Nobody}
  /\ deadline \in Nat
  /\ pc \in [Callers -> Places]
  /\ \A c \in Callers : holder = c <=> pc[c] = "sleep"
  /\ attempt \in [Callers -> 0..(Attempts - 1)]
  /\ \A c \in Callers : pc[c] = "backoff" => attempt[c] < Attempts - 1
  /\ started \in [Callers -> Nat]
  /\ done \in [Callers -> BOOLEAN]
  /\ granted \in Nat

Init ==
  /\ policy \in Policies /\ live \in Verdicts
  /\ cache = NoRobots /\ got = [c \in Callers |-> NoRobots]
  /\ tokens = Capacity /\ lastTime = 0 /\ holder = Nobody /\ deadline = 0
  /\ now = 0
  /\ pc = [c \in Callers |-> "idle"]
  /\ attempt = [c \in Callers |-> 0]
  /\ started = [c \in Callers |-> 0]
  /\ done = [c \in Callers |-> FALSE]
  /\ granted = 0

Go(c, place) == pc' = [pc EXCEPT ![c] = place]

Begin(c) ==
  /\ pc[c] = "idle" /\ now < MaxClock
  /\ Go(c, IF policy = "ignore" THEN "bucket" ELSE "robots")
  /\ UNCHANGED <<robotsVars, bucketVars, callVars, now>>

(* Fetch returns; what was local to it is gone. *)
Return(c) ==
  /\ Go(c, "idle")
  /\ attempt' = [attempt EXCEPT ![c] = 0]
  /\ done' = [done EXCEPT ![c] = FALSE]

GoOn(c, place) == Go(c, place) /\ UNCHANGED callVars

-----------------------------------------------------------------------------
(* CheckRobots and getRobots *)
NeverExpires == FALSE                      \* fault: the entry is kept for ever
IsExpired == now - cache.fetchedAt > TTL

(* The verdict of CheckRobots on some rules. *)
Judge(c, rules) ==
  IF rules = "allow" \/ policy = "warn" THEN GoOn(c, "bucket") ELSE Return(c)

CachedRobots(c) ==
  /\ pc[c] = "robots" /\ cache # NoRobots /\ ~ IsExpired
  /\ Judge(c, cache.rules)
  /\ UNCHANGED <<robotsVars, bucketVars, now>>

RequestRobots(c) ==
  /\ pc[c] = "robots" /\ (cache = NoRobots \/ IsExpired)
  /\ Go(c, "fetching")
  /\ started' = [started EXCEPT ![c] = now]
  /\ UNCHANGED <<policy, live, cache, got, bucketVars, callVars, now>>

(* The server answers; the answer is on its way, read and parsed until      *)
(* StoreRobots.                                                             *)
ReceiveRobots(c) ==
  /\ pc[c] = "fetching"
  /\ got' = [got EXCEPT ![c] = [rules |-> live, servedAt |-> now, fetchedAt |-> now]]
  /\ Go(c, "parsing")
  /\ UNCHANGED <<policy, live, cache, started, bucketVars, callVars, now>>

ForgetRobots(c) ==
  /\ started' = [started EXCEPT ![c] = 0]
  /\ got' = [got EXCEPT ![c] = NoRobots]

StoreRobots(c) ==
  /\ pc[c] = "parsing"
  /\ cache' = [got[c] EXCEPT !.fetchedAt = now]
  /\ Judge(c, got[c].rules)
  /\ ForgetRobots(c)
  /\ UNCHANGED <<policy, live, bucketVars, now>>

FailureIsIgnored == policy = "warn"

RobotsFail(c) ==
  /\ pc[c] \in {"fetching", "parsing"}
  /\ IF FailureIsIgnored THEN GoOn(c, "bucket") ELSE Return(c)
  /\ ForgetRobots(c)
  /\ UNCHANGED <<policy, live, cache, bucketVars, now>>

-----------------------------------------------------------------------------
(* tokenBucket.Wait *)
Refilled ==
  IF tokens + (now - lastTime) > Capacity THEN Capacity
  ELSE tokens + (now - lastTime)

UnlockedSleep == TRUE                      \* fault: Unlock before the select
MutexFree == holder = Nobody

TakeToken(c) ==
  /\ pc[c] = "bucket" /\ MutexFree /\ Refilled >= TokenTicks
  /\ tokens' = Refilled - TokenTicks
  /\ lastTime' = now
  /\ granted' = granted + TokenTicks
  /\ Go(c, "request")
  /\ UNCHANGED <<robotsVars, callVars, holder, deadline, now>>

GoToSleep(c) ==
  /\ pc[c] = "bucket" /\ MutexFree /\ Refilled < TokenTicks
  /\ tokens' = Refilled
  /\ lastTime' = now
  /\ deadline' = now + (TokenTicks - Refilled)
  /\ holder' = c
  /\ Go(c, "sleep")
  /\ UNCHANGED <<robotsVars, callVars, granted, now>>

WakeUp(c) ==
  /\ pc[c] = "sleep" /\ deadline <= now
  /\ tokens' = 0
  /\ granted' = granted + TokenTicks
  /\ holder' = Nobody /\ deadline' = 0
  /\ Go(c, "request")
  /\ UNCHANGED <<robotsVars, callVars, lastTime, now>>

StillLocked == holder' = holder            \* fault: no deferred Unlock
Unlock == holder' = Nobody

SleepCancelled(c) ==
  /\ pc[c] = "sleep" /\ done[c]
  /\ Unlock /\ deadline' = 0
  /\ Return(c)
  /\ UNCHANGED <<robotsVars, tokens, lastTime, granted, now>>

-----------------------------------------------------------------------------
(* The loop of Fetch *)
Succeed(c) ==
  /\ pc[c] = "request"
  /\ Return(c)
  /\ UNCHANGED <<robotsVars, bucketVars, now>>

IsRetryableError(err) == err \in {"network", "reset"}

Fail(c, err) ==
  /\ pc[c] = "request"
  /\ IF IsRetryableError(err) /\ attempt[c] < Attempts - 1 THEN GoOn(c, "backoff")
     ELSE Return(c)
  /\ UNCHANGED <<robotsVars, bucketVars, now>>

(* Do's error for a context that is done matches none of the texts. *)
RequestCancelled(c) ==
  /\ pc[c] = "request" /\ done[c]
  /\ Return(c)
  /\ UNCHANGED <<robotsVars, bucketVars, now>>

BackoffOver(c) ==
  /\ pc[c] = "backoff"
  /\ attempt' = [attempt EXCEPT ![c] = @ + 1]
  /\ Go(c, "request")
  /\ UNCHANGED <<robotsVars, bucketVars, done, now>>

BackoffCancelled(c) ==
  /\ pc[c] = "backoff" /\ done[c]
  /\ Return(c)
  /\ UNCHANGED <<robotsVars, bucketVars, now>>

-----------------------------------------------------------------------------
(* The caller's context ends. *)
Cancel(c) ==
  /\ pc[c] # "idle" /\ ~ done[c]
  /\ done' = [done EXCEPT ![c] = TRUE]
  /\ UNCHANGED <<robotsVars, bucketVars, attempt, now, pc>>

(* External: the host changes its robots.txt. *)
ChangeRobots ==
  /\ live' \in Verdicts /\ live' # live
  /\ UNCHANGED <<policy, cache, started, got, bucketVars, callVars, now, pc>>

(* Time passes, but not past the timeout of a robots.txt request, which     *)
(* covers its body; storing the parsed rules takes no time.                 *)
Tick ==
  /\ now < MaxClock \/ (holder # Nobody /\ now < deadline)
  /\ \A c \in Callers :
       pc[c] \in {"fetching", "parsing"} => now < started[c] + RobotsTimeout
  /\ now' = now + 1
  /\ UNCHANGED <<robotsVars, bucketVars, callVars, pc>>

FetchStep(c) ==
  \/ CachedRobots(c) \/ RequestRobots(c) \/ ReceiveRobots(c)
  \/ StoreRobots(c) \/ RobotsFail(c)
  \/ TakeToken(c) \/ GoToSleep(c) \/ WakeUp(c) \/ SleepCancelled(c)
  \/ Succeed(c) \/ \E err \in Errors : Fail(c, err)
  \/ RequestCancelled(c)
  \/ BackoffOver(c) \/ BackoffCancelled(c)

Next ==
  \/ Tick \/ ChangeRobots
  \/ \E c \in Callers : Begin(c) \/ Cancel(c) \/ FetchStep(c)

Spec == Init /\ [][Next]_vars

(* Goroutines are scheduled, requests and timers end, time passes, and a    *)
(* mutex that keeps coming free is given to each goroutine that waits.      *)
FairSpec == Spec /\ WF_vars(Tick) /\ \A c \in Callers : SF_vars(FetchStep(c))

-----------------------------------------------------------------------------
(* Under "enforce" a page is requested only on rules that were received and *)
(* allow it, and that the host served at most TTL and one robots.txt        *)
(* request ago: CheckRobots over getRobots, whose cache keeps the time the  *)
(* rules were stored and not the time they were served, and in which a slow *)
(* goroutine may put older rules over newer ones.  Under "warn" nothing of  *)
(* this ends a Fetch, neither rules that forbid the page nor a robots.txt   *)
(* that cannot be had ("Log warning but don't block").                      *)
RobotsPolicyIsKept ==
  [][\A c \in Callers :
       LET used == IF pc[c] = "robots" THEN cache ELSE got[c]
       IN  pc[c] \in {"robots", "fetching", "parsing"} =>
             /\ policy = "enforce" /\ pc'[c] = "bucket" =>
                  /\ pc[c] # "fetching" /\ used.rules = "allow"
                  /\ now - used.servedAt <= TTL + RobotsTimeout
             /\ policy = "warn" => pc'[c] # "idle"]_vars

(* tokenBucket.Wait, with its mutex held over the sleep: what all the       *)
(* goroutines together are granted is at most the burst and twice the rate. *)
(* A sleeper's time is credited to the next one once more, because lastTime *)
(* is not moved after the sleep, but never to two of them.                  *)
GrantsAtMostDouble == granted <= Capacity + 2 * now

(* Every Fetch returns: whatever fails or is cancelled, no path leaves the  *)
(* bucket locked for the goroutines that queue behind it.                   *)
EveryFetchReturns == \A c \in Callers : pc[c] # "idle" ~> pc[c] = "idle"
==============================================================================
