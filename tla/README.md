# yfinance-go in TLA+

A verification project for `yfinance-go`, a Go client and command line for Yahoo
Finance (and the Taiwan Stock Exchange) that turns what it fetches into protobuf
messages on a bus. Its modules model two sides of it: what several goroutines share or
a run keeps (breaker, limiters, crumb, robots cache, bus publishing, soak and batch runs,
the root client's caches), and what happens to the data of one request on its way from
Yahoo's answer to a message (decoding, normalisation, scraping, mapping, chunking). TLC checks them
on small instances, and TLAPS proves every safety property of both sides that a passing run
checks, for every value of the constants.

Source paths below are relative to the repository; constants and variables are in
`monospace`.

## 1. The system

```
cmd/yfin  pull, quote, fundamentals ──► client.go ──► internal/yahoo ──► internal/httpx ──► Yahoo
   │      scrape, comprehensive-*   ──► internal/scrape ───────────────► internal/httpx ──► Yahoo
   │      soak                      ──► internal/soak ──► client.go, internal/scrape
   │      batch                     ──► internal/cache (files), internal/yahoo, client.go
   │      twse                      ──► svc/twse ──► net/http
   └── pull --publish ──► internal/norm ──► internal/emit ──► internal/bus ──► ampy-bus (NATS/Kafka)
internal/config, internal/obsv: set up once, read by all
```

| Component | State it keeps | Operations | What is hard |
|---|---|---|---|
| HTTP circuit breaker, `internal/httpx/client.go` | `state`, `failures`, `lastFailure` under an RWMutex | `Allow`, `RecordSuccess`, `RecordFailure` | `Allow` changes locks twice, so failures and successes of other goroutines fall into its windows; late answers of requests admitted in another state |
| HTTP client, same file and `caller.go` | the breaker, the limiter, net/http's connection pool | `Do`, `Call` | retries, five ways out of a call, each of which must count once and release its connection |
| HTTP rate limiter, same file | `tokens`, `lastTime` under a mutex | `Wait` | the mutex is given up over the sleep; the sleeper then writes what it computed before |
| Crumb authentication, `internal/yahoo/auth.go`, `quotesummary.go` | `CrumbManager.crumb` under a mutex | `Crumb`, `Invalidate`, `FetchQuoteSummary` | the mutex is held over two requests; a crumb the server has forgotten |
| Scraping client, `internal/scrape/client.go`, `robots.go`, `errors.go` | robots cache, token bucket, httpx client | `Fetch`, `CheckRobots` | a cache filled without a lock over the request, expiry, three policies, a mutex held over a sleep, cancellation |
| Bus publishing, `internal/bus`, loop in `cmd/yfin/main.go` | breaker (no lock), retry counter, the 30 s context | `PublishBars/Quote/Fundamentals`, `ExecuteWithRetry`, `Execute` | chunks, failures after delivery, retries while the breaker opens |
| Soak test, `internal/soak` | counters, `stopCh`, WaitGroup | `Run`, workers, correctness probes, helpers | shutdown while everybody works; bookkeeping spread over many returns |
| Batch and file cache, `cmd/yfin/batch.go`, `internal/cache` | dated files | `ShouldSkip`, `runBatchForTicker` | crash between runs, periods that end, a worker pool |
| Root client, `client.go` | `micCache` under an RWMutex; global patterns without a lock | `Fetch*`, `Scrape*` | a cached failure, lookups that race, patterns read while another goroutine loads them |
| Bus chunking, preview, envelopes and topics, `internal/bus` | none | `ChunkPayload`, `GetChunkingInfo`, `CreatePreviewSummary`, topics, keys | two pieces of arithmetic about one payload; dots in names |
| Yahoo decoders, `internal/yahoo` | none | `Decode*`, `Validate*`, charts into quotes | absent, null and ragged arrays |
| Normalisation, conversion, `internal/norm` | none | scaled decimals, day windows, `ConvertTo*` | rounding, overflow, all-or-nothing errors |
| Emission, `internal/emit` | none | `Emit*`, `Map*`, a second validation | whitelists and validations that must agree with what was normalised |
| Scrape extractors, `internal/scrape` | the patterns of each kind of page, loaded once | `Parse*`, `Extract*` | units, suffixes, periods, local clocks, repeated news |
| TWSE, `svc/twse` | one `http.Client` | a request per endpoint | none that interacts |
| Configuration, observability | set once | load, validate, log | none that interacts |
| Command line | flags | one command per run | the loop of `pull` only |

How they interact. `httpx.Client.Do` asks the breaker once, then the limiter once, and
then sends up to `MaxAttempts` requests, reporting each to the breaker. `Do` returns a
response for a 2xx status and an *error for every other one*; the components above rely
on that, and two of them get it wrong (section 6). `FetchQuoteSummary` obtains a crumb
through the same `Do` it then queries with. `scrape.Fetch` puts robots rules and a second
token bucket in front of its own httpx client and retries around it. The root client
fetches a page, looks the symbol's market up, parses and maps. `pull` is one
goroutine: fetch, publish, export, symbol after symbol, under one context.
The soak workers share the root client and the scrape client. The batch workers share
nothing but the totals, the semaphore and, for a ticker that is listed twice, its files.

What makes each correct:

- breaker: state and count agree; half-open only after a full cool-down since the latest
  failure; nobody is admitted while it cools; it does nothing but trip, probe, recover;
- client: each attempt is counted once (and one when none was sent, which is the code's), no connection leaks, no early surrender, every call returns;
- limiters: a bound on what is granted over any time;
- crumb: one bootstrap for all who ask, no goroutine left behind by a failed one, a stale
  crumb is replaced;
- scraping: an enforced policy acts only on rules that are fresh and allow the page, a policy that
  warns blocks nothing; no path keeps the bucket locked;
- publishing: chunks in order and complete when success is claimed, silence while the
  breaker is open, a half-open breaker can be probed, the pull ends;
- soak and batch: the printed totals add up and are final, the run ends;
- root client: one lookup per symbol and goroutine at most, and one answer for all snapshots;
- data: a bar keeps the order of its prices and its day, only known reasons refuse what was
  decoded, a conversion is all or nothing, a publication is the payload and its preview says
  so, rounding is to the nearest but for negative products;
- pages: a number arrives under the key of its own cell and in its unit, a period holds the
  moment of the page, the mappers agree, no article is repeated.

## 2. The modules

| Module | Models | Composed of |
|---|---|---|
| `BreakerContract` | what a circuit breaker promises: trip, probe after the cool-down, recover (abstract specification) | |
| `HttpxBreaker` | the breaker with the lock windows of `Allow` | refines `BreakerContract` |
| `HttpxClient` | `Do` and `Call` with attempts, pool and every exit | INSTANCE of `HttpxBreaker` |
| `HttpxLimiter` | `RateLimiter.Wait` | |
| `CrumbAuth` | `CrumbManager` and `FetchQuoteSummary` | takes `Do` as `HttpxClient` has it: 2xx or error |
| `ScrapeFetch` | `scrape.Fetch`: robots, bucket, retry loop | takes `Do` the same way |
| `RootClient` | the scraping calls of `client.go`: market cache, patterns, `ScrapeAllFundamentals` | takes `scrape.Fetch` as a page or an error |
| `BusPublish` | the `pull` loop over `ExecuteWithRetry`, the bus breaker and the chunk loop | |
| `SoakRun` | the orchestrator, its workers, prober and helpers | |
| `Batch` | `runBatch`, its workers, `ShouldSkip` and the dated files, over runs, days and crashes | |
| `Choosing` | the two loops the program is full of: keep what is wanted of a slice, multiply by ten | |
| `Decimals` | scaled decimals in a word that wraps (`norm/decimal.go`, `emit/decimals.go`) | |
| `YahooCharts`, `Normalize`, `Conversion`, `Emit` | decoding, normalising, converting, emitting bars, quotes and fundamentals | each EXTENDS the one before it |
| `BusPayload` | topics, keys, chunks, envelopes, previews, validation of a bus configuration | |
| `DataPath` | one request through all of these | `Conversion`, `Emit`, `BusPayload` |
| `ScrapedPages`, `PageMapping` | pages of figures: cells, units, statistics, analysis, insights; the mappers of `emit/map_financials.go` and `scrape_mapper.go` | on `Decimals` |
| `News` | articles of a page: parsing, enrichment, deduplication, mapping | on `Decimals` |
| `PagePath` | one page through parsing and mapping, or preview | `PageMapping`, `News` |
| `HttpxGatesProofs` | theorems about the breaker and the limiter | `HttpxBreaker`, `HttpxLimiter` |
| `SharedClientProofs` | theorems about client, crumb and root client | `HttpxClient`, `CrumbAuth`, `RootClient` |
| `ScrapeFetchProofs`, `BusPublishProofs` | theorems about the module each is named for | |
| `CommandsProofs` | theorems about the soak and the batch runs | `SoakRun`, `Batch` |
| `DataLemmas` | lemmas: induction, loops, sums, sequences, division | `Choosing` |
| `DataPathProofs`, `PagePathProofs` | theorems about the module each is named for | with `DataLemmas` |
| `MCHttpxGates`, `MCSharedClient`, `MCCommands`, `MCScrapeFetch`, `MCDataPath` | sets and definitions for TLC; the first three and the last put several modules side by side | |

An `MC*` module that puts modules side by side has a variable `subject`, chosen at the
start, that says which of them is exercised; the others stay as they are. It is a way to check
several modules in one run and claims nothing about their interaction. Where modules do
interact, they are composed: `HttpxClient` with `HttpxBreaker`, `DataPath` and `PagePath` with what they extend.

Operators commented `fault:` are plausible bugs, one beside the definition each would
replace. They are used to confirm that the property next to them in `PROJECT.json`
notices; no specification uses them.

### How state and actions correspond to the code

**HttpxBreaker.** `state`, `failures`, `lastFailure` are the fields of
`CircuitBreaker`; `now` is the clock. `RecordSuccess` and `RecordFailure` hold the write
lock throughout: one action each. `Allow` is four actions: it ends under its first read
lock (`AllowPass`, `AllowDeny`), or it drops that lock (`AllowExpired`, remembering its
`now` in `seen`), re-examines and promotes under the write lock (`AllowPromote`), and
reads the answer under a third lock (`AllowReread`). `at[c]` is the place of a caller.
`cb.window` (`Config.CircuitWindow`) is stored by the code and never read, so it is no
parameter.

**HttpxClient.** `pc[g]` is the place of a goroutine in `Do`; each exit is an action
(`CircuitOpen`, `Cancelled`, `NetworkError`, `RespondRetry`, `RespondOk`, `RespondFail`,
`LoopExhausted`, `FinishBody`). `conns` is the set of goroutines whose request or open body holds one
of `MaxConnsPerHost` connections. `recorded` is a history of the failures one call put on
record. How long limiter and backoff wait is abstracted: a wait ends at any time.

**HttpxLimiter.** Tokens are counted in fractions of which a token has `TokenTicks`, so
that one tick of the clock earns one fraction and all arithmetic is on integers.
`TakeToken` and `GoToSleep` are `Wait` up to the end of its first critical section,
`WakeUp` the second one, `Cancel` the branch of `ctx.Done()`. `paid` and `waited` are histories of what
was granted.

**CrumbAuth.** A crumb is the number of the server's rotation it belongs to. `holder` is
`m.mu`; `Bootstrap`, `Cookie`, `GotCrumb`, `NoCrumbGiven` are the two requests made under it.
`Do(status)` is what httpx returns for a status. `Rotate` is the server.

**ScrapeFetch.** `cache` is the robots entry of the host with its `FetchedAt`; `servedAt`
in it is a history. Looking at the cache, requesting, receiving and storing are separate
actions, as nothing is locked between them. `holder` is the bucket's `tb.mu`, which is
held over the sleep. `Fail` and `BackoffOver` are the loop of `Fetch`; `IsRetryableError` sorts the
kinds of errors as the texts in `errors.go` do.

**BusPublish.** `phase` is where the one goroutine is. `CanExecute` and `RecordFailure`/`RecordSuccess` are
`canExecute` and `recordResult` of the bus breaker; `SendChunk`, `SendLastChunk`, `SendFails` a turn of the
chunk loop of `PublishBars`. A failed send may have delivered its chunk. `errors` is the set of
kinds of errors the publisher returns: only wrapped ones for `BusPublisher`, also
`RetryableError` for the publisher of `retry_test.go`. An empty fetch counts as success, as in
`processSymbol`.

**SoakRun.** `wg`, `stopped` (`stopCh`) and `done` (the context) tie `Run` to its goroutines. A
request of a worker is a chain of actions, one per counter it touches, because each
counter is updated on its own. `ApiEndpoints` and `ScrapeEndpoints` are the two switches of
`worker.go`. The client and `golang.org/x/time/rate` are external.

**RootClient.** `place[g]` is where a goroutine is in a `Scrape*` call. `CachedMIC`, `MissMIC`,
`CompanyInfo` and `StoreMIC` are `inferMICForSymbol` with its three critical sections; a failed lookup
stores `NoMIC`. `TestLoaded`, `ReadPatterns`, `FillPatterns` are the nil test, the assignment of the global
pointer and the YAML being read into it, each its own step as no lock covers them; `PatternsUnreadable` is YAML that
does not parse, which fails the call and leaves the pointer set. `Panics` is the
nil dereference of `ParseNews` when the file could not be read; it ends the process for all goroutines. `lookups`
is a history.

**Batch.** `batch`, `next`, `slots` are `runBatch`'s loop and semaphore; `at[w]` is the worker of the w-th
ticker of the list, so that a ticker listed twice has two workers on the same `files`. A file is known by its name,
which is all `ShouldSkip` looks at. `LockTotals`, `ReadTotal`, `WriteTotal` and `UnlockTotals` are the block in which a worker adds its outcomes to
the totals, each addition a read and a write. `usesContext` names the
fetchers that look into the `FetchContext`, which `runBatch` leaves nil: all of the program's, none of
those in `batch_test.go`.

**DataPath.** `stage` goes from `"answered"` to `"decoded"`, `"normalized"`, and on to `"converted"` or to
`"emitted"` and `"published"` or `"previewed"`; `value` is what the stage produced, `Failed` for an error. The operators
carry the names of the Go functions. A float is a whole number of `Parts`-ths of its unit, so rounding
and overflow happen; the word is `-MaxInt - 1 .. MaxInt` and wraps.

**PagePath.** `pageStage` and `pageValue` likewise. Regular expressions find cells: a cell is the number that would be read,
the letter after it and whether it has commas, which is what the parsers tell apart. A moment is `[utc, zone]`, so
that a local clock read as UTC shows.

*What the data may be.* The theorems hold for every input the program can be given, so the modules say what
that is: `BarsResponses`, `QuoteResponses` and `FundamentalsResponses` (what JSON of the decoded Go types may hold), `ScaledDecimals`, the message sets of
`Emit`, `Clocks`, `Cells`, `Urls`, `Ages` and the `*Found` operators of `PagePath` (what patterns may find on a page of each kind). The
sets are infinite where the Go types are unbounded; the `MC` modules give the runs finite subsets of them, and
TLC checks the assumptions (`RequestsAssumption`, `OperationsAssumption`, `ConfigsAssumption`, `PageRequestsAssumption`) on those.

## 3. The runs

Five runs pass and seven fail; "fails" marks a run whose property is a claim
of the repository that the code does not keep (section 6).

| Run | Instance | Shows |
|---|---|---|
| `httpx_gates` | breaker: 3 callers, threshold 2, timeout 2, clock to 5; limiter: 2 goroutines, burst 1, 3 ticks per token, clock to 10 | `CountMatchesState`, `HalfOpenIsCooled`, `NoAdmissionWhileCooling` under every interleaving of `Allow`'s windows; the breaker implements `BreakerContract`; paid grants keep the rate, sleepers exceed it at most twofold each |
| `shared_client` | `Do`: 2 goroutines, 2 calls each, one connection, 0 or 2 attempts; crumb: 2 goroutines, 2 queries each, 2 rotations; scraping: 2 goroutines on one symbol, a call each, of all fundamentals, a balance sheet or the news | every attempt on record once (with 0 attempts allowed, one that was never made), connections released on every path, no early surrender, every call returns; one bootstrap for all, a failed one hangs nobody; lookups bounded and one answer for all |
| `commands` | pull: 5 symbols, 2 attempts, window 2, 2 probes, 1 or 2 chunks, both publishers, clock to 4; soak: 2 workers, a helper, the prober, 3 strategies (one invalid), one endpoint of each kind, 2 requests, 1 round; batch: a list with a repeated ticker, a daily and a two-day command, 1 or 2 slots, 2 attempts, 2 runs on 2 days with crashes | pull: breaker and count agree, probes never stick, chunks in order, published means complete, silence while open; soak: totals add up and are final; batch: totals that two workers add to at once add up; each ends |
| `scrape_fetch` | 2 goroutines, all 3 policies, TTL 1, robots timeout 1, 2 attempts, burst 1, calls begin before tick 3 | an enforced policy acts on fresh rules and one that warns ends nothing; grants at most double the rate; every `Fetch` returns; the types |
| `data_path` | every chart of 1 or 2 rows over a few prices, quotes, statements, decimals of a word of 8 bits, converters that fail at some amount, 9 bus configurations, payloads of 0 to 8 bytes; every page with one kind of cell in each row, full pages around the ends of days and quarters in 3 zones, lists of up to 3 articles | the nine invariants and one action property of section 1's last two lines |
| `httpx_limiter_rate` | 1 goroutine, clock to 14 | fails: `RateIsRespected` |
| `httpx_client_network` | `Do` as in `shared_client` | fails: `NetworkErrorsAreRetried` |
| `crumb_auth_401` | crumb as in `shared_client` | fails: `RetriesOn401` |
| `root_client_patterns` | scraping as in `shared_client` | fails: `ReadWithPatterns` |
| `bus_publish_no_retry` | pull, `BusPublisher` only | fails: `FailuresAreRetried` |
| `soak_run_fallback` | soak as in `commands` | fails: `FallbackIsServed` |
| `batch_reuse` | batch as in `commands` | fails: `FreshFilesAreReused` |

The type invariants are not runs' properties, but for `ScrapeFetch`'s: they are theorems (section 4), and were
checked by TLC before they were proved.

### Bounds, and why they are enough

- *Callers.* The interesting races have two or three roles: one goroutine in a window of
  `Allow`, one whose failure arrives late, one that was admitted before. The client,
  crumb, scrape and soak models need an actor and one that queues behind it or overtakes
  it. Where the number could matter (limiters, breaker) the theorems hold for any number.
- *Thresholds* of 2 distinguish "counted" from "tripped". With a timeout of 2 ticks and a
  clock of 5, a breaker opens, cools, probes, reopens and cools again.
- *Clocks* (`MaxClock`, `MaxTicks`, `MaxDay`) stop at a tick that leaves room for the longest story: three sleeps in
  a row (`HttpxLimiter`), an expiry and a refetch (`ScrapeFetch`), two openings
  (`BusPublish`), a change of both periods (`Batch`). In the limiter a call begins only while a whole sleep fits before the end; in
  `ScrapeFetch` the clock goes on past `MaxClock` while somebody sleeps; so the liveness
  properties are not true or false because of the bound.
- `MaxFailures` bounds the breaker's counter, and in `MCSharedClient` it is large enough never to be
  reached. `MaxCalls`, `MaxQueries`, `MaxScrapes`, `MaxRequests`, `MaxRounds`, `MaxRotations`, `MaxRuns`, `MaxChunks`, `Symbols` bound how much is begun,
  never whether something begun can finish. Five symbols open the breaker (two failures), let it
  cool, probe it twice and see it recover or reopen. A second batch run finds the files of the first,
  of this period or an earlier one. With one slot the workers of the batch come one after the other, with two they run together.
- *Small numbers in the data.* `MaxInt` is 127, a price has half cents (`Parts` is 2), a hundred and a thousand are the
  parameters `Hundred` = 2 and `Thousand` = 3 on pages, a day has 2 ticks and a quarter 2 days, a payload is 2 or 3 bytes at most per message:
  every carry, tie, overflow, boundary and remainder of the real units happens in the small ones, and
  the code's formulas do not depend on the values. The inputs vary one field at a time about a sound
  record, and prices in all combinations, where fields are compared with each other.
- *Articles*: three per page and at most `MaxArticles` = 2 kept, so that duplicates of a kept, a dropped and a
  duplicate article occur and the list is cut.
- *Deadlock* is not checked: every system stops (all calls made, the universe processed, the run printed,
  the clock at its end, the request answered). The liveness properties say what deadlock checking would.

### Fairness, and why the code justifies it

Goroutines inside a call are scheduled, timers fire, and every request ends because the
http clients have a `Timeout` (weak fairness of the steps of a call). `sync.Mutex` does not
starve a waiter (its starvation mode hands the lock over), which is strong fairness of the
steps of a goroutine in `CrumbAuth` and `ScrapeFetch`, where the mutex may come free again and
again before the waiter runs. The clock advances (weak fairness of the tick) where a sleep is
measured by it. In `SoakRun` the duration passes. In `Batch` main and the workers are scheduled, and a fetch ends.
Nobody is obliged to begin a call, to cancel a
context, to answer 2xx, to rotate a crumb, to crash or to start another run. Fairness of a whole call step means that some
enabled outcome happens, not that a particular one does. In the runs that put modules side by side each has the fairness
of its own specification, restricted to the subject; the breaker, the limiter, `RootClient` and the two paths of data have no liveness property and no fairness.

## 4. What is proved

All with TLAPS, for every set of callers, every threshold, timeout, burst,
rate, TTL and bound the assumptions admit. The assumptions are the named `ASSUME`s of the modules:
constants are naturals, and positive where the code's validation or arithmetic asks for it
(`HttpxBreaker` needs a positive threshold, the buckets a positive `TokenTicks`, that is a rate
that is not 0). Sets of callers may be infinite, except where the theorem counts goroutines
(`RootClient`, `SoakRun`); the workers of `Batch` are the tickers of a list, whose length is a natural. For the data: the word
has any width, `Parts`, `Hundred` and `Thousand` are any positive numbers, a day has at least one tick and a quarter at least two days (a quarter ends as its
last day begins, so one of a single day would be empty), a clock's zone is less than a day from UTC, and inputs are as section 2 says.

**HttpxGatesProofs, the breaker.** `TypeCorrect`, `CountAndStateAgree`, `HalfOpenAfterCoolDown`,
`AdmissionsWaitForCoolDown`, `BreakerImplementsContract`. The inductive invariant `BreakerInv` is the three
safety invariants and `NoTimeFromTheFuture` (`lastFailure` and every `seen[c]` are at most `now`). The
last part is the point: `AllowPromote` decides on `seen[c]`, read two locks earlier. That a
failure in the window moves `lastFailure` up makes the stale test fail and not pass, and `seen[c] <= now`
carries the test over to the clock as it is. Refinement: every step is a trip, a probe, a
recovery, a tick or a stutter of the contract; the only step that needs an argument is
`RecordFailure` (`FailureIsTripOrStutter`): below the threshold the breaker is closed and stays so, which is
`CountMatchesState`.

**HttpxGatesProofs, the limiter.** `BucketTypeCorrect`, `TokensKeepTheRate`, `WaitingAtMostDoubles`, `SerialUseBound`. Three
accounts are kept beside the types. `BucketAccount`: what is in the bucket and what was
paid was earned by `lastTime`. `SleeperAccount`: a goroutine's own waits are covered by
`lastTime + now`, because a wait is time that passed (`now`) and that time may be earned once more
(`lastTime`). `SerialAccount`: the two together when there is one caller. `SerialUseBound` is the positive
counterpart of the failing `RateIsRespected`: a lone caller gets up to twice the rate and no more.

**SharedClientProofs, the client.** `ClientTypeCorrect`, `AttemptsAreCounted`, `ConnectionsComeBack`, `RetriesToTheEnd`. `CallsInv` says for
each place in `Do` what the attempt, the result and the record may be: no result before the end, an
attempt left while a request is out, an attempt more for the backoff. A step moves one goroutine
(`OneMoves`), so each action only has to be looked at for its own. `PoolInv` adds that the connections are those of the
places that hold one, and are finite and at most `MaxConnsPerHost`: the set of callers need not be finite for it.
`ClientTypeOK` includes the breaker's types, which are shown again for its steps inside the client. `AttemptsAreCounted` has the exception of the
code in it: a call that leaves the loop without having entered it (`NothingSent`, `MaxAttempts` 0) has one failure on record all the same.

**SharedClientProofs, the crumb.** `CrumbTypeCorrect`, `BootstrapsOnce`. `CrumbInv`: whoever bootstraps holds the mutex, the crumb is still
missing then, and crumbs fetched are none without a crumb and one with it. That the crumb is never invalidated
(`NeverInvalidated`: `Do` returns an error for a 401) is used, so the theorem is about the code as it is.

**ScrapeFetchProofs.** `TypeCorrect` (including that the mutex is held by exactly the goroutine that
sleeps), `RateAtMostDoubles`, `PolicyIsKept`. `FetchInv` adds `GrantAccount` (as above, for all goroutines together:
the mutex over the sleep makes the sum, not only each share, at most double) and `RulesAge`: a
request in flight is at most `RobotsTimeout` old, and a cache entry was stored at most that long after
it was served, whichever goroutine stored it.

**SharedClientProofs, the root client.** `RootTypeCorrect`, `LookupsBounded`, `OneAnswerServesAll`. `LookupsInv`: while a symbol is not cached, its lookups are as
many as the goroutines now looking it up; once it is, there were more lookups than goroutines still at it, and no new
one begins. `AnswerInv`: with one lookup so far, whatever a goroutine carries or has put in a snapshot is what the cache holds.

**BusPublishProofs.** `CountAndStateAgree`, `HalfOpenCanBeProbed`, `TypeCorrect`, `RunsOfChunks`, `PublishedMeansDelivered`, `BusPublisherSendsOnce`,
`SilenceWhileOpen`, and `WindowDecides`, a fact about
configurations: since the count is first compared with the window and then a fraction of at most 1 of it is
asked for, `failure_threshold` never decides anything. `BreakerInv` is the breaker's part of the
types with its two properties: a half-open breaker keeps a count of at least `Window`, so a failed probe reopens it. `PullInv` adds `PhaseInv`
(what each phase of the loop knows: in the chunk loop what was sent ends with a run of the chunks before the current one,
and the breaker is not open there) and `OneRun` (a publisher without `RetryableError` has sent each chunk at most once).

**CommandsProofs, the soak.** `SoakTypeCorrect`, `NothingAfterTheResults`, `PrintedCountersAgree`, `TheTotalIsTheSum` (`ResultsAddUp`). `WgInv`: `o.wg` is the number of workers, helpers and probers
that run, so that 0 means none does. `SumInv`: each counter that lags behind another lags by exactly the
workers between the two additions. Both are kept by counting sets that change by one element (`Differ`, `Shift`). At the end nobody runs,
so nothing lags. `TheTotalIsTheSum` adds the sum over the endpoints, a fold over a set: `DataLemmas` shows that it is what an
enumeration of the set adds up to and that one addition to one endpoint moves it by one.

**CommandsProofs, the batch.** `EveryCommandIsCounted` (`TotalsAddUp`), `WorkersHoldSlots`. `WorkerInv`: a worker has an outcome for each command before
the one it is at, and for all of them when it comes to the totals' mutex. `MutexInv`: the mutex is held by the one worker that is between
`LockTotals` and `UnlockTotals`, and what it read of a total is still the total. `SumsInv`: each total is the number of the outcomes of its kind that
were counted so far, over all workers; an addition counts one more pair of worker and command. `SlotsInv`: the slots taken are those of the workers
that have begun and not returned.

**DataLemmas.** Most of what the data is computed with is a loop: elements kept of a slice, sequences flattened, sums, powers of ten.
The induction rule of the library has an operator for a parameter, which the provers cannot instantiate; `Induction` states it of the *set* of the
naturals a property holds for, which is a value, and follows from well-foundedness (`LeastNatural`). `Recursion` shows with it that a function defined by
its previous value exists, so that the `CHOOSE` behind a recursive function has what it chooses from. Each loop then has a named predicate that says
what it yields and a lemma that it does: `KeptSelects` (exactly the wanted elements, in order), `FlattenType`, `PowersOfTen`, the sums, and
`Division` and `DivisionUnique` for quotients and remainders.

**DataPathProofs.** `DataInvariant`, and from it every property of `DataPath` the run checks: `TheShapeIsKept`, `RefusalsAreKnown`, `ThePublicationIsWhole`,
`ThePreviewTells`, `TheDecimalsAreNear`, `TheConversionIsWhole` (an action property). `DataInv` says that what is held at a stage is the form of the request at that
stage (`DecodedOf`, `NormalOf`, `EmittedOf`, then the publication, the preview or the conversion), that nothing goes past an error, and that the bus has a valid
configuration. Without it a property of, say, the messages could only be stated of a value of unknown origin; with it each is a fact about
operators. The facts are the work: rounding is monotone (`RoundKeepsOrder`), so a bar's prices stay in order after they are scaled, whatever wraps being refused; windows of
days do not overlap if the days of the rows differ; what `Norm*` yields fails only those of `Emit*`'s checks that `RejectionsAreKnown` lists; chunks follow each other from the first byte
to the last and the preview's quotients count them (`ChunksAreWhole`, `ChunkSizesAddUp`); a topic built parses back, as long as its prefix has no dot (`BuiltTopicParses`).

**PagePathProofs.** `PageInvariant`, and from it every property of `PagePath` the run checks: `StatementsDoAgree`, `PeriodsDoHold`, `AmountsDoMatch`, `NewsDoesNotRepeat`. `PageInv`:
what is parsed is `ParsedOf` the request, what is mapped is `MappedOf` that, and reports are on the articles found (`FoundOn`), whether or not an earlier request had loaded the patterns.
`FiguresAre` puts what a mapped page of figures is in one place: lines of items of one period. The keys of its items are distinct and, for the two other statements, among
those of the financials with the same amounts. A period holds its moment by the division lemmas. `AmountsDoMatch` goes cell by cell: `Worth` relates a value to its cell, so many times over,
with one lemma per conversion (`WorthInThousands`, `WorthPerShare`, `WorthInShares`, `WorthOfStatistic`, `WorthOutstanding`, `WorthOfField`, `WorthOfCount`), `ColumnIs` says which cell the parser took,
and `ShownIs` that the property and the lemmas count alike. What it leaves out is what the property leaves out: the analysis page, the upside (which no cell shows),
and EBITDA and the cost of revenue on a page with another row whose title ends in theirs. For news, `Leaves` is what the loop of `deduplicateArticles` maintains: of what is left none is like an earlier one, and everything passed over
is like one that is left; as being alike is symmetric (`AlikeIsSymmetric`), the sort may put them in any order, and `Sorted` shows that it loses none.
`DataInv` and `PageInv` were checked by TLC on the instance of `data_path` before they were proved.

## 5. What is only model-checked

Liveness: `EveryCallReturns`, `EveryQueryReturns`, `EveryFetchReturns`, `PullEnds`, `RunReturns`, `BatchEnds`. TLAPS cannot reason
about ENABLED and fairness. Every other property of a passing run is a theorem.

No module has a RECURSIVE operator.

## 6. Where code and documentation disagree

Each of these is shown by a failing run:

1. `httpx_client_network`: `shouldRetry` (`internal/httpx/client.go:215`, "Network errors, timeouts, and context
   cancellation should be retried") compares with errors net/http never returns bare. A
   refused connection ends a call at its first attempt.
2. `httpx_limiter_rate`: after a sleep `Wait` leaves `lastTime` behind (`client.go:327`), so the slept time
   is earned again; a lone caller exceeds burst plus rate.
3. `bus_publish_no_retry`: `BusPublisher` wraps its failures and never returns a `RetryableError`, so
   `ExecuteWithRetry` never retries ("with retry and circuit breaker protection", `internal/bus/bus.go:59`).
4. `crumb_auth_401`: the retry "once on 401" (`internal/yahoo/quotesummary.go:15`) asks for a response with that
   status, and `Do` returns an error for it; a rotated crumb is kept for good.
5. `soak_run_fallback`: the endpoints that may fall back to scraping are exactly those the scraper's switch
   does not list (`docs/soak-testing.md:103`, "API Endpoints (with fallback to scraping)").
6. `root_client_patterns`: `LoadStatisticsRegexConfig` and its likes (`internal/scrape/statistics.go:115`, "Already loaded") return as soon as the global
   pointer is not nil, and it is assigned before the YAML is read into it: a second goroutine parses its page with empty patterns.
7. `batch_reuse`: `internal/cache/refresh.go:27`, "returns true if a fresh enough cached file exists", but *all* dated files must be fresh; after
   the first change of period nothing is ever skipped again.

Met while modelling, without a run of their own. In the clients:

- `Config.CircuitWindow` is never read; `TestCircuitBreakerRollingWindow`
  (`internal/httpx/circuit_breaker_test.go:104`) supposes a window. `failure_threshold` of the bus is irrelevant (`WindowDecides`).
- `internal/yahoo/auth.go:71` says a 403 of the cookie page is fine; `Do` makes it an error first.
  `internal/yahoo/client.go:107` says "using crumb auth", but no constructor the root client uses wires a manager.
- `NewRateLimiter` is given `int(QPS)`: 0.5 becomes 0, and `Wait` divides by it (`internal/httpx/client.go:91`); `2^attempt` of the backoff overflows for large attempts
  (`client.go:254`).
- `internal/scrape/errors.go:101` says "case-insensitive", and it is not: net/http's "Client.Timeout exceeded" is not retried.
  `processResponse`'s branch for other statuses is dead, because `Do` returns those as errors.
- `ScrapeAllFundamentals` drops the snapshots it has when a later page fails (`client.go:430`). `ParseNews` panics on the script path when its patterns were never loaded.
- `MaxAttempts` 0, what a `Config` without it has, sends nothing and still counts a failure (`internal/httpx/client.go:202`), so that such calls open the breaker.
- A 0 for `--max-workers` leaves the batch waiting for ever, and its registry's fetchers all dereference the nil `FetchContext` (`cmd/yfin/batch.go:112`): the
  program's batch panics at its first refetch.
- `internal/soak/probes.go:87` asks for a majority, 2 of 5 pass. `logCurrentMetrics` reads its totals one by one (`internal/soak/orchestrator.go:327`).
- `docs/usage.md:264` lists exit code 4 for publishing errors; it is never used, and `pull` exits 0 when some symbols failed. `os.Exit` skips the deferred shutdowns.

In the data:

- An equity or an operating cash flow makes emission refuse the whole statement: `internal/norm/fundamentals.go` names them `total_equity` and
  `operating_cashflow`, which emission's whitelist does not list (`RejectionsAreKnown`).
- `InferMIC` gives `"OTC"` for unlisted securities, three letters, which emission of bars refuses; the page mappers make it `"OTCM"`.
- Weekly, monthly and intraday bars get windows of one day. A quote made of a chart takes the last row even when it is null.
- A fractional fundamental fails the whole answer; `AsOf` of fundamentals is a constant date; market data has no currency, so converting it always fails, and no
  code but the tests' mock implements the converter. Prices beyond an int64 overflow silently.
- `MultiplyAndRound` rounds negative products toward zero (`DecimalsAreNear` states what holds). `FloatToScaled` compares with `float64(math.MaxInt64)`, which is
  2^63: exactly that passes the test and does not fit.
- `kafka` passes `ValidateConfig` and `NewBusPublisher` refuses it. The fundamentals topic lacks the market its partition key has. A dot in the topic prefix
  makes `ParseTopic` misread the topic. Chunk index and total never reach the bus. The preview announces balanced chunks
  and the publication cuts full ones and a remainder; both agree on number and sum (`PreviewTellsThePublication`).
- Statistics with a suffix are scaled by 100 too much and `T` is not read; `EBITDA` may be the normalised row and `cost_of_revenue` the reconciled one, as their patterns are not
  anchored (`regex/financials.yaml:11`); a quarter's period ends as its last day begins;
  analysis and insights use the host's clock as if it were UTC; a current price of 0 is divided by.
  Balance sheets and cash flows default to USD without looking at the financials page, which `cmd/yfin/main.go:1719` says they do.
- Empty pages give empty snapshots without an error. The result of `validateMonotonicPeriods` is discarded.
- `--out parquet` and the `news` endpoint of `preview-json` pass validation and then always fail; `handleFXPreview` converts nothing; `LoadConfigFromFile` ignores its file.

## 7. What is not modelled, and why

- *Regular expressions and HTML*: which cell a pattern of the YAML files finds on a real page. The models begin with the cells found.
  Company profiles, earnings dates and insider transactions (`internal/scrape/profile.go`, `internal/yahoo/earnings_dates.go`, `insider.go`) are copied
  field by field and have nothing to relate.
- *TWSE*: one request and one decoding per endpoint, without retries or state.
- *Configuration, observability, printing*: set once, or output only. Validated values appear as assumptions on constants; the bus
  configuration, which two places validate differently, is in `BusPayload`.
- *Latencies and counters of single error kinds* of the soak test, the values its probes compare, its failure server (no client
  is pointed at it) and the sampling of its memory monitor.
- *Rounding* of `time.Duration` below a tick, the lengths of backoff delays, division by a rate of 0 (excluded by assumption).
- *Commands that make one request and print it*, and the Prometheus, logging and tracing calls.
- *Run identities, user agents, headers, message texts*.

## 8. Plan

Written in this order: breaker and contract, client, limiter, bus, crumb, scraping, soak, with their
theorems; the data from Yahoo's answer to the bus; the scraped pages; the root client and the batch; the theorems about client, crumb, root client,
soak, the chunks and the batch; those about the data and the pages. What is left, most important first:

1. *An abstract caller contract for `Do`* (a response or an error, once per call) that `HttpxClient` refines and
   `CrumbAuth` and `ScrapeFetch` use in place of their own words for it.
2. *Backoff delays* of the three retry loops as operators: bounds and monotonicity, and the width of `2^attempt`.
3. *The soak probes*: what `ValidateTicker` compares, with the tolerances.
4. *Configuration*: `ampy_config.go`'s expansion of variables and its validation, as operators over the few values the other modules depend on.
