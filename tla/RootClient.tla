----------------------------- MODULE RootClient -----------------------------
(***************************************************************************)
(* The scraping calls of the root client, src/client.go, by several        *)
(* goroutines on one Client.  A call fetches a page, finds the symbol's    *)
(* market (inferMICForSymbol and its cache), parses the page with the      *)
(* patterns of the page's kind and maps it; ScrapeAllFundamentals does so  *)
(* for six pages, one after the other.  place[g]:                          *)
(*                                                                         *)
(*   "idle"   not in a call              "load"   at the pattern's nil test *)
(*   "fetch"  in scrapeClient.Fetch      "file"   found them nil           *)
(*   "cache"  before the RLock           "fill"   assigned, before the YAML *)
(*   "ask"    in FetchCompanyInfo        "parse"  before the extractors    *)
(*   "store"  before the Lock            "dead"   the process has panicked  *)
(*                                                                         *)
(* The patterns of a kind of page are a global pointer that no lock        *)
(* protects: "absent" is nil, "empty" a structure the YAML has not filled, *)
(* "loaded" one it has.  Its reads and writes are taken one at a time.     *)
(* External: the pages and the company lookups, which answer or fail; the  *)
(* market of a symbol is one value, Listed, and no market is NoMIC.        *)
(* MaxScrapes bounds the calls of a goroutine.                             *)
(***************************************************************************)
EXTENDS Integers, Sequences, FiniteSets

CONSTANTS Goroutines, Symbols, Calls, Listed, MaxScrapes

NotCached == "none"
NoMIC == "empty"         \* the empty string, cached for a failed lookup

(* The six fundamentals in the order of ScrapeAllFundamentals. *)
AllFundamentals == <<"financials", "balance-sheet", "cash-flow", "key-statistics",
                     "analysis", "analyst-insights">>

(* Statements share the patterns of financials.yaml. *)
Kind(page) == IF page \in {"balance-sheet", "cash-flow"} THEN "financials" ELSE page
Kinds == {"financials", "key-statistics", "analysis", "analyst-insights", "news"}
PageNames == Kinds \cup {"balance-sheet", "cash-flow"}

ASSUME GoroutinesAssumption == IsFiniteSet(Goroutines)
ASSUME ScrapeCallsAssumption == Calls \subseteq Seq(PageNames) \ {<<>>}
ASSUME ListedAssumption == Listed \notin {NoMIC, NotCached}
ASSUME ScrapesAssumption == MaxScrapes \in Nat

VARIABLES
  micCache,   \* c.micCache: NoMIC or Listed for the symbols it holds
  patterns,   \* regexConfig, financialsRegexConfig and their likes, per kind
  place, scraped, pages,    \* per goroutine: the symbol, the pages still to do
  mic,                      \* what inferMICForSymbol returned
  snapshots,                \* what its call has read so far
  ended,                    \* how its last call ended
  scrapes,
  lookups                   \* history: company lookups begun, per symbol

rootVars == <<micCache, patterns, place, scraped, pages, mic, snapshots, ended, scrapes,
              lookups>>

ScrapePlaces == {"idle", "fetch", "cache", "ask", "store", "load", "file", "fill", "parse", "dead"}

SnapshotRecords ==
  [page : PageNames, symbol : Symbols, mic : {NoMIC, Listed}, read : {"empty", "loaded"}]

RootTypeOK ==
  /\ micCache \in [Symbols -> {NotCached, NoMIC, Listed}]
  /\ patterns \in [Kinds -> {"absent", "empty", "loaded"}]
  /\ place \in [Goroutines -> ScrapePlaces]
  /\ scraped \in [Goroutines -> Symbols]
  /\ pages \in [Goroutines -> Seq(PageNames)]
  /\ \A g \in Goroutines : place[g] \notin {"idle", "dead"} => pages[g] # <<>>
  /\ mic \in [Goroutines -> {NoMIC, Listed}]
  /\ snapshots \in [Goroutines -> Seq(SnapshotRecords)]
  /\ ended \in [Goroutines -> {"none", "ok", "error"}]
  /\ scrapes \in [Goroutines -> 0..MaxScrapes]
  /\ lookups \in [Symbols -> Nat]

RootInit ==
  /\ micCache = [s \in Symbols |-> NotCached]
  /\ patterns = [k \in Kinds |-> "absent"]
  /\ place = [g \in Goroutines |-> "idle"]
  /\ scraped \in [Goroutines -> Symbols]
  /\ pages = [g \in Goroutines |-> <<>>]
  /\ mic = [g \in Goroutines |-> NoMIC]
  /\ snapshots = [g \in Goroutines |-> <<>>]
  /\ ended = [g \in Goroutines |-> "none"]
  /\ scrapes = [g \in Goroutines |-> 0]
  /\ lookups = [s \in Symbols |-> 0]

-----------------------------------------------------------------------------
GoTo(g, where) == place' = [place EXCEPT ![g] = where]

Call(g) ==
  /\ place[g] = "idle" /\ scrapes[g] < MaxScrapes
  /\ \E s \in Symbols, call \in Calls :
       scraped' = [scraped EXCEPT ![g] = s] /\ pages' = [pages EXCEPT ![g] = call]
  /\ scrapes' = [scrapes EXCEPT ![g] = @ + 1]
  /\ snapshots' = [snapshots EXCEPT ![g] = <<>>]
  /\ ended' = [ended EXCEPT ![g] = "none"]
  /\ GoTo(g, "fetch")
  /\ UNCHANGED <<micCache, patterns, mic, lookups>>

(* An error anywhere ends the call; what ScrapeAllFundamentals had so far   *)
(* goes with it.                                                            *)
Discard(g) == snapshots' = [snapshots EXCEPT ![g] = <<>>]

Fail(g) ==
  /\ ended' = [ended EXCEPT ![g] = "error"]
  /\ Discard(g)
  /\ GoTo(g, "idle")

(* News need no market, and no patterns for the stories it holds as JSON. *)
NotForTheBalance(page) ==                        \* fault: one page asks for no market
  IF page \in {"news", "balance-sheet"} THEN {"load"} ELSE {"cache"}
AfterFetch(page) == IF page = "news" THEN {"load", "parse"} ELSE {"cache"}

FetchPage(g) ==
  /\ place[g] = "fetch"
  /\ \E next \in AfterFetch(Head(pages[g])) : GoTo(g, next)
  /\ UNCHANGED <<micCache, patterns, scraped, pages, mic, snapshots, ended, scrapes, lookups>>

FetchPageFails(g) ==
  /\ place[g] = "fetch"
  /\ Fail(g)
  /\ UNCHANGED <<micCache, patterns, scraped, pages, mic, scrapes, lookups>>

-----------------------------------------------------------------------------
(* inferMICForSymbol *)
MarketFound(s) == micCache[s] # NoMIC /\ micCache[s] # NotCached   \* fault: NoMIC is a miss
Cached(s) == micCache[s] # NotCached

CachedMIC(g) ==
  /\ place[g] = "cache" /\ Cached(scraped[g])
  /\ mic' = [mic EXCEPT ![g] = micCache[scraped[g]]]
  /\ GoTo(g, "load")
  /\ UNCHANGED <<micCache, patterns, scraped, pages, snapshots, ended, scrapes, lookups>>

MissMIC(g) ==
  /\ place[g] = "cache" /\ ~ Cached(scraped[g])
  /\ lookups' = [lookups EXCEPT ![scraped[g]] = @ + 1]
  /\ GoTo(g, "ask")
  /\ UNCHANGED <<micCache, patterns, scraped, pages, mic, snapshots, ended, scrapes>>

(* A lookup that fails gives the empty market. *)
CompanyInfo(g) ==
  /\ place[g] = "ask"
  /\ \E market \in {NoMIC, Listed} : mic' = [mic EXCEPT ![g] = market]
  /\ GoTo(g, "store")
  /\ UNCHANGED <<micCache, patterns, scraped, pages, snapshots, ended, scrapes, lookups>>

StoreMIC(g) ==
  /\ place[g] = "store"
  /\ micCache' = [micCache EXCEPT ![scraped[g]] = mic[g]]
  /\ GoTo(g, "load")
  /\ UNCHANGED <<patterns, scraped, pages, mic, snapshots, ended, scrapes, lookups>>

-----------------------------------------------------------------------------
(* LoadRegexConfig and its likes *)
TestLoaded(g) ==
  /\ place[g] = "load"
  /\ IF patterns[Kind(Head(pages[g]))] = "absent" THEN GoTo(g, "file") ELSE GoTo(g, "parse")
  /\ UNCHANGED <<micCache, patterns, scraped, pages, mic, snapshots, ended, scrapes, lookups>>

(* The file is read before the pointer is assigned. *)
ReadPatterns(g) ==
  /\ place[g] = "file"
  /\ patterns' = [patterns EXCEPT ![Kind(Head(pages[g]))] = "empty"]
  /\ GoTo(g, "fill")
  /\ UNCHANGED <<micCache, scraped, pages, mic, snapshots, ended, scrapes, lookups>>

NoPatterns(g) ==
  /\ place[g] = "file"
  /\ Fail(g)
  /\ UNCHANGED <<micCache, patterns, scraped, pages, mic, scrapes, lookups>>

(* yaml.Unmarshal.  When it fails the pointer stays assigned, and every     *)
(* later call takes the empty patterns for loaded ones.                     *)
PatternsUnreadable(g) ==
  /\ place[g] = "fill"
  /\ Fail(g)
  /\ UNCHANGED <<micCache, patterns, scraped, pages, mic, scrapes, lookups>>

FillPatterns(g) ==
  /\ place[g] = "fill"
  /\ patterns' = [patterns EXCEPT ![Kind(Head(pages[g]))] = "loaded"]
  /\ GoTo(g, "parse")
  /\ UNCHANGED <<micCache, scraped, pages, mic, snapshots, ended, scrapes, lookups>>

-----------------------------------------------------------------------------
Snapshot(g) == [page |-> Head(pages[g]), symbol |-> scraped[g], mic |-> mic[g],
                read |-> patterns[Kind(Head(pages[g]))]]

(* The page is parsed and mapped: empty patterns find nothing, and nothing  *)
(* found is no error.                                                       *)
ParsePage(g) ==
  /\ place[g] = "parse" /\ patterns[Kind(Head(pages[g]))] # "absent"
  /\ snapshots' = [snapshots EXCEPT ![g] = Append(@, Snapshot(g))]
  /\ pages' = [pages EXCEPT ![g] = Tail(@)]
  /\ IF Len(pages[g]) = 1
       THEN GoTo(g, "idle") /\ ended' = [ended EXCEPT ![g] = "ok"]
       ELSE GoTo(g, "fetch") /\ UNCHANGED ended
  /\ UNCHANGED <<micCache, patterns, scraped, mic, scrapes, lookups>>

ParseFails(g) ==
  /\ place[g] = "parse" /\ patterns[Kind(Head(pages[g]))] # "absent"
  /\ Fail(g)
  /\ UNCHANGED <<micCache, patterns, scraped, pages, mic, scrapes, lookups>>

(* extractNextPageHint follows the nil pointer. *)
Panics(g) ==
  /\ place[g] = "parse" /\ patterns[Kind(Head(pages[g]))] = "absent"
  /\ place' = [h \in Goroutines |-> "dead"]
  /\ UNCHANGED <<micCache, patterns, scraped, pages, mic, snapshots, ended, scrapes, lookups>>

ScrapeStep(g) ==
  \/ FetchPage(g) \/ FetchPageFails(g)
  \/ CachedMIC(g) \/ MissMIC(g) \/ CompanyInfo(g) \/ StoreMIC(g)
  \/ TestLoaded(g) \/ ReadPatterns(g) \/ NoPatterns(g)
  \/ FillPatterns(g) \/ PatternsUnreadable(g)
  \/ ParsePage(g) \/ ParseFails(g) \/ Panics(g)

RootNext == \E g \in Goroutines : Call(g) \/ ScrapeStep(g)

RootSpec == RootInit /\ [][RootNext]_rootVars

-----------------------------------------------------------------------------
(* What the cache is for: a symbol is looked up at most once by each        *)
(* goroutine, those that raced for the first answer, however many pages and *)
(* calls follow and whether or not the lookups succeeded.                   *)
LookupsAreShared == \A s \in Symbols : lookups[s] <= Cardinality(Goroutines)

(* The snapshots of a symbol a single lookup has served agree on its        *)
(* market, whichever goroutines and calls they come from.                   *)
OneLookupOneMarket ==
  \A g, h \in Goroutines :
    \A i \in DOMAIN snapshots[g], j \in DOMAIN snapshots[h] :
      LET a == snapshots[g][i]  b == snapshots[h][j] IN
      a.page # "news" /\ b.page # "news" /\ a.symbol = b.symbol /\ lookups[a.symbol] = 1
        => a.mic = b.mic

(* What the comment of LoadRegexConfig says of its early return: "Already   *)
(* loaded".  A page of figures is then never read with patterns that are not. *)
ReadWithPatterns ==
  \A g \in Goroutines : \A i \in DOMAIN snapshots[g] :
    snapshots[g][i].page # "news" => snapshots[g][i].read = "loaded"
==============================================================================
