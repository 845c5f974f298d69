-------------------------------- MODULE News --------------------------------
(***************************************************************************)
(* News: internal/scrape/extract_news.go takes articles out of a page,     *)
(* internal/emit/map_news.go and the news half of scrape_mapper.go make    *)
(* messages of them.                                                       *)
(*                                                                         *)
(* A page holds the story blocks of an embedded script and the article     *)
(* containers of its markup.  A URL is its scheme ("" for none), its host  *)
(* (Nil for none, in lower case), its path (a sequence), the names of its  *)
(* query, and whether url.Parse takes it.  Times are in minutes, a moment  *)
(* is [utc, zone] as in ScrapedPages.  Titles are compared in lower case:  *)
(* `Lowered`.                                                              *)
(***************************************************************************)
EXTENDS Decimals, SequencesExt

CONSTANTS MaxArticles,      \* 25
          Panic             \* the parser panicked

ASSUME ArticlesAssumption == MaxArticles \in Nat \ {0}

Lowered(title) == IF title = "STORY" THEN "story" ELSE title

-----------------------------------------------------------------------------
(* Tracking parameters are cut out of the text of a URL: when the first of *)
(* the query is one, "?" goes with it and the others stick to the path.    *)
TrackingParams == {"utm_source", "guccounter"}
cleanTrackingParams(url) ==
  LET kept == Kept(url.query, ToSet(url.query) \ TrackingParams) IN
  IF kept # <<>> /\ Head(url.query) \in TrackingParams
    THEN [url EXCEPT !.path = @ \o kept, !.query = <<>>]
    ELSE [url EXCEPT !.query = kept]

(* An age is [unit, count].  Yesterday is a date of the clock's own zone   *)
(* that is then said to be of UTC.                                         *)
MinutesIn == [minutes |-> 1, hours |-> 60, days |-> 1440, weeks |-> 7 * 1440]
parseRelativeTime(age, now) ==
  IF age.unit = "yesterday" THEN ((now.utc + now.zone) \div 1440 - 1) * 1440
  ELSE now.utc - age.count * MinutesIn[age.unit]

(* Whatever part is not an age that is understood is the source.           *)
Understood(part) == part.unit \in DOMAIN MinutesIn \cup {"yesterday"}
parsePublishingInfo(parts, now) ==
  LET ages  == Kept(parts, {part \in ToSet(parts) : Understood(part)})
      words == Kept(parts, {part \in ToSet(parts) : ~ Understood(part)}) IN
  [source |-> IF words = <<>> THEN "" ELSE Last(words).text,
   published |-> IF ages = <<>> THEN Nil ELSE parseRelativeTime(Last(ages), now)]

ArticlesOf(items, Read(_)) ==
  LET readable == Kept(items, {item \in ToSet(items) : item.title # "" /\ item.url # Nil}) IN
  [i \in DOMAIN readable |-> Read(readable[i])]

parseArticleFromContainer(container, now) ==
  LET info == parsePublishingInfo(container.info, now) IN
  [title |-> container.title, url |-> cleanTrackingParams(container.url),
   source |-> info.source, published |-> info.published]

(* A block ends where its first nested object does, so that the URL and    *)
(* the provider are never both in it; its URL is left as it is.            *)
extractArticlesFromNewsJSON(blocks) ==
  ArticlesOf(blocks, LAMBDA block :
    [title |-> block.title, url |-> block.url, source |-> block.source,
     published |-> block.published])

(* The last block of a title fills what its articles lack. *)
enrichArticlesWithJSONMeta(articles, blocks) ==
  [i \in DOMAIN articles |->
     LET named == Kept(blocks, {block \in ToSet(blocks) :
                    block.title # "" /\ Lowered(block.title) = Lowered(articles[i].title)}) IN
     IF named = <<>> THEN articles[i]
     ELSE [articles[i] EXCEPT
             !.source = IF @ = "" THEN Last(named).source ELSE @,
             !.published = IF @ = Nil THEN Last(named).published ELSE @]]

-----------------------------------------------------------------------------
(* A URL that does not parse is compared as it stands. *)
normalizeURLForDedup(url) ==
  IF url.parses THEN [scheme |-> url.scheme, host |-> url.host, path |-> url.path] ELSE url

SameTime(a, b) ==
  IF a = Nil \/ b = Nil THEN a = Nil /\ b = Nil ELSE a - b \in -2..2

SameStory(a, b) ==
  /\ Lowered(a.title) = Lowered(b.title) /\ a.source = b.source
  /\ SameTime(a.published, b.published)

Repeats(article, kept) ==
  \E i \in DOMAIN kept :
    \/ normalizeURLForDedup(article.url) = normalizeURLForDedup(kept[i].url)
    \/ SameStory(article, kept[i])

Newer(a, b) == a.published # Nil /\ (b.published = Nil \/ a.published > b.published)

(* sort.Slice may put articles that compare equal in any order. *)
SortedArticles(kept) ==
  {sorted \in SetToSeqs(ToSet(kept)) :
     \A i, j \in DOMAIN sorted : i < j => ~ Newer(sorted[j], sorted[i])}

(* What is left of the articles, one after the other, when those that      *)
(* repeat an earlier one that is left are passed over.                     *)
Unrepeated(articles) ==
  LET left[n \in 0..Len(articles)] ==
        IF n = 0 THEN <<>>
        ELSE IF Repeats(articles[n], left[n - 1]) THEN left[n - 1]
        ELSE Append(left[n - 1], articles[n])
  IN left[Len(articles)]

ComparesNeighbours(articles) ==      \* fault: only the one before is compared with
  SortedArticles(LET K == {a \in ToSet(articles) : ~ \E i \in DOMAIN articles :
                             i > 1 /\ a = articles[i] /\ Repeats(a, <<articles[i - 1]>>)}
                 IN Kept(articles, K))
deduplicateArticles(articles) == SortedArticles(Unrepeated(articles))

(* What is returned and the statistics that go with it. *)
Report(articles, sorted, page) ==
  [articles |-> SubSeq(sorted, 1, IF Len(sorted) > MaxArticles THEN MaxArticles
                                  ELSE Len(sorted)),
   totalFound |-> Len(articles), deduped |-> Len(articles) - Len(sorted),
   nextPageHint |-> page.hint]

Reports(articles, page) ==
  {Report(articles, sorted, page) : sorted \in deduplicateArticles(articles)}

parseNewsFromHTML(page, now) ==
  LET found == ArticlesOf(page.containers, LAMBDA c : parseArticleFromContainer(c, now))
  IN IF found = <<>> THEN {Failed}
     ELSE Reports(enrichArticlesWithJSONMeta(found, page.blocks), page)

(* The patterns of the markup are loaded by its parser only, and the hint  *)
(* for the next page is looked for with them: a page whose stories are all *)
(* in the script panics unless an earlier one has loaded them.             *)
ParseNews(page, now, loaded) ==
  LET stories == extractArticlesFromNewsJSON(page.blocks) IN
  IF stories = <<>> THEN parseNewsFromHTML(page, now)
  ELSE IF ~ loaded THEN {Panic}
  ELSE Reports(stories, page)

-----------------------------------------------------------------------------
(* map_news.go: an article that cannot be mapped fails all of them.        *)
RemovedParams == {"utm_source", "ref", "source"}
normalizeNewsURL(url) ==
  LET scheme == IF url.scheme = "" THEN "https" ELSE url.scheme IN
  IF ~ url.parses \/ scheme \notin {"http", "https"} \/ url.host = Nil THEN Failed
  ELSE [url EXCEPT !.scheme = scheme,
                   !.query = Kept(@, ToSet(@) \ RemovedParams)]

(* A few of the names a source goes by. *)
cleanNewsSource(source) ==
  CASE source = "" -> "unknown"
    [] source \in {"yahoo", "Yahoo! Finance"} -> "Yahoo Finance"
    [] OTHER -> source

mapSingleNewsItem(item, now) ==
  [headline |-> item.title, url |-> normalizeNewsURL(item.url),
   source |-> cleanNewsSource(item.source),
   publishedAt |-> IF item.published # Nil /\ item.published > now.utc + 5
                     THEN now.utc ELSE item.published]

MapNewsItems(items, now) ==
  IF \E i \in DOMAIN items : normalizeNewsURL(items[i].url) = Failed THEN Failed
  ELSE [i \in DOMAIN items |-> mapSingleNewsItem(items[i], now)]
=============================================================================
