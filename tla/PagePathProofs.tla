---------------------------- MODULE PagePathProofs ----------------------------
(***************************************************************************)
(* Proofs about PagePath: every property the runs check of it holds for    *)
(* every page, market, clock and limit that its assumptions allow.         *)
(*                                                                         *)
(* The invariant PageInv says that what is held at a stage is a function   *)
(* of the request (ParsedOf, MappedOf, the reports on FoundOn).  Each      *)
(* property is then a fact about those: what items a page has and what     *)
(* lines are made of them, what a period holds, what a cell is worth, and  *)
(* what is left of articles when the repeated ones are passed over.        *)
(***************************************************************************)
EXTENDS PagePath, DataLemmas

-----------------------------------------------------------------------------
(* ---- The lines of a message ---- *)

(* What Lines makes of items: line i is that of item at[i], in order. *)
MadeFrom(lines, items, period, at) ==
  /\ Len(lines) \in Nat /\ DOMAIN lines = 1..Len(lines)
  /\ at \in [1..Len(lines) -> 1..Len(items)]
  /\ \A i, j \in 1..Len(lines) : i < j => at[i] < at[j]
  /\ \A i \in 1..Len(lines) :
       LET item == items[at[i]] IN
       /\ lines[i] = createLineItem(item[1], item[2], item[3], period)
       /\ Mappable(item[2])
  /\ \A k \in 1..Len(items) : Mappable(items[k][2]) => \E i \in 1..Len(lines) : at[i] = k

(* A line is made of every item that can be mapped, and of no other. *)
LEMMA LinesAre ==
  ASSUME NEW S, NEW items \in Seq(S), NEW period
  PROVE  \E at : MadeFrom(Lines(items, period), items, period, at)
<1> DEFINE K == {item \in ToSet(items) : Mappable(item[2])}
           mapped == Kept(items, K)
           lines == [i \in DOMAIN mapped |->
                       createLineItem(mapped[i][1], mapped[i][2], mapped[i][3], period)]
<1>1. Lines(items, period) = lines
  BY DEF Lines
<1>2. mapped \in Seq(S)
  BY KeptSelects
<1>3. PICK at : Selects(at, mapped, items, Len(items), K)
  BY KeptSelects
<1>4. \A k \in 1..Len(items) : items[k] \in K <=> Mappable(items[k][2])
  BY DEF ToSet
<1>5. \A item \in K : Mappable(item[2])
  OBVIOUS
<1> HIDE DEF mapped, K
<1>6. /\ at \in [1..Len(mapped) -> 1..Len(items)]
      /\ \A i, j \in 1..Len(mapped) : i < j => at[i] < at[j]
      /\ \A i \in 1..Len(mapped) : mapped[i] = items[at[i]] /\ mapped[i] \in K
      /\ \A k \in 1..Len(items) : items[k] \in K => \E i \in 1..Len(mapped) : at[i] = k
  BY <1>3 DEF Selects
<1>7. Len(mapped) \in Nat /\ DOMAIN mapped = 1..Len(mapped)
  BY <1>2
<1>8. /\ lines = [i \in 1..Len(mapped) |->
                    createLineItem(mapped[i][1], mapped[i][2], mapped[i][3], period)]
      /\ Len(lines) = Len(mapped) /\ DOMAIN lines = 1..Len(lines)
  BY <1>7
<1>9. \A i \in 1..Len(lines) :
        lines[i] = createLineItem(mapped[i][1], mapped[i][2], mapped[i][3], period)
  BY <1>8
<1> HIDE DEF lines
<1>10. MadeFrom(lines, items, period, at)
  BY <1>4, <1>5, <1>6, <1>7, <1>8, <1>9 DEF MadeFrom
<1> QED BY <1>1, <1>10

(* No two items have one key: then no two lines have. *)
Distinct(items) == \A i, j \in DOMAIN items : items[i][1] = items[j][1] => i = j

(* Items with distinct keys make lines with distinct keys. *)
LEMMA LinesAreDistinct ==
  ASSUME NEW S, NEW items \in Seq(S), NEW period, Distinct(items)
  PROVE  LET lines == Lines(items, period) IN
         /\ ValidateMonotonicPeriods(lines)
         /\ Cardinality({lines[i].key : i \in DOMAIN lines}) = Len(lines)
<1>1. PICK lines : lines = Lines(items, period)
  OBVIOUS
<1>2. PICK at : MadeFrom(lines, items, period, at)
  BY <1>1, LinesAre
<1>3. /\ Len(lines) \in Nat /\ DOMAIN lines = 1..Len(lines)
      /\ at \in [1..Len(lines) -> 1..Len(items)]
      /\ \A i, j \in 1..Len(lines) : i < j => at[i] < at[j]
      /\ \A i \in 1..Len(lines) : lines[i].key = items[at[i]][1]
  BY <1>2 DEF MadeFrom, createLineItem
<1>4. ASSUME NEW i \in 1..Len(lines), NEW j \in 1..Len(lines), lines[i].key = lines[j].key
      PROVE  i = j
  <2>1. at[i] \in 1..Len(items) /\ at[j] \in 1..Len(items)
    BY <1>3
  <2>2. at[i] = at[j]
    BY <1>3, <1>4, <2>1 DEF Distinct
  <2>3. ~ (at[i] < at[j]) /\ ~ (at[j] < at[i])
    BY <2>1, <2>2
  <2>4. ~ (i < j) /\ ~ (j < i)
    BY <1>3, <2>3
  <2> QED BY <1>3, <2>4
<1>5. ValidateMonotonicPeriods(lines)
  BY <1>3, <1>4 DEF ValidateMonotonicPeriods
<1> DEFINE keys == {lines[i].key : i \in DOMAIN lines}
           key == [i \in 1..Len(lines) |-> lines[i].key]
<1>6. Cardinality(keys) = Len(lines)
  <2>1. key \in Bijection(1..Len(lines), keys)
    <3>1. key \in [1..Len(lines) -> keys]
      BY <1>3
    <3>2. \A i, j \in 1..Len(lines) : key[i] = key[j] => i = j
      BY <1>4
    <3>3. \A k \in keys : \E i \in 1..Len(lines) : key[i] = k
      BY <1>3
    <3> QED BY <3>1, <3>2, <3>3 DEF Bijection, Injection, Surjection, IsInjective
  <2>3. ExistsBijection(1..Len(lines), keys)
    BY <2>1 DEF ExistsBijection
  <2> HIDE DEF keys, key
  <2> QED BY <1>3, <2>3, FS_CountingElements
<1> QED BY <1>1, <1>5, <1>6

-----------------------------------------------------------------------------
(* ---- Articles ---- *)

(* An article that was found, and a list of them. *)
IsArticle(a) ==
  /\ a = [title |-> a.title, url |-> a.url, source |-> a.source, published |-> a.published]
  /\ a.url \in Urls /\ a.published \in Int \cup {Nil}
AreArticles(s) ==
  /\ Len(s) \in Nat /\ s = [i \in 1..Len(s) |-> s[i]]
  /\ \A i \in 1..Len(s) : IsArticle(s[i])

(* A URL is one after its tracking parameters are cut. *)
LEMMA CleanedURL ==
  ASSUME NEW url \in Urls
  PROVE  cleanTrackingParams(url) \in Urls
<1> DEFINE K == ToSet(url.query) \ TrackingParams
           kept == Kept(url.query, K)
<1>1. url.query \in Seq(STRING) /\ url.path \in Seq(STRING) /\ url.scheme \in STRING
  BY DEF Urls
<1>2. kept \in Seq(STRING)
  BY <1>1, KeptSelects
<1>3. /\ [url EXCEPT !.path = @ \o kept, !.query = <<>>] \in Urls
      /\ [url EXCEPT !.query = kept] \in Urls
  <2> HIDE DEF kept
  <2>1. url.path \o kept \in Seq(STRING) /\ <<>> \in Seq(STRING)
    BY <1>1, <1>2
  <2> QED BY <1>2, <2>1 DEF Urls
<1> HIDE DEF kept
<1>4. cleanTrackingParams(url) \in
        {[url EXCEPT !.path = @ \o kept, !.query = <<>>], [url EXCEPT !.query = kept]}
  BY ZenonT(30) DEF cleanTrackingParams, kept
<1> QED BY <1>3, <1>4

(* An age that is understood gives a time. *)
LEMMA ReadAge ==
  ASSUME NEW part \in Ages, NEW now \in [utc : Int, zone : Int], Understood(part)
  PROVE  parseRelativeTime(part, now) \in Int
<1>1. now.utc \in Int /\ now.zone \in Int /\ part.count \in Int
  BY DEF Ages
<1>2. CASE part.unit = "yesterday"
  BY <1>1, <1>2 DEF parseRelativeTime
<1>3. CASE part.unit # "yesterday"
  <2>1. part.unit \in DOMAIN MinutesIn
    BY <1>3 DEF Understood
  <2>2. \A unit \in DOMAIN MinutesIn : MinutesIn[unit] \in Int
    BY DEF MinutesIn
  <2>3. PICK minutes \in Int : minutes = MinutesIn[part.unit]
    BY <2>1, <2>2
  <2>4. part.count * minutes \in Int
    BY <1>1, <2>3
  <2> QED BY <1>1, <1>3, <2>3, <2>4 DEF parseRelativeTime
<1> QED BY <1>2, <1>3

(* So the parts of an article give a time or none. *)
LEMMA PublishedAt ==
  ASSUME NEW parts \in Seq(Ages), NEW now \in [utc : Int, zone : Int]
  PROVE  parsePublishingInfo(parts, now).published \in Int \cup {Nil}
<1> DEFINE K == {part \in ToSet(parts) : Understood(part)}
           ages == Kept(parts, K)
<1>1. ages \in Seq(Ages) /\ \E at : Selects(at, ages, parts, Len(parts), K)
  BY KeptSelects
<1>2. \A k \in K : Understood(k)
  OBVIOUS
<1>3. parsePublishingInfo(parts, now).published =
        IF ages = <<>> THEN Nil ELSE parseRelativeTime(Last(ages), now)
  BY DEF parsePublishingInfo
<1> HIDE DEF ages, K
<1>4. ASSUME ages # <<>> PROVE Last(ages) \in Ages /\ Understood(Last(ages))
  <2>1. Len(ages) \in 1..Len(ages)
    BY <1>1, <1>4
  <2>2. \A i \in 1..Len(ages) : ages[i] \in K
    BY <1>1 DEF Selects
  <2> QED BY <1>1, <1>2, <2>1, <2>2 DEF Last
<1>5. CASE ages = <<>>
  BY <1>3, <1>5
<1>6. CASE ages # <<>>
  BY <1>3, <1>4, <1>6, ReadAge
<1> QED BY <1>5, <1>6

(* Neither its title nor its URL is missing. *)
Readable(item) == item.title # "" /\ item.url # Nil

(* The stories of a page's script are articles. *)
LEMMA StoriesAre ==
  ASSUME NEW page, NewsFound(page)
  PROVE  AreArticles(extractArticlesFromNewsJSON(page.blocks))
<1> DEFINE blocks == page.blocks
           K == {item \in ToSet(blocks) : Readable(item)}
           readable == Kept(blocks, K)
           Read(b) == [title |-> b.title, url |-> b.url, source |-> b.source,
                       published |-> b.published]
           stories == [i \in DOMAIN readable |-> Read(readable[i])]
           T == [title : STRING, url : Urls \cup {Nil}, source : STRING,
                 published : Int \cup {Nil}]
<1>1. readable \in Seq(T) /\ \E at : Selects(at, readable, blocks, Len(blocks), K)
  BY KeptSelects DEF NewsFound
<1>2. extractArticlesFromNewsJSON(page.blocks) = stories
  BY ZenonT(30) DEF extractArticlesFromNewsJSON, ArticlesOf, Readable
<1>3. \A k \in K : k.url # Nil
  BY DEF Readable
<1> HIDE DEF readable, K
<1>40. \A i \in 1..Len(readable) : readable[i] \in K
  BY <1>1 DEF Selects
<1> HIDE DEF T
<1>41. /\ Len(readable) \in Nat /\ DOMAIN readable = 1..Len(readable)
       /\ \A i \in 1..Len(readable) : readable[i] \in T
  BY <1>1, Elements
<1> USE DEF T
<1>4. /\ Len(readable) \in Nat /\ DOMAIN readable = 1..Len(readable)
      /\ \A i \in 1..Len(readable) : readable[i] \in T /\ readable[i].url # Nil
  BY <1>3, <1>40, <1>41
<1>5. \A i \in 1..Len(readable) : IsArticle(Read(readable[i]))
  BY <1>4 DEF IsArticle
<1>6. PICK n \in Nat : n = Len(readable)
  BY <1>4
<1>7. stories = [i \in 1..n |-> Read(readable[i])]
  BY <1>4, <1>6
<1>8. Len(stories) = n /\ stories = [i \in 1..n |-> stories[i]]
      /\ \A i \in 1..n : stories[i] = Read(readable[i])
  <2> HIDE DEF Read
  <2> QED BY <1>7
<1> HIDE DEF Read, stories
<1>9. AreArticles(stories)
  BY <1>5, <1>6, <1>8 DEF AreArticles
<1> QED BY <1>2, <1>9

(* So are the containers of its markup that are readable. *)
LEMMA ContainersAre ==
  ASSUME NEW page, NewsFound(page), NEW now \in [utc : Int, zone : Int]
  PROVE  AreArticles(ArticlesOf(page.containers, LAMBDA c : parseArticleFromContainer(c, now)))
<1> DEFINE containers == page.containers
           K == {item \in ToSet(containers) : Readable(item)}
           readable == Kept(containers, K)
           found == [i \in DOMAIN readable |-> parseArticleFromContainer(readable[i], now)]
           T == [title : STRING, url : Urls \cup {Nil}, info : Seq(Ages)]
<1>1. readable \in Seq(T) /\ \E at : Selects(at, readable, containers, Len(containers), K)
  BY KeptSelects DEF NewsFound
<1>2. ArticlesOf(page.containers, LAMBDA c : parseArticleFromContainer(c, now)) = found
  BY ZenonT(30) DEF ArticlesOf, Readable
<1>3. \A k \in K : k.url # Nil
  BY DEF Readable
<1> HIDE DEF readable, K
<1>4. \A i \in 1..Len(readable) : readable[i] \in K
  BY <1>1 DEF Selects
<1> HIDE DEF T
<1>5. /\ Len(readable) \in Nat /\ DOMAIN readable = 1..Len(readable)
      /\ \A i \in 1..Len(readable) : readable[i] \in T
  BY <1>1, Elements
<1>6. ASSUME NEW c \in T, c.url # Nil PROVE IsArticle(parseArticleFromContainer(c, now))
  <2>1. c.url \in Urls /\ c.info \in Seq(Ages)
    BY <1>6 DEF T
  <2>2. PICK u \in Urls : u = cleanTrackingParams(c.url)
    BY <2>1, CleanedURL
  <2>3. PICK p \in Int \cup {Nil} : p = parsePublishingInfo(c.info, now).published
    BY <2>1, PublishedAt
  <2>4. parseArticleFromContainer(c, now) =
          [title |-> c.title, url |-> u, source |-> parsePublishingInfo(c.info, now).source,
           published |-> p]
    BY <2>2, <2>3 DEF parseArticleFromContainer
  <2> QED BY <2>4 DEF IsArticle
<1>7. \A i \in 1..Len(readable) : IsArticle(parseArticleFromContainer(readable[i], now))
  BY <1>3, <1>4, <1>5, <1>6
<1>8. PICK n \in Nat : n = Len(readable)
  BY <1>5
<1>9. found = [i \in 1..n |-> parseArticleFromContainer(readable[i], now)]
  BY <1>5, <1>8
<1>10. Len(found) = n /\ found = [i \in 1..n |-> found[i]]
       /\ \A i \in 1..n : found[i] = parseArticleFromContainer(readable[i], now)
  BY <1>9
<1> HIDE DEF found
<1>11. AreArticles(found)
  BY <1>7, <1>8, <1>10 DEF AreArticles
<1> QED BY <1>2, <1>11

(* Enriching adds no article and keeps every one an article. *)
LEMMA EnrichedAre ==
  ASSUME NEW page, NewsFound(page), NEW articles, AreArticles(articles)
  PROVE  LET full == enrichArticlesWithJSONMeta(articles, page.blocks) IN
         AreArticles(full) /\ Len(full) = Len(articles)
<1> DEFINE blocks == page.blocks
           full == enrichArticlesWithJSONMeta(articles, page.blocks)
           K(a) == {block \in ToSet(blocks) :
                      block.title # "" /\ Lowered(block.title) = Lowered(a.title)}
           named(a) == Kept(blocks, K(a))
           Filled(a) == [a EXCEPT
             !.source = IF @ = "" THEN Last(named(a)).source ELSE @,
             !.published = IF @ = Nil THEN Last(named(a)).published ELSE @]
           Full(a) == IF named(a) = <<>> THEN a ELSE Filled(a)
           T == [title : STRING, url : Urls \cup {Nil}, source : STRING,
                 published : Int \cup {Nil}]
<1>1. ASSUME NEW a PROVE named(a) \in Seq(T)
  <2> HIDE DEF K, T
  <2>1. blocks \in Seq(T)
    BY DEF T, NewsFound
  <2> QED BY <2>1, KeptSelects
<1>2. full = [i \in DOMAIN articles |-> Full(articles[i])]
  BY ZenonT(30) DEF enrichArticlesWithJSONMeta
<1> HIDE DEF K, named, full
<1>3. ASSUME NEW a, IsArticle(a) PROVE IsArticle(Full(a))
  <2>1. PICK s : s = IF a.source = "" THEN Last(named(a)).source ELSE a.source
    OBVIOUS
  <2>2. PICK p : p = IF a.published = Nil THEN Last(named(a)).published ELSE a.published
    OBVIOUS
  <2>3. Filled(a) = [a EXCEPT !.source = s, !.published = p]
    BY <2>1, <2>2, Zenon
  <2>4. ASSUME named(a) # <<>> PROVE p \in Int \cup {Nil}
    <3> HIDE DEF T
    <3>1. Len(named(a)) \in 1..Len(named(a))
      BY <1>1, <2>4
    <3>2. Last(named(a)) \in T
      BY <1>1, <3>1, Elements DEF Last
    <3>3. Last(named(a)).published \in Int \cup {Nil}
      BY <3>2 DEF T
    <3> QED BY <1>3, <2>2, <3>3 DEF IsArticle
  <2> HIDE DEF Filled
  <2>5. CASE named(a) = <<>>
    BY <1>3, <2>5
  <2>6. CASE named(a) # <<>>
    <3>1. IsArticle(Filled(a))
      BY <1>3, <2>3, <2>4, <2>6 DEF IsArticle
    <3> QED BY <2>6, <3>1
  <2> QED BY <2>5, <2>6
<1> HIDE DEF Full
<1>4. PICK n \in Nat : n = Len(articles) /\ DOMAIN articles = 1..n
  BY DEF AreArticles
<1>5. full = [i \in 1..n |-> Full(articles[i])]
  BY <1>2, <1>4
<1>6. Len(full) = n /\ full = [i \in 1..n |-> full[i]]
      /\ \A i \in 1..n : full[i] = Full(articles[i])
  BY <1>5
<1>7. \A i \in 1..n : IsArticle(full[i])
  BY <1>3, <1>4, <1>6 DEF AreArticles
<1>8. AreArticles(full) /\ Len(full) = Len(articles)
  BY <1>4, <1>6, <1>7 DEF AreArticles
<1> QED BY <1>8 DEF full

-----------------------------------------------------------------------------
(* ---- The pipeline of a page ---- *)

(* What is mapped of what a page of figures was parsed to. *)
MappedOf(kind, dto) ==
  CASE kind = "financials" -> MapComprehensiveFinancialsDTO(dto)
    [] kind = "balance"    -> MapBalanceSheetDTO(dto)
    [] kind = "cashflow"   -> MapCashFlowDTO(dto)
    [] kind = "statistics" -> MapKeyStatisticsDTO(dto)
    [] kind = "analysis"   -> MapAnalysisDTO(dto)
    [] kind = "insights"   -> MapAnalystInsightsDTO(dto)

(* What a request is parsed to, and the articles found for it. *)
ParsedOf(r) ==
  CASE r.kind \in StatementPages -> ParseComprehensiveFinancials(r.page, r.market, r.now)
    [] r.kind = "statistics" -> ParseComprehensiveKeyStatistics(r.page, r.market, r.now)
    [] r.kind = "analysis" -> ParseAnalysis(r.page, r.market, r.now)
    [] r.kind = "insights" -> ParseAnalystInsights(r.page, r.market, r.now)
FoundOn(r) ==
  LET stories == extractArticlesFromNewsJSON(r.page.blocks) IN
  IF stories # <<>> THEN stories
  ELSE enrichArticlesWithJSONMeta(
         ArticlesOf(r.page.containers, LAMBDA c : parseArticleFromContainer(c, r.now)),
         r.page.blocks)

ReportsFound == Reports(ArticlesFound, pageRequest.page)

(* A page of figures, and one of news, at the stages that hold them. *)
FiguresKeep ==
  pageRequest.kind \in SnapshotKinds =>
    /\ pageStage = "parsed" => pageValue \in {Failed, Parsed}
    /\ pageStage = "mapped" => pageValue = MappedOf(pageRequest.kind, Parsed)
NewsKeeps ==
  pageRequest.kind = "news" =>
    /\ pageStage = "parsed" =>
         pageValue \in {Failed, Panic} \/ (ArticlesFound # <<>> /\ pageValue \in ReportsFound)
    /\ pageStage = "mapped" =>
         ArticlesFound # <<>> /\ \E report \in ReportsFound :
           pageValue = MapNewsItems(report.articles, pageRequest.now)

(* What is held at each stage. *)
PageInv == pageRequest \in PageRequests /\ FiguresKeep /\ NewsKeeps

(* What the assumption on requests says of one for news. *)
LEMMA NewsRequest ==
  ASSUME NEW r \in PageRequests, r.kind = "news"
  PROVE  r.now \in [utc : Int, zone : Int] /\ NewsFound(r.page)
BY PageRequestsAssumption DEF StatementPages

(* Articles are none only if there are none of them. *)
LEMMA NotEmpty ==
  ASSUME NEW s, AreArticles(s)
  PROVE  s # <<>> <=> Len(s) # 0
BY DEF AreArticles

(* What is found on a page of news are articles. *)
LEMMA FoundOnAre ==
  ASSUME NEW r \in PageRequests, r.kind = "news"
  PROVE  AreArticles(FoundOn(r))
<1>1. r.now \in [utc : Int, zone : Int] /\ NewsFound(r.page)
  BY NewsRequest
<1> DEFINE stories == extractArticlesFromNewsJSON(r.page.blocks)
           found == ArticlesOf(r.page.containers, LAMBDA c : parseArticleFromContainer(c, r.now))
           full == enrichArticlesWithJSONMeta(found, r.page.blocks)
<1>2. FoundOn(r) = IF stories # <<>> THEN stories ELSE full
  BY Zenon DEF FoundOn
<1>3. AreArticles(stories)
  BY <1>1, StoriesAre
<1>4. AreArticles(found)
  BY <1>1, ContainersAre
<1>5. AreArticles(full)
  <2> HIDE DEF found
  <2> QED BY <1>1, <1>4, EnrichedAre
<1> HIDE DEF stories, full
<1> QED BY <1>2, <1>3, <1>5

(* The state functions of PagePath are those of the request. *)
LEMMA FoundOnIs ==
  /\ Parsed = ParsedOf(pageRequest) /\ ArticlesFound = FoundOn(pageRequest)
  /\ (Parsed = ParsedOf(pageRequest) /\ ArticlesFound = FoundOn(pageRequest))'
<1>1. Parsed = ParsedOf(pageRequest)
  BY Zenon DEF Parsed, ParsedOf
<1>2. ArticlesFound = FoundOn(pageRequest)
  BY Zenon DEF ArticlesFound, FoundOn
<1>3. (Parsed = ParsedOf(pageRequest))'
  BY Zenon DEF Parsed, ParsedOf
<1>4. (ArticlesFound = FoundOn(pageRequest))'
  BY Zenon DEF ArticlesFound, FoundOn
<1> QED BY <1>1, <1>2, <1>3, <1>4

(* A report is on what was found, and only if something was. *)
LEMMA NewsIsParsed ==
  ASSUME NEW r \in PageRequests, r.kind = "news", NEW has,
         NEW report \in ParseNews(r.page, r.now, has)
  PROVE  \/ report \in {Failed, Panic}
         \/ FoundOn(r) # <<>> /\ report \in Reports(FoundOn(r), r.page)
<1>1. r.now \in [utc : Int, zone : Int] /\ NewsFound(r.page)
  BY NewsRequest
<1> DEFINE stories == extractArticlesFromNewsJSON(r.page.blocks)
           found == ArticlesOf(r.page.containers, LAMBDA c : parseArticleFromContainer(c, r.now))
           full == enrichArticlesWithJSONMeta(found, r.page.blocks)
<1>2. FoundOn(r) = IF stories # <<>> THEN stories ELSE full
  BY Zenon DEF FoundOn
<1>3. \/ report \in Reports(stories, r.page) /\ stories # <<>>
      \/ report = Panic
      \/ /\ stories = <<>>
         /\ \/ report = Failed
            \/ report \in Reports(full, r.page) /\ found # <<>>
  <2>1. CASE stories = <<>>
    <3>1. report \in parseNewsFromHTML(r.page, r.now)
      BY <2>1 DEF ParseNews
    <3>2. parseNewsFromHTML(r.page, r.now) =
            IF found = <<>> THEN {Failed} ELSE Reports(full, r.page)
      BY Zenon DEF parseNewsFromHTML
    <3> HIDE DEF stories, found, full
    <3> QED BY <2>1, <3>1, <3>2
  <2>2. CASE stories # <<>>
    <3>1. ParseNews(r.page, r.now, has) = IF ~ has THEN {Panic} ELSE Reports(stories, r.page)
      BY <2>2, Zenon DEF ParseNews
    <3> HIDE DEF stories, found, full
    <3> QED BY <2>2, <3>1
  <2> QED BY <2>1, <2>2
<1>4. found # <<>> => full # <<>>
  <2>1. AreArticles(found)
    BY <1>1, ContainersAre
  <2> HIDE DEF found
  <2>2. AreArticles(full) /\ Len(full) = Len(found)
    BY <1>1, <2>1, EnrichedAre
  <2> HIDE DEF full
  <2> QED BY <2>1, <2>2, NotEmpty
<1> HIDE DEF stories, found, full
<1> QED BY <1>2, <1>3, <1>4

(* The inductive invariant: what a page is parsed to and mapped to is what its
   request says, step by step, whatever was loaded before (the fetch, parse
   and map calls of Client.Fetch* and of the scrape command). *)
THEOREM PageInvariant == PageSpec => []PageInv
<1>1. PageInit => PageInv
  <2> SUFFICES ASSUME PageInit PROVE PageInv
    OBVIOUS
  <2>1. pageStage # "parsed" /\ pageStage # "mapped" /\ pageRequest \in PageRequests
    BY DEF PageInit
  <2> QED BY <2>1 DEF PageInv, FiguresKeep, NewsKeeps
<1>2. PageInv /\ [PageNext]_pageVars => PageInv'
  <2> SUFFICES ASSUME PageInv, [PageNext]_pageVars PROVE PageInv'
    OBVIOUS
  <2>0. pageRequest \in PageRequests
    BY DEF PageInv
  <2> DEFINE Same == pageRequest' = pageRequest
  <2>1. ASSUME Same PROVE /\ (pageRequest \in PageRequests)'
                          /\ Parsed' = Parsed /\ ArticlesFound' = ArticlesFound
                          /\ ReportsFound' = ReportsFound
    BY <2>0, <2>1, FoundOnIs DEF ReportsFound
  <2>2. CASE FetchPageFails
    <3>1. Same /\ pageStage' = "parsed" /\ pageValue' = Failed
      BY <2>2 DEF FetchPageFails, Arrive
    <3>2. pageStage' # "mapped"
      BY <3>1
    <3> QED BY <2>1, <3>1, <3>2 DEF PageInv, FiguresKeep, NewsKeeps
  <2>3. CASE ParseFigures
    <3>1. Same /\ pageStage' = "parsed" /\ pageValue' = Parsed /\ pageRequest.kind # "news"
      BY <2>3 DEF ParseFigures, Arrive, SnapshotKinds, StatementPages
    <3>2. pageStage' # "mapped"
      BY <3>1
    <3> HIDE DEF Same
    <3>3. (pageRequest \in PageRequests)' /\ Parsed' = Parsed /\ pageRequest' = pageRequest
      BY <2>1, <3>1 DEF Same
    <3> QED BY <3>1, <3>2, <3>3 DEF PageInv, FiguresKeep, NewsKeeps
  <2>4. CASE ParseArticles
    <3>1. PICK report \in ParseNews(pageRequest.page, pageRequest.now, loaded) :
            pageValue' = report
      BY <2>4 DEF ParseArticles, Arrive
    <3>2. Same /\ pageStage' = "parsed" /\ pageRequest.kind = "news"
      BY <2>4 DEF ParseArticles, Arrive
    <3>3. report \in {Failed, Panic} \/ (ArticlesFound # <<>> /\ report \in ReportsFound)
      BY <2>0, <3>1, <3>2, NewsIsParsed, FoundOnIs DEF ReportsFound
    <3>4. pageStage' # "mapped" /\ pageRequest.kind \notin SnapshotKinds
      BY <3>2 DEF SnapshotKinds, StatementPages
    <3> HIDE DEF Same
    <3>5. /\ (pageRequest \in PageRequests)' /\ pageRequest' = pageRequest
          /\ ArticlesFound' = ArticlesFound /\ ReportsFound' = ReportsFound
      BY <2>1, <3>2 DEF Same
    <3> QED BY <3>1, <3>3, <3>4, <3>5 DEF PageInv, FiguresKeep, NewsKeeps
  <2>5. CASE PreviewStatement
    <3>1. Same /\ pageStage' = "previewed"
      BY <2>5 DEF PreviewStatement, Arrive
    <3>2. pageStage' # "mapped" /\ pageStage' # "parsed"
      BY <3>1
    <3> QED BY <2>1, <3>1, <3>2 DEF PageInv, FiguresKeep, NewsKeeps
  <2>6. CASE MapPage
    <3>1. Same /\ pageStage = "parsed" /\ pageStage' = "mapped" /\ pageValue' = Mapped
          /\ pageValue \notin {Failed, Panic}
      BY <2>6 DEF MapPage, Arrive
    <3>2. pageStage' # "parsed"
      BY <3>1
    <3>3. ASSUME pageRequest.kind \in SnapshotKinds
          PROVE  pageValue' = MappedOf(pageRequest.kind, Parsed)
      <4>1. pageValue = Parsed
        BY <3>1, <3>3 DEF PageInv, FiguresKeep
      <4>2. pageRequest.kind # "news"
        BY <3>3 DEF SnapshotKinds, StatementPages
      <4>3. /\ pageRequest.kind = "financials" \/ pageRequest.kind = "balance"
                 \/ pageRequest.kind = "cashflow" \/ pageRequest.kind = "statistics"
                 \/ pageRequest.kind = "analysis" \/ pageRequest.kind = "insights"
        BY <3>3 DEF SnapshotKinds, StatementPages
      <4>4. Mapped = MappedOf(pageRequest.kind, pageValue)
        BY <4>2, <4>3 DEF Mapped, MappedOf
      <4> QED BY <3>1, <4>1, <4>4
    <3>4. ASSUME pageRequest.kind = "news"
          PROVE  ArticlesFound # <<>> /\ \E report \in ReportsFound :
                   pageValue' = MapNewsItems(report.articles, pageRequest.now)
      <4>1. ArticlesFound # <<>> /\ pageValue \in ReportsFound
        BY <3>1, <3>4 DEF PageInv, NewsKeeps
      <4>2. Mapped = MapNewsItems(pageValue.articles, pageRequest.now)
        BY <3>4 DEF Mapped
      <4> QED BY <3>1, <4>1, <4>2
    <3> HIDE DEF Same
    <3>5. /\ (pageRequest \in PageRequests)' /\ pageRequest' = pageRequest /\ Parsed' = Parsed
          /\ ArticlesFound' = ArticlesFound /\ ReportsFound' = ReportsFound
      BY <2>1, <3>1 DEF Same
    <3> QED BY <3>2, <3>3, <3>4, <3>5 DEF PageInv, FiguresKeep, NewsKeeps
  <2>7. CASE MapLines
    <3>1. Same /\ pageRequest.kind = "lines"
      BY <2>7 DEF MapLines, Arrive
    <3>2. pageRequest.kind \notin SnapshotKinds /\ pageRequest.kind # "news"
      BY <3>1 DEF SnapshotKinds, StatementPages
    <3> QED BY <2>1, <3>1, <3>2 DEF PageInv, FiguresKeep, NewsKeeps
  <2>8. CASE NextNews
    <3>1. pageRequest' \in PageRequests /\ pageStage' = "fetch"
      BY <2>8 DEF NextNews
    <3>2. pageStage' # "parsed" /\ pageStage' # "mapped"
      BY <3>1
    <3> QED BY <3>1, <3>2 DEF PageInv, FiguresKeep, NewsKeeps
  <2>9. CASE UNCHANGED pageVars
    <3>1. Same /\ pageStage' = pageStage /\ pageValue' = pageValue
      BY <2>9 DEF pageVars
    <3> HIDE DEF Same
    <3>5. /\ (pageRequest \in PageRequests)' /\ pageRequest' = pageRequest /\ Parsed' = Parsed
          /\ ArticlesFound' = ArticlesFound /\ ReportsFound' = ReportsFound
      BY <2>1, <3>1 DEF Same
    <3> QED BY <3>1, <3>5 DEF PageInv, FiguresKeep, NewsKeeps
  <2> QED BY <2>2, <2>3, <2>4, <2>5, <2>6, <2>7, <2>8, <2>9 DEF PageNext
<1> QED BY <1>1, <1>2, PTL DEF PageSpec

-----------------------------------------------------------------------------
(* ---- The items of a page ---- *)

(* The items the lines of the financials are made of. *)
FinancialItems(dto) ==
  Items(dto, FinancialKeys)
    \o [i \in DOMAIN ShareKeys |->
          <<ShareKeys[i][1], Count(dto.current[ShareKeys[i][2]]), "">>]

(* An item of a statement is a key of the table with what its row is worth. *)
FromStatement(item, dto) ==
  \E j \in 1..20 :
    LET row == StatementTable[j][2] IN
    /\ item[1] = StatementTable[j][1]
    /\ item[2] = IF row \in ShareRows THEN Count(dto.current[row]) ELSE dto.current[row]

(* The financials of a page have one item for each row of its table. *)
LEMMA FinancialItemsAre ==
  ASSUME NEW dto
  PROVE  LET items == FinancialItems(dto) IN
         /\ \E S : items \in Seq(S)
         /\ Len(items) = 20 /\ Distinct(items)
         /\ \A k \in 1..20 : FromStatement(items[k], dto)
         /\ \A k \in 1..18 : items[k] = Items(dto, FinancialKeys)[k]
<1> DEFINE share(key, row) == <<key, Count(dto.current[row]), "">>
           shares == [i \in DOMAIN ShareKeys |-> share(ShareKeys[i][1], ShareKeys[i][2])]
           named == Items(dto, FinancialKeys)
           items == named \o shares
<1>1. FinancialItems(dto) = items
  BY Zenon DEF FinancialItems
<1>2. \A key, amount, currency : LET t == <<key, amount, currency>> IN
        t[1] = key /\ t[2] = amount
  OBVIOUS
<1>3. \A key, row : LET s == share(key, row) IN s[1] = key /\ s[2] = Count(dto.current[row])
  BY <1>2, Zenon
<1> HIDE DEF share
<1>4. DOMAIN FinancialKeys = 1..18 /\ DOMAIN ShareKeys = 1..2
  BY DEF FinancialKeys, ShareKeys
<1>5. /\ named = [i \in 1..18 |-> <<FinancialKeys[i][1], dto.current[FinancialKeys[i][2]],
                                   dto.currency>>]
      /\ shares = [i \in 1..2 |-> share(ShareKeys[i][1], ShareKeys[i][2])]
  BY <1>4 DEF Items
<1> HIDE DEF shares, named
<1>6. /\ named \in Seq({named[i] : i \in 1..18}) /\ Len(named) = 18
      /\ shares \in Seq({shares[i] : i \in 1..2}) /\ Len(shares) = 2
  BY <1>5
<1>7. PICK S : named \in Seq(S) /\ shares \in Seq(S)
  <2> DEFINE S == {named[i] : i \in 1..18} \cup {shares[i] : i \in 1..2}
  <2>1. named \in Seq(S) /\ shares \in Seq(S)
    BY <1>5
  <2> HIDE DEF S
  <2> QED BY <2>1
<1>8. /\ items \in Seq(S) /\ Len(items) = 20
      /\ \A i \in 1..18 : items[i] = named[i]
      /\ \A i \in 19..20 : items[i] = shares[i - 18]
  <2>1. items \in Seq(S) /\ Len(items) = Len(named) + Len(shares)
    BY <1>7
  <2>2. \A i \in 1..(Len(named) + Len(shares)) :
          items[i] = IF i <= Len(named) THEN named[i] ELSE shares[i - Len(named)]
    BY <1>7
  <2> HIDE DEF items
  <2>3. \A i \in 1..20 : items[i] = IF i <= 18 THEN named[i] ELSE shares[i - 18]
    BY <1>6, <2>2
  <2> QED BY <1>6, <2>1, <2>3
<1> HIDE DEF items
<1>9. /\ \A i \in 1..18 : StatementTable[i] = FinancialKeys[i]
      /\ \A i \in 19..20 : StatementTable[i] = ShareKeys[i - 18]
      /\ \A i \in 1..18 : StatementTable[i][2] \notin ShareRows
      /\ \A i \in 19..20 : StatementTable[i][2] \in ShareRows
  BY SMTT(60) DEF StatementTable, FinancialKeys, ShareKeys, ShareRows
<1>10. ASSUME NEW k \in 1..18
       PROVE  /\ items[k][1] = StatementTable[k][1]
              /\ items[k][2] = dto.current[StatementTable[k][2]]
  <2>1. items[k] = named[k] /\ StatementTable[k] = FinancialKeys[k]
    BY <1>8, <1>9
  <2>2. named[k] = <<FinancialKeys[k][1], dto.current[FinancialKeys[k][2]], dto.currency>>
    BY <1>5
  <2> QED BY <2>1, <2>2
<1>11. ASSUME NEW k \in 19..20
       PROVE  /\ items[k][1] = StatementTable[k][1]
              /\ items[k][2] = Count(dto.current[StatementTable[k][2]])
  <2>1. items[k] = shares[k - 18] /\ k - 18 \in 1..2
    BY <1>8
  <2>2. items[k] = share(ShareKeys[k - 18][1], ShareKeys[k - 18][2])
    BY <1>5, <2>1
  <2>3. StatementTable[k] = ShareKeys[k - 18]
    BY <1>9
  <2> QED BY <1>3, <2>2, <2>3
<1>12. ASSUME NEW k \in 1..20 PROVE FromStatement(items[k], dto)
  <2>1. CASE k \in 1..18
    BY <1>9, <1>10, <2>1 DEF FromStatement
  <2>2. CASE k \in 19..20
    BY <1>9, <1>11, <2>2 DEF FromStatement
  <2> QED BY <2>1, <2>2
<1>13. Distinct(items)
  <2>1. Distinct(StatementTable) /\ DOMAIN StatementTable = 1..20
    BY SMTT(60) DEF Distinct, StatementTable, FinancialKeys, ShareKeys
  <2>2. DOMAIN items = 1..20 /\ \A k \in 1..20 : items[k][1] = StatementTable[k][1]
    BY <1>8, <1>10, <1>11
  <2> QED BY <2>1, <2>2 DEF Distinct
<1> QED BY <1>1, <1>8, <1>12, <1>13 DEF named

(* The keys of the other two are among those of the financials. *)
LEMMA StatementItemsAre ==
  ASSUME NEW dto, NEW keys \in {BalanceSheetKeys, CashFlowKeys}
  PROVE  LET items == Items(dto, keys) IN
         /\ \E S : items \in Seq(S)
         /\ Len(items) = 5 /\ Distinct(items)
         /\ \A k \in 1..5 : \E j \in 1..18 : items[k] = Items(dto, FinancialKeys)[j]
<1>1. /\ DOMAIN FinancialKeys = 1..18 /\ DOMAIN keys = 1..5
      /\ \A k \in 1..5 : \E j \in 1..18 : keys[k] = FinancialKeys[j]
      /\ Distinct(keys)
  BY SMTT(60) DEF FinancialKeys, BalanceSheetKeys, CashFlowKeys, Distinct
<1>2. PICK items : items = Items(dto, keys)
  OBVIOUS
<1>3. items = [i \in 1..5 |-> <<keys[i][1], dto.current[keys[i][2]], dto.currency>>]
  BY <1>1, <1>2 DEF Items
<1>4. /\ items \in Seq({items[i] : i \in 1..5}) /\ Len(items) = 5 /\ DOMAIN items = 1..5
      /\ \A k \in 1..5 : items[k][1] = keys[k][1]
  BY <1>3
<1>5. ASSUME NEW k \in 1..5 PROVE \E j \in 1..18 : items[k] = Items(dto, FinancialKeys)[j]
  <2>1. PICK j \in 1..18 : keys[k] = FinancialKeys[j]
    BY <1>1
  <2>2. items[k] = <<FinancialKeys[j][1], dto.current[FinancialKeys[j][2]], dto.currency>>
    BY <1>3, <2>1
  <2>3. Items(dto, FinancialKeys)[j]
          = <<FinancialKeys[j][1], dto.current[FinancialKeys[j][2]], dto.currency>>
    BY <1>1 DEF Items
  <2> QED BY <2>2, <2>3
<1>6. Distinct(items)
  BY <1>1, <1>4 DEF Distinct
<1> QED BY <1>2, <1>4, <1>5, <1>6

(* The elements of a concatenation. *)
LEMMA Joined ==
  ASSUME NEW m \in Nat, NEW n \in Nat, NEW a, a = [i \in 1..m |-> a[i]],
         NEW b, b = [i \in 1..n |-> b[i]]
  PROVE  /\ a \o b = [i \in 1..(m + n) |-> IF i <= m THEN a[i] ELSE b[i - m]]
         /\ a \o b = [i \in 1..(m + n) |-> (a \o b)[i]]
<1> DEFINE S == {a[i] : i \in 1..m} \cup {b[i] : i \in 1..n}
<1>0. (\A i \in 1..m : a[i] \in S) /\ (\A i \in 1..n : b[i] \in S)
  OBVIOUS
<1> HIDE DEF S
<1>1. a \in Seq(S) /\ Len(a) = m /\ b \in Seq(S) /\ Len(b) = n
  BY <1>0, Made
<1>2. /\ a \o b \in Seq(S) /\ Len(a \o b) = m + n
      /\ \A i \in 1..(m + n) : (a \o b)[i] = IF i <= m THEN a[i] ELSE b[i - m]
  BY <1>1
<1>3. a \o b = [i \in 1..(m + n) |-> (a \o b)[i]]
  <2>1. PICK s \in Seq(S) : s = a \o b /\ Len(s) = m + n
    BY <1>2
  <2>2. s = [i \in 1..Len(s) |-> s[i]]
    OBVIOUS
  <2> QED BY <2>1, <2>2
<1> QED BY <1>2, <1>3

(* The rows of a page of statistics in the order they are mapped in. *)
StatisticsOrder ==
  MoneyKeys \o RatioKeys
    \o << <<"beta", "Beta">>, <<"shares_outstanding", "SharesOutstanding">> >> \o MarginKeys

(* The amount a row of statistics gives, and the items. *)
StatisticsAmount(row, dto) ==
  IF row = "SharesOutstanding" THEN Count(dto.additional.shares)
  ELSE IF row \in ValuationRows THEN dto.current[row] ELSE dto.additional.values[row]

FromStatistics(item, dto) ==
  \E j \in 1..15 : /\ item[1] = StatisticsTable[j][1]
                   /\ item[2] = StatisticsAmount(StatisticsTable[j][2], dto)

(* That order has the rows of the table, each once. *)
LEMMA StatisticsOrderIs ==
  /\ Distinct(StatisticsOrder) /\ DOMAIN StatisticsOrder = 1..15
  /\ \A k \in 1..15 : \E j \in 1..15 : StatisticsOrder[k] = StatisticsTable[j]
  /\ DOMAIN MoneyKeys = 1..2 /\ DOMAIN RatioKeys = 1..7 /\ DOMAIN MarginKeys = 1..4
  /\ \A k \in 1..2 : MoneyKeys[k] = StatisticsOrder[k]
  /\ \A k \in 1..7 : RatioKeys[k] = StatisticsOrder[k + 2]
  /\ StatisticsOrder[10] = <<"beta", "Beta">>
  /\ StatisticsOrder[11] = <<"shares_outstanding", "SharesOutstanding">>
  /\ \A k \in 1..4 : MarginKeys[k] = StatisticsOrder[k + 11]
  /\ \A k \in 1..9 : StatisticsOrder[k][2] \in ValuationRows
  /\ \A k \in 12..15 : StatisticsOrder[k][2] \notin ValuationRows \cup {"SharesOutstanding"}
  /\ \A k \in 1..15 : StatisticsOrder[k][2] = "SharesOutstanding" <=> k = 11
  /\ StatisticsOrder[10][2] \notin ValuationRows
<1>1. /\ Distinct(StatisticsOrder) /\ DOMAIN StatisticsOrder = 1..15
  BY SMTT(60) DEF Distinct, StatisticsTable, StatisticsOrder, MoneyKeys, RatioKeys, MarginKeys,
       ValuationRows
<1>2. /\ \A k \in 1..15 : \E j \in 1..15 : StatisticsOrder[k] = StatisticsTable[j]
  BY SMTT(60) DEF Distinct, StatisticsTable, StatisticsOrder, MoneyKeys, RatioKeys, MarginKeys,
       ValuationRows
<1>3. /\ DOMAIN MoneyKeys = 1..2 /\ DOMAIN RatioKeys = 1..7 /\ DOMAIN MarginKeys = 1..4
      /\ \A k \in 1..2 : MoneyKeys[k] = StatisticsOrder[k]
      /\ \A k \in 1..7 : RatioKeys[k] = StatisticsOrder[k + 2]
      /\ StatisticsOrder[10] = <<"beta", "Beta">>
      /\ StatisticsOrder[11] = <<"shares_outstanding", "SharesOutstanding">>
      /\ \A k \in 1..4 : MarginKeys[k] = StatisticsOrder[k + 11]
  BY SMTT(60) DEF Distinct, StatisticsTable, StatisticsOrder, MoneyKeys, RatioKeys, MarginKeys,
       ValuationRows
<1>4. /\ \A k \in 1..9 : StatisticsOrder[k][2] \in ValuationRows
      /\ \A k \in 12..15 : StatisticsOrder[k][2] \notin ValuationRows \cup {"SharesOutstanding"}
      /\ \A k \in 1..15 : StatisticsOrder[k][2] = "SharesOutstanding" <=> k = 11
      /\ StatisticsOrder[10][2] \notin ValuationRows
  BY SMTT(60) DEF Distinct, StatisticsTable, StatisticsOrder, MoneyKeys, RatioKeys, MarginKeys,
       ValuationRows
<1> QED BY <1>1, <1>2, <1>3, <1>4

(* A page of statistics has one item for each row. *)
LEMMA StatisticsItemsAre ==
  ASSUME NEW dto
  PROVE  \E S, items :
           /\ items \in Seq(S) /\ Len(items) = 15 /\ Distinct(items)
           /\ MapKeyStatisticsDTO(dto) = Snapshot(dto, Lines(items, DayOf(dto.asOf)))
           /\ \A k \in 1..15 : FromStatistics(items[k], dto)
<1> DEFINE item(key, amount) == <<key, amount, "">>
           money == Items(dto, MoneyKeys)
           ratios == [i \in DOMAIN RatioKeys |->
                        item(RatioKeys[i][1], dto.current[RatioKeys[i][2]])]
           others == << item("beta", dto.additional.values["Beta"]),
                        item("shares_outstanding", Count(dto.additional.shares)) >>
           margins == [i \in DOMAIN MarginKeys |->
                         item(MarginKeys[i][1], dto.additional.values[MarginKeys[i][2]])]
           items == money \o ratios \o others \o margins
<1>1. MapKeyStatisticsDTO(dto) = Snapshot(dto, Lines(items, DayOf(dto.asOf)))
  BY Zenon DEF MapKeyStatisticsDTO
<1>2. \A key, amount, currency : LET t == <<key, amount, currency>> IN
        t[1] = key /\ t[2] = amount
  OBVIOUS
<1>3. \A key, amount : item(key, amount)[1] = key /\ item(key, amount)[2] = amount
  BY <1>2, Zenon
<1> HIDE DEF item
<1>4. /\ money = [i \in 1..2 |-> money[i]] /\ ratios = [i \in 1..7 |-> ratios[i]]
      /\ others = [i \in 1..2 |-> others[i]] /\ margins = [i \in 1..4 |-> margins[i]]
  BY StatisticsOrderIs DEF Items
<1>5. /\ \A i \in 1..2 : /\ money[i][1] = MoneyKeys[i][1]
                         /\ money[i][2] = dto.current[MoneyKeys[i][2]]
      /\ \A i \in 1..7 : /\ ratios[i][1] = RatioKeys[i][1]
                         /\ ratios[i][2] = dto.current[RatioKeys[i][2]]
      /\ \A i \in 1..4 : /\ margins[i][1] = MarginKeys[i][1]
                         /\ margins[i][2] = dto.additional.values[MarginKeys[i][2]]
      /\ others[1][1] = "beta" /\ others[1][2] = dto.additional.values["Beta"]
      /\ others[2][1] = "shares_outstanding" /\ others[2][2] = Count(dto.additional.shares)
  BY <1>3, StatisticsOrderIs DEF Items
<1> HIDE DEF money, ratios, others, margins
<1>6. items = [i \in 1..15 |-> IF i <= 2 THEN money[i]
                               ELSE IF i <= 9 THEN ratios[i - 2]
                               ELSE IF i <= 11 THEN others[i - 9]
                               ELSE margins[i - 11]]
  <2>1. PICK two \in Nat, seven \in Nat, four \in Nat : two = 2 /\ seven = 7 /\ four = 4
    OBVIOUS
  <2>2. PICK a : a = money \o ratios
    OBVIOUS
  <2>3. /\ a = [i \in 1..9 |-> IF i <= 2 THEN money[i] ELSE ratios[i - 2]]
        /\ a = [i \in 1..9 |-> a[i]]
    <3>1. /\ a = [i \in 1..(2 + 7) |-> IF i <= 2 THEN money[i] ELSE ratios[i - 2]]
          /\ a = [i \in 1..(2 + 7) |-> a[i]]
      BY <1>4, <2>2, Joined
    <3> QED BY <3>1
  <2>4. PICK b : b = a \o others
    OBVIOUS
  <2>5. /\ b = [i \in 1..11 |-> IF i <= 9 THEN a[i] ELSE others[i - 9]]
        /\ b = [i \in 1..11 |-> b[i]]
    <3>1. /\ b = [i \in 1..(9 + 2) |-> IF i <= 9 THEN a[i] ELSE others[i - 9]]
          /\ b = [i \in 1..(9 + 2) |-> b[i]]
      BY <1>4, <2>3, <2>4, Joined
    <3> QED BY <3>1
  <2>6. items = [i \in 1..15 |-> IF i <= 11 THEN b[i] ELSE margins[i - 11]]
    <3>1. PICK c : c = b \o margins
      OBVIOUS
    <3>0. PICK m \in Nat, n \in Nat : m = 11 /\ n = 4
      OBVIOUS
    <3>1a. b = [i \in 1..m |-> b[i]] /\ margins = [i \in 1..n |-> margins[i]]
      BY <1>4, <2>5, <3>0
    <3>1b. b \o margins = [i \in 1..(m + n) |-> IF i <= m THEN b[i] ELSE margins[i - m]]
      BY <3>1a, Joined
    <3>2. c = [i \in 1..15 |-> IF i <= 11 THEN b[i] ELSE margins[i - 11]]
      <4>1. c = [i \in 1..(m + n) |-> IF i <= m THEN b[i] ELSE margins[i - m]]
        BY <3>1, <3>1b, Zenon
      <4> QED BY <3>0, <4>1
    <3>3. items = c
      BY <2>2, <2>4, <3>1
    <3> HIDE DEF items
    <3> QED BY <3>2, <3>3
  <2> HIDE DEF items
  <2> QED BY <2>3, <2>5, <2>6
<1> HIDE DEF items
<1>7. items \in Seq({items[i] : i \in 1..15}) /\ Len(items) = 15 /\ DOMAIN items = 1..15
  BY <1>6
<1>8. ASSUME NEW k \in 1..15
      PROVE  /\ items[k][1] = StatisticsOrder[k][1]
             /\ items[k][2] = StatisticsAmount(StatisticsOrder[k][2], dto)
  <2>1. CASE k \in 1..2
    <3>1. items[k] = money[k]
      BY <1>6, <2>1
    <3> QED BY <1>5, <2>1, <3>1, StatisticsOrderIs DEF StatisticsAmount
  <2>2. CASE k \in 3..9
    <3>1. items[k] = ratios[k - 2] /\ k - 2 \in 1..7 /\ k = (k - 2) + 2
      BY <1>6, <2>2
    <3>2. StatisticsOrder[k] = RatioKeys[k - 2]
      BY <3>1, StatisticsOrderIs
    <3> QED BY <1>5, <2>2, <3>1, <3>2, StatisticsOrderIs DEF StatisticsAmount
  <2>3. CASE k = 10
    <3>1. items[k] = others[1]
      BY <1>6, <2>3
    <3> QED BY <1>5, <2>3, <3>1, StatisticsOrderIs DEF StatisticsAmount
  <2>4. CASE k = 11
    <3>1. items[k] = others[2]
      BY <1>6, <2>4
    <3> QED BY <1>5, <2>4, <3>1, StatisticsOrderIs DEF StatisticsAmount
  <2>5. CASE k \in 12..15
    <3>1. items[k] = margins[k - 11] /\ k - 11 \in 1..4 /\ k = (k - 11) + 11
      BY <1>6, <2>5
    <3>2. StatisticsOrder[k] = MarginKeys[k - 11]
      BY <3>1, StatisticsOrderIs
    <3> QED BY <1>5, <2>5, <3>1, <3>2, StatisticsOrderIs DEF StatisticsAmount
  <2> QED BY <2>1, <2>2, <2>3, <2>4, <2>5
<1>9. Distinct(items)
  BY <1>7, <1>8, StatisticsOrderIs DEF Distinct
<1>10. ASSUME NEW k \in 1..15 PROVE FromStatistics(items[k], dto)
  <2>1. PICK j \in 1..15 : StatisticsOrder[k] = StatisticsTable[j]
    BY StatisticsOrderIs
  <2> QED BY <1>8, <2>1 DEF FromStatistics
<1> QED BY <1>1, <1>7, <1>9, <1>10

(* A line of insights is one of the fields, or worked out of two. *)
InsightAmount(row, dto) ==
  IF row = "numberOfAnalysts" THEN Count(dto.fields[row])
  ELSE FixedPoint(dto.fields[row], IF row = "recommendationMean" THEN 2 ELSE 4)

FromInsights(item, dto) ==
  \/ item[1] = "upside_potential_percent"
  \/ \E j \in 1..7 : /\ item[1] = InsightTable[j][1]
                     /\ item[2] = InsightAmount(InsightTable[j][2], dto)

(* A page of insights has seven items and the potential worked out of two. *)
LEMMA InsightItemsAre ==
  ASSUME NEW dto
  PROVE  \E S, items :
           /\ items \in Seq(S) /\ Len(items) = 8 /\ Distinct(items)
           /\ MapAnalystInsightsDTO(dto) = Snapshot(dto, Lines(items, DayOf(dto.asOf)))
           /\ \A k \in 1..8 : FromInsights(items[k], dto)
<1> DEFINE price(key, field) == <<key, FixedPoint(dto.fields[field], 4), "USD">>
           other(key, amount) == <<key, amount, "">>
           items ==
     << price("current_price", "currentPrice"),
        price("target_price_mean", "targetMeanPrice"),
        price("target_price_median", "targetMedianPrice"),
        price("target_price_high", "targetHighPrice"),
        price("target_price_low", "targetLowPrice"),
        other("analyst_count", Count(dto.fields["numberOfAnalysts"])),
        other("recommendation_score", FixedPoint(dto.fields["recommendationMean"], 2)),
        other("upside_potential_percent",
              Upside(dto.fields["currentPrice"], dto.fields["targetMeanPrice"])) >>
<1>1. MapAnalystInsightsDTO(dto) = Snapshot(dto, Lines(items, DayOf(dto.asOf)))
  BY ZenonT(60) DEF MapAnalystInsightsDTO
<1>2. \A key, amount, currency : LET t == <<key, amount, currency>> IN
        t[1] = key /\ t[2] = amount
  OBVIOUS
<1>3. /\ \A key, field : /\ price(key, field)[1] = key
                         /\ price(key, field)[2] = FixedPoint(dto.fields[field], 4)
      /\ \A key, amount : other(key, amount)[1] = key /\ other(key, amount)[2] = amount
  BY <1>2, Zenon
<1> HIDE DEF price, other
<1>4. items \in Seq({items[i] : i \in 1..8}) /\ Len(items) = 8 /\ DOMAIN items = 1..8
  OBVIOUS
<1>5. Distinct(items)
  BY <1>3, SMTT(60) DEF Distinct
<1>6. \A k \in 1..8 : FromInsights(items[k], dto)
  BY <1>3, SMTT(60) DEF FromInsights, InsightTable, InsightAmount
<1> HIDE DEF items
<1> QED BY <1>1, <1>4, <1>5, <1>6

(* The keys of an analysis are distinct, and fit for a line. *)
LEMMA AnalysisItems ==
  ASSUME NEW dto
  PROVE  \E S, items : /\ items \in Seq(S) /\ Distinct(items)
                       /\ MapAnalysisDTO(dto) = Snapshot(dto, Lines(items, DayOf(dto.asOf)))
<1> DEFINE eps(key, table, title, column) ==
             <<key, FixedPoint(table.cells[<<title, column>>], 4), table.currency>>
           count(key, table, title) == <<key, Count(table.cells[<<title, "currentQtr">>]), "">>
           revenue(key, column) ==
             <<key, ParseRevenueEstimateString(dto.revenue.cells[<<"AvgEstimate", column>>]),
               dto.revenue.currency>>
           recent == IF dto.history.data = <<>> THEN Nil ELSE dto.history.data[1].actual
           actual(key) == <<key, FixedPoint(recent, 4), dto.history.currency>>
           growth(key) == <<key, GrowthRate(dto.growth[<<"ticker", "currentYear">>]), "">>
           items ==
       << eps("eps_estimate_current_quarter", dto.earnings, "AvgEstimate", "currentQtr"),
          eps("eps_estimate_next_quarter", dto.earnings, "AvgEstimate", "nextQtr"),
          eps("eps_estimate_current_year", dto.earnings, "AvgEstimate", "currentYear"),
          eps("eps_estimate_next_year", dto.earnings, "AvgEstimate", "nextYear"),
          count("analyst_count_current_quarter", dto.earnings, "NoOfAnalysts"),
          actual("eps_actual_recent"),
          eps("eps_trend_current_quarter", dto.trend, "CurrentEstimate", "currentQtr"),
          eps("eps_trend_current_quarter_7d_ago", dto.trend, "Days7Ago", "currentQtr"),
          eps("eps_trend_current_quarter_30d_ago", dto.trend, "Days30Ago", "currentQtr"),
          eps("eps_trend_current_year", dto.trend, "CurrentEstimate", "currentYear"),
          eps("eps_trend_next_year", dto.trend, "CurrentEstimate", "nextYear"),
          count("eps_revisions_up_7d_current_quarter", dto.revisions, "UpLast7Days"),
          count("eps_revisions_down_7d_current_quarter", dto.revisions, "DownLast7Days"),
          count("eps_revisions_up_30d_current_quarter", dto.revisions, "UpLast30Days"),
          count("eps_revisions_down_30d_current_quarter", dto.revisions, "DownLast30Days"),
          revenue("revenue_estimate_current_quarter", "currentQtr"),
          revenue("revenue_estimate_current_year", "currentYear"),
          growth("growth_estimate_current_year") >>
<1>1. MapAnalysisDTO(dto) = Snapshot(dto, Lines(items, DayOf(dto.asOf)))
  BY ZenonT(60) DEF MapAnalysisDTO
<1>2. \A key, amount, currency : <<key, amount, currency>>[1] = key
  OBVIOUS
<1>3. /\ \A key, table, title, column : eps(key, table, title, column)[1] = key
      /\ \A key, table, title : count(key, table, title)[1] = key
      /\ \A key, column : revenue(key, column)[1] = key
      /\ \A key : actual(key)[1] = key
      /\ \A key : growth(key)[1] = key
  BY <1>2, Zenon
<1> HIDE DEF eps, count, revenue, actual, growth
<1>4. items \in Seq({items[i] : i \in 1..18}) /\ DOMAIN items = 1..18
  BY SMTT(60)
<1>5. Distinct(items)
  BY <1>3, SMTT(60) DEF Distinct
<1> HIDE DEF items
<1> QED BY <1>1, <1>4, <1>5

(* The period of the lines of a page. *)
PeriodOf(kind, asOf) == IF kind = "financials" THEN QuarterOf(asOf) ELSE DayOf(asOf)

(* What is known of the items that the lines of a page of figures are made of. *)
Itemised(kind, dto, items) ==
  /\ Distinct(items)
  /\ \A k \in 1..Len(items) :
       /\ kind \in StatementPages => FromStatement(items[k], dto)
       /\ kind = "statistics" => FromStatistics(items[k], dto)
       /\ kind = "insights" => FromInsights(items[k], dto)
       /\ kind \in {"balance", "cashflow"} =>
            \E j \in 1..18 : items[k] = FinancialItems(dto)[j]

(* A page of figures is mapped to lines of its items, all of one period. *)
LEMMA MappedIs ==
  ASSUME NEW kind \in SnapshotKinds, NEW dto, MappedOf(kind, dto) # Failed
  PROVE  \E S, items :
           /\ items \in Seq(S) /\ Itemised(kind, dto, items)
           /\ MappedOf(kind, dto) = Snapshot(dto, Lines(items, PeriodOf(kind, dto.asOf)))
<1>1. CASE kind = "financials"
  <2>1. MappedOf(kind, dto) = MapComprehensiveFinancialsDTO(dto)
    BY <1>1 DEF MappedOf
  <2>2. PICK items : items = FinancialItems(dto)
    OBVIOUS
  <2>3. ExtractCurrentPeriodLines(dto) = Lines(items, QuarterOf(dto.asOf))
    BY <2>2, Zenon DEF ExtractCurrentPeriodLines, FinancialItems
  <2>4. MappedOf(kind, dto) = Snapshot(dto, Lines(items, PeriodOf(kind, dto.asOf)))
    BY <1>1, <2>1, <2>3 DEF MapComprehensiveFinancialsDTO, PeriodOf
  <2>5. PICK S : items \in Seq(S)
    BY <2>2, FinancialItemsAre
  <2>6. Len(items) = 20 /\ Distinct(items) /\ \A k \in 1..20 : FromStatement(items[k], dto)
    BY <2>2, FinancialItemsAre
  <2>7. Itemised(kind, dto, items)
    BY <1>1, <2>6 DEF Itemised
  <2> QED BY <2>4, <2>5, <2>7
<1>2. CASE kind \in {"balance", "cashflow"}
  <2>0. PICK keys \in {BalanceSheetKeys, CashFlowKeys} :
          MappedOf(kind, dto) = Snapshot(dto, Lines(Items(dto, keys), DayOf(dto.asOf)))
    BY <1>2 DEF MappedOf, MapBalanceSheetDTO, MapCashFlowDTO
  <2>1. PICK items : items = Items(dto, keys)
    OBVIOUS
  <2>2. PICK S : items \in Seq(S)
    BY <2>1, StatementItemsAre
  <2>3. /\ Len(items) = 5 /\ Distinct(items)
        /\ \A k \in 1..5 : \E j \in 1..18 : items[k] = Items(dto, FinancialKeys)[j]
    BY <2>1, StatementItemsAre
  <2>4. /\ \A k \in 1..18 : FinancialItems(dto)[k] = Items(dto, FinancialKeys)[k]
        /\ \A k \in 1..20 : FromStatement(FinancialItems(dto)[k], dto)
    BY FinancialItemsAre
  <2>5. ASSUME NEW k \in 1..5
        PROVE  /\ FromStatement(items[k], dto)
               /\ \E j \in 1..18 : items[k] = FinancialItems(dto)[j]
    <3>1. PICK j \in 1..18 : items[k] = Items(dto, FinancialKeys)[j]
      BY <2>3
    <3>2. items[k] = FinancialItems(dto)[j] /\ j \in 1..20
      BY <2>4, <3>1
    <3> QED BY <2>4, <3>2
  <2>6. Itemised(kind, dto, items)
    BY <1>2, <2>3, <2>5 DEF Itemised
  <2>7. PeriodOf(kind, dto.asOf) = DayOf(dto.asOf)
    BY <1>2 DEF PeriodOf
  <2> QED BY <2>0, <2>1, <2>2, <2>6, <2>7
<1>3. CASE kind = "statistics"
  <2>1. MappedOf(kind, dto) = MapKeyStatisticsDTO(dto)
    BY <1>3 DEF MappedOf, StatementPages
  <2>2. PICK S, items :
           /\ items \in Seq(S) /\ Len(items) = 15 /\ Distinct(items)
           /\ MapKeyStatisticsDTO(dto) = Snapshot(dto, Lines(items, DayOf(dto.asOf)))
           /\ \A k \in 1..15 : FromStatistics(items[k], dto)
    BY StatisticsItemsAre
  <2>3. Itemised(kind, dto, items)
    BY <1>3, <2>2 DEF Itemised, StatementPages
  <2>4. PeriodOf(kind, dto.asOf) = DayOf(dto.asOf)
    BY <1>3 DEF PeriodOf
  <2> QED BY <2>1, <2>2, <2>3, <2>4
<1>4. CASE kind = "analysis"
  <2>1. MappedOf(kind, dto) = MapAnalysisDTO(dto)
    BY <1>4 DEF MappedOf, StatementPages
  <2>2. PICK S, items : /\ items \in Seq(S) /\ Distinct(items)
                        /\ MapAnalysisDTO(dto) = Snapshot(dto, Lines(items, DayOf(dto.asOf)))
    BY AnalysisItems
  <2>3. Itemised(kind, dto, items)
    BY <1>4, <2>2 DEF Itemised, StatementPages
  <2>4. PeriodOf(kind, dto.asOf) = DayOf(dto.asOf)
    BY <1>4 DEF PeriodOf
  <2> QED BY <2>1, <2>2, <2>3, <2>4
<1>5. CASE kind = "insights"
  <2>1. MappedOf(kind, dto) = MapAnalystInsightsDTO(dto)
    BY <1>5 DEF MappedOf, StatementPages
  <2>2. PICK S, items :
           /\ items \in Seq(S) /\ Len(items) = 8 /\ Distinct(items)
           /\ MapAnalystInsightsDTO(dto) = Snapshot(dto, Lines(items, DayOf(dto.asOf)))
           /\ \A k \in 1..8 : FromInsights(items[k], dto)
    BY InsightItemsAre
  <2>3. Itemised(kind, dto, items)
    BY <1>5, <2>2 DEF Itemised, StatementPages
  <2>4. PeriodOf(kind, dto.asOf) = DayOf(dto.asOf)
    BY <1>5 DEF PeriodOf
  <2> QED BY <2>1, <2>2, <2>3, <2>4
<1> QED BY <1>1, <1>2, <1>3, <1>4, <1>5 DEF SnapshotKinds, StatementPages

(* What a mapped page of figures is, in one place. *)
LEMMA FiguresAre ==
  ASSUME PageInv, MappedFigures
  PROVE  LET r == pageRequest IN
         /\ r \in PageRequests /\ r.kind \in SnapshotKinds
         /\ \E S, items :
              /\ items \in Seq(S) /\ Itemised(r.kind, ParsedOf(r), items)
              /\ pageValue = Snapshot(ParsedOf(r),
                               Lines(items, PeriodOf(r.kind, ParsedOf(r).asOf)))
<1>1. PICK r \in PageRequests : r = pageRequest
  BY DEF PageInv
<1>2. /\ r.kind \in SnapshotKinds /\ pageValue = MappedOf(r.kind, ParsedOf(r))
      /\ pageValue # Failed
  BY <1>1, FoundOnIs DEF PageInv, FiguresKeep, MappedFigures
<1>3. PICK S, items :
        /\ items \in Seq(S) /\ Itemised(r.kind, ParsedOf(r), items)
        /\ MappedOf(r.kind, ParsedOf(r))
             = Snapshot(ParsedOf(r), Lines(items, PeriodOf(r.kind, ParsedOf(r).asOf)))
  BY <1>2, MappedIs
<1> QED BY <1>1, <1>2, <1>3

-----------------------------------------------------------------------------
(* ---- Statements ---- *)

(* What StatementsAgree says of lines and of those of the financials. *)
AgreeWith(lines, others) ==
  \A i \in DOMAIN lines : \E j \in DOMAIN others :
    /\ lines[i].key = others[j].key /\ lines[i].value = others[j].value
    /\ lines[i].currency = others[j].currency

KeysDiffer(lines) ==
  /\ ValidateMonotonicPeriods(lines)
  /\ Cardinality({lines[i].key : i \in DOMAIN lines}) = Len(lines)

(* A line of a balance sheet or a cash flow is a line of the financials. *)
LEMMA StatementsAreCopied ==
  ASSUME NEW kind \in {"balance", "cashflow"}, NEW dto, NEW S, NEW items \in Seq(S),
         Itemised(kind, dto, items), NEW period
  PROVE  AgreeWith(Lines(items, period), ExtractCurrentPeriodLines(dto))
<1>1. PICK fin : fin = FinancialItems(dto)
  OBVIOUS
<1>2. ExtractCurrentPeriodLines(dto) = Lines(fin, QuarterOf(dto.asOf))
  BY <1>1, Zenon DEF ExtractCurrentPeriodLines, FinancialItems
<1>3. PICK T : fin \in Seq(T)
  BY <1>1, FinancialItemsAre
<1>4. Len(fin) = 20
  BY <1>1, FinancialItemsAre
<1>5. PICK lines : lines = Lines(items, period)
  OBVIOUS
<1>6. PICK others : others = ExtractCurrentPeriodLines(dto)
  OBVIOUS
<1>7. PICK at : MadeFrom(lines, items, period, at)
  BY <1>5, LinesAre
<1>8. PICK quarter, to : MadeFrom(others, fin, quarter, to)
  BY <1>2, <1>3, <1>6, LinesAre
<1>9. ASSUME NEW i \in DOMAIN lines
      PROVE  \E j \in DOMAIN others :
               /\ lines[i].key = others[j].key /\ lines[i].value = others[j].value
               /\ lines[i].currency = others[j].currency
  <2>1. PICK k \in 1..Len(items) :
          /\ lines[i] = createLineItem(items[k][1], items[k][2], items[k][3], period)
          /\ Mappable(items[k][2])
    BY <1>7 DEF MadeFrom
  <2>2. PICK f \in 1..18 : items[k] = fin[f]
    BY <1>1 DEF Itemised
  <2>3. f \in 1..Len(fin) /\ Mappable(fin[f][2])
    BY <1>4, <2>1, <2>2
  <2>4. PICK j \in 1..Len(others) : to[j] = f
    BY <1>8, <2>3 DEF MadeFrom
  <2>5. j \in DOMAIN others
        /\ others[j] = createLineItem(fin[f][1], fin[f][2], fin[f][3], quarter)
    BY <1>8, <2>4 DEF MadeFrom
  <2>6. /\ lines[i].key = fin[f][1] /\ lines[i].value = fin[f][2]
        /\ lines[i].currency = LineCurrency(fin[f][3])
    BY <2>1, <2>2 DEF createLineItem
  <2>7. /\ others[j].key = fin[f][1] /\ others[j].value = fin[f][2]
        /\ others[j].currency = LineCurrency(fin[f][3])
    BY <2>5 DEF createLineItem
  <2> QED BY <2>5, <2>6, <2>7
<1> QED BY <1>5, <1>6, <1>9 DEF AgreeWith

(* The mappers of the three statements agree on what they share, and no message
   has a key twice (MapComprehensiveFinancialsDTO, MapBalanceSheetDTO,
   MapCashFlowDTO), for every page. *)
THEOREM StatementsDoAgree == PageSpec => []StatementsAgree
<1>1. ASSUME PageInv PROVE StatementsAgree
  <2> SUFFICES ASSUME MappedFigures PROVE StatementsAgree
    BY DEF StatementsAgree
  <2>1. PICK r \in PageRequests : r = pageRequest
    BY <1>1 DEF PageInv
  <2>2. r.kind \in SnapshotKinds
    BY <1>1, <2>1, FiguresAre
  <2>3. PICK dto : dto = ParsedOf(r)
    OBVIOUS
  <2>4. PICK S, items, period :
          /\ items \in Seq(S) /\ Itemised(r.kind, dto, items)
          /\ pageValue = Snapshot(dto, Lines(items, period))
    BY <1>1, <2>1, <2>3, FiguresAre
  <2>5. PICK lines : lines = Lines(items, period)
    OBVIOUS
  <2>6. pageValue.lines = lines
    BY <2>4, <2>5 DEF Snapshot
  <2>7. KeysDiffer(Lines(items, period))
    BY <2>4, LinesAreDistinct, Zenon DEF Itemised, KeysDiffer
  <2>8. PICK others : others = ExtractCurrentPeriodLines(
           ParseComprehensiveFinancials(pageRequest.page, pageRequest.market, pageRequest.now))
    OBVIOUS
  <2>9. ASSUME pageRequest.kind \in {"balance", "cashflow"} PROVE AgreeWith(lines, others)
    <3>1. dto = ParseComprehensiveFinancials(r.page, r.market, r.now)
      BY <2>1, <2>3, <2>9 DEF ParsedOf, StatementPages
    <3>2. others = ExtractCurrentPeriodLines(dto)
      BY <2>1, <2>8, <3>1
    <3> QED BY <2>1, <2>4, <2>5, <2>9, <3>2, StatementsAreCopied
  <2>10. KeysDiffer(pageValue.lines)
    BY <2>5, <2>6, <2>7
  <2>11. pageRequest.kind \in {"balance", "cashflow"} => AgreeWith(pageValue.lines, others)
    BY <2>6, <2>9
  <2> QED BY <2>8, <2>10, <2>11, Zenon DEF StatementsAgree, KeysDiffer, AgreeWith
<1> QED BY <1>1, PageInvariant, PTL

-----------------------------------------------------------------------------
(* ---- Periods ---- *)

(* A day of the local clock holds the moment, to less than a day. *)
LEMMA DayHolds ==
  ASSUME NEW asOf \in Clocks
  PROVE  LET day == DayOf(asOf)
             slack == IF asOf.zone # 0 THEN DayTicks - 1 ELSE 0 IN
         /\ day.start % DayTicks = 0 /\ day.start < day.end
         /\ day.start <= asOf.utc + slack /\ asOf.utc < day.end + slack
<1>1. asOf.utc \in Int /\ asOf.zone \in (1 - DayTicks)..(DayTicks - 1) /\ DayTicks \in Nat \ {0}
  BY DayAssumption DEF Clocks
<1>2. PICK a \in Int, z \in Int, d \in Nat \ {0} :
        a = asOf.utc /\ z = asOf.zone /\ d = DayTicks /\ 1 - d <= z /\ z <= d - 1
  BY <1>1
<1>3. PICK q \in Int : q = (a + z) \div d
  BY Division, <1>2
<1>4. PICK m \in Int : a + z = d * q + m /\ 0 <= m /\ m < d
  <2>1. PICK s \in Int : s = a + z
    BY <1>2
  <2>2. s % d \in Int /\ s = d * q + (s % d) /\ 0 <= s % d /\ s % d < d
    BY <1>3, <2>1, Division
  <2> QED BY <2>1, <2>2
<1>5. DayOf(asOf) = [start |-> q * d, end |-> (q + 1) * d]
  BY <1>2, <1>3 DEF DayOf
<1>6. (q * d) % d = 0
  <2>1. PICK s \in Int : s = q * d
    BY <1>2, <1>3
  <2>2. s = d * q + 0
    BY <1>2, <1>3, <2>1
  <2> QED BY <2>1, <2>2, DivisionUnique
<1>7. PICK s \in Int : s = q * d /\ (q + 1) * d = s + d /\ d * q = s
  BY <1>2, <1>3
<1>8. DayOf(asOf) = [start |-> s, end |-> s + d]
  BY <1>5, <1>7
<1>9. a + z = s + m /\ s % d = 0
  BY <1>4, <1>6, <1>7
<1> QED BY <1>1, <1>2, <1>4, <1>8, <1>9

(* A quarter holds every moment but those of its last day. *)
LEMMA QuarterHolds ==
  ASSUME NEW asOf \in [utc : Int, zone : {0}]
  PROVE  LET quarter == QuarterOf(asOf) IN
         /\ quarter.start % DayTicks = 0 /\ quarter.start < quarter.end
         /\ quarter.start <= asOf.utc
         /\ asOf.utc < quarter.end \/ (asOf.utc \div DayTicks + 1) % QuarterDays = 0
<1>1. PICK a \in Int, d \in Nat \ {0}, n \in Nat \ {0, 1} :
        a = asOf.utc /\ d = DayTicks /\ n = QuarterDays /\ asOf.zone = 0 /\ a + asOf.zone = a
  BY DayAssumption, QuarterAssumption
<1>2. PICK day \in Int, m \in Int : day = a \div d /\ a = d * day + m /\ 0 <= m /\ m < d
  BY Division
<1>3. PICK q \in Int, k \in Int : day = n * q + k /\ 0 <= k /\ k < n
  <2>1. n \in Nat \ {0}
    OBVIOUS
  <2> QED BY <2>1, Division
<1>4. PICK nd \in Nat \ {0} : nd = n * d
  <2>1. n * d \in Nat /\ n * d # 0
    OBVIOUS
  <2> QED BY <2>1
<1>5. a \div nd = q
  <2>1. PICK dk \in Int : dk = d * k
    OBVIOUS
  <2>2. 0 <= dk /\ dk <= d * (n - 1) /\ d * (n - 1) = nd - d
    <3>1. 0 <= k /\ k <= n - 1
      BY <1>3
    <3>2. d * (n - 1) = nd - d
      BY <1>4
    <3>3. 0 <= d * k
      BY <3>1
    <3>4. d * k <= d * (n - 1)
      BY <3>1
    <3> QED BY <2>1, <3>2, <3>3, <3>4
  <2>3. d * day = d * (n * q) + d * k
    BY <1>3
  <2>4. d * (n * q) = nd * q
    BY <1>4
  <2>5. a = nd * q + (dk + m)
    BY <1>2, <2>1, <2>3, <2>4
  <2>6. dk + m \in Int /\ 0 <= dk + m /\ dk + m < nd
    BY <1>2, <2>2
  <2> QED BY <2>5, <2>6, DivisionUnique
<1>6. QuarterOf(asOf) = [start |-> q * n * d, end |-> ((q + 1) * n - 1) * d]
  <2>1. QuarterOf(asOf) = LET quarter == a \div (n * d) IN
          [start |-> quarter * n * d, end |-> ((quarter + 1) * n - 1) * d]
    BY <1>1 DEF QuarterOf
  <2> QED BY <1>4, <1>5, <2>1
<1>7. PICK s \in Int, first \in Int : s = q * n * d /\ first = n * q /\ s = d * first
  <2>1. q * n * d = d * (n * q)
    OBVIOUS
  <2>2. n * q \in Int /\ q * n * d \in Int
    OBVIOUS
  <2> QED BY <2>1, <2>2
<1>8. PICK e \in Int : e = ((q + 1) * n - 1) * d /\ e = d * (first + (n - 1))
  <2>1. (q + 1) * n - 1 = first + (n - 1)
    BY <1>7
  <2>2. ((q + 1) * n - 1) * d = d * (first + (n - 1)) /\ d * (first + (n - 1)) \in Int
    BY <2>1
  <2> QED BY <2>2
<1>9. s % d = 0
  <2>1. s = d * first + 0
    BY <1>7
  <2> QED BY <2>1, DivisionUnique
<1>10. s < e
  <2>1. e = d * first + d * (n - 1)
    BY <1>8
  <2>2. d * (n - 1) > 0
    OBVIOUS
  <2> QED BY <1>7, <2>1, <2>2
<1>11. s <= a
  <2>1. first <= day
    BY <1>3, <1>7
  <2>2. d * first <= d * day
    BY <2>1
  <2> QED BY <1>2, <1>7, <2>2
<1>12. a < e \/ (day + 1) % n = 0
  <2>1. CASE k = n - 1
    <3>1. PICK after \in Int, next \in Int : after = day + 1 /\ next = q + 1
      OBVIOUS
    <3>2. after = n * next + 0 /\ n \in Nat \ {0}
      BY <1>3, <2>1, <3>1
    <3>3. after % n = 0
      BY <3>2, DivisionUnique
    <3> QED BY <3>1, <3>3
  <2>2. CASE k # n - 1
    <3>1. day + 1 <= first + (n - 1)
      BY <1>3, <1>7, <2>2
    <3>2. d * (day + 1) <= d * (first + (n - 1))
      BY <3>1
    <3>3. d * (day + 1) = d * day + d
      OBVIOUS
    <3> QED BY <1>2, <1>8, <3>2, <3>3
  <2> QED BY <2>1, <2>2
<1>13. QuarterOf(asOf) = [start |-> s, end |-> e]
  BY <1>6, <1>7, <1>8
<1> QED BY <1>1, <1>2, <1>9, <1>10, <1>11, <1>12, <1>13

(* The moment a page was read at is that of its request. *)
LEMMA ReadAt ==
  ASSUME NEW r \in PageRequests, r.kind \in SnapshotKinds
  PROVE  /\ r.now \in Clocks
         /\ r.kind \in {"analysis", "insights"} => ParsedOf(r).asOf = r.now
         /\ r.kind \notin {"analysis", "insights"} =>
              ParsedOf(r).asOf = [utc |-> r.now.utc, zone |-> 0]
<1>1. r.now \in Clocks
  BY PageRequestsAssumption DEF SnapshotKinds, StatementPages
<1>2. [r.now EXCEPT !.zone = 0] = [utc |-> r.now.utc, zone |-> 0]
  BY <1>1 DEF Clocks
<1>3. CASE r.kind \in StatementPages
  <2>1. ParsedOf(r) = ParseComprehensiveFinancials(r.page, r.market, r.now)
    BY <1>3 DEF ParsedOf, StatementPages
  <2>2. ParsedOf(r).asOf = [r.now EXCEPT !.zone = 0]
    BY <2>1 DEF ParseComprehensiveFinancials
  <2> QED BY <1>1, <1>2, <1>3, <2>2 DEF StatementPages
<1>4. CASE r.kind = "statistics"
  <2>1. ParsedOf(r) = ParseComprehensiveKeyStatistics(r.page, r.market, r.now)
    BY <1>4 DEF ParsedOf, StatementPages
  <2>2. ParsedOf(r).asOf = [r.now EXCEPT !.zone = 0]
    BY <2>1 DEF ParseComprehensiveKeyStatistics
  <2> QED BY <1>1, <1>2, <1>4, <2>2
<1>5. CASE r.kind = "analysis"
  <2>1. ParsedOf(r) = ParseAnalysis(r.page, r.market, r.now)
    BY <1>5 DEF ParsedOf, StatementPages
  <2>2. ParsedOf(r).asOf = r.now
    BY <2>1 DEF ParseAnalysis
  <2> QED BY <1>1, <1>5, <2>2
<1>6. CASE r.kind = "insights"
  <2>1. ParsedOf(r) = ParseAnalystInsights(r.page, r.market, r.now)
    BY <1>6 DEF ParsedOf, StatementPages
  <2>2. ParsedOf(r).asOf = r.now
    BY <2>1 DEF ParseAnalystInsights
  <2> QED BY <1>1, <1>6, <2>2
<1> QED BY <1>3, <1>4, <1>5, <1>6 DEF SnapshotKinds

(* What PeriodsHoldTheirInstant says of one period. *)
HoldsItsInstant(kind, period, asOf) ==
  LET slack == IF kind \in {"analysis", "insights"} /\ asOf.zone # 0
                 THEN DayTicks - 1 ELSE 0 IN
  /\ period.start % DayTicks = 0 /\ period.start < period.end
  /\ period.start <= asOf.utc + slack
  /\ \/ asOf.utc < period.end + slack
     \/ /\ kind = "financials"
        /\ (asOf.utc \div DayTicks + 1) % QuarterDays = 0

(* So the period of every kind of page holds the moment it was read. *)
LEMMA PeriodHolds ==
  ASSUME NEW r \in PageRequests, r.kind \in SnapshotKinds
  PROVE  HoldsItsInstant(r.kind, PeriodOf(r.kind, ParsedOf(r).asOf), ParsedOf(r).asOf)
<1>1. PICK asOf : asOf = ParsedOf(r).asOf
  OBVIOUS
<1>2. CASE r.kind \in {"analysis", "insights"}
  <2>1. asOf \in Clocks /\ PeriodOf(r.kind, asOf) = DayOf(asOf)
    BY <1>1, <1>2, ReadAt DEF PeriodOf
  <2>2. HoldsItsInstant(r.kind, DayOf(asOf), asOf)
    BY <1>2, <2>1, DayHolds DEF HoldsItsInstant
  <2> QED BY <1>1, <2>1, <2>2
<1>3. CASE r.kind \notin {"analysis", "insights"}
  <2>1. asOf = [utc |-> r.now.utc, zone |-> 0] /\ r.now.utc \in Int
    BY <1>1, <1>3, ReadAt DEF Clocks
  <2>2. PICK a \in Int : asOf = [utc |-> a, zone |-> 0]
    BY <2>1
  <2>3. CASE r.kind = "financials"
    <3>1. asOf \in [utc : Int, zone : {0}] /\ PeriodOf(r.kind, asOf) = QuarterOf(asOf)
      BY <2>2, <2>3 DEF PeriodOf
    <3>2. asOf.utc + 0 = asOf.utc /\ QuarterOf(asOf).end \in Int
      <4>1. QuarterOf(asOf).end
              = (((a + 0) \div (QuarterDays * DayTicks) + 1) * QuarterDays - 1) * DayTicks
        BY <2>2 DEF QuarterOf
      <4>2. PICK nd \in Nat \ {0} : nd = QuarterDays * DayTicks
        BY QuarterAssumption, DayAssumption
      <4>3. (a + 0) \div nd \in Int
        BY Division
      <4> QED BY <2>2, <4>1, <4>2, <4>3, QuarterAssumption, DayAssumption
    <3>3. HoldsItsInstant(r.kind, QuarterOf(asOf), asOf)
      BY <1>3, <2>3, <3>1, <3>2, QuarterHolds DEF HoldsItsInstant
    <3> QED BY <1>1, <3>1, <3>3
  <2>4. CASE r.kind # "financials"
    <3>1. asOf \in Clocks /\ asOf.zone = 0 /\ PeriodOf(r.kind, asOf) = DayOf(asOf)
      BY <2>2, <2>4, DayAssumption DEF PeriodOf, Clocks
    <3>2. HoldsItsInstant(r.kind, DayOf(asOf), asOf)
      BY <1>3, <3>1, DayHolds DEF HoldsItsInstant
    <3> QED BY <1>1, <3>1, <3>2
  <2> QED BY <2>3, <2>4
<1> QED BY <1>2, <1>3

(* The period of every line holds the moment the page was read, to the slack of
   the local clock and but for the last day of a quarter, for every clock. *)
THEOREM PeriodsDoHold == PageSpec => []PeriodsHoldTheirInstant
<1>1. ASSUME PageInv PROVE PeriodsHoldTheirInstant
  <2> SUFFICES ASSUME MappedFigures PROVE PeriodsHoldTheirInstant
    BY DEF PeriodsHoldTheirInstant
  <2>1. PICK r \in PageRequests : r = pageRequest
    BY <1>1 DEF PageInv
  <2>2. r.kind \in SnapshotKinds
    BY <1>1, <2>1, FiguresAre
  <2>3. PICK dto : dto = ParsedOf(r)
    OBVIOUS
  <2>4. PICK S, items :
          /\ items \in Seq(S) /\ Itemised(r.kind, dto, items)
          /\ pageValue = Snapshot(dto, Lines(items, PeriodOf(r.kind, dto.asOf)))
    BY <1>1, <2>1, <2>3, FiguresAre
  <2>5. PICK period : period = PeriodOf(r.kind, dto.asOf)
    OBVIOUS
  <2>6. PICK lines : lines = Lines(items, period)
    OBVIOUS
  <2>7. pageValue.lines = lines /\ pageValue.asOf = dto.asOf
    BY <2>4, <2>5, <2>6 DEF Snapshot
  <2>8. PICK at : MadeFrom(lines, items, period, at)
    BY <2>4, <2>6, LinesAre
  <2>9. \A i \in DOMAIN lines : lines[i].period = period
    BY <2>8 DEF MadeFrom, createLineItem
  <2>10. HoldsItsInstant(pageRequest.kind, period, pageValue.asOf)
    BY <2>1, <2>2, <2>3, <2>5, <2>7, PeriodHolds
  <2>11. \A i \in DOMAIN pageValue.lines :
           HoldsItsInstant(pageRequest.kind, pageValue.lines[i].period, pageValue.asOf)
    BY <2>7, <2>9, <2>10
  <2> QED BY <2>11, Zenon DEF PeriodsHoldTheirInstant, HoldsItsInstant
<1> QED BY <1>1, PageInvariant, PTL

-----------------------------------------------------------------------------
(* ---- Amounts ---- *)

(* An amount in ten-thousandths is the value in units to less than a unit, *)
(* if the word holds it.                                                   *)
Near(scaled, amount) ==
  InWord(Quo(amount, One)) => scaled * One - amount \in (1 - One)..(One - 1)

(* The constants amounts are counted with are positive. *)
LEMMA OneIs ==
  /\ One \in Nat \ {0} /\ Hundred \in Nat \ {0} /\ Thousand \in Nat \ {0}
  /\ Million \in Nat \ {0} /\ Billion \in Nat \ {0} /\ Trillion \in Nat \ {0}
<1>1. PICK h \in Nat \ {0}, t \in Nat \ {0}, p \in Nat \ {0} :
        h = Hundred /\ t = Thousand /\ p = Parts
  BY UnitsAssumption, PartsAssumption
<1>2. PICK hh \in Nat \ {0}, tt \in Nat \ {0} : hh = h * h /\ tt = t * t
  <2>1. h * h \in Nat /\ h * h # 0 /\ t * t \in Nat /\ t * t # 0
    OBVIOUS
  <2> QED BY <2>1
<1>3. PICK o \in Nat \ {0}, b \in Nat \ {0} : o = hh * p /\ b = tt * t
  <2>1. hh * p \in Nat /\ hh * p # 0 /\ tt * t \in Nat /\ tt * t # 0
    OBVIOUS
  <2> QED BY <2>1
<1>4. b * t \in Nat /\ b * t # 0
  OBVIOUS
<1> QED BY <1>1, <1>2, <1>3, <1>4 DEF One, Million, Billion, Trillion

(* A division cut towards zero is less than a unit off. *)
LEMMA QuoIsNear ==
  ASSUME NEW a \in Int, NEW d \in Nat \ {0}
  PROVE  Quo(a, d) \in Int /\ Quo(a, d) * d - a \in (1 - d)..(d - 1)
<1>1. CASE a >= 0
  <2>1. PICK q \in Int : q = a \div d /\ a = d * q + (a % d) /\ 0 <= a % d /\ a % d < d
    BY Division
  <2>2. PICK m \in Int : m = a % d
    BY Division
  <2>3. q * d = d * q
    BY <2>1
  <2>4. Quo(a, d) = q
    BY <1>1, <2>1 DEF Quo
  <2> QED BY <2>1, <2>2, <2>3, <2>4
<1>2. CASE a < 0
  <2>0. PICK b \in Int : b = -a
    OBVIOUS
  <2>1. PICK q \in Int : q = b \div d /\ b = d * q + (b % d) /\ 0 <= b % d /\ b % d < d
    BY Division
  <2>2. PICK m \in Int : m = b % d
    BY Division
  <2>3. (-q) * d = -(d * q)
    BY <2>1
  <2>4. Quo(a, d) = -q
    BY <1>2, <2>0, <2>1 DEF Quo
  <2> QED BY <2>0, <2>1, <2>2, <2>3, <2>4
<1> QED BY <1>1, <1>2

(* The conversion of a float is. *)
LEMMA ToInt64IsNear ==
  ASSUME NEW amount \in Int
  PROVE  Near(ToInt64(amount, One), amount)
<1>1. PICK q : q = Quo(amount, One)
  OBVIOUS
<1>2. q \in Int /\ q * One - amount \in (1 - One)..(One - 1)
  BY <1>1, OneIs, QuoIsNear
<1>3. InWord(q) => ToInt64(amount, One) = q
  BY <1>1 DEF ToInt64
<1> QED BY <1>1, <1>2, <1>3 DEF Near

(* So is a whole number, and one that is wrapped. *)
LEMMA WholeIsNear ==
  ASSUME NEW k \in Int, NEW amount, amount = k * One
  PROVE  Near(k, amount) /\ Near(Wrap(k), amount)
<1>1. amount \in Int /\ k * One - amount = 0 /\ 0 \in (1 - One)..(One - 1)
  BY OneIs
<1>2. PICK q \in Int : q = Quo(amount, One) /\ q * One - amount \in (1 - One)..(One - 1)
  BY <1>1, OneIs, QuoIsNear
<1>3. q = k
  <2>1. PICK o \in Nat \ {0}, x \in Int : o = One /\ x = q - k
    BY OneIs
  <2>2. x * o = q * o - k * o
    BY <2>1
  <2>3. -o < x * o /\ x * o < o
    BY <1>2, <2>1, <2>2
  <2>4. CASE x >= 1
    <3>1. x * o >= o
      BY <2>4
    <3> QED BY <2>3, <3>1
  <2>5. CASE x <= -1
    <3>1. x * o <= -o
      BY <2>5
    <3> QED BY <2>3, <3>1
  <2> QED BY <2>1, <2>4, <2>5
<1>4. InWord(k) => Wrap(k) = k
  <2> SUFFICES ASSUME InWord(k) PROVE Wrap(k) = k
    OBVIOUS
  <2>1. PICK a \in Int, d \in Nat \ {0} :
          a = k + MaxInt + 1 /\ d = 2 * MaxInt + 2 /\ 0 <= a /\ a < d
    BY WordAssumption DEF InWord
  <2>2. a = d * 0 + a
    BY <2>1
  <2>3. a % d = a
    BY <2>1, <2>2, DivisionUnique
  <2> QED BY <2>1, <2>3, WordAssumption DEF Wrap
<1> QED BY <1>1, <1>2, <1>3, <1>4 DEF Near

(* Without a suffix. *)
Bare(cell) == cell.suffix = ""

(* A value is worth what its cell shows, so many times over. *)
Worth(value, cell, f, g) ==
  Reads(cell) /\ Near(value.scaled, cell.n * SuffixOf(cell) * f * g * UnitsIn(value.scale))

(* A cell without a suffix is worth its number. *)
LEMMA NoSuffix ==
  ASSUME NEW cell, Bare(cell)
  PROVE  SuffixOf(cell) = 1
BY ZenonT(30) DEF Bare, SuffixOf, SuffixWorth

(* The multipliers of the parser are what the suffixes are worth. *)
LEMMA SuffixIsWorth ==
  ASSUME NEW cell
  PROVE  /\ SuffixOf(cell) \in Int
         /\ cell.suffix \in DOMAIN Multipliers =>
              SuffixOf(cell) = Multipliers[cell.suffix] /\ cell.suffix \in {"K", "M", "B"}
         /\ cell.suffix \notin DOMAIN Multipliers => cell.suffix \notin {"K", "M", "B"}
         /\ cell.suffix = "%" => SuffixOf(cell) = 1
         /\ cell.suffix = "k" => SuffixOf(cell) = Thousand
<1>1. DOMAIN SuffixWorth = {"K", "k", "M", "B", "T"} /\ DOMAIN Multipliers = {"K", "M", "B"}
  BY DEF SuffixWorth, Multipliers
<1>2. \A s \in DOMAIN SuffixWorth : SuffixWorth[s] \in Int
  BY OneIs DEF SuffixWorth
<1>3. \A s \in {"K", "M", "B"} : SuffixWorth[s] = Multipliers[s]
  BY DEF SuffixWorth, Multipliers
<1>4. SuffixWorth["k"] = Thousand
  BY DEF SuffixWorth
<1> QED BY <1>1, <1>2, <1>3, <1>4 DEF SuffixOf

(* A cell that reads has a number. *)
LEMMA ReadsANumber ==
  ASSUME NEW cell \in Cells, Reads(cell)
  PROVE  cell.n \in Int
BY DEF Cells, Reads

(* The three scales of the lines. *)
LEMMA Units ==
  UnitsIn(0) = 1 /\ UnitsIn(2) = Hundred /\ UnitsIn(4) = Hundred * Hundred
BY DEF UnitsIn

(* A statement shows amounts in thousands, *)
LEMMA WorthInThousands ==
  ASSUME NEW cell \in Cells, ConvertToScaled(cell) # Nil
  PROVE  Worth(ConvertToScaled(cell), cell, Thousand, 1)
<1>1. /\ Reads(cell) /\ Bare(cell) /\ cell.n % One = 0
      /\ ConvertToScaled(cell) = [scaled |-> Wrap((cell.n \div One) * Thousand), scale |-> 0]
  BY Zenon DEF ConvertToScaled, Bare
<1>0. PICK n \in Int, o \in Nat \ {0}, t \in Int : n = cell.n /\ o = One /\ t = Thousand
  BY <1>1, ReadsANumber, OneIs
<1>2. PICK k \in Int : k = n \div o /\ n = o * k
  <2>1. n \div o \in Int /\ n = o * (n \div o) + (n % o)
    BY Division
  <2>2. n % o = 0 /\ o * (n \div o) \in Int
    BY <1>0, <1>1, <2>1
  <2> QED BY <2>1, <2>2
<1>3. n * 1 * t * 1 * 1 = (k * t) * o
  BY <1>2
<1>4. Near(Wrap(k * t), n * 1 * t * 1 * 1)
  BY <1>0, <1>2, <1>3, WholeIsNear
<1>5. SuffixOf(cell) = 1
  BY <1>1, NoSuffix
<1>6. PICK v : v = ConvertToScaled(cell)
  OBVIOUS
<1>7. v.scaled = Wrap(k * t) /\ v.scale = 0
  <2>1. v = [scaled |-> Wrap(k * t), scale |-> 0]
    BY <1>0, <1>1, <1>2, <1>6
  <2> QED BY <2>1
<1> QED BY <1>0, <1>1, <1>4, <1>5, <1>6, <1>7, Units DEF Worth

(* earnings per share as they are, *)
LEMMA WorthPerShare ==
  ASSUME NEW cell \in Cells, ConvertEPSToScaled(cell) # Nil
  PROVE  Worth(ConvertEPSToScaled(cell), cell, 1, 1)
<1> DEFINE times == IF cell.suffix = "k" THEN Thousand ELSE 1
           v == [scaled |-> ToInt64(cell.n * Hundred * times, One), scale |-> 2]
<1>1. Reads(cell) /\ (Bare(cell) \/ cell.suffix = "k") /\ ConvertEPSToScaled(cell) = v
  BY Zenon DEF ConvertEPSToScaled, Bare
<1>2. times = SuffixOf(cell)
  <2>1. CASE cell.suffix = "k"
    BY <2>1, SuffixIsWorth
  <2>2. CASE cell.suffix # "k"
    BY <1>1, <2>2, NoSuffix
  <2> QED BY <2>1, <2>2
<1> HIDE DEF times
<1>3. PICK n \in Int, h \in Int, s \in Int :
        n = cell.n /\ h = Hundred /\ s = SuffixOf(cell)
  BY <1>1, ReadsANumber, OneIs, SuffixIsWorth
<1>4. PICK amount \in Int : amount = n * h * s /\ amount = n * s * 1 * 1 * h
  <2>1. n * h * s \in Int /\ n * h * s = n * s * 1 * 1 * h
    OBVIOUS
  <2> QED BY <2>1
<1>5. v.scaled = ToInt64(amount, One) /\ v.scale = 2
  BY <1>2, <1>3, <1>4
<1>6. Near(v.scaled, amount)
  BY <1>5, ToInt64IsNear
<1> HIDE DEF v
<1> QED BY <1>1, <1>3, <1>4, <1>5, <1>6, Units DEF Worth

(* and shares as they are, with the suffix. *)
LEMMA WorthInShares ==
  ASSUME NEW cell \in Cells, Count(ConvertSharesToInt64(cell)) # Nil
  PROVE  Worth(Count(ConvertSharesToInt64(cell)), cell, 1, 1)
<1>1. ConvertSharesToInt64(cell) # Nil
      /\ Count(ConvertSharesToInt64(cell)) = [scaled |-> ConvertSharesToInt64(cell), scale |-> 0]
  BY DEF Count
<1>2. Reads(cell) /\ Bare(cell) /\ ConvertSharesToInt64(cell) = ToInt64(cell.n, One)
  BY <1>1, Zenon DEF ConvertSharesToInt64, Bare
<1>3. PICK n \in Int : n = cell.n /\ n = n * 1 * 1 * 1 * 1
  BY <1>2, ReadsANumber
<1>4. Near(ToInt64(n, One), n)
  BY ToInt64IsNear
<1>5. PICK v : v = Count(ConvertSharesToInt64(cell))
  OBVIOUS
<1>6. v.scaled = ToInt64(n, One) /\ v.scale = 0
  BY <1>1, <1>2, <1>3, <1>5
<1>7. SuffixOf(cell) = 1
  BY <1>2, NoSuffix
<1> QED BY <1>2, <1>3, <1>4, <1>5, <1>6, <1>7, Units DEF Worth

(* A statistic with a suffix is a hundred times what the page shows. *)
LEMMA WorthOfStatistic ==
  ASSUME NEW cell \in Cells, ParseFinancialValue(cell) # Nil
  PROVE  Worth(ParseFinancialValue(cell), cell, 1,
               IF cell.suffix \in {"K", "M", "B"} THEN Hundred ELSE 1)
<1> DEFINE small == [scaled |-> ToInt64(cell.n * Hundred, One), scale |-> 2]
           large == [scaled |-> ToInt64(cell.n * Multipliers[cell.suffix] * Hundred, One),
                     scale |-> 0]
           suffixed == cell.suffix \in DOMAIN Multipliers
<1>1. /\ Reads(cell)
      /\ \/ (Bare(cell) \/ cell.suffix = "%") /\ ParseFinancialValue(cell) = small
         \/ suffixed /\ ParseFinancialValue(cell) = large
  BY Zenon DEF ParseFinancialValue, Bare
<1>2. PICK n \in Int, h \in Int, s \in Int : n = cell.n /\ h = Hundred /\ s = SuffixOf(cell)
  BY <1>1, ReadsANumber, OneIs, SuffixIsWorth
<1>3. CASE (Bare(cell) \/ cell.suffix = "%") /\ ParseFinancialValue(cell) = small
  <2>1. SuffixOf(cell) = 1
    BY <1>3, NoSuffix, SuffixIsWorth
  <2>2. cell.suffix \notin {"K", "M", "B"}
    <3>1. CASE cell.suffix = "%"
      BY <3>1
    <3>2. CASE Bare(cell)
      BY <3>2, Zenon DEF Bare
    <3> QED BY <1>3, <3>1, <3>2
  <2>3. PICK amount \in Int : amount = n * h /\ amount = n * 1 * 1 * 1 * h
    <3>1. n * h \in Int /\ n * h = n * 1 * 1 * 1 * h
      OBVIOUS
    <3> QED BY <3>1
  <2>4. small.scaled = ToInt64(amount, One) /\ small.scale = 2
    BY <1>2, <2>3
  <2>5. Near(small.scaled, amount)
    BY <2>4, ToInt64IsNear
  <2> HIDE DEF small
  <2> QED BY <1>1, <1>2, <1>3, <2>1, <2>2, <2>3, <2>4, <2>5, Units DEF Worth
<1>4. CASE suffixed /\ ParseFinancialValue(cell) = large
  <2>1. cell.suffix \in {"K", "M", "B"} /\ Multipliers[cell.suffix] = s
    BY <1>2, <1>4, SuffixIsWorth
  <2>3. PICK amount \in Int : amount = n * s * h /\ amount = n * s * 1 * h * 1
    <3>1. n * s * h \in Int /\ n * s * h = n * s * 1 * h * 1
      OBVIOUS
    <3> QED BY <3>1
  <2>4. large.scaled = ToInt64(amount, One) /\ large.scale = 0
    BY <1>2, <2>1, <2>3
  <2>5. Near(large.scaled, amount)
    BY <2>4, ToInt64IsNear
  <2> HIDE DEF large
  <2> QED BY <1>1, <1>2, <1>4, <2>1, <2>3, <2>4, <2>5, Units DEF Worth
<1> QED BY <1>1, <1>3, <1>4

(* The shares outstanding are worth what the page shows. *)
LEMMA WorthOutstanding ==
  ASSUME NEW cell \in Cells, Count(ParseSharesOutstanding(cell)) # Nil
  PROVE  Worth(Count(ParseSharesOutstanding(cell)), cell, 1, 1)
<1> DEFINE shares == ParseSharesOutstanding(cell)
<1>1. shares # Nil /\ Count(shares) = [scaled |-> shares, scale |-> 0]
  BY DEF Count
<1>2. /\ Reads(cell)
      /\ \/ Bare(cell) /\ shares = ToInt64(cell.n, One)
         \/ /\ cell.suffix \in DOMAIN Multipliers
            /\ shares = ToInt64(cell.n * Multipliers[cell.suffix], One)
  BY <1>1, Zenon DEF ParseSharesOutstanding, Bare
<1> HIDE DEF shares
<1>3. PICK n \in Int, s \in Int : n = cell.n /\ s = SuffixOf(cell)
  BY <1>2, ReadsANumber, SuffixIsWorth
<1>4. PICK amount \in Int : amount = n * s /\ amount = n * s * 1 * 1 * 1
  <2>1. n * s \in Int /\ n * s = n * s * 1 * 1 * 1
    OBVIOUS
  <2> QED BY <2>1
<1>5. shares = ToInt64(amount, One)
  <2>1. CASE Bare(cell) /\ shares = ToInt64(cell.n, One)
    <3>1. s = 1 /\ amount = n
      BY <1>3, <1>4, <2>1, NoSuffix
    <3> QED BY <1>3, <2>1, <3>1
  <2>2. CASE /\ cell.suffix \in DOMAIN Multipliers
             /\ shares = ToInt64(cell.n * Multipliers[cell.suffix], One)
    BY <1>3, <1>4, <2>2, SuffixIsWorth
  <2> QED BY <1>2, <2>1, <2>2
<1>6. PICK v : v = Count(shares)
  OBVIOUS
<1>7. v.scaled = ToInt64(amount, One) /\ v.scale = 0
  BY <1>1, <1>5, <1>6
<1>8. Near(v.scaled, amount)
  BY <1>7, ToInt64IsNear
<1>9. Worth(v, cell, 1, 1)
  BY <1>2, <1>3, <1>4, <1>7, <1>8, Units DEF Worth
<1> QED BY <1>6, <1>9 DEF shares

(* A field of the insights is worth what it shows, *)
LEMMA WorthOfField ==
  ASSUME NEW cell \in Cells, NEW scale \in {0, 2, 4}, FixedPoint(ParseFloat(cell), scale) # Nil
  PROVE  Worth(FixedPoint(ParseFloat(cell), scale), cell, 1, 1)
<1>1. /\ ParseFloat(cell) # Nil
      /\ FixedPoint(ParseFloat(cell), scale)
           = [scaled |-> ToInt64(ParseFloat(cell) * UnitsIn(scale), One), scale |-> scale]
  BY DEF FixedPoint
<1>2. Reads(cell) /\ Bare(cell) /\ ParseFloat(cell) = cell.n
  BY <1>1, Zenon DEF ParseFloat, Bare
<1>3. PICK n \in Int, u \in Int : n = cell.n /\ u = UnitsIn(scale)
  BY <1>2, ReadsANumber, OneIs, Units
<1>4. PICK amount \in Int : amount = n * u /\ amount = n * 1 * 1 * 1 * u
  <2>1. n * u \in Int /\ n * u = n * 1 * 1 * 1 * u
    OBVIOUS
  <2> QED BY <2>1
<1>5. PICK v : v = FixedPoint(ParseFloat(cell), scale)
  OBVIOUS
<1>6. v.scaled = ToInt64(amount, One) /\ v.scale = scale
  BY <1>1, <1>2, <1>3, <1>4, <1>5
<1>7. Near(v.scaled, amount)
  BY <1>6, ToInt64IsNear
<1>8. SuffixOf(cell) = 1
  BY <1>2, NoSuffix
<1> QED BY <1>2, <1>3, <1>4, <1>5, <1>6, <1>7, <1>8 DEF Worth

(* and so is a count of analysts. *)
LEMMA WorthOfCount ==
  ASSUME NEW cell \in Cells, Count(ParseInt(cell)) # Nil
  PROVE  Worth(Count(ParseInt(cell)), cell, 1, 1)
<1>1. ParseInt(cell) # Nil /\ Count(ParseInt(cell)) = [scaled |-> ParseInt(cell), scale |-> 0]
  BY DEF Count
<1>2. /\ ParseFloat(cell) # Nil /\ ParseFloat(cell) % One = 0
      /\ ParseInt(cell) = ParseFloat(cell) \div One
  BY <1>1 DEF ParseInt
<1>3. Reads(cell) /\ Bare(cell) /\ ParseFloat(cell) = cell.n
  BY <1>2, Zenon DEF ParseFloat, Bare
<1>0. PICK n \in Int, o \in Nat \ {0} : n = cell.n /\ o = One
  BY <1>3, ReadsANumber, OneIs
<1>4. PICK k \in Int : k = n \div o /\ n = o * k
  <2>1. n \div o \in Int /\ n = o * (n \div o) + (n % o)
    BY Division
  <2>2. n % o = 0 /\ o * (n \div o) \in Int
    BY <1>0, <1>2, <1>3, <2>1
  <2> QED BY <2>1, <2>2
<1>5. n * 1 * 1 * 1 * 1 = k * o
  BY <1>4
<1>6. Near(k, n * 1 * 1 * 1 * 1)
  BY <1>0, <1>4, <1>5, WholeIsNear
<1>7. PICK v : v = Count(ParseInt(cell))
  OBVIOUS
<1>8. v.scaled = k /\ v.scale = 0
  BY <1>0, <1>1, <1>2, <1>3, <1>4, <1>7
<1>9. SuffixOf(cell) = 1
  BY <1>3, NoSuffix
<1> QED BY <1>0, <1>3, <1>6, <1>7, <1>8, <1>9, Units DEF Worth

(* The cell of a row, found by its own title. *)
CellIn(page, row) ==
  LET rows == Kept(page.rows, {r \in ToSet(page.rows) : r.title = row}) IN
  IF rows = <<>> THEN Nil ELSE rows[1].current

(* A cell is worth as much without its commas. *)
LEMMA CommasAreNothing ==
  ASSUME NEW cell \in Cells
  PROVE  /\ WithoutCommas(cell) \in Cells
         /\ \A value, f, g : Worth(value, WithoutCommas(cell), f, g) => Worth(value, cell, f, g)
<1>1. CASE cell = Nil
  BY <1>1 DEF WithoutCommas, Cells
<1>2. CASE cell # Nil
  <2>1. PICK d : d = [cell EXCEPT !.commas = FALSE]
    OBVIOUS
  <2>2. WithoutCommas(cell) = d
    BY <1>2, <2>1 DEF WithoutCommas
  <2>3. d \in Cells /\ d.n = cell.n /\ d.suffix = cell.suffix
    BY <1>2, <2>1 DEF Cells
  <2>4. SuffixOf(d) = SuffixOf(cell) /\ (Reads(d) => Reads(cell))
    BY <1>2, <2>3 DEF SuffixOf, Reads
  <2> QED BY <2>2, <2>3, <2>4 DEF Worth
<1> QED BY <1>1, <1>2

(* No row of the page has a title that ends in the row's own. *)
Alone(page, row) == \A i \in DOMAIN page.rows : page.rows[i].title \notin Titles(row) \ {row}

(* The parser's column has the cell of the row of that title, if no other row
   may be taken for it. *)
LEMMA ColumnIs ==
  ASSUME NEW page, StatementFound(page),
         NEW row \in IncomeRows \cup BalanceRows \cup CashFlowRows,
         Alone(page, row)
  PROVE  /\ CellIn(page, row) \in Cells
         /\ extractFinancialDataFromHTML(page).columns[row].current
              \in {CellIn(page, row), WithoutCommas(CellIn(page, row))}
<1> DEFINE found == Kept(page.rows, {r \in ToSet(page.rows) : r.title \in Titles(row)})
           text(cell) == IF row = "BasicEPS" THEN cell ELSE WithoutCommas(cell)
           T == [title : STRING, current : Cells, older : Cells]
<1>1. extractFinancialDataFromHTML(page).columns[row].current
        = IF found = <<>> THEN Nil ELSE text(found[1].current)
  <2>1. extractFinancialDataFromHTML(page).columns[row] =
          IF found = <<>> THEN [current |-> Nil, older |-> Nil]
          ELSE [current |-> text(found[1].current), older |-> text(found[1].older)]
    BY DEF extractFinancialDataFromHTML
  <2> HIDE DEF found, text
  <2> QED BY <2>1
<1>2. {r \in ToSet(page.rows) : r.title \in Titles(row)}
        = {r \in ToSet(page.rows) : r.title = row}
  <2>1. row \in Titles(row)
    BY DEF Titles
  <2>2. \A r \in ToSet(page.rows) : r.title \in Titles(row) => r.title = row
    BY DEF ToSet, Alone
  <2> QED BY <2>1, <2>2
<1>3. CellIn(page, row) = IF found = <<>> THEN Nil ELSE found[1].current
  <2>1. found = Kept(page.rows, {r \in ToSet(page.rows) : r.title = row})
    BY <1>2
  <2> HIDE DEF found
  <2> QED BY <2>1 DEF CellIn
<1>4. found \in Seq(T)
  <2> HIDE DEF T
  <2>1. page.rows \in Seq(T)
    BY DEF StatementFound, T
  <2> QED BY <2>1, KeptSelects
<1> HIDE DEF found
<1>5. found # <<>> => found[1].current \in Cells
  <2> SUFFICES ASSUME found # <<>> PROVE found[1].current \in Cells
    OBVIOUS
  <2> HIDE DEF T
  <2>1. found[1] \in T
    BY <1>4, Elements
  <2> QED BY <2>1 DEF T
<1>6. CASE found = <<>>
  BY <1>1, <1>3, <1>6 DEF Cells
<1>7. CASE found # <<>>
  BY <1>1, <1>3, <1>5, <1>7
<1> QED BY <1>6, <1>7

(* The amount of a row of a statement is worth the cell of that row, *)
LEMMA StatementIsWorth ==
  ASSUME NEW page, StatementFound(page), NEW market, NEW now, NEW j \in 1..20,
         NEW row, row = StatementTable[j][2],
         Alone(page, row),
         NEW dto, dto = ParseComprehensiveFinancials(page, market, now),
         NEW value,
         value = IF row \in ShareRows THEN Count(dto.current[row]) ELSE dto.current[row],
         value # Nil
  PROVE  Worth(value, CellIn(page, row),
               IF row \notin EPSRows \cup ShareRows THEN Thousand ELSE 1, 1)
<1> DEFINE data == extractFinancialDataFromHTML(page)
           cell == data.columns[row].current
<1>1. row \in IncomeRows \cup BalanceRows \cup CashFlowRows
  BY SMTT(60) DEF StatementTable, FinancialKeys, ShareKeys, IncomeRows, BalanceRows, CashFlowRows
<1>2. DOMAIN data.columns = IncomeRows \cup BalanceRows \cup CashFlowRows
  BY Zenon DEF extractFinancialDataFromHTML
<1>3. dto.current = PopulateCurrent(data)
  BY DEF ParseComprehensiveFinancials
<1> HIDE DEF data
<1>4. dto.current[row] = ConvertCell(row, cell)
  BY <1>1, <1>2, <1>3 DEF PopulateCurrent
<1>5. PICK c : c = CellIn(page, row)
  OBVIOUS
<1>6. c \in Cells /\ cell \in {c, WithoutCommas(c)}
  BY <1>1, <1>5, ColumnIs DEF data
<1> HIDE DEF cell
<1>7. cell \in Cells
  BY <1>6, CommasAreNothing
<1>8. EPSRows \cap ShareRows = {}
  BY DEF EPSRows, ShareRows
<1>9. Worth(value, cell, IF row \notin EPSRows \cup ShareRows THEN Thousand ELSE 1, 1)
  <2>1. CASE row \in EPSRows
    BY <1>4, <1>7, <1>8, <2>1, WorthPerShare DEF ConvertCell
  <2>2. CASE row \in ShareRows
    BY <1>4, <1>7, <1>8, <2>2, WorthInShares DEF ConvertCell
  <2>3. CASE row \notin EPSRows \cup ShareRows
    BY <1>4, <1>7, <2>3, WorthInThousands DEF ConvertCell
  <2> QED BY <2>1, <2>2, <2>3
<1> QED BY <1>5, <1>6, <1>9, CommasAreNothing

(* that of a row of statistics too, in the unit its suffix makes it, *)
LEMMA StatisticsIsWorth ==
  ASSUME NEW page, StatisticsFound(page), NEW market, NEW now, NEW j \in 1..15,
         NEW row, row = StatisticsTable[j][2],
         NEW dto, dto = ParseComprehensiveKeyStatistics(page, market, now),
         NEW value, value = StatisticsAmount(row, dto), value # Nil
  PROVE  LET cell == extractScaledValue(page, row, 1) IN
         Worth(value, cell, 1,
               IF cell.suffix \in {"K", "M", "B"} /\ StatisticsTable[j][1] # "shares_outstanding"
                 THEN Hundred ELSE 1)
<1>1. PICK cell : cell = extractScaledValue(page, row, 1)
  OBVIOUS
<1>2. cell \in Cells
  <2>1. CASE row \in DOMAIN page.rows /\ 1 \in DOMAIN page.rows[row]
    <3>1. PICK cells \in Seq(Cells) : cells = page.rows[row]
      BY <2>1 DEF StatisticsFound
    <3>2. 1 \in 1..Len(cells)
      BY <2>1, <3>1
    <3>3. cells[1] \in Cells
      BY <3>2, Elements
    <3> QED BY <1>1, <2>1, <3>1, <3>3 DEF extractScaledValue
  <2>2. CASE ~ (row \in DOMAIN page.rows /\ 1 \in DOMAIN page.rows[row])
    BY <1>1, <2>2 DEF extractScaledValue, Cells
  <2> QED BY <2>1, <2>2
<1>3. /\ row = "SharesOutstanding" <=> StatisticsTable[j][1] = "shares_outstanding"
      /\ row \in ValuationRows \cup AdditionalRows \cup {"SharesOutstanding"}
      /\ "SharesOutstanding" \notin ValuationRows \cup AdditionalRows
      /\ ValuationRows \cap AdditionalRows = {}
  BY SMTT(60) DEF StatisticsTable, MoneyKeys, RatioKeys, MarginKeys, ValuationRows, AdditionalRows
<1>4. dto.current = extractCurrentValues(page) /\ dto.additional = extractAdditionalValues(page)
  BY DEF ParseComprehensiveKeyStatistics
<1>5. CASE row = "SharesOutstanding"
  <2>1. dto.additional.shares = ParseSharesOutstanding(cell)
    BY <1>1, <1>4, <1>5 DEF extractAdditionalValues
  <2>2. value = Count(ParseSharesOutstanding(cell))
    BY <1>5, <2>1 DEF StatisticsAmount
  <2>3. Worth(value, cell, 1, 1)
    BY <1>2, <2>2, WorthOutstanding
  <2> QED BY <1>1, <1>3, <1>5, <2>3
<1>6. CASE row \in ValuationRows \cup AdditionalRows
  <2>1. value = ParseFinancialValue(cell)
    <3>1. CASE row \in ValuationRows
      BY <1>1, <1>3, <1>4, <3>1 DEF extractCurrentValues, StatisticsAmount
    <3>2. CASE row \in AdditionalRows
      BY <1>1, <1>3, <1>4, <3>2 DEF extractAdditionalValues, StatisticsAmount
    <3> QED BY <1>6, <3>1, <3>2
  <2>2. Worth(value, cell, 1, IF cell.suffix \in {"K", "M", "B"} THEN Hundred ELSE 1)
    BY <1>2, <2>1, WorthOfStatistic
  <2> QED BY <1>1, <1>3, <1>6, <2>2
<1> QED BY <1>3, <1>5, <1>6

(* and that of a field of insights. *)
LEMMA InsightIsWorth ==
  ASSUME NEW page, InsightsFound(page), NEW market, NEW now, NEW j \in 1..7,
         NEW row, row = InsightTable[j][2],
         NEW dto, dto = ParseAnalystInsights(page, market, now),
         NEW value, value = InsightAmount(row, dto), value # Nil
  PROVE  Worth(value, page.fields[row], 1, 1)
<1>1. row \in InsightFields
  BY SMTT(60) DEF InsightTable, InsightFields
<1>2. dto.fields[row] = IF row \notin DOMAIN page.fields THEN Nil
                        ELSE IF row = "numberOfAnalysts" THEN ParseInt(page.fields[row])
                        ELSE ParseFloat(page.fields[row])
  <2>1. dto.fields = extractFinancialDataFlexible(page)
    BY DEF ParseAnalystInsights, extractFinancialDataFromJSON
  <2> QED BY <1>1, <2>1 DEF extractFinancialDataFlexible
<1>3. dto.fields[row] # Nil
  BY DEF InsightAmount, Count, FixedPoint
<1>4. PICK cell \in Cells : cell = page.fields[row]
  BY <1>2, <1>3 DEF InsightsFound
<1>5. CASE row = "numberOfAnalysts"
  <2>1. value = Count(ParseInt(cell))
    BY <1>2, <1>3, <1>4, <1>5 DEF InsightAmount
  <2> QED BY <1>4, <2>1, WorthOfCount
<1>6. CASE row # "numberOfAnalysts"
  <2>1. PICK scale \in {0, 2, 4} : value = FixedPoint(ParseFloat(cell), scale)
    BY <1>2, <1>3, <1>4, <1>6 DEF InsightAmount
  <2> QED BY <1>4, <2>1, WorthOfField
<1> QED BY <1>5, <1>6

(* A key is about one row, if no two rows of the table have it. *)
LEMMA RowIs ==
  ASSUME NEW table, Distinct(table), NEW j \in DOMAIN table, NEW key, key = table[j][1]
  PROVE  RowOf(key, table) = table[j][2]
<1>1. \A i \in DOMAIN table : table[i][1] = key => i = j
  BY DEF Distinct
<1>2. (CHOOSE i \in DOMAIN table : table[i][1] = key) = j
  BY <1>1
<1> QED BY <1>2 DEF RowOf

(* No table has a key twice. *)
LEMMA TablesAre ==
  /\ Distinct(StatementTable) /\ DOMAIN StatementTable = 1..20
  /\ Distinct(StatisticsTable) /\ DOMAIN StatisticsTable = 1..15
  /\ Distinct(InsightTable) /\ DOMAIN InsightTable = 1..7
<1>1. Distinct(StatementTable) /\ DOMAIN StatementTable = 1..20
  BY SMTT(60) DEF Distinct, StatementTable, FinancialKeys, ShareKeys
<1>2. Distinct(StatisticsTable) /\ DOMAIN StatisticsTable = 1..15
  BY SMTT(60) DEF Distinct, StatisticsTable, MoneyKeys, RatioKeys, MarginKeys
<1>3. Distinct(InsightTable) /\ DOMAIN InsightTable = 1..7
  BY SMTT(60) DEF Distinct, InsightTable
<1> QED BY <1>1, <1>2, <1>3

(* What the page shows for a key, by the kind of the page. *)
LEMMA ShownIs ==
  ASSUME NEW key
  PROVE  LET cell == CellOf(key)
             kind == pageRequest.kind IN
         /\ kind \in StatementPages =>
              /\ cell = CellIn(pageRequest.page, RowOf(key, StatementTable))
              /\ Shown(key) = cell.n * SuffixOf(cell)
                   * (IF RowOf(key, StatementTable) \notin EPSRows \cup ShareRows
                        THEN Thousand ELSE 1) * 1
         /\ kind = "statistics" =>
              /\ cell = extractScaledValue(pageRequest.page, RowOf(key, StatisticsTable), 1)
              /\ Shown(key) = cell.n * SuffixOf(cell) * 1
                   * (IF cell.suffix \in {"K", "M", "B"} /\ key # "shares_outstanding"
                        THEN Hundred ELSE 1)
         /\ kind = "insights" =>
              /\ cell = pageRequest.page.fields[RowOf(key, InsightTable)]
              /\ Shown(key) = cell.n * SuffixOf(cell) * 1 * 1
<1> DEFINE cell == CellOf(key)
           kind == pageRequest.kind
<1>1. PICK none : none = ""
  OBVIOUS
<1>2. Shown(key) =
        cell.n * SuffixOf(cell)
          * (IF /\ kind \in StatementPages
                /\ (IF kind \in StatementPages THEN RowOf(key, StatementTable) ELSE none)
                     \notin EPSRows \cup ShareRows
               THEN Thousand ELSE 1)
          * (IF kind = "statistics" /\ cell.suffix \in {"K", "M", "B"}
                  /\ key # "shares_outstanding" THEN Hundred ELSE 1)
  BY <1>1, Zenon DEF Shown
<1>3. CellAt(RowOf(key, StatementTable)) = CellIn(pageRequest.page, RowOf(key, StatementTable))
  BY Zenon DEF CellAt, CellIn
<1>4. ASSUME kind \in StatementPages
      PROVE  cell = CellIn(pageRequest.page, RowOf(key, StatementTable)) /\ kind # "statistics"
  BY <1>3, <1>4 DEF CellOf, StatementPages
<1>5. ASSUME kind = "statistics"
      PROVE  /\ cell = extractScaledValue(pageRequest.page, RowOf(key, StatisticsTable), 1)
             /\ kind \notin StatementPages
  BY <1>5 DEF CellOf, StatementPages
<1>6. ASSUME kind = "insights"
      PROVE  /\ cell = pageRequest.page.fields[RowOf(key, InsightTable)]
             /\ kind \notin StatementPages /\ kind # "statistics"
  BY <1>6 DEF CellOf, StatementPages
<1> HIDE DEF cell
<1>7. CASE kind \in StatementPages
  BY <1>2, <1>4, <1>7 DEF cell, StatementPages
<1>8. CASE kind = "statistics"
  BY <1>2, <1>5, <1>8 DEF cell, StatementPages
<1>9. CASE kind = "insights"
  BY <1>2, <1>6, <1>9 DEF cell, StatementPages
<1> QED BY <1>7, <1>8, <1>9 DEF cell, StatementPages

(* What AmountsAreTheCells says of one line. *)
IsTheCell(line) ==
  LET scaled == UnitsIn(line.value.scale) IN
  \/ line.key = "upside_potential_percent"
  \/ TakenForAnother(line.key)
  \/ /\ Reads(CellOf(line.key))
     /\ InWord(Quo(Shown(line.key) * scaled, One)) =>
          line.value.scaled * One - Shown(line.key) * scaled \in (1 - One)..(One - 1)

(* An amount that is worth its cell is the cell, to less than a unit. *)
LEMMA WorthSays ==
  ASSUME NEW line, NEW f, NEW g, Worth(line.value, CellOf(line.key), f, g),
         Shown(line.key) = CellOf(line.key).n * SuffixOf(CellOf(line.key)) * f * g
  PROVE  IsTheCell(line)
<1>1. PICK amount : amount = Shown(line.key) * UnitsIn(line.value.scale)
  OBVIOUS
<1>2. Reads(CellOf(line.key)) /\ Near(line.value.scaled, amount)
  BY <1>1 DEF Worth
<1> QED BY <1>1, <1>2 DEF IsTheCell, Near

(* So every line is the cell its key is about. *)
LEMMA FigureIsTheCell ==
  ASSUME NEW r \in PageRequests, r = pageRequest, NEW item, NEW line,
         line.key = item[1], line.value = item[2], item[2] # Nil,
         \/ r.kind \in StatementPages /\ FromStatement(item, ParsedOf(r))
         \/ r.kind = "statistics" /\ FromStatistics(item, ParsedOf(r))
         \/ r.kind = "insights" /\ FromInsights(item, ParsedOf(r))
  PROVE  IsTheCell(line)
<1>1. CASE r.kind \in StatementPages /\ FromStatement(item, ParsedOf(r))
  <2>1. PICK dto : dto = ParsedOf(r) /\ dto = ParseComprehensiveFinancials(r.page, r.market, r.now)
    BY <1>1 DEF ParsedOf, StatementPages
  <2>2. PICK j \in 1..20 :
          /\ item[1] = StatementTable[j][1]
          /\ item[2] = IF StatementTable[j][2] \in ShareRows
                         THEN Count(dto.current[StatementTable[j][2]])
                         ELSE dto.current[StatementTable[j][2]]
    BY <1>1, <2>1 DEF FromStatement
  <2>3. PICK row : row = StatementTable[j][2]
    OBVIOUS
  <2>4. RowOf(line.key, StatementTable) = row
    BY <2>2, <2>3, TablesAre, RowIs
  <2>5. StatementFound(r.page)
    BY <1>1, PageRequestsAssumption DEF StatementPages
  <2>6. CASE ~ Alone(r.page, row)
    BY <1>1, <2>4, <2>6 DEF IsTheCell, TakenForAnother, Alone
  <2>7. CASE Alone(r.page, row)
    <3> DEFINE f == IF row \notin EPSRows \cup ShareRows THEN Thousand ELSE 1
    <3>1. item[2] = IF row \in ShareRows THEN Count(dto.current[row]) ELSE dto.current[row]
      BY <2>2, <2>3
    <3>2. Worth(line.value, CellIn(r.page, row), f, 1)
      BY <2>1, <2>3, <2>5, <2>7, <3>1, StatementIsWorth
    <3>3. /\ CellOf(line.key) = CellIn(r.page, row)
          /\ Shown(line.key) = CellOf(line.key).n * SuffixOf(CellOf(line.key)) * f * 1
      BY <1>1, <2>4, ShownIs
    <3> HIDE DEF f
    <3> QED BY <3>2, <3>3, WorthSays
  <2> QED BY <2>6, <2>7
<1>2. CASE r.kind = "statistics" /\ FromStatistics(item, ParsedOf(r))
  <2>1. PICK dto : dto = ParsedOf(r)
                   /\ dto = ParseComprehensiveKeyStatistics(r.page, r.market, r.now)
    BY <1>2 DEF ParsedOf, StatementPages
  <2>2. PICK j \in 1..15 : /\ item[1] = StatisticsTable[j][1]
                           /\ item[2] = StatisticsAmount(StatisticsTable[j][2], dto)
    BY <1>2, <2>1 DEF FromStatistics
  <2>3. PICK row : row = StatisticsTable[j][2]
    OBVIOUS
  <2>4. RowOf(line.key, StatisticsTable) = row
    BY <2>2, <2>3, TablesAre, RowIs
  <2>5. StatisticsFound(r.page)
    BY <1>2, PageRequestsAssumption DEF StatementPages
  <2>6. PICK cell : cell = extractScaledValue(r.page, row, 1)
    OBVIOUS
  <2> DEFINE g == IF cell.suffix \in {"K", "M", "B"} /\ line.key # "shares_outstanding"
                    THEN Hundred ELSE 1
  <2>7. Worth(line.value, cell, 1, g)
    BY <2>1, <2>2, <2>3, <2>5, <2>6, StatisticsIsWorth
  <2>8. /\ CellOf(line.key) = cell
        /\ Shown(line.key) = cell.n * SuffixOf(cell) * 1 * g
    BY <1>2, <2>4, <2>6, ShownIs
  <2> HIDE DEF g
  <2> QED BY <2>7, <2>8, WorthSays
<1>3. CASE r.kind = "insights" /\ FromInsights(item, ParsedOf(r))
  <2>1. PICK dto : dto = ParsedOf(r) /\ dto = ParseAnalystInsights(r.page, r.market, r.now)
    BY <1>3 DEF ParsedOf, StatementPages
  <2>2. CASE item[1] = "upside_potential_percent"
    BY <2>2 DEF IsTheCell
  <2>3. CASE item[1] # "upside_potential_percent"
    <3>2. PICK j \in 1..7 : /\ item[1] = InsightTable[j][1]
                            /\ item[2] = InsightAmount(InsightTable[j][2], dto)
      BY <1>3, <2>1, <2>3 DEF FromInsights
    <3>3. PICK row : row = InsightTable[j][2]
      OBVIOUS
    <3>4. RowOf(line.key, InsightTable) = row
      BY <3>2, <3>3, TablesAre, RowIs
    <3>5. InsightsFound(r.page)
      BY <1>3, PageRequestsAssumption DEF StatementPages
    <3>6. PICK cell : cell = r.page.fields[row]
      OBVIOUS
    <3>7. Worth(line.value, cell, 1, 1)
      BY <2>1, <3>2, <3>3, <3>5, <3>6, InsightIsWorth
    <3>8. /\ CellOf(line.key) = cell
          /\ Shown(line.key) = cell.n * SuffixOf(cell) * 1 * 1
      BY <1>3, <3>4, <3>6, ShownIs
    <3> QED BY <3>7, <3>8, WorthSays
  <2> QED BY <2>2, <2>3
<1> QED BY <1>1, <1>2, <1>3

(* Every amount of every line is what its cell shows (the parsers of
   internal/scrape and the mappers of internal/emit), for every page. *)
THEOREM AmountsDoMatch == PageSpec => []AmountsAreTheCells
<1>1. ASSUME PageInv PROVE AmountsAreTheCells
  <2> SUFFICES ASSUME MappedFigures, pageRequest.kind # "analysis" PROVE AmountsAreTheCells
    BY DEF AmountsAreTheCells
  <2>1. PICK r \in PageRequests : r = pageRequest
    BY <1>1 DEF PageInv
  <2>2. r.kind \in SnapshotKinds
    BY <1>1, <2>1, FiguresAre
  <2>3. PICK dto : dto = ParsedOf(r)
    OBVIOUS
  <2>4. PICK S, items, period :
          /\ items \in Seq(S) /\ Itemised(r.kind, dto, items)
          /\ pageValue = Snapshot(dto, Lines(items, period))
    BY <1>1, <2>1, <2>3, FiguresAre
  <2>5. PICK lines : lines = Lines(items, period)
    OBVIOUS
  <2>6. pageValue.lines = lines
    BY <2>4, <2>5 DEF Snapshot
  <2>7. PICK at : MadeFrom(lines, items, period, at)
    BY <2>4, <2>5, LinesAre
  <2>8. ASSUME NEW i \in DOMAIN lines PROVE IsTheCell(lines[i])
    <3>1. PICK k \in 1..Len(items) :
            /\ lines[i] = createLineItem(items[k][1], items[k][2], items[k][3], period)
            /\ Mappable(items[k][2])
      BY <2>7 DEF MadeFrom
    <3>2. PICK item, line : item = items[k] /\ line = lines[i]
      OBVIOUS
    <3>3. line.key = item[1] /\ line.value = item[2] /\ item[2] # Nil
      BY <3>1, <3>2 DEF createLineItem, Mappable
    <3>4. \/ r.kind \in StatementPages /\ FromStatement(item, ParsedOf(r))
          \/ r.kind = "statistics" /\ FromStatistics(item, ParsedOf(r))
          \/ r.kind = "insights" /\ FromInsights(item, ParsedOf(r))
      BY <2>1, <2>2, <2>3, <2>4, <3>2 DEF Itemised, SnapshotKinds
    <3>5. IsTheCell(line)
      BY <2>1, <3>3, <3>4, FigureIsTheCell
    <3> QED BY <3>2, <3>5
  <2>9. \A i \in DOMAIN pageValue.lines : IsTheCell(pageValue.lines[i])
    BY <2>6, <2>8
  <2> QED BY <2>9, Zenon DEF AmountsAreTheCells, IsTheCell
<1> QED BY <1>1, PageInvariant, PTL

-----------------------------------------------------------------------------
(* ---- News ---- *)

(* Two articles of which one would be taken for a repetition of the other. *)
Alike(a, b) ==
  normalizeURLForDedup(a.url) = normalizeURLForDedup(b.url) \/ SameStory(a, b)

(* To repeat one article is to be alike. *)
LEMMA RepeatsOne ==
  ASSUME NEW a, NEW b
  PROVE  Repeats(a, <<b>>) <=> Alike(a, b)
<1>1. DOMAIN <<b>> = {1} /\ <<b>>[1] = b
  OBVIOUS
<1> QED BY <1>1, Zenon DEF Repeats, Alike

(* Which of two came first makes no difference, *)
LEMMA AlikeIsSymmetric ==
  ASSUME NEW a, NEW b, IsArticle(a), IsArticle(b), Alike(a, b)
  PROVE  Alike(b, a)
<1>1. SameTime(a.published, b.published) => SameTime(b.published, a.published)
  <2> DEFINE p == a.published  q == b.published
  <2>1. p \in Int \cup {Nil} /\ q \in Int \cup {Nil}
    BY DEF IsArticle
  <2> HIDE DEF p, q
  <2>2. SameTime(p, q) => SameTime(q, p)
    BY <2>1 DEF SameTime
  <2> QED BY <2>2 DEF p, q
<1> QED BY <1>1, Zenon DEF Alike, SameStory

(* and an article is like itself. *)
LEMMA AlikeToItself ==
  ASSUME NEW a
  PROVE  Alike(a, a)
BY Zenon DEF Alike

(* t is what is left of the first n of s. *)
Leaves(t, s, n) ==
  /\ \A i, j \in 1..Len(t) : i < j => ~ Alike(t[j], t[i])
  /\ \A i \in 1..n : \E j \in 1..Len(t) : Alike(s[i], t[j])

RepeatsAny(a, t) == \E i \in 1..Len(t) : Alike(a, t[i])

(* To repeat some of a sequence is to be like one of them. *)
LEMMA RepeatsAnyOf ==
  ASSUME NEW S, NEW t \in Seq(S), NEW a
  PROVE  Repeats(a, t) <=> RepeatsAny(a, t)
<1>1. DOMAIN t = 1..Len(t)
  BY Elements
<1> QED BY <1>1, Zenon DEF Repeats, RepeatsAny, Alike

(* One more article: left, if it repeats none that is, *)
LEMMA LeavesMore ==
  ASSUME NEW S, NEW s \in Seq(S), NEW n \in Nat, n + 1 <= Len(s),
         NEW t \in Seq(S), Leaves(t, s, n), ~ RepeatsAny(s[n + 1], t)
  PROVE  Append(t, s[n + 1]) \in Seq(S) /\ Leaves(Append(t, s[n + 1]), s, n + 1)
<1> DEFINE u == Append(t, s[n + 1])
<1>0. s[n + 1] \in S /\ Len(t) \in Nat
  OBVIOUS
<1>1. /\ Len(u) = Len(t) + 1 /\ u[Len(t) + 1] = s[n + 1] /\ u \in Seq(S)
      /\ \A i \in 1..Len(t) : u[i] = t[i]
  BY <1>0
<1> HIDE DEF u
<1>2. ASSUME NEW i \in 1..Len(u), NEW j \in 1..Len(u), i < j PROVE ~ Alike(u[j], u[i])
  <2>1. i \in 1..Len(t) /\ u[i] = t[i]
    BY <1>0, <1>1, <1>2
  <2>2. CASE j \in 1..Len(t)
    BY <2>1, <2>2, <1>1, <1>2 DEF Leaves
  <2>3. CASE j = Len(t) + 1
    BY <2>1, <2>3, <1>1 DEF RepeatsAny
  <2> QED BY <2>2, <2>3, <1>0, <1>1
<1>3. ASSUME NEW i \in 1..(n + 1) PROVE \E j \in 1..Len(u) : Alike(s[i], u[j])
  <2>1. CASE i = n + 1
    <3>1. Len(t) + 1 \in 1..Len(u)
      BY <1>0, <1>1
    <3> QED BY <2>1, <3>1, <1>1, AlikeToItself
  <2>2. CASE i # n + 1
    <3>1. PICK j \in 1..Len(t) : Alike(s[i], t[j])
      BY <2>2 DEF Leaves
    <3>2. j \in 1..Len(u)
      BY <1>0, <1>1
    <3> QED BY <3>1, <3>2, <1>1
  <2> QED BY <2>1, <2>2
<1>4. Leaves(u, s, n + 1)
  BY <1>2, <1>3 DEF Leaves
<1> QED BY <1>1, <1>4 DEF u

(* and passed over, if it does. *)
LEMMA LeavesSame ==
  ASSUME NEW s, NEW n \in Nat, NEW t, Leaves(t, s, n), RepeatsAny(s[n + 1], t)
  PROVE  Leaves(t, s, n + 1)
<1>1. ASSUME NEW i \in 1..(n + 1) PROVE \E j \in 1..Len(t) : Alike(s[i], t[j])
  <2>1. CASE i = n + 1
    BY <2>1 DEF RepeatsAny
  <2>2. CASE i # n + 1
    <3>1. i \in 1..n
      BY <2>2
    <3> QED BY <3>1 DEF Leaves
  <2> QED BY <2>1, <2>2
<1> QED BY <1>1 DEF Leaves

(* So the loop of deduplicateArticles leaves articles none of which repeats
   another, and every one that was found repeats one of them. *)
LEMMA UnrepeatedLeaves ==
  ASSUME NEW S, NEW s \in Seq(S)
  PROVE  Unrepeated(s) \in Seq(S) /\ Leaves(Unrepeated(s), s, Len(s))
<1> DEFINE Rec(F) == [n \in 0..Len(s) |->
                        IF n = 0 THEN <<>>
                        ELSE IF Repeats(s[n], F[n - 1]) THEN F[n - 1]
                        ELSE Append(F[n - 1], s[n])]
           left == CHOOSE F : F = Rec(F)
<1>0. Len(s) \in Nat /\ \A i \in 1..Len(s) : s[i] \in S
  OBVIOUS
<1>1. \E F : F = Rec(F)
  <2> DEFINE T == Seq(S)  base == <<>>
             step == [p \in T \X (1..Len(s)) |->
                        IF Repeats(s[p[2]], p[1]) THEN p[1] ELSE Append(p[1], s[p[2]])]
  <2>1. base \in T
    OBVIOUS
  <2>2. step \in [T \X (1..Len(s)) -> T]
    BY <1>0
  <2>3. \E F : Computes(F, T, base, Len(s), step)
    <3> HIDE DEF step, T, base
    <3> QED BY <1>0, <2>1, <2>2, Recursion
  <2>4. PICK F : Computes(F, T, base, Len(s), step)
    BY <2>3
  <2>5. /\ F \in [0..Len(s) -> T] /\ F[0] = <<>>
        /\ \A i \in 1..Len(s) : F[i] = step[<<F[i - 1], i>>]
    <3> HIDE DEF step, T
    <3> QED BY <2>4 DEF Computes
  <2>6. ASSUME NEW i \in 1..Len(s)
        PROVE  F[i] = IF Repeats(s[i], F[i - 1]) THEN F[i - 1] ELSE Append(F[i - 1], s[i])
    <3>1. <<F[i - 1], i>> \in T \X (1..Len(s))
      BY <2>5
    <3> QED BY <2>5, <3>1
  <2>7. ASSUME NEW i \in 0..Len(s) PROVE F[i] = Rec(F)[i]
    <3>1. CASE i = 0
      BY <3>1, <2>5
    <3>2. CASE i # 0
      <4>1. i \in 1..Len(s)
        BY <3>2
      <4> QED BY <4>1, <3>2, <2>6
    <3> QED BY <3>1, <3>2
  <2>8. F = [i \in 0..Len(s) |-> F[i]]
    BY <2>5
  <2>9. F = Rec(F)
    BY <2>7, <2>8
  <2> QED BY <2>9
<1>2. left = Rec(left)
  BY <1>1
<1>3. Unrepeated(s) = left[Len(s)]
  BY DEF Unrepeated
<1> HIDE DEF left
<1>4. left[0] = <<>>
  BY <1>2, <1>0
<1>5. ASSUME NEW i \in 1..Len(s)
      PROVE  left[i] = IF Repeats(s[i], left[i - 1]) THEN left[i - 1] ELSE Append(left[i - 1], s[i])
  <2>1. i \in 0..Len(s) /\ i # 0
    BY <1>0
  <2>2. left[i] = Rec(left)[i]
    BY <1>2
  <2> QED BY <2>1, <2>2
<1> HIDE DEF Rec
<1> DEFINE N == {n \in Nat : n <= Len(s) => left[n] \in Seq(S) /\ Leaves(left[n], s, n)}
<1>6. 0 \in N
  <2>1. Leaves(<<>>, s, 0)
    BY DEF Leaves
  <2>2. left[0] \in Seq(S) /\ Leaves(left[0], s, 0)
    BY <2>1, <1>4
  <2> QED BY <2>2
<1>7. ASSUME NEW n \in Nat, n \in N PROVE n + 1 \in N
  <2> SUFFICES ASSUME n + 1 <= Len(s)
               PROVE  left[n + 1] \in Seq(S) /\ Leaves(left[n + 1], s, n + 1)
    OBVIOUS
  <2>1. left[n] \in Seq(S) /\ Leaves(left[n], s, n)
    BY <1>7, <1>0
  <2>3. n + 1 \in 1..Len(s) /\ s[n + 1] \in S /\ (n + 1) - 1 = n
    BY <1>0
  <2>30. Repeats(s[n + 1], left[n]) <=> RepeatsAny(s[n + 1], left[n])
    BY <2>1, RepeatsAnyOf
  <2>4. CASE ~ Repeats(s[n + 1], left[n])
    <3>1. left[n + 1] = Append(left[n], s[n + 1])
      BY <2>3, <2>4, <1>5
    <3> QED BY <3>1, <2>1, <2>4, <2>30, LeavesMore
  <2>5. CASE Repeats(s[n + 1], left[n])
    <3>1. left[n + 1] = left[n]
      BY <2>3, <2>5, <1>5
    <3> QED BY <3>1, <2>1, <2>5, <2>30, LeavesSame
  <2> QED BY <2>4, <2>5
<1>8. Len(s) \in N
  <2> HIDE DEF N
  <2> QED BY <1>0, <1>6, <1>7, Induction
<1> QED BY <1>0, <1>3, <1>8

(* An order of what is left has each of them, once. *)
LEMMA Sorted ==
  ASSUME NEW S, NEW t \in Seq(S), NEW f \in SetToSeqs(ToSet(t))
  PROVE  /\ f \in Seq(S)
         /\ \A i \in 1..Len(f) : \E j \in 1..Len(t) : f[i] = t[j]
         /\ \A j \in 1..Len(t) : \E i \in 1..Len(f) : f[i] = t[j]
         /\ \A i, j \in 1..Len(f) : i # j => f[i] # f[j]
<1> DEFINE E == ToSet(t)  n == Cardinality(E)
<1>1. Len(t) \in Nat /\ DOMAIN t = 1..Len(t) /\ \A i \in 1..Len(t) : t[i] \in S
  BY Elements
<1>2. E = {t[i] : i \in 1..Len(t)}
  BY <1>1 DEF ToSet
<1>3. IsFiniteSet(E)
  <2>1. IsFiniteSet(1..Len(t))
    BY <1>1, FS_Interval
  <2>2. t \in Surjection(1..Len(t), E)
    <3>1. t \in [1..Len(t) -> E]
      BY <1>1, <1>2
    <3> QED BY <3>1, <1>2 DEF Surjection
  <2> HIDE DEF E
  <2> QED BY <2>1, <2>2, FS_Surjection
<1>4. n \in Nat
  BY <1>3, FS_CardinalityType
<1>5. f \in [1..n -> E] /\ \A i, j \in 1..n : i # j => f[i] # f[j]
  BY DEF SetToSeqs
<1>6. \A e \in E : e \in S
  BY <1>1, <1>2
<1> HIDE DEF n, E
<1>7. f \in Seq(S) /\ Len(f) = n
  BY <1>4, <1>5, <1>6
<1>8. f \in Surjection(1..n, E)
  <2>1. f \in Injection(1..n, E)
    BY <1>5 DEF Injection, IsInjective
  <2>2. IsFiniteSet(1..n) /\ Cardinality(1..n) = n
    BY <1>4, FS_Interval
  <2> QED BY <1>3, <2>1, <2>2, FS_Injection DEF n
<1>9. \A e \in E : \E i \in 1..n : f[i] = e
  BY <1>8 DEF Surjection
<1>10. \A i \in 1..Len(f) : \E j \in 1..Len(t) : f[i] = t[j]
  BY <1>2, <1>5, <1>7
<1>11. \A j \in 1..Len(t) : \E i \in 1..Len(f) : f[i] = t[j]
  <2> SUFFICES ASSUME NEW j \in 1..Len(t) PROVE \E i \in 1..Len(f) : f[i] = t[j]
    OBVIOUS
  <2>1. t[j] \in E
    BY <1>2
  <2> QED BY <2>1, <1>7, <1>9
<1> QED BY <1>5, <1>7, <1>10, <1>11

(* f has the articles of s in order, without those that are alike. *)
Stories(f, s) ==
  /\ Len(f) \in Nat /\ DOMAIN f = 1..Len(f)
  /\ \A i, j \in 1..Len(f) : i < j => ~ Alike(f[j], f[i]) /\ ~ Newer(f[j], f[i])
  /\ \A i \in 1..Len(f) : \E k \in 1..Len(s) : f[i] = s[k]
  /\ \A k \in 1..Len(s) : \E i \in 1..Len(f) : Alike(s[k], f[i])

(* What deduplicateArticles returns, in any order its sort may choose. *)
LEMMA DeduplicatedAre ==
  ASSUME NEW s, AreArticles(s), NEW f \in deduplicateArticles(s)
  PROVE  f \in Seq({s[k] : k \in 1..Len(s)}) /\ Stories(f, s)
<1> DEFINE S == {s[k] : k \in 1..Len(s)}
<1>1. Len(s) \in Nat /\ s \in Seq(S) /\ \A a \in S : IsArticle(a)
  <2>1. /\ Len(s) \in Nat /\ s = [i \in 1..Len(s) |-> s[i]]
        /\ (\A i \in 1..Len(s) : s[i] \in S) /\ \A i \in 1..Len(s) : IsArticle(s[i])
    BY DEF AreArticles
  <2>2. \A a \in S : IsArticle(a)
    BY <2>1
  <2> HIDE DEF S
  <2>3. s \in Seq(S)
    <3>1. PICK n \in Nat : n = Len(s)
      BY <2>1
    <3> QED BY <2>1, <3>1, Made
  <2> QED BY <2>1, <2>2, <2>3
<1>2. \A a \in S : \E k \in 1..Len(s) : a = s[k]
  OBVIOUS
<1> HIDE DEF S
<1>3. PICK t : t = Unrepeated(s)
  OBVIOUS
<1>4. t \in Seq(S) /\ Leaves(t, s, Len(s))
  BY <1>1, <1>3, UnrepeatedLeaves
<1>5. f \in SetToSeqs(ToSet(t)) /\ \A i, j \in DOMAIN f : i < j => ~ Newer(f[j], f[i])
  BY <1>3 DEF deduplicateArticles, SortedArticles
<1>6. /\ f \in Seq(S)
      /\ \A i \in 1..Len(f) : \E j \in 1..Len(t) : f[i] = t[j]
      /\ \A j \in 1..Len(t) : \E i \in 1..Len(f) : f[i] = t[j]
      /\ \A i, j \in 1..Len(f) : i # j => f[i] # f[j]
  BY <1>4, <1>5, Sorted
<1>7. Len(f) \in Nat /\ DOMAIN f = 1..Len(f) /\ \A i \in 1..Len(f) : f[i] \in S
  BY <1>6, Elements
<1>8. Len(t) \in Nat /\ \A i \in 1..Len(t) : t[i] \in S
  BY <1>4, Elements
<1>9. ASSUME NEW i \in 1..Len(f), NEW j \in 1..Len(f), i < j PROVE ~ Alike(f[j], f[i])
  <2>1. PICK a \in 1..Len(t) : f[i] = t[a]
    BY <1>6
  <2>2. PICK b \in 1..Len(t) : f[j] = t[b]
    BY <1>6
  <2>3. a # b
    <3>1. i # j
      BY <1>7, <1>9
    <3> QED BY <1>6, <2>1, <2>2, <3>1
  <2>4. CASE a < b
    BY <1>4, <2>1, <2>2, <2>4 DEF Leaves
  <2>5. CASE b < a
    <3>1. ~ Alike(t[a], t[b])
      BY <1>4, <2>5 DEF Leaves
    <3>2. IsArticle(t[a]) /\ IsArticle(t[b])
      BY <1>1, <1>8
    <3> QED BY <2>1, <2>2, <3>1, <3>2, AlikeIsSymmetric
  <2> QED BY <1>8, <2>3, <2>4, <2>5
<1>10. ASSUME NEW k \in 1..Len(s) PROVE \E i \in 1..Len(f) : Alike(s[k], f[i])
  <2>1. PICK j \in 1..Len(t) : Alike(s[k], t[j])
    BY <1>4 DEF Leaves
  <2> QED BY <1>6, <2>1
<1>11. \A i, j \in 1..Len(f) : i < j => ~ Newer(f[j], f[i])
  BY <1>5, <1>7
<1>12. \A i \in 1..Len(f) : \E k \in 1..Len(s) : f[i] = s[k]
  BY <1>2, <1>7
<1>13. Stories(f, s)
  BY <1>7, <1>9, <1>10, <1>11, <1>12 DEF Stories
<1> QED BY <1>6, <1>13 DEF S

(* What NewsIsNotRepeated says of a report on the articles s. *)
ReportHolds(report, s) ==
  LET articles == report.articles
      cut == report.totalFound - report.deduped - Len(articles) IN
  /\ \A i, j \in DOMAIN articles : i < j =>
       /\ ~ Repeats(articles[j], <<articles[i]>>)
       /\ ~ Newer(articles[j], articles[i])
  /\ cut >= 0 /\ Len(articles) \in 1..MaxArticles
  /\ IF cut > 0 THEN Len(articles) = MaxArticles
     ELSE \A i \in DOMAIN s : Repeats(s[i], articles)

(* The articles of a report are the first of those in order, *)
FirstOf(articles, f) ==
  /\ Len(articles) \in 1..MaxArticles /\ DOMAIN articles = 1..Len(articles)
  /\ Len(articles) <= Len(f) /\ (Len(articles) < Len(f) => Len(articles) = MaxArticles)
  /\ \A i \in 1..Len(articles) : articles[i] = f[i]

(* whose statistics say how many were left. *)
LEMMA ReportOf ==
  ASSUME NEW s, AreArticles(s), Len(s) # 0, NEW page, NEW report \in Reports(s, page)
  PROVE  \E f : /\ Stories(f, s) /\ FirstOf(report.articles, f)
                /\ report.totalFound - report.deduped = Len(f)
<1> DEFINE S == {s[k] : k \in 1..Len(s)}
<1>1. PICK f \in deduplicateArticles(s) : report = Report(s, f, page)
  BY DEF Reports
<1>2. f \in Seq(S) /\ Stories(f, s)
  BY DeduplicatedAre
<1>3. Len(s) \in Nat
  BY DEF AreArticles
<1> HIDE DEF S
<1>4. Len(f) \in Nat /\ DOMAIN f = 1..Len(f) /\ \A i \in 1..Len(f) : f[i] \in S
  BY <1>2, Elements
<1>5. Len(f) # 0
  <2>1. 1 \in 1..Len(s)
    BY <1>3
  <2>2. PICK i \in 1..Len(f) : Alike(s[1], f[i])
    BY <1>2, <2>1 DEF Stories
  <2> QED BY <1>4, <2>2
<1> DEFINE m == IF Len(f) > MaxArticles THEN MaxArticles ELSE Len(f)
<1>6. m \in 1..MaxArticles /\ m <= Len(f) /\ (m < Len(f) => m = MaxArticles)
  <2>1. PICK n \in Nat \ {0} : n = Len(f)
    BY <1>4, <1>5
  <2>2. PICK max \in Nat \ {0} : max = MaxArticles
    BY ArticlesAssumption
  <2>3. m = IF n > max THEN max ELSE n
    BY <2>1, <2>2
  <2> HIDE DEF m
  <2>4. m \in 1..max /\ m <= n /\ (m < n => m = max)
    BY <2>3
  <2> QED BY <2>1, <2>2, <2>4
<1>7. report.articles = SubSeq(f, 1, m) /\ report.totalFound = Len(s)
      /\ report.deduped = Len(s) - Len(f)
  BY <1>1 DEF Report
<1> HIDE DEF m
<1>8. PICK articles : articles = SubSeq(f, 1, m)
  OBVIOUS
<1>9. /\ Len(articles) = m /\ DOMAIN articles = 1..m
      /\ \A i \in 1..m : articles[i] = f[i]
  BY <1>2, <1>4, <1>6, <1>8, ArticlesAssumption
<1>10. FirstOf(articles, f)
  BY <1>6, <1>9 DEF FirstOf
<1>11. report.totalFound - report.deduped = Len(f)
  BY <1>3, <1>4, <1>7
<1> QED BY <1>2, <1>7, <1>8, <1>10, <1>11

(* So a report says what is asked of it. *)
LEMMA ReportHoldsOf ==
  ASSUME NEW s, AreArticles(s), Len(s) # 0, NEW page, NEW report \in Reports(s, page)
  PROVE  ReportHolds(report, s)
<1>1. PICK f : /\ Stories(f, s) /\ FirstOf(report.articles, f)
               /\ report.totalFound - report.deduped = Len(f)
  BY ReportOf
<1>2. PICK articles : articles = report.articles
  OBVIOUS
<1>3. /\ Len(articles) \in 1..MaxArticles /\ DOMAIN articles = 1..Len(articles)
      /\ Len(articles) <= Len(f) /\ (Len(articles) < Len(f) => Len(articles) = MaxArticles)
      /\ \A i \in 1..Len(articles) : articles[i] = f[i]
  BY <1>1, <1>2 DEF FirstOf
<1>4. /\ Len(f) \in Nat
      /\ \A i, j \in 1..Len(f) : i < j => ~ Alike(f[j], f[i]) /\ ~ Newer(f[j], f[i])
      /\ \A k \in 1..Len(s) : \E i \in 1..Len(f) : Alike(s[k], f[i])
  BY <1>1 DEF Stories
<1>5. ASSUME NEW i \in DOMAIN articles, NEW j \in DOMAIN articles, i < j
      PROVE  ~ Repeats(articles[j], <<articles[i]>>) /\ ~ Newer(articles[j], articles[i])
  <2>1. i \in 1..Len(f) /\ j \in 1..Len(f) /\ articles[i] = f[i] /\ articles[j] = f[j]
    BY <1>3, <1>4, ArticlesAssumption
  <2> QED BY <1>4, <1>5, <2>1, RepeatsOne
<1> DEFINE cut == report.totalFound - report.deduped - Len(articles)
<1>6. cut = Len(f) - Len(articles)
  BY <1>1
<1> HIDE DEF cut
<1>7. cut >= 0 /\ (cut > 0 => Len(articles) = MaxArticles)
      /\ (~ (cut > 0) => Len(articles) = Len(f))
  <2>1. PICK n \in Nat : n = Len(f)
    BY <1>4
  <2>2. PICK max \in Nat \ {0} : max = MaxArticles
    BY ArticlesAssumption
  <2>3. PICK m \in 1..max : m = Len(articles) /\ m <= n /\ (m < n => m = max)
    BY <1>3, <2>1, <2>2
  <2>4. cut = n - m
    BY <1>6, <2>1, <2>3
  <2>5. cut >= 0 /\ (cut > 0 => m = max) /\ (~ (cut > 0) => m = n)
    BY <2>3, <2>4
  <2> QED BY <2>1, <2>2, <2>3, <2>5
<1>8. ASSUME ~ (cut > 0), NEW k \in DOMAIN s PROVE Repeats(s[k], articles)
  <2>1. k \in 1..Len(s) /\ Len(articles) = Len(f)
    <3>1. DOMAIN s = 1..Len(s)
      BY DEF AreArticles
    <3> QED BY <1>7, <1>8, <3>1
  <2>2. PICK i \in 1..Len(f) : Alike(s[k], f[i])
    BY <1>4, <2>1
  <2>3. i \in DOMAIN articles /\ articles[i] = f[i]
    BY <1>3, <2>1, <2>2
  <2>4. Alike(s[k], articles[i])
    BY <2>2, <2>3
  <2> QED BY <2>3, <2>4, Zenon DEF Repeats, Alike
<1>9. IF cut > 0 THEN Len(articles) = MaxArticles
      ELSE \A i \in DOMAIN s : Repeats(s[i], articles)
  BY <1>7, <1>8
<1> QED BY <1>2, <1>3, <1>5, <1>7, <1>9, Zenon DEF ReportHolds, cut

(* Named, as the empty text is no constant the SMT solver knows. *)
NoScheme(url) == url.scheme = ""

(* A URL with a scheme that is mapped parses and keeps scheme, host and path. *)
LEMMA NormalizedURL ==
  ASSUME NEW url \in Urls, normalizeNewsURL(url) # Failed, ~ NoScheme(url)
  PROVE  /\ url.parses
         /\ normalizeNewsURL(url).scheme = url.scheme
         /\ normalizeNewsURL(url).host = url.host
         /\ normalizeNewsURL(url).path = url.path
<1> DEFINE scheme == IF NoScheme(url) THEN "https" ELSE url.scheme
           query == Kept(url.query, ToSet(url.query) \ RemovedParams)
<1>1. normalizeNewsURL(url) =
         IF ~ url.parses \/ scheme \notin {"http", "https"} \/ url.host = Nil THEN Failed
         ELSE [url EXCEPT !.scheme = scheme, !.query = query]
  BY Zenon DEF normalizeNewsURL, NoScheme
<1>2. scheme = url.scheme
  BY Zenon
<1> HIDE DEF scheme, query
<1>3. url.parses /\ normalizeNewsURL(url) = [url EXCEPT !.scheme = scheme, !.query = query]
  BY <1>1
<1> QED BY <1>2, <1>3 DEF Urls

(* What NewsIsNotRepeated says of the messages made of articles of s. *)
MessagesHold(messages, s) ==
  \A i, j \in DOMAIN messages :
    i < j /\ messages[i].url = messages[j].url => \E k \in DOMAIN s : s[k].url.scheme = ""

(* Messages of one URL are of articles alike but for a scheme that is missing,
   and none that is returned has one alike. *)
LEMMA MessagesAre ==
  ASSUME NEW s, AreArticles(s), Len(s) # 0, NEW page, NEW report \in Reports(s, page),
         NEW now, MapNewsItems(report.articles, now) # Failed
  PROVE  MessagesHold(MapNewsItems(report.articles, now), s)
<1>1. PICK f : Stories(f, s) /\ FirstOf(report.articles, f)
  BY ReportOf
<1>2. PICK articles : articles = report.articles
  OBVIOUS
<1>3. PICK messages : messages = MapNewsItems(articles, now)
  OBVIOUS
<1>4. /\ Len(articles) \in Nat /\ DOMAIN articles = 1..Len(articles)
      /\ \A i \in 1..Len(articles) : i \in 1..Len(f) /\ articles[i] = f[i]
  <2>1. /\ Len(articles) \in 1..MaxArticles /\ DOMAIN articles = 1..Len(articles)
        /\ Len(articles) <= Len(f) /\ \A i \in 1..Len(articles) : articles[i] = f[i]
    BY <1>1, <1>2 DEF FirstOf
  <2>2. Len(f) \in Nat
    BY <1>1 DEF Stories
  <2> QED BY <2>1, <2>2, ArticlesAssumption
<1>5. ~ \E i \in DOMAIN articles : normalizeNewsURL(articles[i].url) = Failed
  BY <1>2, Zenon DEF MapNewsItems
<1>6. messages = [i \in DOMAIN articles |-> mapSingleNewsItem(articles[i], now)]
  BY <1>3, <1>5, Zenon DEF MapNewsItems
<1>7. \A i \in 1..Len(articles) :
        i \in DOMAIN messages /\ messages[i].url = normalizeNewsURL(articles[i].url)
  <2> SUFFICES ASSUME NEW i \in 1..Len(articles)
               PROVE  i \in DOMAIN messages /\ messages[i].url = normalizeNewsURL(articles[i].url)
    OBVIOUS
  <2>1. i \in DOMAIN messages /\ messages[i] = mapSingleNewsItem(articles[i], now)
    BY <1>4, <1>6
  <2>2. mapSingleNewsItem(articles[i], now).url = normalizeNewsURL(articles[i].url)
    <3>1. PICK h : h = articles[i].title
      OBVIOUS
    <3>2. PICK u : u = normalizeNewsURL(articles[i].url)
      OBVIOUS
    <3>3. PICK c : c = cleanNewsSource(articles[i].source)
      OBVIOUS
    <3>4. PICK p : p = IF articles[i].published # Nil /\ articles[i].published > now.utc + 5
                         THEN now.utc ELSE articles[i].published
      OBVIOUS
    <3>5. mapSingleNewsItem(articles[i], now) =
            [headline |-> h, url |-> u, source |-> c, publishedAt |-> p]
      BY <3>1, <3>2, <3>3, <3>4, Zenon DEF mapSingleNewsItem
    <3>6. [headline |-> h, url |-> u, source |-> c, publishedAt |-> p].url = u
      OBVIOUS
    <3> QED BY <3>2, <3>5, <3>6
  <2> QED BY <2>1, <2>2
<1>8. DOMAIN messages = 1..Len(articles)
  BY <1>4, <1>6
<1>9. ASSUME NEW i \in 1..Len(articles), NEW j \in 1..Len(articles), i < j,
             messages[i].url = messages[j].url
      PROVE  NoScheme(articles[i].url) \/ NoScheme(articles[j].url)
  <2> SUFFICES ASSUME ~ NoScheme(articles[i].url), ~ NoScheme(articles[j].url) PROVE FALSE
    OBVIOUS
  <2>0. \A k \in 1..Len(articles) : articles[k].url \in Urls
    <3>1. \A k \in 1..Len(articles) : \E h \in 1..Len(s) : articles[k] = s[h]
      BY <1>1, <1>4 DEF Stories
    <3>2. \A h \in 1..Len(s) : s[h].url \in Urls
      BY DEF AreArticles, IsArticle
    <3> QED BY <3>1, <3>2
  <2> DEFINE ui == normalizeNewsURL(articles[i].url)  uj == normalizeNewsURL(articles[j].url)
  <2>1. ui = uj
    BY <1>7, <1>9
  <2>2. ui # Failed /\ uj # Failed
    BY <1>4, <1>5
  <2>3. /\ articles[i].url.parses /\ ui.scheme = articles[i].url.scheme
        /\ ui.host = articles[i].url.host /\ ui.path = articles[i].url.path
    BY <2>0, <2>2, NormalizedURL
  <2>4. /\ articles[j].url.parses /\ uj.scheme = articles[j].url.scheme
        /\ uj.host = articles[j].url.host /\ uj.path = articles[j].url.path
    BY <2>0, <2>2, NormalizedURL
  <2> HIDE DEF ui, uj
  <2>5. Alike(articles[j], articles[i])
    <3>1. /\ articles[j].url.scheme = articles[i].url.scheme
          /\ articles[j].url.host = articles[i].url.host
          /\ articles[j].url.path = articles[i].url.path
      BY <2>1, <2>3, <2>4
    <3>2. /\ normalizeURLForDedup(articles[i].url) = [scheme |-> articles[i].url.scheme,
                host |-> articles[i].url.host, path |-> articles[i].url.path]
          /\ normalizeURLForDedup(articles[j].url) = [scheme |-> articles[j].url.scheme,
                host |-> articles[j].url.host, path |-> articles[j].url.path]
      BY <2>3, <2>4, Zenon DEF normalizeURLForDedup
    <3> QED BY <3>1, <3>2, Zenon DEF Alike
  <2> QED BY <1>1, <1>4, <1>9, <2>5 DEF Stories
<1>10. ASSUME NEW i \in 1..Len(articles), NoScheme(articles[i].url)
       PROVE  \E k \in DOMAIN s : s[k].url.scheme = ""
  <2>1. DOMAIN s = 1..Len(s)
    BY DEF AreArticles
  <2>2. PICK k \in 1..Len(s) : articles[i] = s[k]
    BY <1>1, <1>4 DEF Stories
  <2>3. NoScheme(s[k].url)
    BY <1>10, <2>2
  <2> QED BY <2>1, <2>3, Zenon DEF NoScheme
<1>11. MessagesHold(messages, s)
  BY <1>8, <1>9, <1>10, Zenon DEF MessagesHold
<1> QED BY <1>2, <1>3, <1>11

(* No article is returned twice, none that was found is lost but to the limit,
   and the statistics add up (deduplicateArticles, ParseNews, MapNewsItems),
   for every page and every limit. *)
THEOREM NewsDoesNotRepeat == PageSpec => []NewsIsNotRepeated
<1>1. PageInv => NewsIsNotRepeated
  <2> SUFFICES ASSUME PageInv, pageRequest.kind = "news", pageValue \notin {Failed, Panic}
               PROVE  /\ pageStage = "mapped" => MessagesHold(pageValue, ArticlesFound)
                      /\ pageStage = "parsed" => ReportHolds(pageValue, ArticlesFound)
    BY Zenon DEF NewsIsNotRepeated, MessagesHold, ReportHolds
  <2>1. PICK s : s = ArticlesFound
    OBVIOUS
  <2>2. AreArticles(s)
    BY <2>1, FoundOnIs, FoundOnAre DEF PageInv
  <2>3. ASSUME pageStage = "parsed" PROVE ReportHolds(pageValue, s)
    <3>1. s # <<>> /\ pageValue \in Reports(s, pageRequest.page)
      BY <2>1, <2>3 DEF PageInv, NewsKeeps, ReportsFound
    <3> QED BY <2>2, <3>1, NotEmpty, ReportHoldsOf
  <2>4. ASSUME pageStage = "mapped" PROVE MessagesHold(pageValue, s)
    <3>1. PICK report \in Reports(s, pageRequest.page) :
            pageValue = MapNewsItems(report.articles, pageRequest.now)
      BY <2>1, <2>4 DEF PageInv, NewsKeeps, ReportsFound
    <3>2. s # <<>>
      BY <2>1, <2>4 DEF PageInv, NewsKeeps
    <3> QED BY <2>2, <3>1, <3>2, NotEmpty, MessagesAre
  <2> QED BY <2>1, <2>3, <2>4
<1> QED BY <1>1, PageInvariant, PTL
==============================================================================
