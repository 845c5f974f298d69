------------------------------ MODULE PagePath ------------------------------
(***************************************************************************)
(* A page of the web site on its way through the library: fetched by the   *)
(* scraping client (ScrapeFetch), parsed (ScrapedPages, News) and mapped   *)
(* to messages (PageMapping, News), or only parsed and printed when it is  *)
(* previewed.  A request of the kind "lines" hands lines of a caller's own *)
(* to the two mappers.  The patterns for news are loaded once per process  *)
(* and stay: `loaded`, the one state a request leaves behind.              *)
(***************************************************************************)
EXTENDS PageMapping, News

CONSTANT PageRequests     \* kind, page, the financials page, market, now

VARIABLES pageRequest, pageStage, pageValue, loaded

pageVars == <<pageRequest, pageStage, pageValue, loaded>>

StatementPages == {"financials", "balance", "cashflow"}
SnapshotKinds == StatementPages \cup {"statistics", "analysis", "insights"}

(* Figures are read by a clock whose zone is less than a day from UTC. *)
Clocks == [utc : Int, zone : (1 - DayTicks)..(DayTicks - 1)]
Cells == {Nil} \cup [n : Int \cup {Nil}, suffix : STRING, commas : BOOLEAN]
Urls == [scheme : STRING, host : STRING \cup {Nil}, path : Seq(STRING), query : Seq(STRING),
         parses : BOOLEAN]
Ages == [text : STRING, unit : STRING, count : Int]

(* What the patterns may find on a page of each kind. *)
StatementFound(page) == page.rows \in Seq([title : STRING, current : Cells, older : Cells])
StatisticsFound(page) == \A row \in DOMAIN page.rows : page.rows[row] \in Seq(Cells)
InsightsFound(page) == \A field \in DOMAIN page.fields : page.fields[field] \in Cells
NewsFound(page) ==
  /\ page.blocks \in Seq([title : STRING, url : Urls \cup {Nil}, source : STRING,
                          published : Int \cup {Nil}])
  /\ page.containers \in Seq([title : STRING, url : Urls \cup {Nil}, info : Seq(Ages)])

ASSUME PageRequestsAssumption ==
  \A r \in PageRequests :
    \/ r.kind \in StatementPages /\ r.now \in Clocks /\ StatementFound(r.page)
    \/ r.kind = "statistics" /\ r.now \in Clocks /\ StatisticsFound(r.page)
    \/ r.kind = "analysis" /\ r.now \in Clocks
    \/ r.kind = "insights" /\ r.now \in Clocks /\ InsightsFound(r.page)
    \/ r.kind = "news" /\ r.now \in [utc : Int, zone : Int] /\ NewsFound(r.page)
    \/ r.kind = "lines"

PageInit ==
  /\ pageRequest \in PageRequests
  /\ pageStage = "fetch" /\ pageValue = Nil
  /\ loaded = FALSE

Arrive(stage, result) ==
  pageStage' = stage /\ pageValue' = result /\ UNCHANGED pageRequest

FetchPageFails ==
  /\ pageStage = "fetch" /\ pageRequest.kind # "lines"
  /\ Arrive("parsed", Failed) /\ UNCHANGED loaded

Parsed ==
  LET r == pageRequest IN
  CASE r.kind \in StatementPages -> ParseComprehensiveFinancials(r.page, r.market, r.now)
    [] r.kind = "statistics" -> ParseComprehensiveKeyStatistics(r.page, r.market, r.now)
    [] r.kind = "analysis" -> ParseAnalysis(r.page, r.market, r.now)
    [] r.kind = "insights" -> ParseAnalystInsights(r.page, r.market, r.now)

ParseFigures ==
  /\ pageStage = "fetch" /\ pageRequest.kind \in SnapshotKinds
  /\ Arrive("parsed", Parsed) /\ UNCHANGED loaded

(* A page without a story in its script is parsed from its markup. *)
ParseArticles ==
  /\ pageStage = "fetch" /\ pageRequest.kind = "news"
  /\ \E report \in ParseNews(pageRequest.page, pageRequest.now, loaded) :
       Arrive("parsed", report)
  /\ loaded' = (loaded \/ extractArticlesFromNewsJSON(pageRequest.page.blocks) = <<>>)

(* --preview-json of the other two statements has the financials page too. *)
PreviewStatement ==
  /\ pageStage = "fetch" /\ pageRequest.kind \in {"balance", "cashflow"}
  /\ Arrive("previewed", ParseComprehensiveFinancialsWithCurrency(
               pageRequest.page, pageRequest.financials, pageRequest.market, pageRequest.now))
  /\ UNCHANGED loaded

Mapped ==
  CASE pageRequest.kind = "financials" -> MapComprehensiveFinancialsDTO(pageValue)
    [] pageRequest.kind = "balance"    -> MapBalanceSheetDTO(pageValue)
    [] pageRequest.kind = "cashflow"   -> MapCashFlowDTO(pageValue)
    [] pageRequest.kind = "statistics" -> MapKeyStatisticsDTO(pageValue)
    [] pageRequest.kind = "analysis"   -> MapAnalysisDTO(pageValue)
    [] pageRequest.kind = "insights"   -> MapAnalystInsightsDTO(pageValue)
    [] pageRequest.kind = "news"       -> MapNewsItems(pageValue.articles, pageRequest.now)

MapPage ==
  /\ pageStage = "parsed" /\ pageValue \notin {Failed, Panic}
  /\ Arrive("mapped", Mapped) /\ UNCHANGED loaded

MapLines ==
  /\ pageStage = "fetch" /\ pageRequest.kind = "lines"
  /\ \E result \in {MapFinancialsDTO(pageRequest.page), MapFinancials(pageRequest.page)} :
       Arrive("mapped", result)
  /\ UNCHANGED loaded

(* The process goes on to another page of news. *)
NextNews ==
  /\ pageStage \in {"parsed", "mapped"} /\ pageRequest.kind = "news" /\ pageValue # Panic
  /\ pageRequest' \in {r \in PageRequests : r.kind = "news"}
  /\ pageStage' = "fetch" /\ pageValue' = Nil /\ UNCHANGED loaded

PageNext ==
  \/ FetchPageFails \/ ParseFigures \/ ParseArticles \/ PreviewStatement
  \/ MapPage \/ MapLines \/ NextNews

PageSpec == PageInit /\ [][PageNext]_pageVars

-----------------------------------------------------------------------------
MappedFigures ==
  pageStage = "mapped" /\ pageRequest.kind \in SnapshotKinds /\ pageValue # Failed

(* Three mappers copy their lines out of the same statement by code of     *)
(* their own, and agree: a line of a balance sheet or a cash flow that the *)
(* financials of the page have too has the same amount and currency there, *)
(* whatever the page holds; and no message has a key twice.                *)
StatementsAgree ==
  MappedFigures =>
    LET lines == pageValue.lines
        r == pageRequest
        others == ExtractCurrentPeriodLines(
                    ParseComprehensiveFinancials(r.page, r.market, r.now)) IN
    /\ ValidateMonotonicPeriods(lines)
    /\ Cardinality({lines[i].key : i \in DOMAIN lines}) = Len(lines)
    /\ r.kind \in {"balance", "cashflow"} =>
         \A i \in DOMAIN lines : \E j \in DOMAIN others :
           /\ lines[i].key = others[j].key /\ lines[i].value = others[j].value
           /\ lines[i].currency = others[j].currency

(* The cell of the page that a key is about, found by the row's own title. *)
CellAt(row) ==
  LET rows == Kept(pageRequest.page.rows, {r \in ToSet(pageRequest.page.rows) : r.title = row}) IN
  IF rows = <<>> THEN Nil ELSE rows[1].current
RowOf(key, table) == LET i == CHOOSE i \in DOMAIN table : table[i][1] = key IN table[i][2]
KeysOf(table) == {table[i][1] : i \in DOMAIN table}

StatementTable == FinancialKeys \o ShareKeys
StatisticsTable == MoneyKeys \o RatioKeys \o MarginKeys \o
                   << <<"beta", "Beta">>, <<"shares_outstanding", "SharesOutstanding">> >>

InsightTable ==
  << <<"current_price", "currentPrice">>, <<"target_price_mean", "targetMeanPrice">>,
     <<"target_price_median", "targetMedianPrice">>,
     <<"target_price_high", "targetHighPrice">>, <<"target_price_low", "targetLowPrice">>,
     <<"analyst_count", "numberOfAnalysts">>,
     <<"recommendation_score", "recommendationMean">> >>

CellOf(key) ==
  CASE pageRequest.kind \in StatementPages -> CellAt(RowOf(key, StatementTable))
    [] pageRequest.kind = "statistics" ->
         extractScaledValue(pageRequest.page, RowOf(key, StatisticsTable), 1)
    [] pageRequest.kind = "insights" -> pageRequest.page.fields[RowOf(key, InsightTable)]

SuffixWorth ==
  [K |-> Thousand, k |-> Thousand, M |-> Million, B |-> Billion, T |-> Trillion]
SuffixOf(cell) == IF cell.suffix \in DOMAIN SuffixWorth THEN SuffixWorth[cell.suffix] ELSE 1

(* An amount is in the unit its scale says and worth what its cell shows,  *)
(* which a statement shows in thousands but for shares and earnings per    *)
(* share, to less than one of that unit.  The exceptions are the code's:   *)
(* a statistic with a suffix is a hundred times what the page shows, and   *)
(* EBITDA and the cost of revenue may be another row of the page whose     *)
(* title ends in theirs: the normalised one, the reconciled one.           *)
Shown(key) ==
  LET cell == CellOf(key)
      row == IF pageRequest.kind \in StatementPages THEN RowOf(key, StatementTable) ELSE "" IN
  cell.n * SuffixOf(cell)
    * (IF pageRequest.kind \in StatementPages /\ row \notin EPSRows \cup ShareRows
         THEN Thousand ELSE 1)
    * (IF pageRequest.kind = "statistics" /\ cell.suffix \in {"K", "M", "B"}
            /\ key # "shares_outstanding" THEN Hundred ELSE 1)

TakenForAnother(key) ==
  /\ pageRequest.kind \in StatementPages
  /\ LET row == RowOf(key, StatementTable) IN
     \E i \in DOMAIN pageRequest.page.rows :
       pageRequest.page.rows[i].title \in Titles(row) \ {row}

AmountsAreTheCells ==
  MappedFigures /\ pageRequest.kind # "analysis" =>
    \A i \in DOMAIN pageValue.lines :
      LET line == pageValue.lines[i]
          scaled == UnitsIn(line.value.scale) IN
      \/ line.key = "upside_potential_percent"
      \/ TakenForAnother(line.key)
      \/ /\ Reads(CellOf(line.key))
         /\ InWord(Quo(Shown(line.key) * scaled, One)) =>
              line.value.scaled * One - Shown(line.key) * scaled \in (1 - One)..(One - 1)

(* The period of a line holds the moment the page was read, but for the    *)
(* last day of a quarter, which the quarter leaves out.  Pages that are    *)
(* read by the local clock have the host's date taken for one of UTC: the  *)
(* moment may be missed, by less than a day.                               *)
PeriodsHoldTheirInstant ==
  MappedFigures =>
    LET asOf == pageValue.asOf
        slack == IF pageRequest.kind \in {"analysis", "insights"} /\ asOf.zone # 0
                   THEN DayTicks - 1 ELSE 0 IN
    \A i \in DOMAIN pageValue.lines :
      LET period == pageValue.lines[i].period IN
      /\ period.start % DayTicks = 0 /\ period.start < period.end
      /\ period.start <= asOf.utc + slack
      /\ \/ asOf.utc < period.end + slack
         \/ /\ pageRequest.kind = "financials"
            /\ (asOf.utc \div DayTicks + 1) % QuarterDays = 0

(* News is not repeated: no two articles that are returned have one page,  *)
(* or one title and source within two minutes; every story found is        *)
(* returned or repeats one that is, unless the oldest were cut off; the    *)
(* newest come first and the undated last; the numbers add up.  No two     *)
(* messages made of them have one URL, but where one had no scheme.        *)
ArticlesFound ==
  LET page == pageRequest.page
      stories == extractArticlesFromNewsJSON(page.blocks) IN
  IF stories # <<>> THEN stories
  ELSE enrichArticlesWithJSONMeta(
         ArticlesOf(page.containers,
                    LAMBDA c : parseArticleFromContainer(c, pageRequest.now)), page.blocks)

NewsIsNotRepeated ==
  pageStage \in {"parsed", "mapped"} /\ pageRequest.kind = "news"
      /\ pageValue \notin {Failed, Panic} =>
    IF pageStage = "mapped"
      THEN \A i, j \in DOMAIN pageValue :
             i < j /\ pageValue[i].url = pageValue[j].url =>
               \E k \in DOMAIN ArticlesFound : ArticlesFound[k].url.scheme = ""
      ELSE LET articles == pageValue.articles
               cut == pageValue.totalFound - pageValue.deduped - Len(articles) IN
           /\ \A i, j \in DOMAIN articles : i < j =>
                /\ ~ Repeats(articles[j], <<articles[i]>>)
                /\ ~ Newer(articles[j], articles[i])
           /\ cut >= 0 /\ Len(articles) \in 1..MaxArticles
           /\ IF cut > 0 THEN Len(articles) = MaxArticles
              ELSE \A i \in DOMAIN ArticlesFound : Repeats(ArticlesFound[i], articles)
=============================================================================
