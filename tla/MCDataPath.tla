----------------------------- MODULE MCDataPath -----------------------------
(* DataPath on every short chart over a few prices, half cents included,   *)
(* a price that overflows the word and each field missing or negative in   *)
(* turn; on quotes and statements with each field there or not; and on     *)
(* decimals of both signs up to the ends of a word of eight bits.  PagePath *)
(* on pages of figures whose rows hold each kind of cell in turn or are     *)
(* all filled, at moments around the ends of days and quarters, and on     *)
(* every short list of articles that differ in one thing.  `subject` says  *)
(* which of the two is exercised.                                          *)
EXTENDS DataPath, PagePath

MCOverflowed == -MaxInt - 1

Row(time, open, high, low, close, adjClose) ==
  [time |-> time, open |-> open, high |-> high, low |-> low, close |-> close,
   volume |-> 5, adjClose |-> adjClose]

Good == Row(3, 2, 3, 1, 2, 1)
Huge == 2 * MaxInt + 1

FirstRows ==
  {Row(time, open, high, low, close, adjClose) :
     time \in {2, 3}, open \in 1..3, high \in {2, 3}, low \in 1..3, close \in 1..3,
     adjClose \in {Nil, 4}}
    \cup {[Good EXCEPT ![field] = wrong] :
            field \in {"open", "high", "low", "close", "volume"}, wrong \in {Nil, -1}}
    \cup {Row(3, Huge, Huge, Huge - 1, Huge, Nil), Row(3, 1, 2, 1, 1, -1)}

SecondRows == {Row(4, 1, 1, 1, 1, Nil), Row(5, 1, 3, 0, 3, 3), Row(5, Nil, 1, 1, 1, Nil)}

Chart(rows, hasAdjClose) ==
  [symbol |-> <<"A">>, currency |-> "USD", exchange |-> "NMS", rows |-> rows,
   ragged |-> FALSE, hasAdjClose |-> hasAdjClose, metaPrice |-> 2]

RowCharts ==
  {Chart(<<first>> \o rest, hasAdjClose) :
     first \in FirstRows, rest \in {<<>>} \cup {<<row>> : row \in SecondRows},
     hasAdjClose \in BOOLEAN}

(* One sound chart under every name, market and currency, and broken ones. *)
MetaCharts ==
  {[Chart(<<Good>>, TRUE) EXCEPT !.symbol = symbol, !.currency = currency,
                                 !.exchange = exchange] :
     symbol \in {<<>>, <<"T">>, <<"BRK", "B">>, <<"7203", "T">>},
     currency \in {"", "USD", "JPY", "GBp"},
     exchange \in {"NMS", "PINK", "TSE", "Bats", "LSE"}}
    \cup {[Chart(<<Good>>, TRUE) EXCEPT !.metaPrice = Nil],
          [Chart(<<Good>>, TRUE) EXCEPT !.ragged = TRUE], Chart(<<>>, FALSE)}

ChartAnswer(charts) == [garbled |-> FALSE, error |-> Nil, charts |-> charts]

ChartAnswers == {ChartAnswer(<<chart>>) : chart \in MetaCharts}
  \cup {ChartAnswer(<<>>), [ChartAnswer(<<Chart(<<Good>>, TRUE)>>) EXCEPT !.garbled = TRUE],
        [ChartAnswer(<<Chart(<<Good>>, TRUE)>>) EXCEPT !.error = "Not Found"],
        ChartAnswer(<<Chart(<<Row(3, Nil, 1, 1, 1, Nil), Good>>, FALSE)>>),
        ChartAnswer(<<Chart(<<Good, Row(4, 1, Nil, Nil, Nil, Nil)>>, FALSE)>>)}

Quotes ==
  {[symbol |-> <<"A">>, currency |-> "USD", exchange |-> exchange, price |-> 2, high |-> 3,
    low |-> low, bid |-> bid, ask |-> ask, bidSize |-> size, askSize |-> 1] :
     exchange \in {"NMS", "PINK"}, low \in {Nil, 1}, bid \in {Nil, 1, 2}, ask \in {Nil, 1, 3},
     size \in {Nil, -1, 4}}

QuoteAnswers ==
  {[garbled |-> FALSE, error |-> Nil, quotes |-> <<quote>>] : quote \in Quotes}
    \cup {[garbled |-> FALSE, error |-> Nil, quotes |-> <<>>]}

Statement(end, keys, present) ==
  [end |-> end, values |-> [key \in keys |-> IF key \in DOMAIN present THEN present[key]
                                             ELSE Nil]]
Income(end, revenue, eps) ==
  Statement(end, {"revenue", "net_income", "eps_basic"},
            [revenue |-> revenue, net_income |-> -1, eps_basic |-> eps])
Balance(equity) ==
  Statement(200, {"total_assets", "total_liabilities", "total_equity"},
            [total_assets |-> 1, total_equity |-> equity])
Cash(flow) ==
  Statement(200, {"net_income", "operating_cashflow"},
            [net_income |-> 1, operating_cashflow |-> flow])

FundamentalsAnswers ==
  {[garbled |-> FALSE, error |-> Nil, symbol |-> symbol,
    statements |-> [income |-> income, balance |-> balance, cashflow |-> cash]] :
     symbol \in {<<>>, <<"A">>},
     income \in {Nil, <<>>, <<Income(200, 1, Nil)>>, <<Income(0, 1, Nil)>>,
                 <<Income(200, 1, Fraction)>>, <<Income(200, Nil, 1), Income(400, 2, 1)>>},
     balance \in {Nil, <<Balance(Nil)>>, <<Balance(1)>>},
     cash \in {Nil, <<Cash(Nil)>>, <<Cash(1)>>}}

MCRequests ==
  [kind : {"daily"}, answer : {ChartAnswer(<<chart>>) : chart \in RowCharts}]
    \cup [kind : BarKinds \cup MetaKinds \cup {"quote"}, answer : ChartAnswers]
    \cup [kind : {"ticker"}, answer : QuoteAnswers]
    \cup [kind : {"fundamentals"}, answer : FundamentalsAnswers]

Amounts == {-MaxInt - 1, -MaxInt, -15, -1, 0, 1, 4, 5, 11, 25, MaxInt}
Scaled == [scaled : Amounts, scale : 0..3]

MCOperations ==
  [kind : {"arithmetic"}, op : {"multiply"}, a : [scaled : Amounts, scale : {0, 1, 9}],
   b : [scaled : Amounts, scale : {0, 1}], scale : {-1, 0, 1, 3}]
    \cup [kind : {"arithmetic"}, op : {"percent"}, a : Scaled]
    \cup [kind : {"arithmetic"}, op : {"money"}, a : [scaled : {1}, scale : {-1, 2, 10}]]
    \cup [kind : {"arithmetic"}, op : {"float"},
           a : {-2 * MaxInt, -3, -1, 0, 1, 2, 3, 2 * MaxInt}
                 \cup {sign * (2 * MaxInt + past) : sign \in {-1, 1}, past \in 1..3},
           scale : {-1, 0, 2}]

MCConverters == [target : {"USD", "EUR"}, rate : {2}, fails : {{}, {1}, {2}}]

Config ==
  [enabled |-> TRUE, env |-> "dev", topicPrefix |-> <<"ampy">>, maxPayload |-> 3,
   backend |-> "nats", backendConfig |-> TRUE, reachable |-> TRUE,
   retry |-> [attempts |-> 5, baseMs |-> 100, maxDelayMs |-> 2000],
   breaker |-> [window |-> 50, failureThreshold |-> 30, resetTimeoutMs |-> 30000,
                halfOpenProbes |-> 3]]

MCConfigs ==
  {Config, [Config EXCEPT !.maxPayload = 1], [Config EXCEPT !.maxPayload = 2],
   [Config EXCEPT !.topicPrefix = <<"ampy", "v1">>], [Config EXCEPT !.enabled = FALSE],
   [Config EXCEPT !.backend = "kafka"], [Config EXCEPT !.reachable = FALSE],
   [Config EXCEPT !.retry.maxDelayMs = 99], [Config EXCEPT !.breaker.halfOpenProbes = 0]}

-----------------------------------------------------------------------------
Cell(n, suffix, commas) == [n |-> n, suffix |-> suffix, commas |-> commas]
Plain(n) == Cell(n, "", FALSE)

CellsToRead ==
  {Nil, Cell(Nil, "", FALSE)}
    \cup {Cell(n, suffix, commas) :
            n \in {-12, 0, 8, 9, 320, 1016, 1040}, suffix \in {"", "k", "K", "B", "%"},
            commas \in BOOLEAN}
    \cup {Cell(8, "M", FALSE), Cell(1, "T", FALSE), Cell(-1048, "", FALSE)}

AllRows == IncomeRows \cup BalanceRows \cup CashFlowRows
PageRow(row, cell) == [title |-> row, current |-> cell, older |-> cell]
Page(currency, rows) == [currency |-> currency, rows |-> rows]

(* Each row its own number. *)
FullPage(currency) ==
  LET rows == FoldSet(LAMBDA row, seq : Append(seq, row), <<>>, AllRows) IN
  Page(currency, [i \in DOMAIN rows |-> PageRow(rows[i], Plain(8 * i))])

StatementPagesRead ==
  {Page(Nil, <<PageRow(row, cell)>>) : row \in AllRows, cell \in CellsToRead}
    \cup {FullPage(currency) : currency \in {Nil, "KRW"}}
    \cup {Page("USD", <<PageRow("NormalizedEBITDA", Plain(8)), PageRow("EBITDA", Plain(16))>>),
          Page("USD", <<PageRow("ReconciledCostOfRevenue", Plain(8)),
                        PageRow("CostOfRevenue", Plain(16))>>),
          Page("USD", <<>>)}

At(utc, zone) == [utc |-> utc, zone |-> zone]
Moments == {At(utc, zone) : utc \in 8..15, zone \in -1..1}

Ask(kinds, pages, markets, moments) ==
  [kind : kinds, page : pages, financials : {Page("KRW", <<>>)}, market : markets,
   now : moments]

StatisticsPages ==
  {[rows |-> row :> <<cell, cell>>, dates |-> <<1>>] :
     row \in ValuationRows \cup AdditionalRows \cup {"SharesOutstanding"}, cell \in CellsToRead}
    \cup {[rows |-> <<>>, dates |-> <<>>],
          [rows |-> [row \in ValuationRows |-> <<Plain(8)>>], dates |-> <<1, 2>>]}

Section(currency, cells) == [currency |-> currency, cells |-> cells]
EmptySections ==
  [earnings |-> Nil, revenue |-> Nil, trend |-> Nil, revisions |-> Nil, growth |-> Nil,
   history |-> Nil]
AnalysisPages ==
  {[sections |-> [EmptySections EXCEPT ![at[1]] =
                    Section("USD", <<at[2], column>> :> cell)]] :
     at \in {<<"earnings", "NoOfAnalysts">>, <<"earnings", "AvgEstimate">>,
             <<"revenue", "AvgEstimate">>, <<"trend", "CurrentEstimate">>,
             <<"revisions", "UpLast7Days">>, <<"growth", "ticker">>},
     column \in {"currentQtr", "currentYear"}, cell \in CellsToRead \ {Nil}}
    \cup {[sections |-> [EmptySections EXCEPT !.history =
             [currency |-> Nil, dates |-> <<1, 2>>,
              rows |-> [estimate |-> <<Plain(8), Plain(8)>>, actual |-> actual]]]] :
            actual \in {<<Plain(8), Plain(16)>>, <<Nil, Plain(16)>>, <<>>}}
    \cup {[sections |-> EmptySections]}

InsightPages ==
  {[fields |-> field :> cell] : field \in InsightFields, cell \in CellsToRead \ {Nil}}
    \cup {[fields |-> [currentPrice |-> Plain(current), targetMeanPrice |-> Plain(16)]] :
            current \in {0, 8, 12}}

CallersLine(key, currency, scale, end) ==
  [key |-> key, currency |-> currency, value |-> [scaled |-> 1, scale |-> scale],
   period |-> [start |-> 2, end |-> end]]
CallersLines ==
  {<<CallersLine(key, currency, scale, end)>> :
     key \in {"revenues", "total_revenue"}, currency \in {"", "USD", "GBp", "EURO"},
     scale \in {-1, 2, 10}, end \in {1, 4}}

-----------------------------------------------------------------------------
Address(scheme, path, query) ==
  [scheme |-> scheme, host |-> "yahoo", path |-> <<path>>, query |-> query, parses |-> TRUE]
Part(text, unit, count) == [text |-> text, unit |-> unit, count |-> count]
Source == Part("Reuters", "", 0)

Container(title, url, info) == [title |-> title, url |-> url, info |-> info]
Containers ==
  {Container("story", Address("https", page, <<>>), <<Source, Part("", "minutes", age)>>) :
     page \in {"p", "q"}, age \in {1, 3, 5}}
    \cup {Container("STORY", Address("https", "r", query), <<>>) :
            query \in {<<>>, <<"utm_source", "id">>, <<"id", "utm_source">>}}
    \cup {Container("other", Address("https", "s", <<>>), <<Part("", "yesterday", 0)>>),
          Container("other", Address("https", "s", <<>>), <<Part("2 minutes ago", "", 0)>>),
          Container("", Address("https", "s", <<>>), <<>>), Container("other", Nil, <<>>)}

Block(title, url, source, published) ==
  [title |-> title, url |-> url, source |-> source, published |-> published]
Blocks ==
  {Block("story", Address(scheme, page, <<"ref">>), "", published) :
     scheme \in {"https", ""}, page \in {"p", "q"}, published \in {Nil, 5000, 5006}}
    \cup {Block("story", Address("ftp", "p", <<>>), "", 5000), Block("", Nil, "", Nil),
          Block("story", [Address("", "p", <<>>) EXCEPT !.host = Nil], "", 5000),
          Block("story", [Address("https", "p", <<"ref">>) EXCEPT !.parses = FALSE], "", 5000)}

NewsPage(blocks, containers) ==
  [blocks |-> blocks, containers |-> containers, hint |-> Nil]
NewsPages ==
  {NewsPage(<<>>, containers) : containers \in SeqOf(Containers, 2)}
    \cup {NewsPage(<<>>, <<first>> \o rest) :
            first \in Containers,
            rest \in {<<Container("other", Address("https", "t", <<>>), <<>>), last>> :
                        last \in Containers}}
    \cup {NewsPage(<<Block("story", Nil, "Reuters", published)>>, <<container>>) :
            container \in Containers, published \in {Nil, 5000}}
    \cup {NewsPage(blocks, <<>>) : blocks \in SeqOf(Blocks, 2)}

MCPageRequests ==
  Ask(StatementPages, StatementPagesRead, {"OTC"}, {At(9, 1)})
    \cup Ask(StatementPages, {FullPage("USD")}, {"NASDAQ", "XNAS", ""}, Moments)
    \cup Ask({"statistics"}, StatisticsPages, {"OTC"}, {At(9, 1), At(11, 0)})
    \cup Ask({"analysis"}, AnalysisPages, {"OTC"}, Moments)
    \cup Ask({"insights"}, InsightPages, {"OTC"}, {At(9, 1), At(9, -1), At(8, 0), At(8, -1)})
    \cup Ask({"lines"}, CallersLines, {"OTC"}, {At(9, 0)})
    \cup Ask({"news"}, NewsPages, {"OTC"}, {At(5000, 0)})

-----------------------------------------------------------------------------
CONSTANT Subjects

VARIABLE subject

PathInit ==
  /\ subject \in Subjects
  /\ IF subject = "data" THEN Init
     ELSE request = Nil /\ stage = "none" /\ value = Nil
  /\ IF subject = "page" THEN PageInit
     ELSE pageRequest = Nil /\ pageStage = "none" /\ pageValue = Nil /\ loaded = FALSE

DataNext == subject = "data" /\ Next /\ UNCHANGED <<subject, pageVars>>
PagesNext == subject = "page" /\ PageNext /\ UNCHANGED <<subject, vars>>

PathSpec == PathInit /\ [][DataNext \/ PagesNext]_<<subject, vars, pageVars>>
==============================================================================
