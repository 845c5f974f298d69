----------------------------- MODULE PageMapping -----------------------------
(***************************************************************************)
(* internal/emit/map_financials.go: what was taken out of a page of        *)
(* figures (ScrapedPages) as a snapshot of lines, each with a key, an      *)
(* amount, a currency ("" for none) and a period; and MapFinancials of     *)
(* scrape_mapper.go, which maps the same lines by rules of its own.        *)
(*                                                                         *)
(* A day is DayTicks of time and a quarter QuarterDays days.               *)
(***************************************************************************)
EXTENDS ScrapedPages

CONSTANT QuarterDays

ASSUME QuarterAssumption == QuarterDays \in Nat \ {0, 1}

(* The day and the quarter of a moment, by the date its own zone shows but *)
(* starting at midnight UTC.  A quarter ends as its last day begins.       *)
DayOf(asOf) ==
  LET day == (asOf.utc + asOf.zone) \div DayTicks IN
  [start |-> day * DayTicks, end |-> (day + 1) * DayTicks]
CountsFromOne(asOf) ==        \* fault: the quarter's number counts from one
  LET quarter == (asOf.utc + asOf.zone) \div (QuarterDays * DayTicks) + 1 IN
  [start |-> quarter * QuarterDays * DayTicks,
   end |-> ((quarter + 1) * QuarterDays - 1) * DayTicks]
QuarterOf(asOf) ==
  LET quarter == (asOf.utc + asOf.zone) \div (QuarterDays * DayTicks) IN
  [start |-> quarter * QuarterDays * DayTicks,
   end |-> ((quarter + 1) * QuarterDays - 1) * DayTicks]

(* strings.ToUpper on the codes there are: pence become pounds. *)
Upper(currency) == IF currency = "GBp" THEN "GBP" ELSE currency
ThreeLetters == {"USD", "GBP", "GBp", "KRW"}

(* A line of an amount that is there, and is a decimal of the messages. *)
Mappable(amount) == amount # Nil /\ amount.scale \in 0..9
LineCurrency(currency) == IF currency \in ThreeLetters THEN Upper(currency) ELSE ""
createLineItem(key, amount, currency, period) ==
  [key |-> key, value |-> amount, currency |-> LineCurrency(currency), period |-> period]

(* A few of the names a market may go by; one of four capitals is kept and *)
(* a longer one is cut to four.                                            *)
NormalizeMIC(market) ==
  CASE market = "NASDAQ" -> "XNAS"
    [] market = "OTC" -> "OTCM"
    [] market = "TOKYO" -> "XJPX"
    [] market = "Xetra" -> "XETR"
    [] OTHER -> market

Snapshot(dto, lines) ==
  [mic |-> NormalizeMIC(dto.market), lines |-> lines, asOf |-> dto.asOf]

(* Items are <<key, amount, currency>>. *)
Lines(items, period) ==
  LET mapped == Kept(items, {item \in ToSet(items) : Mappable(item[2])}) IN
  [i \in DOMAIN mapped |->
     createLineItem(mapped[i][1], mapped[i][2], mapped[i][3], period)]

FixedPoint(n, scale) ==
  IF n = Nil THEN Nil
  ELSE [scaled |-> ToInt64(n * UnitsIn(scale), One), scale |-> scale]
Count(n) == IF n = Nil THEN Nil ELSE [scaled |-> n, scale |-> 0]

-----------------------------------------------------------------------------
(* Keys of the financials page and the rows they are taken from; nothing   *)
(* ever fills gross_profit.                                                *)
FinancialKeys ==
  << <<"total_revenue", "TotalRevenue">>, <<"operating_income", "OperatingIncome">>,
     <<"net_income", "NetIncome">>, <<"eps_basic", "BasicEPS">>,
     <<"eps_diluted", "DilutedEPS">>, <<"total_assets", "TotalAssets">>,
     <<"shareholders_equity", "CommonStockEquity">>, <<"total_debt", "TotalDebt">>,
     <<"working_capital", "WorkingCapital">>,
     <<"tangible_book_value", "TangibleBookValue">>,
     <<"operating_cash_flow", "OperatingCashFlow">>,
     <<"investing_cash_flow", "InvestingCashFlow">>,
     <<"financing_cash_flow", "FinancingCashFlow">>,
     <<"free_cash_flow", "FreeCashFlow">>,
     <<"capital_expenditure", "CapitalExpenditure">>,
     <<"cost_of_revenue", "CostOfRevenue">>, <<"ebitda", "EBITDA">>, <<"ebit", "EBIT">> >>
ShareKeys ==
  << <<"shares_outstanding_basic", "BasicAverageShares">>,
     <<"shares_outstanding_diluted", "DilutedAverageShares">> >>

Items(dto, keys) ==
  [i \in DOMAIN keys |-> <<keys[i][1], dto.current[keys[i][2]], dto.currency>>]

ExtractCurrentPeriodLines(dto) ==
  Lines(Items(dto, FinancialKeys)
          \o [i \in DOMAIN ShareKeys |->
                <<ShareKeys[i][1], Count(dto.current[ShareKeys[i][2]]), "">>],
        QuarterOf(dto.asOf))

(* No line, no snapshot: ScrapeFinancials makes an error of that. *)
MapComprehensiveFinancialsDTO(dto) ==
  LET lines == ExtractCurrentPeriodLines(dto) IN
  IF lines = <<>> THEN Failed ELSE Snapshot(dto, lines)

BalanceSheetKeys ==
  << <<"total_assets", "TotalAssets">>, <<"total_debt", "TotalDebt">>,
     <<"shareholders_equity", "CommonStockEquity">>,
     <<"working_capital", "WorkingCapital">>,
     <<"tangible_book_value", "TangibleBookValue">> >>
CashFlowKeys ==
  << <<"operating_cash_flow", "OperatingCashFlow">>,
     <<"investing_cash_flow", "InvestingCashFlow">>,
     <<"financing_cash_flow", "FinancingCashFlow">>,
     <<"free_cash_flow", "FreeCashFlow">>,
     <<"capital_expenditure", "CapitalExpenditure">> >>

MapBalanceSheetDTO(dto) ==
  Snapshot(dto, Lines(Items(dto, BalanceSheetKeys), DayOf(dto.asOf)))
SharesItsRow(dto) ==               \* fault: free cash flow from the operating row
  LET keys == [CashFlowKeys EXCEPT ![4] = <<"free_cash_flow", "OperatingCashFlow">>] IN
  Snapshot(dto, Lines(Items(dto, keys), DayOf(dto.asOf)))
MapCashFlowDTO(dto) ==
  Snapshot(dto, Lines(Items(dto, CashFlowKeys), DayOf(dto.asOf)))

-----------------------------------------------------------------------------
MoneyKeys == << <<"market_cap", "MarketCap">>, <<"enterprise_value", "EnterpriseValue">> >>
RatioKeys ==
  << <<"pe_ratio_trailing", "TrailingPE">>, <<"pe_ratio_forward", "ForwardPE">>,
     <<"peg_ratio", "PEGRatio">>, <<"price_to_sales", "PriceSales">>,
     <<"price_to_book", "PriceBook">>, <<"ev_to_revenue", "EnterpriseValueRevenue">>,
     <<"ev_to_ebitda", "EnterpriseValueEBITDA">> >>
MarginKeys ==
  << <<"profit_margin", "ProfitMargin">>, <<"operating_margin", "OperatingMargin">>,
     <<"return_on_assets", "ReturnOnAssets">>, <<"return_on_equity", "ReturnOnEquity">> >>

MapKeyStatisticsDTO(dto) ==
  LET plain(keys, values) == [i \in DOMAIN keys |-> <<keys[i][1], values[keys[i][2]], "">>]
      items == Items(dto, MoneyKeys) \o plain(RatioKeys, dto.current)
                 \o << <<"beta", dto.additional.values["Beta"], "">>,
                       <<"shares_outstanding", Count(dto.additional.shares), "">> >>
                 \o plain(MarginKeys, dto.additional.values)
  IN Snapshot(dto, Lines(items, DayOf(dto.asOf)))

(* "187.14B": the suffix T is known here. *)
RevenueMultipliers == [B |-> Billion, T |-> Trillion, M |-> Million, K |-> Thousand]
ParseRevenueEstimateString(cell) ==
  IF ~ Reads(cell) THEN Nil
  ELSE IF cell.suffix = "" THEN Count(ToInt64(cell.n, One))
  ELSE IF cell.suffix \in DOMAIN RevenueMultipliers
    THEN Count(ToInt64(cell.n * RevenueMultipliers[cell.suffix], One))
  ELSE Nil

GrowthRate(cell) ==
  IF Reads(cell) /\ cell.suffix = "%" /\ ~ cell.commas THEN FixedPoint(cell.n, 2) ELSE Nil

(* The "recent" result is that of the leftmost date. *)
MapAnalysisDTO(dto) ==
  LET eps(key, table, title, column) ==
        <<key, FixedPoint(table.cells[<<title, column>>], 4), table.currency>>
      count(key, table, title) == <<key, Count(table.cells[<<title, "currentQtr">>]), "">>
      revenue(key, column) ==
        <<key, ParseRevenueEstimateString(dto.revenue.cells[<<"AvgEstimate", column>>]),
          dto.revenue.currency>>
      recent == IF dto.history.data = <<>> THEN Nil ELSE dto.history.data[1].actual
  IN Snapshot(dto, Lines(
       << eps("eps_estimate_current_quarter", dto.earnings, "AvgEstimate", "currentQtr"),
          eps("eps_estimate_next_quarter", dto.earnings, "AvgEstimate", "nextQtr"),
          eps("eps_estimate_current_year", dto.earnings, "AvgEstimate", "currentYear"),
          eps("eps_estimate_next_year", dto.earnings, "AvgEstimate", "nextYear"),
          count("analyst_count_current_quarter", dto.earnings, "NoOfAnalysts"),
          <<"eps_actual_recent", FixedPoint(recent, 4), dto.history.currency>>,
          eps("eps_trend_current_quarter", dto.trend, "CurrentEstimate", "currentQtr"),
          eps("eps_trend_current_quarter_7d_ago", dto.trend, "Days7Ago", "currentQtr"),
          eps("eps_trend_current_quarter_30d_ago", dto.trend, "Days30Ago", "currentQtr"),
          eps("eps_trend_current_year", dto.trend, "CurrentEstimate", "currentYear"),
          eps("eps_trend_next_year", dto.trend, "CurrentEstimate", "nextYear"),
          count("eps_revisions_up_7d_current_quarter", dto.revisions, "UpLast7Days"),
          count("eps_revisions_down_7d_current_quarter", dto.revisions, "DownLast7Days"),
          count("eps_revisions_up_30d_current_quarter", dto.revisions, "UpLast30Days"),
          count("eps_revisions_down_30d_current_quarter", dto.revisions, "DownLast30Days"),
          revenue("revenue_estimate_current_quarter", "currentQtr"),
          revenue("revenue_estimate_current_year", "currentYear"),
          <<"growth_estimate_current_year", GrowthRate(dto.growth[<<"ticker", "currentYear">>]),
            "">> >>, DayOf(dto.asOf)))

(* Prices are taken to be dollars.  A price of 0 is divided by all the same *)
(* and the conversion of what comes of it is the platform's.               *)
Upside(current, target) ==
  IF current = Nil \/ target = Nil THEN Nil
  ELSE IF current = 0 THEN [scaled |-> Overflowed, scale |-> 2]
  ELSE [scaled |-> ToInt64((target - current) * Hundred * Hundred, current), scale |-> 2]

MapAnalystInsightsDTO(dto) ==
  LET price(key, field) == <<key, FixedPoint(dto.fields[field], 4), "USD">> IN
  Snapshot(dto, Lines(
     << price("current_price", "currentPrice"),
        price("target_price_mean", "targetMeanPrice"),
        price("target_price_median", "targetMedianPrice"),
        price("target_price_high", "targetHighPrice"),
        price("target_price_low", "targetLowPrice"),
        <<"analyst_count", Count(dto.fields["numberOfAnalysts"]), "">>,
        <<"recommendation_score", FixedPoint(dto.fields["recommendationMean"], 2), "">>,
        <<"upside_potential_percent",
          Upside(dto.fields["currentPrice"], dto.fields["targetMeanPrice"]), "">> >>,
     DayOf(dto.asOf)))

-----------------------------------------------------------------------------
(* Lines that already have a key, an amount, a currency and a period, as a *)
(* caller may hand them over: MapFinancialsDTO renames keys, several to    *)
(* one, and refuses periods the wrong way round and codes of another       *)
(* length; that periods of a key overlap is found out and not used.        *)
NormalizeFinancialKey(key) ==
  CASE key \in {"Total Revenues", "revenues"} -> "total_revenue"
    [] key = "Basic EPS" -> "eps_basic"
    [] OTHER -> key

ValidateMonotonicPeriods(lines) ==
  \A i, j \in DOMAIN lines :
    i # j /\ lines[i].key = lines[j].key =>
      \/ lines[i].period.end <= lines[j].period.start
      \/ lines[j].period.end <= lines[i].period.start

MapFinancialsDTO(lines) ==
  IF \E i \in DOMAIN lines :
       \/ lines[i].period.start > lines[i].period.end
       \/ lines[i].value.scale \notin 0..9
       \/ lines[i].currency \notin ThreeLetters \cup {""}
    THEN Failed
    ELSE [i \in DOMAIN lines |->
            [lines[i] EXCEPT !.key = NormalizeFinancialKey(@), !.currency = Upper(@)]]

(* scrape_mapper.go: a missing currency is made dollars, any other passes. *)
MapFinancials(lines) ==
  IF \E i \in DOMAIN lines : lines[i].value.scale \notin 0..9 THEN Failed
  ELSE [i \in DOMAIN lines |->
          [lines[i] EXCEPT !.currency = IF @ = "" THEN "USD" ELSE @]]
=============================================================================
