---------------------------- MODULE ScrapedPages ----------------------------
(***************************************************************************)
(* What internal/scrape takes out of a page of figures: financials.go,     *)
(* statistics.go, analysis.go and analyst_insights.go.                     *)
(*                                                                         *)
(* The regular expressions find cells.  A cell that no expression finds is *)
(* Nil; else it is a record of the number read (Nil for "--", "N/A" and    *)
(* other words), the letter or per cent sign after it and whether its      *)
(* digits are grouped with commas.  Numbers are counted in Parts-ths of a  *)
(* ten-thousandth, One of which make 1; Hundred and Thousand stand for 100 *)
(* and 1000.  A moment is [utc, zone]: the zone of a clock read as UTC is  *)
(* 0, that of one read as local time is the host's offset.                 *)
(***************************************************************************)
EXTENDS Decimals, SequencesExt

CONSTANTS Hundred, Thousand

ASSUME UnitsAssumption == Hundred \in Nat \ {0} /\ Thousand \in Nat \ {0}

One == Hundred * Hundred * Parts
Million  == Thousand * Thousand
Billion  == Million * Thousand
Trillion == Billion * Thousand
UnitsIn(scale) == CASE scale = 0 -> 1 [] scale = 2 -> Hundred [] scale = 4 -> Hundred * Hundred

Min2(a, b) == IF a <= b THEN a ELSE b

(* int64 of the float n / d. *)
ToInt64(n, d) == IF InWord(Quo(n, d)) THEN Quo(n, d) ELSE Overflowed

Reads(cell) == cell # Nil /\ cell.n # Nil
WithoutCommas(cell) == IF cell = Nil THEN Nil ELSE [cell EXCEPT !.commas = FALSE]

(* analysis.go: strconv.ParseFloat and Atoi on the bare text of a cell. *)
ParseFloat(cell) ==
  IF Reads(cell) /\ cell.suffix = "" /\ ~ cell.commas THEN cell.n ELSE Nil
ParseInt(cell) ==
  LET n == ParseFloat(cell) IN
  IF n # Nil /\ n % One = 0 /\ InWord(n \div One) THEN n \div One ELSE Nil

-----------------------------------------------------------------------------
(* financials.go: a page is its currency and its rows in order, each a     *)
(* title and two cells.                                                    *)

IncomeRows == {"TotalRevenue", "OperatingIncome", "NetIncome", "BasicEPS", "EBITDA",
               "CostOfRevenue", "DilutedEPS", "BasicAverageShares", "DilutedAverageShares",
               "TotalExpenses", "EBIT", "NormalizedEBITDA"}
BalanceRows == {"TotalAssets", "TotalCapitalization", "CommonStockEquity",
                "CapitalLeaseObligations", "NetTangibleAssets", "WorkingCapital",
                "InvestedCapital", "TangibleBookValue", "TotalDebt", "ShareIssued"}
CashFlowRows == {"OperatingCashFlow", "InvestingCashFlow", "FinancingCashFlow",
                 "EndCashPosition", "CapitalExpenditure", "IssuanceOfDebt",
                 "RepaymentOfDebt", "RepurchaseOfCapitalStock", "FreeCashFlow"}
EPSRows == {"BasicEPS", "DilutedEPS"}
ShareRows == {"BasicAverageShares", "DilutedAverageShares", "ShareIssued"}

(* The patterns of the income statement are not anchored (but for the last *)
(* of its EPS and the shares): each also finds a row whose title ends in   *)
(* its own, as two of the rows that the DTO names do.                      *)
Titles(row) ==
  CASE row = "EBITDA" -> {"EBITDA", "NormalizedEBITDA"}
    [] row = "CostOfRevenue" -> {"CostOfRevenue", "ReconciledCostOfRevenue"}
    [] OTHER -> {row}

extractFinancialDataFromHTML(page) ==
  LET found(row) == Kept(page.rows, {r \in ToSet(page.rows) : r.title \in Titles(row)})
      text(row, cell) == IF row = "BasicEPS" THEN cell ELSE WithoutCommas(cell)
  IN [currency |-> IF page.currency = Nil THEN "USD" ELSE page.currency,
      columns |-> [row \in IncomeRows \cup BalanceRows \cup CashFlowRows |->
                     IF found(row) = <<>> THEN [current |-> Nil, older |-> Nil]
                     ELSE [current |-> text(row, found(row)[1].current),
                           older |-> text(row, found(row)[1].older)]]]

ConvertToScaled(cell) ==
  IF Reads(cell) /\ cell.suffix = "" /\ cell.n % One = 0 /\ InWord(cell.n \div One)
    THEN [scaled |-> Wrap((cell.n \div One) * Thousand), scale |-> 0] ELSE Nil

ConvertEPSToScaled(cell) ==
  IF Reads(cell) /\ cell.suffix \in {"", "k"} /\ ~ cell.commas
    THEN [scaled |-> ToInt64(cell.n * Hundred * (IF cell.suffix = "k" THEN Thousand ELSE 1),
                             One), scale |-> 2]
    ELSE Nil

ConvertSharesToInt64(cell) ==
  IF Reads(cell) /\ cell.suffix = "" THEN ToInt64(cell.n, One) ELSE Nil

(* What each field of the DTO is converted with. *)
ConvertCell(row, cell) ==
  CASE row \in EPSRows -> ConvertEPSToScaled(cell)
    [] row \in ShareRows -> ConvertSharesToInt64(cell)
    [] OTHER -> ConvertToScaled(cell)

PopulateCurrent(data) ==
  [row \in DOMAIN data.columns |-> ConvertCell(row, data.columns[row].current)]
PopulateHistorical(data) ==        \* Q4_2024, whatever the column is of
  [row \in IncomeRows |-> ConvertCell(row, data.columns[row].older)]

ParseComprehensiveFinancials(page, market, now) ==
  LET data == extractFinancialDataFromHTML(page) IN
  [market |-> market, currency |-> data.currency, current |-> PopulateCurrent(data),
   historical |-> PopulateHistorical(data), asOf |-> [now EXCEPT !.zone = 0]]

(* The currency is that of another page of the company, in local time. *)
ParseComprehensiveFinancialsWithCurrency(page, financials, market, now) ==
  [ParseComprehensiveFinancials(page, market, now) EXCEPT
     !.currency = extractFinancialDataFromHTML(financials).currency, !.asOf = now]

-----------------------------------------------------------------------------
(* statistics.go: a page maps each row to its cells, the current value     *)
(* first, and has the dates of the columns after it.                       *)

ValuationRows == {"MarketCap", "EnterpriseValue", "TrailingPE", "ForwardPE", "PEGRatio",
                  "PriceSales", "PriceBook", "EnterpriseValueRevenue",
                  "EnterpriseValueEBITDA"}
AdditionalRows == {"Beta", "ProfitMargin", "OperatingMargin", "ReturnOnAssets",
                   "ReturnOnEquity"}
OlderColumns == 5

extractScaledValue(page, row, column) ==
  IF row \in DOMAIN page.rows /\ column \in DOMAIN page.rows[row]
    THEN page.rows[row][column] ELSE Nil

(* No "T": a trillion does not parse.  The last product has the hundred of *)
(* scale 2 in it, and a large number goes out with scale 0.                *)
Multipliers == [K |-> Thousand, M |-> Million, B |-> Billion]

SkipsTheSuffix(cell) ==       \* fault: a suffix that is not known counts as none
  IF ~ Reads(cell) THEN Nil
  ELSE IF cell.suffix \in DOMAIN Multipliers
    THEN [scaled |-> ToInt64(cell.n * Multipliers[cell.suffix] * Hundred, One), scale |-> 0]
  ELSE [scaled |-> ToInt64(cell.n * Hundred, One), scale |-> 2]
ParseFinancialValue(cell) ==
  IF ~ Reads(cell) THEN Nil
  ELSE IF cell.suffix \in {"", "%"}
    THEN [scaled |-> ToInt64(cell.n * Hundred, One), scale |-> 2]
  ELSE IF cell.suffix \in DOMAIN Multipliers
    THEN [scaled |-> ToInt64(cell.n * Multipliers[cell.suffix] * Hundred, One), scale |-> 0]
  ELSE Nil

ParseSharesOutstanding(cell) ==
  IF ~ Reads(cell) THEN Nil
  ELSE IF cell.suffix = "" THEN ToInt64(cell.n, One)
  ELSE IF cell.suffix \in DOMAIN Multipliers
    THEN ToInt64(cell.n * Multipliers[cell.suffix], One)
  ELSE Nil

extractCurrentValues(page) ==
  [row \in ValuationRows |-> ParseFinancialValue(extractScaledValue(page, row, 1))]

extractAdditionalValues(page) ==
  [values |-> [row \in AdditionalRows |->
                 ParseFinancialValue(extractScaledValue(page, row, 1))],
   shares |-> ParseSharesOutstanding(extractScaledValue(page, "SharesOutstanding", 1))]

(* Columns and dates go together by their position only. *)
extractHistoricalValues(page) ==
  [i \in 1..Min2(OlderColumns, Len(page.dates)) |->
     [date |-> page.dates[i],
      values |-> [row \in ValuationRows |->
                    ParseFinancialValue(extractScaledValue(page, row, i + 1))]]]

ParseComprehensiveKeyStatistics(page, market, now) ==
  [market |-> market, currency |-> "USD", current |-> extractCurrentValues(page),
   additional |-> extractAdditionalValues(page),
   historical |-> extractHistoricalValues(page), asOf |-> [now EXCEPT !.zone = 0]]

-----------------------------------------------------------------------------
(* analysis.go: a page maps a section's name to Nil or to its currency and *)
(* its cells, at <<title, column>>.  A section that is missing leaves its  *)
(* part of the DTO empty and the others as they are.                       *)

Columns == {"currentQtr", "nextQtr", "currentYear", "nextYear"}

ExtractTable(section, titles, Parse(_, _)) ==
  IF section = Nil
    THEN [currency |-> "", cells |-> [at \in titles \X Columns |-> Nil]]
    ELSE [currency |-> IF section.currency = Nil THEN "USD" ELSE section.currency,
          cells |-> [at \in titles \X Columns |->
                       IF at \in DOMAIN section.cells
                         THEN Parse(at[1], section.cells[at]) ELSE Nil]]

FloatOrCount(title, cell) ==
  IF title = "NoOfAnalysts" THEN ParseInt(cell) ELSE ParseFloat(cell)
TextOrCount(title, cell) ==
  IF title = "NoOfAnalysts" THEN ParseInt(cell) ELSE cell

extractEarningsEstimate(page) ==
  ExtractTable(page.sections.earnings,
    {"NoOfAnalysts", "AvgEstimate", "LowEstimate", "HighEstimate", "YearAgoEPS"}, FloatOrCount)
extractRevenueEstimate(page) ==
  ExtractTable(page.sections.revenue,
    {"NoOfAnalysts", "AvgEstimate", "LowEstimate", "HighEstimate", "YearAgoSales",
     "SalesGrowth"}, TextOrCount)
extractEPSTrend(page) ==
  ExtractTable(page.sections.trend,
    {"CurrentEstimate", "Days7Ago", "Days30Ago", "Days60Ago", "Days90Ago"}, FloatOrCount)
extractEPSRevisions(page) ==
  ExtractTable(page.sections.revisions,
    {"UpLast7Days", "UpLast30Days", "DownLast7Days", "DownLast30Days"},
    LAMBDA title, cell : ParseInt(cell))

(* The first row is the company's, at the title "ticker"; "%" is kept. *)
extractGrowthEstimate(page) ==
  ExtractTable(page.sections.growth, {"ticker"}, LAMBDA title, cell : cell).cells

(* A cell whose markup differs is skipped and the later ones move up; the  *)
(* dates do not.  There are no more entries than estimates.                *)
extractEarningsHistory(page) ==
  LET section == page.sections.history
      cells(row) == Kept(section.rows[row], ToSet(section.rows[row]) \ {Nil})
      value(row, i) == IF i \in DOMAIN cells(row) THEN ParseFloat(cells(row)[i]) ELSE Nil
  IN IF section = Nil THEN [currency |-> "", data |-> <<>>]
     ELSE [currency |-> IF section.currency = Nil THEN "USD" ELSE section.currency,
           data |-> [i \in 1..Min2(Len(section.dates), Len(cells("estimate"))) |->
                       [date |-> section.dates[i], estimate |-> value("estimate", i),
                        actual |-> value("actual", i)]]]

ParseAnalysis(page, market, now) ==
  [earnings |-> extractEarningsEstimate(page), revenue |-> extractRevenueEstimate(page),
   history |-> extractEarningsHistory(page), trend |-> extractEPSTrend(page),
   revisions |-> extractEPSRevisions(page), growth |-> extractGrowthEstimate(page),
   market |-> market, asOf |-> now]

-----------------------------------------------------------------------------
(* analyst_insights.go: each field is found by itself when the one pattern *)
(* over all of them finds nothing; what is found is the same.              *)
InsightFields == {"currentPrice", "targetMeanPrice", "targetMedianPrice",
                  "targetHighPrice", "targetLowPrice", "recommendationMean",
                  "numberOfAnalysts"}

extractFinancialDataFlexible(page) ==
  [field \in InsightFields |->
     IF field \notin DOMAIN page.fields THEN Nil
     ELSE IF field = "numberOfAnalysts" THEN ParseInt(page.fields[field])
     ELSE ParseFloat(page.fields[field])]

extractFinancialDataFromJSON(page) == extractFinancialDataFlexible(page)

ParseAnalystInsights(page, market, now) ==
  [fields |-> extractFinancialDataFromJSON(page), market |-> market, asOf |-> now]
=============================================================================
