------------------------------ MODULE Normalize ------------------------------
(***************************************************************************)
(* internal/norm: what internal/yahoo decoded, as securities, day windows  *)
(* and scaled decimals, and the conversion of the result to another        *)
(* currency.  An operator gives the normalised record, or Failed where the *)
(* function returns an error.                                              *)
(*                                                                         *)
(* Times count DayTicks to a day.  A symbol is the sequence of its parts   *)
(* between the dots.  The run's identity and the time of ingestion are     *)
(* left out.                                                               *)
(***************************************************************************)
EXTENDS YahooCharts

-----------------------------------------------------------------------------
(* security.go.  One exchange stands for each kind of entry of the table:   *)
(* an ordinary one, one over the counter, Tokyo, and one found only after   *)
(* the name is upper-cased; any other name is not in it.                    *)
ExchangeToMIC == [NMS |-> "XNAS", PINK |-> "OTC", TSE |-> "XTKS", BATS |-> "BATS"]
ToUpper(exchange) == IF exchange = "Bats" THEN "BATS" ELSE exchange

MICs == {"XNAS", "OTC", "XTKS", "BATS", ""}
Securities == [symbol : Seq(STRING), mic : MICs]

InferMIC(exchange) ==
  IF exchange \in DOMAIN ExchangeToMIC THEN ExchangeToMIC[exchange]
  ELSE IF ToUpper(exchange) \in DOMAIN ExchangeToMIC THEN ExchangeToMIC[ToUpper(exchange)]
  ELSE ""

DropsAnyT(symbol, mic) ==         \* fault: the suffix is "T", not ".T"
  IF mic = "XTKS" /\ Last(symbol) = "T" THEN Front(symbol) ELSE symbol
CleanSymbol(symbol, mic) ==
  IF mic = "XTKS" /\ Len(symbol) > 1 /\ Last(symbol) = "T" THEN Front(symbol) ELSE symbol

CreateSecurity(symbol, exchange) ==
  LET mic == InferMIC(exchange) IN [symbol |-> CleanSymbol(symbol, mic), mic |-> mic]

(* time.go: the window is the day two days before the timestamp. *)
SameDay(timestamp) ==       \* fault: the timestamp itself opens the window
  [start |-> timestamp - 2 * DayTicks, end |-> timestamp - DayTicks,
   event |-> timestamp - DayTicks]
ToUTCDayBoundaries(timestamp) ==
  LET day == timestamp \div DayTicks - 2 IN
  [start |-> day * DayTicks, end |-> (day + 1) * DayTicks, event |-> (day + 1) * DayTicks]

-----------------------------------------------------------------------------
(* bars.go *)

AdjustedBars(bars) == \E i \in DOMAIN bars : bars[i].adjClose # Nil

AdjustsAll(bar, adjusted) ==           \* fault: no row keeps its own close
  IF adjusted THEN (IF bar.adjClose = Nil THEN 0 ELSE bar.adjClose) ELSE bar.close
ClosePrice(bar, adjusted) ==
  IF adjusted /\ bar.adjClose # Nil THEN bar.adjClose ELSE bar.close

NormalizeBar(bar, currency, adjusted) ==
  LET window == ToUTCDayBoundaries(bar.time) IN
  [start    |-> window.start, end |-> window.end, event |-> window.event,
   open     |-> ToScaledDecimal(bar.open, currency),
   high     |-> ToScaledDecimal(bar.high, currency),
   low      |-> ToScaledDecimal(bar.low, currency),
   close    |-> ToScaledDecimal(ClosePrice(bar, adjusted), currency),
   volume   |-> bar.volume,
   adjusted |-> adjusted,
   policy   |-> IF adjusted THEN "split_dividend" ELSE "raw",
   currency |-> currency]

NormalizeBars(bars, meta) ==
  LET security == CreateSecurity(meta.symbol, meta.exchange) IN
  IF bars = <<>> \/ security.symbol = <<>> THEN Failed
  ELSE [security |-> security,
        bars     |-> [i \in DOMAIN bars |->
                        NormalizeBar(bars[i], meta.currency, AdjustedBars(bars))]]

(* quotes.go *)
ScaledOrNil(price, currency) ==
  IF price = Nil THEN Nil ELSE ToScaledDecimal(price, currency)

Venue(exchange) ==
  IF InferMIC(exchange) = "" THEN exchange ELSE InferMIC(exchange)

QuotePrices == {"bid", "ask", "price", "high", "low"}

NormalizeQuote(quote) ==
  LET security == CreateSecurity(quote.symbol, quote.exchange) IN
  IF quote.symbol = <<>> \/ quote.currency = "" THEN Failed
  ELSE [security |-> security, currency |-> quote.currency, venue |-> Venue(quote.exchange),
        bidSize  |-> quote.bidSize, askSize |-> quote.askSize,
        prices   |-> [field \in QuotePrices |->
                        ScaledOrNil(quote[field], quote.currency)]]

(* market_data.go and company_info.go, from the chart's metadata.  Neither  *)
(* cleans the symbol, and market data is left without its currency.         *)
NormalizeMarketData(meta) ==
  [security |-> [symbol |-> meta.symbol, mic |-> InferMIC(meta.exchange)],
   currency |-> "",
   prices   |-> [price |-> ScaledOrNil(meta.price, meta.currency)]]

NormalizeCompanyInfo(meta) ==
  [security |-> [symbol |-> meta.symbol, mic |-> InferMIC(meta.exchange)],
   currency |-> meta.currency, exchange |-> meta.exchange]

-----------------------------------------------------------------------------
(* fundamentals.go: the keys each kind of statement gives, in this order.   *)
(* A quarter is taken to begin three months before its end.                 *)
Quarter == 90 * DayTicks

ConvertDateToPeriod(end) == [start |-> end - Quarter, end |-> end]

CreateFundamentalsLine(key, value, end) ==
  [key      |-> key,
   value    |-> IF key = "eps_basic" THEN [scaled |-> value, scale |-> 2]
                ELSE ToScaledDecimal(value * 100 * Parts, "USD"),
   currency |-> "USD",
   period   |-> ConvertDateToPeriod(end)]

LinesOf(statement, keys) ==
  LET present == Kept(keys, {key \in ToSet(keys) : statement.values[key] # Nil}) IN
  [i \in DOMAIN present |->
     CreateFundamentalsLine(present[i], statement.values[present[i]], statement.end)]

NormalizeIncomeStatement(statement) ==
  LinesOf(statement, <<"revenue", "net_income", "eps_basic">>)
NormalizeBalanceSheet(sheet) ==
  LinesOf(sheet, <<"total_assets", "total_liabilities", "total_equity">>)
NormalizeCashflowStatement(statement) ==
  LinesOf(statement, <<"net_income", "operating_cashflow">>)

NormalizeFundamentals(fundamentals, symbol) ==
  LET linesOf(kind, Lines(_)) ==
        FlattenSeq([i \in DOMAIN fundamentals[kind] |-> Lines(fundamentals[kind][i])])
      lines == linesOf("income", NormalizeIncomeStatement)
                 \o linesOf("balance", NormalizeBalanceSheet)
                 \o linesOf("cashflow", NormalizeCashflowStatement) IN
  IF symbol = <<>> \/ lines = <<>> THEN Failed
  ELSE [security |-> [symbol |-> symbol, mic |-> ""], lines |-> lines]
=============================================================================
