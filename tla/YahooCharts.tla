----------------------------- MODULE YahooCharts -----------------------------
(***************************************************************************)
(* What internal/yahoo takes out of an answer of Yahoo Finance: bars.go,   *)
(* quotes.go and fundamentals.go decode and validate it, client.go turns a *)
(* chart into a quote.                                                     *)
(*                                                                         *)
(* A chart is a record with its rows where the source keeps parallel       *)
(* arrays; `ragged` says that they are missing or not of one length,       *)
(* `garbled` that the text is not the JSON the type asks for.  A price is  *)
(* a number of Parts-ths of a cent (Decimals); NaN and the infinities have *)
(* no JSON.                                                                *)
(***************************************************************************)
EXTENDS Decimals, SequencesExt

CONSTANT Fraction   \* a number with a fraction where an integer is asked for

(* What JSON of the types asked for may hold: a number that may be missing. *)
Figures == Int \cup {Nil}

-----------------------------------------------------------------------------
(* bars.go *)
BarRows ==
  [time : Int, open : Figures, high : Figures, low : Figures, close : Figures,
   volume : Figures, adjClose : Figures]
ChartResults ==
  [symbol : Seq(STRING), currency : STRING, exchange : STRING, rows : Seq(BarRows),
   ragged : BOOLEAN, hasAdjClose : BOOLEAN, metaPrice : Figures]
BarsResponses ==
  [garbled : BOOLEAN, error : STRING \cup {Nil}, charts : Seq(ChartResults)]

ValidPrice(price) == price >= 0

Complete(row) ==
  Nil \notin {row.open, row.high, row.low, row.close, row.volume}

HighCoversClose(row) ==            \* fault: the low is not compared
  /\ \A price \in {row.open, row.high, row.low, row.close} : ValidPrice(price)
  /\ row.volume >= 0
  /\ \A price \in {row.low, row.open, row.close} : row.high >= price
ValidBarData(row) ==
  /\ \A price \in {row.open, row.high, row.low, row.close} : ValidPrice(price)
  /\ row.volume >= 0
  /\ \A price \in {row.low, row.open, row.close} : row.high >= price
  /\ \A price \in {row.open, row.close} : row.low <= price

(* A row with a null is skipped, a complete one that is wrong refuses all. *)
ValidChart(chart) ==
  LET rows == {chart.rows[i] : i \in DOMAIN chart.rows} IN
  /\ chart.symbol # <<>> /\ chart.currency # ""
  /\ chart.rows # <<>>
  /\ ~ chart.ragged
  /\ \A row \in rows : Complete(row) => ValidBarData(row)
  /\ \E row \in rows : Complete(row)
  /\ chart.hasAdjClose =>
       \A row \in rows : row.adjClose # Nil => ValidPrice(row.adjClose)

DecodeBarsResponse(answer) ==
  /\ ~ answer.garbled
  /\ answer.error = Nil
  /\ answer.charts # <<>>
  /\ \A i \in DOMAIN answer.charts : ValidChart(answer.charts[i])

GetBars(answer) ==
  LET chart == answer.charts[1]
      rows  == Kept(chart.rows, {row \in ToSet(chart.rows) : Complete(row)}) IN
  [i \in DOMAIN rows |->
     [rows[i] EXCEPT !.adjClose = IF chart.hasAdjClose THEN @ ELSE Nil]]

GetMetadata(answer) ==
  LET chart == answer.charts[1] IN
  [symbol |-> chart.symbol, currency |-> chart.currency, exchange |-> chart.exchange,
   price |-> chart.metaPrice]

(* client.go: the interval and the days asked for are left out. *)
FetchBars(answer) == IF DecodeBarsResponse(answer) THEN GetBars(answer) ELSE Failed

-----------------------------------------------------------------------------
(* client.go: the quote is the last row, whichever of its fields are there. *)
ConvertChartToQuote(answer) ==
  LET chart == answer.charts[1]
      last  == chart.rows[Len(chart.rows)] IN
  [symbol |-> chart.symbol, currency |-> chart.currency, exchange |-> chart.exchange,
   price |-> last.close, high |-> last.high, low |-> last.low,
   bid |-> Nil, ask |-> Nil, bidSize |-> Nil, askSize |-> Nil]

FetchQuote(answer) ==
  IF DecodeBarsResponse(answer) THEN ConvertChartToQuote(answer) ELSE Failed

(* quotes.go: the decoder of the quote endpoint; an unknown field refuses. *)
QuoteResults ==
  [symbol : Seq(STRING), currency : STRING, exchange : STRING, price : Figures,
   high : Figures, low : Figures, bid : Figures, ask : Figures, bidSize : Figures,
   askSize : Figures]
QuoteResponses ==
  [garbled : BOOLEAN, error : STRING \cup {Nil}, quotes : Seq(QuoteResults)]

ValidQuoteResult(quote) ==
  /\ quote.symbol # <<>> /\ quote.currency # ""
  /\ quote.bid # Nil /\ quote.ask # Nil =>
       ValidPrice(quote.bid) /\ ValidPrice(quote.ask) /\ quote.bid <= quote.ask
  /\ \A amount \in {quote.bidSize, quote.askSize, quote.price, quote.high, quote.low} :
       amount # Nil => amount >= 0

DecodeQuoteResponse(answer) ==
  /\ ~ answer.garbled
  /\ answer.error = Nil
  /\ answer.quotes # <<>>
  /\ \A i \in DOMAIN answer.quotes : ValidQuoteResult(answer.quotes[i])

GetQuotes(answer) == answer.quotes

-----------------------------------------------------------------------------
(* fundamentals.go: `statements` maps each of the three kinds to Nil or to  *)
(* its statements, which have an end date (0 when missing) and values; a    *)
(* value is Nil, an integer, or Fraction, which no int64 field can take.    *)
StatementKinds == {"income", "balance", "cashflow"}

KeysOfStatement ==
  [income   |-> {"revenue", "net_income", "eps_basic"},
   balance  |-> {"total_assets", "total_liabilities", "total_equity"},
   cashflow |-> {"net_income", "operating_cashflow"}]
StatementsOf(kind) ==
  Seq([end : Int, values : [KeysOfStatement[kind] -> Figures \cup {Fraction}]])
FundamentalsResponses ==
  [garbled : BOOLEAN, error : STRING \cup {Nil}, symbol : Seq(STRING),
   statements : [income   : StatementsOf("income") \cup {Nil},
                 balance  : StatementsOf("balance") \cup {Nil},
                 cashflow : StatementsOf("cashflow") \cup {Nil}]]

Statements(answer, kind) ==
  IF answer.statements[kind] = Nil THEN <<>> ELSE answer.statements[kind]

ValidFundamentals(answer) ==
  /\ \E kind \in StatementKinds : answer.statements[kind] # Nil
  /\ \A kind \in StatementKinds : answer.statements[kind] # <<>>
  /\ \A kind \in StatementKinds : \A i \in DOMAIN Statements(answer, kind) :
       Statements(answer, kind)[i].end # 0

Fractional(answer) ==
  \E kind \in StatementKinds : \E i \in DOMAIN Statements(answer, kind) :
    LET values == Statements(answer, kind)[i].values IN
    \E key \in DOMAIN values : values[key] = Fraction

DecodeFundamentalsResponse(answer) ==
  /\ ~ answer.garbled /\ ~ Fractional(answer)
  /\ answer.error = Nil
  /\ ValidFundamentals(answer)

FetchFundamentalsQuarterly(answer) ==
  IF DecodeFundamentalsResponse(answer)
    THEN [kind \in StatementKinds |-> Statements(answer, kind)] ELSE Failed
=============================================================================
