------------------------------ MODULE DataPath ------------------------------
(***************************************************************************)
(* One request's data on its way through the library and the command line: *)
(* fetched and decoded (YahooCharts), normalised (Normalize), then either  *)
(* converted to another currency (Conversion) or emitted (Emit), and after *)
(* that published or previewed on the bus (BusPayload).                    *)
(*                                                                         *)
(* `value` is what the stage reached has produced, Failed when it returned *)
(* an error: the request ends there, and nothing of it goes further.  A    *)
(* request of the kind "arithmetic" asks one function of Decimals instead. *)
(* What a client asks for, what Yahoo may answer, the configurations of    *)
(* the bus, the sizes of a payload and the converters are parameters.      *)
(***************************************************************************)
EXTENDS Conversion, Emit, BusPayload

CONSTANTS Requests,     \* kind and answer
          Operations,   \* requests of the kind "arithmetic"
          Converters,   \* target currency, rate and failing amounts
          Configs,      \* bus configurations
          Sizes         \* sizes of a payload

VARIABLES request, stage, value

vars == <<request, stage, value>>

BarKinds == {"daily", "weekly", "monthly", "intraday"}
MetaKinds == {"market-data", "company-info"}

(* An answer is what the decoder of its kind asks for; a decimal is one of  *)
(* the program's, and the limit of a configuration a number.                *)
ASSUME RequestsAssumption ==
  \A r \in Requests :
    \/ r.kind \in BarKinds \cup MetaKinds \cup {"quote"} /\ r.answer \in BarsResponses
    \/ r.kind = "ticker" /\ r.answer \in QuoteResponses
    \/ r.kind = "fundamentals" /\ r.answer \in FundamentalsResponses
ASSUME OperationsAssumption ==
  \A r \in Operations :
    /\ r.kind = "arithmetic"
    /\ \/ /\ r.op = "multiply" /\ r.scale \in Int
          /\ r.a \in ScaledDecimals /\ r.b \in ScaledDecimals
       \/ r.op \in {"percent", "money"} /\ r.a \in ScaledDecimals
       \/ r.op = "float" /\ r.a \in Int /\ r.scale \in Int
ASSUME ConfigsAssumption ==
  \A config \in Configs :
    /\ config.topicPrefix \in Seq(STRING) /\ config.env \in STRING
    /\ config.maxPayload \in Int
ASSUME SizesAssumption == Sizes \subseteq Nat

Init ==
  /\ request \in Requests \cup Operations
  /\ stage = "fetch"
  /\ value = Nil

Reach(next, result) == stage' = next /\ value' = result /\ UNCHANGED request

(* The HTTP client gave up (HttpxClient), or quoteSummary did (CrumbAuth). *)
FetchFails ==
  /\ stage = "fetch" /\ request.kind # "arithmetic"
  /\ Reach("fetched", Failed)

(* What is decoded of an answer. *)
Decoded ==
  CASE request.kind = "ticker" ->
         IF DecodeQuoteResponse(request.answer) THEN GetQuotes(request.answer)[1] ELSE Failed
    [] request.kind = "fundamentals" -> FetchFundamentalsQuarterly(request.answer)
    [] request.kind = "quote" -> FetchQuote(request.answer)
    [] OTHER -> FetchBars(request.answer)

Decode ==
  /\ stage = "fetch" /\ request.kind # "arithmetic"
  /\ Reach("decoded", Decoded)

NormalizedBars == NormalizeBars(value, GetMetadata(request.answer))

Normalized ==
  CASE request.kind \in {"quote", "ticker"} -> NormalizeQuote(value)
    [] request.kind = "fundamentals" -> NormalizeFundamentals(value, request.answer.symbol)
    [] request.kind = "market-data"  -> NormalizeMarketData(GetMetadata(request.answer))
    [] request.kind = "company-info" -> NormalizeCompanyInfo(GetMetadata(request.answer))
    [] OTHER -> NormalizedBars

Normalise ==
  /\ stage = "decoded" /\ value # Failed
  /\ Reach("normalized", Normalized)

(* A user of the library converts what it got. *)
Convert ==
  /\ stage = "normalized" /\ value # Failed /\ request.kind # "company-info"
  /\ \E fx \in Converters :
       Reach("converted",
         CASE request.kind \in {"quote", "ticker"} -> ConvertQuote(value, fx.target, fx)
           [] request.kind = "fundamentals" -> ConvertFundamentals(value, fx.target, fx)
           [] request.kind = "market-data"  -> ConvertMarketData(value, fx.target, fx)
           [] OTHER -> ConvertBars(value, fx.target, fx))

EmitMessage ==
  /\ stage = "normalized" /\ value # Failed /\ request.kind \notin MetaKinds
  /\ Reach("emitted",
       CASE request.kind \in {"quote", "ticker"} -> EmitQuote(value)
         [] request.kind = "fundamentals" -> EmitFundamentals(value)
         [] OTHER -> EmitBarBatch(value))

Domain ==
  CASE request.kind \in {"quote", "ticker"} -> "ticks"
    [] request.kind = "fundamentals" -> "fundamentals"
    [] OTHER -> "bars"

(* A bus is asked for what it can do; its size is that of the message. *)
Hand(next, what, Made(_, _)) ==
  /\ stage = "emitted" /\ value # Failed
  /\ \E config \in Configs, size \in Sizes :
       Reach(next, IF what \notin NewBus(config) THEN Failed
                   ELSE [config |-> config, size |-> size, key |-> value.security,
                         made |-> Made(config, size)])

PublishMessage ==
  Hand("published", "publish",
       LAMBDA config, size : Publish(config, Domain, value.security, size))

PreviewMessage ==
  Hand("previewed", "preview",
       LAMBDA config, size : Preview(config, Domain, value.security, size))

(* An operation is asked for and its result looked at. *)
Compute ==
  /\ stage = "fetch" /\ request.kind = "arithmetic"
  /\ Reach("computed",
       CASE request.op = "multiply" ->
              MultiplyAndRound(request.a, request.b, request.scale)
         [] request.op = "percent" -> PercentToScaled(request.a)
         [] request.op = "money"   -> MoneyToScaled(request.a)
         [] request.op = "float"   -> FloatToScaled(request.a, request.scale))

Next ==
  \/ FetchFails \/ Decode \/ Normalise \/ Convert \/ EmitMessage
  \/ PublishMessage \/ PreviewMessage \/ Compute

Spec == Init /\ [][Next]_vars

-----------------------------------------------------------------------------
Reached(what) == stage = what /\ value # Failed

SourceRows ==
  LET rows == request.answer.charts[1].rows IN
  Kept(rows, {row \in ToSet(rows) : Complete(row)})

Fits(row) ==
  \A price \in {row.open, row.high, row.low, row.close} : InWord(Round(price, Parts))

(* Three conversions of a bar keep what makes it one.  A batch has a bar    *)
(* for every complete row and for no other; rounding to cents never puts    *)
(* the low over the high or the open and close outside (a close replaced by *)
(* the adjusted one may be); a bar covers one UTC day, which comes before   *)
(* that of every row a day later; and the whole batch is called adjusted exactly when a row     *)
(* has an adjusted close.                                                   *)
BarsKeepTheirShape ==
  Reached("emitted") /\ request.kind \in BarKinds =>
    LET bars == value.bars
        adjustable == request.answer.charts[1].hasAdjClose
        own(i) == ~ adjustable \/ SourceRows[i].adjClose = Nil IN
    /\ Len(bars) = Len(SourceRows)
    /\ \A i \in DOMAIN bars :
         /\ Fits(SourceRows[i]) =>
              /\ bars[i].low.scaled <= bars[i].open.scaled
              /\ bars[i].open.scaled <= bars[i].high.scaled
              /\ own(i) => /\ bars[i].low.scaled <= bars[i].close.scaled
                           /\ bars[i].close.scaled <= bars[i].high.scaled
         /\ bars[i].start % DayTicks = 0
         /\ bars[i].adjusted <=> \E j \in DOMAIN bars : ~ own(j)
         /\ \A j \in DOMAIN bars :
              SourceRows[j].time >= SourceRows[i].time + DayTicks =>
                bars[i].end <= bars[j].start

(* What validates twice agrees but for three things: emission refuses a     *)
(* normalised record only because its market is over the counter (a MIC of  *)
(* three letters), because its currency is not three capitals, or because a *)
(* statement had an equity or an operating cash flow, whose keys are not    *)
(* the whitelist's; whatever else Yahoo answers is refused by the decoder.  *)
RejectionsAreKnown ==
  stage = "emitted" /\ value = Failed =>
    IF request.kind = "fundamentals"
      THEN \E kind \in {"balance", "cashflow"} :
             \E i \in DOMAIN Statements(request.answer, kind) :
               LET values == Statements(request.answer, kind)[i].values IN
               \E key \in {"total_equity", "operating_cashflow"} \cap DOMAIN values :
                 values[key] # Nil
      ELSE LET source == IF request.kind = "ticker" THEN request.answer.quotes[1]
                         ELSE request.answer.charts[1] IN
           InferMIC(source.exchange) = "OTC" \/ source.currency \notin ThreeCapitals

(* A conversion is all or nothing: every price that was there is converted, *)
(* at one rate, and one that cannot be leaves no half-converted record.     *)
ConversionIsWhole ==
  [][Reached("normalized") /\ Reached("converted")' =>
       \E fx \in Converters :
         LET source == CASE request.kind \in BarKinds -> value.bars[1].currency
                         [] request.kind = "fundamentals" -> value.lines[1].currency
                         [] OTHER -> value.currency
             rate == IF source = fx.target THEN 1 ELSE fx.rate
             before(field) == CASE request.kind \in BarKinds -> value.bars[field[1]][field[2]]
                                [] request.kind = "fundamentals" -> value.lines[field].value
                                [] OTHER -> value.prices[field] IN
         /\ source # ""
         /\ \A field \in DOMAIN value' :
              IF before(field) = Nil THEN value'[field] = Nil
              ELSE /\ value'[field] = [before(field) EXCEPT !.scaled = @ * rate]
                   /\ rate = 1 \/ before(field).scaled \notin fx.fails]_vars

(* However a payload is cut, its pieces are the payload: the messages of a  *)
(* publication follow each other from the first byte to the last without a  *)
(* gap or an overlap, none is empty or over the limit, and all go to one    *)
(* partition of one topic, which parses back into what it was built from    *)
(* while the prefix has no dot.                                             *)
PublicationIsWhole ==
  Reached("published") =>
    LET messages == value.made
        topic(i) == ParseTopic(messages[i].topic) IN
    /\ messages[1].payload.start = 0
    /\ messages[Len(messages)].payload.end = value.size
    /\ \A i \in DOMAIN messages :
         LET payload == messages[i].payload IN
         /\ i > 1 => payload.start = messages[i - 1].payload.end
         /\ payload.start < payload.end \/ value.size = 0
         /\ payload.end - payload.start <= value.config.maxPayload
         /\ messages[i].topic = messages[1].topic
         /\ messages[i].partitionKey = messages[1].partitionKey
         /\ Len(value.config.topicPrefix) = 1 =>
              /\ ValidTopic(messages[i].topic)
              /\ topic(i).domain = Domain /\ topic(i).env = value.config.env
              /\ Domain # "fundamentals" =>
                   topic(i).subtopic = messages[i].partitionKey

(* The preview counts and cuts by its own arithmetic, and tells the truth:  *)
(* the topic, the number of messages and the bytes in all are those of the  *)
(* publication of the same payload; no piece it shows is over the limit.    *)
PreviewTellsThePublication ==
  Reached("previewed") =>
    LET messages == Publish(value.config, Domain, value.key, value.size)
        sizes == value.made.chunkSizes IN
    /\ value.made.topic = messages[1].topic
    /\ value.made.messageCount = Len(messages)
    /\ SumFunction(sizes) = value.size
    /\ \A i \in DOMAIN sizes : sizes[i] <= value.config.maxPayload

(* What is computed is near what is exact.  A product that fits the word    *)
(* and keeps no more digits than it has is less than a unit off, and where  *)
(* it is not negative it is the big-integer RoundHalfUp (a negative one is  *)
(* cut toward zero: Go's division and remainder truncate).  A percentage    *)
(* that loses digits is at most half a unit off and one that gains some is  *)
(* exact, but for negative ones, whose overflow is not looked for.  A float *)
(* is at most half a unit off, but for MaxInt + 1, which is not refused.    *)
Magnitude(x) == IF x < 0 THEN -x ELSE x
DecimalsAreNear ==
  stage = "computed" /\ value # Refused =>
    CASE request.op = "multiply" ->
           LET exact == request.a.scaled * request.b.scaled
               diff  == request.a.scale + request.b.scale - request.scale IN
           InWord(exact) /\ diff >= 0 =>
             /\ Magnitude(value.scaled * Pow10(diff) - exact) < Pow10(diff)
             /\ exact >= 0 =>
                  value.scaled = RoundHalfUp(exact, request.a.scale + request.b.scale,
                                             request.scale)
      [] request.op = "percent" ->
           LET diff == request.a.scale - PercentScale IN
           IF diff <= 0
             THEN request.a.scaled >= 0 => value.scaled = request.a.scaled * Pow10(-diff)
             ELSE InWord(Magnitude(request.a.scaled) + Pow10(diff) \div 2) =>
                    2 * Magnitude(value.scaled * Pow10(diff) - request.a.scaled) <= Pow10(diff)
      [] request.op = "float" ->
           InWord(Round(request.a, Parts)) =>
             2 * Magnitude(value.scaled * Parts - request.a) <= Parts
      [] OTHER -> value = request.a
=============================================================================
