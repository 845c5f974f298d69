-------------------------------- MODULE Emit --------------------------------
(***************************************************************************)
(* internal/emit: normalised records validated once more and handed on as  *)
(* messages (bars.go, quotes.go, fundamentals.go, validation.go).  The     *)
(* protobuf types are left out: a message is the record of the fields that *)
(* are set, or Failed.                                                     *)
(***************************************************************************)
EXTENDS Normalize

(* validation.go *)

FourLetterMICs == {"XNAS", "XTKS", "BATS"}     \* of ExchangeToMIC, all but "OTC"

AnyMIC(security) == security.symbol # <<>>     \* fault: the MIC is not looked at
ValidSecurity(security) ==
  security.symbol # <<>> /\ (security.mic = "" \/ security.mic \in FourLetterMICs)

ValidTimeWindow(bar) ==
  bar.end = bar.start + DayTicks /\ bar.event = bar.end

ValidDecimal(d) == 0 <= d.scale /\ d.scale <= 9

(* Three capital letters: pence, "GBp", are a currency of Yahoo's only. *)
ThreeCapitals == {"USD", "JPY", "GBP"}
ValidCurrency(code) == code \in ThreeCapitals

ValidAdjustments(bar) ==
  IF bar.adjusted THEN bar.policy \in {"split_only", "split_dividend"}
                  ELSE bar.policy = "raw"

(* Of the whitelist, the keys this repository's normalisation could use. *)
AllowedKeys == {"revenue", "net_income", "eps_basic", "total_assets", "total_liabilities",
                "shareholders_equity", "operating_cash_flow"}
ValidLine(line) ==
  /\ line.key \in AllowedKeys
  /\ ValidDecimal(line.value)
  /\ ValidCurrency(line.currency)
  /\ line.period.start <= line.period.end

-----------------------------------------------------------------------------
(* The protobuf types.  An error is none of them. *)
Policies == {"raw", "split_only", "split_dividend"}
BarMessages ==
  [start : Int, end : Int, open : ScaledDecimals, high : ScaledDecimals, low : ScaledDecimals,
   close : ScaledDecimals, volume : Int, adjusted : BOOLEAN, policy : Policies]
BatchMessages == [security : Securities, bars : Seq(BarMessages)]
QuoteMessages ==
  [security : Securities, venue : STRING \cup MICs, bid : ScaledDecimals \cup {Nil}, bidSize : Int,
   ask : ScaledDecimals \cup {Nil}, askSize : Int]
LineMessages ==
  [key : AllowedKeys, value : ScaledDecimals, currency : ThreeCapitals,
   period : [start : Int, end : Int]]
FundamentalsMessages == [security : Securities, lines : Seq(LineMessages)]

ASSUME FailureAssumption ==
  Failed \notin BarMessages \cup BatchMessages \cup QuoteMessages \cup FundamentalsMessages

-----------------------------------------------------------------------------
(* bars.go: one bar that is refused refuses the batch. *)
EmitBar(bar) ==
  IF ValidTimeWindow(bar) /\ ValidCurrency(bar.currency) /\ ValidAdjustments(bar)
       /\ \A price \in {bar.open, bar.high, bar.low, bar.close} : ValidDecimal(price)
    THEN [start |-> bar.start, end |-> bar.end, open |-> bar.open, high |-> bar.high,
          low |-> bar.low, close |-> bar.close, volume |-> bar.volume,
          adjusted |-> bar.adjusted, policy |-> bar.policy]
    ELSE Failed

EmitBarBatch(batch) ==
  LET bars == [i \in DOMAIN batch.bars |-> EmitBar(batch.bars[i])] IN
  IF ~ ValidSecurity(batch.security) \/ \E i \in DOMAIN bars : bars[i] = Failed
    THEN Failed
    ELSE [security |-> batch.security, bars |-> bars]

(* quotes.go: of the prices only bid and ask have a place in the message. *)
GetInt64Value(size) == IF size = Nil THEN 0 ELSE size

EmitQuote(quote) ==
  IF ~ ValidSecurity(quote.security) \/ ~ ValidCurrency(quote.currency) THEN Failed
  ELSE [security |-> quote.security, venue |-> quote.venue,
        bid |-> quote.prices["bid"], bidSize |-> GetInt64Value(quote.bidSize),
        ask |-> quote.prices["ask"], askSize |-> GetInt64Value(quote.askSize)]

(* fundamentals.go *)
EmitLineItem(line) == line

EmitFundamentals(snapshot) ==
  IF ~ ValidSecurity(snapshot.security)
       \/ \E i \in DOMAIN snapshot.lines : ~ ValidLine(snapshot.lines[i])
    THEN Failed
    ELSE [security |-> snapshot.security,
          lines |-> [i \in DOMAIN snapshot.lines |-> EmitLineItem(snapshot.lines[i])]]
=============================================================================
