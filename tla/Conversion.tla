----------------------------- MODULE Conversion -----------------------------
(***************************************************************************)
(* internal/norm/conversion.go: normalised records in another currency.    *)
(* The converter is an interface no code of the repository implements (but *)
(* for the mock of the tests, which knows no rate): `fx` is the rate and   *)
(* the set of amounts at which a call for it fails.                        *)
(***************************************************************************)
EXTENDS Normalize

ConvertValue(value, fx) == [value EXCEPT !.scaled = @ * fx.rate]

(* The prices that are there are converted one after the other; the first   *)
(* failure gives up all of them.                                            *)
KeepsFailed(prices, fx) ==          \* fault: a price that fails stays as it was
  [field \in DOMAIN prices |->
     IF prices[field] = Nil \/ prices[field].scaled \in fx.fails THEN prices[field]
     ELSE ConvertValue(prices[field], fx)]
ConvertEach(prices, fx) ==
  IF \E field \in DOMAIN prices : prices[field] # Nil /\ prices[field].scaled \in fx.fails
    THEN Failed
    ELSE [field \in DOMAIN prices |->
            IF prices[field] = Nil THEN Nil ELSE ConvertValue(prices[field], fx)]

Converted(prices, source, target, fx) ==
  IF source = "" THEN Failed
  ELSE IF source = target THEN prices
  ELSE ConvertEach(prices, fx)

BarFields == {"open", "high", "low", "close"}

(* Every price of every bar, from the first bar's currency. *)
ConvertBars(batch, target, fx) ==
  Converted([at \in (DOMAIN batch.bars) \X BarFields |-> batch.bars[at[1]][at[2]]],
            batch.bars[1].currency, target, fx)

ConvertQuote(quote, target, fx) == Converted(quote.prices, quote.currency, target, fx)

ConvertFundamentals(snapshot, target, fx) ==
  Converted([i \in DOMAIN snapshot.lines |-> snapshot.lines[i].value],
            snapshot.lines[1].currency, target, fx)

(* The currency of market data is never set: nothing can be converted. *)
ConvertMarketData(data, target, fx) == Converted(data.prices, data.currency, target, fx)
=============================================================================
