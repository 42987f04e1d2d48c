---------------------------- MODULE PairPrices ----------------------------
(***************************************************************************)
(* The price of tokenIn in tokenOut, derived from the tokens' two USD      *)
(* feeds in four programs: the registry when an order fills, the keeper    *)
(* before it reveals a secret and before it proves, and the monitor when   *)
(* it looks for orders to trigger.  A proof is accepted only for the price *)
(* the registry reads, so the copies must agree.  The order page computes  *)
(* it once more, to quote a market order.  Price 0 stands for a revert or  *)
(* an exception.                                                           *)
(***************************************************************************)
EXTENDS Integers

CONSTANTS
  NormDecimals,   \* 18: answers are scaled to this many decimals
  MaxPrice,       \* type(uint64).max
  OracleDecimals, \* ORACLE_DECIMALS: places of the price the page quotes
  NoFeed          \* the zero address in priceFeeds

ASSUME PriceAssumption == NormDecimals \in Nat /\ MaxPrice \in Nat /\ OracleDecimals \in Nat

\* What latestRoundData() and decimals() of a feed return.
Feed == [answer : Int, decimals : Nat]

Scaled(feed) == feed.answer * 10 ^ (NormDecimals - feed.decimals)

\* Both feeds exist and answer a positive price; scaling raises 10 to the
\* power 18 - decimals, which each program refuses for more than 18.
Usable(feed) == feed # NoFeed /\ feed.answer > 0 /\ feed.decimals <= NormDecimals

ContractPrice(in, out) ==
  LET price == (Scaled(in) * 10 ^ out.decimals) \div Scaled(out)
  IN  IF Usable(in) /\ Usable(out) /\ price \in 1..MaxPrice THEN price ELSE 0

\* Variant with a fault: the decimals of the wrong feed.
KeeperPriceInDecimals(in, out) ==
  LET price == (Scaled(in) * 10 ^ in.decimals) \div Scaled(out)
  IN  IF Usable(in) /\ Usable(out) /\ price \in 1..MaxPrice THEN price ELSE 0

KeeperPrice(in, out) ==
  LET normIn == in.answer * 10 ^ (NormDecimals - in.decimals)
      normOut == out.answer * 10 ^ (NormDecimals - out.decimals)
      price == (normIn * 10 ^ out.decimals) \div normOut
  IN  IF Usable(in) /\ Usable(out) /\ price \in 1..MaxPrice THEN price ELSE 0

\* big.Int arithmetic, without the check for uint64.
MonitorPrice(in, out) ==
  LET normIn == in.answer * 10 ^ (NormDecimals - in.decimals)
      normOut == out.answer * 10 ^ (NormDecimals - out.decimals)
  IN  IF Usable(in) /\ Usable(out) THEN (normIn * 10 ^ out.decimals) \div normOut ELSE 0

\* quotePerBase, from which a market order's minOut is computed.
PagePrice(base, quote) ==
  LET normBase == base.answer * 10 ^ (NormDecimals - base.decimals)
      normQuote == quote.answer * 10 ^ (NormDecimals - quote.decimals)
  IN  IF Usable(base) /\ Usable(quote) THEN (normBase * 10 ^ OracleDecimals) \div normQuote
      ELSE 0
=============================================================================
