---------------------------- MODULE PriceOracle ----------------------------
(***************************************************************************)
(* The Chainlink USD feeds and the pair price the registry derives from    *)
(* two of them.  A feed is what latestRoundData() and decimals() return:   *)
(* an answer, the time of its last update and its decimal places.          *)
(***************************************************************************)
EXTENDS Deployment

VARIABLES
  feeds,            \* feeds[t]: the feed configured for a token, or NoFeed
  oracleStaleness   \* the age limit the guardian configures

oracleVars == <<feeds, oracleStaleness>>

CONSTANTS
  NoFeed,        \* the zero address in priceFeeds
  Answers,       \* per token, the answers its feed may give
  Decimals,      \* per token, the decimals of its feed
  NormDecimals,  \* 18: both answers are scaled to this many decimals
  MaxPrice,      \* type(uint64).max
  Staleness      \* the values setOracleStaleness is called with

Feed == [answer : Int, updatedAt : Nat]

ASSUME OracleAssumption ==
  /\ NoFeed \notin Feed
  /\ Answers \in [Tokens -> SUBSET Int]
  /\ Decimals \in [Tokens -> Nat]
  /\ NormDecimals \in Nat /\ MaxPrice \in Nat /\ Staleness \subseteq Nat

OracleTypeOK == /\ feeds \in [Tokens -> Feed \cup {NoFeed}]
                /\ oracleStaleness \in Nat

-----------------------------------------------------------------------------
(* _readOraclePrice.  Both feeds must exist and be positive; the two        *)
(* freshness checks are commented out in the source.  10 ** (18 - d) is     *)
(* checked arithmetic: it reverts for a feed with more than 18 decimals.    *)

Normalised(t) == feeds[t].answer * 10 ^ (NormDecimals - Decimals[t])

PairPrice(tIn, tOut) ==
  (Normalised(tIn) * 10 ^ Decimals[tOut]) \div Normalised(tOut)

OracleReadable(tIn, tOut) ==
  /\ \A t \in {tIn, tOut} : /\ feeds[t] # NoFeed
                            /\ feeds[t].answer > 0
                            /\ Decimals[t] <= NormDecimals
  /\ PairPrice(tIn, tOut) \in 1..MaxPrice

-----------------------------------------------------------------------------
(* External: an aggregator publishes a new answer. *)
PublishAnswer(t, answer, now) ==
  /\ feeds[t] # NoFeed
  /\ feeds' = [feeds EXCEPT ![t] = [answer |-> answer, updatedAt |-> now]]
  /\ UNCHANGED oracleStaleness

\* The guardian sets, replaces or removes the feed of a token.
SetPriceFeed(t, feed) ==
  /\ feeds' = [feeds EXCEPT ![t] = feed]
  /\ UNCHANGED oracleStaleness

SetOracleStaleness(s) ==
  /\ s > 0
  /\ oracleStaleness' = s
  /\ UNCHANGED feeds
=============================================================================
