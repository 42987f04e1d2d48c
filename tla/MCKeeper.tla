------------------------------ MODULE MCKeeper ------------------------------
EXTENDS KeeperService, TLC

CONSTANT o1

EitherKind == [{o1} -> {"ORDER_FILL", "DCA"}]
SellAtTwo == [o \in {o1} |-> [sell |-> TRUE, price |-> 2]]
WindowZeroOne == [o \in {o1} |-> [lo |-> 0, hi |-> 1]]
ExpiryOne == [o \in {o1} |-> 1]

\* Prices 1 and 2, and one that does not fit in uint64.
ThreeMarkets == {[in |-> [answer |-> a, decimals |-> 1], out |-> [answer |-> 1, decimals |-> 0]]
                   : a \in {10, 20, 90}}

TwoSettings == {[n |-> 2, k |-> 2], [n |-> 3, k |-> 2]}
=============================================================================
