------------------------------ MODULE MCForms ------------------------------
EXTENDS Forms

CONSTANTS a1, a2

LimitSell == [kind |-> "LIMIT", side |-> "SELL", target |-> 3]
LimitBuy == [kind |-> "LIMIT", side |-> "BUY", target |-> 3]
MarketBuy == [kind |-> "MARKET", side |-> "BUY", target |-> 0]
MarketSell == [kind |-> "MARKET", side |-> "SELL", target |-> 0]

SellOrMarket == {LimitSell, MarketBuy}
LimitOrders == {LimitSell, LimitBuy}
AllInputs == {LimitSell, LimitBuy, MarketBuy, MarketSell}
============================================================================
