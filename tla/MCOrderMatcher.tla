-------------------------- MODULE MCOrderMatcher --------------------------
(* Instances of OrderMatcher for TLC: one shard per symbol, and the orders  *)
(* callers add.                                                             *)
EXTENDS OrderMatcher, TLC

CONSTANTS ann, bob, shard0, shard1

MCUsers == {ann, bob}
MCShards == {shard0, shard1}
MCShardFor == [symbol \in Symbols |-> IF symbol = "btc" THEN shard0 ELSE shard1]

Request(side, type, tif, price, user, symbol, quantity) ==
  [side |-> side, type |-> type, tif |-> tif, price |-> price, stop |-> price,
   user |-> user, symbol |-> symbol, quantity |-> quantity]

\* Limit orders of two users, one with smaller orders than the other, of nobody,
\* and a few of the other kinds.
MCRequests ==
  {Request(side, "Limit", "GTC", p, u, "btc", IF u = ann THEN 2 ELSE 1) :
     side \in Sides, p \in Prices, u \in {ann, bob}}
  \cup {Request(side, "Market", "IOC", 1, Nobody, "btc", 2) : side \in Sides}
  \cup {Request("Buy", "Limit", "FOK", 2, bob, "btc", 2),
        Request("Sell", "Limit", "GTD", 1, bob, "btc", 2),
        Request("Buy", "StopMarket", "GTC", 2, ann, "btc", 2),
        Request("Sell", "StopLimit", "GTC", 1, bob, "btc", 2),
        Request("Sell", "Limit", "GTC", 1, Nobody, "btc", 2)}
=============================================================================
