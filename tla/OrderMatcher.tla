---------------------------- MODULE OrderMatcher ----------------------------
(***************************************************************************)
(* rust/order-matcher: limit order books in shards.  A shard's write lock  *)
(* is held while an order is matched, so nobody sees it half matched; here *)
(* the fills are made one step at a time, with the shard's taker set, and  *)
(* different shards match at the same time.                                *)
(*                                                                         *)
(* Prices are the integer keys of the levels, quantities are whole.  A     *)
(* symbol hashes to a shard, and the shard keeps one book for all of its   *)
(* symbols.                                                                *)
(***************************************************************************)
EXTENDS Integers, FiniteSets, SequencesExt

CONSTANTS
  Shards,
  Symbols,
  ShardFor,    \* shard_for: the shard a symbol hashes to
  Prices,
  Users,       \* the user ids of orders
  Nobody,      \* user_id: None
  Requests,    \* the orders callers may add, ids left to the model
  MaxDepth,    \* max_depth: orders a level takes
  MaxOrders    \* bound: orders added in one behaviour

Sides == {"Buy", "Sell"}
Types == {"Market", "Limit", "StopMarket", "StopLimit"}
Tifs == {"GTC", "IOC", "FOK", "GTD"}

Order ==
  [side : Sides, type : Types, tif : Tifs, price : Prices, stop : Prices,
   user : Users \cup {Nobody}, symbol : Symbols, quantity : Nat \ {0}]

ASSUME BooksAssumption ==
  /\ ShardFor \in [Symbols -> Shards] /\ Prices \subseteq Nat
  /\ Requests \subseteq Order /\ MaxDepth \in Nat \ {0} /\ MaxOrders \in Nat

Ids == 1..MaxOrders
Places == 1..MaxDepth   \* in a level

VARIABLES
  count,       \* orders added so far; an order's id is its number
  orders,      \* the orders, by id
  remaining,   \* Order.remaining
  book,        \* bids and asks of each shard: the ids in a level, in its order
  taker,       \* the order a shard is matching under its lock, 0 for none
  fills,       \* what the fills of that order give it and its makers so far
  reported,    \* history: what the fills returned to callers gave each order
  prevention   \* self_trade_prevention

matching == <<taker, fills>>
vars == <<count, orders, remaining, book, matching, reported, prevention>>

NoOrder == [side |-> "none"]
None == [id \in Ids |-> 0]

Free(sh) == taker[sh] = 0
Level(sh, side, p) == book[sh][side][p]
Opposite(side) == IF side = "Buy" THEN "Sell" ELSE "Buy"
IsMarket(o) == o.type \in {"Market", "StopMarket"}

Init ==
  /\ count = 0
  /\ orders = [id \in Ids |-> NoOrder]
  /\ remaining = None
  /\ book = [sh \in Shards |-> [side \in Sides |-> [p \in Prices |-> <<>>]]]
  /\ taker = [sh \in Shards |-> 0] /\ fills = [sh \in Shards |-> None]
  /\ reported = None /\ prevention = TRUE

----------------------------------------------------------------------------
(* Adding an order. *)

Quoted(sh, side) == {p \in Prices : Level(sh, side, p) # <<>>}

\* A stop order is matched when it comes or never: a buy if the best ask is at
\* its stop or above, a sell if the best bid is at its stop or below.
Triggered(sh, o) ==
  IF o.side = "Buy"
  THEN Quoted(sh, "Sell") # {} /\ \A p \in Quoted(sh, "Sell") : p >= o.stop
  ELSE Quoted(sh, "Buy") # {} /\ \A p \in Quoted(sh, "Buy") : p <= o.stop

NewOrder(o) ==
  /\ count < MaxOrders
  /\ count' = count + 1
  /\ orders' = [orders EXCEPT ![count + 1] = o]
  /\ remaining' = [remaining EXCEPT ![count + 1] = o.quantity]

AddOrder(o) ==
  LET sh == ShardFor[o.symbol] IN
  /\ Free(sh)
  /\ NewOrder(o)
  /\ o.type \in {"StopMarket", "StopLimit"} => Triggered(sh, o)
  /\ taker' = [taker EXCEPT ![sh] = count + 1]
  /\ UNCHANGED <<book, fills, reported, prevention>>

\* A stop that is not triggered is answered with nothing filled, and forgotten.
DropStop(o) ==
  /\ o.type \in {"StopMarket", "StopLimit"}
  /\ Free(ShardFor[o.symbol]) /\ ~Triggered(ShardFor[o.symbol], o)
  /\ NewOrder(o)
  /\ UNCHANGED <<book, matching, reported, prevention>>

----------------------------------------------------------------------------
(* match_market and match_limit. *)

Taker(sh) == orders[taker[sh]]

Crosses(o, p) ==
  \/ IsMarket(o)
  \/ o.side = "Buy" /\ p <= o.price
  \/ o.side = "Sell" /\ p >= o.price

\* With self-trade prevention a level that holds an order of the taker's user is
\* passed over; for a market order without a user no level is.
OwnLevel(o, level) ==
  /\ prevention
  /\ IsMarket(o) => o.user # Nobody
  /\ \E i \in DOMAIN level : orders[level[i]].user = o.user

\* ... and so is a maker of the same user, nobody being a user like another.
OwnMaker(o, id) == prevention /\ orders[id].user = o.user

\* The i-th order of the level at p is one the taker may be filled by.
MayHit(sh, p, i) ==
  LET level == Level(sh, Opposite(Taker(sh).side), p) IN
  /\ i \in DOMAIN level
  /\ Crosses(Taker(sh), p)
  /\ ~OwnLevel(Taker(sh), level) /\ ~OwnMaker(Taker(sh), level[i])

\* Mutant of Better: the far side of the book first.
BetterReversed(side, p, q) == IF side = "Buy" THEN p > q ELSE p < q

\* For an order of a side, price p comes before q.
Better(side, p, q) == IF side = "Buy" THEN p < q ELSE p > q

Comes(side, p, i, q, j) == Better(side, p, q) \/ (p = q /\ i < j)

\* The level after its i-th order was hit: retain drops it when nothing is left of it.
Left(level, i, left) == IF left = 0 THEN RemoveAt(level, i) ELSE level

\* The amounts of these orders go up by so much, or down.
Moved(amounts, ids, by) ==
  [id \in Ids |-> IF id \in ids THEN amounts[id] + by ELSE amounts[id]]

\* One fill: the best price, and in its level the first.
Fill(sh, p, i) ==
  LET side  == Opposite(Taker(sh).side)
      maker == Level(sh, side, p)[i]
      qty   == Min({remaining[taker[sh]], remaining[maker]})
  IN
  /\ ~Free(sh) /\ remaining[taker[sh]] > 0
  /\ MayHit(sh, p, i)
  /\ \A q \in Prices, j \in Places : MayHit(sh, q, j) => ~Comes(Taker(sh).side, q, j, p, i)
  /\ remaining' = Moved(remaining, {taker[sh], maker}, -qty)
  /\ fills' = [fills EXCEPT ![sh] = Moved(@, {taker[sh], maker}, qty)]
  /\ book' = [book EXCEPT ![sh][side][p] = Left(@, i, remaining[maker] - qty)]
  /\ UNCHANGED <<count, orders, taker, reported, prevention>>

----------------------------------------------------------------------------
(* The end of a match: the result is returned and the lock let go. *)

Matched(sh) ==
  /\ ~Free(sh)
  /\ \/ remaining[taker[sh]] = 0
     \/ \A p \in Prices, i \in Places : ~MayHit(sh, p, i)

Unlock(sh) ==
  /\ taker' = [taker EXCEPT ![sh] = 0]
  /\ fills' = [fills EXCEPT ![sh] = None]

Report(sh) == reported' = [id \in Ids |-> reported[id] + fills[sh][id]]

\* What is left of a limit order rests only if it is good till cancelled.
Rests(sh) ==
  /\ remaining[taker[sh]] > 0
  /\ ~IsMarket(Taker(sh)) /\ Taker(sh).tif = "GTC"

\* A level takes max_depth orders; the first makes the level and always fits.
HasPlace(level) == Len(level) < MaxDepth

\* Mutant of Rest: the order rests with its whole quantity.
RestWhole(sh) ==
  LET o == Taker(sh) IN
  /\ Matched(sh) /\ Rests(sh)
  /\ HasPlace(Level(sh, o.side, o.price))
  /\ book' = [book EXCEPT ![sh][o.side][o.price] = Append(@, taker[sh])]
  /\ remaining' = [remaining EXCEPT ![taker[sh]] = o.quantity]
  /\ Report(sh) /\ Unlock(sh)
  /\ UNCHANGED <<count, orders, prevention>>

Rest(sh) ==
  LET o == Taker(sh) IN
  /\ Matched(sh) /\ Rests(sh)
  /\ HasPlace(Level(sh, o.side, o.price))
  /\ book' = [book EXCEPT ![sh][o.side][o.price] = Append(@, taker[sh])]
  /\ Report(sh) /\ Unlock(sh)
  /\ UNCHANGED <<count, orders, remaining, prevention>>

\* No place in the level: the rest of the order is gone, and its caller is told
\* what it would be told had it rested.
DropRest(sh) ==
  /\ Matched(sh) /\ Rests(sh)
  /\ ~HasPlace(Level(sh, Taker(sh).side, Taker(sh).price))
  /\ Report(sh) /\ Unlock(sh)
  /\ UNCHANGED <<count, orders, remaining, book, prevention>>

Killed(sh) ==
  remaining[taker[sh]] > 0 /\ ~IsMarket(Taker(sh)) /\ Taker(sh).tif = "FOK"

\* Filled, or immediate-or-cancel, good till a date, or a market order.
Return(sh) ==
  /\ Matched(sh) /\ ~Rests(sh) /\ ~Killed(sh)
  /\ Report(sh) /\ Unlock(sh)
  /\ UNCHANGED <<count, orders, remaining, book, prevention>>

\* Fill-or-kill: the caller is told of no fill; the makers keep theirs.
Kill(sh) ==
  /\ Matched(sh) /\ Killed(sh)
  /\ remaining' = [remaining EXCEPT ![taker[sh]] = Taker(sh).quantity]
  /\ Unlock(sh)
  /\ UNCHANGED <<count, orders, book, reported, prevention>>

----------------------------------------------------------------------------
\* cancel_order takes the order out of the level it is in, if any.
Cancel(id, side, symbol) ==
  LET sh == ShardFor[symbol] IN
  /\ Free(sh)
  /\ \E p \in Prices : \E i \in DOMAIN Level(sh, side, p) :
       /\ Level(sh, side, p)[i] = id
       /\ book' = [book EXCEPT ![sh][side][p] = RemoveAt(@, i)]
  /\ UNCHANGED <<count, orders, remaining, matching, reported, prevention>>

\* The caller holds the manager exclusively.
SetSelfTradePrevention(enabled) ==
  /\ \A sh \in Shards : Free(sh)
  /\ prevention' = enabled
  /\ UNCHANGED <<count, orders, remaining, book, matching, reported>>

Match(sh) ==
  \/ \E p \in Prices, i \in Places : Fill(sh, p, i)
  \/ Rest(sh) \/ DropRest(sh) \/ Return(sh) \/ Kill(sh)

Next ==
  \/ \E o \in Requests : AddOrder(o) \/ DropStop(o)
  \/ \E sh \in Shards : Match(sh)
  \/ \E id \in Ids, side \in Sides, symbol \in Symbols : Cancel(id, side, symbol)
  \/ \E enabled \in BOOLEAN : SetSelfTradePrevention(enabled)

Spec == Init /\ [][Next]_vars

----------------------------------------------------------------------------
(* Properties. *)

Added == 1..count

\* The shape of the books: no level over max_depth.
TypeOK ==
  /\ count \in 0..MaxOrders
  /\ orders \in [Ids -> Order \cup {NoOrder}] /\ \A id \in Added : orders[id] \in Order
  /\ remaining \in [Ids -> Nat] /\ reported \in [Ids -> Nat]
  /\ book \in [Shards -> [Sides -> [Prices -> Seq(Added)]]]
  /\ \A sh \in Shards, side \in Sides, p \in Prices : Len(Level(sh, side, p)) <= MaxDepth
  /\ taker \in [Shards -> 0..count] /\ fills \in [Shards -> [Ids -> Nat]]
  /\ prevention \in BOOLEAN

Home(id) == ShardFor[orders[id].symbol]

\* What an order still waits for, with the fills its owner was told of and those
\* of the match under way, is what it asked for: partial fills over several
\* takers lose and invent nothing.  Fill-or-kill orders are the exception: a
\* killed one leaves its makers filled in silence.
NothingLost ==
  (\A id \in Added : orders[id].tif # "FOK") =>
    \A id \in Added : remaining[id] + reported[id] + fills[Home(id)][id] = orders[id].quantity

\* The levels hold each order at most once, in the order of arrival, on its own
\* side at its own price, and only what is not filled.
LevelsFifo ==
  \A sh \in Shards, side \in Sides, p \in Prices :
    LET level == Level(sh, side, p) IN
    /\ \A i, j \in DOMAIN level : i < j => level[i] < level[j]
    /\ \A i \in DOMAIN level :
         /\ orders[level[i]].side = side /\ orders[level[i]].price = p
         /\ remaining[level[i]] > 0 /\ level[i] # taker[sh]

Makers(sh) == {m \in Ids : fills[sh][m] > 0 /\ m # taker[sh]}

\* "Time-priority matching with FIFO queues at each price level": while a maker
\* is hit, no order the taker may still hit is cheaper to a buyer, dearer to a
\* seller, or at the maker's price but added before it, although levels come and
\* go and orders are cancelled out of them.
PriceTimePriority ==
  \A sh \in Shards : ~Free(sh) =>
    \A m \in Makers(sh), p \in Prices, i \in Places : MayHit(sh, p, i) =>
      /\ Taker(sh).side = "Buy"  => orders[m].price <= p
      /\ Taker(sh).side = "Sell" => orders[m].price >= p
      /\ p = orders[m].price => m <= Level(sh, Opposite(Taker(sh).side), p)[i]

\* "Self-trade prevention": nobody's orders trade with one another.
NoSelfTrade ==
  prevention => \A sh \in Shards : \A m \in Makers(sh) : orders[m].user # Taker(sh).user
=============================================================================
