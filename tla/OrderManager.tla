---------------------------- MODULE OrderManager ----------------------------
(***************************************************************************)
(* execution/order_manager.py and the endpoints over it: orders placed     *)
(* under a client order id, confirmed and filled by reports, cancelled by  *)
(* the operator.  The manager's lock is held through every operation, so   *)
(* each is one action, the routing awaited inside place_order included.    *)
(*                                                                         *)
(* A placement refused by the circuit breaker, and one answered with the   *)
(* order its key already stands for, change nothing and are not actions.   *)
(***************************************************************************)
EXTENDS Idempotency, Sequences

CONSTANTS
  Clients,        \* client order ids; a placement without one draws a new one
  Instruments,    \* (venue, symbol) pairs, the venue as _resolve_exchange left it
  Lots,           \* the quantity of every order
  Window,         \* self_trade_window_ms, in ticks of the model
  LateReports,    \* whether a report may come late or twice: for an order no longer
                  \* active, or for more than the order
  MaxOrders,      \* bound: orders placed in one behaviour
  MaxFilled       \* bound: lots reported filled on one order

ASSUME OrdersAssumption ==
  /\ IsFiniteSet(Clients)
  /\ Lots \in Nat \ {0} /\ Window \in Nat /\ LateReports \in BOOLEAN
  /\ MaxOrders \in Nat /\ MaxFilled \in Nat

VARIABLES
  orders,      \* orders: in the order they were placed
  byClient,    \* client_order_map: the place in orders, 0 for none
  keyAge,      \* idempotency.records
  underKey     \* history: orders placed in the life of the key's record

vars == <<orders, byClient, keyAge, underKey>>

Sides == {"buy", "sell"}
Active == {"pending", "submitted", "partially_filled"}
Status == Active \cup {"filled", "cancelled"}

Order ==
  [client : Clients, instrument : Instruments, side : Sides, status : Status,
   filled : 0..MaxFilled, age : 0..Window]

Count == Len(orders)
IsActive(i) == orders[i].status \in Active

\* An order with another status and quantity.
Changed(o, status, filled) ==
  [client |-> o.client, instrument |-> o.instrument, side |-> o.side,
   status |-> status, filled |-> filled, age |-> o.age]

----------------------------------------------------------------------------
Init ==
  /\ orders = <<>>
  /\ byClient = [c \in Clients |-> 0]
  /\ keyAge = NoRecords(Clients)
  /\ underKey = [c \in Clients |-> 0]

\* Mutant of Opposing: an order not confirmed yet does not count.
OpposingConfirmed(i, instrument, side) ==
  /\ orders[i].instrument = instrument /\ orders[i].side # side
  /\ orders[i].status \in {"submitted", "partially_filled"}
  /\ orders[i].age < Window

\* _check_self_trade: an active order of the other side, young enough.
Opposing(i, instrument, side) ==
  /\ orders[i].instrument = instrument /\ orders[i].side # side
  /\ IsActive(i)
  /\ orders[i].age < Window

SelfTrade(instrument, side) == \E i \in 1..Count : Opposing(i, instrument, side)

\* Mutant of ChecksKey: a record stops nothing.
ChecksKeyOnce(c) ==
  \/ keyAge[c] = Ttl /\ keyAge' \in Stored(keyAge, c)
  \/ keyAge[c] < Ttl /\ UNCHANGED keyAge

\* check_and_set, where the placement goes on: the key has no record and gets
\* one, or it has one but the map holds no order for it, because the attempt
\* that made the record was refused.
ChecksKey(c) ==
  \/ keyAge[c] = Ttl /\ keyAge' \in Stored(keyAge, c)
  \/ keyAge[c] < Ttl /\ byClient[c] = 0 /\ UNCHANGED keyAge

UnderKey(c) == IF keyAge[c] = Ttl THEN 0 ELSE underKey[c]

\* place_order refused for self-trade: the record of its key stays.
PlaceRefused(c, instrument, side) ==
  /\ SelfTrade(instrument, side)
  /\ ChecksKey(c)
  /\ underKey' = [underKey EXCEPT ![c] = UnderKey(c)]
  /\ UNCHANGED <<orders, byClient>>

Placed(c, instrument, side) ==
  [client |-> c, instrument |-> instrument, side |-> side,
   status |-> "pending", filled |-> 0, age |-> 0]

Place(c, instrument, side) ==
  /\ Count < MaxOrders
  /\ ~SelfTrade(instrument, side)
  /\ ChecksKey(c)
  /\ underKey' = [underKey EXCEPT ![c] = UnderKey(c) + 1]
  /\ orders' = Append(orders, Placed(c, instrument, side))
  /\ byClient' = [byClient EXCEPT ![c] = Count + 1]

----------------------------------------------------------------------------
(* Reports and cancellations find their order by its client id: where two   *)
(* orders share one, the younger.                                           *)

\* What confirm_order_submission, record_fill and cancel_order have in common.
Recorded(i, status, filled) ==
  /\ orders' = [orders EXCEPT ![i] = Changed(orders[i], status, filled)]
  /\ UNCHANGED <<byClient, keyAge, underKey>>

\* confirm_order_submission, whatever the status was.
Confirm(c) ==
  LET i == byClient[c] IN
  /\ i # 0
  /\ LateReports \/ IsActive(i)
  /\ Recorded(i, "submitted", orders[i].filled)

\* record_fill: filled when the lots add up to the order, and partly filled with
\* fewer or with more.
Fill(c, lots) ==
  LET i      == byClient[c]
      filled == orders[i].filled + lots
  IN /\ i # 0
     /\ LateReports \/ (IsActive(i) /\ filled <= Lots)
     /\ filled <= MaxFilled
     /\ Recorded(i, IF filled = Lots THEN "filled" ELSE "partially_filled", filled)

\* cancel_order: the order is marked, the exchange is not told.
Cancel(c) ==
  LET i == byClient[c] IN
  /\ i # 0 /\ IsActive(i)
  /\ Recorded(i, "cancelled", orders[i].filled)

----------------------------------------------------------------------------
Aged(o) ==
  [client |-> o.client, instrument |-> o.instrument, side |-> o.side,
   status |-> o.status, filled |-> o.filled,
   age |-> IF o.age < Window THEN o.age + 1 ELSE o.age]

Clock ==
  /\ orders' = [i \in 1..Count |-> Aged(orders[i])]
  /\ keyAge' = Elapsed(keyAge)
  /\ underKey' = [c \in Clients |-> IF keyAge'[c] = Ttl THEN 0 ELSE underKey[c]]
  /\ UNCHANGED byClient

Next ==
  \/ \E c \in Clients, instrument \in Instruments, side \in Sides :
       Place(c, instrument, side) \/ PlaceRefused(c, instrument, side)
  \/ \E c \in Clients : Confirm(c) \/ Cancel(c)
  \/ \E c \in Clients, lots \in 1..Lots : Fill(c, lots)
  \/ Clock

Spec == Init /\ [][Next]_vars

----------------------------------------------------------------------------
(* Properties. *)

\* The shape of the manager's tables: the map points at an order of the client,
\* and no more records are kept than the cap allows.
TypeOK ==
  /\ orders \in Seq(Order) /\ Count <= MaxOrders
  /\ byClient \in [Clients -> 0..Count]
  /\ \A c \in Clients : byClient[c] # 0 => orders[byClient[c]].client = c
  /\ keyAge \in [Clients -> 0..Ttl]
  /\ underKey \in [Clients -> Nat]
  /\ Cardinality(Live(keyAge)) <= MaxRecords

\* Self-trade prevention over 60 seconds: two active orders on opposite sides of
\* an instrument are never both younger than the window, through any mix of
\* partial fills, cancellations and placements under old and new ids.
NoOpposingOrders ==
  \A i, j \in 1..Count :
    (/\ orders[i].instrument = orders[j].instrument
     /\ orders[i].side # orders[j].side
     /\ IsActive(i) /\ IsActive(j))
    => orders[i].age >= Window \/ orders[j].age >= Window

\* While the record of a client id lives, one order at most is placed under it,
\* however many attempts are refused before and repeated after.
OneOrderPerKey == \A c \in Clients : keyAge[c] < Ttl => underKey[c] <= 1
=============================================================================
