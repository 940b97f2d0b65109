------------------------------ MODULE OrdersApi ------------------------------
(***************************************************************************)
(* interface/routes/orders.py over the order manager: a batch placed one   *)
(* request after the other, and the cancellation of all open orders, which *)
(* lists them once and awaits the manager's lock for each.  Both run while *)
(* other placements, reports and cancellations take the lock in between.   *)
(* A single order and /api/trade are one placement of the manager, and the *)
(* reads list what it holds.  A batch and a sweep are under way at most    *)
(* one at a time.                                                          *)
(***************************************************************************)
EXTENDS OrderManager

CONSTANTS
  Batches      \* the batches sent

Request == [client : Clients, instrument : Instruments, side : Sides]

ASSUME BatchesAssumption == Batches \subseteq Seq(Request)

VARIABLES
  batch,       \* create_batch_orders: the requests still to be placed
  sweep,       \* cancel_all_open_orders: the places in orders still to be cancelled
  listed       \* history: all the places this sweep began with

apiVars == <<batch, sweep, listed>>

ApiInit == Init /\ batch = <<>> /\ sweep = {} /\ listed = {}

Free == batch = <<>> /\ sweep = {}

----------------------------------------------------------------------------
StartBatch(requests) ==
  /\ Free /\ batch' = requests
  /\ UNCHANGED <<vars, sweep, listed>>

\* A request of the batch is placed; one whose client id stands for an order
\* already is answered with that order.
BatchPlaces ==
  /\ batch # <<>> /\ batch' = Tail(batch)
  /\ LET r == Head(batch)
     IN \/ Place(r.client, r.instrument, r.side)
        \/ keyAge[r.client] < Ttl /\ byClient[r.client] # 0 /\ UNCHANGED vars
  /\ UNCHANGED <<sweep, listed>>

\* A refusal, by the self-trade check or by the risk breaker, ends the batch:
\* what was placed before it stays, and the answer is an error.
BatchRefused ==
  /\ batch # <<>> /\ batch' = <<>>
  /\ LET r == Head(batch)
     IN PlaceRefused(r.client, r.instrument, r.side) \/ UNCHANGED vars
  /\ UNCHANGED <<sweep, listed>>

----------------------------------------------------------------------------
\* get_open_orders, filtered by venue and symbol or not.
OpenOrders(filter) ==
  {i \in 1..Count : IsActive(i) /\ orders[i].instrument \in filter}

StartSweep(filter) ==
  /\ Free /\ sweep' = OpenOrders(filter) /\ listed' = sweep'
  /\ UNCHANGED <<vars, batch>>

\* Mutant of Remaining: an order that is no longer active ends the sweep.
RemainingIfActive(i) ==
  IF IsActive(byClient[orders[i].client]) THEN sweep \ {i} ELSE {}

\* The sweep goes on with the others, whether this one could be cancelled or not.
Remaining(i) == sweep \ {i}

\* The eldest order listed: what is cancelled is the youngest order under its
\* client id.
SweepCancels(i) ==
  LET c == orders[i].client IN
  /\ i \in sweep /\ \A j \in sweep : i <= j
  /\ sweep' = Remaining(i)
  /\ listed' = IF sweep' = {} THEN {} ELSE listed
  /\ IF IsActive(byClient[c]) THEN Cancel(c) ELSE UNCHANGED vars
  /\ UNCHANGED batch

\* DELETE /orders/{order_id}: the order may be any, of any status; the one that
\* is cancelled is the youngest under its client id.
CancelById(i) ==
  /\ i \in 1..Count /\ Cancel(orders[i].client)
  /\ UNCHANGED apiVars

----------------------------------------------------------------------------
ApiNext ==
  \/ Next /\ UNCHANGED apiVars
  \/ \E requests \in Batches : StartBatch(requests)
  \/ BatchPlaces \/ BatchRefused
  \/ \E filter \in SUBSET Instruments \ {{}} : StartSweep(filter)
  \/ \E i \in 1..MaxOrders : SweepCancels(i) \/ CancelById(i)

ApiSpec == ApiInit /\ [][ApiNext]_<<vars, apiVars>>

----------------------------------------------------------------------------
\* Cancelling all leaves no order behind: an order that was open when the sweep
\* began, and is still the one its client id stands for, is not active once the
\* sweep has passed it, and none is dropped from the list, whatever is filled,
\* cancelled or placed between two of its cancellations (orders.py:231-243).
SweepMissesNone ==
  [][sweep # {} =>
       \A i \in listed \ sweep' :
         byClient'[orders'[i].client] = i => orders'[i].status \notin Active]_<<vars, apiVars>>
=============================================================================
