----------------------------- MODULE AlgoOrders -----------------------------
(***************************************************************************)
(* execute_twap, execute_vwap and cancel_algo_order of                     *)
(* execution/binance_executor.py, over the place_order of VenueExecutor.   *)
(* An algorithm is a client of its own; it places its slices one after     *)
(* another, each after a snapshot it awaits after looking whether it was   *)
(* cancelled.  A TWAP has as many slices as lots; a VWAP goes on for its   *)
(* duration, or until what it counts as filled is the whole quantity.      *)
(***************************************************************************)
EXTENDS VenueExecutor

CONSTANTS
  Algos,       \* the clients that are algorithmic orders
  Slices,      \* rounds of an order, a lot each: slices, or duration by check_interval
  VwapLots,    \* lots a VWAP is to fill
  SliceKey     \* the key of each slice: the order's key and its number, or NoKey

ASSUME AlgosAssumption ==
  /\ Algos \subseteq Clients /\ Slices \in Nat \ {0} /\ VwapLots \in Nat \ {0}
  /\ \A a \in Algos : Slices <= MaxRequests[a]
  /\ SliceKey \in [Algos -> [1..Slices -> Keys \cup {NoKey}]]

VARIABLES
  algo,        \* algo_orders, and where the loop of each is
  cancelling,  \* the cancel_algo_order that awaits the cancellation of children
  late         \* history: slices begun after the order was cancelled

vars == <<executor, algo, cancelling, late>>
algos == <<algo, cancelling, late>>

Kinds == {"TWAP", "VWAP"}
Ended == {"COMPLETED", "PARTIALLY_FILLED"}
Status == {"NEW", "RUNNING", "CANCELLING", "CANCELLED"} \cup Ended

Init ==
  /\ ExecutorInit
  /\ algo = [a \in Algos |-> [status |-> "NEW", kind |-> "TWAP", pc |-> "head", slice |-> 1, filled |-> 0]]
  /\ cancelling = {}
  /\ late = [a \in Algos |-> 0]

AlgoAt(a, pc) == algo[a].pc = pc

Start(a, kind) ==
  /\ algo[a].status = "NEW"
  /\ algo' = [algo EXCEPT ![a].status = "RUNNING", ![a].kind = kind]
  /\ UNCHANGED <<executor, cancelling, late>>

StartTwap(a) == Start(a, "TWAP")
StartVwap(a) == Start(a, "VWAP")

Total(a) == IF algo[a].kind = "TWAP" THEN Slices ELSE VwapLots

\* Mutant of Looks: whether it was cancelled is looked at once, at the start.
LooksOnce(a) ==
  /\ AlgoAt(a, "head") /\ algo[a].status # "NEW"
  /\ algo[a].slice <= Slices /\ (algo[a].slice = 1 => algo[a].status = "RUNNING")
  /\ algo[a].kind = "VWAP" => algo[a].filled < VwapLots

\* The head of the loop.
Looks(a) ==
  /\ AlgoAt(a, "head")
  /\ algo[a].slice <= Slices /\ algo[a].status = "RUNNING"
  /\ algo[a].kind = "VWAP" => algo[a].filled < VwapLots

\* It awaits the snapshot ...
AsksPrice(a) ==
  /\ Looks(a)
  /\ algo' = [algo EXCEPT ![a].pc = "price"]
  /\ UNCHANGED <<executor, cancelling, late>>

\* The slice is done with, filled or not.
SliceDone(a, filled) ==
  [algo EXCEPT ![a].pc = "head", ![a].slice = @ + 1, ![a].filled = @ + filled]

\* Mutant of NoSlice: the same slice again.
NoSliceAgain(a) ==
  /\ AlgoAt(a, "price")
  /\ \/ Snapshot
     \/ state = "OPEN" /\ UNCHANGED breaker
     \/ SnapshotRaises
  /\ algo' = [algo EXCEPT ![a].pc = "head"]
  /\ UNCHANGED <<keyAge, client, ghosts, cancelling, late>>

\* ... whose price is over a TWAP's limit, whose volume gives a VWAP nothing to
\* do, or the snapshot raises.
NoSlice(a) ==
  /\ AlgoAt(a, "price")
  /\ \/ Snapshot
     \/ state = "OPEN" /\ UNCHANGED breaker
     \/ SnapshotRaises
  /\ algo' = SliceDone(a, 0)
  /\ UNCHANGED <<keyAge, client, ghosts, cancelling, late>>

\* ... or the slice is placed.
PlacesSlice(a) ==
  /\ AlgoAt(a, "price") /\ state # "OPEN"
  /\ PlaceOrder(a, SliceKey[a][algo[a].slice])
  /\ algo' = [algo EXCEPT ![a].pc = "child"]
  /\ late' = [late EXCEPT ![a] = IF algo[a].status = "CANCELLED" THEN @ + 1 ELSE @]
  /\ UNCHANGED cancelling

\* Mutant of SliceAnswered: what was not placed counts as filled.
SliceAnsweredFilled(a) ==
  /\ AlgoAt(a, "child") /\ At(a, "idle")
  /\ algo' = SliceDone(a, 1)
  /\ UNCHANGED <<executor, cancelling, late>>

\* The child is answered.  Of a placed one the answer says what was filled; a
\* duplicate has no id, which raises like a failure.
SliceAnswered(a) ==
  /\ AlgoAt(a, "child") /\ At(a, "idle")
  /\ \E filled \in {0, 1} :
       /\ filled = 1 => answer[a] = "placed"
       /\ algo' = SliceDone(a, filled)
  /\ UNCHANGED <<executor, cancelling, late>>

\* The end of the loop: the status is set whatever it was.
Ends(a) ==
  /\ AlgoAt(a, "head")
  /\ algo[a].status # "NEW" /\ ~Looks(a)
  /\ algo' = [algo EXCEPT ![a].pc = "done",
                          ![a].status = IF algo[a].filled >= Total(a) THEN "COMPLETED"
                                        ELSE "PARTIALLY_FILLED"]
  /\ UNCHANGED <<executor, cancelling, late>>

CancelAlgo(a) ==
  /\ algo[a].status \notin {"NEW", "CANCELLED"} /\ a \notin cancelling
  /\ cancelling' = cancelling \cup {a}
  /\ algo' = [algo EXCEPT ![a].status = "CANCELLING"]
  /\ UNCHANGED <<executor, late>>

\* The children have been cancelled, those there were.
AlgoCancelled(a) ==
  /\ a \in cancelling
  /\ cancelling' = cancelling \ {a}
  /\ algo' = [algo EXCEPT ![a].status = "CANCELLED"]
  /\ UNCHANGED <<executor, late>>

AlgoStep(a) ==
  \/ AsksPrice(a) \/ NoSlice(a) \/ PlacesSlice(a) \/ SliceAnswered(a) \/ Ends(a)

Next ==
  \/ \E c \in Clients : CallStep(c) /\ UNCHANGED algos
  \/ \E c \in Clients \ Algos, k \in Keys \cup {NoKey} : PlaceOrder(c, k) /\ UNCHANGED algos
  \/ (SnapshotFails \/ KeysAge) /\ UNCHANGED algos
  \/ \E a \in Algos : \/ StartTwap(a) \/ StartVwap(a) \/ AlgoStep(a)
                      \/ CancelAlgo(a) \/ AlgoCancelled(a)

Spec == Init /\ [][Next]_vars

----------------------------------------------------------------------------
(* Properties. *)

\* The shape of the executor's and the algorithms' state.
TypeOK ==
  /\ ExecutorTypeOK
  /\ algo \in [Algos -> [status : Status, kind : Kinds, pc : {"head", "price", "child", "done"},
                         slice : 1..Slices + 1, filled : 0..Slices]]
  /\ cancelling \subseteq Algos
  /\ late \in [Algos -> Nat]

\* What an algorithmic order counts as filled the venue took, whatever was lost, retried
\* or answered for another order with the same keys.
FilledWasBought == \A a \in Algos : algo[a].filled <= bought[a]

\* A cancelled order begins one more slice at most: the one whose price it was
\* waiting for.
OneSliceAfterCancel == \A a \in Algos : late[a] <= 1

\* Every order that was started comes to its end.
AlgosEnd == \A a \in Algos : algo[a].status = "RUNNING" ~> AlgoAt(a, "done")
=============================================================================
