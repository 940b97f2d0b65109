--------------------------- MODULE MCOrderManager ---------------------------
(* Small instances of the order manager and its endpoints for TLC. *)
EXTENDS OrdersApi, TLC

Symmetry == Permutations(Clients)

\* A purchase and a sale on one instrument under two client ids.
TwoOrders ==
  {<<[client |-> c, instrument |-> i, side |-> "buy"],
     [client |-> d, instrument |-> i, side |-> "sell"]>> : <<c, d>> \in {p \in Clients \X Clients : p[1] # p[2]}, i \in Instruments}
=============================================================================
