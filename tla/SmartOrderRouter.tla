--------------------------- MODULE SmartOrderRouter ---------------------------
(***************************************************************************)
(* execution/smart_order_router.py: the table of venue scores, refreshed   *)
(* under the router's lock when it is older than 30 s, the routes chosen   *)
(* from it, and the execution of a decision venue by venue without the     *)
(* lock.  Every snapshot and every order is awaited, so each is an action; *)
(* what becomes of one order at its venue is VenueExecutor's part.         *)
(*                                                                         *)
(* What a snapshot answers is any of Quotes: the liquidity of ten levels   *)
(* and the weighted score made of it.  A snapshot that raises is quoted    *)
(* NoQuote.                                                                *)
(***************************************************************************)
EXTENDS Integers, FiniteSets, SequencesExt

CONSTANTS
  Venues,        \* the venues with an executor
  Callers,       \* tasks that route and execute orders, one at a time each
  Quotes,        \* records [liquidity, score] a snapshot may give
  Threshold,     \* min_score_threshold
  MaxVenues,     \* max_venues
  Quantities,    \* quantities asked for
  Interval,      \* score_refresh_interval_sec, in ticks of the model
  MaxRequests    \* bound: orders of one caller

NoQuote == [liquidity |-> 0, score |-> 0]

ASSUME VenuesAssumption == IsFiniteSet(Venues) /\ IsFiniteSet(Callers)
ASSUME QuotesAssumption == \A q \in Quotes : q.liquidity \in Nat /\ q.score \in Nat \ {0}
ASSUME LimitsAssumption ==
  /\ Threshold \in Nat \ {0} /\ MaxVenues \in Nat \ {0} /\ Interval \in Nat \ {0}
  /\ Quantities \subseteq Nat \ {0} /\ MaxRequests \in Nat

VARIABLES
  table,        \* venue_scores: empty until the first refresh
  tableAge,     \* time since _last_score_refresh, saturating at Interval
  waiting,      \* the tasks at _lock in their order, the first of them inside
  call,         \* what each caller's route_order or execute_routed_order has reached
  fetchAge,     \* history: age of each score of the table, saturating past Interval
  requests      \* orders each caller asked for

routerVars == <<table, tableAge, waiting, call, fetchAge, requests>>

\* A call: where it is, what it asks for, the table it is filling and the time
\* since it read the clock, its routes, and how many of them it has priced or
\* placed.
Idle == [pc |-> "idle", quantity |-> 0, filling |-> <<>>, age |-> 0,
         routes |-> <<>>, reached |-> 0]

At(c, pc) == call[c].pc = pc

RouterInit ==
  /\ table = <<>> /\ tableAge = Interval /\ fetchAge = <<>>
  /\ waiting = <<>>
  /\ call = [c \in Callers |-> Idle]
  /\ requests = [c \in Callers |-> 0]

----------------------------------------------------------------------------
(* The routes. *)

\* route_order's filter, and its sort by score: venues of equal score keep the
\* order of the table, which is any.
Suitable(t, quantity) ==
  {v \in DOMAIN t : t[v].liquidity >= quantity /\ t[v].score >= Threshold}

Rankings(t, vs) ==
  {r \in SetToAllKPermutations(vs) :
     Len(r) = Cardinality(vs)
     /\ \A i, j \in 1..Len(r) : i < j => t[r[i]].score >= t[r[j]].score}

Routed(routes) == FoldLeft(LAMBDA s, r : s + r.quantity, 0, routes)

\* What a venue is sent of its liquidity at most.
Share(quote) == (quote.liquidity * 4) \div 5

\* The routes over the best venues, each at most four fifths of what its venue
\* has; what is left over after them is not routed.
Routes(t, ranking, quantity) ==
  FoldLeft(LAMBDA routes, v :
             IF Routed(routes) >= quantity THEN routes
             ELSE Append(routes, [venue |-> v, quantity |->
                    Min({quantity - Routed(routes), Share(t[v])})]),
           <<>>, SubSeq(ranking, 1, Min({MaxVenues, Len(ranking)})))

----------------------------------------------------------------------------
(* route_order. *)

RouteOrder(c, quantity) ==
  /\ At(c, "idle") /\ requests[c] < MaxRequests
  /\ requests' = [requests EXCEPT ![c] = @ + 1]
  /\ call' = [call EXCEPT ![c] = [Idle EXCEPT !.pc = "route", !.quantity = quantity]]
  /\ waiting' = Append(waiting, c)
  /\ UNCHANGED <<table, tableAge, fetchAge>>

Inside(c) == waiting # <<>> /\ Head(waiting) = c

\* The decision taken from a table, in the step that has it: the prices of its
\* routes are asked for, or there is no suitable venue and the lock is released.
Select(c, t) ==
  IF Suitable(t, call[c].quantity) = {}
  THEN /\ call' = [call EXCEPT ![c] = Idle]
       /\ waiting' = Tail(waiting)
  ELSE /\ \E r \in Rankings(t, Suitable(t, call[c].quantity)) :
            call' = [call EXCEPT ![c] = [@ EXCEPT !.pc = "price", !.filling = <<>>,
                       !.age = 0, !.routes = Routes(t, r, call[c].quantity)]]
       /\ UNCHANGED waiting

\* The table is young enough.
Reuse(c) ==
  /\ At(c, "route") /\ Inside(c)
  /\ table # <<>> /\ tableAge < Interval
  /\ Select(c, table)
  /\ UNCHANGED <<table, tableAge, fetchAge, requests>>

\* The clock is read, and the first snapshot awaited.
Refresh(c) ==
  /\ At(c, "route") /\ Inside(c)
  /\ table = <<>> \/ tableAge = Interval
  /\ call' = [call EXCEPT ![c].pc = "refresh"]
  /\ UNCHANGED <<table, tableAge, waiting, fetchAge, requests>>

With(f, v, x) == [u \in DOMAIN f \cup {v} |-> IF u = v THEN x ELSE f[u]]

\* A snapshot answers or raises, and others are still to come.
Fetch(c, v, q) ==
  /\ At(c, "refresh") /\ v \notin DOMAIN call[c].filling
  /\ Cardinality(Venues \ DOMAIN call[c].filling) > 1
  /\ call' = [call EXCEPT ![c].filling = With(@, v, [quote |-> q, age |-> 0])]
  /\ UNCHANGED <<table, tableAge, waiting, fetchAge, requests>>

\* Mutant of Swapped: the time of the refresh is read when it is over.
SwappedNow(c) == 0

\* The time since the refresh began becomes the age of the table.
Swapped(c) == call[c].age

\* The last snapshot: the table is replaced as a whole and the routes are chosen.
FetchLast(c, v, q) ==
  /\ At(c, "refresh") /\ Venues \ DOMAIN call[c].filling = {v}
  /\ LET filled == With(call[c].filling, v, [quote |-> q, age |-> 0])
         t      == [u \in Venues |-> filled[u].quote]
     IN /\ table' = t
        /\ fetchAge' = [u \in Venues |-> filled[u].age]
        /\ tableAge' = Swapped(c)
        /\ Select(c, t)
  /\ UNCHANGED requests

\* The expected price of a route, 0.0 when the snapshot raises; after the last
\* one the decision is returned, or none when nothing could be routed.
Price(c) ==
  /\ At(c, "price")
  /\ IF call[c].reached + 1 < Len(call[c].routes)
     THEN call' = [call EXCEPT ![c].reached = @ + 1] /\ UNCHANGED waiting
     ELSE /\ waiting' = Tail(waiting)
          /\ call' = [call EXCEPT ![c] = IF Routed(@.routes) = 0 THEN Idle
                        ELSE [@ EXCEPT !.pc = "place", !.reached = 0]]
  /\ UNCHANGED <<table, tableAge, fetchAge, requests>>

----------------------------------------------------------------------------
(* execute_routed_order, without the lock. *)

\* Whether the route just placed was the last, whatever came of it.
LastPlaced(c) == call[c].reached + 1 = Len(call[c].routes)

\* place_order of a route: a result is recorded, of success or of error.
PlaceRoute(c) ==
  /\ At(c, "place")
  /\ call' = [call EXCEPT ![c].reached = @ + 1,
                          ![c].pc = IF LastPlaced(c) THEN "executed" ELSE @]
  /\ UNCHANGED <<table, tableAge, waiting, fetchAge, requests>>

\* The caller has its results.
Report(c) ==
  /\ At(c, "executed")
  /\ call' = [call EXCEPT ![c] = Idle]
  /\ UNCHANGED <<table, tableAge, waiting, fetchAge, requests>>

----------------------------------------------------------------------------
Older(age, limit) == IF age < limit THEN age + 1 ELSE age

\* A call whose snapshots are still awaited, a tick later.
AgedCall(x) ==
  [x EXCEPT !.age = Older(x.age, Interval),
            !.filling = [v \in DOMAIN x.filling |->
                           [x.filling[v] EXCEPT !.age = Older(@, Interval)]]]

PassTime ==
  /\ table # <<>> \/ \E c \in Callers : At(c, "refresh")
  /\ tableAge' = Older(tableAge, Interval)
  /\ fetchAge' = [v \in DOMAIN fetchAge |-> Older(fetchAge[v], Interval)]
  /\ call' = [c \in Callers |->
       IF At(c, "refresh") THEN AgedCall(call[c]) ELSE call[c]]
  /\ UNCHANGED <<table, waiting, requests>>

Answers == Quotes \cup {NoQuote}

CallStep(c) ==
  \/ Reuse(c) \/ Refresh(c)
  \/ \E v \in Venues, q \in Answers : Fetch(c, v, q) \/ FetchLast(c, v, q)
  \/ Price(c)
  \/ PlaceRoute(c) \/ Report(c)

RouterNext ==
  \/ \E c \in Callers : CallStep(c) \/ \E quantity \in Quantities : RouteOrder(c, quantity)
  \/ PassTime

RouterSpec == RouterInit /\ [][RouterNext]_routerVars

----------------------------------------------------------------------------
(* Properties. *)

\* A decision is taken from scores younger than the refresh interval, or from
\* scores its own call has just fetched, although the venues are asked one after
\* the other and time passes while they answer.
ScoresAreFresh ==
  [][\A c \in Callers : Reuse(c) => \A v \in DOMAIN fetchAge : fetchAge[v] < Interval]_routerVars
=============================================================================
