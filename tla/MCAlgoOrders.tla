---------------------------- MODULE MCAlgoOrders ----------------------------
(***************************************************************************)
(* Three scenes of a venue executor for TLC, one to a behaviour: an        *)
(* algorithmic order of two slices with a client that uses its keys or     *)
(* none; bybit's stream with a client that places orders through the same  *)
(* breaker; and the account's positions and commands.                      *)
(***************************************************************************)
EXTENDS AlgoOrders, VenueAccount

CONSTANTS twap, other, k1, k2

VARIABLE scene

RequestsOf == [c \in Clients |-> IF c = twap THEN 2 ELSE 1]
TwapKeys == [a \in {twap} |-> <<k1, k2>>]
Thresholds == {-2, 1, 2}

SceneInit ==
  /\ scene \in {"algos", "stream", "account"}
  /\ Init /\ AccountInit
  /\ scene # "account" => venue = "bybit" /\ ~paper

Algorithms == scene = "algos" /\ Next /\ UNCHANGED <<scene, accountVars>>

Stream ==
  /\ scene = "stream"
  /\ \/ StreamNext
     \/ (PlaceOrder(other, NoKey) \/ CallStep(other)) /\ UNCHANGED accountVars
  /\ UNCHANGED <<scene, algos>>

Account == scene = "account" /\ AccountNext /\ UNCHANGED <<scene, vars>>

SceneNext == Algorithms \/ Stream \/ Account

SceneVars == <<scene, vars, accountVars>>
InAlgos == scene = "algos" /\ UNCHANGED <<scene, accountVars>>

(* A call to the venue returns or times out, a sleep ends, and a task that *)
(* can go on is run.                                                        *)
SceneFairness ==
  /\ \A c \in Clients : WF_SceneVars(InAlgos /\ CallStep(c) /\ UNCHANGED algos)
  /\ \A a \in Algos :
       WF_SceneVars(InAlgos /\ AlgoStep(a)) /\ WF_SceneVars(InAlgos /\ AlgoCancelled(a))
  /\ \A l \in Loops :
       WF_SceneVars(scene = "stream" /\ LoopSteps(l) /\ UNCHANGED <<scene, algos>>)

SceneSpec == SceneInit /\ [][SceneNext]_SceneVars /\ SceneFairness
=============================================================================
