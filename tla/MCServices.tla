------------------------------ MODULE MCServices ------------------------------
(***************************************************************************)
(* The services around the book, one scene each: they share no state, so   *)
(* a behaviour picks the one it is about and leaves the others where they  *)
(* start.  Two scenes share the dispatcher: alone under run_forever and    *)
(* under main.                                                             *)
(***************************************************************************)
EXTENDS BusFeeds, WebsocketManager, HealthChecks, Lifecycle, NewsFeed

VARIABLE scene

LifeVars == <<mainVars, dispVars>>

\* For the configuration.
ExecutorList == <<"binance", "kraken">>

ServicesInit ==
  /\ scene \in {"push", "health", "forever", "main", "news", "bus"}
  /\ WsInit /\ HealthInit /\ LifeInit
  /\ NewsInit /\ BusInit
  /\ scene # "bus" => ~measuring

Push == scene = "push" /\ WsNext
         /\ UNCHANGED <<scene, healthVars, LifeVars, newsVars, busVars>>
Health == scene = "health" /\ HealthNext
         /\ UNCHANGED <<scene, wsVars, LifeVars, newsVars, busVars>>
Forever == scene = "forever" /\ DispNext
         /\ UNCHANGED <<scene, wsVars, healthVars, mainVars, newsVars, busVars>>
Main == scene = "main" /\ LifeNext
         /\ UNCHANGED <<scene, wsVars, healthVars, newsVars, busVars>>
News == scene = "news" /\ NewsNext
         /\ UNCHANGED <<scene, wsVars, healthVars, LifeVars, busVars>>
Alerts == scene = "bus" /\ BusNext
         /\ UNCHANGED <<scene, wsVars, healthVars, LifeVars, newsVars>>

ServicesNext ==
  Push \/ Health \/ Forever \/ Main \/ News \/ Alerts

(* The event loop goes on with what is ready; a news source that is asked   *)
(* for ever answers again and again.                                        *)
Fairness ==
  /\ WF_dispVars(scene = "forever" /\ DispSteps)
  /\ WF_LifeVars(scene = "main" /\ MainSteps)
  /\ WF_newsVars(scene = "news" /\ NewsSteps) /\ SF_newsVars(scene = "news" /\ PageRead)
  /\ WF_busVars(scene = "bus" /\ BotSteps)

Spec ==
  /\ ServicesInit
  /\ [][ServicesNext]_<<scene, wsVars, healthVars, LifeVars, newsVars, busVars>>
  /\ Fairness
=============================================================================
