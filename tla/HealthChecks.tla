----------------------------- MODULE HealthChecks -----------------------------
(***************************************************************************)
(* HealthChecker: components that are registered, checks of all of them at *)
(* once with a timeout each, and reports that use the last results when    *)
(* they are recent.  Several checks may run at once (the periodic loop and *)
(* the readers of the status), and each writes its results when its last   *)
(* component has answered.                                                 *)
(*                                                                         *)
(* Time is counted in steps of PassTime; a result carries its age, which   *)
(* stops growing at Never, the age of a component not yet checked.         *)
(***************************************************************************)
EXTENDS Integers, FiniteSets, FiniteSetsExt

Statuses == {"HEALTHY", "DEGRADED", "UNHEALTHY", "UNKNOWN"}

CONSTANTS
  Parts,        \* names of components
  Builtin,      \* those register_builtin_checks registers
  Readers,      \* tasks that call get_health_status
  Answers,      \* what a check that answers may say
  CheckTimeout, \* component_timeout
  StaleAfter    \* check_interval * 2

ASSUME HealthAssumption ==
  /\ Builtin \subseteq Parts /\ IsFiniteSet(Parts)
  /\ Answers \subseteq Statuses
  /\ CheckTimeout \in Nat \ {0} /\ StaleAfter \in Nat \ {0} /\ CheckTimeout <= StaleAfter

Never == StaleAfter + CheckTimeout + 1
Loop == "loop"
Callers == Readers \union {Loop}

VARIABLES
  registered,   \* keys of _component_checks
  health,       \* components: [status, age]
  call,         \* caller -> [asked, elapsed, results] of its check_all
  report,       \* caller -> the last report it got: [overall, ages, known]
  looping       \* _running, with _check_task

healthVars == <<registered, health, call, report, looping>>

Unchecked == [status |-> "UNKNOWN", age |-> Never]
Idle == [asked |-> {}, elapsed |-> 0, results |-> << >>]
NoReport == [overall |-> "UNKNOWN", ages |-> << >>, known |-> {}]

HealthInit ==
  /\ registered = Builtin
  /\ health = [n \in Builtin |-> Unchecked]
  /\ call = [c \in Callers |-> Idle]
  /\ report = [c \in Callers |-> NoReport]
  /\ looping = FALSE

-----------------------------------------------------------------------------
(* _determine_overall_status: the worst there is.                           *)
Overall(table) ==
  LET seen == {table[n].status : n \in DOMAIN table}
  IN CASE "UNHEALTHY" \in seen -> "UNHEALTHY"
       [] "DEGRADED" \in seen /\ "UNHEALTHY" \notin seen -> "DEGRADED"
       [] "UNKNOWN" \in seen /\ seen \intersect {"UNHEALTHY", "DEGRADED"} = {} -> "UNKNOWN"
       [] OTHER -> "HEALTHY"

Reported(table, known) ==
  [overall |-> Overall(table), ages |-> [n \in DOMAIN table |-> table[n].age], known |-> known]

(* register_component: a name registered again is unknown again.            *)
Register(n) ==
  /\ registered' = registered \union {n}
  /\ health' = [m \in registered' |-> IF m = n THEN Unchecked ELSE health[m]]
  /\ UNCHANGED <<call, report, looping>>

Starts(c) == call' = [call EXCEPT ![c].asked = registered]

Asking(c) == call[c].asked # {}

\* Mutant of Stale: only when every result is old.
StaleAll(table) == \A n \in DOMAIN table : table[n].age > StaleAfter

(* get_health_status: any result older than two intervals has all of them   *)
(* checked again.                                                           *)
Stale(table) == \E n \in DOMAIN table : table[n].age > StaleAfter

ReadStatus(c) ==
  /\ c \in Readers /\ ~Asking(c) /\ registered # {}
  /\ IF Stale(health)
     THEN Starts(c) /\ UNCHANGED report
     ELSE report' = [report EXCEPT ![c] = Reported(health, registered)] /\ UNCHANGED call
  /\ UNCHANGED <<registered, health, looping>>

(* The periodic loop checks whatever the ages are.                          *)
LoopChecks ==
  /\ looping /\ ~Asking(Loop) /\ registered # {}
  /\ Starts(Loop)
  /\ UNCHANGED <<registered, health, report, looping>>

Unanswered(c) == call[c].asked \ DOMAIN call[c].results

Result(c, n, status) ==
  call' = [call EXCEPT ![c].results =
             [m \in DOMAIN @ \union {n} |->
                IF m = n THEN [status |-> status, age |-> 0] ELSE @[m]]]

(* The builtin checks answer HEALTHY, or DEGRADED without their library, or *)
(* UNHEALTHY when redis's ping fails; a check that raises is UNHEALTHY.     *)
Answered(c, n, status) ==
  /\ n \in Unanswered(c) /\ status \in Answers
  /\ Result(c, n, status)
  /\ UNCHANGED <<registered, health, report, looping>>

TimedOut(c, n) ==
  /\ n \in Unanswered(c) /\ call[c].elapsed = CheckTimeout
  /\ Result(c, n, "UNHEALTHY")
  /\ UNCHANGED <<registered, health, report, looping>>

(* check_all_components has its last answer: every result is written over   *)
(* the table, whatever another call has written there since.                *)
Collect(c) ==
  /\ Asking(c) /\ Unanswered(c) = {}
  /\ health' = [n \in registered |->
                  IF n \in call[c].asked THEN call[c].results[n] ELSE health[n]]
  /\ report' = [report EXCEPT ![c] = Reported(health', call[c].asked)]
  /\ call' = [call EXCEPT ![c] = Idle]
  /\ UNCHANGED <<registered, looping>>

StartLoop ==
  /\ ~looping /\ looping' = TRUE
  /\ UNCHANGED <<registered, health, call, report>>

(* stop_periodic_checks cancels the loop, and the check it is in.           *)
StopLoop ==
  /\ looping /\ looping' = FALSE
  /\ call' = [call EXCEPT ![Loop] = Idle]
  /\ UNCHANGED <<registered, health, report>>

Older(r) == [r EXCEPT !.age = IF @ < Never THEN @ + 1 ELSE @]

(* No check outlives its timeout.  A report is dropped when time goes on.   *)
PassTime ==
  /\ \A c \in Callers : Unanswered(c) # {} => call[c].elapsed < CheckTimeout
  /\ \A c \in Callers : ~(Asking(c) /\ Unanswered(c) = {})
  /\ health' = [n \in registered |-> Older(health[n])]
  /\ call' = [c \in Callers |->
                IF Asking(c)
                THEN [asked |-> call[c].asked, elapsed |-> call[c].elapsed + 1,
                      results |-> [n \in DOMAIN call[c].results |-> Older(call[c].results[n])]]
                ELSE Idle]
  /\ report' = [c \in Callers |-> NoReport]
  /\ UNCHANGED <<registered, looping>>

HealthNext ==
  \/ \E n \in Parts : Register(n)
  \/ \E c \in Callers : ReadStatus(c) \/ Collect(c)
  \/ \E c \in Callers, n \in Parts :
       TimedOut(c, n) \/ \E status \in Answers : Answered(c, n, status)
  \/ LoopChecks \/ StartLoop \/ StopLoop \/ PassTime

HealthSpec == HealthInit /\ [][HealthNext]_healthVars

-----------------------------------------------------------------------------
(* A report never passes off an old result as the present state: whatever   *)
(* checks overlap and overwrite each other, each component known when the   *)
(* report was asked for was checked at most StaleAfter ago                  *)
(* (health_checks.py:213-231).                                              *)
ReportsAreRecent ==
  \A c \in Callers : \A n \in report[c].known : report[c].ages[n] <= StaleAfter
=============================================================================
