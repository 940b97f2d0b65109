--------------------------- MODULE CircuitBreaker ---------------------------
(***************************************************************************)
(* core/circuit_breaker.py: the breaker of a venue, and tasks that make    *)
(* their calls through it.  A call is admitted, runs for as long as the    *)
(* venue takes, and records its result whatever the state is by then.      *)
(* Closing is not done where the deciding success is recorded but by a     *)
(* task scheduled there.                                                   *)
(*                                                                         *)
(* Counters saturate at the thresholds they are compared with, and time is *)
(* the age of the last failure.                                            *)
(***************************************************************************)
EXTENDS Integers

CONSTANTS
  Callers,      \* tasks that use the breaker
  Threshold,    \* failure_threshold
  Timeout,      \* recovery_timeout, in ticks of the model
  Probes,       \* half_open_success_threshold
  MaxClosing    \* bound: closing tasks scheduled between two passes of the loop

ASSUME BreakerAssumption ==
  /\ Threshold \in Nat \ {0} /\ Timeout \in Nat \ {0} /\ Probes \in Nat \ {0}
  /\ MaxClosing \in Nat

VARIABLES
  state,          \* state
  failures,       \* failure_count
  successes,      \* success_count
  sinceFailure,   \* age of last_failure_time
  closing,        \* _transition_to_closed tasks scheduled and not yet run
  caller,         \* where each task is: idle, or in the call it was admitted to
  up              \* whether the venue answers: a call made while it is up succeeds

breaker == <<state, failures, successes, sinceFailure, closing>>
vars == <<state, failures, successes, sinceFailure, closing, caller, up>>

Counted(n, limit) == IF n < limit THEN n + 1 ELSE limit

----------------------------------------------------------------------------
BreakerInit ==
  /\ state = "CLOSED"
  /\ failures = 0 /\ successes = 0 /\ closing = 0
  /\ sinceFailure = Timeout

Init ==
  /\ BreakerInit
  /\ caller = [c \in Callers |-> "idle"]
  /\ up \in BOOLEAN

\* Mutant of Admits: an open breaker admits nothing.
AdmitsWhenNotOpen == state # "OPEN" /\ UNCHANGED breaker

\* Mutant of Admits: an open breaker tests the venue at any time.
AdmitsEarly ==
  \/ state # "OPEN" /\ UNCHANGED breaker
  \/ /\ state = "OPEN"
     /\ state' = "HALF_OPEN" /\ successes' = 0
     /\ UNCHANGED <<failures, sinceFailure, closing>>

\* The head of call.  Only _transition_to_half_open leaves OPEN, and it is
\* awaited without yielding, the lock being free.
Admits ==
  \/ state # "OPEN" /\ UNCHANGED breaker
  \/ /\ state = "OPEN" /\ sinceFailure = Timeout
     /\ state' = "HALF_OPEN" /\ successes' = 0
     /\ UNCHANGED <<failures, sinceFailure, closing>>

\* record_success.
RecordSuccess ==
  /\ successes' = IF state = "HALF_OPEN" THEN Counted(successes, Probes) ELSE successes
  /\ closing' = IF state = "HALF_OPEN" /\ successes + 1 >= Probes THEN closing + 1 ELSE closing
  /\ failures' = IF state = "CLOSED" THEN 0 ELSE failures
  /\ UNCHANGED <<state, sinceFailure>>

\* record_failure: a result that comes in while the breaker is open keeps it open
\* for another whole timeout.
RecordFailure ==
  /\ failures' = Counted(failures, Threshold)
  /\ sinceFailure' = 0
  /\ IF state = "HALF_OPEN" \/ failures' = Threshold
     THEN state' = "OPEN" /\ successes' = 0
     ELSE UNCHANGED <<state, successes>>
  /\ UNCHANGED closing

\* A scheduled _transition_to_closed runs.
Close ==
  /\ closing > 0
  /\ closing' = closing - 1
  /\ IF state = "HALF_OPEN"
     THEN state' = "CLOSED" /\ failures' = 0
     ELSE UNCHANGED <<state, failures>>
  /\ UNCHANGED <<successes, sinceFailure>>

\* reset.  A close already scheduled stays scheduled.
Reset ==
  /\ state' = "CLOSED"
  /\ failures' = 0 /\ successes' = 0
  /\ sinceFailure' = Timeout
  /\ UNCHANGED closing

\* A unit of time, many passes of the event loop: whatever is scheduled has run.
Tick ==
  /\ closing = 0
  /\ sinceFailure' = Counted(sinceFailure, Timeout)
  /\ UNCHANGED <<state, failures, successes, closing>>

----------------------------------------------------------------------------
(* The tasks. *)
Call(c) ==
  /\ caller[c] = "idle"
  /\ Admits
  /\ caller' = [caller EXCEPT ![c] = IF up THEN "answered" ELSE "failing"]
  /\ UNCHANGED up

Succeed(c) ==
  /\ caller[c] = "answered" /\ closing < MaxClosing
  /\ RecordSuccess
  /\ caller' = [caller EXCEPT ![c] = "idle"]
  /\ UNCHANGED up

Fail(c) ==
  /\ caller[c] = "failing"
  /\ RecordFailure
  /\ caller' = [caller EXCEPT ![c] = "idle"]
  /\ UNCHANGED up

\* The task is cancelled in its call, or the call raises what the breaker does not
\* expect: nothing is recorded.
Abandon(c) ==
  /\ caller[c] # "idle"
  /\ caller' = [caller EXCEPT ![c] = "idle"]
  /\ UNCHANGED <<breaker, up>>

VenueChanges == up' = ~up /\ UNCHANGED <<breaker, caller>>

BreakerStep == Close \/ Reset \/ Tick

Next ==
  \/ \E c \in Callers : Call(c) \/ Succeed(c) \/ Fail(c) \/ Abandon(c)
  \/ BreakerStep /\ UNCHANGED <<caller, up>>
  \/ VenueChanges

Spec == Init /\ [][Next]_vars

\* The loop runs what is scheduled, time passes, somebody keeps calling, and a
\* task whose calls go on being answered is not always cancelled in them.
FairSpec ==
  /\ Spec
  /\ WF_vars(Close /\ UNCHANGED <<caller, up>>)
  /\ WF_vars(Tick /\ UNCHANGED <<caller, up>>)
  /\ \A c \in Callers : WF_vars(Call(c)) /\ SF_vars(Succeed(c)) /\ WF_vars(Fail(c))

----------------------------------------------------------------------------
(* Properties. *)

\* The shape of the breaker: counters within what they are compared with.
TypeOK ==
  /\ state \in {"CLOSED", "OPEN", "HALF_OPEN"}
  /\ failures \in 0..Threshold /\ successes \in 0..Probes
  /\ sinceFailure \in 0..Timeout
  /\ closing \in 0..MaxClosing
  /\ caller \in [Callers -> {"idle", "answered", "failing"}]
  /\ up \in BOOLEAN

\* The count and the state tell the same story through late results, cancelled
\* calls and resets: closed is exactly fewer failures than the threshold.
StateFollowsCount == (state = "CLOSED") <=> (failures < Threshold)

\* The breaker closes only out of a test that had its successes, although closing
\* is scheduled and the test may have failed, and another begun, by the time the
\* task runs.
ClosesOnProbes ==
  [][(closing' < closing /\ state # "CLOSED" /\ state' = "CLOSED")
       => state = "HALF_OPEN" /\ successes = Probes]_vars

\* What makes ClosesOnProbes hold: a close still scheduled finds the breaker
\* reopened too lately to be tested again, or the test that earned it still on.
Earned ==
  closing > 0 =>
    /\ state = "OPEN" => sinceFailure < Timeout
    /\ state = "HALF_OPEN" => successes = Probes

\* "Automatic recovery with half-open testing": once the venue answers for good
\* the breaker closes for good.
Recovers == <>[]up => <>[](state = "CLOSED")
=============================================================================
