--------------------------- MODULE VenueExecutor ---------------------------
(***************************************************************************)
(* place_order of execution/binance_executor.py (bybit_executor.py and     *)
(* okx_executor.py have the same one): the retries of core/retry.py around *)
(* an attempt that asks the breaker, records the idempotency key and sends *)
(* the order.  A call to the venue may be refused, and may be taken and    *)
(* its answer lost, which looks the same to the executor.  The executor is *)
(* a live one: with paper_trading an attempt that got past the key is      *)
(* answered as filled there and then, and nothing is sent.                 *)
(*                                                                         *)
(* Of the breaker the executor uses the state and record_success and       *)
(* record_failure, never call, so it is never half open: what the instance *)
(* keeps for that is constant here.                                        *)
(***************************************************************************)
EXTENDS Idempotency

CONSTANTS
  Clients,       \* the tasks that place orders, one at a time each
  Keys,
  NoKey,         \* idempotency_key=None
  MaxAttempts,   \* RetryPolicy.max_attempts
  Threshold,     \* failure_threshold
  MaxRequests    \* bound: requests of each client

ASSUME ClientsAssumption == IsFiniteSet(Clients) /\ IsFiniteSet(Keys) /\ NoKey \notin Keys
ASSUME RetryAssumption == MaxAttempts \in Nat \ {0} /\ Threshold \in Nat \ {0}
ASSUME RequestsAssumption == MaxRequests \in [Clients -> Nat]

VARIABLES
  state, failures,   \* circuit_breaker
  keyAge,            \* idempotency.records
  call,              \* where the place_order of each client is
  key,               \* the key each gave to the last one
  answer,            \* what the last one was told
  requests,          \* orders each client asked for so far
  bought,            \* history: orders the venue took from each client
  underKey           \* history: orders the venue took with each key since its last
                     \* record expired

Breaker == INSTANCE CircuitBreaker
  WITH Callers <- {}, Timeout <- 1, Probes <- 1, MaxClosing <- 0,
       successes <- 0, sinceFailure <- 0, closing <- 0, caller <- <<>>, up <- TRUE

breaker == <<state, failures>>
ghosts == <<bought, underKey>>
client == <<call, key, answer, requests>>
executor == <<breaker, keyAge, client, ghosts>>

Idle == [pc |-> "idle", attempt |-> 1]
At(c, pc) == call[c].pc = pc

\* The client goes on at pc, in the attempt it is in.
Goto(c, pc) == call' = [call EXCEPT ![c].pc = pc]

ExecutorInit ==
  /\ state = "CLOSED" /\ failures = 0
  /\ keyAge = NoRecords(Keys)
  /\ call = [c \in Clients |-> Idle]
  /\ key = [c \in Clients |-> NoKey]
  /\ answer = [c \in Clients |-> "none"]
  /\ requests = [c \in Clients |-> 0]
  /\ bought = [c \in Clients |-> 0] /\ underKey = [k \in Keys |-> 0]

----------------------------------------------------------------------------
(* place_order under with_retry. *)

PlaceOrder(c, k) ==
  /\ At(c, "idle") /\ requests[c] < MaxRequests[c]
  /\ requests' = [requests EXCEPT ![c] = @ + 1]
  /\ Goto(c, "attempt")
  /\ key' = [key EXCEPT ![c] = k]
  /\ answer' = [answer EXCEPT ![c] = "none"]
  /\ UNCHANGED <<breaker, keyAge, ghosts>>

\* The call returns what it is told.
Answered(c, what) ==
  /\ call' = [call EXCEPT ![c] = Idle]
  /\ answer' = [answer EXCEPT ![c] = what]

\* The attempt raises: the decorator retries whatever it is, then gives up.
Raised(c) ==
  IF call[c].attempt < MaxAttempts
  THEN Goto(c, "backoff") /\ UNCHANGED answer
  ELSE Answered(c, "failed")

Duplicate(c) == key[c] # NoKey /\ keyAge[key[c]] < Ttl

AttemptRejected(c) ==
  /\ At(c, "attempt") /\ state = "OPEN"
  /\ Raised(c)
  /\ UNCHANGED <<breaker, keyAge, key, requests, ghosts>>

AttemptDuplicate(c) ==
  /\ At(c, "attempt") /\ state # "OPEN"
  /\ Duplicate(c)
  /\ Answered(c, "duplicate")
  /\ UNCHANGED <<breaker, keyAge, key, requests, ghosts>>

\* Mutant of RecordsKey: the key is left to be recorded with the result.
RecordsKeyLate(c) == UNCHANGED keyAge

\* check_and_set of a key without a live record.
RecordsKey(c) ==
  IF key[c] = NoKey THEN UNCHANGED keyAge ELSE keyAge' \in Stored(keyAge, key[c])

AttemptSends(c) ==
  /\ At(c, "attempt") /\ state # "OPEN" /\ ~Duplicate(c)
  /\ RecordsKey(c)
  /\ Goto(c, "sent")
  /\ UNCHANGED <<breaker, key, answer, requests, ghosts>>

VenueTakes(c) ==
  /\ At(c, "sent")
  /\ Goto(c, "taken")
  /\ bought' = [bought EXCEPT ![c] = @ + 1]
  /\ underKey' = IF key[c] = NoKey THEN underKey
                 ELSE [underKey EXCEPT ![key[c]] = @ + 1]
  /\ UNCHANGED <<breaker, keyAge, key, answer, requests>>

CallReturns(c) ==
  /\ At(c, "taken")
  /\ Breaker!RecordSuccess
  /\ Answered(c, "placed")
  /\ UNCHANGED <<keyAge, key, requests, ghosts>>

\* The venue refuses the order, or its answer does not arrive.
CallRaises(c) ==
  /\ At(c, "sent") \/ At(c, "taken")
  /\ Breaker!RecordFailure
  /\ Raised(c)
  /\ UNCHANGED <<keyAge, key, requests, ghosts>>

Backoff(c) ==
  /\ At(c, "backoff")
  /\ call' = [call EXCEPT ![c] = [pc |-> "attempt", attempt |-> @.attempt + 1]]
  /\ UNCHANGED <<breaker, keyAge, key, answer, requests, ghosts>>

----------------------------------------------------------------------------
\* get_orderbook_snapshot: it records its failures, and never a success.
Snapshot == state # "OPEN" /\ UNCHANGED breaker
SnapshotRaises == state # "OPEN" /\ Breaker!RecordFailure

SnapshotFails ==
  /\ SnapshotRaises
  /\ UNCHANGED <<keyAge, client, ghosts>>

\* A good part of the keys' time to live, longer than any call with its retries.
KeysAge ==
  /\ \A c \in Clients : At(c, "idle")
  /\ keyAge' = Elapsed(keyAge)
  /\ keyAge' # keyAge
  /\ underKey' = [k \in Keys |-> IF keyAge'[k] = Ttl THEN 0 ELSE underKey[k]]
  /\ UNCHANGED <<breaker, client, bought>>

CallStep(c) ==
  \/ AttemptRejected(c) \/ AttemptDuplicate(c) \/ AttemptSends(c)
  \/ VenueTakes(c) \/ CallReturns(c) \/ CallRaises(c) \/ Backoff(c)

----------------------------------------------------------------------------
(* Properties. *)

\* The shape of the executor's state; the breaker is never half open.
ExecutorTypeOK ==
  /\ state \in {"CLOSED", "OPEN"} /\ failures \in 0..Threshold
  /\ keyAge \in [Keys -> 0..Ttl]
  /\ call \in [Clients -> [pc : {"idle", "attempt", "sent", "taken", "backoff"},
                           attempt : 1..MaxAttempts]]
  /\ key \in [Clients -> Keys \cup {NoKey}]
  /\ answer \in [Clients -> {"none", "placed", "duplicate", "failed"}]
  /\ requests \in [Clients -> Nat] /\ \A c \in Clients : requests[c] <= MaxRequests[c]
  /\ bought \in [Clients -> Nat]
  /\ underKey \in [Keys -> Nat]

\* In the life of a key the venue takes one order with it, although answers are
\* lost, attempts are repeated and two clients use the key at once.
KeyedOnce == \A k \in Keys : underKey[k] <= 1
=============================================================================
