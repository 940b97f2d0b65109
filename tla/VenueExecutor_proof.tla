------------------------- MODULE VenueExecutor_proof -------------------------
(***************************************************************************)
(* Proofs about the venue executors and the algorithmic orders over them:  *)
(* their state keeps its shape, a key places one order at the venue, what  *)
(* an algorithm counts as filled was bought, and a cancelled one begins    *)
(* one more slice at most.                                                 *)
(***************************************************************************)
EXTENDS AlgoOrders, FiniteSetTheorems, TLAPS

USE TtlAssumption, MaxRecordsAssumption, ClientsAssumption, RetryAssumption,
    RequestsAssumption, AlgosAssumption

Call == [pc : {"idle", "attempt", "sent", "taken", "backoff"}, attempt : 1..MaxAttempts]
Algo == [status : Status, kind : Kinds, pc : {"head", "price", "child", "done"},
         slice : 1..Slices + 1, filled : 0..Slices]

(* A step of a placement, or an operation on the executor that every kind of
   client shares. *)
ExecutorStep ==
  \/ \E c \in Clients : CallStep(c) \/ \E k \in Keys \cup {NoKey} : PlaceOrder(c, k)
  \/ SnapshotFails \/ KeysAge
  \/ UNCHANGED executor

(* What makes the shape inductive: a call that will be retried has an attempt left. *)
AttemptsLeft ==
  \A c \in Clients : At(c, "backoff") => call[c].attempt < MaxAttempts

(* A failure is counted up to the threshold, where it opens the breaker. *)
LEMMA FailureShape ==
  ASSUME state \in {"CLOSED", "OPEN"}, failures \in 0..Threshold, Breaker!RecordFailure
  PROVE  state' \in {"CLOSED", "OPEN"} /\ failures' \in 0..Threshold
BY DEF Breaker!RecordFailure, Breaker!Counted

LEMMA SuccessShape ==
  ASSUME state \in {"CLOSED", "OPEN"}, failures \in 0..Threshold, Breaker!RecordSuccess
  PROVE  state' \in {"CLOSED", "OPEN"} /\ failures' \in 0..Threshold
BY DEF Breaker!RecordSuccess

(* Whatever is evicted, a store stays a store. *)
LEMMA StoreShape ==
  ASSUME NEW ages \in [Keys -> 0..Ttl], NEW k \in Keys, NEW new \in Stored(ages, k)
  PROVE  new \in [Keys -> 0..Ttl]
BY DEF Stored, Live

(* A call whose attempt raised waits for the next one, or has been answered. *)
LEMMA RaisedShape ==
  ASSUME ExecutorTypeOK, AttemptsLeft, NEW c \in Clients, Raised(c)
  PROVE  /\ call' \in [Clients -> Call]
         /\ \A d \in Clients \ {c} : call'[d] = call[d]
         /\ call'[c].pc \in {"backoff", "idle"}
         /\ call'[c].pc = "backoff" => call'[c].attempt < MaxAttempts
         /\ answer' \in [Clients -> {"none", "placed", "duplicate", "failed"}]
         /\ answer'[c] \in {answer[c], "failed"}
         /\ \A d \in Clients \ {c} : answer'[d] = answer[d]
<1>1. CASE call[c].attempt < MaxAttempts
  <2>1. call' = [call EXCEPT ![c].pc = "backoff"] /\ answer' = answer
    BY <1>1 DEF Raised, Goto
  <2> QED BY <1>1, <2>1 DEF ExecutorTypeOK, Call
<1>2. CASE ~(call[c].attempt < MaxAttempts)
  <2>1. call' = [call EXCEPT ![c] = Idle] /\ answer' = [answer EXCEPT ![c] = "failed"]
    BY <1>2 DEF Raised, Answered
  <2> QED BY <2>1 DEF ExecutorTypeOK, Call, Idle
<1> QED BY <1>1, <1>2

LEMMA ExecutorShape ==
  ASSUME ExecutorTypeOK, AttemptsLeft, ExecutorStep
  PROVE  ExecutorTypeOK' /\ AttemptsLeft'
<1> USE DEF At
<1>1. ASSUME NEW c \in Clients, NEW k \in Keys \cup {NoKey}, PlaceOrder(c, k)
      PROVE  ExecutorTypeOK' /\ AttemptsLeft'
  BY <1>1, SMTT(120) DEF ExecutorTypeOK, AttemptsLeft, PlaceOrder, Goto, breaker, ghosts
<1>2. ASSUME NEW c \in Clients, AttemptRejected(c) PROVE ExecutorTypeOK' /\ AttemptsLeft'
  BY <1>2, RaisedShape, Zenon DEF ExecutorTypeOK, AttemptsLeft, AttemptRejected, Call, breaker, ghosts
<1>3. ASSUME NEW c \in Clients, AttemptDuplicate(c) PROVE ExecutorTypeOK' /\ AttemptsLeft'
  BY <1>3 DEF ExecutorTypeOK, AttemptsLeft, AttemptDuplicate, Answered, Idle, Goto, breaker, ghosts
<1>4. ASSUME NEW c \in Clients, AttemptSends(c) PROVE ExecutorTypeOK' /\ AttemptsLeft'
  <2>1. keyAge' \in [Keys -> 0..Ttl]
    BY <1>4, StoreShape, Zenon DEF ExecutorTypeOK, AttemptSends, RecordsKey
  <2> QED BY <1>4, <2>1, ZenonT(120) DEF ExecutorTypeOK, AttemptsLeft, AttemptSends, Goto, breaker, ghosts
<1>5. ASSUME NEW c \in Clients, VenueTakes(c) PROVE ExecutorTypeOK' /\ AttemptsLeft'
  BY <1>5, SMTT(60) DEF ExecutorTypeOK, AttemptsLeft, VenueTakes, Goto, breaker
<1>6. ASSUME NEW c \in Clients, CallReturns(c) PROVE ExecutorTypeOK' /\ AttemptsLeft'
  BY <1>6, SuccessShape DEF ExecutorTypeOK, AttemptsLeft, CallReturns, Answered, Idle, ghosts
<1>7. ASSUME NEW c \in Clients, CallRaises(c) PROVE ExecutorTypeOK' /\ AttemptsLeft'
  BY <1>7, FailureShape, RaisedShape, Zenon DEF ExecutorTypeOK, AttemptsLeft, CallRaises, Call, ghosts
<1>8. ASSUME NEW c \in Clients, Backoff(c) PROVE ExecutorTypeOK' /\ AttemptsLeft'
  BY <1>8 DEF ExecutorTypeOK, AttemptsLeft, Backoff, breaker, ghosts
<1>9. CASE SnapshotFails
  BY <1>9, FailureShape DEF ExecutorTypeOK, AttemptsLeft, SnapshotFails, SnapshotRaises, client, ghosts
<1>10. CASE KeysAge
  BY <1>10 DEF ExecutorTypeOK, AttemptsLeft, KeysAge, Elapsed, breaker, client
<1>11. CASE UNCHANGED executor
  BY <1>11 DEF ExecutorTypeOK, AttemptsLeft, executor, breaker, client, ghosts
<1> QED
  BY <1>1, <1>2, <1>3, <1>4, <1>5, <1>6, <1>7, <1>8, <1>9, <1>10, <1>11
  DEF ExecutorStep, CallStep

LEMMA ExecutorInitTyped == ExecutorInit => ExecutorTypeOK /\ AttemptsLeft
BY DEF ExecutorInit, ExecutorTypeOK, AttemptsLeft, At, Idle, NoRecords

----------------------------------------------------------------------------
(* What makes KeyedOnce inductive: a call on its way with a key has the key's
   record, alone, and the venue has nothing with that key yet; nor has it with
   a key that has no record. *)
KeyInv ==
  /\ \A k \in Keys : underKey[k] <= 1 /\ (keyAge[k] = Ttl => underKey[k] = 0)
  /\ \A c \in Clients :
       At(c, "sent") /\ key[c] # NoKey =>
         /\ keyAge[key[c]] < Ttl /\ underKey[key[c]] = 0
         /\ \A d \in Clients \ {c} : At(d, "sent") => key[d] # key[c]

(* With room for every key nothing is evicted. *)
LEMMA NothingEvicted ==
  ASSUME Cardinality(Keys) <= MaxRecords,
         NEW ages \in [Keys -> 0..Ttl], NEW k \in Keys, NEW new \in Stored(ages, k)
  PROVE  new = [ages EXCEPT ![k] = 0]
<1> DEFINE with == [ages EXCEPT ![k] = 0]
<1>1. Live(with) \subseteq Keys
  BY DEF Live
<1>2. /\ Cardinality(Live(with)) \in Nat /\ Cardinality(Keys) \in Nat
      /\ Cardinality(Live(with)) <= Cardinality(Keys)
  BY <1>1, FS_Subset, FS_CardinalityType, Zenon
<1>3. Cardinality(Live(with)) <= MaxRecords
  BY <1>2
<1> QED BY <1>3 DEF Stored

LEMMA KeyStep ==
  ASSUME Cardinality(Keys) <= MaxRecords, ExecutorTypeOK, AttemptsLeft, KeyInv, ExecutorStep
  PROVE  KeyInv'
<1> USE DEF At
<1>1. ASSUME NEW c \in Clients, NEW k \in Keys \cup {NoKey}, PlaceOrder(c, k) PROVE KeyInv'
  BY <1>1 DEF ExecutorTypeOK, KeyInv, PlaceOrder, Goto, ghosts
<1>2. ASSUME NEW c \in Clients, AttemptRejected(c) PROVE KeyInv'
  BY <1>2, RaisedShape, ZenonT(120) DEF KeyInv, AttemptRejected, ghosts
<1>3. ASSUME NEW c \in Clients, AttemptDuplicate(c) PROVE KeyInv'
  BY <1>3 DEF ExecutorTypeOK, KeyInv, AttemptDuplicate, Answered, Idle, ghosts
<1>4. ASSUME NEW c \in Clients, AttemptSends(c) PROVE KeyInv'
  <2>1. CASE key[c] = NoKey
    BY <1>4, <2>1 DEF ExecutorTypeOK, KeyInv, AttemptSends, RecordsKey, Goto, ghosts
  <2>2. CASE key[c] # NoKey
    <3>1. key[c] \in Keys /\ keyAge[key[c]] = Ttl
      BY <1>4, <2>2 DEF ExecutorTypeOK, AttemptSends, Duplicate
    <3>2. keyAge' = [keyAge EXCEPT ![key[c]] = 0]
      BY <1>4, <2>2, <3>1, NothingEvicted, Zenon DEF ExecutorTypeOK, AttemptSends, RecordsKey
    <3> QED BY <1>4, <3>1, <3>2, SMTT(120) DEF ExecutorTypeOK, KeyInv, AttemptSends, Goto, ghosts
  <2> QED BY <2>1, <2>2
<1>5. ASSUME NEW c \in Clients, VenueTakes(c) PROVE KeyInv'
  BY <1>5, SMTT(60) DEF ExecutorTypeOK, KeyInv, VenueTakes, Goto
<1>6. ASSUME NEW c \in Clients, CallReturns(c) PROVE KeyInv'
  BY <1>6 DEF ExecutorTypeOK, KeyInv, CallReturns, Answered, Idle, ghosts
<1>7. ASSUME NEW c \in Clients, CallRaises(c) PROVE KeyInv'
  BY <1>7, RaisedShape, SMTT(60) DEF KeyInv, CallRaises, ghosts
<1>8. ASSUME NEW c \in Clients, Backoff(c) PROVE KeyInv'
  BY <1>8 DEF ExecutorTypeOK, KeyInv, Backoff, ghosts
<1>9. CASE SnapshotFails
  BY <1>9 DEF KeyInv, SnapshotFails, client, ghosts
<1>10. CASE KeysAge
  BY <1>10 DEF ExecutorTypeOK, KeyInv, KeysAge, Elapsed, client
<1>11. CASE UNCHANGED executor
  BY <1>11 DEF KeyInv, executor, client, ghosts
<1> QED
  BY <1>1, <1>2, <1>3, <1>4, <1>5, <1>6, <1>7, <1>8, <1>9, <1>10, <1>11
  DEF ExecutorStep, CallStep
----------------------------------------------------------------------------
(* What the algorithms do to their own state, to the executor's, or to both. *)
AlgoTypeOK ==
  /\ algo \in [Algos -> Algo]
  /\ cancelling \subseteq Algos
  /\ late \in [Algos -> Nat]

(* Every round that is over was filled with a lot at most, and a round under way
   is one of the order's. *)
RoundsLeft ==
  \A a \in Algos :
    /\ algo[a].filled < algo[a].slice
    /\ algo[a].pc \in {"price", "child"} => algo[a].slice <= Slices

(* Each action of an algorithm, as a change of some fields of its record. *)
LEMMA StartFields ==
  ASSUME AlgoTypeOK, NEW a \in Algos, StartTwap(a) \/ StartVwap(a)
  PROVE  /\ algo' \in [Algos -> Algo] /\ \A b \in Algos \ {a} : algo'[b] = algo[b]
         /\ algo[a].status = "NEW" /\ algo'[a].status = "RUNNING"
         /\ algo'[a].pc = algo[a].pc /\ algo'[a].slice = algo[a].slice
         /\ algo'[a].filled = algo[a].filled
         /\ UNCHANGED <<executor, cancelling, late>>
<1>1. PICK kind \in Kinds : Start(a, kind)
  BY DEF StartTwap, StartVwap, Kinds
<1>2. "RUNNING" \in Status
  BY DEF Status
<1>3. algo' = [algo EXCEPT ![a].status = "RUNNING", ![a].kind = kind]
  BY <1>1 DEF Start
<1>4. algo' \in [Algos -> Algo]
  BY <1>2, <1>3, ZenonT(60) DEF AlgoTypeOK, Algo
<1>5. /\ algo'[a].status = "RUNNING"
      /\ algo'[a].pc = algo[a].pc /\ algo'[a].slice = algo[a].slice
      /\ algo'[a].filled = algo[a].filled /\ \A b \in Algos \ {a} : algo'[b] = algo[b]
  BY <1>3 DEF AlgoTypeOK, Algo
<1> QED BY <1>1, <1>4, <1>5 DEF Start

(* A round that is over: the head of the loop, one slice further. *)
LEMMA DoneFields ==
  ASSUME AlgoTypeOK, RoundsLeft, NEW a \in Algos, NEW n \in {0, 1}, algo' = SliceDone(a, n),
         algo[a].pc \in {"price", "child"}
  PROVE  /\ algo' \in [Algos -> Algo] /\ \A b \in Algos \ {a} : algo'[b] = algo[b]
         /\ algo'[a].status = algo[a].status /\ algo'[a].pc = "head"
         /\ algo'[a].slice = algo[a].slice + 1 /\ algo'[a].filled = algo[a].filled + n
<1>1. /\ algo'[a].status = algo[a].status /\ algo'[a].kind = algo[a].kind /\ algo'[a].pc = "head"
      /\ algo'[a].slice = algo[a].slice + 1 /\ algo'[a].filled = algo[a].filled + n
      /\ \A b \in Algos \ {a} : algo'[b] = algo[b]
  BY DEF AlgoTypeOK, Algo, SliceDone
<1>2. algo[a].slice + 1 \in 1..Slices + 1 /\ algo[a].filled + n \in 0..Slices
  BY DEF AlgoTypeOK, Algo, RoundsLeft
<1>3. algo[a] \in Algo /\ "head" \in {"head", "price", "child", "done"}
  BY DEF AlgoTypeOK
<1>4. [algo[a] EXCEPT !.pc = "head", !.slice = @ + 1, !.filled = @ + n] \in Algo
  BY <1>2, <1>3, Zenon DEF Algo
<1>5. algo' = [algo EXCEPT ![a] = [algo[a] EXCEPT !.pc = "head", !.slice = @ + 1, !.filled = @ + n]]
  BY Zenon DEF AlgoTypeOK, SliceDone
<1> QED BY <1>1, <1>4, <1>5 DEF AlgoTypeOK

LEMMA DoneRounds ==
  ASSUME AlgoTypeOK, RoundsLeft, NEW a \in Algos, NEW n \in {0, 1}, algo' = SliceDone(a, n),
         algo[a].pc \in {"price", "child"}, UNCHANGED <<cancelling, late>>
  PROVE  AlgoTypeOK' /\ RoundsLeft'
<1>1. /\ algo' \in [Algos -> Algo] /\ \A b \in Algos \ {a} : algo'[b] = algo[b]
      /\ algo'[a].pc = "head"
      /\ algo'[a].slice = algo[a].slice + 1 /\ algo'[a].filled = algo[a].filled + n
  BY DoneFields
<1>2. algo[a].slice \in Int /\ algo[a].filled \in Int /\ algo[a].filled < algo[a].slice
  BY DEF AlgoTypeOK, Algo, RoundsLeft
<1>3. algo'[a].filled < algo'[a].slice
  BY <1>1, <1>2
<1> QED BY <1>1, <1>3, Zenon DEF AlgoTypeOK, RoundsLeft

LEMMA EndFields ==
  ASSUME AlgoTypeOK, NEW a \in Algos, Ends(a)
  PROVE  /\ algo' \in [Algos -> Algo] /\ \A b \in Algos \ {a} : algo'[b] = algo[b]
         /\ algo'[a].status \in Ended /\ algo'[a].pc = "done"
         /\ algo'[a].slice = algo[a].slice /\ algo'[a].filled = algo[a].filled
<1>1. PICK status \in Ended : algo' = [algo EXCEPT ![a].pc = "done", ![a].status = status]
  BY Zenon DEF Ends, Ended
<1>2. status \in Status
  BY DEF Status
<1>3. algo' \in [Algos -> Algo]
  BY <1>1, <1>2, ZenonT(60) DEF AlgoTypeOK, Algo
<1>4. /\ \A b \in Algos \ {a} : algo'[b] = algo[b]
      /\ algo'[a].status = status /\ algo'[a].pc = "done"
      /\ algo'[a].slice = algo[a].slice /\ algo'[a].filled = algo[a].filled
  BY <1>1 DEF AlgoTypeOK, Algo
<1> QED BY <1>3, <1>4

LEMMA AlgoShape ==
  ASSUME AlgoTypeOK, RoundsLeft, NEW a \in Algos,
         StartTwap(a) \/ StartVwap(a) \/ AlgoStep(a) \/ CancelAlgo(a) \/ AlgoCancelled(a)
  PROVE  AlgoTypeOK' /\ RoundsLeft'
<1> USE DEF AlgoAt
<1>1. CASE StartTwap(a) \/ StartVwap(a)
  BY <1>1, StartFields, Zenon DEF AlgoTypeOK, RoundsLeft
<1>2. CASE AsksPrice(a)
  BY <1>2, Zenon DEF AlgoTypeOK, RoundsLeft, AsksPrice, Looks, Algo
<1>3. CASE NoSlice(a)
  <2>1. algo' = SliceDone(a, 0) /\ algo[a].pc = "price" /\ UNCHANGED <<cancelling, late>>
    BY <1>3 DEF NoSlice
  <2> QED BY <2>1, DoneRounds
<1>4. CASE PlacesSlice(a)
  <2>1. /\ algo' = [algo EXCEPT ![a].pc = "child"] /\ algo[a].pc = "price"
        /\ cancelling' = cancelling /\ late' \in [Algos -> Nat]
    BY <1>4 DEF AlgoTypeOK, PlacesSlice
  <2> QED BY <2>1, Zenon DEF AlgoTypeOK, RoundsLeft, Algo
<1>5. CASE SliceAnswered(a)
  <2>1. PICK n \in {0, 1} : algo' = SliceDone(a, n)
    BY <1>5 DEF SliceAnswered
  <2>2. algo[a].pc = "child" /\ UNCHANGED <<cancelling, late>>
    BY <1>5 DEF SliceAnswered
  <2> QED BY <2>1, <2>2, DoneRounds
<1>6. CASE Ends(a)
  <2>1. UNCHANGED <<cancelling, late>>
    BY <1>6 DEF Ends
  <2> QED BY <1>6, <2>1, EndFields, Zenon DEF AlgoTypeOK, RoundsLeft
<1>7. CASE CancelAlgo(a)
  BY <1>7, ZenonT(60) DEF AlgoTypeOK, RoundsLeft, CancelAlgo, Algo, Status
<1>8. CASE AlgoCancelled(a)
  BY <1>8, ZenonT(120) DEF AlgoTypeOK, RoundsLeft, AlgoCancelled, Algo, Status
<1> QED BY <1>1, <1>2, <1>3, <1>4, <1>5, <1>6, <1>7, <1>8 DEF AlgoStep

(* What every step is: an executor's, and an algorithm's own or none. *)
LEMMA StepsAreTwo ==
  ASSUME AlgoTypeOK, RoundsLeft, [Next]_vars
  PROVE  /\ ExecutorStep
         /\ \/ UNCHANGED algos
            \/ \E a \in Algos :
                 StartTwap(a) \/ StartVwap(a) \/ AlgoStep(a) \/ CancelAlgo(a) \/ AlgoCancelled(a)
<1>1. ASSUME NEW a \in Algos, StartTwap(a) \/ StartVwap(a) \/ CancelAlgo(a) \/ AlgoCancelled(a)
      PROVE  UNCHANGED executor
  BY <1>1 DEF StartTwap, StartVwap, Start, CancelAlgo, AlgoCancelled
<1>2. ASSUME NEW a \in Algos, AsksPrice(a) \/ SliceAnswered(a) \/ Ends(a)
      PROVE  UNCHANGED executor
  BY <1>2 DEF AsksPrice, SliceAnswered, Ends
<1>3. ASSUME NEW a \in Algos, NoSlice(a) PROVE SnapshotFails \/ UNCHANGED executor
  BY <1>3 DEF NoSlice, Snapshot, SnapshotFails, executor
<1>4. ASSUME NEW a \in Algos, PlacesSlice(a)
      PROVE  \E k \in Keys \cup {NoKey} : PlaceOrder(a, k)
  <2>1. SliceKey[a][algo[a].slice] \in Keys \cup {NoKey}
    BY <1>4 DEF AlgoTypeOK, Algo, RoundsLeft, PlacesSlice, AlgoAt
  <2> QED BY <1>4, <2>1 DEF PlacesSlice
<1>5. CASE UNCHANGED vars
  BY <1>5 DEF vars, algos, ExecutorStep
<1>6. CASE Next
  BY <1>1, <1>2, <1>3, <1>4, <1>6 DEF Next, AlgoStep, ExecutorStep
<1> QED BY <1>5, <1>6

ShapeInv == TypeOK /\ AttemptsLeft /\ RoundsLeft

LEMMA TypeParts == TypeOK <=> ExecutorTypeOK /\ AlgoTypeOK
BY DEF TypeOK, AlgoTypeOK, Algo

LEMMA ShapeInit == Init => ShapeInv
<1> SUFFICES ASSUME Init PROVE ShapeInv
  OBVIOUS
<1>1. ExecutorTypeOK /\ AttemptsLeft
  BY ExecutorInitTyped DEF Init
<1>2. AlgoTypeOK /\ RoundsLeft
  BY DEF Init, AlgoTypeOK, RoundsLeft, Algo, Status, Kinds
<1> QED BY <1>1, <1>2, TypeParts DEF ShapeInv

LEMMA ShapeStep == ShapeInv /\ [Next]_vars => ShapeInv'
<1> SUFFICES ASSUME ShapeInv, [Next]_vars PROVE ShapeInv'
  OBVIOUS
<1>1. ExecutorTypeOK /\ AttemptsLeft /\ AlgoTypeOK /\ RoundsLeft
  BY TypeParts DEF ShapeInv
<1>2. ExecutorTypeOK' /\ AttemptsLeft'
  BY <1>1, StepsAreTwo, ExecutorShape
<1>3. AlgoTypeOK' /\ RoundsLeft'
  <2>1. CASE UNCHANGED algos
    BY <1>1, <2>1 DEF algos, AlgoTypeOK, RoundsLeft
  <2> QED BY <1>1, <2>1, StepsAreTwo, AlgoShape
<1>4. TypeOK'
  BY <1>2, <1>3 DEF TypeOK, AlgoTypeOK, Algo
<1> QED BY <1>2, <1>3, <1>4 DEF ShapeInv

(* The executor's and the algorithms' state keeps its shape: no call is retried more
   often than the policy says, no algorithm runs more rounds than it has. *)
THEOREM AlgosTyped == Spec => []TypeOK
<1>1. ShapeInv => TypeOK
  BY DEF ShapeInv
<1> QED BY <1>1, ShapeInit, ShapeStep, PTL DEF Spec

(* With room for every key, a key places one order at the venue in its life,
   whatever is lost, refused or repeated, for any number of clients and attempts. *)
THEOREM KeyPlacesOnce ==
  ASSUME Cardinality(Keys) <= MaxRecords PROVE Spec => []KeyedOnce
<1>1. Init => KeyInv
  BY DEF Init, ExecutorInit, KeyInv, At, Idle, NoRecords
<1>2. ShapeInv /\ KeyInv /\ [Next]_vars => KeyInv'
  BY StepsAreTwo, KeyStep, TypeParts DEF ShapeInv
<1>3. KeyInv => KeyedOnce
  BY DEF KeyInv, KeyedOnce
<1> QED BY <1>1, <1>2, <1>3, ShapeInit, ShapeStep, PTL DEF Spec

----------------------------------------------------------------------------
(* What makes FilledWasBought inductive: a slice whose order the venue took, or
   that was answered as placed, is bought before it is counted. *)
BoughtInv ==
  \A a \in Algos :
    /\ algo[a].filled <= bought[a]
    /\ algo[a].pc = "child" /\ (At(a, "taken") \/ answer[a] = "placed")
         => algo[a].filled < bought[a]

(* A call is answered "placed" only where the venue took its order. *)
LEMMA PlacedWasTaken ==
  ASSUME ExecutorTypeOK, AttemptsLeft, ExecutorStep, NEW c \in Clients
  PROVE  /\ bought[c] \in Nat /\ bought'[c] \in Nat /\ bought'[c] >= bought[c]
         /\ (At(c, "taken") \/ answer[c] = "placed")'
              => bought'[c] > bought[c] \/ At(c, "taken") \/ answer[c] = "placed"
<1> USE DEF At
<1> DEFINE Kept ==
      /\ bought[c] \in Nat /\ bought'[c] \in Nat /\ bought'[c] >= bought[c]
      /\ call'[c].pc = "taken" \/ answer'[c] = "placed"
           => bought'[c] > bought[c] \/ call[c].pc = "taken" \/ answer[c] = "placed"
<1>1. ASSUME NEW d \in Clients, NEW k \in Keys \cup {NoKey}, PlaceOrder(d, k) PROVE Kept
  BY <1>1 DEF ExecutorTypeOK, PlaceOrder, Goto, ghosts
<1>2. ASSUME NEW d \in Clients, AttemptRejected(d) PROVE Kept
  <2>1. /\ call'[c].pc = "taken" => call[c].pc = "taken"
        /\ answer'[c] = "placed" => answer[c] = "placed"
    BY <1>2, RaisedShape DEF AttemptRejected
  <2> QED BY <1>2, <2>1 DEF ExecutorTypeOK, AttemptRejected, ghosts
<1>3. ASSUME NEW d \in Clients, AttemptDuplicate(d) PROVE Kept
  BY <1>3 DEF ExecutorTypeOK, AttemptDuplicate, Answered, Idle, ghosts
<1>4. ASSUME NEW d \in Clients, AttemptSends(d) PROVE Kept
  BY <1>4 DEF ExecutorTypeOK, AttemptSends, Goto, ghosts
<1>5. ASSUME NEW d \in Clients, VenueTakes(d) PROVE Kept
  BY <1>5 DEF ExecutorTypeOK, VenueTakes, Goto
<1>6. ASSUME NEW d \in Clients, CallReturns(d) PROVE Kept
  BY <1>6 DEF ExecutorTypeOK, CallReturns, Answered, Idle, ghosts
<1>7. ASSUME NEW d \in Clients, CallRaises(d) PROVE Kept
  <2>1. /\ call'[c].pc = "taken" => call[c].pc = "taken"
        /\ answer'[c] = "placed" => answer[c] = "placed"
    BY <1>7, RaisedShape DEF CallRaises
  <2> QED BY <1>7, <2>1 DEF ExecutorTypeOK, CallRaises, ghosts
<1>8. ASSUME NEW d \in Clients, Backoff(d) PROVE Kept
  BY <1>8 DEF ExecutorTypeOK, Backoff, ghosts
<1>9. CASE SnapshotFails \/ KeysAge \/ UNCHANGED executor
  BY <1>9 DEF ExecutorTypeOK, SnapshotFails, KeysAge, executor, client, ghosts
<1> QED
  BY <1>1, <1>2, <1>3, <1>4, <1>5, <1>6, <1>7, <1>8, <1>9 DEF ExecutorStep, CallStep

LEMMA BoughtStep == ShapeInv /\ BoughtInv /\ [Next]_vars => BoughtInv'
<1> SUFFICES ASSUME ShapeInv, BoughtInv, [Next]_vars, NEW b \in Algos
             PROVE  /\ algo'[b].filled <= bought'[b]
                    /\ algo'[b].pc = "child" /\ (At(b, "taken") \/ answer[b] = "placed")'
                         => algo'[b].filled < bought'[b]
  BY DEF BoughtInv
<1>1. ExecutorTypeOK /\ AttemptsLeft /\ AlgoTypeOK /\ RoundsLeft
  BY TypeParts DEF ShapeInv
<1>2. /\ bought[b] \in Nat /\ bought'[b] \in Nat /\ bought'[b] >= bought[b]
      /\ (At(b, "taken") \/ answer[b] = "placed")'
           => bought'[b] > bought[b] \/ At(b, "taken") \/ answer[b] = "placed"
  BY <1>1, StepsAreTwo, PlacedWasTaken
<1>3. algo[b].filled \in Nat
  BY <1>1 DEF AlgoTypeOK, Algo
<1>4. CASE algo'[b].filled = algo[b].filled /\ (algo'[b].pc = "child" => algo[b].pc = "child")
  BY <1>2, <1>3, <1>4 DEF BoughtInv
<1>5. ASSUME NEW a \in Algos, StartTwap(a) \/ StartVwap(a)
      PROVE algo'[b].filled = algo[b].filled /\ algo'[b].pc = algo[b].pc
  <2>1. CASE a = b
    BY <1>1, <1>5, <2>1, StartFields
  <2>2. CASE a # b
    BY <1>1, <1>5, <2>2, StartFields
  <2> QED BY <2>1, <2>2
<1>6. ASSUME NEW a \in Algos, CancelAlgo(a) \/ AlgoCancelled(a)
      PROVE algo'[b].filled = algo[b].filled /\ algo'[b].pc = algo[b].pc
  <2>1. CASE CancelAlgo(a)
    BY <1>1, <2>1 DEF AlgoTypeOK, Algo, CancelAlgo
  <2>2. CASE AlgoCancelled(a)
    BY <1>1, <2>2 DEF AlgoTypeOK, Algo, AlgoCancelled
  <2> QED BY <1>6, <2>1, <2>2
<1>7. ASSUME NEW a \in Algos, AsksPrice(a) \/ Ends(a) \/ NoSlice(a)
      PROVE algo'[b].filled = algo[b].filled /\ (algo'[b].pc = "child" => algo[b].pc = "child")
  <2>1. CASE AsksPrice(a)
    BY <1>1, <2>1 DEF AlgoTypeOK, Algo, AsksPrice
  <2>2. CASE Ends(a)
    <3>1. CASE a = b
      BY <1>1, <2>2, <3>1, EndFields
    <3>2. CASE a # b
      BY <1>1, <2>2, <3>2, EndFields
    <3> QED BY <3>1, <3>2
  <2>3. CASE NoSlice(a)
    <3>1. algo' = SliceDone(a, 0) /\ algo[a].pc = "price" /\ algo[b].filled \in Int
      BY <1>1, <2>3 DEF NoSlice, AlgoAt, AlgoTypeOK, Algo
    <3>2. CASE a = b
      BY <1>1, <3>1, <3>2, DoneFields
    <3>3. CASE a # b
      BY <1>1, <3>1, <3>3, DoneFields
    <3> QED BY <3>2, <3>3
  <2> QED BY <1>7, <2>1, <2>2, <2>3
<1>8. ASSUME NEW a \in Algos, PlacesSlice(a), a # b
      PROVE algo'[b] = algo[b]
  BY <1>1, <1>8 DEF AlgoTypeOK, PlacesSlice
<1>9. ASSUME PlacesSlice(b)
      PROVE  /\ algo'[b].filled = algo[b].filled
             /\ ~(At(b, "taken") \/ answer[b] = "placed")'
  BY <1>1, <1>9 DEF AlgoTypeOK, Algo, ExecutorTypeOK, PlacesSlice, PlaceOrder, Goto, At
<1>10. ASSUME NEW a \in Algos, SliceAnswered(a), a # b PROVE algo'[b] = algo[b]
  BY <1>1, <1>10 DEF AlgoTypeOK, SliceAnswered, SliceDone
<1>11. ASSUME SliceAnswered(b)
       PROVE  /\ algo'[b].filled <= bought'[b] /\ algo'[b].pc # "child"
  <2>1. PICK filled \in {0, 1} : (filled = 1 => answer[b] = "placed") /\ algo' = SliceDone(b, filled)
    BY <1>11 DEF SliceAnswered
  <2>2. algo'[b].filled = algo[b].filled + filled /\ algo'[b].pc = "head"
    BY <1>1, <2>1 DEF AlgoTypeOK, Algo, SliceDone
  <2>3. filled = 1 => algo[b].filled < bought[b]
    BY <1>11, <2>1 DEF BoughtInv, SliceAnswered, AlgoAt
  <2>4. algo[b].filled <= bought[b]
    BY DEF BoughtInv
  <2> QED BY <1>2, <1>3, <2>2, <2>3, <2>4
<1>12. CASE UNCHANGED algos
  BY <1>4, <1>12 DEF algos
<1>13. ASSUME NEW a \in Algos, PlacesSlice(a)
       PROVE  /\ algo'[b].filled <= bought'[b]
              /\ algo'[b].pc = "child" /\ (At(b, "taken") \/ answer[b] = "placed")'
                   => algo'[b].filled < bought'[b]
  <2>1. algo[b].filled <= bought[b]
    BY DEF BoughtInv
  <2> QED BY <1>2, <1>3, <1>4, <1>8, <1>9, <1>13, <2>1
<1> QED
  BY <1>1, <1>4, <1>5, <1>6, <1>7, <1>10, <1>11, <1>12, <1>13, StepsAreTwo DEF AlgoStep

(* What is counted as filled was bought, for any number of clients, keys, rounds and
   attempts, keys that are evicted included. *)
THEOREM FillsWereBought == Spec => []FilledWasBought
<1>1. Init => BoughtInv
  BY DEF Init, ExecutorInit, BoughtInv
<1>2. BoughtInv => FilledWasBought
  BY DEF BoughtInv, FilledWasBought
<1> QED BY <1>1, <1>2, BoughtStep, ShapeInit, ShapeStep, PTL DEF Spec

----------------------------------------------------------------------------
(* What makes OneSliceAfterCancel inductive: an order that began a slice after it
   was cancelled will not look at a price again. *)
CancelInv ==
  \A a \in Algos :
    late[a] # 0 =>
      /\ late[a] = 1
      /\ algo[a].pc # "price"
      /\ algo[a].status \notin {"NEW", "RUNNING"}

LEMMA CancelStep == ShapeInv /\ CancelInv /\ [Next]_vars => CancelInv'
<1> SUFFICES ASSUME ShapeInv, CancelInv, [Next]_vars PROVE CancelInv'
  OBVIOUS
<1> USE DEF AlgoAt, Algo
<1>1. AlgoTypeOK /\ RoundsLeft
  BY TypeParts DEF ShapeInv
<1>2. ASSUME NEW a \in Algos, StartTwap(a) \/ StartVwap(a) PROVE CancelInv'
  BY <1>1, <1>2, Zenon DEF AlgoTypeOK, CancelInv, StartTwap, StartVwap, Start
<1>3. ASSUME NEW a \in Algos, AsksPrice(a) PROVE CancelInv'
  BY <1>1, <1>3 DEF AlgoTypeOK, CancelInv, AsksPrice, Looks
<1>4. ASSUME NEW a \in Algos, NoSlice(a) \/ SliceAnswered(a) PROVE CancelInv'
  <2>1. late' = late /\ algo[a].pc \in {"price", "child"}
        /\ \E n \in {0, 1} : algo' = SliceDone(a, n)
    BY <1>4 DEF NoSlice, SliceAnswered
  <2> QED BY <1>1, <2>1, DoneFields, Zenon DEF CancelInv
<1>5. ASSUME NEW a \in Algos, PlacesSlice(a) PROVE CancelInv'
  BY <1>1, <1>5 DEF AlgoTypeOK, CancelInv, PlacesSlice
<1>6. ASSUME NEW a \in Algos, Ends(a) PROVE CancelInv'
  BY <1>1, <1>6 DEF AlgoTypeOK, CancelInv, Ends
<1>7. ASSUME NEW a \in Algos, CancelAlgo(a) \/ AlgoCancelled(a) PROVE CancelInv'
  <2>1. CASE CancelAlgo(a)
    BY <1>1, <2>1 DEF AlgoTypeOK, CancelInv, CancelAlgo
  <2>2. CASE AlgoCancelled(a)
    <3>1. algo' = [algo EXCEPT ![a].status = "CANCELLED"] /\ late' = late
      BY <2>2 DEF AlgoCancelled
    <3> QED BY <1>1, <3>1 DEF AlgoTypeOK, CancelInv
  <2> QED BY <1>7, <2>1, <2>2
<1>8. CASE UNCHANGED algos
  BY <1>8 DEF algos, CancelInv
<1> QED
  BY <1>1, <1>2, <1>3, <1>4, <1>5, <1>6, <1>7, <1>8, StepsAreTwo DEF AlgoStep

(* A cancelled algorithm begins one more slice at most, however many of them run. *)
THEOREM CancelLeavesOneSlice == Spec => []OneSliceAfterCancel
<1>1. Init => CancelInv
  BY DEF Init, CancelInv
<1>2. CancelInv /\ ShapeInv => OneSliceAfterCancel
  <2> SUFFICES ASSUME CancelInv, ShapeInv, NEW a \in Algos PROVE late[a] <= 1
    BY DEF OneSliceAfterCancel
  <2>2. late[a] = 0 \/ late[a] = 1
    BY DEF CancelInv
  <2> QED BY <2>2
<1> QED BY <1>1, <1>2, CancelStep, ShapeInit, ShapeStep, PTL DEF Spec
=============================================================================
