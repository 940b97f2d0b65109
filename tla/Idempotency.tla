---------------------------- MODULE Idempotency ----------------------------
(***************************************************************************)
(* core/idempotency.py: one record per key, with a time to live and a cap  *)
(* on how many are kept.  A store is the age of each key's record, and Ttl *)
(* stands for no record: every check first deletes the expired ones, so an *)
(* expired record and none are the same to the callers.                    *)
(***************************************************************************)
EXTENDS Integers, FiniteSets

CONSTANTS
  Ttl,          \* ttl, in ticks of the model
  MaxRecords    \* max_size

ASSUME TtlAssumption == Ttl \in Nat \ {0}
ASSUME MaxRecordsAssumption == MaxRecords \in Nat \ {0}

Live(ages) == {k \in DOMAIN ages : ages[k] < Ttl}

NoRecords(keys) == [k \in keys |-> Ttl]

\* check_and_set of a key without a live record: what the store may be then.
\* Past the cap the oldest record goes, never the one just made; records of the
\* same age are taken in the order they were made, which the age does not tell.
Stored(ages, key) ==
  LET with   == [ages EXCEPT ![key] = 0]
      others == Live(with) \ {key}
      oldest == {k \in others : \A j \in others : with[j] <= with[k]}
  IN IF Cardinality(Live(with)) <= MaxRecords THEN {with}
     ELSE {[with EXCEPT ![k] = Ttl] : k \in oldest}

Deleted(ages, key) == [ages EXCEPT ![key] = Ttl]

\* A unit of time passes over the store.
Elapsed(ages) == [k \in DOMAIN ages |-> IF ages[k] < Ttl THEN ages[k] + 1 ELSE Ttl]
=============================================================================
