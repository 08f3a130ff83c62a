---------------------------- MODULE Coordination ----------------------------
(***************************************************************************)
(* What the two coordinators share beside the ledger: the response cache,  *)
(* the faults of the ledger and the cache, and which holds have lost their *)
(* owner.                                                                  *)
(***************************************************************************)
EXTENDS BudgetLedger

CONSTANTS
    KeyOf,      \* the cache key of a request: organization, provider, model, payload
    MaxFaults   \* bound: failures of the ledger or the cache, and crashes

ASSUME CoordinationAssumption == MaxFaults \in Nat

VARIABLES
    cache,      \* the keys with a cached response
    adrift,     \* history: ids whose hold a fault or an escaping error left behind
    faults      \* faults so far (bounds the model)

Fault == faults < MaxFaults /\ faults' = faults + 1

\* SqlResponseCache.put: the entry is written over any before it, or the
\* database cannot be reached.
CachePut(k) ==
    \/ cache' = cache \cup {k} /\ UNCHANGED faults
    \/ Fault /\ UNCHANGED cache

=============================================================================
