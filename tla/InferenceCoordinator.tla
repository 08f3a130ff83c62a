------------------------ MODULE InferenceCoordinator ------------------------
(***************************************************************************)
(* The unary path of application/execution/inference_coordinator.py:       *)
(* cache lookup, in-flight deduplication, reserve, provider call, settle   *)
(* or release, cache store, for the concurrent requests of one             *)
(* organization on several gateway replicas, over the ledger of            *)
(* BudgetLedger.  Callers are cancelled, replicas crash and the ledger     *)
(* fails before or after it has committed.                                 *)
(*                                                                         *)
(* What the requests tell apart is their correlation id, the replica that  *)
(* serves them and their cache key.  A step runs from one await that waits *)
(* for something outside the process to the next.                          *)
(***************************************************************************)
EXTENDS Coordination

CONSTANTS
    Requests,   \* the requests clients send
    Replicas,   \* the gateway processes
    Placements, \* which correlation ids and replicas the requests may have
    Early,      \* the requests that have arrived when the behaviour starts
    NoTask      \* no task: nothing in flight, nothing awaited

ASSUME CoordAssumption ==
    /\ Placements \subseteq [cid : [Requests -> Cids], replica : [Requests -> Replicas]]
    /\ Early \subseteq Requests
    /\ NoTask \notin Requests

VARIABLES
    placement,  \* the correlation id (X-Request-Id) and replica of each request (fixed)
    phase,      \* where a request is: its handler, up to the task it awaits
    awaits,     \* the task a request awaits, named by the request that started it
    outcome,    \* what the caller got: an ExecutionOutcome, or how it ended without one
    task,       \* the next step of the task a request started
    inFlight,   \* RequestDeduplicator._in_flight: the task by replica and id
    answered    \* history: the tasks whose provider call succeeded

coordVars == <<placement, phase, awaits, outcome, task, inFlight, cache, answered, adrift, faults>>
allVars == <<vars, coordVars>>

-----------------------------------------------------------------------------
(* State.                                                                  *)

CoordInit ==
    /\ Init
    /\ placement \in Placements
    /\ phase = [r \in Requests |-> IF r \in Early THEN "lookup" ELSE "new"]
    /\ awaits = [r \in Requests |-> NoTask]
    /\ outcome = [r \in Requests |-> "none"]
    /\ task = [r \in Requests |-> "none"]
    /\ inFlight = [k \in Replicas \X Cids |-> NoTask]
    /\ cache = {}
    /\ answered = {} /\ adrift = {}
    /\ faults = 0

CidOf(r) == placement.cid[r]
ReplicaOf(r) == placement.replica[r]

Key(r) == <<ReplicaOf(r), CidOf(r)>>

\* A task that is running.
Live(t) == task[t] \notin {"none", "ended"}

End(r, o) == /\ phase' = [phase EXCEPT ![r] = "ended"]
             /\ outcome' = [outcome EXCEPT ![r] = o]

-----------------------------------------------------------------------------
(* The caller: InferenceCoordinator.execute and RequestDeduplicator.       *)

Arrive(r) ==
    /\ phase[r] = "new"
    /\ phase' = [phase EXCEPT ![r] = "lookup"]
    /\ UNCHANGED <<vars, placement, awaits, outcome, task, inFlight, cache, answered, adrift,
                   faults>>

NotRouted(r) ==
    /\ phase[r] = "lookup"
    /\ End(r, "not_routed")
    /\ UNCHANGED <<vars, placement, awaits, task, inFlight, cache, answered, adrift, faults>>

\* _safe_get: a hit is the answer; a miss goes on to coalesce when the coroutine
\* resumes.  So does a key whose entry has expired, is malformed or cannot be
\* reached, which is counted among the faults.
CacheHit(r) ==
    /\ phase[r] = "lookup"
    /\ KeyOf[r] \in cache
    /\ End(r, "cache_hit")
    /\ UNCHANGED <<vars, placement, awaits, task, inFlight, cache, answered, adrift, faults>>

CacheMiss(r) ==
    /\ phase[r] = "lookup"
    /\ \/ KeyOf[r] \notin cache /\ UNCHANGED faults
       \/ KeyOf[r] \in cache /\ Fault
    /\ phase' = [phase EXCEPT ![r] = "coalesce"]
    /\ UNCHANGED <<vars, placement, awaits, outcome, task, inFlight, cache, answered, adrift>>

\* coalesce: join the task in flight for the id on this replica, or start one.
Coalesce(r) ==
    LET t == IF inFlight[Key(r)] = NoTask THEN r ELSE inFlight[Key(r)]
    IN  /\ phase[r] = "coalesce"
        /\ phase' = [phase EXCEPT ![r] = "awaiting"]
        /\ awaits' = [awaits EXCEPT ![r] = t]
        /\ inFlight' = [inFlight EXCEPT ![Key(r)] = t]
        /\ task' = IF t = r THEN [task EXCEPT ![r] = "reclaim"] ELSE task
        /\ UNCHANGED <<vars, placement, outcome, cache, answered, adrift, faults>>

\* The caller is cancelled (disconnect, timeout); shield keeps the task going.
Cancel(r) ==
    /\ phase[r] \in {"lookup", "coalesce", "awaiting"}
    /\ End(r, "cancelled")
    /\ UNCHANGED <<vars, placement, awaits, task, inFlight, cache, answered, adrift, faults>>

-----------------------------------------------------------------------------
(* The task: _execute_and_settle.                                          *)

Goto(t, step) == /\ task' = [task EXCEPT ![t] = step]
                 /\ UNCHANGED <<phase, awaits, outcome, inFlight>>

\* Mutant: only the caller that started the task gets its result.
FinishStarterOnly(t, o) ==
    /\ task' = [task EXCEPT ![t] = "ended"]
    /\ inFlight' = [k \in Replicas \X Cids |->
                       IF inFlight[k] = t THEN NoTask ELSE inFlight[k]]
    /\ phase' = IF phase[t] = "awaiting" THEN [phase EXCEPT ![t] = "ended"] ELSE phase
    /\ outcome' = IF phase[t] = "awaiting" THEN [outcome EXCEPT ![t] = o] ELSE outcome
    /\ UNCHANGED awaits

\* The task ends: _forget drops it and everyone awaiting it gets its result.
\* (A caller that finds the finished task before _forget has run gets the same
\* result as one that joined just before the end.)
Finish(t, o) ==
    LET waiting == {r \in Requests : phase[r] = "awaiting" /\ awaits[r] = t}
    IN  /\ task' = [task EXCEPT ![t] = "ended"]
        /\ inFlight' = [k \in Replicas \X Cids |->
                           IF inFlight[k] = t THEN NoTask ELSE inFlight[k]]
        /\ phase' = [r \in Requests |-> IF r \in waiting THEN "ended" ELSE phase[r]]
        /\ outcome' = [r \in Requests |-> IF r \in waiting THEN o ELSE outcome[r]]
        /\ UNCHANGED awaits

Adrift(t) == adrift' = adrift \cup {CidOf(t)}

\* ReservationReconciler.reclaim, first thing in ReservationService.reserve; a
\* ledger that cannot be reached reclaims nothing and is not an error.
TaskReclaim(t) ==
    /\ task[t] = "reclaim"
    /\ Reclaim(now, Stale(now - TTL))
    /\ Goto(t, "reserve")
    /\ UNCHANGED <<placement, cache, answered, adrift, faults>>

TaskReclaimUnavailable(t) ==
    /\ task[t] = "reclaim"
    /\ Fault
    /\ Goto(t, "reserve")
    /\ UNCHANGED <<vars, placement, cache, answered, adrift>>

\* The price is missing: UnknownPriceError, nothing is held.
TaskUnpriced(t) ==
    /\ task[t] = "reserve"
    /\ Finish(t, "not_accountable")
    /\ UNCHANGED <<vars, placement, cache, answered, adrift, faults>>

\* The price table cannot be read: no accounting defect, so that it escapes,
\* before anything is held or with the hold of an answered call.
TaskPriceUnavailable(t) ==
    /\ Fault
    /\ \/ task[t] = "reserve" /\ UNCHANGED adrift
       \/ task[t] = "settle" /\ Adrift(t)
    /\ Finish(t, "raised")
    /\ UNCHANGED <<vars, placement, cache, answered>>

\* ledger.reserve answers RESERVED.
TaskReserved(t, a, cur) ==
    /\ task[t] = "reserve"
    /\ \/ ReserveReplay(CidOf(t))
       \/ ReserveUnbounded(CidOf(t), a, cur)
       \/ ReserveHeld(CidOf(t), a, cur)
    /\ Goto(t, "execute")
    /\ UNCHANGED <<placement, cache, answered, adrift, faults>>

\* ledger.reserve answers EXCEEDED, or raises UnsupportedCurrencyError.
TaskRefused(t, a, cur) ==
    /\ task[t] = "reserve"
    /\ \/ ReserveExceeded(CidOf(t), a, cur) /\ Finish(t, "budget_denied")
       \/ ReserveWrongCurrency(CidOf(t), cur) /\ Finish(t, "raised")
    /\ UNCHANGED <<placement, cache, answered, adrift, faults>>

\* The ledger fails: before it has done anything, or after it has committed
\* the hold and before its answer arrives.
TaskReserveUnavailable(t, a) ==
    /\ task[t] = "reserve"
    /\ Fault
    /\ \/ UNCHANGED vars /\ UNCHANGED adrift
       \/ ReserveHeld(CidOf(t), a, BudgetCurrency) /\ Adrift(t)
       \/ ReserveUnbounded(CidOf(t), a, BudgetCurrency) /\ Adrift(t)
    /\ Finish(t, "budget_unavailable")
    /\ UNCHANGED <<placement, cache, answered>>

\* The client answers, or returns a failure: no connection configured, a
\* timeout, a transport error, a status of 400 or more, a malformed body.
Invoke(t, ok) == answered' = IF ok THEN answered \cup {t} ELSE answered

\* ProviderExecutor.execute: a failure is a response like any other.
TaskExecute(t) ==
    /\ task[t] = "execute"
    /\ \E ok \in BOOLEAN : Invoke(t, ok) /\ Goto(t, IF ok THEN "settle" ELSE "releaseFailed")
    /\ UNCHANGED <<vars, placement, cache, adrift, faults>>

\* Mutant: a call that cannot be costed is cached all the same.
TaskDefectCached(t) ==
    /\ task[t] = "settle"
    /\ Goto(t, "put")
    /\ UNCHANGED <<vars, placement, cache, answered, adrift, faults>>

\* CostAccountant cannot cost the call: the hold is released.
TaskDefect(t) ==
    /\ task[t] = "settle"
    /\ Goto(t, "releaseDefect")
    /\ UNCHANGED <<vars, placement, cache, answered, adrift, faults>>

TaskSettled(t, a, cur) ==
    /\ task[t] = "settle"
    /\ Settle(CidOf(t), a, cur) \/ SettleReplay(CidOf(t))
    /\ Goto(t, "put")
    /\ UNCHANGED <<placement, cache, answered, adrift, faults>>

\* UnknownReservationError and UnsupportedCurrencyError escape the coordinator.
TaskSettleRaises(t, cur) ==
    /\ task[t] = "settle"
    /\ \/ SettleUnknown(CidOf(t)) /\ UNCHANGED adrift
       \/ SettleWrongCurrency(CidOf(t), cur) /\ Adrift(t)
    /\ Finish(t, "raised")
    /\ UNCHANGED <<placement, cache, answered, faults>>

\* So does LedgerUnavailableError, whether or not the settlement is committed.
TaskSettleUnavailable(t, a) ==
    /\ task[t] = "settle"
    /\ Fault
    /\ UNCHANGED vars \/ Settle(CidOf(t), a, BudgetCurrency)
    /\ Adrift(t)
    /\ Finish(t, "raised")
    /\ UNCHANGED <<placement, cache, answered>>

\* Mutant: the call that cannot be costed keeps its hold.
TaskReleaseForgotten(t) ==
    /\ task[t] \in {"releaseFailed", "releaseDefect"}
    /\ Finish(t, "not_accountable")
    /\ UNCHANGED <<vars, placement, cache, answered, adrift, faults>>

\* ReservationService.release of a reservation this task has seen RESERVED.
TaskRelease(t) ==
    /\ task[t] \in {"releaseFailed", "releaseDefect"}
    /\ Release(CidOf(t)) \/ ReleaseReplay(CidOf(t))
    /\ Finish(t, IF task[t] = "releaseFailed" THEN "provider_failed" ELSE "not_accountable")
    /\ UNCHANGED <<placement, cache, answered, adrift, faults>>

TaskReleaseUnavailable(t) ==
    /\ task[t] \in {"releaseFailed", "releaseDefect"}
    /\ Fault
    /\ UNCHANGED vars \/ Release(CidOf(t))
    /\ Adrift(t)
    /\ Finish(t, "raised")
    /\ UNCHANGED <<placement, cache, answered>>

\* _safe_put: the answer is delivered, cached or not.
TaskPut(t) ==
    /\ task[t] = "put"
    /\ CachePut(KeyOf[t])
    /\ Finish(t, "executed")
    /\ UNCHANGED <<vars, placement, answered, adrift>>

-----------------------------------------------------------------------------
(* The environment.                                                        *)

\* A replica dies: its tasks and its callers are gone, what they held stays.
Crash(p) ==
    /\ \E r \in Requests : ReplicaOf(r) = p /\ (Live(r) \/ phase[r] = "awaiting")
    /\ Fault
    /\ task' = [r \in Requests |->
                   IF ReplicaOf(r) = p /\ Live(r) THEN "ended" ELSE task[r]]
    /\ phase' = [r \in Requests |->
                   IF ReplicaOf(r) = p /\ phase[r] # "new" THEN "ended" ELSE phase[r]]
    /\ outcome' = [r \in Requests |->
                   IF ReplicaOf(r) = p /\ phase[r] \notin {"new", "ended"}
                   THEN "crashed" ELSE outcome[r]]
    /\ inFlight' = [k \in Replicas \X Cids |-> IF k[1] = p THEN NoTask ELSE inFlight[k]]
    /\ adrift' = adrift \cup {CidOf(t) : t \in {r \in Requests : ReplicaOf(r) = p /\ Live(r)}}
    /\ UNCHANGED <<vars, placement, awaits, cache, answered>>

\* The organization's other traffic: every reservation of it sweeps first.
OtherTraffic ==
    /\ Stale(now - TTL) # {}
    /\ Reclaim(now, Stale(now - TTL))
    /\ UNCHANGED coordVars

CoordTick == Tick /\ UNCHANGED coordVars

-----------------------------------------------------------------------------

Handler(r) == NotRouted(r) \/ CacheHit(r) \/ CacheMiss(r) \/ Coalesce(r)

TaskStep(t) ==
    \/ TaskReclaim(t) \/ TaskUnpriced(t) \/ TaskExecute(t) \/ TaskDefect(t)
    \/ \E a \in Amounts, cur \in Currencies :
           TaskReserved(t, a, cur) \/ TaskRefused(t, a, cur) \/ TaskSettled(t, a, cur)
    \/ \E cur \in Currencies : TaskSettleRaises(t, cur)
    \/ TaskRelease(t) \/ TaskPut(t)

TaskFault(t) ==
    \/ TaskReclaimUnavailable(t) \/ TaskPriceUnavailable(t)
    \/ \E a \in Amounts : TaskReserveUnavailable(t, a) \/ TaskSettleUnavailable(t, a)
    \/ TaskReleaseUnavailable(t)

CoordNext ==
    \/ \E r \in Requests : Arrive(r) \/ Handler(r) \/ Cancel(r) \/ TaskStep(r) \/ TaskFault(r)
    \/ \E p \in Replicas : Crash(p)
    \/ OtherTraffic
    \/ CoordTick

\* The event loop runs every handler and task that can go on; provider calls
\* and database calls end, by their timeouts if need be.  The organization
\* keeps sending requests, and time passes.
CoordSpec ==
    /\ CoordInit
    /\ [][CoordNext]_allVars
    /\ \A r \in Requests : WF_allVars(Handler(r)) /\ WF_allVars(TaskStep(r))
    /\ WF_allVars(OtherTraffic)
    /\ WF_allVars(CoordTick)

-----------------------------------------------------------------------------
(* Properties.                                                             *)

\* No hold is left behind in silence: a hold that is reserved belongs to a
\* task that is still running for its id, unless a crash, a ledger failure or
\* an error that escaped the coordinator has set it adrift.
HoldsAreOwned ==
    \A c \in Cids : row[c].status = "reserved" =>
        \/ c \in adrift
        \/ \E t \in Requests : Live(t) /\ CidOf(t) = c /\ task[t] \notin {"reclaim", "reserve"}

\* A provider call runs against money that is held, unless another task has
\* used the same id or the hold has outlived the ttl: "reserve must succeed
\* before ProviderExecutor is invoked" (ports/ledger.py).
HoldCoversCall ==
    \A t \in Requests : task[t] = "execute" =>
        \/ row[CidOf(t)].status = "reserved"
        \/ now - heldAt[CidOf(t)] > TTL
        \/ \E s \in Requests \ {t} : CidOf(s) = CidOf(t) /\ task[s] # "none"

\* Only responses that are accounted for are cached, whatever races with the
\* settlement: a cached key has a cost_ledger entry behind it.
CachedIsAccounted ==
    \A k \in cache : \E t \in answered : KeyOf[t] = k /\ costLedger[CidOf(t)] # NoEntry

\* Every caller gets an answer, joins a crash or gives up: coalescing never
\* leaves a caller awaiting a task nobody runs.
CallersAreAnswered ==
    \A r \in Requests : phase[r] = "lookup" ~> phase[r] = "ended"

\* A hold that nobody returns is reclaimed once it is older than the ttl, so
\* long as the organization sends requests ("the money held forever",
\* reservation_reconciler.py).  The clock is bounded, so only holds that can
\* grow old before it stops are considered.
AbandonedHoldsReturn ==
    \A c \in Cids :
        row[c].status = "reserved" /\ row[c].createdAt + TTL < MaxClock
            ~> row[c].status # "reserved"

=============================================================================
