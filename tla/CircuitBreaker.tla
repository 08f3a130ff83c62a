--------------------------- MODULE CircuitBreaker ---------------------------
(***************************************************************************)
(* The circuit breaker of one organization and everything that reads or    *)
(* feeds it: the HealthAgent assesses it and the health tiered strategy    *)
(* picks a provider when a request is routed, the coordinators report      *)
(* every provider call, and the ReflectiveExecutor calls the same provider *)
(* again without assessing it again (adapters/health/                      *)
(* in_memory_circuit_breaker.py, application/agents, application/routing,  *)
(* application/reflection).                                                *)
(*                                                                         *)
(* The circuits are keyed by organization and provider, so one             *)
(* organization's are modelled.  A provider without a circuit behaves as   *)
(* one whose circuit is closed and empty.                                  *)
(***************************************************************************)
EXTENDS Integers

CONSTANTS
    Providers,        \* the catalog; the order of the numbers is that of the names
    Requests,         \* request handlers, each serving one request after the other
    FailureThreshold, \* CircuitBreakerConfig.failure_threshold
    Cooldown,         \* CircuitBreakerConfig.cooldown, in clock ticks
    MaxAttempts,      \* RetryPolicy.max_attempts
    MaxClock,         \* bound: the clock stops here
    Never             \* None, where a time could be

ASSUME BreakerAssumption ==
    /\ Providers \subseteq Nat
    /\ FailureThreshold \in Nat \ {0}
    /\ Cooldown \in Nat
    /\ MaxAttempts \in Nat \ {0}
    /\ MaxClock \in Nat
    /\ Never \notin Nat

VARIABLES
    circuit, \* _circuits: [state, failures, openedAt] by provider
    request, \* [at, provider, attempt, probe] by handler
    clock,   \* Clock.now()
    streak   \* history: transient faults of a provider since its last success

breakerVars == <<circuit, request, clock, streak>>

-----------------------------------------------------------------------------
(* State.                                                                  *)

CircuitState == {"closed", "open", "half_open"}

Circuit == [state : CircuitState, failures : Nat, openedAt : (0..MaxClock) \cup {Never}]

ClosedCircuit == [state |-> "closed", failures |-> 0, openedAt |-> Never]

Request == [at : {"idle", "routed", "calling"}, provider : Providers \cup {Never},
            attempt : 0..MaxAttempts, probe : BOOLEAN]

Idle == [at |-> "idle", provider |-> Never, attempt |-> 0, probe |-> FALSE]

BreakerInit ==
    /\ circuit = [p \in Providers |-> ClosedCircuit]
    /\ request = [r \in Requests |-> Idle]
    /\ clock = 0
    /\ streak = [p \in Providers |-> 0]

-----------------------------------------------------------------------------
(* assess, HealthAgent and HealthTieredRoutingStrategy.                    *)

\* Mutant: the cooldown is compared the wrong way round.
CooledEarly(c) == c.state = "open" /\ c.openedAt # Never /\ clock - c.openedAt <= Cooldown

Cooled(c) == c.state = "open" /\ c.openedAt # Never /\ clock - c.openedAt >= Cooldown

\* Mutant: assess only reads.
AssessedReadOnly(c) == c

\* What assess leaves of a circuit: the time driven OPEN -> HALF_OPEN.
Assessed(c) == IF Cooled(c) THEN [c EXCEPT !.state = "half_open"] ELSE c

Healthy(cs) == {p \in Providers : cs[p].state = "closed"}
Degraded(cs) == {p \in Providers : cs[p].state = "half_open"}

\* The tier the strategy chooses from: healthy before degraded.
Preferred(cs) == IF Healthy(cs) # {} THEN Healthy(cs) ELSE Degraded(cs)

\* AgentRuntime.decide up to the selection.  The health agent and the
\* provider agent run without an await that suspends in between.
Route(r) ==
    LET assessed == [p \in Providers |-> Assessed(circuit[p])]
    IN  /\ request[r].at = "idle"
        /\ circuit' = assessed
        /\ \E p \in Preferred(assessed) :
               /\ \A q \in Preferred(assessed) : p <= q
               /\ request' = [request EXCEPT ![r] =
                      [at |-> "routed", provider |-> p, attempt |-> 0,
                       probe |-> assessed[p].state = "half_open"]]
        /\ UNCHANGED <<clock, streak>>

\* ALL_UNHEALTHY (or NO_CANDIDATE): nothing to select.
RouteNowhere(r) ==
    LET assessed == [p \in Providers |-> Assessed(circuit[p])]
    IN  /\ request[r].at = "idle"
        /\ Preferred(assessed) = {}
        /\ circuit' = assessed
        /\ UNCHANGED <<request, clock, streak>>

-----------------------------------------------------------------------------
(* One attempt: a coordinator calls the provider and observes the result.  *)

\* A cache hit, a refused reservation or a cancellation: no call is made.
NoCall(r) ==
    /\ request[r].at = "routed"
    /\ request' = [request EXCEPT ![r] = Idle]
    /\ UNCHANGED <<circuit, clock, streak>>

Call(r) ==
    /\ request[r].at = "routed"
    /\ request' = [request EXCEPT ![r].at = "calling", ![r].attempt = @ + 1]
    /\ UNCHANGED <<circuit, clock, streak>>

\* _trip.
Trip(c) == [c EXCEPT !.state = "open", !.openedAt = clock]

\* Mutant: a success leaves the failures of a closed circuit alone.
SucceededForgetful(c) == IF c.state = "closed" THEN c ELSE ClosedCircuit

\* _on_success, in any state.
Succeeded(c) == ClosedCircuit

\* _on_transient_failure.
Failed(c) ==
    LET counted == [c EXCEPT !.failures = @ + 1]
    IN  CASE c.state = "half_open" -> Trip(c)
          [] c.state = "closed" /\ counted.failures >= FailureThreshold -> Trip(counted)
          [] OTHER -> counted

CallSucceeds(r) ==
    LET p == request[r].provider
    IN  /\ request[r].at = "calling"
        /\ circuit' = [circuit EXCEPT ![p] = Succeeded(@)]
        /\ streak' = [streak EXCEPT ![p] = 0]
        /\ request' = [request EXCEPT ![r] = Idle]
        /\ UNCHANGED clock

\* A timeout, a rate limit or a server error: classify says RETRY, and the
\* ReflectiveExecutor tries the same provider while it has attempts left.
CallFaults(r) ==
    LET p == request[r].provider
    IN  /\ request[r].at = "calling"
        /\ circuit' = [circuit EXCEPT ![p] = Failed(@)]
        /\ streak' = [streak EXCEPT ![p] = @ + 1]
        /\ request' = [request EXCEPT ![r] =
               IF request[r].attempt < MaxAttempts THEN [@ EXCEPT !.at = "routed"] ELSE Idle]
        /\ UNCHANGED clock

\* Any other failure is no evidence and is not retried; a stream the client
\* has left, or a call whose replica gave up on it, is not observed at all.
CallIgnored(r) ==
    /\ request[r].at = "calling"
    /\ request' = [request EXCEPT ![r] = Idle]
    /\ UNCHANGED <<circuit, clock, streak>>

BreakerTick ==
    /\ clock < MaxClock
    /\ clock' = clock + 1
    /\ UNCHANGED <<circuit, request, streak>>

-----------------------------------------------------------------------------

Routing(r) == Route(r) \/ RouteNowhere(r)

Attempt(r) == NoCall(r) \/ Call(r) \/ CallSucceeds(r) \/ CallFaults(r) \/ CallIgnored(r)

BreakerNext ==
    \/ \E r \in Requests : Routing(r) \/ Attempt(r)
    \/ BreakerTick

\* Requests keep coming and are routed, calls end (by their timeouts if need
\* be) and time passes.
BreakerSpec ==
    /\ BreakerInit
    /\ [][BreakerNext]_breakerVars
    /\ \A r \in Requests : WF_breakerVars(Routing(r)) /\ WF_breakerVars(Attempt(r))
    /\ WF_breakerVars(BreakerTick)

-----------------------------------------------------------------------------
(* Properties.                                                             *)

\* Every circuit and every request has its type, and a request that is to be
\* called has an attempt left.
BreakerTypeOK ==
    /\ circuit \in [Providers -> Circuit]
    /\ request \in [Requests -> Request]
    /\ \A r \in Requests : /\ request[r].at # "idle" => request[r].provider \in Providers
                           /\ request[r].at = "routed" => request[r].attempt < MaxAttempts
    /\ clock \in 0..MaxClock
    /\ streak \in [Providers -> Nat]

\* The breaker implements its rule: a circuit is closed exactly when fewer
\* than failure_threshold transient faults have been observed since the last
\* success, whatever calls, probes and retries overlap and in whatever order
\* their results arrive.
ClosedIffShortStreak ==
    \A p \in Providers : circuit[p].state = "closed" <=> streak[p] < FailureThreshold

\* A circuit that is not closed knows when it opened (or it could never
\* half-open), and only such a circuit does.
OpenSinceKnown ==
    \A p \in Providers : circuit[p].state # "closed" <=> circuit[p].openedAt # Never

\* No request is routed to a provider whose circuit opened less than a
\* cooldown ago.
NoAdmissionWhileCooling ==
    [][\A r \in Requests :
          request[r].at = "idle" /\ request'[r].at = "routed" =>
              LET c == circuit[request'[r].provider]
              IN  c.state = "open" => clock - c.openedAt >= Cooldown]_breakerVars

\* "a provider that just returned five timeouts is excluded automatically, and
\* re-admitted automatically" (HealthAgent): an open circuit does not stay open,
\* so long as requests arrive.  The clock is bounded: only circuits whose
\* cooldown ends before it stops are considered.
OpenCircuitsReopenToTraffic ==
    \A p \in Providers :
        circuit[p].state = "open" /\ circuit[p].openedAt + Cooldown <= MaxClock
            ~> circuit[p].state # "open"

=============================================================================
