--------------------------- MODULE ProviderProofs ---------------------------
(***************************************************************************)
(* Proofs about the two components on the provider's side of the gateway.  *)
(* CircuitBreaker: for every number of providers, handlers and attempts,   *)
(* every threshold and every cooldown.  ProviderStream: for every set of   *)
(* texts and usage reports and an answer of any length.                    *)
(*                                                                         *)
(* The two share no variable.  Init, Next, Spec and vars are those of      *)
(* ProviderStream; the breaker's have its name in theirs.                  *)
(***************************************************************************)
EXTENDS CircuitBreaker, ProviderStream, SequenceTheorems, TLAPS

-----------------------------------------------------------------------------
(* The circuit breaker.                                                    *)

(* What every circuit satisfies together with the faults seen since the    *)
(* last success: a closed circuit has counted exactly those and fewer than *)
(* the threshold; one that is not closed has seen at least that many and   *)
(* knows when it opened.                                                   *)
CircuitInv(c, n) ==
    /\ c.state = "closed" => c.failures = n /\ n < FailureThreshold /\ c.openedAt = Never
    /\ c.state # "closed" => n >= FailureThreshold /\ c.openedAt # Never

BreakerInv == BreakerTypeOK /\ \A p \in Providers : CircuitInv(circuit[p], streak[p])

-----------------------------------------------------------------------------

(* Assessing a circuit keeps its type and what CircuitInv says of it, and  *)
(* half-opens it only when it has cooled.                                  *)
LEMMA AssessedCircuit ==
    ASSUME NEW c \in Circuit, NEW n \in Nat, CircuitInv(c, n), clock \in 0..MaxClock
    PROVE  /\ Assessed(c) \in Circuit
           /\ CircuitInv(Assessed(c), n)
           /\ Assessed(c).openedAt = c.openedAt
           /\ Assessed(c).state # c.state => clock - c.openedAt >= Cooldown
  BY DEF Assessed, Cooled, Circuit, CircuitState, CircuitInv

(* A success closes a circuit and starts its count afresh.                 *)
LEMMA SucceededCircuit ==
    ASSUME NEW c \in Circuit
    PROVE  Succeeded(c) \in Circuit /\ CircuitInv(Succeeded(c), 0)
  BY BreakerAssumption DEF Succeeded, ClosedCircuit, Circuit, CircuitState, CircuitInv

(* A transient fault is counted, and trips the circuit when it must.       *)
LEMMA FailedCircuit ==
    ASSUME NEW c \in Circuit, NEW n \in Nat, CircuitInv(c, n), clock \in 0..MaxClock
    PROVE  Failed(c) \in Circuit /\ CircuitInv(Failed(c), n + 1)
<1> DEFINE counted == [c EXCEPT !.failures = @ + 1]
<1>1. counted \in Circuit /\ counted.state = c.state /\ counted.failures = c.failures + 1
         /\ counted.openedAt = c.openedAt
  BY DEF Circuit, CircuitState
<1>2. clock \in Nat /\ clock # Never
  BY BreakerAssumption
<1>3. CASE c.state = "half_open"
  <2>1. Failed(c) = Trip(c)
    BY <1>3 DEF Failed
  <2>2. Trip(c) \in Circuit /\ Trip(c).state = "open" /\ Trip(c).openedAt = clock
    BY DEF Trip, Circuit, CircuitState
  <2> QED
    BY <1>2, <1>3, <2>1, <2>2, BreakerAssumption DEF CircuitInv
<1>4. CASE c.state = "closed" /\ counted.failures >= FailureThreshold
  <2>1. Failed(c) = Trip(counted)
    BY <1>4 DEF Failed
  <2>2. Trip(counted) \in Circuit /\ Trip(counted).state = "open"
           /\ Trip(counted).openedAt = clock
    BY <1>1 DEF Trip, Circuit, CircuitState
  <2> QED
    BY <1>1, <1>2, <1>4, <2>1, <2>2, BreakerAssumption DEF CircuitInv
<1>5. CASE c.state = "closed" /\ ~(counted.failures >= FailureThreshold)
  <2>1. Failed(c) = counted
    BY <1>5 DEF Failed
  <2> QED
    BY <1>1, <1>5, <2>1, BreakerAssumption DEF CircuitInv, Circuit
<1>6. CASE c.state = "open"
  <2>1. Failed(c) = counted
    BY <1>6 DEF Failed
  <2> QED
    BY <1>1, <1>6, <2>1, BreakerAssumption DEF CircuitInv, Circuit
<1> QED
  BY <1>3, <1>4, <1>5, <1>6 DEF Circuit, CircuitState

-----------------------------------------------------------------------------

(* The invariant holds initially.                                          *)
LEMMA BreakerInvInit == BreakerInit => BreakerInv
<1> SUFFICES ASSUME BreakerInit PROVE BreakerInv
  OBVIOUS
<1>1. ClosedCircuit \in Circuit /\ CircuitInv(ClosedCircuit, 0)
  BY BreakerAssumption DEF ClosedCircuit, Circuit, CircuitState, CircuitInv
<1>2. Idle \in Request /\ Idle.at = "idle"
  BY BreakerAssumption DEF Idle, Request
<1> QED
  BY <1>1, <1>2, BreakerAssumption DEF BreakerInit, BreakerInv, BreakerTypeOK

(* Every step preserves it.                                                *)
LEMMA BreakerInvStep == BreakerInv /\ [BreakerNext]_breakerVars => BreakerInv'
<1> SUFFICES ASSUME BreakerInv, [BreakerNext]_breakerVars PROVE BreakerInv'
  OBVIOUS
<1> USE DEF BreakerInv
<1>a. Idle \in Request /\ Idle.at = "idle"
  BY BreakerAssumption DEF Idle, Request
<1>1. ASSUME NEW r \in Requests, Route(r) PROVE BreakerInv'
  <2> DEFINE assessed == [p \in Providers |-> Assessed(circuit[p])]
  <2>1. /\ assessed \in [Providers -> Circuit]
        /\ \A p \in Providers : CircuitInv(assessed[p], streak[p])
    BY AssessedCircuit DEF BreakerTypeOK
  <2>2. PICK p \in Preferred(assessed) :
           request' = [request EXCEPT ![r] =
                      [at |-> "routed", provider |-> p, attempt |-> 0,
                       probe |-> assessed[p].state = "half_open"]]
    BY <1>1 DEF Route
  <2>3. p \in Providers
    BY <2>2 DEF Preferred, Healthy, Degraded
  <2> DEFINE chosen == [at |-> "routed", provider |-> p, attempt |-> 0,
                        probe |-> assessed[p].state = "half_open"]
  <2>4. /\ chosen \in Request
        /\ chosen.provider \in Providers
        /\ chosen.attempt < MaxAttempts
    BY <2>3, BreakerAssumption DEF Request
  <2>5. request' = [request EXCEPT ![r] = chosen]
    BY <2>2
  <2> HIDE DEF chosen
  <2>6. /\ request' \in [Requests -> Request]
        /\ \A q \in Requests : /\ request'[q].at # "idle" => request'[q].provider \in Providers
                               /\ request'[q].at = "routed" => request'[q].attempt < MaxAttempts
    BY <2>4, <2>5 DEF BreakerTypeOK
  <2>7. circuit' = assessed /\ UNCHANGED <<clock, streak>>
    BY <1>1 DEF Route
  <2> HIDE DEF assessed
  <2> QED
    BY <2>1, <2>6, <2>7 DEF BreakerTypeOK
<1>2. ASSUME NEW r \in Requests, RouteNowhere(r) PROVE BreakerInv'
  BY <1>2, AssessedCircuit DEF RouteNowhere, BreakerTypeOK
<1>3. ASSUME NEW r \in Requests, NoCall(r) PROVE BreakerInv'
  BY <1>3, <1>a DEF NoCall, BreakerTypeOK
<1>4. ASSUME NEW r \in Requests, Call(r) PROVE BreakerInv'
  <2>1. request[r].attempt < MaxAttempts
    BY <1>4 DEF Call, BreakerTypeOK
  <2> QED
    BY <1>4, <2>1, BreakerAssumption DEF Call, BreakerTypeOK, Request
<1>5. ASSUME NEW r \in Requests, CallSucceeds(r) PROVE BreakerInv'
  BY <1>5, <1>a, SucceededCircuit DEF CallSucceeds, BreakerTypeOK
<1>6. ASSUME NEW r \in Requests, CallFaults(r) PROVE BreakerInv'
  <2> DEFINE p == request[r].provider
             next == IF request[r].attempt < MaxAttempts
                     THEN [request[r] EXCEPT !.at = "routed"] ELSE Idle
  <2>1. p \in Providers /\ request[r] \in Request
    BY <1>6 DEF CallFaults, BreakerTypeOK
  <2>2. /\ circuit' = [circuit EXCEPT ![p] = Failed(circuit[p])]
        /\ streak' = [streak EXCEPT ![p] = streak[p] + 1]
        /\ request' = [request EXCEPT ![r] = next]
        /\ clock' = clock
    BY <1>6 DEF CallFaults
  <2>3. /\ next \in Request
        /\ next.at # "idle" => next.provider \in Providers
        /\ next.at = "routed" => next.attempt < MaxAttempts
    BY <2>1, <1>a DEF Request
  <2> HIDE DEF next
  <2>4. /\ request' \in [Requests -> Request]
        /\ \A q \in Requests : /\ request'[q].at # "idle" => request'[q].provider \in Providers
                               /\ request'[q].at = "routed" => request'[q].attempt < MaxAttempts
    BY <2>2, <2>3 DEF BreakerTypeOK
  <2>5. Failed(circuit[p]) \in Circuit /\ CircuitInv(Failed(circuit[p]), streak[p] + 1)
    BY <2>1, FailedCircuit DEF BreakerTypeOK
  <2>6. /\ circuit' \in [Providers -> Circuit]
        /\ streak' \in [Providers -> Nat]
        /\ \A q \in Providers : CircuitInv(circuit'[q], streak'[q])
    BY <2>1, <2>2, <2>5 DEF BreakerTypeOK
  <2> QED
    BY <2>2, <2>4, <2>6 DEF BreakerTypeOK
<1>7. ASSUME NEW r \in Requests, CallIgnored(r) PROVE BreakerInv'
  BY <1>7, <1>a DEF CallIgnored, BreakerTypeOK
<1>8. CASE BreakerTick
  BY <1>8, BreakerAssumption DEF BreakerTick, BreakerTypeOK
<1>9. CASE UNCHANGED breakerVars
  BY <1>9 DEF breakerVars, BreakerTypeOK
<1> QED
  BY <1>1, <1>2, <1>3, <1>4, <1>5, <1>6, <1>7, <1>8, <1>9
     DEF BreakerNext, Routing, Attempt

-----------------------------------------------------------------------------

(* BreakerInv is an invariant of the breaker and its callers.              *)
THEOREM BreakerInvariance == BreakerSpec => []BreakerInv
  BY BreakerInvInit, BreakerInvStep, PTL DEF BreakerSpec

(* Type correctness.                                                       *)
THEOREM BreakerTypeCorrect == BreakerSpec => []BreakerTypeOK
<1>1. BreakerInv => BreakerTypeOK
  BY DEF BreakerInv
<1> QED
  BY <1>1, BreakerInvariance, PTL

(* The breaker implements its rule: closed means fewer than the threshold  *)
(* of transient faults since the last success.                             *)
THEOREM BreakerFollowsItsRule == BreakerSpec => []ClosedIffShortStreak
<1>1. ASSUME BreakerInv PROVE ClosedIffShortStreak
  <2> SUFFICES ASSUME NEW p \in Providers
               PROVE  circuit[p].state = "closed" <=> streak[p] < FailureThreshold
    BY DEF ClosedIffShortStreak
  <2>1. streak[p] \in Nat /\ CircuitInv(circuit[p], streak[p])
    BY <1>1 DEF BreakerInv, BreakerTypeOK
  <2> QED
    BY <2>1, BreakerAssumption DEF CircuitInv
<1> QED
  BY <1>1, BreakerInvariance, PTL

(* Every circuit that is not closed knows when it opened.                  *)
THEOREM BreakerKnowsWhenItOpened == BreakerSpec => []OpenSinceKnown
<1>1. BreakerInv => OpenSinceKnown
  BY DEF BreakerInv, CircuitInv, OpenSinceKnown
<1> QED
  BY <1>1, BreakerInvariance, PTL

(* The excluded provider gets no traffic until its cooldown is over.       *)
THEOREM CoolingProvidersAreSpared == BreakerSpec => NoAdmissionWhileCooling
<1> DEFINE Spared ==
       \A r \in Requests :
          request[r].at = "idle" /\ request'[r].at = "routed" =>
              LET c == circuit[request'[r].provider]
              IN  c.state = "open" => clock - c.openedAt >= Cooldown
<1>1. BreakerInv /\ [BreakerNext]_breakerVars => [Spared]_breakerVars
  <2> SUFFICES ASSUME BreakerInv, BreakerNext,
                      NEW r \in Requests,
                      request[r].at = "idle", request'[r].at = "routed",
                      circuit[request'[r].provider].state = "open"
               PROVE  clock - circuit[request'[r].provider].openedAt >= Cooldown
    OBVIOUS
  <2>1. Route(r)
    <3>1. ASSUME NEW q \in Requests, Attempt(q) \/ RouteNowhere(q) PROVE FALSE
      <4>1. request \in [Requests -> Request]
        BY DEF BreakerInv, BreakerTypeOK
      <4>2. Idle.at = "idle"
        BY DEF Idle
      <4> QED
        BY <3>1, <4>1, <4>2
           DEF Attempt, NoCall, Call, CallSucceeds, CallFaults, CallIgnored, RouteNowhere,
               Request
    <3>2. ASSUME NEW q \in Requests, Route(q) PROVE q = r
      BY <3>2 DEF Route, BreakerInv, BreakerTypeOK
    <3>3. ~BreakerTick
      BY DEF BreakerTick
    <3> QED
      BY <3>1, <3>2, <3>3 DEF BreakerNext, Routing
  <2> DEFINE assessed == [p \in Providers |-> Assessed(circuit[p])]
  <2>2. PICK p \in Preferred(assessed) :
           request' = [request EXCEPT ![r] =
                      [at |-> "routed", provider |-> p, attempt |-> 0,
                       probe |-> assessed[p].state = "half_open"]]
    BY <2>1 DEF Route
  <2>3. p \in Providers /\ assessed[p].state # "open"
    BY <2>2 DEF Preferred, Healthy, Degraded
  <2>4. request'[r].provider = p
    BY <2>2 DEF BreakerInv, BreakerTypeOK
  <2>5. Assessed(circuit[p]).state # circuit[p].state
    BY <2>3, <2>4
  <2>6. circuit[p] \in Circuit /\ streak[p] \in Nat /\ clock \in 0..MaxClock
           /\ CircuitInv(circuit[p], streak[p])
    BY <2>3 DEF BreakerInv, BreakerTypeOK
  <2> QED
    BY <2>4, <2>5, <2>6, AssessedCircuit
<1>2. BreakerSpec => [][Spared]_breakerVars
  BY <1>1, BreakerInvariance, PTL DEF BreakerSpec
<1> QED
  BY <1>2 DEF NoAdmissionWhileCooling

-----------------------------------------------------------------------------
(* What is on the wire.                                                    *)

\* The lines w are on their way to a reader that has taken n pieces of text
\* and seen the usage v, when the provider has said s legibly and reported r:
\* p and u say how many pieces and which usage it will have after each line,
\* and every piece is the next one of s.  If the end has not been lost, the
\* reader will have all of s and the last report.
Track(p, u, w, n, v, s) ==
    /\ p \in [0..Len(w) -> Nat]
    /\ u \in [0..Len(w) -> Usages \cup {None}]
    /\ p[0] = n /\ u[0] = v
    /\ \A i \in 1..Len(w) :
        /\ Piece(w[i]) = None => p[i] = p[i - 1]
        /\ Piece(w[i]) # None => /\ p[i] = p[i - 1] + 1
                                 /\ p[i] <= Len(s)
                                 /\ Piece(w[i]) = s[p[i]]
        /\ w[i].usage = None => u[i] = u[i - 1]
        /\ w[i].usage # None => u[i] = w[i].usage

Transit(w, n, v, s, r, whole) ==
    \E p, u : /\ Track(p, u, w, n, v, s)
              /\ whole => p[Len(w)] = Len(s) /\ u[Len(w)] = r

\* What a line's fields are.
LEMMA LineType ==
    ASSUME NEW l \in Lines
    PROVE  /\ l.kind \in {"comment", "done", "junk", "event", "odd"}
           /\ l.text \in Texts \cup {None} /\ Piece(l) \in Texts \cup {None}
           /\ l.usage \in Usages \cup {None}
           /\ l.kind = "done" => l.text = None /\ l.usage = None
           /\ l.kind = "comment" => l.text = None /\ l.usage = None
           /\ l.kind = "odd" => l.text \in Texts
           /\ Piece(l) = IF l.kind = "odd" THEN None ELSE l.text
BY DEF Lines, Piece

\* Nothing is on its way to a reader that has everything.
LEMMA TransitEmpty ==
    ASSUME NEW n \in Nat, NEW v \in Usages \cup {None}, NEW s, NEW r,
           NEW whole \in BOOLEAN, whole => n = Len(s) /\ v = r
    PROVE  Transit(<<>>, n, v, s, r, whole)
<1> DEFINE p == [i \in 0..0 |-> n]
           u == [i \in 0..0 |-> v]
<1>1. Len(<<>>) = 0 /\ 1..0 = {} /\ 0 \in 0..0
  OBVIOUS
<1>2. Track(p, u, <<>>, n, v, s)
  BY <1>1 DEF Track
<1>3. whole => p[Len(<<>>)] = Len(s) /\ u[Len(<<>>)] = r
  BY <1>1
<1> HIDE DEF p, u
<1> QED BY <1>2, <1>3 DEF Transit

\* A whole transit of nothing has ended.
LEMMA TransitEnded ==
    ASSUME NEW n, NEW v, NEW s, NEW r, Transit(<<>>, n, v, s, r, TRUE)
    PROVE  n = Len(s) /\ v = r
BY DEF Transit, Track

\* The provider sends a line.
LEMMA TransitSend ==
    ASSUME NEW w \in Seq(Lines), NEW l \in Lines, NEW n \in Nat,
           NEW v \in Usages \cup {None}, NEW s \in Seq(Texts), NEW r,
           NEW whole \in BOOLEAN, Transit(w, n, v, s, r, whole), whole
    PROVE  Transit(Append(w, l), n, v,
                   IF Piece(l) = None THEN s ELSE Append(s, Piece(l)),
                   IF l.usage = None THEN r ELSE l.usage, TRUE)
<1> DEFINE m == Len(w)
           x == Append(w, l)
           t == IF Piece(l) = None THEN s ELSE Append(s, Piece(l))
           q == IF l.usage = None THEN r ELSE l.usage
<1>1. PICK p, u : Track(p, u, w, n, v, s) /\ p[m] = Len(s) /\ u[m] = r
  BY DEF Transit
<1> DEFINE pp == [i \in 0..(m + 1) |-> IF i = m + 1 THEN Len(t) ELSE p[i]]
           uu == [i \in 0..(m + 1) |-> IF i = m + 1 THEN q ELSE u[i]]
<1>2. /\ m \in Nat /\ Len(x) = m + 1 /\ x \in Seq(Lines)
      /\ \A i \in 1..m : x[i] = w[i]
      /\ x[m + 1] = l
  OBVIOUS
<1>3. Piece(l) \in Texts \cup {None} /\ l.usage \in Usages \cup {None}
  BY LineType
<1>4. /\ Len(s) \in Nat /\ Len(t) \in Nat
      /\ Piece(l) = None => Len(t) = Len(s)
      /\ Piece(l) # None => Len(t) = Len(s) + 1 /\ t[Len(t)] = Piece(l)
      /\ \A i \in 1..Len(s) : t[i] = s[i]
      /\ Len(s) <= Len(t)
  BY <1>3
<1>5. /\ p \in [0..m -> Nat] /\ u \in [0..m -> Usages \cup {None}]
      /\ p[0] = n /\ u[0] = v
      /\ p[m] = Len(s) /\ u[m] = r /\ r \in Usages \cup {None}
  BY <1>1, <1>2 DEF Track
<1>6. q \in Usages \cup {None}
  BY <1>3, <1>5
<1> HIDE DEF t, q, x, m
<1>7. /\ pp \in [0..(m + 1) -> Nat] /\ uu \in [0..(m + 1) -> Usages \cup {None}]
      /\ pp[0] = n /\ uu[0] = v
      /\ pp[m + 1] = Len(t) /\ uu[m + 1] = q
      /\ \A i \in 0..m : pp[i] = p[i] /\ uu[i] = u[i]
  BY <1>2, <1>4, <1>5, <1>6
<1> HIDE DEF pp, uu
<1>8. ASSUME NEW i \in 1..(m + 1)
      PROVE  /\ Piece(x[i]) = None => pp[i] = pp[i - 1]
             /\ Piece(x[i]) # None => /\ pp[i] = pp[i - 1] + 1
                                      /\ pp[i] <= Len(t)
                                      /\ Piece(x[i]) = t[pp[i]]
             /\ x[i].usage = None => uu[i] = uu[i - 1]
             /\ x[i].usage # None => uu[i] = x[i].usage
  <2>1. CASE i = m + 1
    <3>1. x[i] = l /\ pp[i] = Len(t) /\ uu[i] = q /\ i - 1 = m /\ m \in 0..m
      BY <1>2, <1>7, <2>1
    <3>2. pp[i - 1] = Len(s) /\ uu[i - 1] = r
      BY <1>5, <1>7, <3>1
    <3> QED BY <1>4, <3>1, <3>2 DEF q
  <2>2. CASE i \in 1..m
    <3>1. i \in 0..m /\ i - 1 \in 0..m /\ x[i] = w[i]
      BY <1>2, <2>2
    <3>2. /\ Piece(w[i]) = None => p[i] = p[i - 1]
          /\ Piece(w[i]) # None => /\ p[i] = p[i - 1] + 1
                                   /\ p[i] <= Len(s)
                                   /\ Piece(w[i]) = s[p[i]]
          /\ w[i].usage = None => u[i] = u[i - 1]
          /\ w[i].usage # None => u[i] = w[i].usage
      BY <1>1, <2>2 DEF Track, m
    <3>3. p[i] \in Nat /\ p[i - 1] \in Nat /\ pp[i] = p[i] /\ pp[i - 1] = p[i - 1]
            /\ uu[i] = u[i] /\ uu[i - 1] = u[i - 1]
      BY <1>5, <1>7, <3>1
    <3>4. Piece(w[i]) # None => p[i] \in 1..Len(s) /\ t[p[i]] = s[p[i]]
      BY <1>4, <3>2, <3>3
    <3> QED BY <1>4, <3>1, <3>2, <3>3, <3>4
  <2> QED BY <1>2, <2>1, <2>2
<1>9. Track(pp, uu, x, n, v, t)
  BY <1>2, <1>7, <1>8 DEF Track
<1>10. pp[Len(x)] = Len(t) /\ uu[Len(x)] = q
  BY <1>2, <1>7
<1> QED BY <1>9, <1>10 DEF Transit, t, q, x

\* A line is read.
LEMMA TransitRead ==
    ASSUME NEW w \in Seq(Lines), w # <<>>, NEW n \in Nat,
           NEW v \in Usages \cup {None}, NEW s \in Seq(Texts), NEW r,
           NEW whole \in BOOLEAN, Transit(w, n, v, s, r, whole)
    PROVE  /\ Transit(Tail(w), IF Piece(Head(w)) = None THEN n ELSE n + 1,
                      IF Head(w).usage = None THEN v ELSE Head(w).usage, s, r, whole)
           /\ Piece(Head(w)) # None => n + 1 <= Len(s) /\ s[n + 1] = Piece(Head(w))
<1> DEFINE m == Len(w)
           l == w[1]
           x == Tail(w)
<1>1. PICK p, u : /\ Track(p, u, w, n, v, s)
                  /\ whole => p[m] = Len(s) /\ u[m] = r
  BY DEF Transit
<1> DEFINE pp == [i \in 0..(m - 1) |-> p[i + 1]]
           uu == [i \in 0..(m - 1) |-> u[i + 1]]
<1>2. /\ m \in Nat \ {0} /\ Len(x) = m - 1 /\ Head(w) = l
      /\ \A i \in 1..(m - 1) : x[i] = w[i + 1]
  OBVIOUS
<1>3. /\ p \in [0..m -> Nat] /\ u \in [0..m -> Usages \cup {None}]
      /\ p[0] = n /\ u[0] = v
      /\ \A i \in 1..m :
           /\ Piece(w[i]) = None => p[i] = p[i - 1]
           /\ Piece(w[i]) # None => /\ p[i] = p[i - 1] + 1
                                    /\ p[i] <= Len(s)
                                    /\ Piece(w[i]) = s[p[i]]
           /\ w[i].usage = None => u[i] = u[i - 1]
           /\ w[i].usage # None => u[i] = w[i].usage
  BY <1>1 DEF Track
<1>4. 1 \in 1..m /\ 1 - 1 = 0
  BY <1>2
<1>5. /\ Piece(l) = None => p[1] = n
      /\ Piece(l) # None => p[1] = n + 1 /\ n + 1 <= Len(s) /\ Piece(l) = s[n + 1]
      /\ l.usage = None => u[1] = v
      /\ l.usage # None => u[1] = l.usage
  BY <1>3, <1>4
<1> HIDE DEF m, x, l
<1>6. /\ pp \in [0..(m - 1) -> Nat] /\ uu \in [0..(m - 1) -> Usages \cup {None}]
      /\ pp[0] = p[1] /\ uu[0] = u[1]
      /\ \A i \in 0..(m - 1) : pp[i] = p[i + 1] /\ uu[i] = u[i + 1]
  BY <1>2, <1>3
<1> HIDE DEF pp, uu
<1>7. ASSUME NEW i \in 1..(m - 1)
      PROVE  /\ Piece(x[i]) = None => pp[i] = pp[i - 1]
             /\ Piece(x[i]) # None => /\ pp[i] = pp[i - 1] + 1
                                      /\ pp[i] <= Len(s)
                                      /\ Piece(x[i]) = s[pp[i]]
             /\ x[i].usage = None => uu[i] = uu[i - 1]
             /\ x[i].usage # None => uu[i] = x[i].usage
  <2>1. i + 1 \in 1..m /\ (i + 1) - 1 = i /\ (i - 1) + 1 = i /\ i \in 0..(m - 1) /\ i - 1 \in 0..(m - 1)
    BY <1>2
  <2>2. x[i] = w[i + 1] /\ pp[i] = p[i + 1] /\ pp[i - 1] = p[i] /\ uu[i] = u[i + 1] /\ uu[i - 1] = u[i]
    BY <1>2, <1>6, <2>1
  <2> QED BY <1>3, <2>1, <2>2
<1>8. Track(pp, uu, x, p[1], u[1], s)
  BY <1>2, <1>6, <1>7 DEF Track
<1>9. whole => pp[Len(x)] = Len(s) /\ uu[Len(x)] = r
  <2>1. m - 1 \in 0..(m - 1) /\ (m - 1) + 1 = m
    BY <1>2
  <2> QED BY <1>1, <1>2, <1>6, <2>1 DEF m
<1>10. Transit(x, p[1], u[1], s, r, whole)
  BY <1>8, <1>9 DEF Transit
<1> QED BY <1>2, <1>5, <1>10 DEF x

\* Lines are lost from some line on.
LEMMA TransitLost ==
    ASSUME NEW w \in Seq(Lines), NEW n \in Nat, NEW k \in 0..Len(w),
           NEW v \in Usages \cup {None}, NEW s \in Seq(Texts), NEW r,
           NEW whole \in BOOLEAN, Transit(w, n, v, s, r, whole)
    PROVE  Transit(SubSeq(w, 1, k), n, v, s, r, FALSE)
<1> DEFINE x == SubSeq(w, 1, k)
<1>1. PICK p, u : Track(p, u, w, n, v, s)
  BY DEF Transit
<1> DEFINE pp == [i \in 0..k |-> p[i]]
           uu == [i \in 0..k |-> u[i]]
<1>2. Len(w) \in Nat /\ k \in Nat /\ Len(x) = k /\ \A i \in 1..k : x[i] = w[i]
  OBVIOUS
<1> HIDE DEF x
<1>3. /\ p \in [0..Len(w) -> Nat] /\ u \in [0..Len(w) -> Usages \cup {None}]
      /\ p[0] = n /\ u[0] = v
  BY <1>1 DEF Track
<1>a. 0 \in 0..k /\ \A i \in 0..k : i \in 0..Len(w)
  BY <1>2
<1>b. \A i \in 0..k : pp[i] = p[i] /\ uu[i] = u[i]
  OBVIOUS
<1>c. pp \in [0..k -> Nat] /\ uu \in [0..k -> Usages \cup {None}]
  BY <1>3, <1>a
<1>4. /\ pp \in [0..k -> Nat] /\ uu \in [0..k -> Usages \cup {None}]
      /\ pp[0] = n /\ uu[0] = v
      /\ \A i \in 0..k : pp[i] = p[i] /\ uu[i] = u[i]
  BY <1>3, <1>a, <1>b, <1>c
<1> HIDE DEF pp, uu
<1>5. ASSUME NEW i \in 1..k
      PROVE  /\ Piece(x[i]) = None => pp[i] = pp[i - 1]
             /\ Piece(x[i]) # None => /\ pp[i] = pp[i - 1] + 1
                                      /\ pp[i] <= Len(s)
                                      /\ Piece(x[i]) = s[pp[i]]
             /\ x[i].usage = None => uu[i] = uu[i - 1]
             /\ x[i].usage # None => uu[i] = x[i].usage
  <2>1. i \in 1..Len(w) /\ i \in 0..k /\ i - 1 \in 0..k
    BY <1>2
  <2> QED BY <1>1, <1>2, <1>4, <2>1 DEF Track
<1>6. Track(pp, uu, x, n, v, s)
  BY <1>2, <1>4, <1>5 DEF Track
<1> QED BY <1>6 DEF Transit, x

\* What is whole is so for a reader that asks for less.
LEMMA TransitWeaken ==
    ASSUME NEW w, NEW n, NEW v, NEW s, NEW r, NEW one \in BOOLEAN, NEW two \in BOOLEAN,
           Transit(w, n, v, s, r, one), two => one
    PROVE  Transit(w, n, v, s, r, two)
BY DEF Transit

-----------------------------------------------------------------------------
(* The stream.                                                             *)

Event == [type : {"none", "chunk", "completed", "failed", "stopped"},
          text : Texts \cup {None}, usage : Usages \cup {None}]

ProviderTypeOK ==
    /\ conn \in {"none", "requested", "open", "closed", "broken", "aborted"}
    /\ wire \in Seq(Lines)
    /\ said \in Seq(Texts) /\ legible \in Seq(Texts) /\ vouched \in BOOLEAN
    /\ reported \in Usages \cup {None} /\ lines \in Nat
    /\ pc \in {"start", "opening", "refusing", "opened", "sent", "reading", "settle", "put",
               "closing", "finally", "ended", "dropped"}
    /\ usage \in Usages \cup {None}
    /\ hand \in Event
    /\ buffered \in Seq(Texts) /\ heard \in Seq(Texts)
    /\ verdict \in {"none", "done", "error", "refused", "lost"}

\* Where the gateway is agrees with the event it has in hand, ...
ReaderInv ==
    /\ buffered = heard
    /\ pc \notin {"ended", "dropped"} => verdict = "none"
    /\ pc = "start" => conn = "none"
    /\ pc \in {"start", "opening", "refusing", "opened"} => heard = <<>>
    /\ pc \notin {"opened", "settle", "put"} => hand = Nothing
    /\ pc = "opened" => hand.type \in {"chunk", "completed"}
    /\ pc \in {"settle", "put"} => hand.type = "completed" /\ hand.usage # None

\* ... what the client has is the beginning of what the provider said, the
\* event in hand comes next, ...
Fits(e) ==
    /\ e \in Event
    /\ e.type = "chunk" => Len(heard) + 1 <= Len(legible) /\ legible[Len(heard) + 1] = e.text
    /\ e.type = "completed" => vouched /\ Len(heard) = Len(legible) /\ e.usage = reported

HeardInv ==
    /\ Len(heard) <= Len(legible)
    /\ \A i \in 1..Len(heard) : heard[i] = legible[i]
    /\ Fits(hand)

\* The pieces taken from the wire, with the event e in hand.
TakenWith(e) == Len(heard) + (IF e.type = "chunk" THEN 1 ELSE 0)
Taken == TakenWith(hand)

DoneIn(w) == \E i \in 1..Len(w) : w[i].kind = "done"

\* Nothing has been lost: the connection stands, or [DONE] has survived it.
Whole == conn # "broken" \/ DoneIn(wire)

\* The gateway may come to read another line.
Listening == pc \in {"start", "opening", "opened", "sent", "reading"}

\* ... the lines on the wire follow, and [DONE] is the last of them ...
WireInv ==
    /\ \A i \in 1..Len(wire) : wire[i].kind = "done" => i = Len(wire) /\ vouched
    /\ Listening => Transit(wire, Taken, usage, legible, reported, Whole)

\* ... and what is billed and cached is what OnlyVouchedCounts says.
ProviderInv ==
    ProviderTypeOK /\ ReaderInv /\ HeardInv /\ WireInv /\ UpstreamIsAborted /\ OnlyVouchedCounts

\* The events.
LEMMA EventType ==
    /\ \A t \in Texts : Chunk(t) \in Event /\ Chunk(t).type = "chunk" /\ Chunk(t).text = t
    /\ \A u \in Usages \cup {None} :
           Completed(u) \in Event /\ Completed(u).type = "completed" /\ Completed(u).usage = u
    /\ Nothing \in Event /\ Nothing.type = "none"
    /\ Failure.type = "failed" /\ Stopped.type = "stopped"
    /\ Failure.usage = None /\ Stopped.usage = None
BY DEF Event, Chunk, Completed, Nothing, Failure, Stopped

\* A client that has the beginning of s and hears the next piece of it has the
\* beginning of s.
LEMMA PrefixGrows ==
    ASSUME NEW h \in Seq(Texts), NEW s \in Seq(Texts), NEW t,
           \A i \in 1..Len(h) : h[i] = s[i], Len(h) + 1 <= Len(s), s[Len(h) + 1] = t
    PROVE  /\ t \in Texts /\ Append(h, t) \in Seq(Texts) /\ Len(Append(h, t)) = Len(h) + 1
           /\ \A i \in 1..Len(Append(h, t)) : Append(h, t)[i] = s[i]
<1>1. Len(h) \in Nat /\ Len(s) \in Nat /\ t \in Texts
  OBVIOUS
<1>2. /\ Append(h, t) \in Seq(Texts) /\ Len(Append(h, t)) = Len(h) + 1
      /\ \A i \in 1..Len(h) : Append(h, t)[i] = h[i]
      /\ Append(h, t)[Len(h) + 1] = t
  BY <1>1
<1>3. \A i \in 1..(Len(h) + 1) : i \in 1..Len(h) \/ i = Len(h) + 1
  BY <1>1
<1> QED BY <1>1, <1>2, <1>3

\* A stream that has not been opened has read and told nothing.
LEMMA InitProviderInv == Init => ProviderInv
<1> SUFFICES ASSUME Init PROVE ProviderInv
  OBVIOUS
<1>1. <<>> \in Seq(Lines) /\ <<>> \in Seq(Texts) /\ Len(<<>>) = 0 /\ 1..0 = {}
  OBVIOUS
<1>2. ProviderTypeOK
  BY <1>1, EventType DEF Init, ProviderTypeOK
<1>3. ReaderInv /\ HeardInv /\ UpstreamIsAborted /\ OnlyVouchedCounts
  BY <1>1, EventType DEF Init, ReaderInv, HeardInv, Fits, UpstreamIsAborted, OnlyVouchedCounts
<1>4. Transit(<<>>, 0, None, <<>>, None, Whole)
  BY <1>1, TransitEmpty DEF Whole
<1>5. Taken = 0
  BY <1>1, EventType DEF Init, Taken, TakenWith
<1>6. WireInv
  BY <1>1, <1>4, <1>5 DEF Init, WireInv
<1> QED BY <1>2, <1>3, <1>6 DEF ProviderInv

\* The connection is accepted, closed, or finalized by the event loop.
LEMMA ConnectionKeepsInv ==
    ASSUME ProviderInv, Accept \/ Close \/ Finalize
    PROVE  ProviderInv'
<1>1. /\ conn \in {"requested", "open"} /\ conn' \in {"open", "closed", "aborted"}
      /\ UNCHANGED <<wire, said, legible, vouched, reported, lines, pc, usage, hand, buffered,
                     heard, verdict, billed, cached>>
  BY DEF Accept, Close, Finalize, wireVars, clientVars, bookVars
<1>2. ProviderTypeOK' /\ OnlyVouchedCounts'
  BY <1>1 DEF ProviderInv, ProviderTypeOK, OnlyVouchedCounts
<1>3. ReaderInv' /\ UpstreamIsAborted' /\ HeardInv'
  <2>1. HeardInv'
    BY <1>1 DEF ProviderInv, HeardInv, Fits
  <2> QED BY <1>1, <2>1 DEF ProviderInv, ReaderInv, UpstreamIsAborted
<1>4. Whole /\ Whole'
  BY <1>1 DEF Whole
<1>5. WireInv'
  BY <1>1, <1>4 DEF ProviderInv, WireInv, Taken, TakenWith, Listening
<1> QED BY <1>2, <1>3, <1>5 DEF ProviderInv

\* The provider sends a line.
LEMMA SendKeepsInv ==
    ASSUME ProviderInv, NEW l \in Lines, Send(l)
    PROVE  ProviderInv'
<1>1. /\ conn = "open" /\ vouched = FALSE /\ vouched' = (l.kind = "done")
      /\ wire' = Append(wire, l) /\ lines' = lines + 1
      /\ said' = (IF l.text = None THEN said ELSE Append(said, l.text))
      /\ legible' = (IF Piece(l) = None THEN legible ELSE Append(legible, Piece(l)))
      /\ reported' = (IF l.usage = None THEN reported ELSE l.usage)
      /\ UNCHANGED <<conn, pc, usage, hand, buffered, heard, verdict, billed, cached>>
  BY DEF Send, clientVars, bookVars, ProviderInv, ProviderTypeOK
<1>2. /\ l.text \in Texts \cup {None} /\ l.usage \in Usages \cup {None}
      /\ Piece(l) \in Texts \cup {None}
  BY LineType
<1>3. /\ legible \in Seq(Texts) /\ legible' \in Seq(Texts) /\ wire \in Seq(Lines)
      /\ Len(legible) <= Len(legible') /\ \A i \in 1..Len(legible) : legible'[i] = legible[i]
      /\ Len(legible) \in Nat /\ Len(legible') \in Nat
      /\ said' \in Seq(Texts)
  <2>1. legible \in Seq(Texts) /\ wire \in Seq(Lines) /\ said \in Seq(Texts)
    BY DEF ProviderInv, ProviderTypeOK
  <2>2. CASE Piece(l) = None
    BY <1>1, <1>2, <2>1, <2>2
  <2>3. CASE Piece(l) # None
    <3>1. legible' = Append(legible, Piece(l)) /\ Piece(l) \in Texts
      BY <1>1, <1>2, <2>3
    <3>2. said' \in Seq(Texts)
      BY <1>1, <1>2, <2>1
    <3> QED BY <2>1, <3>1, <3>2
  <2> QED BY <2>2, <2>3
<1>4. /\ wire' \in Seq(Lines) /\ Len(wire') = Len(wire) + 1 /\ Len(wire) \in Nat
      /\ \A i \in 1..Len(wire) : wire'[i] = wire[i]
      /\ wire'[Len(wire) + 1] = l
  BY <1>1, <1>3
<1>5. ProviderTypeOK'
  BY <1>1, <1>2, <1>3, <1>4 DEF ProviderInv, ProviderTypeOK
<1>6. hand.type # "completed" /\ billed = None /\ cached = None
  BY <1>1 DEF ProviderInv, HeardInv, Fits, OnlyVouchedCounts
<1>7. HeardInv'
  <2>1. heard \in Seq(Texts) /\ Len(heard) \in Nat /\ Len(heard) <= Len(legible)
    BY DEF ProviderInv, ProviderTypeOK, HeardInv, Fits
  <2>2. \A i \in 1..Len(heard) : i \in 1..Len(legible)
    BY <1>3, <2>1
  <2>3. \A i \in 1..Len(heard) : heard[i] = legible'[i]
    BY <1>3, <2>2 DEF ProviderInv, HeardInv, Fits
  <2>4. hand.type = "chunk" => /\ Len(heard) + 1 <= Len(legible')
                               /\ legible'[Len(heard) + 1] = hand.text
    BY <1>3, <2>1 DEF ProviderInv, HeardInv, Fits
  <2>5. hand' = hand /\ heard' = heard /\ Len(heard) <= Len(legible') /\ hand \in Event
    BY <1>1, <1>3, <2>1 DEF ProviderInv, ProviderTypeOK
  <2> QED BY <1>6, <2>3, <2>4, <2>5 DEF HeardInv, Fits
<1>8. ReaderInv' /\ UpstreamIsAborted' /\ OnlyVouchedCounts'
  BY <1>1, <1>6 DEF ProviderInv, ReaderInv, UpstreamIsAborted, OnlyVouchedCounts
<1>9. ASSUME NEW i \in 1..Len(wire'), wire'[i].kind = "done"
      PROVE  i = Len(wire') /\ vouched'
  <2>1. CASE i \in 1..Len(wire)
    BY <1>1, <1>4, <1>9, <2>1 DEF ProviderInv, WireInv
  <2>2. CASE i = Len(wire) + 1
    BY <1>1, <1>4, <1>9, <2>2
  <2> QED BY <1>4, <2>1, <2>2
<1>10. ASSUME Listening' PROVE Transit(wire', Taken', usage', legible', reported', Whole')
  <2>1. Transit(wire, Taken, usage, legible, reported, Whole) /\ Whole /\ Whole' /\ Taken' = Taken
    BY <1>1, <1>10 DEF ProviderInv, WireInv, Whole, Taken, TakenWith, Listening
  <2>2. Taken \in Nat /\ usage \in Usages \cup {None} /\ Whole \in BOOLEAN
    BY DEF ProviderInv, ProviderTypeOK, Taken, TakenWith, Whole
  <2>3. Transit(wire', Taken, usage, legible', reported', TRUE)
    BY <1>1, <1>3, <2>1, <2>2, TransitSend
  <2>4. Transit(wire', Taken, usage, legible', reported', Whole')
    BY <2>1, <2>3 DEF Transit
  <2> QED BY <1>1, <2>1, <2>4
<1> QED BY <1>5, <1>7, <1>8, <1>9, <1>10 DEF ProviderInv, WireInv

\* The connection breaks.
LEMMA BreakKeepsInv ==
    ASSUME ProviderInv, Break
    PROVE  ProviderInv'
<1>1. /\ conn \in {"requested", "open", "closed"} /\ conn' = "broken"
      /\ UNCHANGED <<said, legible, vouched, reported, lines, pc, usage, hand, buffered,
                     heard, verdict, billed, cached>>
  BY DEF Break, wireVars, clientVars, bookVars
<1>2. PICK n \in 0..Len(wire) : wire' = SubSeq(wire, 1, n)
  BY DEF Break
<1>3. /\ wire \in Seq(Lines) /\ wire' \in Seq(Lines) /\ n \in Nat /\ Len(wire) \in Nat
      /\ Len(wire') = n /\ \A i \in 1..n : wire'[i] = wire[i]
      /\ n = Len(wire) => wire' = wire
  BY <1>2 DEF ProviderInv, ProviderTypeOK
<1>4. ProviderTypeOK' /\ HeardInv' /\ OnlyVouchedCounts' /\ ReaderInv' /\ UpstreamIsAborted'
  BY <1>1, <1>3 DEF ProviderInv, ProviderTypeOK, HeardInv, Fits, OnlyVouchedCounts, ReaderInv,
                    UpstreamIsAborted
<1>5. ASSUME NEW i \in 1..Len(wire'), wire'[i].kind = "done"
      PROVE  wire' = wire /\ i = Len(wire) /\ vouched
  <2>1. i \in 1..Len(wire) /\ wire[i].kind = "done"
    BY <1>3, <1>5
  <2>2. i = Len(wire) /\ vouched
    BY <2>1 DEF ProviderInv, WireInv
  <2> QED BY <1>3, <2>2
<1>6. ASSUME Listening' PROVE Transit(wire', Taken', usage', legible', reported', Whole')
  <2>1. Transit(wire, Taken, usage, legible, reported, Whole) /\ Whole = TRUE /\ Taken' = Taken
    BY <1>1, <1>6 DEF ProviderInv, WireInv, Whole, Taken, TakenWith, Listening
  <2>2. Taken \in Nat /\ usage \in Usages \cup {None} /\ legible \in Seq(Texts)
    BY DEF ProviderInv, ProviderTypeOK, Taken, TakenWith
  <2>3. CASE DoneIn(wire')
    <3>1. wire' = wire /\ Whole' = TRUE
      BY <1>5, <2>3 DEF DoneIn, Whole
    <3> QED BY <1>1, <2>1, <3>1
  <2>4. CASE ~DoneIn(wire')
    <3>1. Whole' = FALSE
      BY <1>1, <2>4 DEF Whole
    <3>2. Transit(wire', Taken, usage, legible, reported, FALSE)
      BY <1>2, <1>3, <2>1, <2>2, TransitLost
    <3> QED BY <1>1, <2>1, <3>1, <3>2
  <2> QED BY <2>3, <2>4
<1> QED BY <1>1, <1>4, <1>5, <1>6 DEF ProviderInv, WireInv

\* What is left of the wire is sound.
LEMMA WireShrinks ==
    ASSUME ProviderInv, wire' = wire \/ (wire # <<>> /\ wire' = Tail(wire))
    PROVE  /\ wire' \in Seq(Lines)
           /\ \A i \in 1..Len(wire') : wire'[i].kind = "done" => i = Len(wire') /\ vouched
<1>1. wire \in Seq(Lines)
  BY DEF ProviderInv, ProviderTypeOK
<1>2. CASE wire' = wire
  BY <1>1, <1>2 DEF ProviderInv, WireInv
<1>3. CASE wire # <<>> /\ wire' = Tail(wire)
  <2>1. /\ Len(wire) \in Nat /\ Len(wire') = Len(wire) - 1 /\ wire' \in Seq(Lines)
        /\ \A i \in 1..Len(wire') : wire'[i] = wire[i + 1] /\ i + 1 \in 1..Len(wire)
    BY <1>1, <1>3
  <2>2. \A i \in 1..Len(wire) : wire[i].kind = "done" => i = Len(wire) /\ vouched
    BY DEF ProviderInv, WireInv
  <2>3. ASSUME NEW i \in 1..Len(wire'), wire'[i].kind = "done"
        PROVE  i = Len(wire') /\ vouched
    <3>1. i + 1 \in 1..Len(wire) /\ wire[i + 1].kind = "done" /\ i \in Nat
      BY <2>1, <2>3
    <3>2. i + 1 = Len(wire) /\ vouched
      BY <2>2, <3>1
    <3> QED BY <2>1, <3>1, <3>2
  <2> QED BY <2>1, <2>3
<1> QED BY <1>2, <1>3

\* However the gateway stops listening to the provider.
LEMMA StopKeepsInv ==
    ASSUME ProviderInv, hand' = Nothing,
           pc' \in {"refusing", "closing", "finally", "ended", "dropped"},
           UNCHANGED <<said, legible, vouched, reported, lines, heard, buffered>>,
           wire' = wire \/ (wire # <<>> /\ wire' = Tail(wire)),
           usage' \in Usages \cup {None}, conn' \in {conn, "aborted"},
           verdict' \in {"none", "done", "error", "refused", "lost"},
           pc' \notin {"ended", "dropped"} => verdict' = "none", pc' = "refusing" => heard = <<>>,
           OnlyVouchedCounts', UpstreamIsAborted'
    PROVE  ProviderInv'
<1>1. /\ wire' \in Seq(Lines)
      /\ \A i \in 1..Len(wire') : wire'[i].kind = "done" => i = Len(wire') /\ vouched
  BY WireShrinks
<1>2. ProviderTypeOK'
  BY <1>1, EventType DEF ProviderInv, ProviderTypeOK
<1>3. ReaderInv' /\ HeardInv'
  BY EventType DEF ProviderInv, ReaderInv, HeardInv, Fits
<1>4. WireInv'
  BY <1>1 DEF WireInv, Listening
<1> QED BY <1>2, <1>3, <1>4 DEF ProviderInv

\* The request is sent, or there is nobody to send it to.
LEMMA OpenKeepsInv ==
    ASSUME ProviderInv, Open
    PROVE  ProviderInv'
<1>1. /\ pc = "start" /\ conn = "none" /\ hand = Nothing /\ heard = <<>> /\ verdict = "none"
      /\ usage \in Usages \cup {None}
      /\ UNCHANGED <<wire, said, legible, vouched, reported, lines, usage, hand, buffered, heard,
                     verdict, billed, cached>>
  BY DEF Open, wireVars, clientVars, bookVars, ProviderInv, ReaderInv, ProviderTypeOK
<1>2. OnlyVouchedCounts'
  BY <1>1 DEF ProviderInv, OnlyVouchedCounts
<1>3. CASE Unconfigured
  <2>1. conn' = conn /\ pc' = "refusing"
    BY <1>1, <1>3 DEF Unconfigured
  <2>2. UpstreamIsAborted'
    BY <2>1 DEF UpstreamIsAborted
  <2> QED BY <1>1, <1>2, <2>1, <2>2, StopKeepsInv
<1>4. CASE conn' = "requested" /\ pc' = "opening"
  <2>1. ProviderTypeOK' /\ HeardInv' /\ UpstreamIsAborted' /\ ReaderInv'
    BY <1>1, <1>4 DEF ProviderInv, ProviderTypeOK, HeardInv, Fits, UpstreamIsAborted, ReaderInv
  <2>2. Whole /\ Whole'
    BY <1>1, <1>4 DEF Whole
  <2>3. WireInv'
    BY <1>1, <1>4, <2>2 DEF ProviderInv, WireInv, Taken, TakenWith, Listening
  <2> QED BY <1>2, <2>1, <2>3 DEF ProviderInv
<1> QED BY <1>3, <1>4 DEF Open

\* The client hears the next piece, or the answer ends, for _deliver.
LEMMA DeliverKeepsInv ==
    ASSUME ProviderInv, pc \in {"opened", "reading"}, NEW e, Fits(e), Deliver(e),
           UNCHANGED <<conn, said, legible, vouched, reported, lines, verdict, billed, cached>>,
           wire' = wire \/ (wire # <<>> /\ wire' = Tail(wire)),
           usage' \in Usages \cup {None},
           e.type = "chunk" => Transit(wire', TakenWith(e), usage', legible, reported, Whole')
    PROVE  ProviderInv'
<1>1. /\ wire' \in Seq(Lines)
      /\ \A i \in 1..Len(wire') : wire'[i].kind = "done" => i = Len(wire') /\ vouched
  BY WireShrinks
<1>2. /\ heard \in Seq(Texts) /\ legible \in Seq(Texts) /\ buffered = heard /\ verdict = "none"
      /\ \A i \in 1..Len(heard) : heard[i] = legible[i]
      /\ Len(heard) <= Len(legible)
  BY DEF ProviderInv, ProviderTypeOK, ReaderInv, HeardInv
<1>3. OnlyVouchedCounts'
  BY DEF ProviderInv, OnlyVouchedCounts
<1>4. pc' # "ended" => UpstreamIsAborted'
  BY DEF UpstreamIsAborted
<1>5. CASE /\ e.type = "chunk" /\ buffered' = Append(buffered, e.text)
           /\ heard' = Append(heard, e.text) /\ hand' = Nothing /\ pc' = "sent"
  <2>1. Len(heard) + 1 <= Len(legible) /\ legible[Len(heard) + 1] = e.text
    BY <1>5 DEF Fits
  <2>2. /\ heard' \in Seq(Texts) /\ Len(heard') = Len(heard) + 1
        /\ \A i \in 1..Len(heard') : heard'[i] = legible[i]
    BY <1>2, <1>5, <2>1, PrefixGrows
  <2>3. buffered' = heard'
    BY <1>2, <1>5
  <2>4. ProviderTypeOK'
    BY <1>1, <1>5, <2>2, <2>3, EventType DEF ProviderInv, ProviderTypeOK
  <2>5. ReaderInv'
    BY <1>2, <1>5, <2>3 DEF ReaderInv
  <2>6. HeardInv'
    BY <1>5, <2>1, <2>2, EventType DEF HeardInv, Fits
  <2>7. Taken' = TakenWith(e)
    <3>1. hand'.type = "none" /\ Len(heard') \in Nat /\ Len(heard') = Len(heard) + 1
      BY <1>5, <2>2, EventType
    <3> QED BY <1>5, <3>1 DEF Taken, TakenWith
  <2>8. WireInv'
    BY <1>1, <1>5, <2>7 DEF WireInv
  <2> QED BY <1>3, <1>4, <1>5, <2>4, <2>5, <2>6, <2>8 DEF ProviderInv
<1>6. CASE /\ e.type = "completed" /\ e.usage # None /\ hand' = e /\ pc' = "settle"
           /\ UNCHANGED <<buffered, heard>>
  <2>1. ProviderTypeOK'
    BY <1>1, <1>6 DEF ProviderInv, ProviderTypeOK, Fits
  <2>2. ReaderInv'
    BY <1>2, <1>6 DEF ReaderInv
  <2>3. HeardInv'
    BY <1>2, <1>6 DEF HeardInv, Fits
  <2>4. WireInv'
    BY <1>1, <1>6 DEF WireInv, Listening
  <2> QED BY <1>3, <1>4, <1>6, <2>1, <2>2, <2>3, <2>4 DEF ProviderInv
<1>7. CASE hand' = Nothing /\ pc' = "closing" /\ UNCHANGED <<buffered, heard>>
  BY <1>2, <1>3, <1>4, <1>7, StopKeepsInv
<1> QED BY <1>5, <1>6, <1>7 DEF Deliver

\* What is read is the next piece, or the end of a whole answer, and the rest
\* of the wire follows it.
LEMMA ReadFits ==
    ASSUME ProviderInv, pc \in {"opening", "reading"}, wire # <<>>,
           NEW l, l = Head(wire), NEW e, e = EventOf(l)
    PROVE  /\ l.usage \in Usages \cup {None}
           /\ Transit(Tail(wire), IF Piece(l) = None THEN Taken ELSE Taken + 1,
                      IF l.usage = None THEN usage ELSE l.usage, legible, reported, Whole)
           /\ e.type \in {"none", "chunk", "completed", "failed"}
           /\ e.type # "none" => Fits(e)
           /\ e.type = "chunk" => Piece(l) # None
           /\ e.type \in {"none", "completed"} => Piece(l) = None
<1>1. /\ wire \in Seq(Lines) /\ l \in Lines /\ l = wire[1] /\ Len(wire) \in Nat \ {0}
      /\ Len(Tail(wire)) = Len(wire) - 1 /\ Tail(wire) \in Seq(Lines)
  <2>1. wire \in Seq(Lines)
    BY DEF ProviderInv, ProviderTypeOK
  <2> QED BY <2>1
<1>2. /\ l.kind \in {"comment", "done", "junk", "event", "odd"}
      /\ l.text \in Texts \cup {None} /\ l.usage \in Usages \cup {None}
      /\ l.kind = "done" => l.text = None /\ l.usage = None
      /\ l.kind = "comment" => l.text = None /\ l.usage = None
      /\ Piece(l) = IF l.kind = "odd" THEN None ELSE l.text
  BY <1>1, LineType
<1>3. /\ Taken = Len(heard) /\ Taken \in Nat /\ legible \in Seq(Texts)
      /\ usage \in Usages \cup {None}
  <2>1. hand.type = "none" /\ heard \in Seq(Texts)
    BY EventType DEF ProviderInv, ReaderInv, ProviderTypeOK
  <2> QED BY <2>1 DEF Taken, TakenWith, ProviderInv, ProviderTypeOK
<1>4. Transit(wire, Taken, usage, legible, reported, Whole) /\ Whole \in BOOLEAN
  BY DEF ProviderInv, WireInv, Whole, Listening
<1>5. /\ Transit(Tail(wire), IF Piece(l) = None THEN Taken ELSE Taken + 1,
                 IF l.usage = None THEN usage ELSE l.usage, legible, reported, Whole)
      /\ Piece(l) # None => Taken + 1 <= Len(legible) /\ legible[Taken + 1] = Piece(l)
  BY <1>1, <1>3, <1>4, TransitRead
<1>6. CASE l.kind = "done"
  <2>1. e = Completed(usage) /\ e \in Event /\ e.type = "completed" /\ e.usage = usage
    BY <1>3, <1>6, EventType DEF EventOf
  <2>2. vouched /\ Tail(wire) = <<>> /\ Whole = TRUE
    <3>1. wire[1].kind = "done" /\ 1 \in 1..Len(wire)
      BY <1>1, <1>6
    <3>2. 1 = Len(wire) /\ vouched
      BY <3>1 DEF ProviderInv, WireInv
    <3>3. Whole = TRUE
      BY <3>1 DEF Whole, DoneIn
    <3>4. Len(Tail(wire)) = Len(wire) - 1
      BY <1>1
    <3>5. Len(Tail(wire)) = 0
      BY <3>2, <3>4
    <3>6. Tail(wire) = <<>>
      BY <1>1, <3>5, EmptySeq
    <3> QED BY <3>2, <3>3, <3>6
  <2>3. Piece(l) = None /\ Transit(<<>>, Taken, usage, legible, reported, TRUE)
    BY <1>2, <1>5, <1>6, <2>2
  <2>4. Taken = Len(legible) /\ usage = reported
    BY <2>3, TransitEnded
  <2>5. Fits(e)
    BY <1>3, <2>1, <2>2, <2>4 DEF Fits
  <2> QED BY <1>2, <1>5, <2>1, <2>3, <2>5
<1>7. CASE l.kind = "junk"
  <2>1. e = Failure /\ e.type = "failed"
    BY <1>7, EventType DEF EventOf
  <2>2. Failure \in Event
    BY DEF Failure, Event
  <2> QED BY <1>2, <1>5, <2>1, <2>2 DEF Fits
<1>8. CASE l.kind = "event" /\ l.text # None
  <2>1. e = Chunk(l.text) /\ l.text \in Texts /\ Piece(l) = l.text
    BY <1>2, <1>8 DEF EventOf
  <2>2. e \in Event /\ e.type = "chunk" /\ e.text = l.text
    BY <2>1, EventType
  <2> QED BY <1>2, <1>3, <1>5, <1>8, <2>1, <2>2 DEF Fits
<1>9. CASE l.kind \notin {"done", "junk"} /\ ~(l.kind = "event" /\ l.text # None)
  <2>1. e = Nothing /\ e.type = "none" /\ Piece(l) = None
    BY <1>2, <1>9, EventType DEF EventOf
  <2> QED BY <1>2, <1>5, <2>1
<1> QED BY <1>6, <1>7, <1>8, <1>9

\* A line comes in.
LEMMA ReadKeepsInv ==
    ASSUME ProviderInv, Read
    PROVE  ProviderInv'
<1> DEFINE l == Head(wire)
           e == EventOf(l)
<1>1. /\ pc \in {"opening", "reading"} /\ wire # <<>> /\ wire' = Tail(wire)
      /\ usage' = (IF l.usage = None THEN usage ELSE l.usage)
      /\ Yield(e)
      /\ UNCHANGED <<conn, said, legible, vouched, reported, lines, verdict, billed, cached>>
  BY DEF Read, Yield, wireVars, bookVars
<1>2. /\ l.usage \in Usages \cup {None}
      /\ Transit(Tail(wire), IF Piece(l) = None THEN Taken ELSE Taken + 1,
                 IF l.usage = None THEN usage ELSE l.usage, legible, reported, Whole)
      /\ e.type \in {"none", "chunk", "completed", "failed"}
      /\ e.type # "none" => Fits(e)
      /\ e.type = "chunk" => Piece(l) # None
      /\ e.type \in {"none", "completed"} => Piece(l) = None
  BY <1>1, ReadFits
<1> HIDE DEF l, e
<1>3. /\ hand = Nothing /\ hand.type = "none" /\ Taken = Len(heard) /\ Taken \in Nat
      /\ heard \in Seq(Texts)
      /\ usage \in Usages \cup {None} /\ usage' \in Usages \cup {None}
      /\ verdict = "none" /\ buffered = heard /\ (pc = "opening" => heard = <<>>)
  <2>1. hand = Nothing
    BY <1>1 DEF ProviderInv, ReaderInv
  <2>2. hand.type = "none" /\ heard \in Seq(Texts)
    BY <2>1, EventType DEF ProviderInv, ProviderTypeOK
  <2>3. Taken = Len(heard) /\ Taken \in Nat
    BY <2>2 DEF Taken, TakenWith
  <2> QED BY <1>1, <1>2, <2>1, <2>2, <2>3 DEF ProviderInv, ReaderInv, ProviderTypeOK
<1>4. /\ wire' \in Seq(Lines)
      /\ \A i \in 1..Len(wire') : wire'[i].kind = "done" => i = Len(wire') /\ vouched
  BY <1>1, WireShrinks
<1>5. Transit(wire', IF Piece(l) = None THEN Taken ELSE Taken + 1, usage', legible, reported, Whole')
  <2>1. ASSUME DoneIn(wire') PROVE DoneIn(wire)
    <3>1. wire \in Seq(Lines)
      BY DEF ProviderInv, ProviderTypeOK
    <3>2. \A i \in 1..Len(wire') : wire'[i] = wire[i + 1] /\ i + 1 \in 1..Len(wire)
      BY <1>1, <3>1
    <3> QED BY <2>1, <3>2 DEF DoneIn
  <2>2. DoneIn(wire)' <=> DoneIn(wire')
    BY DEF DoneIn
  <2>3. (Whole' => Whole) /\ Whole \in BOOLEAN /\ Whole' \in BOOLEAN
    BY <1>1, <2>1, <2>2 DEF Whole
  <2>4. Transit(wire', IF Piece(l) = None THEN Taken ELSE Taken + 1, usage', legible, reported, Whole)
    BY <1>1, <1>2
  <2> QED BY <2>3, <2>4, TransitWeaken
<1>6. OnlyVouchedCounts' /\ (pc' # "ended" => UpstreamIsAborted')
  BY <1>1 DEF ProviderInv, OnlyVouchedCounts, UpstreamIsAborted
<1>7. CASE e.type = "none" /\ UNCHANGED <<pc, hand, buffered, heard>>
  <2>1. ProviderTypeOK'
    BY <1>1, <1>3, <1>4, <1>7 DEF ProviderInv, ProviderTypeOK
  <2>2. ReaderInv'
    BY <1>1, <1>7 DEF ProviderInv, ReaderInv
  <2>3. HeardInv'
    BY <1>1, <1>7 DEF ProviderInv, HeardInv, Fits
  <2>4. Taken' = Taken
    BY <1>7 DEF Taken, TakenWith
  <2>5. WireInv'
    BY <1>1, <1>4, <1>5, <1>2, <1>7, <2>4 DEF WireInv
  <2> QED BY <1>1, <1>6, <1>7, <2>1, <2>2, <2>3, <2>5 DEF ProviderInv
<1>8. CASE pc = "opening" /\ FirstEvent(e)
  <2>1. UNCHANGED <<buffered, heard>>
    BY <1>8 DEF FirstEvent
  <2>2. CASE e.type \in {"chunk", "completed"} /\ hand' = e /\ pc' = "opened"
    <3>1. Fits(e) /\ e \in Event
      BY <1>2, <2>2 DEF Fits
    <3>2. ProviderTypeOK'
      BY <1>1, <1>3, <1>4, <2>1, <2>2, <3>1 DEF ProviderInv, ProviderTypeOK
    <3>3. ReaderInv'
      BY <1>1, <1>3, <1>8, <2>1, <2>2 DEF ReaderInv
    <3>4. HeardInv'
      BY <1>1, <2>1, <2>2, <3>1 DEF ProviderInv, HeardInv, Fits
    <3>5. Taken' = IF Piece(l) = None THEN Taken ELSE Taken + 1
      <4>1. hand'.type = e.type /\ Len(heard) \in Nat /\ heard' = heard
        BY <1>3, <2>1, <2>2
      <4>2. Taken' = IF e.type = "chunk" THEN Len(heard) + 1 ELSE Len(heard)
        BY <4>1 DEF Taken, TakenWith
      <4> QED BY <1>2, <1>3, <2>2, <4>2
    <3>6. WireInv'
      BY <1>1, <1>4, <1>5, <3>5 DEF WireInv
    <3> QED BY <1>6, <2>2, <3>2, <3>3, <3>4, <3>6 DEF ProviderInv
  <2>3. CASE UNCHANGED hand /\ pc' = "refusing"
    BY <1>1, <1>3, <1>6, <1>8, <2>1, <2>3, StopKeepsInv
  <2> QED BY <1>8, <2>2, <2>3 DEF FirstEvent
<1>9. CASE pc = "reading" /\ Deliver(e)
  <2>1. e.type # "none"
    BY <1>9 DEF Deliver
  <2>2. Fits(e) /\ (e.type = "chunk" => TakenWith(e) = Taken + 1 /\ Piece(l) # None)
    BY <1>2, <1>3, <2>1 DEF TakenWith
  <2> QED BY <1>1, <1>3, <1>5, <1>9, <2>2, DeliverKeepsInv
<1> QED BY <1>1, <1>7, <1>8, <1>9 DEF Yield

\* The body ends, or reading it fails.
LEMMA ReadStopsKeepsInv ==
    ASSUME ProviderInv, ReadEnd \/ ReadStatus \/ ReadFails
    PROVE  ProviderInv'
<1>1. /\ pc \in {"opening", "reading"} /\ (conn' = conn \/ HangUp)
      /\ Yield(Failure) \/ Yield(Stopped)
      /\ UNCHANGED <<wire, usage, said, legible, vouched, reported, lines, verdict, billed, cached>>
  BY DEF ReadEnd, ReadStatus, ReadFails, Yield, wireVars, bookVars
<1>2. /\ hand = Nothing /\ verdict = "none" /\ usage \in Usages \cup {None}
      /\ pc = "opening" => heard = <<>>
  BY <1>1 DEF ProviderInv, ReaderInv, ProviderTypeOK
<1>3. /\ hand' = Nothing /\ UNCHANGED <<buffered, heard>>
      /\ \/ pc = "opening" /\ pc' = "refusing"
         \/ pc = "reading" /\ pc' = "closing"
  BY <1>1, <1>2, EventType DEF Yield, FirstEvent, Deliver
<1>4. conn' \in {conn, "aborted"}
  BY <1>1 DEF HangUp
<1>5. OnlyVouchedCounts' /\ UpstreamIsAborted'
  BY <1>1, <1>3 DEF ProviderInv, OnlyVouchedCounts, UpstreamIsAborted
<1> QED BY <1>1, <1>2, <1>3, <1>4, <1>5, StopKeepsInv

\* The client pulls the first event, or the next.
LEMMA PullKeepsInv ==
    ASSUME ProviderInv, Pull
    PROVE  ProviderInv'
<1>1. UNCHANGED <<conn, wire, said, legible, vouched, reported, lines, usage, verdict, billed, cached>>
  BY DEF Pull, wireVars, bookVars
<1>2. usage \in Usages \cup {None} /\ Fits(hand)
  BY DEF ProviderInv, ProviderTypeOK, HeardInv
<1>3. CASE pc = "opened" /\ Deliver(hand)
  <2>1. Transit(wire, Taken, usage, legible, reported, Whole)
    BY <1>3 DEF ProviderInv, WireInv, Listening
  <2>2. Whole' = Whole
    BY <1>1 DEF Whole, DoneIn
  <2>3. Transit(wire', TakenWith(hand), usage', legible, reported, Whole')
    BY <1>1, <2>1, <2>2 DEF Taken
  <2> QED BY <1>1, <1>2, <1>3, <2>3, DeliverKeepsInv
<1>4. CASE pc = "sent" /\ pc' = "reading" /\ UNCHANGED <<hand, buffered, heard>>
  <2>1. ProviderTypeOK'
    BY <1>1, <1>4 DEF ProviderInv, ProviderTypeOK
  <2>2. ReaderInv' /\ OnlyVouchedCounts' /\ UpstreamIsAborted'
    BY <1>1, <1>4 DEF ProviderInv, ReaderInv, OnlyVouchedCounts, UpstreamIsAborted
  <2>3. HeardInv'
    BY <1>1, <1>4 DEF ProviderInv, HeardInv, Fits
  <2>4. Whole' = Whole /\ Taken' = Taken
    BY <1>1, <1>4 DEF Whole, DoneIn, Taken, TakenWith
  <2>5. WireInv'
    BY <1>1, <1>4, <2>4 DEF ProviderInv, WireInv, Listening
  <2> QED BY <2>1, <2>2, <2>3, <2>5 DEF ProviderInv
<1> QED BY <1>3, <1>4 DEF Pull

\* What an answer that is settled or put amounts to.
LEMMA CompletedInHand ==
    ASSUME ProviderInv, pc \in {"settle", "put"}
    PROVE  /\ vouched /\ hand.usage = reported /\ hand.usage # None
           /\ heard = legible /\ buffered = legible
           /\ verdict = "none" /\ usage \in Usages \cup {None}
<1>1. /\ hand.type = "completed" /\ hand.usage # None /\ buffered = heard /\ verdict = "none"
      /\ usage \in Usages \cup {None} /\ heard \in Seq(Texts) /\ legible \in Seq(Texts)
  BY DEF ProviderInv, ReaderInv, ProviderTypeOK
<1>2. /\ vouched /\ Len(heard) = Len(legible) /\ hand.usage = reported
      /\ \A i \in 1..Len(heard) : heard[i] = legible[i]
  BY <1>1 DEF ProviderInv, HeardInv, Fits
<1>3. heard = legible
  BY <1>1, <1>2, SeqEqual
<1> QED BY <1>1, <1>2, <1>3

\* A whole answer is settled and put, or its settlement fails.
LEMMA CompletionKeepsInv ==
    ASSUME ProviderInv, Settle \/ Put
    PROVE  ProviderInv'
<1>1. /\ pc \in {"settle", "put"}
      /\ UNCHANGED <<wire, said, legible, vouched, reported, lines, usage, buffered, heard>>
  BY DEF Settle, Put, wireVars, clientVars
<1>2. /\ vouched /\ hand.usage = reported /\ hand.usage # None /\ buffered = legible
      /\ verdict = "none" /\ usage \in Usages \cup {None}
  BY <1>1, CompletedInHand
<1>3. billed' \in {billed, None, hand.usage} /\ cached' \in {cached, None, buffered}
  BY DEF Settle, Put
<1>4. OnlyVouchedCounts'
  BY <1>1, <1>2, <1>3 DEF ProviderInv, OnlyVouchedCounts
<1>5. CASE Put
  <2>1. HangUp /\ pc' = "ended" /\ hand' = Nothing /\ verdict' = "done"
    BY <1>5 DEF Put
  <2>2. conn' \in {conn, "aborted"} /\ UpstreamIsAborted'
    BY <2>1 DEF HangUp, UpstreamIsAborted
  <2> QED BY <1>1, <1>2, <1>4, <2>1, <2>2, StopKeepsInv
<1>6. CASE Settle /\ pc' \in {"closing", "finally"} /\ hand' = Nothing
  <2>1. conn' = conn /\ verdict' = verdict
    BY <1>6 DEF Settle, clientVars
  <2>2. UpstreamIsAborted'
    BY <1>1, <1>2, <1>6 DEF UpstreamIsAborted
  <2> QED BY <1>1, <1>2, <1>4, <1>6, <2>1, <2>2, StopKeepsInv
<1>7. CASE Settle /\ pc' = "put" /\ UNCHANGED hand
  <2>1. conn' = conn /\ verdict' = verdict /\ pc = "settle"
    BY <1>7 DEF Settle, clientVars
  <2>2. ProviderTypeOK'
    BY <1>1, <1>7, <2>1 DEF ProviderInv, ProviderTypeOK
  <2>3. ReaderInv' /\ UpstreamIsAborted'
    BY <1>1, <1>7, <2>1 DEF ProviderInv, ReaderInv, UpstreamIsAborted
  <2>4. HeardInv'
    BY <1>1, <1>7 DEF ProviderInv, HeardInv, Fits
  <2>5. WireInv'
    BY <1>1, <1>7 DEF ProviderInv, WireInv, Listening
  <2> QED BY <1>4, <2>2, <2>3, <2>4, <2>5 DEF ProviderInv
<1> QED BY <1>5, <1>6, <1>7 DEF Settle

\* The client has its answer, a failed settlement escapes, or the client has
\* gone.
LEMMA EndKeepsInv ==
    ASSUME ProviderInv, Refuse \/ Tell \/ CloseStream \/ Cancel \/ Abandon
    PROVE  ProviderInv'
<1>1. /\ UNCHANGED <<wire, said, legible, vouched, reported, lines, usage, buffered, heard>>
      /\ pc \notin {"ended", "dropped"}
  BY DEF Refuse, Tell, CloseStream, Cancel, Abandon, wireVars
<1>2. verdict = "none" /\ usage \in Usages \cup {None}
  BY <1>1 DEF ProviderInv, ReaderInv, ProviderTypeOK
<1>3. CASE Refuse \/ Tell \/ CloseStream
  <2>1. /\ pc \in {"refusing", "closing", "finally"} /\ HangUp /\ pc' = "ended"
        /\ verdict' \in {"refused", "error", "lost"} /\ UNCHANGED <<hand, billed, cached>>
    BY <1>3 DEF Refuse, Tell, CloseStream, bookVars
  <2>2. hand' = Nothing /\ OnlyVouchedCounts'
    BY <1>1, <2>1 DEF ProviderInv, ReaderInv, OnlyVouchedCounts
  <2>3. conn' \in {conn, "aborted"} /\ UpstreamIsAborted'
    BY <2>1 DEF HangUp, UpstreamIsAborted
  <2> QED BY <1>1, <1>2, <2>1, <2>2, <2>3, StopKeepsInv
<1>4. CASE Cancel
  <2>1. /\ hand' = Nothing /\ (conn' = conn \/ HangUp)
        /\ \/ pc' = "ended" /\ verdict' = "lost"
           \/ pc' = "finally" /\ verdict' = verdict
    BY <1>4 DEF Cancel
  <2>2. conn' \in {conn, "aborted"}
    BY <2>1 DEF HangUp
  <2>3. CASE pc \in {"settle", "put"}
    <3>1. /\ vouched /\ hand.usage = reported /\ hand.usage # None /\ buffered = legible
      BY <2>3, CompletedInHand
    <3>2. billed' \in {billed, None, hand.usage} /\ cached' \in {cached, None, buffered}
      BY <1>4 DEF Cancel, bookVars
    <3>3. OnlyVouchedCounts'
      BY <1>1, <3>1, <3>2 DEF ProviderInv, OnlyVouchedCounts
    <3>4. UpstreamIsAborted'
      BY <1>4, <2>3 DEF Cancel, UpstreamIsAborted
    <3> QED BY <1>1, <1>2, <2>1, <2>2, <3>3, <3>4, StopKeepsInv
  <2>4. CASE pc \notin {"settle", "put"}
    <3>1. (HangUp \/ pc' = "finally") /\ UNCHANGED <<billed, cached>>
      BY <1>4, <2>4 DEF Cancel, bookVars
    <3>2. OnlyVouchedCounts' /\ UpstreamIsAborted'
      BY <1>1, <3>1 DEF ProviderInv, OnlyVouchedCounts, UpstreamIsAborted, HangUp
    <3> QED BY <1>1, <1>2, <2>1, <2>2, <3>2, StopKeepsInv
  <2> QED BY <2>3, <2>4
<1>5. CASE Abandon
  <2>1. pc' = "dropped" /\ hand' = Nothing /\ verdict' = "lost" /\ UNCHANGED <<conn, billed, cached>>
    BY <1>5 DEF Abandon, bookVars
  <2>2. OnlyVouchedCounts' /\ UpstreamIsAborted'
    BY <1>1, <2>1 DEF ProviderInv, OnlyVouchedCounts, UpstreamIsAborted
  <2> QED BY <1>1, <1>2, <2>1, <2>2, StopKeepsInv
<1> QED BY <1>3, <1>4, <1>5

\* No line, event, failure or disconnection breaks the invariant of the stream.
LEMMA NextProviderInv == ProviderInv /\ [Next]_vars => ProviderInv'
<1> SUFFICES ASSUME ProviderInv, [Next]_vars PROVE ProviderInv'
  OBVIOUS
<1>1. CASE UNCHANGED vars
  <2>1. UNCHANGED <<conn, wire, said, legible, vouched, reported, lines, pc, usage, hand, buffered,
                    heard, verdict, billed, cached>>
    BY <1>1 DEF vars, wireVars, clientVars, bookVars
  <2>2. Whole' = Whole /\ Taken' = Taken
    BY <2>1 DEF Whole, DoneIn, Taken, TakenWith
  <2>3. HeardInv'
    BY <2>1 DEF ProviderInv, HeardInv, Fits
  <2> QED BY <2>1, <2>2, <2>3 DEF ProviderInv, ProviderTypeOK, ReaderInv, WireInv, Listening,
                                  UpstreamIsAborted, OnlyVouchedCounts
<1>2. CASE Next
  BY <1>2, ConnectionKeepsInv, SendKeepsInv, BreakKeepsInv, OpenKeepsInv, ReadKeepsInv,
     ReadStopsKeepsInv, PullKeepsInv, CompletionKeepsInv, EndKeepsInv
     DEF Next, Provider, Gateway
<1> QED BY <1>1, <1>2

\* The whole of the invariant of one streamed answer.
THEOREM ProviderInvariance == Spec => []ProviderInv
BY InitProviderInv, NextProviderInv, PTL DEF Spec

\* OpenAiCompatibleProviderClient.stream and StreamingCoordinator bill only
\* the usage the provider reported last and cache only all that was legible of
\* the answer, both only for an answer the provider has ended itself.
THEOREM VouchedAnswersCount == Spec => []OnlyVouchedCounts
<1>1. ProviderInv => OnlyVouchedCounts
  BY DEF ProviderInv
<1> QED BY <1>1, ProviderInvariance, PTL

\* No call to the provider outlives a refusal, an error or [DONE], nor a
\* cancellation that finds the gateway in an await: only generators dropped
\* with their client, at a yield or in _deliver's finally clause, leave a call
\* to the event loop.
THEOREM UpstreamsAreAborted == Spec => []UpstreamIsAborted
<1>1. ProviderInv => UpstreamIsAborted
  BY DEF ProviderInv
<1> QED BY <1>1, ProviderInvariance, PTL

\* Every step of the stream is a step of FaithfulStream or leaves what the
\* client sees.
LEMMA ProviderStepIsFaithful ==
    ASSUME ProviderInv, [Next]_vars
    PROVE  [Promise!Next]_Promise!vars
<1> USE DEF Promise!vars
<1>1. CASE UNCHANGED vars \/ Accept \/ Close \/ Break \/ Finalize \/ Open \/ Settle
  BY <1>1 DEF vars, Accept, Close, Break, Finalize, Open, Settle, wireVars, clientVars
<1>2. ASSUME NEW l \in Lines, Send(l) PROVE [Promise!Next]_Promise!vars
  <2>1. /\ ~vouched /\ vouched' = (l.kind = "done") /\ UNCHANGED <<heard, verdict>>
        /\ said' = (IF l.text = None THEN said ELSE Append(said, l.text))
        /\ legible' = (IF Piece(l) = None THEN legible ELSE Append(legible, Piece(l)))
    BY <1>2 DEF Send, clientVars
  <2>2. /\ l.text \in Texts \cup {None} /\ (l.kind = "done" => l.text = None)
        /\ (l.kind = "odd" => l.text \in Texts)
        /\ Piece(l) = IF l.kind = "odd" THEN None ELSE l.text
    BY LineType
  <2>3. vouched = FALSE
    BY <2>1 DEF ProviderInv, ProviderTypeOK
  <2>4. CASE l.kind = "done"
    BY <2>1, <2>2, <2>4 DEF Promise!Next, Promise!Vouch
  <2>5. CASE l.kind # "done" /\ l.text = None
    BY <2>1, <2>2, <2>3, <2>5
  <2>6. CASE l.kind = "odd" /\ l.text # None
    <3>1. Promise!Mumble
      BY <2>1, <2>2, <2>3, <2>6 DEF Promise!Mumble
    <3> QED BY <3>1 DEF Promise!Next
  <2>7. CASE l.kind \notin {"done", "odd"} /\ l.text # None
    <3>1. Promise!Say
      BY <2>1, <2>2, <2>3, <2>7 DEF Promise!Say
    <3> QED BY <3>1 DEF Promise!Next
  <2> QED BY <2>4, <2>5, <2>6, <2>7
<1>3. ASSUME NEW e, Fits(e), Deliver(e), pc \notin {"ended", "dropped"},
             UNCHANGED <<said, legible, vouched, verdict>>
      PROVE  [Promise!Next]_Promise!vars
  <2>1. CASE UNCHANGED heard
    BY <1>3, <2>1
  <2>2. CASE e.type = "chunk" /\ heard' = Append(heard, e.text)
    <3>1. /\ verdict = "none" /\ Len(heard) + 1 <= Len(legible)
          /\ legible[Len(heard) + 1] = e.text /\ heard \in Seq(Texts) /\ legible \in Seq(Texts)
      BY <1>3, <2>2 DEF ProviderInv, ReaderInv, Fits, ProviderTypeOK
    <3>2. Promise!Hear
      BY <1>3, <2>2, <3>1 DEF Promise!Hear
    <3> QED BY <3>2 DEF Promise!Next
  <2> QED BY <1>3, <2>1, <2>2 DEF Deliver
<1>4. CASE Read \/ ReadEnd \/ ReadStatus \/ ReadFails
  <2>1. PICK e : Yield(e)
    BY <1>4 DEF Read, ReadEnd, ReadStatus, ReadFails
  <2>2. pc \in {"opening", "reading"} /\ UNCHANGED <<said, legible, vouched, verdict>>
    BY <1>4 DEF Read, ReadEnd, ReadStatus, ReadFails, Yield, wireVars
  <2>3. CASE UNCHANGED heard
    BY <2>2, <2>3
  <2>4. CASE pc = "reading" /\ Read /\ Deliver(EventOf(Head(wire)))
    <3>1. EventOf(Head(wire)).type # "none" /\ wire # <<>>
      BY <2>4 DEF Deliver, Read
    <3>2. Fits(EventOf(Head(wire)))
      BY <2>2, <3>1, ReadFits
    <3> QED BY <1>3, <2>2, <2>4, <3>2
  <2>5. CASE pc = "reading" /\ ~Read
    <3>1. Yield(Failure) \/ Yield(Stopped)
      BY <1>4, <2>5 DEF ReadEnd, ReadStatus, ReadFails
    <3>2. UNCHANGED heard
      BY <3>1, EventType DEF Yield, FirstEvent, Deliver
    <3> QED BY <2>3, <3>2
  <2>6. CASE Read /\ ~(pc = "reading" /\ Deliver(EventOf(Head(wire))))
    BY <2>3, <2>6 DEF Read, Yield, FirstEvent
  <2>7. CASE pc = "opening"
    BY <2>1, <2>3, <2>7 DEF Yield, FirstEvent
  <2> QED BY <2>2, <2>4, <2>5, <2>6, <2>7
<1>5. CASE Pull
  <2>1. Fits(hand) /\ UNCHANGED <<said, legible, vouched, verdict>> /\ pc \notin {"ended", "dropped"}
    BY <1>5 DEF Pull, wireVars, ProviderInv, HeardInv
  <2> QED BY <1>3, <1>5, <2>1 DEF Pull
<1>6. CASE Put
  <2>1. /\ verdict = "none" /\ vouched /\ heard = legible /\ verdict' = "done"
        /\ UNCHANGED <<said, legible, vouched, heard>>
    BY <1>6, CompletedInHand DEF Put, wireVars
  <2> QED BY <2>1 DEF Promise!Next, Promise!Conclude
<1>7. CASE Refuse \/ Tell \/ CloseStream \/ Cancel \/ Abandon
  <2>1. /\ UNCHANGED <<said, legible, vouched, heard>> /\ pc \notin {"ended", "dropped"}
        /\ verdict' \in {verdict, "refused", "error", "lost"}
        /\ verdict' = "refused" => verdict = "refused" \/ pc = "refusing"
    BY <1>7 DEF Refuse, Tell, CloseStream, Cancel, Abandon, wireVars
  <2>2. verdict = "none" /\ (pc = "refusing" => heard = <<>>)
    BY <2>1 DEF ProviderInv, ReaderInv
  <2> QED BY <2>1, <2>2 DEF Promise!Next, Promise!Conclude
<1> QED BY <1>1, <1>2, <1>4, <1>5, <1>6, <1>7 DEF Next, Provider, Gateway

\* The path of stream, _deliver and _frame implements FaithfulStream: the
\* client hears what the provider said legibly, in order and without a gap,
\* and sees [DONE] only after all of an answer the provider has ended itself.
\* What _delta_from does not recognise is left out without a word (Mumble).
THEOREM AnswersReachTheClientWhole == Spec => AnswersAreFaithful
<1>1. Init => Promise!Init
  BY DEF Init, Promise!Init
<1>2. ProviderInv /\ [Next]_vars => [Promise!Next]_Promise!vars
  BY ProviderStepIsFaithful
<1>3. Spec => Promise!Spec
  BY <1>1, <1>2, ProviderInvariance, PTL DEF Spec, Promise!Spec
<1> QED BY <1>3 DEF AnswersAreFaithful

=============================================================================
