---------------------------- MODULE RateLimiter -----------------------------
(***************************************************************************)
(* Ingress rate limiting of one organization (adapters/ratelimit): a token *)
(* bucket in Redis shared by every replica, a bucket in the memory of each *)
(* replica for when Redis does not answer, and the DegradedRateLimiter     *)
(* that switches between the two.  Buckets are keyed by organization, so   *)
(* one organization's are modelled.                                        *)
(*                                                                         *)
(* Every bucket lives by a clock of its own, the Redis server's or the     *)
(* replica's, which may be stepped back and forth.  Time is counted in     *)
(* ticks and tokens in units, both small enough that the tokens of a tick  *)
(* are whole units; rounding of floating point numbers is left out.        *)
(*                                                                         *)
(* Unauthenticated requests pass the middleware without touching a bucket. *)
(***************************************************************************)
EXTENDS Integers

CONSTANTS
    Replicas,    \* the gateway processes, each with a local bucket
    Redis,       \* the shared bucket's store
    Handlers,    \* request handlers, each serving one request after the other
    ReplicaOf,   \* the replica a handler runs on
    Burst,       \* RateLimitPolicy.burst, in tokens
    Unit,        \* the units that make a token
    Rate,        \* RateLimitPolicy.requests_per_second, in units per tick
    Second,      \* the ticks of a second, in which Retry-After and EXPIRE count
    MaxClock,    \* bound: the clocks stop here
    MaxMishaps,  \* bound: clock steps and restarts
    Never        \* no time

ASSUME RateAssumption ==
    /\ Redis \notin Replicas
    /\ ReplicaOf \in [Handlers -> Replicas]
    /\ {Burst, Unit, Rate, Second} \subseteq Nat \ {0}
    /\ MaxClock \in Nat
    /\ MaxMishaps \in Nat
    /\ Never \notin Int

VARIABLES
    shared,    \* is Redis configured? (fixed)
    bucket,    \* [known, tokens, updatedAt, expireAt] by store
    clock,     \* the wall clock of each store
    at,        \* where a handler is
    degraded,  \* DegradedRateLimiter._degraded, by replica
    promised,  \* history: when a store's last denial said to come back
    allowance, \* history: what a store may still let through, in units, without
               \* exceeding a burst and the accrual of true time in any interval
    mishaps    \* clock steps and restarts so far (bounds the model)

rateVars == <<shared, bucket, clock, at, degraded, promised, allowance, mishaps>>

-----------------------------------------------------------------------------
(* State.                                                                  *)

Stores == Replicas \cup {Redis}

Capacity == Burst * Unit

\* _Bucket, and the hash in Redis with the time it expires.
Bucket == [known : BOOLEAN, tokens : Nat, updatedAt : Int, expireAt : Int \cup {Never}]

\* No entry: a tenant seen for the first time.
Unknown == [known |-> FALSE, tokens |-> 0, updatedAt |-> 0, expireAt |-> Never]

\* Awaiting Redis, which has not run the script yet or has a verdict; decided.
Awaiting == {"asked", "mayPass", "mustWait"}
Places == {"idle", "passed", "refused"} \cup Awaiting

RateInit ==
    /\ shared \in BOOLEAN
    /\ bucket = [s \in Stores |-> Unknown]
    /\ clock = [s \in Stores |-> 0]
    /\ at = [h \in Handlers |-> "idle"]
    /\ degraded = [p \in Replicas |-> FALSE]
    /\ promised = [s \in Stores |-> Never]
    /\ allowance = [s \in Stores |-> Capacity]
    /\ mishaps = 0

-----------------------------------------------------------------------------
(* A token bucket: acquire of the in-memory limiter and _ACQUIRE_SCRIPT.   *)

AtMost(x, y) == IF x <= y THEN x ELSE y
AtLeast(x, y) == IF x >= y THEN x ELSE y

\* Mutant: math.floor, or an integer division.
CeilDivFloor(x, y) == x \div y

\* math.ceil(x / y).
CeilDiv(x, y) == (x + y - 1) \div y

\* Mutant: the distance to updated_at, without a sign.
ElapsedEitherWay(s) == AtLeast(clock[s] - bucket[s].updatedAt, bucket[s].updatedAt - clock[s])

\* max(0, now - updated_at)
Elapsed(s) == AtLeast(0, clock[s] - bucket[s].updatedAt)

\* _refill
Refilled(s) == AtMost(Capacity, bucket[s].tokens + Elapsed(s) * Rate)

\* Redis answers for a key whose time has come as if it were gone.
Expired(s) == bucket[s].expireAt # Never /\ clock[s] >= bucket[s].expireAt

\* The units in a bucket when a request looks at it: a bucket that nobody
\* remembers is full.
Level(s) == IF bucket[s].known /\ ~Expired(s) THEN Refilled(s) ELSE Capacity

\* Whole seconds until units are there, at least one.
Seconds(units) == AtLeast(1, CeilDiv(units, Rate * Second))

\* Mutant: a bucket expires when its next token is there.
ExpiryNextToken(s, tokens) ==
    IF s = Redis THEN clock[s] + Second * Seconds(Unit) ELSE Never

\* EXPIRE: when the bucket would be full again.  Local buckets stay.
Expiry(s, tokens) ==
    IF s = Redis THEN clock[s] + Second * Seconds(Capacity - tokens) ELSE Never

Store(s, tokens) ==
    bucket' = [bucket EXCEPT ![s] = [known     |-> TRUE,
                                     tokens    |-> tokens,
                                     updatedAt |-> clock[s],
                                     expireAt  |-> Expiry(s, tokens)]]

\* allowed: a token is taken.
Take(s) ==
    /\ Level(s) >= Unit
    /\ Store(s, Level(s) - Unit)
    /\ allowance' = [allowance EXCEPT ![s] = @ - Unit]
    /\ promised' = [promised EXCEPT ![s] = Never]

\* denied: nothing is taken, and Retry-After says when a token is there.
Deny(s) ==
    /\ Level(s) < Unit
    /\ Store(s, Level(s))
    /\ promised' = [promised EXCEPT ![s] = clock[s] + Second * Seconds(Unit - Level(s))]
    /\ UNCHANGED allowance

-----------------------------------------------------------------------------
(* acquire of the limiter the container composes.                          *)

Goto(h, place) == at' = [at EXCEPT ![h] = place]

\* Without Redis the local limiter is the limiter.
AcquireLocal(h) ==
    /\ at[h] = "idle"
    /\ ~shared
    /\ \/ Take(ReplicaOf[h]) /\ Goto(h, "passed")
       \/ Deny(ReplicaOf[h]) /\ Goto(h, "refused")
    /\ UNCHANGED <<shared, clock, degraded, mishaps>>

\* The script is on its way to Redis.
Ask(h) ==
    /\ at[h] = "idle"
    /\ shared
    /\ Goto(h, "asked")
    /\ UNCHANGED <<shared, bucket, clock, degraded, promised, allowance, mishaps>>

\* Redis runs the script, in one piece.
RunScript(h) ==
    /\ at[h] = "asked"
    /\ \/ Take(Redis) /\ Goto(h, "mayPass")
       \/ Deny(Redis) /\ Goto(h, "mustWait")
    /\ UNCHANGED <<shared, clock, degraded, mishaps>>

\* The answer of Redis arrives and decides.
Answer(h) ==
    /\ \/ at[h] = "mayPass" /\ Goto(h, "passed")
       \/ at[h] = "mustWait" /\ Goto(h, "refused")
    /\ degraded' = [degraded EXCEPT ![ReplicaOf[h]] = FALSE]
    /\ UNCHANGED <<shared, bucket, clock, promised, allowance, mishaps>>

\* Redis cannot be reached, times out or fails, before or after it has run the
\* script, and the local bucket decides.  (A script that runs after its caller
\* has given up is, to the bucket, one that ran just before.)
FallBack(h) ==
    /\ at[h] \in Awaiting
    /\ \/ Take(ReplicaOf[h]) /\ Goto(h, "passed")
       \/ Deny(ReplicaOf[h]) /\ Goto(h, "refused")
    /\ degraded' = [degraded EXCEPT ![ReplicaOf[h]] = TRUE]
    /\ UNCHANGED <<shared, clock, mishaps>>

\* The middleware answers 429, or passes the request on.
Respond(h) ==
    /\ at[h] \in {"passed", "refused"}
    /\ Goto(h, "idle")
    /\ UNCHANGED <<shared, bucket, clock, degraded, promised, allowance, mishaps>>

-----------------------------------------------------------------------------
(* The environment.                                                        *)

\* Redis removes a key whose time has come.
Expire ==
    /\ bucket[Redis].known
    /\ Expired(Redis)
    /\ bucket' = [bucket EXCEPT ![Redis] = Unknown]
    /\ UNCHANGED <<shared, clock, at, degraded, promised, allowance, mishaps>>

RateTick ==
    /\ \A s \in Stores : clock[s] < MaxClock
    /\ clock' = [s \in Stores |-> clock[s] + 1]
    /\ allowance' = [s \in Stores |-> AtMost(Capacity, allowance[s] + Rate)]
    /\ UNCHANGED <<shared, bucket, at, degraded, promised, mishaps>>

Mishap == mishaps < MaxMishaps /\ mishaps' = mishaps + 1

\* A clock is set back: nothing accrues by it.
StepBack(s) ==
    /\ Mishap
    /\ clock[s] > 0
    /\ clock' = [clock EXCEPT ![s] = @ - 1]
    /\ UNCHANGED <<shared, bucket, at, degraded, promised, allowance>>

\* A clock is set forward: the limiter cannot tell it from time that has passed.
StepForward(s) ==
    /\ Mishap
    /\ clock[s] < MaxClock
    /\ clock' = [clock EXCEPT ![s] = @ + 1]
    /\ allowance' = [allowance EXCEPT ![s] = AtMost(Capacity, @ + Rate)]
    /\ UNCHANGED <<shared, bucket, at, degraded, promised>>

\* Redis or a replica restarts and its buckets are gone; so are the requests
\* the replica was serving.
Restart(s) ==
    /\ Mishap
    /\ bucket' = [bucket EXCEPT ![s] = Unknown]
    /\ allowance' = [allowance EXCEPT ![s] = Capacity]
    /\ promised' = [promised EXCEPT ![s] = Never]
    /\ at' = [h \in Handlers |-> IF ReplicaOf[h] = s THEN "idle" ELSE at[h]]
    /\ degraded' = [p \in Replicas |-> degraded[p] /\ p # s]
    /\ UNCHANGED <<shared, clock>>

-----------------------------------------------------------------------------

Handle(h) == AcquireLocal(h) \/ Ask(h) \/ RunScript(h) \/ Answer(h) \/ FallBack(h) \/ Respond(h)

RateNext == \/ \E h \in Handlers : Handle(h)
            \/ Expire
            \/ RateTick
            \/ \E s \in Stores : StepBack(s) \/ StepForward(s) \/ Restart(s)

RateSpec == RateInit /\ [][RateNext]_rateVars

-----------------------------------------------------------------------------
(* Properties.                                                             *)

\* The variables have their types, no bucket holds more than its capacity, and
\* without Redis no handler awaits it and no replica reports degraded limits.
RateTypeOK ==
    /\ shared \in BOOLEAN
    /\ bucket \in [Stores -> Bucket]
    /\ clock \in [Stores -> 0..MaxClock]
    /\ at \in [Handlers -> Places]
    /\ degraded \in [Replicas -> BOOLEAN]
    /\ promised \in [Stores -> Int \cup {Never}]
    /\ allowance \in [Stores -> Int]
    /\ mishaps \in 0..MaxMishaps
    /\ \A s \in Stores : bucket[s].tokens <= Capacity
    /\ ~shared => \A h \in Handlers : at[h] \notin Awaiting /\ ~degraded[ReplicaOf[h]]

\* In no interval of true time does a store let more through than one burst and
\* what accrues in the interval (allowance is the least, over all instants the
\* interval may start at, of what that leaves), whatever outages, lost answers,
\* expiries and backward clock steps happen: "a backwards step then costs a
\* tenant a little refill rather than granting an unbounded one".  A forward
\* step counts as the time it skips, a restart as a new beginning.
LimitHolds == \A s \in Stores : allowance[s] >= 0

\* A bucket that Redis forgets was full: "expiry changes no answer"
\* (redis_token_bucket.py), although EXPIRE counts whole seconds.
ExpiryChangesNoAnswer ==
    \A s \in Stores : bucket[s].known /\ Expired(s) => Refilled(s) = Capacity

\* A client that was refused and comes back when Retry-After says finds a
\* token, unless somebody else took it: "a client that obeys it succeeds rather
\* than arriving fractionally early" (_seconds_to_next_token).
RetryAfterIsEnough ==
    \A s \in Stores : promised[s] # Never /\ clock[s] >= promised[s] => Level(s) >= Unit

=============================================================================
