------------------------------ MODULE JwksCache ------------------------------
(***************************************************************************)
(* The TTL cache of the identity provider's signing keys (JwksCache), with *)
(* the fetches its callers await.  A key set is a set of kids.             *)
(*                                                                         *)
(* Times are kept as ages that stop at the largest value anything compares *)
(* them with, so the clock is unbounded and the state space is not.        *)
(***************************************************************************)
EXTENDS Naturals

CONSTANTS
    Kids,          \* key ids
    KeySets,       \* the key sets the identity provider may serve
    Callers,       \* coroutines that use the cache
    TTL,           \* ttl, in ticks
    MinInterval,   \* min_refresh_interval
    Timeout        \* OidcTimeouts.total_seconds: a fetch is cut off at that age

\* The defaults are 600 s, 30 s and 7 s.
ASSUME JwksAssumption ==
    /\ TTL \in Nat /\ MinInterval \in Nat /\ Timeout \in Nat
    /\ KeySets \subseteq (SUBSET Kids) \ {{}}
    /\ Timeout < TTL /\ Timeout < MinInterval

VARIABLES
    published,   \* the key set the identity provider serves
    retired,     \* retired[k]: how long k has not been served (history)
    keys,        \* _state.keys
    age,         \* the age of _state.fetched_at, TTL when there is none
    ever,        \* _state.fetched_at is not None
    attempt,     \* the age of _state.last_attempt_at
    fetch        \* fetch[c]: the call of transport.fetch that c awaits

jwksVars == <<published, retired, keys, age, ever, attempt, fetch>>

\* why: "first" while nothing was ever fetched, "miss" when the throttle let
\* it through, "force" for fetch_jwks(force_refresh=True).
Whys == {"none", "first", "miss", "force"}
NoFetch == [why |-> "none", age |-> 0, body |-> {}]

\* The type of the cache.
JwksTypeOK ==
    /\ published \in KeySets
    /\ retired \in [Kids -> 0..TTL]
    /\ keys \in SUBSET Kids
    /\ age \in 0..TTL
    /\ ever \in BOOLEAN
    /\ attempt \in 0..MinInterval
    /\ fetch \in [Callers -> [why : Whys, age : 0..Timeout, body : SUBSET Kids]]

JwksInit ==
    /\ published \in KeySets
    /\ retired = [k \in Kids |-> IF k \in published THEN 0 ELSE TTL]
    /\ keys = {}
    /\ age = TTL
    /\ ever = FALSE
    /\ attempt = MinInterval
    /\ fetch = [c \in Callers |-> NoFetch]

-----------------------------------------------------------------------------
(* The identity provider and time.                                         *)

Publish(ks) ==
    /\ published' = ks
    /\ retired' = [k \in Kids |-> IF k \in ks THEN 0 ELSE retired[k]]
    /\ UNCHANGED <<keys, age, ever, attempt, fetch>>

Older(a, most) == IF a < most THEN a + 1 ELSE a

\* A fetch is ended by asyncio.timeout before time passes its limit.
Elapse ==
    /\ \A c \in Callers : fetch[c].why # "none" => fetch[c].age < Timeout
    /\ retired' = [k \in Kids |-> IF k \in published THEN 0 ELSE Older(retired[k], TTL)]
    /\ age' = Older(age, TTL)
    /\ attempt' = Older(attempt, MinInterval)
    /\ fetch' = [c \in Callers |->
                    IF fetch[c].why = "none" THEN fetch[c]
                    ELSE [fetch[c] EXCEPT !.age = Older(@, Timeout)]]
    /\ UNCHANGED <<published, keys, ever>>

\* The provider answers the request of c; the answer is on its way.
Serve(c) ==
    /\ fetch[c].why # "none" /\ fetch[c].body = {}
    /\ fetch' = [fetch EXCEPT ![c].body = published]
    /\ UNCHANGED <<published, retired, keys, age, ever, attempt>>

-----------------------------------------------------------------------------
(* The cache.                                                              *)

Fresh == age < TTL

MayAttemptRefresh == ~ever \/ attempt >= MinInterval

\* Mutant: last_attempt_at is set when the document has come.
StartUnstamped(c, why) ==
    /\ fetch' = [fetch EXCEPT ![c] = [NoFetch EXCEPT !.why = why]]
    /\ UNCHANGED <<published, retired, keys, age, ever, attempt>>

\* refresh, up to its await.
StartRefresh(c, why) ==
    /\ attempt' = 0
    /\ fetch' = [fetch EXCEPT ![c] = [NoFetch EXCEPT !.why = why]]
    /\ UNCHANGED <<published, retired, keys, age, ever>>

\* Mutant: fetched_at is the time the document came.
EndRefreshNow(c) ==
    /\ fetch[c].why # "none" /\ fetch[c].body # {}
    /\ keys' = fetch[c].body
    /\ age' = 0
    /\ ever' = TRUE
    /\ fetch' = [fetch EXCEPT ![c] = NoFetch]
    /\ UNCHANGED <<published, retired, attempt>>

\* refresh, after it: the set is replaced, dated at the start of this fetch.
EndRefresh(c) ==
    /\ fetch[c].why # "none" /\ fetch[c].body # {}
    /\ keys' = fetch[c].body
    /\ age' = fetch[c].age
    /\ ever' = TRUE
    /\ fetch' = [fetch EXCEPT ![c] = NoFetch]
    /\ UNCHANGED <<published, retired, attempt>>

\* A timeout, a transport error, a malformed or empty document, or the
\* coroutine is cancelled.
DropFetch(c) ==
    /\ fetch' = [fetch EXCEPT ![c] = NoFetch]
    /\ UNCHANGED <<published, retired, keys, age, ever, attempt>>

=============================================================================
