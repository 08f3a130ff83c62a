# A verification model of the enterprise LLM gateway

The gateway (`src/backend/src/gateway`) sits between the clients of many
organizations and several LLM providers. A request is authenticated, rate
limited, checked against policy, routed to a healthy provider, paid for from the
organization's budget, answered (from a cache, from a call in flight or from the
provider) and accounted for. The parts that are hard to get right are the ones
where money, concurrency and failure meet, and these TLA+ modules model them in
that order. Paths below are relative to `src/backend/src/gateway`.

## 1. The system

| component | state it keeps | operations | what makes it correct |
|---|---|---|---|
| Budget ledger (`adapters/ledger/sql_budget_ledger.py`, `application/ports/ledger.py`) | tables `org_budget`, `budget_reservation`, `cost_ledger` | `reserve`, `settle`, `release`, `reconcile_expired` | the totals agree with the rows; a cost is booked once; the limit holds against concurrency |
| Reservation service, reconciler (`application/accounting`) | none | sweep, then reserve; settle; release | fails closed; returns only abandoned holds |
| Inference coordinator, deduplicator (`application/execution`) | `_in_flight` tasks; the response cache | `execute` | no hold leaks, nothing is served that was not paid, one call per duplicate |
| Streaming coordinator (`application/streaming`) | the generator of each stream | `open`, `_deliver`, `_complete` | every ending settles or releases; only whole answers are billed and cached |
| Circuit breaker (`adapters/health`) and routing (`application/agents`, `application/routing`) | a circuit per organization and provider | `observe`, `assess`, `select` | opens on consecutive faults, spares a cooling provider, always tries it again |
| Reflection (`application/reflection`) | none | retries of a transient failure | bounded, on the provider chosen |
| Inference service (`application/serving`) | none | admit, execute or stream, evaluate | nothing runs that was not admitted |
| Rate limiting (`adapters/ratelimit`) | token buckets in Redis and in memory | `acquire` | never more than capacity plus refill; degraded mode stays bounded |
| Sessions, refresh tokens (`application/auth`) | tables `session`, `refresh_token` | issue, refresh, logout | a spent token buys nothing; rotation is whole |
| OIDC login, JWKS cache (`application/auth`, `adapters/security`) | table `oidc_login_state`; keys, their age and the last attempt | authorize, callback, `get_key`, `refresh` | a login state is used once; retired keys stop verifying; fetches are throttled |
| Audit (`adapters/audit`) | tables `audit_event`, `audit_chain_head`; the log | `record` | one unbroken chain per tenant; no event lost silently |
| Provider client (`adapters/providers`) | the upstream connection of each stream | `invoke`, `stream` | the client hears what was said; only a finished answer counts; an abandoned call is aborted |
| Authentication, admission, authorization, policy, catalog (`delivery/http`, `application/pipeline`, `adapters/pipeline`, `adapters/policy`, `adapters/authorization`, `adapters/catalog`) | none, over tables of keys, roles and providers | middlewares, staged checks | nothing runs that was not admitted; an early refusal has no later effect; no refusal without a reason |
| Evaluation (`application/evaluation`) | none | verdicts on a finished request | no verdict changes the answer |
| Pricing, tools, MCP, observability, configuration | read-only | queries, wiring | see section 8 |

How they interact. The middlewares authenticate a request (which records an
audit event) and spend a unit of its tenant's allowance; the handler runs the
admission stages, asks the
agents for a provider (which reads the breaker and may turn an open circuit
half-open), and hands the request to a coordinator. The coordinator reads the
cache, joins or starts a task for the correlation id (unary only), and the task
reserves (after a sweep of the organization's expired holds), calls the
provider, tells the breaker, settles or releases, and stores the answer. The
ledger and the cache are shared by all replicas; the in-flight tasks and the
circuits belong to one process. Each ledger operation is one database
transaction.

What is hard about it: transactions of one id interleave (reserve takes the
budget lock and then the row, settle and release the other way round); a hold
may expire while its call still runs; the commit of an operation may succeed and
its answer be lost; a process may die at any await; callers are cancelled while
others wait for the same task; streams of one id share one reservation; results
of provider calls reach the breaker in any order; refreshes, revocations and
callbacks of one session or login interleave as transactions; keys, roles and
providers change between the checks of one request. `PROJECT.json` lists these
hazards line by line with the properties that watch them.

## 2. The modules

```
Sums
  ^
BudgetLedger <-- SqlBudgetLedger (implements it) <-- BudgetLedgerProofs
  ^
Coordination (what both share beside the ledger: cache, faults, holds adrift)
  ^      ^
  |      +-- StreamingCoordinator  (composed with the ledger) <-+
  +--------- InferenceCoordinator  (composed with the ledger) <-+-- CoordinatorProofs
CircuitBreaker <-----------------------------------+
FaithfulStream <.. ProviderStream (implements it) <+-- ProviderProofs
RateLimiter    <-- RateLimiterProofs
AuditLog       <.. AuditChain (implements it) <-- AuditChainProofs
Sessions       <-- SessionsProofs
JwksCache      <-- OidcLogin (composed with it) <-- OidcLoginProofs
Gateway        <-- GatewayProofs
```

`CoordinatorProofs` extends `BudgetLedgerProofs` and uses its theorems.

Each has an `MC` module with its instance and one `.cfg` per run. Definitions
whose comment starts with `Mutant:` are wrong variants of the definition that
follows; they stand for bugs the properties would catch and no specification
uses them.

**BudgetLedger** is the ledger as its port promises it: every operation one
atomic step. `row` is `budget_reservation` by correlation id, `spent` and
`reserved` are the columns of `org_budget`, `costLedger` is `cost_ledger`, `now`
the clock. Every branch of an operation is an action: for `reserve` the replay of
a live or committed id, the organization without a budget, the wrong currency,
the hold and the refusal; for `settle` the settlement of a live hold and of an
expired one, the replay, the unknown or released id and the wrong currency;
likewise `release`; `Reclaim` is the sweep, which may skip locked rows and may act
on an earlier reading of the clock. `heldAt` and `overrun` are history
variables: when the current hold was taken, and how much was booked beyond what
its hold covered.

**SqlBudgetLedger** runs the same operations statement by statement in several
database sessions under READ COMMITTED: the advisory lock of an id, the unlocked
read of the existing row, the gating `UPDATE`, the upsert; `SELECT ... FOR UPDATE`
and the budget update; the sweep with `SKIP LOCKED`. `txn` is what a session is
doing and has read, `lock` who holds each lock. Deadlocks are broken as
PostgreSQL breaks them, and any transaction may abort before its commit. Its
abstract specification is BudgetLedger, with the identity as refinement mapping:
the committed database is the port's state.

**InferenceCoordinator** and **StreamingCoordinator** extend BudgetLedger, through
**Coordination**, and use its actions as the ledger calls they make. A step runs from one await on
something outside the process to the next. In the first, `phase` and `awaits` are
a request handler, `task` the shared task a request started, `inFlight` the
deduplicator's dictionary of every replica, `cache` the stored keys; in the
second, `at` is the await or yield a stream is suspended in. Both have clients
that cancel, replicas that crash, and a ledger that fails before or after it
commits (`Fault`). `adrift` is a history variable: the ids whose hold a fault or
an escaping exception has left behind for the sweep.

**CircuitBreaker** has a circuit per provider, and handlers that route (assess
every candidate, pick the best tier), call, report and retry.

**RateLimiter** has the shared bucket in Redis, a local bucket per replica and
handlers that ask Redis, receive its answer or fall back to the local bucket,
also when Redis has run the script and its answer was lost. Every store has a
clock of its own that may be set back or forth, and may restart; a Redis key
expires by the clock of Redis. Time is in ticks, a fraction of a second, and
tokens in units, a fraction of a token, so that rounding to whole seconds
(`Retry-After`, `EXPIRE`) is modelled. `allowance` is a history variable: what a
store may still let through without exceeding, in any interval of true time that
ends now, one burst and what accrues in the interval.

**AuditLog** is what the audit trail promises: per organization a sequence of
events to which one call appends its event once. **AuditChain** is the code: the
composite sink calls the logging sink and then the SQL sink, whose transaction
takes the advisory lock of the organization (two organizations may share a hash),
reads the head, inserts a row and moves the head. `pc[c]` is the statement a call
is about to run, `prev[c]` what it has read, `rows` and `head` the tables, `lock`
the advisory locks, `logged` and `alerts` what the log has of events and of
failures. A digest is the sequence of events it stands for. A transaction may
fail at any statement, its commit may succeed unseen, its task may vanish.

**Sessions** has the two tables as `session` and `token`, PostgreSQL's row locks
as `rowLock`, the queues for them as `waits` and `tupleLock`, and in `tx[h]` the
operation of a handler with the rows it has read and its pending writes. An
`UPDATE` that finds a row written by another transaction takes the tuple lock of
the row and waits for that transaction; those that come later wait for the tuple
lock, that is for the first in the queue, which need not have written anything.
Handlers of refreshes (`Callers`) and of logouts (`Leavers`) are apart only to keep
the instance small. A refresh reads the token (unlocked), then the session,
inserts the new token and updates the old one; reuse detection revokes the tokens
and then the session; logout the session and then the tokens. An `UPDATE` over the
tokens sees the rows of its snapshot and waits for each. The use cases raise after
writing, and no caller of them is in the repository: whether it commits then is
left open, as in OidcLogin.

**JwksCache** has the key set of the identity provider (`published`), the cached
`keys` with their `age`, the time since the last `attempt` and the fetch each
caller has in flight, which may be answered with an older set than is published
by the time it ends. **OidcLogin** runs callbacks over it: verify the state,
`DELETE ... RETURNING` the row (a second callback waits for the first one's
transaction), exchange the code, get the key, verify, find the identity, mint and
commit. `byState` and `byToken` count what was minted.

**FaithfulStream** is what a streamed answer promises a client. **ProviderStream**
is the path of one answer: the provider's lines on the `wire`, the SSE client that
turns each into an event or skips it (`EventOf`), `open` and `_deliver` that relay
it, and `_frame`; a provider that sends text, usage and `[DONE]` in any order, lines
that cannot be decoded, and objects with their text where `_delta_from` does not look
for it ("odd" lines), closes early, breaks the connection or falls silent. `said` is
all its text and `legible` what of it is not odd. `pc` is the await or yield the
gateway is suspended at, and what becomes of the call to the provider when the
client goes depends on it: a cancellation in an await (`Cancel`) leaves the contexts
of `stream` or reaches `_deliver`'s `finally`; generators suspended at a yield, or
cancelled again in the release of that clause, are dropped (`Abandon`), and the call
goes on until the event loop finalizes them (`Finalize`).

**Gateway** is one `POST /v1/inference` from the socket to its status code: `pc` is
the await it is suspended in, and between any two awaits keys are revoked or
expire, tokens are issued, grants and providers are switched and the allowance is
used by others. `sawLive`, `sawGrant` and `sawEnabled` remember what held at some
instant of the request, `troubled` whether something it depends on failed or was
withdrawn. The other components answer here in any way they can.

### Abstractions

* One organization. Every statement carries `organization_id` and runs under row
  level security; circuits and cache keys are per organization.
* Whether there is a budget row is chosen at the start: nothing under `src/`
  writes one.
* Amounts are small naturals; a price is known or not and a cost computed or not.
* `created_at` is the start of the transaction; a clock tick stands for a large
  part of the fifteen-minute ttl, so ticks wait for the reservations under way.
* The last statement and the commit are one step: an abort between them is an
  abort before the statement, because the locks are held to the end.
* Each attempt of a retried request has the id `<cid>#<n>`, so it is a request of
  its own for the coordinators and the ledger.
* A cached entry that expired, is malformed or cannot be read is one of the
  bounded faults of a lookup. Chunks after the first change no modelled state.
* The numbers of the providers order them as their names do.
* Outside RateLimiter clocks do not step back.
* SHA-256 has no collisions, an HMAC or a signature verifies exactly when it was
  made here or by the key it names, and secrets are not guessed.
* An identity provider serves one of finitely many key sets; `Elapse` is a tick of
  its and the cache's common time, and a fetch lasts at most its timeout, which is
  shorter than the throttle and the time to live, as the defaults are.
* Gateway follows one request; several are in the modules of the parts they share.
  The tie between equally healthy providers is left open.
* Units and ticks are exact: the rounding of floating point numbers is left out.
* A script that Redis runs after its caller has given up counts as one that ran
  just before.

## 3. The runs

| run | instance | states | question |
|---|---|---|---|
| `budget_ledger` | 2 ids, amounts 1 and 2, limit 3, ttl 1, clock to 3, 2 currencies, with and without a budget | 68 000 | do the totals agree with the rows after any sequence of calls? |
| `budget_ledger_rehold` | the same | violation | is a fresh hold safe from the sweep? |
| `sql_ledger` | 2 sessions, 2 ids, 5 operations, limit 2, clock to 2 | 110 000 | do the transactions implement the port? do they end? |
| `inference_coordinator` | 2 requests, 2 replicas, 2 ids, 1 fault, clock to 2 | 222 000 | does anything leak, is everyone answered? |
| `streaming_coordinator` | 2 streams with one id or two, limit 1, 1 fault | 381 000 | what is billed, cached and released, whatever the ending? |
| `circuit_breaker` | 2 providers, 2 handlers, threshold 2, cooldown 1, 2 attempts, clock to 2 | 116 000 | does the breaker follow its rule? |
| `rate_limiter` | 1 replica, 2 handlers, burst 2, a token in 3 ticks, 2 ticks a second, clocks to 5, 2 clock steps or restarts | 1 470 000 | is the limit kept, and is what clients are told true? |
| `audit_chain` | 3 calls, 2 organizations with one lock key | 101 000 | is the chain one chain, and is anything lost silently? |
| `sessions` | 2 handlers of refreshes and 1 of logouts, 1 session, 3 tokens, 4 calls, clock to 1, ttls shorter than a tick | 100 000 | what does a spent token buy, and who deadlocks? |
| `oidc_login` | 2 callbacks, 2 logins, 2 keys, ttl and throttle 2, timeout 1 | 1 565 000 | is a state used once, do retired keys go? |
| `provider_stream` | 3 lines over 2 texts and 2 usage reports | 220 000 | does the client hear the truth, is only a whole answer billed? |
| `gateway` | a key and a token of 2 tenants, a provider each, 2 attempts, allowance 1 | 455 000 | is every call admitted, every refusal justified, every request answered? |

Why the bounds are enough for the cases that matter. Two ids and a limit of
three with prices one and two let a refusal, a re-hold, an expiry, a late
settlement and an overrun occur in one behaviour. Five operations in two
sessions are reserve, sweep, re-reserve, late settle and one more, so each
pair of operations overlaps on the same id in every status. Two requests placed
as duplicates on one replica, as duplicates on two replicas, or as two ids
competing for a budget that affords one call are the three ways requests
interact; one fault is a crash, a lost commit answer or a failed call at any
step. A threshold of two and two handlers let a probe overlap a call routed
before the trip and another probe. A token that takes three half-second ticks
gives levels, delays and expiries fractions to round, and two clock steps are one
there and one back. Three audit calls are two that collide and one that finds
what they left. Three refresh tokens are a first one and the two that two
overlapping refreshes mint from it, or a chain of two rotations with a replay; three
handlers and four calls are a rotation, its replay, a logout and a refresh that
queues between the two, the smallest deadlock with a bystander.
Two logins let a callback present the ID token of the other; a throttle of two
ticks and a fetch of one let fetches overlap and end out of order. Three lines are
a piece, another that comes in a wrong order or form, and `[DONE]`, or a report that
a later one replaces. Two tenants are the fewest that
can be confused. Deadlock is checked except in the runs whose requests, streams or
operations are finitely many and simply end.

### What they check

* **Accounting**: `ReservedMatchesHolds` and `SpentMatchesCostLedger` equate totals
  and rows; `OverspendIsAccountedFor` says that the limit is exceeded only by late
  settlements and by costs over their estimate; `SettlementIsFinal` that nothing
  changes a settled id.
* **Transactions**: `ImplementsPortButForRehold` is the refinement: every step of
  the transactions is a step of the port, with the one exception of the overwritten
  settlement of section 4; `DeadlockOnlyOnRehold` confines deadlocks to a re-hold
  meeting a late settlement of the id; `OperationsEnd`.
* **Unary path**: `HoldsAreOwned` (every live hold has a task that will end it, or is
  adrift for a stated reason), `HoldCoversCall`, `CachedIsAccounted`,
  `CallersAreAnswered`, `AbandonedHoldsReturn`.
* **Streams**: `StreamHoldsAreOwned`, `CompletedIsAccounted`,
  `OnlyWholeAnswersCount`, `StreamsEnd`; and on the way of the text
  `AnswersAreFaithful` (the path implements FaithfulStream), `OnlyVouchedCounts`,
  `UpstreamIsAborted`, `StreamConcludes`.
* **Breaker**: `ClosedIffShortStreak` (a circuit is closed exactly while fewer
  transient faults than the threshold followed the last success, in whatever
  order results arrived), `NoAdmissionWhileCooling`,
  `OpenCircuitsReopenToTraffic`.
* **Rate limiting**: `LimitHolds` (a burst and the accrual bound what a store lets
  through in every interval; a forward clock step counts as the time it skips and
  a restart as a new beginning), `ExpiryChangesNoAnswer`, `RetryAfterIsEnough`.
  Redis and the local buckets are limits of their own: while Redis answers some
  requests and not others, the replicas together may let through as much as all
  of these limits added up.
* **Audit**: `ChainIntact` (the rows of a tenant are one chain that ends at its head),
  `ImplementsLog`, `NoSilentGap`, `RecordingEnds`.
* **Sessions**: `SpentTokensBuyNothing` (a refresh that starts with a token that is
  rotated, revoked or expired, or whose session is, mints nothing, although a
  revocation misses the token a concurrent refresh has not yet committed: that
  token's own refresh then fails on the session), `RotationIsWhole`,
  `DeadlocksAreRevocations` (whoever is in a deadlock, two revocations of the session
  are, one of them a reuse detection: refreshes do not deadlock with each other or
  with one revocation), `OperationsEnd`.
* **OIDC**: `LoginsAreSingleUse`, `RetiredKeysExpire`, `MissesFetchOneByOne`.
* **Gateway**: `CallsAreAdmitted` (a provider of the tenant is called only with a good
  credential, the permission, a sound body and a spent unit, each of which held at
  some instant of this request), `NoFalseRefusal`, `RequestsAreAnswered`.

### Fairness

* `SqlSpec`: each session's next statement. PostgreSQL grants locks in the order
  they were asked for and breaks deadlocks, and the code awaits each statement.
* `CoordSpec`: each handler and each task (the event loop runs whatever is ready,
  provider calls have timeouts, and database statements are taken to end), the clock,
  and other traffic of the organization, without which no sweep runs: `reconcile_expired` is called
  only by reservations. `AbandonedHoldsReturn` depends on that last one, which is
  an assumption about clients and not about the code.
* `StreamSpec`: each stream's next step.
* AuditChain: each call's next statement, weakly; the advisory lock strongly, because
  PostgreSQL serves its waiters in order.
* Sessions: each operation's next statement, strongly: it is disabled while another
  transaction holds the row, and PostgreSQL queues for rows. The queue lets one that
  finds the row free go ahead; that newcomers without end starve a waiter in this way
  is outside the bound on calls. A refresh for which the bound has left no token id is
  given up.
* ProviderStream: the gateway only; the provider may fall silent, and the timeout of
  the HTTP client turns its silence into a step of the gateway. The gateway's steps
  include `Pull`: a client that neither reads nor goes away is left to the server.
* Gateway: the request's own steps. Calls to providers and to Redis have timeouts; of
  a database statement only the wait for a connection has one
  (`persistence/engine.py:47`), so that it ends is an assumption about PostgreSQL.
* `BreakerSpec`: routing, each attempt and the clock. A circuit leaves `open` only
  in an `assess`, so an organization that sends nothing keeps it open.

No fairness is assumed of arrivals, cancellations, crashes or faults.

## 4. Findings and observations

`budget_ledger_rehold` finds that a hold re-activated after a release or an expiry
keeps the `created_at` of its first hold, so a sweep may take it while its request
is running (`sql_budget_ledger.py:118`); `PROJECT.json` quotes the sentence it
contradicts. The models also contain, as behaviours the properties are stated
around:

* Late settlement overwritten. `reserve` reads the existing row without locking it; a
  late settlement that commits before the re-hold writes is overwritten, and the id
  can be settled twice (`sql_budget_ledger.py:151`; `application/ports/ledger.py:78`
  says the total and the ledger entry "must agree on one committed value"). This is
  the step `ImplementsPortButForRehold` excepts.
* Duplicates. A duplicate that missed the cache just before the answer was stored and
  coalesces just after the task was forgotten calls the provider again
  (`inference_coordinator.py:153`; `docs/Security_Traceability.md:117` says "exactly
  once"). It is not charged again.
* Dropped streams. Closing a stream's generator before its first pull runs no
  `finally` (`streaming_coordinator.py:223`); nor does a serving task that is cancelled
  between two events (`backend/tests/unit/test_streaming_coordinator.py:431`); and a second
  cancellation in the release of `_deliver`'s `finally`, or an exception of it, skips
  `aclose_stream` (`streaming_coordinator.py:291-296`). The hold then waits for a sweep
  and the provider call for the event loop's finalizer, where `docs/API_Streaming.md:42`
  has both ended at once. The exceptions in `StreamHoldsAreOwned` and the `dropped` state
  that `UpstreamIsAborted` leaves out are these cases.
* Unrecognised events. The docstring of the adapter says that a line "whose shape is
  unrecognisable, ends the stream as a ``SERVER_ERROR`` rather than being skipped"
  (`openai_compatible_client.py:59-61`). `_delta_from` (`:185-202`) returns the empty
  string for an object without a `choices` list (an error reported in band), a choice or
  a delta that is no object and a content that is no string, and `:362-364` skip it; a
  later `[DONE]` completes the stream, which is settled and cached. The promise that
  `AnswersAreFaithful` and `OnlyVouchedCounts` can keep is therefore about `legible`, and
  `FaithfulStream` has an action for the gap (`Mumble`).
* Several probes. A half-open circuit admits every request until a result arrives, not
  exactly one (`in_memory_circuit_breaker.py:152`, its docstring at `:8`).
* Price table outage. `PriceTableUnavailableError` (`sql_price_table.py:92`) is caught
  nowhere: raised by a settlement it escapes the unary coordinator and leaves the hold
  of an answered call to the sweep; a stream's `finally` releases.
* Double refresh. Two refreshes of one token that overlap both succeed, each with a
  token of its own, where `docs/Authentication_Architecture.md:137` has one-time use;
  the next use of the old one revokes the session, and with it both.
* Reuse revocation. `RefreshSession` writes the revocation and raises: a caller whose
  unit of work rolls back on the exception undoes it. An expired token is refused and
  nothing is revoked. The same holds of a consumed login state: a callback that fails
  and is rolled back leaves the state usable.
* Deadlock of revocations. Reuse detection and logout lock the same rows in opposite
  orders, and PostgreSQL aborts one of them, or a refresh: one that queues for a token
  row between the two holds its tuple lock, so that reuse detection waits for logout,
  logout for the refresh and the refresh for reuse detection.
* Audit times. `created_at` is read before the lock is taken, so the order of the chain
  and the order of its times may differ.
* Catalog. A provider disabled between `candidates()` and `get()`, or an outage of the
  catalog, is answered with 403 `permission_denied` rather than a retryable 503; and
  retries go on against a provider that has been disabled meanwhile.
* Key cache. A fetch that ends late may install an older key set than the one cached;
  the time to live counts from its start, so `RetiredKeysExpire` still holds.

## 5. What is proved

Every safety property of the runs that pass is also a theorem, for every value of the
constants that their assumptions admit.

`BudgetLedgerProofs` begins with what the proofs need to know of `SumTo(n, f)`, the sum
of `f` over `1..n`, a recursive function: that it is an integer, and how it changes when
`f` changes at one place, at several, or not at all. The induction is done on a set of
naturals with a least element. It then proves, for every number of ids, every set of
amounts and currencies, every limit, ttl and clock bound (`NAssumption`,
`MoneyAssumption`, `TimeAssumption`), that

    IInv == TypeOK /\ ReservedMatchesHolds /\ SpentMatchesCostLedger
            /\ CommittedMatchesCostLedger /\ HoldsInBudgetCurrency
            /\ OverspendIsAccountedFor

is inductive. No part of it is inductive alone: that a settlement adds to `spent`
exactly what it adds to the cost ledger needs the id to have no entry yet, which is
`CommittedMatchesCostLedger`; that a sweep returns what was held needs
`ReservedMatchesHolds`; and the constraint `spent >= 0` follows only from the sum over
the cost ledger. There is one lemma per action, and the sums are handled by the lemmas
on `SumTo`, so that a step reduces to arithmetic on the one row it changes. The theorems
are `TypeCorrect`, `Invariance`, `HoldsConserved`, `SpendConserved`,
`CommittedIffBooked`, `OverspendBounded`, `ConstraintsNeverFire`, the action property
`SettledForGood` (from the lemma `CommittedStays`), `HoldsShareACurrency`, and
`OnlyReholdsExpireEarly`: what `FreshHoldSurvives` says is true of the first hold of an
id, so that re-activated rows are all that a sweep takes too early.

Its second part is about the transactions of `SqlBudgetLedger`, for any sessions. `SqlInv`
says which locks a transaction owns at each statement, exactly (`LockInv`), and what it
has read that its locks keep true until it commits: the row of a settlement, a release
or a sweep may still be settled, released or expired (`RowRead`); the row of a reserve
is as it was seen and its amount still fits, except that an expired row, which a reserve
reads without locking it, may have been settled meanwhile (`ReserveRead`). That
exception is the lost settlement of the runs, and the proof shows that it is the only
one: from `SqlInv` (`SqlInvariance`), `SqlImplementsThePort` maps every step to an
operation of the port, a stutter or `LostSettlement`, and `AccountsHoldWithoutTheRace`
draws the consequence that a behaviour without it is a behaviour of the port with all
its accounting invariants.
`DeadlocksAreReholds` shows from the exact ownership that a re-hold and the late
settlement of its id are the only pair that can wait for each other, and
`CyclesHaveLengthTwo` that any set of stuck sessions contains such a pair: it justifies
that `DeadlockVictim`, PostgreSQL's detector, is modelled on pairs.

`CoordinatorProofs` proves the coordinators for any requests, streams, replicas,
placements, keys and number of faults (`CoordAssumption`, `StreamAssumption`,
`CoordinationAssumption`). First, `Kept(d)` says what a step on another id may do to the
row of `d`: nothing, or expire a hold older than the ttl; one lemma per ledger call
(`KeptReserve`, `KeptSettle`, ...) shows it of the rest of the ledger. Then

* `CoordInv` for the unary path: `NotStarted` (no task before `coalesce`, so that
  starting one overwrites none), `PutIsSettled` (what is about to be cached was answered
  and is committed), `HoldsAreOwned`, `CachedIsAccounted`, and `Covered`: a task that is
  alone on its id finds no row, so that it takes the first hold of the id, whose
  `created_at` is the time of the hold; this is what `HoldCoversCall` rests on, and why it
  excepts ids that another task has used. Two lemmas carry the induction, `QuietStep`
  for steps that keep every row and `TaskMove` for a step of one task on its own hold;
  a lemma per group of actions meets their conditions. Theorems: `CoordInvariance`,
  `NoHoldIsForgotten`, `CallsAreCovered`, `CacheIsAccounted`.
* `DedupInv` for the deduplicator: `_in_flight` names exactly the running tasks and a
  caller that waits, waits for one of them. Theorem: `DuplicatesRunOnce`.
* `StreamInv` for the streams: what the circuit breaker has heard at each await
  (`Heard`), that the event `open` keeps for `_deliver` is the provider's latest
  (`FirstIsLatest`), that what is settled is whole and what is cached is settled
  (`WholeIsSettled`), and the three properties. Theorems: `StreamInvariance`,
  `EveryEndingFinalizes`, `CompletedStreamsArePaid`, `PartialAnswersNeverCount`.
* `CoordinatorUsesTheLedger` and `StreamsUseTheLedger`: each coordinator's
  specification implies that of the ledger, so that every theorem about the ledger
  holds of it under their interleavings, crashes and lost answers.

`ProviderProofs` proves, for any finite or infinite set of providers and handlers and
any threshold, cooldown and number of attempts (`BreakerAssumption`), that the type
invariant and, for each circuit, the relation of its state, its failure count, its
opening time and the streak of faults is inductive: `BreakerInvariance`, and from it
`BreakerTypeCorrect`, `BreakerFollowsItsRule`, `BreakerKnowsWhenItOpened` and
`CoolingProvidersAreSpared`. Its second part is about `ProviderStream`, for any texts,
usages and bounds (`ProviderStreamAssumption`): `ProviderInv` says that the client has a
beginning of what was legible, that the event in hand comes next (`HeardInv`), that the
lines on the wire follow it as long as the gateway may come to read them and `[DONE]` is
the last of them (`WireInv`, over the relation `Transit` of a wire to what was said).
One lemma covers every way the gateway stops listening (`StopKeepsInv`). Theorems:
`ProviderInvariance`, `VouchedAnswersCount`, `UpstreamsAreAborted` and the refinement
`AnswersReachTheClientWhole`: every step is one of `FaithfulStream` or
a stutter, and the verdict the client gets is right because of `WireInv`.

`RateLimiterProofs` proves, for any number of replicas and handlers and any
burst, rate and clock resolution (`RateAssumption`), that every store is `Sound`:
its key expires no earlier than its bucket is full, a promised token is there in
time, and its level is at most its allowance. The first conjunct is needed for
the third, because a key that expires makes the level jump to the capacity; both
rest on `CeilDivCovers`, that rounding a quotient up loses nothing. The lemmas
`LevelForward` and `LevelBack` say what a tick or a clock step does to a level.
The theorems are `RateInvariance`, `RateTypeCorrect`, `LimitNeverExceeded`,
`ExpiryIsHarmless` and `RetryAfterSuffices`.

`AuditChainProofs`, for any calls, organizations and lock keys, colliding or not
(`AuditAssumption`): `ChainInv` adds to the type and `ChainIntact` that a transaction
past its lock holds it, that the head it has read is therefore still the head, and
that an event is in no chain before its call's commit. Without the second the new
row could link to an old head, and without the third it could enter twice. Theorems:
`AuditTypeCorrect`, `ChainNeverForks`, the refinement `ChainImplementsLog`
(initial states map to initial states; the commit of a row is an append, all else a
stutter), and `GapsAreNeverSilent`, from what each sink has left behind when its call
is past it (`GapInv`).

`SessionsProofs`, for any handlers, sessions, bounds and ttls (`SessionsAssumption`):
`SInv` has who owns what (`Owned`, `OnSession`, `ChildIsNew`), that a refresh holds no
row before it is ready to commit, and `SpentIsSeen`: a call that began with a spent
token will be stopped by the token or, where the revocation missed the token, by its
session. It rests on tokens and sessions only ever ageing (`Aged`). `QueueInv` is a
second layer on top of it: a handler waits for a row its statement has yet to write and
holds rows of its own session only, a logout the session row before any token
(`LockSound`), and the first in a queue waits in it (`QueueHeads`). From both, the
writer of the row that a member of a deadlock waits for is itself in the deadlock,
directly or behind the first in the queue; it waits and has written, so it is no refresh
(`WriterIsRevocation`). Following the writers twice gives two revocations, which are not
both logouts, for both would have written the session row. Theorems:
`SessionsTypeCorrect`, `SpentTokensStaySpent`, `RotationAlwaysWhole`,
`DeadlocksNeedRevocations`.

`OidcLoginProofs`, for any callbacks, logins and keys, and a fetch timeout shorter than
ttl and throttle (`JwksAssumption`, `OidcAssumption`): `JInv` dates every key set (no
document is older than its fetch, the cache is no older than it says, every fetch has
stamped the throttle) and `LInv` says that a callback past `consume` holds the row it
deleted, and that a row not yet gone has minted nothing. Theorems: `OidcTypeCorrect`,
`LoginsAlwaysSingleUse`, `MissesAlwaysOneByOne`, and the action property
`RetiredKeysAlwaysExpire`.

`GatewayProofs`, for any tenants, credentials, providers and retry limit
(`GatewayAssumption`): `Progress` says what has been established at each point of the
path, `Seen` how the history variables relate to the present while nothing has turned.
The properties alone are not inductive because they speak of the past of the request.
Theorems: `GatewayTypeCorrect`, `CallsAlwaysAdmitted`, `RefusalsAlwaysInert` (a refused
request has executed nothing; an executed one has a verdict of every evaluator) and
`RefusalsHaveReasons`.

## 6. What is only model-checked

The liveness properties (`OperationsEnd` of both modules, `CallersAreAnswered`,
`AbandonedHoldsReturn`, `StreamsEnd`, `OpenCircuitsReopenToTraffic`, `RecordingEnds`,
`StreamConcludes`, `RequestsAreAnswered`), because the prover does not reason about
fairness and ENABLED. What they need of safety is proved where it is not obvious: that
no caller waits for a task nobody runs (`DuplicatesRunOnce`) and that a waiting cycle
always has a victim (`CyclesHaveLengthTwo`). `FreshHoldSurvives` is refuted by
its run; `OnlyReholdsExpireEarly` is what is left of it.

## 7. Plan

1. Proofs: that the holds of running tasks and of ids adrift together are all that
   `reserved` counts, by the sum lemmas; the fields of a stored session across rotations.
2. A breaker on a clock that steps back; the in-memory ledger compared with the port.

## 8. What is not modelled, and why

* The in-memory ledger and cache: doubles used by tests and by development without a
  database. The ledger settles a released hold where the SQL ledger raises.
* Cryptography, and the arithmetic of prices and estimates: functions of one input,
  taken as predicates and small numbers.
* The planner, policy and cost agents: they add to the explanation of a decision or
  refuse before a provider is assessed.
* Signing key rotation of the gateway's own tokens: keys are set at deployment.
* Tools and MCP: provisioned at startup; the deployed gateway is the null one.
* Configuration, logging, metrics, health endpoints and headers: no state the
  properties depend on.
