------------------------------- MODULE Gateway -------------------------------
(***************************************************************************)
(* The path of one POST /v1/inference through the gateway: the middlewares *)
(* in the order of build_http_app, the route, the admission pipeline, the  *)
(* routing engine, the execution with its retries, the evaluation and the  *)
(* translation to a status code.  Between two awaits of the request the    *)
(* rest of the world moves: keys are revoked and expire, roles and scopes  *)
(* change, providers are switched, other requests use the allowance.       *)
(*                                                                         *)
(* What the coordinators do with money and provider is in                  *)
(* InferenceCoordinator and StreamingCoordinator, the circuit breaker and  *)
(* the rate limiter have modules of their own: here they answer in any way *)
(* they can.                                                               *)
(***************************************************************************)
EXTENDS Naturals

CONSTANTS
    Creds,        \* credentials, each of one principal
    KindOf,       \* "key" or "jwt"
    Orgs,         \* organizations
    OrgOf,        \* the organization of a credential
    Providers,    \* rows of the provider table
    OwnerOf,      \* the organization of a row
    MaxAttempts,  \* RetryPolicy.max_attempts
    Allowance,    \* bound: the units a tenant may have left
    None          \* no Authorization header, no provider

ASSUME GatewayAssumption ==
    /\ KindOf \in [Creds -> {"key", "jwt"}]
    /\ OrgOf \in [Creds -> Orgs]
    /\ OwnerOf \in [Providers -> Orgs]
    /\ MaxAttempts \in Nat \ {0}
    /\ Allowance \in Nat
    /\ None \notin Creds /\ None \notin Providers

VARIABLES
    standing,               \* standing[c]: what a lookup of credential c finds
    granted, enabled,       \* principals with inference:invoke, providers with
                            \* an enabled model
    allowance,              \* what the limiter will let the request's tenant have now
    pc, status,             \* where the request is, and its answer
    cred, body, stream,     \* what was sent
    auth, spent,            \* request.state.auth is set; a unit was spent
    provider,               \* the provider selected, then resolved
    tries, called, out,     \* attempts made, providers called, the last outcome
    report,                 \* the verdict of each evaluator
    sawLive, sawGrant, sawEnabled, \* what was true at some instant of the request
    troubled                \* something it depends on failed or turned (history)

envVars == <<standing, granted, enabled, allowance>>
askVars == <<cred, body, stream>>
execVars == <<provider, tries, called, out, report>>
sawVars == <<sawLive, sawGrant, sawEnabled>>
vars == <<envVars, pc, status, askVars, auth, spent, execVars, sawVars, troubled>>

\* A token that does not verify is answered like one that has expired: only
\* a key is ever revoked.
Standings == {"good", "expired", "revoked"}

live == {c \in Creds : standing[c] = "good"}

Bodies == {"fine", "tooBig", "invalid", "overPolicy"}

\* Suspended in an await, or about to run.
Steps == {"new", "size", "authenticate", "readKey", "audit", "limit", "route", "authorize",
          "policy", "candidates", "confirm", "execute", "backoff", "evaluate", "answered"}

\* What a failed call is put down to, by the status of the provider's answer;
\* a stream that ends before its first event has no category.
Categories == {"timeout", "rateLimited", "serverError", "invalidRequest", "authentication"}

Failures == Categories \cup {"unclassified"}

\* The failures that were the provider's own, and may pass.
Transient == {"timeout", "rateLimited", "serverError"}

\* ExecutionOutcome, with the response of EXECUTED told apart.
Outcomes == {"none", "cacheHit", "ok", "notRouted", "budgetDenied", "budgetUnavailable",
             "notAccountable"} \cup Failures

\* EvaluationOutcome.
Verdicts == {"none", "passed", "failed", "error", "notApplicable"}

Evaluators == {"responseCompleteness", "usageConsistency"}

Statuses == {0, 200, 401, 402, 403, 413, 422, 429, 500, 502, 503}

\* The type of the state.
GatewayTypeOK ==
    /\ standing \in [Creds -> Standings]
    /\ granted \subseteq Creds /\ enabled \subseteq Providers
    /\ allowance \in 0..Allowance
    /\ pc \in Steps /\ status \in Statuses
    /\ cred \in Creds \cup {None} /\ body \in Bodies /\ stream \in BOOLEAN
    /\ auth \in BOOLEAN /\ spent \in BOOLEAN
    /\ provider \in Providers \cup {None}
    /\ tries \in 0..MaxAttempts /\ called \subseteq Providers /\ out \in Outcomes
    /\ report \in [Evaluators -> Verdicts]
    /\ sawLive \in BOOLEAN /\ sawGrant \in BOOLEAN /\ sawEnabled \subseteq Providers
    /\ troubled \in BOOLEAN

Init ==
    /\ standing \in [Creds -> Standings]
    /\ \A c \in Creds : KindOf[c] = "jwt" => standing[c] # "revoked"
    /\ granted \in SUBSET Creds /\ enabled \in SUBSET Providers
    /\ allowance \in 0..Allowance
    /\ pc = "new" /\ status = 0
    /\ cred = None /\ body = "fine" /\ stream = FALSE
    /\ auth = FALSE /\ spent = FALSE
    /\ provider = None /\ tries = 0 /\ called = {} /\ out = "none"
    /\ report = [e \in Evaluators |-> "none"]
    /\ sawLive = FALSE /\ sawGrant = FALSE /\ sawEnabled = {} /\ troubled = FALSE

Own(ps) == {p \in ps : cred # None /\ OwnerOf[p] = OrgOf[cred]}

-----------------------------------------------------------------------------
(* The rest of the world.                                                  *)

\* While the request runs, what it could have seen is remembered.
Observe(g, e) ==
    LET running == pc \notin {"new", "answered"} IN
    /\ sawLive' = (sawLive \/ (running /\ cred \in live'))
    /\ sawGrant' = (sawGrant \/ (running /\ cred \in g))
    /\ sawEnabled' = IF running THEN sawEnabled \cup e ELSE sawEnabled
    /\ troubled' = (troubled \/ (running /\ (cred \notin live' \/ cred \notin g \/ Own(e) # Own(enabled))))

World(s, g, e) ==
    /\ standing' = s /\ granted' = g /\ enabled' = e
    /\ Observe(g, e)
    /\ UNCHANGED <<allowance, pc, status, askVars, auth, spent, execVars>>

Revoke(c) ==
    /\ KindOf[c] = "key" /\ standing[c] # "revoked"
    /\ World([standing EXCEPT ![c] = "revoked"], granted, enabled)

Expire(c) ==
    /\ standing[c] = "good"
    /\ World([standing EXCEPT ![c] = "expired"], granted, enabled)

\* JwtService.issue: nbf is the present, exp lies ahead.
TokenIssued(c) == [standing EXCEPT ![c] = "good"]

\* A service account with a good client secret takes its next token.
IssueToken(c) ==
    /\ KindOf[c] = "jwt" /\ standing[c] = "expired"
    /\ World(TokenIssued(c), granted, enabled)

Regrant(c) == World(standing, IF c \in granted THEN granted \ {c} ELSE granted \cup {c}, enabled)

Switch(p) == World(standing, granted, IF p \in enabled THEN enabled \ {p} ELSE enabled \cup {p})

\* Other requests spend units, and units come back as the window slides.
OtherTraffic(n) ==
    /\ allowance' = n
    /\ UNCHANGED <<standing, granted, enabled, pc, status, askVars, auth, spent, execVars,
                   sawVars, troubled>>

-----------------------------------------------------------------------------
(* Going on and answering.                                                 *)

Goto(step) == pc' = step /\ UNCHANGED status

Answer(s) == pc' = "answered" /\ status' = s

\* What a middleware, the route or a stage leaves alone.
Quiet == UNCHANGED <<envVars, askVars, execVars, sawVars>>

NoTrouble == UNCHANGED troubled

\* A database error or an unreachable dependency.
Outage == troubled' = TRUE

Arrive(c, b, s) ==
    /\ pc = "new"
    /\ cred' = c /\ body' = b /\ stream' = s
    /\ sawLive' = (c \in live) /\ sawGrant' = (c \in granted) /\ sawEnabled' = enabled
    /\ Goto("size")
    /\ UNCHANGED <<envVars, auth, spent, execVars, troubled>>

-----------------------------------------------------------------------------
(* RequestSizeLimitMiddleware, AuthenticationMiddleware,                   *)
(* RateLimitMiddleware and the route.                                      *)

TooLarge == Answer(413)

\* By the declared length, or by counting what comes.
LimitSize ==
    /\ pc = "size"
    /\ IF body = "tooBig" THEN TooLarge ELSE Goto("authenticate")
    /\ Quiet /\ NoTrouble /\ UNCHANGED <<auth, spent>>

\* The rejection is written to the log only: it has no proven tenant.
Unauthorized == Answer(401)

\* The bootstrap function finds the tenant of a key that is active.
TenantFound(c) == standing[c] # "revoked"

\* Active, not expired, and the secret is the one stored.
KeyAccepted(c) == standing[c] = "good"

\* Algorithm, kid, signature, issuer, audience and times, with no lookup: a
\* token outlives the session it was issued for.
TokenVerifies(c) == standing[c] = "good"

\* An API key has a prefix that no token has.
IsKey(c) == KindOf[c] = "key"

\* Without a header the request passes; an API key needs its tenant first,
\* looked up without one.
Authenticate ==
    /\ pc = "authenticate"
    /\ \/ cred = None /\ Goto("limit") /\ NoTrouble
       \/ /\ cred \in Creds /\ ~IsKey(cred)
          /\ IF TokenVerifies(cred) THEN Goto("audit") ELSE Unauthorized
          /\ NoTrouble
       \/ /\ cred \in Creds /\ IsKey(cred)
          /\ \/ /\ IF TenantFound(cred) THEN Goto("readKey") ELSE Unauthorized
                /\ NoTrouble
             \/ Outage /\ Unauthorized
    /\ Quiet /\ UNCHANGED <<auth, spent>>

\* The key itself, in its tenant's context, by another transaction: it may
\* have been revoked or have expired since.
ReadKey ==
    /\ pc = "readKey"
    /\ \/ /\ IF KeyAccepted(cred) THEN Goto("audit") ELSE Unauthorized
          /\ NoTrouble
       \/ Outage /\ Unauthorized
    /\ Quiet /\ UNCHANGED <<auth, spent>>

\* request.state.auth: the identity, from the principal alone.
Identified == auth' = TRUE

\* The sinks of the audit trail never raise.
Audit ==
    /\ pc = "audit"
    /\ Identified
    /\ Goto("limit")
    /\ Quiet /\ NoTrouble /\ UNCHANGED spent

\* The limiter answers no, or does not answer.
RateLimited == Answer(429) /\ Outage

LimiterUnavailable == Answer(503) /\ Outage

LimitRate ==
    /\ pc = "limit"
    /\ \/ ~auth /\ Goto("route") /\ NoTrouble /\ UNCHANGED <<allowance, spent>>
       \/ /\ auth /\ allowance > 0
          /\ allowance' = allowance - 1
          /\ spent' = TRUE
          /\ Goto("route") /\ NoTrouble
       \/ auth /\ allowance = 0 /\ RateLimited /\ UNCHANGED <<allowance, spent>>
       \/ auth /\ LimiterUnavailable /\ UNCHANGED <<allowance, spent>>
    /\ UNCHANGED <<standing, granted, enabled, askVars, auth, execVars, sawVars>>

\* InferenceBody is validated before infer runs, which then looks for a
\* principal: the middleware lets requests without a header through.
Route ==
    /\ pc = "route"
    /\ CASE body = "invalid" -> Answer(422)
         [] body # "invalid" /\ ~auth -> Answer(401)
         [] OTHER -> Goto("authorize")
    /\ Quiet /\ NoTrouble /\ UNCHANGED <<auth, spent>>

-----------------------------------------------------------------------------
(* RequestPipeline: authorization, policy, routing.                        *)

\* A stage blocks, or raises: nothing after it runs, and the caller is not
\* told which it was.
Block == Answer(403)

\* admit: the stages in their order, as long as each one passes.
Stage(passes, next) == IF passes THEN Goto(next) ELSE Block

\* One query over roles and key scopes.
Permitted(c) == c \in granted

\* LocalPolicyEngine measures the payload, and needs nothing else.
WithinPolicy(b) == b # "overPolicy"

\* Mutant: permissions that cannot be read are not missed.
AuthorizeOpen ==
    /\ pc = "authorize"
    /\ \/ Stage(Permitted(cred), "policy") /\ NoTrouble
       \/ Outage /\ Goto("policy")
    /\ Quiet /\ UNCHANGED <<auth, spent>>

\* No permissions when they cannot be read.
Authorize ==
    /\ pc = "authorize"
    /\ \/ Stage(Permitted(cred), "policy") /\ NoTrouble
       \/ Outage /\ Block
    /\ Quiet /\ UNCHANGED <<auth, spent>>

Policy ==
    /\ pc = "policy"
    /\ Stage(WithinPolicy(body), "candidates")
    /\ Quiet /\ NoTrouble /\ UNCHANGED <<auth, spent>>

\* A healthy candidate before a degraded one; the name that breaks ties is
\* left open.
Preferred(healthy, degraded) == IF healthy # {} THEN healthy ELSE degraded

\* Mutant: the query is left to row-level security.
CandidatesOfAll(healthy, degraded) ==
    /\ pc = "candidates"
    /\ healthy \cup degraded \subseteq enabled
    /\ \/ \E p \in Preferred(healthy, degraded) : provider' = p /\ Goto("confirm")
       \/ healthy \cup degraded = {} /\ provider' = None /\ Goto("execute")
    /\ NoTrouble
    /\ UNCHANGED <<envVars, askVars, auth, spent, tries, called, out, report, sawVars>>

\* The catalog is read and the agents decide on it, in one go, whatever the
\* circuit breaker says of each candidate.
Candidates(healthy, degraded) ==
    /\ pc = "candidates"
    /\ healthy \cup degraded \subseteq Own(enabled)
    /\ \/ \E p \in Preferred(healthy, degraded) : provider' = p /\ Goto("confirm")
       \/ healthy \cup degraded = {} /\ provider' = None /\ Goto("execute")
    /\ NoTrouble
    /\ UNCHANGED <<envVars, askVars, auth, spent, tries, called, out, report, sawVars>>

\* catalog.get, by name, among the tenant's enabled providers.
Resolved(p) == p \in Own(enabled)

\* The catalog is read again: RoutingIntegrityError when the row has gone.
Confirm ==
    /\ pc = "confirm"
    /\ Stage(Resolved(provider), "execute")
    /\ Quiet /\ NoTrouble /\ UNCHANGED <<auth, spent>>

\* ProviderCatalogUnavailableError in either read.
CatalogFails ==
    /\ pc \in {"candidates", "confirm"}
    /\ Outage /\ Block
    /\ Quiet /\ UNCHANGED <<auth, spent>>

-----------------------------------------------------------------------------
(* ReflectiveExecutor and the coordinators, evaluation and the answer.     *)

\* The outcomes of a coordinator, with the provider called or not: an answer
\* may turn out not to be accountable after the call.
Attempt(o) ==
    /\ pc = "execute" /\ tries < MaxAttempts
    /\ (o = "notRouted") <=> (provider = None)
    /\ out' = o
    /\ tries' = tries + 1
    /\ \/ o \in {"ok", "notAccountable"} \cup Failures /\ called' = called \cup {provider}
       \/ o \notin {"ok"} \cup Failures /\ UNCHANGED called
    /\ UNCHANGED <<envVars, askVars, auth, spent, provider, report, sawVars, troubled>>

\* Mutant: a failure that could be transient is retried for ever.
RetriedForever(o) == o \in Transient

\* classify, and the range of the attempts.
Retried(o) == o \in Transient /\ tries + 1 < MaxAttempts

\* _EXECUTION_ERRORS: what the caller is told of an execution.
StatusOf ==
    [o \in Outcomes \ {"none"} |->
        CASE o \in {"cacheHit", "ok"} -> 200
          [] o = "budgetDenied" -> 402
          [] o \in {"notRouted", "budgetUnavailable", "notAccountable"} -> 503
          [] OTHER -> 502]

\* InferenceService.serve: each attempt has a correlation id of its own.
Execute(o) ==
    /\ ~stream
    /\ Attempt(o)
    /\ IF Retried(o) THEN Goto("backoff") ELSE Goto("evaluate")

\* serve_stream: one attempt, and the status once the first event is there.
ExecuteStream(o) ==
    /\ stream
    /\ Attempt(o)
    /\ Answer(StatusOf[o])

\* An exception that is no outcome: UnsupportedCurrencyError, a lost settlement.
ExecuteRaises ==
    /\ pc = "execute" /\ provider # None /\ tries < MaxAttempts
    /\ called' \in {called, called \cup {provider}}
    /\ tries' = tries + 1
    /\ Answer(500)
    /\ UNCHANGED <<envVars, askVars, auth, spent, provider, out, report, sawVars, troubled>>

Backoff ==
    /\ pc = "backoff"
    /\ Goto("execute")
    /\ Quiet /\ NoTrouble /\ UNCHANGED <<auth, spent>>

\* An answer without content is possible, and a defect.
CompletenessOf(o) ==
    IF o \in {"cacheHit", "ok"} THEN {"passed", "failed"} ELSE {"notApplicable"}

\* An answer that was settled had its usage, and one of the cache has none.
UsageOf(o) == IF o \in {"cacheHit", "ok"} THEN {"passed"} ELSE {"notApplicable"}

\* _verdict: an evaluator that raises spoils its own verdict only.
VerdictOf(e, o) ==
    (IF e = "responseCompleteness" THEN CompletenessOf(o) ELSE UsageOf(o)) \cup {"error"}

\* Every evaluator on what was executed; no verdict changes the answer.
Evaluate ==
    /\ pc = "evaluate"
    /\ report' \in {r \in [Evaluators -> Verdicts] : \A e \in Evaluators : r[e] \in VerdictOf(e, out)}
    /\ Answer(StatusOf[out])
    /\ UNCHANGED <<envVars, askVars, auth, spent, provider, tries, called, out, sawVars, troubled>>

-----------------------------------------------------------------------------
Handle ==
    \/ LimitSize \/ Authenticate \/ ReadKey \/ Audit \/ LimitRate \/ Route
    \/ Authorize \/ Policy \/ Confirm \/ CatalogFails
    \/ \E h, d \in SUBSET Providers : Candidates(h, d)
    \/ \E o \in Outcomes \ {"none"} : Execute(o) \/ ExecuteStream(o)
    \/ ExecuteRaises \/ Backoff \/ Evaluate

Environment ==
    \/ \E c \in Creds : Revoke(c) \/ Expire(c) \/ IssueToken(c) \/ Regrant(c)
    \/ \E p \in Providers : Switch(p)
    \/ \E n \in 0..Allowance : OtherTraffic(n)

Next ==
    \/ \E c \in Creds \cup {None}, b \in Bodies, s \in BOOLEAN : Arrive(c, b, s)
    \/ Handle
    \/ Environment

Spec == Init /\ [][Next]_vars

\* Every await of the path ends: timeouts bound those on the network.
FairSpec == Spec /\ WF_vars(Handle)

-----------------------------------------------------------------------------
(* Properties.                                                             *)

\* Whatever changes between the checks, a provider is called only for a body
\* within the limits, with a unit of the allowance spent, a credential that
\* was good, a permission that was held and a provider of the same tenant
\* that was enabled at some instant of this very request; and as often as
\* the retry policy allows, a stream once.
CallsAreAdmitted ==
    called # {} =>
        /\ body = "fine" /\ auth /\ spent
        /\ sawLive /\ sawGrant
        /\ called \subseteq Own(sawEnabled)
        /\ tries <= (IF stream THEN 1 ELSE MaxAttempts)

\* "A refused request never reaches the executor at all": an answer that says
\* the request was refused is the answer to one that had no effect, and one
\* that was executed has a verdict of every evaluator (a stream has none),
\* on its merits if text was delivered.
RefusedIsInert ==
    /\ status \in {401, 403, 413, 422, 429} => called = {} /\ tries = 0
    /\ status \in {200, 402, 502} /\ ~stream => \A e \in Evaluators : report[e] # "none"
    /\ status = 200 => \A e \in Evaluators : report[e] # "notApplicable"

\* A caller with a good credential, the permission and a sound body is turned
\* away only if one of them was withdrawn, its providers were changed, its
\* allowance was used up or a dependency failed while the request ran.
NoFalseRefusal ==
    status \in {401, 403, 413, 422, 429} /\ body = "fine" /\ sawLive /\ sawGrant => troubled

\* Every request that arrives is answered.
RequestsAreAnswered == pc = "size" ~> pc = "answered"

=============================================================================
