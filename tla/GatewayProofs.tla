---------------------------- MODULE GatewayProofs ----------------------------
(***************************************************************************)
(* For every set of tenants, credentials and providers, every retry limit  *)
(* and every change of the world between two steps of a request: who is    *)
(* called has been admitted, who is refused has changed nothing, and no    *)
(* one is refused without a reason.                                        *)
(***************************************************************************)
EXTENDS Gateway, TLAPS

Running == pc \notin {"new", "answered"}

\* From the pipeline on, and from routing on.
InPipeline == pc \in {"authorize", "policy", "candidates", "confirm", "execute", "backoff", "evaluate"}
InRouting == pc \in {"candidates", "confirm", "execute", "backoff", "evaluate"}

\* What has been established where the request is.
Progress ==
    /\ status # 0 => pc = "answered"
    /\ InPipeline => body \in {"fine", "overPolicy"} /\ auth /\ spent
    /\ InRouting => body = "fine" /\ sawGrant
    /\ pc \in {"authenticate", "readKey", "audit", "limit", "route"} => body # "tooBig"
    /\ pc = "new" => ~auth /\ provider = None
    /\ pc \in {"limit", "route"} /\ ~auth => cred = None
    /\ pc = "route" /\ auth => spent
    /\ pc = "policy" => sawGrant
    /\ pc \in {"readKey", "audit"} => cred \in Creds
    /\ pc = "audit" => sawLive
    /\ pc = "confirm" => provider # None
    /\ pc = "evaluate" => out # "none" /\ ~stream
    /\ auth => cred \in Creds /\ sawLive
    /\ provider # None => cred \in Creds /\ provider \in sawEnabled /\ OwnerOf[provider] = OrgOf[cred]
    /\ pc \notin {"execute", "backoff", "evaluate", "answered"} => tries = 0 /\ called = {}
    /\ stream /\ pc # "answered" => tries = 0
    /\ pc # "answered" => report = [e \in Evaluators |-> "none"]

\* What was seen is what is there, unless something turned.
Seen ==
    /\ Running => /\ cred \in live => sawLive
                  /\ cred \in granted => sawGrant
                  /\ enabled \subseteq sawEnabled
    /\ Running /\ ~troubled => /\ sawLive => cred \in live
                               /\ sawGrant => cred \in granted
    /\ pc = "confirm" /\ ~troubled => provider \in enabled

IInv == GatewayTypeOK /\ Progress /\ Seen /\ CallsAreAdmitted /\ RefusedIsInert /\ NoFalseRefusal

\* No request has been established as anything at the start.
LEMMA InitEstablishes == Init => IInv
<1> SUFFICES ASSUME Init PROVE IInv
    OBVIOUS
<1>1. GatewayTypeOK
    <2>1. tries \in 0..MaxAttempts /\ status \in Statuses /\ report \in [Evaluators -> Verdicts]
        BY GatewayAssumption DEF Init, Statuses, Verdicts
    <2>2. pc \in Steps /\ body \in Bodies /\ out \in Outcomes
        BY DEF Init, Steps, Bodies, Outcomes, Failures
    <2> QED BY <2>1, <2>2 DEF Init, GatewayTypeOK
<1>2. Progress /\ Seen
    BY DEF Init, Progress, Seen, Running, InPipeline, InRouting
<1>3. CallsAreAdmitted /\ RefusedIsInert /\ NoFalseRefusal
    BY DEF Init, CallsAreAdmitted, RefusedIsInert, NoFalseRefusal
<1> QED BY <1>1, <1>2, <1>3 DEF IInv

\* The world moves around the request.
LEMMA WorldKeeps ==
    ASSUME IInv, NEW s \in [Creds -> Standings], NEW g \in SUBSET Creds, NEW e \in SUBSET Providers,
           World(s, g, e)
    PROVE IInv'
<1> USE DEF World, Observe, live, envVars, askVars, execVars
<1>1. GatewayTypeOK'
    BY DEF IInv, GatewayTypeOK
<1>2. Progress'
    BY DEF IInv, GatewayTypeOK, Progress, InPipeline, InRouting
<1>3. Seen'
    <2>1. (Running => (cred \in live => sawLive) /\ (cred \in granted => sawGrant))'
        BY DEF IInv, Seen, Running
    <2>2. (Running => enabled \subseteq sawEnabled)'
        BY DEF IInv, Seen, Running
    <2>3. (Running /\ ~troubled => (sawLive => cred \in live) /\ (sawGrant => cred \in granted))'
        BY DEF IInv, Seen, Running, GatewayTypeOK
    <2>4. (pc = "confirm" /\ ~troubled => provider \in enabled)'
        <3> SUFFICES ASSUME pc = "confirm", ~troubled' PROVE provider \in e
            OBVIOUS
        <3>1. ~troubled /\ Own(e) = Own(enabled)
            BY Zenon
        <3>2. provider \in Own(enabled)
            BY <3>1, GatewayAssumption DEF IInv, Seen, Progress, Own
        <3> QED BY <3>1, <3>2 DEF Own
    <2> QED BY <2>1, <2>2, <2>3, <2>4 DEF Seen, Running
<1>4. (CallsAreAdmitted /\ RefusedIsInert /\ NoFalseRefusal)'
    <2>1. CallsAreAdmitted'
        BY DEF IInv, CallsAreAdmitted, Own
    <2>2. RefusedIsInert'
        BY DEF IInv, RefusedIsInert
    <2>3. NoFalseRefusal'
        BY DEF IInv, NoFalseRefusal, Progress, GatewayTypeOK
    <2> QED BY <2>1, <2>2, <2>3
<1> QED BY <1>1, <1>2, <1>3, <1>4 DEF IInv

\* A request arrives with its credential.
LEMMA ArriveKeeps ==
    ASSUME IInv, NEW c \in Creds \cup {None}, NEW b \in Bodies, NEW s \in BOOLEAN, Arrive(c, b, s)
    PROVE IInv'
<1> USE DEF Arrive, Goto, live, envVars, askVars, execVars
<1>1. GatewayTypeOK'
    BY DEF IInv, GatewayTypeOK, Steps
<1>2. Progress'
    BY DEF IInv, Progress, InPipeline, InRouting
<1>3. Seen'
    BY <1>1, Zenon DEF Seen, Running, GatewayTypeOK
<1>4. CallsAreAdmitted' /\ RefusedIsInert' /\ NoFalseRefusal'
    BY DEF IInv, GatewayTypeOK, Progress, CallsAreAdmitted, RefusedIsInert, NoFalseRefusal
<1> QED BY <1>1, <1>2, <1>3, <1>4 DEF IInv

\* Everything before the execution: the request goes on or is answered, and
\* calls no one.
LEMMA BeforeExecution ==
    ASSUME IInv,
           \/ LimitSize \/ Authenticate \/ ReadKey \/ Audit \/ LimitRate \/ Route
           \/ Authorize \/ Policy \/ Confirm \/ CatalogFails
    PROVE IInv'
<1> USE DEF Goto, Answer, Block, TooLarge, Unauthorized, RateLimited, LimiterUnavailable, Quiet,
            NoTrouble, Outage, live, TenantFound, Stage, Resolved, Identified, KeyAccepted,
            TokenVerifies, IsKey, Permitted, WithinPolicy, envVars, askVars, execVars, sawVars
<1>1. CASE LimitSize
    <2>1. GatewayTypeOK'
        BY <1>1, GatewayAssumption DEF LimitSize, IInv, GatewayTypeOK, Steps, Statuses
    <2>2. Progress'
        BY <1>1, GatewayAssumption DEF LimitSize, IInv, GatewayTypeOK, Progress, Seen, Running, InPipeline, InRouting, Bodies
    <2>3. Seen'
        BY <1>1 DEF LimitSize, IInv, Seen, Running
    <2>4. CallsAreAdmitted' /\ RefusedIsInert'
        BY <1>1 DEF LimitSize, IInv, Progress, CallsAreAdmitted, RefusedIsInert
    <2>5. NoFalseRefusal'
        BY <1>1 DEF LimitSize, IInv, GatewayTypeOK, Progress, Seen, Running, InPipeline, InRouting, NoFalseRefusal, Own
    <2> QED BY <2>1, <2>2, <2>3, <2>4, <2>5 DEF IInv
<1>2. CASE Authenticate
    <2>1. GatewayTypeOK'
        <3>1. pc' \in Steps /\ status' \in Statuses
            BY <1>2 DEF Authenticate, IInv, GatewayTypeOK, Steps, Statuses
        <3>4. troubled' \in BOOLEAN
            BY <1>2, Zenon DEF Authenticate, IInv, GatewayTypeOK
        <3> QED BY <1>2, <3>4, <3>1 DEF Authenticate, IInv, GatewayTypeOK
    <2>2. Progress'
        BY <1>2, GatewayAssumption DEF Authenticate, IInv, GatewayTypeOK, Progress, Seen, Running, InPipeline, InRouting, Bodies
    <2>3. Seen'
        BY <1>2 DEF Authenticate, IInv, Seen, Running
    <2>4. CallsAreAdmitted' /\ RefusedIsInert'
        BY <1>2 DEF Authenticate, IInv, Progress, CallsAreAdmitted, RefusedIsInert
    <2>5. NoFalseRefusal'
        BY <1>2 DEF Authenticate, IInv, GatewayTypeOK, Progress, Seen, Running, InPipeline, InRouting, NoFalseRefusal, Own
    <2> QED BY <2>1, <2>2, <2>3, <2>4, <2>5 DEF IInv
<1>3. CASE ReadKey
    <2>1. GatewayTypeOK'
        <3>1. pc' \in Steps /\ status' \in Statuses
            BY <1>3 DEF ReadKey, IInv, GatewayTypeOK, Steps, Statuses
        <3>4. troubled' \in BOOLEAN
            BY <1>3, Zenon DEF ReadKey, IInv, GatewayTypeOK
        <3> QED BY <1>3, <3>4, <3>1 DEF ReadKey, IInv, GatewayTypeOK
    <2>2. Progress'
        BY <1>3, GatewayAssumption DEF ReadKey, IInv, GatewayTypeOK, Progress, Seen, Running, InPipeline, InRouting, Bodies
    <2>3. Seen'
        BY <1>3 DEF ReadKey, IInv, Seen, Running
    <2>4. CallsAreAdmitted' /\ RefusedIsInert'
        BY <1>3 DEF ReadKey, IInv, Progress, CallsAreAdmitted, RefusedIsInert
    <2>5. NoFalseRefusal'
        BY <1>3 DEF ReadKey, IInv, GatewayTypeOK, Progress, Seen, Running, InPipeline, InRouting, NoFalseRefusal, Own
    <2> QED BY <2>1, <2>2, <2>3, <2>4, <2>5 DEF IInv
<1>4. CASE Audit
    <2>1. GatewayTypeOK'
        BY <1>4, GatewayAssumption DEF Audit, IInv, GatewayTypeOK, Steps, Statuses
    <2>2. Progress'
        BY <1>4, GatewayAssumption DEF Audit, IInv, GatewayTypeOK, Progress, Seen, Running, InPipeline, InRouting, Bodies
    <2>3. Seen'
        BY <1>4 DEF Audit, IInv, Seen, Running
    <2>4. CallsAreAdmitted' /\ RefusedIsInert'
        BY <1>4 DEF Audit, IInv, Progress, CallsAreAdmitted, RefusedIsInert
    <2>5. NoFalseRefusal'
        BY <1>4 DEF Audit, IInv, GatewayTypeOK, Progress, Seen, Running, InPipeline, InRouting, NoFalseRefusal, Own
    <2> QED BY <2>1, <2>2, <2>3, <2>4, <2>5 DEF IInv
<1>5. CASE LimitRate
    <2>1. GatewayTypeOK'
        <3>1. pc' \in Steps /\ status' \in Statuses
            BY <1>5 DEF LimitRate, IInv, GatewayTypeOK, Steps, Statuses
        <3>4. troubled' \in BOOLEAN
            BY <1>5, Zenon DEF LimitRate, IInv, GatewayTypeOK
        <3>2. allowance' \in 0..Allowance
            BY <1>5, GatewayAssumption DEF LimitRate, IInv, GatewayTypeOK, Progress
        <3>3. spent' \in BOOLEAN
            BY <1>5, Zenon DEF LimitRate, IInv, GatewayTypeOK
        <3> QED BY <1>5, <3>4, <3>1, <3>2, <3>3 DEF LimitRate, IInv, GatewayTypeOK
    <2>2. Progress'
        BY <1>5, GatewayAssumption DEF LimitRate, IInv, GatewayTypeOK, Progress, Seen, Running, InPipeline, InRouting, Bodies
    <2>3. Seen'
        BY <1>5 DEF LimitRate, IInv, Seen, Running
    <2>4. CallsAreAdmitted' /\ RefusedIsInert'
        BY <1>5 DEF LimitRate, IInv, Progress, CallsAreAdmitted, RefusedIsInert
    <2>5. NoFalseRefusal'
        BY <1>5 DEF LimitRate, IInv, GatewayTypeOK, Progress, Seen, Running, InPipeline, InRouting, NoFalseRefusal, Own
    <2> QED BY <2>1, <2>2, <2>3, <2>4, <2>5 DEF IInv
<1>6. CASE Route
    <2>1. GatewayTypeOK'
        BY <1>6, GatewayAssumption DEF Route, IInv, GatewayTypeOK, Steps, Statuses
    <2>2. Progress'
        BY <1>6, GatewayAssumption DEF Route, IInv, GatewayTypeOK, Progress, Seen, Running, InPipeline, InRouting, Bodies
    <2>3. Seen'
        BY <1>6 DEF Route, IInv, Seen, Running
    <2>4. CallsAreAdmitted' /\ RefusedIsInert'
        BY <1>6 DEF Route, IInv, Progress, CallsAreAdmitted, RefusedIsInert
    <2>5. NoFalseRefusal'
        BY <1>6, GatewayAssumption DEF Route, IInv, GatewayTypeOK, Progress, Seen, Running, InPipeline, InRouting, NoFalseRefusal, Own
    <2> QED BY <2>1, <2>2, <2>3, <2>4, <2>5 DEF IInv
<1>7. CASE Authorize
    <2>1. GatewayTypeOK'
        <3>1. pc' \in Steps /\ status' \in Statuses
            BY <1>7 DEF Authorize, IInv, GatewayTypeOK, Steps, Statuses
        <3>4. troubled' \in BOOLEAN
            BY <1>7, Zenon DEF Authorize, IInv, GatewayTypeOK
        <3> QED BY <1>7, <3>4, <3>1 DEF Authorize, IInv, GatewayTypeOK
    <2>2. Progress'
        BY <1>7, GatewayAssumption DEF Authorize, IInv, GatewayTypeOK, Progress, Seen, Running, InPipeline, InRouting, Bodies
    <2>3. Seen'
        BY <1>7 DEF Authorize, IInv, Seen, Running
    <2>4. CallsAreAdmitted' /\ RefusedIsInert'
        BY <1>7 DEF Authorize, IInv, Progress, CallsAreAdmitted, RefusedIsInert
    <2>5. NoFalseRefusal'
        BY <1>7 DEF Authorize, IInv, GatewayTypeOK, Progress, Seen, Running, InPipeline, InRouting, NoFalseRefusal, Own
    <2> QED BY <2>1, <2>2, <2>3, <2>4, <2>5 DEF IInv
<1>8. CASE Policy
    <2>1. GatewayTypeOK'
        BY <1>8, GatewayAssumption DEF Policy, IInv, GatewayTypeOK, Steps, Statuses
    <2>2. Progress'
        BY <1>8, GatewayAssumption DEF Policy, IInv, GatewayTypeOK, Progress, Seen, Running, InPipeline, InRouting, Bodies
    <2>3. Seen'
        BY <1>8 DEF Policy, IInv, Seen, Running
    <2>4. CallsAreAdmitted' /\ RefusedIsInert'
        BY <1>8 DEF Policy, IInv, Progress, CallsAreAdmitted, RefusedIsInert
    <2>5. NoFalseRefusal'
        BY <1>8 DEF Policy, IInv, GatewayTypeOK, Progress, Seen, Running, InPipeline, InRouting, NoFalseRefusal, Own
    <2> QED BY <2>1, <2>2, <2>3, <2>4, <2>5 DEF IInv
<1>9. CASE Confirm
    <2>1. GatewayTypeOK'
        BY <1>9, GatewayAssumption DEF Confirm, IInv, GatewayTypeOK, Steps, Statuses
    <2>2. Progress'
        BY <1>9, GatewayAssumption DEF Confirm, IInv, GatewayTypeOK, Progress, Seen, Running, InPipeline, InRouting, Bodies
    <2>3. Seen'
        BY <1>9 DEF Confirm, IInv, Seen, Running
    <2>4. CallsAreAdmitted' /\ RefusedIsInert'
        BY <1>9 DEF Confirm, IInv, Progress, CallsAreAdmitted, RefusedIsInert
    <2>5. NoFalseRefusal'
        BY <1>9, GatewayAssumption DEF Confirm, IInv, GatewayTypeOK, Progress, Seen, Running, InPipeline, InRouting, NoFalseRefusal, Own
    <2> QED BY <2>1, <2>2, <2>3, <2>4, <2>5 DEF IInv
<1>10. CASE CatalogFails
    <2>1. GatewayTypeOK'
        BY <1>10, GatewayAssumption DEF CatalogFails, IInv, GatewayTypeOK, Steps, Statuses
    <2>2. Progress'
        BY <1>10, GatewayAssumption DEF CatalogFails, IInv, GatewayTypeOK, Progress, Seen, Running, InPipeline, InRouting, Bodies
    <2>3. Seen'
        BY <1>10 DEF CatalogFails, IInv, Seen, Running
    <2>4. CallsAreAdmitted' /\ RefusedIsInert'
        BY <1>10 DEF CatalogFails, IInv, Progress, CallsAreAdmitted, RefusedIsInert
    <2>5. NoFalseRefusal'
        BY <1>10 DEF CatalogFails, IInv, GatewayTypeOK, Progress, Seen, Running, InPipeline, InRouting, NoFalseRefusal, Own
    <2> QED BY <2>1, <2>2, <2>3, <2>4, <2>5 DEF IInv
<1> QED BY <1>1, <1>2, <1>3, <1>4, <1>5, <1>6, <1>7, <1>8, <1>9, <1>10

\* Other requests of the tenant use up its allowance.
LEMMA OtherTrafficKeeps ==
    ASSUME IInv, NEW n \in 0..Allowance, OtherTraffic(n)
    PROVE IInv'
<1> USE DEF OtherTraffic, live, askVars, execVars, sawVars
<1>1. GatewayTypeOK'
    BY DEF IInv, GatewayTypeOK
<1>2. Progress' /\ Seen'
    BY DEF IInv, Progress, Seen, Running, InPipeline, InRouting
<1>3. CallsAreAdmitted' /\ RefusedIsInert' /\ NoFalseRefusal'
    BY DEF IInv, CallsAreAdmitted, RefusedIsInert, NoFalseRefusal, Own
<1> QED BY <1>1, <1>2, <1>3 DEF IInv

\* A provider of the tenant, enabled when the catalog was read.
LEMMA CandidatesKeeps ==
    ASSUME IInv, NEW h \in SUBSET Providers, NEW d \in SUBSET Providers, Candidates(h, d)
    PROVE IInv'
<1> USE DEF Candidates, Preferred, Goto, NoTrouble, live, envVars, askVars, sawVars
<1>1. \/ provider' \in Own(enabled) /\ pc' = "confirm"
      \/ provider' = None /\ pc' = "execute"
    OBVIOUS
<1>2. GatewayTypeOK'
    BY <1>1 DEF IInv, GatewayTypeOK, Steps, Own
<1>3. Progress'
    BY <1>1, GatewayAssumption DEF IInv, GatewayTypeOK, Progress, Seen, Running, InPipeline, InRouting, Own
<1>4. Seen'
    BY <1>1 DEF IInv, Seen, Running, Own
<1>5. CallsAreAdmitted' /\ RefusedIsInert' /\ NoFalseRefusal'
    BY DEF IInv, Progress, CallsAreAdmitted, RefusedIsInert, NoFalseRefusal
<1> QED BY <1>2, <1>3, <1>4, <1>5 DEF IInv

\* The statuses of an execution are none of a refusal.
LEMMA StatusOfExecution ==
    ASSUME NEW o \in Outcomes \ {"none"}
    PROVE StatusOf[o] \in {200, 402, 502, 503}
BY DEF StatusOf

\* An attempt calls no one but the provider routed to.
LEMMA AttemptCalls ==
    ASSUME IInv, NEW o \in Outcomes \ {"none"}, Attempt(o)
    PROVE /\ called' = called \/ (provider # None /\ called' = called \cup {provider})
          /\ tries' \in 1..MaxAttempts /\ out' \in Outcomes \ {"none"}
          /\ stream => tries' = 1
<1>1. called' = called \/ (provider # None /\ called' = called \cup {provider})
    BY DEF Attempt, Failures, Categories
<1>2. tries' \in 1..MaxAttempts
    BY GatewayAssumption DEF Attempt, IInv, GatewayTypeOK
<1>3. stream => tries' = 1
    BY DEF Attempt, IInv, Progress
<1>4. out' \in Outcomes \ {"none"}
    BY DEF Attempt
<1> QED BY <1>1, <1>2, <1>3, <1>4

\* The calls an attempt adds are admitted ones.
LEMMA AttemptAdmitted ==
    ASSUME IInv, pc = "execute", UNCHANGED <<askVars, auth, spent, sawVars>>,
           called' = called \/ (provider # None /\ called' = called \cup {provider}),
           tries' \in 1..MaxAttempts, stream => tries' = 1
    PROVE CallsAreAdmitted' /\ called' \subseteq Providers
<1> USE DEF askVars, sawVars
<1>1. called \subseteq Own(sawEnabled)
    BY DEF IInv, CallsAreAdmitted
<1>2. provider # None => provider \in Own(sawEnabled)
    BY GatewayAssumption DEF IInv, Progress, Own, GatewayTypeOK
<1>3. body = "fine" /\ auth /\ spent /\ sawLive /\ sawGrant
    BY DEF IInv, Progress, InPipeline, InRouting
<1>4. tries' <= (IF stream THEN 1 ELSE MaxAttempts)
    BY GatewayAssumption
<1>5. called' \subseteq Own(sawEnabled)
    BY <1>1, <1>2
<1>6. Own(sawEnabled)' = Own(sawEnabled) /\ Own(sawEnabled) \subseteq Providers
    BY DEF Own, IInv, GatewayTypeOK
<1> QED BY <1>3, <1>4, <1>5, <1>6 DEF CallsAreAdmitted

\* The execution, its reflection and its evaluation.
LEMMA ExecutionKeeps ==
    ASSUME IInv,
           \/ \E o \in Outcomes \ {"none"} : Execute(o) \/ ExecuteStream(o)
           \/ ExecuteRaises \/ Backoff \/ Evaluate
    PROVE IInv'
<1> USE DEF Goto, Answer, Quiet, NoTrouble, live, envVars, askVars, execVars, sawVars
<1>1. CASE \E o \in Outcomes \ {"none"} : Execute(o) \/ ExecuteStream(o)
    <2> PICK o \in Outcomes \ {"none"} : Execute(o) \/ ExecuteStream(o)
        BY <1>1
    <2>1. Attempt(o) /\ pc = "execute" /\ out' = o
        BY DEF Execute, ExecuteStream, Attempt
    <2>2. /\ called' = called \/ (provider # None /\ called' = called \cup {provider})
          /\ tries' \in 1..MaxAttempts /\ out' \in Outcomes \ {"none"}
          /\ stream => tries' = 1
        BY <2>1, AttemptCalls
    <2>3. /\ UNCHANGED <<envVars, askVars, auth, spent, provider, report, sawVars, troubled>>
          /\ \/ ~stream /\ pc' \in {"backoff", "evaluate"} /\ status' = status
             \/ stream /\ pc' = "answered" /\ status' = StatusOf[o]
        BY DEF Execute, ExecuteStream, Attempt
    <2>4. StatusOf[o] \in {200, 402, 502, 503}
        BY StatusOfExecution
    <2>5. CallsAreAdmitted' /\ called' \subseteq Providers
        BY <2>1, <2>2, <2>3, AttemptAdmitted
    <2>6. GatewayTypeOK'
        <3>1. pc' \in Steps /\ status' \in Statuses
            BY <2>3, <2>4 DEF IInv, GatewayTypeOK, Steps, Statuses
        <3>2. tries' \in 0..MaxAttempts
            BY <2>2, GatewayAssumption
        <3> QED BY <2>2, <2>3, <2>5, <3>1, <3>2 DEF IInv, GatewayTypeOK
    <2>7. Progress'
        BY <2>1, <2>2, <2>3 DEF IInv, Progress, InPipeline, InRouting
    <2>8. Seen'
        BY <2>1, <2>3 DEF IInv, Seen, Running
    <2>9. RefusedIsInert' /\ NoFalseRefusal'
        BY <2>1, <2>3, <2>4 DEF IInv, Progress, RefusedIsInert, NoFalseRefusal
    <2> QED BY <2>5, <2>6, <2>7, <2>8, <2>9 DEF IInv
<1>2. CASE ExecuteRaises
    <2>1. /\ called' = called \/ (provider # None /\ called' = called \cup {provider})
          /\ pc = "execute" /\ pc' = "answered" /\ status' = 500
          /\ UNCHANGED <<envVars, askVars, auth, spent, provider, out, report, sawVars, troubled>>
        BY <1>2 DEF ExecuteRaises
    <2>2. tries' \in 1..MaxAttempts /\ (stream => tries' = 1)
        BY <1>2, GatewayAssumption DEF ExecuteRaises, IInv, GatewayTypeOK, Progress
    <2>3. CallsAreAdmitted' /\ called' \subseteq Providers
        BY <2>1, <2>2, AttemptAdmitted
    <2>4. GatewayTypeOK'
        <3>1. tries' \in 0..MaxAttempts /\ pc' \in Steps /\ status' \in Statuses
            BY <2>1, <2>2, GatewayAssumption DEF Steps, Statuses
        <3> QED BY <2>1, <2>3, <3>1 DEF IInv, GatewayTypeOK
    <2>5. Progress' /\ Seen'
        BY <2>1 DEF IInv, Progress, Seen, Running, InPipeline, InRouting
    <2>6. RefusedIsInert' /\ NoFalseRefusal'
        BY <2>1 DEF RefusedIsInert, NoFalseRefusal
    <2> QED BY <2>3, <2>4, <2>5, <2>6 DEF IInv
<1>3. CASE Backoff
    <2>1. GatewayTypeOK'
        BY <1>3 DEF Backoff, IInv, GatewayTypeOK, Steps
    <2>2. Progress' /\ Seen'
        BY <1>3 DEF Backoff, IInv, Progress, Seen, Running, InPipeline, InRouting
    <2>3. CallsAreAdmitted' /\ RefusedIsInert' /\ NoFalseRefusal'
        BY <1>3 DEF Backoff, IInv, CallsAreAdmitted, RefusedIsInert, NoFalseRefusal, Own
    <2> QED BY <2>1, <2>2, <2>3 DEF IInv
<1>4. CASE Evaluate
    <2>1. StatusOf[out] \in {200, 402, 502, 503}
        BY <1>4, StatusOfExecution DEF Evaluate, IInv, GatewayTypeOK, Progress
    <2>2. /\ status' = StatusOf[out] /\ pc' = "answered"
          /\ report' \in [Evaluators -> Verdicts]
          /\ \A e \in Evaluators : report'[e] \in VerdictOf(e, out)
        BY <1>4 DEF Evaluate
    <2>3. GatewayTypeOK'
        <3>1. pc' \in Steps /\ status' \in Statuses
            BY <2>1, <2>2 DEF Steps, Statuses
        <3> QED BY <1>4, <2>2, <3>1 DEF Evaluate, IInv, GatewayTypeOK
    <2>4. Progress' /\ Seen'
        BY <1>4, <2>2 DEF Evaluate, IInv, Progress, Seen, Running, InPipeline, InRouting
    <2>5. CallsAreAdmitted'
        BY <1>4 DEF Evaluate, IInv, CallsAreAdmitted, Own
    <2>6. status' = 200 => out \in {"cacheHit", "ok"}
        BY <1>4, <2>2 DEF Evaluate, IInv, GatewayTypeOK, Progress, StatusOf, Outcomes
    <2>7. \A e \in Evaluators : /\ report'[e] # "none"
                                /\ status' = 200 => report'[e] # "notApplicable"
        BY <2>2, <2>6 DEF VerdictOf, CompletenessOf, UsageOf
    <2>8. RefusedIsInert' /\ NoFalseRefusal'
        BY <2>1, <2>2, <2>7 DEF RefusedIsInert, NoFalseRefusal
    <2> QED BY <2>3, <2>4, <2>5, <2>8 DEF IInv
<1> QED BY <1>1, <1>2, <1>3, <1>4

\* No step of the request path breaks the invariant.
LEMMA NextKeeps == IInv /\ [Next]_vars => IInv'
<1> SUFFICES ASSUME IInv, [Next]_vars PROVE IInv'
    OBVIOUS
<1>1. CASE \E c \in Creds \cup {None}, b \in Bodies, s \in BOOLEAN : Arrive(c, b, s)
    BY <1>1, ArriveKeeps
<1>2. CASE Handle
    <2>1. CASE \/ LimitSize \/ Authenticate \/ ReadKey \/ Audit \/ LimitRate \/ Route
               \/ Authorize \/ Policy \/ Confirm \/ CatalogFails
        BY <2>1, BeforeExecution
    <2>2. CASE \E h, d \in SUBSET Providers : Candidates(h, d)
        BY <2>2, CandidatesKeeps
    <2>3. CASE \/ \E o \in Outcomes \ {"none"} : Execute(o) \/ ExecuteStream(o)
               \/ ExecuteRaises \/ Backoff \/ Evaluate
        BY <2>3, ExecutionKeeps
    <2> QED BY <1>2, <2>1, <2>2, <2>3 DEF Handle
<1>3. CASE Environment
    <2> USE DEF IInv, GatewayTypeOK
    <2>1. CASE \E c \in Creds : Revoke(c) \/ Expire(c) \/ IssueToken(c) \/ Regrant(c)
        <3> PICK c \in Creds : Revoke(c) \/ Expire(c) \/ IssueToken(c) \/ Regrant(c)
            BY <2>1
        <3>1. \E s \in [Creds -> Standings], g \in SUBSET Creds : World(s, g, enabled)
            BY DEF Revoke, Expire, IssueToken, TokenIssued, Regrant, Standings
        <3> QED BY <3>1, WorldKeeps
    <2>2. CASE \E p \in Providers : Switch(p)
        <3>1. \E e \in SUBSET Providers : World(standing, granted, e)
            BY <2>2 DEF Switch
        <3> QED BY <3>1, WorldKeeps
    <2>3. CASE \E n \in 0..Allowance : OtherTraffic(n)
        BY <2>3, OtherTrafficKeeps
    <2> QED BY <1>3, <2>1, <2>2, <2>3 DEF Environment
<1>4. CASE UNCHANGED vars
    <2> USE <1>4 DEF vars, live, envVars, askVars, execVars, sawVars
    <2>1. GatewayTypeOK' /\ Progress' /\ Seen'
        BY DEF IInv, GatewayTypeOK, Progress, Seen, Running, InPipeline, InRouting
    <2>2. CallsAreAdmitted' /\ RefusedIsInert' /\ NoFalseRefusal'
        BY DEF IInv, CallsAreAdmitted, RefusedIsInert, NoFalseRefusal, Own
    <2> QED BY <2>1, <2>2 DEF IInv
<1> QED BY <1>1, <1>2, <1>3, <1>4 DEF Next

\* The invariant of the request path.
LEMMA InvariantHolds == Spec => []IInv
BY InitEstablishes, NextKeeps, PTL DEF Spec

\* Every variable of a request keeps its type, whatever the sets of tenants,
\* credentials and providers.
THEOREM GatewayTypeCorrect == Spec => []GatewayTypeOK
<1>1. IInv => GatewayTypeOK
    BY DEF IInv
<1> QED BY <1>1, InvariantHolds, PTL

\* No provider is called, by infer, but for an authenticated, rate-limited,
\* authorized request with a sound body, and only a provider of its tenant
\* that was enabled while the request ran.
THEOREM CallsAlwaysAdmitted == Spec => []CallsAreAdmitted
<1>1. IInv => CallsAreAdmitted
    BY DEF IInv
<1> QED BY <1>1, InvariantHolds, PTL

\* An answer that says a request was refused is the answer to one for which
\* the executor never ran.
THEOREM RefusalsAlwaysInert == Spec => []RefusedIsInert
<1>1. IInv => RefusedIsInert
    BY DEF IInv
<1> QED BY <1>1, InvariantHolds, PTL

\* A request with everything in order is refused only if something it depends
\* on failed or was changed while it ran.
THEOREM RefusalsHaveReasons == Spec => []NoFalseRefusal
<1>1. IInv => NoFalseRefusal
    BY DEF IInv
<1> QED BY <1>1, InvariantHolds, PTL

=============================================================================
