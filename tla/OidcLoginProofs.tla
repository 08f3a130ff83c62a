--------------------------- MODULE OidcLoginProofs ---------------------------
(***************************************************************************)
(* For every number of logins, callbacks and keys, and every ttl, throttle *)
(* and timeout in the order the defaults have: a login state mints one     *)
(* session, a retired key verifies no token after the ttl, and cache       *)
(* misses reach the identity provider one by one.                          *)
(***************************************************************************)
EXTENDS OidcLogin, TLAPS

FetchType == [why : Whys, age : 0..Timeout, body : SUBSET Kids]

\* A document is no older than the fetch that brought it, the cache no older
\* than it says, and every fetch in flight has stamped the throttle.
Dated ==
    /\ \A k \in published : retired[k] = 0
    /\ \A k \in keys : retired[k] <= age
    /\ \A c \in Callers :
          /\ fetch[c].why = "none" => fetch[c].body = {}
          /\ \A k \in fetch[c].body : retired[k] <= fetch[c].age
          /\ fetch[c].why # "none" => attempt <= fetch[c].age

JInv == JwksTypeOK /\ Dated /\ MissesFetchOneByOne

\* What the actions of OidcLogin do to the cache.
JStep ==
    \/ UNCHANGED jwksVars
    \/ \E ks \in KeySets : Publish(ks)
    \/ Elapse
    \/ \E c \in Callers :
          \/ Serve(c) \/ EndRefresh(c) \/ DropFetch(c)
          \/ \E why \in {"first", "miss", "force"} :
                (why = "miss" => ever /\ MayAttemptRefresh) /\ StartRefresh(c, why)

\* The key cache starts empty.
LEMMA JInitEstablishes == JwksInit => JInv
<1> SUFFICES ASSUME JwksInit PROVE JInv
    OBVIOUS
<1>1. \A c \in Callers : fetch[c] = NoFetch /\ NoFetch.why = "none" /\ NoFetch.body = {}
    BY DEF JwksInit, NoFetch
<1>2. NoFetch \in FetchType
    BY JwksAssumption DEF NoFetch, FetchType, Whys
<1>3. JwksTypeOK
    <2>1. 0 \in 0..TTL /\ TTL \in 0..TTL /\ MinInterval \in 0..MinInterval
        BY JwksAssumption
    <2>2. retired \in [Kids -> 0..TTL]
        BY <2>1 DEF JwksInit
    <2>3. fetch \in [Callers -> FetchType]
        BY <1>2 DEF JwksInit
    <2> QED BY <2>1, <2>2, <2>3 DEF JwksInit, JwksTypeOK, FetchType
<1>4. Dated
    <2>1. \A k \in published : k \in Kids /\ retired[k] = 0
        BY JwksAssumption DEF JwksInit
    <2> QED BY <1>1, <2>1 DEF JwksInit, Dated
<1>5. MissesFetchOneByOne
    BY <1>1 DEF MissesFetchOneByOne
<1> QED BY <1>3, <1>4, <1>5 DEF JInv

\* A step that replaces one fetch by f, with the throttle perhaps stamped.
LEMMA FetchReplaced ==
    ASSUME JInv, NEW c \in Callers, NEW f \in FetchType, NEW a \in 0..MinInterval,
           fetch' = [fetch EXCEPT ![c] = f], attempt' = a, a <= attempt,
           UNCHANGED <<published, retired>>,
           keys' \in SUBSET Kids, age' \in 0..TTL, ever' \in BOOLEAN,
           \A k \in keys' : retired[k] <= age',
           f.why = "none" => f.body = {},
           \A k \in f.body : retired[k] <= f.age,
           f.why # "none" => a <= f.age,
           f.why = "miss" => \A d \in Callers \ {c} : fetch[d].why # "miss"
    PROVE JInv'
<1>1. JwksTypeOK'
    BY DEF JInv, JwksTypeOK, FetchType
<1>2. \A d \in Callers : fetch'[d] = IF d = c THEN f ELSE fetch[d]
    BY DEF JInv, JwksTypeOK
<1>3. Dated'
    <2>1. ASSUME NEW d \in Callers
          PROVE /\ fetch'[d].why = "none" => fetch'[d].body = {}
                /\ \A k \in fetch'[d].body : retired[k] <= fetch'[d].age
                /\ fetch'[d].why # "none" => a <= fetch'[d].age
        <3>1. CASE d = c
            BY <1>2, <3>1
        <3>2. CASE d # c
            <4>1. fetch[d] \in FetchType /\ attempt \in 0..MinInterval
                BY DEF JInv, JwksTypeOK, FetchType
            <4>2. fetch[d].age \in Nat /\ attempt \in Nat /\ a \in Nat
                BY <4>1, JwksAssumption DEF FetchType
            <4> QED BY <1>2, <3>2, <4>2 DEF JInv, Dated
        <3> QED BY <3>1, <3>2
    <2> QED BY <2>1 DEF JInv, Dated
<1>4. MissesFetchOneByOne'
    BY <1>2 DEF JInv, MissesFetchOneByOne
<1> QED BY <1>1, <1>3, <1>4 DEF JInv

\* No step of the key cache or of the provider misdates a key set.
LEMMA JStepKeeps == JInv /\ JStep => JInv'
<1> SUFFICES ASSUME JInv, JStep PROVE JInv'
    OBVIOUS
<1> USE DEF jwksVars
<1>0. \A c \in Callers : fetch[c] \in FetchType
    BY DEF JInv, JwksTypeOK, FetchType
<1>00. attempt \in 0..MinInterval /\ 0 \in 0..MinInterval /\ 0 <= attempt
    BY JwksAssumption DEF JInv, JwksTypeOK
<1>1. CASE UNCHANGED jwksVars
    BY <1>1 DEF JInv, JwksTypeOK, Dated, MissesFetchOneByOne
<1>2. CASE \E ks \in KeySets : Publish(ks)
    <2> PICK ks \in KeySets : Publish(ks)
        BY <1>2
    <2>1. JwksTypeOK'
        BY JwksAssumption DEF Publish, JInv, JwksTypeOK
    <2>2. \A k \in Kids : retired'[k] = (IF k \in ks THEN 0 ELSE retired[k]) /\ retired[k] \in Nat
        BY JwksAssumption DEF Publish, JInv, JwksTypeOK
    <2>3. ks \subseteq Kids /\ keys \subseteq Kids /\ \A c \in Callers : fetch[c].body \subseteq Kids
        BY <1>0, JwksAssumption DEF JInv, JwksTypeOK, FetchType
    <2>4. age \in Nat /\ \A c \in Callers : fetch[c].age \in Nat
        BY <1>0, JwksAssumption DEF JInv, JwksTypeOK, FetchType
    <2>5. Dated'
        BY <2>2, <2>3, <2>4 DEF Publish, JInv, Dated
    <2>6. MissesFetchOneByOne'
        BY DEF Publish, JInv, MissesFetchOneByOne
    <2> QED BY <2>1, <2>5, <2>6 DEF JInv
<1>3. CASE Elapse
    <2>1. ASSUME NEW c \in Callers
          PROVE /\ fetch'[c] \in FetchType
                /\ fetch'[c].why = fetch[c].why /\ fetch'[c].body = fetch[c].body
                /\ fetch[c].why # "none" => fetch'[c].age = fetch[c].age + 1
        BY <1>0, <1>3, JwksAssumption DEF Elapse, Older, FetchType
    <2>2. \A k \in Kids : retired[k] \in 0..TTL
                          /\ retired'[k] = IF k \in published THEN 0 ELSE Older(retired[k], TTL)
        BY <1>3 DEF Elapse, JInv, JwksTypeOK
    <2>3. \A k \in Kids : retired'[k] \in 0..TTL /\ retired'[k] <= retired[k] + 1
        BY <2>2, JwksAssumption DEF Older
    <2>4. /\ age' \in 0..TTL /\ age' = Older(age, TTL) /\ age \in 0..TTL
          /\ attempt' \in 0..MinInterval /\ attempt' <= attempt + 1
        BY <1>3, JwksAssumption DEF Elapse, Older, JInv, JwksTypeOK
    <2>5. JwksTypeOK'
        <3>1. retired' \in [Kids -> 0..TTL]
            BY <1>3, <2>3 DEF Elapse
        <3>2. fetch' \in [Callers -> FetchType]
            BY <1>3, <2>1 DEF Elapse
        <3> QED BY <1>3, <2>4, <3>1, <3>2 DEF Elapse, JInv, JwksTypeOK, FetchType
    <2>6. Dated'
        <3>1. published' = published /\ published \subseteq Kids /\ keys' = keys /\ keys \subseteq Kids
            BY <1>3, JwksAssumption DEF Elapse, JInv, JwksTypeOK
        <3>2. \A k \in published' : retired'[k] = 0
            BY <2>2, <3>1
        <3>3. \A k \in keys' : retired'[k] <= age'
            BY <2>2, <2>3, <2>4, <3>1, JwksAssumption DEF Older, JInv, Dated
        <3>4. ASSUME NEW c \in Callers
              PROVE /\ fetch'[c].why = "none" => fetch'[c].body = {}
                    /\ \A k \in fetch'[c].body : retired'[k] <= fetch'[c].age
                    /\ fetch'[c].why # "none" => attempt' <= fetch'[c].age
            <4>1. CASE fetch[c].why = "none"
                BY <2>1, <4>1 DEF JInv, Dated
            <4>2. CASE fetch[c].why # "none"
                <5>1. fetch[c].age \in Nat /\ fetch[c].body \subseteq Kids
                    BY <1>0, JwksAssumption DEF FetchType
                <5>2. \A k \in fetch[c].body : retired[k] <= fetch[c].age /\ retired[k] \in Nat /\ retired'[k] \in Nat
                    BY <2>2, <2>3, <5>1, JwksAssumption DEF JInv, Dated
                <5>3. attempt <= fetch[c].age /\ attempt \in Nat /\ attempt' \in Nat
                    BY <1>00, <2>4, <4>2, JwksAssumption DEF JInv, Dated
                <5> QED BY <2>1, <2>3, <2>4, <4>2, <5>1, <5>2, <5>3
            <4> QED BY <4>1, <4>2
        <3> QED BY <3>2, <3>3, <3>4 DEF Dated
    <2>7. MissesFetchOneByOne'
        BY <2>1 DEF JInv, MissesFetchOneByOne
    <2> QED BY <2>5, <2>6, <2>7 DEF JInv
<1>4. ASSUME NEW c \in Callers, Serve(c) PROVE JInv'
    <2> DEFINE f == [fetch[c] EXCEPT !.body = published]
    <2>1. /\ f \in FetchType /\ f.why = fetch[c].why /\ f.body = published /\ f.age = fetch[c].age
          /\ fetch' = [fetch EXCEPT ![c] = f]
        BY <1>0, <1>4, JwksAssumption DEF Serve, JInv, JwksTypeOK, FetchType
    <2>2. \A k \in f.body : retired[k] <= f.age
        BY <1>0, <2>1, JwksAssumption DEF JInv, Dated, FetchType
    <2>3. f.why # "none" /\ attempt <= f.age
        BY <1>4, <2>1 DEF Serve, JInv, Dated
    <2>4. f.why = "miss" => \A d \in Callers \ {c} : fetch[d].why # "miss"
        BY <2>1 DEF JInv, MissesFetchOneByOne
    <2>5. attempt' = attempt /\ attempt <= attempt /\ UNCHANGED <<published, retired, keys, age, ever>>
        BY <1>4, <1>00, JwksAssumption DEF Serve
    <2> HIDE DEF f
    <2>6. keys' \in SUBSET Kids /\ age' \in 0..TTL /\ ever' \in BOOLEAN /\ \A k \in keys' : retired[k] <= age'
        BY <2>5 DEF JInv, JwksTypeOK, Dated
    <2> QED BY <1>00, <2>1, <2>2, <2>3, <2>4, <2>5, <2>6, FetchReplaced
<1>5. ASSUME NEW c \in Callers, EndRefresh(c) \/ DropFetch(c) PROVE JInv'
    <2>1. NoFetch \in FetchType /\ NoFetch.why = "none" /\ NoFetch.body = {}
        BY JwksAssumption DEF NoFetch, FetchType, Whys
    <2>2. /\ fetch' = [fetch EXCEPT ![c] = NoFetch] /\ UNCHANGED <<published, retired>>
          /\ attempt' = attempt /\ attempt <= attempt
        BY <1>5, <1>00, JwksAssumption DEF EndRefresh, DropFetch
    <2>3. keys' \in SUBSET Kids /\ age' \in 0..TTL /\ \A k \in keys' : retired[k] <= age'
        BY <1>0, <1>5, JwksAssumption DEF EndRefresh, DropFetch, JInv, JwksTypeOK, Dated, FetchType
    <2>4. ever' \in BOOLEAN
        BY <1>5, Zenon DEF EndRefresh, DropFetch, JInv, JwksTypeOK
    <2> QED BY <1>00, <2>1, <2>2, <2>3, <2>4, FetchReplaced
<1>6. ASSUME NEW c \in Callers, NEW why \in {"first", "miss", "force"},
             why = "miss" => ever /\ MayAttemptRefresh, StartRefresh(c, why)
      PROVE JInv'
    <2> DEFINE f == [NoFetch EXCEPT !.why = why]
    <2>1. f \in FetchType /\ f.why = why /\ f.body = {} /\ f.age = 0
        BY JwksAssumption DEF NoFetch, FetchType, Whys
    <2>2. /\ fetch' = [fetch EXCEPT ![c] = f] /\ attempt' = 0
          /\ UNCHANGED <<published, retired, keys, age, ever>>
        BY <1>6 DEF StartRefresh
    <2> HIDE DEF f
    <2>3. ASSUME why = "miss", NEW d \in Callers \ {c}, fetch[d].why = "miss" PROVE FALSE
        <3>1. attempt <= fetch[d].age
            BY <2>3 DEF JInv, Dated
        <3>2. attempt >= MinInterval
            BY <1>6, <2>3 DEF MayAttemptRefresh
        <3>3. fetch[d].age \in 0..Timeout
            BY <1>0 DEF FetchType
        <3> QED BY <1>00, <3>1, <3>2, <3>3, JwksAssumption
    <2>4. keys' \in SUBSET Kids /\ age' \in 0..TTL /\ ever' \in BOOLEAN /\ \A k \in keys' : retired[k] <= age'
        BY <2>2 DEF JInv, JwksTypeOK, Dated
    <2>5. f.why = "miss" => \A d \in Callers \ {c} : fetch[d].why # "miss"
        BY <2>1, <2>3
    <2>6. 0 <= f.age
        BY <2>1
    <2> QED BY <1>00, <2>1, <2>2, <2>4, <2>5, <2>6, FetchReplaced
<1> QED BY <1>1, <1>2, <1>3, <1>4, <1>5, <1>6 DEF JStep

-----------------------------------------------------------------------------
(* The logins.                                                             *)

Holding == {"exchange", "key", "fetch", "identity", "commit"}

\* A callback that goes on holds the row it deleted, which is therefore still
\* there for everyone else, and has passed the nonce check from then on.
Held ==
    /\ \A l \in Logins : holder[l] # None => row[l] = "stored"
    /\ \A c \in Callers :
          /\ cb[c].pc = "consume" => cb[c].l \in Logins
          /\ cb[c].pc \in Holding => cb[c].l \in Logins /\ holder[cb[c].l] = c
          /\ cb[c].pc \in {"identity", "commit"} => cb[c].n = cb[c].l

\* A row that is not gone has minted nothing.
Minted ==
    \A l \in Logins : row[l] # "gone" => byState[l] = 0

LoginTypeOK ==
    /\ row \in [Logins -> {"none", "stored", "gone"}]
    /\ expired \in [Logins -> BOOLEAN]
    /\ holder \in [Logins -> Callers \cup {None}]
    /\ cb \in [Callers -> CallbackType]
    /\ byState \in [Logins -> Nat]
    /\ byToken \in [Logins -> Nat]

LInv == LoginTypeOK /\ Held /\ Minted /\ LoginsAreSingleUse

\* No login has been started.
LEMMA LInitEstablishes == Init => LInv
<1> SUFFICES ASSUME Init PROVE LInv
    OBVIOUS
<1>1. Idle \in CallbackType /\ Idle.pc = "idle"
    BY DEF Idle, CallbackType, Steps
<1>2. LoginTypeOK
    BY <1>1 DEF Init, LoginTypeOK
<1>3. Held /\ Minted /\ LoginsAreSingleUse
    BY <1>1 DEF Init, Held, Holding, Minted, LoginsAreSingleUse
<1> QED BY <1>2, <1>3 DEF LInv

\* A callback goes on to x without a change of the tables.
LEMMA CallbackMoves ==
    ASSUME LInv, NEW c \in Callers, NEW x \in CallbackType, cb' = [cb EXCEPT ![c] = x],
           UNCHANGED <<tableVars, mintVars>>,
           x.pc = "consume" => x.l \in Logins,
           x.pc \in Holding => x.l \in Logins /\ holder[x.l] = c,
           x.pc \in {"identity", "commit"} => x.n = x.l
    PROVE LInv'
<1> USE DEF tableVars, mintVars
<1>1. \A d \in Callers : cb'[d] = IF d = c THEN x ELSE cb[d]
    BY DEF LInv, LoginTypeOK
<1>2. LoginTypeOK'
    BY DEF LInv, LoginTypeOK
<1>3. Held'
    BY <1>1 DEF LInv, Held
<1>4. Minted' /\ LoginsAreSingleUse'
    BY DEF LInv, Minted, LoginsAreSingleUse
<1> QED BY <1>2, <1>3, <1>4 DEF LInv

\* Nothing of the logins changes.
LEMMA LoginsStutter ==
    ASSUME LInv, UNCHANGED <<tableVars, cb, mintVars>> PROVE LInv'
BY DEF LInv, LoginTypeOK, Held, Minted, LoginsAreSingleUse, tableVars, mintVars

\* authorize saves a login; logins expire and are purged.
LEMMA TableKeeps ==
    ASSUME LInv, NEW l \in Logins, Authorize(l) \/ Expire(l) \/ Purge(l)
    PROVE LInv'
<1> USE DEF mintVars
<1>1. LoginTypeOK'
    BY DEF LInv, LoginTypeOK, Authorize, Saved, Expire, Purge
<1>2. Held'
    BY DEF LInv, LoginTypeOK, Held, Authorize, Saved, Expire, Purge
<1>3. Minted' /\ LoginsAreSingleUse'
    BY DEF LInv, LoginTypeOK, Minted, LoginsAreSingleUse, Authorize, Saved, Expire, Purge
<1> QED BY <1>1, <1>2, <1>3 DEF LInv

\* The records a callback becomes.
LEMMA CallbackRecords ==
    /\ Idle \in CallbackType /\ Idle.pc = "idle"
    /\ Refused \in CallbackType /\ Refused.pc = "refused"
BY DEF Idle, Refused, CallbackType, Steps

\* The token of a callback that holds its row is verified or not.
LEMMA VerdictKeeps ==
    ASSUME LInv, NEW c \in Callers, NEW ks, cb[c].pc \in Holding, cb' = Verdict(c, ks),
           UNCHANGED <<tableVars, mintVars>>
    PROVE LInv'
<1> DEFINE x == [cb[c] EXCEPT !.pc = "identity"]
<1>0. cb[c] \in CallbackType
    BY DEF LInv, LoginTypeOK
<1>1. x \in CallbackType /\ x.pc = "identity" /\ x.l = cb[c].l /\ x.n = cb[c].n
    BY <1>0 DEF CallbackType, Steps
<1>2. \/ cb' = [cb EXCEPT ![c] = Refused]
      \/ cb[c].n = cb[c].l /\ cb' = [cb EXCEPT ![c] = x]
    BY DEF Verdict
<1> HIDE DEF x
<1>3. x.l \in Logins /\ holder[x.l] = c
    BY <1>1 DEF LInv, Held
<1>4. CASE cb' = [cb EXCEPT ![c] = Refused]
    BY <1>4, CallbackRecords, CallbackMoves DEF Holding
<1>5. CASE cb[c].n = cb[c].l /\ cb' = [cb EXCEPT ![c] = x]
    BY <1>1, <1>3, <1>5, CallbackMoves
<1> QED BY <1>2, <1>4, <1>5

\* The steps of a callback other than consume.
LEMMA StepKeeps ==
    ASSUME LInv, NEW c \in Callers,
           \/ \E l \in Logins : Callback(c, l)
           \/ \E n \in Logins, k \in Kids : Exchange(c, n, k)
           \/ Refuse(c) \/ GetKey(c) \/ Fetched(c) \/ FetchFails(c) \/ Identify(c)
    PROVE LInv'
<1>0. cb[c] \in CallbackType
    BY DEF LInv, LoginTypeOK
<1>1. ASSUME NEW l \in Logins, Callback(c, l) PROVE LInv'
    <2> DEFINE x == [Idle EXCEPT !.pc = "consume", !.l = l, !.late = expired[l]]
    <2>1. x \in CallbackType /\ x.pc = "consume" /\ x.l = l
        BY DEF Idle, CallbackType, Steps, LInv, LoginTypeOK
    <2>2. cb' = [cb EXCEPT ![c] = x] /\ UNCHANGED <<tableVars, mintVars>>
        BY <1>1 DEF Callback, Verified
    <2> HIDE DEF x
    <2> QED BY <2>1, <2>2, CallbackMoves DEF Holding
<1>2. ASSUME NEW n \in Logins, NEW k \in Kids, Exchange(c, n, k) PROVE LInv'
    <2> DEFINE x == [cb[c] EXCEPT !.pc = "key", !.n = n, !.k = k]
    <2>1. x \in CallbackType /\ x.pc = "key" /\ x.l = cb[c].l
        BY <1>0 DEF CallbackType, Steps
    <2>2. cb' = [cb EXCEPT ![c] = x] /\ UNCHANGED <<tableVars, mintVars>> /\ cb[c].pc = "exchange"
        BY <1>0, <1>2 DEF Exchange, CallbackType, LInv, LoginTypeOK
    <2> HIDE DEF x
    <2>3. x.l \in Logins /\ holder[x.l] = c
        BY <2>1, <2>2 DEF LInv, Held, Holding
    <2> QED BY <2>1, <2>2, <2>3, CallbackMoves
<1>3. CASE Refuse(c)
    BY <1>3, CallbackRecords, CallbackMoves DEF Refuse, Holding
<1>4. CASE GetKey(c)
    <2>1. CASE cb' = Verdict(c, keys)
        BY <1>4, <2>1, VerdictKeeps DEF GetKey, Holding
    <2>2. CASE cb' = [cb EXCEPT ![c] = Refused]
        BY <1>4, <2>2, CallbackRecords, CallbackMoves DEF GetKey, Holding
    <2>3. CASE cb' = [cb EXCEPT ![c].pc = "fetch"]
        <3> DEFINE x == [cb[c] EXCEPT !.pc = "fetch"]
        <3>1. x \in CallbackType /\ x.pc = "fetch" /\ x.l = cb[c].l /\ cb' = [cb EXCEPT ![c] = x]
            BY <1>0, <2>3 DEF CallbackType, Steps
        <3> HIDE DEF x
        <3>2. x.l \in Logins /\ holder[x.l] = c
            BY <1>4, <3>1 DEF GetKey, LInv, Held, Holding
        <3> QED BY <1>4, <3>1, <3>2, CallbackMoves DEF GetKey
    <2> QED BY <1>4, <2>1, <2>2, <2>3 DEF GetKey
<1>5. CASE Fetched(c)
    <2>1. CASE cb[c].pc = "fetch"
        <3>1. PICK ks : ks = fetch[c].body
            OBVIOUS
        <3> QED BY <1>5, <2>1, <3>1, VerdictKeeps DEF Fetched, Holding
    <2>2. CASE cb[c].pc # "fetch"
        BY <1>5, <2>2, LoginsStutter DEF Fetched
    <2> QED BY <2>1, <2>2
<1>6. CASE FetchFails(c)
    <2>1. CASE cb[c].pc = "fetch"
        <3> DEFINE x == [cb[c] EXCEPT !.pc = "refused"]
        <3>1. x \in CallbackType /\ x.pc = "refused" /\ cb' = [cb EXCEPT ![c] = x]
            BY <1>0, <1>6, <2>1 DEF FetchFails, CallbackType, Steps
        <3> HIDE DEF x
        <3> QED BY <1>6, <3>1, CallbackMoves DEF FetchFails, Holding
    <2>2. CASE cb[c].pc # "fetch"
        BY <1>6, <2>2, LoginsStutter DEF FetchFails
    <2> QED BY <2>1, <2>2
<1>7. CASE Identify(c)
    <2> DEFINE x == [cb[c] EXCEPT !.pc = "commit", !.k = None]
    <2>1. x \in CallbackType /\ x.pc = "commit" /\ x.l = cb[c].l /\ x.n = cb[c].n
        BY <1>0 DEF CallbackType, Steps
    <2>2. cb' = [cb EXCEPT ![c] = x] /\ UNCHANGED <<tableVars, mintVars>> /\ cb[c].pc = "identity"
        BY <1>0, <1>7 DEF Identify, CallbackType, LInv, LoginTypeOK
    <2> HIDE DEF x
    <2>3. x.l \in Logins /\ holder[x.l] = c /\ x.n = x.l
        BY <2>1, <2>2 DEF LInv, Held, Holding
    <2> QED BY <2>1, <2>2, <2>3, CallbackMoves
<1> QED BY <1>1, <1>2, <1>3, <1>4, <1>5, <1>6, <1>7

\* consume hands the row it deletes to one callback.
LEMMA ConsumeKeeps ==
    ASSUME LInv, NEW c \in Callers, Consume(c) PROVE LInv'
<1> PICK l : l = cb[c].l
    OBVIOUS
<1> USE DEF mintVars
<1>1. l \in Logins /\ holder[l] = None /\ cb[c] \in CallbackType
    BY DEF Consume, LInv, LoginTypeOK, Held
<1> DEFINE x == IF row[l] = "stored" /\ ~cb[c].late THEN [cb[c] EXCEPT !.pc = "exchange"] ELSE Refused
<1>2. /\ x \in CallbackType
      /\ x.pc = "refused" \/ (x.pc = "exchange" /\ x.l = l /\ row[l] = "stored")
    BY <1>1, CallbackRecords DEF CallbackType, Steps
<1>3. /\ cb' = [cb EXCEPT ![c] = x]
      /\ holder' = IF row[l] = "stored" THEN [holder EXCEPT ![l] = c] ELSE holder
      /\ UNCHANGED <<row, expired, mintVars>>
    BY DEF Consume
<1> HIDE DEF x
<1>4. \A d \in Callers : cb'[d] = IF d = c THEN x ELSE cb[d]
    BY <1>3 DEF LInv, LoginTypeOK
<1>5. \A m \in Logins : holder'[m] = IF m = l /\ row[l] = "stored" THEN c ELSE holder[m]
    BY <1>1, <1>3 DEF LInv, LoginTypeOK
<1>6. LoginTypeOK'
    BY <1>2, <1>3 DEF LInv, LoginTypeOK
<1>7. Held'
    <2>1. \A m \in Logins : holder'[m] # None => row'[m] = "stored"
        BY <1>3, <1>5 DEF LInv, Held
    <2>2. ASSUME NEW d \in Callers
          PROVE /\ cb'[d].pc = "consume" => cb'[d].l \in Logins
                /\ cb'[d].pc \in Holding => cb'[d].l \in Logins /\ holder'[cb'[d].l] = d
                /\ cb'[d].pc \in {"identity", "commit"} => cb'[d].n = cb'[d].l
        <3>1. CASE d = c
            BY <1>1, <1>2, <1>4, <1>5, <3>1 DEF Holding
        <3>2. CASE d # c
            BY <1>1, <1>4, <1>5, <3>2, OidcAssumption DEF LInv, Held
        <3> QED BY <3>1, <3>2
    <2> QED BY <2>1, <2>2 DEF Held
<1>8. Minted' /\ LoginsAreSingleUse'
    BY <1>3 DEF LInv, Minted, LoginsAreSingleUse
<1> QED BY <1>6, <1>7, <1>8 DEF LInv

\* The end of a transaction: what it deleted goes or is back, and no other
\* callback loses its row.
LEMMA EndKeeps ==
    ASSUME LInv, NEW c \in Callers, Commit(c) \/ CommitRefused(c) \/ Rollback(c) PROVE LInv'
<1> USE DEF mintVars
<1>1. /\ cb' = [cb EXCEPT ![c] = Idle] /\ holder' = Freed(c) /\ expired' = expired
      /\ row' = Deleted(c) \/ row' = row
    BY DEF Commit, CommitRefused, Rollback
<1>2. \A d \in Callers : cb'[d] = IF d = c THEN Idle ELSE cb[d]
    BY <1>1 DEF LInv, LoginTypeOK
<1>3. \A m \in Logins : holder'[m] = IF holder[m] = c THEN None ELSE holder[m]
    BY <1>1 DEF Freed
<1>4. \A m \in Logins : row'[m] = row[m] \/ (holder[m] = c /\ row'[m] = "gone")
    BY <1>1 DEF Deleted
<1>5. Held'
    <2>1. \A m \in Logins : holder'[m] # None => row'[m] = "stored"
        BY <1>3, <1>4 DEF LInv, Held
    <2>2. ASSUME NEW d \in Callers
          PROVE /\ cb'[d].pc = "consume" => cb'[d].l \in Logins
                /\ cb'[d].pc \in Holding => cb'[d].l \in Logins /\ holder'[cb'[d].l] = d
                /\ cb'[d].pc \in {"identity", "commit"} => cb'[d].n = cb'[d].l
        <3>1. CASE d = c
            BY <1>2, <3>1, CallbackRecords DEF Holding
        <3>2. CASE d # c
            BY <1>2, <1>3, <3>2 DEF LInv, Held
        <3> QED BY <3>1, <3>2
    <2> QED BY <2>1, <2>2 DEF Held
<1>6. LoginTypeOK' /\ Minted' /\ LoginsAreSingleUse'
    <2>1. /\ row' \in [Logins -> {"none", "stored", "gone"}]
          /\ holder' \in [Logins -> Callers \cup {None}]
          /\ cb' \in [Callers -> CallbackType]
        BY <1>1, CallbackRecords DEF LInv, LoginTypeOK, Freed, Deleted
    <2>2. CASE UNCHANGED mintVars
        <3>1. LoginTypeOK'
            BY <1>1, <2>1, <2>2 DEF LInv, LoginTypeOK
        <3>2. Minted' /\ LoginsAreSingleUse'
            BY <1>4, <2>2 DEF LInv, Minted, LoginsAreSingleUse
        <3> QED BY <3>1, <3>2
    <2>3. CASE Commit(c)
        <3> PICK l : l = cb[c].l
            OBVIOUS
        <3>1. l \in Logins /\ holder[l] = c /\ cb[c].n = l
            BY <2>3 DEF Commit, LInv, Held, Holding
        <3>2. row[l] = "stored" /\ row'[l] = "gone"
            BY <2>3, <3>1, OidcAssumption DEF Commit, Deleted, LInv, Held
        <3>3. byState[l] = 0 /\ byToken[l] = 0
            BY <3>1, <3>2 DEF LInv, Minted, LoginsAreSingleUse
        <3>4. /\ byState' = [byState EXCEPT ![l] = @ + 1]
              /\ byToken' = [byToken EXCEPT ![l] = @ + 1]
            BY <2>3, <3>1 DEF Commit
        <3>5. LoginTypeOK'
            BY <1>1, <2>1, <3>1, <3>4 DEF LInv, LoginTypeOK
        <3>6. \A m \in Logins : /\ byState'[m] = IF m = l THEN 1 ELSE byState[m]
                                /\ byToken'[m] = IF m = l THEN 1 ELSE byToken[m]
            BY <3>1, <3>3, <3>4 DEF LInv, LoginTypeOK
        <3>7. Minted' /\ LoginsAreSingleUse'
            BY <1>4, <3>2, <3>6 DEF LInv, Minted, LoginsAreSingleUse
        <3> QED BY <3>5, <3>7
    <2> QED BY <2>2, <2>3 DEF CommitRefused, Rollback
<1> QED BY <1>5, <1>6 DEF LInv

-----------------------------------------------------------------------------
(* Both together.                                                          *)

IInv == JInv /\ LInv

\* Every action is a step of the cache.
LEMMA NextIsJStep == [Next]_vars => JStep
<1> SUFFICES ASSUME [Next]_vars PROVE JStep
    OBVIOUS
<1>1. CASE UNCHANGED vars
    BY <1>1 DEF vars, jwksVars, JStep
<1>2. CASE \E l \in Logins : Authorize(l) \/ Expire(l) \/ Purge(l)
    BY <1>2 DEF Authorize, Saved, Expire, Purge, JStep
<1>3. ASSUME NEW c \in Callers,
             \/ \E l \in Logins : Callback(c, l)
             \/ \E n \in Logins, k \in Kids : Exchange(c, n, k)
             \/ Consume(c) \/ Refuse(c) \/ Identify(c) \/ Commit(c) \/ CommitRefused(c)
      PROVE JStep
    BY <1>3 DEF Callback, Verified, Exchange, Consume, Refuse, Identify, Commit, CommitRefused, JStep
<1>4. ASSUME NEW c \in Callers, GetKey(c) PROVE JStep
    <2>1. CASE UNCHANGED jwksVars
        BY <2>1 DEF JStep
    <2>2. CASE MayAttemptRefresh /\ StartRefresh(c, IF ever THEN "miss" ELSE "first")
        <3>1. CASE ever
            BY <2>2, <3>1 DEF JStep
        <3>2. CASE ~ever
            BY <2>2, <3>2 DEF JStep
        <3> QED BY <3>1, <3>2
    <2> QED BY <1>4, <2>1, <2>2 DEF GetKey
<1>5. ASSUME NEW c \in Callers, Fetched(c) \/ FetchFails(c) \/ Rollback(c) \/ Answer(c) \/ ForceRefresh(c)
      PROVE JStep
    BY <1>5 DEF Fetched, FetchFails, Rollback, Answer, ForceRefresh, JStep
<1>6. CASE Rotation \/ Tick
    BY <1>6 DEF Rotation, Tick, JStep
<1> QED BY <1>1, <1>2, <1>3, <1>4, <1>5, <1>6 DEF Next, Step

\* No step lets a login be used twice.
LEMMA NextKeepsLogins == LInv /\ [Next]_vars => LInv'
<1> SUFFICES ASSUME LInv, [Next]_vars PROVE LInv'
    OBVIOUS
<1>1. CASE UNCHANGED vars
    BY <1>1, LoginsStutter DEF vars
<1>2. CASE \E l \in Logins : Authorize(l) \/ Expire(l) \/ Purge(l)
    BY <1>2, TableKeeps
<1>3. ASSUME NEW c \in Callers, (\E l \in Logins : Callback(c, l)) \/ Step(c) \/ Rollback(c) PROVE LInv'
    BY <1>3, StepKeeps, ConsumeKeeps, EndKeeps DEF Step
<1>4. CASE Rotation \/ Tick \/ \E c \in Callers : ForceRefresh(c) \/ Answer(c)
    BY <1>4, LoginsStutter DEF Rotation, Tick, ForceRefresh, Answer
<1> QED BY <1>1, <1>2, <1>3, <1>4 DEF Next

\* The invariant of logins and key sets.
LEMMA InvariantHolds == Spec => []IInv
<1>1. Init => IInv
    BY JInitEstablishes, LInitEstablishes DEF Init, IInv
<1>2. IInv /\ [Next]_vars => IInv'
    BY NextIsJStep, JStepKeeps, NextKeepsLogins DEF IInv
<1> QED BY <1>1, <1>2, PTL DEF Spec

\* Every variable of the cache, the table and the callbacks keeps its type.
THEOREM OidcTypeCorrect == Spec => []OidcTypeOK
<1>1. IInv => OidcTypeOK
    BY DEF IInv, JInv, LInv, LoginTypeOK, OidcTypeOK
<1> QED BY <1>1, InvariantHolds, PTL

\* A login state mints at most one session, and for its own ID token, however
\* CompleteOidcLogin's callbacks interleave, fail and are tried again.
THEOREM LoginsAlwaysSingleUse == Spec => []LoginsAreSingleUse
<1>1. IInv => LoginsAreSingleUse
    BY DEF IInv, LInv
<1> QED BY <1>1, InvariantHolds, PTL

\* Unknown kids make JwksCache fetch one document at a time.
THEOREM MissesAlwaysOneByOne == Spec => []MissesFetchOneByOne
<1>1. IInv => MissesFetchOneByOne
    BY DEF IInv, JInv
<1> QED BY <1>1, InvariantHolds, PTL

\* A step that verifies a token.
Verifies(c) == cb[c].pc # "identity" /\ cb'[c].pc = "identity"

\* It finds the key in a fresh cache or in the document it awaited.
LEMMA VerifiesByKey ==
    ASSUME IInv, Next, NEW c \in Callers, Verifies(c)
    PROVE \/ Fresh /\ cb[c].k \in keys
          \/ cb[c].k \in fetch[c].body
<1> USE DEF Verifies
<1>0. cb \in [Callers -> CallbackType]
    BY DEF IInv, LInv, LoginTypeOK
<1>1. CASE \E l \in Logins : Authorize(l) \/ Expire(l) \/ Purge(l)
    BY <1>1 DEF Authorize, Saved, Expire, Purge
<1>2. CASE Rotation \/ Tick \/ \E d \in Callers : ForceRefresh(d) \/ Answer(d)
    BY <1>2 DEF Rotation, Tick, ForceRefresh, Answer
<1>3. ASSUME NEW d \in Callers, NEW l \in Logins, Callback(d, l) PROVE FALSE
    BY <1>0, <1>3 DEF Callback, Verified, Idle
<1>4. ASSUME NEW d \in Callers, NEW n \in Logins, NEW k \in Kids, Exchange(d, n, k) PROVE FALSE
    BY <1>0, <1>4 DEF Exchange, CallbackType
<1>5. ASSUME NEW d \in Callers, Consume(d) \/ Refuse(d) PROVE FALSE
    <2>1. cb[d] \in CallbackType
        BY <1>0
    <2> QED BY <1>0, <1>5, <2>1, CallbackRecords DEF Consume, Refuse, CallbackType
<1>6. ASSUME NEW d \in Callers, Identify(d) \/ FetchFails(d) PROVE FALSE
    BY <1>0, <1>6 DEF Identify, FetchFails, CallbackType
<1>7. ASSUME NEW d \in Callers, Commit(d) \/ CommitRefused(d) \/ Rollback(d) PROVE FALSE
    BY <1>0, <1>7, CallbackRecords DEF Commit, CommitRefused, Rollback
<1>8. ASSUME NEW d \in Callers, NEW ks, cb' = Verdict(d, ks) PROVE c = d /\ cb[c].k \in ks
    BY <1>0, <1>8, CallbackRecords DEF Verdict
<1>9. ASSUME NEW d \in Callers, GetKey(d) PROVE Fresh /\ cb[c].k \in keys
    <2>1. CASE cb' = Verdict(d, keys) /\ Fresh
        BY <1>8, <2>1
    <2>2. CASE cb' = [cb EXCEPT ![d] = Refused] \/ cb' = [cb EXCEPT ![d].pc = "fetch"]
        BY <1>0, <2>2, CallbackRecords DEF CallbackType
    <2> QED BY <1>9, <2>1, <2>2 DEF GetKey
<1>10. ASSUME NEW d \in Callers, Fetched(d) PROVE cb[c].k \in fetch[c].body
    <2>1. PICK ks : ks = fetch[d].body
        OBVIOUS
    <2>2. cb' = Verdict(d, ks)
        BY <1>10, <2>1 DEF Fetched
    <2> QED BY <1>8, <2>1, <2>2
<1> QED BY <1>1, <1>2, <1>3, <1>4, <1>5, <1>6, <1>7, <1>9, <1>10 DEF Next, Step

\* A key verifies an ID token only within the ttl after the identity provider
\* stopped serving it, in whatever order the refreshes of JwksCache end.
THEOREM RetiredKeysAlwaysExpire == Spec => RetiredKeysExpire
<1>1. ASSUME IInv, [Next]_vars, NEW c \in Callers, Verifies(c) PROVE retired[cb[c].k] < TTL
    <2>1. Next
        BY <1>1 DEF Verifies, vars
    <2>2. \/ Fresh /\ cb[c].k \in keys
          \/ cb[c].k \in fetch[c].body
        BY <1>1, <2>1, VerifiesByKey
    <2>3. fetch[c].age \in 0..Timeout /\ fetch[c].body \subseteq Kids /\ keys \subseteq Kids /\ age \in 0..TTL
        BY <1>1 DEF IInv, JInv, JwksTypeOK
    <2>4. \A k \in Kids : retired[k] \in 0..TTL
        BY <1>1 DEF IInv, JInv, JwksTypeOK
    <2>5. CASE Fresh /\ cb[c].k \in keys
        <3>1. retired[cb[c].k] <= age
            BY <1>1, <2>5 DEF IInv, JInv, Dated
        <3> QED BY <2>3, <2>4, <2>5, <3>1, JwksAssumption DEF Fresh
    <2>6. CASE cb[c].k \in fetch[c].body
        <3>1. retired[cb[c].k] <= fetch[c].age
            BY <1>1, <2>6 DEF IInv, JInv, Dated
        <3> QED BY <2>3, <2>4, <2>6, <3>1, JwksAssumption
    <2> QED BY <2>2, <2>5, <2>6
<1>2. IInv /\ [Next]_vars
         => [\A c \in Callers : cb[c].pc # "identity" /\ cb'[c].pc = "identity" => retired[cb[c].k] < TTL]_vars
    BY <1>1 DEF Verifies
<1> QED BY <1>2, InvariantHolds, PTL DEF Spec, RetiredKeysExpire

=============================================================================
