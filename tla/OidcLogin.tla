------------------------------ MODULE OidcLogin ------------------------------
(***************************************************************************)
(* CompleteOidcLogin: concurrent callbacks of OIDC logins, each one        *)
(* transaction over the oidc_login_state table, awaiting the identity      *)
(* provider and the signing keys of JwksCache on the way.                  *)
(*                                                                         *)
(* A login stands for its signed state, its row and its nonce.  An ID token *)
(* is the login whose nonce it carries and the kid that signed it.  No     *)
(* caller of the use case is in the repository: when it raises, whether    *)
(* the caller commits what it deleted is left open.                        *)
(***************************************************************************)
EXTENDS JwksCache

CONSTANTS
    Logins,   \* logins begun at /authorize
    None      \* the holder of a free row, and what a callback has not got

ASSUME OidcAssumption == None \notin Callers /\ None \notin Logins /\ None \notin Kids

VARIABLES
    row,      \* row[l]: the row of oidc_login_state
    expired,  \* expired[l]: expires_at has passed
    holder,   \* holder[l]: the open transaction that has deleted the row
    cb,       \* cb[c]: the callback c runs
    byState,  \* byState[l]: sessions minted for the state of l (history)
    byToken   \* byToken[l]: sessions minted for an ID token of l (history)

tableVars == <<row, expired, holder>>
mintVars == <<byState, byToken>>
vars == <<jwksVars, tableVars, cb, mintVars>>

Steps == {"idle", "consume", "exchange", "key", "fetch", "identity", "commit", "refused"}

\* The state presented, whether it had expired at now, and the ID token: the
\* login of its nonce and its kid.
CallbackType == [pc : Steps, l : Logins \cup {None}, late : BOOLEAN,
                 n : Logins \cup {None}, k : Kids \cup {None}]

Refused == [pc |-> "refused", l |-> None, late |-> FALSE, n |-> None, k |-> None]
Idle == [pc |-> "idle", l |-> None, late |-> FALSE, n |-> None, k |-> None]

\* The type of the state.
OidcTypeOK ==
    /\ JwksTypeOK
    /\ row \in [Logins -> {"none", "stored", "gone"}]
    /\ expired \in [Logins -> BOOLEAN]
    /\ holder \in [Logins -> Callers \cup {None}]
    /\ cb \in [Callers -> CallbackType]
    /\ byState \in [Logins -> Nat]
    /\ byToken \in [Logins -> Nat]

Init ==
    /\ JwksInit
    /\ row = [l \in Logins |-> "none"]
    /\ expired = [l \in Logins |-> FALSE]
    /\ holder = [l \in Logins |-> None]
    /\ cb = [c \in Callers |-> Idle]
    /\ byState = [l \in Logins |-> 0]
    /\ byToken = [l \in Logins |-> 0]

-----------------------------------------------------------------------------
(* The state store.                                                        *)

\* The row of a login that begins.
Saved(l) == [row EXCEPT ![l] = "stored"]

\* build_authorization_url, with a state that is signed and stored.
Authorize(l) ==
    /\ row[l] = "none"
    /\ row' = Saved(l)
    /\ UNCHANGED <<jwksVars, expired, holder, cb, mintVars>>

Expire(l) ==
    /\ row[l] = "stored" /\ ~expired[l]
    /\ expired' = [expired EXCEPT ![l] = TRUE]
    /\ UNCHANGED <<jwksVars, row, holder, cb, mintVars>>

\* purge_expired, one row; a row being deleted by a callback is waited for.
Purge(l) ==
    /\ row[l] = "stored" /\ expired[l] /\ holder[l] = None
    /\ row' = [row EXCEPT ![l] = "gone"]
    /\ UNCHANGED <<jwksVars, expired, holder, cb, mintVars>>

-----------------------------------------------------------------------------
(* The callback.                                                           *)

\* StateSigner: a state whose HMAC verifies was issued here, its row is
\* another matter.
Verified(l) == row[l] # "none"

\* execute, with a state that was verified; now is read here.
Callback(c, l) ==
    /\ cb[c].pc = "idle" /\ fetch[c].why = "none"
    /\ Verified(l)
    /\ cb' = [cb EXCEPT ![c] = [Idle EXCEPT !.pc = "consume", !.l = l, !.late = expired[l]]]
    /\ UNCHANGED <<jwksVars, tableVars, mintVars>>

\* Mutant: the row is read, and deleted at the end.
ConsumeByReading(c) ==
    LET l == cb[c].l IN
    /\ cb[c].pc = "consume"
    /\ cb' = [cb EXCEPT ![c] = IF row[l] = "stored" /\ ~cb[c].late
                               THEN [cb[c] EXCEPT !.pc = "exchange"] ELSE Refused]
    /\ UNCHANGED <<jwksVars, tableVars, mintVars>>

\* DELETE ... RETURNING: it waits for another deletion to commit (then no
\* row matches) or roll back; an expired row is deleted and not returned.
Consume(c) ==
    LET l == cb[c].l IN
    /\ cb[c].pc = "consume"
    /\ holder[l] = None
    /\ holder' = IF row[l] = "stored" THEN [holder EXCEPT ![l] = c] ELSE holder
    /\ cb' = [cb EXCEPT ![c] = IF row[l] = "stored" /\ ~cb[c].late
                               THEN [cb[c] EXCEPT !.pc = "exchange"] ELSE Refused]
    /\ UNCHANGED <<jwksVars, row, expired, mintVars>>

\* exchange_code answers with an ID token, of whatever login the code was
\* given for, signed with whatever key.
Exchange(c, n, k) ==
    /\ cb[c].pc = "exchange"
    /\ cb' = [cb EXCEPT ![c].pc = "key", ![c].n = n, ![c].k = k]
    /\ UNCHANGED <<jwksVars, tableVars, mintVars>>

\* The exchange fails, the ID token is unreadable, of a disallowed algorithm
\* or badly signed, or no identity is linked to its subject.
Refuse(c) ==
    /\ cb[c].pc \in {"exchange", "key", "identity"}
    /\ cb' = [cb EXCEPT ![c] = Refused]
    /\ UNCHANGED <<jwksVars, tableVars, mintVars>>

\* The key is found in ks and verifies the token, and the nonce is the one
\* of this state's row.
Verdict(c, ks) ==
    [cb EXCEPT ![c] = IF cb[c].k \in ks /\ cb[c].n = cb[c].l
                      THEN [cb[c] EXCEPT !.pc = "identity"] ELSE Refused]

\* get_key: from a fresh cache, refused by the throttle, or by a refresh.
GetKey(c) ==
    /\ cb[c].pc = "key"
    /\ \/ /\ Fresh /\ cb[c].k \in keys
          /\ cb' = Verdict(c, keys)
          /\ UNCHANGED jwksVars
       \/ /\ ~(Fresh /\ cb[c].k \in keys) /\ MayAttemptRefresh
          /\ StartRefresh(c, IF ever THEN "miss" ELSE "first")
          /\ cb' = [cb EXCEPT ![c].pc = "fetch"]
       \/ /\ ~(Fresh /\ cb[c].k \in keys) /\ ~MayAttemptRefresh
          /\ cb' = [cb EXCEPT ![c] = Refused]
          /\ UNCHANGED jwksVars
    /\ UNCHANGED <<tableVars, mintVars>>

\* The refresh of c returns; a callback goes on in the same step.
Fetched(c) ==
    /\ EndRefresh(c)
    /\ cb' = IF cb[c].pc = "fetch" THEN Verdict(c, fetch[c].body) ELSE cb
    /\ UNCHANGED <<tableVars, mintVars>>

FetchFails(c) ==
    /\ fetch[c].why # "none"
    /\ DropFetch(c)
    /\ cb' = IF cb[c].pc = "fetch" THEN [cb EXCEPT ![c].pc = "refused"] ELSE cb
    /\ UNCHANGED <<tableVars, mintVars>>

\* get_by_subject; the session and its refresh token are inserted.
Identify(c) ==
    /\ cb[c].pc = "identity"
    /\ cb' = [cb EXCEPT ![c].pc = "commit", ![c].k = None]
    /\ UNCHANGED <<jwksVars, tableVars, mintVars>>

Freed(c) == [l \in Logins |-> IF holder[l] = c THEN None ELSE holder[l]]

Deleted(c) == [l \in Logins |-> IF holder[l] = c THEN "gone" ELSE row[l]]

Commit(c) ==
    /\ cb[c].pc = "commit"
    /\ row' = Deleted(c)
    /\ holder' = Freed(c)
    /\ byState' = [byState EXCEPT ![cb[c].l] = @ + 1]
    /\ byToken' = [byToken EXCEPT ![cb[c].n] = @ + 1]
    /\ cb' = [cb EXCEPT ![c] = Idle]
    /\ UNCHANGED <<jwksVars, expired>>

\* The caller of a refused callback commits the deletion.
CommitRefused(c) ==
    /\ cb[c].pc = "refused"
    /\ row' = Deleted(c)
    /\ holder' = Freed(c)
    /\ cb' = [cb EXCEPT ![c] = Idle]
    /\ UNCHANGED <<jwksVars, expired, mintVars>>

\* The caller rolls back, a statement fails or the request is cancelled:
\* the deletion is undone.
Rollback(c) ==
    /\ cb[c].pc # "idle"
    /\ DropFetch(c)
    /\ holder' = Freed(c)
    /\ cb' = [cb EXCEPT ![c] = Idle]
    /\ UNCHANGED <<row, expired, mintVars>>

\* fetch_jwks(force_refresh=True), outside any login.
ForceRefresh(c) ==
    /\ cb[c].pc = "idle" /\ fetch[c].why = "none"
    /\ StartRefresh(c, "force")
    /\ UNCHANGED <<tableVars, cb, mintVars>>

-----------------------------------------------------------------------------
Rotation == (\E ks \in KeySets : Publish(ks)) /\ UNCHANGED <<tableVars, cb, mintVars>>

Tick == Elapse /\ UNCHANGED <<tableVars, cb, mintVars>>

Answer(c) == Serve(c) /\ UNCHANGED <<tableVars, cb, mintVars>>

Step(c) ==
    \/ Consume(c) \/ Refuse(c) \/ GetKey(c) \/ Fetched(c) \/ FetchFails(c)
    \/ Identify(c) \/ Commit(c) \/ CommitRefused(c)
    \/ \E n \in Logins, k \in Kids : Exchange(c, n, k)

Next ==
    \/ \E l \in Logins : Authorize(l) \/ Expire(l) \/ Purge(l)
    \/ \E c \in Callers :
          \/ \E l \in Logins : Callback(c, l)
          \/ Step(c) \/ Rollback(c) \/ ForceRefresh(c) \/ Answer(c)
    \/ Rotation
    \/ Tick

Spec == Init /\ [][Next]_vars

-----------------------------------------------------------------------------
(* Properties.                                                             *)

\* However many callbacks present a state at once, are refused, cancelled or
\* rolled back and tried again, a login state mints at most one session, and
\* only for its own ID token, which mints no other
\* (CompleteOidcLogin.execute, consume, verify_id_token).
LoginsAreSingleUse == \A l \in Logins : byState[l] <= 1 /\ byToken[l] = byState[l]

\* A key that verifies an ID token was served by the provider less than the
\* TTL ago, although refreshes may end in another order than they began
\* (JwksCache.refresh, get_key).
RetiredKeysExpire ==
    [][\A c \in Callers : cb[c].pc # "identity" /\ cb'[c].pc = "identity"
                             => retired[cb[c].k] < TTL]_vars

\* After the first success, at most one fetch on a cache miss is in flight,
\* however many tokens with unknown kids come (_may_attempt_refresh).
MissesFetchOneByOne ==
    \A c, d \in Callers : fetch[c].why = "miss" /\ fetch[d].why = "miss" => c = d

=============================================================================
