------------------------------ MODULE Sessions ------------------------------
(***************************************************************************)
(* Sessions and their rotating refresh tokens: IssueSession,               *)
(* RefreshSession and Logout over the session and refresh_token tables.    *)
(* Each operation is one READ COMMITTED transaction of a handler, one      *)
(* action per statement that reads or locks a shared row; its own writes   *)
(* are pending in tx[h] until its commit.                                  *)
(*                                                                         *)
(* A refresh token is a number in the order of minting; the secret and its *)
(* hash are not told apart.  The operations raise after writing (reuse     *)
(* detection), and no caller of them is in the repository: whether the     *)
(* caller then commits is left open.                                       *)
(***************************************************************************)
EXTENDS Naturals

CONSTANTS
    Callers,      \* handlers of refreshes, and ...
    Leavers,      \* ... of logouts, that may run at a time
    Sids,         \* session ids
    MaxTokens,    \* bound: refresh tokens minted
    MaxCalls,     \* bound: refreshes and logouts
    MaxClock,     \* bound: the clock
    SessionTTL,   \* session_ttl
    RefreshTTL,   \* refresh_ttl
    Nobody        \* no handler, no session, no row

Handlers == Callers \cup Leavers
Tokens == 1..MaxTokens
RowKeys == ({"session"} \X Sids) \cup ({"token"} \X Tokens)

ASSUME SessionsAssumption ==
    /\ MaxTokens \in Nat /\ MaxCalls \in Nat /\ MaxClock \in Nat
    /\ SessionTTL \in Nat /\ RefreshTTL \in Nat
    /\ Nobody \notin Handlers /\ Nobody \notin Sids /\ Nobody \notin RowKeys

VARIABLES
    clock,
    calls,     \* operations so far (bounds the model)
    session,   \* session[s]: a row of the session table
    token,     \* token[t]: a row of refresh_token
    rowLock,   \* rowLock[r]: the transaction that has written row r
    waits,     \* waits[h]: the row that an UPDATE of h waits for, or Nobody
    tupleLock, \* tupleLock[r]: the first in the queue for row r
    tx         \* tx[h]: the operation of handler h and its pending writes

queue == <<waits, tupleLock>>
vars == <<clock, calls, session, token, rowLock, queue, tx>>

\* rotated is rotated_to (0: NULL); from, the token it replaced, is history.
TokenRow == [sid : Sids \cup {Nobody}, from : 0..MaxTokens, rotated : 0..MaxTokens,
             revoked : BOOLEAN, expires : Nat]
SessionRow == [exists : BOOLEAN, revoked : BOOLEAN, expires : Nat]

Ops == {"refresh", "reuse", "logout"}
Steps == {"idle", "lookup", "check", "rotate", "listTokens", "revokeTokens",
          "revokeSession", "commit"}

Idle == [op |-> "refresh", pc |-> "idle", t |-> 0, sid |-> Nobody, now |-> 0,
         child |-> 0, want |-> {}, listed |-> {}, spent |-> FALSE]

NoToken == [sid |-> Nobody, from |-> 0, rotated |-> 0, revoked |-> FALSE, expires |-> 0]

QueueTypeOK ==
    /\ waits \in [Handlers -> RowKeys \cup {Nobody}]
    /\ tupleLock \in [RowKeys -> Handlers \cup {Nobody}]

RowsTypeOK ==
    /\ clock \in 0..MaxClock
    /\ session \in [Sids -> SessionRow]
    /\ token \in [Tokens -> TokenRow]
    /\ rowLock \in [RowKeys -> Handlers \cup {Nobody}]
    /\ tx \in [Handlers -> [op : Ops, pc : Steps, t : 0..MaxTokens, sid : Sids \cup {Nobody},
                            now : Nat, child : 0..MaxTokens, want : SUBSET Tokens,
                            listed : SUBSET Tokens, spent : BOOLEAN]]

\* The type of the state.
SessionsTypeOK == RowsTypeOK /\ QueueTypeOK /\ calls \in 0..MaxCalls

Init ==
    /\ clock = 0 /\ calls = 0
    /\ session = [s \in Sids |-> [exists |-> FALSE, revoked |-> FALSE, expires |-> 0]]
    /\ token = [t \in Tokens |-> NoToken]
    /\ rowLock = [r \in RowKeys |-> Nobody]
    /\ waits = [h \in Handlers |-> Nobody]
    /\ tupleLock = [r \in RowKeys |-> Nobody]
    /\ tx = [h \in Handlers |-> Idle]

Exists(t) == t # 0 /\ token[t].sid # Nobody

\* uuid4: an id neither stored nor chosen by a transaction in progress.
Unminted == {t \in Tokens : ~Exists(t) /\ \A h \in Handlers : tx[h].child # t}

FreshToken == CHOOSE t \in Tokens : t \in Unminted

NewToken(s, from, now) ==
    [sid |-> s, from |-> from, rotated |-> 0, revoked |-> FALSE, expires |-> now + RefreshTTL]

-----------------------------------------------------------------------------
(* IssueSession: both rows are new and seen by nobody before the commit.   *)

Issue(s) ==
    /\ ~session[s].exists
    /\ Unminted # {}
    /\ session' = [session EXCEPT ![s] =
                      [exists |-> TRUE, revoked |-> FALSE, expires |-> clock + SessionTTL]]
    /\ token' = [token EXCEPT ![FreshToken] = NewToken(s, 0, clock)]
    /\ UNCHANGED <<clock, calls, rowLock, queue, tx>>

-----------------------------------------------------------------------------
(* Row locks.  An UPDATE of a row that another transaction has written     *)
(* takes the tuple lock of the row and waits for that transaction; if the  *)
(* tuple lock is taken, it waits for the tuple lock first.  One that finds *)
(* the row free goes ahead of the queue.                                   *)

\* The rows that the statement h is in has yet to write.
Wants(h) ==
    CASE tx[h].pc = "rotate" -> {<<"token", tx[h].t>>}
      [] tx[h].pc = "revokeTokens" -> {"token"} \X tx[h].want
      [] tx[h].pc = "revokeSession" -> {<<"session", tx[h].sid>>}
      [] OTHER -> {}

Free(r, h) == rowLock[r] \in {Nobody, h}

\* h writes row r, at once or when its turn in the queue has come.
Obtain(r, h) ==
    /\ Free(r, h)
    /\ waits[h] = Nobody \/ (waits[h] = r /\ tupleLock[r] = h)
    /\ rowLock' = [rowLock EXCEPT ![r] = h]
    /\ waits' = [waits EXCEPT ![h] = Nobody]
    /\ tupleLock' = [tupleLock EXCEPT ![r] = IF @ = h THEN Nobody ELSE @]

Block(h) ==
    /\ waits[h] = Nobody
    /\ \E r \in Wants(h) :
          /\ ~Free(r, h)
          /\ waits' = [waits EXCEPT ![h] = r]
          /\ tupleLock' = [tupleLock EXCEPT ![r] = IF @ = Nobody THEN h ELSE @]
    /\ UNCHANGED <<clock, calls, session, token, rowLock, tx>>

\* The tuple lock passes to one that waits for it.
Advance(h) ==
    /\ waits[h] # Nobody /\ tupleLock[waits[h]] = Nobody
    /\ tupleLock' = [tupleLock EXCEPT ![waits[h]] = h]
    /\ UNCHANGED <<clock, calls, session, token, rowLock, waits, tx>>

-----------------------------------------------------------------------------
(* The end of a transaction.                                               *)

Released(h) == [r \in RowKeys |-> IF rowLock[r] = h THEN Nobody ELSE rowLock[r]]

Withdraw(h) ==
    /\ waits' = [waits EXCEPT ![h] = Nobody]
    /\ tupleLock' = [r \in RowKeys |-> IF tupleLock[r] = h THEN Nobody ELSE tupleLock[r]]

\* Mutant: the error path leaves the transaction open.
LeaveOpen(h) ==
    /\ tx' = [tx EXCEPT ![h] = Idle]
    /\ Withdraw(h)
    /\ UNCHANGED <<clock, calls, session, token, rowLock>>

\* Rolled back by the caller, a failing statement, a deadlock or a crash:
\* the caller of the operation gets no token.
Rollback(h) ==
    /\ tx' = [tx EXCEPT ![h] = Idle]
    /\ rowLock' = Released(h)
    /\ Withdraw(h)
    /\ UNCHANGED <<clock, calls, session, token>>

\* Mutant: the new token is added and the old one never marked.
ApplyUnmarked(h) ==
    LET x == tx[h] IN
    /\ token' = [t \in Tokens |->
                    IF x.op = "refresh" /\ t = x.child THEN NewToken(x.sid, x.t, x.now)
                    ELSE IF x.op # "refresh" /\ t \in x.listed
                         THEN [token[t] EXCEPT !.revoked = TRUE] ELSE token[t]]
    /\ session' = IF x.op = "refresh" THEN session
                  ELSE [session EXCEPT ![x.sid].revoked = TRUE]
    /\ rowLock' = Released(h)
    /\ UNCHANGED <<clock, calls>>

\* The pending writes of h reach the tables.
Apply(h) ==
    LET x == tx[h] IN
    /\ token' = [t \in Tokens |->
                    IF x.op = "refresh"
                    THEN IF t = x.child THEN NewToken(x.sid, x.t, x.now)
                         ELSE IF t = x.t THEN [token[t] EXCEPT !.rotated = x.child] ELSE token[t]
                    ELSE IF t \in x.listed THEN [token[t] EXCEPT !.revoked = TRUE] ELSE token[t]]
    /\ session' = IF x.op = "refresh" THEN session
                  ELSE [session EXCEPT ![x.sid].revoked = TRUE]
    /\ rowLock' = Released(h)
    /\ UNCHANGED <<clock, calls>>

\* A refresh answers with its tokens after the commit, unless the answer to
\* the commit is lost.
Commit(h) ==
    /\ tx[h].pc = "commit"
    /\ Apply(h)
    /\ tx' = [tx EXCEPT ![h] = Idle]
    /\ UNCHANGED queue

Abort(h) ==
    /\ tx[h].pc # "idle"
    /\ Rollback(h)

-----------------------------------------------------------------------------
(* RefreshSession.                                                         *)

Called == calls < MaxCalls /\ calls' = calls + 1

\* What makes a token worthless when the call starts (history).
Spent(t) ==
    LET s == token[t].sid IN
    \/ token[t].rotated # 0 \/ token[t].revoked \/ clock > token[t].expires
    \/ session[s].revoked \/ clock > session[s].expires

\* A client presents a token that was minted, or anything else (0).
Present(h, t) ==
    /\ tx[h].pc = "idle" /\ Called
    /\ t # 0 => Exists(t)
    /\ tx' = [tx EXCEPT ![h] = [Idle EXCEPT !.pc = "lookup", !.t = t,
                                           !.spent = t # 0 => Spent(t)]]
    /\ UNCHANGED <<clock, session, token, rowLock, queue>>

\* record.rotated_to is not None or record.revoked_at is not None
Replayed(t) == token[t].rotated # 0 \/ token[t].revoked

\* get_by_hash, and the checks on the record with the clock read after it.
Lookup(h) ==
    LET t == tx[h].t IN
    /\ tx[h].pc = "lookup"
    /\ \/ /\ t # 0 /\ Replayed(t)
          /\ tx' = [tx EXCEPT ![h].pc = "listTokens", ![h].op = "reuse", ![h].sid = token[t].sid]
          /\ UNCHANGED rowLock
       \/ /\ ~(t # 0 /\ (Replayed(t) \/ clock <= token[t].expires))
          /\ tx' = [tx EXCEPT ![h] = Idle]
          /\ UNCHANGED rowLock
       \/ /\ t # 0 /\ ~Replayed(t) /\ clock <= token[t].expires
          /\ tx' = [tx EXCEPT ![h].pc = "check", ![h].sid = token[t].sid, ![h].now = clock]
          /\ UNCHANGED rowLock
    /\ UNCHANGED <<clock, calls, session, token, queue>>

\* Mutant: the refresh token alone is trusted.
TokenAlone(h) == TRUE

\* The session as read by sessions.get, against the clock read before it.
Active(h) ==
    LET s == session[tx[h].sid] IN s.exists /\ ~s.revoked /\ tx[h].now <= s.expires

\* Mutant: the session is read FOR UPDATE, for the rest of the transaction.
CheckForUpdate(h) ==
    LET r == <<"session", tx[h].sid>> IN
    /\ tx[h].pc = "check"
    /\ Free(r, h)
    /\ IF Active(h)
       THEN /\ Unminted # {}
            /\ tx' = [tx EXCEPT ![h].pc = "rotate", ![h].child = FreshToken]
            /\ rowLock' = [rowLock EXCEPT ![r] = h]
            /\ UNCHANGED <<clock, calls, session, token, queue>>
       ELSE Rollback(h)

\* sessions.get, and the INSERT of the new token, which no one sees yet.
Check(h) ==
    /\ tx[h].pc = "check"
    /\ IF Active(h)
       THEN /\ Unminted # {}
            /\ tx' = [tx EXCEPT ![h].pc = "rotate", ![h].child = FreshToken]
            /\ UNCHANGED <<clock, calls, session, token, rowLock, queue>>
       ELSE Rollback(h)

\* mark_rotated: an UPDATE by id alone, which waits for a row being written
\* and then overwrites it; the access token is signed after it.
Rotate(h) ==
    /\ tx[h].pc = "rotate"
    /\ Obtain(<<"token", tx[h].t>>, h)
    /\ tx' = [tx EXCEPT ![h].pc = "commit"]
    /\ UNCHANGED <<clock, calls, session, token>>

-----------------------------------------------------------------------------
(* Revocation, by reuse detection (tokens, then session) and by Logout     *)
(* (session, then tokens).                                                 *)

Logout(h, s) ==
    /\ tx[h].pc = "idle" /\ Called
    /\ session[s].exists
    /\ tx' = [tx EXCEPT ![h] = [Idle EXCEPT !.op = "logout", !.pc = "revokeSession", !.sid = s]]
    /\ UNCHANGED <<clock, session, token, rowLock, queue>>

\* revoke_session_tokens starts: it will write the rows committed by now.
ListTokens(h) ==
    LET mine == {t \in Tokens : token[t].sid = tx[h].sid} IN
    /\ tx[h].pc = "listTokens"
    /\ tx' = [tx EXCEPT ![h].pc = "revokeTokens", ![h].want = mine, ![h].listed = mine]
    /\ UNCHANGED <<clock, calls, session, token, rowLock, queue>>

\* It locks them one by one, in whatever order the scan finds them.
RevokeTokens(h) ==
    /\ tx[h].pc = "revokeTokens"
    /\ \/ \E t \in tx[h].want :
             /\ Obtain(<<"token", t>>, h)
             /\ tx' = [tx EXCEPT ![h].want = @ \ {t}]
       \/ /\ tx[h].want = {}
          /\ tx' = [tx EXCEPT ![h].pc = IF tx[h].op = "logout" THEN "commit" ELSE "revokeSession"]
          /\ UNCHANGED <<rowLock, queue>>
    /\ UNCHANGED <<clock, calls, session, token>>

\* sessions.revoke
RevokeSession(h) ==
    /\ tx[h].pc = "revokeSession"
    /\ Obtain(<<"session", tx[h].sid>>, h)
    /\ tx' = [tx EXCEPT ![h].pc = IF tx[h].op = "logout" THEN "listTokens" ELSE "commit"]
    /\ UNCHANGED <<clock, calls, session, token>>

-----------------------------------------------------------------------------
\* The first in the queue waits for the writer of the row, the others for the
\* first in the queue.
WaitsFor(h, g) ==
    LET r == waits[h] IN
    /\ r # Nobody
    /\ g = IF tupleLock[r] = h THEN rowLock[r] ELSE tupleLock[r]

\* Handlers that wait for each other, each of them waited for: PostgreSQL
\* finds the cycle and aborts one.
Deadlocked(C) ==
    \A h \in C :
        /\ \E g \in C : WaitsFor(h, g)
        /\ \E g \in C : WaitsFor(g, h)

DeadlockVictim(h) ==
    /\ \E C \in SUBSET Handlers : h \in C /\ Deadlocked(C)
    /\ Rollback(h)

\* The clock of the process and of the database.
Tick ==
    /\ clock < MaxClock
    /\ clock' = clock + 1
    /\ UNCHANGED <<calls, session, token, rowLock, queue, tx>>

Statement(h) ==
    \/ Lookup(h) \/ Check(h) \/ Rotate(h) \/ ListTokens(h) \/ RevokeTokens(h)
    \/ RevokeSession(h) \/ Block(h) \/ Advance(h) \/ Commit(h) \/ DeadlockVictim(h)

Next ==
    \/ \E s \in Sids : Issue(s)
    \/ \E h \in Callers, t \in 0..MaxTokens : Present(h, t)
    \/ \E h \in Leavers, s \in Sids : Logout(h, s)
    \/ \E h \in Handlers : Statement(h) \/ Abort(h)
    \/ Tick

Spec == Init /\ [][Next]_vars

\* Locks are granted in the order they are asked for and deadlocks broken;
\* a refresh that finds no id left (the bound) may be abandoned.
FairSpec ==
    Spec /\ \A h \in Handlers : /\ SF_vars(Statement(h))
                                /\ WF_vars(Unminted = {} /\ tx[h].pc = "check" /\ Abort(h))

-----------------------------------------------------------------------------
(* Properties.                                                             *)

\* A refresh that starts when its token is rotated, revoked or expired, or
\* its session revoked or expired, never mints another, although the revocation
\* misses the tokens that a concurrent refresh has inserted and not yet
\* committed (RefreshSession.__call__, revoke_session_tokens).
SpentTokensBuyNothing ==
    \A h \in Handlers : tx[h].op = "refresh" /\ tx[h].pc = "commit" => ~tx[h].spent

\* Rotation is whole: a token minted by a refresh has its parent rotated,
\* and a rotated token points to one of its children, in the same session,
\* whatever failed between the INSERT and the UPDATE.
RotationIsWhole ==
    \A t \in Tokens : Exists(t) =>
        /\ token[t].from # 0 =>
              /\ token[token[t].from].sid = token[t].sid
              /\ token[token[t].from].rotated # 0
        /\ token[t].rotated # 0 =>
              /\ token[token[t].rotated].sid = token[t].sid
              /\ token[token[t].rotated].from = t

\* Reuse detection and Logout write the same rows in opposite orders and may
\* deadlock, and a refresh that queues for one of these rows may be in the
\* cycle and its victim.  But every deadlock is one of two revocations of one
\* session, one of them a reuse detection: refreshes never deadlock with each
\* other or with one revocation, and a client with a good token is refused for
\* a deadlock only while its session is being revoked by two at once.
DeadlocksAreRevocations ==
    \A C \in SUBSET Handlers : Deadlocked(C) =>
        \A k \in C : \E h, g \in C :
            /\ h # g /\ tx[h].op = "reuse" /\ tx[g].op # "refresh"
            /\ tx[h].sid = tx[k].sid /\ tx[g].sid = tx[k].sid

\* Every operation ends, deadlocked or not.
OperationsEnd == \A h \in Handlers : tx[h].pc # "idle" ~> tx[h].pc = "idle"

=============================================================================
