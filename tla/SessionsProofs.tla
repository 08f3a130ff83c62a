--------------------------- MODULE SessionsProofs ---------------------------
(***************************************************************************)
(* Sessions and refresh tokens for any number of handlers, sessions and    *)
(* tokens: what is spent stays spent, rotation is whole, and a deadlock is *)
(* one of two revocations.                                                 *)
(***************************************************************************)
EXTENDS Sessions, TLAPS

Rotating == {"rotate", "commit"}
Refreshing(h) == tx[h].op = "refresh" /\ tx[h].pc \in {"check", "rotate", "commit"}

\* A token belongs to a session that was issued.
Owned == \A t \in Tokens : token[t].sid # Nobody => session[token[t].sid].exists

\* An operation works on a session that was issued, a refresh on that of its
\* token.
OnSession ==
    \A h \in Handlers :
        /\ tx[h].pc \notin {"idle", "lookup"} => tx[h].sid \in Sids /\ session[tx[h].sid].exists
        /\ tx[h].pc = "lookup" /\ tx[h].t # 0 => token[tx[h].t].sid # Nobody
        /\ tx[h].pc \in {"idle", "lookup", "check", "rotate"} => tx[h].op = "refresh"
        /\ tx[h].pc \in {"listTokens", "revokeTokens", "revokeSession"} => tx[h].op # "refresh"
        /\ Refreshing(h) => tx[h].t # 0 /\ token[tx[h].t].sid = tx[h].sid

\* The id of a token being minted is nobody else's.
ChildIsNew ==
    \A h \in Handlers :
        /\ tx[h].op = "refresh" /\ tx[h].pc \in Rotating => tx[h].child # 0
        /\ tx[h].child # 0 =>
              /\ token[tx[h].child].sid = Nobody
              /\ tx[h].op = "refresh" /\ tx[h].pc \in Rotating
              /\ \A g \in Handlers \ {h} : tx[g].child # tx[h].child

\* A refresh has written no shared row before it is ready to commit.
RefreshHoldsNothing ==
    \A h \in Handlers : tx[h].op = "refresh" /\ tx[h].pc # "commit" =>
        \A r \in RowKeys : rowLock[r] # h

\* A call that started with a spent token finds out: from the token, or, if
\* the token looks good, from the session.
SpentIsSeen ==
    \A h \in Handlers : tx[h].spent =>
        /\ tx[h].pc = "lookup" /\ tx[h].t # 0 => Spent(tx[h].t)
        /\ tx[h].op = "refresh" /\ tx[h].pc = "check" =>
              session[tx[h].sid].revoked \/ tx[h].now > session[tx[h].sid].expires
        /\ ~(tx[h].op = "refresh" /\ tx[h].pc \in Rotating)

SInv ==
    /\ RowsTypeOK
    /\ Owned
    /\ OnSession
    /\ ChildIsNew
    /\ RefreshHoldsNothing
    /\ SpentIsSeen
    /\ RotationIsWhole

-----------------------------------------------------------------------------
TxType == [op : Ops, pc : Steps, t : 0..MaxTokens, sid : Sids \cup {Nobody},
           now : Nat, child : 0..MaxTokens, want : SUBSET Tokens,
           listed : SUBSET Tokens, spent : BOOLEAN]

\* A handler without a transaction.
LEMMA IdleType == Idle \in TxType
BY SessionsAssumption DEF Idle, TxType, Ops, Steps

\* No session has been opened.
LEMMA InitSInv == Init => SInv
<1> SUFFICES ASSUME Init PROVE SInv
  OBVIOUS
<1> USE SessionsAssumption
<1>1. RowsTypeOK
  BY IdleType DEF Init, RowsTypeOK, TxType, NoToken, TokenRow, SessionRow
<1>2. Owned /\ RotationIsWhole
  BY DEF Init, Owned, RotationIsWhole, Exists, NoToken
<1>3. OnSession /\ ChildIsNew /\ RefreshHoldsNothing /\ SpentIsSeen
  BY DEF Init, OnSession, ChildIsNew, RefreshHoldsNothing, SpentIsSeen, Idle, Refreshing, Rotating
<1> QED BY <1>1, <1>2, <1>3 DEF SInv

-----------------------------------------------------------------------------
(* Rows only grow worse.                                                   *)

TokensAge ==
    \A t \in Tokens : token[t].sid # Nobody =>
        /\ token'[t].sid = token[t].sid
        /\ token'[t].from = token[t].from
        /\ token'[t].expires = token[t].expires
        /\ token[t].rotated # 0 => token'[t].rotated # 0
        /\ token[t].revoked => token'[t].revoked

SessionsAge ==
    \A s \in Sids : session[s].exists =>
        /\ session'[s].exists
        /\ session'[s].expires = session[s].expires
        /\ session[s].revoked => session'[s].revoked

Aged == TokensAge /\ SessionsAge /\ clock' \in Nat /\ clock <= clock'

\* A spent token stays spent.
LEMMA SpentStays ==
    ASSUME SInv, Aged, NEW t \in Tokens, token[t].sid # Nobody, Spent(t)
    PROVE  Spent(t)'
<1>1. token[t].sid \in Sids /\ session[token[t].sid].exists
  BY DEF SInv, RowsTypeOK, TokenRow, Owned
<1>2. /\ session[token[t].sid] \in SessionRow /\ token[t] \in TokenRow /\ clock \in Nat
  BY <1>1 DEF SInv, RowsTypeOK
<1> QED BY <1>1, <1>2 DEF Spent, Aged, TokensAge, SessionsAge, SessionRow, TokenRow

\* What a step that leaves the operations of the others alone must show of
\* the operation of h it changes.
TxSound(h) ==
    /\ tx[h].pc \notin {"idle", "lookup"} => tx[h].sid \in Sids /\ session[tx[h].sid].exists
    /\ tx[h].pc = "lookup" /\ tx[h].t # 0 => token[tx[h].t].sid # Nobody
    /\ tx[h].pc \in {"idle", "lookup", "check", "rotate"} => tx[h].op = "refresh"
    /\ tx[h].pc \in {"listTokens", "revokeTokens", "revokeSession"} => tx[h].op # "refresh"
    /\ Refreshing(h) => tx[h].t # 0 /\ token[tx[h].t].sid = tx[h].sid
    /\ tx[h].spent =>
        /\ tx[h].pc = "lookup" /\ tx[h].t # 0 => Spent(tx[h].t)
        /\ tx[h].op = "refresh" /\ tx[h].pc = "check" =>
              session[tx[h].sid].revoked \/ tx[h].now > session[tx[h].sid].expires
        /\ ~(tx[h].op = "refresh" /\ tx[h].pc \in Rotating)

\* The two facts about transactions, stated handler by handler.
LEMMA SoundDef == (OnSession /\ SpentIsSeen) <=> \A h \in Handlers : TxSound(h)
BY DEF OnSession, SpentIsSeen, TxSound

\* What one handler does leaves the transactions of the others sound.
LEMMA OthersStaySound ==
    ASSUME SInv, Aged, NEW h \in Handlers, tx'[h] = tx[h]
    PROVE  TxSound(h)'
<1>1. TxSound(h) /\ tx[h] \in TxType
  BY SoundDef DEF SInv, RowsTypeOK, TxType
<1>2. CASE tx[h].pc = "idle"
  BY <1>1, <1>2 DEF TxSound, Refreshing, Rotating
<1>3. CASE tx[h].pc = "lookup" /\ tx[h].t # 0
  <2>1. PICK t \in Tokens : t = tx[h].t /\ token[t].sid # Nobody
    BY <1>1, <1>3 DEF TxSound, TxType, Tokens
  <2>2. token'[t].sid # Nobody
    BY <2>1 DEF Aged, TokensAge
  <2>3. tx[h].spent => Spent(t)'
    BY <1>1, <1>3, <2>1, SpentStays DEF TxSound
  <2>4. tx'[h].t = t
    BY <2>1
  <2>5. tx'[h].spent => Spent(tx[h].t)'
    BY <2>3, <2>4 DEF Spent
  <2> QED BY <1>1, <1>3, <2>2, <2>4, <2>5 DEF TxSound, Refreshing, Rotating
<1>4. CASE tx[h].pc = "lookup" /\ tx[h].t = 0
  BY <1>1, <1>4 DEF TxSound, Refreshing, Rotating
<1>5. CASE tx[h].pc \notin {"idle", "lookup"}
  <2>1. /\ tx[h].sid \in Sids /\ session[tx[h].sid].exists
        /\ session'[tx[h].sid].exists
        /\ session'[tx[h].sid].expires = session[tx[h].sid].expires
        /\ session[tx[h].sid].revoked => session'[tx[h].sid].revoked
    BY <1>1, <1>5 DEF TxSound, Aged, SessionsAge
  <2>2. Refreshing(h) => /\ tx[h].t \in Tokens
                         /\ token'[tx[h].t].sid = tx[h].sid
    <3>1. SUFFICES ASSUME Refreshing(h) PROVE tx[h].t \in Tokens /\ token'[tx[h].t].sid = tx[h].sid
      OBVIOUS
    <3>2. tx[h].t \in Tokens /\ token[tx[h].t].sid = tx[h].sid /\ tx[h].sid # Nobody
      BY <1>1, <2>1, <3>1, SessionsAssumption DEF TxSound, TxType, Tokens
    <3> QED BY <3>2 DEF Aged, TokensAge
  <2> QED BY <1>1, <1>5, <2>1, <2>2 DEF TxSound, Refreshing, Rotating
<1> QED BY <1>2, <1>3, <1>4, <1>5

\* The unit of the step lemmas: a step of handler h that ages the tables.
LEMMA StepKeepsSound ==
    ASSUME SInv, Aged, NEW h \in Handlers, TxSound(h)',
           \A g \in Handlers \ {h} : tx'[g] = tx[g]
    PROVE  (OnSession /\ SpentIsSeen)'
<1>1. \A g \in Handlers : TxSound(g)'
  BY OthersStaySound
<1> QED BY <1>1, SoundDef DEF OnSession, SpentIsSeen, TxSound

\* Nothing ages in a step that leaves clock, sessions and tokens alone.
LEMMA NothingAges == ASSUME SInv, UNCHANGED <<clock, session, token>> PROVE Aged
BY SessionsAssumption DEF Aged, TokensAge, SessionsAge, SInv, RowsTypeOK

-----------------------------------------------------------------------------
(* The steps.                                                              *)

\* A token that is to be minted is no token yet.
LEMMA FreshIsUnminted ==
    ASSUME RowsTypeOK, Unminted # {}
    PROVE  /\ FreshToken \in Tokens /\ FreshToken # 0 /\ token[FreshToken].sid = Nobody
           /\ \A h \in Handlers : tx[h].child # FreshToken
<1>1. \E t \in Tokens : t \in Unminted
  BY DEF Unminted
<1>2. FreshToken \in Tokens /\ FreshToken \in Unminted
  BY <1>1 DEF FreshToken
<1>3. FreshToken # 0
  BY <1>2, SessionsAssumption DEF Tokens
<1> QED BY <1>2, <1>3 DEF Unminted, Exists

\* A step of handler h that writes neither table.
LEMMA QuietStep ==
    ASSUME SInv, NEW h \in Handlers, NEW x \in TxType, tx' = [tx EXCEPT ![h] = x],
           UNCHANGED <<clock, session, token>>,
           rowLock' \in [RowKeys -> Handlers \cup {Nobody}],
           \A r \in RowKeys : rowLock'[r] \in {rowLock[r], h, Nobody},
           x.op = "refresh" /\ x.pc # "commit" => \A r \in RowKeys : rowLock'[r] # h,
           TxSound(h)',
           x.child # 0 => /\ token[x.child].sid = Nobody
                          /\ \A g \in Handlers \ {h} : tx[g].child # x.child,
           x.child # 0 <=> x.op = "refresh" /\ x.pc \in Rotating
    PROVE  SInv'
<1>1. tx'[h] = x /\ \A g \in Handlers \ {h} : tx'[g] = tx[g]
  BY DEF SInv, RowsTypeOK
<1>2. RowsTypeOK'
  BY DEF SInv, RowsTypeOK, TxType
<1>3. Owned' /\ RotationIsWhole'
  BY DEF SInv, Owned, RotationIsWhole, Exists
<1>4. (OnSession /\ SpentIsSeen)'
  BY <1>1, NothingAges, StepKeepsSound
<1>5. ChildIsNew'
  BY <1>1 DEF SInv, ChildIsNew
<1>6. RefreshHoldsNothing'
  BY <1>1, SessionsAssumption DEF SInv, RefreshHoldsNothing
<1> QED BY <1>2, <1>3, <1>4, <1>5, <1>6 DEF SInv

\* The end of a transaction leaves it no row lock and gives none to others.
LEMMA ReleaseLocks ==
    ASSUME SInv, NEW h \in Handlers
    PROVE  /\ Released(h) \in [RowKeys -> Handlers \cup {Nobody}]
           /\ \A r \in RowKeys : Released(h)[r] \in {rowLock[r], Nobody} /\ Released(h)[r] # h
BY SessionsAssumption DEF Released, SInv, RowsTypeOK

\* The end of an operation without a commit.
LEMMA RollbackStep ==
    ASSUME SInv, NEW h \in Handlers, tx' = [tx EXCEPT ![h] = Idle],
           UNCHANGED <<clock, session, token>>,
           \/ rowLock' = Released(h)
           \/ rowLock' = rowLock /\ tx[h].pc = "lookup"
    PROVE  SInv'
<1>1. tx'[h] = Idle
  BY DEF SInv, RowsTypeOK
<1>2. TxSound(h)'
  BY <1>1 DEF TxSound, Idle, Refreshing, Rotating
<1>3. /\ rowLock' \in [RowKeys -> Handlers \cup {Nobody}]
      /\ \A r \in RowKeys : rowLock'[r] \in {rowLock[r], Nobody} /\ rowLock'[r] # h
  <2>1. CASE rowLock' = Released(h)
    BY <2>1, ReleaseLocks
  <2>2. CASE rowLock' = rowLock /\ tx[h].pc = "lookup"
    BY <2>2 DEF SInv, RowsTypeOK, OnSession, RefreshHoldsNothing
  <2> QED BY <2>1, <2>2
<1>4. Idle.child = 0 /\ Idle.op = "refresh" /\ Idle.pc = "idle"
  BY DEF Idle
<1> QED BY <1>2, <1>3, <1>4, IdleType, QuietStep DEF Rotating

\* Between lookup and its next step an operation keeps its locks.
LEMMA LookupStep == ASSUME SInv, NEW h \in Handlers, Lookup(h) PROVE SInv'
<1> USE SessionsAssumption
<1> DEFINE t == tx[h].t
<1>1. /\ tx[h] \in TxType /\ tx[h].pc = "lookup" /\ tx[h].op = "refresh" /\ tx[h].child = 0
      /\ clock \in Nat /\ TxSound(h) /\ UNCHANGED <<clock, session, token>>
      /\ t # 0 => t \in Tokens /\ token[t].sid \in Sids /\ session[token[t].sid].exists
                  /\ token[t] \in TokenRow
  <2>1. tx[h] \in TxType /\ tx[h].pc = "lookup" /\ UNCHANGED <<clock, session, token>>
    BY DEF Lookup, SInv, RowsTypeOK, TxType
  <2>2. TxSound(h)
    BY SoundDef DEF SInv
  <2>3. t # 0 => t \in Tokens /\ token[t].sid # Nobody
    BY <2>1, <2>2 DEF TxSound, TxType, Tokens
  <2>4. tx[h].child = 0
    BY <2>1 DEF SInv, ChildIsNew, Rotating
  <2> QED BY <2>1, <2>2, <2>3, <2>4 DEF SInv, RowsTypeOK, TokenRow, Owned, TxSound
<1>2. \A r \in RowKeys : rowLock[r] # h
  BY <1>1 DEF SInv, RefreshHoldsNothing
<1>3. rowLock \in [RowKeys -> Handlers \cup {Nobody}]
  BY DEF SInv, RowsTypeOK
<1>4. CASE /\ t # 0 /\ Replayed(t)
           /\ tx' = [tx EXCEPT ![h].pc = "listTokens", ![h].op = "reuse", ![h].sid = token[t].sid]
           /\ UNCHANGED rowLock
  <2> DEFINE x == [tx[h] EXCEPT !.pc = "listTokens", !.op = "reuse", !.sid = token[t].sid]
  <2>1. x \in TxType
    BY <1>1, <1>4 DEF TxType, Ops, Steps
  <2>2. tx' = [tx EXCEPT ![h] = x]
    BY <1>4
  <2>3. /\ x.op = "reuse" /\ x.pc = "listTokens" /\ x.sid = token[t].sid /\ x.child = 0
    BY <1>1 DEF TxType
  <2> HIDE DEF x
  <2>4. tx'[h] = x
    BY <2>2 DEF SInv, RowsTypeOK
  <2>5. TxSound(h)'
    BY <1>1, <1>4, <2>3, <2>4 DEF TxSound, Refreshing, Rotating
  <2> QED BY <1>1, <1>2, <1>3, <1>4, <2>1, <2>2, <2>3, <2>5, QuietStep
<1>5. CASE tx' = [tx EXCEPT ![h] = Idle] /\ UNCHANGED rowLock
  BY <1>1, <1>5, RollbackStep
<1>6. CASE /\ t # 0 /\ ~Replayed(t) /\ clock <= token[t].expires
           /\ tx' = [tx EXCEPT ![h].pc = "check", ![h].sid = token[t].sid, ![h].now = clock]
           /\ UNCHANGED rowLock
  <2> DEFINE x == [tx[h] EXCEPT !.pc = "check", !.sid = token[t].sid, !.now = clock]
  <2>1. x \in TxType
    BY <1>1, <1>6 DEF TxType, Ops, Steps
  <2>2. tx' = [tx EXCEPT ![h] = x]
    BY <1>6
  <2>3. /\ x.op = "refresh" /\ x.pc = "check" /\ x.sid = token[t].sid /\ x.child = 0
        /\ x.now = clock /\ x.t = t /\ x.spent = tx[h].spent
    BY <1>1 DEF TxType
  <2> HIDE DEF x
  <2>4. tx'[h] = x
    BY <2>2 DEF SInv, RowsTypeOK
  <2>5. tx[h].spent => session[token[t].sid].revoked \/ clock > session[token[t].sid].expires
    BY <1>1, <1>6 DEF TxSound, Spent, Replayed, TokenRow
  <2>6. TxSound(h)'
    BY <1>1, <1>6, <2>3, <2>4, <2>5 DEF TxSound, Refreshing, Rotating
  <2> QED BY <1>1, <1>2, <1>3, <1>6, <2>1, <2>2, <2>3, <2>6, QuietStep DEF Rotating
<1> QED BY <1>4, <1>5, <1>6 DEF Lookup

\* The checks of a refresh.
LEMMA CheckStep == ASSUME SInv, NEW h \in Handlers, Check(h) PROVE SInv'
<1> USE SessionsAssumption
<1>1. CASE Rollback(h)
  BY <1>1, RollbackStep DEF Rollback
<1>2. CASE /\ Active(h) /\ Unminted # {}
           /\ tx' = [tx EXCEPT ![h].pc = "rotate", ![h].child = FreshToken]
           /\ UNCHANGED <<clock, session, token, rowLock>>
  <2> DEFINE x == [tx[h] EXCEPT !.pc = "rotate", !.child = FreshToken]
  <2>1. /\ tx[h] \in TxType /\ tx[h].pc = "check" /\ TxSound(h)
        /\ rowLock \in [RowKeys -> Handlers \cup {Nobody}]
    BY SoundDef DEF Check, SInv, RowsTypeOK, TxType
  <2>2. /\ FreshToken \in Tokens /\ FreshToken # 0 /\ token[FreshToken].sid = Nobody
        /\ \A g \in Handlers : tx[g].child # FreshToken
    BY <1>2, FreshIsUnminted DEF SInv
  <2>3. x \in TxType /\ tx' = [tx EXCEPT ![h] = x]
    <3>1. FreshToken \in 0..MaxTokens /\ "rotate" \in Steps
      BY <2>2 DEF Tokens, Steps
    <3> QED BY <1>2, <2>1, <3>1 DEF TxType
  <2>4. /\ x.op = tx[h].op /\ x.pc = "rotate" /\ x.sid = tx[h].sid /\ x.child = FreshToken
        /\ x.t = tx[h].t /\ x.spent = tx[h].spent
    BY <2>1 DEF TxType
  <2>5. tx[h].op = "refresh" /\ tx[h].sid \in Sids /\ ~tx[h].spent
    BY <1>2, <2>1 DEF TxSound, Active, TxType, SInv, RowsTypeOK, SessionRow
  <2>6. \A r \in RowKeys : rowLock[r] # h
    BY <2>1, <2>5 DEF SInv, RefreshHoldsNothing
  <2> HIDE DEF x
  <2>7. tx'[h] = x
    BY <2>3 DEF SInv, RowsTypeOK
  <2>8. TxSound(h)'
    BY <1>2, <2>1, <2>4, <2>5, <2>7 DEF TxSound, Refreshing, Rotating
  <2> QED BY <1>2, <2>1, <2>2, <2>3, <2>4, <2>5, <2>6, <2>8, QuietStep DEF Rotating
<1> QED BY <1>1, <1>2 DEF Check

\* The rotation of a refresh token.
LEMMA RotateStep == ASSUME SInv, NEW h \in Handlers, Rotate(h) PROVE SInv'
<1> USE SessionsAssumption
<1> DEFINE x == [tx[h] EXCEPT !.pc = "commit"]
           r == <<"token", tx[h].t>>
<1>1. /\ tx[h] \in TxType /\ tx[h].pc = "rotate" /\ TxSound(h) /\ tx[h].op = "refresh"
      /\ rowLock \in [RowKeys -> Handlers \cup {Nobody}]
  BY SoundDef DEF Rotate, SInv, RowsTypeOK, TxType, TxSound
<1>2. x \in TxType /\ tx' = [tx EXCEPT ![h] = x]
  BY <1>1 DEF TxType, Steps, Rotate
<1>3. /\ x.op = tx[h].op /\ x.pc = "commit" /\ x.sid = tx[h].sid /\ x.child = tx[h].child
      /\ x.t = tx[h].t /\ x.spent = tx[h].spent
  BY <1>1 DEF TxType
<1> HIDE DEF x
<1>4. tx'[h] = x
  BY <1>2 DEF SInv, RowsTypeOK
<1>5. UNCHANGED <<clock, session, token>> /\ rowLock' = [rowLock EXCEPT ![r] = h]
  BY DEF Rotate, Obtain
<1>6. TxSound(h)'
  BY <1>1, <1>3, <1>4, <1>5 DEF TxSound, Refreshing, Rotating
<1>7. tx[h].child # 0 /\ token[tx[h].child].sid = Nobody
      /\ \A g \in Handlers \ {h} : tx[g].child # tx[h].child
  BY <1>1 DEF SInv, ChildIsNew, Rotating
<1>8. /\ rowLock' \in [RowKeys -> Handlers \cup {Nobody}]
      /\ \A q \in RowKeys : rowLock'[q] \in {rowLock[q], h, Nobody}
  BY <1>1, <1>5
<1> QED BY <1>1, <1>2, <1>3, <1>5, <1>6, <1>7, <1>8, QuietStep DEF Rotating

\* A statement of a revocation, by reuse detection or by Logout.
LEMMA RevocationStep ==
    ASSUME SInv, NEW h \in Handlers, ListTokens(h) \/ RevokeTokens(h) \/ RevokeSession(h)
    PROVE  SInv'
<1> USE SessionsAssumption
<1>1. /\ tx[h] \in TxType /\ tx[h].pc \in {"listTokens", "revokeTokens", "revokeSession"}
      /\ TxSound(h) /\ tx[h].op # "refresh" /\ tx[h].child = 0
      /\ rowLock \in [RowKeys -> Handlers \cup {Nobody}]
      /\ UNCHANGED <<clock, session, token>>
  <2>1. /\ tx[h] \in TxType /\ tx[h].pc \in {"listTokens", "revokeTokens", "revokeSession"}
        /\ UNCHANGED <<clock, session, token>>
    BY DEF ListTokens, RevokeTokens, RevokeSession, SInv, RowsTypeOK, TxType
  <2>2. TxSound(h)
    BY SoundDef DEF SInv
  <2>3. tx[h].op # "refresh"
    BY <2>1, <2>2 DEF TxSound
  <2> QED BY <2>1, <2>2, <2>3 DEF SInv, ChildIsNew, RowsTypeOK
<1>2. ASSUME NEW p \in {"listTokens", "revokeTokens", "revokeSession", "commit"},
             NEW w \in SUBSET Tokens, NEW l \in SUBSET Tokens,
             tx' = [tx EXCEPT ![h] = [tx[h] EXCEPT !.pc = p, !.want = w, !.listed = l]],
             rowLock' = rowLock \/ \E r \in RowKeys : rowLock' = [rowLock EXCEPT ![r] = h]
      PROVE  SInv'
  <2> DEFINE x == [tx[h] EXCEPT !.pc = p, !.want = w, !.listed = l]
  <2>1. x \in TxType
    BY <1>1 DEF TxType, Steps
  <2>2. x.op = tx[h].op /\ x.pc = p /\ x.sid = tx[h].sid /\ x.child = 0
    BY <1>1 DEF TxType
  <2>3. tx' = [tx EXCEPT ![h] = x]
    BY <1>2
  <2> HIDE DEF x
  <2>4. tx'[h] = x
    BY <2>3 DEF SInv, RowsTypeOK
  <2>5. TxSound(h)'
    BY <1>1, <2>2, <2>4 DEF TxSound, Refreshing, Rotating
  <2>6. /\ rowLock' \in [RowKeys -> Handlers \cup {Nobody}]
        /\ \A q \in RowKeys : rowLock'[q] \in {rowLock[q], h, Nobody}
    BY <1>1, <1>2
  <2> QED BY <1>1, <2>1, <2>2, <2>3, <2>5, <2>6, QuietStep
<1>3. tx[h].want \in SUBSET Tokens /\ tx[h].listed \in SUBSET Tokens
  BY <1>1 DEF TxType
<1>4. CASE ListTokens(h)
  <2> DEFINE mine == {t \in Tokens : token[t].sid = tx[h].sid}
  <2>1. mine \in SUBSET Tokens /\ rowLock' = rowLock
        /\ tx' = [tx EXCEPT ![h] = [tx[h] EXCEPT !.pc = "revokeTokens", !.want = mine, !.listed = mine]]
    BY <1>1, <1>4 DEF ListTokens, TxType
  <2> QED BY <2>1, <1>2
<1>5. CASE RevokeTokens(h)
  <2>1. ASSUME NEW t \in tx[h].want, Obtain(<<"token", t>>, h), tx' = [tx EXCEPT ![h].want = @ \ {t}]
        PROVE  SInv'
    <3>1. tx[h].want \ {t} \in SUBSET Tokens /\ <<"token", t>> \in RowKeys
      BY <1>3, <2>1 DEF RowKeys
    <3>2. tx[h].pc = "revokeTokens"
      BY <1>5 DEF RevokeTokens
    <3>3. [tx[h] EXCEPT !.want = @ \ {t}] =
             [tx[h] EXCEPT !.pc = "revokeTokens", !.want = tx[h].want \ {t}, !.listed = tx[h].listed]
      BY <1>1, <3>2 DEF TxType
    <3>4. tx' = [tx EXCEPT ![h] = [tx[h] EXCEPT !.pc = "revokeTokens", !.want = tx[h].want \ {t},
                                                !.listed = tx[h].listed]]
      BY <2>1, <3>3
    <3> QED BY <1>2, <1>3, <2>1, <3>1, <3>4 DEF Obtain
  <2>2. ASSUME NEW p \in {"listTokens", "revokeTokens", "revokeSession", "commit"},
               tx' = [tx EXCEPT ![h].pc = p], rowLock' = rowLock
        PROVE  SInv'
    <3>1. tx' = [tx EXCEPT ![h] = [tx[h] EXCEPT !.pc = p, !.want = tx[h].want, !.listed = tx[h].listed]]
      BY <1>1, <2>2 DEF TxType
    <3> QED BY <1>2, <1>3, <2>2, <3>1
  <2> QED BY <1>5, <2>1, <2>2 DEF RevokeTokens
<1>6. CASE RevokeSession(h)
  <2>1. PICK p \in {"listTokens", "commit"} : tx' = [tx EXCEPT ![h].pc = p]
    BY <1>6 DEF RevokeSession
  <2>2. tx' = [tx EXCEPT ![h] = [tx[h] EXCEPT !.pc = p, !.want = tx[h].want, !.listed = tx[h].listed]]
    BY <1>1, <2>1 DEF TxType
  <2>3. tx[h].sid \in Sids
    BY <1>1 DEF TxSound
  <2>4. <<"session", tx[h].sid>> \in RowKeys /\ rowLock' = [rowLock EXCEPT ![<<"session", tx[h].sid>>] = h]
    BY <1>6, <2>3 DEF RevokeSession, Obtain, RowKeys
  <2> QED BY <1>2, <1>3, <2>2, <2>4
<1> QED BY <1>4, <1>5, <1>6

\* A refresh token is presented.
LEMMA PresentStep ==
    ASSUME SInv, NEW h \in Handlers, NEW t \in 0..MaxTokens, Present(h, t)
    PROVE  SInv'
<1> USE SessionsAssumption
<1> DEFINE x == [Idle EXCEPT !.pc = "lookup", !.t = t, !.spent = t # 0 => Spent(t)]
<1>1. /\ tx[h].pc = "idle" /\ tx[h].op = "refresh" /\ tx' = [tx EXCEPT ![h] = x]
      /\ UNCHANGED <<clock, session, token, rowLock>>
      /\ t # 0 => token[t].sid # Nobody
  BY DEF Present, Exists, SInv, OnSession
<1>2. /\ x.op = "refresh" /\ x.pc = "lookup" /\ x.t = t /\ x.child = 0 /\ x \in TxType
      /\ x.spent => (t # 0 => Spent(t))
  BY IdleType DEF Idle, TxType, Ops, Steps
<1> HIDE DEF x
<1>3. tx'[h] = x
  BY <1>1 DEF SInv, RowsTypeOK
<1>4. t # 0 => (Spent(t) <=> Spent(t)')
  BY <1>1 DEF Spent
<1>5. TxSound(h)'
  <2>1. tx'[h].t = t
    BY <1>2, <1>3
  <2>2. tx'[h].spent => (t # 0 => Spent(tx[h].t)')
    BY <1>2, <1>3, <1>4, <2>1 DEF Spent
  <2> QED BY <1>1, <1>2, <1>3, <2>1, <2>2 DEF TxSound, Refreshing, Rotating
<1>6. \A r \in RowKeys : rowLock'[r] # h
  BY <1>1 DEF SInv, RefreshHoldsNothing
<1>7. rowLock' \in [RowKeys -> Handlers \cup {Nobody}]
  BY <1>1 DEF SInv, RowsTypeOK
<1> QED BY <1>1, <1>2, <1>5, <1>6, <1>7, QuietStep DEF Rotating

\* A logout begins.
LEMMA LogoutStep ==
    ASSUME SInv, NEW h \in Handlers, NEW s \in Sids, Logout(h, s)
    PROVE  SInv'
<1> USE SessionsAssumption
<1> DEFINE x == [Idle EXCEPT !.op = "logout", !.pc = "revokeSession", !.sid = s]
<1>1. /\ tx' = [tx EXCEPT ![h] = x] /\ session[s].exists
      /\ UNCHANGED <<clock, session, token, rowLock>>
  BY DEF Logout
<1>2. /\ x.op = "logout" /\ x.pc = "revokeSession" /\ x.sid = s /\ x.child = 0 /\ x \in TxType
  BY IdleType DEF Idle, TxType, Ops, Steps
<1> HIDE DEF x
<1>3. tx'[h] = x
  BY <1>1 DEF SInv, RowsTypeOK
<1>4. TxSound(h)'
  BY <1>1, <1>2, <1>3 DEF TxSound, Refreshing, Rotating
<1>5. rowLock' \in [RowKeys -> Handlers \cup {Nobody}]
  BY <1>1 DEF SInv, RowsTypeOK
<1> QED BY <1>1, <1>2, <1>4, <1>5, QuietStep DEF Rotating

-----------------------------------------------------------------------------
\* A step of the tables alone: an issue, or the passing of time.
LEMMA IssueStep == ASSUME SInv, NEW s \in Sids, Issue(s) PROVE SInv'
<1> USE SessionsAssumption
<1> DEFINE f == FreshToken
<1>1. /\ f \in Tokens /\ f # 0 /\ token[f].sid = Nobody /\ \A h \in Handlers : tx[h].child # f
  BY FreshIsUnminted DEF Issue, SInv
<1> HIDE DEF f
<1>2. /\ ~session[s].exists /\ UNCHANGED <<clock, rowLock, tx>>
      /\ session' = [session EXCEPT ![s] =
                        [exists |-> TRUE, revoked |-> FALSE, expires |-> clock + SessionTTL]]
      /\ token' = [token EXCEPT ![f] = NewToken(s, 0, clock)]
  BY DEF Issue, f
<1>3. NewToken(s, 0, clock) \in TokenRow /\ clock \in Nat
  BY DEF NewToken, TokenRow, SInv, RowsTypeOK
<1>4. RowsTypeOK'
  BY <1>1, <1>2, <1>3 DEF SInv, RowsTypeOK, SessionRow
<1>5. /\ token'[f] = NewToken(s, 0, clock)
      /\ \A t \in Tokens \ {f} : token'[t] = token[t]
      /\ session'[s].exists /\ \A q \in Sids \ {s} : session'[q] = session[q]
  BY <1>1, <1>2 DEF SInv, RowsTypeOK
<1>6. Aged
  BY <1>1, <1>2, <1>3, <1>5 DEF Aged, TokensAge, SessionsAge
<1>7. Owned'
  BY <1>1, <1>2, <1>3, <1>5 DEF SInv, Owned, NewToken, RowsTypeOK, TokenRow
<1>8. (OnSession /\ SpentIsSeen)'
  <2>1. \A h \in Handlers : TxSound(h)'
    BY <1>2, <1>6, OthersStaySound
  <2> QED BY <2>1, SoundDef DEF OnSession, SpentIsSeen, TxSound
<1>9. ChildIsNew' /\ RefreshHoldsNothing'
  <2>1. \A h \in Handlers : tx[h].child # 0 => tx[h].child \in Tokens \ {f}
    BY <1>1 DEF SInv, RowsTypeOK, Tokens
  <2> QED BY <1>2, <1>5, <2>1 DEF SInv, ChildIsNew, RefreshHoldsNothing
<1>10. RotationIsWhole'
  <2> SUFFICES ASSUME NEW t \in Tokens, token'[t].sid # Nobody
               PROVE  /\ token'[t].from # 0 =>
                            /\ token'[token'[t].from].sid = token'[t].sid
                            /\ token'[token'[t].from].rotated # 0
                      /\ token'[t].rotated # 0 =>
                            /\ token'[token'[t].rotated].sid = token'[t].sid
                            /\ token'[token'[t].rotated].from = t
    BY DEF RotationIsWhole, Exists
  <2>1. CASE t = f
    BY <1>5, <2>1 DEF NewToken
  <2>2. CASE t # f
    <3>1. token'[t] = token[t] /\ token[t] \in TokenRow
      BY <1>5, <2>2 DEF SInv, RowsTypeOK
    <3>2. t # 0
      BY DEF Tokens
    <3>3. /\ token[t].from # 0 =>
                /\ token[token[t].from].sid = token[t].sid
                /\ token[token[t].from].rotated # 0
          /\ token[t].rotated # 0 =>
                /\ token[token[t].rotated].sid = token[t].sid
                /\ token[token[t].rotated].from = t
      BY <3>1, <3>2 DEF SInv, RotationIsWhole, Exists
    <3>4. /\ token[t].from # 0 => token[t].from \in Tokens \ {f}
          /\ token[t].rotated # 0 => token[t].rotated \in Tokens \ {f}
      BY <1>1, <3>1, <3>3 DEF TokenRow, Tokens
    <3> QED BY <1>5, <3>1, <3>3, <3>4
  <2> QED BY <2>1, <2>2
<1> QED BY <1>4, <1>7, <1>8, <1>9, <1>10 DEF SInv

\* Time passes.
LEMMA TickStep == ASSUME SInv, Tick PROVE SInv'
<1> USE SessionsAssumption
<1>1. /\ clock' \in Nat /\ clock' \in 0..MaxClock /\ clock <= clock'
      /\ UNCHANGED <<session, token, rowLock, tx>>
  BY DEF Tick, SInv, RowsTypeOK
<1>2. Aged
  BY <1>1 DEF Aged, TokensAge, SessionsAge
<1>3. \A h \in Handlers : TxSound(h)'
  BY <1>1, <1>2, OthersStaySound
<1>4. (OnSession /\ SpentIsSeen)'
  BY <1>3, SoundDef DEF OnSession, SpentIsSeen, TxSound
<1>5. RowsTypeOK'
  BY <1>1 DEF SInv, RowsTypeOK
<1>6. Owned' /\ ChildIsNew' /\ RefreshHoldsNothing' /\ RotationIsWhole'
  BY <1>1 DEF SInv, Owned, ChildIsNew, RefreshHoldsNothing, RotationIsWhole, Exists
<1> QED BY <1>4, <1>5, <1>6 DEF SInv

\* What remains to be shown of a commit once its writes are known.
LEMMA CommitStep == ASSUME SInv, NEW h \in Handlers, Commit(h) PROVE SInv'
<1> USE SessionsAssumption
<1> DEFINE x == tx[h]
<1>1. /\ x \in TxType /\ x.pc = "commit" /\ TxSound(h) /\ clock \in Nat
      /\ x.sid \in Sids /\ session[x.sid].exists
      /\ tx' = [tx EXCEPT ![h] = Idle] /\ UNCHANGED clock /\ rowLock' = Released(h)
      /\ token \in [Tokens -> TokenRow] /\ session \in [Sids -> SessionRow]
  <2>1. /\ x \in TxType /\ x.pc = "commit" /\ tx' = [tx EXCEPT ![h] = Idle] /\ clock \in Nat
        /\ UNCHANGED clock /\ rowLock' = Released(h)
        /\ token \in [Tokens -> TokenRow] /\ session \in [Sids -> SessionRow]
    BY DEF Commit, Apply, SInv, RowsTypeOK, TxType
  <2>2. TxSound(h)
    BY SoundDef DEF SInv
  <2> QED BY <2>1, <2>2 DEF TxSound
<1>2. /\ tx'[h] = Idle /\ \A g \in Handlers \ {h} : tx'[g] = tx[g]
      /\ tx' \in [Handlers -> TxType]
  BY <1>1, IdleType DEF SInv, RowsTypeOK, TxType
<1>3. /\ rowLock' \in [RowKeys -> Handlers \cup {Nobody}]
      /\ \A r \in RowKeys : rowLock'[r] \in {rowLock[r], Nobody} /\ rowLock'[r] # h
  BY <1>1, ReleaseLocks
<1>4. RefreshHoldsNothing'
  BY <1>2, <1>3 DEF SInv, RefreshHoldsNothing
<1>5. TxSound(h)'
  BY <1>2 DEF TxSound, Idle, Refreshing, Rotating
<1>6. ASSUME Aged, Owned', RotationIsWhole', token' \in [Tokens -> TokenRow],
             session' \in [Sids -> SessionRow],
             \A g \in Handlers \ {h} : tx[g].child # 0 => token'[tx[g].child].sid = Nobody
      PROVE  SInv'
  <2>1. RowsTypeOK'
    BY <1>1, <1>2, <1>3, <1>6 DEF SInv, RowsTypeOK, TxType
  <2>2. (OnSession /\ SpentIsSeen)'
    BY <1>2, <1>5, <1>6, StepKeepsSound
  <2>3. ChildIsNew'
    BY <1>2, <1>6 DEF SInv, ChildIsNew, Idle, Rotating
  <2> QED BY <1>4, <1>6, <2>1, <2>2, <2>3 DEF SInv
<1>7. CASE x.op # "refresh"
  <2>1. /\ token' = [t \in Tokens |-> IF t \in x.listed THEN [token[t] EXCEPT !.revoked = TRUE]
                                      ELSE token[t]]
        /\ session' = [session EXCEPT ![x.sid].revoked = TRUE]
    BY <1>7 DEF Commit, Apply
  <2>2. \A t \in Tokens :
           /\ token'[t] \in TokenRow
           /\ token'[t].sid = token[t].sid /\ token'[t].from = token[t].from
           /\ token'[t].rotated = token[t].rotated /\ token'[t].expires = token[t].expires
           /\ token[t].revoked => token'[t].revoked
    BY <1>1, <2>1 DEF TokenRow
  <2>3. \A s \in Sids :
           /\ session'[s] \in SessionRow
           /\ session'[s].exists = session[s].exists /\ session'[s].expires = session[s].expires
           /\ session[s].revoked => session'[s].revoked
    BY <1>1, <2>1 DEF SessionRow
  <2>4. Aged
    BY <1>1, <2>2, <2>3 DEF Aged, TokensAge, SessionsAge
  <2>5. token' \in [Tokens -> TokenRow] /\ session' \in [Sids -> SessionRow]
    BY <1>1, <2>1, <2>2, <2>3
  <2>6. Owned'
    BY <1>1, <2>2, <2>3 DEF SInv, Owned, TokenRow
  <2>7. RotationIsWhole'
    <3> SUFFICES ASSUME NEW t \in Tokens, t # 0, token'[t].sid # Nobody
                 PROVE  /\ token'[t].from # 0 =>
                              /\ token'[token'[t].from].sid = token'[t].sid
                              /\ token'[token'[t].from].rotated # 0
                        /\ token'[t].rotated # 0 =>
                              /\ token'[token'[t].rotated].sid = token'[t].sid
                              /\ token'[token'[t].rotated].from = t
      BY DEF RotationIsWhole, Exists
    <3>1. /\ token'[t].from = token[t].from /\ token'[t].rotated = token[t].rotated
          /\ token'[t].sid = token[t].sid
          /\ token[t].from # 0 => token[t].from \in Tokens
          /\ token[t].rotated # 0 => token[t].rotated \in Tokens
      BY <1>1, <2>2 DEF TokenRow, Tokens
    <3>2. /\ token[t].from # 0 =>
                /\ token[token[t].from].sid = token[t].sid
                /\ token[token[t].from].rotated # 0
          /\ token[t].rotated # 0 =>
                /\ token[token[t].rotated].sid = token[t].sid
                /\ token[token[t].rotated].from = t
      BY <3>1 DEF SInv, RotationIsWhole, Exists
    <3> QED BY <2>2, <3>1, <3>2
  <2>8. \A g \in Handlers \ {h} : tx[g].child # 0 => token'[tx[g].child].sid = Nobody
    BY <2>2 DEF SInv, ChildIsNew, RowsTypeOK, Tokens
  <2> QED BY <1>6, <2>4, <2>5, <2>6, <2>7, <2>8
<1>8. CASE x.op = "refresh"
  <2> DEFINE p == x.t
             c == x.child
             n == NewToken(x.sid, p, x.now)
  <2>1. /\ token' = [t \in Tokens |-> IF t = c THEN n
                                      ELSE IF t = p THEN [token[t] EXCEPT !.rotated = c] ELSE token[t]]
        /\ session' = session
    BY <1>8 DEF Commit, Apply
  <2>2. p \in Tokens /\ p # 0 /\ token[p].sid = x.sid /\ x.sid # Nobody
    BY <1>1, <1>8 DEF TxSound, Refreshing, TxType, Tokens
  <2>3. /\ c \in Tokens /\ c # 0 /\ token[c].sid = Nobody
        /\ \A g \in Handlers \ {h} : tx[g].child # c
    BY <1>1, <1>8 DEF SInv, ChildIsNew, Rotating, TxType, Tokens
  <2>4. n \in TokenRow /\ n.sid = x.sid /\ n.from = p /\ n.rotated = 0
    BY <1>1 DEF NewToken, TokenRow, TxType
  <2> HIDE DEF n
  <2>5. /\ p # c /\ token'[c] = n
        /\ token'[p] = [token[p] EXCEPT !.rotated = c]
        /\ \A t \in Tokens \ {c, p} : token'[t] = token[t]
    BY <2>1, <2>2, <2>3
  <2>6. /\ token'[p] \in TokenRow /\ token'[p].sid = x.sid /\ token'[p].from = token[p].from
        /\ token'[p].rotated = c /\ token'[p].expires = token[p].expires
        /\ token'[p].revoked = token[p].revoked
    <3>1. token[p] \in TokenRow /\ c \in 0..MaxTokens
      BY <1>1, <2>2, <2>3 DEF Tokens
    <3> HIDE DEF c, p
    <3> QED BY <2>2, <2>5, <3>1 DEF TokenRow
  <2>7. token' \in [Tokens -> TokenRow] /\ session' \in [Sids -> SessionRow]
    <3>1. \A t \in Tokens : token'[t] \in TokenRow
      BY <1>1, <2>4, <2>5, <2>6
    <3> QED BY <1>1, <2>1, <3>1
  <2>8. Aged
    BY <1>1, <2>1, <2>2, <2>3, <2>5, <2>6 DEF Aged, TokensAge, SessionsAge
  <2>9. Owned'
    BY <1>1, <2>1, <2>4, <2>5, <2>6 DEF SInv, Owned
  <2>10. \A g \in Handlers \ {h} : tx[g].child # 0 => token'[tx[g].child].sid = Nobody
    <3> SUFFICES ASSUME NEW g \in Handlers \ {h}, tx[g].child # 0
                 PROVE  token'[tx[g].child].sid = Nobody
      OBVIOUS
    <3>1. tx[g].child \in Tokens /\ token[tx[g].child].sid = Nobody /\ tx[g].child # c
      BY <2>3 DEF SInv, ChildIsNew, RowsTypeOK, Tokens
    <3>2. tx[g].child # p
      BY <3>1, <2>2
    <3> QED BY <2>5, <3>1, <3>2
  <2>11. RotationIsWhole'
    <3> SUFFICES ASSUME NEW t \in Tokens, token'[t].sid # Nobody
                 PROVE  /\ token'[t].from # 0 =>
                              /\ token'[token'[t].from].sid = token'[t].sid
                              /\ token'[token'[t].from].rotated # 0
                        /\ token'[t].rotated # 0 =>
                              /\ token'[token'[t].rotated].sid = token'[t].sid
                              /\ token'[token'[t].rotated].from = t
      BY DEF RotationIsWhole, Exists
    <3>1. CASE t = c
      BY <2>3, <2>4, <2>5, <2>6, <3>1
    <3>2. t # 0
      BY DEF Tokens
    <3>3. CASE t # c
      <4>1. /\ token[t] \in TokenRow /\ token'[t].sid = token[t].sid
            /\ token'[t].from = token[t].from
            /\ t # p => token'[t] = token[t]
        BY <1>1, <2>2, <2>5, <2>6, <3>3
      <4>2. /\ token[t].from # 0 =>
                  /\ token[token[t].from].sid = token[t].sid
                  /\ token[token[t].from].rotated # 0
            /\ token[t].rotated # 0 =>
                  /\ token[token[t].rotated].sid = token[t].sid
                  /\ token[token[t].rotated].from = t
        BY <3>2, <4>1 DEF SInv, RotationIsWhole, Exists
      <4>3. /\ token[t].from # 0 => token[t].from \in Tokens \ {c}
            /\ token[t].rotated # 0 => token[t].rotated \in Tokens \ {c}
        BY <2>3, <4>1, <4>2 DEF TokenRow, Tokens
      <4>4. /\ token[t].from # 0 =>
                  /\ token'[token[t].from].sid = token[t].sid
                  /\ token'[token[t].from].rotated # 0
        BY <2>2, <2>3, <2>5, <2>6, <4>2, <4>3
      <4>5. CASE t = p
        <5>1. token'[t].rotated = c /\ token'[t].sid = x.sid
          BY <2>6, <4>5
        <5>2. token'[c].sid = x.sid /\ token'[c].from = t
          BY <2>4, <2>5, <4>5
        <5> HIDE DEF c, p, x
        <5> QED BY <4>1, <4>4, <5>1, <5>2
      <4>6. CASE t # p
        <5>1. token'[t] = token[t]
          BY <4>1, <4>6
        <5>2. token[t].rotated # 0 =>
                 /\ token'[token[t].rotated].sid = token[t].sid
                 /\ token'[token[t].rotated].from = t
          BY <2>2, <2>5, <2>6, <4>2, <4>3
        <5> QED BY <4>4, <5>1, <5>2
      <4> QED BY <4>5, <4>6
    <3> QED BY <3>1, <3>3
  <2> QED BY <1>6, <2>7, <2>8, <2>9, <2>10, <2>11
<1> QED BY <1>7, <1>8

\* No step of a handler breaks the invariant of the sessions.
LEMMA NextSInv == SInv /\ [Next]_vars => SInv'
<1> SUFFICES ASSUME SInv, [Next]_vars PROVE SInv'
  OBVIOUS
<1>b. ASSUME UNCHANGED <<clock, session, token, rowLock, tx>> PROVE SInv'
  BY <1>b DEF SInv, RowsTypeOK, Owned, OnSession, ChildIsNew, RefreshHoldsNothing,
              SpentIsSeen, RotationIsWhole, Exists, Refreshing, Spent
<1>1. CASE UNCHANGED vars
  BY <1>b, <1>1 DEF vars
<1>2. ASSUME NEW h \in Handlers, Rollback(h) PROVE SInv'
  BY <1>2, RollbackStep DEF Rollback
<1>a. ASSUME NEW h \in Handlers, Block(h) \/ Advance(h) PROVE SInv'
  <2>1. UNCHANGED <<clock, session, token, rowLock, tx>>
    BY <1>a DEF Block, Advance
  <2> QED BY <1>b, <2>1
<1>3. ASSUME NEW h \in Handlers, Statement(h) \/ Abort(h) PROVE SInv'
  BY <1>a, <1>2, <1>3, LookupStep, CheckStep, RotateStep, RevocationStep, CommitStep
     DEF Statement, Abort, DeadlockVictim
<1> QED BY <1>1, <1>3, IssueStep, TickStep, PresentStep, LogoutStep DEF Next, Handlers

-----------------------------------------------------------------------------
\* No refresh that starts with a spent token or a dead session mints a token
\* (RefreshSession.__call__), whatever runs at the same time.
THEOREM SpentTokensStaySpent == Spec => []SpentTokensBuyNothing
<1>1. SInv => SpentTokensBuyNothing
  BY DEF SInv, SpentIsSeen, SpentTokensBuyNothing, Rotating
<1> QED BY <1>1, InitSInv, NextSInv, PTL DEF Spec

\* A new token and the mark on the one it replaces are never seen apart.
THEOREM RotationAlwaysWhole == Spec => []RotationIsWhole
<1>1. SInv => RotationIsWhole
  BY DEF SInv
<1> QED BY <1>1, InitSInv, NextSInv, PTL DEF Spec

-----------------------------------------------------------------------------
(* Locks and queues.                                                       *)

\* What a handler that waits waits for, and what it holds: rows of its session
\* only, the session row first if it is a logout.
LockSound(h) ==
    /\ waits[h] # Nobody => waits[h] \in Wants(h) /\ rowLock[waits[h]] # h
    /\ tx[h].pc = "revokeTokens" => \A t \in tx[h].want : token[t].sid = tx[h].sid
    /\ tx[h].op = "logout" /\ tx[h].pc \in {"listTokens", "revokeTokens", "commit"} =>
          rowLock[<<"session", tx[h].sid>>] = h
    /\ tx[h].op = "logout" /\ tx[h].pc = "revokeSession" => \A r \in RowKeys : rowLock[r] # h
    /\ \A s \in Sids : rowLock[<<"session", s>>] = h => s = tx[h].sid
    /\ \A t \in Tokens : rowLock[<<"token", t>>] = h => tx[h].sid \in Sids /\ token[t].sid = tx[h].sid

\* The first in the queue for a row waits for it.
QueueHeads == \A r \in RowKeys : tupleLock[r] # Nobody => waits[tupleLock[r]] = r

QueueInv ==
    /\ calls \in 0..MaxCalls /\ QueueTypeOK
    /\ \A h \in Handlers : LockSound(h)
    /\ QueueHeads

\* Nobody holds a row or waits.
LEMMA InitQueueInv == Init => QueueInv
<1> SUFFICES ASSUME Init PROVE QueueInv
  OBVIOUS
<1> USE SessionsAssumption
<1>1. calls \in 0..MaxCalls /\ QueueTypeOK /\ QueueHeads
  BY DEF Init, QueueTypeOK, QueueHeads
<1>2. ASSUME NEW h \in Handlers PROVE LockSound(h)
  <2>1. waits[h] = Nobody /\ tx[h].op = "refresh" /\ tx[h].pc = "idle"
    BY DEF Init, Idle
  <2>2. \A r \in RowKeys : rowLock[r] # h
    BY DEF Init
  <2>3. /\ \A s \in Sids : <<"session", s>> \in RowKeys
        /\ \A t \in Tokens : <<"token", t>> \in RowKeys
    BY DEF RowKeys
  <2> QED BY <2>1, <2>2, <2>3 DEF LockSound
<1> QED BY <1>1, <1>2 DEF QueueInv

\* The token of a session stays with it.
SidsKept == \A t \in Tokens : token[t].sid # Nobody => token'[t].sid = token[t].sid

\* An issue inserts a token, a commit inserts one and updates others.
LEMMA SidsStay ==
    ASSUME SInv, (\E s \in Sids : Issue(s)) \/ (\E h \in Handlers : Commit(h))
    PROVE  SidsKept
<1>1. token \in [Tokens -> TokenRow]
  BY DEF SInv, RowsTypeOK
<1>2. ASSUME NEW s \in Sids, Issue(s) PROVE SidsKept
  <2>1. FreshToken \in Tokens /\ token[FreshToken].sid = Nobody
    BY <1>2, FreshIsUnminted DEF Issue, SInv
  <2>2. \A t \in Tokens \ {FreshToken} : token'[t] = token[t]
    BY <1>1, <1>2, <2>1 DEF Issue
  <2> QED BY <2>1, <2>2 DEF SidsKept
<1>3. ASSUME NEW h \in Handlers, Commit(h) PROVE SidsKept
  <2> SUFFICES ASSUME NEW t \in Tokens, token[t].sid # Nobody PROVE token'[t].sid = token[t].sid
    BY DEF SidsKept
  <2>1. token[t] \in TokenRow
    BY <1>1
  <2>2. /\ [token[t] EXCEPT !.rotated = tx[h].child].sid = token[t].sid
        /\ [token[t] EXCEPT !.revoked = TRUE].sid = token[t].sid
    BY <2>1 DEF TokenRow
  <2>3. tx[h].op = "refresh" => t # tx[h].child
    <3>1. tx[h].op = "refresh" => tx[h].child # 0
      BY <1>3 DEF Commit, SInv, ChildIsNew, Rotating
    <3> QED BY <3>1 DEF SInv, ChildIsNew
  <2>4. \/ token'[t] = token[t]
        \/ token'[t] = [token[t] EXCEPT !.rotated = tx[h].child]
        \/ token'[t] = [token[t] EXCEPT !.revoked = TRUE]
    BY <1>3, <2>3 DEF Commit, Apply
  <2> QED BY <2>2, <2>4
<1> QED BY <1>2, <1>3

\* What the others do leaves the locks of a handler sound.
LEMMA OthersStayLocked ==
    ASSUME SInv, NEW h \in Handlers, LockSound(h), SidsKept, tx'[h] = tx[h], waits'[h] = waits[h],
           QueueTypeOK, \A r \in RowKeys : rowLock'[r] = h <=> rowLock[r] = h
    PROVE  LockSound(h)'
<1> USE SessionsAssumption
<1>1. /\ \A s \in Sids : <<"session", s>> \in RowKeys
      /\ \A t \in Tokens : <<"token", t>> \in RowKeys
  BY DEF RowKeys
<1>2. Wants(h)' = Wants(h)
  BY DEF Wants
<1>3. waits'[h] # Nobody => waits'[h] \in Wants(h)' /\ rowLock'[waits'[h]] # h
  <2>1. waits[h] # Nobody => waits[h] \in RowKeys /\ waits[h] \in Wants(h) /\ rowLock[waits[h]] # h
    BY DEF LockSound, QueueTypeOK
  <2> QED BY <1>2, <2>1
<1>4. tx[h].pc \notin {"idle", "lookup"} => tx[h].sid \in Sids
  BY DEF SInv, OnSession
<1>5. tx'[h].pc = "revokeTokens" => \A t \in tx'[h].want : token'[t].sid = tx'[h].sid
  <2>1. tx[h].want \in SUBSET Tokens
    BY DEF SInv, RowsTypeOK
  <2> QED BY <1>4, <2>1 DEF LockSound, SidsKept
<1>6. tx'[h].op = "logout" /\ tx'[h].pc \in {"listTokens", "revokeTokens", "commit"} =>
         rowLock'[<<"session", tx'[h].sid>>] = h
  BY <1>1, <1>4 DEF LockSound
<1>7. /\ tx'[h].op = "logout" /\ tx'[h].pc = "revokeSession" => \A r \in RowKeys : rowLock'[r] # h
      /\ \A s \in Sids : rowLock'[<<"session", s>>] = h => s = tx'[h].sid
  BY <1>1 DEF LockSound
<1>8. \A t \in Tokens : rowLock'[<<"token", t>>] = h => tx'[h].sid \in Sids /\ token'[t].sid = tx'[h].sid
  BY <1>1 DEF LockSound, SidsKept
<1> QED BY <1>3, <1>5, <1>6, <1>7, <1>8 DEF LockSound

\* The unit of the step lemmas below: a step of handler h.
LEMMA HandlerStep ==
    ASSUME SInv, QueueInv, NEW h \in Handlers, SidsKept, calls' \in 0..MaxCalls, QueueTypeOK',
           \A g \in Handlers \ {h} :
               /\ tx'[g] = tx[g] /\ waits'[g] = waits[g]
               /\ \A r \in RowKeys : rowLock'[r] = g <=> rowLock[r] = g,
           LockSound(h)', QueueHeads'
    PROVE  QueueInv'
<1>1. \A g \in Handlers : LockSound(g)'
  BY OthersStayLocked DEF QueueInv
<1> QED BY <1>1 DEF QueueInv

\* One that waits for no row and holds none has sound locks.
LEMMA NothingHeld ==
    ASSUME NEW h \in Handlers, waits'[h] = Nobody, \A r \in RowKeys : rowLock'[r] # h,
           tx'[h].pc # "revokeTokens",
           tx'[h].op = "logout" => tx'[h].pc \notin {"listTokens", "commit"}
    PROVE  LockSound(h)'
<1>1. /\ \A s \in Sids : <<"session", s>> \in RowKeys
      /\ \A t \in Tokens : <<"token", t>> \in RowKeys
  BY DEF RowKeys
<1> QED BY <1>1 DEF LockSound

\* The statements that write no row do not wait.
LEMMA DoesNotWait ==
    ASSUME QueueInv, NEW h \in Handlers, Wants(h) = {}
    PROVE  waits[h] = Nobody
BY DEF QueueInv, LockSound

\* A handler begins, reads, or commits.
LEMMA FreeStep ==
    ASSUME SInv, QueueInv, NEW h \in Handlers,
           \/ Lookup(h) \/ (Check(h) /\ tx'[h].pc = "rotate") \/ Commit(h)
           \/ \E t \in 0..MaxTokens : Present(h, t)
           \/ \E s \in Sids : Logout(h, s)
    PROVE  QueueInv'
<1> USE SessionsAssumption
<1>1. tx \in [Handlers -> TxType] /\ rowLock \in [RowKeys -> Handlers \cup {Nobody}]
  BY DEF SInv, RowsTypeOK, TxType
<1>2. tx[h].pc \in {"idle", "lookup", "check", "commit"}
  BY DEF Lookup, Check, Commit, Present, Logout
<1>3. waits[h] = Nobody
  BY <1>2, DoesNotWait DEF Wants
<1>4. UNCHANGED queue /\ (rowLock' = rowLock \/ rowLock' = Released(h))
  <2>1. CASE Lookup(h) BY <2>1 DEF Lookup
  <2>2. CASE Check(h) /\ tx'[h].pc = "rotate"
    <3>1. ~Rollback(h)
      BY <1>1, <2>2 DEF Rollback, Idle
    <3> QED BY <2>2, <3>1 DEF Check
  <2>3. CASE Commit(h) BY <2>3 DEF Commit, Apply
  <2>4. CASE \E t \in 0..MaxTokens : Present(h, t) BY <2>4 DEF Present
  <2>5. CASE \E s \in Sids : Logout(h, s) BY <2>5 DEF Logout
  <2> QED BY <2>1, <2>2, <2>3, <2>4, <2>5
<1>5. calls' = calls \/ Called
  BY DEF Lookup, Check, Rollback, Commit, Apply, Present, Logout
<1>6. calls' \in 0..MaxCalls
  BY <1>5 DEF QueueInv, Called
<1>7. tx[h].op = "refresh" \/ tx[h].pc = "commit"
  BY <1>2 DEF SInv, OnSession
<1>8. \A g \in Handlers \ {h} : tx'[g] = tx[g]
  <2>1. CASE Lookup(h) BY <1>1, <2>1 DEF Lookup
  <2>2. CASE Check(h) BY <1>1, <2>2 DEF Check, Rollback
  <2>3. CASE Commit(h) BY <1>1, <2>3 DEF Commit
  <2>4. CASE \E t \in 0..MaxTokens : Present(h, t) BY <1>1, <2>4 DEF Present
  <2>5. CASE \E s \in Sids : Logout(h, s) BY <1>1, <2>5 DEF Logout
  <2> QED BY <2>1, <2>2, <2>3, <2>4, <2>5
<1>9. /\ tx'[h].pc # "revokeTokens"
      /\ tx'[h].op = "logout" => tx'[h].pc \notin {"listTokens", "commit"}
  <2>1. CASE Lookup(h)
    <3>1. \/ tx'[h] = Idle
          \/ tx'[h].pc = "listTokens" /\ tx'[h].op = "reuse"
          \/ tx'[h].pc = "check"
      BY <1>1, <2>1 DEF Lookup, TxType
    <3> QED BY <3>1 DEF Idle
  <2>2. CASE Check(h) /\ tx'[h].pc = "rotate" BY <2>2
  <2>3. CASE Commit(h) BY <1>1, <2>3 DEF Commit, Idle
  <2>4. CASE \E t \in 0..MaxTokens : Present(h, t) BY <1>1, <2>4 DEF Present, Idle
  <2>5. CASE \E s \in Sids : Logout(h, s)
    <3>1. PICK s \in Sids : Logout(h, s)
      BY <2>5
    <3>2. tx'[h] = [Idle EXCEPT !.op = "logout", !.pc = "revokeSession", !.sid = s]
      BY <1>1, <3>1 DEF Logout
    <3>3. tx'[h].pc = "revokeSession"
      BY <3>2 DEF Idle
    <3> QED BY <3>3
  <2> QED BY <2>1, <2>2, <2>3, <2>4, <2>5
<1>10. \A r \in RowKeys : rowLock'[r] # h
  <2>1. CASE rowLock' = Released(h)
    BY <2>1 DEF Released
  <2>2. CASE rowLock' = rowLock /\ ~Commit(h)
    <3>1. tx[h].pc # "commit"
      BY <2>2 DEF Lookup, Check, Present, Logout
    <3> QED BY <1>7, <2>2, <3>1 DEF SInv, RefreshHoldsNothing
  <2>3. CASE Commit(h)
    BY <2>3 DEF Commit, Apply, Released
  <2> QED BY <1>4, <2>1, <2>2, <2>3
<1>11. \A g \in Handlers \ {h}, r \in RowKeys : rowLock'[r] = g <=> rowLock[r] = g
  BY <1>1, <1>4 DEF Released
<1>12. SidsKept
  <2>1. CASE Commit(h) BY <2>1, SidsStay
  <2>2. CASE ~Commit(h)
    <3>1. UNCHANGED token
      BY <2>2 DEF Lookup, Check, Rollback, Present, Logout
    <3> QED BY <3>1 DEF SidsKept
  <2> QED BY <2>1, <2>2
<1>13. /\ waits'[h] = Nobody /\ \A g \in Handlers \ {h} : waits'[g] = waits[g]
       /\ QueueTypeOK' /\ QueueHeads'
  BY <1>3, <1>4 DEF queue, QueueInv, QueueTypeOK, QueueHeads
<1>14. LockSound(h)'
  BY <1>9, <1>10, <1>13, NothingHeld
<1> QED BY <1>6, <1>8, <1>11, <1>12, <1>13, <1>14, HandlerStep

\* An operation that is rolled back leaves its rows and its place.
LEMMA RollbackQueue ==
    ASSUME SInv, QueueInv, NEW h \in Handlers, Rollback(h)
    PROVE  QueueInv'
<1> USE SessionsAssumption
<1>1. /\ tx \in [Handlers -> TxType] /\ rowLock \in [RowKeys -> Handlers \cup {Nobody}]
      /\ QueueTypeOK
  BY DEF SInv, RowsTypeOK, TxType, QueueInv
<1>2. /\ waits' = [waits EXCEPT ![h] = Nobody]
      /\ tupleLock' = [r \in RowKeys |-> IF tupleLock[r] = h THEN Nobody ELSE tupleLock[r]]
      /\ tx' = [tx EXCEPT ![h] = Idle] /\ rowLock' = Released(h)
      /\ calls' = calls /\ token' = token
  BY DEF Rollback, Withdraw
<1>3. QueueTypeOK' /\ calls' \in 0..MaxCalls /\ SidsKept
  BY <1>1, <1>2 DEF QueueTypeOK, QueueInv, SidsKept
<1>4. \A g \in Handlers \ {h} :
         /\ tx'[g] = tx[g] /\ waits'[g] = waits[g]
         /\ \A r \in RowKeys : rowLock'[r] = g <=> rowLock[r] = g
  BY <1>1, <1>2 DEF Released, QueueTypeOK
<1>5. QueueHeads'
  <2> SUFFICES ASSUME NEW r \in RowKeys, tupleLock'[r] # Nobody PROVE waits'[tupleLock'[r]] = r
    BY DEF QueueHeads
  <2>1. tupleLock'[r] = tupleLock[r] /\ tupleLock[r] # h /\ tupleLock[r] \in Handlers
    BY <1>1, <1>2 DEF QueueTypeOK
  <2> QED BY <1>4, <2>1 DEF QueueInv, QueueHeads
<1>6. LockSound(h)'
  <2>1. waits'[h] = Nobody /\ tx'[h] = Idle /\ \A r \in RowKeys : rowLock'[r] # h
    BY <1>1, <1>2 DEF Released, QueueTypeOK
  <2> QED BY <2>1, NothingHeld DEF Idle
<1> QED BY <1>3, <1>4, <1>5, <1>6, HandlerStep

\* What a handler that writes a row does to the locks and the queue.
LEMMA ObtainQueue ==
    ASSUME SInv, QueueInv, NEW h \in Handlers, NEW r \in RowKeys, Obtain(r, h)
    PROVE  /\ QueueTypeOK' /\ QueueHeads'
           /\ waits'[h] = Nobody /\ rowLock'[r] = h
           /\ \A q \in RowKeys \ {r} : rowLock'[q] = rowLock[q]
           /\ \A g \in Handlers \ {h} :
                 /\ waits'[g] = waits[g]
                 /\ \A q \in RowKeys : rowLock'[q] = g <=> rowLock[q] = g
<1> USE SessionsAssumption
<1>1. rowLock \in [RowKeys -> Handlers \cup {Nobody}] /\ QueueTypeOK
  BY DEF SInv, RowsTypeOK, QueueInv
<1>2. /\ rowLock[r] \in {Nobody, h}
      /\ rowLock' = [rowLock EXCEPT ![r] = h]
      /\ waits' = [waits EXCEPT ![h] = Nobody]
      /\ tupleLock' = [tupleLock EXCEPT ![r] = IF tupleLock[r] = h THEN Nobody ELSE tupleLock[r]]
      /\ waits[h] = Nobody \/ waits[h] = r
  BY DEF Obtain, Free
<1>3. QueueTypeOK' /\ waits'[h] = Nobody /\ \A g \in Handlers \ {h} : waits'[g] = waits[g]
  BY <1>1, <1>2 DEF QueueTypeOK
<1>4. /\ rowLock'[r] = h /\ \A q \in RowKeys \ {r} : rowLock'[q] = rowLock[q]
      /\ \A g \in Handlers \ {h}, q \in RowKeys : rowLock'[q] = g <=> rowLock[q] = g
  BY <1>1, <1>2
<1>5. QueueHeads'
  <2> SUFFICES ASSUME NEW q \in RowKeys, tupleLock'[q] # Nobody PROVE waits'[tupleLock'[q]] = q
    BY DEF QueueHeads
  <2>1. tupleLock'[q] = tupleLock[q] /\ (q = r => tupleLock[q] # h)
    BY <1>1, <1>2 DEF QueueTypeOK
  <2>2. waits[tupleLock[q]] = q /\ tupleLock[q] \in Handlers
    BY <1>1, <2>1 DEF QueueInv, QueueHeads, QueueTypeOK
  <2>3. tupleLock[q] # h
    BY <1>2, <2>1, <2>2
  <2> QED BY <1>3, <2>1, <2>2, <2>3
<1> QED BY <1>3, <1>4, <1>5

\* revoke_session_tokens begins.
LEMMA ListQueue ==
    ASSUME SInv, QueueInv, NEW h \in Handlers, ListTokens(h)
    PROVE  QueueInv'
<1> USE SessionsAssumption
<1> DEFINE mine == {t \in Tokens : token[t].sid = tx[h].sid}
<1>1. tx \in [Handlers -> TxType] /\ LockSound(h) /\ QueueTypeOK
  BY DEF SInv, RowsTypeOK, TxType, QueueInv
<1>2. /\ tx[h].pc = "listTokens"
      /\ tx' = [tx EXCEPT ![h].pc = "revokeTokens", ![h].want = mine, ![h].listed = mine]
      /\ UNCHANGED <<calls, token, rowLock, waits, tupleLock>>
  BY DEF ListTokens, queue
<1>3. /\ tx'[h].pc = "revokeTokens" /\ tx'[h].want = mine
      /\ tx'[h].op = tx[h].op /\ tx'[h].sid = tx[h].sid
      /\ \A g \in Handlers \ {h} : tx'[g] = tx[g]
  BY <1>1, <1>2 DEF TxType
<1>4. waits[h] = Nobody
  BY <1>2, DoesNotWait DEF Wants
<1>5. LockSound(h)'
  BY <1>1, <1>2, <1>3, <1>4 DEF LockSound
<1>6. SidsKept /\ QueueTypeOK' /\ QueueHeads' /\ calls' \in 0..MaxCalls
  BY <1>2 DEF SidsKept, QueueInv, QueueTypeOK, QueueHeads
<1> QED BY <1>2, <1>3, <1>5, <1>6, HandlerStep

\* A statement that writes a token row of the session of its operation.
LEMMA WriteToken ==
    ASSUME SInv, QueueInv, NEW h \in Handlers, NEW t \in Tokens, Obtain(<<"token", t>>, h),
           UNCHANGED <<calls, token>>, \A g \in Handlers \ {h} : tx'[g] = tx[g],
           tx'[h].op = tx[h].op, tx'[h].sid = tx[h].sid, tx[h].sid \in Sids,
           token[t].sid = tx[h].sid,
           \/ tx[h].pc = "revokeTokens" /\ tx'[h].pc = "revokeTokens" /\ tx'[h].want \subseteq tx[h].want
           \/ tx'[h].pc = "commit" /\ tx[h].op # "logout"
    PROVE  QueueInv'
<1> USE SessionsAssumption
<1> DEFINE r == <<"token", t>>
<1>1. /\ \A u \in Tokens : <<"token", u>> \in RowKeys /\ (<<"token", u>> = r <=> u = t)
      /\ \A s \in Sids : <<"session", s>> \in RowKeys \ {r}
  BY DEF RowKeys
<1>2. r \in RowKeys /\ Obtain(r, h)
  BY <1>1
<1> HIDE DEF r
<1>3. /\ QueueTypeOK' /\ QueueHeads'
      /\ waits'[h] = Nobody /\ rowLock'[r] = h
      /\ \A q \in RowKeys \ {r} : rowLock'[q] = rowLock[q]
      /\ \A g \in Handlers \ {h} :
            /\ waits'[g] = waits[g]
            /\ \A q \in RowKeys : rowLock'[q] = g <=> rowLock[q] = g
  BY <1>2, ObtainQueue
<1>4. LockSound(h)
  BY DEF QueueInv
<1>5. \A s \in Sids : rowLock'[<<"session", s>>] = rowLock[<<"session", s>>]
  BY <1>1, <1>3
<1>6. \A u \in Tokens : rowLock'[<<"token", u>>] = h => tx[h].sid \in Sids /\ token[u].sid = tx[h].sid
  <2> SUFFICES ASSUME NEW u \in Tokens, rowLock'[<<"token", u>>] = h
               PROVE  tx[h].sid \in Sids /\ token[u].sid = tx[h].sid
    OBVIOUS
  <2>1. CASE u = t
    BY <2>1
  <2>2. CASE u # t
    <3>1. <<"token", u>> \in RowKeys \ {r}
      BY <1>1, <2>2
    <3> QED BY <1>3, <1>4, <3>1 DEF LockSound
  <2> QED BY <2>1, <2>2
<1>7. tx'[h].pc = "revokeTokens" => \A u \in tx'[h].want : token'[u].sid = tx'[h].sid
  BY <1>4 DEF LockSound
<1>8. /\ tx'[h].op = "logout" /\ tx'[h].pc \in {"listTokens", "revokeTokens", "commit"} =>
            rowLock'[<<"session", tx'[h].sid>>] = h
      /\ tx'[h].pc # "revokeSession"
  BY <1>4, <1>5 DEF LockSound
<1>9. \A s \in Sids : rowLock'[<<"session", s>>] = h => s = tx'[h].sid
  BY <1>4, <1>5 DEF LockSound
<1>10. LockSound(h)'
  BY <1>3, <1>6, <1>7, <1>8, <1>9 DEF LockSound
<1>11. SidsKept /\ calls' \in 0..MaxCalls
  BY DEF SidsKept, QueueInv
<1> QED BY <1>3, <1>10, <1>11, HandlerStep

\* revoke_session_tokens writes a row, or has written all.
LEMMA RevokeQueue ==
    ASSUME SInv, QueueInv, NEW h \in Handlers, RevokeTokens(h)
    PROVE  QueueInv'
<1> USE SessionsAssumption
<1>1. tx \in [Handlers -> TxType] /\ LockSound(h) /\ QueueTypeOK /\ tx[h] \in TxType
  BY DEF SInv, RowsTypeOK, TxType, QueueInv
<1>2. tx[h].pc = "revokeTokens" /\ UNCHANGED <<calls, token>>
  BY DEF RevokeTokens
<1>3. tx[h].sid \in Sids /\ tx[h].op # "refresh"
  BY <1>2 DEF SInv, OnSession
<1>4. ASSUME NEW t \in tx[h].want, Obtain(<<"token", t>>, h),
             tx' = [tx EXCEPT ![h].want = @ \ {t}]
      PROVE  QueueInv'
  <2>1. /\ tx'[h].op = tx[h].op /\ tx'[h].sid = tx[h].sid /\ tx'[h].pc = "revokeTokens"
        /\ tx'[h].want \subseteq tx[h].want /\ \A g \in Handlers \ {h} : tx'[g] = tx[g]
    BY <1>1, <1>2, <1>4 DEF TxType
  <2>2. t \in Tokens /\ token[t].sid = tx[h].sid
    BY <1>1, <1>2 DEF TxType, LockSound
  <2> QED BY <1>2, <1>3, <1>4, <2>1, <2>2, WriteToken
<1>5. ASSUME tx[h].want = {}, UNCHANGED <<rowLock, waits, tupleLock>>,
             tx' = [tx EXCEPT ![h].pc = IF tx[h].op = "logout" THEN "commit" ELSE "revokeSession"]
      PROVE  QueueInv'
  <2>1. /\ tx'[h].op = tx[h].op /\ tx'[h].sid = tx[h].sid
        /\ tx'[h].pc = IF tx[h].op = "logout" THEN "commit" ELSE "revokeSession"
        /\ \A g \in Handlers \ {h} : tx'[g] = tx[g]
    BY <1>1, <1>5 DEF TxType
  <2>2. Wants(h) = {}
    BY <1>2, <1>5 DEF Wants
  <2>3. waits[h] = Nobody
    BY <2>2, DoesNotWait
  <2>4. LockSound(h)'
    BY <1>1, <1>2, <1>5, <2>1, <2>3 DEF LockSound
  <2>5. SidsKept /\ QueueTypeOK' /\ QueueHeads' /\ calls' \in 0..MaxCalls
    BY <1>2, <1>5 DEF SidsKept, QueueInv, QueueTypeOK, QueueHeads
  <2> QED BY <1>5, <2>1, <2>4, <2>5, HandlerStep
<1> QED BY <1>4, <1>5 DEF RevokeTokens, queue

\* sessions.revoke writes its row.
LEMMA RevokeSessionQueue ==
    ASSUME SInv, QueueInv, NEW h \in Handlers, RevokeSession(h)
    PROVE  QueueInv'
<1> USE SessionsAssumption
<1> DEFINE r == <<"session", tx[h].sid>>
<1>1. tx \in [Handlers -> TxType] /\ LockSound(h) /\ QueueTypeOK /\ tx[h] \in TxType
  BY DEF SInv, RowsTypeOK, TxType, QueueInv
<1>2. tx[h].pc = "revokeSession" /\ UNCHANGED <<calls, token>>
  BY DEF RevokeSession
<1>3. tx[h].sid \in Sids
  BY <1>2 DEF SInv, OnSession
<1>4. /\ \A t \in Tokens : <<"token", t>> \in RowKeys \ {r}
      /\ \A s \in Sids : <<"session", s>> \in RowKeys /\ (<<"session", s>> = r <=> s = tx[h].sid)
  BY DEF RowKeys
<1>5. r \in RowKeys /\ Obtain(r, h)
  BY <1>3, <1>4 DEF RevokeSession
<1>6. /\ tx'[h].op = tx[h].op /\ tx'[h].sid = tx[h].sid
      /\ tx'[h].pc = IF tx[h].op = "logout" THEN "listTokens" ELSE "commit"
      /\ \A g \in Handlers \ {h} : tx'[g] = tx[g]
  BY <1>1 DEF RevokeSession, TxType
<1> HIDE DEF r
<1>7. /\ QueueTypeOK' /\ QueueHeads'
      /\ waits'[h] = Nobody /\ rowLock'[r] = h
      /\ \A q \in RowKeys \ {r} : rowLock'[q] = rowLock[q]
      /\ \A g \in Handlers \ {h} :
            /\ waits'[g] = waits[g]
            /\ \A q \in RowKeys : rowLock'[q] = g <=> rowLock[q] = g
  BY <1>5, ObtainQueue
<1>8. \A t \in Tokens : rowLock'[<<"token", t>>] = rowLock[<<"token", t>>]
  BY <1>4, <1>7
<1>9. rowLock'[<<"session", tx'[h].sid>>] = h
  BY <1>6, <1>7 DEF r
<1>10. \A s \in Sids : rowLock'[<<"session", s>>] = h => s = tx'[h].sid
  <2> SUFFICES ASSUME NEW s \in Sids, rowLock'[<<"session", s>>] = h, s # tx[h].sid PROVE FALSE
    BY <1>6
  <2>1. <<"session", s>> \in RowKeys \ {r}
    BY <1>4
  <2> QED BY <1>1, <1>7, <2>1 DEF LockSound
<1>11. \A t \in Tokens : rowLock'[<<"token", t>>] = h => tx'[h].sid \in Sids /\ token'[t].sid = tx'[h].sid
  BY <1>1, <1>2, <1>6, <1>8 DEF LockSound
<1>12. LockSound(h)'
  BY <1>6, <1>7, <1>9, <1>10, <1>11 DEF LockSound
<1>13. SidsKept /\ calls' \in 0..MaxCalls
  BY <1>2 DEF SidsKept, QueueInv
<1> QED BY <1>6, <1>7, <1>12, <1>13, HandlerStep

\* mark_rotated writes the row of its token.
LEMMA RotateQueue ==
    ASSUME SInv, QueueInv, NEW h \in Handlers, Rotate(h)
    PROVE  QueueInv'
<1>1. tx \in [Handlers -> TxType] /\ tx[h] \in TxType
  BY DEF SInv, RowsTypeOK, TxType
<1>2. tx[h].op = "refresh" /\ tx[h].sid \in Sids
  BY DEF Rotate, SInv, OnSession
<1>3. tx[h].t \in Tokens /\ token[tx[h].t].sid = tx[h].sid
  BY <1>1, <1>2 DEF Rotate, SInv, OnSession, Refreshing, TxType, Tokens
<1>4. /\ tx'[h].op = tx[h].op /\ tx'[h].sid = tx[h].sid /\ tx'[h].pc = "commit"
      /\ \A g \in Handlers \ {h} : tx'[g] = tx[g]
  BY <1>1 DEF Rotate, TxType
<1>5. Obtain(<<"token", tx[h].t>>, h) /\ UNCHANGED <<calls, token>>
  BY DEF Rotate
<1> QED BY <1>2, <1>3, <1>4, <1>5, WriteToken

\* A handler joins the queue of a row, or comes to its head.
LEMMA WaitStep ==
    ASSUME SInv, QueueInv, NEW h \in Handlers, Block(h) \/ Advance(h)
    PROVE  QueueInv'
<1> USE SessionsAssumption
<1>1. LockSound(h) /\ QueueTypeOK /\ QueueHeads /\ calls \in 0..MaxCalls
  BY DEF QueueInv
<1>2. UNCHANGED <<calls, token, rowLock, tx>> /\ Wants(h)' = Wants(h)
  BY DEF Block, Advance, Wants
<1>3. SidsKept /\ calls' \in 0..MaxCalls
  BY <1>1, <1>2 DEF SidsKept
<1>4. Wants(h) \subseteq RowKeys
  <2>1. tx[h] \in TxType
    BY DEF SInv, RowsTypeOK, TxType
  <2>2. CASE tx[h].pc = "rotate"
    <3>1. tx[h].t \in Tokens
      BY <2>1, <2>2 DEF SInv, OnSession, Refreshing, TxType, Tokens
    <3> QED BY <2>2, <3>1 DEF Wants, RowKeys
  <2>3. CASE tx[h].pc = "revokeTokens"
    BY <2>1, <2>3 DEF Wants, RowKeys, TxType
  <2>4. CASE tx[h].pc = "revokeSession"
    <3>1. tx[h].sid \in Sids
      BY <2>4 DEF SInv, OnSession
    <3> QED BY <2>4, <3>1 DEF Wants, RowKeys
  <2>5. CASE tx[h].pc \notin {"rotate", "revokeTokens", "revokeSession"}
    BY <2>5 DEF Wants
  <2> QED BY <2>2, <2>3, <2>4, <2>5
<1>5. CASE Block(h)
  <2>1. PICK r \in Wants(h) :
           /\ ~Free(r, h)
           /\ waits' = [waits EXCEPT ![h] = r]
           /\ tupleLock' = [tupleLock EXCEPT ![r] = IF tupleLock[r] = Nobody THEN h ELSE tupleLock[r]]
    BY <1>5 DEF Block
  <2>2. waits[h] = Nobody /\ r \in RowKeys /\ rowLock[r] # h
    BY <1>4, <1>5, <2>1 DEF Block, Free
  <2>3. QueueTypeOK' /\ waits'[h] = r /\ \A g \in Handlers \ {h} : waits'[g] = waits[g]
    BY <1>1, <2>1, <2>2 DEF QueueTypeOK
  <2>4. QueueHeads'
    <3> SUFFICES ASSUME NEW q \in RowKeys, tupleLock'[q] # Nobody PROVE waits'[tupleLock'[q]] = q
      BY DEF QueueHeads
    <3>1. CASE tupleLock'[q] = tupleLock[q]
      <4>1. waits[tupleLock[q]] = q /\ tupleLock[q] \in Handlers
        BY <1>1, <3>1 DEF QueueHeads, QueueTypeOK
      <4>2. tupleLock[q] # h
        BY <2>2, <4>1
      <4> QED BY <2>3, <3>1, <4>1, <4>2
    <3>2. CASE q = r /\ tupleLock'[q] = h
      BY <2>3, <3>2
    <3> QED BY <1>1, <2>1, <2>2, <3>1, <3>2 DEF QueueTypeOK
  <2>5. LockSound(h)'
    BY <1>1, <1>2, <2>1, <2>2, <2>3 DEF LockSound
  <2> QED BY <1>2, <1>3, <2>3, <2>4, <2>5, HandlerStep
<1>6. CASE Advance(h)
  <2>1. /\ waits[h] \in RowKeys /\ waits' = waits
        /\ tupleLock' = [tupleLock EXCEPT ![waits[h]] = h]
    BY <1>1, <1>6 DEF Advance, QueueTypeOK
  <2>2. QueueTypeOK' /\ QueueHeads'
    BY <1>1, <2>1 DEF QueueTypeOK, QueueHeads
  <2>3. LockSound(h)'
    BY <1>1, <1>2, <2>1 DEF LockSound
  <2> QED BY <1>2, <1>3, <2>1, <2>2, <2>3, HandlerStep
<1> QED BY <1>5, <1>6

\* No step breaks the order of locks and queues.
LEMMA NextQueueInv == SInv /\ QueueInv /\ [Next]_vars => QueueInv'
<1> SUFFICES ASSUME SInv, QueueInv, [Next]_vars PROVE QueueInv'
  OBVIOUS
<1>1. ASSUME SidsKept, UNCHANGED <<calls, rowLock, queue, tx>> PROVE QueueInv'
  <2>1. QueueTypeOK /\ \A h \in Handlers : LockSound(h)
    BY DEF QueueInv
  <2>2. waits' = waits /\ tupleLock' = tupleLock
    BY <1>1 DEF queue
  <2>3. \A h \in Handlers : LockSound(h)'
    BY <1>1, <2>1, <2>2, OthersStayLocked
  <2> QED BY <1>1, <2>2, <2>3 DEF QueueInv, QueueTypeOK, QueueHeads
<1>2. CASE UNCHANGED vars
  BY <1>1, <1>2 DEF vars, SidsKept
<1>3. CASE Tick
  BY <1>1, <1>3 DEF Tick, SidsKept
<1>4. ASSUME NEW s \in Sids, Issue(s) PROVE QueueInv'
  BY <1>1, <1>4, SidsStay DEF Issue
<1>5. ASSUME NEW h \in Handlers, Check(h) PROVE QueueInv'
  <2>1. CASE Rollback(h)
    BY <2>1, RollbackQueue
  <2>2. CASE ~Rollback(h)
    <3>1. tx'[h].pc = "rotate"
      BY <1>5, <2>2 DEF Check, SInv, RowsTypeOK
    <3> QED BY <1>5, <3>1, FreeStep
  <2> QED BY <2>1, <2>2
<1>6. ASSUME NEW h \in Handlers, Statement(h) \/ Abort(h) PROVE QueueInv'
  BY <1>5, <1>6, FreeStep, RollbackQueue, ListQueue, RevokeQueue, RevokeSessionQueue,
     RotateQueue, WaitStep DEF Statement, Abort, DeadlockVictim
<1>7. ASSUME NEW h \in Callers, NEW t \in 0..MaxTokens, Present(h, t) PROVE QueueInv'
  BY <1>7, FreeStep DEF Handlers
<1>8. ASSUME NEW h \in Leavers, NEW s \in Sids, Logout(h, s) PROVE QueueInv'
  BY <1>8, FreeStep DEF Handlers
<1> QED BY <1>2, <1>3, <1>4, <1>6, <1>7, <1>8 DEF Next

\* The state always has its type, the locks and their queues included.
THEOREM SessionsTypeCorrect == Spec => []SessionsTypeOK
<1>1. SInv /\ QueueInv => SessionsTypeOK
  BY DEF SInv, QueueInv, SessionsTypeOK
<1> QED BY <1>1, InitSInv, InitQueueInv, NextSInv, NextQueueInv, PTL DEF Spec

-----------------------------------------------------------------------------
\* In a deadlock the writer of the row that x waits for is another of its
\* members, directly or behind the first in the queue.  It waits as well, so
\* it is a revocation, and one of the same session.
LEMMA WriterIsRevocation ==
    ASSUME SInv, QueueInv, NEW C \in SUBSET Handlers, Deadlocked(C), NEW x \in C
    PROVE  \E o \in C : /\ o # x /\ tx[o].op # "refresh" /\ tx[o].sid = tx[x].sid
                        /\ tx[o].op = "logout" => rowLock[<<"session", tx[o].sid>>] = o
<1> USE SessionsAssumption
<1> DEFINE r == waits[x]
           o == rowLock[r]
<1>1. QueueTypeOK /\ QueueHeads /\ \A h \in Handlers : LockSound(h)
  BY DEF QueueInv
<1>2. \A h \in C : h \in Handlers /\ h # Nobody /\ waits[h] # Nobody /\ \E g \in C : WaitsFor(h, g)
  BY DEF Deadlocked, WaitsFor
<1>3. r \in RowKeys /\ r \in Wants(x) /\ o # x
  <2>1. x \in Handlers /\ waits[x] # Nobody /\ LockSound(x)
    BY <1>1, <1>2
  <2>2. waits[x] \in Wants(x) /\ rowLock[waits[x]] # x
    BY <2>1 DEF LockSound
  <2>3. waits[x] \in RowKeys
    BY <1>1, <2>1 DEF QueueTypeOK
  <2> QED BY <2>2, <2>3
<1>4. o \in C
  <2>1. PICK g \in C : WaitsFor(x, g)
    BY <1>2
  <2>2. CASE tupleLock[r] = x
    BY <2>1, <2>2 DEF WaitsFor
  <2>3. CASE tupleLock[r] # x
    <3>1. g = tupleLock[r] /\ g # Nobody
      BY <1>2, <2>1, <2>3 DEF WaitsFor
    <3>2. waits[g] = r
      BY <1>1, <1>3, <3>1 DEF QueueHeads
    <3>3. PICK f \in C : WaitsFor(g, f)
      BY <1>2
    <3> QED BY <3>1, <3>2, <3>3 DEF WaitsFor
  <2> QED BY <2>2, <2>3
<1>5. o \in Handlers /\ LockSound(o) /\ LockSound(x) /\ x \in Handlers
  BY <1>1, <1>2, <1>4
<1>6. tx[o].pc \in {"rotate", "revokeTokens", "revokeSession"}
  <2>1. Wants(o) # {}
    BY <1>2, <1>4, <1>5 DEF LockSound
  <2> QED BY <2>1 DEF Wants
<1>7. tx[o].op # "refresh"
  <2>1. \E q \in RowKeys : rowLock[q] = o
    BY <1>3
  <2> HIDE DEF o
  <2> QED BY <1>5, <1>6, <2>1 DEF SInv, RefreshHoldsNothing
<1>8. tx[o].op = "logout" => tx[o].pc = "revokeTokens"
  BY <1>3, <1>5, <1>6, <1>7 DEF LockSound, SInv, OnSession
<1>9. tx[o].op = "logout" => rowLock[<<"session", tx[o].sid>>] = o
  BY <1>5, <1>8 DEF LockSound
<1>10. tx[o].sid = tx[x].sid
  <2>1. tx[x] \in TxType
    BY <1>5 DEF SInv, RowsTypeOK, TxType
  <2>2. ASSUME NEW t \in Tokens, r = <<"token", t>>, token[t].sid = tx[x].sid
        PROVE  tx[o].sid = tx[x].sid
    <3>1. rowLock[<<"token", t>>] = o
      BY <2>2
    <3> HIDE DEF o
    <3> QED BY <1>5, <2>2, <3>1 DEF LockSound
  <2>3. CASE tx[x].pc = "rotate"
    <3>1. r = <<"token", tx[x].t>>
      BY <1>3, <2>3 DEF Wants
    <3>2. tx[x].t \in Tokens /\ token[tx[x].t].sid = tx[x].sid
      BY <1>5, <2>1, <2>3 DEF SInv, OnSession, Refreshing, TxType, Tokens
    <3> QED BY <2>2, <3>1, <3>2
  <2>4. CASE tx[x].pc = "revokeTokens"
    <3>1. PICK t \in tx[x].want : r = <<"token", t>>
      BY <1>3, <2>4 DEF Wants
    <3>2. t \in Tokens /\ token[t].sid = tx[x].sid
      BY <1>5, <2>1, <2>4, <3>1 DEF LockSound, TxType
    <3> QED BY <2>2, <3>1, <3>2
  <2>5. CASE tx[x].pc = "revokeSession"
    <3>1. r = <<"session", tx[x].sid>>
      BY <1>3, <2>5 DEF Wants
    <3>2. tx[x].sid \in Sids
      BY <1>5, <2>5 DEF SInv, OnSession
    <3>3. rowLock[<<"session", tx[x].sid>>] = o
      BY <3>1
    <3> HIDE DEF o
    <3> QED BY <1>5, <3>2, <3>3 DEF LockSound
  <2> QED BY <1>3, <2>3, <2>4, <2>5 DEF Wants
<1> HIDE DEF o
<1> QED BY <1>3, <1>4, <1>7, <1>9, <1>10

\* Every deadlock, of any number of handlers, has in it two revocations of the
\* session that each of its members works on, and not two logouts: these take
\* the session row first.  A refresh is in it at most as a bystander.
THEOREM DeadlocksNeedRevocations == Spec => []DeadlocksAreRevocations
<1>1. SInv /\ QueueInv => DeadlocksAreRevocations
  <2> SUFFICES ASSUME SInv, QueueInv, NEW C \in SUBSET Handlers, Deadlocked(C), NEW k \in C
               PROVE  \E h, g \in C :
                         /\ h # g /\ tx[h].op = "reuse" /\ tx[g].op # "refresh"
                         /\ tx[h].sid = tx[k].sid /\ tx[g].sid = tx[k].sid
    BY DEF DeadlocksAreRevocations
  <2>1. PICK h \in C : /\ tx[h].op # "refresh" /\ tx[h].sid = tx[k].sid
                       /\ tx[h].op = "logout" => rowLock[<<"session", tx[h].sid>>] = h
    BY WriterIsRevocation
  <2>2. PICK g \in C : /\ g # h /\ tx[g].op # "refresh" /\ tx[g].sid = tx[h].sid
                       /\ tx[g].op = "logout" => rowLock[<<"session", tx[g].sid>>] = g
    BY WriterIsRevocation
  <2>3. tx[h].op \in Ops /\ tx[g].op \in Ops
    BY DEF SInv, RowsTypeOK
  <2>4. tx[h].op = "reuse" \/ tx[g].op = "reuse"
    BY <2>1, <2>2, <2>3 DEF Ops
  <2> QED BY <2>1, <2>2, <2>4
<1> QED BY <1>1, InitSInv, InitQueueInv, NextSInv, NextQueueInv, PTL DEF Spec

=============================================================================
