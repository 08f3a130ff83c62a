-------------------------- MODULE AuditChainProofs --------------------------
(***************************************************************************)
(* The audit chain of any number of writers and organizations, whatever    *)
(* the collisions of their lock keys: it never forks, and it implements    *)
(* the abstract log.                                                       *)
(***************************************************************************)
EXTENDS AuditChain, SequenceTheorems, TLAPS

Writers == {"writing", "committing"}

\* The transaction of a writer holds its organization's lock, ...
LockHeld ==
    \A c \in Calls : pc[c] \in {"locking"} \cup InTransaction =>
        /\ org[c] \in Orgs
        /\ pc[c] \in InTransaction => lock[LockKey[org[c]]] = c

\* ... so that the head it has read is still the head, ...
HeadIsFresh ==
    \A c \in Calls : pc[c] \in Writers => prev[c] = head[org[c]]

\* ... and an event is in a chain only after its call's commit.
NotYetRecorded ==
    \A c \in Calls : pc[c] \notin {"done", "gone"} => ~Log!Recorded(c)

ChainInv ==
    /\ AuditTypeOK
    /\ LockHeld
    /\ HeadIsFresh
    /\ NotYetRecorded
    /\ ChainIntact

-----------------------------------------------------------------------------
\* The links a chain h of organization o stands for.
PathOf(o, h) == {[call |-> h[i], org |-> o, prev |-> SubSeq(h, 1, i - 1),
                  entry |-> SubSeq(h, 1, i)] : i \in DOMAIN h}

\* Appending an event adds one link to the path and changes no other.
LEMMA PathGrows ==
    ASSUME NEW S, NEW h \in Seq(S), NEW c \in S, NEW o
    PROVE  PathOf(o, Append(h, c)) =
             PathOf(o, h) \cup {[call |-> c, org |-> o, prev |-> h, entry |-> Append(h, c)]}
<1> DEFINE g == Append(h, c)
<1>1. /\ g \in Seq(S) /\ Len(h) \in Nat /\ Len(g) = Len(h) + 1
      /\ DOMAIN h = 1..Len(h) /\ DOMAIN g = 1..(Len(h) + 1)
      /\ \A i \in 1..Len(h) : g[i] = h[i]
      /\ g[Len(h) + 1] = c
  OBVIOUS
<1>2. SubSeq(g, 1, Len(h)) = h
  BY <1>1
<1>3. SubSeq(g, 1, Len(h) + 1) = g
  BY <1>1
<1>4. ASSUME NEW i \in 1..Len(h)
      PROVE  /\ g[i] = h[i]
             /\ SubSeq(g, 1, i) = SubSeq(h, 1, i)
             /\ SubSeq(g, 1, i - 1) = SubSeq(h, 1, i - 1)
  BY <1>1
<1>5. PathOf(o, h) \subseteq PathOf(o, g)
  <2> HIDE DEF g
  <2> QED BY <1>1, <1>4 DEF PathOf
<1>6. [call |-> c, org |-> o, prev |-> h, entry |-> g] \in PathOf(o, g)
  <2>1. Len(h) + 1 \in DOMAIN g /\ (Len(h) + 1) - 1 = Len(h)
    BY <1>1
  <2> HIDE DEF g
  <2> QED BY <2>1, <1>1, <1>2, <1>3 DEF PathOf
<1>7. ASSUME NEW i \in DOMAIN g
      PROVE  [call |-> g[i], org |-> o, prev |-> SubSeq(g, 1, i - 1),
              entry |-> SubSeq(g, 1, i)]
                \in PathOf(o, h) \cup {[call |-> c, org |-> o, prev |-> h, entry |-> g]}
  <2>1. CASE i \in 1..Len(h)
    <3> HIDE DEF g
    <3> QED BY <2>1, <1>1, <1>4 DEF PathOf
  <2>2. CASE i = Len(h) + 1
    <3>1. i - 1 = Len(h)
      BY <2>2, <1>1
    <3> HIDE DEF g
    <3> QED BY <2>2, <3>1, <1>1, <1>2, <1>3
  <2>3. i \in 1..Len(h) \/ i = Len(h) + 1
    <3> HIDE DEF g
    <3> QED BY <1>1
  <2> QED BY <2>1, <2>2, <2>3
<1> HIDE DEF g
<1>8. PathOf(o, g) \subseteq PathOf(o, h) \cup {[call |-> c, org |-> o, prev |-> h, entry |-> g]}
  BY <1>7 DEF PathOf
<1> QED BY <1>5, <1>6, <1>8 DEF g

\* The events of an appended sequence.
LEMMA RangeGrows ==
    ASSUME NEW S, NEW h \in Seq(S), NEW c \in S
    PROVE  Range(Append(h, c)) = Range(h) \cup {c}
<1> DEFINE g == Append(h, c)
<1>1. /\ Len(h) \in Nat
      /\ DOMAIN h = 1..Len(h) /\ DOMAIN g = 1..(Len(h) + 1)
      /\ \A i \in 1..Len(h) : g[i] = h[i]
      /\ g[Len(h) + 1] = c
  OBVIOUS
<1> HIDE DEF g
<1>2. 1..(Len(h) + 1) = 1..Len(h) \cup {Len(h) + 1}
  BY <1>1
<1> QED BY <1>1, <1>2 DEF Range, g

-----------------------------------------------------------------------------
\* Unfolding the instance.
LEMMA RecordedDef ==
    ASSUME NEW c
    PROVE  Log!Recorded(c) <=> \E o \in Orgs : c \in Range(head[o])
BY DEF Log!Recorded, Log!Range, Range

\* The chain of each organization is intact when its rows are the path to its
\* head.
LEMMA IntactDef == ChainIntact <=> \A o \in Orgs : Links(o) = PathOf(o, head[o])
BY DEF ChainIntact, PathOf

\* The commit of a writer extends its organization's chain by one link and
\* leaves the other chains and the other writers' views alone.
LEMMA PersistExtends ==
    ASSUME ChainInv, NEW c \in Calls, pc[c] = "committing", Persist(c)
    PROVE  /\ org[c] \in Orgs
           /\ head' = [head EXCEPT ![org[c]] = Append(@, c)]
           /\ rows' \subseteq Row
           /\ head' \in [Orgs -> Chains]
           /\ \A o \in Orgs : {r \in rows' : r.org = o} = PathOf(o, head'[o])
           /\ \A o \in Orgs : Range(head'[o]) = IF o = org[c] THEN Range(head[o]) \cup {c}
                                                            ELSE Range(head[o])
<1> DEFINE O == org[c]
           h == head[O]
<1>1. O \in Orgs /\ prev[c] = h /\ h \in Seq(Calls) /\ head \in [Orgs -> Seq(Calls)]
  BY DEF ChainInv, LockHeld, HeadIsFresh, Writers, InTransaction, AuditTypeOK, Chains
<1>2. head' = [head EXCEPT ![O] = Append(h, c)]
  BY <1>1 DEF Persist, EntryHash
<1>3. NewRow(c) = [call |-> c, org |-> O, prev |-> h, entry |-> Append(h, c)]
  BY <1>1 DEF NewRow, EntryHash
<1>4. Append(h, c) \in Seq(Calls)
  BY <1>1
<1>5. NewRow(c) \in Row /\ rows' \subseteq Row
  <2>1. NewRow(c) \in Row
    <3> HIDE DEF h, O
    <3> QED BY <1>1, <1>3, <1>4 DEF Row, Chains
  <2> QED BY <2>1 DEF Persist, ChainInv, AuditTypeOK
<1>6. head' \in [Orgs -> Chains]
  BY <1>1, <1>2, <1>4 DEF Chains
<1>7. ASSUME NEW o \in Orgs
      PROVE  /\ {r \in rows' : r.org = o} = PathOf(o, head'[o])
             /\ Range(head'[o]) = IF o = O THEN Range(head[o]) \cup {c} ELSE Range(head[o])
  <2>1. {r \in rows : r.org = o} = PathOf(o, head[o])
    BY IntactDef DEF ChainInv, Links
  <2>2. CASE o = O
    <3>1. head'[o] = Append(h, c)
      BY <1>1, <1>2, <2>2
    <3>2. {r \in rows' : r.org = o} = {r \in rows : r.org = o} \cup {NewRow(c)}
      BY <1>3, <2>2 DEF Persist
    <3>3. PathOf(o, Append(h, c)) = PathOf(o, h) \cup {NewRow(c)}
      BY <1>1, <1>3, <2>2, PathGrows
    <3>4. Range(Append(h, c)) = Range(h) \cup {c}
      BY <1>1, RangeGrows
    <3> HIDE DEF O, h
    <3> QED BY <2>1, <2>2, <3>1, <3>2, <3>3, <3>4 DEF h
  <2>3. CASE o # O
    <3>1. head'[o] = head[o]
      BY <1>1, <1>2, <2>3
    <3>2. {r \in rows' : r.org = o} = {r \in rows : r.org = o}
      BY <1>3, <2>3 DEF Persist
    <3> QED BY <2>1, <2>3, <3>1, <3>2
  <2> QED BY <2>2, <2>3
<1> QED BY <1>1, <1>2, <1>5, <1>6, <1>7

\* A transaction's end frees exactly the lock it held.
LEMMA UnlockKeepsOthers ==
    ASSUME AuditTypeOK, NEW c \in Calls, lock' = Unlocked(c)
    PROVE  /\ lock' \in [LockKeys -> Calls \cup {Nobody}]
           /\ \A k \in LockKeys : \A d \in Calls : d # c /\ lock[k] = d => lock'[k] = d
BY DEF AuditTypeOK, Unlocked

-----------------------------------------------------------------------------
\* The empty log has intact chains.
LEMMA InitChainInv == Init => ChainInv
<1> SUFFICES ASSUME Init PROVE ChainInv
  OBVIOUS
<1>1. <<>> \in Seq(Calls) /\ DOMAIN (<<>>) = {}
  OBVIOUS
<1>2. AuditTypeOK
  BY <1>1 DEF Init, AuditTypeOK, Chains, Steps, InTransaction
<1>3. LockHeld /\ HeadIsFresh
  BY DEF Init, LockHeld, HeadIsFresh, InTransaction, Writers
<1>4. \A o \in Orgs : head[o] = <<>>
  BY DEF Init
<1>5. NotYetRecorded
  BY <1>1, <1>4, RecordedDef DEF NotYetRecorded, Range
<1>6. ASSUME NEW o \in Orgs PROVE Links(o) = PathOf(o, head[o])
  BY <1>1, <1>4 DEF Links, PathOf, Init
<1> QED BY <1>2, <1>3, <1>5, <1>6, IntactDef DEF ChainInv

\* A step that writes neither table keeps the chains as they are.
LEMMA TablesKept ==
    ASSUME ChainInv, UNCHANGED <<rows, head>>
    PROVE  ChainIntact' /\ \A c \in Calls : Log!Recorded(c)' <=> Log!Recorded(c)
BY DEF ChainInv, ChainIntact, Links, Log!Recorded

\* No statement of an audit transaction breaks a chain or a lock.
LEMMA NextChainInv == ChainInv /\ [Next]_vars => ChainInv'
<1> SUFFICES ASSUME ChainInv, [Next]_vars PROVE ChainInv'
  OBVIOUS
<1> USE AuditAssumption
<1>1. CASE UNCHANGED vars
  BY <1>1, TablesKept
     DEF vars, ChainInv, AuditTypeOK, LockHeld, HeadIsFresh, NotYetRecorded
<1>2. ASSUME NEW c \in Calls, Begin(c) PROVE ChainInv'
  BY <1>2, TablesKept
     DEF Begin, ChainInv, AuditTypeOK, LockHeld, HeadIsFresh, NotYetRecorded,
         InTransaction, Writers, Steps
<1>3. ASSUME NEW c \in Calls, LogLine(c) \/ LogFails(c) PROVE ChainInv'
  <2>1. EnterSqlSink(c) \in {"done", "locking"} /\ (EnterSqlSink(c) = "locking" => org[c] \in Orgs)
    BY DEF EnterSqlSink, ChainInv, AuditTypeOK
  <2>2. /\ pc[c] = "logging"
        /\ pc' = [pc EXCEPT ![c] = EnterSqlSink(c)]
        /\ UNCHANGED <<org, prev, lock, rows, head, confirmed>>
        /\ logged' \subseteq Calls /\ alerts' \subseteq {"log", "sql"} \X Calls
    BY <1>3 DEF LogLine, LogFails, ChainInv, AuditTypeOK
  <2>3. AuditTypeOK' /\ LockHeld' /\ HeadIsFresh'
    BY <2>1, <2>2
       DEF ChainInv, AuditTypeOK, LockHeld, HeadIsFresh, InTransaction, Writers, Steps
  <2>4. NotYetRecorded' /\ ChainIntact'
    BY <2>2, TablesKept DEF ChainInv, NotYetRecorded, AuditTypeOK
  <2> QED BY <2>3, <2>4 DEF ChainInv
<1>4. ASSUME NEW c \in Calls, TakeLock(c) PROVE ChainInv'
  <2>1. org[c] \in Orgs /\ LockKey[org[c]] \in LockKeys
    BY <1>4 DEF TakeLock, ChainInv, LockHeld
  <2>2. AuditTypeOK' /\ HeadIsFresh'
    BY <1>4, <2>1 DEF TakeLock, ChainInv, AuditTypeOK, HeadIsFresh, InTransaction, Writers, Steps
  <2>3. LockHeld'
    BY <1>4, <2>1 DEF TakeLock, ChainInv, AuditTypeOK, LockHeld, InTransaction
  <2>4. NotYetRecorded' /\ ChainIntact'
    BY <1>4, TablesKept DEF TakeLock, ChainInv, NotYetRecorded, AuditTypeOK
  <2> QED BY <2>2, <2>3, <2>4 DEF ChainInv
<1>5. ASSUME NEW c \in Calls, ReadHead(c) PROVE ChainInv'
  <2>1. org[c] \in Orgs
    BY <1>5 DEF ReadHead, ChainInv, LockHeld, InTransaction
  <2>2. AuditTypeOK' /\ LockHeld' /\ HeadIsFresh'
    BY <1>5, <2>1
       DEF ReadHead, ChainInv, AuditTypeOK, LockHeld, HeadIsFresh, InTransaction, Writers, Steps
  <2>3. NotYetRecorded' /\ ChainIntact'
    BY <1>5, TablesKept DEF ReadHead, ChainInv, NotYetRecorded, AuditTypeOK
  <2> QED BY <2>2, <2>3 DEF ChainInv
<1>6. ASSUME NEW c \in Calls, Write(c) PROVE ChainInv'
  <2>1. AuditTypeOK' /\ LockHeld' /\ HeadIsFresh'
    BY <1>6 DEF Write, ChainInv, AuditTypeOK, LockHeld, HeadIsFresh, InTransaction, Writers, Steps
  <2>2. NotYetRecorded' /\ ChainIntact'
    BY <1>6, TablesKept DEF Write, ChainInv, NotYetRecorded, AuditTypeOK
  <2> QED BY <2>1, <2>2 DEF ChainInv
<1>7. ASSUME NEW c \in Calls, pc[c] \notin {"idle", "done", "gone"}, lock' = Unlocked(c),
             NEW end \in {"done", "gone"}, pc' = [pc EXCEPT ![c] = end],
             UNCHANGED <<org, prev>>, logged' \subseteq Calls, confirmed' \subseteq Calls,
             alerts' \subseteq {"log", "sql"} \X Calls,
             UNCHANGED <<rows, head>> \/ (pc[c] = "committing" /\ Persist(c))
      PROVE  ChainInv'
  <2>1. /\ lock' \in [LockKeys -> Calls \cup {Nobody}]
        /\ \A k \in LockKeys : \A d \in Calls : d # c /\ lock[k] = d => lock'[k] = d
    BY <1>7, UnlockKeepsOthers DEF ChainInv
  <2>2. LockHeld'
    BY <1>7, <2>1 DEF ChainInv, AuditTypeOK, LockHeld, InTransaction
  <2>3. CASE UNCHANGED <<rows, head>>
    <3>1. AuditTypeOK' /\ HeadIsFresh'
      BY <1>7, <2>1, <2>3 DEF ChainInv, AuditTypeOK, HeadIsFresh, InTransaction, Writers, Steps
    <3>2. NotYetRecorded' /\ ChainIntact'
      BY <1>7, <2>3, TablesKept DEF ChainInv, NotYetRecorded, AuditTypeOK
    <3> QED BY <2>2, <3>1, <3>2 DEF ChainInv
  <2>4. CASE pc[c] = "committing" /\ Persist(c)
    <3>1. /\ org[c] \in Orgs
          /\ head' = [head EXCEPT ![org[c]] = Append(@, c)]
          /\ rows' \subseteq Row
          /\ head' \in [Orgs -> Chains]
          /\ \A o \in Orgs : {r \in rows' : r.org = o} = PathOf(o, head'[o])
          /\ \A o \in Orgs : Range(head'[o]) = IF o = org[c] THEN Range(head[o]) \cup {c}
                                                           ELSE Range(head[o])
      BY <2>4, PersistExtends
    <3>2. AuditTypeOK'
      BY <1>7, <2>1, <3>1 DEF ChainInv, AuditTypeOK, Steps
    <3>3. HeadIsFresh'
      <4> SUFFICES ASSUME NEW d \in Calls, pc'[d] \in Writers
                   PROVE  prev'[d] = head'[org'[d]]
        BY DEF HeadIsFresh
      <4>1. d # c /\ pc[d] \in Writers
        BY <1>7 DEF ChainInv, AuditTypeOK, Writers
      <4>2. lock[LockKey[org[d]]] = d /\ lock[LockKey[org[c]]] = c /\ org[d] \in Orgs
        BY <4>1, <2>4 DEF ChainInv, LockHeld, InTransaction, Writers
      <4>3. org[d] # org[c]
        BY <4>1, <4>2
      <4>4. head'[org[d]] = head[org[d]]
        BY <3>1, <4>2, <4>3 DEF ChainInv, AuditTypeOK
      <4> QED BY <1>7, <4>1, <4>4 DEF ChainInv, HeadIsFresh
    <3>4. NotYetRecorded'
      <4> SUFFICES ASSUME NEW d \in Calls, pc'[d] \notin {"done", "gone"}
                   PROVE  \A o \in Orgs : d \notin Range(head'[o])
        BY DEF NotYetRecorded, Log!Recorded, Log!Range, Range
      <4>1. d # c /\ pc[d] \notin {"done", "gone"}
        BY <1>7 DEF ChainInv, AuditTypeOK
      <4>2. \A o \in Orgs : d \notin Range(head[o])
        BY <4>1, RecordedDef DEF ChainInv, NotYetRecorded
      <4> QED BY <3>1, <4>1, <4>2
    <3>5. ChainIntact'
      BY <3>1 DEF ChainIntact, Links, PathOf
    <3> QED BY <2>2, <3>2, <3>3, <3>4, <3>5 DEF ChainInv
  <2> QED BY <1>7, <2>3, <2>4
<1>8. ASSUME NEW c \in Calls, Commit(c) \/ CommitUnseen(c) \/ Fail(c) \/ Vanish(c) PROVE ChainInv'
  <2>1. /\ logged \subseteq Calls /\ confirmed \subseteq Calls
        /\ alerts \subseteq {"log", "sql"} \X Calls
        /\ <<"sql", c>> \in {"log", "sql"} \X Calls
    BY DEF ChainInv, AuditTypeOK
  <2>2. CASE Commit(c)
    BY <2>1, <2>2, <1>7 DEF Commit
  <2>3. CASE CommitUnseen(c)
    BY <2>1, <2>3, <1>7 DEF CommitUnseen
  <2>4. CASE Fail(c)
    BY <2>1, <2>4, <1>7 DEF Fail, InTransaction
  <2>5. CASE Vanish(c)
    BY <2>1, <2>5, <1>7 DEF Vanish
  <2> QED BY <1>8, <2>2, <2>3, <2>4, <2>5
<1> QED BY <1>1, <1>2, <1>3, <1>4, <1>5, <1>6, <1>8 DEF Next, Step

\* The state always has its type.
THEOREM AuditTypeCorrect == Spec => []AuditTypeOK
<1>1. ChainInv => AuditTypeOK
  BY DEF ChainInv
<1> QED BY <1>1, InitChainInv, NextChainInv, PTL DEF Spec

\* The chain of no organization ever forks or has a gap, for any number of
\* concurrent writers (SqlAuthAuditSink.record).
THEOREM ChainNeverForks == Spec => []ChainIntact
<1>1. ChainInv => ChainIntact
  BY DEF ChainInv
<1> QED BY <1>1, InitChainInv, NextChainInv, PTL DEF Spec

-----------------------------------------------------------------------------
\* The empty chains are the empty abstract logs.
LEMMA InitRefines == Init => Log!LogInit
BY DEF Init, Log!LogInit

\* A committed row is one append to the abstract log; every other step leaves
\* it.
LEMMA StepRefines ==
    ChainInv /\ [Next]_vars => [Log!LogNext]_<<head, confirmed>>
<1> SUFFICES ASSUME ChainInv, [Next]_vars, ~UNCHANGED <<head, confirmed>>
             PROVE  Log!LogNext
  OBVIOUS
<1>1. PICK c \in Calls : Commit(c) \/ CommitUnseen(c) \/ Vanish(c)
  BY DEF Next, Step, vars, Begin, LogLine, LogFails, TakeLock, ReadHead, Write, Fail
<1>2. pc[c] = "committing" /\ Persist(c) /\ confirmed' \in {confirmed, confirmed \cup {c}}
  BY <1>1 DEF Commit, CommitUnseen, Vanish
<1>3. org[c] \in Orgs /\ head' = [head EXCEPT ![org[c]] = Append(@, c)]
  BY <1>2, PersistExtends
<1>4. ~Log!Recorded(c)
  BY <1>2 DEF ChainInv, NotYetRecorded
<1> QED BY <1>2, <1>3, <1>4 DEF Log!LogNext, Log!Record

\* The chain implements the abstract log (INSTANCE AuditLog WITH log <- head):
\* every step of every writer, failing or not, is the append of one event
\* never recorded before, or changes nothing of the log.
THEOREM ChainImplementsLog == Spec => ImplementsLog
<1>1. Spec => []ChainInv
  BY InitChainInv, NextChainInv, PTL DEF Spec
<1> QED BY <1>1, InitRefines, StepRefines, PTL DEF Spec, ImplementsLog, Log!LogSpec

-----------------------------------------------------------------------------
(* No silent gap.                                                          *)

\* The structured log is settled once the composite has left the first sink.
LogSettled ==
    \A c \in Calls : pc[c] \notin {"idle", "logging", "gone"} =>
        c \in logged \/ <<"log", c>> \in alerts

\* A call that has returned is settled in the durable log too.
Settled(c) ==
    \/ org[c] = Nobody
    \/ \E r \in rows : r.call = c /\ r.org = org[c]
    \/ <<"sql", c>> \in alerts

GapInv == AuditTypeOK /\ LogSettled /\ \A c \in Calls : pc[c] = "done" => Settled(c)

\* The tables, the log and the reports only grow, so that a call once settled
\* stays so.
LEMMA SettledStays ==
    ASSUME NEW c \in Calls, org'[c] = org[c], rows \subseteq rows', alerts \subseteq alerts'
    PROVE  Settled(c) => Settled(c)'
BY DEF Settled

\* What a step of call c does to the facts about the other calls.
LEMMA OthersStaySettled ==
    ASSUME GapInv, AuditTypeOK', NEW c \in Calls,
           \A d \in Calls \ {c} : pc'[d] = pc[d] /\ org'[d] = org[d],
           logged \subseteq logged', rows \subseteq rows', alerts \subseteq alerts',
           pc'[c] \notin {"idle", "logging", "gone"} => c \in logged' \/ <<"log", c>> \in alerts',
           pc'[c] = "done" => Settled(c)'
    PROVE  GapInv'
<1>1. LogSettled'
  BY DEF GapInv, LogSettled
<1>2. ASSUME NEW d \in Calls, pc'[d] = "done" PROVE Settled(d)'
  <2>1. CASE d = c
    BY <1>2, <2>1
  <2>2. CASE d # c
    BY <1>2, <2>2, SettledStays DEF GapInv
  <2> QED BY <2>1, <2>2
<1> QED BY <1>1, <1>2 DEF GapInv

\* Every way out of a sink leaves the event in it or a report.
LEMMA NextGapInv == ChainInv /\ GapInv /\ [Next]_vars => GapInv'
<1> SUFFICES ASSUME ChainInv, GapInv, [Next]_vars PROVE GapInv'
  OBVIOUS
<1>0. AuditTypeOK /\ AuditTypeOK'
  BY NextChainInv DEF ChainInv
<1>1. CASE UNCHANGED vars
  BY <1>1 DEF vars, GapInv, AuditTypeOK, LogSettled, Settled
<1>2. ASSUME NEW c \in Calls, Begin(c) PROVE GapInv'
  BY <1>0, <1>2, OthersStaySettled DEF Begin, AuditTypeOK
<1>3. ASSUME NEW c \in Calls, LogLine(c) \/ LogFails(c) PROVE GapInv'
  <2>1. /\ pc'[c] = EnterSqlSink(c) /\ UNCHANGED <<org, rows>>
        /\ \A d \in Calls \ {c} : pc'[d] = pc[d]
        /\ logged \subseteq logged' /\ alerts \subseteq alerts'
        /\ c \in logged' \/ <<"log", c>> \in alerts'
    BY <1>0, <1>3 DEF LogLine, LogFails, AuditTypeOK
  <2>2. pc'[c] = "done" => Settled(c)'
    BY <2>1 DEF EnterSqlSink, Settled
  <2> QED BY <1>0, <2>1, <2>2, OthersStaySettled
<1>4. ASSUME NEW c \in Calls, TakeLock(c) \/ ReadHead(c) \/ Write(c) PROVE GapInv'
  <2>1. /\ pc[c] \in {"locking", "reading", "writing"} /\ pc'[c] # "done"
        /\ \A d \in Calls \ {c} : pc'[d] = pc[d]
        /\ UNCHANGED <<org, rows, logged, alerts>>
    BY <1>0, <1>4 DEF TakeLock, ReadHead, Write, AuditTypeOK
  <2> QED BY <1>0, <2>1, OthersStaySettled DEF GapInv, LogSettled
<1>5. ASSUME NEW c \in Calls, Commit(c) \/ CommitUnseen(c) \/ Fail(c) PROVE GapInv'
  <2>1. /\ pc[c] \in {"locking"} \cup InTransaction
        /\ \A d \in Calls \ {c} : pc'[d] = pc[d]
        /\ UNCHANGED <<org, logged>> /\ rows \subseteq rows' /\ alerts \subseteq alerts'
        /\ NewRow(c) \in rows' \/ <<"sql", c>> \in alerts'
    BY <1>0, <1>5 DEF Commit, CommitUnseen, Fail, Persist, InTransaction, AuditTypeOK
  <2>2. NewRow(c).call = c /\ NewRow(c).org = org[c]
    BY DEF NewRow
  <2>3. Settled(c)'
    BY <2>1, <2>2 DEF Settled
  <2>4. c \in logged \/ <<"log", c>> \in alerts
    BY <2>1 DEF GapInv, LogSettled, InTransaction
  <2> QED BY <1>0, <2>1, <2>3, <2>4, OthersStaySettled
<1>6. ASSUME NEW c \in Calls, Vanish(c) PROVE GapInv'
  BY <1>0, <1>6, OthersStaySettled DEF Vanish, Persist, AuditTypeOK
<1> QED BY <1>1, <1>2, <1>3, <1>4, <1>5, <1>6 DEF Next, Step

\* No call of record that returns leaves a silent gap, whichever sink failed
\* and whether or not the answer to its COMMIT was lost
\* (CompositeAuthAuditSink.record).
THEOREM GapsAreNeverSilent == Spec => []NoSilentGap
<1>1. Init => GapInv
  BY InitChainInv DEF Init, GapInv, ChainInv, LogSettled
<1>2. GapInv => NoSilentGap
  BY DEF GapInv, LogSettled, Settled, NoSilentGap
<1> QED BY <1>1, <1>2, InitChainInv, NextChainInv, NextGapInv, PTL DEF Spec

=============================================================================
