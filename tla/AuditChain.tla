----------------------------- MODULE AuditChain -----------------------------
(***************************************************************************)
(* The authentication audit trail: the composite sink hands an event to    *)
(* the structured log and then to the durable, hash-chained audit_event    *)
(* table.  A call of `record` is one process; its SQL transaction is one   *)
(* action per statement, and it may fail, lose the answer to its COMMIT or *)
(* be cancelled at any of them.                                            *)
(*                                                                         *)
(* An event is named by the call that records it.  SHA-256 is collision    *)
(* free here: the digest of an entry over its predecessor's is the         *)
(* sequence of events it stands for, and no predecessor is <<>>.           *)
(***************************************************************************)
EXTENDS Sequences, Functions, FiniteSets

CONSTANTS
    Calls,      \* the calls of record, and so the events
    Orgs,       \* the organizations
    LockKeys,   \* the values hashtext can take
    LockKey,    \* hashtext of an organization: two may collide
    Nobody      \* no organization, and the holder of a free lock

ASSUME AuditAssumption ==
    /\ LockKey \in [Orgs -> LockKeys]
    /\ Nobody \notin Calls
    /\ Nobody \notin Orgs

VARIABLES
    pc,         \* pc[c]: the statement call c is about to run
    org,        \* org[c]: the organization of the event, or Nobody
    prev,       \* prev[c]: the head digest the transaction has read
    lock,       \* lock[k]: the transaction holding the advisory lock
    rows,       \* the committed rows of audit_event
    head,       \* head[o]: the committed row of audit_chain_head
    logged,     \* the events written to the structured log
    alerts,     \* <<sink, c>>: the failures the composite has logged
    confirmed   \* the calls whose transaction reported its commit

vars == <<pc, org, prev, lock, rows, head, logged, alerts, confirmed>>

InTransaction == {"reading", "writing", "committing"}
Steps == {"idle", "logging", "locking", "done", "gone"} \cup InTransaction

Chains == Seq(Calls)
Row == [call : Calls, org : Orgs, prev : Chains, entry : Chains]

\* The type of the state.
AuditTypeOK ==
    /\ pc \in [Calls -> Steps]
    /\ org \in [Calls -> Orgs \cup {Nobody}]
    /\ prev \in [Calls -> Chains]
    /\ lock \in [LockKeys -> Calls \cup {Nobody}]
    /\ rows \subseteq Row
    /\ head \in [Orgs -> Chains]
    /\ logged \subseteq Calls
    /\ alerts \subseteq {"log", "sql"} \X Calls
    /\ confirmed \subseteq Calls

Init ==
    /\ pc = [c \in Calls |-> "idle"]
    /\ org = [c \in Calls |-> Nobody]
    /\ prev = [c \in Calls |-> <<>>]
    /\ lock = [k \in LockKeys |-> Nobody]
    /\ rows = {}
    /\ head = [o \in Orgs |-> <<>>]
    /\ logged = {}
    /\ alerts = {}
    /\ confirmed = {}

-----------------------------------------------------------------------------
(* The composite and the logging sink.                                     *)

\* CompositeAuthAuditSink.record: called with an event, tenantless or not.
Begin(c) ==
    /\ pc[c] = "idle"
    /\ \E o \in Orgs \cup {Nobody} : org' = [org EXCEPT ![c] = o]
    /\ pc' = [pc EXCEPT ![c] = "logging"]
    /\ UNCHANGED <<prev, lock, rows, head, logged, alerts, confirmed>>

\* SqlAuthAuditSink.record: an event of no proven tenant has no log to be
\* appended to; any other opens a transaction bound to its organization.
EnterSqlSink(c) == IF org[c] = Nobody THEN "done" ELSE "locking"

\* LoggingAuthAuditSink.record, the first sink.
LogLine(c) ==
    /\ pc[c] = "logging"
    /\ logged' = logged \cup {c}
    /\ pc' = [pc EXCEPT ![c] = EnterSqlSink(c)]
    /\ UNCHANGED <<org, prev, lock, rows, head, alerts, confirmed>>

\* Mutant: the composite lets the failure of a sink end the loop.
LogFailsStops(c) ==
    /\ pc[c] = "logging"
    /\ alerts' = alerts \cup {<<"log", c>>}
    /\ pc' = [pc EXCEPT ![c] = "done"]
    /\ UNCHANGED <<org, prev, lock, rows, head, logged, confirmed>>

\* The first sink raises: the composite reports it and goes on.
LogFails(c) ==
    /\ pc[c] = "logging"
    /\ alerts' = alerts \cup {<<"log", c>>}
    /\ pc' = [pc EXCEPT ![c] = EnterSqlSink(c)]
    /\ UNCHANGED <<org, prev, lock, rows, head, logged, confirmed>>

-----------------------------------------------------------------------------
(* SqlAuthAuditSink.record.                                                *)

\* Mutant: no advisory lock is taken.
LockNothing(c) ==
    /\ pc[c] = "locking"
    /\ pc' = [pc EXCEPT ![c] = "reading"]
    /\ UNCHANGED <<org, prev, lock, rows, head, logged, alerts, confirmed>>

\* SELECT pg_advisory_xact_lock(hashtext(:org))
TakeLock(c) ==
    /\ pc[c] = "locking"
    /\ lock[LockKey[org[c]]] = Nobody
    /\ lock' = [lock EXCEPT ![LockKey[org[c]]] = c]
    /\ pc' = [pc EXCEPT ![c] = "reading"]
    /\ UNCHANGED <<org, prev, rows, head, logged, alerts, confirmed>>

\* SELECT entry_hash FROM audit_chain_head
ReadHead(c) ==
    /\ pc[c] = "reading"
    /\ prev' = [prev EXCEPT ![c] = head[org[c]]]
    /\ pc' = [pc EXCEPT ![c] = "writing"]
    /\ UNCHANGED <<org, lock, rows, head, logged, alerts, confirmed>>

\* chain_entry_hash over the predecessor's digest and the event.
EntryHash(c) == Append(prev[c], c)

\* INSERT audit_event and the upsert of audit_chain_head: nobody sees them
\* before the commit.
Write(c) ==
    /\ pc[c] = "writing"
    /\ pc' = [pc EXCEPT ![c] = "committing"]
    /\ UNCHANGED <<org, prev, lock, rows, head, logged, alerts, confirmed>>

NewRow(c) == [call |-> c, org |-> org[c], prev |-> prev[c], entry |-> EntryHash(c)]

\* Mutant: a session lock, which only the session's end returns.
Kept(c) == lock

\* The end of the transaction returns its advisory lock.
Unlocked(c) == [k \in LockKeys |-> IF lock[k] = c THEN Nobody ELSE lock[k]]

\* Mutant: ON CONFLICT DO NOTHING: an existing head row is left alone.
FirstHead(c) ==
    /\ rows' = rows \cup {NewRow(c)}
    /\ head' = [head EXCEPT ![org[c]] = IF @ = <<>> THEN EntryHash(c) ELSE @]

\* What the database does at COMMIT: both rows at once.
Persist(c) ==
    /\ rows' = rows \cup {NewRow(c)}
    /\ head' = [head EXCEPT ![org[c]] = EntryHash(c)]

Commit(c) ==
    /\ pc[c] = "committing"
    /\ Persist(c)
    /\ lock' = Unlocked(c)
    /\ confirmed' = confirmed \cup {c}
    /\ pc' = [pc EXCEPT ![c] = "done"]
    /\ UNCHANGED <<org, prev, logged, alerts>>

\* COMMIT takes effect and its answer is lost: the sink raises all the same.
CommitUnseen(c) ==
    /\ pc[c] = "committing"
    /\ Persist(c)
    /\ lock' = Unlocked(c)
    /\ alerts' = alerts \cup {<<"sql", c>>}
    /\ pc' = [pc EXCEPT ![c] = "done"]
    /\ UNCHANGED <<org, prev, logged, confirmed>>

\* A statement fails: rollback, AuditSinkUnavailableError, reported by the
\* composite, which returns normally.
Fail(c) ==
    /\ pc[c] \in {"locking"} \cup InTransaction
    /\ lock' = Unlocked(c)
    /\ alerts' = alerts \cup {<<"sql", c>>}
    /\ pc' = [pc EXCEPT ![c] = "done"]
    /\ UNCHANGED <<org, prev, rows, head, logged, confirmed>>

\* The request's task is cancelled or its process dies: no handler of the
\* composite runs, and the database rolls back.  A commit already sent may
\* still take effect.
Vanish(c) ==
    /\ pc[c] \notin {"idle", "done", "gone"}
    /\ lock' = Unlocked(c)
    /\ pc' = [pc EXCEPT ![c] = "gone"]
    /\ \/ UNCHANGED <<rows, head>>
       \/ pc[c] = "committing" /\ Persist(c)
    /\ UNCHANGED <<org, prev, logged, alerts, confirmed>>

-----------------------------------------------------------------------------
Step(c) ==
    \/ LogLine(c) \/ LogFails(c) \/ TakeLock(c) \/ ReadHead(c) \/ Write(c)
    \/ Commit(c) \/ CommitUnseen(c) \/ Fail(c)

Next == \E c \in Calls : Begin(c) \/ Step(c) \/ Vanish(c)

Spec == Init /\ [][Next]_vars

\* A started call goes on, and the lock is granted to one of its waiters.
FairSpec ==
    /\ Spec
    /\ \A c \in Calls :
        /\ WF_vars(Step(c) /\ pc[c] # "locking")
        /\ SF_vars(TakeLock(c))

-----------------------------------------------------------------------------
(* Properties.                                                             *)

Links(o) == {r \in rows : r.org = o}

\* The chain of an organization never forks and never has a gap: its rows
\* are exactly the links of the path that leads to the head, one row for
\* each, whatever the writers' interleaving and failures
\* (SqlAuthAuditSink.record's comment on two writers reading "no
\* predecessor"; audit_chain_head in migration 0007).
ChainIntact ==
    \A o \in Orgs :
        Links(o) = {[call |-> head[o][i], org |-> o,
                     prev |-> SubSeq(head[o], 1, i - 1),
                     entry |-> SubSeq(head[o], 1, i)] : i \in DOMAIN head[o]}

\* A call that has returned has left no silent gap: each sink holds the
\* event or its failure was reported, except that the durable log never
\* takes an event of no organization (CompositeAuthAuditSink).
NoSilentGap ==
    \A c \in Calls : pc[c] = "done" =>
        /\ c \in logged \/ <<"log", c>> \in alerts
        /\ \/ org[c] = Nobody
           \/ \E r \in rows : r.call = c /\ r.org = org[c]
           \/ <<"sql", c>> \in alerts

Log == INSTANCE AuditLog WITH log <- head

\* The chain implements the abstract log, the head being the log: an event
\* enters it once and is never taken back or overtaken by a later one, and a
\* confirmed event is in it, through lost commits, rollbacks and cancelled
\* writers.  In particular the chain keeps the order in which calls were
\* answered; created_at does not, being read before the lock is taken.
ImplementsLog == Log!LogSpec

\* A call of record ends: no writer waits for ever for an organization's
\* lock, whoever failed while holding it.
RecordingEnds ==
    \A c \in Calls : pc[c] = "locking" ~> pc[c] \in {"done", "gone"}

=============================================================================
