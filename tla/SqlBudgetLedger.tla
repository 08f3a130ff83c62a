-------------------------- MODULE SqlBudgetLedger ---------------------------
(***************************************************************************)
(* adapters/ledger/sql_budget_ledger.py statement by statement, for        *)
(* concurrent sessions of one organization against PostgreSQL at READ      *)
(* COMMITTED.  The variables of BudgetLedger are the committed database;   *)
(* a session's writes are applied when it commits, which no other session  *)
(* can tell from applying them at once, because the locks taken by the     *)
(* statements that write are held to the commit.  For the same reason the  *)
(* last statement of an operation and its commit are one step: an abort    *)
(* between them is an abort before the statement.                          *)
(*                                                                         *)
(* created_at defaults to now(), the start of the transaction, while       *)
(* BudgetLedger reads the clock when the hold is taken.  A clock tick is a *)
(* large part of a ttl of fifteen minutes, so that ticks wait for the      *)
(* reserve transactions under way.                                         *)
(***************************************************************************)
EXTENDS BudgetLedger, FiniteSets

CONSTANTS
    Sessions,  \* the database sessions running ledger operations
    Nobody,    \* the holder of a free lock
    MaxOps     \* bound: how many operations are started

ASSUME SqlAssumption == /\ Nobody \notin Sessions
                        /\ MaxOps \in Nat

VARIABLES
    txn,       \* what each session is doing
    lock,      \* who holds each lock
    started    \* operations started so far (bounds the model)

sqlVars == <<hasBudget, row, spent, reserved, costLedger, now, heldAt, overrun, txn, lock, started>>
ledger == vars

-----------------------------------------------------------------------------
(* State.                                                                  *)

Advisory(c) == <<"advisory", c>>  \* pg_advisory_xact_lock(org, cid)
RowLock(c) == <<"row", c>>        \* the tuple lock of a budget_reservation row
BudgetLock == <<"budget", 0>>     \* the tuple lock of the org_budget row

Locks == {Advisory(c) : c \in Cids} \cup {RowLock(c) : c \in Cids} \cup {BudgetLock}

\* The next statement of the session:
\*   advisory, existing, gate, hold      reserve
\*   lockRow, budget, book               settle
\*   lockRow, budget, giveBack           release
\*   sweep, budget, expire               reconcile_expired
Idle == [pc |-> "idle", op |-> "none", c |-> 1, a |-> 0, cur |-> BudgetCurrency,
         readAt |-> 0, seen |-> "absent", swept |-> {}]

SqlInit == /\ Init
           /\ txn = [p \in Sessions |-> Idle]
           /\ lock = [l \in Locks |-> Nobody]
           /\ started = 0

Proceed(p, pc) == txn' = [txn EXCEPT ![p].pc = pc]

Free(l, p) == lock[l] \in {Nobody, p}
Take(l, p) == Free(l, p) /\ lock' = [lock EXCEPT ![l] = p]

\* Mutant: pg_advisory_lock, which outlives the transaction.
EndKeepsAdvisory(p) ==
    /\ txn' = [txn EXCEPT ![p] = Idle]
    /\ lock' = [l \in Locks |-> IF lock[l] = p /\ \A c \in Cids : l # Advisory(c)
                                THEN Nobody ELSE lock[l]]

\* COMMIT or ROLLBACK: every lock of the transaction is released.
EndTxn(p) == /\ txn' = [txn EXCEPT ![p] = Idle]
             /\ lock' = [l \in Locks |-> IF lock[l] = p THEN Nobody ELSE lock[l]]

Begin(p, t) == /\ txn[p].pc = "idle"
               /\ started < MaxOps
               /\ started' = started + 1
               /\ txn' = [txn EXCEPT ![p] = t]
               /\ UNCHANGED <<ledger, lock>>

-----------------------------------------------------------------------------
(* reserve                                                                 *)

BeginReserve(p, c, a, cur) ==
    Begin(p, [Idle EXCEPT !.pc = "advisory", !.op = "reserve", !.c = c, !.a = a, !.cur = cur])

\* Mutant: no advisory lock.
TakeNoAdvisory(p) ==
    /\ txn[p].pc = "advisory"
    /\ Proceed(p, "existing")
    /\ UNCHANGED <<ledger, lock, started>>

\* SELECT pg_advisory_xact_lock(...)
TakeAdvisory(p) ==
    /\ txn[p].pc = "advisory"
    /\ Take(Advisory(txn[p].c), p)
    /\ Proceed(p, "existing")
    /\ UNCHANGED <<ledger, started>>

\* SELECT the reservation, without locking it, and the organization's budget.
\* A replay commits and a wrong currency rolls back, having written nothing.
ReadExisting(p) ==
    LET t == txn[p]
        r == row[t.c]
    IN  /\ t.pc = "existing"
        /\ IF Replays(r) \/ (hasBudget /\ t.cur # BudgetCurrency)
           THEN EndTxn(p)
           ELSE /\ txn' = [txn EXCEPT ![p].seen = r.status,
                                      ![p].pc = IF hasBudget THEN "gate" ELSE "hold"]
                /\ UNCHANGED lock
        /\ UNCHANGED <<ledger, started>>

\* UPDATE org_budget ... WHERE amount_limit - spent - reserved >= cost; the
\* WHERE clause is evaluated once the row is locked.  No match: rollback.
Gate(p) ==
    /\ txn[p].pc = "gate"
    /\ Free(BudgetLock, p)
    /\ IF Fits(txn[p].a)
       THEN Take(BudgetLock, p) /\ Proceed(p, "hold")
       ELSE EndTxn(p)
    /\ UNCHANGED <<ledger, started>>

\* _hold: INSERT a new row, which the unique key allows if there is none, or
\* UPDATE ... WHERE id = existing.id, whatever has become of that row since it
\* was read; then COMMIT.
HoldAndCommit(p) ==
    LET t == txn[p] IN
    /\ t.pc = "hold"
    /\ IF t.seen = "absent" THEN row[t.c].status = "absent" ELSE Free(RowLock(t.c), p)
    /\ Hold(t.c, t.a, t.cur)
    /\ reserved' = IF hasBudget THEN reserved + t.a ELSE reserved
    /\ EndTxn(p)
    /\ UNCHANGED <<hasBudget, spent, costLedger, now, overrun, started>>

-----------------------------------------------------------------------------
(* settle and release                                                      *)

BeginSettle(p, c, a, cur) ==
    Begin(p, [Idle EXCEPT !.pc = "lockRow", !.op = "settle", !.c = c, !.a = a, !.cur = cur])

BeginRelease(p, c) ==
    Begin(p, [Idle EXCEPT !.pc = "lockRow", !.op = "release", !.c = c])

\* Does the operation end at the row it has read (replay, unknown id, wrong
\* currency)?
NothingToDo(t, r) ==
    IF t.op = "settle" THEN r.status \in {"committed", "released"} \/ t.cur # r.currency
                       ELSE r.status \in HoldAlreadyReturned

\* SELECT ... FOR UPDATE: waits for the row's lock, then reads its latest
\* committed version.
LockRow(p) ==
    LET t == txn[p]
        r == row[t.c]
    IN  /\ t.pc = "lockRow"
        /\ \/ r.status = "absent" /\ EndTxn(p)
           \/ /\ r.status # "absent"
              /\ Free(RowLock(t.c), p)
              /\ IF NothingToDo(t, r)
                 THEN EndTxn(p)
                 ELSE Take(RowLock(t.c), p) /\ Proceed(p, "budget")
        /\ UNCHANGED <<ledger, started>>

\* UPDATE org_budget (settle, release, reconcile_expired): matches no row, and
\* so locks none, when the organization has no budget.
UpdateBudget(p) ==
    LET next == CASE txn[p].op = "settle"    -> "book"
                  [] txn[p].op = "release"   -> "giveBack"
                  [] txn[p].op = "reconcile" -> "expire"
    IN  /\ txn[p].pc = "budget"
        /\ IF hasBudget THEN Take(BudgetLock, p) ELSE UNCHANGED lock
        /\ Proceed(p, next)
        /\ UNCHANGED <<ledger, started>>

\* UPDATE the reservation, INSERT the cost, COMMIT.
BookAndCommit(p) ==
    LET t == txn[p] IN
    /\ t.pc = "book"
    /\ BookSpend(row[t.c], t.a)
    /\ row' = [row EXCEPT ![t.c] = [@ EXCEPT !.status = "committed", !.actual = t.a]]
    /\ RecordCost(t.c, t.a)
    /\ EndTxn(p)
    /\ UNCHANGED <<hasBudget, now, heldAt, started>>

\* UPDATE the reservation, COMMIT.
GiveBackAndCommit(p) ==
    LET t == txn[p] IN
    /\ t.pc = "giveBack"
    /\ ReturnToBudget(row[t.c].est)
    /\ row' = [row EXCEPT ![t.c] = [@ EXCEPT !.status = "released"]]
    /\ EndTxn(p)
    /\ UNCHANGED <<hasBudget, spent, costLedger, now, heldAt, overrun, started>>

-----------------------------------------------------------------------------
(* reconcile_expired                                                       *)

\* The reconciler computes its cutoff before the transaction.
BeginReconcile(p) ==
    Begin(p, [Idle EXCEPT !.pc = "sweep", !.op = "reconcile", !.readAt = now])

\* UPDATE ... WHERE id IN (SELECT ... FOR UPDATE SKIP LOCKED).  Nothing swept:
\* commit.
Sweep(p) ==
    LET swept == {c \in Stale(txn[p].readAt - TTL) : lock[RowLock(c)] = Nobody}
    IN  /\ txn[p].pc = "sweep"
        /\ IF swept = {}
           THEN EndTxn(p)
           ELSE /\ txn' = [txn EXCEPT ![p].swept = swept, ![p].pc = "budget"]
                /\ lock' = [l \in Locks |-> IF \E c \in swept : l = RowLock(c)
                                            THEN p ELSE lock[l]]
        /\ UNCHANGED <<ledger, started>>

ExpireAndCommit(p) ==
    LET t == txn[p] IN
    /\ t.pc = "expire"
    /\ row' = [c \in Cids |-> IF c \in t.swept
                              THEN [row[c] EXCEPT !.status = "expired"] ELSE row[c]]
    /\ ReturnToBudget(Total([c \in Cids |-> IF c \in t.swept THEN row[c].est ELSE 0]))
    /\ EndTxn(p)
    /\ UNCHANGED <<hasBudget, spent, costLedger, now, heldAt, overrun, started>>

-----------------------------------------------------------------------------
(* Failure and time.                                                       *)

\* The lock the next statement of a session needs (none: the empty set).
Wants(p) ==
    LET t == txn[p] IN
    CASE t.pc = "advisory"                                    -> {Advisory(t.c)}
      [] t.pc = "hold" /\ t.seen # "absent"                   -> {RowLock(t.c)}
      [] t.pc = "lockRow" /\ row[t.c].status # "absent"       -> {RowLock(t.c)}
      [] t.pc = "gate" \/ (t.pc = "budget" /\ hasBudget)      -> {BudgetLock}
      [] OTHER                                                -> {}

WaitsFor(p, q) == p # q /\ \E l \in Wants(p) : lock[l] = q

\* PostgreSQL aborts a member of a waiting cycle; the operation raises
\* LedgerUnavailableError.  The only lock held while waiting for another that
\* can close a cycle is the budget's, so that cycles have length two.
DeadlockVictim(p) ==
    /\ \E q \in Sessions : WaitsFor(p, q) /\ WaitsFor(q, p)
    /\ EndTxn(p)
    /\ UNCHANGED <<ledger, started>>

\* A statement or the connection fails, or the caller is cancelled: rollback.
Abort(p) ==
    /\ txn[p].pc # "idle"
    /\ EndTxn(p)
    /\ UNCHANGED <<ledger, started>>

SqlTick ==
    /\ \A p \in Sessions : txn[p].op # "reserve"
    /\ Tick
    /\ UNCHANGED <<txn, lock, started>>

-----------------------------------------------------------------------------

Statement(p) == \/ TakeAdvisory(p) \/ ReadExisting(p) \/ Gate(p) \/ HoldAndCommit(p)
                \/ LockRow(p) \/ UpdateBudget(p) \/ BookAndCommit(p) \/ GiveBackAndCommit(p)
                \/ Sweep(p) \/ ExpireAndCommit(p)
                \/ DeadlockVictim(p)

BeginSome(p) == \/ \E c \in Cids, a \in Amounts, cur \in Currencies :
                       BeginReserve(p, c, a, cur) \/ BeginSettle(p, c, a, cur)
                \/ \E c \in Cids : BeginRelease(p, c)
                \/ BeginReconcile(p)

SqlNext == \/ \E p \in Sessions : BeginSome(p) \/ Statement(p) \/ Abort(p)
           \/ SqlTick

\* PostgreSQL grants locks in the order they are asked for and breaks
\* deadlocks, so a session that can always go on eventually does.
SqlSpec == SqlInit /\ [][SqlNext]_sqlVars /\ \A p \in Sessions : WF_sqlVars(Statement(p))

-----------------------------------------------------------------------------
(* Properties.                                                             *)

\* A re-hold that overwrites a settlement: the id was expired when reserve read
\* it, and has been settled late since.
LostSettlement(p) == /\ txn[p].seen = "expired"
                     /\ row[txn[p].c].status = "committed"
                     /\ HoldAndCommit(p)

\* Every interleaving of statements behaves as some order of the atomic
\* operations of BudgetLedgerPort ("Every operation is atomic and durable",
\* ports/ledger.py), but for one race: a re-hold that overwrites the late
\* settlement of the same id.
ImplementsPortButForRehold ==
    Init /\ [][Next \/ \E p \in Sessions : LostSettlement(p)]_vars

\* The only waiting cycle is the one the lock order leaves open: a reserve that
\* re-holds an expired id has locked the budget and wants the row, while the
\* late settlement of the same id has locked the row and wants the budget.
DeadlockOnlyOnRehold ==
    \A p, q \in Sessions :
        WaitsFor(p, q) /\ WaitsFor(q, p) =>
            \E s \in {p, q} : \E t \in {p, q} \ {s} :
                /\ txn[s].pc = "hold" /\ txn[s].seen = "expired"
                /\ txn[t].op = "settle" /\ txn[t].c = txn[s].c

\* Every ledger operation ends: no lock order leaves two of them waiting for
\* each other for good.
OperationsEnd == \A p \in Sessions : txn[p].pc # "idle" ~> txn[p].pc = "idle"

=============================================================================
