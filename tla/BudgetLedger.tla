---------------------------- MODULE BudgetLedger ----------------------------
(***************************************************************************)
(* The budget ledger of one organization at the level of BudgetLedgerPort: *)
(* every operation is one atomic step, as adapters/ledger/                 *)
(* sql_budget_ledger.py wraps each in one transaction.  Every statement of *)
(* every operation carries "organization_id = ..." and runs under row      *)
(* level security, so the ledgers of two organizations share nothing and   *)
(* one of them is modelled.                                                *)
(*                                                                         *)
(* An operation that raises, that is refused, or whose transaction is      *)
(* rolled back leaves the ledger unchanged; the ones the code decides on   *)
(* (EXCEEDED, the unknown reservation, the wrong currency, the idempotent  *)
(* replays) are actions of their own, because the coordinators branch on   *)
(* them.                                                                   *)
(***************************************************************************)
EXTENDS Integers, Sums

CONSTANTS
    N,              \* how many correlation ids are in play
    Amounts,        \* the amounts of money a request may cost
    Currencies,     \* the currencies a cost may be computed in
    BudgetCurrency, \* org_budget.currency
    Budgeted,       \* may org_budget hold a row for the organization, may it not?
    Limit,          \* org_budget.amount_limit
    TTL,            \* ReservationReconciler.ttl, in clock ticks
    MaxClock,       \* bound: the clock stops here
    NoEntry         \* SQL NULL / no row, where an amount could be

Cids == 1..N

ASSUME NAssumption == N \in Nat \ {0}
ASSUME MoneyAssumption == /\ Amounts \subseteq Nat
                          /\ Limit \in Nat
                          /\ BudgetCurrency \in Currencies
                          /\ Budgeted \subseteq BOOLEAN
                          /\ NoEntry \notin Nat
ASSUME TimeAssumption == TTL \in Nat \ {0} /\ MaxClock \in Nat

VARIABLES
    hasBudget,  \* does org_budget hold a row for the organization? (never changes)
    row,        \* budget_reservation, by correlation id
    spent,      \* org_budget.spent
    reserved,   \* org_budget.reserved
    costLedger, \* cost_ledger.total_cost, by correlation id
    now,        \* the clock the reconciler and created_at read
    heldAt,     \* history: when the current hold of an id was taken
    overrun     \* history: money booked beyond what its hold covered

vars == <<hasBudget, row, spent, reserved, costLedger, now, heldAt, overrun>>

-----------------------------------------------------------------------------
(* State.                                                                  *)

\* reservation_status; "absent" stands for "no row".
Status == {"absent", "reserved", "committed", "released", "expired"}

Row == [status    : Status,
        est       : Amounts \cup {0},
        currency  : Currencies,
        createdAt : 0..MaxClock,
        actual    : Amounts \cup {NoEntry}]

AbsentRow == [status |-> "absent", est |-> 0, currency |-> BudgetCurrency,
              createdAt |-> 0, actual |-> NoEntry]

Init == /\ hasBudget \in Budgeted
        /\ row = [c \in Cids |-> AbsentRow]
        /\ spent = 0
        /\ reserved = 0
        /\ costLedger = [c \in Cids |-> NoEntry]
        /\ now = 0
        /\ heldAt = [c \in Cids |-> 0]
        /\ overrun = 0

\* The sum of f over the correlation ids.
Total(f) == SumTo(N, f)

\* Mutant: the statuses before reconciliation wrote "expired".
HoldReturnedPreExpiry == {"committed", "released"}

\* _HOLD_ALREADY_RETURNED: the hold has left org_budget.reserved.
HoldAlreadyReturned == {"committed", "released", "expired"}

\* The money a row holds in org_budget.reserved.
Held(r) == IF r.status = "reserved" THEN r.est ELSE 0

\* The money a cost_ledger row records.
Booked(e) == IF e = NoEntry THEN 0 ELSE e

-----------------------------------------------------------------------------
(* reserve(correlation_id, estimated_cost)                                 *)

\* Does an existing row decide a reservation by itself (idempotent replay)?
Replays(r) == r.status \notin {"absent", "released", "expired"}

\* _hold on a row.  A new row gets created_at from the column's default; a
\* re-activated one keeps the created_at of its first hold.
Reheld(r, a, cur) ==
    [status    |-> "reserved",
     est       |-> a,
     currency  |-> cur,
     createdAt |-> IF r.status = "absent" THEN now ELSE r.createdAt,
     actual    |-> NoEntry]

Hold(c, a, cur) ==
    /\ row' = [row EXCEPT ![c] = Reheld(row[c], a, cur)]
    /\ heldAt' = [heldAt EXCEPT ![c] = now]

\* RESERVED, because the id is reserved or committed already.
ReserveReplay(c) ==
    /\ Replays(row[c])
    /\ UNCHANGED vars

\* RESERVED for an organization without a budget: nothing is counted.
ReserveUnbounded(c, a, cur) ==
    /\ ~Replays(row[c])
    /\ ~hasBudget
    /\ Hold(c, a, cur)
    /\ UNCHANGED <<hasBudget, spent, reserved, costLedger, now, overrun>>

\* UnsupportedCurrencyError.
ReserveWrongCurrency(c, cur) ==
    /\ ~Replays(row[c])
    /\ hasBudget
    /\ cur # BudgetCurrency
    /\ UNCHANGED vars

\* Mutant: what is held is not counted.
FitsIgnoringHolds(a) == Limit - spent >= a

\* The WHERE clause of the gating UPDATE.
Fits(a) == Limit - spent - reserved >= a

\* RESERVED: the gating UPDATE matched, the hold is recorded.
ReserveHeld(c, a, cur) ==
    /\ ~Replays(row[c])
    /\ hasBudget
    /\ cur = BudgetCurrency
    /\ Fits(a)
    /\ reserved' = reserved + a
    /\ Hold(c, a, cur)
    /\ UNCHANGED <<hasBudget, spent, costLedger, now, overrun>>

\* EXCEEDED: the gating UPDATE matched nothing, rollback.
ReserveExceeded(c, a, cur) ==
    /\ ~Replays(row[c])
    /\ hasBudget
    /\ cur = BudgetCurrency
    /\ ~Fits(a)
    /\ UNCHANGED vars

-----------------------------------------------------------------------------
(* settle(correlation_id, detail)                                          *)

\* What a settlement of a costs beyond the money its hold kept aside: all of
\* it when the hold has expired, the excess over the estimate otherwise.
Excess(r, a) == LET over == a - Held(r) IN IF over > 0 THEN over ELSE 0

\* The budget UPDATE of a settlement: spend is booked, and the hold returned
\* only if it is still in reserved.
BookSpend(r, a) ==
    IF hasBudget
    THEN /\ spent' = spent + a
         /\ reserved' = reserved - Held(r)
         /\ overrun' = overrun + Excess(r, a)
    ELSE UNCHANGED <<spent, reserved, overrun>>

\* INSERT INTO cost_ledger ... ON CONFLICT DO NOTHING.
RecordCost(c, a) ==
    costLedger' = IF costLedger[c] = NoEntry
                  THEN [costLedger EXCEPT ![c] = a]
                  ELSE costLedger

\* Mutant: a committed reservation is settled again.
SettleAgain(c, a, cur) ==
    /\ row[c].status \in {"reserved", "expired", "committed"}
    /\ cur = row[c].currency
    /\ BookSpend(row[c], a)
    /\ row' = [row EXCEPT ![c] = [@ EXCEPT !.status = "committed", !.actual = a]]
    /\ RecordCost(c, a)
    /\ UNCHANGED <<hasBudget, now, heldAt>>

\* A reserved hold, or (late settlement) one reconciliation has expired.
Settle(c, a, cur) ==
    /\ row[c].status \in {"reserved", "expired"}
    /\ cur = row[c].currency
    /\ BookSpend(row[c], a)
    /\ row' = [row EXCEPT ![c] = [@ EXCEPT !.status = "committed", !.actual = a]]
    /\ RecordCost(c, a)
    /\ UNCHANGED <<hasBudget, now, heldAt>>

\* Settled before: nothing to do.
SettleReplay(c) ==
    /\ row[c].status = "committed"
    /\ UNCHANGED vars

\* UnknownReservationError.
SettleUnknown(c) ==
    /\ row[c].status \in {"absent", "released"}
    /\ UNCHANGED vars

\* UnsupportedCurrencyError.
SettleWrongCurrency(c, cur) ==
    /\ row[c].status \in {"reserved", "expired"}
    /\ cur # row[c].currency
    /\ UNCHANGED vars

-----------------------------------------------------------------------------
(* release(correlation_id)                                                 *)

ReturnToBudget(a) == reserved' = IF hasBudget THEN reserved - a ELSE reserved

Release(c) ==
    /\ row[c].status \notin HoldAlreadyReturned \cup {"absent"}
    /\ ReturnToBudget(row[c].est)
    /\ row' = [row EXCEPT ![c] = [@ EXCEPT !.status = "released"]]
    /\ UNCHANGED <<hasBudget, spent, costLedger, now, heldAt, overrun>>

\* The hold was returned before: nothing to do.
ReleaseReplay(c) ==
    /\ row[c].status \in HoldAlreadyReturned
    /\ UNCHANGED vars

\* UnknownReservationError.
ReleaseUnknown(c) ==
    /\ row[c].status = "absent"
    /\ UNCHANGED vars

-----------------------------------------------------------------------------
(* reconcile_expired(older_than)                                           *)

\* Mutant: the sweep does not look at the status.
StaleByAge(olderThan) == {c \in Cids : /\ row[c].status # "absent"
                                       /\ row[c].createdAt < olderThan}

\* Mutant: the sweep takes a hold that is just as old as the cutoff.
StaleInclusive(olderThan) == {c \in Cids : /\ row[c].status = "reserved"
                                           /\ row[c].createdAt <= olderThan}

\* Mutant: the cutoff is compared the wrong way round.
StaleYoung(olderThan) == {c \in Cids : /\ row[c].status = "reserved"
                                       /\ row[c].createdAt > olderThan}

\* The holds older than the cutoff.
Stale(olderThan) == {c \in Cids : /\ row[c].status = "reserved"
                                  /\ row[c].createdAt < olderThan}

\* The sweep takes the stale rows it can lock (SKIP LOCKED): any of them.
ReconcileExpired(olderThan, swept) ==
    /\ swept \subseteq Stale(olderThan)
    /\ row' = [c \in Cids |-> IF c \in swept
                              THEN [row[c] EXCEPT !.status = "expired"]
                              ELSE row[c]]
    /\ ReturnToBudget(Total([c \in Cids |-> IF c \in swept THEN row[c].est ELSE 0]))
    /\ UNCHANGED <<hasBudget, spent, costLedger, now, heldAt, overrun>>

\* ReservationReconciler.reclaim: the cutoff is ttl before a reading of the
\* clock that may be in the past when the sweep runs.
Reclaim(readAt, swept) ==
    /\ readAt \in 0..now
    /\ ReconcileExpired(readAt - TTL, swept)

Tick == /\ now < MaxClock
        /\ now' = now + 1
        /\ UNCHANGED <<hasBudget, row, spent, reserved, costLedger, heldAt, overrun>>

-----------------------------------------------------------------------------

Reserve(c, a, cur) == \/ ReserveReplay(c)
                      \/ ReserveUnbounded(c, a, cur)
                      \/ ReserveWrongCurrency(c, cur)
                      \/ ReserveHeld(c, a, cur)
                      \/ ReserveExceeded(c, a, cur)

SettleCall(c, a, cur) == \/ Settle(c, a, cur)
                         \/ SettleReplay(c)
                         \/ SettleUnknown(c)
                         \/ SettleWrongCurrency(c, cur)

ReleaseCall(c) == Release(c) \/ ReleaseReplay(c) \/ ReleaseUnknown(c)

Next == \/ \E c \in Cids, a \in Amounts, cur \in Currencies :
               Reserve(c, a, cur) \/ SettleCall(c, a, cur)
        \/ \E c \in Cids : ReleaseCall(c)
        \/ \E readAt \in 0..now, swept \in SUBSET Cids : Reclaim(readAt, swept)
        \/ Tick

Spec == Init /\ [][Next]_vars

-----------------------------------------------------------------------------
(* Properties.                                                             *)

\* Every column holds a value of its type.
TypeOK == /\ hasBudget \in BOOLEAN
          /\ row \in [Cids -> Row]
          /\ spent \in Int
          /\ reserved \in Int
          /\ costLedger \in [Cids -> Amounts \cup {NoEntry}]
          /\ now \in 0..MaxClock
          /\ heldAt \in [Cids -> 0..MaxClock]
          /\ overrun \in Nat

\* org_budget.reserved is exactly the sum of the live holds: no sequence of
\* reserve, settle, release and reconcile_expired on any ids returns a hold
\* twice or forgets one (_HOLD_ALREADY_RETURNED, the late settlement branch).
ReservedMatchesHolds ==
    reserved = IF hasBudget THEN Total([c \in Cids |-> Held(row[c])]) ELSE 0

\* org_budget.spent is exactly the sum of the cost_ledger entries: "the budget
\* total and the ledger entry must agree on one committed value"
\* (SettlementDetail).
SpentMatchesCostLedger ==
    spent = IF hasBudget THEN Total([c \in Cids |-> Booked(costLedger[c])]) ELSE 0

\* A reservation is committed exactly when its id has a cost_ledger entry, and
\* the two record the same amount, whatever retries and late settlements did.
CommittedMatchesCostLedger ==
    \A c \in Cids :
        /\ row[c].status = "committed" <=> costLedger[c] # NoEntry
        /\ row[c].status = "committed" => row[c].actual = costLedger[c]

\* The CHECK constraints of migration 0006 on org_budget never fire.
CheckConstraintsHold == reserved >= 0 /\ spent >= 0

\* The limit is exceeded by no more than what was booked beyond the holds:
\* late settlements of expired holds and actual costs over their estimate.
\* In particular concurrency alone never overspends.
OverspendIsAccountedFor == hasBudget => spent + reserved <= Limit + overrun

\* Whatever an organization with a budget holds, it holds in the currency of
\* its budget, so that sums over holds and costs are meaningful.
HoldsInBudgetCurrency ==
    hasBudget => \A c \in Cids : row[c].currency = BudgetCurrency

\* A settlement is final: no later operation changes a committed row or the
\* entry that records its cost (a replayed reserve, a repeated settle, a late
\* release or a sweep in particular).
SettlementIsFinal ==
    [][\A c \in Cids : row[c].status = "committed"
                         => row'[c] = row[c] /\ costLedger'[c] = costLedger[c]]_vars

\* Reconciliation reclaims a hold only when it has been held for the ttl: "it
\* only ever returns money that no live request is holding"
\* (ReservationService.reserve).
FreshHoldSurvives ==
    [][\A c \in Cids : row[c].status = "reserved" /\ row'[c].status = "expired"
                         => now - heldAt[c] > TTL]_vars

=============================================================================
