------------------------- MODULE BudgetLedgerProofs -------------------------
(***************************************************************************)
(* The accounting invariants of BudgetLedger, for every number of          *)
(* correlation ids, every set of amounts and currencies, every limit and   *)
(* every ttl, and SqlBudgetLedger's transactions as an implementation of   *)
(* it, for every number of sessions.                                       *)
(***************************************************************************)
EXTENDS SqlBudgetLedger, WellFoundedInduction, TLAPS

-----------------------------------------------------------------------------
(* What SumTo computes, for every length and every function.  A recursive  *)
(* function is a CHOOSE, so that its existence is proved first; each       *)
(* induction on the length is an argument about a least counterexample.    *)

\* A nonempty set of naturals has a least element.
LEMMA LeastNat ==
    ASSUME NEW S \in SUBSET Nat, S # {}
    PROVE  \E m \in S : \A k \in S : m <= k
<1> DEFINE R == {ss \in Nat \X Nat : ss[1] < ss[2]}
<1>0. IsWellFoundedOn(R, Nat)
  BY NatLessThanWellFounded, Zenon DEF OpToRel
<1>1. PICK m \in S : \A k \in S : ~ (<<k, m>> \in R)
  <2> HIDE DEF R
  <2> QED BY <1>0, WFMin, Zenon
<1>2. \A k \in S : m <= k
  <2> SUFFICES ASSUME NEW k \in S, ~(m <= k) PROVE FALSE
    OBVIOUS
  <2>1. k \in Nat /\ m \in Nat /\ k < m
    OBVIOUS
  <2>2. <<k, m>> \in Nat \X Nat /\ <<k, m>>[1] = k /\ <<k, m>>[2] = m
    BY <2>1
  <2>3. <<k, m>> \in R
    BY <2>1, <2>2, Zenon
  <2> QED BY <1>1, <2>3, Zenon
<1> QED BY <1>2

\* s lists the partial sums of f up to n.
Partial(s, n, f) == /\ s \in [0..n -> Int]
                    /\ s[0] = 0
                    /\ \A k \in 1..n : s[k] = s[k - 1] + f[k]

\* Partial sums exist.
LEMMA PartialExists ==
    ASSUME NEW n \in Nat, NEW f \in [1..n -> Int]
    PROVE  \E s : Partial(s, n, f)
<1> DEFINE S == {m \in 0..n : ~ \E s : Partial(s, m, f)}
<1>0. n \in 0..n
  OBVIOUS
<1>1. SUFFICES ASSUME S # {} PROVE FALSE
  BY <1>0, Zenon
<1>2. PICK m \in S : \A k \in S : m <= k
  <2> HIDE DEF S
  <2>1. S \in SUBSET Nat
    BY SMT DEF S
  <2> QED BY <1>1, <2>1, LeastNat
<1>3. m # 0
  <2>1. Partial([k \in 0..0 |-> 0], 0, f)
    BY SMT DEF Partial
  <2> QED BY <1>2, <2>1
<1>4. m - 1 \in 0..n /\ m - 1 \notin S
  BY <1>2, <1>3
<1>5. PICK s : Partial(s, m - 1, f)
  BY <1>4
<1>6. Partial([k \in 0..m |-> IF k = m THEN s[m - 1] + f[m] ELSE s[k]], m, f)
  <2> DEFINE t == [k \in 0..m |-> IF k = m THEN s[m - 1] + f[m] ELSE s[k]]
  <2>0. /\ m \in 1..n
        /\ m - 1 \in Nat
        /\ s \in [0..(m - 1) -> Int]
        /\ s[0] = 0
        /\ \A k \in 1..(m - 1) : s[k] = s[k - 1] + f[k]
    BY <1>2, <1>3, <1>5, SMT DEF Partial
  <2>1. f[m] \in Int /\ s[m - 1] \in Int
    BY <2>0, SMT
  <2>2. \A k \in 0..m : t[k] \in Int
    BY <2>0, <2>1, SMT
  <2>3. t \in [0..m -> Int]
    BY <2>2, Zenon
  <2>4. t[0] = 0
    BY <2>0, SMT
  <2>5. \A k \in 1..m : t[k] = t[k - 1] + f[k]
    BY <2>0, SMT
  <2> QED BY <2>3, <2>4, <2>5, Zenon DEF Partial
<1> QED BY <1>2, <1>6, Zenon

\* SumTo is the last of the partial sums.
LEMMA SumToPartial ==
    ASSUME NEW n \in Nat, NEW f \in [1..n -> Int]
    PROVE  \E s : Partial(s, n, f) /\ SumTo(n, f) = s[n]
<1> DEFINE Rec(s) == s = [k \in 0..n |-> IF k = 0 THEN 0 ELSE s[k - 1] + f[k]]
           u == CHOOSE s : Rec(s)
<1>1. SumTo(n, f) = u[n]
  BY Zenon DEF SumTo
<1>2. PICK p : Partial(p, n, f)
  BY PartialExists
<1>3. Rec(p)
  <2>1. \A k \in 0..n : p[k] = IF k = 0 THEN 0 ELSE p[k - 1] + f[k]
    BY <1>2, SMT DEF Partial
  <2>2. p = [k \in 0..n |-> p[k]]
    BY <1>2, SMT DEF Partial
  <2> QED BY <2>1, <2>2, Zenon
<1>4. Rec(u)
  <2> HIDE DEF Rec
  <2> QED BY <1>3, Zenon
<1>5. u = p
  <2> DEFINE D == {k \in 0..n : u[k] # p[k]}
  <2> HIDE DEF u
  <2>0. u[0] = 0 /\ \A k \in 1..n : u[k] = u[k - 1] + f[k]
    BY <1>4, SMT
  <2>1. D = {}
    <3> SUFFICES ASSUME D # {} PROVE FALSE
      OBVIOUS
    <3>1. PICK k \in D : \A j \in D : k <= j
      <4> HIDE DEF D
      <4>1. D \in SUBSET Nat
        BY SMT DEF D
      <4> QED BY <4>1, LeastNat
    <3>2. k # 0
      BY <3>1, <2>0, <1>2, SMT DEF Partial
    <3>3. k - 1 \in 0..n /\ u[k - 1] = p[k - 1]
      BY <3>1, <3>2, SMT
    <3> QED BY <3>1, <3>2, <3>3, <2>0, <1>2, SMT DEF Partial
  <2>2. \A k \in 0..n : u[k] = p[k]
    BY <2>1, Zenon
  <2>3. u = [k \in 0..n |-> u[k]] /\ p = [k \in 0..n |-> p[k]]
    BY <1>2, <1>4, Zenon DEF Partial
  <2> QED BY <2>2, <2>3, Zenon
<1> QED BY <1>1, <1>2, <1>5

\* The sum is an integer.
LEMMA SumToInt ==
    ASSUME NEW n \in Nat, NEW f \in [1..n -> Int]
    PROVE  SumTo(n, f) \in Int
<1>1. PICK s : Partial(s, n, f) /\ SumTo(n, f) = s[n]
  BY SumToPartial
<1> QED BY <1>1, SMT DEF Partial

\* The sum of a pointwise sum.
LEMMA SumToAdd ==
    ASSUME NEW n \in Nat, NEW f \in [1..n -> Int], NEW g \in [1..n -> Int],
           NEW h \in [1..n -> Int], \A k \in 1..n : h[k] = f[k] + g[k]
    PROVE  SumTo(n, h) = SumTo(n, f) + SumTo(n, g)
<1>1. PICK s : Partial(s, n, f) /\ SumTo(n, f) = s[n]
  BY SumToPartial
<1>2. PICK t : Partial(t, n, g) /\ SumTo(n, g) = t[n]
  BY SumToPartial
<1>3. PICK u : Partial(u, n, h) /\ SumTo(n, h) = u[n]
  BY SumToPartial
<1> DEFINE D == {k \in 0..n : u[k] # s[k] + t[k]}
<1>4. D = {}
  <2> SUFFICES ASSUME D # {} PROVE FALSE
    OBVIOUS
  <2>1. PICK k \in D : \A j \in D : k <= j
    <3> HIDE DEF D
    <3>1. D \in SUBSET Nat
      BY SMT DEF D
    <3> QED BY <3>1, LeastNat
  <2>2. k # 0
    BY <2>1, <1>1, <1>2, <1>3, SMT DEF Partial
  <2>3. k \in 1..n /\ k - 1 \in 0..n /\ u[k - 1] = s[k - 1] + t[k - 1]
    BY <2>1, <2>2, SMT
  <2>4. /\ s[k - 1] \in Int /\ t[k - 1] \in Int
        /\ s[k] = s[k - 1] + f[k]
        /\ t[k] = t[k - 1] + g[k]
        /\ u[k] = u[k - 1] + h[k]
    BY <2>3, <1>1, <1>2, <1>3, SMT DEF Partial
  <2> QED BY <2>1, <2>3, <2>4, SMT
<1>5. n \in 0..n
  OBVIOUS
<1> QED BY <1>1, <1>2, <1>3, <1>4, <1>5, Zenon

\* A sum of naturals is a natural.
LEMMA SumToNat ==
    ASSUME NEW n \in Nat, NEW f \in [1..n -> Nat]
    PROVE  SumTo(n, f) \in Nat
<1>0. f \in [1..n -> Int]
  BY SMT
<1>1. PICK s : Partial(s, n, f) /\ SumTo(n, f) = s[n]
  BY <1>0, SumToPartial
<1> DEFINE D == {k \in 0..n : s[k] \notin Nat}
<1>2. D = {}
  <2> SUFFICES ASSUME D # {} PROVE FALSE
    OBVIOUS
  <2>1. PICK k \in D : \A j \in D : k <= j
    <3> HIDE DEF D
    <3>1. D \in SUBSET Nat
      BY SMT DEF D
    <3> QED BY <3>1, LeastNat
  <2>2. k # 0
    BY <2>1, <1>1, SMT DEF Partial
  <2>3. k \in 1..n /\ s[k - 1] \in Nat
    BY <2>1, <2>2, SMT
  <2>4. s[k] = s[k - 1] + f[k]
    BY <2>3, <1>1, SMT DEF Partial
  <2>5. f[k] \in Nat
    BY <2>3, SMT
  <2>6. s[k] \in Nat
    BY <2>3, <2>4, <2>5, SMT
  <2> QED BY <2>1, <2>6, SMT
<1>3. n \in 0..n
  OBVIOUS
<1> QED BY <1>1, <1>2, <1>3, Zenon

\* The sum of a function that is zero but at c.
LEMMA SumToSingle ==
    ASSUME NEW n \in Nat, NEW f \in [1..n -> Int], NEW c \in 1..n,
           \A k \in 1..n : k # c => f[k] = 0
    PROVE  SumTo(n, f) = f[c]
<1>1. PICK s : Partial(s, n, f) /\ SumTo(n, f) = s[n]
  BY SumToPartial
<1> DEFINE D == {k \in 0..n : s[k] # IF k < c THEN 0 ELSE f[c]}
<1>2. D = {}
  <2> SUFFICES ASSUME D # {} PROVE FALSE
    OBVIOUS
  <2>1. PICK k \in D : \A j \in D : k <= j
    <3> HIDE DEF D
    <3>1. D \in SUBSET Nat
      BY SMT DEF D
    <3> QED BY <3>1, LeastNat
  <2>2. k # 0
    BY <2>1, <1>1, SMT DEF Partial
  <2>3. k \in 1..n /\ k - 1 \in 0..n /\ s[k - 1] = IF k - 1 < c THEN 0 ELSE f[c]
    BY <2>1, <2>2, SMT
  <2>4. s[k] = s[k - 1] + f[k] /\ f[c] \in Int
    BY <2>3, <1>1, SMT DEF Partial
  <2>5. CASE k < c
    <3>1. f[k] = 0 /\ s[k - 1] = 0
      BY <2>3, <2>5, SMT
    <3>2. s[k] = 0
      BY <2>4, <3>1, SMT
    <3> QED BY <2>1, <2>5, <3>2, SMT
  <2>6. CASE k = c
    BY <2>1, <2>3, <2>4, <2>6, SMT
  <2>7. CASE k > c
    BY <2>1, <2>3, <2>4, <2>7, SMT
  <2> QED BY <2>5, <2>6, <2>7, <2>3, SMT
<1>3. n \in 0..n /\ ~(n < c)
  OBVIOUS
<1> QED BY <1>1, <1>2, <1>3, SMT

\* Changing one value changes the sum by the difference.
LEMMA SumToUpdate ==
    ASSUME NEW n \in Nat, NEW f \in [1..n -> Int], NEW g \in [1..n -> Int],
           NEW c \in 1..n, \A k \in 1..n : k # c => g[k] = f[k]
    PROVE  SumTo(n, g) = SumTo(n, f) + (g[c] - f[c])
<1> DEFINE d == [k \in 1..n |-> g[k] - f[k]]
<1>1. d \in [1..n -> Int]
  BY SMT
<1>2. SumTo(n, d) = d[c]
  <2>1. \A k \in 1..n : k # c => d[k] = 0
    BY SMT
  <2> HIDE DEF d
  <2> QED BY <1>1, <2>1, SumToSingle
<1>3. SumTo(n, g) = SumTo(n, f) + SumTo(n, d)
  <2>1. \A k \in 1..n : g[k] = f[k] + d[k]
    BY SMT
  <2> HIDE DEF d
  <2> QED BY <1>1, <2>1, SumToAdd
<1>4. d[c] = g[c] - f[c]
  OBVIOUS
<1> QED BY <1>2, <1>3, <1>4, Zenon

\* Functions that agree have the same sum.
LEMMA SumToEqual ==
    ASSUME NEW n \in Nat, NEW f \in [1..n -> Int], NEW g \in [1..n -> Int],
           \A k \in 1..n : g[k] = f[k]
    PROVE  SumTo(n, g) = SumTo(n, f)
<1>1. f = g
  BY SMT
<1> QED BY <1>1, Zenon

\* The sum of zeros.
LEMMA SumToZero ==
    ASSUME NEW n \in Nat \ {0}, NEW f \in [1..n -> Int], \A k \in 1..n : f[k] = 0
    PROVE  SumTo(n, f) = 0
<1>1. SumTo(n, f) = f[1]
  BY SumToSingle, SMT
<1> QED BY <1>1, SMT

-----------------------------------------------------------------------------
(* The ledger.                                                             *)

\* The money held and the money booked, by correlation id.
Holds == [c \in Cids |-> Held(row[c])]
Costs == [c \in Cids |-> Booked(costLedger[c])]

\* The inductive invariant.  SpentMatchesCostLedger needs the fourth conjunct:
\* ON CONFLICT DO NOTHING keeps the two totals equal only because an id that
\* can still be settled has no entry yet.
IInv == /\ TypeOK
        /\ ReservedMatchesHolds
        /\ SpentMatchesCostLedger
        /\ CommittedMatchesCostLedger
        /\ HoldsInBudgetCurrency
        /\ OverspendIsAccountedFor

\* The steps that change the ledger.
LEMMA StepCases ==
    ASSUME [Next]_vars
    PROVE  \/ UNCHANGED vars
           \/ \E c \in Cids, a \in Amounts, cur \in Currencies :
                  ReserveUnbounded(c, a, cur)
           \/ \E c \in Cids, a \in Amounts, cur \in Currencies : ReserveHeld(c, a, cur)
           \/ \E c \in Cids, a \in Amounts, cur \in Currencies : Settle(c, a, cur)
           \/ \E c \in Cids : Release(c)
           \/ \E readAt \in 0..now, swept \in SUBSET Cids : Reclaim(readAt, swept)
           \/ Tick
<1>1. CASE UNCHANGED vars
  BY <1>1
<1>2. CASE \E c \in Cids, a \in Amounts, cur \in Currencies :
               Reserve(c, a, cur) \/ SettleCall(c, a, cur)
  BY <1>2, Zenon DEF Reserve, SettleCall, ReserveReplay, ReserveWrongCurrency,
                     ReserveExceeded, SettleReplay, SettleUnknown, SettleWrongCurrency
<1>3. CASE \E c \in Cids : ReleaseCall(c)
  BY <1>3, Zenon DEF ReleaseCall, ReleaseReplay, ReleaseUnknown
<1>4. CASE \E readAt \in 0..now, swept \in SUBSET Cids : Reclaim(readAt, swept)
  BY <1>4
<1>5. CASE Tick
  BY <1>5
<1> QED BY <1>1, <1>2, <1>3, <1>4, <1>5, Zenon DEF Next

-----------------------------------------------------------------------------
(* Type correctness.                                                       *)

\* The amounts a row holds are naturals.
LEMMA RowType ==
    ASSUME NEW r \in Row
    PROVE  /\ r.status \in Status
           /\ r.est \in Amounts \cup {0}
           /\ r.est \in Nat
           /\ r.currency \in Currencies
           /\ r.createdAt \in 0..MaxClock
           /\ r.actual \in Amounts \cup {NoEntry}
           /\ Held(r) \in Nat
<1>1. /\ r.status \in Status
      /\ r.est \in Amounts \cup {0}
      /\ r.currency \in Currencies
      /\ r.createdAt \in 0..MaxClock
      /\ r.actual \in Amounts \cup {NoEntry}
  BY DEF Row
<1>2. \A x \in Amounts \cup {0} : x \in Nat
  BY MoneyAssumption
<1>3. r.est \in Nat
  BY <1>1, <1>2, Zenon
<1> QED BY <1>1, <1>3 DEF Held

\* A row in another status is still a row.
LEMMA RowWithStatus ==
    ASSUME NEW r \in Row, NEW s \in Status
    PROVE  /\ [r EXCEPT !.status = s] \in Row
           /\ [r EXCEPT !.status = s].status = s
           /\ [r EXCEPT !.status = s].est = r.est
           /\ [r EXCEPT !.status = s].currency = r.currency
           /\ [r EXCEPT !.status = s].actual = r.actual
  BY DEF Row

\* A row that is settled.
LEMMA RowCommitted ==
    ASSUME NEW r \in Row, NEW a \in Amounts
    PROVE  LET q == [r EXCEPT !.status = "committed", !.actual = a]
           IN  /\ q \in Row
               /\ q.status = "committed"
               /\ q.currency = r.currency
               /\ q.actual = a
  BY DEF Row, Status

\* A row that is held.
LEMMA RowReheld ==
    ASSUME TypeOK, NEW c \in Cids, NEW a \in Amounts, NEW cur \in Currencies
    PROVE  /\ Reheld(row[c], a, cur) \in Row
           /\ Reheld(row[c], a, cur).status = "reserved"
           /\ Reheld(row[c], a, cur).est = a
           /\ Reheld(row[c], a, cur).currency = cur
<1>1. row[c] \in Row
  BY DEF TypeOK
<1>2. row[c].createdAt \in 0..MaxClock /\ now \in 0..MaxClock
  BY <1>1, RowType DEF TypeOK
<1> QED BY <1>2 DEF Reheld, Row, Status

\* What a settlement adds to overrun.
LEMMA ExcessType ==
    ASSUME NEW r \in Row, NEW a \in Nat
    PROVE  Excess(r, a) \in Nat /\ a <= Held(r) + Excess(r, a)
<1>1. Held(r) \in Nat
  BY RowType
<1> QED BY <1>1, SMT DEF Excess

\* The empty ledger is of its type.
LEMMA TypeInit == Init => TypeOK
<1> SUFFICES ASSUME Init PROVE TypeOK
  OBVIOUS
<1>1. AbsentRow \in Row
  BY MoneyAssumption, TimeAssumption DEF AbsentRow, Row, Status
<1>2. hasBudget \in BOOLEAN
  BY MoneyAssumption DEF Init
<1> QED BY <1>1, <1>2, TimeAssumption DEF Init, TypeOK

\* Every operation keeps every column of its type.
LEMMA TypeStep == TypeOK /\ [Next]_vars => TypeOK'
<1> SUFFICES ASSUME TypeOK, [Next]_vars PROVE TypeOK'
  OBVIOUS
<1> USE MoneyAssumption
<1>1. CASE UNCHANGED vars
  BY <1>1 DEF vars, TypeOK
<1>2. ASSUME NEW c \in Cids, NEW a \in Amounts, NEW cur \in Currencies,
             ReserveUnbounded(c, a, cur)
      PROVE  TypeOK'
  BY <1>2, RowReheld DEF ReserveUnbounded, Hold, TypeOK
<1>3. ASSUME NEW c \in Cids, NEW a \in Amounts, NEW cur \in Currencies,
             ReserveHeld(c, a, cur)
      PROVE  TypeOK'
  BY <1>3, RowReheld DEF ReserveHeld, Hold, TypeOK
<1>4. ASSUME NEW c \in Cids, NEW a \in Amounts, NEW cur \in Currencies, Settle(c, a, cur)
      PROVE  TypeOK'
  <2>1. row[c] \in Row /\ Held(row[c]) \in Nat /\ a \in Nat
    BY RowType DEF TypeOK
  <2>2. row' \in [Cids -> Row]
    BY <1>4, <2>1, RowCommitted DEF Settle, TypeOK
  <2>3. spent' \in Int /\ reserved' \in Int /\ overrun' \in Nat
    BY <1>4, <2>1, ExcessType DEF Settle, BookSpend, TypeOK
  <2>4. costLedger' \in [Cids -> Amounts \cup {NoEntry}]
    BY <1>4 DEF Settle, RecordCost, TypeOK
  <2> QED BY <1>4, <2>2, <2>3, <2>4 DEF Settle, TypeOK
<1>5. ASSUME NEW c \in Cids, Release(c)
      PROVE  TypeOK'
  <2>1. row[c] \in Row /\ row[c].est \in Nat
    BY RowType DEF TypeOK
  <2>2. row' \in [Cids -> Row]
    <3>1. "released" \in Status
      BY DEF Status
    <3> QED BY <1>5, <2>1, <3>1, RowWithStatus DEF Release, TypeOK
  <2>3. reserved' \in Int
    BY <1>5, <2>1 DEF Release, ReturnToBudget, TypeOK
  <2> QED BY <1>5, <2>2, <2>3 DEF Release, TypeOK
<1>6. ASSUME NEW readAt \in 0..now, NEW swept \in SUBSET Cids, Reclaim(readAt, swept)
      PROVE  TypeOK'
  <2>1. \A c \in Cids : row[c] \in Row /\ row[c].est \in Nat
    BY RowType DEF TypeOK
  <2>2. row' \in [Cids -> Row]
    <3>1. "expired" \in Status
      BY DEF Status
    <3>2. \A c \in Cids : [row[c] EXCEPT !.status = "expired"] \in Row
      BY <2>1, <3>1, RowWithStatus
    <3> QED BY <1>6, <2>1, <3>2 DEF Reclaim, ReconcileExpired
  <2>3. reserved' \in Int
    <3> DEFINE back == [c \in Cids |-> IF c \in swept THEN row[c].est ELSE 0]
    <3>1. back \in [1..N -> Int]
      BY <2>1 DEF Cids
    <3>2. Total(back) \in Int
      <4> HIDE DEF back
      <4> QED BY <3>1, NAssumption, SumToInt DEF Total
    <3>3. reserved' = IF hasBudget THEN reserved - Total(back) ELSE reserved
      BY <1>6, Zenon DEF Reclaim, ReconcileExpired, ReturnToBudget
    <3> HIDE DEF back
    <3> QED BY <3>2, <3>3 DEF TypeOK
  <2> QED BY <1>6, <2>2, <2>3 DEF Reclaim, ReconcileExpired, TypeOK
<1>7. CASE Tick
  BY <1>7, TimeAssumption DEF Tick, TypeOK
<1> QED BY <1>1, <1>2, <1>3, <1>4, <1>5, <1>6, <1>7, StepCases

\* Every column always holds a value of its type.
THEOREM TypeCorrect == Spec => []TypeOK
<1>1. Init => TypeOK
  BY TypeInit
<1>2. TypeOK /\ [Next]_vars => TypeOK'
  BY TypeStep
<1> QED BY <1>1, <1>2, PTL DEF Spec

-----------------------------------------------------------------------------
(* The accounting invariants.                                              *)

\* The holds are a function the sum lemmas apply to.
LEMMA HoldsType == ASSUME TypeOK PROVE Holds \in [1..N -> Nat] /\ Holds \in [1..N -> Int]
<1>1. \A c \in Cids : Held(row[c]) \in Nat
  BY RowType DEF TypeOK
<1>2. Holds \in [1..N -> Nat]
  BY <1>1 DEF Holds, Cids
<1> QED BY <1>2

\* So are the booked costs.
LEMMA CostsType == ASSUME TypeOK PROVE Costs \in [1..N -> Nat] /\ Costs \in [1..N -> Int]
<1>1. \A c \in Cids : Booked(costLedger[c]) \in Nat
  BY MoneyAssumption DEF TypeOK, Booked
<1>2. Costs \in [1..N -> Nat]
  BY <1>1 DEF Costs, Cids
<1> QED BY <1>2

\* What the sum of the holds becomes when one row changes.
LEMMA HoldsUpdate ==
    ASSUME TypeOK, TypeOK', NEW c \in Cids, \A k \in Cids : k # c => row'[k] = row[k]
    PROVE  Total(Holds') = Total(Holds) + (Held(row'[c]) - Held(row[c]))
<1>1. Holds \in [1..N -> Int]
  BY HoldsType
<1>2. Holds' \in [1..N -> Int]
  <2>1. \A k \in Cids : Held(row'[k]) \in Nat
    BY RowType DEF TypeOK
  <2> QED BY <2>1 DEF Holds, Cids
<1>3. \A k \in 1..N : k # c => Holds'[k] = Holds[k]
  BY DEF Holds, Cids
<1>4. Holds'[c] = Held(row'[c]) /\ Holds[c] = Held(row[c])
  BY DEF Holds
<1>5. Total(Holds') = Total(Holds) + (Holds'[c] - Holds[c])
  <2>1. c \in 1..N
    BY DEF Cids
  <2> QED BY <1>1, <1>2, <1>3, <2>1, NAssumption, SumToUpdate DEF Total
<1> QED BY <1>4, <1>5, Zenon

\* What the sum of the booked costs becomes when one id is settled.
LEMMA CostsUpdate ==
    ASSUME TypeOK, TypeOK', NEW c \in Cids, NEW a \in Amounts, costLedger[c] = NoEntry,
           costLedger' = [costLedger EXCEPT ![c] = a]
    PROVE  Total(Costs') = Total(Costs) + a
<1>1. Costs \in [1..N -> Int]
  BY CostsType
<1>2. Costs' \in [1..N -> Int]
  <2>1. \A k \in Cids : Booked(costLedger'[k]) \in Nat
    BY MoneyAssumption DEF TypeOK, Booked
  <2> QED BY <2>1 DEF Costs, Cids
<1>3. \A k \in 1..N : k # c => Costs'[k] = Costs[k]
  BY DEF Costs, Cids, TypeOK
<1>4. Costs'[c] = a /\ Costs[c] = 0
  BY MoneyAssumption DEF Costs, Booked, TypeOK
<1>5. Total(Costs') = Total(Costs) + (Costs'[c] - Costs[c])
  <2>1. c \in 1..N
    BY DEF Cids
  <2> QED BY <1>1, <1>2, <1>3, <2>1, NAssumption, SumToUpdate DEF Total
<1>6. Total(Costs) \in Int /\ a \in Int
  BY <1>1, NAssumption, MoneyAssumption, SumToInt DEF Total
<1> QED BY <1>4, <1>5, <1>6

\* The accounts of the empty ledger agree.
LEMMA InvInit == Init => IInv
<1> SUFFICES ASSUME Init PROVE IInv
  OBVIOUS
<1>1. TypeOK
  BY TypeInit
<1>2. Total(Holds) = 0
  <2>1. \A c \in 1..N : Holds[c] = 0
    BY DEF Init, Holds, Held, AbsentRow, Cids
  <2> QED BY <1>1, <2>1, HoldsType, NAssumption, SumToZero DEF Total
<1>3. Total(Costs) = 0
  <2>1. \A c \in 1..N : Costs[c] = 0
    BY DEF Init, Costs, Booked, Cids
  <2> QED BY <1>1, <2>1, CostsType, NAssumption, SumToZero DEF Total
<1>4. ReservedMatchesHolds /\ SpentMatchesCostLedger
  BY <1>2, <1>3 DEF Init, ReservedMatchesHolds, SpentMatchesCostLedger, Holds, Costs
<1>5. CommittedMatchesCostLedger /\ HoldsInBudgetCurrency
  BY DEF Init, CommittedMatchesCostLedger, HoldsInBudgetCurrency, AbsentRow
<1>6. OverspendIsAccountedFor
  BY MoneyAssumption DEF Init, OverspendIsAccountedFor
<1> QED BY <1>1, <1>4, <1>5, <1>6 DEF IInv

\* reserve, without a budget: nothing is counted.
LEMMA InvReserveUnbounded ==
    ASSUME IInv, TypeOK', NEW c \in Cids, NEW a \in Amounts, NEW cur \in Currencies,
           ReserveUnbounded(c, a, cur)
    PROVE  IInv'
<1>b. hasBudget' = hasBudget
  BY DEF ReserveUnbounded
<1> USE <1>b
<1>1. ~hasBudget /\ spent' = spent /\ reserved' = reserved
  BY DEF ReserveUnbounded
<1>2. ReservedMatchesHolds' /\ SpentMatchesCostLedger'
  BY <1>1, Zenon DEF IInv, ReservedMatchesHolds, SpentMatchesCostLedger
<1>3. CommittedMatchesCostLedger'
  BY RowReheld DEF IInv, TypeOK, ReserveUnbounded, Hold, Replays, CommittedMatchesCostLedger
<1>4. HoldsInBudgetCurrency' /\ OverspendIsAccountedFor'
  BY <1>1 DEF HoldsInBudgetCurrency, OverspendIsAccountedFor
<1> QED BY <1>2, <1>3, <1>4 DEF IInv

\* reserve, with a budget: the hold and the increment are the same amount.
LEMMA InvReserveHeld ==
    ASSUME IInv, TypeOK', NEW c \in Cids, NEW a \in Amounts, NEW cur \in Currencies,
           ReserveHeld(c, a, cur)
    PROVE  IInv'
<1>b. hasBudget' = hasBudget
  BY DEF ReserveHeld
<1> USE <1>b
<1>0. TypeOK /\ hasBudget /\ a \in Nat
  BY MoneyAssumption DEF IInv, ReserveHeld
<1>1. row' = [row EXCEPT ![c] = Reheld(row[c], a, cur)]
  BY DEF ReserveHeld, Hold
<1>2. Held(row[c]) = 0 /\ Held(row'[c]) = a
  <2>1. row'[c] = Reheld(row[c], a, cur)
    BY <1>0, <1>1 DEF TypeOK
  <2>2. row'[c].status = "reserved" /\ row'[c].est = a
    BY <1>0, <2>1, RowReheld
  <2>3. row[c].status \in {"absent", "released", "expired"}
    BY DEF ReserveHeld, Replays
  <2> QED BY <2>2, <2>3 DEF Held
<1>3. ReservedMatchesHolds'
  <2>1. \A k \in Cids : k # c => row'[k] = row[k]
    BY <1>0, <1>1 DEF TypeOK
  <2>2. Total(Holds') = Total(Holds) + (Held(row'[c]) - Held(row[c]))
    BY <1>0, <2>1, HoldsUpdate
  <2>3. reserved = Total(Holds) /\ reserved' = reserved + a /\ reserved \in Int
    BY <1>0 DEF IInv, ReservedMatchesHolds, Holds, ReserveHeld, TypeOK
  <2>4. reserved' = Total(Holds')
    BY <1>0, <1>2, <2>2, <2>3
  <2> QED BY <1>0, <2>4 DEF ReservedMatchesHolds, Holds
<1>4. SpentMatchesCostLedger'
  BY DEF IInv, SpentMatchesCostLedger, ReserveHeld
<1>5. CommittedMatchesCostLedger'
  BY <1>0, <1>1, RowReheld DEF IInv, TypeOK, ReserveHeld, Replays, CommittedMatchesCostLedger
<1>6. HoldsInBudgetCurrency'
  BY <1>0, <1>1, RowReheld DEF IInv, TypeOK, ReserveHeld, HoldsInBudgetCurrency
<1>7. OverspendIsAccountedFor'
  BY <1>0, MoneyAssumption DEF IInv, TypeOK, ReserveHeld, Fits, OverspendIsAccountedFor
<1> QED BY <1>3, <1>4, <1>5, <1>6, <1>7 DEF IInv

\* settle: the spend enters spent and cost_ledger together, and the hold leaves
\* reserved if and only if it is still there.
LEMMA InvSettle ==
    ASSUME IInv, TypeOK', NEW c \in Cids, NEW a \in Amounts, NEW cur \in Currencies,
           Settle(c, a, cur)
    PROVE  IInv'
<1>b. hasBudget' = hasBudget
  BY DEF Settle
<1> USE <1>b
<1>0. TypeOK /\ a \in Nat /\ row[c] \in Row /\ Held(row[c]) \in Nat
  BY MoneyAssumption, RowType DEF IInv, TypeOK
<1>1. row' = [row EXCEPT ![c] = [row[c] EXCEPT !.status = "committed", !.actual = a]]
  BY DEF Settle
<1>2. /\ row'[c].status = "committed" /\ row'[c].actual = a
      /\ row'[c].currency = row[c].currency
  BY <1>0, <1>1, RowCommitted DEF TypeOK
<1>3. \A k \in Cids : k # c => row'[k] = row[k]
  BY <1>0, <1>1 DEF TypeOK
<1>4. costLedger[c] = NoEntry /\ costLedger' = [costLedger EXCEPT ![c] = a]
  BY DEF IInv, CommittedMatchesCostLedger, Settle, RecordCost
<1>5. ReservedMatchesHolds'
  <2>1. CASE ~hasBudget
    BY <2>1 DEF IInv, ReservedMatchesHolds, Settle, BookSpend
  <2>2. CASE hasBudget
    <3>1. Total(Holds') = Total(Holds) + (Held(row'[c]) - Held(row[c]))
      BY <1>0, <1>3, HoldsUpdate
    <3>2. Held(row'[c]) = 0
      BY <1>2 DEF Held
    <3>3. reserved = Total(Holds) /\ reserved' = reserved - Held(row[c]) /\ reserved \in Int
      BY <1>0, <2>2 DEF IInv, ReservedMatchesHolds, Holds, Settle, BookSpend, TypeOK
    <3>4. reserved' = Total(Holds')
      BY <1>0, <3>1, <3>2, <3>3
    <3> QED BY <2>2, <3>4 DEF ReservedMatchesHolds, Holds
  <2> QED BY <2>1, <2>2
<1>6. SpentMatchesCostLedger'
  <2>1. CASE ~hasBudget
    BY <2>1 DEF IInv, SpentMatchesCostLedger, Settle, BookSpend
  <2>2. CASE hasBudget
    <3>1. Total(Costs') = Total(Costs) + a
      BY <1>0, <1>4, CostsUpdate
    <3>2. spent = Total(Costs) /\ spent' = spent + a
      BY <2>2 DEF IInv, SpentMatchesCostLedger, Costs, Settle, BookSpend
    <3> QED BY <2>2, <3>1, <3>2 DEF SpentMatchesCostLedger, Costs
  <2> QED BY <2>1, <2>2
<1>7. CommittedMatchesCostLedger'
  <2>1. costLedger'[c] = a /\ a # NoEntry
    BY <1>0, <1>4, MoneyAssumption DEF TypeOK
  <2>2. \A k \in Cids : k # c => costLedger'[k] = costLedger[k]
    BY <1>0, <1>4 DEF TypeOK
  <2> QED BY <1>2, <1>3, <2>1, <2>2, Zenon DEF IInv, CommittedMatchesCostLedger
<1>8. HoldsInBudgetCurrency'
  BY <1>2, <1>3, Zenon DEF IInv, HoldsInBudgetCurrency
<1>9. OverspendIsAccountedFor'
  <2> SUFFICES ASSUME hasBudget PROVE spent' + reserved' <= Limit + overrun'
    BY DEF OverspendIsAccountedFor
  <2>1. /\ spent' = spent + a
        /\ reserved' = reserved - Held(row[c])
        /\ overrun' = overrun + Excess(row[c], a)
    BY DEF Settle, BookSpend
  <2>2. Excess(row[c], a) \in Nat /\ a <= Held(row[c]) + Excess(row[c], a)
    BY <1>0, ExcessType
  <2>3. /\ spent \in Int /\ reserved \in Int /\ overrun \in Nat /\ Limit \in Nat
        /\ spent + reserved <= Limit + overrun
    BY MoneyAssumption DEF IInv, TypeOK, OverspendIsAccountedFor
  <2> QED BY <1>0, <2>1, <2>2, <2>3
<1> QED BY <1>5, <1>6, <1>7, <1>8, <1>9 DEF IInv

\* release: a live hold leaves reserved once.
LEMMA InvRelease ==
    ASSUME IInv, TypeOK', NEW c \in Cids, Release(c)
    PROVE  IInv'
<1>b. hasBudget' = hasBudget
  BY DEF Release
<1> USE <1>b
<1>0. TypeOK /\ row[c] \in Row /\ row[c].est \in Nat
  BY RowType DEF IInv, TypeOK
<1>1. row' = [row EXCEPT ![c] = [row[c] EXCEPT !.status = "released"]]
  BY DEF Release
<1>2. row'[c].status = "released" /\ row'[c].currency = row[c].currency
  <2>1. "released" \in Status
    BY DEF Status
  <2> QED BY <1>0, <1>1, <2>1, RowWithStatus DEF TypeOK
<1>3. \A k \in Cids : k # c => row'[k] = row[k]
  BY <1>0, <1>1 DEF TypeOK
<1>4. row[c].status = "reserved"
  BY <1>0, RowType DEF Release, HoldAlreadyReturned, Status
<1>5. ReservedMatchesHolds'
  <2>1. CASE ~hasBudget
    BY <2>1 DEF IInv, ReservedMatchesHolds, Release, ReturnToBudget
  <2>2. CASE hasBudget
    <3>1. Total(Holds') = Total(Holds) + (Held(row'[c]) - Held(row[c]))
      BY <1>0, <1>3, HoldsUpdate
    <3>2. Held(row'[c]) = 0 /\ Held(row[c]) = row[c].est
      BY <1>2, <1>4 DEF Held
    <3>3. reserved = Total(Holds) /\ reserved' = reserved - row[c].est /\ reserved \in Int
      BY <1>0, <2>2 DEF IInv, ReservedMatchesHolds, Holds, Release, ReturnToBudget, TypeOK
    <3>4. reserved' = Total(Holds')
      BY <1>0, <3>1, <3>2, <3>3
    <3> QED BY <2>2, <3>4 DEF ReservedMatchesHolds, Holds
  <2> QED BY <2>1, <2>2
<1>6. SpentMatchesCostLedger'
  BY DEF IInv, SpentMatchesCostLedger, Release
<1>7. CommittedMatchesCostLedger'
  BY <1>2, <1>3, <1>4 DEF IInv, CommittedMatchesCostLedger, Release
<1>8. HoldsInBudgetCurrency'
  BY <1>2, <1>3, Zenon DEF IInv, HoldsInBudgetCurrency
<1>9. OverspendIsAccountedFor'
  BY <1>0, MoneyAssumption
     DEF IInv, TypeOK, Release, ReturnToBudget, OverspendIsAccountedFor
<1> QED BY <1>5, <1>6, <1>7, <1>8, <1>9 DEF IInv

\* reconcile_expired: every hold of the swept rows leaves reserved once.
LEMMA InvReclaim ==
    ASSUME IInv, TypeOK', NEW readAt \in 0..now, NEW swept \in SUBSET Cids,
           Reclaim(readAt, swept)
    PROVE  IInv'
<1>b. hasBudget' = hasBudget
  BY DEF Reclaim, ReconcileExpired
<1> USE <1>b
<1> DEFINE back == [c \in Cids |-> IF c \in swept THEN row[c].est ELSE 0]
<1>0. TypeOK /\ \A c \in Cids : row[c] \in Row /\ row[c].est \in Nat
  BY RowType DEF IInv, TypeOK
<1>1. /\ \A c \in swept : row[c].status = "reserved"
      /\ row' = [c \in Cids |-> IF c \in swept THEN [row[c] EXCEPT !.status = "expired"]
                                               ELSE row[c]]
      /\ spent' = spent /\ costLedger' = costLedger /\ overrun' = overrun
      /\ reserved' = IF hasBudget THEN reserved - Total(back) ELSE reserved
  BY Zenon DEF Reclaim, ReconcileExpired, Stale, ReturnToBudget
<1>2. \A c \in swept : row'[c].status = "expired" /\ row'[c].currency = row[c].currency
  <2>1. "expired" \in Status
    BY DEF Status
  <2> QED BY <1>0, <1>1, <2>1, RowWithStatus
<1>3. \A c \in Cids : c \notin swept => row'[c] = row[c]
  BY <1>1
<1>4. back \in [1..N -> Nat] /\ back \in [1..N -> Int]
  BY <1>0 DEF Cids
<1>5. Total(back) \in Nat
  <2> HIDE DEF back
  <2> QED BY <1>4, NAssumption, SumToNat DEF Total
<1>6. Total(Holds) = Total(Holds') + Total(back)
  <2>1. Holds \in [1..N -> Int]
    BY <1>0, HoldsType
  <2>2. Holds' \in [1..N -> Int]
    <3>1. \A k \in Cids : Held(row'[k]) \in Nat
      BY RowType DEF TypeOK
    <3> QED BY <3>1 DEF Holds, Cids
  <2>3. \A k \in 1..N : Holds[k] = Holds'[k] + back[k]
    <3> SUFFICES ASSUME NEW k \in Cids PROVE Holds[k] = Holds'[k] + back[k]
      BY DEF Cids
    <3>1. CASE k \in swept
      BY <1>0, <1>1, <1>2, <3>1 DEF Holds, Held
    <3>2. CASE k \notin swept
      <4>1. Holds[k] = Held(row[k]) /\ Holds'[k] = Held(row[k]) /\ back[k] = 0
        BY <1>3, <3>2 DEF Holds
      <4>2. Held(row[k]) \in Nat
        BY <1>0, RowType
      <4> QED BY <4>1, <4>2
    <3> QED BY <3>1, <3>2
  <2> HIDE DEF back
  <2> QED BY <1>4, <2>1, <2>2, <2>3, NAssumption, SumToAdd DEF Total
<1> HIDE DEF back
<1>7. ReservedMatchesHolds'
  <2>1. CASE ~hasBudget
    BY <1>1, <2>1 DEF IInv, ReservedMatchesHolds
  <2>2. CASE hasBudget
    <3>1. reserved = Total(Holds) /\ reserved' = reserved - Total(back)
      BY <1>1, <2>2 DEF IInv, ReservedMatchesHolds, Holds
    <3>2. Total(Holds') \in Int
      <4>1. Holds' \in [1..N -> Int]
        <5>1. \A k \in Cids : Held(row'[k]) \in Nat
          BY RowType DEF TypeOK
        <5> QED BY <5>1 DEF Holds, Cids
      <4> QED BY <4>1, NAssumption, SumToInt DEF Total
    <3>3. reserved' = Total(Holds')
      BY <1>5, <1>6, <3>1, <3>2
    <3> QED BY <2>2, <3>3 DEF ReservedMatchesHolds, Holds
  <2> QED BY <2>1, <2>2
<1>8. SpentMatchesCostLedger'
  BY <1>1 DEF IInv, SpentMatchesCostLedger
<1>9. CommittedMatchesCostLedger'
  <2> SUFFICES ASSUME NEW c \in Cids
               PROVE  /\ row'[c].status = "committed" <=> costLedger'[c] # NoEntry
                      /\ row'[c].status = "committed" => row'[c].actual = costLedger'[c]
    BY DEF CommittedMatchesCostLedger
  <2>1. CASE c \in swept
    BY <1>1, <1>2, <2>1 DEF IInv, CommittedMatchesCostLedger
  <2>2. CASE c \notin swept
    BY <1>1, <1>3, <2>2 DEF IInv, CommittedMatchesCostLedger
  <2> QED BY <2>1, <2>2
<1>10. HoldsInBudgetCurrency'
  BY <1>2, <1>3, Zenon DEF IInv, HoldsInBudgetCurrency
<1>11. OverspendIsAccountedFor'
  BY <1>1, <1>5, MoneyAssumption DEF IInv, TypeOK, OverspendIsAccountedFor
<1> QED BY <1>7, <1>8, <1>9, <1>10, <1>11 DEF IInv

\* Every operation, tick and stutter preserves the invariant.
LEMMA InvStep == IInv /\ [Next]_vars => IInv'
<1> SUFFICES ASSUME IInv, [Next]_vars PROVE IInv'
  OBVIOUS
<1>0. TypeOK'
  BY TypeStep DEF IInv
<1>1. CASE UNCHANGED vars
  BY <1>1 DEF vars, IInv, TypeOK, ReservedMatchesHolds, SpentMatchesCostLedger,
              CommittedMatchesCostLedger, HoldsInBudgetCurrency, OverspendIsAccountedFor
<1>2. CASE \E c \in Cids, a \in Amounts, cur \in Currencies : ReserveUnbounded(c, a, cur)
  BY <1>0, <1>2, InvReserveUnbounded
<1>3. CASE \E c \in Cids, a \in Amounts, cur \in Currencies : ReserveHeld(c, a, cur)
  BY <1>0, <1>3, InvReserveHeld
<1>4. CASE \E c \in Cids, a \in Amounts, cur \in Currencies : Settle(c, a, cur)
  BY <1>0, <1>4, InvSettle
<1>5. CASE \E c \in Cids : Release(c)
  BY <1>0, <1>5, InvRelease
<1>6. CASE \E readAt \in 0..now, swept \in SUBSET Cids : Reclaim(readAt, swept)
  BY <1>0, <1>6, InvReclaim
<1>7. CASE Tick
  BY <1>0, <1>7 DEF Tick, IInv, ReservedMatchesHolds, SpentMatchesCostLedger,
              CommittedMatchesCostLedger, HoldsInBudgetCurrency, OverspendIsAccountedFor
<1> QED BY <1>1, <1>2, <1>3, <1>4, <1>5, <1>6, <1>7, StepCases

\* The inductive invariant holds in every reachable state.
THEOREM Invariance == Spec => []IInv
<1>1. Init => IInv
  BY InvInit
<1>2. IInv /\ [Next]_vars => IInv'
  BY InvStep
<1> QED BY <1>1, <1>2, PTL DEF Spec

\* org_budget.reserved is always exactly the sum of the live holds, however
\* many ids are reserved, settled late, released, expired and re-held.
THEOREM HoldsConserved == Spec => []ReservedMatchesHolds
<1>1. IInv => ReservedMatchesHolds
  BY DEF IInv
<1> QED BY <1>1, Invariance, PTL

\* org_budget.spent is always exactly the sum of the cost_ledger entries.
THEOREM SpendConserved == Spec => []SpentMatchesCostLedger
<1>1. IInv => SpentMatchesCostLedger
  BY DEF IInv
<1> QED BY <1>1, Invariance, PTL

\* The committed reservations are the ids with a cost_ledger entry, and agree
\* with it.
THEOREM CommittedIffBooked == Spec => []CommittedMatchesCostLedger
<1>1. IInv => CommittedMatchesCostLedger
  BY DEF IInv
<1> QED BY <1>1, Invariance, PTL

\* The budget is exceeded by no more than late settlements and costs above
\* their estimate account for.
THEOREM OverspendBounded == Spec => []OverspendIsAccountedFor
<1>1. IInv => OverspendIsAccountedFor
  BY DEF IInv
<1> QED BY <1>1, Invariance, PTL

\* Whatever an organization with a budget holds is in the currency of its
\* budget, so that the gating UPDATE adds up amounts of one kind.
THEOREM HoldsShareACurrency == Spec => []HoldsInBudgetCurrency
<1>1. IInv => HoldsInBudgetCurrency
  BY DEF IInv
<1> QED BY <1>1, Invariance, PTL

\* The CHECK constraints of org_budget never fire: neither a late settlement
\* nor a repeated release drives reserved below zero.
THEOREM ConstraintsNeverFire == Spec => []CheckConstraintsHold
<1>1. IInv => CheckConstraintsHold
  <2> SUFFICES ASSUME IInv PROVE CheckConstraintsHold
    OBVIOUS
  <2>1. Total(Holds) \in Nat
    BY HoldsType, NAssumption, SumToNat DEF IInv, Total
  <2>2. Total(Costs) \in Nat
    BY CostsType, NAssumption, SumToNat DEF IInv, Total
  <2>3. reserved = (IF hasBudget THEN Total(Holds) ELSE 0)
        /\ spent = (IF hasBudget THEN Total(Costs) ELSE 0)
    BY Zenon DEF IInv, ReservedMatchesHolds, SpentMatchesCostLedger, Holds, Costs
  <2> QED BY <2>1, <2>2, <2>3 DEF CheckConstraintsHold
<1> QED BY <1>1, Invariance, PTL

\* No operation changes a committed row or the entry that records its cost.
LEMMA CommittedStays ==
    ASSUME IInv, [Next]_vars, NEW k \in Cids, row[k].status = "committed"
    PROVE  row'[k] = row[k] /\ costLedger'[k] = costLedger[k]
<1>0. row \in [Cids -> Row] /\ costLedger \in [Cids -> Amounts \cup {NoEntry}]
  BY DEF IInv, TypeOK
<1>1. CASE UNCHANGED vars
  BY <1>1 DEF vars
<1>2. ASSUME NEW c \in Cids, NEW a \in Amounts, NEW cur \in Currencies,
             ReserveUnbounded(c, a, cur) \/ ReserveHeld(c, a, cur)
      PROVE  row'[k] = row[k] /\ costLedger'[k] = costLedger[k]
  BY <1>0, <1>2 DEF ReserveUnbounded, ReserveHeld, Replays, Hold
<1>3. ASSUME NEW c \in Cids, NEW a \in Amounts, NEW cur \in Currencies, Settle(c, a, cur)
      PROVE  row'[k] = row[k] /\ costLedger'[k] = costLedger[k]
  <2>1. c # k
    BY <1>3 DEF Settle
  <2> QED BY <1>0, <1>3, <2>1 DEF Settle, RecordCost
<1>4. ASSUME NEW c \in Cids, Release(c)
      PROVE  row'[k] = row[k] /\ costLedger'[k] = costLedger[k]
  BY <1>0, <1>4 DEF Release, HoldAlreadyReturned
<1>5. ASSUME NEW readAt \in 0..now, NEW swept \in SUBSET Cids, Reclaim(readAt, swept)
      PROVE  row'[k] = row[k] /\ costLedger'[k] = costLedger[k]
  <2>1. k \notin swept
    BY <1>5 DEF Reclaim, ReconcileExpired, Stale
  <2> QED BY <1>5, <2>1 DEF Reclaim, ReconcileExpired
<1>6. CASE Tick
  BY <1>6 DEF Tick
<1> QED BY <1>1, <1>2, <1>3, <1>4, <1>5, <1>6, StepCases

\* No step changes a committed reservation or the cost recorded for it.
THEOREM SettledForGood == Spec => SettlementIsFinal
<1> DEFINE Final == \A c \in Cids : row[c].status = "committed"
                        => row'[c] = row[c] /\ costLedger'[c] = costLedger[c]
<1>1. IInv /\ [Next]_vars => [Final]_vars
  BY CommittedStays
<1> QED BY <1>1, Invariance, PTL DEF SettlementIsFinal, Spec

\* Where FreshHoldSurvives holds: a hold that is the first of its id, so that
\* created_at is when it was taken, is not reclaimed within its ttl.  (_hold
\* keeps the created_at of an earlier hold when it re-activates a row.)
FirstHoldSurvives ==
    [][\A c \in Cids :
           (row[c].status = "reserved" /\ row'[c].status = "expired"
                                       /\ row[c].createdAt = heldAt[c])
               => now - heldAt[c] > TTL]_vars

\* The sweep never takes the first hold of an id before its ttl is over, though
\* its reading of the clock may be old when it runs: re-activated rows are the
\* only ones it takes too early.
THEOREM OnlyReholdsExpireEarly == Spec => FirstHoldSurvives
<1> DEFINE Survives ==
               \A c \in Cids :
                   (row[c].status = "reserved" /\ row'[c].status = "expired"
                                               /\ row[c].createdAt = heldAt[c])
                       => now - heldAt[c] > TTL
<1>1. IInv /\ [Next]_vars => [Survives]_vars
  <2> SUFFICES ASSUME IInv, [Next]_vars, NEW k \in Cids, row[k].status = "reserved",
                      row'[k].status = "expired", row[k].createdAt = heldAt[k]
               PROVE  now - heldAt[k] > TTL
    OBVIOUS
  <2>0. row \in [Cids -> Row] /\ now \in Nat /\ heldAt[k] \in Nat
    BY TimeAssumption DEF IInv, TypeOK
  <2>1. ASSUME NEW readAt \in 0..now, NEW swept \in SUBSET Cids, Reclaim(readAt, swept)
        PROVE  now - heldAt[k] > TTL
    <3>1. k \in swept
      BY <2>1 DEF Reclaim, ReconcileExpired
    <3>2. row[k].createdAt < readAt - TTL
      BY <2>1, <3>1 DEF Reclaim, ReconcileExpired, Stale
    <3> QED BY <2>0, <3>2, TimeAssumption
  <2>2. ASSUME NEW c \in Cids, NEW a \in Amounts, NEW cur \in Currencies,
               ReserveUnbounded(c, a, cur) \/ ReserveHeld(c, a, cur)
        PROVE  FALSE
    BY <2>0, <2>2 DEF ReserveUnbounded, ReserveHeld, Hold, Reheld
  <2>3. ASSUME NEW c \in Cids, NEW a \in Amounts, NEW cur \in Currencies, Settle(c, a, cur)
        PROVE  FALSE
    <3>1. row' = [row EXCEPT ![c] = [row[c] EXCEPT !.status = "committed", !.actual = a]]
      BY <2>3 DEF Settle
    <3>2. row[c] \in Row
      BY <2>0
    <3>3. [row[c] EXCEPT !.status = "committed", !.actual = a].status = "committed"
      BY <3>2, RowCommitted
    <3> QED BY <2>0, <3>1, <3>3
  <2>4. ASSUME NEW c \in Cids, Release(c) PROVE FALSE
    <3>1. row' = [row EXCEPT ![c] = [row[c] EXCEPT !.status = "released"]]
      BY <2>4 DEF Release
    <3>2. row[c] \in Row /\ "released" \in Status
      BY <2>0 DEF Status
    <3>3. [row[c] EXCEPT !.status = "released"].status = "released"
      BY <3>2, RowWithStatus
    <3> QED BY <2>0, <3>1, <3>3
  <2>5. row' # row
    BY <2>0
  <2>6. ~(UNCHANGED vars) /\ ~Tick
    BY <2>5 DEF vars, Tick
  <2> QED BY <2>1, <2>2, <2>3, <2>4, <2>6, StepCases, Zenon
<1> QED BY <1>1, Invariance, PTL DEF FirstHoldSurvives, Spec

-----------------------------------------------------------------------------
(* The transactions of SqlBudgetLedger.                                    *)

Txn == [pc : {"idle", "advisory", "existing", "gate", "hold", "lockRow", "budget", "book",
              "giveBack", "sweep", "expire"},
        op : {"none", "reserve", "settle", "release", "reconcile"},
        c : Cids, a : Amounts \cup {0}, cur : Currencies, readAt : 0..MaxClock,
        seen : Status, swept : SUBSET Cids]

SqlTypeOK == /\ TypeOK
             /\ txn \in [Sessions -> Txn]
             /\ lock \in [Locks -> Sessions \cup {Nobody}]

\* The operation a session runs agrees with the statement it is at.
Stage(t) ==
    /\ t.pc \in {"advisory", "existing", "gate", "hold"} => t.a \in Amounts
    /\ t.op = "settle" => t.a \in Amounts
    /\ t.pc = "lockRow" => t.op \in {"settle", "release"}
    /\ t.pc = "sweep" => t.op = "reconcile"
    /\ t.pc = "budget" => t.op \in {"settle", "release", "reconcile"}
    /\ t.pc = "book" => t.op = "settle"
    /\ t.pc = "giveBack" => t.op = "release"
    /\ t.pc = "expire" => t.op = "reconcile"

\* The locks a transaction has taken: the advisory lock of its id, the rows it
\* has selected for update, the organization's budget.
Owns(t, l) ==
    \/ t.pc \in {"existing", "gate", "hold"} /\ l = Advisory(t.c)
    \/ t.pc \in {"hold", "book", "giveBack", "expire"} /\ hasBudget /\ l = BudgetLock
    \/ t.pc \in {"budget", "book", "giveBack"} /\ t.op \in {"settle", "release"} /\ l = RowLock(t.c)
    \/ t.pc \in {"budget", "expire"} /\ t.op = "reconcile" /\ \E c \in t.swept : l = RowLock(c)

LockInv == \A p \in Sessions : \A l \in Locks : lock[l] = p <=> Owns(txn[p], l)

\* What a transaction has read is still so: the row of a reserve is as it was
\* seen, but for a late settlement, and its amount fits; the rows of the other
\* operations can still be settled, released or expired.
ReserveRead(t) ==
    t.pc \in {"gate", "hold"} =>
        /\ t.seen \in {"absent", "released", "expired"}
        /\ t.seen \in {"absent", "released"} => row[t.c].status = t.seen
        /\ t.seen = "expired" => row[t.c].status \in {"expired", "committed"}
        /\ hasBudget => t.cur = BudgetCurrency
        /\ t.pc = "gate" => hasBudget
        /\ t.pc = "hold" /\ hasBudget => Fits(t.a)

RowRead(t) ==
    /\ t.pc \in {"budget", "book"} /\ t.op = "settle" =>
           row[t.c].status \in {"reserved", "expired"} /\ t.cur = row[t.c].currency
    /\ t.pc \in {"budget", "giveBack"} /\ t.op = "release" => row[t.c].status = "reserved"
    /\ t.pc \in {"budget", "expire"} /\ t.op = "reconcile" =>
           \A c \in t.swept : row[c].status = "reserved" /\ row[c].createdAt < t.readAt - TTL
    /\ t.readAt <= now

SqlInv == /\ SqlTypeOK /\ LockInv
          /\ \A p \in Sessions : Stage(txn[p]) /\ ReserveRead(txn[p]) /\ RowRead(txn[p])

\* Different locks have different names.
LEMMA LockNames ==
    ASSUME NEW c \in Cids, NEW d \in Cids
    PROVE  /\ Advisory(c) \in Locks /\ RowLock(c) \in Locks /\ BudgetLock \in Locks
           /\ Advisory(c) # RowLock(d) /\ Advisory(c) # BudgetLock /\ RowLock(c) # BudgetLock
           /\ (Advisory(c) = Advisory(d)) <=> (c = d)
           /\ (RowLock(c) = RowLock(d)) <=> (c = d)
BY DEF Locks, Advisory, RowLock, BudgetLock

\* The fields of a transaction.
LEMMA TxnType ==
    ASSUME NEW t \in Txn
    PROVE  /\ t.c \in Cids /\ t.a \in Amounts \cup {0} /\ t.cur \in Currencies
           /\ t.readAt \in 0..MaxClock /\ t.readAt \in Nat
           /\ t.seen \in Status /\ t.swept \in SUBSET Cids
BY DEF Txn

\* A session without a transaction.
LEMMA IdleType == Idle \in Txn /\ Idle.pc = "idle" /\ Idle.op = "none" /\ Idle.readAt = 0
<1>1. 1 \in Cids
  BY NAssumption DEF Cids
<1> QED BY <1>1, MoneyAssumption, TimeAssumption DEF Idle, Txn, Status

\* A step that moves a session on and leaves the ledger alone.
LEMMA MoveKeepsInv ==
    ASSUME SqlInv, NEW p \in Sessions, NEW t \in Txn, UNCHANGED vars,
           txn' = [txn EXCEPT ![p] = t],
           Stage(t), ReserveRead(t), RowRead(t),
           lock' \in [Locks -> Sessions \cup {Nobody}],
           \A l \in Locks : lock'[l] = p <=> Owns(t, l),
           \A l \in Locks, q \in Sessions \ {p} : lock'[l] = q <=> lock[l] = q
    PROVE  SqlInv'
<1>1. /\ txn \in [Sessions -> Txn] /\ TypeOK
      /\ UNCHANGED <<hasBudget, row, spent, reserved, costLedger, now, heldAt, overrun>>
  BY DEF SqlInv, SqlTypeOK, vars
<1>2. TypeOK'
  BY <1>1 DEF TypeOK
<1>3. txn' \in [Sessions -> Txn] /\ txn'[p] = t /\ \A q \in Sessions \ {p} : txn'[q] = txn[q]
  BY <1>1
<1>4. LockInv'
  <2> SUFFICES ASSUME NEW q \in Sessions, NEW l \in Locks
               PROVE  lock'[l] = q <=> Owns(txn[q], l)'
    BY DEF LockInv, Locks, Advisory, RowLock, BudgetLock
  <2>1. CASE q = p
    BY <1>1, <1>3, <2>1 DEF Owns, Advisory, RowLock, BudgetLock
  <2>2. CASE q # p
    <3>1. lock'[l] = q <=> lock[l] = q
      BY <2>2
    <3>2. lock[l] = q <=> Owns(txn[q], l)
      BY DEF SqlInv, LockInv
    <3>3. Owns(txn[q], l)' <=> Owns(txn[q], l)
      BY <1>1, <1>3, <2>2 DEF Owns, Advisory, RowLock, BudgetLock
    <3> QED BY <3>1, <3>2, <3>3
  <2> QED BY <2>1, <2>2
<1>5. ASSUME NEW q \in Sessions
      PROVE  Stage(txn[q])' /\ ReserveRead(txn[q])' /\ RowRead(txn[q])'
  <2>1. CASE q = p
    BY <1>1, <1>3, <2>1 DEF Stage, ReserveRead, RowRead, Fits
  <2>2. CASE q # p
    <3>1. Stage(txn[q]) /\ ReserveRead(txn[q]) /\ RowRead(txn[q])
      BY DEF SqlInv
    <3> QED BY <1>1, <1>3, <2>2, <3>1 DEF Stage, ReserveRead, RowRead, Fits
  <2> QED BY <2>1, <2>2
<1> QED BY <1>2, <1>3, <1>4, <1>5 DEF SqlInv, SqlTypeOK, Locks, Advisory, RowLock, BudgetLock

\* A finished transaction holds no lock, and the others hold theirs.
LEMMA EndTxnFrees ==
    ASSUME SqlInv, NEW p \in Sessions, EndTxn(p)
    PROVE  /\ txn' = [txn EXCEPT ![p] = Idle]
           /\ lock' \in [Locks -> Sessions \cup {Nobody}]
           /\ \A l \in Locks : lock'[l] # p
           /\ \A l \in Locks, q \in Sessions \ {p} : lock'[l] = q <=> lock[l] = q
BY SqlAssumption DEF EndTxn, SqlInv, SqlTypeOK

\* A commit or rollback that leaves the ledger alone drops the locks of its
\* session.
LEMMA EndKeepsInv ==
    ASSUME SqlInv, NEW p \in Sessions, EndTxn(p), UNCHANGED vars
    PROVE  SqlInv'
<1>1. Stage(Idle) /\ ReserveRead(Idle)
  BY IdleType DEF Stage, ReserveRead
<1>2. RowRead(Idle)
  BY IdleType DEF RowRead, SqlInv, SqlTypeOK, TypeOK
<1>3. \A l \in Locks : ~Owns(Idle, l)
  BY IdleType DEF Owns
<1> QED BY <1>1, <1>2, <1>3, IdleType, EndTxnFrees, MoveKeepsInv

\* An operation begins.
LEMMA BeginKeepsInv ==
    ASSUME SqlInv, NEW p \in Sessions, BeginSome(p)
    PROVE  SqlInv'
<1>1. now \in 0..MaxClock /\ now \in Nat
  BY TimeAssumption DEF SqlInv, SqlTypeOK, TypeOK
<1>2. ASSUME NEW t \in Txn, Begin(p, t), Stage(t), t.readAt <= now,
             t.pc \in {"advisory", "lockRow", "sweep"}
      PROVE  SqlInv'
  <2>1. txn[p].pc = "idle" /\ txn' = [txn EXCEPT ![p] = t] /\ UNCHANGED vars /\ UNCHANGED lock
    BY <1>2 DEF Begin, ledger
  <2>2. \A l \in Locks : lock[l] # p /\ ~Owns(t, l)
    <3>1. \A l \in Locks : ~Owns(txn[p], l) /\ ~Owns(t, l)
      BY <1>2, <2>1 DEF Owns
    <3> QED BY <3>1 DEF SqlInv, LockInv
  <2>3. ReserveRead(t) /\ RowRead(t)
    BY <1>2 DEF ReserveRead, RowRead
  <2>4. lock \in [Locks -> Sessions \cup {Nobody}]
    BY DEF SqlInv, SqlTypeOK
  <2> QED BY <1>2, <2>1, <2>2, <2>3, <2>4, MoveKeepsInv
<1>3. ASSUME NEW c \in Cids, NEW a \in Amounts, NEW cur \in Currencies, BeginReserve(p, c, a, cur)
      PROVE  SqlInv'
  <2> DEFINE t == [Idle EXCEPT !.pc = "advisory", !.op = "reserve", !.c = c, !.a = a, !.cur = cur]
  <2>1. t \in Txn /\ t.pc = "advisory" /\ t.op = "reserve" /\ t.a = a /\ t.readAt = 0
    BY IdleType DEF Txn
  <2>2. Stage(t) /\ Begin(p, t)
    BY <1>3, <2>1 DEF Stage, BeginReserve
  <2> HIDE DEF t
  <2> QED BY <1>1, <1>2, <2>1, <2>2
<1>4. ASSUME NEW c \in Cids, NEW a \in Amounts, NEW cur \in Currencies, BeginSettle(p, c, a, cur)
      PROVE  SqlInv'
  <2> DEFINE t == [Idle EXCEPT !.pc = "lockRow", !.op = "settle", !.c = c, !.a = a, !.cur = cur]
  <2>1. t \in Txn /\ t.pc = "lockRow" /\ t.op = "settle" /\ t.a = a /\ t.readAt = 0
    BY IdleType DEF Txn
  <2>2. Stage(t) /\ Begin(p, t)
    BY <1>4, <2>1 DEF Stage, BeginSettle
  <2> HIDE DEF t
  <2> QED BY <1>1, <1>2, <2>1, <2>2
<1>5. ASSUME NEW c \in Cids, BeginRelease(p, c)
      PROVE  SqlInv'
  <2> DEFINE t == [Idle EXCEPT !.pc = "lockRow", !.op = "release", !.c = c]
  <2>1. t \in Txn /\ t.pc = "lockRow" /\ t.op = "release" /\ t.readAt = 0
    BY IdleType DEF Txn
  <2>2. Stage(t) /\ Begin(p, t)
    BY <1>5, <2>1 DEF Stage, BeginRelease
  <2> HIDE DEF t
  <2> QED BY <1>1, <1>2, <2>1, <2>2
<1>6. CASE BeginReconcile(p)
  <2> DEFINE t == [Idle EXCEPT !.pc = "sweep", !.op = "reconcile", !.readAt = now]
  <2>1. t \in Txn /\ t.pc = "sweep" /\ t.op = "reconcile" /\ t.readAt = now
    BY <1>1, IdleType DEF Txn
  <2>2. Stage(t) /\ Begin(p, t)
    BY <1>6, <2>1 DEF Stage, BeginReconcile
  <2> HIDE DEF t
  <2> QED BY <1>1, <1>2, <2>1, <2>2
<1> QED BY <1>3, <1>4, <1>5, <1>6 DEF BeginSome

\* Taking a lock adds it to those of the session.
LEMMA TakeAdds ==
    ASSUME SqlInv, NEW p \in Sessions, NEW l \in Locks, Take(l, p)
    PROVE  /\ lock' \in [Locks -> Sessions \cup {Nobody}]
           /\ \A k \in Locks : lock'[k] = p <=> k = l \/ Owns(txn[p], k)
           /\ \A k \in Locks, q \in Sessions \ {p} : lock'[k] = q <=> lock[k] = q
<1>1. /\ lock \in [Locks -> Sessions \cup {Nobody}]
      /\ \A k \in Locks : lock[k] = p <=> Owns(txn[p], k)
  BY DEF SqlInv, SqlTypeOK, LockInv
<1>2. lock' = [lock EXCEPT ![l] = p] /\ lock[l] \in {Nobody, p} /\ Nobody \notin Sessions
  BY SqlAssumption DEF Take, Free
<1> QED BY <1>1, <1>2

\* A transaction that takes a free lock owns it from then on.
LEMMA TakeKeepsInv ==
    ASSUME SqlInv, NEW p \in Sessions, NEW l \in Locks, Take(l, p), NEW t \in Txn,
           UNCHANGED vars, txn' = [txn EXCEPT ![p] = t],
           Stage(t), ReserveRead(t), RowRead(t),
           \A k \in Locks : Owns(t, k) <=> k = l \/ Owns(txn[p], k)
    PROVE  SqlInv'
<1>1. /\ lock' \in [Locks -> Sessions \cup {Nobody}]
      /\ \A k \in Locks : lock'[k] = p <=> k = l \/ Owns(txn[p], k)
      /\ \A k \in Locks, q \in Sessions \ {p} : lock'[k] = q <=> lock[k] = q
  BY TakeAdds
<1>2. \A k \in Locks : lock'[k] = p <=> Owns(t, k)
  BY <1>1
<1> QED BY <1>1, <1>2, MoveKeepsInv

\* The statements of reserve before the hold.
LEMMA ReserveStatementsKeepInv ==
    ASSUME SqlInv, NEW p \in Sessions, TakeAdvisory(p) \/ ReadExisting(p) \/ Gate(p)
    PROVE  SqlInv'
<1> DEFINE t == txn[p]
<1>1. /\ txn \in [Sessions -> Txn] /\ t \in Txn /\ t.c \in Cids
      /\ lock \in [Locks -> Sessions \cup {Nobody}]
      /\ Stage(t) /\ ReserveRead(t) /\ RowRead(t)
      /\ \A l \in Locks : lock[l] = p <=> Owns(t, l)
      /\ row[t.c] \in Row
  BY TxnType DEF SqlInv, SqlTypeOK, TypeOK, LockInv
<1>a. UNCHANGED vars
  BY DEF TakeAdvisory, ReadExisting, Gate, ledger
<1>2. CASE TakeAdvisory(p)
  <2> DEFINE u == [t EXCEPT !.pc = "existing"]
  <2>1. t.pc = "advisory" /\ Take(Advisory(t.c), p) /\ txn' = [txn EXCEPT ![p] = u]
    BY <1>1, <1>2 DEF TakeAdvisory, Proceed
  <2>2. u \in Txn /\ u.pc = "existing" /\ u.c = t.c /\ u.a = t.a /\ u.op = t.op /\ u.readAt = t.readAt
    BY <1>1 DEF Txn
  <2>3. Stage(u) /\ ReserveRead(u) /\ RowRead(u)
    BY <1>1, <2>1, <2>2 DEF Stage, ReserveRead, RowRead
  <2>4. \A l \in Locks : Owns(u, l) <=> l = Advisory(t.c) \/ Owns(t, l)
    BY <2>1, <2>2 DEF Owns
  <2>5. Advisory(t.c) \in Locks
    BY <1>1, LockNames
  <2> HIDE DEF u
  <2> QED BY <1>a, <2>1, <2>2, <2>3, <2>4, <2>5, TakeKeepsInv
<1>3. CASE ReadExisting(p)
  <2>1. CASE Replays(row[t.c]) \/ (hasBudget /\ t.cur # BudgetCurrency)
    BY <1>3, <1>a, <2>1, EndKeepsInv DEF ReadExisting
  <2>2. CASE ~(Replays(row[t.c]) \/ (hasBudget /\ t.cur # BudgetCurrency))
    <3> DEFINE u == [t EXCEPT !.seen = row[t.c].status, !.pc = IF hasBudget THEN "gate" ELSE "hold"]
    <3>1. t.pc = "existing" /\ txn' = [txn EXCEPT ![p] = u] /\ UNCHANGED lock
      BY <1>1, <1>3, <2>2 DEF ReadExisting
    <3>2. row[t.c].status \in {"absent", "released", "expired"} /\ row[t.c].status \in Status
      BY <2>2, <1>1 DEF Replays, Row
    <3>3. /\ u \in Txn /\ u.pc = (IF hasBudget THEN "gate" ELSE "hold") /\ u.seen = row[t.c].status
          /\ u.c = t.c /\ u.a = t.a /\ u.op = t.op /\ u.cur = t.cur /\ u.readAt = t.readAt
      BY <1>1, <3>2 DEF Txn
    <3>4. Stage(u) /\ ReserveRead(u) /\ RowRead(u)
      BY <1>1, <2>2, <3>1, <3>2, <3>3 DEF Stage, ReserveRead, RowRead
    <3>5. \A l \in Locks : Owns(u, l) <=> Owns(t, l)
      BY <3>1, <3>3 DEF Owns
    <3> HIDE DEF u
    <3> QED BY <1>1, <1>a, <3>1, <3>3, <3>4, <3>5, MoveKeepsInv
  <2> QED BY <2>1, <2>2
<1>4. CASE Gate(p)
  <2>1. CASE ~Fits(t.a)
    BY <1>4, <1>a, <2>1, EndKeepsInv DEF Gate
  <2>2. CASE Fits(t.a)
    <3> DEFINE u == [t EXCEPT !.pc = "hold"]
    <3>1. t.pc = "gate" /\ Take(BudgetLock, p) /\ txn' = [txn EXCEPT ![p] = u]
      BY <1>1, <1>4, <2>2 DEF Gate, Proceed
    <3>2. /\ u \in Txn /\ u.pc = "hold" /\ u.c = t.c /\ u.a = t.a /\ u.op = t.op /\ u.cur = t.cur
          /\ u.seen = t.seen /\ u.readAt = t.readAt
      BY <1>1 DEF Txn
    <3>3. Stage(u) /\ ReserveRead(u) /\ RowRead(u)
      BY <1>1, <2>2, <3>1, <3>2 DEF Stage, ReserveRead, RowRead
    <3>4. hasBudget
      BY <1>1, <3>1 DEF ReserveRead
    <3>5. \A l \in Locks : Owns(u, l) <=> l = BudgetLock \/ Owns(t, l)
      BY <3>1, <3>2, <3>4 DEF Owns
    <3>6. BudgetLock \in Locks
      BY <1>1, LockNames
    <3> HIDE DEF u
    <3> QED BY <1>a, <3>1, <3>2, <3>3, <3>5, <3>6, TakeKeepsInv
  <2> QED BY <2>1, <2>2
<1> QED BY <1>2, <1>3, <1>4

\* The statements of settle, release and reconcile_expired before the commit.
LEMMA OtherStatementsKeepInv ==
    ASSUME SqlInv, NEW p \in Sessions, LockRow(p) \/ UpdateBudget(p) \/ Sweep(p)
    PROVE  SqlInv'
<1> DEFINE t == txn[p]
<1>1. /\ txn \in [Sessions -> Txn] /\ t \in Txn /\ t.c \in Cids
      /\ lock \in [Locks -> Sessions \cup {Nobody}]
      /\ Stage(t) /\ ReserveRead(t) /\ RowRead(t)
      /\ \A l \in Locks : lock[l] = p <=> Owns(t, l)
      /\ row[t.c] \in Row
  BY TxnType DEF SqlInv, SqlTypeOK, TypeOK, LockInv
<1>a. UNCHANGED vars
  BY DEF LockRow, UpdateBudget, Sweep, ledger
<1>2. CASE LockRow(p)
  <2>1. CASE EndTxn(p)
    BY <1>a, <2>1, EndKeepsInv
  <2>2. CASE ~EndTxn(p)
    <3> DEFINE u == [t EXCEPT !.pc = "budget"]
    <3>1. /\ t.pc = "lockRow" /\ Take(RowLock(t.c), p) /\ txn' = [txn EXCEPT ![p] = u]
          /\ row[t.c].status # "absent" /\ ~NothingToDo(t, row[t.c])
      BY <1>1, <1>2, <2>2 DEF LockRow, Proceed
    <3>2. /\ u \in Txn /\ u.pc = "budget" /\ u.c = t.c /\ u.a = t.a /\ u.op = t.op /\ u.cur = t.cur
          /\ u.seen = t.seen /\ u.readAt = t.readAt
      BY <1>1 DEF Txn
    <3>3. t.op \in {"settle", "release"} /\ row[t.c].status \in Status
      BY <1>1, <3>1, RowType DEF Stage
    <3>4. /\ t.op = "settle" => row[t.c].status \in {"reserved", "expired"} /\ t.cur = row[t.c].currency
          /\ t.op = "release" => row[t.c].status = "reserved"
      BY <3>1, <3>3 DEF NothingToDo, HoldAlreadyReturned, Status
    <3>5. Stage(u) /\ ReserveRead(u) /\ RowRead(u)
      BY <1>1, <3>1, <3>2, <3>3, <3>4 DEF Stage, ReserveRead, RowRead
    <3>6. \A l \in Locks : Owns(u, l) <=> l = RowLock(t.c) \/ Owns(t, l)
      BY <3>1, <3>2, <3>3 DEF Owns
    <3>7. RowLock(t.c) \in Locks
      BY <1>1, LockNames
    <3> HIDE DEF u
    <3> QED BY <1>a, <3>1, <3>2, <3>5, <3>6, <3>7, TakeKeepsInv
  <2> QED BY <2>1, <2>2
<1>3. CASE UpdateBudget(p)
  <2> DEFINE next == CASE t.op = "settle" -> "book" [] t.op = "release" -> "giveBack"
                       [] t.op = "reconcile" -> "expire"
             u == [t EXCEPT !.pc = next]
  <2>1. /\ t.pc = "budget" /\ txn' = [txn EXCEPT ![p] = u]
        /\ IF hasBudget THEN Take(BudgetLock, p) ELSE UNCHANGED lock
    BY <1>1, <1>3 DEF UpdateBudget, Proceed
  <2>2. /\ t.op \in {"settle", "release", "reconcile"}
        /\ t.op = "settle" => next = "book"
        /\ t.op = "release" => next = "giveBack"
        /\ t.op = "reconcile" => next = "expire"
    BY <1>1, <2>1 DEF Stage
  <2> HIDE DEF next
  <2>3. /\ u \in Txn /\ u.pc = next /\ u.c = t.c /\ u.a = t.a /\ u.op = t.op /\ u.cur = t.cur
        /\ u.seen = t.seen /\ u.readAt = t.readAt /\ u.swept = t.swept
    <3>1. next \in {"book", "giveBack", "expire"}
      BY <2>2
    <3> QED BY <1>1, <3>1 DEF Txn
  <2> HIDE DEF u
  <2>4. Stage(u) /\ ReserveRead(u) /\ RowRead(u)
    BY <1>1, <2>1, <2>2, <2>3 DEF Stage, ReserveRead, RowRead
  <2>5. BudgetLock \in Locks
    BY <1>1, LockNames
  <2>6. CASE hasBudget
    <3>1. \A l \in Locks : Owns(u, l) <=> l = BudgetLock \/ Owns(t, l)
      BY <2>1, <2>2, <2>3, <2>6 DEF Owns
    <3>2. Take(BudgetLock, p) /\ txn' = [txn EXCEPT ![p] = u] /\ u \in Txn
      BY <2>1, <2>3, <2>6
    <3> QED BY <1>a, <2>4, <2>5, <3>1, <3>2, TakeKeepsInv
  <2>7. CASE ~hasBudget
    <3>1. \A l \in Locks : Owns(u, l) <=> Owns(t, l)
      BY <2>1, <2>2, <2>3, <2>7 DEF Owns
    <3> QED BY <1>1, <1>a, <2>1, <2>3, <2>4, <2>7, <3>1, MoveKeepsInv
  <2> QED BY <2>6, <2>7
<1>4. CASE Sweep(p)
  <2> DEFINE swept == {c \in Stale(t.readAt - TTL) : lock[RowLock(c)] = Nobody}
             u == [t EXCEPT !.swept = swept, !.pc = "budget"]
  <2>1. CASE swept = {}
    BY <1>4, <1>a, <2>1, EndKeepsInv DEF Sweep
  <2>2. CASE swept # {}
    <3>1. /\ t.pc = "sweep" /\ t.op = "reconcile" /\ txn' = [txn EXCEPT ![p] = u]
          /\ lock' = [l \in Locks |-> IF \E c \in swept : l = RowLock(c) THEN p ELSE lock[l]]
      BY <1>1, <1>4, <2>2 DEF Sweep, Stage
    <3>2. /\ swept \subseteq Cids
          /\ \A c \in swept : /\ row[c].status = "reserved" /\ row[c].createdAt < t.readAt - TTL
                              /\ lock[RowLock(c)] = Nobody
      BY DEF Stale
    <3> HIDE DEF swept
    <3>3. /\ u \in Txn /\ u.pc = "budget" /\ u.op = t.op /\ u.readAt = t.readAt /\ u.swept = swept
          /\ u.a = t.a
      BY <1>1, <3>2 DEF Txn
    <3> HIDE DEF u
    <3>4. Stage(u) /\ ReserveRead(u) /\ RowRead(u)
      BY <1>1, <3>1, <3>2, <3>3 DEF Stage, ReserveRead, RowRead
    <3>5. \A l \in Locks : ~Owns(t, l) /\ (Owns(u, l) <=> \E c \in swept : l = RowLock(c))
      BY <3>1, <3>3 DEF Owns
    <3>6. \A l \in Locks : lock'[l] = p <=> Owns(u, l)
      BY <1>1, <3>1, <3>5
    <3>7. lock' \in [Locks -> Sessions \cup {Nobody}]
      BY <1>1, <3>1
    <3>8. \A l \in Locks, q \in Sessions \ {p} : lock'[l] = q <=> lock[l] = q
      BY <3>1, <3>2, SqlAssumption
    <3> QED BY <1>a, <3>1, <3>3, <3>4, <3>6, <3>7, <3>8, MoveKeepsInv
  <2> QED BY <2>1, <2>2
<1> QED BY <1>2, <1>3, <1>4

\* What another session has read stays so when this one writes the rows in D:
\* the locks of D, or what it has read of them, rule out a conflict.
LEMMA OtherReadsHold ==
    ASSUME SqlInv, NEW p \in Sessions, NEW q \in Sessions \ {p}, NEW D \in SUBSET Cids,
           txn'[q] = txn[q], hasBudget' = hasBudget, now' = now,
           \A c \in Cids \ D : row'[c] = row[c],
           \A c \in D : lock[RowLock(c)] # q \/ row[c].status = "absent",
           \A c \in D : \/ lock[Advisory(c)] # q
                        \/ row[c].status = "reserved"
                        \/ row[c].status = "expired" /\ row'[c].status = "committed",
           UNCHANGED <<reserved, spent>> \/ lock[BudgetLock] # q \/ ~hasBudget
    PROVE  ReserveRead(txn[q])' /\ RowRead(txn[q])'
<1> DEFINE t == txn[q]
<1>1. /\ t \in Txn /\ t.c \in Cids /\ t.swept \in SUBSET Cids
      /\ Stage(t) /\ ReserveRead(t) /\ RowRead(t)
      /\ \A l \in Locks : lock[l] = q <=> Owns(t, l)
  BY TxnType DEF SqlInv, SqlTypeOK, LockInv
<1>2. /\ \A c \in Cids : Advisory(c) \in Locks /\ RowLock(c) \in Locks
      /\ BudgetLock \in Locks
  BY <1>1, LockNames
<1>3. ReserveRead(txn[q])'
  <2>1. SUFFICES ASSUME t.pc \in {"gate", "hold"} PROVE ReserveRead(txn[q])'
    BY DEF ReserveRead
  <2>2. lock[Advisory(t.c)] = q
    BY <1>1, <1>2, <2>1 DEF Owns
  <2>3. row'[t.c] = row[t.c] \/ (row[t.c].status = "expired" /\ row'[t.c].status = "committed")
    BY <1>1, <2>1, <2>2 DEF ReserveRead
  <2>4. t.pc = "hold" /\ hasBudget => UNCHANGED <<reserved, spent>>
    <3>1. t.pc = "hold" /\ hasBudget => lock[BudgetLock] = q
      BY <1>1, <1>2 DEF Owns
    <3> QED BY <3>1
  <2> QED BY <1>1, <2>1, <2>3, <2>4 DEF ReserveRead, Fits
<1>4. RowRead(txn[q])'
  <2>1. t.pc \in {"budget", "book", "giveBack"} /\ t.op \in {"settle", "release"}
          => row'[t.c] = row[t.c]
    <3> SUFFICES ASSUME t.pc \in {"budget", "book", "giveBack"}, t.op \in {"settle", "release"}
                 PROVE  row'[t.c] = row[t.c]
      OBVIOUS
    <3>1. lock[RowLock(t.c)] = q
      BY <1>1, <1>2 DEF Owns
    <3>2. row[t.c].status # "absent"
      BY <1>1 DEF RowRead, Stage
    <3> QED BY <1>1, <3>1, <3>2
  <2>2. t.pc \in {"budget", "expire"} /\ t.op = "reconcile" => \A c \in t.swept : row'[c] = row[c]
    <3> SUFFICES ASSUME t.pc \in {"budget", "expire"}, t.op = "reconcile", NEW c \in t.swept
                 PROVE  row'[c] = row[c]
      OBVIOUS
    <3>1. lock[RowLock(c)] = q
      BY <1>1, <1>2 DEF Owns
    <3>2. row[c].status # "absent"
      BY <1>1 DEF RowRead
    <3> QED BY <1>1, <3>1, <3>2
  <2> QED BY <1>1, <2>1, <2>2 DEF RowRead
<1> QED BY <1>3, <1>4

\* A transaction that has written commits.
LEMMA CommitKeepsInv ==
    ASSUME SqlInv, NEW p \in Sessions, EndTxn(p), TypeOK', hasBudget' = hasBudget, now' = now,
           \A q \in Sessions \ {p} : ReserveRead(txn[q])' /\ RowRead(txn[q])'
    PROVE  SqlInv'
<1>1. txn \in [Sessions -> Txn] /\ txn' = [txn EXCEPT ![p] = Idle]
  BY EndTxnFrees DEF SqlInv, SqlTypeOK
<1>2. txn' \in [Sessions -> Txn] /\ txn'[p] = Idle /\ \A q \in Sessions \ {p} : txn'[q] = txn[q]
  BY <1>1, IdleType
<1>3. /\ lock' \in [Locks -> Sessions \cup {Nobody}]
      /\ \A l \in Locks : lock'[l] # p
      /\ \A l \in Locks, q \in Sessions \ {p} : lock'[l] = q <=> lock[l] = q
  BY EndTxnFrees
<1>4. LockInv'
  <2> SUFFICES ASSUME NEW q \in Sessions, NEW l \in Locks
               PROVE  lock'[l] = q <=> Owns(txn[q], l)'
    BY DEF LockInv, Locks, Advisory, RowLock, BudgetLock
  <2>1. CASE q = p
    BY <1>2, <1>3, <2>1, IdleType DEF Owns
  <2>2. CASE q # p
    <3>1. lock[l] = q <=> Owns(txn[q], l)
      BY DEF SqlInv, LockInv
    <3>2. Owns(txn[q], l)' <=> Owns(txn[q], l)
      BY <1>2, <2>2 DEF Owns, Advisory, RowLock, BudgetLock
    <3> QED BY <1>3, <2>2, <3>1, <3>2
  <2> QED BY <2>1, <2>2
<1>5. ASSUME NEW q \in Sessions
      PROVE  Stage(txn[q])' /\ ReserveRead(txn[q])' /\ RowRead(txn[q])'
  <2>1. CASE q = p
    <3>1. 0 <= now'
      BY DEF TypeOK
    <3> QED BY <1>2, <2>1, <3>1, IdleType DEF Stage, ReserveRead, RowRead
  <2>2. CASE q # p
    <3>1. Stage(txn[q])
      BY DEF SqlInv
    <3> QED BY <1>2, <2>2, <3>1 DEF Stage
  <2> QED BY <2>1, <2>2
<1> QED BY <1>2, <1>3, <1>4, <1>5 DEF SqlInv, SqlTypeOK, Locks, Advisory, RowLock, BudgetLock

\* The commit of each operation is that operation of BudgetLedgerPort, but for
\* the re-hold that overwrites a settlement.
LEMMA CommitsArePortSteps ==
    ASSUME SqlInv, NEW p \in Sessions
    PROVE  LET t == txn[p]
           IN  /\ HoldAndCommit(p) => \/ LostSettlement(p)
                                      \/ ReserveUnbounded(t.c, t.a, t.cur)
                                      \/ ReserveHeld(t.c, t.a, t.cur)
               /\ HoldAndCommit(p) \/ BookAndCommit(p) => t.a \in Amounts
               /\ BookAndCommit(p) => Settle(t.c, t.a, t.cur)
               /\ GiveBackAndCommit(p) => Release(t.c)
               /\ ExpireAndCommit(p) => Reclaim(t.readAt, t.swept) /\ t.readAt \in 0..now
<1> DEFINE t == txn[p]
<1>1. /\ t \in Txn /\ t.c \in Cids /\ t.swept \in SUBSET Cids /\ t.readAt \in Nat
      /\ Stage(t) /\ ReserveRead(t) /\ RowRead(t) /\ now \in Nat
  BY TxnType, TimeAssumption DEF SqlInv, SqlTypeOK, TypeOK
<1>2. ASSUME HoldAndCommit(p), ~LostSettlement(p)
      PROVE  ReserveUnbounded(t.c, t.a, t.cur) \/ ReserveHeld(t.c, t.a, t.cur)
  <2>1. /\ t.pc = "hold" /\ Hold(t.c, t.a, t.cur)
        /\ reserved' = (IF hasBudget THEN reserved + t.a ELSE reserved)
        /\ UNCHANGED <<hasBudget, spent, costLedger, now, overrun>>
    BY <1>2 DEF HoldAndCommit
  <2>2. ~Replays(row[t.c])
    BY <1>1, <1>2, <2>1 DEF ReserveRead, Replays, LostSettlement
  <2>3. CASE hasBudget
    <3>1. t.cur = BudgetCurrency /\ Fits(t.a)
      BY <1>1, <2>1, <2>3 DEF ReserveRead
    <3> QED BY <2>1, <2>2, <2>3, <3>1 DEF ReserveHeld
  <2>4. CASE ~hasBudget
    BY <2>1, <2>2, <2>4 DEF ReserveUnbounded
  <2> QED BY <2>3, <2>4
<1>3. HoldAndCommit(p) \/ BookAndCommit(p) => t.a \in Amounts
  BY <1>1 DEF HoldAndCommit, BookAndCommit, Stage
<1>4. ASSUME BookAndCommit(p) PROVE Settle(t.c, t.a, t.cur)
  BY <1>1, <1>4 DEF BookAndCommit, Settle, Stage, RowRead
<1>5. ASSUME GiveBackAndCommit(p) PROVE Release(t.c)
  BY <1>1, <1>5 DEF GiveBackAndCommit, Release, Stage, RowRead, HoldAlreadyReturned
<1>6. ASSUME ExpireAndCommit(p) PROVE Reclaim(t.readAt, t.swept) /\ t.readAt \in 0..now
  <2>1. t.readAt \in 0..now
    BY <1>1 DEF RowRead
  <2>2. t.swept \subseteq Stale(t.readAt - TTL)
    BY <1>1, <1>6 DEF ExpireAndCommit, Stage, RowRead, Stale
  <2> QED BY <1>6, <2>1, <2>2 DEF ExpireAndCommit, Reclaim, ReconcileExpired
<1> QED BY <1>2, <1>3, <1>4, <1>5, <1>6

\* A commit keeps every column of its type.
LEMMA CommitKeepsType ==
    ASSUME SqlInv, NEW p \in Sessions,
           \/ HoldAndCommit(p) \/ BookAndCommit(p)
           \/ GiveBackAndCommit(p) \/ ExpireAndCommit(p)
    PROVE  TypeOK'
<1> DEFINE t == txn[p]
<1>1. /\ TypeOK /\ t \in Txn /\ t.c \in Cids /\ t.swept \in SUBSET Cids /\ t.cur \in Currencies
  BY TxnType DEF SqlInv, SqlTypeOK
<1>2. CASE HoldAndCommit(p)
  <2>1. t.a \in Amounts /\ t.a \in Nat
    BY <1>2, CommitsArePortSteps, MoneyAssumption
  <2> QED BY <1>1, <1>2, <2>1, RowReheld DEF HoldAndCommit, Hold, TypeOK
<1>3. CASE BookAndCommit(p)
  <2>1. Next
    BY <1>1, <1>3, CommitsArePortSteps DEF Next, SettleCall
  <2> QED BY <1>1, <2>1, TypeStep
<1>4. CASE GiveBackAndCommit(p)
  <2>1. Next
    BY <1>1, <1>4, CommitsArePortSteps DEF Next, ReleaseCall
  <2> QED BY <1>1, <2>1, TypeStep
<1>5. CASE ExpireAndCommit(p)
  <2>1. Next
    BY <1>1, <1>5, CommitsArePortSteps DEF Next
  <2> QED BY <1>1, <2>1, TypeStep
<1> QED BY <1>2, <1>3, <1>4, <1>5

\* The commits: _hold, the settlement, the release and the sweep.
LEMMA CommitsKeepInv ==
    ASSUME SqlInv, NEW p \in Sessions,
           \/ HoldAndCommit(p) \/ BookAndCommit(p)
           \/ GiveBackAndCommit(p) \/ ExpireAndCommit(p)
    PROVE  SqlInv'
<1> DEFINE t == txn[p]
<1>1. /\ TypeOK /\ t \in Txn /\ t.c \in Cids /\ t.swept \in SUBSET Cids
      /\ Stage(t) /\ ReserveRead(t) /\ RowRead(t) /\ row \in [Cids -> Row]
      /\ \A l \in Locks : lock[l] = p <=> Owns(t, l)
  BY TxnType DEF SqlInv, SqlTypeOK, TypeOK, LockInv
<1>2. TypeOK'
  BY CommitKeepsType
<1>3. EndTxn(p) /\ hasBudget' = hasBudget /\ now' = now
  BY DEF HoldAndCommit, BookAndCommit, GiveBackAndCommit, ExpireAndCommit
<1>4. \A q \in Sessions \ {p} : txn'[q] = txn[q]
  BY <1>3, EndTxnFrees DEF SqlInv, SqlTypeOK
<1>5. /\ \A c \in Cids : Advisory(c) \in Locks /\ RowLock(c) \in Locks
      /\ BudgetLock \in Locks
  BY <1>1, LockNames
<1>6. hasBudget => lock[BudgetLock] = p
  BY <1>1, <1>5 DEF Owns, HoldAndCommit, BookAndCommit, GiveBackAndCommit, ExpireAndCommit
<1>7. ASSUME NEW q \in Sessions \ {p}
      PROVE  ReserveRead(txn[q])' /\ RowRead(txn[q])'
  <2>1. txn'[q] = txn[q] /\ (lock[BudgetLock] # q \/ ~hasBudget)
    BY <1>4, <1>6
  <2>2. CASE HoldAndCommit(p)
    <3>1. \A c \in Cids \ {t.c} : row'[c] = row[c]
      BY <1>1, <2>2 DEF HoldAndCommit, Hold
    <3>2. lock[RowLock(t.c)] # q \/ row[t.c].status = "absent"
      BY <2>2, SqlAssumption DEF HoldAndCommit, Free
    <3>3. lock[Advisory(t.c)] # q
      BY <1>1, <1>5, <2>2 DEF HoldAndCommit, Owns
    <3>4. {t.c} \in SUBSET Cids
      BY <1>1
    <3> QED BY <1>3, <2>1, <3>1, <3>2, <3>3, <3>4, OtherReadsHold
  <2>3. CASE BookAndCommit(p)
    <3>1. /\ \A c \in Cids \ {t.c} : row'[c] = row[c]
          /\ row'[t.c].status = "committed" /\ row[t.c].status \in {"reserved", "expired"}
      <4>1. row[t.c] \in Row /\ t.a \in Amounts
        BY <1>1, <2>3, CommitsArePortSteps
      <4>2. row' = [row EXCEPT ![t.c] = [row[t.c] EXCEPT !.status = "committed", !.actual = t.a]]
        BY <2>3 DEF BookAndCommit
      <4>3. row[t.c].status \in {"reserved", "expired"}
        BY <1>1, <2>3 DEF BookAndCommit, Stage, RowRead
      <4> QED BY <1>1, <4>1, <4>2, <4>3, RowCommitted
    <3>2. lock[RowLock(t.c)] # q
      BY <1>1, <1>5, <2>3 DEF BookAndCommit, Owns, Stage
    <3>3. {t.c} \in SUBSET Cids
      BY <1>1
    <3> QED BY <1>3, <2>1, <3>1, <3>2, <3>3, OtherReadsHold
  <2>4. CASE GiveBackAndCommit(p)
    <3>1. /\ \A c \in Cids \ {t.c} : row'[c] = row[c]
          /\ row[t.c].status = "reserved"
      BY <1>1, <2>4 DEF GiveBackAndCommit, Stage, RowRead
    <3>2. lock[RowLock(t.c)] # q
      BY <1>1, <1>5, <2>4 DEF GiveBackAndCommit, Owns, Stage
    <3>3. {t.c} \in SUBSET Cids
      BY <1>1
    <3> QED BY <1>3, <2>1, <3>1, <3>2, <3>3, OtherReadsHold
  <2>5. CASE ExpireAndCommit(p)
    <3>1. /\ \A c \in Cids \ t.swept : row'[c] = row[c]
          /\ \A c \in t.swept : row[c].status = "reserved"
      BY <1>1, <2>5 DEF ExpireAndCommit, Stage, RowRead
    <3>2. \A c \in t.swept : lock[RowLock(c)] # q
      BY <1>1, <1>5, <2>5 DEF ExpireAndCommit, Owns, Stage
    <3> QED BY <1>1, <1>3, <2>1, <3>1, <3>2, OtherReadsHold
  <2> QED BY <2>2, <2>3, <2>4, <2>5
<1> QED BY <1>2, <1>3, <1>7, CommitKeepsInv

\* No transaction runs on the empty ledger.
LEMMA SqlInvInit == SqlInit => SqlInv
<1> SUFFICES ASSUME SqlInit PROVE SqlInv
  OBVIOUS
<1>1. SqlTypeOK
  BY TypeInit, IdleType DEF SqlInit, SqlTypeOK
<1>2. LockInv
  BY IdleType, SqlAssumption DEF SqlInit, LockInv, Owns
<1>3. now = 0
  BY DEF SqlInit, Init
<1> QED BY <1>1, <1>2, <1>3, IdleType DEF SqlInit, SqlInv, Stage, ReserveRead, RowRead

\* Time passes: what was read stays true.
LEMMA TickKeepsInv ==
    ASSUME SqlInv, SqlTick
    PROVE  SqlInv'
<1>1. /\ UNCHANGED <<hasBudget, row, spent, reserved, txn, lock>>
      /\ now' = now + 1 /\ now \in Nat /\ Next
  BY TimeAssumption DEF SqlTick, Tick, Next, SqlInv, SqlTypeOK, TypeOK
<1>2. TypeOK'
  BY <1>1, TypeStep DEF SqlInv, SqlTypeOK
<1>3. \A p \in Sessions : txn[p].readAt <= now'
  <2>1. \A p \in Sessions : txn[p].readAt \in Nat /\ txn[p].readAt <= now
    BY TxnType DEF SqlInv, SqlTypeOK, RowRead
  <2> QED BY <1>1, <2>1
<1>4. SqlTypeOK' /\ LockInv'
  BY <1>1, <1>2 DEF SqlInv, SqlTypeOK, LockInv, Owns, Locks, Advisory, RowLock, BudgetLock
<1> QED BY <1>1, <1>3, <1>4 DEF SqlInv, Stage, ReserveRead, RowRead, Fits

\* No statement, commit, abort or tick breaks the invariant of the
\* transactions.
LEMMA SqlInvStep == SqlInv /\ [SqlNext]_sqlVars => SqlInv'
<1> SUFFICES ASSUME SqlInv, [SqlNext]_sqlVars PROVE SqlInv'
  OBVIOUS
<1>1. CASE UNCHANGED sqlVars
  <2>1. UNCHANGED <<hasBudget, row, spent, reserved, costLedger, now, heldAt, overrun, txn, lock>>
    BY <1>1 DEF sqlVars
  <2>2. SqlTypeOK' /\ LockInv'
    BY <2>1 DEF SqlInv, SqlTypeOK, TypeOK, LockInv, Owns, Locks, Advisory, RowLock, BudgetLock
  <2> QED BY <2>1, <2>2 DEF SqlInv, Stage, ReserveRead, RowRead, Fits
<1>2. ASSUME NEW p \in Sessions, DeadlockVictim(p) \/ Abort(p)
      PROVE  SqlInv'
  BY <1>2, EndKeepsInv DEF DeadlockVictim, Abort, ledger
<1>3. ASSUME NEW p \in Sessions, Statement(p)
      PROVE  SqlInv'
  BY <1>2, <1>3, ReserveStatementsKeepInv, OtherStatementsKeepInv, CommitsKeepInv DEF Statement
<1> QED BY <1>1, <1>2, <1>3, BeginKeepsInv, TickKeepsInv DEF SqlNext

\* The invariant of the transactions: what each has locked and read.
THEOREM SqlInvariance == SqlSpec => []SqlInv
BY SqlInvInit, SqlInvStep, PTL DEF SqlSpec

\* A statement of SqlBudgetLedger is an operation of BudgetLedgerPort, or the
\* re-hold that overwrites a settlement, or leaves the ledger alone.
LEMMA SqlStepIsPortStep ==
    ASSUME SqlInv, [SqlNext]_sqlVars
    PROVE  [Next \/ \E p \in Sessions : LostSettlement(p)]_vars
<1>1. CASE UNCHANGED sqlVars
  BY <1>1 DEF sqlVars, vars
<1>2. ASSUME NEW p \in Sessions, BeginSome(p) \/ Abort(p) PROVE UNCHANGED vars
  BY <1>2 DEF BeginSome, BeginReserve, BeginSettle, BeginRelease, BeginReconcile, Begin, Abort, ledger
<1>3. ASSUME NEW p \in Sessions, Statement(p)
      PROVE  [Next \/ \E q \in Sessions : LostSettlement(q)]_vars
  <2>1. CASE \/ TakeAdvisory(p) \/ ReadExisting(p) \/ Gate(p) \/ LockRow(p) \/ UpdateBudget(p)
             \/ Sweep(p) \/ DeadlockVictim(p)
    BY <2>1 DEF TakeAdvisory, ReadExisting, Gate, LockRow, UpdateBudget, Sweep, DeadlockVictim, ledger
  <2>2. /\ txn[p] \in Txn /\ txn[p].c \in Cids /\ txn[p].cur \in Currencies
        /\ txn[p].swept \in SUBSET Cids
    BY TxnType DEF SqlInv, SqlTypeOK
  <2>3. CASE HoldAndCommit(p)
    <3>1. txn[p].a \in Amounts
      BY <2>3, CommitsArePortSteps
    <3> QED BY <2>2, <2>3, <3>1, CommitsArePortSteps DEF Next, Reserve
  <2>4. CASE BookAndCommit(p)
    BY <2>2, <2>4, CommitsArePortSteps DEF Next, SettleCall
  <2>5. CASE GiveBackAndCommit(p)
    BY <2>2, <2>5, CommitsArePortSteps DEF Next, ReleaseCall
  <2>6. CASE ExpireAndCommit(p)
    BY <2>2, <2>6, CommitsArePortSteps DEF Next
  <2> QED BY <1>3, <2>1, <2>3, <2>4, <2>5, <2>6 DEF Statement
<1>4. CASE SqlTick
  BY <1>4 DEF SqlTick, Next
<1> QED BY <1>1, <1>2, <1>3, <1>4 DEF SqlNext

\* Every interleaving of the statements of SqlBudgetLedger's transactions, with
\* aborts, deadlock victims and sweeps that skip locked rows, behaves as some
\* order of the atomic operations of BudgetLedgerPort, but for the re-hold that
\* overwrites the late settlement of its own id.
THEOREM SqlImplementsThePort == SqlSpec => ImplementsPortButForRehold
<1>1. SqlInit => Init
  BY DEF SqlInit
<1>2. SqlInv /\ [SqlNext]_sqlVars => [Next \/ \E p \in Sessions : LostSettlement(p)]_vars
  BY SqlStepIsPortStep
<1> QED BY <1>1, <1>2, SqlInvariance, PTL DEF SqlSpec, ImplementsPortButForRehold

\* In a run of the transactions in which that race is never lost, every
\* accounting invariant of the port holds.
THEOREM AccountsHoldWithoutTheRace ==
    SqlSpec /\ [][~ \E p \in Sessions : LostSettlement(p)]_sqlVars => Spec /\ []IInv
<1>1. SqlInit => Init
  BY DEF SqlInit
<1>2. ASSUME SqlInv, [SqlNext]_sqlVars, [~ \E p \in Sessions : LostSettlement(p)]_sqlVars
      PROVE  [Next]_vars
  <2>1. CASE UNCHANGED sqlVars
    BY <2>1 DEF sqlVars, vars
  <2>2. CASE ~ \E p \in Sessions : LostSettlement(p)
    BY <1>2, <2>2, SqlStepIsPortStep
  <2> QED BY <1>2, <2>1, <2>2
<1>3. SqlSpec /\ [][~ \E p \in Sessions : LostSettlement(p)]_sqlVars => Spec
  BY <1>1, <1>2, SqlInvariance, PTL DEF SqlSpec, Spec
<1> QED BY <1>3, Invariance, PTL

-----------------------------------------------------------------------------
(* Waiting cycles.                                                         *)

\* What a session waits for is a lock.
LEMMA WaitLock ==
    ASSUME SqlInv, NEW p \in Sessions, NEW q, WaitsFor(p, q)
    PROVE  \E l \in Locks : lock[l] = q
<1>1. PICK l \in Wants(p) : lock[l] = q
  BY DEF WaitsFor
<1>2. txn[p].c \in Cids
  BY TxnType DEF SqlInv, SqlTypeOK
<1>3. Wants(p) \subseteq {Advisory(txn[p].c), RowLock(txn[p].c), BudgetLock}
  BY DEF Wants
<1> QED BY <1>1, <1>2, <1>3, LockNames

\* What a waiting session is at, and what the one it waits for has locked.
LEMMA WaitShape ==
    ASSUME SqlInv, NEW p \in Sessions, NEW q \in Sessions, WaitsFor(p, q)
    PROVE  /\ p # q /\ txn[q].pc \notin {"advisory", "lockRow"}
           /\ \/ /\ txn[p].pc = "advisory"
              \/ /\ txn[p].pc = "lockRow"
              \/ /\ txn[p].pc \in {"gate", "budget"} /\ hasBudget
                 /\ txn[q].pc \in {"hold", "book", "giveBack", "expire"}
                 /\ lock[BudgetLock] = q
              \/ /\ txn[p].pc = "hold" /\ txn[p].seen # "absent"
                 /\ lock[RowLock(txn[p].c)] = q
                 /\ txn[q].pc \in {"budget", "book", "giveBack", "expire"}
<1>1. p # q /\ \E l \in Wants(p) : lock[l] = q
  BY DEF WaitsFor
<1>2. PICK l \in Wants(p) : lock[l] = q
  BY <1>1
<1>3. /\ txn[p].c \in Cids /\ txn[q].c \in Cids /\ txn[q].swept \in SUBSET Cids
      /\ ReserveRead(txn[p])
      /\ \A k \in Locks : lock[k] = q <=> Owns(txn[q], k)
  BY TxnType DEF SqlInv, SqlTypeOK, LockInv
<1>4. \/ txn[p].pc = "advisory"
      \/ txn[p].pc = "lockRow"
      \/ txn[p].pc \in {"gate", "budget"} /\ hasBudget /\ l = BudgetLock
      \/ txn[p].pc = "hold" /\ txn[p].seen # "absent" /\ l = RowLock(txn[p].c)
  BY <1>2, <1>3 DEF Wants, ReserveRead
<1>5. ASSUME lock[BudgetLock] = q PROVE txn[q].pc \in {"hold", "book", "giveBack", "expire"}
  <2>1. Owns(txn[q], BudgetLock)
    BY <1>3, <1>5, LockNames
  <2>2. /\ BudgetLock # Advisory(txn[q].c) /\ BudgetLock # RowLock(txn[q].c)
        /\ \A c \in txn[q].swept : BudgetLock # RowLock(c)
    BY <1>3, LockNames
  <2> QED BY <2>1, <2>2 DEF Owns
<1>6. ASSUME NEW c \in Cids, lock[RowLock(c)] = q
      PROVE  txn[q].pc \in {"budget", "book", "giveBack", "expire"}
  <2>1. Owns(txn[q], RowLock(c))
    BY <1>3, <1>6, LockNames
  <2>2. RowLock(c) # Advisory(txn[q].c) /\ RowLock(c) # BudgetLock
    BY <1>3, LockNames
  <2> QED BY <2>1, <2>2 DEF Owns
<1>7. txn[q].pc \notin {"advisory", "lockRow"}
  <2>1. \E k \in Locks : Owns(txn[q], k)
    BY <1>3, WaitLock
  <2> QED BY <2>1 DEF Owns
<1> QED BY <1>1, <1>2, <1>3, <1>4, <1>5, <1>6, <1>7

\* A reserve at its hold has the budget: the holder of the row it waits for, if
\* that waits at all, waits for it.
LEMMA HolderWaitsBack ==
    ASSUME SqlInv, NEW s \in Sessions, NEW t \in Sessions, NEW u \in Sessions,
           txn[s].pc = "hold", WaitsFor(s, t), WaitsFor(t, u)
    PROVE  WaitsFor(t, s)
<1>1. lock[RowLock(txn[s].c)] = t /\ txn[t].pc \in {"budget", "book", "giveBack", "expire"} /\ s # t
  BY WaitShape
<1>2. txn[t].pc = "budget" /\ hasBudget
  BY <1>1, WaitShape
<1>3. lock[BudgetLock] = s
  <2>1. Owns(txn[s], BudgetLock) /\ txn[s].c \in Cids
    BY <1>2, TxnType DEF Owns, SqlInv, SqlTypeOK
  <2> QED BY <2>1, LockNames DEF SqlInv, LockInv
<1> QED BY <1>1, <1>2, <1>3 DEF WaitsFor, Wants

\* The only waiting cycle the lock order of SqlBudgetLedger leaves open is that
\* of a re-hold of an expired id and the late settlement of the same id.
THEOREM DeadlocksAreReholds == SqlSpec => []DeadlockOnlyOnRehold
<1>1. ASSUME SqlInv, NEW s \in Sessions, NEW t \in Sessions, txn[s].pc = "hold",
             WaitsFor(s, t), WaitsFor(t, s)
      PROVE  txn[s].seen = "expired" /\ txn[t].op = "settle" /\ txn[t].c = txn[s].c
  <2>1. /\ lock[RowLock(txn[s].c)] = t /\ s # t /\ txn[s].seen # "absent"
        /\ txn[t].pc = "budget"
    BY <1>1, WaitShape
  <2>2. /\ txn[s].c \in Cids /\ txn[t].c \in Cids /\ txn[t].swept \in SUBSET Cids
        /\ ReserveRead(txn[s]) /\ RowRead(txn[t]) /\ Stage(txn[t])
        /\ \A k \in Locks : lock[k] = t <=> Owns(txn[t], k)
    BY <1>1, TxnType DEF SqlInv, SqlTypeOK, LockInv
  <2>3. Owns(txn[t], RowLock(txn[s].c))
    BY <2>1, <2>2, LockNames
  <2>4. row[txn[s].c].status # "reserved"
    BY <1>1, <2>2 DEF ReserveRead
  <2>5. \/ txn[t].op \in {"settle", "release"} /\ RowLock(txn[s].c) = RowLock(txn[t].c)
        \/ txn[t].op = "reconcile" /\ \E c \in txn[t].swept : RowLock(txn[s].c) = RowLock(c)
    BY <2>1, <2>3 DEF Owns
  <2>6. txn[t].op # "reconcile"
    <3> SUFFICES ASSUME txn[t].op = "reconcile" PROVE FALSE
      OBVIOUS
    <3>1. PICK c \in txn[t].swept : RowLock(txn[s].c) = RowLock(c)
      BY <2>5
    <3>2. c = txn[s].c
      BY <2>2, <3>1, LockNames
    <3> QED BY <2>1, <2>2, <2>4, <3>2 DEF RowRead
  <2>7. txn[t].c = txn[s].c
    BY <2>2, <2>5, <2>6, LockNames
  <2>8. txn[t].op = "settle"
    BY <2>1, <2>2, <2>4, <2>5, <2>6, <2>7 DEF RowRead
  <2>9. txn[s].seen = "expired"
    BY <1>1, <2>1, <2>2, <2>7, <2>8 DEF RowRead, ReserveRead
  <2> QED BY <2>7, <2>8, <2>9
<1>2. SqlInv => DeadlockOnlyOnRehold
  <2> SUFFICES ASSUME SqlInv, NEW p \in Sessions, NEW q \in Sessions, WaitsFor(p, q), WaitsFor(q, p)
               PROVE  \E s \in {p, q} : \E t \in {p, q} \ {s} :
                          /\ txn[s].pc = "hold" /\ txn[s].seen = "expired"
                          /\ txn[t].op = "settle" /\ txn[t].c = txn[s].c
    BY DEF DeadlockOnlyOnRehold
  <2>1. p # q /\ (txn[p].pc = "hold" \/ txn[q].pc = "hold")
    BY WaitShape
  <2>2. CASE txn[p].pc = "hold"
    BY <1>1, <2>1, <2>2
  <2>3. CASE txn[q].pc = "hold"
    BY <1>1, <2>1, <2>3
  <2> QED BY <2>1, <2>2, <2>3
<1> QED BY <1>2, SqlInvariance, PTL

\* Sessions that wait only for each other.
Stuck(S) == S # {} /\ \A p \in S : \E q \in S : WaitsFor(p, q)

\* However many sessions wait for each other, two of them do so directly: a
\* waiting cycle of SqlBudgetLedger never has to be longer than two, so that
\* aborting one of two sessions, as DeadlockVictim does, breaks every cycle.
THEOREM CyclesHaveLengthTwo ==
    SqlSpec => [](\A S \in SUBSET Sessions : Stuck(S) =>
                      \E p, q \in S : WaitsFor(p, q) /\ WaitsFor(q, p))
<1>1. ASSUME SqlInv, NEW S \in SUBSET Sessions, Stuck(S)
      PROVE  \E p, q \in S : WaitsFor(p, q) /\ WaitsFor(q, p)
  <2>1. \A p \in S : p \in Sessions /\ \E q \in S : WaitsFor(p, q)
    BY <1>1 DEF Stuck
  <2>2. ASSUME NEW s \in S, txn[s].pc = "hold"
        PROVE  \E p, q \in S : WaitsFor(p, q) /\ WaitsFor(q, p)
    <3>1. PICK t \in S : WaitsFor(s, t)
      BY <2>1
    <3>2. PICK u \in S : WaitsFor(t, u)
      BY <2>1
    <3>3. WaitsFor(t, s)
      BY <1>1, <2>1, <2>2, <3>1, <3>2, HolderWaitsBack
    <3> QED BY <3>1, <3>3
  <2>3. \E s \in S : txn[s].pc = "hold"
    <3>1. PICK p \in S : TRUE
      BY <1>1 DEF Stuck
    <3>2. PICK q \in S : WaitsFor(p, q)
      BY <2>1
    <3>3. PICK r \in S : WaitsFor(q, r)
      BY <2>1
    <3>4. PICK t \in S : WaitsFor(r, t)
      BY <2>1
    <3>5. p \in Sessions /\ q \in Sessions /\ r \in Sessions /\ t \in Sessions
      BY <2>1
    <3>6. \/ txn[p].pc = "hold" \/ txn[q].pc = "hold" \/ txn[r].pc = "hold"
      <4>1. txn[q].pc \notin {"advisory", "lockRow"}
        BY <1>1, <3>2, <3>5, WaitShape
      <4>2. txn[q].pc = "hold" \/ txn[r].pc \in {"hold", "book", "giveBack", "expire"}
        BY <1>1, <3>3, <3>5, <4>1, WaitShape
      <4>3. txn[r].pc \notin {"book", "giveBack", "expire"}
        BY <1>1, <3>4, <3>5, WaitShape
      <4> QED BY <4>2, <4>3
    <3> QED BY <3>6
  <2> QED BY <2>2, <2>3
<1>2. SqlInv => \A S \in SUBSET Sessions : Stuck(S) =>
                    \E p, q \in S : WaitsFor(p, q) /\ WaitsFor(q, p)
  BY <1>1
<1> QED BY <1>2, SqlInvariance, PTL

=============================================================================
