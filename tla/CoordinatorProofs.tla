------------------------- MODULE CoordinatorProofs -------------------------
(***************************************************************************)
(* The two coordinators over the ledger, for any number of requests,       *)
(* replicas, streams and faults: every step of theirs is a step of the     *)
(* ledger, so that all that is proved of the ledger holds of it in their   *)
(* hands; holds are never left behind in silence; and only what is         *)
(* accounted for is cached.                                                *)
(***************************************************************************)
EXTENDS BudgetLedgerProofs, InferenceCoordinator, StreamingCoordinator

-----------------------------------------------------------------------------
(* What the calls of a coordinator do to the ledger.                       *)

\* The row of d as any step on another id leaves it: a sweep may expire a hold
\* that is older than the ttl.
Kept(d) ==
    /\ heldAt'[d] = heldAt[d]
    /\ row'[d].createdAt = row[d].createdAt
    /\ \/ row'[d].status = row[d].status
       \/ /\ row[d].status = "reserved"
          /\ row'[d].status = "expired"
          /\ now - row[d].createdAt > TTL

\* A ledger that is left alone keeps every row.
LEMMA KeptIdle ==
    ASSUME UNCHANGED vars
    PROVE  [Next]_vars /\ now' = now /\ \A d \in Cids : Kept(d)
  BY DEF vars, Kept

\* A hold that is granted is a step of the ledger on its id alone.
LEMMA KeptReserve ==
    ASSUME TypeOK, NEW c \in Cids, NEW a \in Amounts, NEW cur \in Currencies,
           ReserveUnbounded(c, a, cur) \/ ReserveHeld(c, a, cur)
    PROVE  /\ [Next]_vars /\ now' = now
           /\ \A d \in Cids \ {c} : Kept(d)
           /\ row[c].status # "committed"
           /\ row'[c].status = "reserved"
           /\ heldAt'[c] = now
           /\ row[c].status = "absent" => row'[c].createdAt = now
<1>1. Next
  BY Zenon DEF Next, Reserve
<1>2. row' = [row EXCEPT ![c] = Reheld(row[c], a, cur)] /\ heldAt' = [heldAt EXCEPT ![c] = now]
      /\ now' = now /\ row[c].status # "committed"
  BY DEF ReserveUnbounded, ReserveHeld, Hold, Replays
<1>3. row \in [Cids -> Row] /\ heldAt \in [Cids -> 0..MaxClock]
  BY DEF TypeOK
<1> QED BY <1>1, <1>2, <1>3 DEF Kept, Reheld

\* So is a settlement.
LEMMA KeptSettle ==
    ASSUME TypeOK, NEW c \in Cids, NEW a \in Amounts, NEW cur \in Currencies,
           Settle(c, a, cur)
    PROVE  /\ [Next]_vars /\ now' = now
           /\ \A d \in Cids \ {c} : Kept(d)
           /\ row'[c].status = "committed"
<1>1. Next
  BY Zenon DEF Next, SettleCall
<1>2. row' = [row EXCEPT ![c] = [row[c] EXCEPT !.status = "committed", !.actual = a]]
      /\ heldAt' = heldAt /\ now' = now
  BY DEF Settle
<1>3. row \in [Cids -> Row]
  BY DEF TypeOK
<1>4. row'[c].status = "committed" /\ \A d \in Cids \ {c} : row'[d] = row[d]
  BY <1>2, <1>3, RowCommitted
<1> QED BY <1>1, <1>2, <1>4 DEF Kept

\* So is a release.
LEMMA KeptRelease ==
    ASSUME TypeOK, NEW c \in Cids, Release(c)
    PROVE  /\ [Next]_vars /\ now' = now
           /\ \A d \in Cids \ {c} : Kept(d)
           /\ row'[c].status = "released"
<1>1. Next
  BY Zenon DEF Next, ReleaseCall
<1>2. row' = [row EXCEPT ![c] = [row[c] EXCEPT !.status = "released"]]
      /\ heldAt' = heldAt /\ now' = now
  BY DEF Release
<1>3. row \in [Cids -> Row] /\ row[c] \in Row /\ "released" \in Status
  BY DEF TypeOK, Status
<1>4. row'[c].status = "released" /\ \A d \in Cids \ {c} : row'[d] = row[d]
  BY <1>2, <1>3, RowWithStatus
<1> QED BY <1>1, <1>2, <1>4 DEF Kept

\* A sweep with the clock as it stands expires only holds older than the ttl.
LEMMA KeptReclaim ==
    ASSUME TypeOK, Reclaim(now, Stale(now - TTL))
    PROVE  [Next]_vars /\ now' = now /\ \A d \in Cids : Kept(d)
<1>1. now \in 0..now /\ Stale(now - TTL) \in SUBSET Cids
  BY TimeAssumption DEF TypeOK, Stale
<1>2. Next
  BY <1>1, Zenon DEF Next
<1>3. row \in [Cids -> Row] /\ "expired" \in Status
  BY DEF TypeOK, Status
<1>4. /\ row' = [c \in Cids |-> IF c \in Stale(now - TTL)
                                THEN [row[c] EXCEPT !.status = "expired"] ELSE row[c]]
      /\ heldAt' = heldAt /\ now' = now
  BY DEF Reclaim, ReconcileExpired
<1>5. ASSUME NEW d \in Cids PROVE Kept(d)
  <2>1. CASE d \notin Stale(now - TTL)
    BY <1>4, <2>1 DEF Kept
  <2>2. CASE d \in Stale(now - TTL)
    <3>1. row[d].status = "reserved" /\ row[d].createdAt < now - TTL
      BY <2>2 DEF Stale
    <3>2. row[d] \in Row /\ row[d].createdAt \in 0..MaxClock /\ now \in 0..MaxClock
      BY <1>3, RowType DEF TypeOK
    <3>3. now - row[d].createdAt > TTL
      BY <3>1, <3>2, TimeAssumption
    <3>4. row'[d] = [row[d] EXCEPT !.status = "expired"]
      BY <1>4, <2>2
    <3>5. row'[d].status = "expired" /\ row'[d].createdAt = row[d].createdAt
      BY <3>2, <3>4, <1>3 DEF Row
    <3> QED BY <3>1, <3>3, <3>5, <1>4 DEF Kept
  <2> QED BY <2>1, <2>2
<1> QED BY <1>2, <1>4, <1>5

\* The clock moves forward and disturbs no row.
LEMMA KeptTick ==
    ASSUME TypeOK, Tick
    PROVE  [Next]_vars /\ now' \in Nat /\ now <= now' /\ \A d \in Cids : Kept(d)
<1>1. Next
  BY DEF Next
<1>2. now \in 0..MaxClock
  BY DEF TypeOK
<1> QED BY <1>1, <1>2, TimeAssumption DEF Tick, Kept

-----------------------------------------------------------------------------
(* The unary path: the inductive invariant.                                *)

Phases == {"new", "lookup", "coalesce", "awaiting", "ended"}
\* The phases of a request that has not asked for a task yet.
Starting == {"new", "lookup", "coalesce"}
\* The steps of a task that has been told RESERVED ...
Owning == {"execute", "settle", "put", "releaseFailed", "releaseDefect"}
\* ... and those before.
Unreserved == {"none", "reclaim", "reserve"}
TaskSteps == Owning \cup Unreserved \cup {"ended"}

CoordTypeOK == /\ placement \in Placements
               /\ phase \in [Requests -> Phases]
               /\ task \in [Requests -> TaskSteps]
               /\ answered \subseteq Requests

\* A request whose handler has not coalesced has started no task.
NotStarted == \A r \in Requests : phase[r] \in Starting => task[r] = "none"

\* What is about to be settled or cached was answered by the provider, and what
\* is about to be cached has been settled.
PutIsSettled ==
    \A r \in Requests :
        /\ task[r] \in {"settle", "put"} => r \in answered
        /\ task[r] = "put" => row[CidOf(r)].status = "committed"

\* No other task was ever started for the id of t.
Alone(t) == \A s \in Requests \ {t} : CidOf(s) = CidOf(t) => task[s] = "none"

\* The hold of a provider call: it is in place, or it is older than the ttl,
\* created_at being the time it was taken.
InPlace(c) == /\ row[c].createdAt = heldAt[c]
              /\ \/ row[c].status = "reserved"
                 \/ row[c].status = "expired" /\ now - heldAt[c] > TTL

\* A task that is alone on its id takes the first hold of the id, which covers
\* its call.
Covered(t) == Alone(t) => /\ task[t] \in Unreserved => row[CidOf(t)].status = "absent"
                          /\ task[t] = "execute" => InPlace(CidOf(t))

CoordInv == /\ CoordTypeOK
            /\ IInv
            /\ NotStarted
            /\ PutIsSettled
            /\ HoldsAreOwned
            /\ CachedIsAccounted
            /\ \A t \in Requests : Covered(t)

\* The ids of requests are ids of the ledger.
LEMMA CidType == ASSUME CoordTypeOK, NEW r \in Requests PROVE CidOf(r) \in Cids
  BY CoordAssumption DEF CoordTypeOK, CidOf

\* InPlace survives a step that keeps the row.
LEMMA KeptInPlace ==
    ASSUME TypeOK, TypeOK', NEW d \in Cids, Kept(d), now <= now', InPlace(d)
    PROVE  InPlace(d)'
<1>1. now \in Nat /\ now' \in Nat /\ heldAt[d] \in Nat /\ heldAt'[d] = heldAt[d]
  BY TimeAssumption DEF TypeOK, Kept
<1>2. now - heldAt[d] > TTL => now' - heldAt'[d] > TTL
  BY <1>1, TimeAssumption
<1> QED BY <1>1, <1>2 DEF InPlace, Kept

\* What is booked stays booked.
LEMMA BookedStays ==
    ASSUME IInv, [Next]_vars, NEW c \in Cids, costLedger[c] # NoEntry
    PROVE  costLedger'[c] # NoEntry
<1>1. row[c].status = "committed"
  BY DEF IInv, CommittedMatchesCostLedger
<1> QED BY <1>1, CommittedStays

\* Nothing but expiry or the owner of an id ends its hold: a step that keeps
\* every row, in which tasks start, pass their sweep, or end without a hold
\* that is not adrift, preserves the invariant.
LEMMA QuietStep ==
    ASSUME CoordInv, [Next]_vars, now <= now', \A d \in Cids : Kept(d),
           placement' = placement, phase' \in [Requests -> Phases],
           task' \in [Requests -> TaskSteps],
           answered' = answered, cache' = cache, adrift \subseteq adrift',
           \A r \in Requests : phase'[r] \in Starting
                                 => phase[r] \in Starting /\ task'[r] = task[r],
           \A r \in Requests :
               \/ task'[r] = task[r]
               \/ task[r] = "none" /\ task'[r] = "reclaim"
               \/ task[r] = "reclaim" /\ task'[r] = "reserve"
               \/ /\ task[r] # "none" /\ task'[r] = "ended"
                  /\ CidOf(r) \in adrift' \/ task[r] \in Unreserved
    PROVE  CoordInv'
<1>0. CoordTypeOK' /\ IInv' /\ TypeOK /\ TypeOK' /\ CoordTypeOK
  BY InvStep DEF CoordInv, CoordTypeOK, IInv
<1>1. \A r \in Requests : CidOf(r) \in Cids /\ CidOf(r)' = CidOf(r)
  BY <1>0, CidType DEF CidOf
<1>2. NotStarted'
  BY DEF CoordInv, NotStarted
<1>3. PutIsSettled'
  <2>1. ASSUME NEW r \in Requests, task'[r] = "put" PROVE row'[CidOf(r)].status = "committed"
    <3>1. row[CidOf(r)].status = "committed"
      BY <2>1 DEF CoordInv, PutIsSettled
    <3> QED BY <3>1, <1>1, CommittedStays DEF CoordInv
  <2> QED BY <2>1, <1>1 DEF CoordInv, PutIsSettled
<1>4. HoldsAreOwned'
  <2> SUFFICES ASSUME NEW c \in Cids, row'[c].status = "reserved", c \notin adrift'
               PROVE  \E t \in Requests : /\ task'[t] \notin {"none", "ended"}
                                          /\ CidOf(t)' = c
                                          /\ task'[t] \notin {"reclaim", "reserve"}
    BY DEF HoldsAreOwned, Live
  <2>1. row[c].status = "reserved" /\ c \notin adrift
    BY DEF Kept
  <2>2. PICK t \in Requests : /\ task[t] \notin {"none", "ended", "reclaim", "reserve"}
                              /\ CidOf(t) = c
    BY <2>1 DEF CoordInv, HoldsAreOwned, Live
  <2>3. task'[t] = task[t]
    BY <2>2 DEF Unreserved
  <2> QED BY <2>2, <2>3, <1>1
<1>5. CachedIsAccounted'
  <2> SUFFICES ASSUME NEW k \in cache
               PROVE  \E t \in answered : KeyOf[t] = k /\ costLedger'[CidOf(t)] # NoEntry
    BY <1>0, <1>1 DEF CachedIsAccounted, CoordTypeOK
  <2>1. PICK t \in answered : KeyOf[t] = k /\ costLedger[CidOf(t)] # NoEntry
    BY DEF CoordInv, CachedIsAccounted
  <2>2. CidOf(t) \in Cids
    BY <1>0, <1>1 DEF CoordTypeOK
  <2> QED BY <2>1, <2>2, BookedStays DEF CoordInv
<1>6. ASSUME NEW t \in Requests PROVE Covered(t)'
  <2> SUFFICES ASSUME Alone(t)'
               PROVE  /\ task'[t] \in Unreserved => row'[CidOf(t)].status = "absent"
                      /\ task'[t] = "execute" => InPlace(CidOf(t))'
    BY <1>1 DEF Covered
  <2>1. Alone(t)
    BY <1>1 DEF Alone
  <2>2. Kept(CidOf(t)) /\ Covered(t)
    BY <1>1 DEF CoordInv
  <2>3. CASE task'[t] \in Unreserved
    <3>1. task[t] \in Unreserved
      BY <2>3 DEF Unreserved
    <3> QED BY <2>1, <2>2, <2>3, <3>1 DEF Covered, Kept, Unreserved
  <2>4. CASE task'[t] = "execute"
    <3>1. task[t] = "execute"
      BY <2>4
    <3>2. InPlace(CidOf(t))
      BY <3>1, <2>1, <2>2 DEF Covered
    <3>3. InPlace(CidOf(t))'
      <4> DEFINE d == CidOf(t)
      <4>1. d \in Cids /\ d' = d /\ Kept(d) /\ InPlace(d)
        BY <1>1, <2>2, <3>2
      <4> QED BY <4>1, <1>0, KeptInPlace
    <3> QED BY <2>4, <3>3 DEF Unreserved
  <2> QED BY <2>3, <2>4
<1> QED BY <1>0, <1>2, <1>3, <1>4, <1>5, <1>6 DEF CoordInv

\* A step of one task on the hold of its own id, with the conditions that each
\* of those steps has to meet.
LEMMA TaskMove ==
    ASSUME CoordInv, [Next]_vars, now <= now', NEW t \in Requests, NEW x \in Owning \cup {"ended"},
           \A d \in Cids \ {CidOf(t)} : Kept(d),
           task[t] \in Owning \cup {"reserve"}, task' = [task EXCEPT ![t] = x],
           placement' = placement, phase' \in [Requests -> Phases],
           \A r \in Requests : phase'[r] \in Starting => phase[r] \in Starting,
           answered \subseteq answered', answered' \subseteq Requests,
           adrift \subseteq adrift',
           row'[CidOf(t)].status = "reserved" =>
               \/ x \in Owning
               \/ CidOf(t) \in adrift'
               \/ row[CidOf(t)].status = "reserved" /\ task[t] = "reserve",
           x \in {"settle", "put"} => t \in answered',
           x = "put" => row'[CidOf(t)].status = "committed",
           cache' = cache \/ (cache' = cache \cup {KeyOf[t]} /\ task[t] = "put"),
           Alone(t) /\ x = "execute" =>
               /\ row'[CidOf(t)].status = "reserved"
               /\ row'[CidOf(t)].createdAt = heldAt'[CidOf(t)]
    PROVE  CoordInv'
<1>0. CoordTypeOK' /\ IInv' /\ TypeOK /\ TypeOK' /\ CoordTypeOK /\ IInv
  BY InvStep DEF CoordInv, CoordTypeOK, IInv, TaskSteps
<1>1. \A r \in Requests : CidOf(r) \in Cids /\ CidOf(r)' = CidOf(r)
  BY <1>0, CidType DEF CidOf
<1>a. /\ task'[t] = x /\ x \notin Unreserved
      /\ \A r \in Requests \ {t} : task'[r] = task[r]
  BY <1>0 DEF CoordTypeOK, Owning, Unreserved
<1>2. NotStarted'
  <2>1. phase[t] \notin Starting
    BY DEF CoordInv, NotStarted, Owning
  <2> QED BY <2>1, <1>a DEF CoordInv, NotStarted
<1>3. PutIsSettled'
  <2>1. ASSUME NEW r \in Requests, task'[r] = "put" PROVE row'[CidOf(r)].status = "committed"
    <3>1. CASE r = t
      BY <3>1, <2>1, <1>a
    <3>2. CASE r # t
      <4>1. row[CidOf(r)].status = "committed"
        BY <2>1, <3>2, <1>a DEF CoordInv, PutIsSettled
      <4> QED BY <4>1, <1>1, CommittedStays DEF CoordInv
    <3> QED BY <3>1, <3>2
  <2> QED BY <2>1, <1>1, <1>a DEF CoordInv, PutIsSettled
<1>4. HoldsAreOwned'
  <2> SUFFICES ASSUME NEW c \in Cids, row'[c].status = "reserved", c \notin adrift'
               PROVE  \E s \in Requests : /\ task'[s] \notin {"none", "ended"}
                                          /\ CidOf(s)' = c
                                          /\ task'[s] \notin {"reclaim", "reserve"}
    BY DEF HoldsAreOwned, Live
  <2>1. CASE c = CidOf(t) /\ x \in Owning
    BY <2>1, <1>1, <1>a DEF Owning
  <2>2. CASE ~ (c = CidOf(t) /\ x \in Owning)
    <3>1. row[c].status = "reserved" /\ c \notin adrift
          /\ (c = CidOf(t) => task[t] = "reserve")
      BY <2>2 DEF Kept
    <3>2. PICK s \in Requests : /\ task[s] \notin {"none", "ended", "reclaim", "reserve"}
                                /\ CidOf(s) = c
      BY <3>1 DEF CoordInv, HoldsAreOwned, Live
    <3>3. s # t
      BY <3>1, <3>2
    <3> QED BY <3>2, <3>3, <1>1, <1>a
  <2> QED BY <2>1, <2>2
<1>5. CachedIsAccounted'
  <2> SUFFICES ASSUME NEW k \in cache'
               PROVE  \E r \in answered' : KeyOf[r] = k /\ costLedger'[CidOf(r)] # NoEntry
    BY <1>0, <1>1 DEF CachedIsAccounted, CoordTypeOK
  <2>1. CASE k \in cache
    <3>1. PICK r \in answered : KeyOf[r] = k /\ costLedger[CidOf(r)] # NoEntry
      BY <2>1 DEF CoordInv, CachedIsAccounted
    <3>2. CidOf(r) \in Cids
      BY <1>0, <1>1 DEF CoordTypeOK
    <3>3. costLedger'[CidOf(r)] # NoEntry
      BY <3>1, <3>2, <1>0, BookedStays
    <3> QED BY <3>1, <3>3
  <2>2. CASE k = KeyOf[t] /\ task[t] = "put"
    <3>1. row[CidOf(t)].status = "committed" /\ t \in answered
      BY <2>2 DEF CoordInv, PutIsSettled
    <3>2. costLedger[CidOf(t)] # NoEntry
      BY <3>1, <1>0, <1>1 DEF IInv, CommittedMatchesCostLedger
    <3>3. costLedger'[CidOf(t)] # NoEntry
      BY <3>2, <1>0, <1>1, BookedStays
    <3> QED BY <2>2, <3>1, <3>3
  <2> QED BY <2>1, <2>2
<1>6. ASSUME NEW s \in Requests PROVE Covered(s)'
  <2> SUFFICES ASSUME Alone(s)'
               PROVE  /\ task'[s] \in Unreserved => row'[CidOf(s)].status = "absent"
                      /\ task'[s] = "execute" => InPlace(CidOf(s))'
    BY <1>1 DEF Covered
  <2>1. Alone(s)
    BY <1>1, <1>a DEF Alone, Unreserved
  <2>2. CASE s = t
    <3> DEFINE d == CidOf(t)
    <3>1. CASE x = "execute"
      <4>1. d' = d /\ row'[d].status = "reserved" /\ row'[d].createdAt = heldAt'[d]
        BY <2>1, <2>2, <3>1, <1>1
      <4>2. InPlace(d)'
        BY <4>1 DEF InPlace
      <4> QED BY <2>2, <3>1, <4>2, <1>a DEF Unreserved
    <3>2. CASE x # "execute"
      BY <3>2, <2>2, <1>a
    <3> QED BY <3>1, <3>2
  <2>3. CASE s # t
    <3>1. CidOf(s) # CidOf(t)
      <4>1. task'[t] # "none"
        BY <1>a DEF Unreserved
      <4> QED BY <4>1, <2>3, <1>1 DEF Alone
    <3> DEFINE d == CidOf(s)
    <3>2. d \in Cids /\ d' = d /\ Kept(d) /\ Covered(s) /\ task'[s] = task[s]
      BY <1>1, <1>a, <2>3, <3>1 DEF CoordInv
    <3>3. CASE task'[s] \in Unreserved
      <4>1. row[d].status = "absent"
        BY <2>1, <3>2, <3>3 DEF Covered
      <4> QED BY <4>1, <3>2, <3>3 DEF Kept, Unreserved
    <3>4. CASE task'[s] = "execute"
      <4>1. InPlace(d)
        BY <2>1, <3>2, <3>4 DEF Covered
      <4>2. InPlace(d)'
        BY <4>1, <3>2, <1>0, KeptInPlace
      <4> QED BY <4>2, <3>4 DEF Unreserved
    <3> QED BY <3>3, <3>4
  <2> QED BY <2>2, <2>3
<1> QED BY <1>0, <1>2, <1>3, <1>4, <1>5, <1>6 DEF CoordInv

-----------------------------------------------------------------------------
(* The unary path: its steps.                                              *)

\* A task that goes on leaves every request where it is.
LEMMA GotoMoves ==
    ASSUME CoordTypeOK, NEW t \in Requests, NEW x \in TaskSteps, Goto(t, x)
    PROVE  /\ task' = [task EXCEPT ![t] = x] /\ task' \in [Requests -> TaskSteps]
           /\ phase' \in [Requests -> Phases]
           /\ \A r \in Requests : phase'[r] \in Starting => phase[r] \in Starting
           /\ phase' = phase
  BY DEF Goto, CoordTypeOK

\* A task that ends moves only requests that await it.
LEMMA FinishMoves ==
    ASSUME CoordTypeOK, NEW t \in Requests, NEW o, Finish(t, o)
    PROVE  /\ task' = [task EXCEPT ![t] = "ended"] /\ task' \in [Requests -> TaskSteps]
           /\ phase' \in [Requests -> Phases]
           /\ \A r \in Requests : phase'[r] \in Starting => phase[r] \in Starting
<1>1. task' = [task EXCEPT ![t] = "ended"]
      /\ phase' = [r \in Requests |->
                     IF r \in {q \in Requests : phase[q] = "awaiting" /\ awaits[q] = t}
                     THEN "ended" ELSE phase[r]]
  BY DEF Finish
<1> QED BY <1>1 DEF CoordTypeOK, TaskSteps, Phases, Starting

\* What the requests do before they have a task, and what cancels them.
LEMMA StepHandler ==
    ASSUME CoordInv, NEW r \in Requests,
           Arrive(r) \/ NotRouted(r) \/ CacheHit(r) \/ CacheMiss(r) \/ Coalesce(r) \/ Cancel(r)
    PROVE  CoordInv' /\ [Next]_vars
<1>0. CoordTypeOK /\ TypeOK
  BY DEF CoordInv, IInv
<1>1. UNCHANGED vars /\ placement' = placement /\ answered' = answered /\ cache' = cache
      /\ adrift' = adrift
  BY DEF Arrive, NotRouted, CacheHit, CacheMiss, Coalesce, Cancel
<1>2. [Next]_vars /\ now' = now /\ \A d \in Cids : Kept(d)
  BY <1>1, KeptIdle
<1>3. now <= now'
  BY <1>0, <1>2, TimeAssumption DEF TypeOK
<1>4. PICK p \in Phases : phase' = [phase EXCEPT ![r] = p]
                          /\ (p \in Starting => phase[r] \in Starting /\ task' = task)
  BY DEF Arrive, NotRouted, CacheHit, CacheMiss, Coalesce, Cancel, End, Phases, Starting
<1>5. task' = task \/ (task[r] = "none" /\ task' = [task EXCEPT ![r] = "reclaim"])
  <2>1. CASE Coalesce(r)
    <3>1. task[r] = "none"
      BY <2>1 DEF CoordInv, NotStarted, Coalesce, Starting
    <3>2. PICK b \in BOOLEAN : task' = IF b THEN [task EXCEPT ![r] = "reclaim"] ELSE task
      BY <2>1, Zenon DEF Coalesce
    <3> QED BY <3>1, <3>2, Zenon
  <2>2. CASE ~ Coalesce(r)
    <3>1. task' = task
      BY <2>2, Zenon DEF Arrive, NotRouted, CacheHit, CacheMiss, Cancel
    <3> QED BY <3>1
  <2> QED BY <2>1, <2>2
<1>6. phase' \in [Requests -> Phases] /\ task' \in [Requests -> TaskSteps]
  BY <1>0, <1>4, <1>5 DEF CoordTypeOK, TaskSteps, Unreserved
<1>7. \A q \in Requests : phase'[q] \in Starting
                            => phase[q] \in Starting /\ task'[q] = task[q]
  BY <1>0, <1>4, <1>5 DEF CoordTypeOK
<1>8. \A q \in Requests : task'[q] = task[q] \/ (task[q] = "none" /\ task'[q] = "reclaim")
  BY <1>0, <1>5 DEF CoordTypeOK
<1>9. CoordInv'
  BY <1>1, <1>2, <1>3, <1>6, <1>7, <1>8, QuietStep
<1> QED BY <1>2, <1>9

\* A task before its reservation: the sweep, the errors and refusals that hold
\* nothing.
LEMMA StepBeforeHold ==
    ASSUME CoordInv, NEW t \in Requests,
           \/ TaskReclaim(t) \/ TaskReclaimUnavailable(t) \/ TaskUnpriced(t)
           \/ \E a \in Amounts, cur \in Currencies : TaskRefused(t, a, cur)
           \/ TaskPriceUnavailable(t) /\ task[t] = "reserve"
    PROVE  CoordInv' /\ [Next]_vars
<1>0. CoordTypeOK /\ TypeOK
  BY DEF CoordInv, IInv
<1>1. placement' = placement /\ answered' = answered /\ cache' = cache /\ adrift \subseteq adrift'
  BY DEF TaskReclaim, TaskReclaimUnavailable, TaskUnpriced, TaskRefused, TaskPriceUnavailable,
         Adrift
<1>2. [Next]_vars /\ now' = now /\ \A d \in Cids : Kept(d)
  <2>1. CASE TaskReclaim(t)
    BY <2>1, <1>0, KeptReclaim DEF TaskReclaim
  <2>2. CASE UNCHANGED vars
    BY <2>2, KeptIdle
  <2> QED BY <2>1, <2>2 DEF TaskReclaimUnavailable, TaskUnpriced, TaskRefused,
                            TaskPriceUnavailable, ReserveExceeded, ReserveWrongCurrency
<1>3. now <= now'
  BY <1>0, <1>2, TimeAssumption DEF TypeOK
<1>4. \/ Goto(t, "reserve") /\ task[t] = "reclaim"
      \/ \E o : Finish(t, o) /\ task[t] = "reserve"
  BY DEF TaskReclaim, TaskReclaimUnavailable, TaskUnpriced, TaskRefused, TaskPriceUnavailable
<1>5. /\ \/ task' = [task EXCEPT ![t] = "reserve"] /\ task[t] = "reclaim"
         \/ task' = [task EXCEPT ![t] = "ended"] /\ task[t] = "reserve"
      /\ phase' \in [Requests -> Phases] /\ task' \in [Requests -> TaskSteps]
      /\ \A r \in Requests : phase'[r] \in Starting => phase[r] \in Starting
  <2>1. CASE Goto(t, "reserve") /\ task[t] = "reclaim"
    <3>1. "reserve" \in TaskSteps
      BY DEF TaskSteps, Unreserved
    <3> QED BY <2>1, <3>1, <1>0, GotoMoves, Zenon
  <2>2. ASSUME NEW o, Finish(t, o) /\ task[t] = "reserve"
        PROVE  /\ task' = [task EXCEPT ![t] = "ended"] /\ task[t] = "reserve"
               /\ phase' \in [Requests -> Phases] /\ task' \in [Requests -> TaskSteps]
               /\ \A r \in Requests : phase'[r] \in Starting => phase[r] \in Starting
    BY <2>2, <1>0, FinishMoves, Zenon
  <2> QED BY <1>4, <2>1, <2>2, Zenon
<1>7. \A r \in Requests : phase'[r] \in Starting => phase[r] \in Starting /\ task'[r] = task[r]
  <2>1. phase[t] \notin Starting
    BY <1>5 DEF CoordInv, NotStarted
  <2> QED BY <2>1, <1>0, <1>5 DEF CoordTypeOK
<1>8. \A r \in Requests : \/ task'[r] = task[r]
                          \/ task[r] = "reclaim" /\ task'[r] = "reserve"
                          \/ task[r] = "reserve" /\ task'[r] = "ended"
  BY <1>0, <1>5 DEF CoordTypeOK
<1>9. CoordInv'
  BY <1>1, <1>2, <1>3, <1>5, <1>7, <1>8, QuietStep DEF Unreserved
<1> QED BY <1>2, <1>9

\* The organization's other traffic, and time.
LEMMA StepElsewhere ==
    ASSUME CoordInv, OtherTraffic \/ CoordTick \/ UNCHANGED allVars
    PROVE  CoordInv' /\ [Next]_vars
<1>0. CoordTypeOK /\ TypeOK /\ now \in Nat
  BY TimeAssumption DEF CoordInv, IInv, TypeOK
<1>1. UNCHANGED coordVars
  BY DEF OtherTraffic, CoordTick, allVars
<1>2. [Next]_vars /\ now <= now' /\ \A d \in Cids : Kept(d)
  <2>1. CASE OtherTraffic
    BY <2>1, <1>0, KeptReclaim DEF OtherTraffic
  <2>2. CASE CoordTick
    BY <2>2, <1>0, KeptTick DEF CoordTick
  <2>3. CASE UNCHANGED allVars
    BY <2>3, <1>0, KeptIdle DEF allVars, vars
  <2> QED BY <2>1, <2>2, <2>3
<1>3. /\ placement' = placement /\ answered' = answered /\ cache' = cache /\ adrift' = adrift
      /\ phase' = phase /\ task' = task
  BY <1>1 DEF coordVars
<1>4. phase' \in [Requests -> Phases] /\ task' \in [Requests -> TaskSteps]
  BY <1>0, <1>3 DEF CoordTypeOK
<1>5. CoordInv'
  BY <1>2, <1>3, <1>4, QuietStep
<1> QED BY <1>2, <1>5

\* A crash ends the tasks of a replica and sets their ids adrift.
LEMMA StepCrash ==
    ASSUME CoordInv, NEW p \in Replicas, Crash(p)
    PROVE  CoordInv' /\ [Next]_vars
<1>0. CoordTypeOK /\ TypeOK /\ now \in Nat
  BY TimeAssumption DEF CoordInv, IInv, TypeOK
<1>1. UNCHANGED vars /\ placement' = placement /\ answered' = answered /\ cache' = cache
  BY DEF Crash
<1>2. [Next]_vars /\ now' = now /\ \A d \in Cids : Kept(d)
  BY <1>1, KeptIdle
<1>3. /\ task' = [r \in Requests |-> IF ReplicaOf(r) = p /\ Live(r) THEN "ended" ELSE task[r]]
      /\ phase' = [r \in Requests |->
                      IF ReplicaOf(r) = p /\ phase[r] # "new" THEN "ended" ELSE phase[r]]
      /\ adrift' = adrift \cup {CidOf(t) : t \in {r \in Requests : ReplicaOf(r) = p /\ Live(r)}}
  BY DEF Crash
<1>4. phase' \in [Requests -> Phases] /\ task' \in [Requests -> TaskSteps]
      /\ adrift \subseteq adrift'
  BY <1>0, <1>3 DEF CoordTypeOK, TaskSteps, Phases
<1>5. \A r \in Requests : \/ task'[r] = task[r]
                          \/ /\ task[r] # "none" /\ task'[r] = "ended"
                             /\ CidOf(r) \in adrift'
  BY <1>3 DEF Live
<1>6. \A r \in Requests : phase'[r] \in Starting => phase[r] \in Starting /\ task'[r] = task[r]
  <2> SUFFICES ASSUME NEW r \in Requests, phase'[r] \in Starting
               PROVE  phase[r] \in Starting /\ task'[r] = task[r]
    OBVIOUS
  <2>1. phase[r] \in Starting
    BY <1>3 DEF Starting
  <2>2. task[r] = "none"
    BY <2>1 DEF CoordInv, NotStarted
  <2> QED BY <2>1, <2>2, <1>5
<1>7. CoordInv'
  BY <1>0, <1>1, <1>2, <1>4, <1>5, <1>6, QuietStep
<1> QED BY <1>2, <1>7

\* The conditions of TaskMove that do not depend on the step.
Moved(t, x) ==
    /\ task' = [task EXCEPT ![t] = x]
    /\ placement' = placement
    /\ phase' \in [Requests -> Phases]
    /\ \A r \in Requests : phase'[r] \in Starting => phase[r] \in Starting
    /\ adrift \subseteq adrift'

\* What a step of t on its own hold leaves of the ledger.
Confined(t) ==
    /\ [Next]_vars
    /\ now' = now
    /\ \A d \in Cids \ {CidOf(t)} : Kept(d)

\* A task that goes on.
LEMMA GotoMoved ==
    ASSUME CoordTypeOK, NEW t \in Requests, NEW x \in TaskSteps, Goto(t, x),
           placement' = placement, adrift \subseteq adrift'
    PROVE  Moved(t, x)
  BY GotoMoves, Zenon DEF Moved

\* A task that ends.
LEMMA FinishMoved ==
    ASSUME CoordTypeOK, NEW t \in Requests, NEW o, Finish(t, o),
           placement' = placement, adrift \subseteq adrift'
    PROVE  Moved(t, "ended")
  BY FinishMoves, Zenon DEF Moved

\* TaskMove, for a step that caches nothing.
LEMMA TaskStepInv ==
    ASSUME CoordInv, NEW t \in Requests, NEW x \in Owning \cup {"ended"},
           task[t] \in Owning \cup {"reserve"}, Moved(t, x), Confined(t), cache' = cache,
           answered \subseteq answered', answered' \subseteq Requests,
           row'[CidOf(t)].status = "reserved" =>
               \/ x \in Owning
               \/ CidOf(t) \in adrift'
               \/ row[CidOf(t)].status = "reserved" /\ task[t] = "reserve",
           x \in {"settle", "put"} => t \in answered',
           x = "put" => row'[CidOf(t)].status = "committed",
           Alone(t) /\ x = "execute" =>
               /\ row'[CidOf(t)].status = "reserved"
               /\ row'[CidOf(t)].createdAt = heldAt'[CidOf(t)]
    PROVE  CoordInv' /\ [Next]_vars
<1>1. [Next]_vars /\ now <= now' /\ \A d \in Cids \ {CidOf(t)} : Kept(d)
  BY TimeAssumption DEF Confined, CoordInv, IInv, TypeOK
<1>2. /\ task' = [task EXCEPT ![t] = x]
      /\ placement' = placement
      /\ phase' \in [Requests -> Phases]
      /\ \A r \in Requests : phase'[r] \in Starting => phase[r] \in Starting
      /\ adrift \subseteq adrift'
  BY DEF Moved
<1>3. CoordInv'
  BY <1>1, <1>2, TaskMove
<1> QED BY <1>1, <1>3

\* The ledger answers RESERVED: the hold of a task that is alone is new.
LEMMA StepReserved ==
    ASSUME CoordInv, NEW t \in Requests, NEW a \in Amounts, NEW cur \in Currencies,
           TaskReserved(t, a, cur)
    PROVE  CoordInv' /\ [Next]_vars
<1>0. CoordTypeOK /\ TypeOK /\ CidOf(t) \in Cids /\ task[t] = "reserve"
  BY CidType DEF CoordInv, IInv, TaskReserved
<1>1. placement' = placement /\ answered' = answered /\ cache' = cache /\ adrift' = adrift
  BY DEF TaskReserved
<1>2. Moved(t, "execute")
  <2>1. "execute" \in TaskSteps
    BY DEF TaskSteps, Owning
  <2> QED BY <2>1, <1>0, <1>1, GotoMoved DEF TaskReserved
<1>3. Alone(t) => row[CidOf(t)].status = "absent"
  BY <1>0 DEF CoordInv, Covered, Unreserved
<1>4. Confined(t) /\ (Alone(t) => /\ row'[CidOf(t)].status = "reserved"
                                  /\ row'[CidOf(t)].createdAt = heldAt'[CidOf(t)])
  <2>1. CASE ReserveReplay(CidOf(t))
    <3>1. Replays(row[CidOf(t)]) /\ UNCHANGED vars
      BY <2>1 DEF ReserveReplay
    <3>2. ~ Alone(t)
      BY <3>1, <1>3 DEF Replays
    <3> QED BY <3>1, <3>2, KeptIdle DEF Confined
  <2>2. CASE ReserveUnbounded(CidOf(t), a, cur) \/ ReserveHeld(CidOf(t), a, cur)
    BY <2>2, <1>0, <1>3, KeptReserve DEF Confined
  <2> QED BY <2>1, <2>2 DEF TaskReserved
<1>5. "execute" \in Owning /\ answered \subseteq answered' /\ answered' \subseteq Requests
  BY <1>0, <1>1 DEF Owning, CoordTypeOK
<1> QED BY <1>0, <1>1, <1>2, <1>4, <1>5, TaskStepInv

\* The ledger fails, before or after it has committed the hold.
LEMMA StepReserveUnavailable ==
    ASSUME CoordInv, NEW t \in Requests, NEW a \in Amounts, TaskReserveUnavailable(t, a)
    PROVE  CoordInv' /\ [Next]_vars
<1>0. CoordTypeOK /\ TypeOK /\ CidOf(t) \in Cids /\ task[t] = "reserve"
      /\ BudgetCurrency \in Currencies
  BY CidType, MoneyAssumption DEF CoordInv, IInv, TaskReserveUnavailable
<1>1. placement' = placement /\ answered' = answered /\ cache' = cache /\ adrift \subseteq adrift'
  BY DEF TaskReserveUnavailable, Adrift
<1>2. Moved(t, "ended")
  BY <1>0, <1>1, FinishMoved DEF TaskReserveUnavailable
<1>3. Confined(t) /\ (UNCHANGED vars \/ CidOf(t) \in adrift')
  <2>1. CASE UNCHANGED vars
    BY <2>1, KeptIdle DEF Confined
  <2>2. CASE /\ \/ ReserveUnbounded(CidOf(t), a, BudgetCurrency)
                \/ ReserveHeld(CidOf(t), a, BudgetCurrency)
             /\ Adrift(t)
    BY <2>2, <1>0, KeptReserve DEF Confined, Adrift
  <2> QED BY <2>1, <2>2 DEF TaskReserveUnavailable
<1>4. row'[CidOf(t)].status = "reserved" =>
        CidOf(t) \in adrift' \/ row[CidOf(t)].status = "reserved"
  BY <1>3 DEF vars
<1>5. answered \subseteq answered' /\ answered' \subseteq Requests
  BY <1>0, <1>1 DEF CoordTypeOK
<1> QED BY <1>0, <1>1, <1>2, <1>3, <1>4, <1>5, TaskStepInv

\* The provider answers or fails, and the call can be costed or cannot.
LEMMA StepExecute ==
    ASSUME CoordInv, NEW t \in Requests, TaskExecute(t) \/ TaskDefect(t)
    PROVE  CoordInv' /\ [Next]_vars
<1>0. CoordTypeOK /\ TypeOK /\ CidOf(t) \in Cids /\ task[t] \in Owning
  BY CidType DEF CoordInv, IInv, TaskExecute, TaskDefect, Owning
<1>1. placement' = placement /\ cache' = cache /\ adrift' = adrift /\ UNCHANGED vars
  BY DEF TaskExecute, TaskDefect
<1>2. PICK x \in {"settle", "releaseFailed", "releaseDefect"} :
          /\ Goto(t, x)
          /\ answered' = IF x = "settle" THEN answered \cup {t} ELSE answered
  BY DEF TaskExecute, TaskDefect, Invoke
<1>3. x \in Owning /\ x \in TaskSteps /\ x # "put" /\ x # "execute"
  BY DEF TaskSteps, Owning
<1>4. Moved(t, x)
  BY <1>0, <1>1, <1>2, <1>3, GotoMoved
<1>5. Confined(t)
  BY <1>1, KeptIdle DEF Confined
<1>6. answered \subseteq answered' /\ answered' \subseteq Requests
      /\ (x \in {"settle", "put"} => t \in answered')
  BY <1>0, <1>2, <1>3 DEF CoordTypeOK
<1> QED BY <1>0, <1>1, <1>3, <1>4, <1>5, <1>6, TaskStepInv

\* The settlement is booked, or found booked.
LEMMA StepSettled ==
    ASSUME CoordInv, NEW t \in Requests, NEW a \in Amounts, NEW cur \in Currencies,
           TaskSettled(t, a, cur)
    PROVE  CoordInv' /\ [Next]_vars
<1>0. CoordTypeOK /\ TypeOK /\ CidOf(t) \in Cids /\ task[t] = "settle" /\ "put" \in Owning
      /\ "put" \in TaskSteps /\ task[t] \in Owning
  BY CidType DEF CoordInv, IInv, TaskSettled, Owning, TaskSteps
<1>1. placement' = placement /\ answered' = answered /\ cache' = cache /\ adrift' = adrift
  BY DEF TaskSettled
<1>2. Moved(t, "put")
  BY <1>0, <1>1, GotoMoved DEF TaskSettled
<1>3. Confined(t) /\ row'[CidOf(t)].status = "committed"
  <2>1. CASE Settle(CidOf(t), a, cur)
    BY <2>1, <1>0, KeptSettle DEF Confined
  <2>2. CASE SettleReplay(CidOf(t))
    BY <2>2, KeptIdle DEF SettleReplay, Confined, vars
  <2> QED BY <2>1, <2>2 DEF TaskSettled
<1>4. answered \subseteq answered' /\ answered' \subseteq Requests /\ t \in answered'
  BY <1>0, <1>1 DEF CoordInv, PutIsSettled, CoordTypeOK
<1> QED BY <1>0, <1>1, <1>2, <1>3, <1>4, TaskStepInv

\* The settlement or its price fails: there is no hold, or it is adrift.
LEMMA StepSettleFails ==
    ASSUME CoordInv, NEW t \in Requests,
           \/ \E cur \in Currencies : TaskSettleRaises(t, cur)
           \/ \E a \in Amounts : TaskSettleUnavailable(t, a)
           \/ TaskPriceUnavailable(t) /\ task[t] = "settle"
    PROVE  CoordInv' /\ [Next]_vars
<1>0. CoordTypeOK /\ TypeOK /\ CidOf(t) \in Cids /\ task[t] \in Owning
      /\ BudgetCurrency \in Currencies
  BY CidType, MoneyAssumption DEF CoordInv, IInv, TaskSettleRaises, TaskSettleUnavailable,
                                  Owning
<1>1. placement' = placement /\ answered' = answered /\ cache' = cache /\ adrift \subseteq adrift'
  BY DEF TaskSettleRaises, TaskSettleUnavailable, TaskPriceUnavailable, Adrift
<1>2. Moved(t, "ended")
  BY <1>0, <1>1, FinishMoved DEF TaskSettleRaises, TaskSettleUnavailable, TaskPriceUnavailable
<1>3. Confined(t)
  <2>1. CASE UNCHANGED vars
    BY <2>1, KeptIdle DEF Confined
  <2>2. CASE \E a \in Amounts : Settle(CidOf(t), a, BudgetCurrency)
    BY <2>2, <1>0, KeptSettle DEF Confined
  <2> QED BY <2>1, <2>2 DEF TaskSettleRaises, TaskSettleUnavailable, TaskPriceUnavailable,
                            SettleUnknown, SettleWrongCurrency
<1>4. row'[CidOf(t)].status = "reserved" => CidOf(t) \in adrift'
  <2>1. CASE SettleUnknown(CidOf(t))
    BY <2>1 DEF SettleUnknown, vars
  <2> QED BY <2>1 DEF TaskSettleRaises, TaskSettleUnavailable, TaskPriceUnavailable, Adrift
<1>5. answered \subseteq answered' /\ answered' \subseteq Requests
  BY <1>0, <1>1 DEF CoordTypeOK
<1> QED BY <1>0, <1>1, <1>2, <1>3, <1>4, <1>5, TaskStepInv

\* The hold is given back, found returned, or set adrift.
LEMMA StepRelease ==
    ASSUME CoordInv, NEW t \in Requests, TaskRelease(t) \/ TaskReleaseUnavailable(t)
    PROVE  CoordInv' /\ [Next]_vars
<1>0. CoordTypeOK /\ TypeOK /\ CidOf(t) \in Cids /\ task[t] \in Owning
  BY CidType DEF CoordInv, IInv, TaskRelease, TaskReleaseUnavailable, Owning
<1>1. placement' = placement /\ answered' = answered /\ cache' = cache /\ adrift \subseteq adrift'
  BY DEF TaskRelease, TaskReleaseUnavailable, Adrift
<1>2. Moved(t, "ended")
  BY <1>0, <1>1, FinishMoved DEF TaskRelease, TaskReleaseUnavailable
<1>3. CASE Release(CidOf(t))
  <2>1. Confined(t) /\ row'[CidOf(t)].status = "released"
    BY <1>0, <1>3, KeptRelease DEF Confined
  <2>2. answered \subseteq answered' /\ answered' \subseteq Requests
    BY <1>0, <1>1 DEF CoordTypeOK
  <2> QED BY <1>0, <1>1, <1>2, <2>1, <2>2, TaskStepInv
<1>4. CASE UNCHANGED vars /\ (ReleaseReplay(CidOf(t)) \/ Adrift(t))
  <2>1. Confined(t)
    BY <1>4, KeptIdle DEF Confined
  <2>2. row'[CidOf(t)].status = "reserved" => CidOf(t) \in adrift'
    BY <1>4 DEF ReleaseReplay, HoldAlreadyReturned, Adrift, vars
  <2>3. answered \subseteq answered' /\ answered' \subseteq Requests
    BY <1>0, <1>1 DEF CoordTypeOK
  <2> QED BY <1>0, <1>1, <1>2, <2>1, <2>2, <2>3, TaskStepInv
<1> QED BY <1>3, <1>4 DEF TaskRelease, TaskReleaseUnavailable, ReleaseReplay

\* The answer is cached, or cannot be.
LEMMA StepPut ==
    ASSUME CoordInv, NEW t \in Requests, TaskPut(t)
    PROVE  CoordInv' /\ [Next]_vars
<1>0. CoordTypeOK /\ TypeOK /\ CidOf(t) \in Cids /\ task[t] = "put" /\ task[t] \in Owning
  BY CidType DEF CoordInv, IInv, TaskPut, Owning
<1>1. placement' = placement /\ answered' = answered /\ adrift' = adrift /\ UNCHANGED vars
      /\ (cache' = cache \/ (cache' = cache \cup {KeyOf[t]} /\ task[t] = "put"))
  BY <1>0 DEF TaskPut, CachePut
<1>2. Moved(t, "ended")
  BY <1>0, <1>1, FinishMoved DEF TaskPut
<1>3. [Next]_vars /\ now <= now' /\ \A d \in Cids : Kept(d)
  BY <1>0, <1>1, KeptIdle, TimeAssumption DEF TypeOK
<1>4. row'[CidOf(t)].status # "reserved"
  BY <1>0, <1>1 DEF CoordInv, PutIsSettled, vars
<1>5. answered \subseteq answered' /\ answered' \subseteq Requests
  BY <1>0, <1>1 DEF CoordTypeOK
<1>6. /\ task' = [task EXCEPT ![t] = "ended"]
      /\ phase' \in [Requests -> Phases]
      /\ \A r \in Requests : phase'[r] \in Starting => phase[r] \in Starting
      /\ adrift \subseteq adrift'
  BY <1>2 DEF Moved
<1>7. CoordInv'
  BY <1>0, <1>1, <1>3, <1>4, <1>5, <1>6, TaskMove
<1> QED BY <1>3, <1>7

\* Every step of the unary path preserves the invariant and is a step of the
\* ledger.
LEMMA CoordStep ==
    ASSUME CoordInv, [CoordNext]_allVars
    PROVE  CoordInv' /\ [Next]_vars
<1>1. ASSUME NEW t \in Requests, TaskStep(t) PROVE CoordInv' /\ [Next]_vars
  <2>1. CASE \E a \in Amounts, cur \in Currencies :
                 TaskReserved(t, a, cur) \/ TaskRefused(t, a, cur) \/ TaskSettled(t, a, cur)
    BY <2>1, StepReserved, StepBeforeHold, StepSettled
  <2>2. CASE \E cur \in Currencies : TaskSettleRaises(t, cur)
    BY <2>2, StepSettleFails
  <2>3. CASE TaskReclaim(t) \/ TaskUnpriced(t) \/ TaskExecute(t) \/ TaskDefect(t)
             \/ TaskRelease(t) \/ TaskPut(t)
    BY <2>3, StepBeforeHold, StepExecute, StepRelease, StepPut
  <2> QED BY <1>1, <2>1, <2>2, <2>3, Zenon DEF TaskStep
<1>2. ASSUME NEW t \in Requests, TaskFault(t) PROVE CoordInv' /\ [Next]_vars
  <2>1. CASE \E a \in Amounts : TaskReserveUnavailable(t, a) \/ TaskSettleUnavailable(t, a)
    BY <2>1, StepReserveUnavailable, StepSettleFails
  <2>2. CASE TaskPriceUnavailable(t)
    <3>1. task[t] = "reserve" \/ task[t] = "settle"
      BY <2>2 DEF TaskPriceUnavailable
    <3> QED BY <2>2, <3>1, StepBeforeHold, StepSettleFails
  <2>3. CASE TaskReclaimUnavailable(t) \/ TaskReleaseUnavailable(t)
    BY <2>3, StepBeforeHold, StepRelease
  <2> QED BY <1>2, <2>1, <2>2, <2>3, Zenon DEF TaskFault
<1>3. ASSUME NEW r \in Requests, Arrive(r) \/ Handler(r) \/ Cancel(r)
      PROVE  CoordInv' /\ [Next]_vars
  BY <1>3, StepHandler, Zenon DEF Handler
<1>4. ASSUME NEW p \in Replicas, Crash(p) PROVE CoordInv' /\ [Next]_vars
  BY <1>4, StepCrash
<1>5. CASE OtherTraffic \/ CoordTick \/ UNCHANGED allVars
  BY <1>5, StepElsewhere
<1> QED BY <1>1, <1>2, <1>3, <1>4, <1>5, Zenon DEF CoordNext

\* No request has done anything when the behaviour starts.
LEMMA CoordStart == CoordInit => CoordInv
<1> SUFFICES ASSUME CoordInit PROVE CoordInv
  OBVIOUS
<1>1. CoordTypeOK
  BY DEF CoordInit, CoordTypeOK, Phases, TaskSteps, Unreserved
<1>2. IInv
  BY InvInit DEF CoordInit
<1>3. task = [r \in Requests |-> "none"] /\ cache = {} /\ row = [c \in Cids |-> AbsentRow]
  BY DEF CoordInit, Init
<1>4. \A c \in Cids : row[c].status = "absent"
  BY <1>3 DEF AbsentRow
<1>5. NotStarted /\ PutIsSettled /\ HoldsAreOwned /\ CachedIsAccounted
  BY <1>3, <1>4 DEF NotStarted, PutIsSettled, HoldsAreOwned, CachedIsAccounted
<1>6. \A t \in Requests : Covered(t)
  BY <1>1, <1>3, <1>4, CidType DEF Covered
<1> QED BY <1>1, <1>2, <1>5, <1>6 DEF CoordInv

\* The invariant of the unary path, for any number of requests, replicas and
\* faults.
THEOREM CoordInvariance == CoordSpec => []CoordInv
<1>1. CoordInv /\ [CoordNext]_allVars => CoordInv'
  BY CoordStep
<1> QED BY <1>1, CoordStart, PTL DEF CoordSpec

\* Seen from the ledger, the concurrent requests of the unary path with their
\* retries, crashes and faults are a sequence of ledger operations: all that
\* is proved of the ledger holds of it in the coordinator's hands.
THEOREM CoordinatorUsesTheLedger == CoordSpec => Spec /\ []IInv
<1>1. CoordInit => Init
  BY DEF CoordInit
<1>2. CoordInv /\ [CoordNext]_allVars => [Next]_vars
  BY CoordStep
<1>3. CoordInv => IInv
  BY DEF CoordInv
<1> QED BY <1>1, <1>2, <1>3, CoordInvariance, PTL DEF CoordSpec, Spec

\* A hold that is reserved belongs to a running task or is known to be adrift:
\* no interleaving of duplicates, cancelled callers and failing calls leaves
\* one behind in silence.
THEOREM NoHoldIsForgotten == CoordSpec => []HoldsAreOwned
<1>1. CoordInv => HoldsAreOwned
  BY DEF CoordInv
<1> QED BY <1>1, CoordInvariance, PTL

\* A provider call runs against money that is held, unless another task has
\* used its id or its hold has outlived the ttl.
THEOREM CallsAreCovered == CoordSpec => []HoldCoversCall
<1>1. CoordInv => HoldCoversCall
  <2> SUFFICES ASSUME CoordInv, NEW t \in Requests, task[t] = "execute",
                      ~ \E s \in Requests \ {t} : CidOf(s) = CidOf(t) /\ task[s] # "none"
               PROVE  row[CidOf(t)].status = "reserved" \/ now - heldAt[CidOf(t)] > TTL
    BY DEF HoldCoversCall
  <2>1. Alone(t)
    BY DEF Alone
  <2> QED BY <2>1 DEF CoordInv, Covered, InPlace
<1> QED BY <1>1, CoordInvariance, PTL

\* Only responses that are accounted for are cached.
THEOREM CacheIsAccounted == CoordSpec => []CachedIsAccounted
<1>1. CoordInv => CachedIsAccounted
  BY DEF CoordInv
<1> QED BY <1>1, CoordInvariance, PTL

-----------------------------------------------------------------------------
(* Deduplication.                                                          *)

\* RequestDeduplicator._in_flight names exactly the running tasks, each under
\* its own replica and id.
RunningIsInFlight ==
    /\ inFlight \in [Replicas \X Cids -> Requests \cup {NoTask}]
    /\ \A t \in Requests : Live(t) <=> inFlight[Key(t)] = t
    /\ \A k \in Replicas \X Cids : inFlight[k] # NoTask => Key(inFlight[k]) = k

\* A caller that waits has a running task of its own replica and id to wait for.
WaitersAreServed ==
    /\ awaits \in [Requests -> Requests \cup {NoTask}]
    /\ \A r \in Requests : phase[r] = "awaiting" =>
           awaits[r] \in Requests /\ Live(awaits[r]) /\ Key(awaits[r]) = Key(r)

DedupInv == RunningIsInFlight /\ WaitersAreServed

\* The duplicates of a request on its replica run once at a time, and whoever
\* has joined a task is joined to the one that runs: two "literal duplicates
\* sharing a correlation id must not each pay for and receive a separate
\* provider call" (deduplicator.py).
RunsOnce ==
    /\ \A s, t \in Requests : Live(s) /\ Live(t) /\ Key(s) = Key(t) => s = t
    /\ \A r, t \in Requests : phase[r] = "awaiting" /\ Live(t) /\ Key(t) = Key(r)
                                => awaits[r] = t

\* The keys of requests.
LEMMA KeyType ==
    ASSUME CoordTypeOK, NEW r \in Requests
    PROVE  Key(r) \in Replicas \X Cids /\ Key(r)[1] = ReplicaOf(r) /\ r # NoTask
<1>1. placement.cid[r] \in Cids /\ placement.replica[r] \in Replicas
  BY CoordAssumption DEF CoordTypeOK
<1> QED BY <1>1, CoordAssumption DEF Key, ReplicaOf, CidOf

\* A placement that stays keeps the keys.
LEMMA KeyStays ==
    ASSUME placement' = placement, NEW r PROVE Key(r)' = Key(r) /\ ReplicaOf(r)' = ReplicaOf(r)
  BY DEF Key, ReplicaOf, CidOf

\* Steps that start and end no task, and make nobody wait.
LEMMA DedupIdle ==
    ASSUME DedupInv, placement' = placement, inFlight' = inFlight, awaits' = awaits,
           \A r \in Requests : Live(r)' <=> Live(r),
           \A r \in Requests : phase'[r] = "awaiting" => phase[r] = "awaiting"
    PROVE  DedupInv'
<1>1. \A r \in Requests : Key(r)' = Key(r)
  BY KeyStays
<1>2. RunningIsInFlight'
  <2>1. inFlight' \in [Replicas \X Cids -> Requests \cup {NoTask}]
    BY DEF DedupInv, RunningIsInFlight
  <2>2. \A t \in Requests : Live(t)' <=> inFlight'[Key(t)'] = t
    BY <1>1 DEF DedupInv, RunningIsInFlight
  <2>3. ASSUME NEW k \in Replicas \X Cids, inFlight'[k] # NoTask
        PROVE  Key(inFlight[k])' = k
    <3>1. inFlight[k] \in Requests /\ Key(inFlight[k]) = k
      BY <2>3 DEF DedupInv, RunningIsInFlight
    <3> QED BY <3>1 DEF Key, ReplicaOf, CidOf
  <2> QED BY <2>1, <2>2, <2>3 DEF RunningIsInFlight
<1>3. WaitersAreServed'
  BY <1>1 DEF DedupInv, WaitersAreServed, Key, ReplicaOf, CidOf, Live
<1> QED BY <1>2, <1>3 DEF DedupInv

\* A task goes on.
LEMMA DedupGoto ==
    ASSUME CoordTypeOK, DedupInv, placement' = placement, NEW t \in Requests,
           NEW x, x \notin {"none", "ended"}, Live(t), Goto(t, x)
    PROVE  DedupInv'
<1>1. task' = [task EXCEPT ![t] = x] /\ UNCHANGED <<phase, awaits, outcome, inFlight>>
  BY DEF Goto
<1>2. \A r \in Requests : Live(r)' <=> Live(r)
  BY <1>1 DEF Live, CoordTypeOK
<1> QED BY <1>1, <1>2, DedupIdle

\* A task ends: it is forgotten, and nobody waits for it any more.
LEMMA DedupFinish ==
    ASSUME CoordTypeOK, DedupInv, placement' = placement, NEW t \in Requests, NEW o, Finish(t, o)
    PROVE  DedupInv'
<1>1. /\ task' = [task EXCEPT ![t] = "ended"] /\ awaits' = awaits
      /\ inFlight' = [k \in Replicas \X Cids |-> IF inFlight[k] = t THEN NoTask ELSE inFlight[k]]
      /\ phase' = [r \in Requests |->
                     IF r \in {q \in Requests : phase[q] = "awaiting" /\ awaits[q] = t}
                     THEN "ended" ELSE phase[r]]
  BY DEF Finish
<1>2. \A r \in Requests : Live(r)' <=> Live(r) /\ r # t
  BY <1>1 DEF Live, CoordTypeOK
<1>3. \A r \in Requests : Key(r)' = Key(r) /\ Key(r) \in Replicas \X Cids /\ r # NoTask
  BY KeyStays, KeyType
<1>4. RunningIsInFlight'
  <2>1. inFlight' \in [Replicas \X Cids -> Requests \cup {NoTask}]
    BY <1>1 DEF DedupInv, RunningIsInFlight
  <2>2. \A s \in Requests : Live(s)' <=> inFlight'[Key(s)'] = s
    BY <1>1, <1>2, <1>3 DEF DedupInv, RunningIsInFlight
  <2>3. ASSUME NEW k \in Replicas \X Cids, inFlight'[k] # NoTask
        PROVE  Key(inFlight[k])' = k
    <3>1. inFlight'[k] = inFlight[k] /\ inFlight[k] \in Requests /\ Key(inFlight[k]) = k
      BY <2>3, <1>1 DEF DedupInv, RunningIsInFlight
    <3> QED BY <3>1 DEF Key, ReplicaOf, CidOf
  <2> QED BY <2>1, <2>2, <2>3 DEF RunningIsInFlight
<1>5. WaitersAreServed'
  <2>1. ASSUME NEW r \in Requests, phase'[r] = "awaiting"
        PROVE  awaits[r] \in Requests /\ Live(awaits[r])' /\ Key(awaits[r]) = Key(r)
    <3>1. phase[r] = "awaiting" /\ awaits[r] # t
      BY <2>1, <1>1
    <3>2. awaits[r] \in Requests /\ Live(awaits[r]) /\ Key(awaits[r]) = Key(r)
      BY <3>1 DEF DedupInv, WaitersAreServed
    <3>3. Live(awaits[r])'
      BY <1>1, <3>1, <3>2 DEF Live, CoordTypeOK
    <3> QED BY <3>2, <3>3
  <2>2. \A r \in Requests : phase'[r] = "awaiting" =>
            awaits'[r] \in Requests /\ Live(awaits[r])' /\ Key(awaits[r])' = Key(r)'
    BY <2>1, <1>1 DEF Key, ReplicaOf, CidOf
  <2> QED BY <2>2, <1>1 DEF DedupInv, WaitersAreServed
<1> QED BY <1>4, <1>5 DEF DedupInv

\* A caller joins the task in flight, or starts one.
LEMMA DedupCoalesce ==
    ASSUME CoordTypeOK, NotStarted, DedupInv, NEW r \in Requests, Coalesce(r)
    PROVE  DedupInv'
<1> DEFINE t == IF inFlight[Key(r)] = NoTask THEN r ELSE inFlight[Key(r)]
<1>0. placement' = placement
  BY DEF Coalesce
<1>1. \A s \in Requests : Key(s)' = Key(s) /\ Key(s) \in Replicas \X Cids /\ s # NoTask
  BY <1>0, KeyStays, KeyType
<1>2. /\ phase[r] = "coalesce" /\ phase' = [phase EXCEPT ![r] = "awaiting"]
      /\ awaits' = [awaits EXCEPT ![r] = t]
      /\ inFlight' = [inFlight EXCEPT ![Key(r)] = t]
      /\ task' = IF t = r THEN [task EXCEPT ![r] = "reclaim"] ELSE task
  BY DEF Coalesce
<1>3. task[r] = "none" /\ ~ Live(r)
  BY <1>2 DEF NotStarted, Starting, Live
<1>4. t \in Requests /\ Key(t) = Key(r)
  BY <1>1 DEF DedupInv, RunningIsInFlight
<1>5. t = r <=> inFlight[Key(r)] = NoTask
  BY <1>1, <1>3 DEF DedupInv, RunningIsInFlight
<1> HIDE DEF t
<1>6. \A s \in Requests : Live(s)' <=> Live(s) \/ s = t
  <2>1. CASE t = r
    BY <2>1, <1>2 DEF Live, CoordTypeOK
  <2>2. CASE t # r
    <3>1. inFlight[Key(t)] = t
      BY <2>2, <1>4, <1>5 DEF t
    <3>2. Live(t)
      BY <3>1, <1>4 DEF DedupInv, RunningIsInFlight
    <3> QED BY <2>2, <3>2, <1>2 DEF Live
  <2> QED BY <2>1, <2>2
<1>7. inFlight[Key(r)] = t \/ inFlight[Key(r)] = NoTask
  BY DEF t
<1>8. RunningIsInFlight'
  <2>1. inFlight' \in [Replicas \X Cids -> Requests \cup {NoTask}]
    BY <1>2, <1>4 DEF DedupInv, RunningIsInFlight
  <2>2. ASSUME NEW s \in Requests PROVE Live(s)' <=> inFlight'[Key(s)'] = s
    <3>1. CASE Key(s) = Key(r)
      <4>1. inFlight'[Key(s)'] = t
        BY <3>1, <1>1, <1>2 DEF DedupInv, RunningIsInFlight
      <4>2. Live(s) => s = t
        BY <3>1, <1>1, <1>7 DEF DedupInv, RunningIsInFlight
      <4> QED BY <4>1, <4>2, <1>6
    <3>2. CASE Key(s) # Key(r)
      <4>1. inFlight'[Key(s)'] = inFlight[Key(s)]
        BY <3>2, <1>1, <1>2 DEF DedupInv, RunningIsInFlight
      <4>2. s # t
        BY <3>2, <1>4
      <4> QED BY <4>1, <4>2, <1>6 DEF DedupInv, RunningIsInFlight
    <3> QED BY <3>1, <3>2
  <2>3. ASSUME NEW k \in Replicas \X Cids, inFlight'[k] # NoTask
        PROVE  Key(inFlight[k])' = k
    <3>1. CASE k = Key(r)
      <4>1. inFlight'[k] = t
        BY <3>1, <1>2 DEF DedupInv, RunningIsInFlight
      <4> QED BY <4>1, <3>1, <1>4, <1>0 DEF Key, ReplicaOf, CidOf
    <3>2. CASE k # Key(r)
      <4>1. inFlight'[k] = inFlight[k]
        BY <3>2, <1>2 DEF DedupInv, RunningIsInFlight
      <4>2. Key(inFlight[k]) = k
        BY <4>1, <2>3 DEF DedupInv, RunningIsInFlight
      <4> QED BY <4>1, <4>2, <1>0 DEF Key, ReplicaOf, CidOf
    <3> QED BY <3>1, <3>2
  <2> QED BY <2>1, <2>2, <2>3 DEF RunningIsInFlight
<1>9. WaitersAreServed'
  <2>1. awaits' \in [Requests -> Requests \cup {NoTask}]
    BY <1>2, <1>4 DEF DedupInv, WaitersAreServed
  <2>2. ASSUME NEW q \in Requests, phase'[q] = "awaiting"
        PROVE  \E s \in Requests : awaits'[q] = s /\ Live(s)' /\ Key(s)' = Key(q)'
    <3>1. CASE q = r
      <4>1. awaits'[q] = t
        BY <3>1, <1>2 DEF DedupInv, WaitersAreServed
      <4> QED BY <4>1, <3>1, <1>1, <1>4, <1>6
    <3>2. CASE q # r
      <4>1. phase[q] = "awaiting" /\ awaits'[q] = awaits[q]
        BY <2>2, <3>2, <1>2 DEF DedupInv, WaitersAreServed, CoordTypeOK
      <4>2. awaits[q] \in Requests /\ Live(awaits[q]) /\ Key(awaits[q]) = Key(q)
        BY <4>1 DEF DedupInv, WaitersAreServed
      <4>3. PICK s \in Requests : s = awaits[q]
        BY <4>2
      <4>4. Live(s)' /\ Key(s)' = Key(q)'
        BY <4>2, <4>3, <1>1, <1>6
      <4> QED BY <4>1, <4>3, <4>4
    <3> QED BY <3>1, <3>2
  <2>3. \A q \in Requests : phase'[q] = "awaiting" =>
            awaits'[q] \in Requests /\ Live(awaits[q])' /\ Key(awaits[q])' = Key(q)'
    BY <2>2 DEF Live, Key, ReplicaOf, CidOf
  <2> QED BY <2>1, <2>3 DEF WaitersAreServed
<1> QED BY <1>8, <1>9 DEF DedupInv

\* A replica crashes with its tasks and everyone who waits for them.
LEMMA DedupCrash ==
    ASSUME CoordTypeOK, DedupInv, NEW p \in Replicas, Crash(p)
    PROVE  DedupInv'
<1>0. placement' = placement /\ awaits' = awaits
  BY DEF Crash
<1>1. \A s \in Requests : /\ Key(s)' = Key(s) /\ Key(s) \in Replicas \X Cids /\ s # NoTask
                          /\ Key(s)[1] = ReplicaOf(s)
  BY <1>0, KeyStays, KeyType
<1>2. /\ task' = [r \in Requests |-> IF ReplicaOf(r) = p /\ Live(r) THEN "ended" ELSE task[r]]
      /\ phase' = [r \in Requests |->
                      IF ReplicaOf(r) = p /\ phase[r] # "new" THEN "ended" ELSE phase[r]]
      /\ inFlight' = [k \in Replicas \X Cids |-> IF k[1] = p THEN NoTask ELSE inFlight[k]]
  BY DEF Crash
<1>3. \A s \in Requests : Live(s)' <=> Live(s) /\ ReplicaOf(s) # p
  BY <1>2 DEF Live
<1>4. RunningIsInFlight'
  <2>1. inFlight' \in [Replicas \X Cids -> Requests \cup {NoTask}]
    BY <1>2 DEF DedupInv, RunningIsInFlight
  <2>2. \A s \in Requests : Live(s)' <=> inFlight'[Key(s)'] = s
    BY <1>1, <1>2, <1>3 DEF DedupInv, RunningIsInFlight
  <2>3. ASSUME NEW k \in Replicas \X Cids, inFlight'[k] # NoTask
        PROVE  Key(inFlight[k])' = k
    <3>1. inFlight'[k] = inFlight[k] /\ inFlight[k] \in Requests /\ Key(inFlight[k]) = k
      BY <2>3, <1>2 DEF DedupInv, RunningIsInFlight
    <3> QED BY <3>1, <1>0 DEF Key, ReplicaOf, CidOf
  <2> QED BY <2>1, <2>2, <2>3 DEF RunningIsInFlight
<1>5. WaitersAreServed'
  <2>1. ASSUME NEW q \in Requests, phase'[q] = "awaiting"
        PROVE  \E s \in Requests : awaits'[q] = s /\ Live(s)' /\ Key(s)' = Key(q)'
    <3>1. phase[q] = "awaiting" /\ ReplicaOf(q) # p
      BY <2>1, <1>2
    <3>2. awaits[q] \in Requests /\ Live(awaits[q]) /\ Key(awaits[q]) = Key(q)
      BY <3>1 DEF DedupInv, WaitersAreServed
    <3>3. PICK s \in Requests : s = awaits[q]
      BY <3>2
    <3>4. ReplicaOf(s) # p
      BY <3>1, <3>2, <3>3, <1>1
    <3> QED BY <3>2, <3>3, <3>4, <1>0, <1>1, <1>3
  <2>2. \A q \in Requests : phase'[q] = "awaiting" =>
            awaits'[q] \in Requests /\ Live(awaits[q])' /\ Key(awaits[q])' = Key(q)'
    BY <2>1 DEF Live, Key, ReplicaOf, CidOf
  <2> QED BY <2>2, <1>0 DEF DedupInv, WaitersAreServed
<1> QED BY <1>4, <1>5 DEF DedupInv

\* Every step keeps the bookkeeping of the deduplicator.
LEMMA DedupStep ==
    ASSUME CoordInv, DedupInv, [CoordNext]_allVars
    PROVE  DedupInv'
<1>0. CoordTypeOK /\ NotStarted
  BY DEF CoordInv
<1>1. ASSUME NEW t \in Requests, TaskStep(t) \/ TaskFault(t) PROVE DedupInv'
  <2>1. placement' = placement
    BY <1>1 DEF TaskStep, TaskFault, TaskReclaim, TaskUnpriced, TaskExecute, TaskDefect,
                TaskReserved, TaskRefused, TaskSettled, TaskSettleRaises, TaskRelease, TaskPut,
                TaskReclaimUnavailable, TaskPriceUnavailable, TaskReserveUnavailable,
                TaskSettleUnavailable, TaskReleaseUnavailable
  <2>2. \/ \E o : Finish(t, o)
        \/ \E x : Live(t) /\ x \notin {"none", "ended"} /\ Goto(t, x)
    <3>1. CASE TaskExecute(t)
      BY <3>1 DEF TaskExecute, Live
    <3>2. CASE TaskReclaim(t) \/ TaskReclaimUnavailable(t) \/ TaskDefect(t)
      BY <3>2 DEF TaskReclaim, TaskReclaimUnavailable, TaskDefect, Live
    <3>3. CASE \E a \in Amounts, cur \in Currencies :
                   TaskReserved(t, a, cur) \/ TaskSettled(t, a, cur)
      BY <3>3 DEF TaskReserved, TaskSettled, Live
    <3>4. CASE \E a \in Amounts, cur \in Currencies : TaskRefused(t, a, cur)
      BY <3>4 DEF TaskRefused
    <3>5. CASE \E cur \in Currencies : TaskSettleRaises(t, cur)
      BY <3>5 DEF TaskSettleRaises
    <3>6. CASE \E a \in Amounts : TaskReserveUnavailable(t, a) \/ TaskSettleUnavailable(t, a)
      BY <3>6 DEF TaskReserveUnavailable, TaskSettleUnavailable
    <3>7. CASE TaskUnpriced(t) \/ TaskRelease(t) \/ TaskPut(t)
               \/ TaskPriceUnavailable(t) \/ TaskReleaseUnavailable(t)
      BY <3>7, Zenon DEF TaskUnpriced, TaskRelease, TaskPut, TaskPriceUnavailable,
                         TaskReleaseUnavailable
    <3> QED BY <1>1, <3>1, <3>2, <3>3, <3>4, <3>5, <3>6, <3>7, Zenon DEF TaskStep, TaskFault
  <2> QED BY <1>0, <2>1, <2>2, DedupGoto, DedupFinish
<1>2. ASSUME NEW r \in Requests, Coalesce(r) PROVE DedupInv'
  BY <1>0, <1>2, DedupCoalesce
<1>3. ASSUME NEW r \in Requests,
             Arrive(r) \/ NotRouted(r) \/ CacheHit(r) \/ CacheMiss(r) \/ Cancel(r)
      PROVE  DedupInv'
  <2>1. placement' = placement /\ inFlight' = inFlight /\ awaits' = awaits /\ task' = task
    BY <1>3 DEF Arrive, NotRouted, CacheHit, CacheMiss, Cancel
  <2>2. \A q \in Requests : phase'[q] = "awaiting" => phase[q] = "awaiting"
    BY <1>0, <1>3 DEF Arrive, NotRouted, CacheHit, CacheMiss, Cancel, End, CoordTypeOK
  <2>3. \A q \in Requests : Live(q)' <=> Live(q)
    BY <2>1 DEF Live
  <2> QED BY <2>1, <2>2, <2>3, DedupIdle
<1>4. ASSUME NEW p \in Replicas, Crash(p) PROVE DedupInv'
  BY <1>0, <1>4, DedupCrash
<1>5. CASE OtherTraffic \/ CoordTick \/ UNCHANGED allVars
  <2>1. placement' = placement /\ inFlight' = inFlight /\ awaits' = awaits /\ task' = task
        /\ phase' = phase
    BY <1>5 DEF OtherTraffic, CoordTick, allVars, coordVars
  <2>2. \A q \in Requests : Live(q)' <=> Live(q)
    BY <2>1 DEF Live
  <2> QED BY <2>1, <2>2, DedupIdle
<1> QED BY <1>1, <1>2, <1>3, <1>4, <1>5, Zenon DEF CoordNext, Handler

\* Nothing is in flight when the behaviour starts.
LEMMA DedupStart == CoordInit => DedupInv
<1> SUFFICES ASSUME CoordInit PROVE DedupInv
  OBVIOUS
<1>1. CoordTypeOK
  BY CoordStart DEF CoordInv
<1>2. \A r \in Requests : Key(r) \in Replicas \X Cids /\ r # NoTask
  BY <1>1, KeyType
<1> QED BY <1>2 DEF CoordInit, DedupInv, RunningIsInFlight, WaitersAreServed, Live

\* On each replica at most one task runs for a correlation id, whatever joins,
\* leaves, finishes or crashes, and every caller that waits waits for it: the
\* fact from which TLC's CallersAreAnswered follows by fairness.
THEOREM DuplicatesRunOnce == CoordSpec => [](RunsOnce /\ WaitersAreServed)
<1>1. CoordInit => DedupInv
  BY DedupStart
<1>2. CoordInv /\ DedupInv /\ [CoordNext]_allVars => DedupInv'
  BY DedupStep
<1>3. DedupInv => RunsOnce /\ WaitersAreServed
  BY DEF DedupInv, RunningIsInFlight, WaitersAreServed, RunsOnce
<1> QED BY <1>1, <1>2, <1>3, CoordInvariance, PTL DEF CoordSpec

-----------------------------------------------------------------------------
(* The streams: the inductive invariant.                                   *)

\* Where a stream is before it has been told RESERVED ...
Unheld == {"new", "lookup", "reclaim", "reserve"}
\* ... and while it has.
Holding == {"opening", "opened", "releaseFirst", "disconnected", "raising"} \cup Delivering
Places == Unheld \cup Holding \cup {"ended"}
Results == {"none", "refused", "hit", "completed", "failed", "disconnected"}

StreamTypeOK == /\ cid \in StreamIds
                /\ at \in [Streams -> Places]
                /\ first \in [Streams -> Events \cup {"none"}]
                /\ observed \in [Streams -> 0..1]
                /\ upstream \in [Streams -> {"open", "whole", "broken"}]
                /\ result \in [Streams -> Results]

\* What the circuit breaker has heard of the stream s: nothing while the
\* provider may still speak.
Heard(s) ==
    /\ at[s] \in Unheld \cup {"opening", "streaming"} => upstream[s] = "open"
    /\ at[s] \in Unheld \cup {"opening", "opened", "streaming"} => observed[s] = 0
    /\ observed[s] = 1 => upstream[s] # "open"

\* The event that open keeps for _deliver is the provider's latest.
FirstIsLatest(s) ==
    at[s] = "opened" => \/ first[s] = "chunk" /\ upstream[s] = "open"
                        \/ first[s] = "completed" /\ upstream[s] = "whole"
                        \/ first[s] = "noUsage" /\ upstream[s] = "broken"

\* What is settled or cached is whole, and what is cached or completed settled.
WholeIsSettled(s) ==
    /\ at[s] \in {"settle", "put"} => upstream[s] = "whole"
    /\ at[s] = "put" => row[cid[s]].status = "committed"

\* Every cost that is booked is the cost of a whole answer ...
BilledIsWhole ==
    \A c \in Cids : costLedger[c] # NoEntry =>
        \E s \in Streams : cid[s] = c /\ upstream[s] = "whole"

\* ... and so is every answer that is cached, and it is booked.
CachedIsWhole ==
    \A k \in cache : \E s \in Streams : /\ KeyOf[s] = k
                                        /\ upstream[s] = "whole"
                                        /\ costLedger[cid[s]] # NoEntry

StreamInv == /\ StreamTypeOK
             /\ IInv
             /\ \A s \in Streams : Heard(s) /\ FirstIsLatest(s) /\ WholeIsSettled(s)
             /\ StreamHoldsAreOwned
             /\ CompletedIsAccounted
             /\ BilledIsWhole
             /\ CachedIsWhole

\* The ids of streams are ids of the ledger.
LEMMA StreamCidType == ASSUME StreamTypeOK, NEW s \in Streams PROVE cid[s] \in Cids
  BY StreamAssumption DEF StreamTypeOK

\* A cost is booked by a settlement alone.
LEMMA OnlySettleBooks ==
    ASSUME TypeOK, NEW c \in Cids,
           UNCHANGED vars \/ Release(c) \/ Tick \/ Reclaim(now, Stale(now - TTL))
             \/ \E a \in Amounts, cur \in Currencies :
                    ReserveUnbounded(c, a, cur) \/ ReserveHeld(c, a, cur)
    PROVE  costLedger' = costLedger
  BY DEF vars, Release, Tick, Reclaim, ReconcileExpired, ReserveUnbounded, ReserveHeld

\* The whole answers stay whole, the booked costs booked.
LEMMA AccountsStay ==
    ASSUME StreamInv, [Next]_vars, cid' = cid,
           \A q \in Streams : upstream[q] = "whole" => upstream'[q] = "whole"
    PROVE  /\ \A c \in Cids : costLedger[c] # NoEntry =>
                  \E q \in Streams : cid'[q] = c /\ upstream'[q] = "whole"
           /\ \A k \in cache : \E q \in Streams : /\ KeyOf[q] = k
                                                  /\ upstream'[q] = "whole"
                                                  /\ costLedger'[cid'[q]] # NoEntry
           /\ \A q \in Streams : result[q] = "completed" => costLedger'[cid'[q]] # NoEntry
           /\ \A q \in Streams : at[q] = "put" => /\ row'[cid'[q]].status = "committed"
                                                  /\ costLedger'[cid'[q]] # NoEntry
<1>0. IInv /\ \A q \in Streams : cid[q] \in Cids
  BY StreamCidType DEF StreamInv
<1>1. \A q \in Streams : costLedger[cid[q]] # NoEntry => costLedger'[cid'[q]] # NoEntry
  BY <1>0, BookedStays
<1>2. ASSUME NEW q \in Streams, at[q] = "put"
      PROVE  row'[cid'[q]].status = "committed" /\ costLedger'[cid'[q]] # NoEntry
  <2>1. row[cid[q]].status = "committed"
    BY <1>2 DEF StreamInv, WholeIsSettled
  <2>2. row'[cid[q]] = row[cid[q]]
    BY <2>1, <1>0, CommittedStays
  <2>3. costLedger[cid[q]] # NoEntry
    BY <2>1, <1>0 DEF IInv, CommittedMatchesCostLedger
  <2> QED BY <2>1, <2>2, <2>3, <1>1, <1>2
<1>3. \A k \in cache : \E q \in Streams : /\ KeyOf[q] = k
                                          /\ upstream'[q] = "whole"
                                          /\ costLedger'[cid'[q]] # NoEntry
  BY <1>1 DEF StreamInv, CachedIsWhole
<1>4. \A q \in Streams : result[q] = "completed" => costLedger'[cid'[q]] # NoEntry
  BY <1>1 DEF StreamInv, CompletedIsAccounted
<1>5. \A c \in Cids : costLedger[c] # NoEntry =>
          \E q \in Streams : cid'[q] = c /\ upstream'[q] = "whole"
  BY DEF StreamInv, BilledIsWhole
<1> QED BY <1>2, <1>3, <1>4, <1>5

\* A step that books nothing and keeps every row, in which streams end only
\* with their id adrift.
LEMMA QuietStream ==
    ASSUME StreamInv, [Next]_vars, \A d \in Cids : Kept(d), costLedger' = costLedger,
           StreamTypeOK', cid' = cid, observed' = observed, upstream' = upstream,
           cache' = cache, adrift \subseteq adrift',
           \A q \in Streams : \/ at'[q] = at[q]
                              \/ at'[q] = "ended" /\ cid[q] \in adrift',
           \A q \in Streams : at'[q] = "opened" => first'[q] = first[q],
           \A q \in Streams : result'[q] = "completed" => result[q] = "completed"
    PROVE  StreamInv'
<1>0. IInv'
  BY InvStep DEF StreamInv
<1>1. /\ \A c \in Cids : costLedger[c] # NoEntry =>
             \E q \in Streams : cid'[q] = c /\ upstream'[q] = "whole"
      /\ \A k \in cache : \E q \in Streams : /\ KeyOf[q] = k
                                             /\ upstream'[q] = "whole"
                                             /\ costLedger'[cid'[q]] # NoEntry
      /\ \A q \in Streams : result[q] = "completed" => costLedger'[cid'[q]] # NoEntry
      /\ \A q \in Streams : at[q] = "put" => row'[cid'[q]].status = "committed"
  BY AccountsStay
<1>2. ASSUME NEW q \in Streams PROVE (Heard(q) /\ FirstIsLatest(q) /\ WholeIsSettled(q))'
  <2>1. Heard(q) /\ FirstIsLatest(q) /\ WholeIsSettled(q)
    BY DEF StreamInv
  <2>2. Heard(q)'
    BY <2>1 DEF Heard, Unheld
  <2>3. FirstIsLatest(q)'
    BY <2>1 DEF FirstIsLatest
  <2>4. WholeIsSettled(q)'
    BY <2>1, <1>1 DEF WholeIsSettled
  <2> QED BY <2>2, <2>3, <2>4
<1>3. StreamHoldsAreOwned'
  <2> SUFFICES ASSUME NEW c \in Cids, row'[c].status = "reserved", c \notin adrift'
               PROVE  \E q \in Streams : /\ cid'[q] = c
                                         /\ at'[q] \notin {"new", "lookup", "reclaim",
                                                           "reserve", "ended"}
    BY DEF StreamHoldsAreOwned
  <2>1. row[c].status = "reserved" /\ c \notin adrift
    BY DEF Kept
  <2> QED BY <2>1 DEF StreamInv, StreamHoldsAreOwned
<1>4. CompletedIsAccounted' /\ BilledIsWhole' /\ CachedIsWhole'
  BY <1>1 DEF CompletedIsAccounted, BilledIsWhole, CachedIsWhole
<1> QED BY <1>0, <1>2, <1>3, <1>4 DEF StreamInv

\* A step of one stream, on its own hold, with the conditions that each of
\* those steps has to meet.
LEMMA StreamMove ==
    ASSUME StreamInv, [Next]_vars, NEW s \in Streams, NEW x \in Places,
           \A d \in Cids \ {cid[s]} : Kept(d),
           StreamTypeOK', cid' = cid, adrift \subseteq adrift',
           at' = [at EXCEPT ![s] = x],
           \A q \in Streams \ {s} : /\ first'[q] = first[q] /\ observed'[q] = observed[q]
                                    /\ upstream'[q] = upstream[q] /\ result'[q] = result[q],
           upstream[s] = "whole" => upstream'[s] = "whole",
           Heard(s)', FirstIsLatest(s)',
           x \in {"settle", "put"} => upstream'[s] = "whole",
           x = "put" => row'[cid[s]].status = "committed",
           row'[cid[s]].status = "reserved" =>
               \/ x \in Holding
               \/ cid[s] \in adrift'
               \/ row[cid[s]].status = "reserved" /\ at[s] \in Unheld \cup {"ended"},
           result'[s] = "completed" => result[s] = "completed" \/ at[s] = "put",
           \A c \in Cids : costLedger'[c] = costLedger[c]
                             \/ (c = cid[s] /\ upstream'[s] = "whole"),
           cache' = cache \/ (cache' = cache \cup {KeyOf[s]} /\ at[s] = "put")
    PROVE  StreamInv'
<1>0. IInv' /\ StreamTypeOK
  BY InvStep DEF StreamInv
<1>a. at'[s] = x /\ \A q \in Streams \ {s} : at'[q] = at[q]
  BY <1>0 DEF StreamTypeOK
<1>b. \A q \in Streams : upstream[q] = "whole" => upstream'[q] = "whole"
  OBVIOUS
<1>1. /\ \A c \in Cids : costLedger[c] # NoEntry =>
             \E q \in Streams : cid'[q] = c /\ upstream'[q] = "whole"
      /\ \A k \in cache : \E q \in Streams : /\ KeyOf[q] = k
                                             /\ upstream'[q] = "whole"
                                             /\ costLedger'[cid'[q]] # NoEntry
      /\ \A q \in Streams : result[q] = "completed" => costLedger'[cid'[q]] # NoEntry
      /\ \A q \in Streams : at[q] = "put" => /\ row'[cid'[q]].status = "committed"
                                             /\ costLedger'[cid'[q]] # NoEntry
  BY <1>b, AccountsStay
<1>2. ASSUME NEW q \in Streams PROVE (Heard(q) /\ FirstIsLatest(q) /\ WholeIsSettled(q))'
  <2>1. CASE q = s
    <3>1. WholeIsSettled(s)'
      BY <1>a DEF WholeIsSettled
    <3> QED BY <2>1, <3>1
  <2>2. CASE q # s
    <3>1. Heard(q) /\ FirstIsLatest(q) /\ WholeIsSettled(q)
      BY DEF StreamInv
    <3>2. Heard(q)' /\ FirstIsLatest(q)'
      BY <2>2, <3>1, <1>a DEF Heard, FirstIsLatest
    <3>3. WholeIsSettled(q)'
      BY <2>2, <3>1, <1>a, <1>1 DEF WholeIsSettled
    <3> QED BY <3>2, <3>3
  <2> QED BY <2>1, <2>2
<1>3. StreamHoldsAreOwned'
  <2> SUFFICES ASSUME NEW c \in Cids, row'[c].status = "reserved", c \notin adrift'
               PROVE  \E q \in Streams : /\ cid'[q] = c
                                         /\ at'[q] \notin {"new", "lookup", "reclaim",
                                                           "reserve", "ended"}
    BY DEF StreamHoldsAreOwned
  <2>1. CASE c = cid[s] /\ x \in Holding
    BY <2>1, <1>a DEF Holding, Delivering, Releasing
  <2>2. CASE ~ (c = cid[s] /\ x \in Holding)
    <3>1. row[c].status = "reserved" /\ c \notin adrift
          /\ (c = cid[s] => at[s] \in Unheld \cup {"ended"})
      BY <2>2 DEF Kept
    <3>2. PICK q \in Streams : /\ cid[q] = c
                               /\ at[q] \notin {"new", "lookup", "reclaim", "reserve", "ended"}
      BY <3>1 DEF StreamInv, StreamHoldsAreOwned
    <3>3. q # s
      BY <3>1, <3>2 DEF Unheld
    <3> QED BY <3>2, <3>3, <1>a
  <2> QED BY <2>1, <2>2
<1>4. CompletedIsAccounted'
  BY <1>1 DEF CompletedIsAccounted
<1>5. BilledIsWhole'
  BY <1>1 DEF BilledIsWhole
<1>6. CachedIsWhole'
  <2>1. CASE cache' = cache
    BY <2>1, <1>1 DEF CachedIsWhole
  <2>2. CASE cache' = cache \cup {KeyOf[s]} /\ at[s] = "put"
    <3>1. upstream'[s] = "whole" /\ costLedger'[cid'[s]] # NoEntry
      BY <2>2, <1>1 DEF StreamInv, WholeIsSettled
    <3> QED BY <2>2, <3>1, <1>1 DEF CachedIsWhole
  <2> QED BY <2>1, <2>2
<1> QED BY <1>0, <1>2, <1>3, <1>4, <1>5, <1>6 DEF StreamInv

-----------------------------------------------------------------------------
(* The streams: their steps.                                               *)

\* What a step of the stream s may do to the ledger: an operation on its id,
\* or a sweep.
OnItsHold(s) == /\ [Next]_vars
                /\ \A d \in Cids \ {cid[s]} : Kept(d)
                /\ \A c \in Cids : costLedger'[c] = costLedger[c]
                                     \/ (c = cid[s] /\ at[s] = "settle")

\* Where a step without a provider event may take a stream: never back to where
\* the provider is still to be heard.
Onward(s, x) ==
    /\ x \in Places \ {"opened", "streaming", "settle"}
    /\ x \in Unheld \cup {"opening"} => at[s] \in Unheld
    /\ x = "put" => at[s] = "settle"

\* The conditions of a step without a provider event.
LEMMA SilentMove ==
    ASSUME StreamInv, NEW s \in Streams, NEW x, Onward(s, x), OnItsHold(s),
           cid' = cid, observed' = observed, upstream' = upstream, adrift \subseteq adrift',
           at' = [at EXCEPT ![s] = x],
           first' = first \/ first' = [first EXCEPT ![s] = "none"],
           \/ result' = result
           \/ \E r \in Results : /\ result' = [result EXCEPT ![s] = r]
                                 /\ r = "completed" => at[s] = "put",
           x = "put" => row'[cid[s]].status = "committed",
           row'[cid[s]].status = "reserved" =>
               \/ x \in Holding
               \/ cid[s] \in adrift'
               \/ row[cid[s]].status = "reserved" /\ at[s] \in Unheld,
           cache' = cache \/ (cache' = cache \cup {KeyOf[s]} /\ at[s] = "put")
    PROVE  StreamInv' /\ [Next]_vars
<1>0. StreamTypeOK /\ x \in Places /\ Heard(s) /\ WholeIsSettled(s)
  BY DEF StreamInv, Onward
<1>1. StreamTypeOK'
  BY <1>0 DEF StreamTypeOK
<1>a. at'[s] = x
  BY <1>0 DEF StreamTypeOK
<1>2. \A q \in Streams \ {s} : /\ first'[q] = first[q] /\ observed'[q] = observed[q]
                               /\ upstream'[q] = upstream[q] /\ result'[q] = result[q]
  BY <1>0 DEF StreamTypeOK
<1>3. Heard(s)'
  BY <1>0, <1>a DEF Heard, Onward, Unheld
<1>4. FirstIsLatest(s)'
  BY <1>a DEF FirstIsLatest, Onward
<1>5. x \in {"settle", "put"} => upstream'[s] = "whole"
  BY <1>0 DEF Onward, WholeIsSettled
<1>6. result'[s] = "completed" => result[s] = "completed" \/ at[s] = "put"
  BY <1>0 DEF StreamTypeOK
<1>7. \A c \in Cids : costLedger'[c] = costLedger[c] \/ (c = cid[s] /\ upstream'[s] = "whole")
  BY <1>0 DEF OnItsHold, WholeIsSettled
<1>8. [Next]_vars /\ \A d \in Cids \ {cid[s]} : Kept(d)
  BY DEF OnItsHold
<1>9. StreamInv'
  BY <1>0, <1>1, <1>2, <1>3, <1>4, <1>5, <1>6, <1>7, <1>8, StreamMove
<1> QED BY <1>8, <1>9

\* The operations of the ledger that a stream calls, on its id.
LEMMA OnItsHoldCases ==
    ASSUME StreamInv, NEW s \in Streams,
           \/ UNCHANGED vars
           \/ Reclaim(now, Stale(now - TTL))
           \/ Release(cid[s])
           \/ \E a \in Amounts, cur \in Currencies :
                  ReserveUnbounded(cid[s], a, cur) \/ ReserveHeld(cid[s], a, cur)
           \/ at[s] = "settle" /\ \E a \in Amounts, cur \in Currencies : Settle(cid[s], a, cur)
    PROVE  OnItsHold(s)
<1>0. TypeOK /\ cid[s] \in Cids
  BY StreamCidType DEF StreamInv, IInv
<1>1. CASE UNCHANGED vars
  BY <1>1, <1>0, KeptIdle, OnlySettleBooks DEF OnItsHold
<1>2. CASE Reclaim(now, Stale(now - TTL))
  BY <1>2, <1>0, KeptReclaim, OnlySettleBooks DEF OnItsHold
<1>3. CASE Release(cid[s])
  BY <1>3, <1>0, KeptRelease, OnlySettleBooks DEF OnItsHold
<1>4. CASE \E a \in Amounts, cur \in Currencies :
               ReserveUnbounded(cid[s], a, cur) \/ ReserveHeld(cid[s], a, cur)
  <2>1. [Next]_vars /\ \A d \in Cids \ {cid[s]} : Kept(d)
    BY <1>4, <1>0, KeptReserve
  <2>2. costLedger' = costLedger
    BY <1>4, <1>0, OnlySettleBooks
  <2> QED BY <2>1, <2>2 DEF OnItsHold
<1>5. CASE at[s] = "settle" /\ \E a \in Amounts, cur \in Currencies : Settle(cid[s], a, cur)
  <2>1. [Next]_vars /\ \A d \in Cids \ {cid[s]} : Kept(d)
    BY <1>5, <1>0, KeptSettle
  <2>2. \A c \in Cids \ {cid[s]} : costLedger'[c] = costLedger[c]
    BY <1>5, <1>0 DEF Settle, RecordCost, TypeOK
  <2> QED BY <1>5, <2>1, <2>2 DEF OnItsHold
<1> QED BY <1>1, <1>2, <1>3, <1>4, <1>5

\* open, up to the reservation: nothing is held that was not.
LEMMA StepOpening ==
    ASSUME StreamInv, NEW s \in Streams,
           \/ StreamArrive(s) \/ StreamNotRouted(s) \/ StreamCacheHit(s) \/ StreamCacheMiss(s)
           \/ OpenReclaim(s)
           \/ \E a \in Amounts, cur \in Currencies : OpenRefused(s, a, cur)
           \/ PriceUnavailable(s) /\ at[s] = "reserve"
           \/ \E a \in Amounts : StreamCancel(s, a) /\ at[s] \in Unheld /\ UNCHANGED vars
    PROVE  StreamInv' /\ [Next]_vars
<1>1. /\ cid' = cid /\ observed' = observed /\ upstream' = upstream /\ first' = first
      /\ cache' = cache /\ adrift \subseteq adrift'
  BY DEF StreamArrive, StreamNotRouted, StreamCacheHit, StreamCacheMiss, OpenReclaim,
         OpenRefused, PriceUnavailable, StreamCancel, HoldUnseen, StreamAdrift
<1>2. UNCHANGED vars \/ Reclaim(now, Stale(now - TTL))
  BY DEF StreamArrive, StreamNotRouted, StreamCacheHit, StreamCacheMiss, OpenReclaim,
         OpenRefused, PriceUnavailable, ReserveExceeded, ReserveWrongCurrency
<1>3. at[s] \in Unheld
  BY DEF StreamArrive, StreamNotRouted, StreamCacheHit, StreamCacheMiss, OpenReclaim,
         OpenRefused, Unheld
<1>4. PICK x \in {"lookup", "reclaim", "reserve", "ended"} :
          /\ at' = [at EXCEPT ![s] = x]
          /\ \/ result' = result
             \/ \E r \in Results \ {"completed"} : result' = [result EXCEPT ![s] = r]
  BY DEF StreamArrive, StreamNotRouted, StreamCacheHit, StreamCacheMiss, OpenReclaim,
         OpenRefused, PriceUnavailable, StreamCancel, GotoAt, StreamEnd, Results
<1>5. Onward(s, x) /\ x # "put"
  BY <1>3 DEF Onward, Places, Unheld
<1>6. OnItsHold(s)
  BY <1>2, OnItsHoldCases
<1>7. row'[cid[s]].status = "reserved" => row[cid[s]].status = "reserved"
  <2>1. \A d \in Cids : Kept(d)
    BY <1>2, KeptIdle, KeptReclaim DEF StreamInv, IInv
  <2>2. cid[s] \in Cids
    BY StreamCidType DEF StreamInv
  <2> QED BY <2>1, <2>2 DEF Kept
<1> QED BY <1>1, <1>3, <1>4, <1>5, <1>6, <1>7, SilentMove

\* The reservation is granted, or committed and its answer lost.
LEMMA StepHeld ==
    ASSUME StreamInv, NEW s \in Streams,
           \/ \E a \in Amounts, cur \in Currencies : OpenReserved(s, a, cur)
           \/ \E a \in Amounts : OpenUnavailable(s, a)
           \/ \E a \in Amounts : StreamCancel(s, a) /\ at[s] = "reserve"
    PROVE  StreamInv' /\ [Next]_vars
<1>0. at[s] = "reserve" /\ at[s] \in Unheld
  BY DEF OpenReserved, OpenUnavailable, Unheld
<1>1. /\ cid' = cid /\ observed' = observed /\ upstream' = upstream /\ first' = first
      /\ cache' = cache /\ adrift \subseteq adrift'
  BY <1>0 DEF OpenReserved, OpenUnavailable, StreamCancel, HoldUnseen, StreamAdrift
<1>2. \/ UNCHANGED vars
      \/ \E a \in Amounts, cur \in Currencies :
             ReserveUnbounded(cid[s], a, cur) \/ ReserveHeld(cid[s], a, cur)
  BY <1>0, MoneyAssumption DEF OpenReserved, OpenUnavailable, StreamCancel, HoldUnseen,
                               ReserveReplay
<1>3. PICK x \in {"opening", "ended"} :
          /\ at' = [at EXCEPT ![s] = x]
          /\ \/ result' = result
             \/ \E r \in Results \ {"completed"} : result' = [result EXCEPT ![s] = r]
          /\ x = "opening" \/ UNCHANGED vars \/ cid[s] \in adrift'
  BY <1>0 DEF OpenReserved, OpenUnavailable, StreamCancel, HoldUnseen, StreamAdrift, GotoAt,
              StreamEnd, Results
<1>4. Onward(s, x) /\ x # "put" /\ (x = "opening" => x \in Holding)
  BY <1>0 DEF Onward, Places, Unheld, Holding
<1>5. OnItsHold(s)
  BY <1>2, OnItsHoldCases
<1>6. row'[cid[s]].status = "reserved" =>
          x \in Holding \/ cid[s] \in adrift' \/ row[cid[s]].status = "reserved"
  BY <1>3, <1>4 DEF vars
<1> QED BY <1>0, <1>1, <1>3, <1>4, <1>5, <1>6, SilentMove

\* The settlement, and what keeps a whole answer from being settled.
LEMMA StepStreamSettle ==
    ASSUME StreamInv, NEW s \in Streams,
           \/ \E a \in Amounts, cur \in Currencies : StreamSettled(s, a, cur)
           \/ \E a \in Amounts : StreamUnsettled(s, a)
           \/ \E cur \in Currencies : StreamSettleRaises(s, cur)
           \/ PriceUnavailable(s) /\ at[s] = "settle"
    PROVE  StreamInv' /\ [Next]_vars
<1>0. at[s] = "settle"
  BY DEF StreamSettled, StreamUnsettled, StreamSettleRaises
<1>1. /\ cid' = cid /\ observed' = observed /\ upstream' = upstream /\ first' = first
      /\ cache' = cache /\ adrift' = adrift
  BY DEF StreamSettled, StreamUnsettled, StreamSettleRaises, PriceUnavailable
<1>2. \/ UNCHANGED vars
      \/ \E a \in Amounts, cur \in Currencies : Settle(cid[s], a, cur)
  BY MoneyAssumption DEF StreamSettled, StreamUnsettled, StreamSettleRaises, PriceUnavailable,
                         SettleReplay, SettleUnknown, SettleWrongCurrency
<1>3. PICK x \in {"put", "releaseUnaccounted", "raising"} :
          /\ at' = [at EXCEPT ![s] = x]
          /\ result' = result
          /\ x = "put" => \E a \in Amounts, cur \in Currencies : StreamSettled(s, a, cur)
  BY <1>0 DEF StreamSettled, StreamUnsettled, StreamSettleRaises, PriceUnavailable, GotoAt
<1>4. Onward(s, x) /\ x \in Holding
  BY <1>0 DEF Onward, Places, Unheld, Holding, Delivering, Releasing
<1>5. OnItsHold(s)
  BY <1>0, <1>2, OnItsHoldCases
<1>6. x = "put" => row'[cid[s]].status = "committed"
  <2>1. ASSUME NEW a \in Amounts, NEW cur \in Currencies, StreamSettled(s, a, cur)
        PROVE  row'[cid[s]].status = "committed"
    <3>1. CASE Settle(cid[s], a, cur)
      BY <3>1, StreamCidType, KeptSettle DEF StreamInv, IInv
    <3>2. CASE SettleReplay(cid[s])
      BY <3>2 DEF SettleReplay, vars
    <3> QED BY <2>1, <3>1, <3>2 DEF StreamSettled
  <2> QED BY <1>3, <2>1
<1> QED BY <1>1, <1>3, <1>4, <1>5, <1>6, SilentMove

\* The answer is cached, or cannot be, and the stream completes.
LEMMA StepStreamPut ==
    ASSUME StreamInv, NEW s \in Streams, StreamPut(s)
    PROVE  StreamInv' /\ [Next]_vars
<1>1. /\ cid' = cid /\ observed' = observed /\ upstream' = upstream /\ first' = first
      /\ adrift' = adrift /\ UNCHANGED vars /\ at[s] = "put"
      /\ at' = [at EXCEPT ![s] = "ended"] /\ result' = [result EXCEPT ![s] = "completed"]
      /\ (cache' = cache \/ cache' = cache \cup {KeyOf[s]})
  BY DEF StreamPut, StreamEnd, CachePut
<1>2. Onward(s, "ended") /\ "completed" \in Results
  BY DEF Onward, Places, Unheld, Results
<1>3. OnItsHold(s)
  BY <1>1, OnItsHoldCases
<1>4. row'[cid[s]].status # "reserved"
  BY <1>1 DEF StreamInv, WholeIsSettled, vars
<1> QED BY <1>1, <1>2, <1>3, <1>4, SilentMove

\* The hold is given back, found returned, or set adrift.
LEMMA StepStreamRelease ==
    ASSUME StreamInv, NEW s \in Streams, StreamRelease(s)
    PROVE  StreamInv' /\ [Next]_vars
<1>1. /\ cid' = cid /\ observed' = observed /\ upstream' = upstream /\ first' = first
      /\ cache' = cache /\ adrift \subseteq adrift' /\ at' = [at EXCEPT ![s] = "ended"]
  BY DEF StreamRelease, StreamEnd, StreamAdrift
<1>2. \E r \in Results \ {"completed"} : result' = [result EXCEPT ![s] = r]
  <2>1. result' = [result EXCEPT ![s] = Ending[at[s]]] /\ at[s] \in DOMAIN Ending
    BY DEF StreamRelease, StreamEnd
  <2>2. DOMAIN Ending = {"releaseFirst", "releaseFailed", "releaseUnaccounted",
                         "disconnected", "raising"}
    BY DEF Ending
  <2>3. Ending[at[s]] \in Results \ {"completed"}
    BY <2>1, <2>2 DEF Ending, Results
  <2> QED BY <2>1, <2>3
<1>3. Onward(s, "ended")
  BY DEF Onward, Places, Unheld
<1>4. UNCHANGED vars \/ Release(cid[s])
  BY DEF StreamRelease, ReleaseReplay
<1>5. OnItsHold(s)
  BY <1>4, OnItsHoldCases
<1>6. row'[cid[s]].status = "reserved" => cid[s] \in adrift'
  <2>1. CASE Release(cid[s])
    BY <2>1, StreamCidType, KeptRelease DEF StreamInv, IInv
  <2>2. CASE ~ Release(cid[s])
    BY <2>2 DEF StreamRelease, ReleaseReplay, HoldAlreadyReturned, StreamAdrift, vars
  <2> QED BY <2>1, <2>2
<1> QED BY <1>1, <1>2, <1>3, <1>5, <1>6, SilentMove

\* The client goes away, or the serving task is cancelled with a hold.
LEMMA StepStreamLeave ==
    ASSUME StreamInv, NEW s \in Streams,
           \/ Disconnect(s)
           \/ \E a \in Amounts : StreamCancel(s, a) /\ at[s] \notin Unheld
    PROVE  StreamInv' /\ [Next]_vars
<1>1. /\ cid' = cid /\ observed' = observed /\ upstream' = upstream
      /\ cache' = cache /\ adrift \subseteq adrift'
      /\ (first' = first \/ first' = [first EXCEPT ![s] = "none"])
  BY DEF Disconnect, StreamCancel, HoldUnseen, StreamAdrift
<1>2. PICK x \in {"disconnected", "ended"} :
          /\ at' = [at EXCEPT ![s] = x]
          /\ \/ result' = result
             \/ \E r \in Results \ {"completed"} : result' = [result EXCEPT ![s] = r]
          /\ x = "ended" => cid[s] \in adrift'
  BY DEF Disconnect, StreamCancel, StreamAdrift, GotoAt, StreamEnd, Results, Unheld
<1>3. Onward(s, x) /\ x # "put" /\ (x = "disconnected" => x \in Holding)
  BY DEF Onward, Places, Unheld, Holding
<1>4. UNCHANGED vars \/ Release(cid[s])
  BY DEF Disconnect, StreamCancel, Unheld
<1>5. OnItsHold(s)
  BY <1>4, OnItsHoldCases
<1> QED BY <1>1, <1>2, <1>3, <1>5, SilentMove

\* The provider's first event.
LEMMA StepFirstEvent ==
    ASSUME StreamInv, NEW s \in Streams, NEW e \in Events, FirstEvent(s, e)
    PROVE  StreamInv' /\ [Next]_vars
<1>0. StreamTypeOK /\ Heard(s) /\ at[s] = "opening"
  BY DEF StreamInv, FirstEvent
<1>1. cid' = cid /\ cache' = cache /\ adrift' = adrift /\ result' = result /\ UNCHANGED vars
  BY DEF FirstEvent, GotoAt
<1>2. upstream[s] = "open" /\ observed[s] = 0
  BY <1>0 DEF Heard
<1> DEFINE u == CASE e = "chunk" -> "open" [] e = "completed" -> "whole" [] OTHER -> "broken"
<1>3. u \in {"open", "whole", "broken"} /\ upstream' = [upstream EXCEPT ![s] = u]
  BY DEF FirstEvent, Upstream
<1>4. OnItsHold(s)
  BY <1>1, OnItsHoldCases
<1>5. CASE e \in {"chunk", "completed", "noUsage"}
  <2>1. first' = [first EXCEPT ![s] = e] /\ at' = [at EXCEPT ![s] = "opened"]
        /\ observed' = observed
    BY <1>5 DEF FirstEvent, GotoAt
  <2>2. "opened" \in Places /\ "opened" \in Holding
    BY DEF Places, Holding
  <2>3. StreamTypeOK'
    BY <1>0, <1>1, <1>3, <2>1, <2>2 DEF StreamTypeOK
  <2>4. Heard(s)' /\ FirstIsLatest(s)'
    BY <1>0, <1>2, <1>3, <1>5, <2>1 DEF StreamTypeOK, Heard, FirstIsLatest, Unheld
  <2>5. \A q \in Streams \ {s} : /\ first'[q] = first[q] /\ observed'[q] = observed[q]
                                 /\ upstream'[q] = upstream[q] /\ result'[q] = result[q]
    BY <1>0, <1>1, <1>3, <2>1 DEF StreamTypeOK
  <2>6. [Next]_vars /\ (\A d \in Cids \ {cid[s]} : Kept(d))
        /\ \A c \in Cids : costLedger'[c] = costLedger[c]
    BY <1>1, <1>4 DEF OnItsHold, vars
  <2>7. StreamInv'
    BY <1>1, <1>2, <2>1, <2>2, <2>3, <2>4, <2>5, <2>6, StreamMove
  <2> QED BY <2>6, <2>7
<1>6. CASE e \in {"failed", "truncated"}
  <2>1. first' = first /\ at' = [at EXCEPT ![s] = "releaseFirst"]
        /\ observed' = [observed EXCEPT ![s] = @ + 1]
    BY <1>6 DEF FirstEvent, GotoAt, Observe
  <2>2. "releaseFirst" \in Places /\ "releaseFirst" \in Holding
    BY DEF Places, Holding
  <2>3. StreamTypeOK'
    BY <1>0, <1>1, <1>2, <1>3, <2>1, <2>2 DEF StreamTypeOK
  <2>4. Heard(s)' /\ FirstIsLatest(s)'
    BY <1>0, <1>2, <1>3, <1>6, <2>1 DEF StreamTypeOK, Heard, FirstIsLatest, Unheld
  <2>5. \A q \in Streams \ {s} : /\ first'[q] = first[q] /\ observed'[q] = observed[q]
                                 /\ upstream'[q] = upstream[q] /\ result'[q] = result[q]
    BY <1>0, <1>1, <1>3, <2>1 DEF StreamTypeOK
  <2>6. [Next]_vars /\ (\A d \in Cids \ {cid[s]} : Kept(d))
        /\ \A c \in Cids : costLedger'[c] = costLedger[c]
    BY <1>1, <1>4 DEF OnItsHold, vars
  <2>7. StreamInv'
    BY <1>1, <1>2, <2>1, <2>2, <2>3, <2>4, <2>5, <2>6, StreamMove
  <2> QED BY <2>6, <2>7
<1> QED BY <1>5, <1>6 DEF FirstEvent

\* The event in hand is delivered.
LEMMA StepDeliver ==
    ASSUME StreamInv, NEW s \in Streams, NEW e \in Events, Deliver(s, e)
    PROVE  StreamInv' /\ [Next]_vars
<1>0. StreamTypeOK /\ Heard(s) /\ FirstIsLatest(s) /\ at[s] \in {"opened", "streaming"}
      /\ observed[s] = 0
  BY DEF StreamInv, Deliver, Heard
<1>1. /\ cid' = cid /\ cache' = cache /\ adrift' = adrift /\ result' = result /\ UNCHANGED vars
      /\ first' = [first EXCEPT ![s] = "none"]
  BY DEF Deliver, GotoAt
<1>2. PICK u \in {"open", "whole", "broken"} :
          /\ upstream' = [upstream EXCEPT ![s] = u]
          /\ upstream[s] = "whole" => u = "whole"
          /\ e = "chunk" => u = "open"
          /\ e = "completed" => u = "whole"
          /\ e \in {"failed", "truncated", "noUsage"} => u = "broken"
  <2>1. CASE at[s] = "opened"
    <3>1. e = first[s] /\ upstream' = upstream
      BY <2>1 DEF Deliver
    <3>2. upstream' = [upstream EXCEPT ![s] = upstream[s]]
          /\ upstream[s] \in {"open", "whole", "broken"}
      BY <3>1, <1>0 DEF StreamTypeOK
    <3> QED BY <2>1, <3>1, <3>2, <1>0 DEF FirstIsLatest
  <2>2. CASE at[s] = "streaming"
    <3>1. upstream[s] = "open"
      BY <2>2, <1>0 DEF Heard
    <3>2. e \in Terminals /\ Upstream(s, e)
      BY <2>2 DEF Deliver
    <3>3. CASE e = "completed"
      BY <3>1, <3>2, <3>3 DEF Upstream
    <3>4. CASE e # "completed"
      BY <3>1, <3>2, <3>4 DEF Upstream, Terminals
    <3> QED BY <3>3, <3>4
  <2> QED BY <2>1, <2>2, <1>0
<1>3. PICK x \in {"streaming", "releaseFailed", "releaseUnaccounted", "settle"} :
          /\ at' = [at EXCEPT ![s] = x]
          /\ x = "streaming" => e = "chunk" /\ observed' = observed
          /\ x # "streaming" => e # "chunk" /\ observed' = [observed EXCEPT ![s] = @ + 1]
          /\ x = "settle" => e = "completed"
  BY DEF Deliver, GotoAt, Observe
<1>4. x \in Places /\ x \in Holding
  BY DEF Places, Holding, Delivering, Releasing
<1>5. StreamTypeOK'
  BY <1>0, <1>1, <1>2, <1>3, <1>4 DEF StreamTypeOK
<1>6. e # "chunk" => u # "open"
  BY <1>2 DEF Events, Terminals
<1>7. Heard(s)' /\ FirstIsLatest(s)'
  BY <1>0, <1>2, <1>3, <1>6 DEF StreamTypeOK, Heard, FirstIsLatest, Unheld
<1>8. \A q \in Streams \ {s} : /\ first'[q] = first[q] /\ observed'[q] = observed[q]
                               /\ upstream'[q] = upstream[q] /\ result'[q] = result[q]
  BY <1>0, <1>1, <1>2, <1>3 DEF StreamTypeOK
<1>9. [Next]_vars /\ (\A d \in Cids \ {cid[s]} : Kept(d))
       /\ \A c \in Cids : costLedger'[c] = costLedger[c]
  BY <1>1, OnItsHoldCases DEF OnItsHold, vars
<1>10. (upstream[s] = "whole" => upstream'[s] = "whole")
       /\ (x \in {"settle", "put"} => upstream'[s] = "whole")
  BY <1>0, <1>2, <1>3 DEF StreamTypeOK
<1>11. StreamInv'
  BY <1>1, <1>3, <1>4, <1>5, <1>7, <1>8, <1>9, <1>10, StreamMove
<1> QED BY <1>9, <1>11

\* Other traffic, time, and a crash of the process.
LEMMA StepStreamElsewhere ==
    ASSUME StreamInv, StreamTraffic \/ StreamTick \/ StreamCrash \/ UNCHANGED allStreamVars
    PROVE  StreamInv' /\ [Next]_vars
<1>0. StreamTypeOK /\ TypeOK /\ IInv
  BY DEF StreamInv, IInv
<1>1. CASE StreamTraffic \/ StreamTick \/ UNCHANGED allStreamVars
  <2>1. UNCHANGED streamVars
    BY <1>1 DEF StreamTraffic, StreamTick, allStreamVars
  <2>2. [Next]_vars /\ (\A d \in Cids : Kept(d)) /\ costLedger' = costLedger
    <3>1. CASE StreamTraffic
      BY <3>1, <1>0, KeptReclaim DEF StreamTraffic, Reclaim, ReconcileExpired
    <3>2. CASE StreamTick
      BY <3>2, <1>0, KeptTick DEF StreamTick, Tick
    <3>3. CASE UNCHANGED allStreamVars
      BY <3>3, KeptIdle DEF allStreamVars, vars
    <3> QED BY <1>1, <3>1, <3>2, <3>3
  <2>3. StreamTypeOK'
    BY <1>0, <2>1 DEF StreamTypeOK, streamVars
  <2>4. StreamInv'
    BY <2>1, <2>2, <2>3, QuietStream DEF streamVars
  <2> QED BY <2>2, <2>4
<1>2. CASE StreamCrash
  <2> DEFINE live == {s \in Streams : at[s] \notin {"new", "ended"}}
  <2>1. /\ at' = [s \in Streams |-> IF s \in live THEN "ended" ELSE at[s]]
        /\ result' = [s \in Streams |-> IF s \in live THEN "failed" ELSE result[s]]
        /\ adrift' = adrift \cup {cid[s] : s \in live}
        /\ first' = [s \in Streams |-> "none"]
        /\ UNCHANGED <<vars, cid, cache, observed, upstream>>
    BY <1>2 DEF StreamCrash
  <2>2. [Next]_vars /\ (\A d \in Cids : Kept(d)) /\ costLedger' = costLedger
    BY <2>1, KeptIdle DEF vars
  <2>3. StreamTypeOK'
    BY <1>0, <2>1 DEF StreamTypeOK, Places, Results
  <2>4. \A q \in Streams : /\ \/ at'[q] = at[q]
                              \/ at'[q] = "ended" /\ cid[q] \in adrift'
                           /\ at'[q] # "opened"
                           /\ result'[q] = "completed" => result[q] = "completed"
    BY <2>1
  <2>5. StreamInv'
    BY <2>1, <2>2, <2>3, <2>4, QuietStream
  <2> QED BY <2>2, <2>5
<1> QED BY <1>1, <1>2

\* Every step of the streams preserves the invariant and is a step of the
\* ledger.
LEMMA StreamStep ==
    ASSUME StreamInv, [StreamNext]_allStreamVars
    PROVE  StreamInv' /\ [Next]_vars
<1>1. ASSUME NEW s \in Streams, Open(s) PROVE StreamInv' /\ [Next]_vars
  <2>1. CASE StreamCacheHit(s) \/ StreamCacheMiss(s) \/ OpenReclaim(s)
    BY <2>1, StepOpening
  <2>2. CASE \E a \in Amounts, cur \in Currencies :
                 OpenReserved(s, a, cur) \/ OpenRefused(s, a, cur)
    <3>1. CASE \E a \in Amounts, cur \in Currencies : OpenReserved(s, a, cur)
      BY <3>1, StepHeld
    <3>2. CASE \E a \in Amounts, cur \in Currencies : OpenRefused(s, a, cur)
      BY <3>2, StepOpening
    <3> QED BY <2>2, <3>1, <3>2
  <2>3. CASE \E a \in Amounts : OpenUnavailable(s, a)
    BY <2>3, StepHeld
  <2>4. CASE \E e \in Events : FirstEvent(s, e)
    BY <2>4, StepFirstEvent
  <2> QED BY <1>1, <2>1, <2>2, <2>3, <2>4, Zenon DEF Open
<1>2. ASSUME NEW s \in Streams, Run(s) PROVE StreamInv' /\ [Next]_vars
  <2>1. CASE \E e \in Events : Deliver(s, e)
    BY <2>1, StepDeliver
  <2>2. CASE \/ \E a \in Amounts, cur \in Currencies : StreamSettled(s, a, cur)
             \/ \E a \in Amounts : StreamUnsettled(s, a)
             \/ \E cur \in Currencies : StreamSettleRaises(s, cur)
    BY <2>2, StepStreamSettle
  <2>3. CASE PriceUnavailable(s)
    <3>1. at[s] = "reserve" \/ at[s] = "settle"
      BY <2>3 DEF PriceUnavailable
    <3> QED BY <2>3, <3>1, StepOpening, StepStreamSettle
  <2>4. CASE StreamPut(s) \/ StreamRelease(s)
    BY <2>4, StepStreamPut, StepStreamRelease
  <2> QED BY <1>2, <2>1, <2>2, <2>3, <2>4, Zenon DEF Run
<1>3. ASSUME NEW s \in Streams, NEW a \in Amounts, StreamCancel(s, a)
      PROVE  StreamInv' /\ [Next]_vars
  <2>1. CASE at[s] \notin Unheld
    BY <1>3, <2>1, StepStreamLeave
  <2>2. CASE at[s] = "reserve"
    BY <1>3, <2>2, StepHeld
  <2>3. CASE at[s] \in Unheld /\ at[s] # "reserve"
    <3>1. UNCHANGED vars
      BY <1>3, <2>3 DEF StreamCancel, Unheld
    <3> QED BY <1>3, <2>3, <3>1, StepOpening
  <2> QED BY <2>1, <2>2, <2>3
<1>4. ASSUME NEW s \in Streams, StreamArrive(s) \/ StreamNotRouted(s) \/ Disconnect(s)
      PROVE  StreamInv' /\ [Next]_vars
  BY <1>4, StepOpening, StepStreamLeave
<1>5. CASE StreamCrash \/ StreamTraffic \/ StreamTick \/ UNCHANGED allStreamVars
  BY <1>5, StepStreamElsewhere
<1> QED BY <1>1, <1>2, <1>3, <1>4, <1>5, Zenon DEF StreamNext

\* No stream has done anything when the behaviour starts.
LEMMA StreamStart == StreamInit => StreamInv
<1> SUFFICES ASSUME StreamInit PROVE StreamInv
  OBVIOUS
<1>1. IInv
  BY InvInit DEF StreamInit
<1>2. StreamTypeOK
  BY DEF StreamInit, StreamTypeOK, Places, Unheld, Results
<1>3. \A c \in Cids : row[c].status = "absent" /\ costLedger[c] = NoEntry
  BY DEF StreamInit, Init, AbsentRow
<1>4. \A s \in Streams : Heard(s) /\ FirstIsLatest(s) /\ WholeIsSettled(s)
  BY DEF StreamInit, Heard, FirstIsLatest, WholeIsSettled
<1>5. StreamHoldsAreOwned /\ CompletedIsAccounted /\ BilledIsWhole /\ CachedIsWhole
  BY <1>3 DEF StreamInit, StreamHoldsAreOwned, CompletedIsAccounted, BilledIsWhole,
              CachedIsWhole
<1> QED BY <1>1, <1>2, <1>4, <1>5 DEF StreamInv

\* The invariant of the streams, for any number of streams, ids and faults.
THEOREM StreamInvariance == StreamSpec => []StreamInv
<1>1. StreamInv /\ [StreamNext]_allStreamVars => StreamInv'
  BY StreamStep
<1> QED BY <1>1, StreamStart, PTL DEF StreamSpec

\* Seen from the ledger, streams that share ids, are cancelled at any await and
\* release what they could not settle are a sequence of ledger operations: all
\* that is proved of the ledger holds of it in their hands.
THEOREM StreamsUseTheLedger == StreamSpec => Spec /\ []IInv
<1>1. StreamInit => Init
  BY DEF StreamInit
<1>2. StreamInv /\ [StreamNext]_allStreamVars => [Next]_vars
  BY StreamStep
<1>3. StreamInv => IInv
  BY DEF StreamInv
<1> QED BY <1>1, <1>2, <1>3, StreamInvariance, PTL DEF StreamSpec, Spec

\* A hold that is reserved has a stream running for its id or is known to be
\* adrift, also when two streams share the id and one of them releases it.
THEOREM EveryEndingFinalizes == StreamSpec => []StreamHoldsAreOwned
<1>1. StreamInv => StreamHoldsAreOwned
  BY DEF StreamInv
<1> QED BY <1>1, StreamInvariance, PTL

\* A client that has got its whole answer is charged for it.
THEOREM CompletedStreamsArePaid == StreamSpec => []CompletedIsAccounted
<1>1. StreamInv => CompletedIsAccounted
  BY DEF StreamInv
<1> QED BY <1>1, StreamInvariance, PTL

\* Only answers that the provider has ended with their usage are billed or
\* cached, and the circuit breaker hears of each stream at most once.
THEOREM PartialAnswersNeverCount == StreamSpec => []OnlyWholeAnswersCount
<1>1. StreamInv => OnlyWholeAnswersCount
  <2> SUFFICES ASSUME StreamInv PROVE OnlyWholeAnswersCount
    OBVIOUS
  <2>1. \A s \in Streams : observed[s] <= 1 /\ (observed[s] = 1 => upstream[s] # "open")
    BY DEF StreamInv, StreamTypeOK, Heard
  <2> QED BY <2>1 DEF StreamInv, BilledIsWhole, CachedIsWhole, OnlyWholeAnswersCount
<1> QED BY <1>1, StreamInvariance, PTL

=============================================================================
