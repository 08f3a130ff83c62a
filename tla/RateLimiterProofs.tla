------------------------- MODULE RateLimiterProofs --------------------------
(***************************************************************************)
(* Proofs about RateLimiter for any replicas, handlers, burst, rate and    *)
(* clock resolution.                                                       *)
(*                                                                         *)
(* The invariant says of every store: a key expires no earlier than its    *)
(* bucket is full, a promise is for no earlier than its token is there,    *)
(* and the bucket never holds more than true time allows.  The first is    *)
(* what keeps the third true when a key disappears, and is where rounding  *)
(* up matters.                                                             *)
(***************************************************************************)
EXTENDS RateLimiter, TLAPS

\* The expiry of a bucket is late enough for it to be full again.
ExpiryIsLate(b) == b.expireAt # Never => Capacity - b.tokens <= (b.expireAt - b.updatedAt) * Rate

\* The bucket has a token by the time promised.
PromiseIsKept(b, t) == b.known /\ t # Never => Unit - b.tokens <= (t - b.updatedAt) * Rate

\* The level of bucket b on a clock that shows c.
LevelAt(b, c) == IF b.known /\ ~(b.expireAt # Never /\ c >= b.expireAt)
                 THEN AtMost(Capacity, b.tokens + AtLeast(0, c - b.updatedAt) * Rate)
                 ELSE Capacity

\* What the invariant says of a store with bucket b, a clock that shows c, a
\* promise for t and allowance a.
Sound(b, c, t, a) ==
    /\ b \in Bucket /\ b.tokens <= Capacity
    /\ c \in 0..MaxClock
    /\ t \in Int \cup {Never}
    /\ a \in Int
    /\ ExpiryIsLate(b)
    /\ PromiseIsKept(b, t)
    /\ LevelAt(b, c) <= a

RateInv ==
    /\ RateTypeOK
    /\ \A s \in Stores : Sound(bucket[s], clock[s], promised[s], allowance[s])

-----------------------------------------------------------------------------
(* Arithmetic.                                                             *)

\* A larger factor makes a larger product.
LEMMA TimesMonotone ==
    ASSUME NEW x \in Int, NEW y \in Int, NEW r \in Nat, x <= y
    PROVE  x * r <= y * r
BY SMT

\* One more tick makes r more units.
LEMMA TimesSuccessor ==
    ASSUME NEW x \in Int, NEW r \in Nat
    PROVE  (x + 1) * r = x * r + r
BY SMT

\* Rounding up loses nothing: CeilDiv (math.ceil of a quotient) is enough.
LEMMA CeilDivCovers ==
    ASSUME NEW x \in Nat, NEW y \in Nat \ {0}
    PROVE  CeilDiv(x, y) \in Nat /\ x <= CeilDiv(x, y) * y
<1> DEFINE q == (x + y - 1) \div y
           m == (x + y - 1) % y
<1>1. x + y - 1 \in Nat
  BY SMT
<1>2. q \in Int /\ m \in 0..(y - 1) /\ x + y - 1 = y * q + m
  BY <1>1, SMT
<1>3. q >= 0
  <2> SUFFICES ASSUME q <= -1 PROVE FALSE
    BY <1>2, SMT
  <2> HIDE DEF q, m
  <2>1. q * y <= (-1) * y
    BY <1>2, TimesMonotone, SMT
  <2> QED BY <1>2, <2>1, SMT
<1>4. x <= q * y
  <2> HIDE DEF q, m
  <2> QED BY <1>2, SMT
<1> QED BY <1>2, <1>3, <1>4, SMT DEF CeilDiv

\* The constants are positive, and a token fits into the bucket.
LEMMA Positive ==
    /\ Burst \in Nat \ {0} /\ Unit \in Nat \ {0} /\ Rate \in Nat \ {0} /\ Second \in Nat \ {0}
    /\ Rate * Second \in Nat \ {0}
    /\ Capacity \in Nat /\ Unit <= Capacity
<1>1. /\ Burst \in Nat \ {0} /\ Unit \in Nat \ {0}
      /\ Rate \in Nat \ {0} /\ Second \in Nat \ {0}
  BY RateAssumption DEF RateAssumption
<1>2. Rate * Second \in Nat \ {0}
  BY <1>1, SMT
<1>3. 1 * Unit <= Burst * Unit
  BY <1>1, TimesMonotone, SMT
<1> QED BY <1>1, <1>2, <1>3, SMT DEF Capacity

\* Seconds(units) of accrual are enough for the units and take some time.
LEMMA SecondsCover ==
    ASSUME NEW units \in Nat
    PROVE  /\ Second * Seconds(units) \in Nat
           /\ Second * Seconds(units) >= 1
           /\ units <= (Second * Seconds(units)) * Rate
<1> DEFINE k == CeilDiv(units, Rate * Second)
           n == Seconds(units)
<1>1. k \in Nat /\ units <= k * (Rate * Second)
  BY Positive, CeilDivCovers
<1>2. n \in Nat /\ n >= 1 /\ k <= n
  <2> HIDE DEF k
  <2> SUFFICES AtLeast(1, k) \in Nat /\ AtLeast(1, k) >= 1 /\ k <= AtLeast(1, k)
    BY DEF Seconds, k
  <2> QED BY <1>1, SMT DEF AtLeast
<1> HIDE DEF k, n
<1>3. k * (Rate * Second) <= n * (Rate * Second)
  BY <1>1, <1>2, Positive, TimesMonotone
<1>4. n * (Rate * Second) = (Second * n) * Rate
  BY <1>2, Positive, SMT
<1>5. Second * n \in Nat /\ 1 * n <= Second * n
  BY <1>2, Positive, TimesMonotone, SMT
<1>6. units <= (Second * n) * Rate
  <2>1. (Second * n) * Rate \in Int /\ k * (Rate * Second) \in Int
    BY <1>1, <1>5, Positive, SMT
  <2> QED BY <1>1, <1>3, <1>4, <2>1, SMT
<1> QED BY <1>2, <1>5, <1>6, SMT DEF n

-----------------------------------------------------------------------------
(* Levels.                                                                 *)

\* The level of a bucket that is remembered.
LEMMA LevelAlive ==
    ASSUME NEW b, NEW c, b.known, ~(b.expireAt # Never /\ c >= b.expireAt)
    PROVE  LevelAt(b, c) = AtMost(Capacity, b.tokens + AtLeast(0, c - b.updatedAt) * Rate)
BY DEF LevelAt

\* A level is a number of units between nothing and the capacity.
LEMMA LevelBounds ==
    ASSUME NEW b \in Bucket, NEW c \in Int, b.tokens <= Capacity
    PROVE  LevelAt(b, c) \in Nat /\ LevelAt(b, c) <= Capacity
<1> DEFINE e == AtLeast(0, c - b.updatedAt)
<1>1. b.tokens \in Nat /\ e \in Nat
  BY SMT DEF Bucket, AtLeast
<1> HIDE DEF e
<1>2. e * Rate \in Nat
  BY <1>1, Positive, SMT
<1>3. LevelAt(b, c) \in {Capacity, AtMost(Capacity, b.tokens + e * Rate)}
  BY DEF LevelAt, e
<1> QED BY <1>1, <1>2, <1>3, Positive, SMT DEF AtMost

\* A tick adds what accrues in it and no more, also when the key expires.
LEMMA LevelForward ==
    ASSUME NEW b \in Bucket, NEW c \in Int, b.tokens <= Capacity, ExpiryIsLate(b)
    PROVE  LevelAt(b, c + 1) <= AtMost(Capacity, LevelAt(b, c) + Rate)
<1> DEFINE e == AtLeast(0, c - b.updatedAt)
           f == AtLeast(0, (c + 1) - b.updatedAt)
<1>1. /\ b.tokens \in Nat /\ b.updatedAt \in Int
      /\ b.expireAt # Never => b.expireAt \in Int
      /\ Capacity \in Nat /\ Rate \in Nat
  BY Positive DEF Bucket
<1>2. e \in Nat /\ f \in Nat /\ f <= e + 1
  BY <1>1, SMT DEF AtLeast
<1>3. f * Rate <= e * Rate + Rate /\ e * Rate \in Nat /\ f * Rate \in Nat
  <2> HIDE DEF e, f
  <2>1. f * Rate <= (e + 1) * Rate
    BY <1>1, <1>2, TimesMonotone
  <2>2. (e + 1) * Rate = e * Rate + Rate
    BY <1>1, <1>2, TimesSuccessor
  <2>3. e * Rate \in Nat /\ f * Rate \in Nat
    BY <1>1, <1>2, SMT
  <2> QED BY <2>1, <2>2, <2>3, SMT
<1>4. LevelAt(b, c + 1) <= Capacity /\ LevelAt(b, c + 1) \in Nat /\ LevelAt(b, c) \in Nat
  BY LevelBounds, SMT
<1>5. CASE b.known /\ ~(b.expireAt # Never /\ c >= b.expireAt)
  <2>1. LevelAt(b, c) = AtMost(Capacity, b.tokens + e * Rate)
    BY <1>5 DEF LevelAt
  <2>2. CASE b.expireAt # Never /\ c + 1 >= b.expireAt
    \* The key has just expired: the bucket would have been full.
    <3>1. Capacity - b.tokens <= (b.expireAt - b.updatedAt) * Rate
      BY <2>2 DEF ExpiryIsLate
    <3>2. b.expireAt - b.updatedAt \in Int /\ b.expireAt - b.updatedAt <= f
      BY <1>1, <2>2, SMT DEF AtLeast
    <3>3. (b.expireAt - b.updatedAt) * Rate <= f * Rate
      BY <1>1, <1>2, <3>2, TimesMonotone
    <3>4. (b.expireAt - b.updatedAt) * Rate \in Int
      BY <1>1, <3>2, SMT
    <3> HIDE DEF e, f
    <3>5. Capacity <= b.tokens + e * Rate + Rate
      BY <1>1, <1>3, <3>1, <3>3, <3>4, SMT
    <3> QED BY <1>1, <1>3, <1>4, <2>1, <3>5, SMT DEF AtMost
  <2>3. CASE ~(b.expireAt # Never /\ c + 1 >= b.expireAt)
    <3>1. LevelAt(b, c + 1) = AtMost(Capacity, b.tokens + f * Rate)
      BY <1>5, <2>3, LevelAlive, Zenon
    <3> HIDE DEF e, f
    <3> QED BY <1>1, <1>3, <2>1, <3>1, SMT DEF AtMost
  <2> QED BY <2>2, <2>3
<1>6. CASE ~(b.known /\ ~(b.expireAt # Never /\ c >= b.expireAt))
  <2>1. LevelAt(b, c) = Capacity
    BY <1>6 DEF LevelAt
  <2> QED BY <1>1, <1>4, <2>1, SMT DEF AtMost
<1> QED BY <1>5, <1>6

\* A clock that is set back adds nothing, also when a key that had expired is
\* alive again.
LEMMA LevelBack ==
    ASSUME NEW b \in Bucket, NEW c \in Int, b.tokens <= Capacity
    PROVE  LevelAt(b, c - 1) <= LevelAt(b, c)
<1> DEFINE e == AtLeast(0, c - b.updatedAt)
           f == AtLeast(0, (c - 1) - b.updatedAt)
<1>1. /\ b.tokens \in Nat /\ b.updatedAt \in Int
      /\ b.expireAt # Never => b.expireAt \in Int
      /\ Capacity \in Nat /\ Rate \in Nat
  BY Positive DEF Bucket
<1>2. e \in Nat /\ f \in Nat /\ f <= e
  BY <1>1, SMT DEF AtLeast
<1>3. f * Rate <= e * Rate /\ e * Rate \in Nat /\ f * Rate \in Nat
  <2> HIDE DEF e, f
  <2> QED BY <1>1, <1>2, TimesMonotone, SMT
<1>4. LevelAt(b, c - 1) <= Capacity
  BY LevelBounds, SMT
<1>5. CASE b.known /\ ~(b.expireAt # Never /\ c >= b.expireAt)
  <2>1. LevelAt(b, c) = AtMost(Capacity, b.tokens + e * Rate)
    BY <1>5 DEF LevelAt
  <2>2. ~(b.expireAt # Never /\ c - 1 >= b.expireAt)
    BY <1>1, <1>5, SMT
  <2>3. LevelAt(b, c - 1) = AtMost(Capacity, b.tokens + f * Rate)
    BY <1>5, <2>2 DEF LevelAt
  <2> HIDE DEF e, f
  <2> QED BY <1>1, <1>3, <2>1, <2>3, SMT DEF AtMost
<1>6. CASE ~(b.known /\ ~(b.expireAt # Never /\ c >= b.expireAt))
  <2>1. LevelAt(b, c) = Capacity
    BY <1>6 DEF LevelAt
  <2> QED BY <1>4, <2>1
<1> QED BY <1>5, <1>6

\* A key that has expired was full (the statement of ExpiryChangesNoAnswer).
LEMMA ExpiredIsFull ==
    ASSUME NEW b \in Bucket, NEW c \in Int, b.tokens <= Capacity, ExpiryIsLate(b),
           b.expireAt # Never, c >= b.expireAt
    PROVE  AtMost(Capacity, b.tokens + AtLeast(0, c - b.updatedAt) * Rate) = Capacity
<1> DEFINE e == AtLeast(0, c - b.updatedAt)
<1>1. /\ b.tokens \in Nat /\ b.updatedAt \in Int /\ b.expireAt \in Int
      /\ Capacity \in Nat /\ Rate \in Nat
  BY Positive DEF Bucket
<1>2. e \in Nat /\ b.expireAt - b.updatedAt \in Int /\ b.expireAt - b.updatedAt <= e
  BY <1>1, SMT DEF AtLeast
<1>3. (b.expireAt - b.updatedAt) * Rate <= e * Rate
  BY <1>1, <1>2, TimesMonotone
<1>4. Capacity - b.tokens <= (b.expireAt - b.updatedAt) * Rate
  BY DEF ExpiryIsLate
<1>5. (b.expireAt - b.updatedAt) * Rate \in Int /\ e * Rate \in Int
  BY <1>1, <1>2, SMT
<1> HIDE DEF e
<1>6. Capacity <= b.tokens + e * Rate
  BY <1>1, <1>3, <1>4, <1>5, SMT
<1>7. AtMost(Capacity, b.tokens + e * Rate) = Capacity
  BY <1>1, <1>5, <1>6, SMT DEF AtMost
<1> QED BY <1>7 DEF e

\* A refused client finds its token when Retry-After says.
LEMMA PromisedLevel ==
    ASSUME NEW b \in Bucket, NEW c \in Int, NEW t \in Int, b.tokens <= Capacity,
           PromiseIsKept(b, t), c >= t
    PROVE  LevelAt(b, c) >= Unit
<1> DEFINE e == AtLeast(0, c - b.updatedAt)
<1>1. /\ b.tokens \in Nat /\ b.updatedAt \in Int
      /\ Capacity \in Nat /\ Rate \in Nat /\ Unit \in Nat /\ Unit <= Capacity
      /\ t # Never
  BY Positive, RateAssumption DEF Bucket, RateAssumption
<1>2. CASE b.known /\ ~(b.expireAt # Never /\ c >= b.expireAt)
  <2>1. LevelAt(b, c) = AtMost(Capacity, b.tokens + e * Rate)
    BY <1>2 DEF LevelAt
  <2>2. e \in Nat /\ t - b.updatedAt \in Int /\ t - b.updatedAt <= e
    BY <1>1, SMT DEF AtLeast
  <2>3. (t - b.updatedAt) * Rate <= e * Rate
    BY <1>1, <2>2, TimesMonotone
  <2>4. Unit - b.tokens <= (t - b.updatedAt) * Rate
    BY <1>1, <1>2 DEF PromiseIsKept
  <2>5. (t - b.updatedAt) * Rate \in Int /\ e * Rate \in Int
    BY <1>1, <2>2, SMT
  <2> HIDE DEF e
  <2> QED BY <1>1, <2>1, <2>3, <2>4, <2>5, SMT DEF AtMost
<1>3. CASE ~(b.known /\ ~(b.expireAt # Never /\ c >= b.expireAt))
  BY <1>1, <1>3 DEF LevelAt
<1> QED BY <1>2, <1>3

-----------------------------------------------------------------------------
(* One store, one step.                                                    *)

\* The bucket that a request leaves behind.
LEMMA StoredBucket ==
    ASSUME NEW c \in 0..MaxClock, NEW u \in Nat, u <= Capacity,
           NEW x \in {Never, c + Second * Seconds(Capacity - u)},
           NEW b, b = [known |-> TRUE, tokens |-> u, updatedAt |-> c, expireAt |-> x]
    PROVE  /\ b \in Bucket /\ b.tokens <= Capacity
           /\ ExpiryIsLate(b)
           /\ LevelAt(b, c) = u
<1>1. b.known /\ b.tokens = u /\ b.updatedAt = c /\ b.expireAt = x
  OBVIOUS
<1>2. Capacity - u \in Nat /\ Capacity \in Nat /\ c \in Int /\ Never \notin Int /\ Rate \in Nat
  BY Positive, RateAssumption, SMT DEF RateAssumption
<1> DEFINE d == Second * Seconds(Capacity - u)
<1>3. d \in Nat /\ d >= 1 /\ Capacity - u <= d * Rate
  BY <1>2, SecondsCover
<1>4. x \in {Never, c + d}
  OBVIOUS
<1> HIDE DEF d
<1>5. x # Never => x \in Int /\ x - c = d /\ c < x
  BY <1>2, <1>3, <1>4, SMT
<1>6. b \in Bucket
  BY <1>2, <1>5 DEF Bucket
<1>7. ExpiryIsLate(b)
  BY <1>1, <1>3, <1>5 DEF ExpiryIsLate
<1>8. ~(b.expireAt # Never /\ c >= b.expireAt)
  BY <1>1, <1>2, <1>5, SMT
<1>9. LevelAt(b, c) = AtMost(Capacity, u + AtLeast(0, c - c) * Rate)
  BY <1>1, <1>8, LevelAlive
<1>10. AtLeast(0, c - c) * Rate = 0
  BY <1>2, SMT DEF AtLeast
<1>11. AtMost(Capacity, u + 0) = u
  BY <1>2, SMT DEF AtMost
<1> QED BY <1>1, <1>6, <1>7, <1>9, <1>10, <1>11

\* Taking a token.
LEMMA SoundTake ==
    ASSUME NEW b, NEW c, NEW t, NEW a, Sound(b, c, t, a), LevelAt(b, c) >= Unit,
           NEW u, u = LevelAt(b, c) - Unit,
           NEW x \in {Never, c + Second * Seconds(Capacity - u)}
    PROVE  Sound([known |-> TRUE, tokens |-> u, updatedAt |-> c, expireAt |-> x],
                 c, Never, a - Unit)
<1>1. LevelAt(b, c) \in Nat /\ LevelAt(b, c) <= Capacity /\ c \in 0..MaxClock
  BY LevelBounds, RateAssumption, SMT DEF Sound, RateAssumption
<1>2. u \in Nat /\ u <= Capacity /\ u <= a - Unit /\ a - Unit \in Int
  BY <1>1, Positive, SMT DEF Sound
<1> DEFINE n == [known |-> TRUE, tokens |-> u, updatedAt |-> c, expireAt |-> x]
<1>3. n \in Bucket /\ n.tokens <= Capacity /\ ExpiryIsLate(n) /\ LevelAt(n, c) = u
  BY <1>1, <1>2, StoredBucket
<1>4. PromiseIsKept(n, Never)
  BY DEF PromiseIsKept
<1> QED BY <1>1, <1>2, <1>3, <1>4 DEF Sound

\* Refusing a request.
LEMMA SoundDeny ==
    ASSUME NEW b, NEW c, NEW t, NEW a, Sound(b, c, t, a), LevelAt(b, c) < Unit,
           NEW u, u = LevelAt(b, c),
           NEW x \in {Never, c + Second * Seconds(Capacity - u)}
    PROVE  Sound([known |-> TRUE, tokens |-> u, updatedAt |-> c, expireAt |-> x],
                 c, c + Second * Seconds(Unit - u), a)
<1>1. LevelAt(b, c) \in Nat /\ LevelAt(b, c) <= Capacity /\ c \in 0..MaxClock
  BY LevelBounds, RateAssumption, SMT DEF Sound, RateAssumption
<1>2. u \in Nat /\ u <= Capacity /\ u <= a /\ a \in Int /\ Unit - u \in Nat
  BY <1>1, Positive, SMT DEF Sound
<1> DEFINE n == [known |-> TRUE, tokens |-> u, updatedAt |-> c, expireAt |-> x]
           d == Second * Seconds(Unit - u)
<1>3. n \in Bucket /\ n.tokens <= Capacity /\ ExpiryIsLate(n) /\ LevelAt(n, c) = u
  BY <1>1, <1>2, StoredBucket
<1>4. d \in Nat /\ Unit - u <= d * Rate
  BY <1>2, SecondsCover
<1>5. n.updatedAt = c /\ n.tokens = u
  OBVIOUS
<1> HIDE DEF d
<1>6. c + d \in Int /\ (c + d) - c = d
  BY <1>1, <1>4, RateAssumption, SMT DEF RateAssumption
<1>7. PromiseIsKept(n, c + d)
  BY <1>4, <1>5, <1>6 DEF PromiseIsKept
<1>8. Sound(n, c, c + d, a)
  BY <1>1, <1>2, <1>3, <1>6, <1>7 DEF Sound
<1> QED BY <1>8 DEF d

\* A tick, or a clock that is set forward.
LEMMA SoundForward ==
    ASSUME NEW b, NEW c, NEW t, NEW a, Sound(b, c, t, a), c < MaxClock
    PROVE  Sound(b, c + 1, t, AtMost(Capacity, a + Rate))
<1>1. b \in Bucket /\ b.tokens <= Capacity /\ c \in Int /\ ExpiryIsLate(b) /\ a \in Int
  BY RateAssumption, SMT DEF Sound, RateAssumption
<1>2. LevelAt(b, c + 1) <= AtMost(Capacity, LevelAt(b, c) + Rate)
  BY <1>1, LevelForward
<1>3. LevelAt(b, c) \in Nat /\ LevelAt(b, c + 1) \in Nat
  BY <1>1, LevelBounds, SMT
<1>4. /\ LevelAt(b, c + 1) <= AtMost(Capacity, a + Rate)
      /\ AtMost(Capacity, a + Rate) \in Int
  BY <1>1, <1>2, <1>3, Positive, SMT DEF AtMost, Sound
<1>5. c + 1 \in 0..MaxClock
  BY RateAssumption, SMT DEF Sound, RateAssumption
<1> QED BY <1>1, <1>4, <1>5 DEF Sound

\* A clock that is set back.
LEMMA SoundBack ==
    ASSUME NEW b, NEW c, NEW t, NEW a, Sound(b, c, t, a), c > 0
    PROVE  Sound(b, c - 1, t, a)
<1>1. b \in Bucket /\ b.tokens <= Capacity /\ c \in Int /\ a \in Int
  BY RateAssumption, SMT DEF Sound, RateAssumption
<1>2. LevelAt(b, c - 1) <= LevelAt(b, c)
  BY <1>1, LevelBack
<1>3. LevelAt(b, c) \in Nat /\ LevelAt(b, c - 1) \in Nat
  BY <1>1, LevelBounds, SMT
<1>4. LevelAt(b, c - 1) <= a
  BY <1>1, <1>2, <1>3, SMT DEF Sound
<1>5. c - 1 \in 0..MaxClock
  BY RateAssumption, SMT DEF Sound, RateAssumption
<1> QED BY <1>4, <1>5 DEF Sound

\* A bucket that is forgotten, where a full one is allowed.
LEMMA SoundForgotten ==
    ASSUME NEW c \in 0..MaxClock, NEW t \in Int \cup {Never}, NEW a \in Int, Capacity <= a
    PROVE  Sound(Unknown, c, t, a)
<1>1. Unknown \in Bucket
  BY DEF Unknown, Bucket
<1>2. ~Unknown.known /\ Unknown.expireAt = Never /\ Unknown.tokens = 0
  BY DEF Unknown
<1>3. Unknown.tokens <= Capacity
  BY <1>2, Positive, SMT
<1>4. LevelAt(Unknown, c) = Capacity
  BY <1>2 DEF LevelAt
<1>5. ExpiryIsLate(Unknown) /\ PromiseIsKept(Unknown, t)
  BY <1>2 DEF ExpiryIsLate, PromiseIsKept
<1> QED BY <1>1, <1>3, <1>4, <1>5 DEF Sound

-----------------------------------------------------------------------------
(* The specification.                                                      *)

\* The state of every store is sound.
AllSound == \A s \in Stores : Sound(bucket[s], clock[s], promised[s], allowance[s])

\* The level in the model is the level of the bucket by the store's clock.
LEMMA LevelMeaning ==
    ASSUME NEW s
    PROVE  Level(s) = LevelAt(bucket[s], clock[s])
BY DEF Level, LevelAt, Expired, Refilled, Elapsed

\* acquire, on either kind of bucket, allowed or denied.
LEMMA AcquireKeepsSound ==
    ASSUME RateTypeOK, AllSound, NEW s \in Stores, Take(s) \/ Deny(s), UNCHANGED clock
    PROVE  /\ AllSound'
           /\ bucket' \in [Stores -> Bucket]
           /\ promised' \in [Stores -> Int \cup {Never}]
           /\ allowance' \in [Stores -> Int]
           /\ \A z \in Stores : bucket'[z].tokens <= Capacity
<1> DEFINE l == LevelAt(bucket[s], clock[s])
<1>1. Level(s) = l
  BY LevelMeaning
<1>2. Sound(bucket[s], clock[s], promised[s], allowance[s])
  BY DEF AllSound
<1>3. /\ bucket \in [Stores -> Bucket] /\ clock \in [Stores -> 0..MaxClock]
      /\ promised \in [Stores -> Int \cup {Never}] /\ allowance \in [Stores -> Int]
  BY DEF RateTypeOK
<1>4. \A u : Expiry(s, u) \in {Never, clock[s] + Second * Seconds(Capacity - u)}
  BY DEF Expiry
<1> HIDE DEF l
<1>5. CASE Take(s)
  <2>1. /\ l >= Unit
        /\ bucket' = [bucket EXCEPT ![s] = [known |-> TRUE, tokens |-> l - Unit,
                                            updatedAt |-> clock[s],
                                            expireAt |-> Expiry(s, l - Unit)]]
        /\ promised' = [promised EXCEPT ![s] = Never]
        /\ allowance' = [allowance EXCEPT ![s] = @ - Unit]
    BY <1>1, <1>5 DEF Take, Store
  <2>2. Sound([known |-> TRUE, tokens |-> l - Unit, updatedAt |-> clock[s],
               expireAt |-> Expiry(s, l - Unit)], clock[s], Never, allowance[s] - Unit)
    BY <1>2, <1>4, <2>1, SoundTake DEF l
  <2>3. Sound(bucket'[s], clock'[s], promised'[s], allowance'[s])
    BY <1>3, <2>1, <2>2
  <2>4. \A z \in Stores \ {s} : /\ bucket'[z] = bucket[z] /\ clock'[z] = clock[z]
                                /\ promised'[z] = promised[z] /\ allowance'[z] = allowance[z]
    BY <1>3, <2>1
  <2>5. AllSound'
    BY <2>3, <2>4 DEF AllSound
  <2>6. /\ bucket' \in [Stores -> Bucket] /\ promised' \in [Stores -> Int \cup {Never}]
        /\ allowance' \in [Stores -> Int]
    BY <1>3, <2>1, <2>2 DEF Sound
  <2>7. \A z \in Stores : bucket'[z].tokens <= Capacity
    BY <2>5 DEF AllSound, Sound
  <2> QED BY <2>5, <2>6, <2>7
<1>6. CASE Deny(s)
  <2>1. /\ l < Unit
        /\ bucket' = [bucket EXCEPT ![s] = [known |-> TRUE, tokens |-> l,
                                            updatedAt |-> clock[s],
                                            expireAt |-> Expiry(s, l)]]
        /\ promised' = [promised EXCEPT ![s] = clock[s] + Second * Seconds(Unit - l)]
        /\ allowance' = allowance
    BY <1>1, <1>6 DEF Deny, Store
  <2>2. Sound([known |-> TRUE, tokens |-> l, updatedAt |-> clock[s], expireAt |-> Expiry(s, l)],
              clock[s], clock[s] + Second * Seconds(Unit - l), allowance[s])
    BY <1>2, <1>4, <2>1, SoundDeny DEF l
  <2>3. Sound(bucket'[s], clock'[s], promised'[s], allowance'[s])
    BY <1>3, <2>1, <2>2
  <2>4. \A z \in Stores \ {s} : /\ bucket'[z] = bucket[z] /\ clock'[z] = clock[z]
                                /\ promised'[z] = promised[z] /\ allowance'[z] = allowance[z]
    BY <1>3, <2>1
  <2>5. AllSound'
    BY <2>3, <2>4 DEF AllSound
  <2>6. /\ bucket' \in [Stores -> Bucket] /\ promised' \in [Stores -> Int \cup {Never}]
        /\ allowance' \in [Stores -> Int]
    BY <1>3, <2>1, <2>2 DEF Sound
  <2>7. \A z \in Stores : bucket'[z].tokens <= Capacity
    BY <2>5 DEF AllSound, Sound
  <2> QED BY <2>5, <2>6, <2>7
<1> QED BY <1>5, <1>6

\* A step of a request handler.
LEMMA HandleKeepsInv ==
    ASSUME RateInv, NEW h \in Handlers, Handle(h)
    PROVE  RateInv'
<1>1. RateTypeOK /\ AllSound /\ ReplicaOf[h] \in Stores /\ Redis \in Stores
  BY RateAssumption DEF RateInv, AllSound, RateAssumption, Stores
<1>2. /\ shared \in BOOLEAN /\ bucket \in [Stores -> Bucket]
      /\ clock \in [Stores -> 0..MaxClock] /\ at \in [Handlers -> Places]
      /\ degraded \in [Replicas -> BOOLEAN] /\ promised \in [Stores -> Int \cup {Never}]
      /\ allowance \in [Stores -> Int] /\ mishaps \in 0..MaxMishaps
      /\ \A s \in Stores : bucket[s].tokens <= Capacity
  BY <1>1 DEF RateTypeOK
<1>3. ReplicaOf[h] \in Replicas
  BY RateAssumption DEF RateAssumption
<1>4. shared' = shared /\ clock' = clock /\ mishaps' = mishaps
  BY DEF Handle, AcquireLocal, Ask, RunScript, Answer, FallBack, Respond
<1>5. at' \in [Handlers -> Places]
  <2>1. \E place \in Places : Goto(h, place)
    BY DEF Handle, AcquireLocal, Ask, RunScript, Answer, FallBack, Respond, Places, Awaiting
  <2> QED BY <1>2, <2>1 DEF Goto
<1>6. degraded' \in [Replicas -> BOOLEAN]
  BY <1>2, <1>3 DEF Handle, AcquireLocal, Ask, RunScript, Answer, FallBack, Respond
<1>7. /\ AllSound'
      /\ bucket' \in [Stores -> Bucket]
      /\ promised' \in [Stores -> Int \cup {Never}]
      /\ allowance' \in [Stores -> Int]
      /\ \A z \in Stores : bucket'[z].tokens <= Capacity
  <2>1. CASE UNCHANGED <<bucket, promised, allowance>>
    BY <1>1, <1>2, <1>4, <2>1 DEF AllSound
  <2>2. CASE \E s \in Stores : Take(s) \/ Deny(s)
    BY <1>1, <1>4, <2>2, AcquireKeepsSound
  <2> QED BY <1>1, <2>1, <2>2
          DEF Handle, AcquireLocal, Ask, RunScript, Answer, FallBack, Respond
<1>8. ~shared' => \A g \in Handlers : at'[g] \notin Awaiting /\ ~degraded'[ReplicaOf[g]]
  <2> SUFFICES ASSUME ~shared
               PROVE  \A g \in Handlers : at'[g] \notin Awaiting /\ ~degraded'[ReplicaOf[g]]
    BY <1>4
  <2>1. \A g \in Handlers : at[g] \notin Awaiting /\ ~degraded[ReplicaOf[g]]
    BY <1>1 DEF RateTypeOK
  <2>2. degraded' = degraded /\ \E place \in Places \ Awaiting : Goto(h, place)
    BY <2>1 DEF Handle, AcquireLocal, Ask, RunScript, Answer, FallBack, Respond, Places, Awaiting
  <2> QED BY <1>2, <2>1, <2>2 DEF Goto
<1> QED BY <1>2, <1>4, <1>5, <1>6, <1>7, <1>8 DEF RateInv, RateTypeOK, AllSound

\* The initial state.
LEMMA InitEstablishesInv ==
    ASSUME RateInit
    PROVE  RateInv
<1>1. /\ Unknown \in Bucket /\ Unknown.tokens = 0 /\ Capacity \in Int
      /\ 0 <= Capacity /\ Capacity <= Capacity
      /\ 0 \in 0..MaxClock /\ 0 \in 0..MaxMishaps
  BY Positive, RateAssumption, SMT DEF Unknown, Bucket, RateAssumption
<1>2. Sound(Unknown, 0, Never, Capacity)
  BY <1>1, SoundForgotten
<1>3. RateTypeOK
  BY <1>1, RateAssumption DEF RateInit, RateTypeOK, RateAssumption, Places, Awaiting
<1> QED BY <1>2, <1>3 DEF RateInit, RateInv

\* Redis removes a key.
LEMMA ExpireKeepsInv ==
    ASSUME RateInv, Expire
    PROVE  RateInv'
<1>1. RateTypeOK /\ AllSound /\ Redis \in Stores
  BY DEF RateInv, AllSound, Stores
<1>2. /\ bucket' = [bucket EXCEPT ![Redis] = Unknown]
      /\ UNCHANGED <<shared, clock, at, degraded, promised, allowance, mishaps>>
  BY DEF Expire
<1>3. Sound(bucket[Redis], clock[Redis], promised[Redis], allowance[Redis])
  BY <1>1 DEF AllSound
<1>4. LevelAt(bucket[Redis], clock[Redis]) = Capacity
  BY DEF Expire, Expired, LevelAt
<1>5. Sound(Unknown, clock[Redis], promised[Redis], allowance[Redis])
  BY <1>3, <1>4, SoundForgotten DEF Sound
<1>6. bucket' \in [Stores -> Bucket]
  BY <1>1, <1>2, <1>5 DEF RateTypeOK, Sound
<1>7. AllSound'
  BY <1>1, <1>2, <1>5 DEF AllSound, RateTypeOK
<1>8. \A s \in Stores : bucket'[s].tokens <= Capacity
  BY <1>7 DEF AllSound, Sound
<1> QED BY <1>1, <1>2, <1>6, <1>7, <1>8 DEF RateInv, RateTypeOK, AllSound

\* Time passes, or a clock is set forward.
LEMMA ForwardKeepsInv ==
    ASSUME RateInv, RateTick \/ \E s \in Stores : StepForward(s)
    PROVE  RateInv'
<1>1. RateTypeOK /\ AllSound
  BY DEF RateInv, AllSound
<1>2. UNCHANGED <<shared, bucket, at, degraded, promised>> /\ mishaps' \in 0..MaxMishaps
  BY <1>1, RateAssumption, SMT DEF RateTick, StepForward, Mishap, RateTypeOK, RateAssumption
<1>3. \A s \in Stores :
         \/ clock'[s] = clock[s] /\ allowance'[s] = allowance[s]
         \/ /\ clock[s] < MaxClock
            /\ clock'[s] = clock[s] + 1
            /\ allowance'[s] = AtMost(Capacity, allowance[s] + Rate)
  BY <1>1 DEF RateTick, StepForward, RateTypeOK
<1>4. DOMAIN clock' = Stores /\ DOMAIN allowance' = Stores
      /\ clock' = [s \in Stores |-> clock'[s]] /\ allowance' = [s \in Stores |-> allowance'[s]]
  BY <1>1 DEF RateTick, StepForward, RateTypeOK
<1>5. AllSound'
  <2> SUFFICES ASSUME NEW s \in Stores
               PROVE  Sound(bucket[s], clock'[s], promised[s], allowance'[s])
    BY <1>2 DEF AllSound
  <2>1. Sound(bucket[s], clock[s], promised[s], allowance[s])
    BY <1>1 DEF AllSound
  <2> QED BY <1>3, <2>1, SoundForward
<1>6. clock' \in [Stores -> 0..MaxClock] /\ allowance' \in [Stores -> Int]
  BY <1>4, <1>5 DEF AllSound, Sound
<1> QED BY <1>1, <1>2, <1>5, <1>6 DEF RateInv, RateTypeOK, AllSound

\* A clock is set back.
LEMMA BackKeepsInv ==
    ASSUME RateInv, NEW s \in Stores, StepBack(s)
    PROVE  RateInv'
<1>1. RateTypeOK /\ AllSound
  BY DEF RateInv, AllSound
<1>2. /\ UNCHANGED <<shared, bucket, at, degraded, promised, allowance>>
      /\ clock[s] > 0
      /\ clock' = [clock EXCEPT ![s] = @ - 1]
  BY DEF StepBack
<1>3. mishaps' \in 0..MaxMishaps
  BY <1>1, RateAssumption, SMT DEF StepBack, Mishap, RateTypeOK, RateAssumption
<1>4. Sound(bucket[s], clock[s] - 1, promised[s], allowance[s])
  BY <1>1, <1>2, SoundBack DEF AllSound
<1>5. AllSound'
  BY <1>1, <1>2, <1>4 DEF AllSound, RateTypeOK
<1>6. clock' \in [Stores -> 0..MaxClock]
  BY <1>1, <1>2, <1>4 DEF RateTypeOK, Sound
<1> QED BY <1>1, <1>2, <1>3, <1>5, <1>6 DEF RateInv, RateTypeOK, AllSound

\* Redis or a replica restarts.
LEMMA RestartKeepsInv ==
    ASSUME RateInv, NEW s \in Stores, Restart(s)
    PROVE  RateInv'
<1>1. RateTypeOK /\ AllSound
  BY DEF RateInv, AllSound
<1>2. /\ bucket' = [bucket EXCEPT ![s] = Unknown]
      /\ allowance' = [allowance EXCEPT ![s] = Capacity]
      /\ promised' = [promised EXCEPT ![s] = Never]
      /\ UNCHANGED <<shared, clock>>
  BY DEF Restart
<1>3. mishaps' \in 0..MaxMishaps
  BY <1>1, RateAssumption, SMT DEF Restart, Mishap, RateTypeOK, RateAssumption
<1>4. /\ at' \in [Handlers -> Places]
      /\ degraded' \in [Replicas -> BOOLEAN]
      /\ ~shared' => \A h \in Handlers : at'[h] \notin Awaiting /\ ~degraded'[ReplicaOf[h]]
  BY <1>1, RateAssumption DEF Restart, RateTypeOK, RateAssumption, Places, Awaiting
<1>5. clock[s] \in 0..MaxClock /\ Capacity \in Int /\ Capacity <= Capacity
  BY <1>1, Positive, SMT DEF RateTypeOK
<1>6. Sound(Unknown, clock[s], Never, Capacity)
  BY <1>5, SoundForgotten
<1>7. AllSound'
  BY <1>1, <1>2, <1>6 DEF AllSound, RateTypeOK
<1>8. /\ bucket' \in [Stores -> Bucket]
      /\ promised' \in [Stores -> Int \cup {Never}]
      /\ allowance' \in [Stores -> Int]
  BY <1>1, <1>2, <1>6 DEF RateTypeOK, Sound
<1>9. \A z \in Stores : bucket'[z].tokens <= Capacity
  BY <1>7 DEF AllSound, Sound
<1> QED BY <1>1, <1>2, <1>3, <1>4, <1>7, <1>8, <1>9 DEF RateInv, RateTypeOK, AllSound

\* The invariant holds of every behaviour of the limiters.
THEOREM RateInvariance == RateSpec => []RateInv
<1>1. RateInit => RateInv
  BY InitEstablishesInv
<1>2. RateInv /\ [RateNext]_rateVars => RateInv'
  <2> SUFFICES ASSUME RateInv, [RateNext]_rateVars PROVE RateInv'
    OBVIOUS
  <2>1. CASE \E h \in Handlers : Handle(h)
    BY <2>1, HandleKeepsInv
  <2>2. CASE Expire
    BY <2>2, ExpireKeepsInv
  <2>3. CASE RateTick
    BY <2>3, ForwardKeepsInv
  <2>4. CASE \E s \in Stores : StepBack(s)
    BY <2>4, BackKeepsInv
  <2>5. CASE \E s \in Stores : StepForward(s)
    BY <2>5, ForwardKeepsInv
  <2>6. CASE \E s \in Stores : Restart(s)
    BY <2>6, RestartKeepsInv
  <2>7. CASE UNCHANGED rateVars
    BY <2>7 DEF rateVars, RateInv, RateTypeOK, Sound, ExpiryIsLate, PromiseIsKept, LevelAt
  <2> QED BY <2>1, <2>2, <2>3, <2>4, <2>5, <2>6, <2>7 DEF RateNext
<1> QED BY <1>1, <1>2, PTL DEF RateSpec

\* Every variable of the limiters keeps its type, no bucket exceeds its
\* capacity, and nobody is degraded where there is no Redis.
THEOREM RateTypeCorrect == RateSpec => []RateTypeOK
<1>1. RateInv => RateTypeOK
  BY DEF RateInv
<1> QED BY <1>1, RateInvariance, PTL

\* acquire of either bucket never lets more through than a burst and what
\* accrues, in any interval, for any policy and any clock resolution, whatever
\* outages, expiries and backward steps happen.
THEOREM LimitNeverExceeded == RateSpec => []LimitHolds
<1>1. RateInv => LimitHolds
  <2> SUFFICES ASSUME RateInv, NEW s \in Stores PROVE allowance[s] >= 0
    BY DEF LimitHolds
  <2>1. Sound(bucket[s], clock[s], promised[s], allowance[s])
    BY DEF RateInv
  <2>2. bucket[s] \in Bucket /\ bucket[s].tokens <= Capacity /\ clock[s] \in Int
    BY <2>1, RateAssumption, SMT DEF Sound, RateAssumption
  <2>3. LevelAt(bucket[s], clock[s]) \in Nat
    BY <2>2, LevelBounds
  <2> QED BY <2>1, <2>3, SMT DEF Sound
<1> QED BY <1>1, RateInvariance, PTL

\* EXPIRE removes a key only when its bucket is full, for any policy.
THEOREM ExpiryIsHarmless == RateSpec => []ExpiryChangesNoAnswer
<1>1. RateInv => ExpiryChangesNoAnswer
  <2> SUFFICES ASSUME RateInv, NEW s \in Stores, bucket[s].known, Expired(s)
               PROVE  Refilled(s) = Capacity
    BY DEF ExpiryChangesNoAnswer
  <2>1. Sound(bucket[s], clock[s], promised[s], allowance[s])
    BY DEF RateInv
  <2>2. bucket[s] \in Bucket /\ bucket[s].tokens <= Capacity /\ clock[s] \in Int
    BY <2>1, RateAssumption, SMT DEF Sound, RateAssumption
  <2>3. ExpiryIsLate(bucket[s])
    BY <2>1 DEF Sound
  <2> QED BY <2>2, <2>3, ExpiredIsFull DEF Expired, Refilled, Elapsed
<1> QED BY <1>1, RateInvariance, PTL

\* Retry-After is long enough, for any policy: whole seconds and fractions of
\* tokens are rounded the right way in every case.
THEOREM RetryAfterSuffices == RateSpec => []RetryAfterIsEnough
<1>1. RateInv => RetryAfterIsEnough
  <2> SUFFICES ASSUME RateInv, NEW s \in Stores, promised[s] # Never, clock[s] >= promised[s]
               PROVE  Level(s) >= Unit
    BY DEF RetryAfterIsEnough
  <2>1. Sound(bucket[s], clock[s], promised[s], allowance[s])
    BY DEF RateInv
  <2>2. /\ bucket[s] \in Bucket /\ bucket[s].tokens <= Capacity /\ clock[s] \in Int
        /\ promised[s] \in Int
    BY <2>1, RateAssumption, SMT DEF Sound, RateAssumption
  <2>3. PromiseIsKept(bucket[s], promised[s])
    BY <2>1 DEF Sound
  <2>4. LevelAt(bucket[s], clock[s]) >= Unit
    BY <2>2, <2>3, PromisedLevel
  <2> QED BY <2>4, LevelMeaning
<1> QED BY <1>1, RateInvariance, PTL

=============================================================================
