-------------------------- MODULE RateLimiterProofs --------------------------
(***************************************************************************)
(* Theorems about RateLimiter, for any number of clients, goroutines and   *)
(* requests, any window and any age of clock readings.                     *)
(***************************************************************************)
EXTENDS RateLimiter, FiniteSetTheorems, TLAPS

\* The window's count keeps its type.
LEMMA CountedType ==
  ASSUME NEW b \in [count: Counts, left: Lefts], NEW age \in 0..MaxAge
  PROVE  Counted(b, age) \in [count: Counts, left: Lefts]
BY LimiterAssumption DEF Counted, Expired, Fresh, Counts, Lefts

\* Every step preserves the types.
LEMMA TypeStep == TypeOK /\ [Next]_vars => TypeOK'
<1> USE LimiterAssumption
<1> SUFFICES ASSUME TypeOK, [Next]_vars PROVE TypeOK'
  OBVIOUS
<1> USE DEF TypeOK, Idle
<1>1. ASSUME NEW h \in Handlers, NEW c \in Clients, Arrive(h, c) PROVE TypeOK'
  BY <1>1 DEF Arrive
<1>2. ASSUME NEW h \in Handlers, Decide(h) PROVE TypeOK'
  <2>1. waiting[h] \in [ip: Clients, age: 0..MaxAge]
    BY <1>2 DEF Decide
  <2>2. Counted(buckets[waiting[h].ip], waiting[h].age) \in [count: Counts, left: Lefts]
    BY <2>1, CountedType
  <2>3. waiting[h].age \in Ages
    BY <2>1 DEF Ages
  <2>4. since' \in [Clients -> [Ages -> Nat]]
    BY <1>2, <2>1, <2>3 DEF Decide
  <2> QED BY <1>2, <2>1, <2>2, <2>4 DEF Decide
<1>3. ASSUME Tick PROVE TypeOK'
  <2>1. waiting' \in [Handlers -> {Idle} \cup [ip: Clients, age: 0..MaxAge]]
    <3>1. ASSUME NEW h \in Handlers, waiting[h] # Idle
          PROVE  [waiting[h] EXCEPT !.age = @ + 1] \in [ip: Clients, age: 0..MaxAge]
      <4>1. waiting[h] \in [ip: Clients, age: 0..MaxAge] /\ waiting[h].age < MaxAge
        BY <1>3, <3>1 DEF Tick
      <4>2. waiting[h].age + 1 \in 0..MaxAge
        BY <4>1
      <4> QED BY <4>1, <4>2
    <3> QED BY <1>3, <3>1 DEF Tick
  <2>2. buckets' \in [Clients -> [count: Counts, left: Lefts]]
    <3>1. ASSUME NEW l \in Lefts
          PROVE  (IF l < -MaxAge THEN l ELSE l - 1) \in Lefts
      BY DEF Lefts
    <3> HIDE DEF Idle
    <3> QED BY <1>3, <3>1 DEF Tick
  <2>3. since' \in [Clients -> [Ages -> Nat]]
    <3>1. ASSUME NEW a \in Ages, a # 0 PROVE a - 1 \in Ages
      BY <3>1 DEF Ages
    <3> QED BY <1>3, <3>1 DEF Tick
  <2> QED BY <2>1, <2>2, <2>3
<1>4. CASE UNCHANGED vars
  BY <1>4 DEF vars
<1> QED BY <1>1, <1>2, <1>3, <1>4 DEF Next

\* Every variable of the limiter keeps its type.
THEOREM LimiterTypeCorrect == Spec => []TypeOK
<1>1. Init => TypeOK
  BY LimiterAssumption
     DEF Init, TypeOK, NoBucket, Idle, Counts, Lefts, Ages
<1> QED BY <1>1, TypeStep, PTL DEF Spec

\* A bucket is replaced only by one that ends more than a window later, whatever the
\* order the goroutines take the lock in and however old their clock readings are.
THEOREM BucketsAreDisjoint == Spec => WindowsDoNotOverlap
<1> DEFINE Disjoint ==
      \A c \in Clients, h \in Handlers :
        Decide(h) /\ waiting[h].ip = c /\ buckets[c] # NoBucket
          => \/ buckets'[c].left = buckets[c].left
             \/ buckets'[c].left > buckets[c].left + Window
<1>1. TypeOK => Disjoint
  <2> SUFFICES ASSUME TypeOK, NEW c \in Clients, NEW h \in Handlers,
                      Decide(h), waiting[h].ip = c
               PROVE  \/ buckets'[c].left = buckets[c].left
                      \/ buckets'[c].left > buckets[c].left + Window
    OBVIOUS
  <2> USE LimiterAssumption DEF TypeOK
  <2>1. waiting[h] \in [ip: Clients, age: 0..MaxAge]
    BY DEF Decide
  <2>2. buckets[c].left \in Int /\ waiting[h].age \in Int
    BY <2>1 DEF Lefts
  <2>3. buckets'[c] = Counted(buckets[c], waiting[h].age)
    BY <2>1 DEF Decide
  <2>4. CASE Expired(buckets[c], waiting[h].age)
    <3>1. buckets'[c].left = Window - waiting[h].age
      BY <2>3, <2>4 DEF Counted, Fresh
    <3> QED BY <2>2, <2>4, <3>1 DEF Expired
  <2>5. CASE ~Expired(buckets[c], waiting[h].age)
    <3>1. buckets'[c].left = buckets[c].left
      BY <2>3, <2>5 DEF Counted
    <3> QED BY <3>1
  <2> QED BY <2>4, <2>5
<1> QED BY <1>1, LimiterTypeCorrect, PTL DEF WindowsDoNotOverlap, Spec

\* The requests of c admitted that arrived at most a ticks ago; none from the future.
Since(c, a) == IF a < 0 THEN 0 ELSE since[c][a]

\* An admitted request counts for every age from its own on.
LEMMA SinceAdded ==
  ASSUME TypeOK, NEW c \in Clients, NEW age \in 0..MaxAge, NEW a \in Int, a \in Ages \/ a < 0,
         since' = [since EXCEPT ![c] = [x \in Ages |-> IF x < age THEN @[x] ELSE @[x] + 1]]
  PROVE  Since(c, a)' = IF a < age THEN Since(c, a) ELSE Since(c, a) + 1
BY LimiterAssumption DEF TypeOK, Since

\* A tick makes every arrival older by 1.
LEMMA SinceAges ==
  ASSUME TypeOK, Tick, NEW c \in Clients, NEW a \in Int, a \in Ages \/ a < 0
  PROVE  Since(c, a)' = Since(c, a - 1)
BY LimiterAssumption DEF TypeOK, Tick, Since, Ages

(***************************************************************************)
(* The worst burst.  For the arrivals from a to a + Window ticks ago, only *)
(* where the present bucket stands matters: all earlier ones are closed.   *)
(***************************************************************************)
\* The requests admitted so far of those that arrived from a + Window to a ticks ago.
Admitted(c, a) == Since(c, a + Window) - Since(c, a - 1)

\* The requests of c under way that arrived a ticks ago or earlier.
Pending(c, a) == {h \in Handlers : waiting[h].ip = c /\ waiting[h].age >= a}

\* The requests the present bucket has admitted.
Used(c) == IF buckets[c].count > Reqs THEN Reqs ELSE buckets[c].count

\* By the end of the present bucket: it lies before the stretch, so nothing of it was
\* admitted; or in it, and the request that created the bucket came before the stretch;
\* or that request belongs to the stretch, and one bucket before it may have admitted
\* some as well; or it came after the stretch, and only requests still under way can add
\* to what two buckets have admitted.
BurstAt(c, a) ==
  LET end == buckets[c].left
  IN  /\ end < -(a + Window) => Admitted(c, a) = 0
      /\ -(a + Window) <= end /\ end < -a =>
           Admitted(c, a) = 0 \/ Admitted(c, a) <= Used(c) - 1
      /\ -a <= end /\ end <= Window - a => Admitted(c, a) <= Reqs - 1 + Used(c)
      /\ Window - a < end =>
           Admitted(c, a) + Cardinality(Pending(c, a)) <= 2 * Reqs + Cardinality(Handlers) - 2

\* A bucket that may be in use has counted the request of a goroutine.
InUse(c) == buckets[c].left >= -MaxAge => buckets[c].count >= 1 /\ Handlers # {}

Starts == {a \in Int : a <= MaxAge}

BurstInv == \A c \in Clients : InUse(c) /\ \A a \in Starts : BurstAt(c, a)

\* What the parts of BurstAt are.
LEMMA BurstTypes ==
  ASSUME TypeOK, NEW c \in Clients, NEW a \in Int
  PROVE  /\ IsFiniteSet(Pending(c, a)) /\ Cardinality(Pending(c, a)) \in Nat
         /\ Cardinality(Handlers) \in Nat
         /\ buckets[c].left \in Lefts /\ buckets[c].left \in Int
         /\ buckets[c].count \in Nat /\ Used(c) \in Nat /\ Used(c) <= Reqs
<1> USE LimiterAssumption
<1>1. IsFiniteSet(Pending(c, a))
  BY FS_Subset DEF Pending
<1>2. /\ buckets[c].left \in Lefts /\ buckets[c].left \in Int
      /\ buckets[c].count \in Nat /\ Used(c) \in Nat /\ Used(c) <= Reqs
  BY DEF TypeOK, Lefts, Counts, Used
<1> QED BY <1>1, <1>2, FS_CardinalityType

\* How many were admitted of a stretch that is not too long ago.
LEMMA AdmittedType ==
  ASSUME TypeOK, NEW c \in Clients, NEW a \in Starts
  PROVE  Admitted(c, a) \in Int
BY LimiterAssumption DEF TypeOK, Starts, Admitted, Since, Ages

\* A goroutine that decides arrived at some time, and for somebody.
LEMMA Deciding ==
  ASSUME TypeOK, NEW h \in Handlers, Decide(h)
  PROVE  waiting[h].ip \in Clients /\ waiting[h].age \in 0..MaxAge
BY DEF Decide, TypeOK

\* What a decision changes for the client that asked: its bucket, what it was admitted
\* and what it has under way.
LEMMA DecisionOfClient ==
  ASSUME TypeOK, NEW h \in Handlers, Decide(h), NEW a \in Starts,
         NEW c \in Clients, c = waiting[h].ip, NEW age \in 0..MaxAge, age = waiting[h].age
  PROVE  /\ buckets'[c].left = IF Expired(buckets[c], age) THEN Window - age
                               ELSE buckets[c].left
         /\ buckets'[c].count >= 1
         /\ Used(c)' = IF Expired(buckets[c], age) THEN 1
                       ELSE IF buckets[c].count < Reqs THEN Used(c) + 1 ELSE Reqs
         /\ Admitted(c, a)' =
              IF /\ Expired(buckets[c], age) \/ buckets[c].count < Reqs
                 /\ a <= age /\ age <= a + Window
              THEN Admitted(c, a) + 1 ELSE Admitted(c, a)
         /\ a > 0 => Cardinality(Pending(c, a)') =
              IF age >= a THEN Cardinality(Pending(c, a)) - 1
              ELSE Cardinality(Pending(c, a))
<1> DEFINE b == Counted(buckets[c], age)
           old == Expired(buckets[c], age)
           fits == old \/ buckets[c].count < Reqs
<1> USE LimiterAssumption
<1>1. a \in Int /\ a + Window \in Int /\ a - 1 \in Int /\ age \in Int
      /\ (a + Window \in Ages \/ a + Window < 0) /\ (a - 1 \in Ages \/ a - 1 < 0)
  BY DEF Starts, Ages
<1>2. /\ b.left = IF old THEN Window - age ELSE buckets[c].left
      /\ b.count = IF old THEN 1
                   ELSE IF buckets[c].count > Reqs THEN buckets[c].count
                   ELSE buckets[c].count + 1
  BY DEF Counted, Fresh, TypeOK, Counts
<1>3. buckets'[c] = b
  BY DEF Decide, TypeOK
<1>4. buckets[c].count \in Nat
  BY BurstTypes
<1>5. /\ b.count >= 1
      /\ Used(c)' = IF old THEN 1
                    ELSE IF buckets[c].count < Reqs THEN Used(c) + 1 ELSE Reqs
  <2> HIDE DEF b, old
  <2> QED BY <1>2, <1>3, <1>4 DEF Used
<1>6. b.count > Reqs <=> ~ fits
  <2> HIDE DEF b, old
  <2> QED BY <1>2, <1>4
<1>7. Admitted(c, a)' =
        IF fits /\ a <= age /\ age <= a + Window
        THEN Admitted(c, a) + 1 ELSE Admitted(c, a)
  <2>1. CASE ~ fits
    <3>1. since' = since
      BY <1>6, <2>1 DEF Decide
    <3> QED BY <2>1, <3>1 DEF Admitted, Since
  <2>2. CASE fits
    <3>1. since' = [since EXCEPT ![c] = [x \in Ages |-> IF x < age THEN @[x] ELSE @[x] + 1]]
      BY <1>6, <2>2 DEF Decide
    <3> DEFINE s(x) == Since(c, x)
               t(x) == Since(c, x)'
    <3>2. /\ t(a + Window) = IF a + Window < age THEN s(a + Window) ELSE s(a + Window) + 1
          /\ t(a - 1) = IF a - 1 < age THEN s(a - 1) ELSE s(a - 1) + 1
      BY <1>1, <3>1, SinceAdded
    <3>3. s(a + Window) \in Int /\ s(a - 1) \in Int
      BY <1>1 DEF Since, TypeOK
    <3>4. Admitted(c, a) = s(a + Window) - s(a - 1)
      BY DEF Admitted
    <3>5. Admitted(c, a)' = t(a + Window) - t(a - 1)
      BY DEF Admitted
    <3> HIDE DEF fits, s, t
    <3> QED BY <1>1, <2>2, <3>2, <3>3, <3>4, <3>5
  <2> QED BY <2>1, <2>2
<1>8. ASSUME a > 0
      PROVE  Cardinality(Pending(c, a)') =
               IF age >= a THEN Cardinality(Pending(c, a)) - 1
               ELSE Cardinality(Pending(c, a))
  <2>1. /\ waiting'[h] = Idle
        /\ \A g \in Handlers \ {h} : waiting'[g] = waiting[g]
    BY DEF Decide, TypeOK
  <2>2. waiting'[h].age = 0 /\ ~ (0 >= a)
    BY <1>1, <1>8, <2>1 DEF Idle
  <2>3. Pending(c, a)' = Pending(c, a) \ {h}
    BY <2>1, <2>2 DEF Pending
  <2>4. h \in Pending(c, a) <=> age >= a
    BY DEF Pending
  <2>5. IsFiniteSet(Pending(c, a))
    BY <1>1, BurstTypes
  <2>6. CASE age >= a
    <3>1. Cardinality(Pending(c, a) \ {h}) = Cardinality(Pending(c, a)) - 1
      BY <2>4, <2>5, <2>6, FS_RemoveElement
    <3> QED BY <2>3, <2>6, <3>1
  <2>7. CASE ~ (age >= a)
    <3>1. Pending(c, a)' = Pending(c, a)
      BY <2>3, <2>4, <2>7
    <3> QED BY <2>7, <3>1
  <2> QED BY <2>6, <2>7
<1> QED BY <1>2, <1>3, <1>5, <1>7, <1>8

\* A goroutine that has the lock is none of those that are still under way after it.
LEMMA OthersPending ==
  ASSUME TypeOK, NEW h \in Handlers, NEW a \in Int, NEW c \in Clients,
         NEW age \in 0..MaxAge, age = waiting[h].age, age < a
  PROVE  Cardinality(Pending(c, a)) <= Cardinality(Handlers) - 1
<1>1. Pending(c, a) \in SUBSET (Handlers \ {h})
  BY LimiterAssumption DEF Pending
<1>2. IsFiniteSet(Handlers \ {h}) /\ Cardinality(Handlers \ {h}) = Cardinality(Handlers) - 1
  BY LimiterAssumption, FS_RemoveElement
<1> QED BY <1>1, <1>2, FS_Subset

\* A decision preserves BurstInv for the client that asked.
LEMMA DecisionBounded ==
  ASSUME TypeOK, BurstInv, NEW h \in Handlers, Decide(h), NEW a \in Starts,
         NEW c \in Clients, c = waiting[h].ip, NEW age \in 0..MaxAge, age = waiting[h].age
  PROVE  InUse(c)' /\ BurstAt(c, a)'
<1> DEFINE p == Cardinality(Pending(c, a))
           q == Cardinality(Pending(c, a)')
           n == Cardinality(Handlers)
           end == buckets[c].left
           count == buckets[c].count
           s == Admitted(c, a)
           u == Used(c)
<1>0. /\ a \in Int /\ a <= MaxAge /\ Window \in Nat \ {0}
      /\ MaxAge \in Nat \ {0} /\ Reqs \in Nat \ {0}
  BY LimiterAssumption DEF Starts
<1>1. /\ buckets'[c].left = IF end < -age THEN Window - age ELSE end
      /\ buckets'[c].count >= 1
      /\ Used(c)' = IF end < -age THEN 1 ELSE IF count < Reqs THEN u + 1 ELSE Reqs
      /\ Admitted(c, a)' =
           IF (end < -age \/ count < Reqs) /\ a <= age /\ age <= a + Window
           THEN s + 1 ELSE s
      /\ a > 0 => q = IF age >= a THEN p - 1 ELSE p
  BY <1>0, DecisionOfClient DEF Expired
<1>2. /\ s \in Int /\ p \in Nat /\ n \in Nat /\ end \in Lefts /\ end \in Int
      /\ count \in Nat /\ u \in Nat /\ u = IF count > Reqs THEN Reqs ELSE count
  BY <1>0, BurstTypes, AdmittedType DEF Used
<1>3. age < a => p <= n - 1
  BY <1>0, OthersPending
<1>4. InUse(c) /\ BurstAt(c, a)
  BY DEF BurstInv
<1>5. /\ end >= -MaxAge => count >= 1
      /\ end < -(a + Window) => s = 0
      /\ -(a + Window) <= end /\ end < -a => s = 0 \/ s <= u - 1
      /\ -a <= end /\ end <= Window - a => s <= Reqs - 1 + u
      /\ Window - a < end => s + p <= 2 * Reqs + n - 2
  BY <1>4 DEF InUse, BurstAt
<1>6. InUse(c)'
  BY <1>1 DEF InUse
<1> DEFINE newEnd == buckets'[c].left
           t == Admitted(c, a)'
           v == Used(c)'
<1> HIDE DEF p, q, n, end, count, s, u, newEnd, t, v
<1>7. /\ newEnd < -(a + Window) => t = 0
      /\ -(a + Window) <= newEnd /\ newEnd < -a => t = 0 \/ t <= v - 1
      /\ -a <= newEnd /\ newEnd <= Window - a => t <= Reqs - 1 + v
      /\ Window - a < newEnd => t + q <= 2 * Reqs + n - 2
  BY <1>0, <1>1, <1>2, <1>3, <1>5 DEF newEnd, t, v, Lefts
<1> QED BY <1>6, <1>7 DEF BurstAt, newEnd, t, v, q, n

\* What BurstInv says of a client follows from its bucket, what it was admitted and what it has
\* under way: it stays true where these stay, if no more gets under way of a stretch
\* that lies in the past.
LEMMA BurstKept ==
  ASSUME TypeOK, NEW c \in Clients, NEW a \in Starts, InUse(c), BurstAt(c, a),
         buckets'[c] = buckets[c], since'[c] = since[c],
         a > 0 => Pending(c, a)' \subseteq Pending(c, a)
  PROVE  InUse(c)' /\ BurstAt(c, a)'
<1> USE LimiterAssumption
<1>1. InUse(c)'
  BY DEF InUse
<1>2. a \in Int /\ Used(c)' = Used(c) /\ Admitted(c, a)' = Admitted(c, a)
  BY DEF Starts, Used, Admitted, Since
<1>3. buckets[c].left \in Int /\ buckets[c].left <= Window
  BY <1>2, BurstTypes DEF Lefts
<1>4. a > 0 => Cardinality(Pending(c, a)') <= Cardinality(Pending(c, a))
                 /\ Cardinality(Pending(c, a)') \in Nat
  BY <1>2, BurstTypes, FS_Subset, FS_CardinalityType
<1>5. Window - a < buckets[c].left =>
        Admitted(c, a) + Cardinality(Pending(c, a)') <= 2 * Reqs + Cardinality(Handlers) - 2
  <2>1. /\ Admitted(c, a) \in Int /\ Cardinality(Pending(c, a)) \in Nat
        /\ Cardinality(Handlers) \in Nat
    BY <1>2, BurstTypes, AdmittedType
  <2>2. Window - a < buckets[c].left =>
          Admitted(c, a) + Cardinality(Pending(c, a)) <= 2 * Reqs + Cardinality(Handlers) - 2
    BY DEF BurstAt
  <2> QED BY <1>2, <1>3, <1>4, <2>1, <2>2
<1>6. BurstAt(c, a)'
  BY <1>2, <1>5 DEF BurstAt
<1> QED BY <1>1, <1>6

\* An arrival preserves BurstInv: it is of the present, not of a stretch in the past.
LEMMA ArrivalBounded ==
  ASSUME TypeOK, BurstInv, NEW h \in Handlers, NEW d \in Clients, Arrive(h, d),
         NEW c \in Clients, NEW a \in Starts
  PROVE  InUse(c)' /\ BurstAt(c, a)'
<1>1. a > 0 => Pending(c, a)' \subseteq Pending(c, a)
  <2>1. waiting'[h].age = 0 /\ \A g \in Handlers \ {h} : waiting'[g] = waiting[g]
    BY DEF Arrive, TypeOK
  <2> QED BY <2>1, LimiterAssumption DEF Pending, Starts
<1>2. InUse(c) /\ BurstAt(c, a) /\ buckets'[c] = buckets[c] /\ since'[c] = since[c]
  BY DEF BurstInv, Arrive
<1> QED BY <1>1, <1>2, BurstKept

\* A decision preserves BurstInv for every other client.
LEMMA OthersBounded ==
  ASSUME TypeOK, BurstInv, NEW h \in Handlers, Decide(h),
         NEW c \in Clients, c # waiting[h].ip, NEW a \in Starts
  PROVE  InUse(c)' /\ BurstAt(c, a)'
<1>1. a > 0 => Pending(c, a)' \subseteq Pending(c, a)
  <2>1. waiting'[h].age = 0 /\ \A g \in Handlers \ {h} : waiting'[g] = waiting[g]
    BY DEF Decide, TypeOK, Idle
  <2> QED BY <2>1, LimiterAssumption DEF Pending, Starts
<1>2. buckets'[c] = buckets[c] /\ since'[c] = since[c]
  BY Deciding DEF Decide, TypeOK
<1>3. InUse(c) /\ BurstAt(c, a)
  BY DEF BurstInv
<1> QED BY <1>1, <1>2, <1>3, BurstKept

\* A tick moves what was admitted in a stretch to the stretch a tick earlier.
LEMMA AdmittedAges ==
  ASSUME TypeOK, Tick, NEW c \in Clients, NEW a \in Starts
  PROVE  Admitted(c, a)' = Admitted(c, a - 1)
<1>1. a \in Int /\ a <= MaxAge /\ a - 1 \in Int
  BY LimiterAssumption DEF Starts
<1>2. Since(c, a + Window)' = Since(c, (a + Window) - 1)
  BY <1>1, LimiterAssumption, SinceAges DEF Ages
<1>3. Since(c, a - 1)' = Since(c, (a - 1) - 1)
  BY <1>1, LimiterAssumption, SinceAges DEF Ages
<1>4. (a + Window) - 1 = (a - 1) + Window
  BY <1>1, LimiterAssumption
<1> QED BY <1>2, <1>3, <1>4 DEF Admitted

\* So it does with what is under way.
LEMMA PendingAges ==
  ASSUME TypeOK, Tick, NEW c \in Clients, NEW a \in Int, a > 0
  PROVE  Pending(c, a)' \subseteq Pending(c, a - 1)
<1> SUFFICES ASSUME NEW h \in Handlers, waiting'[h].ip = c, waiting'[h].age >= a
             PROVE  waiting[h].ip = c /\ waiting[h].age >= a - 1
  BY DEF Pending
<1>1. waiting[h] # Idle
  BY DEF Tick, Idle
<1>2. waiting[h] \in [ip: Clients, age: 0..MaxAge]
  BY <1>1 DEF TypeOK
<1>3. waiting'[h] = [waiting[h] EXCEPT !.age = @ + 1]
  BY <1>1 DEF Tick
<1> QED BY <1>2, <1>3, LimiterAssumption

\* A tick preserves BurstInv.
LEMMA TickBounded ==
  ASSUME TypeOK, BurstInv, Tick, NEW c \in Clients, NEW a \in Starts
  PROVE  InUse(c)' /\ BurstAt(c, a)'
<1> DEFINE end  == buckets[c].left
           late == buckets'[c].left
           s    == Admitted(c, a - 1)
           p    == Cardinality(Pending(c, a - 1))
           q    == Cardinality(Pending(c, a)')
           n    == Cardinality(Handlers)
           u    == Used(c)
<1>0. /\ a \in Int /\ a <= MaxAge /\ a - 1 \in Starts /\ a - 1 \in Int
      /\ Window \in Nat \ {0} /\ MaxAge \in Nat \ {0} /\ Reqs \in Nat \ {0}
  BY LimiterAssumption DEF Starts
<1>1. /\ late = IF end < -MaxAge THEN end ELSE end - 1
      /\ buckets'[c].count = buckets[c].count
  BY DEF Tick, TypeOK
<1>2. Used(c)' = u
  BY <1>1 DEF Used
<1>3. /\ s \in Int /\ p \in Nat /\ n \in Nat /\ u \in Nat
      /\ end \in Int /\ end >= -(MaxAge + 1) /\ end <= Window
  BY <1>0, BurstTypes, AdmittedType DEF Lefts
<1>4. a > 0 => q \in Nat /\ q <= p
  BY <1>0, BurstTypes, PendingAges, FS_Subset, FS_CardinalityType
<1>5. InUse(c) /\ BurstAt(c, a - 1)
  BY <1>0 DEF BurstInv
<1>6. InUse(c)'
  BY <1>0, <1>1, <1>3, <1>5 DEF InUse
<1>7. /\ end < -((a - 1) + Window) => s = 0
      /\ -((a - 1) + Window) <= end /\ end < -(a - 1) => s = 0 \/ s <= u - 1
      /\ -(a - 1) <= end /\ end <= Window - (a - 1) => s <= Reqs - 1 + u
      /\ Window - (a - 1) < end => s + p <= 2 * Reqs + n - 2
  BY <1>5 DEF BurstAt
<1>8. Admitted(c, a)' = s
  BY AdmittedAges
<1> HIDE DEF end, late, s, p, q, n, u
<1>9. /\ late < -(a + Window) => s = 0
      /\ -(a + Window) <= late /\ late < -a => s = 0 \/ s <= u - 1
      /\ -a <= late /\ late <= Window - a => s <= Reqs - 1 + u
      /\ Window - a < late => s + q <= 2 * Reqs + n - 2
  BY <1>0, <1>1, <1>3, <1>4, <1>7
<1> QED BY <1>2, <1>6, <1>8, <1>9 DEF BurstAt, late, q, n, u

\* Every step preserves BurstInv.
LEMMA BurstStep == TypeOK /\ BurstInv /\ [Next]_vars => BurstInv'
<1> SUFFICES ASSUME TypeOK, BurstInv, [Next]_vars,
                    NEW c \in Clients, NEW a \in Starts
             PROVE  InUse(c)' /\ BurstAt(c, a)'
  <2>1. Starts # {}
    BY LimiterAssumption DEF Starts
  <2> QED BY <2>1 DEF BurstInv, Starts
<1>1. ASSUME NEW h \in Handlers, NEW d \in Clients, Arrive(h, d)
      PROVE  InUse(c)' /\ BurstAt(c, a)'
  BY <1>1, ArrivalBounded
<1>2. ASSUME NEW h \in Handlers, Decide(h)
      PROVE  InUse(c)' /\ BurstAt(c, a)'
  <2>1. CASE c = waiting[h].ip
    <3>1. PICK age \in 0..MaxAge : age = waiting[h].age
      BY <1>2, Deciding
    <3> QED BY <1>2, <2>1, <3>1, DecisionBounded
  <2>2. CASE c # waiting[h].ip
    BY <1>2, <2>2, OthersBounded
  <2> QED BY <2>1, <2>2
<1>3. ASSUME Tick
      PROVE  InUse(c)' /\ BurstAt(c, a)'
  BY <1>3, TickBounded
<1>4. CASE UNCHANGED vars
  <2>1. buckets'[c] = buckets[c] /\ since'[c] = since[c] /\ waiting' = waiting
    BY <1>4 DEF vars
  <2>2. Pending(c, a)' \subseteq Pending(c, a)
    BY <2>1 DEF Pending
  <2>3. InUse(c) /\ BurstAt(c, a)
    BY DEF BurstInv
  <2> QED BY <2>1, <2>2, <2>3, BurstKept
<1> QED BY <1>1, <1>2, <1>3, <1>4 DEF Next

\* Nothing was admitted at first.
LEMMA BurstInit == Init => BurstInv
<1> SUFFICES ASSUME Init, NEW c \in Clients, NEW a \in Starts
             PROVE  InUse(c) /\ BurstAt(c, a)
  <2>1. Starts # {}
    BY LimiterAssumption DEF Starts
  <2> QED BY <2>1 DEF BurstInv
<1>1. a \in Int /\ a <= MaxAge /\ Window \in Nat /\ MaxAge \in Nat /\ Reqs \in Nat \ {0}
  BY LimiterAssumption DEF Starts
<1>2. TypeOK
  BY LimiterAssumption DEF Init, TypeOK, NoBucket, Idle, Counts, Lefts, Ages
<1>3. buckets[c].left = -(MaxAge + 1) /\ buckets[c].count = 0
  BY DEF Init, NoBucket
<1>4. Admitted(c, a) = 0
  BY <1>1 DEF Init, Admitted, Since, Ages
<1>5. Used(c) = 0
  BY <1>1, <1>3 DEF Used
<1> QED BY <1>1, <1>3, <1>4, <1>5 DEF InUse, BurstAt

\* The bound on bursts is what BurstInv says of a stretch when only the requests under
\* way are left out of it.
LEMMA BurstBound == TypeOK /\ BurstInv => BurstBounded
<1> SUFFICES ASSUME TypeOK, BurstInv, NEW c \in Clients, NEW a \in 0..MaxAge
             PROVE  Burst(c, a) <= 2 * Reqs + Cardinality(Handlers) - 2
  BY DEF BurstBounded
<1> DEFINE end   == buckets[c].left
           count == buckets[c].count
           s     == Admitted(c, a)
           p     == Cardinality(Pending(c, a))
           n     == Cardinality(Handlers)
           u     == Used(c)
<1>0. /\ a \in Int /\ a \in Starts /\ a >= 0 /\ a <= MaxAge
      /\ Window \in Nat \ {0} /\ MaxAge \in Nat \ {0} /\ Reqs \in Nat \ {0}
  BY LimiterAssumption DEF Starts
<1>1. Burst(c, a) = s
  BY <1>0 DEF Burst, Admitted, Since
<1>2. /\ s \in Int /\ p \in Nat /\ n \in Nat /\ end \in Int
      /\ count \in Nat /\ u \in Nat /\ u <= Reqs /\ (count = 0 => u = 0)
  BY <1>0, BurstTypes, AdmittedType DEF Used
<1>3. /\ end >= -MaxAge => n >= 1
      /\ end < -(a + Window) => s = 0
      /\ -(a + Window) <= end /\ end < -a => s = 0 \/ s <= u - 1
      /\ -a <= end /\ end <= Window - a => s <= Reqs - 1 + u
      /\ Window - a < end => s + p <= 2 * Reqs + n - 2
  <2>1. InUse(c) /\ BurstAt(c, a)
    BY <1>0 DEF BurstInv
  <2>2. Handlers # {} => Cardinality(Handlers) # 0
    BY LimiterAssumption, FS_EmptySet
  <2> QED BY <1>2, <2>1, <2>2 DEF InUse, BurstAt
<1> HIDE DEF end, count, s, p, n, u
<1>4. s <= 2 * Reqs + n - 2
  BY <1>0, <1>2, <1>3
<1> QED BY <1>1, <1>4 DEF n

\* Never were more admitted of the arrivals of Window + 1 ticks in a row than two buckets
\* and the goroutines that waited for the lock account for.
THEOREM BurstsAreBounded == Spec => []BurstBounded
<1>1. Init => BurstInv
  BY BurstInit
<1>2. TypeOK /\ BurstInv /\ [Next]_vars => BurstInv'
  BY BurstStep
<1>3. TypeOK /\ BurstInv => BurstBounded
  BY BurstBound
<1> QED BY <1>1, <1>2, <1>3, LimiterTypeCorrect, PTL DEF Spec

(***************************************************************************)
(* Refusals.  What a bucket counts was admitted after it was created, or   *)
(* arrived while one waits for the lock before that.                       *)
(***************************************************************************)
\* A bucket that may be in use has admitted all it counts of what arrived since one wait
\* for the lock before it was created.
ChargedFairly(c) ==
  buckets[c].left >= -MaxAge =>
    \A a \in Ages : a >= Window - buckets[c].left + MaxAge => Used(c) <= since[c][a]

\* Nothing is charged to a client but the requests it was admitted.
LEMMA DecisionCharged ==
  ASSUME TypeOK, NEW h \in Handlers, Decide(h), NEW c \in Clients, c = waiting[h].ip,
         ChargedFairly(c)
  PROVE  ChargedFairly(c)'
<1>1. PICK age \in 0..MaxAge : age = waiting[h].age
  BY Deciding
<1> SUFFICES ASSUME NEW a \in Ages, a >= Window - buckets'[c].left + MaxAge
             PROVE  Used(c)' <= since'[c][a]
  BY DEF ChargedFairly
<1> DEFINE old   == Expired(buckets[c], age)
           left  == buckets[c].left
           count == buckets[c].count
           u     == Used(c)
           sum   == since[c][a]
           next  == since'[c][a]
<1>2. /\ buckets'[c].left = IF old THEN Window - age ELSE left
      /\ Used(c)' = IF old THEN 1 ELSE IF count < Reqs THEN u + 1 ELSE Reqs
  <2>1. 0 \in Starts
    BY LimiterAssumption DEF Starts
  <2> QED BY <1>1, <2>1, DecisionOfClient
<1>3. /\ left \in Int /\ left <= Window /\ count \in Nat
      /\ u = IF count > Reqs THEN Reqs ELSE count
      /\ Window \in Nat /\ MaxAge \in Nat /\ Reqs \in Nat \ {0} /\ age \in Nat
  BY LimiterAssumption, BurstTypes DEF Lefts, Used
<1>4. a \in Nat /\ sum \in Nat /\ a >= age
  <2>1. a \in Nat /\ sum \in Nat
    BY <1>3 DEF Ages, TypeOK
  <2> HIDE DEF old, left, sum
  <2> QED BY <1>2, <1>3, <2>1
<1>5. IF old \/ count < Reqs THEN next = sum + 1 ELSE next = sum
  <2>1. Counted(buckets[c], age).count > Reqs <=> ~ (old \/ count < Reqs)
    BY <1>3 DEF Counted, Fresh, Expired
  <2>2. CASE old \/ count < Reqs
    <3>1. since' = [since EXCEPT ![c] = [x \in Ages |-> IF x < age THEN @[x] ELSE @[x] + 1]]
      BY <1>1, <2>1, <2>2 DEF Decide
    <3>2. next = sum + 1
      BY <1>3, <1>4, <3>1 DEF TypeOK
    <3> HIDE DEF old, count, next, sum
    <3> QED BY <2>2, <3>2
  <2>3. CASE ~ (old \/ count < Reqs)
    <3>1. since' = since
      BY <1>1, <2>1, <2>3 DEF Decide
    <3> QED BY <2>3, <3>1
  <2> QED BY <2>2, <2>3
<1>6. ~ old => left >= -MaxAge
  BY <1>3 DEF Expired
<1>7. ~ old => u <= sum
  BY <1>2, <1>6 DEF ChargedFairly
<1> HIDE DEF old, left, count, u, sum, next
<1>8. Used(c)' <= next
  BY <1>2, <1>3, <1>4, <1>5, <1>7
<1> QED BY <1>8 DEF next

\* Every step preserves ChargedFairly.
LEMMA ChargedStep ==
  ASSUME TypeOK, NEW c \in Clients, ChargedFairly(c), [Next]_vars
  PROVE  ChargedFairly(c)'
<1>1. ASSUME buckets'[c] = buckets[c], since'[c] = since[c]
      PROVE  ChargedFairly(c)'
  BY <1>1 DEF ChargedFairly, Used
<1>2. ASSUME NEW h \in Handlers, NEW d \in Clients, Arrive(h, d)
      PROVE  ChargedFairly(c)'
  BY <1>1, <1>2 DEF Arrive
<1>3. ASSUME NEW h \in Handlers, Decide(h)
      PROVE  ChargedFairly(c)'
  <2>1. CASE c = waiting[h].ip
    BY <1>3, <2>1, DecisionCharged
  <2>2. CASE c # waiting[h].ip
    <3>1. buckets'[c] = buckets[c] /\ since'[c] = since[c]
      BY <1>3, <2>2, Deciding DEF Decide, TypeOK
    <3> QED BY <1>1, <3>1
  <2> QED BY <2>1, <2>2
<1>4. ASSUME Tick
      PROVE  ChargedFairly(c)'
  <2> SUFFICES ASSUME buckets'[c].left >= -MaxAge, NEW a \in Ages,
                      a >= Window - buckets'[c].left + MaxAge
               PROVE  Used(c)' <= since'[c][a]
    BY DEF ChargedFairly
  <2>1. /\ buckets[c].left \in Int /\ buckets[c].left <= Window
        /\ Window \in Nat /\ MaxAge \in Nat /\ a \in Nat
    BY LimiterAssumption, BurstTypes DEF Lefts, Ages
  <2>2. /\ buckets'[c].left = IF buckets[c].left < -MaxAge THEN buckets[c].left
                              ELSE buckets[c].left - 1
        /\ buckets'[c].count = buckets[c].count
    BY <1>4 DEF Tick, TypeOK
  <2>3. buckets[c].left >= -MaxAge /\ buckets'[c].left = buckets[c].left - 1
    BY <2>1, <2>2
  <2>4. a - 1 \in Ages /\ a - 1 >= Window - buckets[c].left + MaxAge
    BY <2>1, <2>3 DEF Ages
  <2>5. Used(c) <= since[c][a - 1]
    BY <2>3, <2>4 DEF ChargedFairly
  <2>6. Used(c)' = Used(c)
    BY <2>2 DEF Used
  <2>7. since'[c][a] = since[c][a - 1]
    <3>1. a # 0
      BY <2>4 DEF Ages
    <3> QED BY <1>4, <3>1 DEF Tick
  <2> QED BY <2>5, <2>6, <2>7
<1>5. CASE UNCHANGED vars
  BY <1>1, <1>5 DEF vars
<1> QED BY <1>2, <1>3, <1>4, <1>5 DEF Next

AllCharged == \A c \in Clients : ChargedFairly(c)

\* A request that is refused meets a bucket that has admitted as many as it may, none of
\* which arrived more than a window and a wait before it.
LEMMA RefusalDeserved ==
  ASSUME TypeOK, NEW c \in Clients, ChargedFairly(c), NEW h \in Handlers,
         Decide(h), waiting[h].ip = c, since' = since
  PROVE  since[c][waiting[h].age + Window + MaxAge] >= Reqs
<1>1. PICK age \in 0..MaxAge : age = waiting[h].age
  BY Deciding
<1>2. /\ Window \in Nat /\ MaxAge \in Nat /\ Reqs \in Nat \ {0} /\ age \in Nat
      /\ buckets[c].left \in Int /\ buckets[c].count \in Nat
  BY LimiterAssumption, BurstTypes
<1>3. age + Window + MaxAge \in Ages /\ age \in Ages
  BY <1>1, <1>2 DEF Ages
<1>4. Counted(buckets[c], age).count > Reqs
  <2> SUFFICES ASSUME ~ (Counted(buckets[c], age).count > Reqs) PROVE FALSE
    OBVIOUS
  <2>1. since' = [since EXCEPT ![c] = [x \in Ages |-> IF x < age THEN @[x] ELSE @[x] + 1]]
    BY <1>1 DEF Decide
  <2>2. since'[c][age] = since[c][age] + 1 /\ since[c][age] \in Nat
    BY <1>2, <1>3, <2>1 DEF TypeOK
  <2> QED BY <2>2
<1>5. buckets[c].left >= -age /\ buckets[c].count >= Reqs
  BY <1>2, <1>4 DEF Counted, Expired, Fresh
<1>6. Used(c) = Reqs
  BY <1>2, <1>5 DEF Used
<1>7. age + Window + MaxAge >= Window - buckets[c].left + MaxAge
  BY <1>2, <1>5
<1>8. Reqs <= since[c][age + Window + MaxAge] /\ since[c][age + Window + MaxAge] \in Nat
  BY <1>1, <1>2, <1>3, <1>5, <1>6, <1>7 DEF ChargedFairly, TypeOK
<1> QED BY <1>1, <1>2, <1>8

\* A request is refused only when as many as a bucket admits were admitted of those that
\* arrived at most a window and a wait for the lock before it, in whatever order they
\* were counted and however many were refused in between.
THEOREM RefusalsDeserved == Spec => RefusalsAreDeserved
<1> DEFINE Deserved ==
      \A c \in Clients, h \in Handlers :
        Decide(h) /\ waiting[h].ip = c /\ since' = since
          => since[c][waiting[h].age + Window + MaxAge] >= Reqs
<1>1. Init => AllCharged
  BY LimiterAssumption DEF Init, AllCharged, ChargedFairly, NoBucket
<1>2. TypeOK /\ AllCharged /\ [Next]_vars => AllCharged'
  BY ChargedStep DEF AllCharged
<1>3. TypeOK /\ AllCharged => Deserved
  BY RefusalDeserved DEF AllCharged
<1> QED BY <1>1, <1>2, <1>3, LimiterTypeCorrect, PTL DEF RefusalsAreDeserved, Spec

(***************************************************************************)
(* How long a client may be refused.                                       *)
(***************************************************************************)
\* In n ticks the bucket of c is over for every goroutine, whenever it read the clock.
AdmitsIn(c, n) == buckets[c].left + MaxAge < n

Admits(h, c) == Decide(h) /\ waiting[h].ip = c /\ since'[c] # since[c]

\* The safety behind ClientIsServed: a window and a wait for the lock after any moment a
\* request of the client is admitted or the next one will be.  Refused requests, however
\* many, take nothing away from that, each tick brings it nearer, and once the time is
\* up no request is refused.
AdmissionIsNear ==
  /\ [](\A c \in Clients : AdmitsIn(c, Window + MaxAge + 1))
  /\ [][\A c \in Clients, n \in Nat :
          AdmitsIn(c, n + 1) =>
            \/ \E h \in Handlers : Admits(h, c)
            \/ AdmitsIn(c, n + 1)' /\ (Tick => AdmitsIn(c, n)')]_vars
  /\ [][\A c \in Clients, h \in Handlers :
          AdmitsIn(c, 0) /\ Decide(h) /\ waiting[h].ip = c => Admits(h, c)]_vars

\* A decision admits its request, or leaves the end of the bucket where it was.
LEMMA AdmittedOrNotProlonged ==
  ASSUME TypeOK, NEW h \in Handlers, Decide(h), NEW c \in Clients, c = waiting[h].ip
  PROVE  Admits(h, c) \/ (buckets'[c].left = buckets[c].left /\ ~AdmitsIn(c, 0))
<1>1. PICK age \in 0..MaxAge : age = waiting[h].age
  BY Deciding
<1>2. /\ Window \in Nat /\ MaxAge \in Nat /\ Reqs \in Nat \ {0} /\ age \in Nat
      /\ buckets[c].left \in Int /\ buckets[c].count \in Nat
  BY LimiterAssumption, BurstTypes
<1>3. age \in Ages
  BY <1>1, <1>2 DEF Ages
<1>4. CASE Counted(buckets[c], age).count <= Reqs
  <2>1. ~ (Counted(buckets[c], age).count > Reqs)
    BY <1>2, <1>4 DEF Counted, Fresh, Expired
  <2>2. since' = [since EXCEPT ![c] = [x \in Ages |-> IF x < age THEN @[x] ELSE @[x] + 1]]
    BY <1>1, <2>1 DEF Decide
  <2>3. since'[c][age] = since[c][age] + 1 /\ since[c][age] \in Nat
    BY <1>2, <1>3, <2>2 DEF TypeOK
  <2> QED BY <2>3 DEF Admits
<1>5. CASE ~ (Counted(buckets[c], age).count <= Reqs)
  <2>1. ~Expired(buckets[c], age)
    BY <1>2, <1>5 DEF Counted, Fresh
  <2>2. buckets'[c] = Counted(buckets[c], age)
    BY <1>1 DEF Decide, TypeOK
  <2>3. Counted(buckets[c], age).left = buckets[c].left
    BY <2>1 DEF Counted, TypeOK
  <2> QED BY <1>2, <2>1, <2>2, <2>3 DEF Expired, AdmitsIn
<1> QED BY <1>4, <1>5

\* Every step brings an admission, or the next one no farther away.
LEMMA AdmissionStep ==
  ASSUME TypeOK, [Next]_vars, NEW c \in Clients, NEW n \in Nat, AdmitsIn(c, n + 1)
  PROVE  \/ \E h \in Handlers : Admits(h, c)
         \/ AdmitsIn(c, n + 1)' /\ (Tick => AdmitsIn(c, n)')
<1>1. buckets[c].left \in Int /\ MaxAge \in Nat
  BY LimiterAssumption, BurstTypes
<1>2. CASE Tick
  <2>1. buckets'[c].left = IF buckets[c].left < -MaxAge THEN buckets[c].left
                           ELSE buckets[c].left - 1
    BY <1>2 DEF Tick, TypeOK
  <2> QED BY <1>1, <2>1 DEF AdmitsIn
<1>3. ASSUME buckets'[c].left = buckets[c].left, ~Tick
      PROVE  AdmitsIn(c, n + 1)' /\ (Tick => AdmitsIn(c, n)')
  BY <1>3 DEF AdmitsIn
<1>4. ASSUME NEW h \in Handlers, Decide(h), ~Tick
      PROVE  Admits(h, c) \/ buckets'[c].left = buckets[c].left
  <2>1. CASE c = waiting[h].ip
    BY <1>4, <2>1, AdmittedOrNotProlonged
  <2>2. CASE c # waiting[h].ip
    BY <1>4, <2>2, Deciding DEF Decide, TypeOK
  <2> QED BY <2>1, <2>2
<1>5. ASSUME NEW h \in Handlers, NEW d \in Clients, Arrive(h, d)
      PROVE  buckets' = buckets
  BY <1>5 DEF Arrive
<1>6. CASE UNCHANGED vars
  BY <1>1, <1>2, <1>3, <1>6 DEF vars
<1> QED BY <1>2, <1>3, <1>4, <1>5, <1>6 DEF Next

\* A client that keeps asking is admitted again after a window and a wait for the lock,
\* however many of its requests were refused meanwhile.
THEOREM AdmissionsAreNear == Spec => AdmissionIsNear
<1> DEFINE Nearer ==
             \A c \in Clients, n \in Nat :
               AdmitsIn(c, n + 1) =>
                 \/ \E h \in Handlers : Admits(h, c)
                 \/ AdmitsIn(c, n + 1)' /\ (Tick => AdmitsIn(c, n)')
           InTheEnd ==
             \A c \in Clients, h \in Handlers :
               AdmitsIn(c, 0) /\ Decide(h) /\ waiting[h].ip = c => Admits(h, c)
<1>1. TypeOK => \A c \in Clients : AdmitsIn(c, Window + MaxAge + 1)
  BY LimiterAssumption DEF TypeOK, AdmitsIn, Lefts
<1>2. TypeOK /\ [Next]_vars => [Nearer]_vars
  BY AdmissionStep
<1>3. TypeOK => InTheEnd
  BY AdmittedOrNotProlonged
<1> QED BY <1>1, <1>2, <1>3, LimiterTypeCorrect, PTL DEF Spec, AdmissionIsNear
=============================================================================
