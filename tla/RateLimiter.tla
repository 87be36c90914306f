----------------------------- MODULE RateLimiter -----------------------------
(***************************************************************************)
(* The per-IP limiter shared by every limited route.  A request reads the  *)
(* clock before it takes the lock, so requests may be counted in another   *)
(* order than they arrived in, with a clock reading that is already old.   *)
(*                                                                         *)
(* Time is relative, which keeps the state finite while time goes on for   *)
(* ever: age is how long ago a request read the clock, and left is how far *)
(* ahead of the present a bucket's resetAt lies (negative once it passed). *)
(***************************************************************************)
EXTENDS Integers, FiniteSets

CONSTANTS
  Clients,  \* client IPs
  Handlers, \* request goroutines at work at the same time (a bound)
  Reqs,     \* requests a bucket admits
  Window,   \* ticks from the creation of a bucket to its resetAt
  MaxAge    \* ticks a goroutine may wait for the lock (a bound on the scheduler)

ASSUME LimiterAssumption ==
  /\ IsFiniteSet(Handlers)
  /\ Reqs \in Nat \ {0}
  /\ Window \in Nat \ {0}
  /\ MaxAge \in Nat \ {0}

VARIABLES
  buckets,  \* RateLimiter.limits
  waiting,  \* the goroutines between time.Now() and mu.Lock()
  since     \* history: per client, how many requests were admitted that arrived at most
            \* so many ticks ago

vars == <<buckets, waiting, since>>

\* No bucket: the map has no entry.  The code never deletes one.
NoBucket == [count |-> 0, left |-> -(MaxAge + 1)]

\* count is only compared with reqs, so every larger value stands for all of them; and
\* once left is below -MaxAge every goroutine finds the bucket expired.
Counts == 0..(Reqs + 1)
Lefts  == -(MaxAge + 1)..Window
Ages   == 0..(Window + 2 * MaxAge)
Idle   == [ip |-> "none", age |-> 0]

TypeOK ==
  /\ buckets \in [Clients -> [count: Counts, left: Lefts]]
  /\ waiting \in [Handlers -> {Idle} \cup [ip: Clients, age: 0..MaxAge]]
  /\ since \in [Clients -> [Ages -> Nat]]

Init ==
  /\ buckets = [c \in Clients |-> NoBucket]
  /\ waiting = [h \in Handlers |-> Idle]
  /\ since = [c \in Clients |-> [a \in Ages |-> 0]]

\* ip := c.ClientIP(); now := time.Now()
Arrive(h, c) ==
  /\ waiting[h] = Idle
  /\ waiting' = [waiting EXCEPT ![h] = [ip |-> c, age |-> 0]]
  /\ UNCHANGED <<buckets, since>>

\* Wrong on purpose: expired already at resetAt (!now.Before).
ExpiredAtReset(b, age) == b.left <= -age

\* Wrong on purpose: only a missing bucket is replaced.
Missing(b, age) == b = NoBucket

\* !ok || now.After(b.resetAt), for a clock read age ticks ago.
Expired(b, age) == b.left < -age

\* Wrong on purpose: the window starts in the future.
FreshLater(age) == [count |-> 0, left |-> Window + age]

\* Wrong on purpose: the request that opens a bucket is counted twice.
FreshCounted(age) == [count |-> 1, left |-> Window - age]

Fresh(age) == [count |-> 0, left |-> Window - age]

\* Wrong on purpose: the request that finds its bucket expired is not counted.
CountedUnlessFresh(b, age) ==
  IF Expired(b, age) THEN Fresh(age) ELSE [b EXCEPT !.count = IF @ > Reqs THEN @ ELSE @ + 1]

Counted(b, age) ==
  LET current == IF Expired(b, age) THEN Fresh(age) ELSE b
  IN  [current EXCEPT !.count = IF @ > Reqs THEN @ ELSE @ + 1]

\* The critical section: the request is admitted unless the count exceeds reqs.
Decide(h) ==
  LET c   == waiting[h].ip
      age == waiting[h].age
      b   == Counted(buckets[c], age)
  IN  /\ waiting[h] # Idle
      /\ buckets' = [buckets EXCEPT ![c] = b]
      /\ since' = IF b.count > Reqs THEN since
                  ELSE [since EXCEPT ![c] =
                          [a \in Ages |-> IF a < age THEN @[a] ELSE @[a] + 1]]
      /\ waiting' = [waiting EXCEPT ![h] = Idle]

\* The clock moves on; no goroutine waits longer than MaxAge.
Tick ==
  /\ \A h \in Handlers : waiting[h].age < MaxAge
  /\ waiting' = [h \in Handlers |->
       IF waiting[h] = Idle THEN Idle ELSE [waiting[h] EXCEPT !.age = @ + 1]]
  /\ buckets' = [c \in Clients |->
       [buckets[c] EXCEPT !.left = IF @ < -MaxAge THEN @ ELSE @ - 1]]
  /\ since' = [c \in Clients |->
       [a \in Ages |-> IF a = 0 THEN 0 ELSE since[c][a - 1]]]

Next ==
  \/ \E h \in Handlers, c \in Clients : Arrive(h, c)
  \/ \E h \in Handlers : Decide(h)
  \/ Tick

\* Time passes, the scheduler lets every goroutine have the lock, and each client goes
\* on sending requests.
Fairness ==
  /\ WF_vars(Tick)
  /\ \A h \in Handlers : WF_vars(Decide(h))
  /\ \A c \in Clients : SF_vars(\E h \in Handlers : Arrive(h, c))

Spec == Init /\ [][Next]_vars /\ Fairness

(***************************************************************************)
(* Properties                                                              *)
(***************************************************************************)
\* The requests of c admitted that arrived in the Window + 1 ticks up to a ticks ago.
Burst(c, a) == since[c][a + Window] - (IF a = 0 THEN 0 ELSE since[c][a - 1])

\* The worst burst.  The arrivals of any Window + 1 consecutive ticks meet at most two
\* buckets, and the request that created the older one came before them; what comes
\* on top waited for the lock while a third bucket was created by yet another request.
BurstBounded ==
  \A c \in Clients, a \in 0..MaxAge :
    Burst(c, a) <= 2 * Reqs + Cardinality(Handlers) - 2

\* Buckets do not overlap: whatever order goroutines get the lock in, a bucket is
\* replaced only by one whose resetAt is more than a window later.
WindowsDoNotOverlap ==
  [][\A c \in Clients, h \in Handlers :
       Decide(h) /\ waiting[h].ip = c /\ buckets[c] # NoBucket
         => \/ buckets'[c].left = buckets[c].left
            \/ buckets'[c].left > buckets[c].left + Window]_vars

\* No refusal without a reason: a request is refused only if as many as are allowed were
\* admitted that had arrived at most a window and a wait for the lock before it, however
\* many refused requests were counted in between.
RefusalsAreDeserved ==
  [][\A c \in Clients, h \in Handlers :
       Decide(h) /\ waiting[h].ip = c /\ since' = since
         => since[c][waiting[h].age + Window + MaxAge] >= Reqs]_vars

\* Being refused never prolongs the refusal: a client that keeps asking, however fast,
\* is admitted again and again.
ClientIsServed ==
  \A c \in Clients : []<>(since[c][Window + 2 * MaxAge] > 0)
=============================================================================
