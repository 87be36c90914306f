--------------------------- MODULE HomeCacheProofs ---------------------------
(***************************************************************************)
(* Theorems about HomeCache, for any number of lists and requests, any     *)
(* timeout and any life of an entry.                                       *)
(***************************************************************************)
EXTENDS HomeCache, SequenceTheorems, TLAPS

\* A change and a tick keep the copies of the lists.
LEMMA AgedLists ==
  ASSUME NEW lists \in Seq(Outdated), NEW s
  PROVE  /\ AfterChange(lists, s) \in Seq(Outdated)
         /\ AfterTick(lists) \in Seq(Outdated)
<1> USE HomeAssumption DEF Outdated, Current, AgeCap
<1>1. DOMAIN lists = 1..Len(lists) /\ Len(lists) \in Nat
  OBVIOUS
<1>2. \A i \in 1..Len(lists) : lists[i] \in Outdated
  OBVIOUS
<1>3. AfterChange(lists, s) \in [1..Len(lists) -> Outdated]
  BY <1>1, <1>2 DEF AfterChange
<1>4. AfterTick(lists) \in [1..Len(lists) -> Outdated]
  BY <1>1, <1>2 DEF AfterTick
<1>5. \A f \in [1..Len(lists) -> Outdated] : f \in Seq(Outdated)
  BY <1>1, IsASeq
<1> QED BY <1>3, <1>4, <1>5

\* Every step preserves the types.
LEMMA TypeStep == TypeOK /\ [Next]_vars => TypeOK'
<1> USE HomeAssumption
<1> SUFFICES ASSUME TypeOK, [Next]_vars PROVE TypeOK'
  OBVIOUS
<1> USE DEF TypeOK
<1>1. ASSUME NEW h \in Handlers, Miss(h) PROVE TypeOK'
  BY <1>1 DEF Miss
<1>2. ASSUME NEW h \in Handlers, ReadList(h) PROVE TypeOK'
  <2>1. Append(filling[h].lists, Current) \in Seq(Outdated)
    BY DEF Outdated
  <2> QED BY <1>2, <2>1 DEF ReadList
<1>3. ASSUME NEW h \in Handlers, Store(h) PROVE TypeOK'
  BY <1>3 DEF Store, Idle, InTime, Entry
<1>4. ASSUME NEW h \in Handlers, GiveUp(h) PROVE TypeOK'
  BY <1>4 DEF GiveUp, Idle
<1>5. ASSUME NEW s \in 1..Len(Sections), Change(s) PROVE TypeOK'
  BY <1>5, AgedLists DEF Change
<1>6. CASE Evict
  BY <1>6 DEF Evict, NoEntry
<1>7. CASE Tick
  <2>1. cache' \in [ttl: 0..TTL, lists: Seq(Outdated)]
    <3>1. CASE cache.ttl <= 1
      BY <1>7, <3>1 DEF Tick, EntryAfterTick, NoEntry
    <3>2. CASE cache.ttl > 1
      <4>1. cache' = [ttl |-> cache.ttl - 1, lists |-> AfterTick(cache.lists)]
        BY <1>7, <3>2 DEF Tick, EntryAfterTick
      <4>2. cache.ttl - 1 \in 0..TTL
        BY <3>2
      <4> QED BY <4>1, <4>2, AgedLists
    <3> QED BY <3>1, <3>2
  <2>2. ASSUME NEW h \in Handlers
        PROVE  /\ AfterTick(filling[h].lists) \in Seq(Outdated)
               /\ (IF filling[h].age > Timeout THEN filling[h].age
                   ELSE filling[h].age + 1) \in 0..(Timeout + 1)
    <3>1. filling[h].age \in 0..(Timeout + 1) /\ filling[h].lists \in Seq(Outdated)
      OBVIOUS
    <3>2. AfterTick(filling[h].lists) \in Seq(Outdated)
      BY <3>1, AgedLists
    <3> QED BY <3>1, <3>2
  <2> QED BY <1>7, <2>1, <2>2 DEF Tick, Idle
<1>8. CASE UNCHANGED vars
  BY <1>8 DEF vars
<1> QED
  BY <1>1, <1>2, <1>3, <1>4, <1>5, <1>6, <1>7, <1>8 DEF Next

\* The cache and the fills keep their types.
THEOREM HomeTypeCorrect == Spec => []TypeOK
<1>1. Init => TypeOK
  BY HomeAssumption DEF Init, TypeOK, NoEntry, Idle
<1> QED BY <1>1, TypeStep, PTL DEF Spec

(***************************************************************************)
(* A copy is no older than the request that read it, and grows older no    *)
(* faster than the entry it is in runs out.                                *)
(***************************************************************************)
AgeInv ==
  /\ \A i \in DOMAIN cache.lists :
       cache.ttl >= 1 /\ cache.lists[i] + cache.ttl <= Timeout + TTL
  /\ \A h \in Handlers : \A i \in DOMAIN filling[h].lists :
       filling[h].age <= Timeout => filling[h].lists[i] <= filling[h].age

\* Every step preserves AgeInv.
LEMMA AgeStep == TypeOK /\ AgeInv /\ [Next]_vars => AgeInv'
<1> USE HomeAssumption
<1> SUFFICES ASSUME TypeOK, AgeInv, [Next]_vars PROVE AgeInv'
  OBVIOUS
<1> USE DEF TypeOK, AgeInv
<1>0. /\ cache.ttl \in Nat /\ \A i \in DOMAIN cache.lists : cache.lists[i] \in Int
      /\ \A h \in Handlers : /\ filling[h].age \in Nat
                            /\ \A i \in DOMAIN filling[h].lists : filling[h].lists[i] \in Int
  BY DEF Outdated, Current
<1>1. ASSUME NEW h \in Handlers, Miss(h) PROVE AgeInv'
  BY <1>1 DEF Miss
<1>2. ASSUME NEW h \in Handlers, ReadList(h) PROVE AgeInv'
  <2> DEFINE lists == filling[h].lists
  <2>1. /\ cache' = cache /\ filling[h].started
        /\ filling' = [filling EXCEPT ![h].lists = Append(lists, Current)]
    BY <1>2 DEF ReadList
  <2>2. \A i \in DOMAIN Append(lists, Current) :
          \/ Append(lists, Current)[i] = Current
          \/ i \in DOMAIN lists /\ Append(lists, Current)[i] = lists[i]
    <3>1. lists \in Seq(Outdated) /\ Current \in Outdated
      BY DEF Outdated
    <3> HIDE DEF lists, TypeOK, AgeInv
    <3> QED BY <3>1
  <2>3. ASSUME NEW g \in Handlers
        PROVE  \A i \in DOMAIN filling'[g].lists :
                 filling'[g].age <= Timeout => filling'[g].lists[i] <= filling'[g].age
    <3>1. filling'[g].age = filling[g].age
      BY <2>1
    <3>2. CASE g = h
      <4>1. filling'[g].lists = Append(lists, Current)
        BY <2>1, <3>2
      <4> QED BY <1>0, <2>2, <3>1, <3>2, <4>1 DEF Current
    <3>3. CASE g # h
      <4>1. filling'[g] = filling[g]
        BY <2>1, <3>3
      <4> QED BY <4>1
    <3> QED BY <3>2, <3>3
  <2> QED BY <2>1, <2>3
<1>3. ASSUME NEW h \in Handlers, Store(h) PROVE AgeInv'
  <2>1. /\ cache' = Entry(filling[h]) /\ InTime(filling[h])
        /\ filling' = [filling EXCEPT ![h] = Idle]
    BY <1>3 DEF Store
  <2>2. \A i \in DOMAIN cache'.lists :
          cache'.ttl >= 1 /\ cache'.lists[i] + cache'.ttl <= Timeout + TTL
    BY <1>0, <2>1 DEF InTime, Entry
  <2>3. \A g \in Handlers : \A i \in DOMAIN filling'[g].lists :
          filling'[g].age <= Timeout => filling'[g].lists[i] <= filling'[g].age
    BY <2>1 DEF Idle
  <2> QED BY <2>2, <2>3
<1>4. ASSUME NEW h \in Handlers, GiveUp(h) PROVE AgeInv'
  BY <1>4 DEF GiveUp, Idle
<1>5. ASSUME NEW s \in 1..Len(Sections), Change(s) PROVE AgeInv'
  <2>1. cache.ttl <= Timeout + TTL
    BY <1>0
  <2>2. \A i \in DOMAIN cache'.lists :
          cache'.ttl >= 1 /\ cache'.lists[i] + cache'.ttl <= Timeout + TTL
    <3>1. cache'.ttl = cache.ttl /\ cache'.lists = AfterChange(cache.lists, s)
      BY <1>5 DEF Change
    <3> QED BY <1>0, <2>1, <3>1 DEF AfterChange
  <2>3. ASSUME NEW h \in Handlers
        PROVE  \A i \in DOMAIN filling'[h].lists :
                 filling'[h].age <= Timeout => filling'[h].lists[i] <= filling'[h].age
    <3>1. /\ filling'[h].age = filling[h].age
          /\ filling'[h].lists = AfterChange(filling[h].lists, s)
      BY <1>5 DEF Change
    <3> QED BY <1>0, <3>1 DEF AfterChange
  <2> QED BY <2>2, <2>3
<1>6. CASE Evict
  BY <1>6 DEF Evict, NoEntry
<1>7. CASE Tick
  <2>1. \A i \in DOMAIN cache'.lists :
          cache'.ttl >= 1 /\ cache'.lists[i] + cache'.ttl <= Timeout + TTL
    <3>1. CASE cache.ttl <= 1
      BY <1>7, <3>1 DEF Tick, EntryAfterTick, NoEntry
    <3>2. CASE cache.ttl > 1
      <4>1. cache' = [ttl |-> cache.ttl - 1, lists |-> AfterTick(cache.lists)]
        BY <1>7, <3>2, <1>0 DEF Tick, EntryAfterTick
      <4> QED BY <1>0, <3>2, <4>1 DEF AfterTick, Current
    <3> QED BY <1>0, <3>1, <3>2
  <2>2. ASSUME NEW h \in Handlers, NEW i \in DOMAIN filling'[h].lists,
               filling'[h].age <= Timeout
        PROVE  filling'[h].lists[i] <= filling'[h].age
    <3>1. CASE ~filling[h].started
      BY <1>7, <2>2, <3>1 DEF Tick, Idle
    <3>2. CASE filling[h].started
      <4>1. filling'[h] = [started |-> TRUE,
                           age     |-> IF filling[h].age > Timeout THEN filling[h].age
                                       ELSE filling[h].age + 1,
                           lists   |-> AfterTick(filling[h].lists)]
        BY <1>7, <3>2 DEF Tick
      <4>2. filling[h].age <= Timeout /\ filling'[h].age = filling[h].age + 1
        BY <1>0, <2>2, <4>1
      <4> QED BY <1>0, <2>2, <4>1, <4>2 DEF AfterTick, Current
    <3> QED BY <3>1, <3>2
  <2> QED BY <2>1, <2>2
<1>8. CASE UNCHANGED vars
  BY <1>8 DEF vars
<1> QED
  BY <1>1, <1>2, <1>3, <1>4, <1>5, <1>6, <1>7, <1>8 DEF Next

\* No list on the cached page has been out of date for as long as a request may spend
\* before its SET plus the life of an entry.
THEOREM CacheNeverTooOld == Spec => []StalenessBounded
<1>1. Init => AgeInv
  BY DEF Init, AgeInv, NoEntry, Idle
<1>2. TypeOK /\ AgeInv => StalenessBounded
  BY HomeAssumption DEF TypeOK, AgeInv, StalenessBounded, Outdated, Current
<1> QED BY <1>1, <1>2, AgeStep, HomeTypeCorrect, PTL DEF Spec

(***************************************************************************)
(* How long the page needs to settle.                                      *)
(***************************************************************************)
ShowsOld(lists) == \E i \in DOMAIN lists : lists[i] # Current

\* Unless a list changes, no old copy is on the page in n ticks: the entry that shows one
\* is gone by then, and so is what a fill that carries one may still set.
SettledIn(n) ==
  /\ ShowsOld(cache.lists) => cache.ttl <= n
  /\ \A h \in Handlers :
       ShowsOld(filling[h].lists) /\ filling[h].age <= Timeout
         => Timeout - filling[h].age + TTL <= n

\* The safety behind PageSettles: at any time the page is a request's time and an entry's
\* life away from being settled at most; while no list changes, no request, however late,
\* makes it farther away, and each tick brings it nearer; and a page that is settled
\* shows the lists as they are.
SettlesInTime ==
  /\ []SettledIn(Timeout + TTL)
  /\ [][(\A s \in 1..Len(Sections) : ~Change(s)) =>
          \A n \in Nat :
            SettledIn(n + 1) => SettledIn(n + 1)' /\ (Tick => SettledIn(n)')]_vars
  /\ [](SettledIn(0) => \A i \in DOMAIN cache.lists : cache.lists[i] = Current)

\* A list that is read is current.
LEMMA ReadAddsNothingOld ==
  ASSUME NEW lists \in Seq(Outdated), ShowsOld(Append(lists, Current))
  PROVE  ShowsOld(lists)
<1>1. Current \in Outdated
  BY DEF Outdated
<1>2. PICK i \in DOMAIN Append(lists, Current) : Append(lists, Current)[i] # Current
  BY DEF ShowsOld
<1>3. i \in DOMAIN lists /\ Append(lists, Current)[i] = lists[i]
  BY <1>1, <1>2
<1> QED BY <1>2, <1>3 DEF ShowsOld

\* A tick makes no copy old.
LEMMA TickMakesNothingOld ==
  ASSUME NEW lists, ShowsOld(AfterTick(lists))
  PROVE  ShowsOld(lists)
BY DEF ShowsOld, AfterTick

\* A tick brings the page nearer to being settled.
LEMMA TickSettles ==
  ASSUME TypeOK, AgeInv, Tick, NEW n \in Nat, SettledIn(n + 1)
  PROVE  SettledIn(n)'
<1> USE HomeAssumption
<1>0. cache.ttl \in Nat /\ \A h \in Handlers : filling[h].age \in Nat
  BY DEF TypeOK
<1>1. ASSUME ShowsOld(cache'.lists)
      PROVE  cache'.ttl <= n
  <2>1. CASE cache.ttl <= 1
    <3>1. cache'.lists = <<>>
      BY <2>1 DEF Tick, EntryAfterTick, NoEntry
    <3> QED BY <1>1, <3>1 DEF ShowsOld
  <2>2. CASE cache.ttl > 1
    <3>1. cache' = [ttl |-> cache.ttl - 1, lists |-> AfterTick(cache.lists)]
      BY <1>0, <2>2 DEF Tick, EntryAfterTick
    <3>2. ShowsOld(cache.lists)
      BY <1>1, <3>1, TickMakesNothingOld
    <3>3. cache.ttl <= n + 1
      BY <3>2 DEF SettledIn
    <3> QED BY <1>0, <3>1, <3>3
  <2> QED BY <1>0, <2>1, <2>2
<1>2. ASSUME NEW h \in Handlers, ShowsOld(filling'[h].lists), filling'[h].age <= Timeout
      PROVE  Timeout - filling'[h].age + TTL <= n
  <2>1. CASE ~filling[h].started
    <3>1. filling'[h].lists = <<>>
      BY <2>1 DEF Tick, Idle
    <3> QED BY <1>2, <3>1 DEF ShowsOld
  <2>2. CASE filling[h].started
    <3>1. filling'[h] = [started |-> TRUE,
                         age     |-> IF filling[h].age > Timeout THEN filling[h].age
                                     ELSE filling[h].age + 1,
                         lists   |-> AfterTick(filling[h].lists)]
      BY <2>2 DEF Tick
    <3>2. filling[h].age <= Timeout /\ filling'[h].age = filling[h].age + 1
      BY <1>0, <1>2, <3>1
    <3>3. ShowsOld(filling[h].lists)
      BY <1>2, <3>1, TickMakesNothingOld
    <3>4. Timeout - filling[h].age + TTL <= n + 1
      BY <3>2, <3>3 DEF SettledIn
    <3> QED BY <1>0, <3>2, <3>4
  <2> QED BY <2>1, <2>2
<1> QED BY <1>1, <1>2 DEF SettledIn

\* No step but a change of a list takes the page away from being settled.
LEMMA NothingUnsettles ==
  ASSUME TypeOK, AgeInv, [Next]_vars, \A s \in 1..Len(Sections) : ~Change(s),
         NEW n \in Nat, SettledIn(n + 1)
  PROVE  SettledIn(n + 1)'
<1> USE HomeAssumption
<1>0. cache.ttl \in Nat /\ \A h \in Handlers : filling[h].age \in Nat
  BY DEF TypeOK
<1>1. ASSUME NEW h \in Handlers, Miss(h) \/ GiveUp(h)
      PROVE  SettledIn(n + 1)'
  <2>1. /\ cache' = cache /\ filling'[h].lists = <<>>
        /\ \A g \in Handlers \ {h} : filling'[g] = filling[g]
    BY <1>1 DEF Miss, GiveUp, Idle, TypeOK
  <2> QED BY <2>1 DEF SettledIn, ShowsOld
<1>2. ASSUME NEW h \in Handlers, ReadList(h)
      PROVE  SettledIn(n + 1)'
  <2>1. /\ cache' = cache
        /\ filling'[h].lists = Append(filling[h].lists, Current)
        /\ filling'[h].age = filling[h].age
        /\ \A g \in Handlers \ {h} : filling'[g] = filling[g]
    BY <1>2 DEF ReadList, TypeOK
  <2>2. ShowsOld(filling'[h].lists) => ShowsOld(filling[h].lists)
    <3>1. filling[h].lists \in Seq(Outdated)
      BY DEF TypeOK
    <3> QED BY <2>1, <3>1, ReadAddsNothingOld
  <2> QED BY <2>1, <2>2 DEF SettledIn
<1>3. ASSUME NEW h \in Handlers, Store(h)
      PROVE  SettledIn(n + 1)'
  <2>1. /\ cache' = [ttl |-> TTL, lists |-> filling[h].lists]
        /\ filling[h].age <= Timeout
        /\ filling'[h].lists = <<>>
        /\ \A g \in Handlers \ {h} : filling'[g] = filling[g]
    BY <1>3 DEF Store, Entry, InTime, Idle, TypeOK
  <2>2. ShowsOld(cache'.lists) => cache'.ttl <= n + 1
    <3>1. ShowsOld(filling[h].lists) => Timeout - filling[h].age + TTL <= n + 1
      BY <2>1 DEF SettledIn
    <3> QED BY <1>0, <2>1, <3>1
  <2> QED BY <2>1, <2>2 DEF SettledIn, ShowsOld
<1>4. CASE Evict
  BY <1>4 DEF Evict, NoEntry, SettledIn, ShowsOld
<1>5. CASE Tick
  <2>1. SettledIn(n)'
    BY <1>5, TickSettles
  <2>2. cache'.ttl \in Nat /\ \A h \in Handlers : filling'[h].age \in Nat
    BY <1>5, TypeStep DEF TypeOK, Next
  <2> QED BY <2>1, <2>2 DEF SettledIn
<1>6. CASE UNCHANGED vars
  BY <1>6 DEF vars, SettledIn
<1> QED BY <1>1, <1>2, <1>3, <1>4, <1>5, <1>6 DEF Next

\* However slow the fills and however many, the page is settled a request's time and an
\* entry's life after the last change of a list.
THEOREM PageSettlesInTime == Spec => SettlesInTime
<1> DEFINE Nearer ==
      (\A s \in 1..Len(Sections) : ~Change(s)) =>
        \A n \in Nat : SettledIn(n + 1) => SettledIn(n + 1)' /\ (Tick => SettledIn(n)')
<1>1. TypeOK /\ AgeInv /\ [Next]_vars => [Nearer]_vars
  BY NothingUnsettles, TickSettles
<1>2. TypeOK => SettledIn(Timeout + TTL)
  BY HomeAssumption DEF TypeOK, SettledIn
<1>3. TypeOK /\ AgeInv => (SettledIn(0) => \A i \in DOMAIN cache.lists : cache.lists[i] = Current)
  BY DEF TypeOK, AgeInv, SettledIn, ShowsOld
<1>4. Init => AgeInv
  BY DEF Init, AgeInv, NoEntry, Idle
<1> QED
  BY <1>1, <1>2, <1>3, <1>4, AgeStep, HomeTypeCorrect, PTL DEF Spec, SettlesInTime
=============================================================================
