---------------------------- MODULE ShelterProofs ----------------------------
(***************************************************************************)
(* Theorems about Shelter, for any owners, organizations, amounts and      *)
(* number of goroutines.                                                   *)
(***************************************************************************)
EXTENDS Shelter, Functions, FiniteSetTheorems, TLAPS

(***************************************************************************)
(* Type correctness.  A donation that is about to be inserted is of more   *)
(* than nothing, so what is kept of it is not negative.                    *)
(***************************************************************************)
DonationsPositive ==
  \A h \in Handlers : inflight[h].op = "donate" => inflight[h].amount > 0

TypeInv == TypeOK /\ DonationsPositive

\* What is kept of an amount, and that it is not less than nothing.
LEMMA CentsType ==
  ASSUME NEW amount \in Int
  PROVE  Cents(amount) \in Int /\ (amount > 0 => Cents(amount) \in Nat)
  BY DEF Cents

\* What each kind of request in flight carries.
LEMMA RequestTypes ==
  ASSUME TypeInv, NEW h \in Handlers
  PROVE  /\ inflight[h].op = "register" =>
              inflight[h].id \in OrgIds /\ inflight[h].owner \in Owners
         /\ inflight[h].op = "publish" => inflight[h].org \in OrgIds
         /\ inflight[h].op = "donate" =>
              /\ inflight[h].org \in OrgIds
              /\ inflight[h].amount \in Nat /\ Cents(inflight[h].amount) \in Nat
         /\ inflight[h].op = "use" =>
              /\ inflight[h].org \in OrgIds /\ inflight[h].donation \in DonationIds
              /\ Cents(inflight[h].amount) \in Int
<1>1. /\ inflight[h].op = "register" =>
              inflight[h].id \in OrgIds /\ inflight[h].owner \in Owners
      /\ inflight[h].op = "publish" => inflight[h].org \in OrgIds
      /\ inflight[h].op = "donate" =>
           inflight[h].org \in OrgIds /\ inflight[h].amount \in Amounts
      /\ inflight[h].op = "use" =>
           /\ inflight[h].org \in OrgIds /\ inflight[h].donation \in DonationIds
           /\ inflight[h].amount \in Amounts
  BY DEF TypeInv, TypeOK, Requests, Idle
<1>2. inflight[h].op = "donate" => inflight[h].amount > 0
  BY DEF TypeInv, DonationsPositive
<1>3. inflight[h].op \in {"donate", "use"} => Cents(inflight[h].amount) \in Int
  BY <1>1, CentsType, ShelterAssumption
<1>4. inflight[h].op = "donate" =>
        inflight[h].amount \in Nat /\ Cents(inflight[h].amount) \in Nat
  <2> SUFFICES ASSUME inflight[h].op = "donate"
               PROVE  inflight[h].amount \in Nat /\ Cents(inflight[h].amount) \in Nat
    OBVIOUS
  <2>1. inflight[h].amount \in Int /\ inflight[h].amount > 0
    BY <1>1, <1>2, ShelterAssumption
  <2> QED BY <2>1, CentsType
<1> QED BY <1>1, <1>3, <1>4

\* Every step of the program preserves TypeInv.
LEMMA TypeInvStep == TypeInv /\ [Next]_vars => TypeInv'
<1> USE ShelterAssumption
<1> SUFFICES ASSUME TypeInv, [Next]_vars PROVE TypeInv'
  OBVIOUS
<1> USE DEF TypeInv, TypeOK, DonationsPositive, Requests, Idle, tables
<1>1. ASSUME NEW h \in Handlers, NEW u \in Owners, RegisterInsert(h, u)
      PROVE  TypeInv'
  <2>1. NextId \in OrgIds /\ lastId' \in 0..MaxOrg
    BY <1>1 DEF RegisterInsert, NextId, OrgIds
  <2> QED BY <1>1, <2>1 DEF RegisterInsert, Begin
<1>2. ASSUME NEW h \in Handlers, RegisterCommit(h)
      PROVE  TypeInv'
  <2>1. [owner |-> inflight[h].owner, status |-> "pending"] \in Organizations
    BY <1>2, RequestTypes DEF RegisterCommit, Organizations, OrgStatuses
  <2>2. orgs' \in [OrgIds -> Organizations \cup {NoRow}]
    BY <1>2, <2>1 DEF RegisterCommit
  <2> QED BY <1>2, <2>2 DEF RegisterCommit, End
<1>3. ASSUME NEW o \in OrgIds, NEW status \in OrgStatuses, Review(o, status)
      PROVE  TypeInv'
  <2>1. [orgs[o] EXCEPT !.status = status] \in Organizations
    <3>1. orgs[o] \in Organizations
      BY <1>3 DEF Review, Live
    <3> QED BY <3>1 DEF Organizations
  <2>2. orgs' \in [OrgIds -> Organizations \cup {NoRow}]
    BY <1>3, <2>1 DEF Review
  <2>3. late' \in [OrgIds -> Nat]
    BY <1>3 DEF Review
  <2> QED BY <1>3, <2>2, <2>3 DEF Review
<1>4. ASSUME NEW h \in Handlers, NEW u \in Owners, PublishCheck(h, u)
      PROVE  TypeInv'
  <2>1. FindByUserID(u) \in OrgIds
    BY <1>4 DEF PublishCheck, Approved, Live
  <2> QED BY <1>4, <2>1 DEF PublishCheck, Begin
<1>5. ASSUME NEW h \in Handlers, NEW p \in PetIds, PublishInsert(h, p)
      PROVE  TypeInv'
  <2>1. inflight[h].org \in OrgIds
    BY <1>5, RequestTypes DEF PublishInsert
  <2>2. late' \in [OrgIds -> Nat]
    BY <1>5, <2>1 DEF PublishInsert, Added
  <2> QED BY <1>5, <2>1, <2>2 DEF PublishInsert, End
<1>6. ASSUME NEW h \in Handlers, NEW o \in OrgIds, NEW amount \in Amounts,
             DonateCheck(h, o, amount)
      PROVE  TypeInv'
  BY <1>6 DEF DonateCheck, Begin
<1>7. ASSUME NEW h \in Handlers, NEW d \in DonationIds, DonateInsert(h, d)
      PROVE  TypeInv'
  <2>1. /\ inflight[h].org \in OrgIds
        /\ inflight[h].amount \in Nat /\ Cents(inflight[h].amount) \in Nat
    BY <1>7, RequestTypes DEF DonateInsert
  <2>2. [org |-> inflight[h].org, cents |-> Cents(inflight[h].amount)] \in Donations
    BY <2>1 DEF Donations
  <2>3. late' \in [OrgIds -> Nat]
    BY <1>7, <2>1 DEF DonateInsert, Added
  <2>4. given' \in [OrgIds -> Nat]
    BY <1>7, <2>1 DEF DonateInsert
  <2>5. donations' \in [DonationIds -> Donations \cup {NoRow}]
    BY <1>7, <2>2 DEF DonateInsert
  <2> QED BY <1>7, <2>3, <2>4, <2>5 DEF DonateInsert, End
<1>8. ASSUME NEW h \in Handlers, NEW u \in Owners, NEW d \in DonationIds,
             NEW amount \in Amounts, UsageCheck(h, u, d, amount)
      PROVE  TypeInv'
  <2>1. donations[d].org \in OrgIds
    BY <1>8 DEF UsageCheck, Donations
  <2> QED BY <1>8, <2>1 DEF UsageCheck, Begin
<1>9. ASSUME NEW h \in Handlers, NEW x \in UsageIds, UsageInsert(h, x)
      PROVE  TypeInv'
  <2>1. [org |-> inflight[h].org, donation |-> inflight[h].donation,
         cents |-> Cents(inflight[h].amount)] \in Usages
    BY <1>9, RequestTypes DEF UsageInsert, Usages
  <2> QED BY <1>9, <2>1 DEF UsageInsert, End
<1>10. ASSUME NEW h \in Handlers, Fail(h)
       PROVE  TypeInv'
  BY <1>10 DEF Fail, End
<1>11. CASE Crash
  BY <1>11 DEF Crash
<1>12. CASE UNCHANGED vars
  BY <1>12 DEF vars
<1> QED
  BY <1>1, <1>2, <1>3, <1>4, <1>5, <1>6, <1>7, <1>8, <1>9, <1>10, <1>11, <1>12
     DEF Next, OrgRequest, Finish

\* The types, with what they rest on.
LEMMA TypeInvariant == Spec => []TypeInv
<1>1. Init => TypeInv
  <2> SUFFICES ASSUME Init PROVE TypeInv
    OBVIOUS
  <2> USE ShelterAssumption
  <2>1. lastId \in 0..MaxOrg
    BY DEF Init
  <2>2. \A o \in 1..Len(SeedOwners) :
          [owner |-> SeedOwners[o], status |-> "approved"] \in Organizations
    BY DEF Organizations, OrgStatuses
  <2>3. orgs \in [OrgIds -> Organizations \cup {NoRow}]
    BY <2>2 DEF Init, OrgIds
  <2> QED BY <2>1, <2>3
             DEF Init, TypeInv, TypeOK, DonationsPositive, Requests, Idle
<1> QED
  BY <1>1, TypeInvStep, PTL DEF Spec

\* Every variable keeps its type.
THEOREM ShelterTypeCorrect == Spec => []TypeOK
<1>1. TypeInv => TypeOK
  BY DEF TypeInv
<1> QED
  BY <1>1, TypeInvariant, PTL

(***************************************************************************)
(* A revocation takes hold.  While an organization is approved nothing is  *)
(* late; once it is not, nobody passes the check any more, and a request   *)
(* that had passed it makes one row late when it leaves PastCheck.         *)
(***************************************************************************)
LateBounded(o) ==
  /\ late[o] + Cardinality(PastCheck(o)) <= Cardinality(Handlers)
  /\ Approved(o) => late[o] = 0

LateInv == \A o \in OrgIds : LateBounded(o)

\* The goroutines are finitely many, and so are those of them that S picks.
LEMMA HandlersCount ==
  ASSUME NEW S \in SUBSET Handlers
  PROVE  /\ IsFiniteSet(S) /\ Cardinality(S) \in Nat
         /\ Cardinality(Handlers) \in Nat /\ Cardinality(S) <= Cardinality(Handlers)
  BY ShelterAssumption, FS_Subset, FS_CardinalityType

\* A step that lets nobody pass the check of an organization and makes nothing late.
LEMMA LateKept ==
  ASSUME TypeInv, NEW o \in OrgIds, LateBounded(o),
         late'[o] = late[o] \/ late'[o] = 0, PastCheck(o)' \subseteq PastCheck(o),
         Approved(o)' => Approved(o) \/ late'[o] = 0
  PROVE  LateBounded(o)'
<1>1. PastCheck(o) \in SUBSET Handlers /\ PastCheck(o)' \in SUBSET Handlers
  BY DEF PastCheck
<1>2. Cardinality(PastCheck(o)') <= Cardinality(PastCheck(o))
  BY <1>1, HandlersCount, FS_Subset
<1>3. /\ Cardinality(PastCheck(o)') \in Nat /\ Cardinality(PastCheck(o)) \in Nat
      /\ Cardinality(Handlers) \in Nat /\ late[o] \in Nat
  BY <1>1, HandlersCount DEF TypeInv, TypeOK
<1> QED BY <1>2, <1>3 DEF LateBounded

\* A request that passes the check of an approved organization.
LEMMA LateChecked ==
  ASSUME TypeInv, NEW o \in OrgIds, LateBounded(o), Approved(o), late' = late, orgs' = orgs
  PROVE  LateBounded(o)'
<1>1. PastCheck(o)' \in SUBSET Handlers
  BY DEF PastCheck
<1> QED BY <1>1, HandlersCount DEF LateBounded, Approved, Live

\* A request that adds a row to the organization it had checked.
LEMMA LateAdded ==
  ASSUME TypeInv, LateInv, NEW h \in Handlers, inflight[h].op \in {"publish", "donate"},
         Added(inflight[h].org), End(h), orgs' = orgs, NEW o \in OrgIds
  PROVE  LateBounded(o)'
<1> DEFINE org == inflight[h].org
<1>1. org \in OrgIds
  BY RequestTypes
<1>2. \A g \in Handlers : inflight'[g] = IF g = h THEN Idle ELSE inflight[g]
  BY DEF End, TypeInv, TypeOK
<1>3. PastCheck(o)' = PastCheck(o) \ {h}
  BY <1>2 DEF PastCheck, Idle
<1>4. LateBounded(o)
  BY DEF LateInv
<1>5. Approved(o)' = Approved(o)
  BY DEF Approved, Live
<1>6. CASE late'[o] = late[o]
  BY <1>3, <1>4, <1>5, <1>6, LateKept
<1>7. CASE late'[o] # late[o]
  <2>1. o = org /\ late'[o] = late[o] + 1 /\ ~Approved(o)
    BY <1>1, <1>7 DEF Added, Approved, TypeInv, TypeOK
  <2>2. h \in PastCheck(o) /\ PastCheck(o) \in SUBSET Handlers
    BY <2>1 DEF PastCheck
  <2>3. Cardinality(PastCheck(o)') = Cardinality(PastCheck(o)) - 1
    BY <1>3, <2>2, HandlersCount, FS_RemoveElement
  <2>4. Cardinality(PastCheck(o)) \in Nat /\ late[o] \in Nat
    BY <2>2, HandlersCount DEF TypeInv, TypeOK
  <2>5. Cardinality(Handlers) \in Nat
    BY <2>2, HandlersCount
  <2> QED BY <1>4, <1>5, <2>1, <2>3, <2>4, <2>5 DEF LateBounded
<1> QED BY <1>6, <1>7

\* Every step of the program preserves LateInv.
LEMMA LateInvStep == TypeInv /\ LateInv /\ [Next]_vars => LateInv'
<1> SUFFICES ASSUME TypeInv, LateInv, [Next]_vars, NEW q \in OrgIds PROVE LateBounded(q)'
  BY DEF LateInv
<1>0. LateBounded(q)
  BY DEF LateInv
<1> USE DEF tables
\* The goroutines that have passed the check did so before, and nothing else changes.
<1>s. ASSUME orgs' = orgs, late' = late, PastCheck(q)' \subseteq PastCheck(q)
      PROVE  LateBounded(q)'
  BY <1>0, <1>s, LateKept DEF Approved, Live
\* A goroutine begins or ends a request that does not concern q.
<1>i. ASSUME NEW h \in Handlers, NEW r, inflight' = [inflight EXCEPT ![h] = r],
             r.op \notin {"publish", "donate"}
      PROVE  PastCheck(q)' \subseteq PastCheck(q)
  BY <1>i DEF PastCheck, TypeInv, TypeOK
<1>1. ASSUME NEW h \in Handlers, NEW u \in Owners, RegisterInsert(h, u)
      PROVE  LateBounded(q)'
  BY <1>1, <1>s, <1>i DEF RegisterInsert, Begin
<1>2. ASSUME NEW h \in Handlers, RegisterCommit(h)
      PROVE  LateBounded(q)'
  <2>1. PastCheck(q)' \subseteq PastCheck(q)
    BY <1>2, <1>i DEF RegisterCommit, End, Idle
  <2>2. Approved(q)' => Approved(q)
    BY <1>2 DEF RegisterCommit, Approved, Live, TypeInv, TypeOK
  <2> QED BY <1>0, <1>2, <2>1, <2>2, LateKept DEF RegisterCommit
<1>3. ASSUME NEW o \in OrgIds, NEW status \in OrgStatuses, Review(o, status)
      PROVE  LateBounded(q)'
  <2>1. PastCheck(q)' = PastCheck(q)
    BY <1>3 DEF Review, PastCheck
  <2>2. late'[q] = late[q] \/ late'[q] = 0
    BY <1>3 DEF Review, TypeInv, TypeOK
  <2>3. CASE q # o
    <3>1. Approved(q)' => Approved(q)
      BY <1>3, <2>3 DEF Review, Approved, Live, TypeInv, TypeOK
    <3> QED BY <1>0, <2>1, <2>2, <3>1, LateKept
  <2>4. CASE q = o /\ status = "approved"
    <3>1. late'[q] = 0
      BY <1>3, <2>4 DEF Review, TypeInv, TypeOK
    <3> QED BY <1>0, <2>1, <3>1, LateKept
  <2>5. CASE q = o /\ status # "approved"
    <3>1. orgs[q] \in Organizations /\ orgs' = [orgs EXCEPT ![q].status = status]
      BY <1>3, <2>5 DEF Review, Live, TypeInv, TypeOK
    <3>2. orgs'[q].status = status
      BY <3>1 DEF Organizations, TypeInv, TypeOK
    <3>3. ~Approved(q)'
      BY <2>5, <3>2 DEF Approved
    <3> QED BY <1>0, <2>1, <2>2, <3>3, LateKept
  <2> QED BY <2>3, <2>4, <2>5
<1>4. ASSUME NEW h \in Handlers, NEW u \in Owners, PublishCheck(h, u)
      PROVE  LateBounded(q)'
  <2>1. CASE q = FindByUserID(u)
    BY <1>0, <1>4, <2>1, LateChecked DEF PublishCheck
  <2>2. CASE q # FindByUserID(u)
    <3>1. PastCheck(q)' \subseteq PastCheck(q)
      BY <1>4, <2>2 DEF PublishCheck, Begin, PastCheck, TypeInv, TypeOK
    <3> QED BY <1>4, <1>s, <3>1 DEF PublishCheck
  <2> QED BY <2>1, <2>2
<1>5. ASSUME NEW h \in Handlers, NEW p \in PetIds, PublishInsert(h, p)
      PROVE  LateBounded(q)'
  BY <1>5, LateAdded DEF PublishInsert
<1>6. ASSUME NEW h \in Handlers, NEW o \in OrgIds, NEW amount \in Amounts,
             DonateCheck(h, o, amount)
      PROVE  LateBounded(q)'
  <2>1. CASE q = o
    BY <1>0, <1>6, <2>1, LateChecked DEF DonateCheck
  <2>2. CASE q # o
    <3>1. PastCheck(q)' \subseteq PastCheck(q)
      BY <1>6, <2>2 DEF DonateCheck, Begin, PastCheck, TypeInv, TypeOK
    <3> QED BY <1>6, <1>s, <3>1 DEF DonateCheck
  <2> QED BY <2>1, <2>2
<1>7. ASSUME NEW h \in Handlers, NEW d \in DonationIds, DonateInsert(h, d)
      PROVE  LateBounded(q)'
  BY <1>7, LateAdded DEF DonateInsert
<1>8. ASSUME NEW h \in Handlers, NEW u \in Owners, NEW d \in DonationIds,
             NEW amount \in Amounts, UsageCheck(h, u, d, amount)
      PROVE  LateBounded(q)'
  BY <1>8, <1>s, <1>i DEF UsageCheck, Begin
<1>9. ASSUME NEW h \in Handlers, NEW x \in UsageIds, UsageInsert(h, x)
      PROVE  LateBounded(q)'
  BY <1>9, <1>s, <1>i DEF UsageInsert, End, Idle
<1>10. ASSUME NEW h \in Handlers, Fail(h)
       PROVE  LateBounded(q)'
  BY <1>10, <1>s, <1>i DEF Fail, End, Idle
<1>11. CASE Crash
  BY <1>11, <1>s DEF Crash, PastCheck, Idle
<1>12. CASE UNCHANGED vars
  BY <1>12, <1>s DEF vars, PastCheck
<1> QED
  BY <1>1, <1>2, <1>3, <1>4, <1>5, <1>6, <1>7, <1>8, <1>9, <1>10, <1>11, <1>12
     DEF Next, OrgRequest, Finish

\* Once an organization has lost its approval, it gets no more pets and donations than
\* there were goroutines, however often it asks and however requests overlap.
THEOREM RevocationHolds == Spec => []RevocationTakesHold
<1>1. Init => LateInv
  <2> SUFFICES ASSUME Init, NEW o \in OrgIds PROVE LateBounded(o)
    BY DEF LateInv
  <2>1. PastCheck(o) = {} /\ late[o] = 0
    BY DEF Init, PastCheck, Idle
  <2>2. Cardinality(PastCheck(o)) <= Cardinality(Handlers) /\ Cardinality(PastCheck(o)) \in Nat
    BY <2>1, HandlersCount
  <2> QED BY <2>1, <2>2 DEF LateBounded
<1>2. LateInv => RevocationTakesHold
  BY DEF LateInv, LateBounded, RevocationTakesHold, Live
<1> QED
  BY <1>1, <1>2, TypeInvariant, LateInvStep, PTL DEF Spec

(***************************************************************************)
(* The organization a user manages.                                        *)
(***************************************************************************)
\* A set of ids that is not empty has a smallest one.
LEMMA MinOfIds ==
  ASSUME NEW S \in SUBSET OrgIds, S # {}
  PROVE  Min(S) \in S /\ \A o \in S : Min(S) <= o
<1> DEFINE R == OpToRel(<, Nat)
<1>1. S \subseteq Nat
  BY ShelterAssumption DEF OrgIds
<1>2. IsWellFoundedOn(R, Nat)
  BY NatLessThanWellFounded, Zenon
<1>3. \A x, y \in Nat : x < y => <<x, y>> \in R
  BY DEF OpToRel
<1> HIDE DEF R
<1>4. PICK m \in S : \A o \in S : ~ (<<o, m>> \in R)
  BY <1>1, <1>2, WFMin
<1>5. ASSUME NEW o \in S
      PROVE  m <= o
  <2>1. o \in Nat /\ m \in Nat /\ ~ (<<o, m>> \in R)
    BY <1>1, <1>4
  <2>2. ~ (o < m)
    BY <1>3, <2>1
  <2> QED BY <2>1, <2>2
<1> QED BY <1>5 DEF Min

\* The registrations under way have ids of their own, which no organization has, and
\* the sequence has handed out every id there is.
IdsInv ==
  /\ \A o \in Live : o <= lastId
  /\ \A h \in Handlers : inflight[h].op = "register" =>
       inflight[h].id <= lastId /\ orgs[inflight[h].id] = NoRow
  /\ \A g, h \in Handlers :
       inflight[g].op = "register" /\ inflight[h].op = "register" /\ g # h
         => inflight[g].id # inflight[h].id

\* Every step of the program preserves IdsInv.
LEMMA IdsInvStep == TypeInv /\ IdsInv /\ [Next]_vars => IdsInv'
<1> SUFFICES ASSUME TypeInv, IdsInv, [Next]_vars PROVE IdsInv'
  OBVIOUS
<1> USE DEF tables
\* No organization appears and no registration begins.
<1>s. ASSUME Live' = Live, lastId' = lastId,
             \A g \in Handlers : inflight'[g].op = "register" => inflight'[g] = inflight[g]
      PROVE  IdsInv'
  <2>1. \A o \in OrgIds : orgs'[o] = NoRow <=> orgs[o] = NoRow
    BY <1>s DEF Live
  <2> QED BY <1>s, <2>1, RequestTypes DEF IdsInv
<1>i. ASSUME NEW h \in Handlers, NEW r, inflight' = [inflight EXCEPT ![h] = r],
             r.op # "register"
      PROVE  \A g \in Handlers : inflight'[g].op = "register" => inflight'[g] = inflight[g]
  BY <1>i DEF TypeInv, TypeOK
<1>1. ASSUME NEW h \in Handlers, NEW u \in Owners, RegisterInsert(h, u)
      PROVE  IdsInv'
  <2>1. /\ inflight'[h].id = lastId + 1
        /\ \A g \in Handlers \ {h} : inflight'[g] = inflight[g]
        /\ lastId' = lastId + 1 /\ orgs' = orgs /\ Live' = Live
        /\ lastId \in Nat /\ lastId + 1 \in OrgIds
    BY <1>1, ShelterAssumption
       DEF RegisterInsert, Begin, NextId, Live, TypeInv, TypeOK, OrgIds
  <2>2. orgs[lastId + 1] = NoRow
    BY <2>1 DEF IdsInv, Live
  <2>3. \A g \in Handlers : inflight[g].op = "register" => inflight[g].id \in Nat
    BY RequestTypes, ShelterAssumption DEF OrgIds
  <2>4. \A o \in Live : o \in Nat
    BY ShelterAssumption DEF Live, OrgIds
  <2> QED BY <2>1, <2>2, <2>3, <2>4 DEF IdsInv
<1>2. ASSUME NEW h \in Handlers, RegisterCommit(h)
      PROVE  IdsInv'
  <2> DEFINE id == inflight[h].id
  <2>1. inflight[h].op = "register" /\ id \in OrgIds
    BY <1>2, RequestTypes DEF RegisterCommit
  <2>2. /\ \A o \in OrgIds \ {id} : orgs'[o] = orgs[o]
        /\ inflight'[h] = Idle /\ \A g \in Handlers \ {h} : inflight'[g] = inflight[g]
        /\ lastId' = lastId
    BY <1>2, <2>1 DEF RegisterCommit, End, TypeInv, TypeOK
  <2>3. Live' \subseteq Live \cup {id}
    BY <2>2 DEF Live
  <2>4. \A g \in Handlers : inflight'[g].op = "register" =>
          g # h /\ inflight'[g] = inflight[g] /\ inflight[g].id \in OrgIds \ {id}
    BY <2>1, <2>2, RequestTypes DEF IdsInv, Idle
  <2> QED BY <2>1, <2>2, <2>3, <2>4 DEF IdsInv
<1>3. ASSUME NEW o \in OrgIds, NEW status \in OrgStatuses, Review(o, status)
      PROVE  IdsInv'
  <2>1. orgs[o] \in Organizations /\ orgs[o] # NoRow
    BY <1>3 DEF Review, Live, TypeInv, TypeOK
  <2>2. [orgs[o] EXCEPT !.status = status] \in Organizations
    BY <2>1 DEF Organizations
  <2>3. Live' = Live
    BY <1>3, <2>1, <2>2, ShelterAssumption DEF Review, Live, TypeInv, TypeOK
  <2> QED BY <1>3, <1>s, <2>3 DEF Review
<1>4. ASSUME NEW h \in Handlers, NEW u \in Owners, PublishCheck(h, u)
      PROVE  IdsInv'
  BY <1>4, <1>s, <1>i DEF PublishCheck, Begin, Live
<1>5. ASSUME NEW h \in Handlers, NEW p \in PetIds, PublishInsert(h, p)
      PROVE  IdsInv'
  BY <1>5, <1>s, <1>i DEF PublishInsert, End, Idle, Live
<1>6. ASSUME NEW h \in Handlers, NEW o \in OrgIds, NEW amount \in Amounts,
             DonateCheck(h, o, amount)
      PROVE  IdsInv'
  BY <1>6, <1>s, <1>i DEF DonateCheck, Begin, Live
<1>7. ASSUME NEW h \in Handlers, NEW d \in DonationIds, DonateInsert(h, d)
      PROVE  IdsInv'
  BY <1>7, <1>s, <1>i DEF DonateInsert, End, Idle, Live
<1>8. ASSUME NEW h \in Handlers, NEW u \in Owners, NEW d \in DonationIds,
             NEW amount \in Amounts, UsageCheck(h, u, d, amount)
      PROVE  IdsInv'
  BY <1>8, <1>s, <1>i DEF UsageCheck, Begin, Live
<1>9. ASSUME NEW h \in Handlers, NEW x \in UsageIds, UsageInsert(h, x)
      PROVE  IdsInv'
  BY <1>9, <1>s, <1>i DEF UsageInsert, End, Idle, Live
<1>10. ASSUME NEW h \in Handlers, Fail(h)
       PROVE  IdsInv'
  BY <1>10, <1>s, <1>i DEF Fail, End, Idle, Live
<1>11. CASE Crash
  BY <1>11, <1>s DEF Crash, Idle, Live
<1>12. CASE UNCHANGED vars
  BY <1>12, <1>s DEF vars, Live
<1> QED
  BY <1>1, <1>2, <1>3, <1>4, <1>5, <1>6, <1>7, <1>8, <1>9, <1>10, <1>11, <1>12
     DEF Next, OrgRequest, Finish

\* An id is given to one row: two registrations under way have different ones.
LEMMA IdsInvariant == Spec => []IdsInv
<1>1. Init => IdsInv
  BY DEF Init, IdsInv, Live, Idle
<1> QED
  BY <1>1, TypeInvariant, IdsInvStep, PTL DEF Spec

Settled(u) ==
  FindByUserID(u) # NoRow =>
    /\ FindByUserID(u)' \in {FindByUserID(u)} \cup Earlier(u)
    /\ Earlier(u)' \subseteq Earlier(u)

\* What a user manages can only change to an organization that is registered by now,
\* and a registration that begins has a greater id than all there are.
LEMMA SettledBy ==
  ASSUME TypeInv, IdsInv, NEW u \in Owners, Owned(u) \subseteq Owned(u)',
         \A o \in Owned(u)' \ Owned(u) : \E h \in Handlers :
           inflight[h].op = "register" /\ inflight[h].owner = u /\ inflight[h].id = o,
         \A h \in Handlers : inflight'[h].op = "register" =>
           inflight'[h] = inflight[h] \/ inflight'[h].id = lastId + 1
  PROVE  Settled(u)
<1> DEFINE m == Min(Owned(u))
           n == Min(Owned(u)')
<1> SUFFICES ASSUME FindByUserID(u) # NoRow
             PROVE  /\ FindByUserID(u)' \in {FindByUserID(u)} \cup Earlier(u)
                    /\ Earlier(u)' \subseteq Earlier(u)
  BY DEF Settled
<1>1. /\ Owned(u) # {} /\ FindByUserID(u) = m
      /\ Owned(u)' # {} /\ FindByUserID(u)' = n
  BY DEF FindByUserID
<1>2. /\ Owned(u) \in SUBSET OrgIds /\ Owned(u) \in SUBSET Live
      /\ Owned(u)' \in SUBSET OrgIds
  BY DEF Owned, Live
<1>3. m \in Owned(u) /\ \A o \in Owned(u) : m <= o
  BY <1>1, <1>2, MinOfIds
<1>4. n \in Owned(u)' /\ \A o \in Owned(u)' : n <= o
  BY <1>1, <1>2, MinOfIds
<1>5. m \in Nat /\ n \in Nat /\ n <= m /\ m <= lastId /\ lastId \in Nat
  BY <1>2, <1>3, <1>4, ShelterAssumption DEF IdsInv, OrgIds, TypeInv, TypeOK
<1> HIDE DEF m, n
<1>6. n \in {m} \cup Earlier(u)
  <2>1. CASE n \in Owned(u)
    BY <1>3, <1>5, <2>1
  <2>2. CASE n \notin Owned(u)
    <3>1. n # m
      BY <1>3, <2>2
    <3>2. PICK h \in Handlers :
            inflight[h].op = "register" /\ inflight[h].owner = u /\ inflight[h].id = n
      BY <1>4, <2>2
    <3> QED BY <1>1, <1>5, <3>1, <3>2 DEF Earlier
  <2> QED BY <2>1, <2>2
<1>7. Earlier(u)' \subseteq Earlier(u)
  <2> SUFFICES ASSUME NEW h \in Handlers, inflight'[h].op = "register",
                      inflight'[h].owner = u, inflight'[h].id < n
               PROVE  inflight'[h].id \in Earlier(u)
    BY <1>1 DEF Earlier
  <2>1. inflight'[h].id # lastId + 1
    BY <1>5
  <2>2. inflight'[h] = inflight[h]
    BY <2>1
  <2>3. inflight[h].id \in Nat
    BY <2>2, RequestTypes, ShelterAssumption DEF OrgIds
  <2> QED BY <1>1, <1>5, <2>2, <2>3 DEF Earlier
<1> QED BY <1>1, <1>6, <1>7

\* Every step of the program leaves what a user manages settled.
LEMMA SettledStep ==
  ASSUME TypeInv, IdsInv, [Next]_vars, NEW u \in Owners
  PROVE  Settled(u)
<1> USE DEF tables
<1>s. ASSUME Owned(u)' = Owned(u),
             \A g \in Handlers : inflight'[g].op = "register" => inflight'[g] = inflight[g]
      PROVE  Settled(u)
  BY <1>s, SettledBy
<1>i. ASSUME NEW h \in Handlers, NEW r, inflight' = [inflight EXCEPT ![h] = r],
             r.op # "register"
      PROVE  \A g \in Handlers : inflight'[g].op = "register" => inflight'[g] = inflight[g]
  BY <1>i DEF TypeInv, TypeOK
<1>o. ASSUME orgs' = orgs PROVE Owned(u)' = Owned(u)
  BY <1>o DEF Owned, Live
<1>1. ASSUME NEW h \in Handlers, NEW v \in Owners, RegisterInsert(h, v)
      PROVE  Settled(u)
  <2>1. \A g \in Handlers : inflight'[g].op = "register" =>
          inflight'[g] = inflight[g] \/ inflight'[g].id = lastId + 1
    BY <1>1 DEF RegisterInsert, Begin, NextId, TypeInv, TypeOK
  <2> QED BY <1>1, <1>o, <2>1, SettledBy DEF RegisterInsert
<1>2. ASSUME NEW h \in Handlers, RegisterCommit(h)
      PROVE  Settled(u)
  <2> DEFINE id == inflight[h].id
             row == [owner |-> inflight[h].owner, status |-> "pending"]
  <2>1. inflight[h].op = "register" /\ id \in OrgIds /\ orgs[id] = NoRow
    BY <1>2, RequestTypes DEF RegisterCommit, IdsInv
  <2>2. \A o \in OrgIds : orgs'[o] = IF o = id THEN row ELSE orgs[o]
    BY <1>2, <2>1 DEF RegisterCommit, TypeInv, TypeOK
  <2>3. Owned(u) \subseteq Owned(u)'
    BY <2>1, <2>2 DEF Owned, Live
  <2>4. \A o \in Owned(u)' \ Owned(u) : o = id /\ inflight[h].owner = u
    BY <2>1, <2>2 DEF Owned, Live
  <2>5. \A g \in Handlers : inflight'[g].op = "register" => inflight'[g] = inflight[g]
    BY <1>2, <1>i DEF RegisterCommit, End, Idle
  <2> QED BY <2>1, <2>3, <2>4, <2>5, SettledBy
<1>3. ASSUME NEW o \in OrgIds, NEW status \in OrgStatuses, Review(o, status)
      PROVE  Settled(u)
  <2>1. orgs[o] \in Organizations
    BY <1>3 DEF Review, Live, TypeInv, TypeOK
  <2> DEFINE new == [orgs[o] EXCEPT !.status = status]
  <2>2. new \in Organizations /\ new.owner = orgs[o].owner
    BY <2>1 DEF Organizations
  <2> HIDE DEF new
  <2>3. orgs' = [orgs EXCEPT ![o] = new]
    BY <1>3 DEF Review, new
  <2>4. Owned(u)' = Owned(u)
    BY <1>3, <2>2, <2>3, ShelterAssumption DEF Review, Owned, Live, TypeInv, TypeOK
  <2> QED BY <1>3, <1>s, <2>4 DEF Review
<1>4. ASSUME NEW h \in Handlers, NEW v \in Owners, PublishCheck(h, v)
      PROVE  Settled(u)
  BY <1>4, <1>s, <1>i, <1>o DEF PublishCheck, Begin
<1>5. ASSUME NEW h \in Handlers, NEW p \in PetIds, PublishInsert(h, p)
      PROVE  Settled(u)
  BY <1>5, <1>s, <1>i, <1>o DEF PublishInsert, End, Idle
<1>6. ASSUME NEW h \in Handlers, NEW o \in OrgIds, NEW amount \in Amounts,
             DonateCheck(h, o, amount)
      PROVE  Settled(u)
  BY <1>6, <1>s, <1>i, <1>o DEF DonateCheck, Begin
<1>7. ASSUME NEW h \in Handlers, NEW d \in DonationIds, DonateInsert(h, d)
      PROVE  Settled(u)
  BY <1>7, <1>s, <1>i, <1>o DEF DonateInsert, End, Idle
<1>8. ASSUME NEW h \in Handlers, NEW v \in Owners, NEW d \in DonationIds,
             NEW amount \in Amounts, UsageCheck(h, v, d, amount)
      PROVE  Settled(u)
  BY <1>8, <1>s, <1>i, <1>o DEF UsageCheck, Begin
<1>9. ASSUME NEW h \in Handlers, NEW x \in UsageIds, UsageInsert(h, x)
      PROVE  Settled(u)
  BY <1>9, <1>s, <1>i, <1>o DEF UsageInsert, End, Idle
<1>10. ASSUME NEW h \in Handlers, Fail(h)
       PROVE  Settled(u)
  BY <1>10, <1>s, <1>i, <1>o DEF Fail, End, Idle
<1>11. CASE Crash
  BY <1>11, <1>s, <1>o DEF Crash, Idle
<1>12. CASE UNCHANGED vars
  BY <1>12, <1>s, <1>o DEF vars
<1> QED
  BY <1>1, <1>2, <1>3, <1>4, <1>5, <1>6, <1>7, <1>8, <1>9, <1>10, <1>11, <1>12
     DEF Next, OrgRequest, Finish

\* While a user has an organization, the one that is found for it changes only to one
\* whose registration was under way already, whatever else is registered meanwhile.
THEOREM ManagerSettles == Spec => ManagerIsSettled
<1>1. TypeInv /\ IdsInv /\ [Next]_vars =>
        [\A u \in Owners : FindByUserID(u) # NoRow =>
           /\ FindByUserID(u)' \in {FindByUserID(u)} \cup Earlier(u)
           /\ Earlier(u)' \subseteq Earlier(u)]_vars
  BY SettledStep DEF Settled
<1> QED
  BY <1>1, TypeInvariant, IdsInvariant, PTL DEF Spec, ManagerIsSettled

(***************************************************************************)
(* Sums.  SumFunctionOnSet adds the values up in an order of its own, so   *)
(* what it returns is known only once that order is shown not to matter.   *)
(*                                                                         *)
(* Induction is by the smallest counterexample: were a statement false of  *)
(* some subset of a finite set, it would be false of one all of whose      *)
(* proper subsets satisfy it (WFMin, strict inclusion of finite sets).     *)
(***************************************************************************)
\* The element that the fold takes first.
First(S) == CHOOSE x \in S : TRUE

\* One step of the fold, by the sums in g of the smaller sets.
FoldStep(f, g, T) == IF T = {} THEN 0 ELSE f[First(T)] + g[T \ {First(T)}]

\* g holds the sums of f over the subsets of S.
SumsOver(f, S, g) == g = [T \in SUBSET S |-> FoldStep(f, g, T)]

\* Every set of subsets of a finite set has a smallest member.
LEMMA SmallestSubset ==
  ASSUME NEW S, IsFiniteSet(S), NEW X \in SUBSET SUBSET S, X # {}
  PROVE  \E T \in X : \A U \in SUBSET T : U # T => U \notin X
<1> DEFINE R == StrictSubsetOrdering(S)
<1>1. IsWellFoundedOn(R, SUBSET S)
  BY FS_StrictSubsetOrderingWellFounded, FS_FiniteSubsetsOfFinite
<1>2. \A T, U \in SUBSET S : U \subseteq T /\ U # T => <<U, T>> \in R
  BY DEF StrictSubsetOrdering
<1> HIDE DEF R
<1>3. PICK T \in X : \A U \in X : ~ (<<U, T>> \in R)
  BY <1>1, WFMin
<1> QED BY <1>2, <1>3

\* The definition of SumFunctionOnSet, with its fold written out.
LEMMA SumDefinition ==
  ASSUME NEW f, NEW S
  PROVE  SumFunctionOnSet(f, S) = (CHOOSE g : SumsOver(f, S, g))[S]
BY DEF SumFunctionOnSet, FoldFunctionOnSet, MapThenFoldSet, SumsOver, FoldStep, First

\* Sums of the same function agree wherever both are there.
LEMMA SumsAgree ==
  ASSUME NEW f, NEW S, IsFiniteSet(S), NEW T \in SUBSET S, NEW g, NEW h,
         SumsOver(f, S, g), SumsOver(f, T, h)
  PROVE  g[T] = h[T]
<1> DEFINE X == {U \in SUBSET T : g[U] # h[U]}
<1>1. CASE X = {}
  BY <1>1
<1>2. CASE X # {}
  <2>1. PICK U \in X : \A V \in SUBSET U : V # U => V \notin X
    <3>1. X \in SUBSET SUBSET S
      OBVIOUS
    <3> HIDE DEF X
    <3> QED BY <1>2, <3>1, SmallestSubset
  <2>2. g[U] = FoldStep(f, g, U) /\ h[U] = FoldStep(f, h, U)
    BY DEF SumsOver
  <2>3. CASE U = {}
    BY <2>1, <2>2, <2>3 DEF FoldStep
  <2>4. CASE U # {}
    <3>1. First(U) \in U
      BY <2>4 DEF First
    <3>2. g[U \ {First(U)}] = h[U \ {First(U)}]
      BY <2>1, <3>1
    <3> QED BY <2>1, <2>2, <2>4, <3>2 DEF FoldStep
  <2> QED BY <2>3, <2>4
<1> QED BY <1>1, <1>2

\* The sums exist: those of a smallest set without any could be put together from the
\* sums over its proper subsets.
LEMMA SumsExist ==
  ASSUME NEW f, NEW S, IsFiniteSet(S)
  PROVE  \E g : SumsOver(f, S, g)
<1> DEFINE X == {T \in SUBSET S : ~ \E g : SumsOver(f, T, g)}
<1>1. CASE X = {}
  BY <1>1
<1>2. CASE X # {}
  <2>1. PICK T \in X : \A U \in SUBSET T : U # T => U \notin X
    <3>1. X \in SUBSET SUBSET S
      OBVIOUS
    <3> HIDE DEF X
    <3> QED BY <1>2, <3>1, SmallestSubset
  <2> DEFINE Sums(U) == CHOOSE g : SumsOver(f, U, g)
             below   == [U \in SUBSET T |-> Sums(U)[U]]
             all     == [U \in SUBSET T |-> FoldStep(f, below, U)]
  <2>2. \A U \in SUBSET T : U # T => SumsOver(f, U, Sums(U))
    BY <2>1
  <2>3. ASSUME NEW U \in SUBSET T, U # T
        PROVE  all[U] = below[U]
    <3> HIDE DEF Sums
    <3>1. below[U] = FoldStep(f, Sums(U), U)
      BY <2>2, <2>3 DEF SumsOver
    <3>2. CASE U = {}
      BY <3>1, <3>2 DEF FoldStep
    <3>3. CASE U # {}
      <4> DEFINE V == U \ {First(U)}
      <4>1. V \in SUBSET U /\ V \in SUBSET T /\ V # T
        BY <2>3
      <4>2. IsFiniteSet(U)
        BY FS_Subset
      <4>3. Sums(U)[V] = Sums(V)[V]
        BY <2>2, <2>3, <4>1, <4>2, SumsAgree
      <4> QED BY <3>1, <3>3, <4>1, <4>3 DEF FoldStep
    <3> QED BY <3>2, <3>3
  <2>4. ASSUME NEW U \in SUBSET T
        PROVE  FoldStep(f, below, U) = FoldStep(f, all, U)
    <3> HIDE DEF below, all
    <3>1. CASE U = {}
      BY <3>1 DEF FoldStep
    <3>2. CASE U # {}
      <4>1. First(U) \in U
        BY <3>2 DEF First
      <4>2. all[U \ {First(U)}] = below[U \ {First(U)}]
        BY <2>3, <4>1
      <4> QED BY <3>2, <4>2 DEF FoldStep
    <3> QED BY <3>1, <3>2
  <2>5. SumsOver(f, T, all)
    <3>1. \A U \in SUBSET T : FoldStep(f, below, U) = FoldStep(f, all, U)
      BY <2>4
    <3> QED BY <3>1 DEF SumsOver
  <2> QED BY <2>1, <2>5
<1> QED BY <1>1, <1>2

\* The sum is the first element's value and the sum of the rest.
LEMMA SumUnfolds ==
  ASSUME NEW f, NEW S, IsFiniteSet(S)
  PROVE  SumFunctionOnSet(f, S) =
           IF S = {} THEN 0
           ELSE f[First(S)] + SumFunctionOnSet(f, S \ {First(S)})
<1> DEFINE Sums(T) == CHOOSE g : SumsOver(f, T, g)
<1>1. \A T \in SUBSET S : SumsOver(f, T, Sums(T))
  BY FS_Subset, SumsExist
<1> HIDE DEF Sums
<1>2. \A T \in SUBSET S : SumFunctionOnSet(f, T) = Sums(T)[T]
  BY SumDefinition DEF Sums
<1>3. Sums(S)[S] = FoldStep(f, Sums(S), S)
  BY <1>1 DEF SumsOver
<1>4. Sums(S)[S \ {First(S)}] = Sums(S \ {First(S)})[S \ {First(S)}]
  BY <1>1, SumsAgree
<1> QED BY <1>2, <1>3, <1>4 DEF FoldStep

\* Nothing sums up to nothing.
LEMMA SumEmpty ==
  ASSUME NEW f
  PROVE  SumFunctionOnSet(f, {}) = 0
BY SumUnfolds, FS_EmptySet

\* Sums of whole numbers are whole numbers, and any element may be the one that is
\* taken first.
LEMMA SumTakes ==
  ASSUME NEW f, NEW S, IsFiniteSet(S), \A x \in S : f[x] \in Int
  PROVE  /\ SumFunctionOnSet(f, S) \in Int
         /\ \A x \in S : SumFunctionOnSet(f, S) = f[x] + SumFunctionOnSet(f, S \ {x})
<1> DEFINE Sum(T)  == SumFunctionOnSet(f, T)
           Good(T) == Sum(T) \in Int /\ \A x \in T : Sum(T) = f[x] + Sum(T \ {x})
           X == {T \in SUBSET S : ~ Good(T)}
<1>0. \A T \in SUBSET S :
        Sum(T) = IF T = {} THEN 0 ELSE f[First(T)] + Sum(T \ {First(T)})
  BY FS_Subset, SumUnfolds
<1> HIDE DEF Sum
<1>1. CASE X = {}
  BY <1>1 DEF Sum
<1>2. CASE X # {}
  <2>1. PICK T \in X : \A U \in SUBSET T : U # T => U \notin X
    <3>1. X \in SUBSET SUBSET S
      OBVIOUS
    <3> HIDE DEF X
    <3> QED BY <1>2, <3>1, SmallestSubset
  <2>2. \A U \in SUBSET T : U # T => Good(U)
    BY <2>1
  <2>3. CASE T = {}
    <3>1. Sum(T) = 0
      <4> HIDE DEF Good
      <4> QED BY <1>0, <2>3
    <3>2. Good(T)
      BY <2>3, <3>1
    <3> QED BY <2>1, <3>2
  <2>4. CASE T # {}
    <3> DEFINE a == First(T)
    <3>1. a \in T /\ Sum(T) = f[a] + Sum(T \ {a})
      BY <1>0, <2>4 DEF First
    <3> HIDE DEF a
    <3>2. Good(T \ {a}) /\ f[a] \in Int
      BY <2>2, <3>1
    <3>3. ASSUME NEW x \in T, x # a
          PROVE  Sum(T) = f[x] + Sum(T \ {x})
      <4> DEFINE W == (T \ {a}) \ {x}
      <4>1. Sum(T \ {a}) = f[x] + Sum(W)
        BY <3>2, <3>3
      <4>2. Good(T \ {x}) /\ Good(W)
        BY <2>2, <3>1, <3>3
      <4>3. (T \ {x}) \ {a} = W
        OBVIOUS
      <4>4. Sum(T \ {x}) = f[a] + Sum((T \ {x}) \ {a})
        BY <3>1, <3>3, <4>2
      <4>5. Sum(T \ {x}) = f[a] + Sum(W)
        BY <4>3, <4>4
      <4>6. f[x] \in Int /\ Sum(W) \in Int
        BY <4>2
      <4> HIDE DEF Good, W
      <4> QED BY <3>1, <3>2, <4>1, <4>5, <4>6
    <3>4. Sum(T) \in Int
      BY <3>1, <3>2
    <3>5. Good(T)
      BY <3>1, <3>3, <3>4
    <3> QED BY <2>1, <3>5
  <2> QED BY <2>3, <2>4
<1> QED BY <1>1, <1>2

\* One more element.
LEMMA SumAdds ==
  ASSUME NEW f, NEW S, IsFiniteSet(S), NEW x, x \notin S,
         \A y \in S \cup {x} : f[y] \in Int
  PROVE  SumFunctionOnSet(f, S \cup {x}) = f[x] + SumFunctionOnSet(f, S)
<1>1. IsFiniteSet(S \cup {x}) /\ (S \cup {x}) \ {x} = S
  BY FS_AddElement
<1> QED BY <1>1, SumTakes

\* A sum depends only on the values at the elements it is taken over.
LEMMA SumSame ==
  ASSUME NEW f, NEW g, NEW S, IsFiniteSet(S),
         \A x \in S : f[x] \in Int /\ g[x] = f[x]
  PROVE  SumFunctionOnSet(g, S) = SumFunctionOnSet(f, S)
<1> DEFINE X == {T \in SUBSET S : SumFunctionOnSet(g, T) # SumFunctionOnSet(f, T)}
<1>1. CASE X = {}
  BY <1>1
<1>2. CASE X # {}
  <2>1. PICK T \in X : \A U \in SUBSET T : U # T => U \notin X
    <3>1. X \in SUBSET SUBSET S
      OBVIOUS
    <3> HIDE DEF X
    <3> QED BY <1>2, <3>1, SmallestSubset
  <2>2. CASE T = {}
    BY <2>1, <2>2, SumEmpty
  <2>3. CASE T # {}
    <3>1. PICK x \in T : TRUE
      BY <2>3
    <3>2. IsFiniteSet(T) /\ \A y \in T : f[y] \in Int /\ g[y] \in Int
      BY FS_Subset
    <3>3. /\ SumFunctionOnSet(f, T) = f[x] + SumFunctionOnSet(f, T \ {x})
          /\ SumFunctionOnSet(g, T) = g[x] + SumFunctionOnSet(g, T \ {x})
      BY <3>2, SumTakes
    <3>4. SumFunctionOnSet(g, T \ {x}) = SumFunctionOnSet(f, T \ {x})
      BY <2>1
    <3> QED BY <2>1, <3>3, <3>4
  <2> QED BY <2>2, <2>3
<1> QED BY <1>1, <1>2

(***************************************************************************)
(* The totals.                                                             *)
(***************************************************************************)
\* Rounding to cents takes or adds half a cent at most.
LEMMA CentsFair ==
  ASSUME NEW amount \in Int
  PROVE  10 * Cents(amount) - amount <= 5 /\ amount - 10 * Cents(amount) <= 5
BY DEF Cents

\* What each donation of the organization is recorded with.
CentsOf(o) == [d \in Received(o) |-> donations[d].cents]

\* What the donations of an organization were rounded by adds up to no more than half a
\* cent for each of them.
FairInv ==
  \A o \in OrgIds :
    /\ IsFiniteSet(Received(o))
    /\ 10 * SumByOrg(o) - given[o] <= 5 * Cardinality(Received(o))
    /\ given[o] - 10 * SumByOrg(o) <= 5 * Cardinality(Received(o))

\* The total is the sum of whole numbers of cents.
LEMMA TotalType ==
  ASSUME TypeInv, NEW o \in OrgIds, IsFiniteSet(Received(o))
  PROVE  /\ SumByOrg(o) = SumFunctionOnSet(CentsOf(o), Received(o))
         /\ SumByOrg(o) \in Int
         /\ \A d \in Received(o) : CentsOf(o)[d] \in Int
<1>1. \A d \in Received(o) : CentsOf(o)[d] \in Int
  BY DEF CentsOf, Received, Donations, TypeInv, TypeOK
<1>2. SumByOrg(o) = SumFunctionOnSet(CentsOf(o), Received(o))
  BY DEF SumByOrg, CentsOf
<1>3. SumFunctionOnSet(CentsOf(o), Received(o)) \in Int
  BY <1>1, SumTakes
<1> QED BY <1>1, <1>2, <1>3

\* A donation that is inserted adds its cents to the total of its organization.
LEMMA DonationCounted ==
  ASSUME TypeInv, FairInv, NEW h \in Handlers, NEW d \in DonationIds, DonateInsert(h, d),
         NEW o \in OrgIds
  PROVE  IF o = inflight[h].org
         THEN /\ Received(o)' = Received(o) \cup {d} /\ d \notin Received(o)
              /\ SumByOrg(o)' = Cents(inflight[h].amount) + SumByOrg(o)
         ELSE Received(o)' = Received(o) /\ SumByOrg(o)' = SumByOrg(o)
<1> DEFINE org == inflight[h].org
           new == [org |-> org, cents |-> Cents(inflight[h].amount)]
<1>1. /\ org \in OrgIds /\ Cents(inflight[h].amount) \in Nat
      /\ donations[d] = NoRow
      /\ donations' = [donations EXCEPT ![d] = new]
  BY RequestTypes DEF DonateInsert
<1>2. new \in Donations /\ new # NoRow
  BY <1>1, ShelterAssumption DEF Donations
<1>3. donations'[d] = new /\ \A e \in DonationIds \ {d} : donations'[e] = donations[e]
  BY <1>1 DEF TypeInv, TypeOK
<1>4. d \notin Received(o) /\ IsFiniteSet(Received(o))
  BY <1>1 DEF Received, FairInv
<1>5. \A e \in Received(o) : CentsOf(o)[e] \in Int
  BY <1>4, TotalType
<1>6. SumByOrg(o) = SumFunctionOnSet(CentsOf(o), Received(o))
  BY DEF SumByOrg, CentsOf
<1>7. SumByOrg(o)' = SumFunctionOnSet(CentsOf(o)', Received(o)')
  BY DEF SumByOrg, CentsOf
<1>8. CASE o = org
  <2>1. Received(o)' = Received(o) \cup {d}
    BY <1>2, <1>3, <1>8 DEF Received
  <2>2. /\ CentsOf(o)'[d] = Cents(inflight[h].amount)
        /\ \A e \in Received(o) : CentsOf(o)'[e] = CentsOf(o)[e]
    BY <1>3, <1>4, <2>1 DEF CentsOf, Received
  <2>3. \A e \in Received(o) \cup {d} : CentsOf(o)'[e] \in Int
    BY <1>1, <1>5, <2>2
  <2>4. SumFunctionOnSet(CentsOf(o)', Received(o) \cup {d})
          = CentsOf(o)'[d] + SumFunctionOnSet(CentsOf(o)', Received(o))
    BY <1>4, <2>3, SumAdds
  <2>5. SumFunctionOnSet(CentsOf(o)', Received(o)) = SumFunctionOnSet(CentsOf(o), Received(o))
    BY <1>4, <1>5, <2>2, SumSame
  <2> QED BY <1>4, <1>6, <1>7, <1>8, <2>1, <2>2, <2>4, <2>5
<1>9. CASE o # org
  <2>1. Received(o)' = Received(o)
    BY <1>1, <1>3, <1>9 DEF Received
  <2>2. CentsOf(o)' = CentsOf(o)
    BY <1>3, <1>4, <2>1 DEF CentsOf, Received
  <2> QED BY <1>6, <1>7, <1>9, <2>1, <2>2
<1> QED BY <1>8, <1>9

\* Every step of the program preserves FairInv.
LEMMA FairInvStep == TypeInv /\ FairInv /\ [Next]_vars => FairInv'
<1> SUFFICES ASSUME TypeInv, FairInv, [Next]_vars PROVE FairInv'
  OBVIOUS
<1>1. ASSUME donations' = donations, given' = given
      PROVE  FairInv'
  <2>1. \A o \in OrgIds : Received(o)' = Received(o) /\ SumByOrg(o)' = SumByOrg(o)
    BY <1>1 DEF Received, SumByOrg
  <2> QED BY <1>1, <2>1 DEF FairInv
<1>2. ASSUME NEW h \in Handlers, NEW d \in DonationIds, DonateInsert(h, d)
      PROVE  FairInv'
  <2> SUFFICES ASSUME NEW o \in OrgIds
               PROVE  /\ IsFiniteSet(Received(o)')
                      /\ 10 * SumByOrg(o)' - given'[o] <= 5 * Cardinality(Received(o)')
                      /\ given'[o] - 10 * SumByOrg(o)' <= 5 * Cardinality(Received(o)')
    BY DEF FairInv
  <2> DEFINE n == Cardinality(Received(o))
             a == inflight[h].amount
  <2>1. /\ IsFiniteSet(Received(o)) /\ n \in Nat
        /\ 10 * SumByOrg(o) - given[o] <= 5 * n
        /\ given[o] - 10 * SumByOrg(o) <= 5 * n
    BY FS_CardinalityType DEF FairInv
  <2>2. SumByOrg(o) \in Int /\ given[o] \in Int
    BY <2>1, TotalType DEF TypeInv, TypeOK
  <2>3. /\ inflight[h].org \in OrgIds /\ a \in Int /\ Cents(a) \in Int
        /\ 10 * Cents(a) - a <= 5 /\ a - 10 * Cents(a) <= 5
    BY <1>2, RequestTypes, CentsFair DEF DonateInsert
  <2>4. given'[o] = IF o = inflight[h].org THEN given[o] + a ELSE given[o]
    BY <1>2, <2>3 DEF DonateInsert, TypeInv, TypeOK
  <2> HIDE DEF a
  <2>5. CASE o = inflight[h].org
    <3>1. /\ Received(o)' = Received(o) \cup {d} /\ d \notin Received(o)
          /\ SumByOrg(o)' = Cents(a) + SumByOrg(o)
      BY <1>2, <2>5, DonationCounted DEF a
    <3>2. IsFiniteSet(Received(o)') /\ Cardinality(Received(o)') = n + 1
      BY <2>1, <3>1, FS_AddElement
    <3> HIDE DEF n
    <3> QED BY <2>1, <2>2, <2>3, <2>4, <2>5, <3>1, <3>2
  <2>6. CASE o # inflight[h].org
    <3>1. Received(o)' = Received(o) /\ SumByOrg(o)' = SumByOrg(o)
      BY <1>2, <2>6, DonationCounted
    <3> QED BY <2>1, <2>4, <2>6, <3>1
  <2> QED BY <2>5, <2>6
<1>3. CASE UNCHANGED vars
  BY <1>1, <1>3 DEF vars
<1>4. ASSUME Next, \A h \in Handlers, d \in DonationIds : ~ DonateInsert(h, d)
      PROVE  donations' = donations /\ given' = given
  BY <1>4
     DEF Next, OrgRequest, Finish, RegisterInsert, RegisterCommit, Review, PublishCheck,
         PublishInsert, DonateCheck, UsageCheck, UsageInsert, Fail, Crash, tables
<1> QED BY <1>1, <1>2, <1>3, <1>4

\* The total an organization is shown is as fair as its donations are many, whatever
\* their amounts, and however many donations of it and of others race.
THEOREM ShelterTotalsAreFair == Spec => []TotalsAreFair
<1>1. Init => FairInv
  <2> SUFFICES ASSUME Init, NEW o \in OrgIds
               PROVE  /\ IsFiniteSet(Received(o))
                      /\ 10 * SumByOrg(o) - given[o] <= 5 * Cardinality(Received(o))
                      /\ given[o] - 10 * SumByOrg(o) <= 5 * Cardinality(Received(o))
    BY DEF FairInv
  <2>1. Received(o) = {} /\ given[o] = 0
    BY DEF Init, Received
  <2>2. SumByOrg(o) = 0
    BY <2>1, SumEmpty DEF SumByOrg
  <2> QED BY <2>1, <2>2, FS_EmptySet
<1>2. FairInv => TotalsAreFair
  BY DEF FairInv, TotalsAreFair
<1> QED
  BY <1>1, <1>2, TypeInvariant, FairInvStep, PTL DEF Spec

(***************************************************************************)
(* Rows refer to rows, with the foreign keys of init.sql or without, as in *)
(* a database that the backend has migrated.                               *)
(***************************************************************************)
AccountsFor(org, d) == donations[d] # NoRow /\ donations[d].org = org

\* A pet and a donation belong to an organization, and a usage to a donation of the very
\* organization that reports it.
RowsRefer ==
  /\ \A p \in PetIds : pets[p] # NoRow => pets[p] \in Live
  /\ \A d \in DonationIds : donations[d] # NoRow => donations[d].org \in Live
  /\ \A x \in UsageIds : usages[x] # NoRow => AccountsFor(usages[x].org, usages[x].donation)

\* So does what requests are about to insert.
RequestsRefer ==
  \A h \in Handlers :
    /\ inflight[h].op \in {"publish", "donate"} => inflight[h].org \in Live
    /\ inflight[h].op = "use" => AccountsFor(inflight[h].org, inflight[h].donation)

RefersInv == RowsRefer /\ RequestsRefer

\* Organizations and donations stay.
LEMMA RowsStay ==
  ASSUME TypeInv, [Next]_vars
  PROVE  /\ Live \subseteq Live'
         /\ \A d \in DonationIds : donations[d] # NoRow => donations'[d] = donations[d]
<1> USE ShelterAssumption DEF tables
<1>1. CASE UNCHANGED <<orgs, donations>>
  BY <1>1 DEF Live
<1>2. ASSUME NEW h \in Handlers, RegisterCommit(h)
      PROVE  Live \subseteq Live' /\ donations' = donations
  <2>1. inflight[h].id \in OrgIds /\ inflight[h].owner \in Owners
    BY <1>2, RequestTypes DEF RegisterCommit
  <2>2. [owner |-> inflight[h].owner, status |-> "pending"] \in Organizations
    BY <2>1 DEF Organizations, OrgStatuses
  <2>3. \A o \in OrgIds : orgs'[o] = orgs[o] \/ orgs'[o] \in Organizations
    BY <1>2, <2>1, <2>2 DEF RegisterCommit, TypeInv, TypeOK
  <2> QED BY <1>2, <2>3 DEF RegisterCommit, Live
<1>3. ASSUME NEW o \in OrgIds, NEW status \in OrgStatuses, Review(o, status)
      PROVE  Live \subseteq Live' /\ donations' = donations
  <2>1. [orgs[o] EXCEPT !.status = status] \in Organizations
    BY <1>3 DEF Review, Live, TypeInv, TypeOK, Organizations
  <2>2. orgs' = [orgs EXCEPT ![o] = [orgs[o] EXCEPT !.status = status]]
    BY <1>3 DEF Review
  <2>3. \A q \in OrgIds : orgs'[q] = orgs[q] \/ orgs'[q] \in Organizations
    BY <2>1, <2>2 DEF TypeInv, TypeOK
  <2> QED BY <1>3, <2>3 DEF Review, Live
<1>4. ASSUME NEW h \in Handlers, NEW d \in DonationIds, DonateInsert(h, d)
      PROVE  /\ Live \subseteq Live'
             /\ \A e \in DonationIds : donations[e] # NoRow => donations'[e] = donations[e]
  BY <1>4 DEF DonateInsert, Live, TypeInv, TypeOK
<1>5. \/ UNCHANGED <<orgs, donations>>
      \/ \E h \in Handlers : RegisterCommit(h)
      \/ \E o \in OrgIds, status \in OrgStatuses : Review(o, status)
      \/ \E h \in Handlers, d \in DonationIds : DonateInsert(h, d)
  BY DEF Next, OrgRequest, Finish, RegisterInsert, PublishCheck, PublishInsert, DonateCheck,
         UsageCheck, UsageInsert, Fail, Crash, vars
<1> QED BY <1>1, <1>2, <1>3, <1>4, <1>5

\* The organization found for a user is one of them.
LEMMA FoundIsOwned ==
  ASSUME NEW u, FindByUserID(u) # NoRow
  PROVE  FindByUserID(u) \in Owned(u) /\ FindByUserID(u) \in Live
<1>1. Owned(u) \in SUBSET OrgIds /\ Owned(u) # {} /\ FindByUserID(u) = Min(Owned(u))
  BY DEF FindByUserID, Owned, Live
<1> QED BY <1>1, MinOfIds DEF Owned

\* What is inserted is what a request carried.
LEMMA RowsReferStep ==
  ASSUME TypeInv, RefersInv, [Next]_vars
  PROVE  RowsRefer'
<1> USE ShelterAssumption DEF RefersInv, tables
<1>0. /\ Live \subseteq Live'
      /\ \A d \in DonationIds : donations[d] # NoRow => donations'[d] = donations[d]
  BY RowsStay
<1>1. ASSUME NEW org, NEW d \in DonationIds, AccountsFor(org, d)
      PROVE  AccountsFor(org, d)'
  BY <1>0, <1>1 DEF AccountsFor
<1>2. ASSUME NEW p \in PetIds, pets'[p] # NoRow
      PROVE  pets'[p] \in Live'
  <2>1. ASSUME NEW h \in Handlers, NEW q \in PetIds, PublishInsert(h, q)
        PROVE  pets'[p] \in Live
    <3>1. inflight[h].org \in Live
      BY <2>1 DEF PublishInsert, RequestsRefer
    <3> QED BY <1>2, <2>1, <3>1 DEF PublishInsert, RowsRefer, TypeInv, TypeOK
  <2>2. pets' = pets \/ \E h \in Handlers, q \in PetIds : PublishInsert(h, q)
    BY DEF Next, OrgRequest, Finish, RegisterInsert, RegisterCommit, Review, PublishCheck,
           DonateCheck, DonateInsert, UsageCheck, UsageInsert, Fail, Crash, vars
  <2> QED BY <1>0, <1>2, <2>1, <2>2 DEF RowsRefer
<1>3. ASSUME NEW d \in DonationIds, donations'[d] # NoRow
      PROVE  donations'[d].org \in Live'
  <2>1. ASSUME NEW h \in Handlers, NEW e \in DonationIds, DonateInsert(h, e)
        PROVE  donations'[d].org \in Live
    <3>1. inflight[h].org \in Live
      BY <2>1 DEF DonateInsert, RequestsRefer
    <3> QED BY <1>3, <2>1, <3>1 DEF DonateInsert, RowsRefer, TypeInv, TypeOK
  <2>2. donations' = donations \/ \E h \in Handlers, e \in DonationIds : DonateInsert(h, e)
    BY DEF Next, OrgRequest, Finish, RegisterInsert, RegisterCommit, Review, PublishCheck,
           PublishInsert, DonateCheck, UsageCheck, UsageInsert, Fail, Crash, vars
  <2> QED BY <1>0, <1>3, <2>1, <2>2 DEF RowsRefer
<1>4. ASSUME NEW x \in UsageIds, usages'[x] # NoRow
      PROVE  AccountsFor(usages[x].org, usages[x].donation)'
  <2>1. CASE usages'[x] = usages[x]
    <3>1. usages[x] \in Usages
      BY <1>4, <2>1 DEF TypeInv, TypeOK
    <3>2. usages[x].donation \in DonationIds
      BY <3>1 DEF Usages
    <3>3. AccountsFor(usages[x].org, usages[x].donation)
      BY <1>4, <2>1 DEF RowsRefer
    <3> QED BY <1>0, <2>1, <3>2, <3>3 DEF AccountsFor
  <2>2. ASSUME NEW h \in Handlers, UsageInsert(h, x)
        PROVE  AccountsFor(usages[x].org, usages[x].donation)'
    <3>1. /\ usages'[x].org = inflight[h].org
          /\ usages'[x].donation = inflight[h].donation
      BY <2>2 DEF UsageInsert, TypeInv, TypeOK
    <3>2. inflight[h].donation \in DonationIds
      BY <2>2, RequestTypes DEF UsageInsert
    <3>3. AccountsFor(inflight[h].org, inflight[h].donation)
      BY <2>2 DEF UsageInsert, RequestsRefer
    <3> QED BY <1>0, <3>1, <3>2, <3>3 DEF AccountsFor
  <2>3. usages'[x] = usages[x] \/ \E h \in Handlers : UsageInsert(h, x)
    <3>1. ASSUME NEW h \in Handlers, NEW y \in UsageIds, UsageInsert(h, y), y # x
          PROVE  usages'[x] = usages[x]
      BY <3>1 DEF UsageInsert, TypeInv, TypeOK
    <3>2. usages' = usages \/ \E h \in Handlers, y \in UsageIds : UsageInsert(h, y)
      BY DEF Next, OrgRequest, Finish, RegisterInsert, RegisterCommit, Review, PublishCheck,
             PublishInsert, DonateCheck, DonateInsert, UsageCheck, Fail, Crash, vars
    <3> QED BY <3>1, <3>2
  <2> QED BY <2>1, <2>2, <2>3
<1> QED BY <1>2, <1>3, <1>4 DEF RowsRefer

\* What requests carry was read from rows that are there, and stays true of them.
LEMMA RequestsReferStep ==
  ASSUME TypeInv, RefersInv, [Next]_vars
  PROVE  RequestsRefer'
<1> USE ShelterAssumption DEF RefersInv, tables
<1>0. /\ Live \subseteq Live'
      /\ \A d \in DonationIds : donations[d] # NoRow => donations'[d] = donations[d]
  BY RowsStay
<1> SUFFICES ASSUME NEW h \in Handlers
             PROVE  /\ inflight'[h].op \in {"publish", "donate"} => inflight'[h].org \in Live'
                    /\ inflight'[h].op = "use" =>
                         AccountsFor(inflight[h].org, inflight[h].donation)'
  BY DEF RequestsRefer
<1>1. CASE inflight'[h] = inflight[h]
  <2>1. inflight[h].op = "use" => inflight[h].donation \in DonationIds
    BY RequestTypes
  <2> QED BY <1>0, <1>1, <2>1 DEF RequestsRefer, AccountsFor
<1>2. CASE inflight'[h].op \in {"idle", "register"}
  BY <1>2
<1>3. ASSUME NEW u \in Owners, PublishCheck(h, u)
      PROVE  inflight'[h].op = "publish" /\ inflight'[h].org \in Live
  <2>1. FindByUserID(u) \in Live
    BY <1>3, FoundIsOwned DEF PublishCheck
  <2>2. inflight'[h] = [op |-> "publish", org |-> FindByUserID(u)]
    BY <1>3 DEF PublishCheck, Begin, TypeInv, TypeOK
  <2> QED BY <2>1, <2>2
<1>4. ASSUME NEW o \in OrgIds, NEW amount \in Amounts, DonateCheck(h, o, amount)
      PROVE  inflight'[h].op = "donate" /\ inflight'[h].org \in Live
  BY <1>4 DEF DonateCheck, Begin, Approved, TypeInv, TypeOK
<1>5. ASSUME NEW u \in Owners, NEW d \in DonationIds, NEW amount \in Amounts,
             UsageCheck(h, u, d, amount)
      PROVE  inflight'[h].op = "use" /\ AccountsFor(inflight[h].org, inflight[h].donation)'
  <2>1. inflight'[h] = [op |-> "use", org |-> donations[d].org, donation |-> d,
                        amount |-> amount]
    BY <1>5 DEF UsageCheck, Begin, TypeInv, TypeOK
  <2>2. donations[d] # NoRow /\ donations'[d] = donations[d]
    BY <1>0, <1>5 DEF UsageCheck
  <2> QED BY <2>1, <2>2 DEF AccountsFor
<1>6. \/ inflight'[h] = inflight[h]
      \/ inflight'[h].op \in {"idle", "register"}
      \/ \E u \in Owners : PublishCheck(h, u)
      \/ \E o \in OrgIds, amount \in Amounts : DonateCheck(h, o, amount)
      \/ \E u \in Owners, d \in DonationIds, amount \in Amounts : UsageCheck(h, u, d, amount)
  <2>1. ASSUME NEW g \in Handlers, g # h,
               \/ \E u \in Owners : OrgRequest(g, u)
               \/ \E o \in OrgIds, amount \in Amounts : DonateCheck(g, o, amount)
               \/ Finish(g)
        PROVE  inflight'[h] = inflight[h]
    BY <2>1
       DEF OrgRequest, Finish, RegisterInsert, RegisterCommit, PublishCheck, PublishInsert,
           DonateCheck, DonateInsert, UsageCheck, UsageInsert, Fail, Begin, End, TypeInv, TypeOK
  <2>2. ASSUME Finish(h) \/ Crash \/ \E u \in Owners : RegisterInsert(h, u)
        PROVE  inflight'[h].op \in {"idle", "register"}
    BY <2>2 DEF Finish, RegisterInsert, RegisterCommit, PublishInsert, DonateInsert,
                UsageInsert, Fail, Crash, Begin, End, Idle, TypeInv, TypeOK
  <2>3. CASE UNCHANGED inflight
    BY <2>3
  <2>4. ASSUME NEW o \in OrgIds, NEW status \in OrgStatuses, Review(o, status)
        PROVE  UNCHANGED inflight
    BY <2>4 DEF Review
  <2> QED BY <2>1, <2>2, <2>3, <2>4 DEF Next, OrgRequest, vars
<1> QED BY <1>0, <1>1, <1>2, <1>3, <1>4, <1>5, <1>6

\* Rows refer to rows.
LEMMA RefersInvariant == Spec => []RefersInv
<1>1. Init => RefersInv
  BY DEF Init, RefersInv, RowsRefer, RequestsRefer, Idle
<1>2. TypeInv /\ RefersInv /\ [Next]_vars => RefersInv'
  BY RowsReferStep, RequestsReferStep DEF RefersInv
<1> QED BY <1>1, <1>2, TypeInvariant, PTL DEF Spec

\* Whatever is registered, revoked, published and given at the same time, pets, donations
\* and usages refer to rows that are there, and nobody accounts for another's donation.
THEOREM ShelterRowsRefer == Spec => []RowsRefer
BY RefersInvariant, PTL DEF RefersInv

\* What registrations that do not repeat would give: one organization for each user.
OneEach == \A x, y \in Live : orgs[x].owner = orgs[y].owner => x = y

\* The owner of a pet's organization manages the pet whenever no user has a second
\* organization: it is registering twice, which nothing prevents, that costs an owner its
\* pets, and no interleaving of anything else.
THEOREM SingleOwnersManage == Spec => [](OneEach => OwnersManage)
<1>1. TypeInv /\ RefersInv => (OneEach => OwnersManage)
  <2> SUFFICES ASSUME TypeInv, RefersInv, OneEach, NEW p \in PetIds, pets[p] # NoRow
               PROVE  CanManage(orgs[pets[p]].owner, pets[p])
    BY DEF OwnersManage
  <2> DEFINE o == pets[p]
             u == orgs[o].owner
  <2>1. o \in Live /\ o \in Owned(u)
    BY DEF RefersInv, RowsRefer, Owned
  <2>2. Owned(u) \in SUBSET OrgIds /\ \A x \in Owned(u) : x = o
    BY <2>1 DEF OneEach, Owned, Live
  <2>3. Min(Owned(u)) = o
    BY <2>1, <2>2, MinOfIds
  <2> QED BY <2>1, <2>3 DEF CanManage, FindByUserID
<1> QED BY <1>1, TypeInvariant, RefersInvariant, PTL
=============================================================================
