------------------------------- MODULE Shelter -------------------------------
(***************************************************************************)
(* Organizations: their registration and certification, and what an        *)
(* approved one may do: publish pets, receive donations and account for    *)
(* them.                                                                   *)
(*                                                                         *)
(* A goroutine of Handlers checks an organization in one query and inserts *)
(* in a later one; the administrator may have changed the organization's   *)
(* status in between.  A registration takes its id from the sequence when  *)
(* its INSERT runs and becomes visible when it commits, so ids may appear  *)
(* out of order.                                                           *)
(***************************************************************************)
EXTENDS Integers, Sequences, FiniteSets, FiniteSetsExt

CONSTANTS
  Owners,      \* accounts of role org
  SeedOwners,  \* the owners of the organizations the seed inserts, in order
  MaxOrg,      \* ids the sequence of organizations may hand out (a bound)
  PetIds,      \* ids the database may hand out to pets (a bound)
  DonationIds, \* ids the database may hand out to donations (a bound)
  UsageIds,    \* ids the database may hand out to usages (a bound)
  Amounts,     \* amounts a request may carry, in tenths of a cent
  Handlers,    \* request goroutines at work at the same time (a bound)
  NoRow        \* the row does not exist

OrgIds == 1..MaxOrg

OrgStatuses   == {"pending", "approved", "rejected"}
Organizations == [owner: Owners, status: OrgStatuses]
Donations     == [org: OrgIds, cents: Nat]
Usages        == [org: OrgIds, donation: DonationIds, cents: Int]

ASSUME ShelterAssumption ==
  /\ MaxOrg \in Nat
  /\ SeedOwners \in Seq(Owners) /\ Len(SeedOwners) <= MaxOrg
  /\ Amounts \subseteq Int \ {0} \* "required" refuses a zero
  /\ IsFiniteSet(Handlers)
  /\ NoRow \notin OrgIds \cup Organizations \cup Donations

Idle == [op |-> "idle"]
Requests ==
  {Idle} \cup [op: {"register"}, id: OrgIds, owner: Owners]
         \cup [op: {"publish"}, org: OrgIds]
         \cup [op: {"donate"}, org: OrgIds, amount: Amounts]
         \cup [op: {"use"}, org: OrgIds, donation: DonationIds, amount: Amounts]

VARIABLES
  orgs,      \* the organizations table
  lastId,    \* the sequence behind organizations.id
  pets,      \* pets.org_id
  donations, \* the donations table
  usages,    \* the donation_usages table
  inflight,  \* the request each goroutine is serving
  given,     \* history: what each organization's donors asked to give
  late       \* history: pets and donations an organization got since it lost its approval

tables == <<orgs, lastId, pets, donations, usages>>
vars == <<orgs, lastId, pets, donations, usages, inflight, given, late>>

TypeOK ==
  /\ orgs \in [OrgIds -> Organizations \cup {NoRow}]
  /\ lastId \in 0..MaxOrg
  /\ pets \in [PetIds -> OrgIds \cup {NoRow}]
  /\ donations \in [DonationIds -> Donations \cup {NoRow}]
  /\ usages \in [UsageIds -> Usages \cup {NoRow}]
  /\ inflight \in [Handlers -> Requests]
  /\ given \in [OrgIds -> Nat]
  /\ late \in [OrgIds -> Nat]

Live == {o \in OrgIds : orgs[o] # NoRow}

\* The seed was cut off between its users and its pets, and is never resumed.  What it
\* inserts after that are rows that no action changes.
Init ==
  /\ lastId \in 0..Len(SeedOwners)
  /\ orgs = [o \in OrgIds |->
       IF o <= lastId THEN [owner |-> SeedOwners[o], status |-> "approved"] ELSE NoRow]
  /\ pets = [p \in PetIds |-> NoRow]
  /\ donations = [d \in DonationIds |-> NoRow]
  /\ usages = [x \in UsageIds |-> NoRow]
  /\ inflight = [h \in Handlers |-> Idle]
  /\ given = [o \in OrgIds |-> 0]
  /\ late = [o \in OrgIds |-> 0]

(***************************************************************************)
(* Lookups                                                                 *)
(***************************************************************************)
Owned(u) == {o \in Live : orgs[o].owner = u}

\* First() orders by the primary key.
FindByUserID(u) == IF Owned(u) = {} THEN NoRow ELSE Min(Owned(u))

CanManage(u, o) == FindByUserID(u) = o

\* Wrong on purpose: nobody looks at the status.
AnyOrganization(o) == o \in Live

Approved(o) == o \in Live /\ orgs[o].status = "approved"

Begin(h, request) ==
  /\ inflight[h] = Idle
  /\ inflight' = [inflight EXCEPT ![h] = request]

End(h) == inflight' = [inflight EXCEPT ![h] = Idle]

(***************************************************************************)
(* OrganizationService                                                     *)
(***************************************************************************)
\* Wrong on purpose: an id that was rolled back is handed out again.
SmallestFreeId == Min({o \in OrgIds : orgs[o] = NoRow /\ \A h \in Handlers :
                          inflight[h].op = "register" => inflight[h].id # o})

\* Wrong on purpose: the id handed out last.
LastId == lastId

NextId == lastId + 1

\* The INSERT of Register, which nothing keeps a user from doing twice.
RegisterInsert(h, u) ==
  /\ lastId < MaxOrg
  /\ Begin(h, [op |-> "register", id |-> NextId, owner |-> u])
  /\ lastId' = lastId + 1
  /\ UNCHANGED <<orgs, pets, donations, usages, given, late>>

\* Its COMMIT.
RegisterCommit(h) ==
  LET r == inflight[h]
  IN  /\ r.op = "register"
      /\ orgs' = [orgs EXCEPT ![r.id] = [owner |-> r.owner, status |-> "pending"]]
      /\ End(h)
      /\ UNCHANGED <<lastId, pets, donations, usages, given, late>>

\* Review by the administrator: any status over any other.  Only the status of an
\* organization ever changes, so the read and the whole-row save are one step.
Review(o, status) ==
  /\ o \in Live
  /\ orgs' = [orgs EXCEPT ![o].status = status]
  /\ late' = IF status = "approved" THEN [late EXCEPT ![o] = 0] ELSE late
  /\ UNCHANGED <<lastId, pets, donations, usages, inflight, given>>

\* The history of a row that is added to an organization.
Added(o) ==
  late' = IF orgs[o].status = "approved" THEN late ELSE [late EXCEPT ![o] = @ + 1]

(***************************************************************************)
(* PetService.Publish                                                      *)
(***************************************************************************)
PublishCheck(h, u) ==
  LET o == FindByUserID(u)
  IN  /\ o # NoRow
      /\ Approved(o)
      /\ Begin(h, [op |-> "publish", org |-> o])
      /\ UNCHANGED <<tables, given, late>>

PublishInsert(h, p) ==
  LET r == inflight[h]
  IN  /\ r.op = "publish"
      /\ pets[p] = NoRow
      /\ pets' = [pets EXCEPT ![p] = r.org]
      /\ Added(r.org)
      /\ End(h)
      /\ UNCHANGED <<orgs, lastId, donations, usages, given>>

(***************************************************************************)
(* DonationService                                                         *)
(***************************************************************************)
\* Wrong on purpose: what is below a cent is cut off.
Truncated(amount) == amount \div 10

\* A column of NUMERIC(12,2) rounds to cents, half a cent away from zero.
Cents(amount) ==
  IF amount >= 0 THEN (amount + 5) \div 10 ELSE -((5 - amount) \div 10)

DonateCheck(h, o, amount) ==
  /\ amount > 0
  /\ Approved(o)
  /\ Begin(h, [op |-> "donate", org |-> o, amount |-> amount])
  /\ UNCHANGED <<tables, given, late>>

DonateInsert(h, d) ==
  LET r == inflight[h]
  IN  /\ r.op = "donate"
      /\ donations[d] = NoRow
      /\ donations' = [donations EXCEPT ![d] = [org |-> r.org, cents |-> Cents(r.amount)]]
      /\ given' = [given EXCEPT ![r.org] = @ + r.amount]
      /\ Added(r.org)
      /\ End(h)
      /\ UNCHANGED <<orgs, lastId, pets, usages>>

\* CreateUsage: the caller's organization must be the donation's; neither its approval
\* nor the sign or the size of the amount is looked at.
UsageCheck(h, u, d, amount) ==
  /\ donations[d] # NoRow
  /\ CanManage(u, donations[d].org)
  /\ Begin(h, [op |-> "use", org |-> donations[d].org, donation |-> d, amount |-> amount])
  /\ UNCHANGED <<tables, given, late>>

UsageInsert(h, x) ==
  LET r == inflight[h]
  IN  /\ r.op = "use"
      /\ usages[x] = NoRow
      /\ usages' = [usages EXCEPT ![x] =
           [org |-> r.org, donation |-> r.donation, cents |-> Cents(r.amount)]]
      /\ End(h)
      /\ UNCHANGED <<orgs, lastId, pets, donations, given, late>>

\* Stats: COALESCE(SUM(amount), 0) over the organization's donations.
Received(o) == {d \in DonationIds : donations[d] # NoRow /\ donations[d].org = o}

SumByOrg(o) == SumFunctionOnSet([d \in Received(o) |-> donations[d].cents], Received(o))

\* A database error (an amount too large for its column among them) ends a handler, a
\* crash ends them all; the ids they took are lost.
Fail(h) ==
  /\ inflight[h] # Idle
  /\ End(h)
  /\ UNCHANGED <<tables, given, late>>

Crash ==
  /\ \E h \in Handlers : inflight[h] # Idle
  /\ inflight' = [h \in Handlers |-> Idle]
  /\ UNCHANGED <<tables, given, late>>

OrgRequest(h, u) ==
  \/ RegisterInsert(h, u)
  \/ PublishCheck(h, u)
  \/ \E d \in DonationIds, amount \in Amounts : UsageCheck(h, u, d, amount)

Finish(h) ==
  \/ RegisterCommit(h)
  \/ \E p \in PetIds : PublishInsert(h, p)
  \/ \E d \in DonationIds : DonateInsert(h, d)
  \/ \E x \in UsageIds : UsageInsert(h, x)
  \/ Fail(h)

Next ==
  \/ \E h \in Handlers, u \in Owners : OrgRequest(h, u)
  \/ \E h \in Handlers, o \in OrgIds, amount \in Amounts : DonateCheck(h, o, amount)
  \/ \E h \in Handlers : Finish(h)
  \/ \E o \in OrgIds, status \in OrgStatuses : Review(o, status)
  \/ Crash

Spec == Init /\ [][Next]_vars

(***************************************************************************)
(* Properties                                                              *)
(***************************************************************************)
\* The requests that have passed the check of an organization's approval.
PastCheck(o) ==
  {h \in Handlers : inflight[h].op \in {"publish", "donate"} /\ inflight[h].org = o}

\* Taking an approval back takes hold: from then on only the requests that had passed
\* the check before still add a pet or a donation, never more than there are
\* goroutines, however long the organization goes on asking.
RevocationTakesHold ==
  \A o \in Live :
    orgs[o].status # "approved" =>
      late[o] + Cardinality(PastCheck(o)) <= Cardinality(Handlers)

\* The registrations of a user that may still change which organization is found.
Earlier(u) ==
  {inflight[h].id : h \in {k \in Handlers : /\ inflight[k].op = "register"
                                           /\ inflight[k].owner = u
                                           /\ inflight[k].id < FindByUserID(u)}}

\* What a user manages is settled once its registrations are: while it has an
\* organization, FindByUserID changes its answer only to one whose registration was
\* under way when that organization appeared, and no new one ever joins these.
ManagerIsSettled ==
  [][\A u \in Owners :
       FindByUserID(u) # NoRow =>
         /\ FindByUserID(u)' \in {FindByUserID(u)} \cup Earlier(u)
         /\ Earlier(u)' \subseteq Earlier(u)]_vars

\* The total an organization is shown differs from what its donors gave by no more
\* than half a cent for every donation, in either direction.
TotalsAreFair ==
  \A o \in OrgIds :
    LET n == Cardinality(Received(o))
    IN  /\ 10 * SumByOrg(o) - given[o] <= 5 * n
        /\ given[o] - 10 * SumByOrg(o) <= 5 * n

\* The owner of a pet's organization manages the pet ("org owner or admin").
OwnersManage ==
  \A p \in PetIds :
    pets[p] # NoRow => CanManage(orgs[pets[p]].owner, pets[p])
=============================================================================
