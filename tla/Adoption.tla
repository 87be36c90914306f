------------------------------ MODULE Adoption ------------------------------
(***************************************************************************)
(* Adoption applications and the status of the pets they are for, under    *)
(* concurrent requests.                                                    *)
(*                                                                         *)
(* Every HTTP request is a goroutine that reads rows, decides in memory and *)
(* then writes; only the writes of one request share a transaction.  A slot *)
(* of Handlers is one such goroutine.  Its steps are its database calls, so *)
(* what it has checked may be stale by the time it writes.  The writes are  *)
(* whole-row UPDATEs by id (gorm's Save), which compare nothing: since only *)
(* the status column of a pet or an application ever changes after the     *)
(* insert, such a write is an assignment of the status.  A request refused  *)
(* at its first read leaves no trace and is no step of the model.          *)
(***************************************************************************)
EXTENDS AdoptionStatus, Naturals, FiniteSets

CONSTANTS
  Users,       \* accounts, of any role
  Orgs,        \* ids of the organizations
  Pets,        \* ids of the published pets
  AppIds,      \* ids the database may hand out to applications (a bound)
  Handlers,    \* request goroutines at work at the same time (a bound)
  Role,        \* the role in a user's token
  OrgUser,     \* organizations.user_id
  PetOrg,      \* pets.org_id
  NoOrg,       \* FindByUserID found no row
  NoApp,       \* the application row does not exist
  SeedApps     \* the rows of adoption_applications the seed inserts

ASSUME ConstantsAssumption ==
  /\ Orgs \subseteq Nat
  /\ NoOrg \notin Orgs
  /\ Role \in [Users -> {"user", "org", "admin"}]
  /\ OrgUser \in [Orgs -> Users]
  /\ PetOrg \in [Pets -> Orgs]

Applications == [user: Users, pet: Pets, org: Orgs, status: AppStatuses]

ASSUME HandlersAssumption == IsFiniteSet(Handlers) /\ Handlers # {}

ASSUME NoAppAssumption == NoApp \notin Applications

Seeded == {id \in AppIds : SeedApps[id] # NoApp}

ASSUME SeedAssumption ==
  /\ SeedApps \in [AppIds -> Applications \cup {NoApp}]
  /\ IsFiniteSet(Seeded)
  /\ \A id \in Seeded : SeedApps[id].status = "submitted"
  /\ \A x, y \in Seeded :
       SeedApps[x].user = SeedApps[y].user /\ SeedApps[x].pet = SeedApps[y].pet => x = y

\* What a goroutine carries between its database calls.
Idle       == [op |-> "idle"]
Submitting == [op: {"submit"}, stage: {"lookup", "write", "unaware"}, user: Users, pet: Pets]
Moving     == [op: {"move"}, app: AppIds, next: AppStatuses]
Requests   == {Idle} \cup Submitting \cup Moving

VARIABLES
  pets,     \* pets.status
  apps,     \* the adoption_applications table
  inflight, \* the request each goroutine is serving
  unaware,  \* history: the rows inserted past an earlier application of the same user
            \* for the same pet, which a failed lookup did not report
  trail,    \* history: the statuses each application row has held
  handset   \* history: the statuses organizations have set by hand on each pet

rows == <<pets, apps, unaware>>
vars == <<pets, apps, inflight, unaware, trail, handset>>

TypeOK ==
  /\ pets \in [Pets -> PetStatuses]
  /\ apps \in [AppIds -> Applications \cup {NoApp}]
  /\ inflight \in [Handlers -> Requests]
  /\ unaware \subseteq AppIds
  /\ trail \in [AppIds -> SUBSET AppStatuses]
  /\ handset \in [Pets -> SUBSET PetStatuses]

Live       == {id \in AppIds : apps[id] # NoApp}
AppsFor(p) == {id \in Live : apps[id].pet = p}

\* The seed inserts its applications past Submit and leaves their pets on offer, which
\* counts as the word of their organizations.
Init ==
  /\ pets = [p \in Pets |-> "available"]
  /\ apps = SeedApps
  /\ inflight = [h \in Handlers |-> Idle]
  /\ unaware = {}
  /\ trail = [id \in AppIds |-> IF id \in Seeded THEN {"submitted"} ELSE {}]
  /\ handset = [p \in Pets |->
       IF \E id \in Seeded : SeedApps[id].pet = p THEN {"available"} ELSE {}]

(***************************************************************************)
(* Lookups                                                                 *)
(***************************************************************************)
\* First() orders by the primary key: a second organization of the same user
\* is never found.
FindByUserID(u) ==
  LET owned == {o \in Orgs : OrgUser[o] = u}
  IN  IF owned = {} THEN NoOrg ELSE CHOOSE o \in owned : \A x \in owned : o <= x

\* Wrong on purpose: an earlier application is never found.
FindNothing(u, p) == {}

FindByUserAndPet(u, p) == {id \in AppsFor(p) : apps[id].user = u}

(***************************************************************************)
(* ApplicationService.Submit: read the pet, look for an earlier            *)
(* application, then insert the application and save the pet in one        *)
(* transaction.                                                            *)
(***************************************************************************)
SubmitReadPet(h, u, p) ==
  /\ inflight[h] = Idle
  /\ pets[p] = "available"
  /\ inflight' = [inflight EXCEPT ![h] =
       [op |-> "submit", stage |-> "lookup", user |-> u, pet |-> p]]
  /\ UNCHANGED <<pets, apps, unaware, trail, handset>>

\* The request is refused when a row is found, and goes on both when there is
\* none and when the lookup itself failed (only "err == nil" refuses).  A lookup that
\* fails where there is no row changes nothing.
SubmitLookup(h) ==
  LET r == inflight[h]
      found == FindByUserAndPet(r.user, r.pet) # {}
  IN  /\ r.op = "submit" /\ r.stage = "lookup"
      /\ \/ /\ found
            /\ inflight' = [inflight EXCEPT ![h] = Idle]
         \/ /\ ~found
            /\ inflight' = [inflight EXCEPT ![h] = [r EXCEPT !.stage = "write"]]
         \/ /\ found
            /\ inflight' = [inflight EXCEPT ![h] = [r EXCEPT !.stage = "unaware"]]
      /\ UNCHANGED <<pets, apps, unaware, trail, handset>>

\* Wrong on purpose: user and pet confused.
MixedUpApplication(u, p) == [user |-> p, pet |-> p, org |-> PetOrg[p], status |-> "submitted"]

NewApplication(u, p) == [user |-> u, pet |-> p, org |-> PetOrg[p], status |-> "submitted"]

\* Wrong on purpose: the pet stays on offer.
NotReserved(p) == pets

Reserved(p) == [pets EXCEPT ![p] = "pending"]

SubmitWrite(h, id) ==
  LET r == inflight[h]
  IN  /\ r.op = "submit" /\ r.stage # "lookup"
      /\ apps[id] = NoApp
      /\ apps' = [apps EXCEPT ![id] = NewApplication(r.user, r.pet)]
      /\ pets' = Reserved(r.pet)
      /\ inflight' = [inflight EXCEPT ![h] = Idle]
      /\ unaware' = IF r.stage = "unaware" THEN unaware \cup {id} ELSE unaware
      /\ trail' = [trail EXCEPT ![id] = {"submitted"}]
      /\ UNCHANGED handset

(***************************************************************************)
(* ApplicationService.UpdateStatus: read the application, check the caller *)
(* and the transition, then save; an approval also saves the pet, in the   *)
(* same transaction.  The pet read before that transaction decides nothing *)
(* (pets are never deleted, and its status is overwritten).                *)
(***************************************************************************)
MayMove(u, a) ==
  CASE Role[u] = "org"  -> FindByUserID(u) = a.org
    [] Role[u] = "user" -> a.user = u
    [] OTHER            -> TRUE

\* Wrong on purpose: any status may follow any other.
AnyMove(a, next) == TRUE

Allowed(a, next) == next \in NextApplicationStatuses(a.status)

MoveRead(h, u, id, next) ==
  /\ inflight[h] = Idle
  /\ id \in Live
  /\ MayMove(u, apps[id])
  /\ Allowed(apps[id], next)
  /\ inflight' = [inflight EXCEPT ![h] = [op |-> "move", app |-> id, next |-> next]]
  /\ UNCHANGED <<pets, apps, unaware, trail, handset>>

\* Wrong on purpose: a rejection puts the pet back on offer; an approval leaves it alone.
PetsReleased(a, next) ==
  IF next = "rejected" THEN [pets EXCEPT ![a.pet] = "available"] ELSE pets

PetsAfterMove(a, next) ==
  IF next = "approved" THEN [pets EXCEPT ![a.pet] = "adopted"] ELSE pets

MoveWrite(h) ==
  LET r == inflight[h]
  IN  /\ r.op = "move"
      /\ apps' = [apps EXCEPT ![r.app].status = r.next]
      /\ pets' = PetsAfterMove(apps[r.app], r.next)
      /\ inflight' = [inflight EXCEPT ![h] = Idle]
      /\ trail' = [trail EXCEPT ![r.app] = @ \cup {r.next}]
      /\ UNCHANGED <<unaware, handset>>

(***************************************************************************)
(* PetService.UpdateStatus: any status over any other, by the owner of the *)
(* pet's organization.  The rows it checks never change, so its read and   *)
(* its write are one step.                                                 *)
(***************************************************************************)
CanManage(u, p) == Role[u] = "org" /\ FindByUserID(u) = PetOrg[p]

SetPetStatus(u, p, status) ==
  /\ CanManage(u, p)
  /\ pets' = [pets EXCEPT ![p] = status]
  /\ handset' = [handset EXCEPT ![p] = @ \cup {status}]
  /\ UNCHANGED <<apps, inflight, unaware, trail>>

\* A database error makes a handler return; a panic is recovered into the same.
Fail(h) ==
  /\ inflight[h] # Idle
  /\ inflight' = [inflight EXCEPT ![h] = Idle]
  /\ UNCHANGED <<pets, apps, unaware, trail, handset>>

\* The process dies: every goroutine is gone, an open transaction rolls back and
\* the container restarts on the rows that were committed.
Crash ==
  /\ \E h \in Handlers : inflight[h] # Idle
  /\ inflight' = [h \in Handlers |-> Idle]
  /\ UNCHANGED <<pets, apps, unaware, trail, handset>>

Next ==
  \/ \E h \in Handlers, u \in Users, p \in Pets : SubmitReadPet(h, u, p)
  \/ \E h \in Handlers : SubmitLookup(h)
  \/ \E h \in Handlers, id \in AppIds : SubmitWrite(h, id)
  \/ \E h \in Handlers, u \in Users, id \in AppIds, next \in AppStatuses :
       MoveRead(h, u, id, next)
  \/ \E h \in Handlers : MoveWrite(h)
  \/ \E u \in Users, p \in Pets, s \in PetStatuses : SetPetStatus(u, p, s)
  \/ \E h \in Handlers : Fail(h)
  \/ Crash

Spec == Init /\ [][Next]_vars

(***************************************************************************)
(* What holds whatever the requests overlap with.                          *)
(***************************************************************************)
Stages == {"submitted", "org_review", "communicating", "confirmed",
           "offline_interview"}

\* No stage is skipped: lost updates may move an application back or overturn a
\* decision, but one that is approved has been through every stage of the state
\* machine, in rows that were committed.
NoStageSkipped ==
  \A id \in Live : apps[id].status = "approved" => Stages \subseteq trail[id]

\* A pet somebody applied for is on offer again only if its organization said so:
\* no request, late, failed or crashed, reopens it (Submit reserves the pet in the
\* transaction that inserts the application, and a rejection releases nothing).
AppliedPetReserved ==
  \A id \in Live :
    pets[apps[id].pet] = "available" => "available" \in handset[apps[id].pet]

\* The submissions whose goroutines are past the "pet is available" check.
SubmitsFor(p) ==
  {h \in Handlers : inflight[h].op = "submit" /\ inflight[h].pet = p}

\* The check-then-act race on a pet is over once one submission is in: unless the
\* organization reopens it, a pet never gets more applications than there were
\* goroutines at work at the same time.
RacingSubmitsBounded ==
  \A p \in Pets :
    "available" \notin handset[p] =>
      Cardinality(AppsFor(p)) + Cardinality(SubmitsFor(p)) <= Cardinality(Handlers)

\* The submissions of a user for a pet that looked for an earlier one and found none.
Clear(u, p) ==
  {h \in SubmitsFor(p) : inflight[h].user = u /\ inflight[h].stage = "write"}

\* The applications of a user for a pet that were inserted after a lookup that succeeded.
Aware(u, p) == {id \in AppsFor(p) \ unaware : apps[id].user = u}

\* A user applies once for a pet (the 409 "already applied"), but for two ways past
\* the lookup: submissions that overlap, and lookups that fail.  However often the
\* organization reopens the pet, and whoever else applies, the applications of a user
\* for it are those of one burst of goroutines, all of which looked before the first
\* of them inserted, and one for each failed lookup.  One request at a time with
\* lookups that succeed inserts one.
DuplicatesOverlap ==
  \A u \in Users, p \in Pets :
    Cardinality(Aware(u, p)) + Cardinality(Clear(u, p)) <= Cardinality(Handlers)

\* Approving an application and handing over its pet are one event: the row turns
\* approved exactly in the step that makes its pet adopted, and no other step but
\* the organization's own makes a pet adopted.
ApprovalAdoptsPet ==
  [][ /\ \A id \in AppIds :
           apps'[id] # apps[id] /\ apps'[id].status = "approved"
             => pets'[apps'[id].pet] = "adopted"
      /\ \A p \in Pets :
           pets'[p] = "adopted" /\ pets[p] # "adopted"
             => \/ "adopted" \in handset'[p]
                \/ \E id \in AppIds : apps'[id] # NoApp /\ apps'[id].pet = p
                                     /\ apps'[id].status = "approved" ]_vars

(***************************************************************************)
(* The atomic operations the requests are meant to be.                     *)
(***************************************************************************)
Lifecycle == INSTANCE AdoptionLifecycle WITH
  pets <- pets, apps <- apps, unaware <- unaware,
  Users <- Users, Pets <- Pets, AppIds <- AppIds, PetOrg <- PetOrg,
  NoApp <- NoApp, SeedApps <- SeedApps

\* UpdateStatus "transitions an application along the state machine": every change
\* of a committed status is one of NextApplicationStatuses.
FollowsStateMachine == Lifecycle!FollowsStateMachine

(***************************************************************************)
(* The same goroutines when requests about one pet do not overlap.  Nothing *)
(* in the code keeps them apart: IsolatedSpec is an assumption about the   *)
(* callers, under which the overlap that breaks FollowsStateMachine is the *)
(* only thing that breaks it.  Everything else stays: requests about other *)
(* pets interleave, lookups fail, handlers fail and the process crashes.   *)
(***************************************************************************)
Concerns(h, p) ==
  \/ inflight[h].op = "submit" /\ inflight[h].pet = p
  \/ inflight[h].op = "move" /\ apps[inflight[h].app].pet = p

Undisturbed(p) == \A h \in Handlers : ~Concerns(h, p)

IsolatedNext ==
  \/ \E h \in Handlers, u \in Users, p \in Pets :
       Undisturbed(p) /\ SubmitReadPet(h, u, p)
  \/ \E h \in Handlers : SubmitLookup(h)
  \/ \E h \in Handlers, id \in AppIds : SubmitWrite(h, id)
  \/ \E h \in Handlers, u \in Users, id \in Live, next \in AppStatuses :
       Undisturbed(apps[id].pet) /\ MoveRead(h, u, id, next)
  \/ \E h \in Handlers : MoveWrite(h)
  \/ \E u \in Users, p \in Pets, s \in PetStatuses :
       Undisturbed(p) /\ SetPetStatus(u, p, s)
  \/ \E h \in Handlers : Fail(h)
  \/ Crash

IsolatedSpec == Init /\ [][IsolatedNext]_vars

\* Requests that do not overlap on a pet behave as the atomic operations of
\* AdoptionLifecycle, for every reader of the two tables.
ImplementsLifecycle == Lifecycle!Spec

\* Without overlap, and until the organization interferes, the status of a pet says
\* what became of it: on offer while nobody applied; then exactly one application,
\* which has it pending until it is approved, and for good once it is rejected.
PetFollowsApplication ==
  \A p \in Pets : handset[p] = {} =>
    \/ pets[p] = "available" /\ AppsFor(p) = {}
    \/ \E id \in Live :
         /\ AppsFor(p) = {id}
         /\ pets[p] = IF apps[id].status = "approved" THEN "adopted" ELSE "pending"
=============================================================================
