-------------------------- MODULE AdoptionLifecycle --------------------------
(***************************************************************************)
(* What the adoption API promises of the two tables: each request is one   *)
(* atomic operation.  A user applies for an available pet and thereby      *)
(* reserves it; an application moves along the state machine and its       *)
(* approval hands the pet over; an organization may set a pet's status.    *)
(***************************************************************************)
EXTENDS AdoptionStatus

CONSTANTS Users, Pets, AppIds, PetOrg, NoApp,
  SeedApps \* the applications of the seed data

VARIABLES
  pets, apps,
  unaware \* the applications admitted although an earlier one was there

rows == <<pets, apps, unaware>>

Init ==
  /\ pets = [p \in Pets |-> "available"]
  /\ apps = SeedApps
  /\ unaware = {}

Earlier(u, p) ==
  {x \in AppIds : apps[x] # NoApp /\ apps[x].user = u /\ apps[x].pet = p}

\* An application beside an earlier one of the same user for the same pet is admitted
\* only by a failed lookup, which makes it one of the unaware.
Apply(u, p, id) ==
  /\ pets[p] = "available"
  /\ unaware' = IF Earlier(u, p) = {} THEN unaware ELSE unaware \cup {id}
  /\ apps[id] = NoApp
  /\ apps' = [apps EXCEPT ![id] =
       [user |-> u, pet |-> p, org |-> PetOrg[p], status |-> "submitted"]]
  /\ pets' = [pets EXCEPT ![p] = "pending"]

Advance(id, next) ==
  /\ apps[id] # NoApp
  /\ next \in NextApplicationStatuses(apps[id].status)
  /\ next # "approved"
  /\ apps' = [apps EXCEPT ![id].status = next]
  /\ UNCHANGED <<pets, unaware>>

Approve(id) ==
  /\ apps[id] # NoApp
  /\ "approved" \in NextApplicationStatuses(apps[id].status)
  /\ apps' = [apps EXCEPT ![id].status = "approved"]
  /\ pets' = [pets EXCEPT ![apps[id].pet] = "adopted"]
  /\ UNCHANGED unaware

Reopen(p, s) ==
  /\ pets' = [pets EXCEPT ![p] = s]
  /\ UNCHANGED <<apps, unaware>>

Next ==
  \/ \E u \in Users, p \in Pets, id \in AppIds : Apply(u, p, id)
  \/ \E id \in AppIds, next \in AppStatuses : Advance(id, next)
  \/ \E id \in AppIds : Approve(id)
  \/ \E p \in Pets, s \in PetStatuses : Reopen(p, s)

Spec == Init /\ [][Next]_rows

\* Every change of an application's status is a forward transition of the state
\* machine, so a decided application never changes again.
FollowsStateMachine ==
  [][\A id \in AppIds :
       apps[id] # NoApp /\ apps'[id] # apps[id]
         => /\ apps'[id] # NoApp
            /\ apps'[id].status \in NextApplicationStatuses(apps[id].status)]_rows
=============================================================================
