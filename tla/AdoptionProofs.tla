--------------------------- MODULE AdoptionProofs ---------------------------
(***************************************************************************)
(* Theorems about Adoption, for any users, pets, organizations and number  *)
(* of goroutines.                                                          *)
(***************************************************************************)
EXTENDS Adoption, FiniteSetTheorems, TLAPS

(***************************************************************************)
(* Type correctness.  A status write updates a row that exists because its *)
(* goroutine has read it and rows are never deleted.                       *)
(***************************************************************************)
MovesHaveRows ==
  \A h \in Handlers : inflight[h].op = "move" => inflight[h].app \in Live

TypeInv == TypeOK /\ MovesHaveRows

\* Every step of the program preserves TypeInv.
LEMMA TypeInvStep == TypeInv /\ [Next]_vars => TypeInv'
<1> USE ConstantsAssumption, NoAppAssumption
<1> SUFFICES ASSUME TypeInv, [Next]_vars PROVE TypeInv'
  OBVIOUS
<1> USE DEF TypeInv, TypeOK, MovesHaveRows, Live, Requests, Idle, Submitting, Moving
<1>1. ASSUME NEW h \in Handlers, NEW u \in Users, NEW p \in Pets, SubmitReadPet(h, u, p)
      PROVE  TypeInv'
  BY <1>1 DEF SubmitReadPet
<1>2. ASSUME NEW h \in Handlers, SubmitLookup(h)
      PROVE  TypeInv'
  BY <1>2 DEF SubmitLookup
<1>3. ASSUME NEW h \in Handlers, NEW id \in AppIds, SubmitWrite(h, id)
      PROVE  TypeInv'
  <2>1. inflight[h] \in Submitting
    BY <1>3 DEF SubmitWrite, NewApplication, Reserved
  <2>2. [user |-> inflight[h].user, pet |-> inflight[h].pet,
         org |-> PetOrg[inflight[h].pet], status |-> "submitted"] \in Applications
    BY <2>1 DEF Applications, AppStatuses
  <2>3. TypeOK'
    BY <1>3, <2>1, <2>2 DEF SubmitWrite, NewApplication, Reserved, PetStatuses, AppStatuses
  <2>4. MovesHaveRows'
    BY <1>3, <2>2 DEF SubmitWrite, NewApplication, Reserved
  <2> QED BY <2>3, <2>4
<1>4. ASSUME NEW h \in Handlers, NEW u \in Users, NEW id \in AppIds,
             NEW next \in AppStatuses, MoveRead(h, u, id, next)
      PROVE  TypeInv'
  BY <1>4 DEF MoveRead, Allowed
<1>5. ASSUME NEW h \in Handlers, MoveWrite(h)
      PROVE  TypeInv'
  <2>1. inflight[h] \in Moving /\ apps[inflight[h].app] \in Applications
    BY <1>5 DEF MoveWrite, PetsAfterMove
  <2>2. [apps[inflight[h].app] EXCEPT !.status = inflight[h].next] \in Applications
    BY <2>1 DEF Applications
  <2>3. TypeOK'
    BY <1>5, <2>1, <2>2 DEF MoveWrite, PetsAfterMove, PetStatuses, Applications
  <2>4. MovesHaveRows'
    BY <1>5, <2>1, <2>2 DEF MoveWrite, PetsAfterMove
  <2> QED BY <2>3, <2>4
<1>6. ASSUME NEW u \in Users, NEW p \in Pets, NEW s \in PetStatuses, SetPetStatus(u, p, s)
      PROVE  TypeInv'
  BY <1>6 DEF SetPetStatus
<1>7. ASSUME NEW h \in Handlers, Fail(h)
      PROVE  TypeInv'
  BY <1>7 DEF Fail
<1>8. CASE Crash
  BY <1>8 DEF Crash
<1>9. CASE UNCHANGED vars
  BY <1>9 DEF vars
<1> QED
  BY <1>1, <1>2, <1>3, <1>4, <1>5, <1>6, <1>7, <1>8, <1>9 DEF Next

\* The types, with what they rest on.
LEMMA TypeInvariant == Spec => []TypeInv
<1>1. Init => TypeInv
  BY SeedAssumption
     DEF Init, TypeInv, TypeOK, MovesHaveRows, Requests, Idle, PetStatuses, AppStatuses
<1> QED
  BY <1>1, TypeInvStep, PTL DEF Spec

\* Every variable keeps its type.
THEOREM TypeCorrect == Spec => []TypeOK
<1>1. TypeInv => TypeOK
  BY DEF TypeInv
<1> QED
  BY <1>1, TypeInvariant, PTL

(***************************************************************************)
(* No stage is skipped.  The row may have changed since a goroutine read    *)
(* it, but what the goroutine read was once committed: so whatever a row    *)
(* ever held, and whatever is about to be written to it, is the successor  *)
(* of something the row has held.                                          *)
(***************************************************************************)
Reached(id, s) == \E q \in trail[id] : s \in NextApplicationStatuses(q)

TrailInv ==
  /\ \A id \in Live : apps[id].status \in trail[id]
  /\ \A id \in AppIds : \A s \in trail[id] : s = "submitted" \/ Reached(id, s)
  /\ \A h \in Handlers :
       inflight[h].op = "move" => Reached(inflight[h].app, inflight[h].next)

\* Every step of the program preserves TrailInv.
LEMMA TrailInvStep == TypeInv /\ TrailInv /\ [Next]_vars => TrailInv'
<1> USE ConstantsAssumption, NoAppAssumption
<1> SUFFICES ASSUME TypeInv, TrailInv, [Next]_vars PROVE TrailInv'
  OBVIOUS
<1> USE DEF TypeInv, TypeOK, MovesHaveRows, TrailInv, Live, Reached,
            Requests, Idle, Submitting, Moving
<1>1. ASSUME NEW h \in Handlers, NEW u \in Users, NEW p \in Pets, SubmitReadPet(h, u, p)
      PROVE  TrailInv'
  BY <1>1 DEF SubmitReadPet
<1>2. ASSUME NEW h \in Handlers, SubmitLookup(h)
      PROVE  TrailInv'
  BY <1>2 DEF SubmitLookup
<1>3. ASSUME NEW h \in Handlers, NEW id \in AppIds, SubmitWrite(h, id)
      PROVE  TrailInv'
  BY <1>3 DEF SubmitWrite, NewApplication, Reserved
<1>4. ASSUME NEW h \in Handlers, NEW u \in Users, NEW id \in AppIds,
             NEW next \in AppStatuses, MoveRead(h, u, id, next)
      PROVE  TrailInv'
  BY <1>4 DEF MoveRead, Allowed
<1>5. ASSUME NEW h \in Handlers, MoveWrite(h)
      PROVE  TrailInv'
  <2>1. inflight[h] \in Moving /\ apps[inflight[h].app] \in Applications
    BY <1>5 DEF MoveWrite, PetsAfterMove
  <2>2. Live' = Live
    BY <1>5, <2>1, TypeInvStep DEF MoveWrite, PetsAfterMove, Applications
  <2>3. \A id \in Live' : apps'[id].status \in trail'[id]
    BY <1>5, <2>1, <2>2 DEF MoveWrite, PetsAfterMove, Applications
  <2>4. \A id \in AppIds : trail[id] \subseteq trail'[id]
    BY <1>5, <2>1 DEF MoveWrite, PetsAfterMove
  <2>5. \A id \in AppIds : \A s \in trail'[id] : s = "submitted" \/ Reached(id, s)
    BY <1>5, <2>1 DEF MoveWrite, PetsAfterMove
  <2>6. \A g \in Handlers :
          inflight'[g].op = "move" => Reached(inflight'[g].app, inflight'[g].next)
    BY <1>5, <2>1 DEF MoveWrite, PetsAfterMove
  <2> QED BY <2>3, <2>4, <2>5, <2>6, TypeInvStep
<1>6. ASSUME NEW u \in Users, NEW p \in Pets, NEW s \in PetStatuses, SetPetStatus(u, p, s)
      PROVE  TrailInv'
  BY <1>6 DEF SetPetStatus
<1>7. ASSUME NEW h \in Handlers, Fail(h)
      PROVE  TrailInv'
  BY <1>7 DEF Fail
<1>8. CASE Crash
  BY <1>8 DEF Crash
<1>9. CASE UNCHANGED vars
  BY <1>9 DEF vars
<1> QED
  BY <1>1, <1>2, <1>3, <1>4, <1>5, <1>6, <1>7, <1>8, <1>9 DEF Next

\* A trail that holds an approval holds the stages that lead to it.
LEMMA ApprovedTrail ==
  ASSUME TypeOK, TrailInv, NEW id \in AppIds, "approved" \in trail[id]
  PROVE  Stages \subseteq trail[id]
<1> USE DEF TypeOK, TrailInv, Reached, NextApplicationStatuses, AppStatuses
<1>1. "offline_interview" \in trail[id]
  OBVIOUS
<1>2. "confirmed" \in trail[id]
  BY <1>1
<1>3. "communicating" \in trail[id]
  BY <1>2
<1>4. "org_review" \in trail[id]
  BY <1>3
<1>5. "submitted" \in trail[id]
  BY <1>4
<1> QED BY <1>1, <1>2, <1>3, <1>4, <1>5 DEF Stages

\* However requests interleave, fail or are cut off by a crash, an application that
\* is approved has been through every stage.
THEOREM StagesInOrder == Spec => []NoStageSkipped
<1>1. Init => TrailInv
  BY SeedAssumption DEF Init, TrailInv, Reached, Live, Idle, Seeded
<1>2. TypeInv /\ TrailInv => NoStageSkipped
  BY ApprovedTrail DEF TypeInv, TrailInv, NoStageSkipped, Live
<1> QED
  BY <1>1, <1>2, TypeInvariant, TrailInvStep, PTL DEF Spec

(***************************************************************************)
(* A pet somebody applied for stays reserved until its organization        *)
(* reopens it.                                                             *)
(***************************************************************************)
LEMMA ReservedStep ==
  TypeInv /\ AppliedPetReserved /\ [Next]_vars => AppliedPetReserved'
<1> USE ConstantsAssumption, NoAppAssumption
<1> SUFFICES ASSUME TypeInv, AppliedPetReserved, [Next]_vars PROVE AppliedPetReserved'
  OBVIOUS
<1> USE DEF TypeInv, TypeOK, MovesHaveRows, AppliedPetReserved, Live,
            Requests, Idle, Submitting, Moving, Applications
<1>1. ASSUME NEW h \in Handlers, NEW u \in Users, NEW p \in Pets, SubmitReadPet(h, u, p)
      PROVE  AppliedPetReserved'
  BY <1>1 DEF SubmitReadPet
<1>2. ASSUME NEW h \in Handlers, SubmitLookup(h)
      PROVE  AppliedPetReserved'
  BY <1>2 DEF SubmitLookup
<1>3. ASSUME NEW h \in Handlers, NEW id \in AppIds, SubmitWrite(h, id)
      PROVE  AppliedPetReserved'
  BY <1>3 DEF SubmitWrite, NewApplication, Reserved
<1>4. ASSUME NEW h \in Handlers, NEW u \in Users, NEW id \in AppIds,
             NEW next \in AppStatuses, MoveRead(h, u, id, next)
      PROVE  AppliedPetReserved'
  BY <1>4 DEF MoveRead, Allowed
<1>5. ASSUME NEW h \in Handlers, MoveWrite(h)
      PROVE  AppliedPetReserved'
  BY <1>5 DEF MoveWrite, PetsAfterMove
<1>6. ASSUME NEW u \in Users, NEW p \in Pets, NEW s \in PetStatuses, SetPetStatus(u, p, s)
      PROVE  AppliedPetReserved'
  BY <1>6 DEF SetPetStatus
<1>7. ASSUME NEW h \in Handlers, Fail(h)
      PROVE  AppliedPetReserved'
  BY <1>7 DEF Fail
<1>8. CASE Crash
  BY <1>8 DEF Crash
<1>9. CASE UNCHANGED vars
  BY <1>9 DEF vars
<1> QED
  BY <1>1, <1>2, <1>3, <1>4, <1>5, <1>6, <1>7, <1>8, <1>9 DEF Next

\* No request, late, failed or crashed, puts a pet somebody applied for back on offer.
THEOREM PetStaysReserved == Spec => []AppliedPetReserved
<1>1. Init => AppliedPetReserved
  BY SeedAssumption DEF Init, AppliedPetReserved, Live, Seeded, Applications
<1> QED
  BY <1>1, TypeInvariant, ReservedStep, PTL DEF Spec

(***************************************************************************)
(* The bound on racing submissions.                                        *)
(***************************************************************************)
AppsFinite == \A p \in Pets : IsFiniteSet(AppsFor(p))

BoundInv == AppsFinite /\ RacingSubmitsBounded

\* A step that leaves the applications for a pet alone and adds no submission for
\* it keeps the bound of that pet.
LEMMA BoundKept ==
  ASSUME BoundInv, NEW p \in Pets, "available" \notin handset[p],
         AppsFor(p)' = AppsFor(p), SubmitsFor(p)' \subseteq SubmitsFor(p)
  PROVE  /\ IsFiniteSet(AppsFor(p)')
         /\ Cardinality(AppsFor(p)') + Cardinality(SubmitsFor(p)')
              <= Cardinality(Handlers)
<1> USE HandlersAssumption
<1>1. IsFiniteSet(SubmitsFor(p))
  BY FS_Subset DEF SubmitsFor
<1>2. /\ IsFiniteSet(SubmitsFor(p)')
      /\ Cardinality(SubmitsFor(p)') <= Cardinality(SubmitsFor(p))
  BY <1>1, FS_Subset
<1>3. IsFiniteSet(AppsFor(p)) /\ Cardinality(AppsFor(p)) \in Nat
  BY FS_CardinalityType DEF BoundInv, AppsFinite
<1>4. /\ Cardinality(SubmitsFor(p)) \in Nat
      /\ Cardinality(SubmitsFor(p)') \in Nat
      /\ Cardinality(Handlers) \in Nat
  BY <1>1, <1>2, FS_CardinalityType
<1> QED BY <1>2, <1>3, <1>4 DEF BoundInv, RacingSubmitsBounded

\* Every step of the program preserves the bound.
LEMMA BoundStep ==
  TypeInv /\ AppliedPetReserved /\ BoundInv /\ [Next]_vars => BoundInv'
<1> USE ConstantsAssumption, NoAppAssumption, HandlersAssumption
<1> SUFFICES ASSUME TypeInv, AppliedPetReserved, BoundInv, [Next]_vars,
                    NEW p \in Pets
             PROVE  /\ IsFiniteSet(AppsFor(p)')
                    /\ "available" \notin handset'[p] =>
                         Cardinality(AppsFor(p)') + Cardinality(SubmitsFor(p)')
                           <= Cardinality(Handlers)
  BY DEF BoundInv, AppsFinite, RacingSubmitsBounded
<1> DEFINE Goal == /\ IsFiniteSet(AppsFor(p)')
                   /\ "available" \notin handset'[p] =>
                        Cardinality(AppsFor(p)') + Cardinality(SubmitsFor(p)')
                          <= Cardinality(Handlers)
<1> HIDE DEF Goal
<1>0. /\ IsFiniteSet(AppsFor(p)) /\ IsFiniteSet(SubmitsFor(p))
      /\ IsFiniteSet(SubmitsFor(p)')
      /\ Cardinality(SubmitsFor(p)') <= Cardinality(Handlers)
  BY FS_Subset DEF BoundInv, AppsFinite, SubmitsFor
<1>q. ASSUME AppsFor(p)' = AppsFor(p), SubmitsFor(p)' \subseteq SubmitsFor(p),
             handset[p] \subseteq handset'[p]
      PROVE  Goal
  BY <1>q, <1>0, BoundKept DEF Goal
<1> USE DEF TypeInv, TypeOK, MovesHaveRows, Live, AppsFor, SubmitsFor,
            Requests, Idle, Submitting, Moving, Applications
<1>1. ASSUME NEW h \in Handlers, NEW u \in Users, NEW o \in Pets, SubmitReadPet(h, u, o)
      PROVE  Goal
  <2>1. CASE o = p /\ "available" \notin handset[p]
    <3>1. AppsFor(p) = {} /\ AppsFor(p)' = {}
      BY <1>1, <2>1 DEF SubmitReadPet, AppliedPetReserved
    <3>2. Cardinality(AppsFor(p)') = 0
      BY <3>1, FS_EmptySet
    <3>3. Cardinality(SubmitsFor(p)') \in Nat
      BY <1>0, FS_CardinalityType
    <3> HIDE DEF AppsFor, SubmitsFor
    <3> QED BY <1>0, <3>1, <3>2, <3>3 DEF Goal
  <2>2. CASE o = p /\ "available" \in handset[p]
    BY <1>0, <1>1, <2>2 DEF SubmitReadPet, Goal
  <2>3. CASE o # p
    <3>1. /\ AppsFor(p)' = AppsFor(p) /\ SubmitsFor(p)' \subseteq SubmitsFor(p)
          /\ handset[p] \subseteq handset'[p]
      BY <1>1, <2>3 DEF SubmitReadPet
    <3> HIDE DEF AppsFor, SubmitsFor
    <3> QED BY <1>q, <3>1
  <2> QED BY <2>1, <2>2, <2>3
<1>2. ASSUME NEW h \in Handlers, SubmitLookup(h)
      PROVE  Goal
  <2>1. /\ AppsFor(p)' = AppsFor(p) /\ SubmitsFor(p)' \subseteq SubmitsFor(p)
        /\ handset[p] \subseteq handset'[p]
    BY <1>2 DEF SubmitLookup
  <2> HIDE DEF AppsFor, SubmitsFor
  <2> QED BY <1>q, <2>1
<1>3. ASSUME NEW h \in Handlers, NEW id \in AppIds, SubmitWrite(h, id)
      PROVE  Goal
  <2>1. CASE inflight[h].pet = p
    <3>0. apps'[id] \in Applications /\ apps'[id].pet = p
      BY <1>3, <2>1 DEF SubmitWrite, NewApplication, Reserved, AppStatuses
    <3>a. Live' = Live \cup {id} /\ id \notin Live
      BY <1>3, <3>0 DEF SubmitWrite, NewApplication, Reserved
    <3>b. id \notin AppsFor(p) /\ AppsFor(p)' = AppsFor(p) \cup {id}
      BY <1>3, <3>0, <3>a DEF SubmitWrite, NewApplication, Reserved
    <3>c. h \in SubmitsFor(p) /\ SubmitsFor(p)' = SubmitsFor(p) \ {h}
      BY <1>3, <2>1 DEF SubmitWrite, NewApplication, Reserved
    <3>1. /\ id \notin AppsFor(p) /\ AppsFor(p)' = AppsFor(p) \cup {id}
          /\ h \in SubmitsFor(p) /\ SubmitsFor(p)' = SubmitsFor(p) \ {h}
          /\ handset' = handset
      BY <1>3, <3>b, <3>c DEF SubmitWrite, NewApplication, Reserved
    <3> HIDE DEF AppsFor, SubmitsFor
    <3>2. /\ IsFiniteSet(AppsFor(p)')
          /\ Cardinality(AppsFor(p)') = Cardinality(AppsFor(p)) + 1
      BY <1>0, <3>1, FS_AddElement
    <3>3. Cardinality(SubmitsFor(p)') = Cardinality(SubmitsFor(p)) - 1
      BY <1>0, <3>1, FS_RemoveElement
    <3>4. Cardinality(AppsFor(p)) \in Nat /\ Cardinality(SubmitsFor(p)) \in Nat
      BY <1>0, FS_CardinalityType
    <3> QED BY <3>1, <3>2, <3>3, <3>4 DEF Goal, BoundInv, RacingSubmitsBounded
  <2>2. CASE inflight[h].pet # p
    <3>1. /\ AppsFor(p)' = AppsFor(p) /\ SubmitsFor(p)' \subseteq SubmitsFor(p)
          /\ handset[p] \subseteq handset'[p]
      BY <1>3, <2>2 DEF SubmitWrite, NewApplication, Reserved
    <3> HIDE DEF AppsFor, SubmitsFor
    <3> QED BY <1>q, <3>1
  <2> QED BY <2>1, <2>2
<1>4. ASSUME NEW h \in Handlers, NEW u \in Users, NEW id \in AppIds,
             NEW next \in AppStatuses, MoveRead(h, u, id, next)
      PROVE  Goal
  <2>1. /\ AppsFor(p)' = AppsFor(p) /\ SubmitsFor(p)' \subseteq SubmitsFor(p)
        /\ handset[p] \subseteq handset'[p]
    BY <1>4 DEF MoveRead, Allowed
  <2> HIDE DEF AppsFor, SubmitsFor
  <2> QED BY <1>q, <2>1
<1>5. ASSUME NEW h \in Handlers, MoveWrite(h)
      PROVE  Goal
  <2>1. /\ AppsFor(p)' = AppsFor(p) /\ SubmitsFor(p)' \subseteq SubmitsFor(p)
        /\ handset[p] \subseteq handset'[p]
    BY <1>5 DEF MoveWrite, PetsAfterMove
  <2> HIDE DEF AppsFor, SubmitsFor
  <2> QED BY <1>q, <2>1
<1>6. ASSUME NEW u \in Users, NEW o \in Pets, NEW s \in PetStatuses, SetPetStatus(u, o, s)
      PROVE  Goal
  <2>1. /\ AppsFor(p)' = AppsFor(p) /\ SubmitsFor(p)' \subseteq SubmitsFor(p)
        /\ handset[p] \subseteq handset'[p]
    BY <1>6 DEF SetPetStatus
  <2> HIDE DEF AppsFor, SubmitsFor
  <2> QED BY <1>q, <2>1
<1>7. ASSUME NEW h \in Handlers, Fail(h)
      PROVE  Goal
  <2>1. /\ AppsFor(p)' = AppsFor(p) /\ SubmitsFor(p)' \subseteq SubmitsFor(p)
        /\ handset[p] \subseteq handset'[p]
    BY <1>7 DEF Fail
  <2> HIDE DEF AppsFor, SubmitsFor
  <2> QED BY <1>q, <2>1
<1>8. CASE Crash
  <2>1. /\ AppsFor(p)' = AppsFor(p) /\ SubmitsFor(p)' \subseteq SubmitsFor(p)
        /\ handset[p] \subseteq handset'[p]
    BY <1>8 DEF Crash
  <2> HIDE DEF AppsFor, SubmitsFor
  <2> QED BY <1>q, <2>1 DEF Goal
<1>9. CASE UNCHANGED vars
  <2>1. /\ AppsFor(p)' = AppsFor(p) /\ SubmitsFor(p)' \subseteq SubmitsFor(p)
        /\ handset[p] \subseteq handset'[p]
    BY <1>9 DEF vars
  <2> HIDE DEF AppsFor, SubmitsFor
  <2> QED BY <1>q, <2>1 DEF Goal
<1> QED
  BY <1>1, <1>2, <1>3, <1>4, <1>5, <1>6, <1>7, <1>8, <1>9 DEF Next, Goal

\* The bound holds of the seeded rows.
LEMMA BoundInit == Init => BoundInv
<1> SUFFICES ASSUME Init, NEW p \in Pets
             PROVE  /\ IsFiniteSet(AppsFor(p))
                    /\ "available" \notin handset[p] =>
                         Cardinality(AppsFor(p)) + Cardinality(SubmitsFor(p))
                           <= Cardinality(Handlers)
  BY DEF BoundInv, AppsFinite, RacingSubmitsBounded
<1>1. AppsFor(p) \subseteq Seeded /\ SubmitsFor(p) = {}
  BY DEF Init, AppsFor, SubmitsFor, Live, Idle, Seeded
<1>2. IsFiniteSet(AppsFor(p))
  BY <1>1, FS_Subset, SeedAssumption
<1>3. "available" \notin handset[p] => AppsFor(p) = {}
  BY DEF Init, AppsFor, Live, Seeded
<1>4. Cardinality({}) = 0 /\ Cardinality(Handlers) \in Nat
  BY FS_EmptySet, FS_CardinalityType, HandlersAssumption
<1> QED BY <1>1, <1>2, <1>3, <1>4

\* Unless the organization reopens it, a pet gets no more applications than there
\* are goroutines, however many users race for it.
THEOREM RaceIsBounded == Spec => []RacingSubmitsBounded
<1>1. Init => BoundInv
  BY BoundInit
<1>2. Init => AppliedPetReserved
  BY SeedAssumption DEF Init, AppliedPetReserved, Live, Seeded, Applications
<1>3. BoundInv => RacingSubmitsBounded
  BY DEF BoundInv
<1> QED
  BY <1>1, <1>2, <1>3, TypeInvariant, ReservedStep, BoundStep, PTL DEF Spec

(***************************************************************************)
(* One burst of submissions.  Nobody joins it once a row is there, since a *)
(* lookup that succeeds finds the row: each insert takes a goroutine out of *)
(* the burst for the row it adds, and a failed lookup adds neither.        *)
(***************************************************************************)
BurstInv == AppsFinite /\ DuplicatesOverlap

\* A step that adds neither a row nor a goroutine to the burst keeps its bound.
LEMMA BurstKept ==
  ASSUME BurstInv, NEW u \in Users, NEW p \in Pets,
         IsFiniteSet(Aware(u, p)), IsFiniteSet(Clear(u, p)),
         Aware(u, p)' = Aware(u, p), Clear(u, p)' \subseteq Clear(u, p)
  PROVE  Cardinality(Aware(u, p)') + Cardinality(Clear(u, p)') <= Cardinality(Handlers)
<1>1. IsFiniteSet(Clear(u, p)') /\ Cardinality(Clear(u, p)') <= Cardinality(Clear(u, p))
  BY FS_Subset
<1>2. /\ Cardinality(Aware(u, p)) \in Nat /\ Cardinality(Clear(u, p)) \in Nat
      /\ Cardinality(Clear(u, p)') \in Nat /\ Cardinality(Handlers) \in Nat
  BY <1>1, FS_CardinalityType, HandlersAssumption
<1>3. Cardinality(Aware(u, p)) + Cardinality(Clear(u, p)) <= Cardinality(Handlers)
  BY DEF BurstInv, DuplicatesOverlap
<1> QED BY <1>1, <1>2, <1>3

\* Every step of the program preserves the bound of the burst.
LEMMA BurstStep == TypeInv /\ BurstInv /\ AppsFinite' /\ [Next]_vars => BurstInv'
<1> USE ConstantsAssumption, NoAppAssumption, HandlersAssumption
<1> SUFFICES ASSUME TypeInv, BurstInv, [Next]_vars, NEW v \in Users, NEW p \in Pets
             PROVE  Cardinality(Aware(v, p)') + Cardinality(Clear(v, p)')
                      <= Cardinality(Handlers)
  BY DEF BurstInv, DuplicatesOverlap
<1> DEFINE Goal == Cardinality(Aware(v, p)') + Cardinality(Clear(v, p)')
                     <= Cardinality(Handlers)
<1> HIDE DEF Goal
<1>0. /\ IsFiniteSet(Aware(v, p)) /\ IsFiniteSet(Clear(v, p)) /\ IsFiniteSet(Clear(v, p)')
      /\ Cardinality(Clear(v, p)') <= Cardinality(Handlers)
  <2>1. Aware(v, p) \subseteq AppsFor(p)
    BY DEF Aware
  <2>2. Clear(v, p) \subseteq Handlers /\ Clear(v, p)' \subseteq Handlers
    BY DEF Clear, SubmitsFor
  <2> QED BY <2>1, <2>2, FS_Subset DEF BurstInv, AppsFinite
<1>a. /\ Aware(v, p) = FindByUserAndPet(v, p) \ unaware
      /\ Aware(v, p)' = FindByUserAndPet(v, p)' \ unaware'
  BY DEF Aware, FindByUserAndPet
<1>q. ASSUME Aware(v, p)' = Aware(v, p), Clear(v, p)' \subseteq Clear(v, p)
      PROVE  Goal
  BY <1>q, <1>0, BurstKept DEF Goal
<1>r. ASSUME apps' = apps, unaware' = unaware
      PROVE  Aware(v, p)' = Aware(v, p)
  BY <1>r DEF Aware, AppsFor, Live
<1> USE DEF TypeInv, TypeOK, MovesHaveRows, Requests, Idle, Submitting, Moving
<1>1. ASSUME NEW h \in Handlers, NEW u \in Users, NEW o \in Pets, SubmitReadPet(h, u, o)
      PROVE  Goal
  <2>1. Clear(v, p)' \subseteq Clear(v, p)
    BY <1>1 DEF SubmitReadPet, Clear, SubmitsFor
  <2> QED BY <1>q, <1>r, <1>1, <2>1 DEF SubmitReadPet
<1>2. ASSUME NEW h \in Handlers, SubmitLookup(h)
      PROVE  Goal
  <2>1. CASE FindByUserAndPet(v, p) = {}
    <3>1. Aware(v, p)' = {}
      BY <1>2, <1>a, <1>r, <2>1 DEF SubmitLookup
    <3>2. Cardinality(Aware(v, p)') = 0
      BY <3>1, FS_EmptySet
    <3>3. Cardinality(Clear(v, p)') \in Nat
      BY <1>0, FS_CardinalityType
    <3> QED BY <1>0, <3>2, <3>3 DEF Goal
  <2>2. CASE FindByUserAndPet(v, p) # {}
    <3>1. /\ inflight[h] \in Submitting /\ inflight[h].stage = "lookup"
          /\ \/ inflight' = [inflight EXCEPT ![h] = Idle]
             \/ /\ FindByUserAndPet(inflight[h].user, inflight[h].pet) = {}
                /\ inflight' = [inflight EXCEPT ![h].stage = "write"]
             \/ inflight' = [inflight EXCEPT ![h].stage = "unaware"]
      BY <1>2 DEF SubmitLookup
    <3>a. ~(inflight'[h].op = "submit" /\ inflight'[h].stage = "write"
            /\ inflight'[h].user = v /\ inflight'[h].pet = p)
      BY <2>2, <3>1
    <3>b. \A g \in Handlers : g # h => inflight'[g] = inflight[g]
      BY <3>1
    <3>2. Clear(v, p)' \subseteq Clear(v, p)
      BY <3>a, <3>b DEF Clear, SubmitsFor
    <3> QED BY <1>q, <1>r, <1>2, <3>2 DEF SubmitLookup
  <2> QED BY <2>1, <2>2
<1>3. ASSUME NEW h \in Handlers, NEW id \in AppIds, SubmitWrite(h, id)
      PROVE  Goal
  <2> DEFINE r == inflight[h]
             a == [user |-> r.user, pet |-> r.pet, org |-> PetOrg[r.pet],
                   status |-> "submitted"]
  <2>1. /\ r \in Submitting /\ apps[id] = NoApp /\ a \in Applications
        /\ apps' = [apps EXCEPT ![id] = a]
        /\ inflight' = [inflight EXCEPT ![h] = Idle]
        /\ unaware' = IF r.stage = "unaware" THEN unaware \cup {id} ELSE unaware
        /\ r.stage \in {"write", "unaware"}
    BY <1>3 DEF SubmitWrite, NewApplication, Applications, AppStatuses
  <2>2. /\ a.user = r.user /\ a.pet = r.pet /\ a # NoApp
        /\ apps'[id] = a /\ \A x \in AppIds : x # id => apps'[x] = apps[x]
    BY <2>1
  <2>3. id \notin FindByUserAndPet(v, p)
    BY <2>1 DEF FindByUserAndPet, AppsFor, Live
  <2>4. FindByUserAndPet(v, p)' = IF r.user = v /\ r.pet = p
                                  THEN FindByUserAndPet(v, p) \cup {id}
                                  ELSE FindByUserAndPet(v, p)
    <3> HIDE DEF a, r
    <3> QED BY <2>1, <2>2 DEF FindByUserAndPet, AppsFor, Live
  <2>5. Clear(v, p)' = Clear(v, p) \ {h}
    BY <2>1 DEF Clear, SubmitsFor
  <2>6. CASE r.user = v /\ r.pet = p /\ r.stage = "write" /\ id \notin unaware
    <3>1. /\ id \notin Aware(v, p) /\ Aware(v, p)' = Aware(v, p) \cup {id}
          /\ h \in Clear(v, p)
      BY <1>a, <2>1, <2>3, <2>4, <2>6 DEF Clear, SubmitsFor
    <3>2. /\ Cardinality(Aware(v, p)') = Cardinality(Aware(v, p)) + 1
          /\ Cardinality(Clear(v, p)') = Cardinality(Clear(v, p)) - 1
      <4>1. Cardinality(Aware(v, p) \cup {id}) = Cardinality(Aware(v, p)) + 1
        BY <1>0, <3>1, FS_AddElement
      <4>2. Cardinality(Clear(v, p) \ {h}) = Cardinality(Clear(v, p)) - 1
        BY <1>0, <3>1, FS_RemoveElement
      <4> QED BY <2>5, <3>1, <4>1, <4>2
    <3>3. /\ Cardinality(Aware(v, p)) \in Nat /\ Cardinality(Clear(v, p)) \in Nat
          /\ Cardinality(Handlers) \in Nat
      BY <1>0, FS_CardinalityType
    <3>4. Cardinality(Aware(v, p)) + Cardinality(Clear(v, p)) <= Cardinality(Handlers)
      BY DEF BurstInv, DuplicatesOverlap
    <3> QED BY <3>2, <3>3, <3>4 DEF Goal
  <2>7. CASE ~(r.user = v /\ r.pet = p /\ r.stage = "write" /\ id \notin unaware)
    <3>1. Aware(v, p)' = Aware(v, p)
      BY <1>a, <2>1, <2>3, <2>4, <2>7
    <3> QED BY <1>q, <2>5, <3>1
  <2> QED BY <2>6, <2>7
<1>4. ASSUME NEW h \in Handlers, NEW u \in Users, NEW id \in AppIds,
             NEW next \in AppStatuses, MoveRead(h, u, id, next)
      PROVE  Goal
  <2>1. Clear(v, p)' \subseteq Clear(v, p)
    BY <1>4 DEF MoveRead, Clear, SubmitsFor
  <2> QED BY <1>q, <1>r, <1>4, <2>1 DEF MoveRead
<1>5. ASSUME NEW h \in Handlers, MoveWrite(h)
      PROVE  Goal
  <2>1. inflight[h] \in Moving /\ apps[inflight[h].app] \in Applications
    BY <1>5 DEF MoveWrite, Live
  <2>2. FindByUserAndPet(v, p)' = FindByUserAndPet(v, p)
    BY <1>5, <2>1 DEF MoveWrite, FindByUserAndPet, AppsFor, Live, Applications
  <2>3. Clear(v, p)' \subseteq Clear(v, p)
    BY <1>5 DEF MoveWrite, Clear, SubmitsFor
  <2>4. Aware(v, p)' = Aware(v, p)
    BY <1>5, <1>a, <2>2 DEF MoveWrite
  <2> QED BY <1>q, <2>3, <2>4
<1>6. ASSUME UNCHANGED <<apps, unaware>>,
             \/ inflight' = inflight
             \/ \E h \in Handlers : inflight' = [inflight EXCEPT ![h] = Idle]
             \/ inflight' = [h \in Handlers |-> Idle]
      PROVE  Goal
  <2>1. Clear(v, p)' \subseteq Clear(v, p)
    BY <1>6 DEF Clear, SubmitsFor
  <2> QED BY <1>q, <1>r, <1>6, <2>1
<1> QED
  BY <1>1, <1>2, <1>3, <1>4, <1>5, <1>6 DEF Next, SetPetStatus, Fail, Crash, vars, Goal

\* The rows of a pet are finitely many.
LEMMA AppsStayFinite == Spec => []AppsFinite
<1>1. Init => AppliedPetReserved
  BY SeedAssumption DEF Init, AppliedPetReserved, Live, Seeded, Applications
<1>2. Init => BoundInv
  BY BoundInit
<1>3. BoundInv => AppsFinite
  BY DEF BoundInv
<1> QED
  BY <1>1, <1>2, <1>3, TypeInvariant, ReservedStep, BoundStep, PTL DEF Spec

\* A user's applications for a pet are those of one burst of overlapping submissions
\* and of failed lookups, for any number of users, goroutines and reopenings.
THEOREM DuplicatesAreOneBurst == Spec => []DuplicatesOverlap
<1>1. ASSUME Init PROVE DuplicatesOverlap
  <2> SUFFICES ASSUME NEW u \in Users, NEW p \in Pets
               PROVE  Cardinality(Aware(u, p)) + Cardinality(Clear(u, p))
                        <= Cardinality(Handlers)
    BY DEF DuplicatesOverlap
  <2>1. Clear(u, p) = {}
    BY <1>1 DEF Init, Clear, SubmitsFor, Idle
  <2>2. \A x, y \in Aware(u, p) : x = y
    BY <1>1, SeedAssumption DEF Init, Aware, AppsFor, Live, Seeded
  <2>3. Cardinality(Handlers) \in Nat /\ Cardinality(Handlers) # 0
    BY HandlersAssumption, FS_CardinalityType, FS_EmptySet
  <2>4. CASE Aware(u, p) = {}
    BY <2>1, <2>3, <2>4, FS_EmptySet
  <2>5. CASE Aware(u, p) # {}
    <3>1. PICK x \in Aware(u, p) : TRUE
      BY <2>5
    <3>2. Aware(u, p) = {x}
      BY <2>2, <3>1
    <3>3. Cardinality(Aware(u, p)) = 1 /\ Cardinality(Clear(u, p)) = 0
      BY <2>1, <3>2, FS_EmptySet, FS_Singleton
    <3> QED BY <2>3, <3>3
  <2> QED BY <2>4, <2>5
<1>2. AppsFinite /\ DuplicatesOverlap <=> BurstInv
  BY DEF BurstInv
<1> QED
  BY <1>1, <1>2, TypeInvariant, AppsStayFinite, BurstStep, PTL DEF Spec

(***************************************************************************)
(* Approval and hand-over are one event.                                   *)
(***************************************************************************)
\* No step makes an application approved without making its pet adopted, or a pet
\* adopted without an approval or the organization's own word.
THEOREM ApprovalIsHandover == Spec => ApprovalAdoptsPet
<1> DEFINE OneEvent ==
      /\ \A id \in AppIds :
           apps'[id] # apps[id] /\ apps'[id].status = "approved"
             => pets'[apps'[id].pet] = "adopted"
      /\ \A p \in Pets :
           pets'[p] = "adopted" /\ pets[p] # "adopted"
             => \/ "adopted" \in handset'[p]
                \/ \E id \in AppIds : apps'[id] # NoApp /\ apps'[id].pet = p
                                     /\ apps'[id].status = "approved"
<1> USE ConstantsAssumption, NoAppAssumption
<1>1. ASSUME TypeInv, Next PROVE OneEvent
  <2> USE <1>1 DEF TypeInv, TypeOK, MovesHaveRows, Live, Requests, Idle,
                   Submitting, Moving, Applications
  <2>1. ASSUME NEW h \in Handlers, NEW id \in AppIds, SubmitWrite(h, id)
        PROVE  OneEvent
    BY <2>1 DEF SubmitWrite, NewApplication, Reserved
  <2>2. ASSUME NEW h \in Handlers, MoveWrite(h)
        PROVE  OneEvent
    <3>1. inflight[h] \in Moving /\ inflight[h].app \in Live
      BY <2>2 DEF MoveWrite, PetsAfterMove
    <3>2. /\ apps' = [apps EXCEPT ![inflight[h].app].status = inflight[h].next]
          /\ apps[inflight[h].app] \in Applications
      BY <2>2, <3>1 DEF MoveWrite, PetsAfterMove
    <3>3. CASE inflight[h].next = "approved"
      BY <2>2, <3>1, <3>2, <3>3 DEF MoveWrite, PetsAfterMove
    <3>4. CASE inflight[h].next # "approved"
      BY <2>2, <3>1, <3>2, <3>4 DEF MoveWrite, PetsAfterMove
    <3> QED BY <3>3, <3>4
  <2>3. ASSUME NEW u \in Users, NEW p \in Pets, NEW s \in PetStatuses,
               SetPetStatus(u, p, s)
        PROVE  OneEvent
    BY <2>3 DEF SetPetStatus
  <2>4. ASSUME UNCHANGED rows
        PROVE  OneEvent
    BY <2>4 DEF rows
  <2> QED
    BY <2>1, <2>2, <2>3, <2>4
       DEF Next, SubmitReadPet, SubmitLookup, MoveRead, Fail, Crash, rows
<1> QED
  BY <1>1, TypeInvariant, PTL DEF Spec, ApprovalAdoptsPet

(***************************************************************************)
(* Requests that do not overlap on a pet are atomic.  While one of them is *)
(* under way nothing it has checked changes: the pet it found available is *)
(* available, the application it did not find does not exist, and the      *)
(* transition it checked starts from the status that is committed.         *)
(***************************************************************************)
AloneOnPet ==
  \A g, h \in Handlers : \A p \in Pets : Concerns(g, p) /\ Concerns(h, p) => g = h

ChecksStillHold ==
  \A h \in Handlers :
    LET r == inflight[h]
    IN  /\ r.op = "submit" => pets[r.pet] = "available"
        /\ r.op = "submit" /\ r.stage = "write" => FindByUserAndPet(r.user, r.pet) = {}
        /\ r.op = "submit" /\ r.stage = "unaware" =>
             \E x \in Live : apps[x].user = r.user /\ apps[x].pet = r.pet
        /\ r.op = "move" => r.next \in NextApplicationStatuses(apps[r.app].status)

IsolatedInv == TypeInv /\ AloneOnPet /\ ChecksStillHold

\* A step of the isolated system is one of the system.
LEMMA IsolatedStepIsStep == [IsolatedNext]_vars => [Next]_vars
BY DEF IsolatedNext, Next, Live

\* Requests about one pet at a time keep what each of them has checked true.
LEMMA IsolatedInvStep ==
  IsolatedInv /\ [IsolatedNext]_vars => IsolatedInv'
<1> USE ConstantsAssumption, NoAppAssumption
<1> SUFFICES ASSUME IsolatedInv, [IsolatedNext]_vars
             PROVE  AloneOnPet' /\ ChecksStillHold'
  BY IsolatedStepIsStep, TypeInvStep DEF IsolatedInv
<1>0. TypeInv'
  BY IsolatedStepIsStep, TypeInvStep DEF IsolatedInv
<1> USE DEF IsolatedInv, TypeInv, TypeOK, MovesHaveRows, Live, Requests, Idle,
            Submitting, Moving, AloneOnPet, ChecksStillHold, Concerns,
            Undisturbed, FindByUserAndPet, AppsFor
<1> DEFINE Goal == AloneOnPet' /\ ChecksStillHold'
<1>1. ASSUME NEW h \in Handlers, NEW u \in Users, NEW p \in Pets,
             Undisturbed(p), SubmitReadPet(h, u, p)
      PROVE  Goal
  <2>1. AloneOnPet'
    BY <1>1 DEF SubmitReadPet
  <2>2. ChecksStillHold'
    BY <1>1 DEF SubmitReadPet
  <2> QED BY <2>1, <2>2
<1>2. ASSUME NEW h \in Handlers, SubmitLookup(h)
      PROVE  Goal
  <2>1. /\ apps' = apps /\ inflight[h].op = "submit"
        /\ \/ inflight' = [inflight EXCEPT ![h] = Idle]
           \/ inflight' = [inflight EXCEPT ![h].stage = "write"]
           \/ inflight' = [inflight EXCEPT ![h].stage = "unaware"]
    BY <1>2 DEF SubmitLookup
  <2>2. \A g \in Handlers, p \in Pets : Concerns(g, p)' => Concerns(g, p)
    BY <2>1
  <2>3. AloneOnPet'
    <3> HIDE DEF Concerns
    <3> QED BY <2>2
  <2>4. CASE FindByUserAndPet(inflight[h].user, inflight[h].pet) = {}
    <3>1. \/ inflight' = [inflight EXCEPT ![h] = Idle]
          \/ inflight' = [inflight EXCEPT ![h].stage = "write"]
      BY <1>2, <2>4 DEF SubmitLookup
    <3> QED BY <1>2, <2>3, <2>4, <3>1 DEF SubmitLookup
  <2>5. CASE FindByUserAndPet(inflight[h].user, inflight[h].pet) # {}
    <3>1. \/ inflight' = [inflight EXCEPT ![h] = Idle]
          \/ inflight' = [inflight EXCEPT ![h].stage = "unaware"]
      BY <1>2, <2>5 DEF SubmitLookup
    <3>2. /\ inflight[h] \in Submitting /\ UNCHANGED <<pets, apps>>
          /\ \E x \in Live : apps[x].user = inflight[h].user /\ apps[x].pet = inflight[h].pet
      BY <1>2, <2>5 DEF SubmitLookup
    <3>3. CASE inflight' = [inflight EXCEPT ![h] = Idle]
      BY <2>3, <3>2, <3>3
    <3>4. CASE inflight' = [inflight EXCEPT ![h].stage = "unaware"]
      <4>1. /\ inflight'[h].op = "submit" /\ inflight'[h].stage = "unaware"
            /\ inflight'[h].user = inflight[h].user /\ inflight'[h].pet = inflight[h].pet
            /\ \A g \in Handlers : g # h => inflight'[g] = inflight[g]
        BY <3>2, <3>4
      <4>2. ChecksStillHold'
        BY <3>2, <4>1
      <4> QED BY <2>3, <4>2
    <3> QED BY <3>1, <3>3, <3>4
  <2> QED BY <2>4, <2>5
<1>3. ASSUME NEW h \in Handlers, NEW id \in AppIds, SubmitWrite(h, id)
      PROVE  Goal
  <2> DEFINE r == inflight[h]
             a == [user |-> r.user, pet |-> r.pet, org |-> PetOrg[r.pet],
                   status |-> "submitted"]
  <2>2. /\ r \in Submitting /\ apps[id] = NoApp /\ a \in Applications /\ a.pet = r.pet
        /\ apps' = [apps EXCEPT ![id] = a] /\ pets' = [pets EXCEPT ![r.pet] = "pending"]
        /\ inflight' = [inflight EXCEPT ![h] = Idle]
    BY <1>3 DEF SubmitWrite, NewApplication, Reserved, Applications, AppStatuses
  <2>3. \A g \in Handlers : inflight'[g].op # "idle" => g # h /\ inflight'[g] = inflight[g]
    BY <2>2
  <2>4. /\ \A x \in Live : x \in Live' /\ apps'[x] = apps[x]
        /\ \A x \in Live' : x \in Live \/ apps'[x].pet = r.pet
    <3> HIDE DEF a
    <3> QED BY <2>2
  <2>5. \A g \in Handlers : g # h /\ inflight[g].op = "submit" =>
          inflight[g].pet # r.pet /\ pets'[inflight[g].pet] = pets[inflight[g].pet]
    BY <2>2
  <2>6. ChecksStillHold'
    <3> HIDE DEF a, r
    <3> QED BY <2>3, <2>4, <2>5
  <2>7. \A g \in Handlers, p \in Pets : Concerns(g, p)' => Concerns(g, p)
    <3> HIDE DEF a, r
    <3> QED BY <2>3, <2>4
  <2>8. AloneOnPet'
    <3> HIDE DEF Concerns
    <3> QED BY <2>7
  <2> QED BY <2>6, <2>8
<1>4. ASSUME NEW h \in Handlers, NEW u \in Users, NEW id \in Live,
             NEW next \in AppStatuses, Undisturbed(apps[id].pet),
             MoveRead(h, u, id, next)
      PROVE  Goal
  <2>1. AloneOnPet'
    BY <1>4 DEF MoveRead, Allowed, Applications
  <2>2. ChecksStillHold'
    BY <1>4 DEF MoveRead, Allowed, Applications
  <2> QED BY <2>1, <2>2
<1>5. ASSUME NEW h \in Handlers, MoveWrite(h)
      PROVE  Goal
  <2>1. AloneOnPet'
    BY <1>5 DEF MoveWrite, PetsAfterMove, Applications
  <2>2. /\ inflight[h] \in Moving /\ apps[inflight[h].app] \in Applications
        /\ inflight' = [inflight EXCEPT ![h] = Idle]
    BY <1>5 DEF MoveWrite
  <2>3. /\ Live' = Live
        /\ \A x \in Live : apps'[x].user = apps[x].user /\ apps'[x].pet = apps[x].pet
    BY <1>5, <2>2 DEF MoveWrite, Applications
  <2>4. \A g \in Handlers : inflight'[g].op # "idle" => g # h /\ inflight'[g] = inflight[g]
    BY <2>2
  <2>5. ChecksStillHold'
    BY <1>5, <2>2, <2>3, <2>4 DEF MoveWrite, PetsAfterMove, Applications
  <2> QED BY <2>1, <2>5
<1>6. ASSUME NEW u \in Users, NEW p \in Pets, NEW s \in PetStatuses,
             Undisturbed(p), SetPetStatus(u, p, s)
      PROVE  Goal
  BY <1>6 DEF SetPetStatus
<1>7. ASSUME NEW h \in Handlers, Fail(h)
      PROVE  Goal
  BY <1>7 DEF Fail
<1>8. ASSUME Crash
      PROVE  Goal
  BY <1>8 DEF Crash
<1>9. ASSUME UNCHANGED vars
      PROVE  Goal
  BY <1>9 DEF vars
<1> QED
  BY <1>1, <1>2, <1>3, <1>4, <1>5, <1>6, <1>7, <1>8, <1>9 DEF IsolatedNext

\* The invariant of the isolated system.
LEMMA IsolatedInvariant ==
  IsolatedSpec => []IsolatedInv
<1>1. Init => IsolatedInv
  BY SeedAssumption
     DEF Init, IsolatedInv, TypeInv, TypeOK, MovesHaveRows, AloneOnPet, Concerns,
         ChecksStillHold, Requests, Idle, PetStatuses, AppStatuses
<1>2. IsolatedInv /\ [IsolatedNext]_vars => IsolatedInv'
  BY IsolatedInvStep
<1> QED
  BY <1>1, <1>2, PTL DEF IsolatedSpec

\* A step of an isolated request is an atomic operation of the lifecycle when it
\* commits, and changes no row before.
LEMMA IsolatedStepRefines ==
  IsolatedInv /\ [IsolatedNext]_vars => [Lifecycle!Next]_(Lifecycle!rows)
<1> USE ConstantsAssumption, NoAppAssumption
<1> SUFFICES ASSUME IsolatedInv, [IsolatedNext]_vars
             PROVE  Lifecycle!Next \/ UNCHANGED rows
  BY DEF rows, Lifecycle!rows
<1> USE DEF IsolatedInv, TypeInv, TypeOK, MovesHaveRows, Live, Requests, Idle,
            Submitting, Moving, ChecksStillHold, NextApplicationStatuses,
            Lifecycle!NextApplicationStatuses
<1>1. ASSUME NEW h \in Handlers, NEW id \in AppIds, SubmitWrite(h, id)
      PROVE  Lifecycle!Next
  <2>1. Lifecycle!Apply(inflight[h].user, inflight[h].pet, id)
    BY <1>1 DEF SubmitWrite, NewApplication, Reserved, Lifecycle!Apply, Lifecycle!Earlier,
                 FindByUserAndPet, AppsFor
  <2>2. inflight[h].user \in Users /\ inflight[h].pet \in Pets
    BY <1>1 DEF SubmitWrite, NewApplication, Reserved
  <2> QED BY <2>1, <2>2 DEF Lifecycle!Next
<1>2. ASSUME NEW h \in Handlers, MoveWrite(h)
      PROVE  Lifecycle!Next
  <2>1. inflight[h] \in Moving /\ inflight[h].app \in Live
    BY <1>2 DEF MoveWrite, PetsAfterMove
  <2>2. CASE inflight[h].next = "approved"
    <3>1. Lifecycle!Approve(inflight[h].app)
      BY <1>2, <2>1, <2>2 DEF MoveWrite, PetsAfterMove, Lifecycle!Approve
    <3> QED BY <2>1, <3>1 DEF Lifecycle!Next
  <2>3. CASE inflight[h].next # "approved"
    <3>1. Lifecycle!Advance(inflight[h].app, inflight[h].next)
      BY <1>2, <2>1, <2>3 DEF MoveWrite, PetsAfterMove, Lifecycle!Advance
    <3>2. inflight[h].next \in Lifecycle!AppStatuses
      BY <2>1 DEF AppStatuses, Lifecycle!AppStatuses
    <3> QED BY <2>1, <3>1, <3>2 DEF Lifecycle!Next
  <2> QED BY <2>2, <2>3
<1>3. ASSUME NEW u \in Users, NEW p \in Pets, NEW s \in PetStatuses, SetPetStatus(u, p, s)
      PROVE  Lifecycle!Next
  BY <1>3 DEF SetPetStatus, Lifecycle!Reopen, Lifecycle!Next, PetStatuses,
              Lifecycle!PetStatuses
<1> QED
  BY <1>1, <1>2, <1>3
     DEF IsolatedNext, SubmitReadPet, SubmitLookup, MoveRead, Fail, Crash, vars, rows

\* Requests that do not overlap on a pet implement the atomic lifecycle, which admits a
\* second application of a user for a pet only where a lookup failed.
THEOREM IsolatedImplementsLifecycle ==
  IsolatedSpec => ImplementsLifecycle
<1>1. Init => Lifecycle!Init
  BY DEF Init, Lifecycle!Init
<1>2. IsolatedInv /\ [IsolatedNext]_vars => [Lifecycle!Next]_(Lifecycle!rows)
  BY IsolatedStepRefines
<1> QED
  BY <1>1, <1>2, IsolatedInvariant, PTL
     DEF IsolatedSpec, ImplementsLifecycle, Lifecycle!Spec

(***************************************************************************)
(* What the lifecycle promises, inherited by isolated requests.            *)
(***************************************************************************)
\* Each operation of the lifecycle moves an application forward or leaves it alone.
LEMMA LifecycleGoesForward ==
  ASSUME TypeInv, Lifecycle!Next, NEW id \in AppIds, apps[id] # NoApp, apps'[id] # apps[id]
  PROVE  /\ apps'[id] # NoApp
         /\ apps'[id].status \in Lifecycle!NextApplicationStatuses(apps[id].status)
<1> USE NoAppAssumption DEF TypeInv, TypeOK
<1>1. ASSUME NEW x \in AppIds, NEW next \in AppStatuses, apps[x] # NoApp,
             next \in Lifecycle!NextApplicationStatuses(apps[x].status),
             apps' = [apps EXCEPT ![x].status = next]
      PROVE  /\ apps'[id] # NoApp
             /\ apps'[id].status \in Lifecycle!NextApplicationStatuses(apps[id].status)
  <2>1. x = id /\ apps'[id] = [apps[id] EXCEPT !.status = next]
    BY <1>1
  <2>2. apps[id] \in Applications /\ [apps[id] EXCEPT !.status = next] \in Applications
    BY DEF Applications
  <2>3. [apps[id] EXCEPT !.status = next].status = next
    BY <2>2 DEF Applications
  <2> QED BY <1>1, <2>1, <2>2, <2>3
<1>2. ASSUME NEW u \in Users, NEW p \in Pets, NEW x \in AppIds, Lifecycle!Apply(u, p, x)
      PROVE  FALSE
  BY <1>2 DEF Lifecycle!Apply
<1>3. ASSUME NEW p \in Pets, NEW s \in Lifecycle!PetStatuses, Lifecycle!Reopen(p, s)
      PROVE  FALSE
  BY <1>3 DEF Lifecycle!Reopen
<1>4. Lifecycle!AppStatuses = AppStatuses /\ "approved" \in AppStatuses
  BY DEF AppStatuses, Lifecycle!AppStatuses
<1> QED
  BY <1>1, <1>2, <1>3, <1>4 DEF Lifecycle!Next, Lifecycle!Advance, Lifecycle!Approve

\* Without overlap a decided application is never changed: what two overlapping status
\* changes may do, requests that do not overlap cannot.
THEOREM IsolatedFollowsStateMachine ==
  IsolatedSpec => FollowsStateMachine
<1>1. IsolatedInv /\ [Lifecycle!Next]_(Lifecycle!rows) =>
        [\A id \in AppIds :
           apps[id] # NoApp /\ apps'[id] # apps[id]
             => /\ apps'[id] # NoApp
                /\ apps'[id].status
                     \in Lifecycle!NextApplicationStatuses(apps[id].status)]_(Lifecycle!rows)
  BY LifecycleGoesForward DEF IsolatedInv
<1> QED
  BY <1>1, IsolatedInvariant, IsolatedStepRefines, PTL
     DEF IsolatedSpec, FollowsStateMachine, Lifecycle!FollowsStateMachine

(***************************************************************************)
(* What became of a pet.                                                   *)
(***************************************************************************)
Follows(p) ==
  \/ pets[p] = "available" /\ AppsFor(p) = {}
  \/ \E id \in Live :
       /\ AppsFor(p) = {id}
       /\ pets[p] = IF apps[id].status = "approved" THEN "adopted" ELSE "pending"

\* Each step leaves a pet that no organization has touched as its application has it.
LEMMA FollowsStep ==
  IsolatedInv /\ PetFollowsApplication /\ [IsolatedNext]_vars => PetFollowsApplication'
<1> USE ConstantsAssumption, NoAppAssumption
<1> SUFFICES ASSUME IsolatedInv, PetFollowsApplication, [IsolatedNext]_vars,
                    NEW p \in Pets, handset'[p] = {}
             PROVE  Follows(p)'
  BY DEF PetFollowsApplication, Follows
<1>0. /\ TypeOK /\ MovesHaveRows /\ ChecksStillHold
      /\ apps \in [AppIds -> Applications \cup {NoApp}] /\ pets \in [Pets -> PetStatuses]
  BY DEF IsolatedInv, TypeInv, TypeOK
<1>1. ASSUME NEW h \in Handlers, NEW id \in AppIds, SubmitWrite(h, id)
      PROVE  Follows(p)'
  <2> DEFINE r == inflight[h]
             a == [user |-> r.user, pet |-> r.pet, org |-> PetOrg[r.pet],
                   status |-> "submitted"]
  <2>1. /\ apps[id] = NoApp /\ apps' = [apps EXCEPT ![id] = a]
        /\ pets' = [pets EXCEPT ![r.pet] = "pending"] /\ handset' = handset
        /\ r.pet \in Pets /\ pets[r.pet] = "available" /\ a \in Applications
    BY <1>0, <1>1 DEF SubmitWrite, NewApplication, Reserved, ChecksStillHold, TypeOK,
                      Requests, Submitting, Moving, Idle, Applications, AppStatuses
  <2>2. a.pet = r.pet /\ a.status = "submitted" /\ a # NoApp
    BY <2>1
  <2> HIDE DEF a, r
  <2>3. Follows(p)
    BY <2>1 DEF PetFollowsApplication, Follows
  <2>4. apps'[id] = a /\ \A x \in AppIds : x # id => apps'[x] = apps[x]
    BY <1>0, <2>1
  <2>5. CASE r.pet = p
    <3>1. AppsFor(p) = {}
      BY <2>1, <2>3, <2>5 DEF Follows
    <3>2. AppsFor(p)' = {id}
      BY <2>2, <2>4, <2>5, <3>1 DEF AppsFor, Live
    <3>3. pets'[p] = "pending"
      BY <1>0, <2>1, <2>5
    <3>4. id \in Live'
      BY <2>2, <2>4 DEF Live
    <3> QED BY <2>2, <2>4, <3>2, <3>3, <3>4 DEF Follows
  <2>6. CASE r.pet # p
    <3>1. AppsFor(p)' = AppsFor(p) /\ pets'[p] = pets[p]
      BY <1>0, <2>1, <2>2, <2>4, <2>6 DEF AppsFor, Live
    <3>2. \A x \in Live : x \in Live' /\ apps'[x] = apps[x]
      BY <2>1, <2>4 DEF Live
    <3> QED BY <2>3, <3>1, <3>2 DEF Follows
  <2> QED BY <2>5, <2>6
<1>2. ASSUME NEW h \in Handlers, MoveWrite(h)
      PROVE  Follows(p)'
  <2> DEFINE r == inflight[h]
             a == apps[r.app]
  <2>1. /\ r.app \in Live /\ a \in Applications /\ r.next \in AppStatuses
        /\ r.next \in NextApplicationStatuses(a.status)
    BY <1>0, <1>2 DEF MoveWrite, MovesHaveRows, ChecksStillHold, TypeOK, Live,
                      Requests, Submitting, Moving, Idle
  <2>2. /\ apps' = [apps EXCEPT ![r.app] = [a EXCEPT !.status = r.next]]
        /\ pets' = IF r.next = "approved" THEN [pets EXCEPT ![a.pet] = "adopted"] ELSE pets
        /\ handset' = handset
    BY <1>2 DEF MoveWrite, PetsAfterMove
  <2>3. a.status # "approved"
    BY <2>1 DEF NextApplicationStatuses
  <2>4. /\ a.pet \in Pets /\ r.app \in AppIds
        /\ [a EXCEPT !.status = r.next] \in Applications
        /\ [a EXCEPT !.status = r.next].pet = a.pet
        /\ [a EXCEPT !.status = r.next].status = r.next
    BY <2>1 DEF Applications, Live
  <2> DEFINE b == [a EXCEPT !.status = r.next]
  <2>5. /\ apps'[r.app] = b /\ b # NoApp /\ b.pet = a.pet /\ b.status = r.next
        /\ \A x \in AppIds : x # r.app => apps'[x] = apps[x]
    BY <1>0, <2>2, <2>4
  <2>6. Follows(p)
    BY <2>2 DEF PetFollowsApplication, Follows
  <2>7. apps[r.app] = a
    OBVIOUS
  <2> HIDE DEF a, b, r
  <2>8. Live' = Live /\ AppsFor(p)' = AppsFor(p)
    BY <2>1, <2>4, <2>5, <2>7 DEF Live, AppsFor
  <2>9. CASE a.pet = p
    <3>1. r.app \in AppsFor(p)
      BY <2>1, <2>7, <2>9 DEF AppsFor
    <3>2. AppsFor(p) = {r.app} /\ pets[p] = "pending"
      BY <2>3, <2>6, <2>7, <3>1 DEF Follows
    <3>3. pets'[p] = IF r.next = "approved" THEN "adopted" ELSE "pending"
      BY <1>0, <2>2, <2>9, <3>2
    <3> QED BY <2>1, <2>5, <2>8, <3>2, <3>3 DEF Follows
  <2>10. CASE a.pet # p
    <3>1. pets'[p] = pets[p]
      BY <1>0, <2>2, <2>10
    <3>2. \A x \in AppsFor(p) : apps'[x] = apps[x]
      BY <2>5, <2>7, <2>10 DEF AppsFor, Live
    <3> QED BY <2>6, <2>8, <3>1, <3>2 DEF Follows
  <2> QED BY <2>9, <2>10
<1>3. ASSUME NEW u \in Users, NEW q \in Pets, NEW s \in PetStatuses, SetPetStatus(u, q, s)
      PROVE  Follows(p)'
  <2>1. handset \in [Pets -> SUBSET PetStatuses]
    BY <1>0 DEF TypeOK
  <2>2. q # p /\ handset[p] = {}
    BY <1>3, <2>1 DEF SetPetStatus
  <2>3. pets'[p] = pets[p] /\ apps' = apps
    BY <1>0, <1>3, <2>2 DEF SetPetStatus
  <2> QED BY <2>2, <2>3 DEF PetFollowsApplication, Follows, AppsFor, Live
<1>4. ASSUME UNCHANGED <<pets, apps, handset>>
      PROVE  Follows(p)'
  BY <1>4 DEF PetFollowsApplication, Follows, AppsFor, Live
<1> QED
  BY <1>1, <1>2, <1>3, <1>4
     DEF IsolatedNext, SubmitReadPet, SubmitLookup, MoveRead, Fail, Crash, vars

\* Without overlap the status of a pet says what became of it, until its organization
\* sets it by hand.
THEOREM IsolatedPetFollows ==
  IsolatedSpec => []PetFollowsApplication
<1>1. Init => PetFollowsApplication
  <2> SUFFICES ASSUME Init, NEW p \in Pets, handset[p] = {}
               PROVE  pets[p] = "available" /\ AppsFor(p) = {}
    BY DEF PetFollowsApplication
  <2> QED BY DEF Init, AppsFor, Live, Seeded
<1> QED
  BY <1>1, IsolatedInvariant, FollowsStep, PTL DEF IsolatedSpec
=============================================================================
