----------------------------- MODULE MCAdoption -----------------------------
(* Small instances of Adoption: one adopter and the owner of the organizations. *)
EXTENDS Adoption, TLC

CONSTANTS adopter, keeper, a0, p1

MCRole    == adopter :> "user" @@ keeper :> "org"
MCOrgs    == {1, 2}
\* keeper also registered a second organization, which FindByUserID never returns.
MCOrgUser == 1 :> keeper @@ 2 :> keeper
MCPetOrg  == [p \in Pets |-> 1]
MCNoSeed     == [id \in AppIds |-> NoApp]
MCSeedApps == [id \in AppIds |->
  IF id = a0 THEN [user |-> adopter, pet |-> p1, org |-> 1, status |-> "submitted"]
  ELSE NoApp]

Symmetry == Permutations(Handlers) \cup Permutations(AppIds \ {a0})
=============================================================================
