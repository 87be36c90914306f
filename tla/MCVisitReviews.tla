--------------------------- MODULE MCVisitReviews ---------------------------
(* Small instances of VisitReviews: one adopted pet, two reviews, three days. *)
EXTENDS VisitReviews, TLC

CONSTANTS adopter, a1, p1

\* The application of the seed data.
MCSeedApps  == [id \in AppIds |->
  IF id = a1 THEN [user |-> adopter, pet |-> p1, org |-> 1, status |-> "submitted"]
  ELSE NoApp]
MCPetOrg    == [p \in Pets |-> 1]
MCDayInputs == {-1, 1}
Symmetry    == Permutations(Handlers) \cup Permutations(ReviewIds)
                 \cup Permutations(Reports \ {NoReport})
=============================================================================
