------------------------------ MODULE MCShelter ------------------------------
(* Small instances of Shelter.                                               *)
EXTENDS Shelter, TLC

CONSTANT keeper

\* The seed's two organizations belong to one user.
MCSeedOwners == <<keeper, keeper>>
\* Half a cent to take away, and amounts that are rounded down to nothing and up.
MCAmounts == {-5, 4, 29}
Symmetry == Permutations(Handlers) \cup Permutations(PetIds)
              \cup Permutations(DonationIds)
=============================================================================
