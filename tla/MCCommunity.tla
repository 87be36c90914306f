----------------------------- MODULE MCCommunity -----------------------------
(* Small instances of Community: one post of the seed, with more comments    *)
(* counted than there are, and one yet to be written.                        *)
EXTENDS Community, TLC

CONSTANTS adopter, p1

MCSeedPosts == [p \in Posts |-> IF p = p1 THEN [likes |-> 32, comments |-> 6] ELSE NoRow]
MCSeedComments ==
  [c \in CommentIds |-> IF c = 1 THEN [post |-> p1, user |-> adopter] ELSE NoRow]
Symmetry == Permutations(Handlers)
=============================================================================
