----------------------------- MODULE MCReviews ------------------------------
(* Small instances of Reviews: a poor comment, one on the edge of a star, a full one. *)
EXTENDS Reviews, TLC

MCStars == {4, 10, 25}
Symmetry == Permutations(Loads) \cup Permutations(AutoName)
=============================================================================
