--------------------------- MODULE MCSessionAlone ---------------------------
(* Small instances of SessionAlone; owners, and taps of one kind, are interchangeable. *)
EXTENDS SessionAlone

Symmetry == Permutations(Owner) \cup Permutations(SignIns)
=============================================================================
