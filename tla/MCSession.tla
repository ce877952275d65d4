----------------------------- MODULE MCSession -----------------------------
(* Small instances of Session; owners, and taps of one kind, are interchangeable. *)
EXTENDS Session

Symmetry == Permutations(Owner) \cup Permutations(SignIns)

\* Bound: a rating is computed, or salons and pictures change, not both.
InScenario == (\A r \in Rates : stage[r] = "idle")
              \/ \A c \in SignUps \cup Pictures : stage[c] = "idle"
=============================================================================
