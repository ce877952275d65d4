----------------------------- MODULE MCBookings -----------------------------
(* Small instances of Bookings: ids, names and appearances are interchangeable. *)
EXTENDS Bookings, TLC

Symmetry == Permutations(Id) \cup Permutations(AutoName) \cup Permutations(Queries)
=============================================================================
