--------------------------- MODULE MCSoftDelete ---------------------------
(* SoftDelete for TLC: one campaign with two items. *)
EXTENDS SoftDelete, TLC

CONSTANTS c1, i1, i2

MCHome == i1 :> c1 @@ i2 :> c1

Symmetry == Permutations(Requests) \cup Permutations({i1, i2})
=============================================================================
