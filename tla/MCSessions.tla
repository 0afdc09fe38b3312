----------------------------- MODULE MCSessions -----------------------------
(***************************************************************************)
(* Sessions for TLC: what is interchangeable.                              *)
(***************************************************************************)
EXTENDS Sessions, TLC

Symmetry == Permutations(Users) \cup Permutations(Credentials) \cup Permutations(Requests)
=============================================================================
