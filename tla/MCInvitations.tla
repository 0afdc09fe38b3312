--------------------------- MODULE MCInvitations ---------------------------
(***************************************************************************)
(* Invitations for TLC: what is interchangeable, and the states the two    *)
(* member rows start in.                                                   *)
(***************************************************************************)
EXTENDS Invitations, TLC

Symmetry ==
  Permutations(Users) \cup Permutations(Ids) \cup Permutations(Emails)
    \cup Permutations(Invitations) \cup Permutations(Requests)
=============================================================================
