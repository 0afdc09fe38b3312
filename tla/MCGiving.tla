------------------------------ MODULE MCGiving ------------------------------
(***************************************************************************)
(* Giving for TLC: two campaigns, of which one may have an item.           *)
(***************************************************************************)
EXTENDS Giving, TLC

CONSTANTS c1, c2, i1

MCCampaigns == {c1, c2}
MCItems == {i1}
MCHome == i1 :> c1
Symmetry == Permutations(Requests)
=============================================================================
