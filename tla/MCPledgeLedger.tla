--------------------------- MODULE MCPledgeLedger ---------------------------
(***************************************************************************)
(* Small instances of PledgeLedger for TLC.  Gifts, pledges and requests   *)
(* are interchangeable: no definition tells one from another.              *)
(***************************************************************************)
EXTENDS PledgeLedger, TLC

Symmetry ==
  Permutations(Gifts) \cup Permutations(Pledges) \cup Permutations(Requests)
=============================================================================
