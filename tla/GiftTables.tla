----------------------------- MODULE GiftTables -----------------------------
(***************************************************************************)
(* Gifts (rows of the Transaction table) and what they add up to.          *)
(*                                                                         *)
(* A gift has an amount and may be made towards a pledge.  A row is never  *)
(* removed: deleting a gift archives it (sets deletedAt), and an archived  *)
(* gift counts for nothing.  Amounts are whole numbers of cents            *)
(* (Decimal(14, 2) in the schema).  A table maps every id that may ever be *)
(* used to a row; "absent" is the row not created yet.                     *)
(***************************************************************************)
EXTENDS Integers, FiniteSets, Functions

CONSTANTS
  Pledges,        \* ids a Pledge row may get
  Gifts,          \* ids a Transaction row may get
  Amounts,        \* amounts a gift may have
  MaxBatch,       \* most gifts one request records
  NoPledge        \* pledgeId null

ASSUME GiftAssumption ==
  /\ IsFiniteSet(Gifts)
  /\ Amounts \subseteq Nat
  /\ MaxBatch \in Nat \ {0}
  /\ NoPledge \notin Pledges

GiftData == [amount : Amounts, pledge : Pledges \cup {NoPledge}]

AbsentGift == [row |-> "absent", amount |-> 0, pledge |-> NoPledge]

GiftRow ==
  {AbsentGift} \cup [row : {"live", "archived"}, amount : Amounts,
                    pledge : Pledges \cup {NoPledge}]

(* What gift row x adds to pledge p: its amount, while it is live. *)
Credit(x, p) == IF x.row = "live" /\ x.pledge = p THEN x.amount ELSE 0

(* What the gifts of a table add up to for pledge p. *)
GiftsTowards(table, p) ==
  SumFunctionOnSet([g \in Gifts |-> Credit(table[g], p)], Gifts)

(* Gifts to be recorded together, by the ids they will get. *)
Batches ==
  UNION {[ids -> GiftData] :
           ids \in {s \in SUBSET Gifts : s # {} /\ Cardinality(s) <= MaxBatch}}

Inserted(table, rows) ==
  [g \in Gifts |->
     IF g \in DOMAIN rows
     THEN [row |-> "live", amount |-> rows[g].amount, pledge |-> rows[g].pledge]
     ELSE table[g]]

(* What a batch adds to pledge p: several gifts to a pledge make one sum. *)
BatchTowards(rows, p) ==
  SumFunctionOnSet([g \in DOMAIN rows |->
                      IF rows[g].pledge = p THEN rows[g].amount ELSE 0],
                   DOMAIN rows)
=============================================================================
