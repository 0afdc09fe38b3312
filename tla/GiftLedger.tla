----------------------------- MODULE GiftLedger -----------------------------
(***************************************************************************)
(* What a church expects of its books: recording, changing, voiding and    *)
(* reinstating a gift each take effect at once, and together with the      *)
(* balance of every pledge the gift is for.  The server's handlers do this *)
(* in several database calls (module PledgeLedger).                        *)
(***************************************************************************)
EXTENDS GiftTables

VARIABLES
  entry,          \* the table of gifts
  balance         \* for each pledge, what has been given towards it

ledger == <<entry, balance>>

(* A batch of new gifts, all or none. *)
Record(rows) ==
  /\ \A g \in DOMAIN rows : entry[g].row = "absent"
  /\ entry' = Inserted(entry, rows)
  /\ balance' = [p \in Pledges |-> balance[p] + BatchTowards(rows, p)]

(* Gift g becomes the row x, and the balances follow. *)
Rewrite(g, x) ==
  /\ entry' = [entry EXCEPT ![g] = x]
  /\ balance' = [p \in Pledges |->
                   balance[p] + Credit(x, p) - Credit(entry[g], p)]

Amend(g) ==
  /\ entry[g].row = "live"
  /\ \E x \in GiftData :
       Rewrite(g, [row |-> "live", amount |-> x.amount, pledge |-> x.pledge])

Void(g) ==
  /\ entry[g].row = "live"
  /\ Rewrite(g, [entry[g] EXCEPT !.row = "archived"])

Reinstate(g) ==
  /\ entry[g].row = "archived"
  /\ Rewrite(g, [entry[g] EXCEPT !.row = "live"])

LedgerInit ==
  /\ entry \in [Gifts -> GiftRow]
  /\ balance = [p \in Pledges |-> GiftsTowards(entry, p)]

LedgerNext ==
  \/ \E rows \in Batches : Record(rows)
  \/ \E g \in Gifts : Amend(g) \/ Void(g) \/ Reinstate(g)

LedgerSpec == LedgerInit /\ [][LedgerNext]_ledger

EntriesTypeOK ==
  /\ entry \in [Gifts -> GiftRow]
  /\ balance \in [Pledges -> Int]

(* A balance is the sum of the live gifts towards the pledge. *)
Balanced == \A p \in Pledges : balance[p] = GiftsTowards(entry, p)
=============================================================================
