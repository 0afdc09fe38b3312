------------------------ MODULE PledgeLedger_proofs -------------------------
(***************************************************************************)
(* Proofs about the pledge ledger, for any number of gifts, pledges and    *)
(* requests.                                                               *)
(***************************************************************************)
EXTENDS PledgeLedger, GiftLedger, SumTheorems

(* What each row of a table of gifts is worth to p. *)
Credits(table, p) == [g \in Gifts |-> Credit(table[g], p)]

(* What each row of a batch adds to p. *)
BatchCredits(rows, p) ==
  [g \in DOMAIN rows |-> IF rows[g].pledge = p THEN rows[g].amount ELSE 0]

(***************************************************************************)
(* A row's amount is an integer, and so is the credit it gives: none, for  *)
(* an absent row.                                                          *)
(***************************************************************************)
LEMMA AmountType ==
  ASSUME NEW x \in GiftRow
  PROVE  x.amount \in Int
<1>1. \A a \in Amounts : a \in Int
  BY GiftAssumption
<1>2. CASE x = AbsentGift
  BY <1>2 DEF AbsentGift
<1>3. CASE x \in [row : {"live", "archived"}, amount : Amounts,
                  pledge : Pledges \cup {NoPledge}]
  <2>1. x.amount \in Amounts
    BY <1>3
  <2>2. QED
    BY <1>1, <2>1
<1>4. QED
  BY <1>2, <1>3 DEF GiftRow

LEMMA CreditType ==
  ASSUME NEW x \in GiftRow, NEW p
  PROVE  /\ Credit(x, p) \in Int
         /\ x.row = "absent" => Credit(x, p) = 0
  BY AmountType DEF Credit

LEMMA CreditsType ==
  ASSUME NEW table \in [Gifts -> GiftRow], NEW p
  PROVE  IntOn(Credits(table, p), Gifts)
<1>1. ASSUME NEW g \in Gifts
      PROVE  Credit(table[g], p) \in Int
  BY CreditType
<1>2. QED
  BY <1>1 DEF IntOn, Credits

LEMMA GiftsTowardsType ==
  ASSUME NEW table \in [Gifts -> GiftRow], NEW p
  PROVE  GiftsTowards(table, p) \in Int
<1>1. GiftsTowards(table, p) = SumFunctionOnSet(Credits(table, p), Gifts)
  BY DEF GiftsTowards, Credits
<1>2. QED
  BY <1>1, CreditsType, SumType, GiftAssumption

(***************************************************************************)
(* Writing one row moves the sum by what the row adds now and before.      *)
(***************************************************************************)
LEMMA RewriteMovesSum ==
  ASSUME NEW table \in [Gifts -> GiftRow], NEW g \in Gifts,
         NEW x \in GiftRow, NEW p,
         NEW after \in [Gifts -> GiftRow],
         after[g] = x, \A h \in Gifts \ {g} : after[h] = table[h]
  PROVE  GiftsTowards(after, p)
           = GiftsTowards(table, p) + Credit(x, p) - Credit(table[g], p)
<1>1. IsFiniteSet(Gifts)
  BY GiftAssumption
<1>2. /\ GiftsTowards(table, p) = SumFunctionOnSet(Credits(table, p), Gifts)
      /\ GiftsTowards(after, p) = SumFunctionOnSet(Credits(after, p), Gifts)
  BY DEF GiftsTowards, Credits
<1>3. \A h \in Gifts \ {g} : Credits(table, p)[h] = Credits(after, p)[h]
  BY DEF Credits
<1>4. /\ Credits(table, p)[g] = Credit(table[g], p)
      /\ Credits(after, p)[g] = Credit(x, p)
  BY DEF Credits
<1>5. Credit(table[g], p) \in Int /\ Credit(x, p) \in Int
  BY CreditType
<1>6. GiftsTowards(table, p) \in Int
  BY GiftsTowardsType
<1>7. IntOn(Credits(table, p), Gifts) /\ IntOn(Credits(after, p), Gifts)
  BY CreditsType
<1>8. SumFunctionOnSet(Credits(after, p), Gifts)
        = SumFunctionOnSet(Credits(table, p), Gifts)
            + (Credits(after, p)[g] - Credits(table, p)[g])
  BY <1>1, <1>3, <1>7, SumChangeOne
<1>9. QED
  BY <1>2, <1>4, <1>5, <1>6, <1>8

(***************************************************************************)
(* A batch names finitely many gifts, and adds an integer to a pledge: to  *)
(* a pledge none of its gifts is for, nothing.                             *)
(***************************************************************************)
LEMMA BatchType ==
  ASSUME NEW rows \in Batches
  PROVE  /\ DOMAIN rows \in SUBSET Gifts
         /\ IsFiniteSet(DOMAIN rows)
         /\ rows \in [DOMAIN rows -> GiftData]
<1>1. PICK ids \in SUBSET Gifts : rows \in [ids -> GiftData]
  BY DEF Batches
<1>2. QED
  BY <1>1, FS_Subset, GiftAssumption

LEMMA BatchTowardsType ==
  ASSUME NEW rows \in Batches, NEW p
  PROVE  /\ IntOn(BatchCredits(rows, p), DOMAIN rows)
         /\ BatchTowards(rows, p) = SumFunctionOnSet(BatchCredits(rows, p), DOMAIN rows)
         /\ BatchTowards(rows, p) \in Int
<1>1. ASSUME NEW g \in DOMAIN rows
      PROVE  BatchCredits(rows, p)[g] \in Int
  BY BatchType, GiftAssumption DEF BatchCredits, GiftData
<1>2. BatchTowards(rows, p) = SumFunctionOnSet(BatchCredits(rows, p), DOMAIN rows)
  BY DEF BatchTowards, BatchCredits
<1>3. IntOn(BatchCredits(rows, p), DOMAIN rows)
  BY <1>1 DEF IntOn
<1>4. QED
  BY <1>2, <1>3, BatchType, SumType

LEMMA BatchTowardsUnnamed ==
  ASSUME NEW rows \in Batches, NEW p,
         \A g \in DOMAIN rows : rows[g].pledge # p
  PROVE  BatchTowards(rows, p) = 0
<1>1. \A g \in (DOMAIN rows) \ {} : BatchCredits(rows, p)[g] = 0
  BY DEF BatchCredits
<1>2. SumFunctionOnSet(BatchCredits(rows, p), DOMAIN rows)
        = SumFunctionOnSet(BatchCredits(rows, p), {})
  BY <1>1, BatchType, BatchTowardsType, SumSubset
<1>3. QED
  BY <1>2, BatchTowardsType, SumEmpty

(***************************************************************************)
(* A batch of new rows moves the sum by what the batch adds.               *)
(***************************************************************************)
LEMMA InsertMovesSum ==
  ASSUME NEW table \in [Gifts -> GiftRow], NEW rows \in Batches, NEW p,
         \A g \in DOMAIN rows : table[g].row = "absent"
  PROVE  /\ Inserted(table, rows) \in [Gifts -> GiftRow]
         /\ GiftsTowards(Inserted(table, rows), p)
              = GiftsTowards(table, p) + BatchTowards(rows, p)
<1> DEFINE after == Inserted(table, rows)
           extra == [g \in Gifts |->
                       IF g \in DOMAIN rows THEN BatchCredits(rows, p)[g] ELSE 0]
<1>1. after \in [Gifts -> GiftRow]
  BY BatchType DEF Inserted, GiftRow, GiftData
<1>2. IntOn(extra, Gifts)
  BY BatchTowardsType DEF IntOn
<1>3. ASSUME NEW g \in Gifts
      PROVE  Credits(after, p)[g] = Credits(table, p)[g] + extra[g]
  <2>1. CASE g \in DOMAIN rows
    <3>1. /\ after[g] = [row |-> "live", amount |-> rows[g].amount,
                         pledge |-> rows[g].pledge]
      BY <2>1 DEF Inserted
    <3>2. Credit(after[g], p) = BatchCredits(rows, p)[g]
      BY <2>1, <3>1 DEF Credit, BatchCredits
    <3>3. Credit(table[g], p) = 0
      BY <2>1, CreditType
    <3>4. BatchCredits(rows, p)[g] \in Int
      BY <2>1, BatchTowardsType DEF IntOn
    <3> HIDE DEF after
    <3>5. QED
      BY <2>1, <3>2, <3>3, <3>4 DEF Credits
  <2>2. CASE g \notin DOMAIN rows
    <3>1. after[g] = table[g]
      BY <2>2 DEF Inserted
    <3>2. Credit(table[g], p) \in Int
      BY CreditType
    <3> HIDE DEF after
    <3>3. QED
      BY <2>2, <3>1, <3>2 DEF Credits
  <2>3. QED
    BY <2>1, <2>2
<1>4. SumFunctionOnSet(extra, Gifts) = BatchTowards(rows, p)
  <2>1. SumFunctionOnSet(extra, Gifts) = SumFunctionOnSet(extra, DOMAIN rows)
    <3>1. \A g \in Gifts \ DOMAIN rows : extra[g] = 0
      OBVIOUS
    <3> HIDE DEF extra
    <3>2. QED
      BY <1>2, <3>1, BatchType, SumSubset, GiftAssumption
  <2>2. SumFunctionOnSet(extra, DOMAIN rows)
          = SumFunctionOnSet(BatchCredits(rows, p), DOMAIN rows)
    <3>1. \A g \in DOMAIN rows : extra[g] = BatchCredits(rows, p)[g]
      BY BatchType
    <3>2. IntOn(extra, DOMAIN rows)
      BY <1>2, BatchType DEF IntOn
    <3> HIDE DEF extra
    <3>3. QED
      BY <3>1, <3>2, BatchType, BatchTowardsType, SumSame
  <2>3. QED
    BY <2>1, <2>2, BatchTowardsType
<1>5. /\ GiftsTowards(table, p) = SumFunctionOnSet(Credits(table, p), Gifts)
      /\ GiftsTowards(after, p) = SumFunctionOnSet(Credits(after, p), Gifts)
  BY DEF GiftsTowards, Credits
<1> HIDE DEF after, extra
<1>6. SumFunctionOnSet(Credits(after, p), Gifts)
        = SumFunctionOnSet(Credits(table, p), Gifts) + SumFunctionOnSet(extra, Gifts)
  BY <1>1, <1>2, <1>3, CreditsType, SumAdd, GiftAssumption
<1>7. QED
  BY <1>1, <1>4, <1>5, <1>6 DEF after

-----------------------------------------------------------------------------
Kept == EntriesTypeOK /\ Balanced

LEMMA RewriteKeeps ==
  ASSUME Kept, NEW g \in Gifts, NEW x \in GiftRow, Rewrite(g, x)
  PROVE  Kept'
<1>1. entry' \in [Gifts -> GiftRow]
  BY DEF Kept, EntriesTypeOK, Rewrite
<1>2. ASSUME NEW p \in Pledges
      PROVE  balance'[p] = GiftsTowards(entry', p) /\ balance'[p] \in Int
  <2>1. balance'[p] = balance[p] + Credit(x, p) - Credit(entry[g], p)
    BY DEF Rewrite
  <2>2. GiftsTowards(entry', p) = GiftsTowards(entry, p) + Credit(x, p) - Credit(entry[g], p)
    <3>1. /\ entry \in [Gifts -> GiftRow]
          /\ entry'[g] = x
          /\ \A h \in Gifts \ {g} : entry'[h] = entry[h]
      BY DEF Kept, EntriesTypeOK, Rewrite
    <3>2. QED
      BY <1>1, <3>1, RewriteMovesSum
  <2>3. balance[p] = GiftsTowards(entry, p)
    BY DEF Kept, Balanced
  <2>4. GiftsTowards(entry', p) \in Int
    BY <1>1, GiftsTowardsType
  <2>5. QED
    BY <2>1, <2>2, <2>3, <2>4
<1>3. DOMAIN balance' = Pledges /\ balance' = [p \in Pledges |-> balance'[p]]
  BY DEF Rewrite
<1>4. QED
  BY <1>1, <1>2, <1>3 DEF Kept, EntriesTypeOK, Balanced

LEMMA RecordKeeps ==
  ASSUME Kept, NEW rows \in Batches, Record(rows)
  PROVE  Kept'
<1>1. entry' \in [Gifts -> GiftRow]
  BY InsertMovesSum DEF Kept, EntriesTypeOK, Record
<1>2. ASSUME NEW p \in Pledges
      PROVE  balance'[p] = GiftsTowards(entry', p) /\ balance'[p] \in Int
  <2>1. balance'[p] = balance[p] + BatchTowards(rows, p)
    BY DEF Record
  <2>2. GiftsTowards(entry', p) = GiftsTowards(entry, p) + BatchTowards(rows, p)
    BY InsertMovesSum DEF Kept, EntriesTypeOK, Record
  <2>3. balance[p] = GiftsTowards(entry, p)
    BY DEF Kept, Balanced
  <2>4. GiftsTowards(entry', p) \in Int
    BY <1>1, GiftsTowardsType
  <2>5. QED
    BY <2>1, <2>2, <2>3, <2>4
<1>3. DOMAIN balance' = Pledges /\ balance' = [p \in Pledges |-> balance'[p]]
  BY DEF Record
<1>4. QED
  BY <1>1, <1>2, <1>3 DEF Kept, EntriesTypeOK, Balanced

(***************************************************************************)
(* In the abstract ledger every balance is the sum of the live gifts.      *)
(***************************************************************************)
THEOREM LedgerBalanced == LedgerSpec => [](EntriesTypeOK /\ Balanced)
<1>1. LedgerInit => Kept
  BY GiftsTowardsType DEF LedgerInit, Kept, EntriesTypeOK, Balanced
<1>2. Kept /\ [LedgerNext]_ledger => Kept'
  <2> SUFFICES ASSUME Kept, [LedgerNext]_ledger PROVE Kept'
    OBVIOUS
  <2>1. CASE \E rows \in Batches : Record(rows)
    BY <2>1, RecordKeeps
  <2>2. ASSUME NEW g \in Gifts, Amend(g) PROVE Kept'
    <3>1. PICK x \in GiftData :
            Rewrite(g, [row |-> "live", amount |-> x.amount, pledge |-> x.pledge])
      BY <2>2 DEF Amend
    <3>2. [row |-> "live", amount |-> x.amount, pledge |-> x.pledge] \in GiftRow
      BY DEF GiftData, GiftRow
    <3>3. QED
      BY <3>1, <3>2, RewriteKeeps
  <2>3. ASSUME NEW g \in Gifts, Void(g) PROVE Kept'
    <3>1. [entry[g] EXCEPT !.row = "archived"] \in GiftRow
      BY <2>3 DEF Void, Kept, EntriesTypeOK, GiftRow, AbsentGift
    <3>2. QED
      BY <2>3, <3>1, RewriteKeeps DEF Void
  <2>4. ASSUME NEW g \in Gifts, Reinstate(g) PROVE Kept'
    <3>1. [entry[g] EXCEPT !.row = "live"] \in GiftRow
      BY <2>4 DEF Reinstate, Kept, EntriesTypeOK, GiftRow, AbsentGift
    <3>2. QED
      BY <2>4, <3>1, RewriteKeeps DEF Reinstate
  <2>5. CASE UNCHANGED ledger
    BY <2>5 DEF ledger, Kept, EntriesTypeOK, Balanced
  <2>6. QED
    BY <2>1, <2>2, <2>3, <2>4, <2>5 DEF LedgerNext
<1>3. Kept => EntriesTypeOK /\ Balanced
  BY DEF Kept
<1>4. QED
  BY <1>1, <1>2, <1>3, PTL DEF LedgerSpec

(***************************************************************************)
(* The orders in which a batch's pledges may be visited.                   *)
(***************************************************************************)
LEMMA BatchPledgesType ==
  ASSUME NEW rows \in Batches
  PROVE  /\ IsFiniteSet(BatchPledges(rows))
         /\ BatchPledges(rows) \subseteq Pledges
<1> DEFINE named == {rows[g].pledge : g \in DOMAIN rows}
           f == [g \in DOMAIN rows |-> rows[g].pledge]
<1>1. f \in Surjection(DOMAIN rows, named)
  BY DEF Surjection
<1>2. IsFiniteSet(DOMAIN rows)
  BY BatchType
<1>3. IsFiniteSet(named)
  <2> HIDE DEF f, named
  <2>1. QED
    BY <1>1, <1>2, FS_Surjection
<1>4. BatchPledges(rows) \in SUBSET named
  BY DEF BatchPledges
<1>5. IsFiniteSet(BatchPledges(rows))
  <2> HIDE DEF named
  <2>1. QED
    BY <1>3, <1>4, FS_Subset
<1>6. BatchPledges(rows) \subseteq Pledges
  BY BatchType DEF BatchPledges, GiftData
<1>7. QED
  BY <1>5, <1>6

LEMMA OrderingVisitsAll ==
  ASSUME NEW S, IsFiniteSet(S), NEW visits \in SetToSeqs(S)
  PROVE  /\ visits \in Seq(S)
         /\ Range(visits) = S
<1> DEFINE D == 1..Cardinality(S)
<1>1. Cardinality(S) \in Nat
  BY FS_CardinalityType
<1>2. visits \in [D -> S] /\ \A i, j \in D : i # j => visits[i] # visits[j]
  BY DEF SetToSeqs
<1>3. visits \in Injection(D, S)
  BY <1>2 DEF Injection, IsInjective
<1>4. IsFiniteSet(D) /\ Cardinality(D) = Cardinality(S)
  BY <1>1, FS_Interval
<1>5. visits \in Surjection(D, S)
  <2> HIDE DEF D
  <2>1. QED
    BY <1>3, <1>4, FS_Injection
<1>6. Range(visits) = S
  BY <1>2, <1>5 DEF Surjection, Range
<1>7. visits \in Seq(S)
  BY <1>1, <1>2
<1>8. QED
  BY <1>6, <1>7

(***************************************************************************)
(* Every variable keeps its type, whatever clients and administrators do   *)
(* and wherever a request fails.                                           *)
(***************************************************************************)
LEMMA NamedType ==
  ASSUME NEW p \in Pledges \cup {NoPledge}
  PROVE  Named(p) \in Seq(Pledges)
  BY DEF Named

LEMMA RowDueType ==
  ASSUME NEW x \in GiftRow, NEW sign \in {-1, 1}, NEW p
  PROVE  RowDue(x, sign, p) \in Int
  BY AmountType DEF RowDue

LEMMA GiftRowPledge ==
  ASSUME NEW x \in GiftRow
  PROVE  /\ x.pledge \in Pledges \cup {NoPledge}
         /\ x.row \in Rows
         /\ x.row # "absent" => /\ x.amount \in Amounts
                                /\ x \in [row : {"live", "archived"}, amount : Amounts,
                                          pledge : Pledges \cup {NoPledge}]
  BY DEF GiftRow, AbsentGift, Rows

(* A request's write, as far as the requests' own variables go. *)
LEMMA WrittenType ==
  ASSUME TypeOK, NEW r \in Requests, NEW visits \in Seq(Pledges),
         NEW deltas \in [Pledges -> Int], Written(r, visits, deltas)
  PROVE  /\ pc' \in [Requests -> Places]
         /\ DOMAIN job' = Requests
         /\ \A q \in Requests : job'[q] \in WorkAt(pc'[q])
         /\ queue' \in [Requests -> Seq(Pledges)]
         /\ \A q \in Requests : (pc'[q] = "adjust") => (queue'[q] # <<>>)
         /\ due' \in [Requests -> [Pledges -> Int]]
  BY DEF TypeOK, Written, Places, Unwritten, WorkAt

LEMMA FailType ==
  ASSUME TypeOK, NEW r \in Requests, Fail(r)
  PROVE  TypeOK'
  BY DEF TypeOK, Fail, Places, Unwritten, WorkAt

LEMMA BeginType ==
  ASSUME TypeOK, NEW r \in Requests, NEW place \in Unwritten,
         NEW work \in WorkAt(place), Begin(r, place, work)
  PROVE  TypeOK'
<1>1. place # "adjust" /\ place \in Places
  BY DEF Unwritten, Places
<1>2. pc' \in [Requests -> Places] /\ DOMAIN job' = Requests
  BY <1>1 DEF TypeOK, Begin
<1>3. ASSUME NEW q \in Requests
      PROVE  /\ job'[q] \in WorkAt(pc'[q])
             /\ (pc'[q] = "adjust") => (queue'[q] # <<>>)
  <2>1. CASE q = r
    <3>1. pc'[q] = place /\ job'[q] = work
      BY <2>1 DEF TypeOK, Begin
    <3>2. QED
      BY <1>1, <3>1
  <2>2. CASE q # r
    <3>1. pc'[q] = pc[q] /\ job'[q] = job[q] /\ queue' = queue
      BY <2>2 DEF TypeOK, Begin
    <3>2. QED
      BY <3>1 DEF TypeOK
  <2>3. QED
    BY <2>1, <2>2
<1>4. QED
  BY <1>2, <1>3 DEF TypeOK, Begin

LEMMA DueForRowType ==
  ASSUME NEW x \in GiftRow, NEW sign \in {-1, 1}
  PROVE  DueForRow(x, sign) \in [Pledges -> Int]
  BY RowDueType DEF DueForRow

LEMMA DueForMoveType ==
  ASSUME NEW x \in GiftRow, NEW y \in GiftRow
  PROVE  /\ DueForMove(x, y) \in [Pledges -> Int]
         /\ MoveVisits(x, y) \in Seq(Pledges)
<1>1. ASSUME NEW p \in Pledges
      PROVE  RowDue(y, 1, p) + RowDue(x, -1, p) \in Int
  BY RowDueType
<1>2. DueForMove(x, y) \in [Pledges -> Int]
  BY <1>1 DEF DueForMove
<1>3. Named(x.pledge) \in Seq(Pledges) /\ Named(y.pledge) \in Seq(Pledges)
  BY GiftRowPledge, NamedType
<1>4. Named(x.pledge) \o Named(y.pledge) \in Seq(Pledges)
  BY <1>3
<1>5. MoveVisits(x, y) \in Seq(Pledges)
  BY <1>3, <1>4 DEF MoveVisits
<1>6. QED
  BY <1>2, <1>5

LEMMA PatchedType ==
  ASSUME NEW x \in GiftRow, x.row = "live", NEW patch \in Patches
  PROVE  /\ Patched(x, patch) \in GiftRow
         /\ Patched(x, patch).row = "live"
<1>1. /\ x \in [row : {"live", "archived"}, amount : Amounts,
                pledge : Pledges \cup {NoPledge}]
  BY GiftRowPledge
<1>2. /\ patch.amount # Keep => patch.amount \in Amounts
      /\ patch.pledge # Keep => patch.pledge \in Pledges \cup {NoPledge}
  BY DEF Patches
<1>3. QED
  BY <1>1, <1>2 DEF Patched, GiftRow

LEMMA AdjustedType ==
  ASSUME NEW x \in PledgeRow, NEW delta \in Int
  PROVE  /\ Adjusted(x, delta) \in PledgeRow
         /\ Adjusted(x, delta).row = x.row
         /\ Adjusted(x, delta).paid = x.paid + delta
<1>1. StatusFor(x, x.paid + delta) \in Statuses
  BY DEF StatusFor, Statuses, PledgeRow
<1>2. x.paid \in Int /\ x.paid + delta \in Int
  BY DEF PledgeRow
<1>3. CASE delta = 0
  BY <1>2, <1>3 DEF Adjusted
<1>4. CASE delta # 0
  <2> DEFINE status == StatusFor(x, x.paid + delta)
             paid == x.paid + delta
  <2>1. Adjusted(x, delta) = [x EXCEPT !.paid = paid, !.status = status]
    BY <1>4 DEF Adjusted
  <2>2. status \in Statuses /\ paid \in Int
    BY <1>1, <1>2
  <2> HIDE DEF status, paid
  <2>3. /\ Adjusted(x, delta) \in PledgeRow
        /\ Adjusted(x, delta).row = x.row
        /\ Adjusted(x, delta).paid = paid
    BY <2>1, <2>2 DEF PledgeRow
  <2>4. QED
    BY <2>3 DEF paid
<1>5. QED
  BY <1>3, <1>4

(* A request that writes one gift row, or none, and what follows from it. *)
LEMMA WriteType ==
  ASSUME TypeOK, NEW r \in Requests, NEW visits \in Seq(Pledges),
         NEW deltas \in [Pledges -> Int], Written(r, visits, deltas),
         gift' \in [Gifts -> GiftRow], UNCHANGED pledge
  PROVE  TypeOK'
  BY WrittenType DEF TypeOK

(* What the job of a request in hand is. *)
LEMMA JobType ==
  ASSUME TypeOK, NEW r \in Requests
  PROVE  /\ pc[r] = "insert" => job[r].rows \in Batches
         /\ pc[r] \in {"check", "save"} => /\ job[r].gift \in Gifts
                                           /\ job[r].patch \in Patches
                                           /\ job[r].before \in GiftRow
         /\ pc[r] \in {"erase", "erased", "revive", "revived"} =>
              /\ job[r].gift \in Gifts
              /\ job[r] \in [gift : Gifts]
  BY DEF TypeOK, WorkAt, Unwritten

LEMMA TypeStart ==
  ASSUME TypeOK, NEW r \in Requests, Start(r)
  PROVE  TypeOK'
<1>1. CASE BeginRecord(r)
  <2>1. PICK rows \in Batches : Begin(r, "insert", [rows |-> rows])
    BY <1>1 DEF BeginRecord
  <2>2. [rows |-> rows] \in WorkAt("insert") /\ "insert" \in Unwritten
    BY DEF WorkAt, Unwritten
  <2>3. QED
    BY <2>1, <2>2, BeginType
<1>2. CASE BeginUpdate(r)
  <2>1. PICK g \in Gifts, patch \in Patches :
          Begin(r, "check", [gift |-> g, patch |-> patch, before |-> gift[g]])
    BY <1>2 DEF BeginUpdate
  <2>2. /\ [gift |-> g, patch |-> patch, before |-> gift[g]] \in WorkAt("check")
        /\ "check" \in Unwritten
    BY DEF WorkAt, Unwritten, TypeOK
  <2>3. QED
    BY <2>1, <2>2, BeginType
<1>3. CASE BeginDelete(r)
  <2>1. PICK g \in Gifts : Begin(r, "erase", [gift |-> g])
    BY <1>3 DEF BeginDelete
  <2>2. [gift |-> g] \in WorkAt("erase") /\ "erase" \in Unwritten
    BY DEF WorkAt, Unwritten
  <2>3. QED
    BY <2>1, <2>2, BeginType
<1>4. CASE BeginRestore(r)
  <2>1. PICK g \in Gifts : Begin(r, "revive", [gift |-> g])
    BY <1>4 DEF BeginRestore
  <2>2. [gift |-> g] \in WorkAt("revive") /\ "revive" \in Unwritten
    BY DEF WorkAt, Unwritten
  <2>3. QED
    BY <2>1, <2>2, BeginType
<1>5. QED
  BY <1>1, <1>2, <1>3, <1>4 DEF Start

(* delete and restore: one row is marked. *)
LEMMA TypeWriteRow ==
  ASSUME TypeOK, NEW r \in Requests, NEW g \in Gifts,
         NEW mark \in {"live", "archived"}, NEW sign \in {-1, 1},
         gift[g].row # "absent", WriteRow(r, g, mark, sign)
  PROVE  TypeOK'
<1>1. gift[g] \in GiftRow
  BY DEF TypeOK
<1>2. [gift[g] EXCEPT !.row = mark] \in GiftRow
  BY <1>1, GiftRowPledge DEF GiftRow
<1>3. gift' \in [Gifts -> GiftRow]
  BY <1>2 DEF WriteRow, TypeOK
<1>4. Named(gift[g].pledge) \in Seq(Pledges)
  BY <1>1, GiftRowPledge, NamedType
<1>5. DueForRow(gift[g], sign) \in [Pledges -> Int]
  BY <1>1, DueForRowType
<1>6. QED
  BY <1>3, <1>4, <1>5, WriteType DEF WriteRow

(* delete and restore that matched no row: the row read back is charged. *)
LEMMA TypeReadBack ==
  ASSUME TypeOK, NEW r \in Requests, NEW g \in Gifts, NEW sign \in {-1, 1},
         Written(r, Named(gift[g].pledge), DueForRow(gift[g], sign)),
         UNCHANGED <<pledge, gift>>
  PROVE  TypeOK'
<1>1. gift[g] \in GiftRow
  BY DEF TypeOK
<1>2. Named(gift[g].pledge) \in Seq(Pledges)
  BY <1>1, GiftRowPledge, NamedType
<1>3. DueForRow(gift[g], sign) \in [Pledges -> Int]
  BY <1>1, DueForRowType
<1>4. gift' \in [Gifts -> GiftRow]
  BY DEF TypeOK
<1>5. QED
  BY <1>2, <1>3, <1>4, WriteType

(* A call that changes nothing but the place. *)
LEMMA TypeAdvance ==
  ASSUME TypeOK, NEW r \in Requests, NEW place \in Unwritten,
         job[r] \in WorkAt(place), Advance(r, place)
  PROVE  TypeOK'
<1>1. /\ pc' \in [Requests -> Places]
      /\ \A q \in Requests : (pc'[q] = "adjust") => (queue'[q] # <<>>)
  BY DEF TypeOK, Advance, Places, Unwritten
<1>2. \A q \in Requests : job'[q] \in WorkAt(pc'[q])
  BY DEF TypeOK, Advance
<1>3. QED
  BY <1>1, <1>2 DEF TypeOK, Advance

LEMMA TypeMatchNothing ==
  ASSUME TypeOK, NEW r \in Requests, NEW place \in {"erased", "revived"},
         job[r] \in [gift : Gifts], Advance(r, place)
  PROVE  TypeOK'
<1>1. place \in Unwritten /\ job[r] \in WorkAt(place)
  BY DEF WorkAt, Unwritten
<1>2. QED
  BY <1>1, TypeAdvance

(* A patch that passes its check goes on with the same job. *)
LEMMA TypeCheckPatch ==
  ASSUME TypeOK, NEW r \in Requests, CheckPatch(r)
  PROVE  TypeOK'
<1>1. job[r] \in WorkAt(pc[r]) /\ pc[r] = "check"
  BY DEF TypeOK, CheckPatch
<1>2. job[r] \in WorkAt("save") /\ "save" \in Unwritten
  BY <1>1 DEF WorkAt, Unwritten
<1>3. QED
  BY <1>2, TypeAdvance DEF CheckPatch

LEMMA TypeInsert ==
  ASSUME TypeOK, NEW r \in Requests, Insert(r)
  PROVE  TypeOK'
<1> DEFINE rows == job[r].rows
<1>1. rows \in Batches
  BY JobType DEF Insert
<1>2. PICK visits \in SetToSeqs(BatchPledges(rows)) :
        Written(r, visits, DueForBatch(rows))
  BY DEF Insert
<1>3. gift' = Inserted(gift, rows) /\ UNCHANGED pledge
  BY DEF Insert
<1> HIDE DEF rows
<1>4. visits \in Seq(Pledges)
  BY <1>1, BatchPledgesType, OrderingVisitsAll
<1>5. DueForBatch(rows) \in [Pledges -> Int]
  BY <1>1, BatchTowardsType DEF DueForBatch
<1>6. gift' \in [Gifts -> GiftRow]
  BY <1>1, <1>3, BatchType DEF Inserted, TypeOK, GiftRow, GiftData
<1>7. QED
  BY <1>2, <1>3, <1>4, <1>5, <1>6, WriteType

LEMMA TypeSave ==
  ASSUME TypeOK, NEW r \in Requests, Save(r)
  PROVE  TypeOK'
<1> DEFINE after == Patched(gift[job[r].gift], job[r].patch)
<1>1. /\ job[r].gift \in Gifts
      /\ job[r].patch \in Patches
      /\ job[r].before \in GiftRow
  BY JobType DEF Save
<1>2. after \in GiftRow
  BY <1>1, PatchedType DEF Save, TypeOK
<1>3. /\ gift' = [gift EXCEPT ![job[r].gift] = after]
      /\ Written(r, MoveVisits(job[r].before, after),
                    DueForMove(job[r].before, after))
      /\ UNCHANGED pledge
  BY DEF Save
<1> HIDE DEF after
<1>4. gift' \in [Gifts -> GiftRow]
  BY <1>2, <1>3 DEF TypeOK
<1>5. QED
  BY <1>1, <1>2, <1>3, <1>4, DueForMoveType, WriteType

LEMMA TypeAdjust ==
  ASSUME TypeOK, NEW r \in Requests, Adjust(r)
  PROVE  TypeOK'
<1> DEFINE p == Head(queue[r])
<1>1. queue[r] \in Seq(Pledges) /\ queue[r] # <<>>
  BY DEF TypeOK, Adjust
<1>2. p \in Pledges /\ Tail(queue[r]) \in Seq(Pledges)
  BY <1>1
<1>3. pledge' = [pledge EXCEPT ![p] = Adjusted(pledge[p], due[r][p])]
  BY DEF Adjust
<1>4. due' = [due EXCEPT ![r][p] = 0]
  BY DEF Adjust
<1>5. /\ queue' = [queue EXCEPT ![r] = Tail(queue[r])]
      /\ pc' = [pc EXCEPT ![r] = IF Tail(queue[r]) = <<>> THEN "done" ELSE pc[r]]
      /\ pc[r] = "adjust"
      /\ UNCHANGED <<gift, job>>
  BY DEF Adjust
<1> HIDE DEF p
<1>6. pledge' \in [Pledges -> PledgeRow]
  <2>1. pledge[p] \in PledgeRow /\ due[r][p] \in Int
    BY <1>2 DEF TypeOK
  <2>2. Adjusted(pledge[p], due[r][p]) \in PledgeRow
    BY <2>1, AdjustedType
  <2>3. QED
    BY <1>3, <2>2 DEF TypeOK
<1>7. due' \in [Requests -> [Pledges -> Int]]
  BY <1>2, <1>4 DEF TypeOK
<1>8. /\ queue' \in [Requests -> Seq(Pledges)]
      /\ pc' \in [Requests -> Places]
      /\ \A q \in Requests : (pc'[q] = "adjust") => (queue'[q] # <<>>)
  BY <1>2, <1>5 DEF TypeOK, Places
<1>9. \A q \in Requests : job'[q] \in WorkAt(pc'[q])
  BY <1>5 DEF TypeOK, WorkAt, Unwritten
<1>10. QED
  BY <1>5, <1>6, <1>7, <1>8, <1>9 DEF TypeOK

LEMMA TypeProceed ==
  ASSUME TypeOK, NEW r \in Requests, Proceed(r)
  PROVE  TypeOK'
<1>1. CASE Insert(r)
  BY <1>1, TypeInsert
<1>2. CASE Save(r)
  BY <1>2, TypeSave
<1>3. CASE RejectPatch(r) \/ SaveGone(r) \/ ReadBackGone(r) \/ AdjustRefused(r)
  BY <1>3, FailType DEF RejectPatch, SaveGone, ReadBackGone, AdjustRefused
<1>4. CASE Erase(r)
  BY <1>4, JobType, TypeWriteRow DEF Erase
<1>5. CASE Revive(r)
  BY <1>5, JobType, TypeWriteRow DEF Revive
<1>6. CASE EraseNothing(r)
  BY <1>6, JobType, TypeMatchNothing DEF EraseNothing
<1>7. CASE ReviveNothing(r)
  BY <1>7, JobType, TypeMatchNothing DEF ReviveNothing
<1>8. CASE ReadBackErased(r)
  BY <1>8, JobType, TypeReadBack DEF ReadBackErased
<1>9. CASE ReadBackRevived(r)
  BY <1>9, JobType, TypeReadBack DEF ReadBackRevived
<1>10. CASE Adjust(r)
  BY <1>10, TypeAdjust
<1>11. CASE CheckPatch(r)
  BY <1>11, TypeCheckPatch
<1>12. QED
  BY <1>1, <1>2, <1>3, <1>4, <1>5, <1>6, <1>7, <1>8, <1>9, <1>10, <1>11
     DEF Proceed

(* A pledge request writes one row, and no total other than a first zero. *)
LEMMA PledgeRequestRow ==
  ASSUME TypeOK, NEW p \in Pledges,
         CreatePledge(p) \/ EditPledge(p) \/ ArchivePledge(p) \/ RestorePledge(p)
  PROVE  \E row \in PledgeRow :
           /\ WritePledge(p, row)
           /\ row.row # "absent"
           /\ \/ row.paid = pledge[p].paid
              \/ pledge[p].row = "absent" /\ row.paid = 0
<1>1. pledge[p] \in PledgeRow
  BY DEF TypeOK
<1>2. \A n \in Promises : n \in Nat
  BY RequestAssumption
<1>3. CASE CreatePledge(p)
  <2>1. PICK n \in Promises, s \in Statuses :
          WritePledge(p, [row |-> "live", promised |-> n, paid |-> 0, status |-> s])
    BY <1>3 DEF CreatePledge
  <2> DEFINE row == [row |-> "live", promised |-> n, paid |-> 0, status |-> s]
  <2>2. row \in PledgeRow /\ row.row # "absent" /\ row.paid = 0
    BY <1>2 DEF PledgeRow, Rows
  <2>3. pledge[p].row = "absent"
    BY <1>3 DEF CreatePledge
  <2>4. WritePledge(p, row)
    BY <2>1
  <2> HIDE DEF row
  <2>5. QED
    BY <2>2, <2>3, <2>4
<1>4. CASE EditPledge(p)
  <2>1. PICK n \in Promises, s \in Statuses :
          WritePledge(p, [pledge[p] EXCEPT !.promised = n, !.status = s])
    BY <1>4 DEF EditPledge
  <2> DEFINE row == [pledge[p] EXCEPT !.promised = n, !.status = s]
  <2>2. row \in PledgeRow /\ row.row = pledge[p].row /\ row.paid = pledge[p].paid
    BY <1>1, <1>2 DEF PledgeRow
  <2>3. pledge[p].row # "absent"
    BY <1>4 DEF EditPledge
  <2>4. WritePledge(p, row)
    BY <2>1
  <2> HIDE DEF row
  <2>5. QED
    BY <2>2, <2>3, <2>4
<1>5. CASE ArchivePledge(p) \/ RestorePledge(p)
  <2>1. PICK mark \in {"live", "archived"} :
          WritePledge(p, [pledge[p] EXCEPT !.row = mark])
    BY <1>5 DEF ArchivePledge, RestorePledge
  <2> DEFINE row == [pledge[p] EXCEPT !.row = mark]
  <2>2. row \in PledgeRow /\ row.row # "absent" /\ row.paid = pledge[p].paid
    BY <1>1 DEF PledgeRow, Rows
  <2>3. WritePledge(p, row)
    BY <2>1
  <2> HIDE DEF row
  <2>4. QED
    BY <2>2, <2>3
<1>6. QED
  BY <1>3, <1>4, <1>5

LEMMA TypePledgeRequest ==
  ASSUME TypeOK, Shelving \/ Editing
  PROVE  TypeOK'
<1>1. PICK p \in Pledges, row \in PledgeRow : WritePledge(p, row)
  BY PledgeRequestRow DEF Shelving, Editing
<1>2. QED
  BY <1>1 DEF TypeOK, WritePledge

LEMMA TypeInit == Init => TypeOK
<1> SUFFICES ASSUME Init PROVE TypeOK
  OBVIOUS
<1>1. gift \in [Gifts -> GiftRow]
  BY DEF Init
<1>2. PICK born \in SUBSET Pledges : \E promised \in [Pledges -> Promises],
                                         cancelled \in SUBSET born :
        pledge = [p \in Pledges |->
                    IF p \notin born THEN AbsentPledge
                    ELSE [row |-> "live", promised |-> promised[p],
                          paid |-> LiveSum(p),
                          status |-> IF p \in cancelled THEN "CANCELLED"
                                     ELSE IF LiveSum(p) >= promised[p]
                                     THEN "FULFILLED" ELSE "ACTIVE"]]
  BY Zenon DEF Init
<1>2a. PICK promised \in [Pledges -> Promises], cancelled \in SUBSET born :
        pledge = [p \in Pledges |->
                    IF p \notin born THEN AbsentPledge
                    ELSE [row |-> "live", promised |-> promised[p],
                          paid |-> LiveSum(p),
                          status |-> IF p \in cancelled THEN "CANCELLED"
                                     ELSE IF LiveSum(p) >= promised[p]
                                     THEN "FULFILLED" ELSE "ACTIVE"]]
  BY <1>2, Zenon
<1>3. ASSUME NEW p \in Pledges
      PROVE  pledge[p] \in PledgeRow
  <2>1. LiveSum(p) \in Int
    BY <1>1, GiftsTowardsType DEF LiveSum
  <2>2. promised[p] \in Nat
    BY RequestAssumption
  <2>3. AbsentPledge \in PledgeRow
    BY DEF AbsentPledge, PledgeRow, Rows, Statuses
  <2>4. QED
    BY <1>2a, <2>1, <2>2, <2>3 DEF PledgeRow, Rows, Statuses
<1>4. pledge \in [Pledges -> PledgeRow]
  BY <1>2a, <1>3
<1>5. /\ pc = [r \in Requests |-> "idle"]
      /\ job = [r \in Requests |-> NoJob]
      /\ queue = [r \in Requests |-> <<>>]
      /\ due = [r \in Requests |-> NothingDue]
  BY DEF Init
<1>6. due \in [Requests -> [Pledges -> Int]]
  BY <1>5 DEF NothingDue
<1>7. QED
  BY <1>1, <1>4, <1>5, <1>6 DEF TypeOK, Places, WorkAt, Unwritten

LEMMA TypeNext == TypeOK /\ [Next]_vars => TypeOK'
<1> SUFFICES ASSUME TypeOK, [Next]_vars PROVE TypeOK'
  OBVIOUS
<1>1. CASE GiftStep
  BY <1>1, TypeStart, TypeProceed DEF GiftStep
<1>2. CASE Crashing
  BY <1>2, FailType DEF Crashing, Crash
<1>3. CASE Shelving \/ Editing
  BY <1>3, TypePledgeRequest
<1>4. CASE UNCHANGED vars
  BY <1>4 DEF vars, TypeOK
<1>5. QED
  BY <1>1, <1>2, <1>3, <1>4 DEF Next

(* Every variable of the ledger keeps its type. *)
THEOREM LedgerTypeOK == Spec => []TypeOK
  BY TypeInit, TypeNext, PTL DEF Spec

(***************************************************************************)
(* Whatever a request owes and has not failed to pay, it is on its way to  *)
(* pay.  Requests are independent here: a step of another request leaves a *)
(* request's queue and debts alone.                                        *)
(***************************************************************************)
(* The debts of a request are on pledges it will visit. *)
Covers(visits, deltas) ==
  \A p \in Pledges : deltas[p] # 0 => p \in Range(visits)

LEMMA CoveredWrite ==
  ASSUME TypeOK, DueIsQueued, NEW r \in Requests,
         NEW visits \in Seq(Pledges), NEW deltas \in [Pledges -> Int],
         Written(r, visits, deltas), Covers(visits, deltas)
  PROVE  DueIsQueued'
<1> SUFFICES ASSUME NEW q \in Requests, pc'[q] # "failed",
                    NEW p \in Pledges, due'[q][p] # 0
             PROVE  pc'[q] = "adjust" /\ p \in Range(queue'[q])
  BY DEF DueIsQueued
<1>1. CASE q = r
  <2>1. due'[q] = deltas /\ queue'[q] = visits
    BY <1>1 DEF Written, TypeOK
  <2>2. p \in Range(visits)
    BY <2>1 DEF Covers
  <2>3. visits # <<>>
    BY <2>2 DEF Range
  <2>4. pc'[q] = "adjust"
    BY <1>1, <2>3 DEF Written, TypeOK
  <2>5. QED
    BY <2>1, <2>2, <2>4
<1>2. CASE q # r
  <2>1. pc'[q] = pc[q] /\ due'[q] = due[q] /\ queue'[q] = queue[q]
    BY <1>2 DEF Written, TypeOK
  <2>2. QED
    BY <2>1 DEF DueIsQueued
<1>3. QED
  BY <1>1, <1>2

(* A row's debt is on the row's pledge. *)
LEMMA RowCovered ==
  ASSUME NEW x \in GiftRow, NEW sign \in {-1, 1}
  PROVE  Covers(Named(x.pledge), DueForRow(x, sign))
<1> SUFFICES ASSUME NEW p \in Pledges, DueForRow(x, sign)[p] # 0
             PROVE  p \in Range(Named(x.pledge))
  BY DEF Covers
<1>1. x.pledge = p
  BY DEF DueForRow, RowDue
<1>2. Named(x.pledge) = <<p>>
  BY <1>1, GiftAssumption DEF Named
<1>3. QED
  BY <1>2 DEF Range

LEMMA ConcatVisitsBoth ==
  ASSUME NEW S, NEW u \in Seq(S), NEW v \in Seq(S)
  PROVE  /\ Range(u) \subseteq Range(u \o v)
         /\ Range(v) \subseteq Range(u \o v)
<1>1. \A i \in DOMAIN u : i \in DOMAIN (u \o v) /\ (u \o v)[i] = u[i]
  OBVIOUS
<1>2. \A i \in DOMAIN v : Len(u) + i \in DOMAIN (u \o v) /\ (u \o v)[Len(u) + i] = v[i]
  OBVIOUS
<1>3. QED
  BY <1>1, <1>2 DEF Range

(* Whatever branch an update takes, the pledges it visits cover the change. *)
LEMMA MoveCovered ==
  ASSUME NEW x \in GiftRow, NEW y \in GiftRow
  PROVE  Covers(MoveVisits(x, y), DueForMove(x, y))
<1> SUFFICES ASSUME NEW p \in Pledges, DueForMove(x, y)[p] # 0
             PROVE  p \in Range(MoveVisits(x, y))
  BY DEF Covers
<1>1. DueForMove(x, y)[p] = RowDue(y, 1, p) + RowDue(x, -1, p)
  BY DEF DueForMove
<1>2. x.amount \in Int /\ y.amount \in Int
  BY AmountType
<1>3. x.pledge = p \/ y.pledge = p
  BY <1>1 DEF RowDue
<1>4. CASE x.pledge = y.pledge
  <2>1. x.amount # y.amount
    BY <1>1, <1>2, <1>4 DEF RowDue
  <2>2. MoveVisits(x, y) = <<p>>
    BY <1>3, <1>4, <2>1, GiftAssumption DEF MoveVisits, Named
  <2>3. QED
    BY <2>2 DEF Range
<1>5. CASE x.pledge # y.pledge
  <2>1. MoveVisits(x, y) = Named(x.pledge) \o Named(y.pledge)
    BY <1>5 DEF MoveVisits
  <2>2. Named(x.pledge) \in Seq(Pledges) /\ Named(y.pledge) \in Seq(Pledges)
    BY GiftRowPledge, NamedType
  <2>3. Named(p) = <<p>>
    BY GiftAssumption DEF Named
  <2>4. p \in Range(Named(x.pledge)) \/ p \in Range(Named(y.pledge))
    BY <1>3, <2>3 DEF Range
  <2>5. QED
    BY <2>1, <2>2, <2>4, ConcatVisitsBoth
<1>6. QED
  BY <1>4, <1>5

LEMMA BatchCovered ==
  ASSUME NEW rows \in Batches, NEW visits \in SetToSeqs(BatchPledges(rows))
  PROVE  Covers(visits, DueForBatch(rows))
<1> SUFFICES ASSUME NEW p \in Pledges, DueForBatch(rows)[p] # 0
             PROVE  p \in Range(visits)
  BY DEF Covers
<1>1. BatchTowards(rows, p) # 0
  BY DEF DueForBatch
<1>2. PICK g \in DOMAIN rows : rows[g].pledge = p
  BY <1>1, BatchTowardsUnnamed
<1>3. p \in BatchPledges(rows)
  BY <1>2, GiftAssumption DEF BatchPledges
<1>4. Range(visits) = BatchPledges(rows)
  BY BatchPledgesType, OrderingVisitsAll
<1>5. QED
  BY <1>3, <1>4

(* A request that fails, or begins, or only moves on, owes what it owed. *)
LEMMA QueuedIdleStep ==
  ASSUME TypeOK, DueIsQueued, NEW r \in Requests, NEW place,
         place = "failed" \/ pc[r] # "adjust", pc[r] # "failed",
         pc' = [pc EXCEPT ![r] = place], UNCHANGED <<queue, due>>
  PROVE  DueIsQueued'
  BY DEF TypeOK, DueIsQueued

LEMMA QueuedFail ==
  ASSUME TypeOK, DueIsQueued, NEW r \in Requests, Fail(r),
         pc[r] # "failed"
  PROVE  DueIsQueued'
  BY QueuedIdleStep DEF Fail

LEMMA QueuedStart ==
  ASSUME TypeOK, DueIsQueued, NEW r \in Requests, Start(r)
  PROVE  DueIsQueued'
<1>1. PICK place, work : Begin(r, place, work)
  BY DEF Start, BeginRecord, BeginUpdate, BeginDelete, BeginRestore
<1>2. QED
  BY <1>1, QueuedIdleStep DEF Begin

LEMMA QueuedAdjust ==
  ASSUME TypeOK, DueIsQueued, NEW r \in Requests, Adjust(r)
  PROVE  DueIsQueued'
<1> DEFINE p == Head(queue[r])
<1>1. /\ queue[r] \in Seq(Pledges)
      /\ queue[r] # <<>>
      /\ pc[r] = "adjust"
  BY DEF TypeOK, Adjust
<1>2. /\ due' = [due EXCEPT ![r][p] = 0]
      /\ queue' = [queue EXCEPT ![r] = Tail(queue[r])]
      /\ pc' = [pc EXCEPT ![r] = IF Tail(queue[r]) = <<>> THEN "done" ELSE pc[r]]
  BY DEF Adjust
<1> SUFFICES ASSUME NEW q \in Requests, pc'[q] # "failed",
                    NEW s \in Pledges, due'[q][s] # 0
             PROVE  pc'[q] = "adjust" /\ s \in Range(queue'[q])
  BY DEF DueIsQueued
<1>3. CASE q # r
  <2>1. due'[q] = due[q] /\ queue'[q] = queue[q] /\ pc'[q] = pc[q]
    BY <1>2, <1>3 DEF TypeOK
  <2>2. QED
    BY <2>1 DEF DueIsQueued
<1>4. CASE q = r
  <2>1. p \in Pledges
    BY <1>1
  <2> HIDE DEF p
  <2>2. s # p /\ due'[r][s] = due[r][s]
    BY <1>2, <1>4, <2>1 DEF TypeOK
  <2>3. s \in Range(queue[r])
    BY <1>1, <1>4, <2>2 DEF DueIsQueued
  <2>4. PICK i \in DOMAIN queue[r] : queue[r][i] = s
    BY <2>3 DEF Range
  <2>5. i \in 1..Len(queue[r]) /\ i # 1
    BY <1>1, <2>2, <2>4 DEF p
  <2>6. i - 1 \in DOMAIN Tail(queue[r]) /\ Tail(queue[r])[i - 1] = s
    BY <1>1, <2>4, <2>5
  <2>7. s \in Range(Tail(queue[r])) /\ Tail(queue[r]) # <<>>
    BY <2>6 DEF Range
  <2>8. queue'[r] = Tail(queue[r]) /\ pc'[r] = "adjust"
    BY <1>1, <1>2, <2>7 DEF TypeOK
  <2>9. QED
    BY <1>4, <2>7, <2>8
<1>5. QED
  BY <1>3, <1>4

LEMMA QueuedProceed ==
  ASSUME TypeOK, DueIsQueued, NEW r \in Requests, Proceed(r)
  PROVE  DueIsQueued'
<1>1. CASE Insert(r)
  <2> DEFINE rows == job[r].rows
  <2>1. rows \in Batches
    BY <1>1, JobType DEF Insert
  <2>2. PICK visits \in SetToSeqs(BatchPledges(rows)) :
          Written(r, visits, DueForBatch(rows))
    BY <1>1 DEF Insert
  <2> HIDE DEF rows
  <2>3. visits \in Seq(Pledges)
    BY <2>1, BatchPledgesType, OrderingVisitsAll
  <2>4. DueForBatch(rows) \in [Pledges -> Int]
    BY <2>1, BatchTowardsType DEF DueForBatch
  <2>5. QED
    BY <2>1, <2>2, <2>3, <2>4, BatchCovered, CoveredWrite
<1>2. CASE Save(r)
  <2> DEFINE before == job[r].before
             after == Patched(gift[job[r].gift], job[r].patch)
  <2>1. before \in GiftRow /\ job[r].gift \in Gifts /\ job[r].patch \in Patches
    BY <1>2, JobType DEF Save
  <2>2. after \in GiftRow
    BY <1>2, <2>1, PatchedType DEF Save, TypeOK
  <2>3. Written(r, MoveVisits(before, after), DueForMove(before, after))
    BY <1>2 DEF Save
  <2> HIDE DEF before, after
  <2>4. QED
    BY <2>1, <2>2, <2>3, DueForMoveType, MoveCovered, CoveredWrite
<1>3. CASE Erase(r) \/ Revive(r) \/ ReadBackErased(r) \/ ReadBackRevived(r)
  <2>1. job[r].gift \in Gifts
    BY <1>3, JobType DEF Erase, Revive, ReadBackErased, ReadBackRevived
  <2> DEFINE x == gift[job[r].gift]
  <2>2. x \in GiftRow
    BY <2>1 DEF TypeOK
  <2>3. PICK sign \in {-1, 1} : Written(r, Named(x.pledge), DueForRow(x, sign))
    BY <1>3 DEF Erase, Revive, ReadBackErased, ReadBackRevived, WriteRow
  <2> HIDE DEF x
  <2>4. Named(x.pledge) \in Seq(Pledges) /\ DueForRow(x, sign) \in [Pledges -> Int]
    BY <2>2, GiftRowPledge, NamedType, DueForRowType
  <2>5. QED
    BY <2>2, <2>3, <2>4, RowCovered, CoveredWrite
<1>4. CASE CheckPatch(r) \/ EraseNothing(r) \/ ReviveNothing(r)
  BY <1>4, QueuedIdleStep DEF CheckPatch, EraseNothing, ReviveNothing, Advance
<1>5. CASE RejectPatch(r) \/ SaveGone(r) \/ ReadBackGone(r) \/ AdjustRefused(r)
  BY <1>5, QueuedFail DEF RejectPatch, SaveGone, ReadBackGone, AdjustRefused
<1>6. CASE Adjust(r)
  BY <1>6, QueuedAdjust
<1>7. QED
  BY <1>1, <1>2, <1>3, <1>4, <1>5, <1>6 DEF Proceed

LEMMA QueuedNext == TypeOK /\ DueIsQueued /\ [Next]_vars => DueIsQueued'
<1> SUFFICES ASSUME TypeOK, DueIsQueued, [Next]_vars PROVE DueIsQueued'
  OBVIOUS
<1>1. CASE GiftStep
  BY <1>1, QueuedStart, QueuedProceed DEF GiftStep
<1>2. CASE Crashing
  <2>1. PICK r \in Requests : Fail(r) /\ pc[r] \in Unwritten \cup {"adjust"}
    BY <1>2 DEF Crashing, Crash
  <2>2. pc[r] # "failed"
    BY <2>1 DEF Unwritten
  <2>3. QED
    BY <2>1, <2>2, QueuedFail
<1>3. CASE Shelving \/ Editing
  <2>1. UNCHANGED <<pc, queue, due>>
    BY <1>3 DEF Shelving, Editing, ArchivePledge, RestorePledge,
                CreatePledge, EditPledge, WritePledge
  <2>2. QED
    BY <2>1 DEF DueIsQueued
<1>4. CASE UNCHANGED vars
  BY <1>4 DEF vars, DueIsQueued
<1>5. QED
  BY <1>1, <1>2, <1>3, <1>4 DEF Next

LEMMA QueuedInit == Init => DueIsQueued
  BY DEF Init, DueIsQueued, NothingDue

(***************************************************************************)
(* A gift request that reports success has adjusted every pledge whose     *)
(* gifts it changed, whatever else happened meanwhile.                     *)
(***************************************************************************)
THEOREM SuccessSettles == Spec => [](DueIsQueued /\ SuccessMeansSettled)
<1>1. TypeOK /\ DueIsQueued => SuccessMeansSettled
  <2> SUFFICES ASSUME TypeOK, DueIsQueued,
                      NEW r \in Requests, pc[r] = "done"
               PROVE  due[r] = NothingDue
    BY DEF SuccessMeansSettled
  <2>1. \A p \in Pledges : due[r][p] = 0
    BY DEF DueIsQueued
  <2>2. due[r] \in [Pledges -> Int]
    BY DEF TypeOK
  <2>3. QED
    BY <2>1, <2>2 DEF NothingDue
<1>2. QED
  BY <1>1, TypeInit, TypeNext, QueuedInit, QueuedNext, PTL DEF Spec

(***************************************************************************)
(* The stored status follows the total as long as nobody writes it by      *)
(* hand: adjusting a total whose status is right leaves it right.          *)
(***************************************************************************)
LEMMA AdjustedSettled ==
  ASSUME NEW x \in PledgeRow, NEW delta \in Int, Settled(x)
  PROVE  Settled(Adjusted(x, delta))
<1>1. CASE delta = 0
  BY <1>1 DEF Adjusted
<1>2. CASE delta # 0
  <2> DEFINE paid == x.paid + delta
             status == StatusFor(x, paid)
  <2>1. Adjusted(x, delta) = [x EXCEPT !.paid = paid, !.status = status]
    BY <1>2 DEF Adjusted
  <2>2. paid \in Int /\ x.promised \in Int /\ x.status \in Statuses
    BY DEF PledgeRow
  <2> HIDE DEF paid
  <2>3. status # "CANCELLED" => (status = "FULFILLED" <=> paid >= x.promised)
    BY <2>2 DEF StatusFor, Statuses
  <2> HIDE DEF status
  <2>4. /\ Adjusted(x, delta).paid = paid
        /\ Adjusted(x, delta).status = status
        /\ Adjusted(x, delta).promised = x.promised
    BY <2>1 DEF PledgeRow
  <2>5. QED
    BY <2>3, <2>4 DEF Settled
<1>3. QED
  BY <1>1, <1>2

LEMMA StatusInit == Init => StatusAgrees
<1> SUFFICES ASSUME Init, NEW p \in Pledges, pledge[p].row # "absent"
             PROVE  Settled(pledge[p])
  BY DEF StatusAgrees
<1>1. TypeOK
  BY TypeInit
<1>2. PICK born \in SUBSET Pledges : \E promised \in [Pledges -> Promises],
                                         cancelled \in SUBSET born :
        pledge = [q \in Pledges |->
                    IF q \notin born THEN AbsentPledge
                    ELSE [row |-> "live", promised |-> promised[q],
                          paid |-> LiveSum(q),
                          status |-> IF q \in cancelled THEN "CANCELLED"
                                     ELSE IF LiveSum(q) >= promised[q]
                                     THEN "FULFILLED" ELSE "ACTIVE"]]
  BY Zenon DEF Init
<1>3. PICK promised \in [Pledges -> Promises], cancelled \in SUBSET born :
        pledge = [q \in Pledges |->
                    IF q \notin born THEN AbsentPledge
                    ELSE [row |-> "live", promised |-> promised[q],
                          paid |-> LiveSum(q),
                          status |-> IF q \in cancelled THEN "CANCELLED"
                                     ELSE IF LiveSum(q) >= promised[q]
                                     THEN "FULFILLED" ELSE "ACTIVE"]]
  BY <1>2, Zenon
<1>4. p \in born
  BY <1>3 DEF AbsentPledge
<1>5. /\ pledge[p].paid = LiveSum(p)
      /\ pledge[p].promised = promised[p]
      /\ pledge[p].status = IF p \in cancelled THEN "CANCELLED"
                            ELSE IF LiveSum(p) >= promised[p]
                            THEN "FULFILLED" ELSE "ACTIVE"
  BY <1>3, <1>4
<1>6. QED
  BY <1>5 DEF Settled

LEMMA StatusNext ==
  ASSUME TypeOK, StatusAgrees, [GiftStep \/ Crashing \/ Shelving]_vars
  PROVE  StatusAgrees'
<1>1. ASSUME NEW r \in Requests, Adjust(r)
      PROVE  StatusAgrees'
  <2> DEFINE p == Head(queue[r])
  <2>1. /\ p \in Pledges
        /\ pledge[p].row = "live"
        /\ pledge' = [pledge EXCEPT ![p] = Adjusted(pledge[p], due[r][p])]
    BY <1>1 DEF Adjust, TypeOK
  <2> HIDE DEF p
  <2>2. pledge[p] \in PledgeRow /\ due[r][p] \in Int
    BY <2>1 DEF TypeOK
  <2>3. Settled(Adjusted(pledge[p], due[r][p]))
    BY <2>1, <2>2, AdjustedSettled DEF StatusAgrees
  <2>4. ASSUME NEW q \in Pledges, pledge'[q].row # "absent"
        PROVE  Settled(pledge'[q])
    BY <2>1, <2>3, <2>4 DEF StatusAgrees, TypeOK
  <2>5. QED
    BY <2>4 DEF StatusAgrees, Settled
<1>2. ASSUME NEW p \in Pledges, ArchivePledge(p) \/ RestorePledge(p)
      PROVE  StatusAgrees'
  <2>1. PICK mark \in Rows :
          /\ pledge[p].row # "absent"
          /\ pledge' = [pledge EXCEPT ![p] = [pledge[p] EXCEPT !.row = mark]]
    BY <1>2 DEF ArchivePledge, RestorePledge, WritePledge, Rows
  <2>2. pledge[p] \in PledgeRow
    BY DEF TypeOK
  <2>3. Settled([pledge[p] EXCEPT !.row = mark])
    BY <2>1, <2>2 DEF StatusAgrees, Settled, PledgeRow
  <2>4. ASSUME NEW q \in Pledges, pledge'[q].row # "absent"
        PROVE  Settled(pledge'[q])
    BY <2>1, <2>3, <2>4 DEF StatusAgrees, TypeOK
  <2>5. QED
    BY <2>4 DEF StatusAgrees, Settled
<1>3. CASE UNCHANGED pledge
  BY <1>3 DEF StatusAgrees, Settled
<1>4. ASSUME NEW r \in Requests, Start(r) \/ Proceed(r) \/ Crash(r), ~Adjust(r)
      PROVE  UNCHANGED pledge
  BY <1>4 DEF Start, Proceed, Crash, Begin, Fail, Advance, WriteRow,
       BeginRecord, BeginUpdate, BeginDelete, BeginRestore, Insert, Save,
       CheckPatch, RejectPatch, SaveGone, Erase, EraseNothing,
       ReadBackErased, Revive, ReviveNothing,
       ReadBackRevived, ReadBackGone, AdjustRefused
<1>5. QED
  BY <1>1, <1>2, <1>3, <1>4 DEF GiftStep, Crashing, Shelving, vars

(***************************************************************************)
(* Unless an administrator edits a pledge by hand, the stored status says  *)
(* whether the pledge is paid, for every pledge that is not cancelled,     *)
(* whatever requests do and wherever they fail.                            *)
(***************************************************************************)
THEOREM StatusFollowsPaid == UneditedSpec => []StatusAgrees
<1>1. [GiftStep \/ Crashing \/ Shelving]_vars => [Next]_vars
  BY DEF Next
<1>2. TypeOK /\ [Next]_vars => TypeOK'
  BY TypeNext
<1>3. TypeOK /\ StatusAgrees /\ [GiftStep \/ Crashing \/ Shelving]_vars => StatusAgrees'
  BY StatusNext
<1>4. QED
  BY <1>1, <1>2, <1>3, TypeInit, StatusInit, PTL DEF UneditedSpec

(***************************************************************************)
(* Among courteous clients no gift changes under a request that has read   *)
(* it: the write of one request touches none of the others' gifts.         *)
(***************************************************************************)
LEMMA UndisturbedByWrite ==
  ASSUME Undisturbed, NEW r \in Requests, pc'[r] \notin Unwritten,
         \A q \in Requests \ {r} : /\ pc'[q] = pc[q]
                                   /\ job'[q] = job[q]
                                   /\ \A g \in Touched(q) : gift'[g] = gift[g]
  PROVE  Undisturbed'
<1>1. Touched(r)' = {}
  BY DEF Touched, Unwritten
<1>2. ASSUME NEW q \in Requests \ {r} PROVE Touched(q)' = Touched(q)
  BY DEF Touched
<1>3. ASSUME NEW q1 \in Requests, NEW q2 \in Requests, q1 # q2
      PROVE  Touched(q1)' \cap Touched(q2)' = {}
  BY <1>1, <1>2, <1>3 DEF Undisturbed
<1>4. ASSUME NEW q \in Requests
      PROVE  /\ pc'[q] = "insert" => \A g \in DOMAIN job'[q].rows : gift'[g].row = "absent"
             /\ pc'[q] \in {"check", "save"} =>
                  /\ gift'[job'[q].gift] = job'[q].before
                  /\ job'[q].before.row = "live"
             /\ pc'[q] = "erase" => gift'[job'[q].gift].row = "live"
             /\ pc'[q] = "revive" => gift'[job'[q].gift].row = "archived"
             /\ pc'[q] \notin {"erased", "revived"}
  <2>1. CASE q = r
    BY <2>1 DEF Unwritten
  <2>2. CASE q # r
    <3>1. pc'[q] = pc[q] /\ job'[q] = job[q]
      BY <2>2
    <3>2. \A g \in Touched(q) : gift'[g] = gift[g]
      BY <2>2
    <3>3. /\ pc[q] = "insert" => Touched(q) = DOMAIN job[q].rows
          /\ pc[q] \in {"check", "save", "erase", "revive"} => job[q].gift \in Touched(q)
      BY DEF Touched, Unwritten
    <3>4. QED
      BY <3>1, <3>2, <3>3 DEF Undisturbed
  <2>3. QED
    BY <2>1, <2>2
<1>5. QED
  BY <1>3, <1>4 DEF Undisturbed

LEMMA UndisturbedStart ==
  ASSUME TypeOK, Undisturbed, NEW r \in Requests, Start(r), Courteous
  PROVE  Undisturbed'
<1>1. PICK place, work : Begin(r, place, work) /\ place \in Unwritten
  BY DEF Start, BeginRecord, BeginUpdate, BeginDelete, BeginRestore, Unwritten
<1>2. /\ pc[r] = "idle" /\ pc'[r] = place /\ pc'[r] # "idle"
      /\ gift' = gift
      /\ \A q \in Requests \ {r} : pc'[q] = pc[q] /\ job'[q] = job[q]
  BY <1>1 DEF Begin, TypeOK, Unwritten
<1>3. /\ \A q \in Requests \ {r} : Touched(q) \cap Touched(r)' = {}
      /\ pc'[r] = "revive" => gift[job'[r].gift].row = "archived"
  BY <1>2 DEF Courteous
<1>4. ASSUME NEW q \in Requests \ {r} PROVE Touched(q)' = Touched(q)
  BY <1>2 DEF Touched
<1>5. ASSUME NEW q1 \in Requests, NEW q2 \in Requests, q1 # q2
      PROVE  Touched(q1)' \cap Touched(q2)' = {}
  BY <1>3, <1>4, <1>5 DEF Undisturbed
<1>6. /\ pc'[r] = "insert" => \A g \in DOMAIN job'[r].rows : gift[g].row = "absent"
      /\ pc'[r] \in {"check", "save"} =>
           /\ gift[job'[r].gift] = job'[r].before
           /\ job'[r].before.row = "live"
      /\ pc'[r] = "erase" => gift[job'[r].gift].row = "live"
      /\ pc'[r] \notin {"erased", "revived"}
  <2>1. CASE BeginRecord(r)
    BY <2>1 DEF BeginRecord, Begin, FreshGifts, TypeOK
  <2>2. CASE BeginUpdate(r)
    BY <2>2 DEF BeginUpdate, Begin, TypeOK
  <2>3. CASE BeginDelete(r)
    BY <2>3 DEF BeginDelete, Begin, TypeOK
  <2>4. CASE BeginRestore(r)
    BY <2>4 DEF BeginRestore, Begin, TypeOK
  <2>5. QED
    BY <2>1, <2>2, <2>3, <2>4 DEF Start
<1>7. ASSUME NEW q \in Requests
      PROVE  /\ pc'[q] = "insert" => \A g \in DOMAIN job'[q].rows : gift'[g].row = "absent"
             /\ pc'[q] \in {"check", "save"} =>
                  /\ gift'[job'[q].gift] = job'[q].before
                  /\ job'[q].before.row = "live"
             /\ pc'[q] = "erase" => gift'[job'[q].gift].row = "live"
             /\ pc'[q] = "revive" => gift'[job'[q].gift].row = "archived"
             /\ pc'[q] \notin {"erased", "revived"}
  <2>1. CASE q = r
    BY <1>2, <1>3, <1>6, <2>1
  <2>2. CASE q # r
    BY <1>2, <2>2 DEF Undisturbed
  <2>3. QED
    BY <2>1, <2>2
<1>8. QED
  BY <1>5, <1>7 DEF Undisturbed

(* A request writes only the gifts it was about to write. *)
LEMMA WritesOnlyTouched ==
  ASSUME TypeOK, NEW r \in Requests,
         Insert(r) \/ Save(r) \/ Erase(r) \/ Revive(r)
  PROVE  \A g \in Gifts \ Touched(r) : gift'[g] = gift[g]
<1>1. CASE Insert(r)
  BY <1>1 DEF Insert, Inserted, Touched, TypeOK
<1>2. CASE Save(r)
  BY <1>2, JobType DEF Save, Touched, Unwritten, TypeOK
<1>3. CASE Erase(r)
  BY <1>3, JobType DEF Erase, WriteRow, Touched, Unwritten, TypeOK
<1>4. CASE Revive(r)
  BY <1>4, JobType DEF Revive, WriteRow, Touched, Unwritten, TypeOK
<1>5. QED
  BY <1>1, <1>2, <1>3, <1>4

LEMMA TouchedType ==
  ASSUME TypeOK, NEW q \in Requests
  PROVE  Touched(q) \subseteq Gifts
<1>1. CASE pc[q] = "insert"
  BY <1>1, JobType, BatchType DEF Touched
<1>2. CASE pc[q] # "insert"
  BY <1>2, JobType DEF Touched, Unwritten
<1>3. QED
  BY <1>1, <1>2

LEMMA UndisturbedProceed ==
  ASSUME TypeOK, Undisturbed, NEW r \in Requests, Proceed(r) \/ Crash(r)
  PROVE  Undisturbed'
<1>1. CASE Insert(r) \/ Save(r) \/ Erase(r) \/ Revive(r)
  <2>1. /\ pc'[r] \notin Unwritten
        /\ \A q \in Requests \ {r} : pc'[q] = pc[q] /\ job'[q] = job[q]
    BY <1>1 DEF Insert, Save, Erase, Revive, WriteRow, Written, TypeOK, Unwritten
  <2>2. ASSUME NEW q \in Requests \ {r}, NEW g \in Touched(q)
        PROVE  gift'[g] = gift[g]
    <3>1. g \in Gifts \ Touched(r)
      BY TouchedType DEF Undisturbed
    <3>2. QED
      BY <1>1, <3>1, WritesOnlyTouched
  <2>3. QED
    BY <2>1, <2>2, UndisturbedByWrite
<1>2. CASE \/ RejectPatch(r) \/ SaveGone(r) \/ ReadBackGone(r)
           \/ AdjustRefused(r) \/ Crash(r)
  <2>1. Fail(r)
    BY <1>2 DEF RejectPatch, SaveGone, ReadBackGone, AdjustRefused, Crash
  <2>2. QED
    BY <2>1, UndisturbedByWrite DEF Fail, TypeOK, Unwritten
<1>3. CASE Adjust(r)
  BY <1>3, UndisturbedByWrite DEF Adjust, TypeOK, Unwritten
<1>4. ~(EraseNothing(r) \/ ReviveNothing(r) \/ ReadBackErased(r) \/ ReadBackRevived(r))
  BY DEF Undisturbed, EraseNothing, ReviveNothing, ReadBackErased, ReadBackRevived
<1>5. CASE CheckPatch(r)
  <2>1. /\ pc[r] = "check"
        /\ pc' = [pc EXCEPT ![r] = "save"]
        /\ gift' = gift /\ job' = job
    BY <1>5 DEF CheckPatch, Advance
  <2>2. \A q \in Requests : Touched(q)' = Touched(q)
    BY <2>1 DEF Touched, Unwritten, TypeOK
  <2>3. QED
    BY <2>1, <2>2 DEF Undisturbed, TypeOK
<1>6. QED
  BY <1>1, <1>2, <1>3, <1>4, <1>5 DEF Proceed

LEMMA UndisturbedNext ==
  ASSUME TypeOK, Undisturbed, [Next /\ Courteous]_vars
  PROVE  Undisturbed'
<1>1. ASSUME UNCHANGED <<gift, pc, job>>
      PROVE  Undisturbed'
  BY <1>1 DEF Undisturbed, Touched
<1>2. CASE GiftStep /\ Courteous
  BY <1>2, UndisturbedStart, UndisturbedProceed DEF GiftStep
<1>3. CASE Crashing
  BY <1>3, UndisturbedProceed DEF Crashing
<1>4. CASE Shelving \/ Editing
  BY <1>1, <1>4 DEF Shelving, Editing, ArchivePledge, RestorePledge,
                    CreatePledge, EditPledge, WritePledge
<1>5. CASE UNCHANGED vars
  BY <1>1, <1>5 DEF vars
<1>6. QED
  BY <1>2, <1>3, <1>4, <1>5 DEF Next

(***************************************************************************)
(* What the requests owe to a pledge moves by what one request's debt      *)
(* moves.                                                                  *)
(***************************************************************************)
LEMMA TotalDueMoves ==
  ASSUME NEW before \in [Requests -> [Pledges -> Int]],
         NEW after \in [Requests -> [Pledges -> Int]],
         NEW r \in Requests, \A q \in Requests \ {r} : after[q] = before[q],
         NEW p \in Pledges
  PROVE  /\ TotalDue(before, p) \in Int
         /\ TotalDue(after, p) = TotalDue(before, p) + (after[r][p] - before[r][p])
<1> DEFINE f == [q \in Requests |-> before[q][p]]
           g == [q \in Requests |-> after[q][p]]
<1>1. TotalDue(before, p) = SumFunctionOnSet(f, Requests)
  BY DEF TotalDue
<1>2. TotalDue(after, p) = SumFunctionOnSet(g, Requests)
  BY DEF TotalDue
<1>3. IntOn(f, Requests) /\ IntOn(g, Requests)
  BY DEF IntOn
<1>4. \A q \in Requests \ {r} : f[q] = g[q]
  OBVIOUS
<1>5. f[r] = before[r][p] /\ g[r] = after[r][p]
  OBVIOUS
<1>6. IsFiniteSet(Requests)
  BY RequestAssumption
<1> HIDE DEF f, g
<1>7. SumFunctionOnSet(f, Requests) \in Int
  BY <1>3, <1>6, SumType
<1>8. SumFunctionOnSet(g, Requests) = SumFunctionOnSet(f, Requests) + (g[r] - f[r])
  BY <1>3, <1>4, <1>6, SumChangeOne
<1>9. QED
  BY <1>1, <1>2, <1>5, <1>7, <1>8

(* A request owes nothing before it writes. *)
LEMMA NothingOwedYet ==
  ASSUME TypeOK, DueIsQueued, NEW r \in Requests, pc[r] \in Unwritten
  PROVE  \A p \in Pledges : due[r][p] = 0
  BY DEF DueIsQueued, Unwritten

(* A write and the debts it creates leave the books balanced. *)
LEMMA BalanceWritten ==
  ASSUME TypeOK, DueIsQueued, BalanceConserved,
         NEW r \in Requests, pc[r] \in Unwritten,
         NEW visits, NEW deltas \in [Pledges -> Int], Written(r, visits, deltas),
         UNCHANGED pledge, gift' \in [Gifts -> GiftRow],
         \A p \in Pledges : GiftsTowards(gift', p) = GiftsTowards(gift, p) + deltas[p]
  PROVE  BalanceConserved'
<1> SUFFICES ASSUME NEW p \in Pledges
             PROVE  pledge'[p].paid + TotalDue(due', p) = GiftsTowards(gift', p)
  BY DEF BalanceConserved, Owed, LiveSum
<1>1. due' = [due EXCEPT ![r] = deltas]
  BY DEF Written
<1>2. due \in [Requests -> [Pledges -> Int]] /\ due' \in [Requests -> [Pledges -> Int]]
  BY <1>1 DEF TypeOK
<1>3. due'[r] = deltas /\ \A q \in Requests \ {r} : due'[q] = due[q]
  BY <1>1, <1>2
<1>4. due[r][p] = 0
  BY NothingOwedYet
<1>5. /\ TotalDue(due, p) \in Int
      /\ TotalDue(due', p) = TotalDue(due, p) + (due'[r][p] - due[r][p])
  BY <1>2, <1>3, TotalDueMoves
<1>6. pledge[p].paid + TotalDue(due, p) = GiftsTowards(gift, p)
  BY DEF BalanceConserved, Owed, LiveSum
<1>7. pledge[p].paid \in Int /\ deltas[p] \in Int
  BY DEF TypeOK, PledgeRow
<1>8. QED
  BY <1>3, <1>4, <1>5, <1>6, <1>7

LEMMA BalanceInsert ==
  ASSUME TypeOK, DueIsQueued, Undisturbed, BalanceConserved,
         NEW r \in Requests, Insert(r)
  PROVE  BalanceConserved'
<1> DEFINE rows == job[r].rows
<1>1. rows \in Batches /\ \A g \in DOMAIN rows : gift[g].row = "absent"
  BY JobType DEF Insert, Undisturbed
<1>2. /\ gift' = Inserted(gift, rows)
      /\ UNCHANGED pledge
      /\ pc[r] \in Unwritten
      /\ \E visits : Written(r, visits, DueForBatch(rows))
  BY DEF Insert, Unwritten
<1> HIDE DEF rows
<1>3. gift \in [Gifts -> GiftRow]
  BY DEF TypeOK
<1>4. ASSUME NEW p \in Pledges
      PROVE  /\ gift' \in [Gifts -> GiftRow]
             /\ GiftsTowards(gift', p) = GiftsTowards(gift, p) + DueForBatch(rows)[p]
  BY <1>1, <1>2, <1>3, InsertMovesSum DEF DueForBatch
<1>5. gift' \in [Gifts -> GiftRow]
  BY <1>1, <1>2, <1>3, InsertMovesSum
<1>6. DueForBatch(rows) \in [Pledges -> Int]
  BY <1>1, BatchTowardsType DEF DueForBatch
<1>7. QED
  BY <1>2, <1>4, <1>5, <1>6, BalanceWritten

(* One gift row is rewritten, and its change is owed. *)
LEMMA BalanceRewritten ==
  ASSUME TypeOK, DueIsQueued, BalanceConserved,
         NEW r \in Requests, pc[r] \in Unwritten,
         NEW g \in Gifts, NEW x \in GiftRow, gift' = [gift EXCEPT ![g] = x],
         NEW visits, NEW deltas \in [Pledges -> Int], Written(r, visits, deltas),
         UNCHANGED pledge,
         \A p \in Pledges : deltas[p] = Credit(x, p) - Credit(gift[g], p)
  PROVE  BalanceConserved'
<1> DEFINE before == gift
           after == gift'
<1>1. /\ before \in [Gifts -> GiftRow]
      /\ after \in [Gifts -> GiftRow]
      /\ after[g] = x
      /\ \A h \in Gifts \ {g} : after[h] = before[h]
  BY DEF TypeOK
<1>2. ASSUME NEW p \in Pledges
      PROVE  GiftsTowards(gift', p) = GiftsTowards(gift, p) + deltas[p]
  <2>1. GiftsTowards(after, p) = GiftsTowards(before, p) + Credit(x, p) - Credit(before[g], p)
    <3> HIDE DEF after, before
    <3>1. QED
      BY <1>1, RewriteMovesSum
  <2>2. Credit(x, p) \in Int /\ Credit(gift[g], p) \in Int /\ GiftsTowards(gift, p) \in Int
    BY <1>1, CreditType, GiftsTowardsType
  <2>3. QED
    BY <2>1, <2>2
<1>3. QED
  BY <1>1, <1>2, BalanceWritten

LEMMA BalanceSave ==
  ASSUME TypeOK, DueIsQueued, Undisturbed, BalanceConserved,
         NEW r \in Requests, Save(r)
  PROVE  BalanceConserved'
<1> DEFINE g == job[r].gift
           before == gift[g]
           after == Patched(before, job[r].patch)
<1>1. g \in Gifts /\ job[r].patch \in Patches /\ before \in GiftRow /\ before.row = "live"
  BY JobType DEF Save, TypeOK
<1>2. after \in GiftRow /\ after.row = "live"
  BY <1>1, PatchedType
<1>3. /\ gift' = [gift EXCEPT ![g] = after]
      /\ Written(r, MoveVisits(before, after), DueForMove(before, after))
      /\ UNCHANGED pledge
      /\ pc[r] \in Unwritten
  BY DEF Save, Undisturbed, Unwritten
<1> HIDE DEF g, before, after
<1>4. ASSUME NEW p \in Pledges
      PROVE  DueForMove(before, after)[p] = Credit(after, p) - Credit(before, p)
  <2>1. DueForMove(before, after)[p] = RowDue(after, 1, p) + RowDue(before, -1, p)
    BY DEF DueForMove
  <2>2. before.amount \in Int /\ after.amount \in Int
    BY <1>1, <1>2, AmountType
  <2>3. RowDue(after, 1, p) = Credit(after, p)
    BY <1>2, <2>2 DEF RowDue, Credit
  <2>4. RowDue(before, -1, p) = -Credit(before, p)
    BY <1>1, <2>2 DEF RowDue, Credit
  <2>5. Credit(after, p) \in Int /\ Credit(before, p) \in Int
    BY <1>1, <1>2, CreditType
  <2>6. QED
    BY <2>1, <2>3, <2>4, <2>5
<1>5. DueForMove(before, after) \in [Pledges -> Int]
  BY <1>1, <1>2, DueForMoveType
<1>6. \A p \in Pledges : DueForMove(before, after)[p] = Credit(after, p) - Credit(gift[g], p)
  BY <1>4 DEF before
<1>7. QED
  BY <1>1, <1>2, <1>3, <1>5, <1>6, BalanceRewritten

LEMMA BalanceWriteRow ==
  ASSUME TypeOK, DueIsQueued, BalanceConserved,
         NEW r \in Requests, pc[r] \in Unwritten, NEW g \in Gifts,
         \/ Erase(r) /\ WriteRow(r, g, "archived", -1) /\ gift[g].row = "live"
         \/ Revive(r) /\ WriteRow(r, g, "live", 1) /\ gift[g].row = "archived"
  PROVE  BalanceConserved'
<1> DEFINE x == gift[g]
<1>1. x \in GiftRow
  BY DEF TypeOK
<1>2. PICK mark \in {"live", "archived"}, sign \in {-1, 1} :
        /\ \/ mark = "archived" /\ sign = -1 /\ x.row = "live"
           \/ mark = "live" /\ sign = 1 /\ x.row = "archived"
        /\ gift' = [gift EXCEPT ![g] = [x EXCEPT !.row = mark]]
        /\ Written(r, Named(x.pledge), DueForRow(x, sign))
        /\ UNCHANGED pledge
  BY DEF WriteRow
<1> HIDE DEF x
<1> DEFINE y == [x EXCEPT !.row = mark]
<1>3. /\ y \in GiftRow
      /\ y.row = mark /\ y.amount = x.amount /\ y.pledge = x.pledge
  BY <1>1, <1>2, GiftRowPledge DEF GiftRow
<1> HIDE DEF y
<1>4. ASSUME NEW p \in Pledges
      PROVE  DueForRow(x, sign)[p] = Credit(y, p) - Credit(x, p)
  <2>1. x.amount \in Int
    BY <1>1, AmountType
  <2>2. DueForRow(x, sign)[p] = RowDue(x, sign, p)
    BY DEF DueForRow
  <2>3. QED
    BY <1>2, <1>3, <2>1, <2>2 DEF RowDue, Credit
<1>5. DueForRow(x, sign) \in [Pledges -> Int]
  BY <1>1, DueForRowType
<1>6. /\ gift' = [gift EXCEPT ![g] = y]
      /\ \A p \in Pledges : DueForRow(x, sign)[p] = Credit(y, p) - Credit(gift[g], p)
  BY <1>2, <1>4 DEF x, y
<1>7. QED
  BY <1>2, <1>3, <1>5, <1>6, BalanceRewritten

LEMMA BalanceAdjust ==
  ASSUME TypeOK, BalanceConserved, NEW r \in Requests, Adjust(r)
  PROVE  BalanceConserved'
<1> DEFINE p == Head(queue[r])
<1>1. /\ p \in Pledges
      /\ pledge' = [pledge EXCEPT ![p] = Adjusted(pledge[p], due[r][p])]
      /\ due' = [due EXCEPT ![r][p] = 0]
      /\ gift' = gift
  BY DEF Adjust, TypeOK
<1> HIDE DEF p
<1> SUFFICES ASSUME NEW s \in Pledges
             PROVE  pledge'[s].paid + TotalDue(due', s) = GiftsTowards(gift', s)
  BY DEF BalanceConserved, Owed, LiveSum
<1>2. /\ due \in [Requests -> [Pledges -> Int]]
      /\ due' \in [Requests -> [Pledges -> Int]]
      /\ \A q \in Requests \ {r} : due'[q] = due[q]
  BY <1>1 DEF TypeOK
<1>3. /\ TotalDue(due, s) \in Int
      /\ TotalDue(due', s) = TotalDue(due, s) + (due'[r][s] - due[r][s])
  BY <1>2, TotalDueMoves
<1>4. pledge[s].paid + TotalDue(due, s) = GiftsTowards(gift, s)
  BY DEF BalanceConserved, Owed, LiveSum
<1>5. pledge[s].paid \in Int /\ due[r][s] \in Int
  BY <1>2 DEF TypeOK, PledgeRow
<1>6. CASE s = p
  <2>1. due'[r][s] = 0
    BY <1>1, <1>2, <1>6
  <2>2. pledge[s] \in PledgeRow
    BY DEF TypeOK
  <2>3. pledge'[s] = Adjusted(pledge[s], due[r][s])
    BY <1>1, <1>6 DEF TypeOK
  <2>4. pledge'[s].paid = pledge[s].paid + due[r][s]
    BY <1>5, <2>2, <2>3, AdjustedType
  <2>5. QED
    BY <1>1, <1>3, <1>4, <1>5, <2>1, <2>4
<1>7. CASE s # p
  <2>1. due'[r][s] = due[r][s]
    BY <1>1, <1>2, <1>7
  <2>2. pledge'[s] = pledge[s]
    BY <1>1, <1>7 DEF TypeOK
  <2>3. QED
    BY <1>1, <1>3, <1>4, <1>5, <2>1, <2>2
<1>8. QED
  BY <1>6, <1>7

LEMMA BalanceNext ==
  ASSUME TypeOK, DueIsQueued, Undisturbed, UnbornUnpaid, BalanceConserved,
         [Next /\ Courteous]_vars
  PROVE  BalanceConserved'
<1>1. ASSUME UNCHANGED <<gift, due>>,
             \A p \in Pledges : pledge'[p].paid = pledge[p].paid
      PROVE  BalanceConserved'
  BY <1>1 DEF BalanceConserved, Owed, LiveSum
<1>2. ASSUME NEW r \in Requests, Proceed(r)
      PROVE  BalanceConserved'
  <2>1. CASE Insert(r)
    BY <2>1, BalanceInsert
  <2>2. CASE Save(r)
    BY <2>2, BalanceSave
  <2>3. CASE Erase(r) \/ Revive(r)
    <3>1. job[r].gift \in Gifts /\ pc[r] \in Unwritten
      BY <2>3, JobType DEF Erase, Revive, Unwritten
    <3>2. QED
      BY <2>3, <3>1, BalanceWriteRow DEF Erase, Revive
  <2>4. CASE Adjust(r)
    BY <2>4, BalanceAdjust
  <2>5. CASE \/ CheckPatch(r) \/ RejectPatch(r) \/ SaveGone(r)
             \/ ReadBackGone(r) \/ AdjustRefused(r)
    BY <1>1, <2>5 DEF CheckPatch, Advance, RejectPatch, SaveGone, ReadBackGone,
                      AdjustRefused, Fail
  <2>6. ~(EraseNothing(r) \/ ReviveNothing(r) \/ ReadBackErased(r) \/ ReadBackRevived(r))
    BY DEF Undisturbed, EraseNothing, ReviveNothing, ReadBackErased, ReadBackRevived
  <2>7. QED
    BY <1>2, <2>1, <2>2, <2>3, <2>4, <2>5, <2>6 DEF Proceed
<1>3. ASSUME NEW r \in Requests, Start(r) \/ Crash(r)
      PROVE  BalanceConserved'
  BY <1>1, <1>3 DEF Start, BeginRecord, BeginUpdate, BeginDelete, BeginRestore,
                    Begin, Crash, Fail
<1>4. CASE Shelving \/ Editing
  <2>1. PICK p \in Pledges, row \in PledgeRow :
          WritePledge(p, row) /\ row.paid = pledge[p].paid
    BY <1>4, PledgeRequestRow DEF Shelving, Editing, UnbornUnpaid
  <2>2. QED
    BY <1>1, <2>1 DEF WritePledge, TypeOK
<1>5. CASE UNCHANGED vars
  BY <1>1, <1>5 DEF vars
<1>6. QED
  BY <1>2, <1>3, <1>4, <1>5 DEF Next, GiftStep, Crashing

LEMMA UnbornNext ==
  ASSUME TypeOK, UnbornUnpaid, [Next]_vars
  PROVE  UnbornUnpaid'
<1>1. CASE UNCHANGED pledge
  BY <1>1 DEF UnbornUnpaid
<1>2. ASSUME NEW r \in Requests, Adjust(r)
      PROVE  UnbornUnpaid'
  <2> DEFINE p == Head(queue[r])
  <2>1. /\ p \in Pledges
        /\ pledge[p].row = "live"
        /\ pledge' = [pledge EXCEPT ![p] = Adjusted(pledge[p], due[r][p])]
        /\ pledge[p] \in PledgeRow
        /\ due[r][p] \in Int
    BY <1>2 DEF Adjust, TypeOK
  <2> HIDE DEF p
  <2>2. Adjusted(pledge[p], due[r][p]).row = "live"
    BY <2>1, AdjustedType
  <2>3. QED
    BY <2>1, <2>2 DEF UnbornUnpaid, TypeOK
<1>3. CASE Shelving \/ Editing
  <2>1. PICK p \in Pledges, row \in PledgeRow :
          WritePledge(p, row) /\ row.row # "absent"
    BY <1>3, PledgeRequestRow DEF Shelving, Editing
  <2>2. QED
    BY <2>1 DEF WritePledge, UnbornUnpaid, TypeOK
<1>4. ASSUME NEW r \in Requests, Start(r) \/ Proceed(r) \/ Crash(r), ~Adjust(r)
      PROVE  UNCHANGED pledge
  BY <1>4 DEF Start, Proceed, Crash, Begin, Fail, Advance, WriteRow,
       BeginRecord, BeginUpdate, BeginDelete, BeginRestore, Insert, Save,
       CheckPatch, RejectPatch, SaveGone, Erase, EraseNothing,
       ReadBackErased, Revive, ReviveNothing,
       ReadBackRevived, ReadBackGone, AdjustRefused
<1>5. QED
  BY <1>1, <1>2, <1>3, <1>4 DEF Next, GiftStep, Crashing, vars

(* With nothing owed and the totals right, the books balance from the start. *)
LEMMA BalanceInit == Init => Undisturbed /\ UnbornUnpaid /\ BalanceConserved
<1> SUFFICES ASSUME Init PROVE Undisturbed /\ UnbornUnpaid /\ BalanceConserved
  OBVIOUS
<1>1. TypeOK
  BY TypeInit
<1>2. /\ pc = [r \in Requests |-> "idle"]
      /\ due = [r \in Requests |-> NothingDue]
  BY DEF Init
<1>3. Undisturbed
  BY <1>2 DEF Undisturbed, Touched, Unwritten
<1>4. PICK born \in SUBSET Pledges :
        /\ gift \in [Gifts -> {x \in GiftRow : x.pledge \in born \cup {NoPledge}}]
        /\ \E promised \in [Pledges -> Promises], cancelled \in SUBSET born :
            pledge = [p \in Pledges |->
                        IF p \notin born THEN AbsentPledge
                        ELSE [row |-> "live", promised |-> promised[p],
                              paid |-> LiveSum(p),
                              status |-> IF p \in cancelled THEN "CANCELLED"
                                         ELSE IF LiveSum(p) >= promised[p]
                                         THEN "FULFILLED" ELSE "ACTIVE"]]
  BY Zenon DEF Init
<1>4a. \A p \in Pledges : /\ p \in born => /\ pledge[p].paid = LiveSum(p)
                                         /\ pledge[p].row = "live"
                          /\ p \notin born => pledge[p] = AbsentPledge
  BY <1>4
<1>5. UnbornUnpaid
  BY <1>4a DEF UnbornUnpaid, AbsentPledge
<1>6. ASSUME NEW p \in Pledges, p \notin born
      PROVE  LiveSum(p) = 0
  <2>1. IntOn(Credits(gift, p), Gifts)
    BY <1>1, CreditsType DEF TypeOK
  <2>2. ASSUME NEW g \in Gifts PROVE Credits(gift, p)[g] = 0
    <3>1. gift[g].pledge # p
      BY <1>4, <1>6, GiftAssumption
    <3>2. QED
      BY <3>1 DEF Credits, Credit
  <2>3. SumFunctionOnSet(Credits(gift, p), Gifts) = SumFunctionOnSet(Credits(gift, p), {})
    BY <2>1, <2>2, SumSubset, GiftAssumption
  <2>4. GiftsTowards(gift, p) = SumFunctionOnSet(Credits(gift, p), Gifts)
    BY DEF GiftsTowards, Credits
  <2>5. QED
    BY <2>3, <2>4, SumEmpty DEF LiveSum
<1>7. ASSUME NEW p \in Pledges
      PROVE  Owed(p) = 0
  <2> DEFINE f == [r \in Requests |-> due[r][p]]
  <2>1. \A r \in Requests : f[r] = 0
    BY <1>2 DEF NothingDue
  <2>2. Owed(p) = SumFunctionOnSet(f, Requests)
    BY DEF Owed, TotalDue
  <2> HIDE DEF f
  <2>3. IntOn(f, Requests)
    BY <2>1 DEF IntOn
  <2>4. SumFunctionOnSet(f, Requests) = SumFunctionOnSet(f, {})
    BY <2>1, <2>3, SumSubset, RequestAssumption
  <2>5. QED
    BY <2>2, <2>4, SumEmpty
<1>8. ASSUME NEW p \in Pledges
      PROVE  pledge[p].paid + Owed(p) = LiveSum(p)
  <2>1. pledge[p].paid = LiveSum(p)
    BY <1>4a, <1>6 DEF AbsentPledge
  <2>2. LiveSum(p) \in Int
    BY <1>1, GiftsTowardsType DEF LiveSum, TypeOK
  <2>3. QED
    BY <1>7, <2>1, <2>2
<1>9. QED
  BY <1>3, <1>5, <1>8 DEF BalanceConserved

(***************************************************************************)
(* As long as no two clients work on the same gift at once, the stored     *)
(* total and the adjustments still owed make up the sum of the live gifts  *)
(* of every pledge, in every state, whatever fails half-way.               *)
(***************************************************************************)
THEOREM CourtesyConserves == CourteousSpec => [](CourteousInv /\ BalanceConserved)
<1>1. [Next /\ Courteous]_vars => [Next]_vars
  OBVIOUS
<1>2. Init => CourteousInv
  BY TypeInit, QueuedInit, BalanceInit DEF CourteousInv
<1>3. CourteousInv /\ [Next /\ Courteous]_vars => CourteousInv'
  BY <1>1, TypeNext, QueuedNext, UndisturbedNext, UnbornNext, BalanceNext DEF CourteousInv
<1>4. CourteousInv => BalanceConserved
  BY DEF CourteousInv
<1>5. QED
  BY <1>2, <1>3, <1>4, PTL DEF CourteousSpec

(***************************************************************************)
(* The total of a pledge moves only together with its status, edited or    *)
(* not: whatever the status was, an adjustment sets the one it calls for.  *)
(***************************************************************************)
LEMMA AdjustedMoves ==
  ASSUME NEW x \in PledgeRow, NEW delta \in Int, delta # 0
  PROVE  /\ Settled(Adjusted(x, delta))
         /\ (x.status = "CANCELLED") <=> (Adjusted(x, delta).status = "CANCELLED")
<1> DEFINE paid == x.paid + delta
           status == StatusFor(x, paid)
<1>1. Adjusted(x, delta) = [x EXCEPT !.paid = paid, !.status = status]
  BY DEF Adjusted
<1>2. paid \in Int /\ x.promised \in Int /\ x.status \in Statuses
  BY DEF PledgeRow
<1> HIDE DEF paid
<1>3. /\ status # "CANCELLED" => (status = "FULFILLED" <=> paid >= x.promised)
      /\ (x.status = "CANCELLED") <=> (status = "CANCELLED")
  BY <1>2 DEF StatusFor, Statuses
<1> HIDE DEF status
<1>4. /\ Adjusted(x, delta).paid = paid
      /\ Adjusted(x, delta).status = status
      /\ Adjusted(x, delta).promised = x.promised
  BY <1>1 DEF PledgeRow
<1>5. QED
  BY <1>3, <1>4 DEF Settled

LEMMA PaidMovesStep ==
  ASSUME TypeOK, UnbornUnpaid, Next, NEW p \in Pledges,
         pledge'[p].paid # pledge[p].paid
  PROVE  /\ pledge[p].row = "live"
         /\ Settled(pledge'[p])
         /\ (pledge[p].status = "CANCELLED") <=> (pledge'[p].status = "CANCELLED")
<1>1. ASSUME NEW r \in Requests, Adjust(r)
      PROVE  /\ pledge[p].row = "live"
             /\ Settled(pledge'[p])
             /\ (pledge[p].status = "CANCELLED") <=> (pledge'[p].status = "CANCELLED")
  <2> DEFINE h == Head(queue[r])
  <2>1. /\ h \in Pledges
        /\ pledge[h].row = "live"
        /\ pledge' = [pledge EXCEPT ![h] = Adjusted(pledge[h], due[r][h])]
        /\ pledge[h] \in PledgeRow
        /\ due[r][h] \in Int
    BY <1>1 DEF Adjust, TypeOK
  <2> HIDE DEF h
  <2>2. p = h /\ pledge'[p] = Adjusted(pledge[p], due[r][p])
    BY <2>1 DEF TypeOK
  <2>3. due[r][p] # 0
    BY <2>2 DEF Adjusted
  <2>4. /\ Settled(Adjusted(pledge[p], due[r][p]))
        /\ (pledge[p].status = "CANCELLED")
             <=> (Adjusted(pledge[p], due[r][p]).status = "CANCELLED")
    BY <2>1, <2>2, <2>3, AdjustedMoves
  <2>5. QED
    BY <2>1, <2>2, <2>4
<1>2. ~(Shelving \/ Editing)
  <2> SUFFICES ASSUME Shelving \/ Editing PROVE FALSE
    OBVIOUS
  <2>1. PICK q \in Pledges, row \in PledgeRow :
          /\ WritePledge(q, row)
          /\ \/ row.paid = pledge[q].paid
             \/ pledge[q].row = "absent" /\ row.paid = 0
    BY PledgeRequestRow DEF Shelving, Editing
  <2>2. row.paid = pledge[q].paid
    BY <2>1 DEF UnbornUnpaid
  <2>3. pledge'[p].paid = pledge[p].paid
    BY <2>1, <2>2 DEF WritePledge, TypeOK
  <2>4. QED
    BY <2>3
<1>3. ASSUME NEW r \in Requests, Start(r) \/ Proceed(r) \/ Crash(r), ~Adjust(r)
      PROVE  FALSE
  BY <1>3 DEF Start, Proceed, Crash, Begin, Fail, Advance, WriteRow,
       BeginRecord, BeginUpdate, BeginDelete, BeginRestore, Insert, Save,
       CheckPatch, RejectPatch, SaveGone, Erase, EraseNothing,
       ReadBackErased, Revive, ReviveNothing,
       ReadBackRevived, ReadBackGone, AdjustRefused
<1>4. QED
  BY <1>1, <1>2, <1>3 DEF Next, GiftStep, Crashing

(* A live pledge's total moves only together with the status it calls for,   *)
(* and the total of an archived one does not move.                           *)
THEOREM PaidMoves == Spec => PaidMovesWithStatus
<1>1. Init => TypeOK /\ UnbornUnpaid
  BY TypeInit, BalanceInit
<1>2. TypeOK /\ UnbornUnpaid /\ [Next]_vars => (TypeOK /\ UnbornUnpaid)'
  BY TypeNext, UnbornNext
<1>3. TypeOK /\ UnbornUnpaid /\ [Next]_vars =>
        [\A p \in Pledges :
           pledge'[p].paid # pledge[p].paid =>
             /\ pledge[p].row = "live"
             /\ Settled(pledge'[p])
             /\ (pledge[p].status = "CANCELLED") <=> (pledge'[p].status = "CANCELLED")]_vars
  BY PaidMovesStep
<1>4. QED
  BY <1>1, <1>2, <1>3, PTL DEF Spec, PaidMovesWithStatus

(***************************************************************************)
(* Refinement: what the handlers do in several calls is, gift by gift and  *)
(* batch by batch, one step of the abstract ledger.                        *)
(***************************************************************************)
Booked == [p \in Pledges |-> pledge[p].paid + Owed(p)]

LEMMA BookedSums ==
  ASSUME BalanceConserved
  PROVE  Booked = [p \in Pledges |-> GiftsTowards(gift, p)]
  BY DEF BalanceConserved, Booked, LiveSum

LEMMA BookedSumsAfter ==
  ASSUME BalanceConserved'
  PROVE  Booked' = [p \in Pledges |-> GiftsTowards(gift', p)]
  BY DEF BalanceConserved, Booked, LiveSum

(* The abstract ledger's tables are this module's: the instance brings its  *)
(* own copies of the operators, which say the same.                         *)
LEMMA SameTables ==
  /\ \A x, p : Books!Credit(x, p) = Credit(x, p)
  /\ \A table, p : Books!GiftsTowards(table, p) = GiftsTowards(table, p)
  /\ \A table, rows : Books!Inserted(table, rows) = Inserted(table, rows)
  /\ \A rows, p : Books!BatchTowards(rows, p) = BatchTowards(rows, p)
  /\ Books!Batches = Batches
  /\ Books!GiftRow = GiftRow
  /\ Books!GiftData = GiftData
<1>1. \A x, p : Books!Credit(x, p) = Credit(x, p)
  BY DEF Books!Credit, Credit
<1>2. \A f, S : Books!SumFunctionOnSet(f, S) = SumFunctionOnSet(f, S)
  BY Zenon DEF Books!SumFunctionOnSet, SumFunctionOnSet, Books!FoldFunctionOnSet,
     FoldFunctionOnSet, Books!MapThenFoldSet, MapThenFoldSet
<1>3. \A S : Books!Cardinality(S) = Cardinality(S)
  BY Zenon DEF Books!Cardinality, Cardinality
<1>4. \A table, p : Books!GiftsTowards(table, p) = GiftsTowards(table, p)
  BY <1>1, <1>2, Zenon DEF Books!GiftsTowards, GiftsTowards, Books!Credit, Credit
<1>5. \A table, rows : Books!Inserted(table, rows) = Inserted(table, rows)
  BY DEF Books!Inserted, Inserted
<1>6. \A rows, p : Books!BatchTowards(rows, p) = BatchTowards(rows, p)
  BY <1>2, Zenon DEF Books!BatchTowards, BatchTowards
<1>7. Books!GiftRow = GiftRow /\ Books!GiftData = GiftData
  BY DEF Books!GiftRow, GiftRow, Books!AbsentGift, AbsentGift, Books!GiftData, GiftData
<1>8. Books!Batches = Batches
  BY <1>3, <1>7, Zenon DEF Books!Batches, Batches
<1>9. QED
  BY <1>1, <1>4, <1>5, <1>6, <1>7, <1>8

LEMMA InsertRefines ==
  ASSUME CourteousInv, CourteousInv', NEW r \in Requests, Insert(r)
  PROVE  Books!LedgerNext
<1>1. job[r].rows \in Batches
  BY JobType DEF Insert, CourteousInv
<1> PICK rows \in Batches : rows = job[r].rows
  BY <1>1
<1>2. /\ \A g \in DOMAIN rows : gift[g].row = "absent"
      /\ gift' = Inserted(gift, rows)
      /\ gift \in [Gifts -> GiftRow]
  BY DEF Insert, CourteousInv, Undisturbed, TypeOK
<1>3. /\ Booked = [p \in Pledges |-> GiftsTowards(gift, p)]
      /\ Booked' = [p \in Pledges |-> GiftsTowards(gift', p)]
  BY BookedSums, BookedSumsAfter DEF CourteousInv
<1>4. ASSUME NEW p \in Pledges
      PROVE  GiftsTowards(gift', p) = GiftsTowards(gift, p) + BatchTowards(rows, p)
  BY <1>2, InsertMovesSum
<1>5. Booked' = [p \in Pledges |-> Booked[p] + BatchTowards(rows, p)]
  BY <1>3, <1>4
<1>6. Books!Record(rows)
  BY <1>2, <1>5, SameTables DEF Books!Record, Booked
<1>7. rows \in Books!Batches
  BY SameTables
<1>8. QED
  BY <1>6, <1>7 DEF Books!LedgerNext

LEMMA RewriteRefines ==
  ASSUME CourteousInv, CourteousInv', NEW g \in Gifts, NEW x \in GiftRow,
         gift' = [gift EXCEPT ![g] = x]
  PROVE  Books!Rewrite(g, x)
<1> DEFINE before == gift
           after == gift'
<1>1. /\ before \in [Gifts -> GiftRow]
      /\ after \in [Gifts -> GiftRow]
      /\ after[g] = x
      /\ \A h \in Gifts \ {g} : after[h] = before[h]
  BY DEF CourteousInv, TypeOK
<1>2. /\ Booked = [p \in Pledges |-> GiftsTowards(before, p)]
      /\ Booked' = [p \in Pledges |-> GiftsTowards(after, p)]
  BY BookedSums, BookedSumsAfter DEF CourteousInv
<1>3. ASSUME NEW p \in Pledges
      PROVE  GiftsTowards(after, p) = GiftsTowards(before, p) + Credit(x, p) - Credit(before[g], p)
  <2> HIDE DEF before, after
  <2>1. QED
    BY <1>1, RewriteMovesSum
<1>4. Booked' = [p \in Pledges |-> Booked[p] + Credit(x, p) - Credit(gift[g], p)]
  <2> HIDE DEF after, Booked
  <2>1. Booked' = [p \in Pledges |-> Booked[p] + Credit(x, p) - Credit(before[g], p)]
    <3> HIDE DEF before
    <3>1. QED
      BY <1>2, <1>3
  <2>2. QED
    BY <2>1
<1>5. QED
  BY <1>4, SameTables DEF Books!Rewrite, Booked

LEMMA StepRefines ==
  ASSUME CourteousInv, CourteousInv', [Next /\ Courteous]_vars
  PROVE  [Books!LedgerNext]_(Books!ledger)
<1>1. CASE UNCHANGED gift
  <2>1. Booked' = Booked
    BY <1>1, BookedSums, BookedSumsAfter DEF CourteousInv
  <2>2. QED
    BY <1>1, <2>1 DEF Books!ledger, Booked
<1>2. ASSUME NEW r \in Requests, Insert(r)
      PROVE  Books!LedgerNext
  BY <1>2, InsertRefines
<1>3. ASSUME NEW r \in Requests, Save(r)
      PROVE  Books!LedgerNext
  <2>1. job[r].gift \in Gifts /\ job[r].patch \in Patches
    BY <1>3, JobType DEF Save, CourteousInv
  <2> PICK g \in Gifts : g = job[r].gift
    BY <2>1
  <2>2. gift[g] \in GiftRow /\ gift[g].row = "live"
    BY <1>3 DEF Save, CourteousInv, TypeOK
  <2>3. /\ Patched(gift[g], job[r].patch) \in GiftRow
        /\ Patched(gift[g], job[r].patch).row = "live"
    BY <2>1, <2>2, PatchedType
  <2> PICK x \in GiftRow : x = Patched(gift[g], job[r].patch)
    BY <2>3
  <2>4. x.row = "live"
    BY <2>3
  <2>5. gift' = [gift EXCEPT ![g] = x]
    BY <1>3 DEF Save
  <2>6. Books!Rewrite(g, x)
    BY <2>5, RewriteRefines
  <2> DEFINE y == [amount |-> x.amount, pledge |-> x.pledge]
  <2>7. y \in GiftData /\ x = [row |-> "live", amount |-> y.amount, pledge |-> y.pledge]
    BY <2>4, GiftRowPledge DEF GiftData
  <2> HIDE DEF y
  <2>8. Books!Amend(g)
    <3>1. y \in Books!GiftData
      BY <2>7, SameTables
    <3>2. Books!Rewrite(g, [row |-> "live", amount |-> y.amount, pledge |-> y.pledge])
      BY <2>6, <2>7
    <3>3. QED
      BY <2>2, <3>1, <3>2 DEF Books!Amend
  <2>9. QED
    BY <2>2, <2>8 DEF Books!LedgerNext
<1>4. ASSUME NEW r \in Requests, Erase(r)
      PROVE  Books!LedgerNext
  <2>1. job[r].gift \in Gifts
    BY <1>4, JobType DEF Erase, CourteousInv
  <2> PICK g \in Gifts : g = job[r].gift
    BY <2>1
  <2>2. gift[g] \in GiftRow /\ gift[g].row = "live"
    BY <1>4 DEF Erase, CourteousInv, TypeOK
  <2>3. [gift[g] EXCEPT !.row = "archived"] \in GiftRow
    BY <2>2, GiftRowPledge DEF GiftRow
  <2> PICK x \in GiftRow : x = [gift[g] EXCEPT !.row = "archived"]
    BY <2>3
  <2>4. gift' = [gift EXCEPT ![g] = x]
    BY <1>4 DEF Erase, WriteRow
  <2>5. Books!Rewrite(g, x)
    BY <2>4, RewriteRefines
  <2>6. Books!Rewrite(g, [gift[g] EXCEPT !.row = "archived"])
    BY <2>5 DEF Books!Rewrite
  <2>7. QED
    BY <2>2, <2>6 DEF Books!Void, Books!LedgerNext
<1>5. ASSUME NEW r \in Requests, Revive(r)
      PROVE  Books!LedgerNext
  <2>1. job[r].gift \in Gifts
    BY <1>5, JobType DEF Revive, CourteousInv
  <2> PICK g \in Gifts : g = job[r].gift
    BY <2>1
  <2>2. gift[g] \in GiftRow /\ gift[g].row = "archived"
    BY <1>5 DEF Revive, CourteousInv, TypeOK
  <2>3. [gift[g] EXCEPT !.row = "live"] \in GiftRow
    BY <2>2, GiftRowPledge DEF GiftRow
  <2> PICK x \in GiftRow : x = [gift[g] EXCEPT !.row = "live"]
    BY <2>3
  <2>4. gift' = [gift EXCEPT ![g] = x]
    BY <1>5 DEF Revive, WriteRow
  <2>5. Books!Rewrite(g, x)
    BY <2>4, RewriteRefines
  <2>6. Books!Rewrite(g, [gift[g] EXCEPT !.row = "live"])
    BY <2>5 DEF Books!Rewrite
  <2>7. QED
    BY <2>2, <2>6 DEF Books!Reinstate, Books!LedgerNext
<1>6. ASSUME NEW r \in Requests, Start(r) \/ Proceed(r) \/ Crash(r),
             ~(Insert(r) \/ Save(r) \/ Erase(r) \/ Revive(r))
      PROVE  UNCHANGED gift
  BY <1>6 DEF Start, Proceed, Crash, Begin, Fail, Advance,
       BeginRecord, BeginUpdate, BeginDelete, BeginRestore,
       CheckPatch, RejectPatch, SaveGone, EraseNothing,
       ReadBackErased, ReviveNothing,
       ReadBackRevived, ReadBackGone, Adjust, AdjustRefused
<1>7. CASE Shelving \/ Editing
  BY <1>1, <1>7 DEF Shelving, Editing, ArchivePledge, RestorePledge,
                    CreatePledge, EditPledge, WritePledge
<1>8. QED
  BY <1>1, <1>2, <1>3, <1>4, <1>5, <1>6, <1>7 DEF Next, GiftStep, Crashing, vars

(***************************************************************************)
(* Among courteous clients the server implements the abstract ledger:      *)
(* every request takes effect on gifts and balances at one instant, once.  *)
(***************************************************************************)
THEOREM CourteousRefinesBooks == CourteousSpec => BooksRefined
<1>1. Init => Books!LedgerInit
  <2> SUFFICES ASSUME Init PROVE Books!LedgerInit
    OBVIOUS
  <2>1. TypeOK /\ BalanceConserved
    BY TypeInit, BalanceInit
  <2>2. QED
    BY <2>1, BookedSums, SameTables DEF Books!LedgerInit, Booked, TypeOK
<1>2. CourteousInv /\ CourteousInv' /\ [Next /\ Courteous]_vars => [Books!LedgerNext]_(Books!ledger)
  BY StepRefines
<1>3. CourteousSpec => []CourteousInv
  BY CourtesyConserves, PTL
<1>4. QED
  BY <1>1, <1>2, <1>3, PTL DEF CourteousSpec, BooksRefined, Books!LedgerSpec
=============================================================================
