---------------------------- MODULE PledgeLedger ----------------------------
(***************************************************************************)
(* The pledge ledger: gifts (rows of Transaction) and the running total    *)
(* each pledge keeps of the gifts made towards it (Pledge.paidAmount).     *)
(*                                                                         *)
(* TransactionFeatureService serves every request in several database      *)
(* calls, and awaits between them: it validates and reads, writes the gift *)
(* row, and then moves the total of each pledge concerned by a difference  *)
(* it worked out from the rows it saw (PledgeRepository.adjustPaidAmount). *)
(* Each call commits on its own.  An action below is one call, or the      *)
(* reads that precede a write, so that requests interleave as they do on   *)
(* the server; a request may also die between two calls (Crash).           *)
(*                                                                         *)
(* Campaign and item attribution, notes, dates and audit events play no    *)
(* part in the total and are left out; a request rejected by one of their  *)
(* checks has changed nothing, which is a request that never began.        *)
(***************************************************************************)
EXTENDS GiftTables, Sequences, SequencesExt

CONSTANTS
  Requests,       \* gift requests of a behaviour, each served once
  Promises,       \* amounts a pledge may promise (Pledge.pledgedAmount)
  Keep            \* a field an update does not mention

ASSUME RequestAssumption ==
  /\ IsFiniteSet(Requests)
  /\ Promises \subseteq Nat
  /\ Keep \notin Pledges \cup {NoPledge} \cup Amounts

VARIABLES
  pledge,         \* the Pledge table
  gift,           \* the Transaction table
  pc,             \* where each request is: what it does next
  job,            \* what a request that has not yet written will write
  queue,          \* the pledges a request has still to adjust, in order
  due             \* by how much it will adjust each of them

vars == <<pledge, gift, pc, job, queue, due>>

Rows == {"absent", "live", "archived"}     \* archived: deletedAt is set
Statuses == {"ACTIVE", "FULFILLED", "CANCELLED"}

PledgeRow == [row : Rows, promised : Nat, paid : Int, status : Statuses]

AbsentPledge ==
  [row |-> "absent", promised |-> 0, paid |-> 0, status |-> "ACTIVE"]

(* The sum of the live gifts towards p: aggregate(_sum amount) of findById. *)
LiveSum(p) == GiftsTowards(gift, p)

(* What the requests have still to add to the total of p. *)
TotalDue(owing, p) == SumFunctionOnSet([r \in Requests |-> owing[r][p]], Requests)
Owed(p) == TotalDue(due, p)

-----------------------------------------------------------------------------
(* Requests. *)

NoJob == [op |-> "none"]
NothingDue == [p \in Pledges |-> 0]

(* The places where a request has read or validated, and not yet written. *)
Unwritten == {"insert", "check", "save", "erase", "erased", "revive", "revived"}
Places == Unwritten \cup {"idle", "adjust", "done", "failed"}

(* The gifts a request is about to write. *)
Touched(r) ==
  IF pc[r] = "insert" THEN DOMAIN job[r].rows
  ELSE IF pc[r] \in Unwritten THEN {job[r].gift}
  ELSE {}

Begin(r, place, work) ==
  /\ pc[r] = "idle"
  /\ pc' = [pc EXCEPT ![r] = place]
  /\ job' = [job EXCEPT ![r] = work]
  /\ UNCHANGED <<pledge, gift, queue, due>>

(* A fault the checks must notice: adjusting even when there is no pledge. *)
WrittenAlwaysAdjusts(r, visits, deltas) ==
  /\ pc' = [pc EXCEPT ![r] = "adjust"]
  /\ job' = [job EXCEPT ![r] = NoJob]
  /\ queue' = [queue EXCEPT ![r] = visits]
  /\ due' = [due EXCEPT ![r] = deltas]

(* The row is written; the pledges in `visits` are to be adjusted next. *)
Written(r, visits, deltas) ==
  /\ pc' = [pc EXCEPT ![r] = IF visits = <<>> THEN "done" ELSE "adjust"]
  /\ job' = [job EXCEPT ![r] = NoJob]
  /\ queue' = [queue EXCEPT ![r] = visits]
  /\ due' = [due EXCEPT ![r] = deltas]

(* A rejection or an exception: the request ends, what it owes stays owed. *)
Fail(r) ==
  /\ pc' = [pc EXCEPT ![r] = "failed"]
  /\ job' = [job EXCEPT ![r] = NoJob]
  /\ UNCHANGED <<pledge, gift, queue, due>>

(* A call that has changed nothing returns; the next one is at `place`. *)
Advance(r, place) ==
  /\ pc' = [pc EXCEPT ![r] = place]
  /\ UNCHANGED <<pledge, gift, job, queue, due>>

Named(p) == IF p = NoPledge THEN <<>> ELSE <<p>>

(* The adjustment of a single row: `sign` times the amount, on its pledge. *)
RowDue(x, sign, p) == IF x.pledge = p THEN sign * x.amount ELSE 0
DueForRow(x, sign) == [p \in Pledges |-> RowDue(x, sign, p)]

-----------------------------------------------------------------------------
(* record and recordMany: validate every row, insert them, adjust.  *)

FreshGifts == {g \in Gifts : /\ gift[g].row = "absent"
                             /\ \A q \in Requests : g \notin Touched(q)}

Payable(p) == p \in Pledges => pledge[p].row = "live"

(* record is the batch of one; every named pledge must be live (getById). *)
BeginRecord(r) ==
  \E rows \in Batches :
    /\ DOMAIN rows \subseteq FreshGifts
    /\ \A g \in DOMAIN rows : Payable(rows[g].pledge)
    /\ Begin(r, "insert", [rows |-> rows])

(* Fault: the map of deltas keeps one gift per pledge instead of adding up. *)
DueForBatchOfOne(rows) ==
  [p \in Pledges |->
     LET toP == {g \in DOMAIN rows : rows[g].pledge = p}
     IN  IF toP = {} THEN 0 ELSE rows[CHOOSE g \in toP : TRUE].amount]

(* The deltas of a batch collapse into one adjustment per pledge. *)
DueForBatch(rows) == [p \in Pledges |-> BatchTowards(rows, p)]

BatchPledges(rows) == {rows[g].pledge : g \in DOMAIN rows} \ {NoPledge}

(* All rows of the batch in one database transaction (createManyWithAudit); *)
(* the pledges are then visited in the order the caller listed the gifts.   *)
Insert(r) ==
  /\ pc[r] = "insert"
  /\ gift' = Inserted(gift, job[r].rows)
  /\ \E visits \in SetToSeqs(BatchPledges(job[r].rows)) :
       Written(r, visits, DueForBatch(job[r].rows))
  /\ UNCHANGED pledge

-----------------------------------------------------------------------------
(* update: read the row before, validate the patch, write, adjust by the    *)
(* difference between the row written and the row read before: four calls.  *)

Patches == [amount : Amounts \cup {Keep},
            pledge : Pledges \cup {NoPledge, Keep}]

BeginUpdate(r) ==
  \E g \in Gifts, patch \in Patches :
    /\ gift[g].row = "live"
    /\ Begin(r, "check", [gift |-> g, patch |-> patch, before |-> gift[g]])

(* The pledge a patch names must be live by then. *)
Acceptable(patch) == patch.pledge # Keep => Payable(patch.pledge)

CheckPatch(r) ==
  /\ pc[r] = "check"
  /\ Acceptable(job[r].patch)
  /\ Advance(r, "save")

RejectPatch(r) ==
  /\ pc[r] = "check"
  /\ ~Acceptable(job[r].patch)
  /\ Fail(r)

Patched(x, patch) ==
  [x EXCEPT !.amount = IF patch.amount = Keep THEN @ ELSE patch.amount,
            !.pledge = IF patch.pledge = Keep THEN @ ELSE patch.pledge]

(* Fault: a gift that moves visits its new pledge only. *)
MoveVisitsNewOnly(x, y) == IF x = y THEN <<>> ELSE Named(y.pledge)

(* An unmoved gift visits its pledge if its amount changed; a moved one    *)
(* visits the old pledge, then the new one.                                *)
MoveVisits(x, y) ==
  IF x.pledge = y.pledge
  THEN IF x.amount = y.amount THEN <<>> ELSE Named(x.pledge)
  ELSE Named(x.pledge) \o Named(y.pledge)

(* Fault: the amount is not taken back from the old pledge. *)
DueForMoveKeepsOld(x, y) ==
  [p \in Pledges |-> IF x.pledge = y.pledge THEN RowDue(y, 1, p) + RowDue(x, -1, p)
                     ELSE RowDue(y, 1, p)]

DueForMove(x, y) ==
  [p \in Pledges |-> RowDue(y, 1, p) + RowDue(x, -1, p)]

Save(r) ==
  /\ pc[r] = "save"
  /\ gift[job[r].gift].row = "live"
  /\ LET after == Patched(gift[job[r].gift], job[r].patch)
     IN  /\ gift' = [gift EXCEPT ![job[r].gift] = after]
         /\ Written(r, MoveVisits(job[r].before, after),
                       DueForMove(job[r].before, after))
  /\ UNCHANGED pledge

(* Archived since it was read: the update finds no live row and throws. *)
SaveGone(r) ==
  /\ pc[r] = "save"
  /\ gift[job[r].gift].row # "live"
  /\ Fail(r)

-----------------------------------------------------------------------------
(* delete: find the live row, stamp the tombstone, adjust by minus its      *)
(* amount.  The write matches live rows only, and a write that matched none *)
(* is not an error: the row is read back and adjusted for all the same.     *)

BeginDelete(r) ==
  \E g \in Gifts : /\ gift[g].row = "live"
                   /\ Begin(r, "erase", [gift |-> g])

WriteRow(r, g, mark, sign) ==
  /\ gift' = [gift EXCEPT ![g].row = mark]
  /\ Written(r, Named(gift[g].pledge), DueForRow(gift[g], sign))
  /\ UNCHANGED pledge

Erase(r) ==
  /\ pc[r] = "erase"
  /\ gift[job[r].gift].row = "live"
  /\ WriteRow(r, job[r].gift, "archived", -1)

EraseNothing(r) ==
  /\ pc[r] = "erase"
  /\ gift[job[r].gift].row # "live"
  /\ Advance(r, "erased")

(* The read-back accepts the row in whatever state it is by now. *)
ReadBackErased(r) ==
  /\ pc[r] = "erased"
  /\ Written(r, Named(gift[job[r].gift].pledge),
                DueForRow(gift[job[r].gift], -1))
  /\ UNCHANGED <<pledge, gift>>

-----------------------------------------------------------------------------
(* restore: the mirror image, and it starts from a row in either state.     *)

BeginRestore(r) ==
  \E g \in Gifts : /\ gift[g].row # "absent"
                   /\ Begin(r, "revive", [gift |-> g])

Revive(r) ==
  /\ pc[r] = "revive"
  /\ gift[job[r].gift].row = "archived"
  /\ WriteRow(r, job[r].gift, "live", 1)

ReviveNothing(r) ==
  /\ pc[r] = "revive"
  /\ gift[job[r].gift].row # "archived"
  /\ Advance(r, "revived")

ReadBackRevived(r) ==
  /\ pc[r] = "revived"
  /\ gift[job[r].gift].row = "live"
  /\ Written(r, Named(gift[job[r].gift].pledge),
                DueForRow(gift[job[r].gift], 1))
  /\ UNCHANGED <<pledge, gift>>

(* Archived again before the read-back, which looks for a live row. *)
ReadBackGone(r) ==
  /\ pc[r] = "revived"
  /\ gift[job[r].gift].row # "live"
  /\ Fail(r)

-----------------------------------------------------------------------------
(* adjustPaidAmount: one database transaction that increments the total and *)
(* then sets the status; the row lock of the increment makes it atomic.     *)

(* Fault: a fulfilled pledge is not demoted when a gift is voided. *)
AdjustedUpwards(x, delta) ==
  LET paid == x.paid + delta
  IN  [x EXCEPT !.paid = paid,
                !.status = IF @ = "ACTIVE" /\ paid >= x.promised
                           THEN "FULFILLED" ELSE @]

(* Fault: a pledge paid exactly is not yet fulfilled. *)
AdjustedLate(x, delta) ==
  LET paid == x.paid + delta
  IN  [x EXCEPT !.paid = paid,
                !.status = IF @ = "CANCELLED" \/ delta = 0 THEN @
                           ELSE IF paid > x.promised THEN "FULFILLED" ELSE "ACTIVE"]

(* ACTIVE becomes FULFILLED when enough is paid, and FULFILLED falls back;  *)
(* CANCELLED stays.  An adjustment by zero changes nothing.                 *)
StatusFor(x, paid) ==
  IF x.status = "ACTIVE" /\ paid >= x.promised THEN "FULFILLED"
  ELSE IF x.status = "FULFILLED" /\ paid < x.promised THEN "ACTIVE"
  ELSE x.status

Adjusted(x, delta) ==
  IF delta = 0 THEN x
  ELSE [x EXCEPT !.paid = x.paid + delta,
                 !.status = StatusFor(x, x.paid + delta)]

(* Fault: the request ends after its first pledge. *)
AdjustFirstOnly(r) ==
  /\ pc[r] = "adjust"
  /\ LET p == Head(queue[r])
     IN  /\ pledge[p].row = "live"
         /\ pledge' = [pledge EXCEPT ![p] = Adjusted(@, due[r][p])]
         /\ due' = [due EXCEPT ![r][p] = 0]
  /\ queue' = [queue EXCEPT ![r] = <<>>]
  /\ pc' = [pc EXCEPT ![r] = "done"]
  /\ UNCHANGED <<gift, job>>

Adjust(r) ==
  /\ pc[r] = "adjust"
  /\ LET p == Head(queue[r])
     IN  /\ pledge[p].row = "live"
         /\ pledge' = [pledge EXCEPT ![p] = Adjusted(@, due[r][p])]
         /\ due' = [due EXCEPT ![r][p] = 0]
  /\ queue' = [queue EXCEPT ![r] = Tail(@)]
  /\ pc' = [pc EXCEPT ![r] = IF Tail(queue[r]) = <<>> THEN "done" ELSE @]
  /\ UNCHANGED <<gift, job>>

(* An archived pledge takes no adjustment: the call throws. *)
AdjustRefused(r) ==
  /\ pc[r] = "adjust"
  /\ pledge[Head(queue[r])].row # "live"
  /\ Fail(r)

(* The server stops, or loses its database, between two calls. *)
Crash(r) ==
  /\ pc[r] \in Unwritten \cup {"adjust"}
  /\ Fail(r)

-----------------------------------------------------------------------------
(* Pledge requests: a single write each, with nothing to follow it up. *)

WritePledge(p, row) ==
  /\ pledge' = [pledge EXCEPT ![p] = row]
  /\ UNCHANGED <<gift, pc, job, queue, due>>

CreatePledge(p) ==
  /\ pledge[p].row = "absent"
  /\ \E n \in Promises, s \in Statuses :
       WritePledge(p, [row |-> "live", promised |-> n, paid |-> 0, status |-> s])

(* The status is stored as given, whatever the total. *)
EditPledge(p) ==
  /\ pledge[p].row = "live"
  /\ \E n \in Promises, s \in Statuses :
       WritePledge(p, [pledge[p] EXCEPT !.promised = n, !.status = s])

ArchivePledge(p) ==
  /\ pledge[p].row = "live"
  /\ WritePledge(p, [pledge[p] EXCEPT !.row = "archived"])

RestorePledge(p) ==
  /\ pledge[p].row = "archived"
  /\ WritePledge(p, [pledge[p] EXCEPT !.row = "live"])

-----------------------------------------------------------------------------
(* The ledger starts in any state the backfill leaves: every total is the   *)
(* sum of the pledge's live gifts, and the status agrees with it.           *)

Init ==
  /\ \E born \in SUBSET Pledges :
       /\ gift \in [Gifts -> {x \in GiftRow : x.pledge \in born \cup {NoPledge}}]
       /\ \E promised \in [Pledges -> Promises], cancelled \in SUBSET born :
            pledge = [p \in Pledges |->
                        IF p \notin born THEN AbsentPledge
                        ELSE [row |-> "live", promised |-> promised[p],
                              paid |-> LiveSum(p),
                              status |-> IF p \in cancelled THEN "CANCELLED"
                                         ELSE IF LiveSum(p) >= promised[p]
                                         THEN "FULFILLED" ELSE "ACTIVE"]]
  /\ pc = [r \in Requests |-> "idle"]
  /\ job = [r \in Requests |-> NoJob]
  /\ queue = [r \in Requests |-> <<>>]
  /\ due = [r \in Requests |-> NothingDue]

Start(r) ==
  BeginRecord(r) \/ BeginUpdate(r) \/ BeginDelete(r) \/ BeginRestore(r)

Proceed(r) ==
  \/ Insert(r)
  \/ CheckPatch(r) \/ RejectPatch(r) \/ Save(r) \/ SaveGone(r)
  \/ Erase(r) \/ EraseNothing(r) \/ ReadBackErased(r)
  \/ Revive(r) \/ ReviveNothing(r) \/ ReadBackRevived(r) \/ ReadBackGone(r)
  \/ Adjust(r) \/ AdjustRefused(r)

GiftStep == \E r \in Requests : Start(r) \/ Proceed(r)
Crashing == \E r \in Requests : Crash(r)
Shelving == \E p \in Pledges : ArchivePledge(p) \/ RestorePledge(p)
Editing  == \E p \in Pledges : CreatePledge(p) \/ EditPledge(p)

Next == GiftStep \/ Crashing \/ Shelving \/ Editing

Spec == Init /\ [][Next]_vars

(* No administrator writes a status or a promised amount by hand. *)
UneditedSpec == Init /\ [][GiftStep \/ Crashing \/ Shelving]_vars

(* No faults: no crash, and no pledge archived or edited meanwhile. *)
SmoothSpec == Init /\ [][GiftStep]_vars

(* Clients that work on one gift at a time: none starts on a gift another   *)
(* is about to write, and only archived gifts are restored.  The server     *)
(* does not enforce this.                                                   *)
Courteous ==
  \A r \in Requests :
    pc[r] = "idle" /\ pc'[r] # "idle" =>
      /\ \A q \in Requests \ {r} : Touched(q) \cap Touched(r)' = {}
      /\ pc'[r] = "revive" => gift[job'[r].gift].row = "archived"

CourteousSpec == Init /\ [][Next /\ Courteous]_vars

(* The same without edits of pledges, and Node resumes every handler whose  *)
(* database call has returned.                                              *)
FairSpec ==
  /\ Init
  /\ [][(GiftStep \/ Crashing \/ Shelving) /\ Courteous]_vars
  /\ \A r \in Requests : WF_vars(Proceed(r))

-----------------------------------------------------------------------------
(* What a request at each place is about to write. *)
WorkAt(place) ==
  IF place = "insert" THEN [rows : Batches]
  ELSE IF place \in {"check", "save"}
       THEN [gift : Gifts, patch : Patches, before : GiftRow]
  ELSE IF place \in Unwritten THEN [gift : Gifts]
  ELSE {NoJob}

(* Every variable has its type. *)
TypeOK ==
  /\ pledge \in [Pledges -> PledgeRow]
  /\ gift \in [Gifts -> GiftRow]
  /\ pc \in [Requests -> Places]
  /\ DOMAIN job = Requests
  /\ \A r \in Requests : job[r] \in WorkAt(pc[r])
  /\ queue \in [Requests -> Seq(Pledges)]
  /\ \A r \in Requests : (pc[r] = "adjust") => (queue[r] # <<>>)
  /\ due \in [Requests -> [Pledges -> Int]]

(* The status says whether enough is paid, unless the pledge is cancelled. *)
Settled(x) == x.status # "CANCELLED" => (x.status = "FULFILLED" <=> x.paid >= x.promised)

(* The stored total and what the requests in flight, or failed half-way,   *)
(* have still to add to it make up the sum of the live gifts: no           *)
(* interleaving of requests on different gifts loses or repeats an          *)
(* adjustment (schema comment on paidAmount, pledge.prisma).               *)
BalanceConserved ==
  \A p \in Pledges : pledge[p].paid + Owed(p) = LiveSum(p)

(* Without manual edits the stored status says whether the pledge is paid,  *)
(* for every pledge that is not cancelled.                                  *)
StatusAgrees == \A p \in Pledges : pledge[p].row # "absent" => Settled(pledge[p])

(* The total moves only together with the status it calls for, a cancelled  *)
(* pledge stays cancelled while it moves, and an archived pledge's total    *)
(* does not move at all (comment on adjustPaidAmount).                      *)
PaidMovesWithStatus ==
  [][\A p \in Pledges :
       pledge'[p].paid # pledge[p].paid =>
         /\ pledge[p].row = "live"
         /\ Settled(pledge'[p])
         /\ (pledge[p].status = "CANCELLED") <=> (pledge'[p].status = "CANCELLED")]_vars

(* A request reports success only when it owes nothing: whatever branch the *)
(* update took, every pledge whose live sum it moved was visited.           *)
SuccessMeansSettled ==
  \A r \in Requests : pc[r] = "done" => due[r] = NothingDue

(* Whatever a request owes, unless it has failed, it is on its way to pay:  *)
(* the strengthening of SuccessMeansSettled that every step preserves.      *)
DueIsQueued ==
  \A r \in Requests :
    pc[r] # "failed" =>
      \A p \in Pledges :
        due[r][p] # 0 => pc[r] = "adjust" /\ p \in Range(queue[r])

(* Among courteous clients, the row a request is about to write is still as *)
(* the request saw it, and no other request is about to write it.           *)
Undisturbed ==
  /\ \A r, q \in Requests : r # q => Touched(r) \cap Touched(q) = {}
  /\ \A r \in Requests :
       /\ pc[r] = "insert" => \A g \in DOMAIN job[r].rows : gift[g].row = "absent"
       /\ pc[r] \in {"check", "save"} => /\ gift[job[r].gift] = job[r].before
                                        /\ job[r].before.row = "live"
       /\ pc[r] = "erase" => gift[job[r].gift].row = "live"
       /\ pc[r] = "revive" => gift[job[r].gift].row = "archived"
       /\ pc[r] \notin {"erased", "revived"}

(* No pledge has been paid before it exists. *)
UnbornUnpaid ==
  \A p \in Pledges : pledge[p].row = "absent" => pledge[p].paid = 0

(* The inductive invariant behind BalanceConserved. *)
CourteousInv ==
  TypeOK /\ DueIsQueued /\ Undisturbed /\ UnbornUnpaid /\ BalanceConserved

(* Each request takes effect on gifts and balances at one instant, its      *)
(* write; the adjustments still owed are counted in.                        *)
Books == INSTANCE GiftLedger WITH
           entry <- gift, balance <- [p \in Pledges |-> pledge[p].paid + Owed(p)]

BooksRefined == Books!LedgerSpec

(* The total is the sum of the live gifts whenever no request is under way: *)
(* what the schema says of paidAmount.                                      *)
PaidIsRunningSum ==
  (\A r \in Requests : pc[r] \in {"idle", "done", "failed"}) =>
    \A p \in Pledges : pledge[p].paid = LiveSum(p)

(* If no request fails, the totals are right once the last has come to its *)
(* end, and it does: "batch by pledgeId" and the branches of the update     *)
(* leave no pledge out.                                                     *)
BooksSettle ==
  [](\A r \in Requests : pc[r] # "failed") =>
    <>[](\A p \in Pledges : pledge[p].paid = LiveSum(p))
=============================================================================
