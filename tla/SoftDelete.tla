----------------------------- MODULE SoftDelete -----------------------------
(***************************************************************************)
(* Archiving and restoring, with the cascade from a campaign to its items. *)
(*                                                                         *)
(* A row is archived by stamping deletedAt; deletedByCascade tells a row   *)
(* archived on its own ("removed" here) from one swept along with its      *)
(* parent ("swept").  The helpers softDelete and restore run a handful of  *)
(* statements in one database transaction: stamp the row, find its         *)
(* children, stamp those.  PostgreSQL runs them READ COMMITTED: each       *)
(* statement sees what others have committed by then, plus the writes of   *)
(* its own transaction, and an update waits for a row another open         *)
(* transaction has written, then looks at the row again.                   *)
(*                                                                         *)
(* The cascade follows onDelete: Cascade in the Prisma schema, where the   *)
(* only such relation is CampaignItem.campaign.                            *)
(***************************************************************************)
EXTENDS Naturals, FiniteSets

CONSTANTS
  CampaignIds,    \* ids a Campaign row may get
  ItemIds,        \* ids a CampaignItem row may get
  Home,           \* for each item id, the campaign it belongs to (campaignId)
  Requests        \* requests of a behaviour, each served once

ASSUME TreeAssumption ==
  /\ CampaignIds \cap ItemIds = {}
  /\ Home \in [ItemIds -> CampaignIds]

VARIABLES
  row,            \* the tables as committed
  pc,             \* where each request is: the statement it runs next
  job,            \* what a request does, and to which row
  todo,           \* children the cascade of a request has found, and not yet reached
  draft           \* rows a request's open transaction has written, and locks

vars == <<row, pc, job, todo, draft>>

Records == CampaignIds \cup ItemIds
States == {"absent", "live", "removed", "swept"}
Archived == {"removed", "swept"}
Nothing == [x \in {} |-> "live"]

Children(x) == {i \in ItemIds : Home[i] = x}     \* getCascadeChildren

(* What a statement of request r sees of row x. *)
Visible(r, x) == IF x \in DOMAIN draft[r] THEN draft[r][x] ELSE row[x]

(* No other open transaction has written row x. *)
Free(r, x) == \A q \in Requests \ {r} : x \notin DOMAIN draft[q]

(* The row a request is about, its where clause and what it writes. *)
Target(r) == job[r].row
From(r)   == IF job[r].op = "softDelete" THEN {"live"} ELSE Archived
To(r)     == IF job[r].op = "softDelete" THEN "removed" ELSE "live"

(* Fault: the cascading restore takes any archived child. *)
ChildFromAnyArchived(r) == IF job[r].op = "softDelete" THEN {"live"} ELSE Archived

(* The same for the children: restore brings back swept ones only. *)
ChildFrom(r) == IF job[r].op = "softDelete" THEN {"live"} ELSE {"swept"}
ChildTo(r)   == IF job[r].op = "softDelete" THEN "swept" ELSE "live"

Open(r) == pc[r] \in {"stamp", "cascade", "reach"}

-----------------------------------------------------------------------------
Begin(r, place, work) ==
  /\ pc[r] = "idle"
  /\ pc' = [pc EXCEPT ![r] = place]
  /\ job' = [job EXCEPT ![r] = work]
  /\ UNCHANGED <<row, todo, draft>>

(* The handler has seen the row live, and so has the helper's findMany.     *)
(* Finding none, the helper returns at once and nothing has happened.       *)
BeginDelete(r) ==
  \E x \in Records :
    /\ row[x] = "live"
    /\ Begin(r, "stamp", [op |-> "softDelete", row |-> x])

BeginRestore(r) ==
  \E x \in Records :
    /\ row[x] \in Archived
    /\ Begin(r, "stamp", [op |-> "restore", row |-> x])

(* addItem: the campaign is live, the item comes next. *)
BeginAdd(r) ==
  \E i \in ItemIds :
    /\ row[i] = "absent"
    /\ \A q \in Requests : ~(pc[q] = "insert" /\ Target(q) = i)
    /\ row[Home[i]] = "live"
    /\ Begin(r, "insert", [op |-> "add", row |-> i])

(* The campaign is not looked at again, and a foreign key does not mind a   *)
(* tombstone.                                                               *)
Insert(r) ==
  /\ pc[r] = "insert"
  /\ row' = [row EXCEPT ![Target(r)] = "live"]
  /\ pc' = [pc EXCEPT ![r] = "done"]
  /\ UNCHANGED <<job, todo, draft>>

CreateCampaign(c) ==
  /\ row[c] = "absent"
  /\ row' = [row EXCEPT ![c] = "live"]
  /\ UNCHANGED <<pc, job, todo, draft>>

-----------------------------------------------------------------------------
(* The transaction. *)

Write(r, x, state) ==
  draft' = [draft EXCEPT ![r] = [y \in DOMAIN @ \cup {x} |->
                                   IF y = x THEN state ELSE @[y]]]

(* Fault: the update trusts the ids it found, whatever their rows are now. *)
UpdateRowBlindly(r, x, from, to) == Free(r, x) /\ Write(r, x, to)

(* updateMany on one row: it waits for the row's lock, and writes only if   *)
(* the row, looked at again, still matches.                                 *)
UpdateRow(r, x, from, to) ==
  \/ row[x] \in from /\ Free(r, x) /\ Write(r, x, to)
  \/ row[x] \notin from /\ UNCHANGED draft

(* The cascade goes on whether or not the stamp matched. *)
Stamp(r) ==
  /\ pc[r] = "stamp"
  /\ UpdateRow(r, Target(r), From(r), To(r))
  /\ pc' = [pc EXCEPT ![r] = "cascade"]
  /\ UNCHANGED <<row, job, todo>>

FindChildren(r) ==
  /\ pc[r] = "cascade"
  /\ todo' = [todo EXCEPT ![r] =
       {i \in Children(Target(r)) : Visible(r, i) \in ChildFrom(r)}]
  /\ pc' = [pc EXCEPT ![r] = "reach"]
  /\ UNCHANGED <<row, job, draft>>

ReachChild(r) ==
  /\ pc[r] = "reach"
  /\ \E i \in todo[r] : /\ UpdateRow(r, i, ChildFrom(r), ChildTo(r))
                        /\ todo' = [todo EXCEPT ![r] = @ \ {i}]
  /\ UNCHANGED <<row, pc, job>>

(* Restore reads the row back among the live ones. *)
ReadsBack(r) == job[r].op = "restore" => Visible(r, Target(r)) = "live"

(* Fault: the cascade is not awaited. *)
CommitEarly(r) ==
  /\ pc[r] = "reach"
  /\ ReadsBack(r)
  /\ row' = [x \in Records |-> Visible(r, x)]
  /\ pc' = [pc EXCEPT ![r] = "done"]
  /\ draft' = [draft EXCEPT ![r] = Nothing]
  /\ UNCHANGED <<job, todo>>

(* Fault: the transaction is left open when its work is done. *)
CommitKeepsLocks(r) ==
  /\ pc[r] = "reach" /\ todo[r] = {}
  /\ ReadsBack(r)
  /\ row' = [x \in Records |-> Visible(r, x)]
  /\ pc' = [pc EXCEPT ![r] = "done"]
  /\ UNCHANGED <<job, todo, draft>>

Commit(r) ==
  /\ pc[r] = "reach" /\ todo[r] = {}
  /\ ReadsBack(r)
  /\ row' = [x \in Records |-> Visible(r, x)]
  /\ pc' = [pc EXCEPT ![r] = "done"]
  /\ draft' = [draft EXCEPT ![r] = Nothing]
  /\ UNCHANGED <<job, todo>>

(* Nothing an open transaction wrote outlives a rollback. *)
Rollback(r) ==
  /\ pc' = [pc EXCEPT ![r] = "failed"]
  /\ todo' = [todo EXCEPT ![r] = {}]
  /\ draft' = [draft EXCEPT ![r] = Nothing]
  /\ UNCHANGED <<row, job>>

ReadBackFails(r) ==
  /\ pc[r] = "reach" /\ todo[r] = {}
  /\ ~ReadsBack(r)
  /\ Rollback(r)

(* A crash, a timeout, or a deadlock the database has broken. *)
Abort(r) == (Open(r) \/ pc[r] = "insert") /\ Rollback(r)

-----------------------------------------------------------------------------
(* The tables start as their requests leave them: no item is swept under a  *)
(* live campaign, and an item has a campaign.                               *)
Init ==
  /\ row \in [Records -> States]
  /\ \A c \in CampaignIds : row[c] # "swept"
  /\ \A i \in ItemIds : /\ row[i] = "swept" => row[Home[i]] = "removed"
                        /\ row[i] # "absent" => row[Home[i]] # "absent"
  /\ pc = [r \in Requests |-> "idle"]
  /\ job = [r \in Requests |-> [op |-> "none"]]
  /\ todo = [r \in Requests |-> {}]
  /\ draft = [r \in Requests |-> Nothing]

Start(r) == BeginDelete(r) \/ BeginRestore(r) \/ BeginAdd(r)

Proceed(r) ==
  Insert(r) \/ Stamp(r) \/ FindChildren(r) \/ ReachChild(r) \/ Commit(r) \/ ReadBackFails(r)

Next ==
  \/ \E r \in Requests : Start(r) \/ Proceed(r) \/ Abort(r)
  \/ \E c \in CampaignIds : CreateCampaign(c)

Spec == Init /\ [][Next]_vars

(* One request at a time archives or restores a given campaign; nothing is  *)
(* asked of the requests on its items.  The server does not enforce this.   *)
OneAtATime ==
  \A r \in Requests :
    pc[r] = "idle" /\ pc'[r] = "stamp" =>
      \A q \in Requests \ {r} :
        Open(q) => job[q].row # job'[r].row \/ job'[r].row \in ItemIds

OrderlySpec == Init /\ [][Next /\ OneAtATime]_vars

(* The database grants a lock once it is free, and the server runs the next *)
(* statement of every transaction.                                          *)
LiveSpec == OrderlySpec /\ \A r \in Requests : WF_vars(Proceed(r))

-----------------------------------------------------------------------------
Jobs == [op : {"softDelete", "restore"}, row : Records]
          \cup [op : {"add"}, row : ItemIds] \cup [op : {"none"}]

(* Every variable has its type. *)
TypeOK ==
  /\ row \in [Records -> States]
  /\ pc \in [Requests -> {"idle", "insert", "stamp", "cascade", "reach", "done", "failed"}]
  /\ job \in [Requests -> Jobs]
  /\ todo \in [Requests -> SUBSET ItemIds]
  /\ DOMAIN draft = Requests
  /\ \A r \in Requests : /\ DOMAIN draft[r] \subseteq Records
                         /\ \A x \in DOMAIN draft[r] : draft[r][x] \in States

(* No two open transactions have written the same row, and a row written    *)
(* is, for everybody else, as it was when the writer looked at it: nothing  *)
(* is overwritten unseen.                                                   *)
NothingLost ==
  /\ \A r, q \in Requests : r # q => DOMAIN draft[r] \cap DOMAIN draft[q] = {}
  /\ \A r \in Requests, x \in Records :
       x \in DOMAIN draft[r] =>
         /\ row[x] \in IF x = Target(r) THEN From(r) ELSE ChildFrom(r)
         /\ draft[r][x] = IF x = Target(r) THEN To(r) ELSE ChildTo(r)

(* A row somebody removed on purpose comes back only by a request to restore *)
(* that very row: no cascade, however it interleaves, resurrects it or turns *)
(* it into a swept one ("restoring a parent does not undo unrelated          *)
(* tombstones", comment on restore).                                         *)
RemovedStaysRemoved ==
  [][\A x \in Records :
       row[x] = "removed" /\ row'[x] # "removed" =>
         \E r \in Requests : /\ pc[r] # "done" /\ pc'[r] = "done"
                             /\ job[r] = [op |-> "restore", row |-> x]]_vars

(* An item swept along with its campaign has an archived campaign, whose     *)
(* restoring brings it back: cascades are whole ("so the whole cascade is    *)
(* atomic", comment on softDelete).                                          *)
CascadeWhole == \A i \in ItemIds : row[i] = "swept" => row[Home[i]] = "removed"

(* Fault: the preview counts every archived item. *)
PreviewedAll(c) == {i \in Children(c) : row[i] \in Archived}

(* What the restore dialog announces: the rows a restore of c would bring    *)
(* back with it (previewRestoreCascade; the dialog shows how many).          *)
Previewed(c) == {i \in Children(c) : row[i] = "swept"}

(* A campaign comes back together with all the items the dialog announced,   *)
(* and no other item (comment on restorePreview).                            *)
PreviewKept ==
  [][\A c \in CampaignIds :
       row[c] = "removed" /\ row'[c] = "live" =>
         {i \in ItemIds : row[i] \in Archived /\ row'[i] = "live"} = Previewed(c)]_vars

(* Every request ends: no transaction waits for ever on another's lock.      *)
RequestsEnd == \A r \in Requests : pc[r] = "stamp" ~> pc[r] \in {"done", "failed"}
=============================================================================
