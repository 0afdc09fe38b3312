-------------------------- MODULE SoftDelete_proofs --------------------------
(***************************************************************************)
(* Proofs about archiving and restoring, and about what is read.  The      *)
(* argument about archiving rests on row locks: what an open transaction   *)
(* has written, nobody else writes (NothingLost); the rest says which rows *)
(* a transaction may have written at all (Shape).  From "Trees of levels"  *)
(* on, about the queries that the extension rewrites: two databases that   *)
(* differ in the archived rows only are shown to answer alike, by          *)
(* induction on the levels of the query.  From "What the tables hold" on,  *)
(* about reports and pages: a report that is put together from parts, and  *)
(* one that is asked for whole, sum the same rows.                         *)
(***************************************************************************)
EXTENDS SoftDelete, QueryFilter, Pages, SumTheorems

(* A transaction writes its target and the target's children, and only      *)
(* while it is open; a row about to be inserted does not exist.             *)
Shape ==
  \A r \in Requests :
    /\ Open(r) => /\ job[r].op \in {"softDelete", "restore"}
                  /\ Target(r) \in Records
                  /\ DOMAIN draft[r] \subseteq {Target(r)} \cup Children(Target(r))
                  /\ todo[r] \subseteq Children(Target(r))
    /\ pc[r] \notin {"cascade", "reach"} => DOMAIN draft[r] = {}
    /\ pc[r] # "reach" => todo[r] = {}
    /\ pc[r] = "insert" => /\ Target(r) \in ItemIds
                           /\ row[Target(r)] = "absent"
    /\ \A q \in Requests : pc[r] = "insert" /\ pc[q] = "insert" /\ r # q =>
                             Target(r) # Target(q)

LockInv == TypeOK /\ Shape /\ NothingLost

(* A campaign is no item, so no row is its own child or a child's child. *)
LEMMA TwoLevels ==
  /\ \A i \in ItemIds : Home[i] \in CampaignIds /\ i \notin CampaignIds
  /\ \A x : Children(x) \subseteq ItemIds
  /\ \A x, i : i \in Children(x) => i # x /\ x \in CampaignIds /\ Home[i] = x
  BY TreeAssumption DEF Children

LEMMA LockInit == Init => LockInv
<1> SUFFICES ASSUME Init PROVE LockInv
  OBVIOUS
<1>1. TypeOK
  BY DEF Init, TypeOK, Nothing, Jobs
<1>2. Shape
  BY DEF Init, Shape, Open, Nothing
<1>3. NothingLost
  BY DEF Init, NothingLost, Nothing
<1>4. QED
  BY <1>1, <1>2, <1>3 DEF LockInv

(* Starting a request touches nothing but the request. *)
LEMMA LockStart ==
  ASSUME LockInv, NEW r \in Requests, Start(r)
  PROVE  LockInv'
<1>1. PICK place \in {"stamp", "insert"}, work \in Jobs :
        /\ Begin(r, place, work)
        /\ work.row \in Records
        /\ place = "stamp" => work.op \in {"softDelete", "restore"}
        /\ place = "insert" => /\ work.row \in ItemIds
                               /\ row[work.row] = "absent"
                               /\ \A q \in Requests : ~(pc[q] = "insert" /\ Target(q) = work.row)
  <2>1. CASE BeginDelete(r)
    <3>1. PICK x \in Records : Begin(r, "stamp", [op |-> "softDelete", row |-> x])
      BY <2>1 DEF BeginDelete
    <3>2. [op |-> "softDelete", row |-> x] \in Jobs
      BY DEF Jobs
    <3>3. QED
      BY <3>1, <3>2
  <2>2. CASE BeginRestore(r)
    <3>1. PICK x \in Records : Begin(r, "stamp", [op |-> "restore", row |-> x])
      BY <2>2 DEF BeginRestore
    <3>2. [op |-> "restore", row |-> x] \in Jobs
      BY DEF Jobs
    <3>3. QED
      BY <3>1, <3>2
  <2>3. CASE BeginAdd(r)
    <3>1. PICK i \in ItemIds :
            /\ row[i] = "absent"
            /\ \A q \in Requests : ~(pc[q] = "insert" /\ Target(q) = i)
            /\ Begin(r, "insert", [op |-> "add", row |-> i])
      BY <2>3 DEF BeginAdd
    <3>2. [op |-> "add", row |-> i] \in Jobs
      BY DEF Jobs
    <3>3. QED
      BY <3>1, <3>2 DEF Records
  <2>4. QED
    BY <2>1, <2>2, <2>3 DEF Start
<1>2. /\ pc[r] = "idle"
      /\ pc' = [pc EXCEPT ![r] = place]
      /\ job' = [job EXCEPT ![r] = work]
      /\ UNCHANGED <<row, todo, draft>>
      /\ DOMAIN draft[r] = {}
  BY <1>1 DEF Begin, LockInv, Shape
<1>3. TypeOK'
  BY <1>1, <1>2 DEF LockInv, TypeOK
<1>4. \A q \in Requests : q # r => job'[q] = job[q] /\ pc'[q] = pc[q]
  BY <1>2 DEF LockInv, TypeOK
<1>5. job'[r] = work /\ pc'[r] = place
  BY <1>2 DEF LockInv, TypeOK
<1>6. Shape'
  BY <1>1, <1>2, <1>4, <1>5 DEF LockInv, Shape, Open, Target
<1>7. NothingLost'
  BY <1>2, <1>4 DEF LockInv, NothingLost, Target, From, To, ChildFrom, ChildTo
<1>8. QED
  BY <1>3, <1>6, <1>7 DEF LockInv

(* A statement that may write row x, its target or a child of it. *)
LEMMA LockUpdate ==
  ASSUME LockInv, NEW r \in Requests, Open(r), pc[r] \in {"stamp", "reach"},
         NEW x \in Records, NEW from, NEW to \in States,
         UpdateRow(r, x, from, to),
         \/ x = Target(r) /\ from = From(r) /\ to = To(r)
         \/ x \in Children(Target(r)) /\ from = ChildFrom(r) /\ to = ChildTo(r),
         NEW kids \in SUBSET todo[r], todo' = [todo EXCEPT ![r] = kids],
         pc'[r] \in {"cascade", "reach"}, pc'[r] = "cascade" => kids = {},
         \A q \in Requests \ {r} : pc'[q] = pc[q],
         pc' \in [Requests -> {"idle", "insert", "stamp", "cascade", "reach", "done", "failed"}],
         UNCHANGED <<row, job>>
  PROVE  LockInv'
<1>1. /\ DOMAIN draft' = Requests
      /\ \A q \in Requests \ {r} : draft'[q] = draft[q]
      /\ \/ draft'[r] = draft[r]
         \/ /\ row[x] \in from /\ Free(r, x)
            /\ DOMAIN draft'[r] = DOMAIN draft[r] \cup {x}
            /\ draft'[r][x] = to
            /\ \A y \in DOMAIN draft[r] \ {x} : draft'[r][y] = draft[r][y]
  BY DEF UpdateRow, Write, LockInv, TypeOK
<1>2. TypeOK'
  BY <1>1 DEF LockInv, TypeOK
<1>3. Shape'
  BY <1>1 DEF LockInv, Shape, TypeOK, Open, Target
<1>4. NothingLost'
  <2>1. ASSUME NEW q \in Requests, NEW s \in Requests, q # s
        PROVE  DOMAIN draft'[q] \cap DOMAIN draft'[s] = {}
    BY <1>1, <2>1 DEF LockInv, NothingLost, Free
  <2>2. ASSUME NEW q \in Requests, NEW y \in Records, y \in DOMAIN draft'[q]
        PROVE  /\ row[y] \in IF y = Target(q) THEN From(q) ELSE ChildFrom(q)
               /\ draft'[q][y] = IF y = Target(q) THEN To(q) ELSE ChildTo(q)
    BY <1>1, <2>2, TwoLevels DEF LockInv, NothingLost
  <2>3. QED
    BY <2>1, <2>2 DEF NothingLost, Target, From, To, ChildFrom, ChildTo
<1>5. QED
  BY <1>2, <1>3, <1>4 DEF LockInv

(* The transaction of r ends: committed or not, its writes are let go. *)
LEMMA LockEnd ==
  ASSUME LockInv, NEW r \in Requests, NEW place \in {"done", "failed"},
         pc' = [pc EXCEPT ![r] = place],
         draft' = [draft EXCEPT ![r] = Nothing],
         todo' = [todo EXCEPT ![r] = {}],
         UNCHANGED job,
         row' \in [Records -> States],
         \A q \in Requests \ {r} : \A x \in DOMAIN draft[q] : row'[x] = row[x],
         \A x \in Records : row[x] = "absent" => row'[x] = "absent"
  PROVE  LockInv'
<1>1. /\ pc'[r] = place /\ draft'[r] = Nothing /\ todo'[r] = {}
      /\ \A q \in Requests \ {r} : /\ pc'[q] = pc[q]
                                   /\ draft'[q] = draft[q]
                                   /\ todo'[q] = todo[q]
      /\ DOMAIN Nothing = {}
  BY DEF LockInv, TypeOK, Nothing
<1>2. TypeOK'
  BY <1>1 DEF LockInv, TypeOK
<1>3. Shape'
  BY <1>1, TwoLevels DEF LockInv, Shape, TypeOK, Open, Target, Records
<1>4. NothingLost'
  BY <1>1 DEF LockInv, NothingLost, Target, From, To, ChildFrom, ChildTo
<1>5. QED
  BY <1>2, <1>3, <1>4 DEF LockInv

(* What a commit does to the tables: it installs what r has written. *)
LEMMA CommitWrites ==
  ASSUME LockInv, NEW r \in Requests, Commit(r)
  PROVE  /\ Open(r) /\ pc[r] = "reach" /\ todo[r] = {}
         /\ row' \in [Records -> States]
         /\ \A x \in Records : row'[x] = IF x \in DOMAIN draft[r] THEN draft[r][x] ELSE row[x]
         /\ pc' = [pc EXCEPT ![r] = "done"]
         /\ UNCHANGED job
<1>1. \A x \in Records : Visible(r, x) \in States
  BY DEF Visible, LockInv, TypeOK
<1>2. QED
  BY <1>1 DEF Commit, Open, Visible

LEMMA LockProceed ==
  ASSUME LockInv, NEW r \in Requests, Proceed(r)
  PROVE  LockInv'
<1>1. CASE Insert(r)
  <2>1. /\ Target(r) \in ItemIds /\ row[Target(r)] = "absent"
        /\ Target(r) \in Records
        /\ row' = [row EXCEPT ![Target(r)] = "live"]
        /\ pc' = [pc EXCEPT ![r] = "done"]
        /\ UNCHANGED <<job, todo, draft>>
        /\ pc[r] = "insert"
    BY <1>1 DEF Insert, LockInv, Shape, Records
  <2>2. \A q \in Requests : Target(r) \notin DOMAIN draft[q]
    BY <2>1 DEF LockInv, NothingLost, From, ChildFrom, Archived
  <2>3. TypeOK'
    BY <2>1 DEF LockInv, TypeOK, States
  <2>4. Shape'
    BY <2>1 DEF LockInv, Shape, TypeOK, Open, Target
  <2>5. NothingLost'
    BY <2>1, <2>2 DEF LockInv, NothingLost, TypeOK, Target, From, To, ChildFrom, ChildTo
  <2>6. QED
    BY <2>3, <2>4, <2>5 DEF LockInv
<1>2. CASE Stamp(r)
  <2>1. /\ Open(r) /\ pc[r] = "stamp" /\ Target(r) \in Records
        /\ UpdateRow(r, Target(r), From(r), To(r))
        /\ todo[r] = {}
        /\ todo' = [todo EXCEPT ![r] = {}]
        /\ pc' = [pc EXCEPT ![r] = "cascade"]
        /\ UNCHANGED <<row, job>>
    BY <1>2 DEF Stamp, LockInv, Shape, Open, TypeOK
  <2>2. To(r) \in States /\ pc'[r] = "cascade" /\ \A q \in Requests \ {r} : pc'[q] = pc[q]
    BY <2>1 DEF To, States, LockInv, TypeOK
  <2>3. pc' \in [Requests -> {"idle", "insert", "stamp", "cascade", "reach", "done", "failed"}]
    BY <2>1 DEF LockInv, TypeOK
  <2>4. QED
    BY <2>1, <2>2, <2>3, LockUpdate
<1>3. CASE FindChildren(r)
  <2>1. /\ pc' = [pc EXCEPT ![r] = "reach"] /\ pc[r] = "cascade"
        /\ todo' = [todo EXCEPT ![r] =
             {i \in Children(Target(r)) : Visible(r, i) \in ChildFrom(r)}]
        /\ UNCHANGED <<row, job, draft>>
    BY <1>3 DEF FindChildren
  <2>2. TypeOK'
    BY <2>1, TwoLevels DEF LockInv, TypeOK
  <2>3. Shape'
    BY <2>1 DEF LockInv, Shape, TypeOK, Open, Target
  <2>4. NothingLost'
    BY <2>1 DEF LockInv, NothingLost, Target, From, To, ChildFrom, ChildTo
  <2>5. QED
    BY <2>2, <2>3, <2>4 DEF LockInv
<1>4. CASE ReachChild(r)
  <2>1. PICK i \in todo[r] : /\ UpdateRow(r, i, ChildFrom(r), ChildTo(r))
                             /\ todo' = [todo EXCEPT ![r] = todo[r] \ {i}]
    BY <1>4 DEF ReachChild
  <2>2. /\ pc[r] = "reach" /\ Open(r) /\ i \in Children(Target(r)) /\ i \in Records
        /\ UNCHANGED <<row, pc, job>>
    BY <1>4, <2>1, TwoLevels DEF ReachChild, LockInv, Shape, Open, Records
  <2>3. ChildTo(r) \in States /\ todo[r] \ {i} \in SUBSET todo[r]
    BY DEF ChildTo, States
  <2>4. pc' \in [Requests -> {"idle", "insert", "stamp", "cascade", "reach", "done", "failed"}]
    BY <2>2 DEF LockInv, TypeOK
  <2>5. QED
    BY <2>1, <2>2, <2>3, <2>4, LockUpdate
<1>5. CASE Commit(r)
  <2>1. /\ row' \in [Records -> States]
        /\ \A x \in Records : row'[x] = IF x \in DOMAIN draft[r] THEN draft[r][x] ELSE row[x]
        /\ todo[r] = {}
    BY <1>5, CommitWrites
  <2>2. /\ pc' = [pc EXCEPT ![r] = "done"]
        /\ draft' = [draft EXCEPT ![r] = Nothing]
        /\ todo' = [todo EXCEPT ![r] = {}]
        /\ UNCHANGED job
    BY <1>5, <2>1 DEF Commit, LockInv, TypeOK
  <2>3. \A q \in Requests \ {r} : \A x \in DOMAIN draft[q] : row'[x] = row[x]
    BY <2>1 DEF LockInv, NothingLost, TypeOK
  <2>4. \A x \in Records : row[x] = "absent" => row'[x] = "absent"
    BY <2>1 DEF LockInv, NothingLost, From, ChildFrom, Archived
  <2>5. QED
    BY <2>1, <2>2, <2>3, <2>4, LockEnd
<1>6. CASE ReadBackFails(r)
  BY <1>6, LockEnd DEF ReadBackFails, Rollback, LockInv, TypeOK
<1>7. QED
  BY <1>1, <1>2, <1>3, <1>4, <1>5, <1>6 DEF Proceed

LEMMA LockNext == LockInv /\ [Next]_vars => LockInv'
<1> SUFFICES ASSUME LockInv, [Next]_vars PROVE LockInv'
  OBVIOUS
<1>1. ASSUME NEW r \in Requests, Abort(r)
      PROVE  LockInv'
  BY <1>1, LockEnd DEF Abort, Rollback, LockInv, TypeOK
<1>2. ASSUME NEW c \in CampaignIds, CreateCampaign(c)
      PROVE  LockInv'
  <2>1. /\ row[c] = "absent" /\ c \in Records /\ c \notin ItemIds
        /\ row' = [row EXCEPT ![c] = "live"]
        /\ UNCHANGED <<pc, job, todo, draft>>
    BY <1>2, TreeAssumption DEF CreateCampaign, Records
  <2>2. \A q \in Requests : c \notin DOMAIN draft[q]
    BY <2>1 DEF LockInv, NothingLost, From, ChildFrom, Archived
  <2>3. TypeOK'
    BY <2>1 DEF LockInv, TypeOK, States
  <2>4. Shape'
    BY <2>1 DEF LockInv, Shape, TypeOK, Open, Target
  <2>5. NothingLost'
    BY <2>1, <2>2 DEF LockInv, NothingLost, TypeOK, Target, From, To, ChildFrom, ChildTo
  <2>6. QED
    BY <2>3, <2>4, <2>5 DEF LockInv
<1>3. CASE UNCHANGED vars
  BY <1>3 DEF vars, LockInv, TypeOK, Shape, NothingLost, Open, Target,
              From, To, ChildFrom, ChildTo
<1>4. QED
  BY <1>1, <1>2, <1>3, LockStart, LockProceed DEF Next

(***************************************************************************)
(* Types, and locks: whatever the interleaving and whatever aborts, an open *)
(* transaction's rows are still as it saw them when it wrote them.          *)
(***************************************************************************)
THEOREM LocksProtect == Spec => [](TypeOK /\ NothingLost)
<1>1. LockInv => TypeOK /\ NothingLost
  BY DEF LockInv
<1>2. QED
  BY <1>1, LockInit, LockNext, PTL DEF Spec

(***************************************************************************)
(* A row removed on purpose comes back only by a restore of that row.      *)
(***************************************************************************)
LEMMA RemovedStep ==
  ASSUME LockInv, Next, NEW x \in Records, row[x] = "removed", row'[x] # "removed"
  PROVE  \E r \in Requests : /\ pc[r] # "done" /\ pc'[r] = "done"
                             /\ job[r] = [op |-> "restore", row |-> x]
<1>1. ASSUME NEW r \in Requests, Commit(r)
      PROVE  /\ pc[r] # "done" /\ pc'[r] = "done"
             /\ job[r] = [op |-> "restore", row |-> x]
  <2>1. /\ Open(r) /\ pc[r] = "reach"
        /\ row'[x] = IF x \in DOMAIN draft[r] THEN draft[r][x] ELSE row[x]
        /\ pc' = [pc EXCEPT ![r] = "done"]
    BY <1>1, CommitWrites
  <2>2. x \in DOMAIN draft[r]
    BY <2>1
  <2>3. row[x] \in IF x = Target(r) THEN From(r) ELSE ChildFrom(r)
    BY <2>2 DEF LockInv, NothingLost
  <2>4. x = Target(r) /\ job[r].op = "restore"
    <3>1. job[r].op \in {"softDelete", "restore"}
      BY <2>1 DEF LockInv, Shape
    <3>2. QED
      BY <2>3, <3>1 DEF From, ChildFrom, Archived
  <2>5. job[r] \in [op : {"softDelete", "restore"}, row : Records]
    BY <2>4 DEF LockInv, TypeOK, Jobs
  <2>6. QED
    BY <2>1, <2>4, <2>5 DEF Target, LockInv, TypeOK
<1>2. ASSUME NEW r \in Requests, Insert(r)
      PROVE  FALSE
  BY <1>2 DEF Insert, LockInv, Shape, TypeOK
<1>3. ASSUME NEW c \in CampaignIds, CreateCampaign(c)
      PROVE  FALSE
  BY <1>3 DEF CreateCampaign, LockInv, TypeOK
<1>4. ASSUME NEW r \in Requests, Start(r) \/ Proceed(r) \/ Abort(r),
             ~(Insert(r) \/ Commit(r))
      PROVE  FALSE
  BY <1>4 DEF Start, Proceed, Abort, BeginDelete, BeginRestore, BeginAdd, Begin,
              Stamp, FindChildren, ReachChild, ReadBackFails, Rollback
<1>5. QED
  BY <1>1, <1>2, <1>3, <1>4 DEF Next

(* A row somebody removed on purpose comes back only by a request to restore *)
(* that very row, however cascades interleave.                               *)
THEOREM RemovedStays == Spec => RemovedStaysRemoved
<1>1. LockInv /\ [Next]_vars =>
        [\A x \in Records :
           row[x] = "removed" /\ row'[x] # "removed" =>
             \E r \in Requests : /\ pc[r] # "done" /\ pc'[r] = "done"
                                 /\ job[r] = [op |-> "restore", row |-> x]]_vars
  BY RemovedStep
<1>2. QED
  BY <1>1, LockInit, LockNext, PTL DEF Spec, RemovedStaysRemoved

(***************************************************************************)
(* With one archive or restore of a campaign at a time, cascades are whole. *)
(* While such a request is open its campaign is as the request saw it; once *)
(* stamped, the stamp is among the request's writes; and a restore that has *)
(* found its children misses none of the swept ones.                        *)
(***************************************************************************)
Apart ==
  \A r, q \in Requests :
    r # q /\ Open(r) /\ Open(q) /\ Target(r) = Target(q) => Target(r) \in ItemIds

Whole(r) ==
  Open(r) /\ Target(r) \in CampaignIds =>
    /\ row[Target(r)] \in From(r)
    /\ pc[r] \in {"cascade", "reach"} => Target(r) \in DOMAIN draft[r]
    /\ pc[r] = "reach" /\ job[r].op = "restore" =>
         \A i \in Children(Target(r)) :
           row[i] = "swept" => i \in todo[r] \cup DOMAIN draft[r]

OrderlyInv ==
  /\ LockInv
  /\ Apart
  /\ \A r \in Requests : Whole(r)
  /\ \A c \in CampaignIds : row[c] # "swept"
  /\ CascadeWhole

(* A campaign's row is written by a request about it, and by no other. *)
LEMMA CampaignWriter ==
  ASSUME LockInv, NEW r \in Requests, Open(r), NEW c \in CampaignIds, c \in DOMAIN draft[r]
  PROVE  c = Target(r)
  BY TwoLevels DEF LockInv, Shape

(* An item's row is written by a request about it, or about its campaign. *)
LEMMA ItemWriter ==
  ASSUME LockInv, NEW r \in Requests, Open(r), NEW i \in ItemIds, i \in DOMAIN draft[r]
  PROVE  i = Target(r) \/ (i # Target(r) /\ Target(r) = Home[i])
  BY TwoLevels DEF LockInv, Shape

(* What a commit means, row by row. *)
LEMMA CommitEffect ==
  ASSUME OrderlyInv, NEW r \in Requests, Commit(r), NEW x \in Records
  PROVE  /\ x \notin DOMAIN draft[r] => row'[x] = row[x]
         /\ x \in DOMAIN draft[r] /\ x = Target(r) => row[x] \in From(r) /\ row'[x] = To(r)
         /\ x \in DOMAIN draft[r] /\ x # Target(r) => row[x] \in ChildFrom(r) /\ row'[x] = ChildTo(r)
<1>1. row'[x] = IF x \in DOMAIN draft[r] THEN draft[r][x] ELSE row[x]
  BY CommitWrites DEF OrderlyInv
<1>2. QED
  BY <1>1 DEF OrderlyInv, LockInv, NothingLost

LEMMA CommitKeepsWhole ==
  ASSUME OrderlyInv, NEW r \in Requests, Commit(r)
  PROVE  CascadeWhole' /\ \A c \in CampaignIds : row'[c] # "swept"
<1>0. /\ Open(r) /\ pc[r] = "reach" /\ todo[r] = {}
      /\ job[r].op \in {"softDelete", "restore"}
      /\ CampaignIds \subseteq Records /\ ItemIds \subseteq Records
  BY CommitWrites DEF OrderlyInv, LockInv, Shape, Records
<1>1. ASSUME NEW i \in ItemIds, row'[i] = "swept"
      PROVE  row'[Home[i]] = "removed"
  <2> DEFINE c == Home[i]
  <2>1. c \in CampaignIds /\ i \in Children(c) /\ i # c
    BY TwoLevels DEF Children
  <2> HIDE DEF c
  <2>2. CASE i \in DOMAIN draft[r]
    <3>1. i # Target(r)
      BY <1>0, <1>1, <2>2, CommitEffect DEF To
    <3>2. Target(r) = c /\ job[r].op = "softDelete"
      BY <1>0, <1>1, <2>2, <3>1, ItemWriter, CommitEffect DEF ChildTo, OrderlyInv, c
    <3>3. c \in DOMAIN draft[r]
      BY <1>0, <2>1, <3>2 DEF OrderlyInv, Whole
    <3>4. row'[c] = "removed"
      BY <1>0, <2>1, <3>2, <3>3, CommitEffect DEF To
    <3>5. QED
      BY <3>4 DEF c
  <2>3. CASE i \notin DOMAIN draft[r]
    <3>1. row[i] = "swept" /\ row[c] = "removed"
      BY <1>0, <1>1, <2>3, CommitEffect DEF OrderlyInv, CascadeWhole, c
    <3>2. c \notin DOMAIN draft[r]
      <4> SUFFICES ASSUME c \in DOMAIN draft[r] PROVE FALSE
        OBVIOUS
      <4>1. c = Target(r)
        BY <1>0, <2>1, CampaignWriter DEF OrderlyInv
      <4>2. job[r].op = "restore"
        BY <1>0, <2>1, <3>1, <4>1, CommitEffect DEF From
      <4>3. QED
        BY <1>0, <2>1, <2>3, <3>1, <4>1, <4>2 DEF OrderlyInv, Whole
    <3>3. row'[c] = "removed"
      BY <1>0, <2>1, <3>1, <3>2, CommitEffect
    <3>4. QED
      BY <3>3 DEF c
  <2>4. QED
    BY <2>2, <2>3
<1>2. ASSUME NEW c \in CampaignIds
      PROVE  row'[c] # "swept"
  <2>1. c \in DOMAIN draft[r] => c = Target(r)
    BY <1>0, CampaignWriter DEF OrderlyInv
  <2>2. QED
    BY <1>0, <2>1, CommitEffect DEF OrderlyInv, To
<1>3. QED
  BY <1>1, <1>2 DEF CascadeWhole

(* A commit leaves the other open transactions on campaigns as they were. *)
LEMMA CommitLeavesOthers ==
  ASSUME OrderlyInv, NEW r \in Requests, Commit(r), NEW q \in Requests
  PROVE  Whole(q)'
<1>0. /\ Open(r) /\ pc' = [pc EXCEPT ![r] = "done"] /\ UNCHANGED job
      /\ CampaignIds \subseteq Records /\ ItemIds \subseteq Records
      /\ job[r].op \in {"softDelete", "restore"}
  BY CommitWrites DEF OrderlyInv, LockInv, Shape, Records
<1>1. CASE q = r
  BY <1>0, <1>1 DEF Whole, Open, OrderlyInv, LockInv, TypeOK
<1>2. CASE q # r
  <2> SUFFICES ASSUME Open(q)', Target(q)' \in CampaignIds
               PROVE  Whole(q)'
    BY DEF Whole
  <2> DEFINE c == Target(q)
  <2>1. /\ Open(q) /\ c \in CampaignIds /\ pc'[q] = pc[q]
        /\ draft'[q] = draft[q] /\ todo'[q] = todo[q] /\ job'[q] = job[q]
    BY <1>0, <1>2 DEF Commit, Open, Target, OrderlyInv, LockInv, TypeOK
  <2>2. Target(r) # c
    BY <1>0, <1>2, <2>1, TwoLevels DEF OrderlyInv, Apart
  <2>3. row'[c] = row[c]
    BY <1>0, <2>1, <2>2, CampaignWriter, CommitEffect DEF OrderlyInv
  <2>4. ASSUME NEW i \in Children(c), row'[i] = "swept"
        PROVE  row[i] = "swept"
    <3>1. i \in ItemIds /\ Home[i] = c
      BY TwoLevels
    <3>2. i \in DOMAIN draft[r] => i = Target(r)
      BY <1>0, <2>2, <3>1, ItemWriter DEF OrderlyInv
    <3>3. QED
      BY <1>0, <2>4, <3>1, <3>2, CommitEffect DEF To
  <2>5. QED
    BY <2>1, <2>3, <2>4 DEF Whole, OrderlyInv, Open, Target, From
<1>3. QED
  BY <1>1, <1>2

LEMMA OrderlyInit == Init => OrderlyInv
<1> SUFFICES ASSUME Init PROVE OrderlyInv
  OBVIOUS
<1>1. LockInv
  BY LockInit
<1>2. Apart /\ \A r \in Requests : Whole(r)
  BY DEF Init, Apart, Whole, Open
<1>3. (\A c \in CampaignIds : row[c] # "swept") /\ CascadeWhole
  BY DEF Init, CascadeWhole
<1>4. QED
  BY <1>1, <1>2, <1>3 DEF OrderlyInv

LEMMA OrderlyStart ==
  ASSUME OrderlyInv, NEW r \in Requests, Start(r), OneAtATime
  PROVE  Apart' /\ (\A q \in Requests : Whole(q)') /\ UNCHANGED row
<1>1. PICK place \in {"stamp", "insert"}, work \in Jobs :
        /\ Begin(r, place, work)
        /\ place = "stamp" => /\ work.op = "softDelete" => row[work.row] = "live"
                              /\ work.op # "softDelete" => row[work.row] \in Archived
  <2>1. CASE BeginDelete(r)
    <3>1. PICK x \in Records : /\ row[x] = "live"
                               /\ Begin(r, "stamp", [op |-> "softDelete", row |-> x])
      BY <2>1 DEF BeginDelete
    <3>2. [op |-> "softDelete", row |-> x] \in Jobs
      BY DEF Jobs
    <3>3. QED
      BY <3>1, <3>2
  <2>2. CASE BeginRestore(r)
    <3>1. PICK x \in Records : /\ row[x] \in Archived
                               /\ Begin(r, "stamp", [op |-> "restore", row |-> x])
      BY <2>2 DEF BeginRestore
    <3>2. [op |-> "restore", row |-> x] \in Jobs
      BY DEF Jobs
    <3>3. QED
      BY <3>1, <3>2
  <2>3. CASE BeginAdd(r)
    <3>1. PICK i \in ItemIds : Begin(r, "insert", [op |-> "add", row |-> i])
      BY <2>3 DEF BeginAdd
    <3>2. [op |-> "add", row |-> i] \in Jobs
      BY DEF Jobs
    <3>3. QED
      BY <3>1, <3>2
  <2>4. QED
    BY <2>1, <2>2, <2>3 DEF Start
<1>2. /\ pc[r] = "idle" /\ pc'[r] = place /\ job'[r] = work
      /\ UNCHANGED <<row, todo, draft>>
      /\ \A q \in Requests \ {r} : pc'[q] = pc[q] /\ job'[q] = job[q]
  BY <1>1 DEF Begin, OrderlyInv, LockInv, TypeOK
<1>3. Apart'
  BY <1>2 DEF OrderlyInv, Apart, Open, Target, OneAtATime
<1>4. ASSUME NEW q \in Requests
      PROVE  Whole(q)'
  BY <1>1, <1>2 DEF OrderlyInv, Whole, Open, Target, From
<1>5. QED
  BY <1>2, <1>3, <1>4

(* A statement of an open transaction: the tables stay as they are. *)
LEMMA OrderlyStatement ==
  ASSUME OrderlyInv, NEW r \in Requests, Stamp(r) \/ FindChildren(r) \/ ReachChild(r)
  PROVE  Apart' /\ (\A q \in Requests : Whole(q)') /\ UNCHANGED row
<1>1. /\ UNCHANGED <<row, job>>
      /\ Open(r) /\ Open(r)'
      /\ \A q \in Requests \ {r} : /\ pc'[q] = pc[q]
                                   /\ draft'[q] = draft[q]
                                   /\ todo'[q] = todo[q]
  BY DEF Stamp, FindChildren, ReachChild, UpdateRow, Write, Open,
         OrderlyInv, LockInv, TypeOK
<1>2. Apart'
  BY <1>1 DEF OrderlyInv, Apart, Open, Target
<1>3. \A q \in Requests \ {r} : Whole(q)'
  BY <1>1 DEF OrderlyInv, Whole, Open, Target, From
<1>4. Whole(r)'
  <2> SUFFICES ASSUME Target(r) \in CampaignIds
               PROVE  Whole(r)'
    BY <1>1 DEF Whole, Target
  <2>1. /\ row[Target(r)] \in From(r)
        /\ From(r)' = From(r) /\ Target(r)' = Target(r)
    BY <1>1 DEF OrderlyInv, Whole, From, Target
  <2>2. CASE Stamp(r)
    <3>1. /\ draft' = [draft EXCEPT ![r] =
               [y \in DOMAIN draft[r] \cup {Target(r)} |->
                  IF y = Target(r) THEN To(r) ELSE draft[r][y]]]
          /\ pc'[r] = "cascade"
      BY <2>1, <2>2 DEF Stamp, UpdateRow, Write, OrderlyInv, LockInv, TypeOK
    <3>2. Target(r) \in DOMAIN draft'[r]
      BY <3>1 DEF OrderlyInv, LockInv, TypeOK
    <3>3. QED
      BY <1>1, <2>1, <3>1, <3>2 DEF Whole
  <2>3. CASE FindChildren(r)
    <3>1. /\ Target(r) \in DOMAIN draft'[r] /\ draft' = draft /\ pc'[r] = "reach"
          /\ todo'[r] = {i \in Children(Target(r)) : Visible(r, i) \in ChildFrom(r)}
      BY <1>1, <2>3 DEF FindChildren, OrderlyInv, Whole, LockInv, TypeOK
    <3>2. ASSUME NEW i \in Children(Target(r)), row[i] = "swept", job[r].op = "restore"
          PROVE  i \in todo'[r] \cup DOMAIN draft'[r]
      BY <3>1, <3>2 DEF Visible, ChildFrom
    <3>3. QED
      BY <1>1, <2>1, <3>1, <3>2 DEF Whole
  <2>4. CASE ReachChild(r)
    <3>1. PICK i \in todo[r] : /\ UpdateRow(r, i, ChildFrom(r), ChildTo(r))
                               /\ todo' = [todo EXCEPT ![r] = todo[r] \ {i}]
      BY <2>4 DEF ReachChild
    <3>2. /\ pc'[r] = "reach" /\ pc[r] = "reach"
          /\ todo'[r] = todo[r] \ {i}
      BY <2>4, <3>1 DEF ReachChild, OrderlyInv, LockInv, TypeOK
    <3>3. /\ DOMAIN draft[r] \subseteq DOMAIN draft'[r]
          /\ row[i] \in ChildFrom(r) => i \in DOMAIN draft'[r]
      BY <3>1 DEF UpdateRow, Write, OrderlyInv, LockInv, TypeOK
    <3>4. ASSUME NEW j \in Children(Target(r)), row[j] = "swept", job[r].op = "restore"
          PROVE  j \in todo'[r] \cup DOMAIN draft'[r]
      BY <1>1, <3>2, <3>3, <3>4 DEF OrderlyInv, Whole, ChildFrom
    <3>5. Target(r) \in DOMAIN draft'[r]
      BY <1>1, <3>2, <3>3 DEF OrderlyInv, Whole
    <3>6. QED
      BY <1>1, <2>1, <3>2, <3>4, <3>5 DEF Whole
  <2>5. QED
    BY <2>2, <2>3, <2>4
<1>5. QED
  BY <1>1, <1>2, <1>3, <1>4

(* A step that only ends requests, or adds a row. *)
LEMMA OrderlyQuiet ==
  ASSUME OrderlyInv, LockInv',
         \A r \in Requests :
           Open(r)' => /\ pc'[r] = pc[r] /\ job'[r] = job[r]
                       /\ todo'[r] = todo[r] /\ draft'[r] = draft[r],
         \A x \in Records : row'[x] = row[x] \/ (row[x] = "absent" /\ row'[x] = "live")
  PROVE  OrderlyInv'
<1>1. Apart'
  BY DEF OrderlyInv, Apart, Open, Target
<1>2. ASSUME NEW r \in Requests
      PROVE  Whole(r)'
  <2> SUFFICES ASSUME Open(r)', Target(r)' \in CampaignIds
               PROVE  Whole(r)'
    BY DEF Whole
  <2>1. /\ Open(r) /\ Target(r)' = Target(r) /\ From(r)' = From(r)
        /\ pc'[r] = pc[r] /\ job'[r] = job[r]
        /\ todo'[r] = todo[r] /\ draft'[r] = draft[r]
    BY DEF Open, Target, From
  <2>2. /\ row[Target(r)] \in From(r) /\ Target(r) \in Records
        /\ "absent" \notin From(r)
    BY <2>1 DEF OrderlyInv, Whole, From, Archived, Records
  <2>3. row'[Target(r)] \in From(r)
    BY <2>2
  <2>4. \A i \in Children(Target(r)) : row'[i] = "swept" => row[i] = "swept"
    BY TwoLevels DEF Records
  <2>5. QED
    BY <2>1, <2>3, <2>4 DEF OrderlyInv, Whole
<1>3. \A c \in CampaignIds : row'[c] # "swept"
  BY DEF OrderlyInv, Records
<1>4. CascadeWhole'
  BY TwoLevels DEF OrderlyInv, CascadeWhole, Records
<1>5. QED
  BY <1>1, <1>2, <1>3, <1>4 DEF OrderlyInv

LEMMA OrderlyNext == OrderlyInv /\ [Next /\ OneAtATime]_vars => OrderlyInv'
<1> SUFFICES ASSUME OrderlyInv, [Next /\ OneAtATime]_vars
             PROVE  OrderlyInv'
  OBVIOUS
<1>1. LockInv'
  BY LockNext DEF OrderlyInv
<1>2. ASSUME NEW r \in Requests, Start(r), OneAtATime
      PROVE  OrderlyInv'
  BY <1>1, <1>2, OrderlyStart DEF OrderlyInv, CascadeWhole
<1>3. ASSUME NEW r \in Requests, Stamp(r) \/ FindChildren(r) \/ ReachChild(r)
      PROVE  OrderlyInv'
  BY <1>1, <1>3, OrderlyStatement DEF OrderlyInv, CascadeWhole
<1>4. ASSUME NEW r \in Requests, Commit(r)
      PROVE  OrderlyInv'
  <2>1. Apart'
    BY <1>4, CommitWrites DEF OrderlyInv, Apart, Open, Target, LockInv, TypeOK
  <2>2. QED
    BY <1>1, <1>4, <2>1, CommitKeepsWhole, CommitLeavesOthers DEF OrderlyInv
<1>5. ASSUME NEW r \in Requests, ReadBackFails(r) \/ Abort(r)
      PROVE  OrderlyInv'
  <2>1. \A q \in Requests :
          Open(q)' => /\ pc'[q] = pc[q] /\ job'[q] = job[q]
                      /\ todo'[q] = todo[q] /\ draft'[q] = draft[q]
    BY <1>5 DEF ReadBackFails, Abort, Rollback, Open, OrderlyInv, LockInv, TypeOK
  <2>2. UNCHANGED row
    BY <1>5 DEF ReadBackFails, Abort, Rollback
  <2>3. QED
    BY <1>1, <2>1, <2>2, OrderlyQuiet
<1>6. ASSUME NEW r \in Requests, Insert(r)
      PROVE  OrderlyInv'
  <2>1. \A q \in Requests :
          Open(q)' => /\ pc'[q] = pc[q] /\ job'[q] = job[q]
                      /\ todo'[q] = todo[q] /\ draft'[q] = draft[q]
    BY <1>6 DEF Insert, Open, OrderlyInv, LockInv, TypeOK
  <2>2. \A x \in Records : row'[x] = row[x] \/ (row[x] = "absent" /\ row'[x] = "live")
    BY <1>6 DEF Insert, OrderlyInv, LockInv, TypeOK, Shape
  <2>3. QED
    BY <1>1, <2>1, <2>2, OrderlyQuiet
<1>7. ASSUME NEW c \in CampaignIds, CreateCampaign(c)
      PROVE  OrderlyInv'
  <2>1. \A x \in Records : row'[x] = row[x] \/ (row[x] = "absent" /\ row'[x] = "live")
    BY <1>7 DEF CreateCampaign, OrderlyInv, LockInv, TypeOK
  <2>2. UNCHANGED <<pc, job, todo, draft>>
    BY <1>7 DEF CreateCampaign
  <2>3. QED
    BY <1>1, <2>1, <2>2, OrderlyQuiet
<1>8. CASE UNCHANGED vars
  BY <1>1, <1>8, OrderlyQuiet DEF vars
<1>9. QED
  BY <1>2, <1>3, <1>4, <1>5, <1>6, <1>7, <1>8 DEF Next, Proceed

(* An item swept along with its campaign has an archived campaign, as long   *)
(* as the requests about one campaign come one at a time.                    *)
THEOREM CascadesAreWhole == OrderlySpec => []CascadeWhole
<1>1. OrderlyInv => CascadeWhole
  BY DEF OrderlyInv
<1>2. QED
  BY <1>1, OrderlyInit, OrderlyNext, PTL DEF OrderlySpec

(***************************************************************************)
(* A restored campaign brings back what its dialog announced.              *)
(***************************************************************************)
LEMMA PreviewStep ==
  ASSUME OrderlyInv, Next, NEW c \in CampaignIds, row[c] = "removed", row'[c] = "live"
  PROVE  {i \in ItemIds : row[i] \in Archived /\ row'[i] = "live"} = Previewed(c)
<1>0. CampaignIds \subseteq Records /\ ItemIds \subseteq Records
  BY DEF Records
<1>1. PICK r \in Requests : Commit(r) /\ job[r] = [op |-> "restore", row |-> c]
  <2>1. ASSUME NEW r \in Requests, Insert(r) PROVE FALSE
    BY <1>0, <2>1 DEF Insert, OrderlyInv, LockInv, Shape, TypeOK
  <2>2. ASSUME NEW d \in CampaignIds, CreateCampaign(d) PROVE FALSE
    BY <1>0, <2>2 DEF CreateCampaign, OrderlyInv, LockInv, TypeOK
  <2>3. ASSUME NEW r \in Requests, Start(r) \/ Proceed(r) \/ Abort(r),
               ~(Insert(r) \/ Commit(r))
        PROVE  FALSE
    BY <2>3 DEF Start, Proceed, Abort, BeginDelete, BeginRestore, BeginAdd, Begin,
                Stamp, FindChildren, ReachChild, ReadBackFails, Rollback
  <2>4. PICK r \in Requests : Commit(r)
    BY <2>1, <2>2, <2>3 DEF Next
  <2>5. c \in DOMAIN draft[r] /\ c = Target(r) /\ row[c] \in From(r) /\ Open(r)
    BY <1>0, <2>4, CommitEffect, CommitWrites, CampaignWriter DEF OrderlyInv
  <2>6. job[r].op = "restore"
    BY <2>5 DEF From, OrderlyInv, LockInv, Shape
  <2>7. job[r] \in [op : {"softDelete", "restore"}, row : Records]
    BY <2>6 DEF OrderlyInv, LockInv, TypeOK, Jobs
  <2>8. QED
    BY <2>4, <2>5, <2>6, <2>7 DEF Target
<1>2. Open(r) /\ pc[r] = "reach" /\ todo[r] = {} /\ Target(r) = c /\ job[r].op = "restore"
  BY <1>1, CommitWrites DEF Target, OrderlyInv
<1>3. ASSUME NEW i \in ItemIds, row[i] \in Archived, row'[i] = "live"
      PROVE  i \in Children(c) /\ row[i] = "swept"
  <2>1. i \in DOMAIN draft[r]
    BY <1>0, <1>1, <1>3, CommitEffect DEF Archived
  <2>2. i # Target(r) /\ Home[i] = c
    BY <1>2, <2>1, ItemWriter, TwoLevels DEF OrderlyInv
  <2>3. QED
    BY <1>0, <1>1, <1>2, <2>1, <2>2, CommitEffect DEF ChildFrom, Children
<1>4. ASSUME NEW i \in Children(c), row[i] = "swept"
      PROVE  i \in ItemIds /\ row'[i] = "live"
  <2>1. i \in ItemIds /\ i # c
    BY TwoLevels
  <2>2. i \in DOMAIN draft[r]
    BY <1>2, <1>4 DEF OrderlyInv, Whole
  <2>3. QED
    BY <1>0, <1>1, <1>2, <2>1, <2>2, CommitEffect DEF ChildTo
<1>5. QED
  BY <1>3, <1>4, TwoLevels DEF Previewed, Archived

(* A campaign comes back with just the items the dialog announced, as long   *)
(* as the requests about one campaign come one at a time.                    *)
THEOREM PreviewHolds == OrderlySpec => PreviewKept
<1>1. OrderlyInv /\ [Next /\ OneAtATime]_vars =>
        [\A c \in CampaignIds :
           row[c] = "removed" /\ row'[c] = "live" =>
             {i \in ItemIds : row[i] \in Archived /\ row'[i] = "live"} = Previewed(c)]_vars
  BY PreviewStep
<1>2. QED
  BY <1>1, OrderlyInit, OrderlyNext, PTL DEF OrderlySpec, PreviewKept

-----------------------------------------------------------------------------
(***************************************************************************)
(* Trees of levels                                                         *)
(***************************************************************************)
LEMMA LevelsFit ==
  /\ Deepest \in Nat
  /\ Queries \subseteq Levels
  /\ \A l \in Levels : WellFormed(Level, l) /\ LooksNoFurther(Level, l)
  BY QueryTrees DEF Trees

LEMMA Smallest ==
  ASSUME NEW S, S \subseteq Nat, S # {}
  PROVE  \E n \in S : \A k \in S : n <= k
<1> DEFINE R == {p \in Nat \X Nat : p[1] < p[2]}
<1>1. IsWellFoundedOn(R, Nat)
  BY NatLessThanWellFounded DEF OpToRel
<1>2. PICK n \in S : \A k \in S : ~(<<k, n>> \in R)
  <2> HIDE DEF R
  <2>1. QED
    BY <1>1, WFMin
<1>3. ASSUME NEW k \in S PROVE n <= k
  <2>1. <<k, n>> \notin R
    BY <1>2
  <2>2. k \in Nat /\ n \in Nat
    BY <1>2
  <2>3. ~(k < n)
    BY <2>1, <2>2
  <2>4. QED
    BY <2>2, <2>3
<1>4. QED
  BY <1>3

(* A level of a tree that satisfies a property which none of the levels     *)
(* under it does: what is shown by induction on the trees has no such.      *)
LEMMA DeepestWithout ==
  ASSUME NEW Without, Without \subseteq Levels, Without # {}
  PROVE  \E l \in Without : \A m \in Levels : Under(Level, m, l) => m \notin Without
<1> DEFINE H == {n \in Nat : \E l \in Without : Level[l].depth = Deepest - n}
<1>1. \A l \in Levels : Level[l].depth \in 0..Deepest
  BY LevelsFit DEF WellFormed
<1>2. PICK l \in Without : TRUE
  OBVIOUS
<1>3. Deepest - Level[l].depth \in H
  BY <1>1, <1>2, LevelsFit
<1>4. PICK n \in H : \A k \in H : n <= k
  <2> HIDE DEF H
  <2>1. H \subseteq Nat
    BY DEF H
  <2>2. QED
    BY <1>3, <2>1, Smallest
<1>5. PICK d \in Without : Level[d].depth = Deepest - n
  BY <1>4
<1>6. ASSUME NEW m \in Without, Under(Level, m, d)
      PROVE  FALSE
  <2>1. Level[m].depth = Deepest - (n - 1) /\ n - 1 \in Nat
    BY <1>1, <1>5, <1>6, LevelsFit DEF Under
  <2>2. n - 1 \in H
    BY <1>6, <2>1
  <2>3. QED
    BY <1>4, <2>1, <2>2
<1>7. QED
  BY <1>5, <1>6

(* Conditions and included levels point down the tree. *)
LEMMA PointDown ==
  ASSUME NEW l \in Levels
  PROVE  /\ \A c \in Level[l].conds : OnColumns(c) \/ \A m \in c.of : Under(Level, m, l)
         /\ \A m \in Level[l].include \cup Level[l].counts : Under(Level, m, l)
         /\ \A m : Under(Level, m, l) => m \in Levels
  BY LevelsFit, QueryTrees DEF Trees, WellFormed, Under, Along, OnColumns

(***************************************************************************)
(* The rows that meet a level, one level down at a time                    *)
(***************************************************************************)
LEMMA HoldsAlike ==
  ASSUME NEW there, NEW f, NEW g, NEW c, NEW x,
         OnColumns(c) \/ \A m \in c.of : f[m] = g[m]
  PROVE  Holds(there, f, c, x) <=> Holds(there, g, c, x)
<1>1. CASE OnColumns(c)
  BY <1>1 DEF Holds, OnColumns
<1>2. CASE \A m \in c.of : f[m] = g[m]
  BY <1>2 DEF Holds, Found
<1>3. QED
  BY <1>1, <1>2

MeetsOne(there, gone, said, meets, l) ==
  {x \in Rows : /\ ModelOf[x] = Level[l].model
                /\ Slice(said[l], gone, x)
                /\ \A c \in Level[l].conds : Holds(there, meets, c, x)}

LEMMA MeetsOneAlike ==
  ASSUME NEW there, NEW gone, NEW said, NEW f, NEW g, NEW l \in Levels,
         \A m \in Levels : Under(Level, m, l) => f[m] = g[m]
  PROVE  MeetsOne(there, gone, said, f, l) = MeetsOne(there, gone, said, g, l)
<1>1. ASSUME NEW c \in Level[l].conds, NEW x
      PROVE  Holds(there, f, c, x) <=> Holds(there, g, c, x)
  <2>1. OnColumns(c) \/ \A m \in c.of : f[m] = g[m]
    BY PointDown
  <2>2. QED
    BY <2>1, HoldsAlike
<1>2. QED
  BY <1>1 DEF MeetsOne

LEMMA MeetsExists ==
  ASSUME NEW there, NEW gone, NEW said
  PROVE  \E f : f = [l \in Levels |-> MeetsOne(there, gone, said, f, l)]
<1> DEFINE DownTo(k) == {l \in Levels : Level[l].depth >= k}
           Good == {k \in Nat :
                      \E f : f = [l \in DownTo(k) |-> MeetsOne(there, gone, said, f, l)]}
<1>1. \A l \in Levels : Level[l].depth \in 0..Deepest
  BY LevelsFit DEF WellFormed
<1>2. Deepest + 1 \in Good
  <2>1. DownTo(Deepest + 1) = {}
    BY <1>1, LevelsFit
  <2> DEFINE f == [l \in {} |-> {}]
  <2>2. f = [l \in DownTo(Deepest + 1) |-> MeetsOne(there, gone, said, f, l)]
    BY <2>1
  <2>3. Deepest + 1 \in Nat
    BY LevelsFit
  <2> HIDE DEF f, DownTo
  <2>4. QED
    BY <2>2, <2>3
<1>3. PICK k \in Good : \A n \in Good : k <= n
  <2> HIDE DEF Good
  <2>1. Good \subseteq Nat
    BY DEF Good
  <2>2. QED
    BY <1>2, <2>1, Smallest
<1>4. PICK f : f = [l \in DownTo(k) |-> MeetsOne(there, gone, said, f, l)]
  BY <1>3
<1>5. k = 0
  <2> SUFFICES ASSUME k # 0 PROVE FALSE
    OBVIOUS
  <2> DEFINE g == [l \in DownTo(k - 1) |-> MeetsOne(there, gone, said, f, l)]
  <2>1. k - 1 \in Nat /\ DownTo(k) \subseteq DownTo(k - 1)
    BY <1>1, <1>3
  <2>2. \A l \in DownTo(k) : f[l] = g[l]
    BY <1>4, <2>1
  <2>3. ASSUME NEW l \in DownTo(k - 1)
        PROVE  MeetsOne(there, gone, said, f, l) = MeetsOne(there, gone, said, g, l)
    <3>1. \A m \in Levels : Under(Level, m, l) => m \in DownTo(k)
      BY <1>1, <1>3 DEF Under
    <3> HIDE DEF g
    <3>2. QED
      BY <2>2, <3>1, MeetsOneAlike
  <2>4. g = [l \in DownTo(k - 1) |-> MeetsOne(there, gone, said, g, l)]
    BY <2>3
  <2>5. k - 1 \in Good
    <3> HIDE DEF g, DownTo
    <3>1. QED
      BY <2>1, <2>4
  <2>6. k <= k - 1
    BY <1>3, <2>5
  <2>7. QED
    BY <1>3, <2>6
<1>6. DownTo(0) = Levels
  BY <1>1
<1>7. QED
  BY <1>4, <1>5, <1>6

LEMMA MeetsIs ==
  ASSUME NEW there, NEW gone, NEW said, NEW l \in Levels
  PROVE  Meets(there, gone, said)[l]
           = MeetsOne(there, gone, said, Meets(there, gone, said), l)
<1> DEFINE M == Meets(there, gone, said)
<1>1. M = CHOOSE f : f = [q \in Levels |-> MeetsOne(there, gone, said, f, q)]
  BY DEF Meets, MeetsOne
<1>2. M = [q \in Levels |-> MeetsOne(there, gone, said, M, q)]
  <2> HIDE DEF M
  <2>1. QED
    BY <1>1, MeetsExists
<1>3. QED
  <2> HIDE DEF M
  <2>1. M[l] = MeetsOne(there, gone, said, M, l)
    BY <1>2
  <2>2. QED
    BY <2>1 DEF M

(***************************************************************************)
(* What is shown of a row, likewise                                        *)
(***************************************************************************)
ShownOne(there, meets, shown, l) ==
  [x \in Rows |->
    [row |-> x,
     included |-> [m \in Level[l].include |->
                     {shown[m][y] : y \in Included(there, meets, x, m)}],
     counted |-> [m \in Level[l].counts |-> Cardinality(Found(there, meets, x, m))]]]

LEMMA ShownOneAlike ==
  ASSUME NEW there, NEW meets, NEW f, NEW g, NEW l \in Levels,
         \A m \in Levels : Under(Level, m, l) => f[m] = g[m]
  PROVE  ShownOne(there, meets, f, l) = ShownOne(there, meets, g, l)
<1> DEFINE F(h, x) == [m \in Level[l].include |-> {h[m][y] : y \in Included(there, meets, x, m)}]
<1>1. \A m \in Level[l].include : f[m] = g[m]
  BY PointDown
<1>2. ASSUME NEW x \in Rows
      PROVE  F(f, x) = F(g, x)
  BY <1>1
<1>3. \A h : ShownOne(there, meets, h, l) =
        [x \in Rows |->
          [row |-> x,
           included |-> F(h, x),
           counted |-> [m \in Level[l].counts |-> Cardinality(Found(there, meets, x, m))]]]
  BY DEF ShownOne
<1> HIDE DEF F
<1>4. QED
  BY <1>2, <1>3

LEMMA ShownExists ==
  ASSUME NEW there, NEW meets
  PROVE  \E f : f = [l \in Levels |-> ShownOne(there, meets, f, l)]
<1> DEFINE DownTo(k) == {l \in Levels : Level[l].depth >= k}
           Good == {k \in Nat :
                      \E f : f = [l \in DownTo(k) |-> ShownOne(there, meets, f, l)]}
<1>1. \A l \in Levels : Level[l].depth \in 0..Deepest
  BY LevelsFit DEF WellFormed
<1>2. Deepest + 1 \in Good
  <2>1. DownTo(Deepest + 1) = {}
    BY <1>1, LevelsFit
  <2> DEFINE f == [l \in {} |-> {}]
  <2>2. f = [l \in DownTo(Deepest + 1) |-> ShownOne(there, meets, f, l)]
    BY <2>1
  <2>3. Deepest + 1 \in Nat
    BY LevelsFit
  <2> HIDE DEF f, DownTo
  <2>4. QED
    BY <2>2, <2>3
<1>3. PICK k \in Good : \A n \in Good : k <= n
  <2> HIDE DEF Good
  <2>1. Good \subseteq Nat
    BY DEF Good
  <2>2. QED
    BY <1>2, <2>1, Smallest
<1>4. PICK f : f = [l \in DownTo(k) |-> ShownOne(there, meets, f, l)]
  BY <1>3
<1>5. k = 0
  <2> SUFFICES ASSUME k # 0 PROVE FALSE
    OBVIOUS
  <2> DEFINE g == [l \in DownTo(k - 1) |-> ShownOne(there, meets, f, l)]
  <2>1. k - 1 \in Nat /\ DownTo(k) \subseteq DownTo(k - 1)
    BY <1>1, <1>3
  <2>2. \A l \in DownTo(k) : f[l] = g[l]
    BY <1>4, <2>1
  <2>3. ASSUME NEW l \in DownTo(k - 1)
        PROVE  ShownOne(there, meets, f, l) = ShownOne(there, meets, g, l)
    <3>1. \A m \in Levels : Under(Level, m, l) => m \in DownTo(k)
      BY <1>1, <1>3 DEF Under
    <3> HIDE DEF g
    <3>2. QED
      BY <2>2, <3>1, ShownOneAlike
  <2>4. g = [l \in DownTo(k - 1) |-> ShownOne(there, meets, g, l)]
    BY <2>3
  <2>5. k - 1 \in Good
    <3> HIDE DEF g, DownTo
    <3>1. QED
      BY <2>1, <2>4
  <2>6. k <= k - 1
    BY <1>3, <2>5
  <2>7. QED
    BY <1>3, <2>6
<1>6. DownTo(0) = Levels
  BY <1>1
<1>7. QED
  BY <1>4, <1>5, <1>6

LEMMA ShownIs ==
  ASSUME NEW there, NEW gone, NEW said, NEW l \in Levels
  PROVE  Shown(there, gone, said)[l]
           = ShownOne(there, Meets(there, gone, said), Shown(there, gone, said), l)
<1> DEFINE M == Meets(there, gone, said)
           W == Shown(there, gone, said)
<1>1. W = CHOOSE f : f = [q \in Levels |-> ShownOne(there, M, f, q)]
  BY DEF Shown, ShownOne
<1>2. W = [q \in Levels |-> ShownOne(there, M, W, q)]
  <2> HIDE DEF M, W
  <2>1. QED
    BY <1>1, ShownExists
<1>3. QED
  <2> HIDE DEF M, W
  <2>1. W[l] = ShownOne(there, M, W, l)
    BY <1>2
  <2>2. QED
    BY <2>1 DEF M, W

(***************************************************************************)
(* Two worlds compared                                                     *)
(*                                                                         *)
(* One has all the rows, the other all but those of Old.  What is asked of *)
(* them says the same of the rows they share, at the levels the walker     *)
(* gets to, and hides the rows of Old in the first wherever they could be  *)
(* found through a relation.                                               *)
(***************************************************************************)
Hides(l) ==
  \/ Level[l].place \in {"relation", "count", "countAll"}
  \/ Level[l].place = "include" /\ Level[l].via.kind # "toOneRequired"

Comparable(Old, gone1, said1, gone2, said2) ==
  \A l \in Levels \ Queries : Reached(l) =>
    /\ \A x \in Rows \ Old :
         ModelOf[x] = Level[l].model => (Slice(said1[l], gone1, x) <=> Slice(said2[l], gone2, x))
    /\ Hides(l) =>
         \A x \in Rows \cap Old : ModelOf[x] = Level[l].model => ~Slice(said1[l], gone1, x)

Agree(Old, gone1, said1, gone2, said2, l) ==
  \A x \in Rows \ Old :
    ModelOf[x] = Level[l].model =>
      (x \in Meets(Rows, gone1, said1)[l] <=> x \in Meets(Rows \ Old, gone2, said2)[l])

(* Where a level has levels under it, the walker enters it. *)
LEMMA EntersAbove ==
  ASSUME NEW l \in Levels
  PROVE  /\ \A c \in Level[l].conds : OnColumns(c) \/ Enters(l)
         /\ Level[l].include # {} => Enters(l)
         /\ Level[l].counts # {} => Enters(l)
  BY LevelsFit DEF WellFormed, LooksNoFurther, Enters

LEMMA ReachedUnder ==
  ASSUME NEW l \in Levels, NEW m, Under(Level, m, l), Reached(l), Enters(l)
  PROVE  m \in Levels \ Queries /\ Reached(m)
  BY LevelsFit, QueryTrees DEF Trees, WellFormed, Under, Reached

(* A relation leads to rows of the model it names. *)
LEMMA LinkedRows ==
  ASSUME NEW x \in Rows, NEW r \in RelationsOf(ModelOf[x])
  PROVE  \A y \in Linked(x, r) : y \in Rows /\ ModelOf[y] = r.to
<1>1. CASE r.kind = "toMany"
  BY <1>1 DEF Linked
<1>2. CASE r.kind # "toMany"
  BY <1>2, ForeignKeys DEF Linked
<1>3. QED
  BY <1>1, <1>2

LEMMA FoundAlike ==
  ASSUME NEW Old, NEW gone1, NEW said1, NEW gone2, NEW said2,
         Comparable(Old, gone1, said1, gone2, said2),
         NEW l \in Levels, NEW m \in Levels \ Queries, Along(Level, m, l),
         Reached(m), Hides(m), Agree(Old, gone1, said1, gone2, said2, m),
         NEW x \in Rows, ModelOf[x] = Level[l].model
  PROVE  Found(Rows, Meets(Rows, gone1, said1), x, m)
           = Found(Rows \ Old, Meets(Rows \ Old, gone2, said2), x, m)
<1> DEFINE M1 == Meets(Rows, gone1, said1)
           M2 == Meets(Rows \ Old, gone2, said2)
<1>1. \A y \in Linked(x, Level[m].via) : y \in Rows /\ ModelOf[y] = Level[m].model
  BY LinkedRows DEF Along
<1>2. ASSUME NEW y \in Linked(x, Level[m].via), y \in Old
      PROVE  y \notin M1[m]
  <2>1. ~Slice(said1[m], gone1, y)
    BY <1>1, <1>2 DEF Comparable
  <2>2. QED
    BY <2>1, MeetsIs DEF MeetsOne
<1>3. ASSUME NEW y \in Linked(x, Level[m].via), y \notin Old
      PROVE  y \in M1[m] <=> y \in M2[m]
  BY <1>1, <1>3 DEF Agree
<1> HIDE DEF M1, M2
<1>4. Found(Rows, M1, x, m) = Found(Rows \ Old, M2, x, m)
  BY <1>1, <1>2, <1>3 DEF Found
<1>5. QED
  BY <1>4 DEF M1, M2

(* If the worlds agree on the levels under l, they do on its conditions. *)
LEMMA CondsAlike ==
  ASSUME NEW Old, NEW gone1, NEW said1, NEW gone2, NEW said2,
         Comparable(Old, gone1, said1, gone2, said2),
         NEW l \in Levels, Reached(l),
         \A m \in Levels \ Queries :
           Under(Level, m, l) /\ Reached(m) => Agree(Old, gone1, said1, gone2, said2, m),
         NEW x \in Rows \ Old, ModelOf[x] = Level[l].model,
         NEW c \in Level[l].conds
  PROVE  Holds(Rows, Meets(Rows, gone1, said1), c, x)
           <=> Holds(Rows \ Old, Meets(Rows \ Old, gone2, said2), c, x)
<1> DEFINE M1 == Meets(Rows, gone1, said1)
           M2 == Meets(Rows \ Old, gone2, said2)
<1>1. CASE OnColumns(c)
  BY <1>1 DEF Holds, OnColumns
<1>2. CASE c.op \in Logical
  <2>1. Enters(l)
    BY <1>2, EntersAbove DEF Logical, OnColumns
  <2>2. ASSUME NEW m \in c.of
        PROVE  x \in M1[m] <=> x \in M2[m]
    <3>1. Under(Level, m, l) /\ Level[m].model = Level[l].model
      BY <1>2, LevelsFit DEF WellFormed
    <3>2. m \in Levels \ Queries /\ Reached(m)
      BY <2>1, <3>1, ReachedUnder
    <3>3. QED
      BY <3>1, <3>2 DEF Agree
  <2> HIDE DEF M1, M2
  <2>3. Holds(Rows, M1, c, x) <=> Holds(Rows \ Old, M2, c, x)
    BY <1>2, <2>2 DEF Holds, Logical, OnColumns
  <2>4. QED
    BY <2>3 DEF M1, M2
<1>3. CASE c.op \in Relational
  <2>1. Enters(l)
    BY <1>3, EntersAbove DEF Relational, OnColumns
  <2>2. ASSUME NEW m \in c.of
        PROVE  Found(Rows, M1, x, m) = Found(Rows \ Old, M2, x, m)
    <3>1. Along(Level, m, l) /\ Level[m].place = "relation"
      BY <1>3, LevelsFit DEF WellFormed
    <3>2. m \in Levels \ Queries /\ Reached(m)
      BY <2>1, <3>1, ReachedUnder DEF Along
    <3>3. Agree(Old, gone1, said1, gone2, said2, m)
      BY <3>1, <3>2 DEF Along
    <3>4. QED
      BY <3>1, <3>2, <3>3, FoundAlike DEF Hides
  <2> HIDE DEF M1, M2
  <2>3. Holds(Rows, M1, c, x) <=> Holds(Rows \ Old, M2, c, x)
    BY <1>3, <2>2 DEF Holds, Relational, OnColumns
  <2>4. QED
    BY <2>3 DEF M1, M2
<1>4. QED
  BY <1>1, <1>2, <1>3, LevelsFit DEF WellFormed, OnColumns

(***************************************************************************)
(* The worlds agree on every level the walker gets to                      *)
(***************************************************************************)
LEMMA MeetsAlike ==
  ASSUME NEW Old, NEW gone1, NEW said1, NEW gone2, NEW said2,
         Comparable(Old, gone1, said1, gone2, said2)
  PROVE  \A l \in Levels \ Queries : Reached(l) => Agree(Old, gone1, said1, gone2, said2, l)
<1> DEFINE Without == {l \in Levels \ Queries :
                         Reached(l) /\ ~Agree(Old, gone1, said1, gone2, said2, l)}
           M1 == Meets(Rows, gone1, said1)
           M2 == Meets(Rows \ Old, gone2, said2)
<1>1. SUFFICES ASSUME Without # {} PROVE FALSE
  OBVIOUS
<1>2. PICK l \in Without : \A m \in Levels : Under(Level, m, l) => m \notin Without
  <2>1. Without \subseteq Levels
    OBVIOUS
  <2> HIDE DEF Without
  <2>2. QED
    BY <1>1, <2>1, DeepestWithout
<1>3. \A m \in Levels \ Queries :
        Under(Level, m, l) /\ Reached(m) => Agree(Old, gone1, said1, gone2, said2, m)
  BY <1>2
<1>4. ASSUME NEW x \in Rows \ Old, ModelOf[x] = Level[l].model
      PROVE  x \in M1[l] <=> x \in M2[l]
  <2>1. Slice(said1[l], gone1, x) <=> Slice(said2[l], gone2, x)
    BY <1>2, <1>4 DEF Comparable
  <2>2. \A c \in Level[l].conds : Holds(Rows, M1, c, x) <=> Holds(Rows \ Old, M2, c, x)
    <3> TAKE c \in Level[l].conds
    <3>1. QED
      BY <1>2, <1>3, <1>4, CondsAlike
  <2>3. /\ M1[l] = MeetsOne(Rows, gone1, said1, M1, l)
        /\ M2[l] = MeetsOne(Rows \ Old, gone2, said2, M2, l)
    BY MeetsIs
  <2> HIDE DEF M1, M2
  <2>4. QED
    BY <1>4, <2>1, <2>2, <2>3 DEF MeetsOne
<1>5. QED
  BY <1>2, <1>4 DEF Agree

(* At the root of a query too, on the rows that its own slices share. *)
LEMMA RootAlike ==
  ASSUME NEW Old, NEW gone1, NEW said1, NEW gone2, NEW said2,
         Comparable(Old, gone1, said1, gone2, said2),
         NEW q \in Queries, NEW x \in Rows \ Old, ModelOf[x] = Level[q].model
  PROVE  \A c \in Level[q].conds : Holds(Rows, Meets(Rows, gone1, said1), c, x)
           <=> Holds(Rows \ Old, Meets(Rows \ Old, gone2, said2), c, x)
<1>1. q \in Levels /\ Reached(q)
  BY LevelsFit DEF WellFormed, Reached
<1>2. \A m \in Levels \ Queries :
        Under(Level, m, q) /\ Reached(m) => Agree(Old, gone1, said1, gone2, said2, m)
  BY MeetsAlike
<1> TAKE c \in Level[q].conds
<1>3. QED
  BY <1>1, <1>2, CondsAlike

LEMMA ShownAlike ==
  ASSUME NEW Old, NEW gone1, NEW said1, NEW gone2, NEW said2,
         Comparable(Old, gone1, said1, gone2, said2)
  PROVE  \A l \in Levels : Reached(l) =>
           \A x \in Rows : ModelOf[x] = Level[l].model =>
             Shown(Rows, gone1, said1)[l][x] = Shown(Rows \ Old, gone2, said2)[l][x]
<1> DEFINE S1 == Shown(Rows, gone1, said1)
           S2 == Shown(Rows \ Old, gone2, said2)
           M1 == Meets(Rows, gone1, said1)
           M2 == Meets(Rows \ Old, gone2, said2)
           Same(l) == \A x \in Rows : ModelOf[x] = Level[l].model => S1[l][x] = S2[l][x]
           Without == {l \in Levels : Reached(l) /\ ~Same(l)}
<1>1. SUFFICES ASSUME Without # {} PROVE FALSE
  OBVIOUS
<1>2. PICK l \in Without : \A m \in Levels : Under(Level, m, l) => m \notin Without
  <2>1. Without \subseteq Levels
    OBVIOUS
  <2> HIDE DEF Without
  <2>2. QED
    BY <1>1, <2>1, DeepestWithout
<1>3. ASSUME NEW x \in Rows, ModelOf[x] = Level[l].model
      PROVE  S1[l][x] = S2[l][x]
  <2> DEFINE I(S, there, M) ==
               [m \in Level[l].include |-> {S[m][y] : y \in Included(there, M, x, m)}]
             C(there, M) == [m \in Level[l].counts |-> Cardinality(Found(there, M, x, m))]
  <2>1. /\ S1[l][x] = [row |-> x, included |-> I(S1, Rows, M1), counted |-> C(Rows, M1)]
        /\ S2[l][x] = [row |-> x, included |-> I(S2, Rows \ Old, M2),
                        counted |-> C(Rows \ Old, M2)]
    <3>1. /\ S1[l] = ShownOne(Rows, M1, S1, l)
          /\ S2[l] = ShownOne(Rows \ Old, M2, S2, l)
      BY ShownIs
    <3> HIDE DEF S1, S2, M1, M2
    <3>2. QED
      BY <3>1 DEF ShownOne
  <2>2. ASSUME NEW m \in Level[l].include
        PROVE  {S1[m][y] : y \in Included(Rows, M1, x, m)}
                 = {S2[m][y] : y \in Included(Rows \ Old, M2, x, m)}
    <3>1. Along(Level, m, l) /\ Level[m].place = "include" /\ Enters(l)
      BY EntersAbove, LevelsFit DEF WellFormed
    <3>2. m \in Levels \ Queries /\ Reached(m)
      BY <1>2, <3>1, ReachedUnder DEF Along
    <3>3. Same(m)
      BY <1>2, <3>1, <3>2 DEF Along
    <3>4. Included(Rows, M1, x, m) = Included(Rows \ Old, M2, x, m)
      <4>1. CASE Level[m].via.kind = "toOneRequired"
        BY <4>1 DEF Included
      <4>2. CASE Level[m].via.kind # "toOneRequired"
        <5>1. Hides(m) /\ Agree(Old, gone1, said1, gone2, said2, m)
          BY <3>1, <3>2, <4>2, MeetsAlike DEF Hides
        <5>2. Found(Rows, M1, x, m) = Found(Rows \ Old, M2, x, m)
          BY <1>2, <1>3, <3>1, <3>2, <5>1, FoundAlike
        <5> HIDE DEF M1, M2
        <5>3. QED
          BY <4>2, <5>2 DEF Included
      <4>3. QED
        BY <4>1, <4>2
    <3>5. \A y \in Included(Rows, M1, x, m) : y \in Rows /\ ModelOf[y] = Level[m].model
      <4>1. \A y \in Linked(x, Level[m].via) : y \in Rows /\ ModelOf[y] = Level[m].model
        BY <1>3, <3>1, LinkedRows DEF Along
      <4> HIDE DEF M1
      <4>2. QED
        BY <4>1 DEF Included, Found
    <3> HIDE DEF S1, S2, M1, M2
    <3>6. QED
      BY <3>3, <3>4, <3>5
  <2>3. ASSUME NEW m \in Level[l].counts
        PROVE  Found(Rows, M1, x, m) = Found(Rows \ Old, M2, x, m)
    <3>1. Along(Level, m, l) /\ Level[m].place \in {"count", "countAll"} /\ Enters(l)
      BY EntersAbove, LevelsFit DEF WellFormed
    <3>2. m \in Levels \ Queries /\ Reached(m)
      BY <1>2, <3>1, ReachedUnder DEF Along
    <3>3. Hides(m) /\ Agree(Old, gone1, said1, gone2, said2, m)
      BY <3>1, <3>2, MeetsAlike DEF Hides
    <3>4. QED
      BY <1>2, <1>3, <3>1, <3>2, <3>3, FoundAlike
  <2> HIDE DEF S1, S2, M1, M2
  <2>4. I(S1, Rows, M1) = I(S2, Rows \ Old, M2)
    BY <2>2
  <2>5. C(Rows, M1) = C(Rows \ Old, M2)
    BY <2>3
  <2> HIDE DEF I, C
  <2>6. QED
    BY <2>1, <2>4, <2>5
<1>4. QED
  BY <1>2, <1>3

(* The answers agree when the slices at the root do. *)
LEMMA AnswerAlike ==
  ASSUME NEW Old, NEW gone1, NEW said1, NEW gone2, NEW said2,
         Comparable(Old, gone1, said1, gone2, said2),
         NEW q \in Queries,
         \A x \in Rows : ModelOf[x] = Level[q].model =>
           (Slice(said1[q], gone1, x) <=> x \notin Old /\ Slice(said2[q], gone2, x))
  PROVE  Answer(Rows, gone1, said1, q) = Answer(Rows \ Old, gone2, said2, q)
<1> DEFINE S1 == Shown(Rows, gone1, said1)
           S2 == Shown(Rows \ Old, gone2, said2)
           M1 == Meets(Rows, gone1, said1)
           M2 == Meets(Rows \ Old, gone2, said2)
<1>1. q \in Levels /\ Reached(q)
  BY LevelsFit DEF WellFormed, Reached
<1>2. /\ M1[q] = MeetsOne(Rows, gone1, said1, M1, q)
      /\ M2[q] = MeetsOne(Rows \ Old, gone2, said2, M2, q)
  BY <1>1, MeetsIs
<1>3. \A x \in Rows \ Old : ModelOf[x] = Level[q].model =>
        \A c \in Level[q].conds : Holds(Rows, M1, c, x) <=> Holds(Rows \ Old, M2, c, x)
  BY RootAlike
<1>4. \A x \in Rows : ModelOf[x] = Level[q].model => S1[q][x] = S2[q][x]
  BY <1>1, ShownAlike
<1>5. /\ Answer(Rows, gone1, said1, q) = {S1[q][x] : x \in Rows \cap M1[q]}
      /\ Answer(Rows \ Old, gone2, said2, q) = {S2[q][x] : x \in (Rows \ Old) \cap M2[q]}
  BY DEF Answer
<1> HIDE DEF S1, S2, M1, M2
<1>6. Rows \cap M1[q] = (Rows \ Old) \cap M2[q]
  BY <1>2, <1>3 DEF MeetsOne
<1>7. \A x \in Rows \cap M1[q] : x \in Rows /\ ModelOf[x] = Level[q].model
  BY <1>2 DEF MeetsOne
<1>8. QED
  BY <1>4, <1>5, <1>6, <1>7

(***************************************************************************)
(* Queries that say nothing of deletedAt                                   *)
(***************************************************************************)
ArchivedRows == archived \subseteq {x \in Rows : ModelOf[x] \in Archivable}

LEMMA SilentFiltered ==
  ASSUME ArchivedRows
  PROVE  /\ Comparable(archived, archived, Filtered(Silent), {}, Silent)
         /\ \A q \in Queries, x \in Rows : ModelOf[x] = Level[q].model =>
              (Slice(Filtered(Silent)[q], archived, x) <=> x \notin archived)
         /\ \A q \in Queries, x \in Rows : Slice(Silent[q], {}, x)
<1>1. \A l \in Levels :
        Filtered(Silent)[l] = IF Reached(l) /\ Merges(l) THEN "null" ELSE "unset"
  BY DEF Filtered, ApplyWalker, Silent, Merge, Injected
<1>2. \A l \in Levels : \A x : Slice(Silent[l], {}, x)
  BY DEF Silent, Slice
<1>3. ASSUME NEW l \in Levels, NEW x \in Rows, x \notin archived
      PROVE  Slice(Filtered(Silent)[l], archived, x)
  BY <1>1, <1>3 DEF Slice
<1>4. ASSUME NEW l \in Levels, NEW x \in archived, ModelOf[x] = Level[l].model, Reached(l),
             Hides(l) \/ Level[l].place = "query"
      PROVE  ~Slice(Filtered(Silent)[l], archived, x)
  <2>1. Merges(l)
    BY <1>4 DEF ArchivedRows, Hides, Merges
  <2>2. QED
    BY <1>1, <1>4, <2>1 DEF Slice
<1>5. \A q \in Queries : q \in Levels /\ Level[q].place = "query" /\ Reached(q)
  BY LevelsFit DEF WellFormed, Reached
<1>6. Comparable(archived, archived, Filtered(Silent), {}, Silent)
  BY <1>2, <1>3, <1>4 DEF Comparable
<1>7. QED
  BY <1>2, <1>3, <1>4, <1>5, <1>6

LEMMA SilentSeesTheLive ==
  ASSUME ArchivedRows, NEW q \in Queries
  PROVE  Asked(q, Silent) = Answer(Rows \ archived, {}, Silent, q)
<1>1. \A x \in Rows : ModelOf[x] = Level[q].model =>
        (Slice(Filtered(Silent)[q], archived, x) <=> x \notin archived /\ Slice(Silent[q], {}, x))
  BY SilentFiltered
<1>2. QED
  BY <1>1, SilentFiltered, AnswerAlike DEF Asked

(* Only rows of archivable models are ever archived. *)
LEMMA OnlyArchivable ==
  FilterSpec => []ArchivedRows
<1>1. FilterInit => ArchivedRows
  BY DEF FilterInit, ArchivedRows
<1>2. ArchivedRows /\ [FilterNext]_archived => ArchivedRows'
  BY DEF ArchivedRows, FilterNext, Archive, Restore
<1>3. QED
  BY <1>1, <1>2, PTL DEF FilterSpec

(* However a query is nested, and whatever rows have been archived and      *)
(* restored before, one that says nothing of deletedAt is answered as if    *)
(* the archived rows did not exist: at the top, in what it includes and     *)
(* counts, and in what its relation filters may find.                       *)
THEOREM SilentQueriesSeeTheLiveWorld ==
  FilterSpec => []LiveWorld
<1>1. ArchivedRows => LiveWorld
  BY SilentSeesTheLive DEF LiveWorld
<1>2. QED
  BY <1>1, OnlyArchivable, PTL

(***************************************************************************)
(* The three slices of a list                                              *)
(***************************************************************************)
Narrowed(q, flags) == IF flags.onlyDeleted THEN [Silent EXCEPT ![q] = "set"] ELSE Silent

(* What is sent hides nothing below the root, where it is as narrow as asked. *)
LEMMA BypassHidesNothing ==
  ASSUME NEW q \in Queries, NEW flags, flags.onlyDeleted \/ flags.includeDeleted
  PROVE  LET sent == Filtered(StateFiltered(q, flags))
         IN  /\ \A l \in Levels \ {q} : sent[l] \in {"any", "unset"}
             /\ IF flags.onlyDeleted THEN sent[q] = "set" ELSE sent[q] \in {"any", "unset"}
<1> DEFINE narrowed == Narrowed(q, flags)
           bypassed == WithDeleted(narrowed)
           sent == Filtered(bypassed)
<1>1. q \in Levels
  BY LevelsFit
<1>2. /\ \A l \in Levels \ {q} : narrowed[l] = "unset"
      /\ narrowed[q] = IF flags.onlyDeleted THEN "set" ELSE "unset"
  BY <1>1 DEF Silent, Narrowed
<1>3. \A l \in Levels : /\ bypassed[l] \in {narrowed[l], "any"}
                        /\ Reached(l) /\ Merges(l) => bypassed[l] # "unset"
                        /\ narrowed[l] # "unset" => bypassed[l] = narrowed[l]
  <2> HIDE DEF narrowed
  <2>1. QED
    BY DEF WithDeleted, ApplyWalker, Merge, Injected
<1>4. \A l \in Levels : sent[l] = bypassed[l]
  <2> HIDE DEF bypassed
  <2>1. QED
    BY <1>3 DEF Filtered, ApplyWalker, Merge
<1>5. StateFiltered(q, flags) = bypassed
  BY DEF StateFiltered, Narrowed
<1> HIDE DEF sent, bypassed, narrowed
<1>6. /\ \A l \in Levels \ {q} : sent[l] \in {"any", "unset"}
      /\ IF flags.onlyDeleted THEN sent[q] = "set" ELSE sent[q] \in {"any", "unset"}
  BY <1>1, <1>2, <1>3, <1>4
<1>7. QED
  BY <1>5, <1>6 DEF sent

LEMMA BypassSeesAll ==
  ASSUME NEW q \in Queries, NEW flags, flags.onlyDeleted \/ flags.includeDeleted
  PROVE  Asked(q, StateFiltered(q, flags))
           = Answer(Rows, archived, Narrowed(q, flags), q)
<1> DEFINE sent == Filtered(StateFiltered(q, flags))
           narrowed == Narrowed(q, flags)
<1>1. /\ \A l \in Levels \ {q} : sent[l] \in {"any", "unset"}
      /\ IF flags.onlyDeleted THEN sent[q] = "set" ELSE sent[q] \in {"any", "unset"}
  BY BypassHidesNothing
<1>2. q \in Levels
  BY LevelsFit
<1>3. /\ \A l \in Levels \ {q} : narrowed[l] = "unset"
      /\ narrowed[q] = IF flags.onlyDeleted THEN "set" ELSE "unset"
  BY <1>2 DEF Silent, Narrowed
<1> HIDE DEF sent, narrowed
<1>4. Comparable({}, archived, sent, archived, narrowed)
  BY <1>1, <1>3 DEF Comparable, Slice
<1>5. \A x \in Rows : Slice(sent[q], archived, x) <=> x \notin {} /\ Slice(narrowed[q], archived, x)
  BY <1>1, <1>3 DEF Slice
<1>6. Answer(Rows, archived, sent, q) = Answer(Rows \ {}, archived, narrowed, q)
  BY <1>4, <1>5, AnswerAlike
<1>7. Rows \ {} = Rows
  OBVIOUS
<1>8. QED
  BY <1>6, <1>7 DEF Asked, sent, narrowed

(* The archived ones of all that a query finds. *)
LEMMA NarrowedIsDeleted ==
  ASSUME NEW q \in Queries
  PROVE  Answer(Rows, archived, [Silent EXCEPT ![q] = "set"], q)
           = {a \in Answer(Rows, archived, Silent, q) : a.row \in archived}
<1> DEFINE narrowed == [Silent EXCEPT ![q] = "set"]
           S1 == Shown(Rows, archived, narrowed)
           S2 == Shown(Rows \ {}, archived, Silent)
           M1 == Meets(Rows, archived, narrowed)
           M2 == Meets(Rows \ {}, archived, Silent)
<1>1. q \in Levels /\ Reached(q)
  BY LevelsFit DEF WellFormed, Reached
<1>2. /\ \A l \in Levels : Silent[l] = "unset"
      /\ \A l \in Levels \ {q} : narrowed[l] = "unset"
      /\ narrowed[q] = "set"
  BY <1>1 DEF Silent
<1>3. Comparable({}, archived, narrowed, archived, Silent)
  <2> HIDE DEF narrowed
  <2>1. QED
    BY <1>2 DEF Comparable, Slice
<1>4. \A x \in Rows \ {} : ModelOf[x] = Level[q].model =>
        \A c \in Level[q].conds : Holds(Rows, M1, c, x) <=> Holds(Rows \ {}, M2, c, x)
  <2> HIDE DEF narrowed
  <2>1. QED
    BY <1>3, RootAlike
<1>5. \A x \in Rows : ModelOf[x] = Level[q].model => S1[q][x] = S2[q][x]
  <2> HIDE DEF narrowed
  <2>1. QED
    BY <1>1, <1>3, ShownAlike
<1>6. /\ M1[q] = MeetsOne(Rows, archived, narrowed, M1, q)
      /\ M2[q] = MeetsOne(Rows \ {}, archived, Silent, M2, q)
  BY <1>1, MeetsIs
<1>7. \A x \in Rows : S2[q][x].row = x
  <2>1. S2[q] = ShownOne(Rows \ {}, M2, S2, q)
    BY <1>1, ShownIs
  <2> HIDE DEF S2, M2
  <2>2. QED
    BY <2>1 DEF ShownOne
<1>8. /\ Answer(Rows, archived, narrowed, q) = {S1[q][x] : x \in Rows \cap M1[q]}
      /\ Answer(Rows \ {}, archived, Silent, q) = {S2[q][x] : x \in (Rows \ {}) \cap M2[q]}
  BY DEF Answer
<1> HIDE DEF S1, S2, M1, M2, narrowed
<1>9. Rows \cap M1[q] = {x \in (Rows \ {}) \cap M2[q] : x \in archived}
  <2>1. ASSUME NEW x \in Rows, ModelOf[x] = Level[q].model
        PROVE  x \in M1[q] <=> x \in M2[q] /\ x \in archived
    <3>1. Slice(narrowed[q], archived, x) <=> x \in archived
      BY <1>2 DEF Slice
    <3>2. Slice(Silent[q], archived, x)
      BY <1>1, <1>2 DEF Slice
    <3>3. \A c \in Level[q].conds : Holds(Rows, M1, c, x) <=> Holds(Rows \ {}, M2, c, x)
      BY <1>4, <2>1
    <3>4. QED
      BY <1>6, <2>1, <3>1, <3>2, <3>3 DEF MeetsOne
  <2>2. \A x \in M1[q] \cup M2[q] : x \in Rows /\ ModelOf[x] = Level[q].model
    BY <1>6 DEF MeetsOne
  <2>3. QED
    BY <2>1, <2>2
<1>10. \A x \in Rows \cap M1[q] : S1[q][x] = S2[q][x]
  BY <1>5, <1>6 DEF MeetsOne
<1>11. Answer(Rows, archived, narrowed, q)
         = {a \in Answer(Rows \ {}, archived, Silent, q) : a.row \in archived}
  BY <1>7, <1>8, <1>9, <1>10
<1>12. Rows \ {} = Rows
  OBVIOUS
<1>13. QED
  BY <1>11, <1>12 DEF narrowed

(* A list asked for without flags is the live world; with includeDeleted it *)
(* shows everything, archived rows reached through relations included; and  *)
(* with onlyDeleted the archived ones of that, whatever includeDeleted says:*)
(* the walker that runs last undoes nothing of what the bypass has put.     *)
THEOREM ListsShowTheirSlice ==
  FilterSpec => []ListSlices
<1>1. ASSUME ArchivedRows,
             NEW q \in Queries, NEW flags \in [includeDeleted : BOOLEAN, onlyDeleted : BOOLEAN]
      PROVE  LET all == Answer(Rows, archived, Silent, q)
                 deleted == {a \in all : a.row \in archived}
                 shown == Asked(q, StateFiltered(q, flags))
             IN CASE flags.onlyDeleted -> shown = deleted
                  [] flags.includeDeleted /\ ~flags.onlyDeleted -> shown = all
                  [] OTHER -> shown = Answer(Rows \ archived, {}, Silent, q)
  <2>1. flags.onlyDeleted \in BOOLEAN /\ flags.includeDeleted \in BOOLEAN
    OBVIOUS
  <2>2. CASE flags.onlyDeleted
    <3>1. Asked(q, StateFiltered(q, flags))
            = Answer(Rows, archived, [Silent EXCEPT ![q] = "set"], q)
      BY <2>2, BypassSeesAll DEF Narrowed
    <3>2. Asked(q, StateFiltered(q, flags))
            = {a \in Answer(Rows, archived, Silent, q) : a.row \in archived}
      BY <3>1, NarrowedIsDeleted
    <3>3. QED
      BY <2>2, <3>2
  <2>3. CASE flags.includeDeleted /\ ~flags.onlyDeleted
    <3>1. Asked(q, StateFiltered(q, flags)) = Answer(Rows, archived, Silent, q)
      BY <2>3, BypassSeesAll DEF Narrowed
    <3>2. QED
      BY <2>3, <3>1
  <2>4. CASE ~flags.onlyDeleted /\ ~flags.includeDeleted
    <3>1. StateFiltered(q, flags) = Silent
      BY <2>4 DEF StateFiltered
    <3>2. Asked(q, StateFiltered(q, flags)) = Answer(Rows \ archived, {}, Silent, q)
      BY <1>1, <3>1, SilentSeesTheLive
    <3>3. QED
      BY <2>4, <3>2
  <2>5. QED
    BY <2>1, <2>2, <2>3, <2>4
<1>2. ArchivedRows => ListSlices
  BY <1>1 DEF ListSlices
<1>3. QED
  BY <1>2, OnlyArchivable, PTL

-----------------------------------------------------------------------------
(***************************************************************************)
(* What the tables hold.                                                   *)
(*                                                                         *)
(* The rows of the tables have the columns of their tables: the invariant  *)
(* under which the reports are compared.                                   *)
(***************************************************************************)
TablesOK ==
  /\ church \in [Churches -> ChurchColumns]
  /\ member \in [Members -> MemberColumns]
  /\ campaign \in [Campaigns -> CampaignColumns]
  /\ item \in [Items -> ItemColumns]
  /\ pledge \in [Pledges -> PledgeColumns]
  /\ gift \in [Gifts -> GiftColumns]

LEMMA FiniteIds ==
  /\ IsFiniteSet(Churches) /\ IsFiniteSet(Members) /\ IsFiniteSet(Campaigns)
  /\ IsFiniteSet(Items) /\ IsFiniteSet(Pledges) /\ IsFiniteSet(Gifts)
BY TablesAssumption

(***************************************************************************)
(* What any finite set of gifts brings in is a natural number.             *)
(***************************************************************************)
LEMMA AmountType ==
  ASSUME TablesOK, NEW G \in SUBSET Gifts
  PROVE  IsFiniteSet(G) /\ Amount(G) \in Nat
<1>1. IsFiniteSet(G)
  BY FiniteIds, FS_Subset
<1> DEFINE f == [g \in Gifts |-> gift[g].amount]
<1>2. \A g \in G : f[g] \in Nat
  BY DEF TablesOK, GiftColumns
<1> HIDE DEF f
<1>3. SumFunctionOnSet(f, G) \in Nat
  BY <1>1, <1>2, SumNat
<1>4. QED
  BY <1>1, <1>3 DEF Amount, f

LEMMA ToggledType ==
  ASSUME NEW T, NEW K, NEW table, NEW x \in T,
         table \in [T -> K], [table[x] EXCEPT !.row = Other(@)] \in K
  PROVE  Toggled(table, x) \in [T -> K]
BY DEF Toggled

LEMMA TablesKept ==
  ASSUME TablesOK, TablesNext
  PROVE  TablesOK'
<1>1. ASSUME NEW t \in Churches, ChangeChurch(t)
      PROVE  TablesOK'
  <2>1. [church[t] EXCEPT !.row = Other(@)] \in ChurchColumns
    BY DEF TablesOK, ChurchColumns, Kept, Other
  <2>2. church' \in [Churches -> ChurchColumns]
    BY <1>1, <2>1, ToggledType DEF ChangeChurch, TablesOK
  <2>3. QED
    BY <1>1, <2>2 DEF ChangeChurch, TablesOK
<1>2. ASSUME NEW m \in Members, ChangeMember(m)
      PROVE  TablesOK'
  <2>1. [member[m] EXCEPT !.row = Other(@)] \in MemberColumns
    BY DEF TablesOK, MemberColumns, Kept, Other
  <2>2. member' \in [Members -> MemberColumns]
    BY <1>2, <2>1, ToggledType DEF ChangeMember, TablesOK
  <2>3. QED
    BY <1>2, <2>2 DEF ChangeMember, TablesOK
<1>3. ASSUME NEW c \in Campaigns, ChangeCampaign(c)
      PROVE  TablesOK'
  <2>1. [campaign[c] EXCEPT !.row = Other(@)] \in CampaignColumns
    BY DEF TablesOK, CampaignColumns, Kept, Other
  <2>2. campaign' \in [Campaigns -> CampaignColumns]
    BY <1>3, <2>1, ToggledType DEF ChangeCampaign, TablesOK
  <2>3. QED
    BY <1>3, <2>2 DEF ChangeCampaign, TablesOK
<1>4. ASSUME NEW i \in Items, ChangeItem(i)
      PROVE  TablesOK'
  <2>1. [item[i] EXCEPT !.row = Other(@)] \in ItemColumns
    BY DEF TablesOK, ItemColumns, Kept, Other
  <2>2. item' \in [Items -> ItemColumns]
    BY <1>4, <2>1, ToggledType DEF ChangeItem, TablesOK
  <2>3. QED
    BY <1>4, <2>2 DEF ChangeItem, TablesOK
<1>5. ASSUME NEW p \in Pledges, ChangePledge(p)
      PROVE  TablesOK'
  <2>1. [pledge[p] EXCEPT !.row = Other(@)] \in PledgeColumns
    BY DEF TablesOK, PledgeColumns, Kept, Other
  <2>2. pledge' \in [Pledges -> PledgeColumns]
    BY <1>5, <2>1, ToggledType DEF ChangePledge, TablesOK
  <2>3. QED
    BY <1>5, <2>2 DEF ChangePledge, TablesOK
<1>6. ASSUME NEW p \in Pledges, Settle(p)
      PROVE  TablesOK'
  <2>1. {g \in Gifts : gift[g].row = "live" /\ gift[g].pledge = p} \in SUBSET Gifts
    OBVIOUS
  <2>2. LiveSum(p) \in Nat
    BY <2>1, AmountType DEF LiveSum
  <2>3. [pledge[p] EXCEPT !.paid = LiveSum(p)] \in PledgeColumns
    BY <2>2 DEF TablesOK, PledgeColumns
  <2>4. pledge' = [pledge EXCEPT ![p] = [pledge[p] EXCEPT !.paid = LiveSum(p)]]
    BY <1>6 DEF Settle, TablesOK
  <2>5. pledge' \in [Pledges -> PledgeColumns]
    BY <2>3, <2>4 DEF TablesOK
  <2>6. QED
    BY <1>6, <2>5 DEF Settle, TablesOK
<1>7. ASSUME NEW g \in Gifts, ChangeGift(g)
      PROVE  TablesOK'
  <2>1. [gift[g] EXCEPT !.row = Other(@)] \in GiftColumns
    BY DEF TablesOK, GiftColumns, Kept, Other
  <2>2. gift' \in [Gifts -> GiftColumns]
    BY <1>7, <2>1, ToggledType DEF ChangeGift, TablesOK
  <2>3. QED
    BY <1>7, <2>2 DEF ChangeGift, TablesOK
<1>8. QED
  BY <1>1, <1>2, <1>3, <1>4, <1>5, <1>6, <1>7 DEF TablesNext

(* The tables keep their columns. *)
THEOREM TablesAreTyped == TablesSpec => []TablesOK
<1>1. TablesInit => TablesOK
  BY RowsAssumption DEF TablesInit, TablesOK, ChurchColumns, Kept
<1>2. TablesOK /\ [TablesNext]_tables => TablesOK'
  <2>1. CASE UNCHANGED tables
    BY <2>1 DEF tables, TablesOK
  <2>2. QED
    BY <2>1, TablesKept
<1>3. QED
  BY <1>1, <1>2, PTL DEF TablesSpec

(***************************************************************************)
(* Sorting.  A strict order on a finite set has an arrangement that puts   *)
(* nothing after what it comes before, so Sorted returns one.              *)
(***************************************************************************)
IsArranged(s, S, before) ==
  /\ s \in [1 .. Cardinality(S) -> S]
  /\ Range(s) = S
  /\ \A i, j \in DOMAIN s : i < j => <<s[j], s[i]>> \notin before

StrictOn(before, S) ==
  /\ \A x \in S : <<x, x>> \notin before
  /\ \A x, y, z \in S : <<x, y>> \in before /\ <<y, z>> \in before => <<x, z>> \in before

LEMMA LastElement ==
  ASSUME NEW S, IsFiniteSet(S), S # {}, NEW before, StrictOn(before, S)
  PROVE  \E x \in S : \A y \in S : <<x, y>> \notin before
<1> DEFINE After(x) == {y \in S : <<x, y>> \in before}
           B == {After(x) : x \in S}
<1>1. B # {} /\ B \subseteq SUBSET S
  OBVIOUS
<1> HIDE DEF B
<1>2. PICK T \in B : \A U \in B : ~(U \subseteq T /\ U # T)
  BY <1>1, MinimalSubset
<1> USE DEF B
<1>3. PICK x \in S : T = After(x)
  BY <1>2
<1>4. ASSUME NEW y \in S, <<x, y>> \in before
      PROVE  FALSE
  <2>1. After(y) \in B
    OBVIOUS
  <2>2. After(y) \subseteq After(x)
    BY <1>4 DEF StrictOn
  <2>3. y \in After(x) /\ y \notin After(y)
    BY <1>4 DEF StrictOn
  <2>4. QED
    BY <2>1, <2>2, <2>3, <1>2, <1>3
<1>5. QED
  BY <1>4

LEMMA SortedExists ==
  ASSUME NEW S, IsFiniteSet(S), NEW before, StrictOn(before, S)
  PROVE  \E s : IsArranged(s, S, before)
<1> DEFINE Bad == {T \in SUBSET S : ~ \E s : IsArranged(s, T, before)}
<1>1. SUFFICES ASSUME Bad # {} PROVE FALSE
  OBVIOUS
<1>2. PICK T \in Bad : \A U \in Bad : ~(U \subseteq T /\ U # T)
  <2>1. Bad \subseteq SUBSET S
    OBVIOUS
  <2> HIDE DEF Bad
  <2>2. QED
    BY <1>1, <2>1, MinimalSubset
<1>3. IsFiniteSet(T) /\ Cardinality(T) \in Nat /\ StrictOn(before, T)
  BY <1>2, FS_Subset, FS_CardinalityType DEF StrictOn
<1>4. T # {}
  <2>1. SUFFICES ASSUME T = {} PROVE FALSE
    OBVIOUS
  <2> DEFINE e == [i \in {} |-> i]
  <2>2. Cardinality({}) = 0
    BY FS_EmptySet
  <2>3. 1 .. 0 = {}
    OBVIOUS
  <2>4. e \in [1 .. Cardinality({}) -> {}]
    BY <2>2, <2>3
  <2>5. IsArranged(e, {}, before)
    BY <2>4 DEF IsArranged, Range
  <2>6. QED
    BY <1>2, <2>1, <2>5
<1>5. PICK x \in T : \A y \in T : <<x, y>> \notin before
  BY <1>3, <1>4, LastElement
<1> DEFINE R == T \ {x}
           n == Cardinality(T)
<1>6. Cardinality(R) = n - 1 /\ n \in Nat \ {0}
  BY <1>3, <1>4, FS_RemoveElement, FS_EmptySet
<1>7. PICK r : IsArranged(r, R, before)
  <2>1. R \notin Bad /\ R \in SUBSET S
    BY <1>2
  <2>2. QED
    BY <2>1
<1> DEFINE s == [i \in 1 .. n |-> IF i = n THEN x ELSE r[i]]
<1>8. r \in [1 .. n - 1 -> R] /\ Range(r) = R
  BY <1>6, <1>7 DEF IsArranged
<1> HIDE DEF n
<1>9. s \in [1 .. n -> T]
  BY <1>6, <1>8
<1>10. Range(s) = T
  <2>1. ASSUME NEW y \in T
        PROVE  \E i \in 1 .. n : s[i] = y
    <3>1. CASE y = x
      BY <3>1, <1>6
    <3>2. CASE y # x
      <4>1. PICK i \in 1 .. n - 1 : r[i] = y
        BY <3>2, <1>8 DEF Range
      <4>2. QED
        BY <4>1, <1>6
    <3>3. QED
      BY <3>1, <3>2
  <2>2. QED
    BY <2>1, <1>9 DEF Range
<1>11. ASSUME NEW i \in 1 .. n, NEW j \in 1 .. n, i < j
       PROVE  <<s[j], s[i]>> \notin before
  <2>1. i \in 1 .. n - 1 /\ s[i] = r[i] /\ r[i] \in T
    BY <1>6, <1>8, <1>11
  <2>2. CASE j = n
    BY <2>1, <2>2, <1>5
  <2>3. CASE j # n
    <3>1. j \in 1 .. n - 1 /\ s[j] = r[j]
      BY <2>3, <1>6
    <3>2. QED
      BY <2>1, <3>1, <1>7, <1>8, <1>11 DEF IsArranged
  <2>4. QED
    BY <2>2, <2>3
<1>12. IsArranged(s, T, before)
  <2>1. DOMAIN s = 1 .. n
    OBVIOUS
  <2> HIDE DEF s
  <2>2. QED
    BY <1>9, <1>10, <1>11, <2>1 DEF IsArranged, n
<1>13. QED
  BY <1>2, <1>12

(* A list of all of S has no element twice. *)
LEMMA SortedIsArranged ==
  ASSUME NEW S, IsFiniteSet(S), NEW before, StrictOn(before, S)
  PROVE  /\ IsArranged(Sorted(S, before), S, before)
         /\ Sorted(S, before) \in Seq(S)
         /\ Len(Sorted(S, before)) = Cardinality(S)
         /\ Cardinality(S) \in Nat
         /\ \A i, j \in 1 .. Cardinality(S) : Sorted(S, before)[i] = Sorted(S, before)[j] => i = j
<1> DEFINE s == Sorted(S, before)
<1>1. IsArranged(s, S, before)
  <2>1. s = CHOOSE a \in [1 .. Cardinality(S) -> S] :
              /\ Range(a) = S
              /\ \A i, j \in DOMAIN a : i < j => <<a[j], a[i]>> \notin before
    BY Zenon DEF Sorted
  <2>2. \E a \in [1 .. Cardinality(S) -> S] :
              /\ Range(a) = S
              /\ \A i, j \in DOMAIN a : i < j => <<a[j], a[i]>> \notin before
    BY SortedExists DEF IsArranged
  <2> HIDE DEF s
  <2>3. QED
    BY <2>1, <2>2, Zenon DEF IsArranged
<1>2. Cardinality(S) \in Nat
  BY FS_CardinalityType
<1> HIDE DEF s
<1>3. s \in [1 .. Cardinality(S) -> S] /\ Range(s) = S
  BY <1>1 DEF IsArranged
<1>4. s \in Seq(S) /\ Len(s) = Cardinality(S)
  BY <1>2, <1>3
<1>5. ASSUME NEW i \in 1 .. Cardinality(S), NEW j \in 1 .. Cardinality(S), s[i] = s[j]
      PROVE  i = j
  <2>1. s \in Surjection(1 .. Cardinality(S), S)
    BY <1>3 DEF Surjection, Range
  <2>2. IsFiniteSet(1 .. Cardinality(S)) /\ Cardinality(1 .. Cardinality(S)) = Cardinality(S)
    BY <1>2, FS_Interval
  <2>3. s \in Injection(1 .. Cardinality(S), S)
    BY <2>1, <2>2, FS_Surjection
  <2>4. QED
    BY <2>3, <1>5 DEF Injection, IsInjective
<1>6. QED
  BY <1>1, <1>2, <1>4, <1>5 DEF s

LEMMA MaxOfTwo ==
  ASSUME NEW a \in Int, NEW b \in Int
  PROVE  Max({a, b}) = IF a >= b THEN a ELSE b
<1>1. \E x \in {a, b} : \A y \in {a, b} : x >= y
  OBVIOUS
<1>2. Max({a, b}) \in {a, b} /\ \A y \in {a, b} : Max({a, b}) >= y
  BY <1>1 DEF Max
<1>3. QED
  BY <1>2

LEMMA MinOfTwo ==
  ASSUME NEW a \in Int, NEW b \in Int
  PROVE  Min({a, b}) = IF a <= b THEN a ELSE b
<1>1. \E x \in {a, b} : \A y \in {a, b} : x <= y
  OBVIOUS
<1>2. Min({a, b}) \in {a, b} /\ \A y \in {a, b} : Min({a, b}) <= y
  BY <1>1 DEF Min
<1>3. QED
  BY <1>2

LEMMA TopIs ==
  ASSUME NEW S, NEW s \in Seq(S), NEW limit \in Nat
  PROVE  LET n == IF limit <= Len(s) THEN limit ELSE Len(s)
         IN  /\ Len(Top(limit, s)) = n /\ n \in Nat
             /\ DOMAIN Top(limit, s) = 1 .. n
             /\ \A i \in 1 .. n : Top(limit, s)[i] = s[i]
<1> DEFINE n == IF limit <= Len(s) THEN limit ELSE Len(s)
<1>1. Min({limit, Len(s)}) = n /\ n \in Nat /\ n <= Len(s)
  BY MinOfTwo
<1>2. Top(limit, s) = SubSeq(s, 1, n)
  BY <1>1 DEF Top
<1> HIDE DEF n
<1>3. /\ Len(SubSeq(s, 1, n)) = n /\ DOMAIN SubSeq(s, 1, n) = 1 .. n
      /\ \A i \in 1 .. n : SubSeq(s, 1, n)[i] = s[i]
  BY <1>1
<1>4. QED
  BY <1>1, <1>2, <1>3 DEF n

(* A request that gives neither offset nor limit shows all the rows. *)
LEMMA WholePage ==
  ASSUME NEW S, NEW rows \in Seq(S), NEW total, NEW sum
  PROVE  /\ Page(rows, total, sum, None, None).items = rows
         /\ Page(rows, total, sum, None, None).total = total
         /\ Page(rows, total, sum, None, None).sum = sum
<1>1. Len(rows) \in Nat
  OBVIOUS
<1>2. Default(None, 0) = 0 /\ Default(None, Len(rows)) = Len(rows)
  BY DEF Default
<1>3. Min({Len(rows), 0 + Len(rows)}) = Len(rows)
  BY <1>1, MinOfTwo
<1>4. SubSeq(rows, 0 + 1, Len(rows)) = rows
  BY <1>1
<1>5. QED
  BY <1>2, <1>3, <1>4 DEF Page

(***************************************************************************)
(* Groups of gifts, and what they add up to.                               *)
(***************************************************************************)
LEMMA BucketIs ==
  ASSUME NEW G
  PROVE  Bucket(G).total = Amount(G) /\ Bucket(G).count = Cardinality(G)
BY DEF Bucket

LEMMA PartsAddUp ==
  ASSUME TablesOK, NEW G \in SUBSET Gifts, NEW K, IsFiniteSet(K), NEW key,
         \A g \in G : key[g] \in K,
         NEW groups, DOMAIN groups = K, \A k \in K : groups[k] = Bucket(Part(G, key, k))
  PROVE  AddsUp(groups, Bucket(G))
<1> DEFINE f == [g \in Gifts |-> gift[g].amount]
           h == [k \in K |-> groups[k].total]
           c == [k \in K |-> groups[k].count]
<1>1. IsFiniteSet(G)
  BY FiniteIds, FS_Subset
<1>2. IntOn(f, G)
  BY DEF TablesOK, GiftColumns, IntOn
<1>3. /\ \A k \in K : h[k] = SumFunctionOnSet(f, Part(G, key, k))
      /\ \A k \in K : c[k] = Cardinality(Part(G, key, k))
  <2>1. \A H : Amount(H) = SumFunctionOnSet(f, H)
    BY DEF Amount
  <2>2. \A k \in K : h[k] = Amount(Part(G, key, k)) /\ c[k] = Cardinality(Part(G, key, k))
    BY BucketIs
  <2> HIDE DEF f, h, c
  <2>3. QED
    BY <2>1, <2>2
<1> HIDE DEF h, c, f
<1>4. SumFunctionOnSet(h, K) = SumFunctionOnSet(f, G)
  BY <1>1, <1>2, <1>3, SumByKey
<1>5. SumFunctionOnSet(c, K) = Cardinality(G)
  BY <1>1, <1>3, SizeByKey
<1>6. SumOver(groups, "total") = SumFunctionOnSet(h, K) /\ SumOver(groups, "count") = SumFunctionOnSet(c, K)
  BY DEF SumOver, h, c
<1>7. Bucket(G).total = SumFunctionOnSet(f, G) /\ Bucket(G).count = Cardinality(G)
  BY DEF Bucket, Amount, f
<1>8. QED
  BY <1>4, <1>5, <1>6, <1>7 DEF AddsUp

LEMMA GroupsAddUp ==
  ASSUME TablesOK, NEW G \in SUBSET Gifts, NEW f
  PROVE  AddsUp(GroupBy(G, f), Bucket(G))
<1> DEFINE key == [g \in G |-> gift[g][f]]
           K == {gift[g][f] : g \in G}
<1>1. IsFiniteSet(K)
  <2>1. key \in Surjection(G, K)
    BY DEF Surjection
  <2>2. IsFiniteSet(G)
    BY FiniteIds, FS_Subset
  <2> HIDE DEF key, K
  <2>3. QED
    BY <2>1, <2>2, FS_Surjection
<1>2. \A k : {g \in G : gift[g][f] = k} = Part(G, key, k)
  BY DEF Part
<1>3. DOMAIN GroupBy(G, f) = K /\ \A k \in K : GroupBy(G, f)[k] = Bucket(Part(G, key, k))
  BY <1>2 DEF GroupBy
<1>4. \A g \in G : key[g] \in K
  OBVIOUS
<1> HIDE DEF K, key
<1>5. QED
  BY <1>1, <1>3, <1>4, PartsAddUp

(***************************************************************************)
(* Months.                                                                 *)
(***************************************************************************)
LEMMA Division ==
  ASSUME NEW D \in Nat \ {0}, NEW a \in Int, NEW b \in Int
  PROVE  /\ a \div D \in Int /\ (a * D) \div D = a /\ a * D \in Int
         /\ (a * D + D - 1) \div D = a
         /\ (a \div D) * D <= a /\ a <= (a \div D) * D + D - 1
         /\ a <= b => a \div D <= b \div D
OBVIOUS

LEMMA MonthArithmetic ==
  ASSUME NEW a \in Int, NEW b \in Int
  PROVE  /\ MonthOf(a) \in Int /\ MonthStart(a) \in Int /\ MonthEnd(a) \in Int
         /\ MonthOf(MonthStart(a)) = a /\ MonthOf(MonthEnd(a)) = a
         /\ MonthStart(MonthOf(a)) <= a /\ a <= MonthEnd(MonthOf(a))
         /\ a <= b => MonthOf(a) <= MonthOf(b)
<1>1. DaysPerMonth \in Nat \ {0}
  BY CalendarAssumption
<1>2. /\ a \div DaysPerMonth \in Int /\ a * DaysPerMonth \in Int
      /\ (a * DaysPerMonth) \div DaysPerMonth = a
      /\ (a * DaysPerMonth + DaysPerMonth - 1) \div DaysPerMonth = a
      /\ (a \div DaysPerMonth) * DaysPerMonth <= a
      /\ a <= (a \div DaysPerMonth) * DaysPerMonth + DaysPerMonth - 1
      /\ a <= b => a \div DaysPerMonth <= b \div DaysPerMonth
  BY <1>1, Division
<1>3. MonthEnd(a) \in Int
  BY <1>1, <1>2 DEF MonthEnd, MonthStart
<1>4. QED
  BY <1>2, <1>3 DEF MonthOf, MonthStart, MonthEnd

LEMMA MonthsBetweenIs ==
  ASSUME NEW from \in Int, NEW to \in Int
  PROVE  /\ IsFiniteSet(MonthsBetween(from, to))
         /\ \A d \in from .. to : MonthOf(d) \in MonthsBetween(from, to)
         /\ MonthOf(from) <= MonthOf(to) =>
              /\ MonthsBetween(from, to) = MonthOf(from) .. MonthOf(to)
              /\ Cardinality(MonthsBetween(from, to)) = MonthOf(to) - MonthOf(from) + 1
<1> DEFINE a == MonthOf(from)
           b == MonthOf(to)
           n == IF 0 >= b - a THEN 0 ELSE b - a
<1>1. a \in Int /\ b \in Int
  BY MonthArithmetic
<1>2. MonthsBetween(from, to) = a .. (a + n)
  <2> HIDE DEF a, b
  <2>1. Max({0, b - a}) = n
    BY <1>1, MaxOfTwo
  <2>2. QED
    BY <2>1 DEF MonthsBetween, a, b
<1>3. \A d \in from .. to : MonthOf(d) \in Int /\ a <= MonthOf(d) /\ MonthOf(d) <= b
  BY MonthArithmetic
<1> HIDE DEF a, b
<1>4. \A d \in from .. to : MonthOf(d) \in a .. (a + n)
  BY <1>1, <1>3
<1> DEFINE e == a + n
<1>5. e \in Int /\ (a <= b => e = b)
  BY <1>1
<1>6. MonthsBetween(from, to) = a .. e /\ \A d \in from .. to : MonthOf(d) \in a .. e
  BY <1>2, <1>4
<1> HIDE DEF e
<1>7. IsFiniteSet(a .. e) /\ (a <= e => Cardinality(a .. e) = e - a + 1)
  BY <1>1, <1>5, FS_Interval
<1>8. a <= b => a .. e = a .. b /\ Cardinality(a .. e) = b - a + 1
  BY <1>1, <1>5, <1>7
<1>9. QED
  BY <1>6, <1>7, <1>8 DEF a, b

LEMMA SeriesAddsUp ==
  ASSUME TablesOK, NEW G \in SUBSET Gifts, NEW from \in Int, NEW to \in Int,
         \A g \in G : gift[g].day \in from .. to
  PROVE  AddsUp(Series(G, from, to), Bucket(G))
<1> DEFINE key == [g \in G |-> MonthOf(gift[g].day)]
           K == MonthsBetween(from, to)
<1>1. IsFiniteSet(K) /\ \A g \in G : key[g] \in K
  BY MonthsBetweenIs
<1>2. \A k : {g \in G : MonthOf(gift[g].day) = k} = Part(G, key, k)
  BY DEF Part
<1>3. /\ DOMAIN Series(G, from, to) = K
      /\ \A k \in K : Series(G, from, to)[k] = Bucket(Part(G, key, k))
  BY <1>2 DEF Series
<1> HIDE DEF K, key
<1>4. QED
  BY <1>1, <1>3, PartsAddUp

LEMMA DaysAreInt ==
  ASSUME TablesOK
  PROVE  /\ Days \subseteq Int
         /\ \A g \in Gifts : gift[g].day \in Int /\ gift[g].day \in AllTime
         /\ \A p \in Pledges : pledge[p].day \in Int
         /\ AllTime \subseteq Int
<1>1. AllTime \subseteq Int
  BY CalendarAssumption DEF AllTime
<1>2. \A g \in Gifts : gift[g].day \in AllTime
  BY DEF TablesOK, GiftColumns
<1>3. \A p \in Pledges : pledge[p].day \in AllTime
  BY DEF TablesOK, PledgeColumns
<1>4. QED
  BY <1>1, <1>2, <1>3, CalendarAssumption DEF Days

LEMMA SummariesAgree ==
  ASSUME TablesOK, NEW w, w.from \in Int, w.to \in Int
  PROVE  SummaryAgrees(w)
<1> DEFINE G == Matching(w)
<1>1. G \in SUBSET Gifts /\ \A g \in G : gift[g].day \in w.from .. w.to
  BY DEF Matching
<1>2. /\ Summary(w, TRUE).all = Bucket(G)
      /\ Summary(w, TRUE).byType = GroupBy(G, "type")
      /\ Summary(w, TRUE).byCampaign = GroupBy(G, "campaign")
      /\ Summary(w, TRUE).byMonth = Series(G, w.from, w.to)
  BY DEF Summary
<1> HIDE DEF G
<1>3. /\ AddsUp(GroupBy(G, "type"), Bucket(G))
      /\ AddsUp(GroupBy(G, "campaign"), Bucket(G))
  BY <1>1, GroupsAddUp
<1>4. AddsUp(Series(G, w.from, w.to), Bucket(G))
  BY <1>1, SeriesAddsUp
<1>5. List(w) = Bucket(G)
  BY DEF List, G
<1>6. QED
  BY <1>2, <1>3, <1>4, <1>5 DEF SummaryAgrees

(***************************************************************************)
(* Some of the gifts and the others make up all of them.                   *)
(***************************************************************************)
LEMMA AmountSplit ==
  ASSUME TablesOK, NEW G \in SUBSET Gifts, NEW N \in SUBSET G
  PROVE  /\ Amount(G) = Amount(N) + Amount(G \ N)
         /\ Cardinality(G) = Cardinality(N) + Cardinality(G \ N)
         /\ Amount(N) \in Nat /\ Amount(G \ N) \in Nat
         /\ Cardinality(N) \in Nat /\ Cardinality(G \ N) \in Nat
<1> DEFINE f == [g \in Gifts |-> gift[g].amount]
           A == G \ N
<1>1. /\ IsFiniteSet(G) /\ IsFiniteSet(N) /\ IsFiniteSet(A)
      /\ A \in SUBSET G /\ N \cap A = {} /\ N \cup A = G
  BY FiniteIds, FS_Subset
<1>2. IntOn(f, G) /\ \A H : Amount(H) = SumFunctionOnSet(f, H)
  BY DEF TablesOK, GiftColumns, IntOn, Amount
<1>3. Amount(N) \in Nat /\ Amount(A) \in Nat
  BY AmountType
<1>4. Cardinality(N) \in Nat /\ Cardinality(A) \in Nat
  BY <1>1, FS_CardinalityType
<1> HIDE DEF f, A
<1>5. SumFunctionOnSet(f, N \cup A) = SumFunctionOnSet(f, N) + SumFunctionOnSet(f, A)
  BY <1>1, <1>2, SumUnion
<1>6. Cardinality(N \cup A) = Cardinality(N) + Cardinality(A) - Cardinality(N \cap A)
  BY <1>1, FS_Union
<1>7. Cardinality(N \cap A) = 0
  BY <1>1, FS_EmptySet
<1>8. QED
  BY <1>1, <1>2, <1>3, <1>4, <1>5, <1>6, <1>7 DEF A

(***************************************************************************)
(* The ranking is the first part of an order of all the givers.            *)
(***************************************************************************)
GiverTotals(t, from, to) == GroupBy(Named(t, from, to), "member")

LEMMA NamedIs ==
  ASSUME TablesOK, NEW t, NEW from, NEW to
  PROVE  /\ Named(t, from, to) \in SUBSET Gifts
         /\ \A g \in Named(t, from, to) : gift[g].member \in Members /\ gift[g].day \in from .. to
         /\ DOMAIN GiverTotals(t, from, to) = {gift[g].member : g \in Named(t, from, to)}
         /\ DOMAIN GiverTotals(t, from, to) \subseteq Members
         /\ IsFiniteSet(DOMAIN GiverTotals(t, from, to))
         /\ \A m \in DOMAIN GiverTotals(t, from, to) :
              /\ GiverTotals(t, from, to)[m] = Bucket({g \in Named(t, from, to) : gift[g].member = m})
              /\ GiverTotals(t, from, to)[m].total \in Nat
<1> DEFINE N == Named(t, from, to)
<1>1. N \in SUBSET Gifts /\ \A g \in N : gift[g].member # None /\ gift[g].day \in from .. to
  BY DEF Named, Matching, Window
<1>2. \A g \in N : gift[g].member \in Members
  BY <1>1 DEF TablesOK, GiftColumns
<1> HIDE DEF N
<1>3. /\ DOMAIN GroupBy(N, "member") = {gift[g].member : g \in N}
      /\ \A m \in DOMAIN GroupBy(N, "member") :
           GroupBy(N, "member")[m] = Bucket({g \in N : gift[g].member = m})
  BY DEF GroupBy
<1>4. {gift[g].member : g \in N} \subseteq Members /\ IsFiniteSet({gift[g].member : g \in N})
  <2>1. {gift[g].member : g \in N} \subseteq Members
    BY <1>2
  <2>2. QED
    BY <2>1, FiniteIds, FS_Subset
<1>5. ASSUME NEW m
      PROVE  Bucket({g \in N : gift[g].member = m}).total \in Nat
  <2>1. {g \in N : gift[g].member = m} \in SUBSET Gifts
    BY <1>1
  <2>2. QED
    BY <2>1, AmountType, BucketIs
<1>6. QED
  BY <1>1, <1>2, <1>3, <1>4, <1>5 DEF GiverTotals, N

RankedAs(s, t, from, to) ==
  LET totals == GiverTotals(t, from, to)
      n == Cardinality(DOMAIN totals)
  IN  /\ s \in [1 .. n -> DOMAIN totals] /\ Range(s) = DOMAIN totals
      /\ \A i, j \in 1 .. n : s[i] = s[j] => i = j
      /\ \A i, j \in 1 .. n : i < j => totals[s[i]].total >= totals[s[j]].total

LEMMA RankingIs ==
  ASSUME TablesOK, NEW t, NEW from, NEW to, NEW limit \in Nat
  PROVE  LET k == Cardinality(DOMAIN GiverTotals(t, from, to))
             n == IF limit <= k THEN limit ELSE k
         IN  /\ k \in Nat
             /\ \E s : /\ RankedAs(s, t, from, to)
                       /\ Len(Ranking(t, from, to, limit)) = n
                       /\ DOMAIN Ranking(t, from, to, limit) = 1 .. n
                       /\ \A i \in 1 .. n : Ranking(t, from, to, limit)[i] = s[i]
<1> DEFINE totals == GiverTotals(t, from, to)
           givers == DOMAIN totals
           more == {two \in givers \X givers : totals[two[1]].total > totals[two[2]].total}
           s == Sorted(givers, more)
           k == Cardinality(givers)
           n == IF limit <= k THEN limit ELSE k
<1>1. IsFiniteSet(givers) /\ \A m \in givers : totals[m].total \in Nat
  BY NamedIs
<1>2. \A x, y \in givers : <<x, y>> \in more <=> totals[x].total > totals[y].total
  BY Zenon
<1>3. StrictOn(more, givers)
  <2> HIDE DEF more, givers, totals
  <2>1. QED
    BY <1>1, <1>2 DEF StrictOn
<1>4. Ranking(t, from, to, limit) = Top(limit, s)
  BY DEF Ranking, GiverTotals
<1> HIDE DEF more, givers, totals
<1>5. /\ IsArranged(s, givers, more) /\ s \in Seq(givers) /\ Len(s) = k /\ k \in Nat
      /\ \A i, j \in 1 .. k : s[i] = s[j] => i = j
  BY <1>1, <1>3, SortedIsArranged
<1> HIDE DEF s
<1>6. /\ s \in [1 .. k -> givers] /\ Range(s) = givers
      /\ \A i, j \in 1 .. k : i < j => <<s[j], s[i]>> \notin more
  BY <1>5 DEF IsArranged
<1>7. \A i, j \in 1 .. k : i < j => totals[s[i]].total >= totals[s[j]].total
  <2>1. ASSUME NEW i \in 1 .. k, NEW j \in 1 .. k, i < j
        PROVE  totals[s[i]].total >= totals[s[j]].total
    <3>1. s[i] \in givers /\ s[j] \in givers /\ <<s[j], s[i]>> \notin more
      BY <1>6, <2>1
    <3>2. QED
      BY <3>1, <1>1, <1>2
  <2>2. QED
    BY <2>1
<1>8. RankedAs(s, t, from, to)
  BY <1>5, <1>6, <1>7 DEF RankedAs, totals, givers
<1>9. /\ Len(Top(limit, s)) = n /\ DOMAIN Top(limit, s) = 1 .. n
      /\ \A i \in 1 .. n : Top(limit, s)[i] = s[i]
  BY <1>5, TopIs
<1>10. QED
  BY <1>4, <1>5, <1>8, <1>9 DEF givers, totals

LEMMA GiversAddUp ==
  ASSUME TablesOK, NEW t, NEW from, NEW to,
         NEW rows, rows = Givers(t, from, to, Cardinality(Members))
  PROVE  AddsUp([i \in DOMAIN rows |-> rows[i].all], Bucket(Named(t, from, to)))
<1> DEFINE N == Named(t, from, to)
           k == Cardinality(DOMAIN GiverTotals(t, from, to))
           ranked == Ranking(t, from, to, Cardinality(Members))
<1>1. k \in Nat /\ k <= Cardinality(Members) /\ Cardinality(Members) \in Nat
  BY NamedIs, FiniteIds, FS_Subset, FS_CardinalityType
<1>2. PICK s : /\ RankedAs(s, t, from, to) /\ Len(ranked) = k
               /\ \A i \in 1 .. k : ranked[i] = s[i]
  <2> HIDE DEF ranked
  <2>1. \E s : /\ RankedAs(s, t, from, to)
               /\ Len(ranked) = IF Cardinality(Members) <= k THEN Cardinality(Members) ELSE k
               /\ \A i \in 1 .. (IF Cardinality(Members) <= k THEN Cardinality(Members) ELSE k) :
                    ranked[i] = s[i]
    BY <1>1, RankingIs DEF ranked
  <2>2. (IF Cardinality(Members) <= k THEN Cardinality(Members) ELSE k) = k
    BY <1>1
  <2>3. QED
    BY <2>1, <2>2
<1> DEFINE groups == [i \in DOMAIN rows |-> rows[i].all]
           key == [g \in N |-> CHOOSE i \in 1 .. k : s[i] = gift[g].member]
<1>3. \A g \in N : key[g] \in 1 .. k /\ s[key[g]] = gift[g].member
  <2>1. ASSUME NEW g \in N
        PROVE  \E i \in 1 .. k : s[i] = gift[g].member
    <3>1. gift[g].member \in DOMAIN GiverTotals(t, from, to)
      <4>1. DOMAIN GiverTotals(t, from, to) = {gift[h].member : h \in Named(t, from, to)}
        BY NamedIs
      <4>2. QED
        BY <4>1
    <3>2. gift[g].member \in Range(s) /\ DOMAIN s = 1 .. k
      BY <3>1, <1>2 DEF RankedAs
    <3>3. QED
      BY <3>2 DEF Range
  <2>2. QED
    BY <2>1
<1>4. \A g \in N, i \in 1 .. k : key[g] = i <=> gift[g].member = s[i]
  <2>1. \A i, j \in 1 .. k : s[i] = s[j] => i = j
    BY <1>2 DEF RankedAs
  <2> HIDE DEF key, N
  <2>2. QED
    BY <2>1, <1>3
<1>5. DOMAIN groups = 1 .. k /\ \A i \in 1 .. k : groups[i] = Bucket(Part(N, key, i))
  <2>1. DOMAIN rows = 1 .. k /\ \A i \in 1 .. k : rows[i] = GiverRow(t, from, to, s[i])
    BY <1>2 DEF Givers
  <2>2. \A m : GiverRow(t, from, to, m).all = Bucket({g \in N : gift[g].member = m})
    BY DEF GiverRow
  <2>3. \A i \in 1 .. k : {g \in N : gift[g].member = s[i]} = Part(N, key, i)
    <3> HIDE DEF key, N
    <3>1. QED
      BY <1>4 DEF Part
  <2> HIDE DEF N, key, k
  <2>4. QED
    BY <2>1, <2>2, <2>3
<1>6. N \in SUBSET Gifts /\ IsFiniteSet(1 .. k)
  <2>1. N \in SUBSET Gifts
    BY NamedIs
  <2>2. IsFiniteSet(1 .. k)
    BY <1>1, FS_Interval
  <2>3. QED
    BY <2>1, <2>2
<1> HIDE DEF groups, key, N, k
<1>7. AddsUp(groups, Bucket(N))
  <2>1. \A g \in N : key[g] \in 1 .. k
    BY <1>3
  <2>2. QED
    BY <2>1, <1>5, <1>6, PartsAddUp
<1>8. QED
  BY <1>7 DEF groups, N

LEMMA GiverRowAddsUp ==
  ASSUME TablesOK, NEW t, NEW from \in Int, NEW to \in Int, NEW m,
         NEW x, x = GiverRow(t, from, to, m)
  PROVE  AddsUp(x.byType, x.all) /\ AddsUp(x.byCampaign, x.all) /\ AddsUp(x.monthly, x.all)
<1> DEFINE G == {g \in Named(t, from, to) : gift[g].member = m}
<1>1. G \in SUBSET Gifts /\ \A g \in G : gift[g].day \in from .. to
  BY NamedIs
<1>2. /\ x.all = Bucket(G) /\ x.byType = GroupBy(G, "type")
      /\ x.byCampaign = GroupBy(G, "campaign") /\ x.monthly = Series(G, from, to)
  BY DEF GiverRow
<1> HIDE DEF G
<1>3. QED
  BY <1>1, <1>2, GroupsAddUp, SeriesAddsUp

(* Whoever leads has given at least as much as whoever does not. *)
LEMMA LeadersLead ==
  ASSUME TablesOK, NEW t, NEW from, NEW to,
         NEW n \in 1 .. Cardinality(DOMAIN GiverTotals(t, from, to))
  PROVE  /\ Cardinality(Range(Ranking(t, from, to, n))) = n
         /\ \A m \in Range(Ranking(t, from, to, n)),
               o \in DOMAIN GiverTotals(t, from, to) \ Range(Ranking(t, from, to, n)) :
              GiverTotals(t, from, to)[m].total >= GiverTotals(t, from, to)[o].total
<1> DEFINE totals == GiverTotals(t, from, to)
           k == Cardinality(DOMAIN totals)
           r == Ranking(t, from, to, n)
<1>1. k \in Nat /\ n \in Nat /\ n <= k
  BY RankingIs
<1>2. PICK s : /\ RankedAs(s, t, from, to) /\ DOMAIN r = 1 .. n
               /\ \A i \in 1 .. n : r[i] = s[i]
  <2> HIDE DEF r
  <2>1. \E s : /\ RankedAs(s, t, from, to) /\ DOMAIN r = 1 .. (IF n <= k THEN n ELSE k)
               /\ \A i \in 1 .. (IF n <= k THEN n ELSE k) : r[i] = s[i]
    BY <1>1, RankingIs DEF r
  <2>2. (IF n <= k THEN n ELSE k) = n
    BY <1>1
  <2>3. QED
    BY <2>1, <2>2
<1>3. /\ s \in [1 .. k -> DOMAIN totals] /\ Range(s) = DOMAIN totals
      /\ \A i, j \in 1 .. k : s[i] = s[j] => i = j
      /\ \A i, j \in 1 .. k : i < j => totals[s[i]].total >= totals[s[j]].total
  BY <1>2 DEF RankedAs
<1> HIDE DEF k, totals, r
<1>4. Range(r) = ImageOf(s, 1 .. n)
  BY <1>2 DEF Range, ImageOf
<1>5. Cardinality(Range(r)) = n
  <2>1. IsFiniteSet(1 .. n) /\ Cardinality(1 .. n) = n
    BY <1>1, FS_Interval
  <2>2. \A i, j \in 1 .. n : s[i] = s[j] => i = j
    BY <1>1, <1>3
  <2>3. QED
    BY <2>1, <2>2, <1>4, SizeImage
<1>6. ASSUME NEW m \in Range(r), NEW o \in DOMAIN totals \ Range(r)
      PROVE  totals[m].total >= totals[o].total
  <2>1. PICK i \in 1 .. n : m = s[i]
    BY <1>4 DEF ImageOf
  <2>2. PICK j \in 1 .. k : o = s[j]
    BY <1>3 DEF Range
  <2>3. j \notin 1 .. n
    BY <2>2, <1>4 DEF ImageOf
  <2>4. i \in 1 .. k /\ i < j
    BY <2>1, <2>2, <2>3, <1>1
  <2>5. QED
    BY <2>1, <2>2, <2>4, <1>3
<1>7. QED
  BY <1>5, <1>6 DEF r, totals

LEMMA NothingIsZero ==
  Bucket({}) = [total |-> 0, count |-> 0]
<1>1. Amount({}) = 0 /\ Cardinality({}) = 0
  BY SumEmpty, FS_EmptySet DEF Amount
<1>2. QED
  BY <1>1 DEF Bucket

LEMMA UnattributedIs ==
  ASSUME TablesOK, NEW t, NEW from, NEW to
  PROVE  LET all == Summary(Window(t, from, to), FALSE)
             gone == Unattributed(t, from, to)
         IN  /\ Bucket(Named(t, from, to)).total = all.all.total - gone.anonymous.total
             /\ Bucket(Named(t, from, to)).count = all.all.count - gone.anonymous.count
             /\ gone.noCampaign = In(all.byCampaign, None)
<1> DEFINE G == Matching(Window(t, from, to))
           N == Named(t, from, to)
           all == Summary(Window(t, from, to), FALSE)
           gone == Unattributed(t, from, to)
<1>1. G \in SUBSET Gifts
  BY DEF Matching
<1>2. N \in SUBSET G /\ {g \in G : gift[g].member = None} = G \ N
  BY DEF Named
<1>3. /\ all.all = Bucket(G) /\ all.byCampaign = GroupBy(G, "campaign")
      /\ gone.anonymous = Bucket(G \ N)
      /\ gone.noCampaign = Bucket({g \in G : gift[g].campaign = None})
  <2>1. gone.anonymous = Bucket({g \in G : gift[g].member = None})
    BY DEF Unattributed
  <2>2. QED
    BY <2>1, <1>2 DEF Unattributed, Summary
<1> HIDE DEF G, N, all, gone
<1>4. /\ Amount(G) = Amount(N) + Amount(G \ N)
      /\ Cardinality(G) = Cardinality(N) + Cardinality(G \ N)
      /\ Amount(N) \in Nat /\ Amount(G \ N) \in Nat
      /\ Cardinality(N) \in Nat /\ Cardinality(G \ N) \in Nat
  BY <1>1, <1>2, AmountSplit
<1>5. /\ Bucket(N).total = all.all.total - gone.anonymous.total
      /\ Bucket(N).count = all.all.count - gone.anonymous.count
  BY <1>3, <1>4, BucketIs
<1>6. gone.noCampaign = In(all.byCampaign, None)
  <2> DEFINE groups == GroupBy(G, "campaign")
  <2>1. /\ DOMAIN groups = {gift[g].campaign : g \in G}
        /\ \A k \in DOMAIN groups : groups[k] = Bucket({g \in G : gift[g].campaign = k})
    BY DEF GroupBy
  <2> HIDE DEF groups
  <2>2. CASE None \in DOMAIN groups
    BY <2>1, <2>2, <1>3 DEF In, groups
  <2>3. CASE None \notin DOMAIN groups
    <3>1. {g \in G : gift[g].campaign = None} = {}
      BY <2>1, <2>3
    <3>2. QED
      BY <3>1, <2>3, <1>3, NothingIsZero DEF In, groups
  <2>4. QED
    BY <2>2, <2>3
<1>7. QED
  BY <1>5, <1>6 DEF N, all, gone

LEMMA GiversAgreeHere ==
  ASSUME TablesOK, NEW t, NEW from \in Int, NEW to \in Int
  PROVE  GiversAgree(t, from, to)
<1> DEFINE all == Summary(Window(t, from, to), FALSE)
           gone == Unattributed(t, from, to)
           totals == GroupBy(Named(t, from, to), "member")
           rows == Givers(t, from, to, Cardinality(Members))
           N == Named(t, from, to)
<1>1. AddsUp([i \in DOMAIN rows |-> rows[i].all], Bucket(N))
  BY GiversAddUp
<1>2. /\ Bucket(N).total = all.all.total - gone.anonymous.total
      /\ Bucket(N).count = all.all.count - gone.anonymous.count
      /\ gone.noCampaign = In(all.byCampaign, None)
  BY UnattributedIs
<1>3. ASSUME NEW x \in Range(rows)
      PROVE  AddsUp(x.byType, x.all) /\ AddsUp(x.byCampaign, x.all) /\ AddsUp(x.monthly, x.all)
  <2>1. PICK i \in DOMAIN rows : x = rows[i]
    BY DEF Range
  <2>2. x = GiverRow(t, from, to, Ranking(t, from, to, Cardinality(Members))[i])
    BY <2>1 DEF Givers
  <2>3. QED
    BY <2>2, GiverRowAddsUp
<1>4. totals = GiverTotals(t, from, to)
  BY DEF GiverTotals
<1> HIDE DEF all, gone, totals, rows, N
<1>5. AddsUp([i \in DOMAIN rows |-> rows[i].all],
             [total |-> all.all.total - gone.anonymous.total,
              count |-> all.all.count - gone.anonymous.count])
  BY <1>1, <1>2 DEF AddsUp
<1>6. ASSUME NEW n \in 1 .. Cardinality(DOMAIN totals)
      PROVE  LET leading == Range(Ranking(t, from, to, n))
             IN  /\ Cardinality(leading) = n
                 /\ \A m \in leading, o \in DOMAIN totals \ leading : totals[m].total >= totals[o].total
  BY <1>4, LeadersLead
<1>7. QED
  BY <1>2, <1>3, <1>5, <1>6 DEF GiversAgree, all, gone, totals, rows

(* "Keeps the summary card and the table next to it from diverging": for any *)
(* gifts, window and archive filter, the list, the summary, its parts and    *)
(* the givers report agree.                                                  *)
THEOREM GiftReportsStayInAgreement == TablesSpec => []GiftReportsAgree
<1>1. TablesOK => GiftReportsAgree
  <2>1. SUFFICES ASSUME TablesOK, NEW t \in Churches, NEW from \in Days, NEW to \in Days
                 PROVE  /\ \A state \in {"live", "archived", "all"} :
                             SummaryAgrees([Window(t, from, to) EXCEPT !.state = state])
                        /\ GiversAgree(t, from, to)
    BY DEF GiftReportsAgree
  <2>2. from \in Int /\ to \in Int
    BY <2>1, DaysAreInt
  <2>3. ASSUME NEW state
        PROVE  SummaryAgrees([Window(t, from, to) EXCEPT !.state = state])
    <3> DEFINE w == [Window(t, from, to) EXCEPT !.state = state]
    <3>1. w.from = from /\ w.to = to
      BY DEF Window
    <3> HIDE DEF w
    <3>2. SummaryAgrees(w)
      BY <2>1, <2>2, <3>1, SummariesAgree
    <3>3. QED
      BY <3>2 DEF w
  <2>4. GiversAgree(t, from, to)
    BY <2>1, <2>2, GiversAgreeHere
  <2>5. QED
    BY <2>3, <2>4
<1>2. QED
  BY <1>1, TablesAreTyped, PTL

(***************************************************************************)
(* The figures of the churches and of the platform.                        *)
(***************************************************************************)
LEMMA TenantListIs ==
  ASSUME TablesOK
  PROVE  /\ DOMAIN TenantList("all") = Churches
         /\ \A t \in Churches : TenantList("all")[t] = TenantRow(t)
         /\ DOMAIN TenantList("live") = {t \in Churches : church[t].row = "live"}
<1>1. \A t \in Churches : church[t].row \in {"live", "archived"}
  BY DEF TablesOK, ChurchColumns, Kept
<1>2. \A t \in Churches : InState(church[t].row, "all")
  BY <1>1 DEF InState
<1>3. \A t \in Churches : InState(church[t].row, "live") <=> church[t].row = "live"
  BY <1>1 DEF InState
<1>4. QED
  BY <1>2, <1>3 DEF TenantList

LEMMA PeopleAddUp ==
  ASSUME TablesOK
  PROVE  LET rows == TenantList("all")
         IN  /\ SumOver(rows, "memberCount") = PlatformStats.totalMembers
             /\ SumOver(rows, "adminCount") = PlatformStats.totalAdmins
             /\ Cardinality(DOMAIN TenantList("live")) = PlatformStats.totalTenants
<1> DEFINE rows == TenantList("all")
           people == {m \in Members : member[m].row = "live"}
           admins == Admins(people)
           key == [m \in Members |-> member[m].church]
           h == [t \in DOMAIN rows |-> rows[t]["memberCount"]]
           a == [t \in DOMAIN rows |-> rows[t]["adminCount"]]
<1>1. /\ IsFiniteSet(people) /\ IsFiniteSet(admins)
      /\ \A m \in people : key[m] \in Churches
      /\ \A m \in admins : key[m] \in Churches
  BY FiniteIds, FS_Subset DEF TablesOK, MemberColumns, Admins
<1>2. \A t : PeopleOf(t) = Part(people, key, t) /\ Admins(PeopleOf(t)) = Part(admins, key, t)
  BY DEF PeopleOf, Admins, Part
<1>3. \A t : TenantRow(t).memberCount = Cardinality(PeopleOf(t))
             /\ TenantRow(t).adminCount = Cardinality(Admins(PeopleOf(t)))
  BY DEF TenantRow
<1>4. /\ \A t \in Churches : h[t] = Cardinality(Part(people, key, t))
      /\ \A t \in Churches : a[t] = Cardinality(Part(admins, key, t))
  <2>1. \A t \in Churches : h[t] = TenantRow(t).memberCount /\ a[t] = TenantRow(t).adminCount
    BY TenantListIs
  <2> HIDE DEF people, admins, key, h, a
  <2>2. QED
    BY <2>1, <1>2, <1>3
<1>5. SumOver(rows, "memberCount") = SumFunctionOnSet(h, Churches)
      /\ SumOver(rows, "adminCount") = SumFunctionOnSet(a, Churches)
  BY TenantListIs DEF SumOver
<1>6. /\ PlatformStats.totalMembers = Cardinality(people)
      /\ PlatformStats.totalAdmins = Cardinality(admins)
      /\ PlatformStats.totalTenants = Cardinality({t \in Churches : church[t].row = "live"})
  BY DEF PlatformStats
<1> HIDE DEF people, admins, key, h, a, rows
<1>7. SumFunctionOnSet(h, Churches) = Cardinality(people)
  BY <1>1, <1>4, FiniteIds, SizeByKey
<1>8. SumFunctionOnSet(a, Churches) = Cardinality(admins)
  BY <1>1, <1>4, FiniteIds, SizeByKey
<1>9. QED
  BY <1>5, <1>6, <1>7, <1>8, TenantListIs DEF rows

LEMMA OwnSummaryAgrees ==
  ASSUME TablesOK, NEW t \in Churches
  PROVE  LET mine == MyChurchSummary(t)
         IN  /\ {g \in GiftsOf(t) : gift[g].row = "live" /\ gift[g].day > Today} = {}
                  => mine.thisMonth = TenantList("all")[t].giftsMtd
             /\ AddsUp(mine.byTypeThisMonth, mine.thisMonth)
             /\ mine.thisMonth.total <= mine.yearToDate.total
<1> DEFINE start == MonthStart(MonthOf(Today))
           M == Matching(Window(t, start, Today))
           Y == Matching(Window(t, YearStart(Today), Today))
<1>1. M \in SUBSET Gifts /\ Y \in SUBSET Gifts
  BY DEF Matching
<1>2. /\ MyChurchSummary(t).thisMonth = Bucket(M)
      /\ MyChurchSummary(t).byTypeThisMonth = GroupBy(M, "type")
      /\ MyChurchSummary(t).yearToDate = Bucket(Y)
  BY DEF MyChurchSummary, Summary
<1>3. start \in Int /\ YearStart(Today) \in Int /\ YearStart(Today) <= start /\ Today \in Int
  <2> DEFINE m == MonthOf(Today)
             y == (m \div MonthsPerYear) * MonthsPerYear
  <2>1. m \in Int /\ start \in Int /\ Today \in Int /\ DaysPerMonth \in Nat \ {0}
    BY MonthArithmetic, CalendarAssumption
  <2> HIDE DEF m
  <2>2. y \in Int /\ y <= m
    BY <2>1, Division, CalendarAssumption
  <2> HIDE DEF y
  <2>3. y * DaysPerMonth \in Int /\ y * DaysPerMonth <= m * DaysPerMonth
    BY <2>1, <2>2
  <2>4. QED
    BY <2>1, <2>3 DEF YearStart, MonthStart, m, y
<1> DEFINE live(g) == g \in Gifts /\ gift[g].row = "live" /\ gift[g].church = t
<1>4. \A from, to : \A g : g \in Matching(Window(t, from, to)) <=> live(g) /\ gift[g].day \in from .. to
  <2>1. \A g \in Gifts : InState(gift[g].row, "live") <=> gift[g].row = "live"
    BY DEF InState
  <2>2. QED
    BY <2>1 DEF Matching, Window
<1>5. \A g \in Gifts : gift[g].day \in Int
  BY DaysAreInt
<1> HIDE DEF start
<1>6. ASSUME {g \in GiftsOf(t) : gift[g].row = "live" /\ gift[g].day > Today} = {}
      PROVE  Bucket(M) = TenantList("all")[t].giftsMtd
  <2>1. M = {g \in GiftsOf(t) : gift[g].row = "live" /\ gift[g].day >= start}
    BY <1>3, <1>4, <1>5, <1>6 DEF GiftsOf
  <2>2. TenantRow(t).giftsMtd = Since(GiftsOf(t), start)
    BY DEF TenantRow, start
  <2>3. QED
    BY <2>1, <2>2, TenantListIs DEF Since
<1>7. Bucket(M).total <= Bucket(Y).total
  <2>1. M \in SUBSET Y
    BY <1>3, <1>4, <1>5
  <2> HIDE DEF M, Y
  <2>2. Amount(Y) = Amount(M) + Amount(Y \ M) /\ Amount(M) \in Nat /\ Amount(Y \ M) \in Nat
    BY <1>1, <2>1, AmountSplit
  <2>3. QED
    BY <2>2, BucketIs
<1> HIDE DEF M, Y
<1>8. AddsUp(GroupBy(M, "type"), Bucket(M))
  BY <1>1, GroupsAddUp
<1>9. QED
  BY <1>2, <1>6, <1>7, <1>8

LEMMA ClampIs ==
  ASSUME NEW n \in Int, NEW low \in Int, NEW high \in Int, low <= n, n <= high
  PROVE  Clamp(n, low, high) = n
<1>1. Min({n, high}) = n
  BY MinOfTwo
<1>2. Max({low, n}) = n
  BY MaxOfTwo
<1>3. QED
  BY <1>1, <1>2 DEF Clamp

FirstDay(n) == MonthStart(MonthOf(Today) - (n - 1))
LastDay == MonthEnd(MonthOf(Today))

LEMMA LastMonths ==
  ASSUME NEW n \in 1 .. 24
  PROVE  /\ FirstDay(n) \in Int /\ LastDay \in Int
         /\ MonthOf(FirstDay(n)) = MonthOf(Today) - (n - 1) /\ MonthOf(LastDay) = MonthOf(Today)
         /\ FirstDay(n) = MonthStart(MonthOf(FirstDay(n)))
         /\ FirstDay(n) <= Today /\ Today <= LastDay
         /\ Resolved(None, None, n, FALSE) = [from |-> FirstDay(n), to |-> LastDay, monthly |-> TRUE]
         /\ Cardinality(MonthsBetween(FirstDay(n), LastDay)) = n
<1> DEFINE m == MonthOf(Today)
           k == m - (n - 1)
<1>1. m \in Int /\ k \in Int /\ Today \in Int
  BY MonthArithmetic, CalendarAssumption
<1> HIDE DEF k
<1>2. /\ MonthStart(k) \in Int /\ MonthOf(MonthStart(k)) = k
  BY <1>1, MonthArithmetic
<1>3. MonthStart(m) <= Today /\ Today <= MonthEnd(m) /\ MonthEnd(m) \in Int /\ MonthOf(MonthEnd(m)) = m
  BY <1>1, MonthArithmetic
<1>4. MonthStart(k) <= MonthStart(m)
  <2> HIDE DEF m
  <2>1. k <= m /\ DaysPerMonth \in Nat \ {0}
    BY <1>1, CalendarAssumption DEF k
  <2>2. QED
    BY <2>1, <1>1 DEF MonthStart
<1>5. FirstDay(n) = MonthStart(k) /\ LastDay = MonthEnd(m)
  BY DEF FirstDay, LastDay, k
<1>6. Clamp(n, 1, 60) = n
  BY ClampIs
<1>7. Resolved(None, None, n, FALSE) = [from |-> FirstDay(n), to |-> LastDay, monthly |-> TRUE]
  BY <1>6 DEF Resolved, FirstDay, LastDay
<1>8. MonthStart(m) \in Int
  BY <1>1, MonthArithmetic
<1> HIDE DEF m
<1>9. k <= m /\ m - k + 1 = n
  BY <1>1 DEF k
<1>10. Cardinality(MonthsBetween(FirstDay(n), LastDay)) = n
  <2>1. MonthOf(FirstDay(n)) = k /\ MonthOf(LastDay) = m /\ FirstDay(n) \in Int /\ LastDay \in Int
    BY <1>2, <1>3, <1>5
  <2>2. QED
    BY <2>1, <1>9, MonthsBetweenIs
<1>11. FirstDay(n) <= Today
  BY <1>1, <1>2, <1>3, <1>4, <1>5, <1>8
<1>12. QED
  BY <1>2, <1>3, <1>5, <1>7, <1>10, <1>11 DEF m, k

LEMMA TrendIs ==
  ASSUME NEW t, NEW M, NEW n \in 1 .. 24, NEW m \in M
  PROVE  Trend(t, M, n)[m] = Series({g \in Matching(Window(t, FirstDay(n), LastDay)) : gift[g].member = m},
                                    FirstDay(n), LastDay)
<1>1. Clamp(n, 1, 24) = n
  BY ClampIs
<1>2. QED
  BY <1>1 DEF Trend, FirstDay, LastDay

(* The gifts of one member: asked for as such, or picked from those of all. *)
LEMMA MatchingMember ==
  ASSUME NEW w, NEW v, NEW m \in Members, w.member = Unfiltered, v.member = m,
         v.church = w.church, v.from = w.from, v.to = w.to,
         v.campaign = w.campaign, v.type = w.type, v.state = w.state
  PROVE  Matching(v) = {g \in Matching(w) : gift[g].member = m}
<1>1. m # Unfiltered
  BY TablesAssumption
<1>2. QED
  BY <1>1 DEF Matching

TrendShows(t, m, n) ==
  LET trend == Trend(t, Members, n)
      window == Resolved(None, None, n, FALSE)
  IN  /\ Cardinality(DOMAIN trend[m]) = n
      /\ trend[m] = Summary([Window(t, window.from, window.to) EXCEPT !.member = m], TRUE).byMonth

LEMMA TrendAgrees ==
  ASSUME NEW t, NEW m \in Members, NEW n \in 1 .. 24
  PROVE  TrendShows(t, m, n)
<1> DEFINE trend == Trend(t, Members, n)
           window == Resolved(None, None, n, FALSE)
           w == Window(t, FirstDay(n), LastDay)
           v == [w EXCEPT !.member = m]
           G == {g \in Matching(w) : gift[g].member = m}
<1>1. window.from = FirstDay(n) /\ window.to = LastDay
  <2>1. window = [from |-> FirstDay(n), to |-> LastDay, monthly |-> TRUE]
    BY LastMonths
  <2> HIDE DEF window
  <2>2. QED
    BY <2>1
<1>2. trend[m] = Series(G, FirstDay(n), LastDay)
  BY TrendIs
<1>3. Cardinality(DOMAIN trend[m]) = n
  BY <1>2, LastMonths DEF Series
<1>4. /\ w.member = Unfiltered /\ v.member = m /\ v.church = w.church /\ v.from = w.from
      /\ v.to = w.to /\ v.campaign = w.campaign /\ v.type = w.type /\ v.state = w.state
      /\ w.from = FirstDay(n) /\ w.to = LastDay
  BY DEF Window
<1>5. [Window(t, window.from, window.to) EXCEPT !.member = m] = v
  BY <1>1
<1> HIDE DEF v, w, trend, window
<1>6. Matching(v) = G
  BY <1>4, MatchingMember
<1>7. Summary(v, TRUE).byMonth = Series(G, FirstDay(n), LastDay)
  BY <1>4, <1>6 DEF Summary
<1>8. QED
  BY <1>2, <1>3, <1>5, <1>7 DEF TrendShows, trend, window

(* The figures of the churches add up to those of the platform, archived     *)
(* churches included, and a church's own page agrees with the super-admin's  *)
(* list: for any number of churches, members and gifts.                      *)
THEOREM ChurchFiguresStayInAgreement == TablesSpec => []ChurchFiguresAgree
<1>1. TablesOK => ChurchFiguresAgree
  <2> SUFFICES ASSUME TablesOK PROVE ChurchFiguresAgree
    OBVIOUS
  <2> DEFINE year == MonthsPerYear - 1
             window == Resolved(None, None, year, FALSE)
  <2>1. year \in 1 .. 24
    BY CalendarAssumption
  <2> HIDE DEF year
  <2>2. window.from = MonthStart(MonthOf(window.from))
    <3>1. window = [from |-> FirstDay(year), to |-> LastDay, monthly |-> TRUE]
      BY <2>1, LastMonths
    <3>2. FirstDay(year) = MonthStart(MonthOf(FirstDay(year)))
      BY <2>1, LastMonths
    <3> HIDE DEF window
    <3>3. QED
      BY <3>1, <3>2
  <2>3. ASSUME NEW t \in Churches, NEW m \in Members
        PROVE  TrendShows(t, m, year)
    BY <2>1, TrendAgrees
  <2>4. QED
    BY <2>2, <2>3, PeopleAddUp, OwnSummaryAgrees DEF ChurchFiguresAgree, TrendShows, year
<1>2. QED
  BY <1>1, TablesAreTyped, PTL


(***************************************************************************)
(* Pledges and items, and the progress of campaigns.                       *)
(***************************************************************************)
LEMMA PledgeSums ==
  ASSUME TablesOK
  PROVE  /\ \A P \in SUBSET Pledges : IsFiniteSet(P) /\ Cardinality(P) \in Nat
         /\ \A P \in SUBSET Pledges :
              /\ IntOn([p \in Pledges |-> pledge[p].pledged], P)
              /\ IntOn([p \in Pledges |-> pledge[p].paid], P)
<1>1. \A P \in SUBSET Pledges : IsFiniteSet(P)
  BY FiniteIds, FS_Subset
<1>2. \A P \in SUBSET Pledges : Cardinality(P) \in Nat
  BY <1>1, FS_CardinalityType
<1>3. \A p \in Pledges : pledge[p].pledged \in Nat /\ pledge[p].paid \in Nat
  BY DEF TablesOK, PledgeColumns
<1>4. QED
  BY <1>1, <1>2, <1>3 DEF IntOn

LEMMA ItemTargetsAddUp ==
  ASSUME TablesOK, NEW c
  PROVE  SumOver(Progress(c).items, "target") = Targets(ItemsOf(c))
<1> DEFINE I == ItemsOf(c)
           f == [i \in Items |-> item[i].target]
           h == [i \in DOMAIN Progress(c).items |-> Progress(c).items[i]["target"]]
<1>1. I \in SUBSET Items /\ IsFiniteSet(I)
  BY FiniteIds, FS_Subset DEF ItemsOf
<1>2. IntOn(f, I)
  BY <1>1 DEF TablesOK, ItemColumns, IntOn
<1>3. DOMAIN Progress(c).items = I /\ \A i \in I : h[i] = item[i].target
  BY DEF Progress
<1>4. \A i \in I : h[i] = f[i]
  BY <1>1, <1>3
<1>5. SumOver(Progress(c).items, "target") = SumFunctionOnSet(h, I)
  BY <1>3 DEF SumOver
<1> HIDE DEF h, f, I
<1>6. SumFunctionOnSet(h, I) = SumFunctionOnSet(f, I)
  <2>1. IntOn(h, I)
    BY <1>2, <1>4 DEF IntOn
  <2>2. QED
    BY <1>1, <1>2, <1>4, <2>1, SumSame
<1>7. QED
  BY <1>5, <1>6 DEF Targets, f, I

LEMMA ItemPledgesAddUp ==
  ASSUME TablesOK, NEW c
  PROVE  LET items == Progress(c).items
         IN  SumOver(items, "pledged") + Promised({p \in PledgesFor(c) : pledge[p].item \notin DOMAIN items})
               = Promised(PledgesFor(c))
<1> DEFINE I == ItemsOf(c)
           S == PledgesFor(c)
           f == [p \in Pledges |-> pledge[p].pledged]
           key == [p \in Pledges |-> pledge[p].item]
           h == [i \in DOMAIN Progress(c).items |-> Progress(c).items[i]["pledged"]]
           R == {p \in S : key[p] \notin I}
<1>1. I \in SUBSET Items /\ IsFiniteSet(I) /\ S \in SUBSET Pledges /\ IsFiniteSet(S)
  BY FiniteIds, FS_Subset DEF ItemsOf, PledgesFor
<1>2. IntOn(f, S)
  BY <1>1, PledgeSums
<1>3. \A P : Promised(P) = SumFunctionOnSet(f, P)
  BY DEF Promised
<1>4. \A i : {p \in S : pledge[p].item = i} = Part(S, key, i)
  BY <1>1 DEF Part
<1>5. DOMAIN Progress(c).items = I /\ \A i \in I : h[i] = Promised({p \in S : pledge[p].item = i})
  BY DEF Progress
<1>6. {p \in S : pledge[p].item \notin I} = R
  BY <1>1
<1>7. SumOver(Progress(c).items, "pledged") = SumFunctionOnSet(h, I)
  BY <1>5 DEF SumOver
<1> HIDE DEF I, S, f, h
<1>8. \A i \in I : h[i] = SumFunctionOnSet(f, Part(S, key, i))
  BY <1>3, <1>4, <1>5
<1> HIDE DEF key
<1>9. SumFunctionOnSet(h, I) + SumFunctionOnSet(f, R) = SumFunctionOnSet(f, S)
  BY <1>1, <1>2, <1>8, SumByKeyAndRest
<1>10. QED
  BY <1>3, <1>5, <1>6, <1>7, <1>9 DEF S

LEMMA ItemGiftsAddUp ==
  ASSUME TablesOK, NEW c
  PROVE  LET items == Progress(c).items
         IN  SumOver(items, "raised") + Amount({g \in GiftsFor(c) : gift[g].item \notin DOMAIN items})
               = Amount(GiftsFor(c))
<1> DEFINE I == ItemsOf(c)
           S == GiftsFor(c)
           f == [g \in Gifts |-> gift[g].amount]
           key == [g \in Gifts |-> gift[g].item]
           h == [i \in DOMAIN Progress(c).items |-> Progress(c).items[i]["raised"]]
           R == {g \in S : key[g] \notin I}
<1>1. I \in SUBSET Items /\ IsFiniteSet(I) /\ S \in SUBSET Gifts /\ IsFiniteSet(S)
  BY FiniteIds, FS_Subset DEF ItemsOf, GiftsFor
<1>2. IntOn(f, S)
  BY <1>1 DEF TablesOK, GiftColumns, IntOn
<1>3. \A G : Amount(G) = SumFunctionOnSet(f, G)
  BY DEF Amount
<1>4. \A i : {g \in S : gift[g].item = i} = Part(S, key, i)
  BY <1>1 DEF Part
<1>5. DOMAIN Progress(c).items = I /\ \A i \in I : h[i] = Amount({g \in S : gift[g].item = i})
  BY DEF Progress
<1>6. {g \in S : gift[g].item \notin I} = R
  BY <1>1
<1>7. SumOver(Progress(c).items, "raised") = SumFunctionOnSet(h, I)
  BY <1>5 DEF SumOver
<1> HIDE DEF I, S, f, h
<1>8. \A i \in I : h[i] = SumFunctionOnSet(f, Part(S, key, i))
  BY <1>3, <1>4, <1>5
<1> HIDE DEF key
<1>9. SumFunctionOnSet(h, I) + SumFunctionOnSet(f, R) = SumFunctionOnSet(f, S)
  BY <1>1, <1>2, <1>8, SumByKeyAndRest
<1>10. QED
  BY <1>3, <1>5, <1>6, <1>7, <1>9 DEF S

(* A campaign's progress is the same alone and among many, and its live      *)
(* items, with what names none of them, make up the whole.                   *)
THEOREM ProgressStaysInAgreement == TablesSpec => []ProgressAgrees
<1>1. TablesOK => ProgressAgrees
  <2> SUFFICES ASSUME TablesOK, NEW c \in Campaigns
               PROVE  LET one == Progress(c)
                          many == ProgressMany(Campaigns)[c]
                          rest(X, table) == {x \in X : table[x].item \notin DOMAIN one.items}
                      IN  /\ \A f \in DOMAIN many : one[f] = many[f]
                          /\ SumOver(one.items, "target") = one.goal
                          /\ SumOver(one.items, "pledged") + Promised(rest(PledgesFor(c), pledge)) = one.pledged
                          /\ SumOver(one.items, "raised") + Amount(rest(GiftsFor(c), gift)) = one.raised
    BY Zenon DEF ProgressAgrees
  <2>1. \A f \in DOMAIN ProgressMany(Campaigns)[c] : Progress(c)[f] = ProgressMany(Campaigns)[c][f]
    BY DEF Progress, ProgressMany
  <2>2. /\ Progress(c).goal = Targets(ItemsOf(c)) /\ Progress(c).pledged = Promised(PledgesFor(c))
        /\ Progress(c).raised = Amount(GiftsFor(c))
    BY DEF Progress
  <2>3. QED
    BY <2>1, <2>2, ItemTargetsAddUp, ItemPledgesAddUp, ItemGiftsAddUp
<1>2. QED
  BY <1>1, TablesAreTyped, PTL

(***************************************************************************)
(* Pledges by status, by age and by member.                                *)
(***************************************************************************)
LEMMA StatusesAddUp ==
  ASSUME TablesOK, NEW P \in SUBSET Pledges
  PROVE  /\ SumOver(ByStatus(P), "count") = Cardinality(P)
         /\ SumOver(ByStatus(P), "pledged") = Promised(P)
         /\ SumOver(ByStatus(P), "paid") = Stored(P)
<1> DEFINE key == [p \in Pledges |-> pledge[p].status]
           f == [p \in Pledges |-> pledge[p].pledged]
           g == [p \in Pledges |-> pledge[p].paid]
           hc == [s \in DOMAIN ByStatus(P) |-> ByStatus(P)[s]["count"]]
           hf == [s \in DOMAIN ByStatus(P) |-> ByStatus(P)[s]["pledged"]]
           hg == [s \in DOMAIN ByStatus(P) |-> ByStatus(P)[s]["paid"]]
<1>1. IsFiniteSet(P) /\ IntOn(f, P) /\ IntOn(g, P)
  BY PledgeSums
<1>2. \A p \in P : key[p] \in Statuses
  BY DEF TablesOK, PledgeColumns
<1>3. IsFiniteSet(Statuses)
  <2>1. Statuses = {"ACTIVE"} \cup {"FULFILLED"} \cup {"CANCELLED"}
    BY DEF Statuses
  <2>2. QED
    BY <2>1, FS_Singleton, FS_Union
<1>4. \A s : {p \in P : pledge[p].status = s} = Part(P, key, s)
  BY DEF Part
<1>5. (\A Q : Promised(Q) = SumFunctionOnSet(f, Q)) /\ (\A Q : Stored(Q) = SumFunctionOnSet(g, Q))
  BY DEF Promised, Stored
<1>6. DOMAIN ByStatus(P) = Statuses
      /\ \A s \in Statuses : LET Q == {p \in P : pledge[p].status = s}
                             IN  hc[s] = Cardinality(Q) /\ hf[s] = Promised(Q) /\ hg[s] = Stored(Q)
  BY DEF ByStatus
<1>7. /\ SumOver(ByStatus(P), "count") = SumFunctionOnSet(hc, Statuses)
      /\ SumOver(ByStatus(P), "pledged") = SumFunctionOnSet(hf, Statuses)
      /\ SumOver(ByStatus(P), "paid") = SumFunctionOnSet(hg, Statuses)
  BY <1>6 DEF SumOver
<1> HIDE DEF key, f, g, hc, hf, hg, Statuses
<1>8. \A s \in Statuses : /\ hc[s] = Cardinality(Part(P, key, s))
                          /\ hf[s] = SumFunctionOnSet(f, Part(P, key, s))
                          /\ hg[s] = SumFunctionOnSet(g, Part(P, key, s))
  BY <1>4, <1>5, <1>6
<1>9. SumFunctionOnSet(hc, Statuses) = Cardinality(P)
  BY <1>1, <1>2, <1>3, <1>8, SizeByKey
<1>10. SumFunctionOnSet(hf, Statuses) = SumFunctionOnSet(f, P)
  BY <1>1, <1>2, <1>3, <1>8, SumByKey
<1>11. SumFunctionOnSet(hg, Statuses) = SumFunctionOnSet(g, P)
  BY <1>1, <1>2, <1>3, <1>8, SumByKey
<1>12. QED
  BY <1>5, <1>7, <1>9, <1>10, <1>11

(* The rows of some pledges, each with an amount paid. *)
RowsWith(Q, paid) == {PledgeRow(p, paid[p]) : p \in Q}

LEMMA RowsOf ==
  ASSUME TablesOK, NEW Q \in SUBSET Pledges, NEW paid, \A p \in Q : paid[p] \in Int,
         NEW T, T = RowsWith(Q, paid)
  PROVE  /\ IsFiniteSet(T) /\ Cardinality(T) = Cardinality(Q)
         /\ SumOf(T, "paid") = SumFunctionOnSet(paid, Q)
         /\ SumOf(T, "remaining")
              = SumFunctionOnSet([p \in Q |-> Max({0, pledge[p].pledged - paid[p]})], Q)
<1> DEFINE b == [p \in Q |-> PledgeRow(p, paid[p])]
           r == [p \in Q |-> Max({0, pledge[p].pledged - paid[p]})]
           gp == [x \in T |-> x["paid"]]
           gr == [x \in T |-> x["remaining"]]
<1>1. \A p \in Q : b[p].id = p /\ b[p].paid = paid[p] /\ b[p].remaining = r[p] /\ b[p] \in T
  BY DEF PledgeRow, RowsWith
<1>2. IsFiniteSet(Q)
  BY PledgeSums
<1>3. IntOn(paid, Q) /\ IntOn(r, Q)
  <2>1. ASSUME NEW p \in Q
        PROVE  r[p] \in Int
    <3>1. pledge[p].pledged - paid[p] \in Int
      BY DEF TablesOK, PledgeColumns
    <3> DEFINE d == pledge[p].pledged - paid[p]
    <3>2. d \in Int
      BY <3>1
    <3> HIDE DEF d
    <3>3. Max({0, d}) \in Int
      BY <3>2, MaxOfTwo
    <3>4. QED
      BY <3>3 DEF d
  <2>2. QED
    BY <2>1 DEF IntOn
<1>4. T = ImageOf(b, Q)
  BY DEF ImageOf, RowsWith
<1>5. \A p \in Q : gp[b[p]] = paid[p] /\ gr[b[p]] = r[p]
  <2> HIDE DEF b, r
  <2>1. QED
    BY <1>1
<1>6. SumOf(T, "paid") = SumFunctionOnSet(gp, T) /\ SumOf(T, "remaining") = SumFunctionOnSet(gr, T)
  BY DEF SumOf
<1> HIDE DEF b, r, gp, gr
<1>7. \A p, q \in Q : b[p] = b[q] => p = q
  BY <1>1
<1>8. IsFiniteSet(T) /\ Cardinality(T) = Cardinality(Q)
  BY <1>2, <1>4, <1>7, SizeImage
<1>9. SumFunctionOnSet(gp, T) = SumFunctionOnSet(paid, Q)
  <2>1. \A p \in Q : gp[b[p]] = paid[p]
    BY <1>5
  <2>2. IntOn(paid, Q)
    BY <1>3
  <2>3. QED
    BY <1>2, <1>4, <1>7, <2>1, <2>2, SumImage
<1>10. SumFunctionOnSet(gr, T) = SumFunctionOnSet(r, Q)
  <2>1. \A p \in Q : gr[b[p]] = r[p]
    BY <1>5
  <2>2. IntOn(r, Q)
    BY <1>3
  <2>3. QED
    BY <1>2, <1>4, <1>7, <2>1, <2>2, SumImage, SMTT(40)
<1>11. QED
  BY <1>6, <1>8, <1>9, <1>10 DEF r

LEMMA MatchingPledges ==
  ASSUME NEW w, NEW v, NEW m \in Members, w.member = Unfiltered, v.member = m,
         v.church = w.church, v.from = w.from, v.to = w.to, v.state = w.state,
         v.campaign = w.campaign, v.item = w.item, v.status = w.status
  PROVE  PledgesMatching(v) = {p \in PledgesMatching(w) : pledge[p].member = m}
<1>1. m # Unfiltered
  BY TablesAssumption
<1>2. QED
  BY <1>1 DEF PledgesMatching

LEMMA StatsAddUp ==
  ASSUME TablesOK, NEW t, NEW s \in Statuses
  PROVE  SumOver([m \in Members |-> Stats(t, m)[s]], "count")
           = Cardinality({p \in PledgesMatching(Made(t, None, None)) : pledge[p].status = s})
<1> DEFINE w == Made(t, None, None)
           P == {p \in PledgesMatching(w) : pledge[p].status = s}
           key == [p \in Pledges |-> pledge[p].member]
           all == [m \in Members |-> Stats(t, m)[s]]
           h == [m \in DOMAIN all |-> all[m]["count"]]
<1>1. P \in SUBSET Pledges /\ IsFiniteSet(P)
  BY FiniteIds, FS_Subset DEF PledgesMatching
<1>2. \A p \in P : key[p] \in Members
  BY <1>1 DEF TablesOK, PledgeColumns
<1>3. ASSUME NEW m \in Members
      PROVE  h[m] = Cardinality(Part(P, key, m))
  <2> DEFINE v == [w EXCEPT !.member = m]
             M == PledgesMatching(v)
  <2>1. M = {p \in PledgesMatching(w) : pledge[p].member = m}
    <3>1. /\ w.member = Unfiltered /\ v.member = m /\ v.church = w.church /\ v.from = w.from
          /\ v.to = w.to /\ v.state = w.state /\ v.campaign = w.campaign /\ v.item = w.item
          /\ v.status = w.status
      BY DEF Made
    <3> HIDE DEF v, w
    <3>2. QED
      BY <3>1, MatchingPledges
  <2>2. Stats(t, m)[s].count = Cardinality({p \in M : pledge[p].status = s})
    BY DEF Stats, ByStatus
  <2>3. {p \in M : pledge[p].status = s} = Part(P, key, m)
    <3> HIDE DEF M
    <3>1. QED
      BY <2>1, <1>1 DEF Part
  <2>4. h[m] = Stats(t, m)[s].count
    OBVIOUS
  <2>5. QED
    BY <2>2, <2>3, <2>4
<1>4. SumOver(all, "count") = SumFunctionOnSet(h, Members)
  BY DEF SumOver
<1> HIDE DEF P, key, h, all
<1>5. SumFunctionOnSet(h, Members) = Cardinality(P)
  BY <1>1, <1>2, <1>3, FiniteIds, SizeByKey
<1>6. QED
  BY <1>4, <1>5 DEF all, P

(* An active pledge is open exactly when its age says so. *)
Ages == {"no-deadline", "past-due", "due-soon", "on-track"}

LEMMA LifecycleIs ==
  ASSUME TablesOK, NEW p \in Pledges, NEW paid \in Int,
         NEW l, l = PledgeRow(p, paid).lifecycle
  PROVE  /\ PledgeRow(p, paid).id = p /\ PledgeRow(p, paid).status = pledge[p].status
         /\ PledgeRow(p, paid).deadline = Deadline(p) /\ PledgeRow(p, paid).paid = paid
         /\ l \in Ages \cup {"cancelled", "fulfilled"}
         /\ pledge[p].status = "ACTIVE" =>
              /\ l \in Ages <=> paid < pledge[p].pledged
              /\ l = "no-deadline" => Deadline(p) = None
              /\ l \in {"past-due", "due-soon", "on-track"} => Deadline(p) # None
              /\ l = "past-due" => Deadline(p) < Today
              /\ l = "due-soon" => Deadline(p) - Today <= 14
<1>1. pledge[p].pledged \in Int /\ pledge[p].status \in Statuses
  BY DEF TablesOK, PledgeColumns
<1>2. l = Lifecycle(pledge[p].status, pledge[p].pledged, paid, Deadline(p))
  BY DEF PledgeRow
<1>3. QED
  BY <1>1, <1>2 DEF PledgeRow, Lifecycle, Ages, Statuses

LEMMA SubsetOfSize ==
  ASSUME NEW S, IsFiniteSet(S), NEW k \in Nat, k <= Cardinality(S)
  PROVE  \E Q \in SUBSET S : Cardinality(Q) = k
<1> DEFINE B == {T \in SUBSET S : Cardinality(T) >= k}
<1>1. B # {} /\ B \subseteq SUBSET S
  <2>1. S \in B
    BY FS_CardinalityType
  <2>2. QED
    BY <2>1
<1>2. PICK T \in B : \A U \in B : ~(U \subseteq T /\ U # T)
  <2> HIDE DEF B
  <2>1. QED
    BY <1>1, MinimalSubset
<1>3. T \in SUBSET S /\ IsFiniteSet(T) /\ Cardinality(T) \in Nat /\ Cardinality(T) >= k
  BY <1>2, FS_Subset, FS_CardinalityType
<1>4. ASSUME Cardinality(T) > k
      PROVE  FALSE
  <2>1. T # {}
    BY <1>4, FS_EmptySet
  <2>2. PICK x \in T : TRUE
    BY <2>1
  <2>3. Cardinality(T \ {x}) = Cardinality(T) - 1
    BY <1>3, <2>2, FS_RemoveElement
  <2>4. T \ {x} \in B
    BY <1>3, <1>4, <2>3
  <2>5. QED
    BY <1>2, <2>2, <2>4
<1>5. QED
  BY <1>3, <1>4

LEMMA AtMostIs ==
  ASSUME NEW P, IsFiniteSet(P), NEW n \in Nat
  PROVE  /\ AtMost(n, P) \in SUBSET P
         /\ Cardinality(P) <= n => AtMost(n, P) = P
<1>1. Cardinality(P) \in Nat
  BY FS_CardinalityType
<1>2. ASSUME ~(Cardinality(P) <= n)
      PROVE  AtMost(n, P) \in SUBSET P
  <2>1. \E Q \in SUBSET P : Cardinality(Q) = n
    BY <1>1, <1>2, SubsetOfSize
  <2>2. AtMost(n, P) = CHOOSE Q \in SUBSET P : Cardinality(Q) = n
    BY <1>2 DEF AtMost
  <2>3. QED
    BY <2>1, <2>2
<1>3. Cardinality(P) <= n => AtMost(n, P) = P
  BY DEF AtMost
<1>4. QED
  BY <1>2, <1>3

PaidNow == [p \in Pledges |-> pledge[p].paid]
PaidFully(P) == \A p \in P : pledge[p].paid = LiveSum(p)
Aged(P, l) == {p \in Unpaid(P) : PledgeRow(p, pledge[p].paid).lifecycle = l}
ListedAt(w, l) == {x \in PledgeList(w).items : x.status = "ACTIVE" /\ x.lifecycle = l}

LEMMA ListRows ==
  ASSUME TablesOK, NEW w, NEW P, P = PledgesMatching(w), PaidFully(P)
  PROVE  /\ P \in SUBSET Pledges /\ \A p \in P : PaidNow[p] \in Int
         /\ PledgeList(w).items = RowsWith(P, PaidNow)
         /\ \A l \in Ages : /\ Aged(P, l) \in SUBSET P
                            /\ ListedAt(w, l) = RowsWith(Aged(P, l), PaidNow)
<1>1. P \in SUBSET Pledges
  BY DEF PledgesMatching
<1>2. \A p \in P : PaidNow[p] \in Int /\ PaidNow[p] = pledge[p].paid /\ PaidNow[p] = LiveSum(p)
  BY <1>1 DEF TablesOK, PledgeColumns, PaidFully, PaidNow
<1>3. PledgeList(w).items = RowsWith(P, PaidNow)
  <2>1. PledgeList(w).items = {PledgeRow(p, LiveSum(p)) : p \in P}
    BY DEF PledgeList
  <2>2. \A p \in P : PledgeRow(p, LiveSum(p)) = PledgeRow(p, PaidNow[p])
    BY <1>2
  <2>3. QED
    BY <2>1, <2>2 DEF RowsWith
<1>4. ASSUME NEW l \in Ages
      PROVE  ListedAt(w, l) = RowsWith(Aged(P, l), PaidNow)
  <2>1. \A p \in P : p \in Aged(P, l) <=>
          PledgeRow(p, PaidNow[p]).status = "ACTIVE" /\ PledgeRow(p, PaidNow[p]).lifecycle = l
    <3>1. \A p \in P : /\ PledgeRow(p, PaidNow[p]).status = pledge[p].status
                       /\ pledge[p].status = "ACTIVE" /\ PledgeRow(p, PaidNow[p]).lifecycle = l
                            => PaidNow[p] < pledge[p].pledged
      <4>1. ASSUME NEW p \in P
            PROVE  /\ PledgeRow(p, PaidNow[p]).status = pledge[p].status
                   /\ pledge[p].status = "ACTIVE" /\ PledgeRow(p, PaidNow[p]).lifecycle = l
                        => PaidNow[p] < pledge[p].pledged
        BY <1>1, <1>2, LifecycleIs
      <4>2. QED
        BY <4>1
    <3>2. QED
      BY <3>1, <1>2 DEF Aged, Unpaid
  <2>2. Aged(P, l) \in SUBSET P
    BY DEF Aged, Unpaid
  <2>3. ListedAt(w, l) = {x \in RowsWith(P, PaidNow) : x.status = "ACTIVE" /\ x.lifecycle = l}
    BY <1>3 DEF ListedAt
  <2>4. QED
    BY <2>1, <2>2, <2>3 DEF RowsWith
<1>5. \A l \in Ages : Aged(P, l) \in SUBSET P
  BY DEF Aged, Unpaid
<1>6. QED
  BY <1>1, <1>2, <1>3, <1>4, <1>5

LEMMA AgesAgree ==
  ASSUME TablesOK, NEW t, NEW from, NEW to, NEW w, w = Made(t, from, to),
         PaidFully(PledgesMatching(w)), NEW l \in Ages,
         Cardinality(Unpaid(PledgesMatching(w))) <= AgingRows
  PROVE  LET report == PledgesReport(t, from, to)
             At == ListedAt(w, l)
         IN  IF At = {} THEN l \notin DOMAIN report.aging
             ELSE report.aging[l] = [count |-> Cardinality(At), outstanding |-> SumOf(At, "remaining")]
<1> DEFINE P == PledgesMatching(w)
           Q == Aged(P, l)
           At == ListedAt(w, l)
           paid == PaidNow
           f == [p \in Pledges |-> Max({0, pledge[p].pledged - pledge[p].paid})]
           r == [p \in Q |-> Max({0, pledge[p].pledged - paid[p]})]
           report == PledgesReport(t, from, to)
<1>1. /\ Q \in SUBSET Pledges /\ \A p \in Q : paid[p] \in Int
      /\ At = RowsWith(Q, paid)
  BY ListRows
<1>2. /\ DOMAIN report.aging = {PledgeRow(p, pledge[p].paid).lifecycle : p \in Unpaid(P)}
      /\ \A k \in DOMAIN report.aging :
           report.aging[k] = [count |-> Cardinality(Aged(P, k)), outstanding |-> Outstanding(Aged(P, k))]
  <2>1. AtMost(AgingRows, Unpaid(P)) = Unpaid(P)
    BY DEF AtMost
  <2>2. QED
    BY <2>1 DEF PledgesReport, Aged
<1>3. Q = {} <=> l \notin DOMAIN report.aging
  BY <1>2 DEF Aged
<1>4. Q = {} <=> At = {}
  BY <1>1 DEF RowsWith
<1>5. Outstanding(Q) = SumFunctionOnSet(r, Q)
  <2>1. Outstanding(Q) = SumFunctionOnSet(f, Q)
    BY DEF Outstanding
  <2>2. \A p \in Q : f[p] = r[p]
    BY <1>1 DEF PaidNow
  <2>3. IntOn(r, Q)
    <3>1. ASSUME NEW p \in Q
          PROVE  r[p] \in Int
      <4>1. pledge[p].pledged - paid[p] \in Int
        BY <1>1 DEF TablesOK, PledgeColumns
      <4> DEFINE d == pledge[p].pledged - paid[p]
      <4>2. d \in Int
        BY <4>1
      <4> HIDE DEF d
      <4>3. Max({0, d}) \in Int
        BY <4>2, MaxOfTwo
      <4>4. QED
        BY <4>3 DEF d
    <3>2. QED
      BY <3>1 DEF IntOn
  <2>4. IsFiniteSet(Q)
    BY <1>1, PledgeSums
  <2> HIDE DEF f, r, Q
  <2>5. IntOn(f, Q)
    BY <2>2, <2>3 DEF IntOn
  <2>6. SumFunctionOnSet(f, Q) = SumFunctionOnSet(r, Q)
    BY <2>2, <2>3, <2>4, <2>5, SumSame
  <2>7. QED
    BY <2>1, <2>6
<1> HIDE DEF Q, At, paid, report, P
<1>6. Cardinality(At) = Cardinality(Q) /\ SumOf(At, "remaining") = SumFunctionOnSet(r, Q)
  BY <1>1, RowsOf
<1>7. l \in DOMAIN report.aging => report.aging[l] = [count |-> Cardinality(Q), outstanding |-> Outstanding(Q)]
  BY <1>2 DEF Q
<1>8. QED
  BY <1>3, <1>4, <1>5, <1>6, <1>7 DEF At, report

(* "Computes derived status + lifecycle server-side so every metric on the   *)
(* page agrees": once the stored totals are right, the report of the pledges *)
(* has the totals of their list and of the members' own figures and, unless  *)
(* more are unpaid than its chart takes, as many of each age, and as much    *)
(* outstanding, as the list.                                                 *)
THEOREM PledgeReportsStayInAgreement == TablesSpec => []PledgeReportsAgree
<1>1. TablesOK => PledgeReportsAgree
  <2> SUFFICES ASSUME TablesOK, NEW t \in Churches, NEW from \in Days, NEW to \in Days,
                      PaidFully(PledgesMatching(Made(t, from, to)))
               PROVE  LET w == Made(t, from, to)
                          list == PledgeList(w)
                          report == PledgesReport(t, from, to)
                      IN  /\ report.totalCount = list.total /\ report.totalPledged = list.sum
                          /\ report.totalPaid = SumOf(list.items, "paid")
                          /\ Cardinality(Unpaid(PledgesMatching(w))) <= AgingRows =>
                               \A l \in Ages :
                                 IF ListedAt(w, l) = {} THEN l \notin DOMAIN report.aging
                                 ELSE report.aging[l] = [count |-> Cardinality(ListedAt(w, l)),
                                        outstanding |-> SumOf(ListedAt(w, l), "remaining")]
                          /\ "fulfilled" \notin DOMAIN report.aging
                          /\ from = to => \A s \in Statuses :
                               SumOver([m \in Members |-> Stats(t, m)[s]], "count")
                                 = PledgesReport(t, None, None).statusBreakdown[s].count
    BY DEF PledgeReportsAgree, PaidFully, ListedAt, Ages
  <2> DEFINE w == Made(t, from, to)
             P == PledgesMatching(w)
             list == PledgeList(w)
             report == PledgesReport(t, from, to)
             paid == PaidNow
  <2>1. P \in SUBSET Pledges
    BY DEF PledgesMatching
  <2>2. /\ report.totalCount = Cardinality(P) /\ report.totalPledged = Promised(P)
        /\ report.totalPaid = Stored(P)
    <3>1. /\ report.totalCount = SumOver(ByStatus(P), "count")
          /\ report.totalPledged = SumOver(ByStatus(P), "pledged")
          /\ report.totalPaid = SumOver(ByStatus(P), "paid")
      BY DEF PledgesReport
    <3> HIDE DEF P, report
    <3>2. QED
      BY <2>1, <3>1, StatusesAddUp
  <2>3. list.total = Cardinality(P) /\ list.sum = Promised(P)
    BY DEF PledgeList
  <2>4. SumOf(list.items, "paid") = Stored(P)
    <3>1. list.items = RowsWith(P, paid) /\ \A p \in P : paid[p] \in Int
      BY ListRows
    <3>2. Stored(P) = SumFunctionOnSet(paid, P)
      BY DEF Stored, PaidNow
    <3> HIDE DEF list, P, paid
    <3>3. QED
      BY <2>1, <3>1, <3>2, RowsOf
  <2>5. ASSUME NEW l \in Ages, Cardinality(Unpaid(PledgesMatching(w))) <= AgingRows
        PROVE  IF ListedAt(w, l) = {} THEN l \notin DOMAIN report.aging
               ELSE report.aging[l] = [count |-> Cardinality(ListedAt(w, l)),
                      outstanding |-> SumOf(ListedAt(w, l), "remaining")]
    BY <2>5, AgesAgree
  <2>6. "fulfilled" \notin DOMAIN report.aging
    <3>1. /\ DOMAIN report.aging
               = {PledgeRow(p, pledge[p].paid).lifecycle : p \in AtMost(AgingRows, Unpaid(P))}
          /\ AtMost(AgingRows, Unpaid(P)) \in SUBSET Unpaid(P)
      <4>1. IsFiniteSet(Unpaid(P))
        BY <2>1, FiniteIds, FS_Subset DEF Unpaid
      <4>2. DOMAIN report.aging
              = {PledgeRow(p, pledge[p].paid).lifecycle : p \in AtMost(AgingRows, Unpaid(P))}
        BY DEF PledgesReport
      <4>3. AgingRows \in Nat
        BY DEF AgingRows
      <4> HIDE DEF P, report
      <4>4. QED
        BY <4>1, <4>2, <4>3, AtMostIs
    <3>2. ASSUME NEW p \in Unpaid(P)
          PROVE  PledgeRow(p, pledge[p].paid).lifecycle # "fulfilled"
      <4>1. /\ p \in Pledges /\ pledge[p].paid \in Int
            /\ pledge[p].status = "ACTIVE" /\ pledge[p].paid < pledge[p].pledged
        BY <2>1, <3>2 DEF Unpaid, TablesOK, PledgeColumns
      <4>2. PledgeRow(p, pledge[p].paid).lifecycle \in Ages
        BY <4>1, LifecycleIs
      <4>3. QED
        BY <4>2 DEF Ages
    <3> HIDE DEF report, P
    <3>3. QED
      BY <3>1, <3>2
  <2>7. ASSUME NEW s \in Statuses
        PROVE  SumOver([m \in Members |-> Stats(t, m)[s]], "count")
                 = PledgesReport(t, None, None).statusBreakdown[s].count
    <3>1. PledgesReport(t, None, None).statusBreakdown[s].count
            = Cardinality({p \in PledgesMatching(Made(t, None, None)) : pledge[p].status = s})
      BY DEF PledgesReport, ByStatus
    <3>2. QED
      BY <3>1, StatsAddUp
  <2> HIDE DEF w, P, list, report, paid
  <2>8. QED
    BY <2>2, <2>3, <2>4, <2>5, <2>6, <2>7 DEF w, list, report
<1>2. QED
  BY <1>1, TablesAreTyped, PTL

(***************************************************************************)
(* The most urgent pledges.                                                *)
(***************************************************************************)
LEMMA SampleIs ==
  ASSUME NEW t, NEW from, NEW to, NEW limit \in Nat
  PROVE  /\ Candidates(t, from, to) \in SUBSET Pledges
         /\ Sample(t, from, to, limit) \in SUBSET Candidates(t, from, to)
         /\ Cardinality(Candidates(t, from, to)) <= SampleSize(limit)
              => Sample(t, from, to, limit) = Candidates(t, from, to)
<1> DEFINE P == Candidates(t, from, to)
           n == SampleSize(limit)
<1>1. P \in SUBSET Pledges /\ IsFiniteSet(P)
  BY FiniteIds, FS_Subset DEF Candidates, Unpaid, PledgesMatching
<1>2. n \in Nat
  <2>1. 6 * limit \in Nat
    OBVIOUS
  <2>2. QED
    BY <2>1, MaxOfTwo DEF SampleSize
<1>3. Sample(t, from, to, limit) = AtMost(n, P)
  BY DEF Sample
<1> HIDE DEF P, n
<1>4. AtMost(n, P) \in SUBSET P /\ (Cardinality(P) <= n => AtMost(n, P) = P)
  BY <1>1, <1>2, AtMostIs
<1>5. QED
  BY <1>1, <1>3, <1>4 DEF P, n

(* A row that can be ranked: its age is due, its deadline a day. *)
Ranked(x) ==
  /\ x.lifecycle \in {"past-due", "due-soon", "on-track"}
  /\ x.deadline \in Int /\ x.remaining \in Int

LEMMA MoreUrgentIsStrict ==
  ASSUME NEW S, \A x \in S : Ranked(x),
         NEW before, before = {two \in S \X S : MoreUrgent(two[1], two[2])}
  PROVE  /\ StrictOn(before, S)
         /\ \A x, y \in S : <<x, y>> \in before <=> MoreUrgent(x, y)
<1>1. \A x, y \in S : <<x, y>> \in before <=> MoreUrgent(x, y)
  BY Zenon
<1>2. ASSUME NEW x \in S PROVE Rank(x.lifecycle) \in Int
  BY <1>2 DEF Ranked, Rank
<1>3. ASSUME NEW x \in S PROVE ~MoreUrgent(x, x)
  BY <1>2, <1>3 DEF MoreUrgent, Ranked
<1>4. ASSUME NEW x \in S, NEW y \in S, NEW z \in S, MoreUrgent(x, y), MoreUrgent(y, z)
      PROVE  MoreUrgent(x, z)
  <2>1. /\ Rank(x.lifecycle) \in Int /\ Rank(y.lifecycle) \in Int /\ Rank(z.lifecycle) \in Int
        /\ Ranked(x) /\ Ranked(y) /\ Ranked(z)
    BY <1>2
  <2>2. QED
    BY <1>4, <2>1 DEF MoreUrgent, Ranked
<1>5. QED
  BY <1>1, <1>3, <1>4 DEF StrictOn

LEMMA DeadlineType ==
  ASSUME TablesOK, NEW p \in Pledges
  PROVE  /\ Deadline(p) \in Int \cup {None} /\ None \notin Int
         /\ pledge[p].campaign \in Campaigns
         /\ pledge[p].item # None => pledge[p].item \in Items
         /\ pledge[p].pledged \in Int /\ pledge[p].paid \in Int
<1>1. /\ pledge[p].campaign \in Campaigns /\ pledge[p].item \in Items \cup {None}
      /\ pledge[p].pledged \in Int /\ pledge[p].paid \in Int
  BY DEF TablesOK, PledgeColumns
<1>2. campaign[pledge[p].campaign].deadline \in Int \cup {None}
  BY <1>1 DEF TablesOK, CampaignColumns, Deadlines
<1>3. pledge[p].item # None => item[pledge[p].item].deadline \in Int \cup {None}
  BY <1>1 DEF TablesOK, ItemColumns, Deadlines
<1>4. None \notin Int
  BY TablesAssumption
<1>5. QED
  BY <1>1, <1>2, <1>3, <1>4 DEF Deadline

(* The rows among which the most urgent are sought. *)
Pressing(t, from, to, limit) ==
  {x \in RowsWith(Sample(t, from, to, limit), PaidNow) :
     \/ x.lifecycle \in {"past-due", "due-soon"}
     \/ x.lifecycle = "on-track" /\ x.deadline - Today <= 30}

LEMMA PressingRows ==
  ASSUME TablesOK, NEW t, NEW from, NEW to, NEW limit \in Nat
  PROVE  /\ IsFiniteSet(Pressing(t, from, to, limit))
         /\ \A x \in Pressing(t, from, to, limit) : Ranked(x) /\ x.deadline - Today <= 30
<1> DEFINE S == Sample(t, from, to, limit)
<1>1. S \in SUBSET Pledges /\ \A p \in S : PaidNow[p] \in Int /\ PaidNow[p] = pledge[p].paid
  BY SampleIs, DeadlineType DEF PaidNow
<1>2. IsFiniteSet(Pressing(t, from, to, limit))
  <2> HIDE DEF S
  <2>1. IsFiniteSet(RowsWith(S, PaidNow))
    BY <1>1, RowsOf
  <2>2. QED
    BY <2>1, FS_Subset DEF Pressing, S
<1>3. ASSUME NEW x \in Pressing(t, from, to, limit)
      PROVE  Ranked(x) /\ x.deadline - Today <= 30
  <2>1. PICK p \in S : x = PledgeRow(p, PaidNow[p])
    BY DEF Pressing, RowsWith
  <2>2. p \in Pledges /\ PaidNow[p] \in Int
    BY <1>1, <2>1
  <2>3. /\ x.deadline = Deadline(p)
        /\ x.lifecycle = Lifecycle(pledge[p].status, pledge[p].pledged, PaidNow[p], Deadline(p))
        /\ x.remaining = Max({0, pledge[p].pledged - PaidNow[p]})
    BY <2>1 DEF PledgeRow
  <2>4. Deadline(p) \in Int \cup {None} /\ None \notin Int /\ pledge[p].pledged \in Int
    BY <2>2, DeadlineType
  <2>5. x.remaining \in Int
    <3> DEFINE d == pledge[p].pledged - PaidNow[p]
    <3>1. d \in Int
      BY <2>2, <2>4
    <3> HIDE DEF d
    <3>2. Max({0, d}) \in Int
      BY <3>1, MaxOfTwo
    <3>3. QED
      BY <2>3, <3>2 DEF d
  <2>6. \/ x.lifecycle \in {"past-due", "due-soon"}
        \/ x.lifecycle = "on-track" /\ x.deadline - Today <= 30
    BY <1>3 DEF Pressing
  <2>7. x.deadline \in Int
    BY <2>3, <2>4, <2>6 DEF Lifecycle
  <2>8. x.deadline - Today <= 30
    BY <2>3, <2>4, <2>6, <2>7, CalendarAssumption DEF Lifecycle
  <2>9. QED
    BY <2>5, <2>6, <2>7, <2>8 DEF Ranked
<1>4. QED
  BY <1>2, <1>3

LEMMA UrgentIs ==
  ASSUME TablesOK, NEW t, NEW from, NEW to, NEW limit \in Nat
  PROVE  LET listed == Urgent(t, from, to, limit)
             urgent == Pressing(t, from, to, limit)
         IN  /\ \A i, j \in DOMAIN listed : i < j => ~MoreUrgent(listed[j], listed[i])
             /\ Range(listed) \subseteq urgent
             /\ \A x \in urgent \ Range(listed) :
                  Len(listed) = limit /\ \A i \in DOMAIN listed : ~MoreUrgent(x, listed[i])
<1> DEFINE listed == Urgent(t, from, to, limit)
           urgent == Pressing(t, from, to, limit)
           before == {two \in urgent \X urgent : MoreUrgent(two[1], two[2])}
           s == Sorted(urgent, before)
           k == Cardinality(urgent)
           n == IF limit <= k THEN limit ELSE k
<1>1. listed = Top(limit, s)
  <2> DEFINE R == {PledgeRow(p, pledge[p].paid) : p \in Sample(t, from, to, limit)}
             U == {x \in R : \/ x.lifecycle \in {"past-due", "due-soon"}
                             \/ x.lifecycle = "on-track" /\ x.deadline - Today <= 30}
  <2>1. R = RowsWith(Sample(t, from, to, limit), PaidNow)
    BY SampleIs DEF RowsWith, PaidNow
  <2>2. listed = Top(limit, Sorted(U, {two \in U \X U : MoreUrgent(two[1], two[2])}))
    BY Zenon DEF Urgent
  <2> HIDE DEF R
  <2>3. U = urgent
    BY <2>1 DEF Pressing
  <2> HIDE DEF U, urgent
  <2>4. QED
    BY <2>2, <2>3
<1>2. IsFiniteSet(urgent) /\ \A x \in urgent : Ranked(x)
  BY PressingRows
<1>3. StrictOn(before, urgent) /\ \A x, y \in urgent : <<x, y>> \in before <=> MoreUrgent(x, y)
  <2> HIDE DEF urgent
  <2>1. QED
    BY <1>2, MoreUrgentIsStrict
<1> HIDE DEF before, urgent, listed
<1>4. IsArranged(s, urgent, before) /\ s \in Seq(urgent) /\ Len(s) = k /\ k \in Nat
  BY <1>2, <1>3, SortedIsArranged
<1> HIDE DEF s
<1>5. /\ s \in [1 .. k -> urgent] /\ Range(s) = urgent
      /\ \A i, j \in 1 .. k : i < j => <<s[j], s[i]>> \notin before
  BY <1>4 DEF IsArranged
<1>6. /\ Len(listed) = n /\ DOMAIN listed = 1 .. n
      /\ \A i \in 1 .. n : listed[i] = s[i]
  BY <1>1, <1>4, TopIs
<1>7. n \in Nat /\ n <= k /\ k \in Nat /\ (n < k => n = limit)
  BY <1>4
<1> HIDE DEF n, k
<1>8. \A i, j \in 1 .. k : i < j => ~MoreUrgent(s[j], s[i])
  BY <1>3, <1>5
<1>9. \A i \in 1 .. n : i \in 1 .. k /\ listed[i] = s[i] /\ s[i] \in urgent
  BY <1>5, <1>6, <1>7
<1>10. \A i, j \in DOMAIN listed : i < j => ~MoreUrgent(listed[j], listed[i])
  BY <1>6, <1>8, <1>9
<1>11. Range(listed) \subseteq urgent
  BY <1>6, <1>9 DEF Range
<1>12. ASSUME NEW x \in urgent \ Range(listed)
       PROVE  Len(listed) = limit /\ \A i \in DOMAIN listed : ~MoreUrgent(x, listed[i])
  <2>1. PICK j \in 1 .. k : x = s[j]
    BY <1>5, <1>12 DEF Range
  <2>2. j \notin 1 .. n
    BY <2>1, <1>6, <1>12 DEF Range
  <2>3. n < j /\ n < k
    BY <2>1, <2>2, <1>7
  <2>4. \A i \in 1 .. n : ~MoreUrgent(x, listed[i])
    BY <2>1, <2>3, <1>7, <1>8, <1>9
  <2>5. QED
    BY <2>3, <2>4, <1>6, <1>7
<1>13. QED
  BY <1>10, <1>11, <1>12 DEF listed, urgent

(* Whoever is due, with an item and a campaign that are live, is looked at.  *)
LEMMA DueIsPressing ==
  ASSUME TablesOK, NEW t, NEW from, NEW to, NEW limit \in Nat,
         Cardinality(Candidates(t, from, to)) <= SampleSize(limit),
         NEW p \in Unpaid(PledgesMatching(Made(t, from, to))),
         campaign[pledge[p].campaign].row = "live",
         pledge[p].item # None => item[pledge[p].item].row = "live",
         Deadline(p) # None, Deadline(p) - Today <= 30
  PROVE  PledgeRow(p, pledge[p].paid) \in Pressing(t, from, to, limit)
<1> DEFINE x == PledgeRow(p, pledge[p].paid)
<1>1. p \in Pledges /\ pledge[p].status = "ACTIVE" /\ pledge[p].paid < pledge[p].pledged
  BY DEF Unpaid, PledgesMatching
<1>2. /\ Deadline(p) \in Int /\ Deadline(p) <= Horizon
      /\ pledge[p].paid \in Int /\ pledge[p].pledged \in Int
  <2>1. Deadline(p) \in Int /\ pledge[p].paid \in Int /\ pledge[p].pledged \in Int
    BY <1>1, DeadlineType
  <2>2. QED
    BY <2>1, CalendarAssumption DEF Horizon
<1>3. Candidate(p)
  <2>1. CASE pledge[p].item # None /\ item[pledge[p].item].deadline # None
    BY <2>1, <1>2 DEF Candidate, Due, Deadline
  <2>2. CASE pledge[p].item # None /\ item[pledge[p].item].deadline = None
    BY <2>2, <1>2 DEF Candidate, Due, Deadline
  <2>3. CASE pledge[p].item = None
    BY <2>3, <1>2 DEF Candidate, Due, Deadline
  <2>4. QED
    BY <2>1, <2>2, <2>3
<1>4. p \in Sample(t, from, to, limit)
  <2>1. p \in Candidates(t, from, to)
    BY <1>3 DEF Candidates
  <2>2. QED
    BY <2>1, SampleIs
<1>5. x \in RowsWith(Sample(t, from, to, limit), PaidNow)
  BY <1>1, <1>4 DEF RowsWith, PaidNow
<1>6. /\ x.lifecycle \in {"past-due", "due-soon", "on-track"}
      /\ x.deadline = Deadline(p)
  BY <1>1, <1>2 DEF PledgeRow, Lifecycle
<1> HIDE DEF x
<1>7. QED
  BY <1>5, <1>6 DEF Pressing, x

(* "The most urgent active pledges": none is listed before one that is more  *)
(* pressing, all are due within thirty days, and none is left out for one    *)
(* that is less, unless there are more than the sample holds.                *)
THEOREM UrgentStaysUrgent == TablesSpec => []UrgentIsUrgent
<1>1. TablesOK => UrgentIsUrgent
  <2> SUFFICES ASSUME TablesOK, NEW t \in Churches, NEW from \in Days \cup {None}, NEW limit \in Limits
               PROVE  LET listed == Urgent(t, from, None, limit)
                          open == {PledgeRow(p, pledge[p].paid) :
                                     p \in {p \in Unpaid(PledgesMatching(Made(t, from, None))) :
                                              /\ campaign[pledge[p].campaign].row = "live"
                                              /\ pledge[p].item # None => item[pledge[p].item].row = "live"}}
                          due == {x \in open : x.deadline # None /\ x.deadline - Today <= 30}
                      IN  /\ \A i, j \in DOMAIN listed : i < j => ~MoreUrgent(listed[j], listed[i])
                          /\ \A x \in Range(listed) : x.deadline - Today <= 30
                          /\ Cardinality(Candidates(t, from, None)) <= SampleSize(limit) =>
                               \A x \in due \ Range(listed) :
                                 Len(listed) = limit /\ \A i \in DOMAIN listed : ~MoreUrgent(x, listed[i])
    BY Zenon DEF UrgentIsUrgent
  <2> DEFINE listed == Urgent(t, from, None, limit)
             urgent == Pressing(t, from, None, limit)
             live(p) == /\ campaign[pledge[p].campaign].row = "live"
                        /\ pledge[p].item # None => item[pledge[p].item].row = "live"
             unpaid == Unpaid(PledgesMatching(Made(t, from, None)))
             open == {PledgeRow(p, pledge[p].paid) : p \in {p \in unpaid : live(p)}}
             due == {x \in open : x.deadline # None /\ x.deadline - Today <= 30}
  <2>1. limit \in Nat
    BY TablesAssumption
  <2>2. /\ \A i, j \in DOMAIN listed : i < j => ~MoreUrgent(listed[j], listed[i])
        /\ Range(listed) \subseteq urgent
        /\ \A x \in urgent \ Range(listed) :
             Len(listed) = limit /\ \A i \in DOMAIN listed : ~MoreUrgent(x, listed[i])
    BY <2>1, UrgentIs
  <2>3. \A x \in urgent : x.deadline - Today <= 30
    BY <2>1, PressingRows
  <2>4. ASSUME Cardinality(Candidates(t, from, None)) <= SampleSize(limit), NEW x \in due
        PROVE  x \in urgent
    <3>1. PICK p \in unpaid : live(p) /\ x = PledgeRow(p, pledge[p].paid)
      BY <2>4
    <3>2. x.deadline = Deadline(p)
      BY <3>1 DEF PledgeRow
    <3>3. Deadline(p) # None /\ Deadline(p) - Today <= 30
      BY <3>2, <2>4
    <3>4. QED
      BY <2>1, <2>4, <3>1, <3>3, DueIsPressing
  <2> HIDE DEF listed, urgent, due
  <2>5. QED
    BY <2>2, <2>3, <2>4 DEF listed, due
<1>2. QED
  BY <1>1, TablesAreTyped, PTL

(***************************************************************************)
(* Pages that show all the rows of a list.                                 *)
(***************************************************************************)
LEMMA GiftPageIs ==
  ASSUME TablesOK, NEW w
  PROVE  /\ Range(GiftPage(w, None, None).items) = Matching(w)
         /\ GiftPage(w, None, None).total = Cardinality(Matching(w))
         /\ GiftPage(w, None, None).sum = Amount(Matching(w))
<1> DEFINE G == Matching(w)
           later == {two \in Gifts \X Gifts : gift[two[1]].day > gift[two[2]].day}
           s == Sorted(G, later)
<1>1. G \in SUBSET Gifts /\ IsFiniteSet(G)
  BY FiniteIds, FS_Subset DEF Matching
<1>2. \A g, h \in Gifts : <<g, h>> \in later <=> gift[g].day > gift[h].day
  BY Zenon
<1>3. GiftPage(w, None, None) = Page(s, Bucket(G).count, Bucket(G).total, None, None)
  BY DEF GiftPage, List
<1> HIDE DEF later, G
<1>4. StrictOn(later, G)
  <2>1. \A g \in G : g \in Gifts /\ gift[g].day \in Int
    BY <1>1, DaysAreInt
  <2>2. QED
    BY <1>2, <2>1 DEF StrictOn
<1>5. s \in Seq(G) /\ Range(s) = G
  BY <1>1, <1>4, SortedIsArranged DEF IsArranged
<1> HIDE DEF s
<1>6. /\ GiftPage(w, None, None).items = s
      /\ GiftPage(w, None, None).total = Bucket(G).count /\ GiftPage(w, None, None).sum = Bucket(G).total
  BY <1>3, <1>5, WholePage
<1>7. QED
  BY <1>5, <1>6, BucketIs DEF G

LEMMA PledgePageIs ==
  ASSUME TablesOK, NEW w
  PROVE  /\ Range(PledgePage(w, None, None).items) = PledgeList(w).items
         /\ PledgePage(w, None, None).total = Cardinality(PledgesMatching(w))
         /\ PledgePage(w, None, None).sum = Promised(PledgesMatching(w))
<1> DEFINE P == PledgesMatching(w)
           rows == PledgeList(w).items
           later == {two \in rows \X rows : pledge[two[1].id].day > pledge[two[2].id].day}
           s == Sorted(rows, later)
           paid == [p \in P |-> LiveSum(p)]
<1>1. P \in SUBSET Pledges
  BY DEF PledgesMatching
<1>2. \A p \in P : paid[p] \in Int
  <2>1. \A p : {g \in Gifts : gift[g].row = "live" /\ gift[g].pledge = p} \in SUBSET Gifts
    OBVIOUS
  <2>2. \A p : LiveSum(p) \in Nat
    BY <2>1, AmountType DEF LiveSum
  <2>3. QED
    BY <2>2
<1>3. rows = RowsWith(P, paid) /\ PledgeList(w).total = Cardinality(P) /\ PledgeList(w).sum = Promised(P)
  BY DEF PledgeList, RowsWith
<1>4. \A x, y \in rows : <<x, y>> \in later <=> pledge[x.id].day > pledge[y.id].day
  BY Zenon
<1>5. PledgePage(w, None, None) = Page(s, PledgeList(w).total, PledgeList(w).sum, None, None)
  BY DEF PledgePage
<1> HIDE DEF later, P, rows, paid
<1>6. IsFiniteSet(rows)
  BY <1>1, <1>2, <1>3, RowsOf
<1>7. StrictOn(later, rows)
  <2>1. \A x \in rows : pledge[x.id].day \in Int
    <3>1. ASSUME NEW x \in rows
          PROVE  x.id \in Pledges
      <4>1. PICK p \in P : x = PledgeRow(p, paid[p])
        BY <1>3 DEF RowsWith
      <4>2. x.id = p
        BY <4>1 DEF PledgeRow
      <4>3. QED
        BY <4>2, <1>1
    <3>2. QED
      BY <3>1, DaysAreInt
  <2>2. QED
    BY <1>4, <2>1 DEF StrictOn
<1>8. s \in Seq(rows) /\ Range(s) = rows
  BY <1>6, <1>7, SortedIsArranged DEF IsArranged
<1> HIDE DEF s
<1>9. /\ PledgePage(w, None, None).items = s
      /\ PledgePage(w, None, None).total = PledgeList(w).total
      /\ PledgePage(w, None, None).sum = PledgeList(w).sum
  BY <1>5, <1>8, WholePage
<1>10. QED
  BY <1>3, <1>8, <1>9 DEF P, rows

(***************************************************************************)
(* What the members gave, with what nobody is named for, is all of it.     *)
(***************************************************************************)
GivenBy(G, m) == {g \in G : gift[g].member = m}

LEMMA MembersAddUp ==
  ASSUME TablesOK, NEW G \in SUBSET Gifts,
         NEW h, \A m \in Members : h[m] = Amount(GivenBy(G, m)),
         NEW c, \A m \in Members : c[m] = Cardinality(GivenBy(G, m))
  PROVE  LET nobody == Bucket(GivenBy(G, None))
         IN  /\ SumFunctionOnSet(h, Members) + nobody.total = Amount(G)
             /\ SumFunctionOnSet(c, Members) + nobody.count = Cardinality(G)
<1> DEFINE N == {g \in G : gift[g].member # None}
           O == GivenBy(G, None)
           key == [g \in Gifts |-> gift[g].member]
           f == [g \in Gifts |-> gift[g].amount]
<1>1. N \in SUBSET G /\ N \in SUBSET Gifts /\ IsFiniteSet(N) /\ O = G \ N
  BY FiniteIds, FS_Subset DEF GivenBy
<1>2. \A g \in N : key[g] \in Members
  BY DEF TablesOK, GiftColumns
<1>3. IntOn(f, N)
  BY DEF TablesOK, GiftColumns, IntOn
<1>4. \A m \in Members : GivenBy(G, m) = Part(N, key, m)
  BY TablesAssumption DEF Part, GivenBy
<1>5. \A H : Amount(H) = SumFunctionOnSet(f, H)
  BY DEF Amount
<1> HIDE DEF N, O, key, f
<1>6. /\ \A m \in Members : h[m] = SumFunctionOnSet(f, Part(N, key, m))
      /\ \A m \in Members : c[m] = Cardinality(Part(N, key, m))
  BY <1>4, <1>5
<1>7. SumFunctionOnSet(h, Members) = SumFunctionOnSet(f, N)
  BY <1>1, <1>2, <1>3, <1>6, FiniteIds, SumByKey
<1>8. SumFunctionOnSet(c, Members) = Cardinality(N)
  BY <1>1, <1>2, <1>6, FiniteIds, SizeByKey
<1>9. Amount(G) = Amount(N) + Amount(O) /\ Cardinality(G) = Cardinality(N) + Cardinality(O)
  BY <1>1, AmountSplit
<1>10. QED
  BY <1>5, <1>7, <1>8, <1>9, BucketIs DEF O

LEMMA OwnGiftsAddUp ==
  ASSUME TablesOK, NEW t
  PROVE  LET everything == GiftPage(Always(t), None, None)
             nobody == Unattributed(t, Today - Lifetime, Today + Lifetime).anonymous
             mine == [m \in Members |-> MyGifts(t, m, Always(t), None, None)]
         IN  /\ Totals(mine).total + nobody.total = everything.sum
             /\ Totals(mine).count + nobody.count = everything.total
<1> DEFINE w == Always(t)
           G == Matching(w)
           mine == [m \in Members |-> MyGifts(t, m, w, None, None)]
           h == [m \in DOMAIN mine |-> mine[m]["sum"]]
           c == [m \in DOMAIN mine |-> mine[m]["total"]]
           nobody == Unattributed(t, Today - Lifetime, Today + Lifetime).anonymous
<1>1. G \in SUBSET Gifts
  BY DEF Matching
<1>2. nobody = Bucket(GivenBy(G, None))
  BY DEF Unattributed, Always, GivenBy
<1>3. ASSUME NEW m \in Members
      PROVE  /\ h[m] = Amount(GivenBy(G, m))
             /\ c[m] = Cardinality(GivenBy(G, m))
  <2> DEFINE v == [w EXCEPT !.church = t, !.member = m]
  <2>1. MyGifts(t, m, w, None, None) = GiftPage(v, None, None)
    BY TablesAssumption DEF MyGifts
  <2>2. Matching(v) = GivenBy(G, m)
    <3>1. /\ w.member = Unfiltered /\ v.member = m /\ v.church = w.church /\ v.from = w.from
          /\ v.to = w.to /\ v.campaign = w.campaign /\ v.type = w.type /\ v.state = w.state
      BY DEF Always, Window
    <3> HIDE DEF v, w
    <3>2. Matching(v) = {g \in Matching(w) : gift[g].member = m}
      BY <3>1, MatchingMember
    <3>3. QED
      BY <3>2 DEF GivenBy
  <2>3. h[m] = GiftPage(v, None, None).sum /\ c[m] = GiftPage(v, None, None).total
    BY <2>1
  <2> HIDE DEF v, h, c
  <2>4. QED
    BY <2>2, <2>3, GiftPageIs
<1>4. Totals(mine).total = SumFunctionOnSet(h, Members) /\ Totals(mine).count = SumFunctionOnSet(c, Members)
  BY DEF Totals, SumOver
<1>5. GiftPage(w, None, None).sum = Amount(G) /\ GiftPage(w, None, None).total = Cardinality(G)
  BY GiftPageIs
<1> HIDE DEF G, mine, h, c, nobody, w
<1>6. /\ SumFunctionOnSet(h, Members) + Bucket(GivenBy(G, None)).total = Amount(G)
      /\ SumFunctionOnSet(c, Members) + Bucket(GivenBy(G, None)).count = Cardinality(G)
  BY <1>1, <1>3, MembersAddUp
<1>7. QED
  BY <1>2, <1>4, <1>5, <1>6 DEF mine, nobody, w

LEMMA TwoMonthsSummary ==
  ASSUME NEW t, NEW q, q.from = None, q.to = None, q.months = 2, q.lifetime = FALSE,
         q.member \in Members \cup {Unfiltered},
         q.campaign = Unfiltered, q.type = Unfiltered, q.state = "live"
  PROVE  LET G == Matching(Window(t, FirstDay(2), LastDay))
         IN  /\ q.member = Unfiltered => StaffSummary(t, q).all = Bucket(G)
             /\ q.member # Unfiltered => StaffSummary(t, q).all = Bucket(GivenBy(G, q.member))
<1> DEFINE w == Window(t, FirstDay(2), LastDay)
           v == [church |-> t, from |-> FirstDay(2), to |-> LastDay, member |-> q.member,
                 campaign |-> q.campaign, type |-> q.type, state |-> q.state]
           window == Resolved(None, None, 2, FALSE)
<1>1. Default(q.months, 12) = 2
  BY TablesAssumption DEF Default
<1>2. window = [from |-> FirstDay(2), to |-> LastDay, monthly |-> TRUE]
  <2>1. \A n \in 1 .. 24 :
          Resolved(None, None, n, FALSE) = [from |-> FirstDay(n), to |-> LastDay, monthly |-> TRUE]
    BY LastMonths
  <2>2. 2 \in 1 .. 24
    OBVIOUS
  <2>3. QED
    BY <2>1, <2>2, Zenon
<1>3. StaffSummary(t, q) = Summary([church |-> t, from |-> window.from, to |-> window.to, member |-> q.member,
               campaign |-> q.campaign, type |-> q.type, state |-> q.state], window.monthly)
  BY <1>1 DEF StaffSummary
<1> HIDE DEF window
<1>4. StaffSummary(t, q) = Summary(v, TRUE)
  BY <1>2, <1>3
<1>5. Summary(v, TRUE).all = Bucket(Matching(v))
  BY DEF Summary
<1>6. /\ w.member = Unfiltered /\ v.member = q.member /\ v.church = w.church /\ v.from = w.from
      /\ v.to = w.to /\ v.campaign = w.campaign /\ v.type = w.type /\ v.state = w.state
  BY DEF Window
<1> HIDE DEF v, w
<1>7. CASE q.member = Unfiltered
  <2>1. Matching(v) = Matching(w)
    BY <1>6, <1>7 DEF Matching
  <2>2. QED
    BY <1>4, <1>5, <1>7, <2>1 DEF w
<1>8. CASE q.member # Unfiltered
  <2>1. Matching(v) = {g \in Matching(w) : gift[g].member = q.member}
    BY <1>6, <1>8, MatchingMember
  <2>2. QED
    BY <1>4, <1>5, <1>8, <2>1 DEF w, GivenBy
<1>9. QED
  BY <1>7, <1>8

LEMMA OwnSummariesAddUp ==
  ASSUME TablesOK, NEW t
  PROVE  LET own == [m \in Members |-> MySummary(t, m, None, None, 2).all]
             window == Resolved(None, None, 2, FALSE)
         IN  SumOver(own, "total") + Unattributed(t, window.from, window.to).anonymous.total
               = StaffSummary(t, [NoFilters EXCEPT !.months = 2]).all.total
<1> DEFINE w == Window(t, FirstDay(2), LastDay)
           G == Matching(w)
           own == [m \in Members |-> MySummary(t, m, None, None, 2).all]
           h == [m \in DOMAIN own |-> own[m]["total"]]
           c == [m \in Members |-> Cardinality(GivenBy(G, m))]
           window == Resolved(None, None, 2, FALSE)
<1>1. G \in SUBSET Gifts
  BY DEF Matching
<1>2. window = [from |-> FirstDay(2), to |-> LastDay, monthly |-> TRUE]
  <2>1. \A n \in 1 .. 24 :
          Resolved(None, None, n, FALSE) = [from |-> FirstDay(n), to |-> LastDay, monthly |-> TRUE]
    BY LastMonths
  <2>2. 2 \in 1 .. 24
    OBVIOUS
  <2>3. QED
    BY <2>1, <2>2, Zenon
<1>3. ASSUME NEW m \in Members
      PROVE  h[m] = Amount(GivenBy(G, m))
  <2> DEFINE q == [NoFilters EXCEPT !.from = None, !.to = None, !.months = 2, !.member = m]
  <2>1. MySummary(t, m, None, None, 2) = StaffSummary(t, q)
    BY TablesAssumption DEF MySummary
  <2>2. /\ q.from = None /\ q.to = None /\ q.months = 2 /\ q.lifetime = FALSE /\ q.member = m
        /\ q.campaign = Unfiltered /\ q.type = Unfiltered /\ q.state = "live" /\ m # Unfiltered
    BY TablesAssumption DEF NoFilters
  <2>3. h[m] = StaffSummary(t, q).all.total
    BY <2>1
  <2> HIDE DEF q, h
  <2>4. StaffSummary(t, q).all = Bucket(GivenBy(G, m))
    BY <2>2, TwoMonthsSummary
  <2>5. QED
    BY <2>3, <2>4, BucketIs
<1>4. StaffSummary(t, [NoFilters EXCEPT !.months = 2]).all = Bucket(G)
  <2> DEFINE q == [NoFilters EXCEPT !.months = 2]
  <2>1. /\ q.from = None /\ q.to = None /\ q.months = 2 /\ q.lifetime = FALSE /\ q.member = Unfiltered
        /\ q.campaign = Unfiltered /\ q.type = Unfiltered /\ q.state = "live"
    BY DEF NoFilters
  <2> HIDE DEF q
  <2>2. StaffSummary(t, q).all = Bucket(G)
    BY <2>1, TwoMonthsSummary
  <2>3. QED
    BY <2>2 DEF q
<1>5. Unattributed(t, FirstDay(2), LastDay).anonymous = Bucket(GivenBy(G, None))
  BY DEF Unattributed, GivenBy
<1>6. SumOver(own, "total") = SumFunctionOnSet(h, Members)
  BY DEF SumOver
<1>7. \A m \in Members : c[m] = Cardinality(GivenBy(G, m))
  OBVIOUS
<1> HIDE DEF G, own, h, c, w, window
<1>8. SumFunctionOnSet(h, Members) + Bucket(GivenBy(G, None)).total = Amount(G)
  BY <1>1, <1>3, <1>7, MembersAddUp
<1>9. window.from = FirstDay(2) /\ window.to = LastDay
  BY <1>2
<1>10. QED
  BY <1>4, <1>5, <1>6, <1>8, <1>9, BucketIs DEF own, window

LEMMA MyPledgesAre ==
  ASSUME TablesOK, NEW t, NEW m \in Members,
         NEW w, w = Made(t, None, None), NEW P, P = PledgesMatching(w)
  PROVE  /\ MyPledges(t, m, w, None, None).sum = Promised({p \in P : pledge[p].member = m})
         /\ MyPledges(t, m, w, None, None).total = Cardinality({p \in P : pledge[p].member = m})
<1> DEFINE v == [w EXCEPT !.church = t, !.member = m]
<1>1. MyPledges(t, m, w, None, None) = PledgePage(v, None, None)
  BY TablesAssumption DEF MyPledges
<1>2. /\ w.member = Unfiltered /\ v.member = m /\ v.church = w.church /\ v.from = w.from
      /\ v.to = w.to /\ v.state = w.state /\ v.campaign = w.campaign /\ v.item = w.item
      /\ v.status = w.status
  BY DEF Made
<1> HIDE DEF v
<1>3. PledgesMatching(v) = {p \in P : pledge[p].member = m}
  BY <1>2, MatchingPledges
<1>4. QED
  BY <1>1, <1>3, PledgePageIs

LEMMA OwnPledgesAddUp ==
  ASSUME TablesOK, NEW t
  PROVE  LET promised == PledgePage(Made(t, None, None), None, None)
         IN  Totals([m \in Members |-> MyPledges(t, m, Made(t, None, None), None, None)])
               = [total |-> promised.sum, count |-> promised.total]
<1> DEFINE w == Made(t, None, None)
           P == PledgesMatching(w)
           key == [p \in Pledges |-> pledge[p].member]
           f == [p \in Pledges |-> pledge[p].pledged]
           pages == [m \in Members |-> MyPledges(t, m, w, None, None)]
           h == [m \in DOMAIN pages |-> pages[m]["sum"]]
           c == [m \in DOMAIN pages |-> pages[m]["total"]]
<1>1. P \in SUBSET Pledges /\ IsFiniteSet(P) /\ IntOn(f, P)
  <2>1. P \in SUBSET Pledges
    BY DEF PledgesMatching
  <2>2. QED
    BY <2>1, PledgeSums
<1>2. \A p \in P : key[p] \in Members
  BY <1>1 DEF TablesOK, PledgeColumns
<1>3. \A Q : Promised(Q) = SumFunctionOnSet(f, Q)
  BY DEF Promised
<1>4. \A m : {p \in P : pledge[p].member = m} = Part(P, key, m)
  BY <1>1 DEF Part
<1>5. \A m \in Members : h[m] = MyPledges(t, m, w, None, None).sum /\ c[m] = MyPledges(t, m, w, None, None).total
  OBVIOUS
<1>6. Totals(pages) = [total |-> SumFunctionOnSet(h, Members), count |-> SumFunctionOnSet(c, Members)]
  BY DEF Totals, SumOver
<1>7. \A m \in Members : /\ h[m] = Promised({p \in P : pledge[p].member = m})
                         /\ c[m] = Cardinality({p \in P : pledge[p].member = m})
  <2> HIDE DEF h, c
  <2>1. QED
    BY <1>5, MyPledgesAre
<1> HIDE DEF P, key, f, h, c, w, pages
<1>8. \A m \in Members : /\ h[m] = SumFunctionOnSet(f, Part(P, key, m))
                         /\ c[m] = Cardinality(Part(P, key, m))
  BY <1>3, <1>4, <1>7
<1>9. SumFunctionOnSet(h, Members) = SumFunctionOnSet(f, P)
  BY <1>1, <1>2, <1>8, FiniteIds, SumByKey
<1>10. SumFunctionOnSet(c, Members) = Cardinality(P)
  BY <1>1, <1>2, <1>8, FiniteIds, SizeByKey
<1>11. PledgePage(w, None, None).sum = Promised(P) /\ PledgePage(w, None, None).total = Cardinality(P)
  BY PledgePageIs DEF P
<1>12. QED
  BY <1>3, <1>6, <1>9, <1>10, <1>11 DEF pages, w

LEMMA OwnPagesAddUpHere ==
  ASSUME TablesOK, NEW t
  PROVE  OwnPagesAddUp(t)
BY OwnGiftsAddUp, OwnSummariesAddUp, OwnPledgesAddUp DEF OwnPagesAddUp

(***************************************************************************)
(* The staff's page of a member.                                           *)
(***************************************************************************)
LEMMA ReadableIs ==
  ASSUME TablesOK, NEW t
  PROVE  /\ \A m \in Members : Readable(member, t, m, FALSE) <=> m \in MemberPage(t, "live")
         /\ \A m \in Members : member[m] # NotFound
         /\ \A c \in Campaigns : /\ Readable(campaign, t, c, FALSE) <=> c \in CampaignPage(t, "live")
                                 /\ Readable(campaign, t, c, TRUE) <=> c \in CampaignPage(t, "all")
<1>1. \A m \in Members : member[m] \in MemberColumns
  BY DEF TablesOK
<1>2. \A m \in Members : member[m].row \in Kept
  BY <1>1 DEF MemberColumns
<1>3. \A m \in Members : member[m] # NotFound
  <2>1. \A m \in Members : DOMAIN member[m] = {"row", "church", "role"}
    BY <1>1 DEF MemberColumns
  <2>2. DOMAIN NotFound = {"error"}
    BY DEF NotFound
  <2>3. QED
    BY <2>1, <2>2
<1>4. \A c \in Campaigns : campaign[c].row \in Kept
  BY DEF TablesOK, CampaignColumns
<1>5. QED
  BY <1>2, <1>3, <1>4 DEF Readable, MemberPage, CampaignPage, InState, Kept

LEMMA MemberPledgesAgree ==
  ASSUME TablesOK, NEW t, NEW m \in Members
  PROVE  LET w == Made(t, None, None)
             stats == Stats(t, m)
             all == MyPledges(t, m, w, None, None)
         IN  /\ SumOver(stats, "pledged") = all.sum
             /\ \A s \in Statuses :
                  stats[s].count = MyPledges(t, m, [w EXCEPT !.status = s], None, None).total
             /\ (\A p \in Pledges : pledge[p].row = "live" => pledge[p].paid = LiveSum(p)) =>
                  SumOver(stats, "paid") = SumOf(Range(all.items), "paid")
<1> DEFINE w == Made(t, None, None)
           v == [w EXCEPT !.church = t, !.member = m]
           q == [w EXCEPT !.member = m]
           P == PledgesMatching(v)
<1>1. P \in SUBSET Pledges
  BY DEF PledgesMatching
<1>2. Stats(t, m) = ByStatus(PledgesMatching(q))
  BY DEF Stats
<1>3. PledgesMatching(q) = P
  <2>1. /\ q.church = v.church /\ q.from = v.from /\ q.to = v.to /\ q.state = v.state
        /\ q.member = v.member /\ q.campaign = v.campaign /\ q.item = v.item
        /\ q.status = v.status
    BY DEF Made
  <2> HIDE DEF q, v
  <2>2. QED
    BY <2>1 DEF PledgesMatching
<1>4. MyPledges(t, m, w, None, None) = PledgePage(v, None, None)
  BY TablesAssumption DEF MyPledges
<1>5. /\ PledgePage(v, None, None).sum = Promised(P)
      /\ Range(PledgePage(v, None, None).items) = PledgeList(v).items
  BY PledgePageIs
<1>6. SumOver(ByStatus(P), "pledged") = Promised(P) /\ SumOver(ByStatus(P), "paid") = Stored(P)
  BY <1>1, StatusesAddUp
<1>7. ASSUME NEW s \in Statuses
      PROVE  ByStatus(P)[s].count = MyPledges(t, m, [w EXCEPT !.status = s], None, None).total
  <2> DEFINE u == [[w EXCEPT !.status = s] EXCEPT !.church = t, !.member = m]
  <2>1. MyPledges(t, m, [w EXCEPT !.status = s], None, None).total = Cardinality(PledgesMatching(u))
    BY PledgePageIs, TablesAssumption DEF MyPledges
  <2>2. /\ v.status = Unfiltered /\ u.status = s /\ u.church = v.church /\ u.from = v.from
        /\ u.to = v.to /\ u.state = v.state /\ u.campaign = v.campaign /\ u.item = v.item
        /\ u.member = v.member
    BY DEF Made
  <2>3. s # Unfiltered
    BY TablesAssumption
  <2> HIDE DEF u, v, w
  <2>4. PledgesMatching(u) = {p \in P : pledge[p].status = s}
    BY <2>2, <2>3 DEF PledgesMatching
  <2>5. ByStatus(P)[s].count = Cardinality({p \in P : pledge[p].status = s})
    BY DEF ByStatus
  <2>6. QED
    BY <2>1, <2>4, <2>5
<1>8. ASSUME \A p \in Pledges : pledge[p].row = "live" => pledge[p].paid = LiveSum(p)
      PROVE  Stored(P) = SumOf(PledgeList(v).items, "paid")
  <2>1. \A p \in P : pledge[p].row = "live"
    <3>1. v.state = "live"
      BY DEF Made
    <3> HIDE DEF v
    <3>2. \A p \in P : InState(pledge[p].row, "live")
      BY <3>1 DEF PledgesMatching
    <3>3. \A p \in Pledges : pledge[p].row \in Kept \cup {"absent"}
      BY DEF TablesOK, PledgeColumns
    <3>4. QED
      BY <1>1, <3>2, <3>3 DEF InState, Kept
  <2>2. PaidFully(P)
    BY <1>1, <1>8, <2>1 DEF PaidFully
  <2> HIDE DEF P, v
  <2>3. PledgeList(v).items = RowsWith(P, PaidNow) /\ \A p \in P : PaidNow[p] \in Int
    BY <2>2, ListRows DEF P
  <2>4. SumOf(RowsWith(P, PaidNow), "paid") = SumFunctionOnSet(PaidNow, P)
    BY <1>1, <2>3, RowsOf
  <2>5. QED
    BY <2>3, <2>4 DEF Stored, PaidNow
<1> HIDE DEF w, v, P, q
<1>9. QED
  BY <1>2, <1>3, <1>4, <1>5, <1>6, <1>7, <1>8 DEF w

LEMMA MemberPageAgreesHere ==
  ASSUME TablesOK, NEW t, NEW m \in Members
  PROVE  MemberPageAgrees(t, m)
<1> DEFINE page == MemberSummary(t, m)
           w == Always(t)
           v == [w EXCEPT !.church = t, !.member = m]
           q == [w EXCEPT !.member = m]
           stats == Stats(t, m)
<1>1. CASE m \notin MemberPage(t, "live")
  <2>1. page = NotFound
    BY <1>1, ReadableIs DEF MemberSummary, OneMember
  <2>2. QED
    BY <1>1, <2>1 DEF MemberPageAgrees
<1>2. CASE m \in MemberPage(t, "live")
  <2>1. page = MemberFigures(t, m)
    BY <1>2, ReadableIs DEF MemberSummary, OneMember
  <2>2. page.gifts = Bucket(Matching(q))
    BY <2>1 DEF MemberFigures, Summary, Always
  <2>3. /\ \A s \in Statuses : page.count[s] = stats[s].count
        /\ page.pledged = SumOver(stats, "pledged") /\ page.paid = SumOver(stats, "paid")
    BY <2>1 DEF MemberFigures
  <2>4. Matching(q) = Matching(v)
    <3>1. /\ q.church = v.church /\ q.from = v.from /\ q.to = v.to /\ q.member = v.member
          /\ q.campaign = v.campaign /\ q.type = v.type /\ q.state = v.state
      BY DEF Always, Window
    <3> HIDE DEF q, v
    <3>2. QED
      BY <3>1 DEF Matching
  <2>5. MyGifts(t, m, w, None, None) = GiftPage(v, None, None)
    BY TablesAssumption DEF MyGifts
  <2> HIDE DEF page, v, q, stats, w
  <2>6. page.gifts = [total |-> GiftPage(v, None, None).sum, count |-> GiftPage(v, None, None).total]
    BY <2>2, <2>4, GiftPageIs DEF Bucket
  <2> DEFINE mine(s) == MyPledges(t, m, [Made(t, None, None) EXCEPT !.status = s], None, None)
             all == mine(Unfiltered)
             settled == \A p \in Pledges : pledge[p].row = "live" => pledge[p].paid = LiveSum(p)
  <2>7. all = MyPledges(t, m, Made(t, None, None), None, None)
    <3>1. [Made(t, None, None) EXCEPT !.status = Unfiltered] = Made(t, None, None)
      BY DEF Made
    <3>2. QED
      BY <3>1
  <2>8. \A s \in Statuses : stats[s].count = mine(s).total
    BY MemberPledgesAgree DEF stats
  <2>9. SumOver(stats, "pledged") = all.sum
    BY <2>7, MemberPledgesAgree DEF stats
  <2>10. settled => SumOver(stats, "paid") = SumOf(Range(all.items), "paid")
    <3> HIDE DEF all
    <3>1. QED
      BY <2>7, MemberPledgesAgree DEF stats
  <2>11. /\ \A s \in Statuses : page.count[s] = mine(s).total
         /\ page.pledged = all.sum
         /\ settled => page.paid = SumOf(Range(all.items), "paid")
    <3> HIDE DEF all, settled, mine
    <3>1. QED
      BY <2>3, <2>8, <2>9, <2>10
  <2>12. QED
    BY <1>2, <2>5, <2>6, <2>11 DEF MemberPageAgrees, page, w
<1>3. QED
  BY <1>1, <1>2

(***************************************************************************)
(* What a list shows can be opened.                                        *)
(***************************************************************************)
LEMMA PagesAreFound ==
  /\ \A g : ShownGift(g) # NotFound
  /\ \A c : Progress(c) # NotFound
  /\ \A c, state : [items |-> ItemPage(c, state)] # NotFound
  /\ \A t : MyChurchSummary(t) # NotFound
<1>1. DOMAIN NotFound = {"error"}
  BY DEF NotFound
<1>2. \A g : DOMAIN ShownGift(g) = {"id", "member", "campaign", "item"}
  BY DEF ShownGift
<1>3. \A c : DOMAIN Progress(c) = {"goal", "pledged", "raised", "pledgeCount", "items"}
  BY DEF Progress
<1>4. \A c, state : DOMAIN [items |-> ItemPage(c, state)] = {"items"}
  OBVIOUS
<1>5. \A t : DOMAIN MyChurchSummary(t)
               = {"thisMonth", "byTypeThisMonth", "lastMonth", "yearToDate", "memberCount"}
  BY DEF MyChurchSummary
<1>6. \A g : ShownGift(g) # NotFound
  BY <1>1, <1>2
<1>7. \A c : Progress(c) # NotFound
  BY <1>1, <1>3
<1>8. \A c, state : [items |-> ItemPage(c, state)] # NotFound
  BY <1>1, <1>4
<1>9. \A t : MyChurchSummary(t) # NotFound
  BY <1>1, <1>5
<1>10. QED
  BY <1>6, <1>7, <1>8, <1>9

LEMMA ListsOpenHere ==
  ASSUME TablesOK, NEW t \in Churches, NEW state \in {"live", "archived", "all"}
  PROVE  ListsOpen(t, state)
<1> DEFINE w == [Always(t) EXCEPT !.state = state]
           shown == Range(GiftPage(w, None, None).items)
           kept == CampaignPage(t, IF state = "live" THEN "live" ELSE "all")
<1>1. ASSUME NEW g \in Gifts, state # "archived"
      PROVE  OneGift(t, g, state = "all") = NotFound <=> (g \in shown) = FALSE
  <2>1. /\ w.church = t /\ w.from .. w.to = AllTime /\ w.state = state
        /\ w.member = Unfiltered /\ w.campaign = Unfiltered /\ w.type = Unfiltered
    BY DEF Always, Window, AllTime
  <2>2. shown = Matching(w)
    BY GiftPageIs
  <2>3. gift[g].day \in AllTime /\ gift[g].row \in Kept \cup {"absent"}
    BY DEF TablesOK, GiftColumns
  <2> HIDE DEF w, shown
  <2>4. g \in Matching(w) <=> InState(gift[g].row, state) /\ gift[g].church = t
    BY <2>1, <2>3 DEF Matching
  <2>5. Readable(gift, t, g, state = "all") <=> g \in shown
    BY <1>1, <2>2, <2>3, <2>4 DEF Readable, InState, Kept
  <2>6. QED
    BY <2>5, PagesAreFound DEF OneGift
<1>2. ASSUME NEW c \in Campaigns
      PROVE  /\ OneCampaign(t, c, state) = NotFound <=> (c \in kept) = FALSE
             /\ ProgressPage(t, c) = NotFound <=> (c \in CampaignPage(t, "live")) = FALSE
  <2>1. /\ Readable(campaign, t, c, FALSE) <=> c \in CampaignPage(t, "live")
        /\ Readable(campaign, t, c, TRUE) <=> c \in CampaignPage(t, "all")
    BY ReadableIs
  <2>2. Readable(campaign, t, c, state # "live") <=> c \in kept
    <3>1. CASE state = "live"
      BY <2>1, <3>1
    <3>2. CASE state # "live"
      BY <2>1, <3>2
    <3>3. QED
      BY <3>1, <3>2
  <2> HIDE DEF kept
  <2>3. OneCampaign(t, c, state) = NotFound <=> (c \in kept) = FALSE
    BY <2>2, PagesAreFound DEF OneCampaign
  <2>4. OneCampaign(t, c, "live") = NotFound <=> (c \in CampaignPage(t, "live")) = FALSE
    <3>1. ("live" # "live") = FALSE
      OBVIOUS
    <3>2. OneCampaign(t, c, "live")
            = IF Readable(campaign, t, c, FALSE) THEN [items |-> ItemPage(c, "live")] ELSE NotFound
      BY <3>1, Zenon DEF OneCampaign
    <3>3. CASE c \in CampaignPage(t, "live")
      BY <2>1, <3>2, <3>3, PagesAreFound
    <3>4. CASE c \notin CampaignPage(t, "live")
      <4>1. ~ Readable(campaign, t, c, FALSE)
        BY <2>1, <3>4
      <4>2. OneCampaign(t, c, "live") = NotFound
        BY <3>2, <4>1
      <4>3. QED
        BY <3>4, <4>2
    <3>5. QED
      BY <3>3, <3>4
  <2>5. ProgressPage(t, c) = NotFound <=> (c \in CampaignPage(t, "live")) = FALSE
    BY <2>4, PagesAreFound DEF ProgressPage
  <2>6. QED
    BY <2>3, <2>5
<1>3. ChurchPage(t) = NotFound <=> (t \in DOMAIN ChurchList("live")) = FALSE
  BY TenantListIs, PagesAreFound DEF ChurchPage, ChurchList
<1>4. QED
  BY <1>1, <1>2, <1>3 DEF ListsOpen

(***************************************************************************)
(* The windows that pages fill in.                                         *)
(***************************************************************************)
LEMMA DefaultsAgreeHere ==
  ASSUME TablesOK, NEW t
  PROVE  DefaultsAgree(t)
<1> DEFINE rows == GiversPage(t, None, None, None)
           from == FirstDay(12)
           trend == TrendPage(t, Members, None)
<1>1. rows = Givers(t, from, Today, 50)
  BY DEF GiversPage, Default, FirstDay
<1>2. trend = Trend(t, Members, 12)
  BY DEF TrendPage, Default
<1>3. /\ from \in Int /\ LastDay \in Int /\ from <= Today /\ Today <= LastDay /\ Today \in Int
      /\ MonthOf(LastDay) = MonthOf(Today)
  <2>1. 12 \in 1 .. 24
    OBVIOUS
  <2>2. \A n \in 1 .. 24 : /\ FirstDay(n) \in Int /\ LastDay \in Int /\ FirstDay(n) <= Today
                           /\ Today <= LastDay /\ MonthOf(LastDay) = MonthOf(Today)
    BY LastMonths
  <2>3. QED
    BY <2>1, <2>2, CalendarAssumption, Zenon
<1>4. MonthsBetween(from, Today) = MonthsBetween(from, LastDay)
  BY <1>3 DEF MonthsBetween
<1> DEFINE w == Window(t, from, Today)
           all == Window(t, from, LastDay)
<1>5. ASSUME \A g \in GiftsOf(t) : gift[g].row = "live" => gift[g].day <= Today,
             NEW giver \in Range(rows)
      PROVE  giver.monthly = trend[giver.member]
  <2>1. PICK m \in Members : giver = GiverRow(t, from, Today, m)
    <3>1. rows = [i \in 1 .. Len(Ranking(t, from, Today, 50)) |->
                    GiverRow(t, from, Today, Ranking(t, from, Today, 50)[i])]
      BY <1>1 DEF Givers
    <3>2. \A i \in 1 .. Len(Ranking(t, from, Today, 50)) : Ranking(t, from, Today, 50)[i] \in Members
      <4> DEFINE totals == GiverTotals(t, from, Today)
                 r == Ranking(t, from, Today, 50)
      <4>1. DOMAIN totals \subseteq Members
        BY NamedIs
      <4> HIDE DEF totals, from
      <4>2. \A i \in DOMAIN r : r[i] \in DOMAIN totals /\ DOMAIN r = 1 .. Len(r)
        <5> DEFINE k == Cardinality(DOMAIN totals)
                   n == IF 50 <= k THEN 50 ELSE k
        <5>1. PICK s : /\ RankedAs(s, t, from, Today) /\ Len(r) = n
                       /\ DOMAIN r = 1 .. n /\ \A i \in 1 .. n : r[i] = s[i]
          <6>1. 50 \in Nat
            OBVIOUS
          <6>2. \A limit \in Nat : \E s :
                  LET l == IF limit <= k THEN limit ELSE k
                      u == Ranking(t, from, Today, limit)
                  IN  /\ RankedAs(s, t, from, Today) /\ Len(u) = l
                      /\ DOMAIN u = 1 .. l /\ \A i \in 1 .. l : u[i] = s[i]
            BY RankingIs DEF totals
          <6>3. QED
            BY <6>1, <6>2, Zenon
        <5>2. k \in Nat
          BY RankingIs DEF totals
        <5>3. \A i \in 1 .. Cardinality(DOMAIN totals) : s[i] \in DOMAIN totals
          BY <5>1 DEF RankedAs, totals
        <5>4. QED
          BY <5>1, <5>2, <5>3
      <4>3. Len(r) = Len(r) /\ \A i \in 1 .. Len(r) : i \in DOMAIN r
        BY RankingIs
      <4>4. QED
        BY <4>1, <4>2, <4>3
    <3> HIDE DEF rows, from
    <3>3. PICK i \in DOMAIN rows : giver = rows[i]
      BY DEF Range
    <3>4. QED
      BY <3>1, <3>2, <3>3
  <2> DEFINE G == {g \in Named(t, from, Today) : gift[g].member = m}
             H == {g \in Matching(all) : gift[g].member = m}
  <2>2. giver.member = m /\ giver.monthly = Series(G, from, Today)
    BY <2>1 DEF GiverRow
  <2>3. trend[m] = Series(H, from, LastDay)
    <3>1. 12 \in 1 .. 24
      OBVIOUS
    <3>2. \A n \in 1 .. 24 : Trend(t, Members, n)[m]
            = Series({g \in Matching(Window(t, FirstDay(n), LastDay)) : gift[g].member = m}, FirstDay(n), LastDay)
      BY TrendIs
    <3>3. QED
      BY <1>2, <3>1, <3>2, Zenon
  <2>4. G = H
    <3>1. /\ w.from = from /\ all.from = from /\ w.to = Today /\ all.to = LastDay
          /\ w.church = t /\ all.church = t /\ w.state = "live" /\ all.state = "live"
          /\ w.member = all.member /\ w.campaign = all.campaign /\ w.type = all.type
      BY DEF Window
    <3>2. Named(t, from, Today) = {g \in Matching(w) : gift[g].member # None}
      BY DEF Named
    <3>3. m # None
      BY TablesAssumption
    <3> HIDE DEF w, all, from
    <3>4. ASSUME NEW g \in Gifts
          PROVE  g \in Matching(w) <=> g \in Matching(all)
      <4>1. gift[g].day \in Int
        BY DaysAreInt
      <4>2. /\ gift[g].day \in from .. Today => gift[g].day \in from .. LastDay
            /\ gift[g].day \in from .. LastDay /\ gift[g].day <= Today => gift[g].day \in from .. Today
        BY <1>3, <4>1
      <4>3. InState(gift[g].row, "live") /\ gift[g].church = t => gift[g].day <= Today
        <5>1. gift[g].row \in {"live", "archived", "absent"}
          BY DEF TablesOK, GiftColumns, Kept
        <5>2. QED
          BY <1>5, <5>1 DEF InState, GiftsOf
      <4>4. QED
        BY <3>1, <4>2, <4>3 DEF Matching
    <3>5. Matching(w) = Matching(all)
      <4>1. Matching(w) \subseteq Gifts /\ Matching(all) \subseteq Gifts
        BY DEF Matching
      <4>2. QED
        BY <3>4, <4>1
    <3>6. QED
      BY <3>2, <3>3, <3>5
  <2> HIDE DEF G, H, from, trend
  <2>5. Series(G, from, Today) = Series(G, from, LastDay)
    BY <1>4 DEF Series
  <2>6. QED
    BY <2>2, <2>3, <2>4, <2>5
<1>6. QED
  BY <1>5 DEF DefaultsAgree

(* A month of a year, counted from the first of all, is as many months away  *)
(* as its number says.                                                       *)
LEMMA MonthCount ==
  ASSUME NEW year \in Int, NEW month \in Int
  PROVE  LET at == InMonth(year, month)
         IN  /\ at.year \in Int /\ at.month \in Int
             /\ 12 * at.year + at.month = 12 * year + month
<1> DEFINE k == month - 1
           q == k \div 12
           r == k % 12
<1>1. /\ InMonth(year, month).year = year + q /\ InMonth(year, month).month = r + 1
  BY DEF InMonth
<1>2. k \in Int /\ q \in Int /\ r \in Int /\ k = 12 * q + r
  <2>1. \A a \in Int : a \div 12 \in Int /\ a % 12 \in Int /\ a = 12 * (a \div 12) + (a % 12)
    OBVIOUS
  <2>2. k \in Int
    OBVIOUS
  <2>3. QED
    BY <2>1, <2>2
<1>3. month = k + 1
  OBVIOUS
<1> HIDE DEF k, q, r
<1>4. QED
  BY <1>1, <1>2, <1>3

LEMMA GiversWindowHere == GiversWindow
<1> SUFFICES ASSUME NEW year \in 2023 .. 2026, NEW month \in 1 .. 12,
                    NEW day \in 1 .. MonthLength(year, month)
             PROVE  LET today == [year |-> year, month |-> month, day |-> day]
                        from == GiversFrom(today)
                        ago == InMonth(year, month - 11)
                    IN  /\ from.day = 1
                        /\ Months(from, today) = IF day > MonthLength(ago.year, ago.month) THEN 11 ELSE 12
  BY DEF GiversWindow
<1> DEFINE today == [year |-> year, month |-> month, day |-> day]
           from == GiversFrom(today)
           ago == InMonth(year, month - 11)
           length == MonthLength(ago.year, ago.month)
           next == InMonth(ago.year, ago.month + 1)
<1>1. \A y, n : MonthLength(y, n) \in Int
  BY DEF MonthLength
<1>2. /\ year \in Int /\ month \in Int /\ month - 11 \in Int /\ length \in Int /\ day \in Int
  BY <1>1
<1>3. ago.year \in Int /\ ago.month \in Int /\ 12 * ago.year + ago.month = 12 * year + month - 11
  BY <1>2, MonthCount
<1>4. next.year \in Int /\ next.month \in Int /\ 12 * next.year + next.month = 12 * year + month - 10
  <2> DEFINE y == ago.year
             n == ago.month + 1
  <2>1. y \in Int /\ n \in Int /\ next = InMonth(y, n)
    BY <1>3
  <2> HIDE DEF ago, next, y, n
  <2>2. /\ next.year \in Int /\ next.month \in Int
        /\ 12 * next.year + next.month = 12 * y + n
    <3>1. y \in Int /\ n \in Int
      BY <2>1
    <3>2. 12 * InMonth(y, n).year + InMonth(y, n).month = 12 * y + n
      BY <3>1, MonthCount
    <3>3. InMonth(y, n).year \in Int
      BY <3>1, MonthCount
    <3>4. InMonth(y, n).month \in Int
      BY <3>1, MonthCount
    <3>5. QED
      BY <2>1, <3>2, <3>3, <3>4
  <2>3. QED
    BY <1>2, <1>3, <2>2 DEF y, n
<1>5. today.year = year /\ today.month = month /\ today.day = day
  OBVIOUS
<1>6. from = [SetUTCMonth(today, month - 11) EXCEPT !.day = 1]
  BY DEF GiversFrom
<1>7. SetUTCMonth(today, month - 11)
        = IF day - length > 0 THEN [year |-> next.year, month |-> next.month, day |-> day - length]
          ELSE [year |-> ago.year, month |-> ago.month, day |-> day]
  BY DEF SetUTCMonth
<1> HIDE DEF today, from, ago, length, next
<1>8. CASE day > length
  <2>1. day - length > 0
    BY <1>2, <1>8
  <2>2. from.year = next.year /\ from.month = next.month /\ from.day = 1
    BY <1>6, <1>7, <2>1
  <2>3. Months(from, today) = 11
    BY <1>2, <1>4, <1>5, <2>2 DEF Months
  <2>4. QED
    BY <1>8, <2>2, <2>3 DEF length, ago, from, today
<1>9. CASE ~ (day > length)
  <2>1. ~ (day - length > 0)
    BY <1>2, <1>9
  <2>2. from.year = ago.year /\ from.month = ago.month /\ from.day = 1
    BY <1>6, <1>7, <2>1
  <2>3. Months(from, today) = 12
    BY <1>2, <1>3, <1>5, <2>2 DEF Months
  <2>4. QED
    BY <1>9, <2>2, <2>3 DEF length, ago, from, today
<1>10. QED
  BY <1>8, <1>9

(* The pages of the members and of the staff tell the same of the same rows, *)
(* what is listed can be opened, and the reports that fill in a window of    *)
(* their own agree: whatever the tables hold.                                *)
THEOREM PagesStayInAgreement == TablesSpec => []PagesAgree
<1>1. TablesOK => PagesAgree
  <2> SUFFICES ASSUME TablesOK PROVE PagesAgree
    OBVIOUS
  <2>1. ASSUME NEW t \in Churches
        PROVE  /\ OwnPagesAddUp(t)
               /\ \A m \in Members : MemberPageAgrees(t, m)
               /\ \A state \in {"live", "archived", "all"} : ListsOpen(t, state)
               /\ DefaultsAgree(t)
    BY OwnPagesAddUpHere, MemberPageAgreesHere, ListsOpenHere, DefaultsAgreeHere
  <2>2. QED
    BY <2>1, GiversWindowHere DEF PagesAgree
<1>2. QED
  BY <1>1, TablesAreTyped, PTL
=============================================================================
