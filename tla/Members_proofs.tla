--------------------------- MODULE Members_proofs ---------------------------
(***************************************************************************)
(* Proofs about members: types, that a merge leaves nothing behind with    *)
(* the member it archives unless somebody else worked on that member       *)
(* meanwhile, and that no handler forgets the claims of a user whose       *)
(* membership it changed.                                                  *)
(***************************************************************************)
EXTENDS Members, TLAPS

Merges == [op : {"merge"}, keep : Ids, drop : Ids, user : Users \cup {Nobody},
           fields : SUBSET {"user", "contact"}, left : SUBSET {Gifts, Pledges}]

(* What a request at each place has in hand. *)
InHand(r) ==
  /\ pc[r] \in {"idle", "done", "failed", "read"} => job[r].op = "none"
  /\ pc[r] = "send" => job[r].op = "claims" /\ job[r].seen \in Claim
  /\ pc[r] = "save" => /\ job[r].op = "update" /\ job[r].id \in Ids
                       /\ job[r].role \in Roles \cup {Nobody}
  /\ pc[r] = "revive" => job[r].op = "restore" /\ job[r].id \in Ids
  /\ pc[r] = "record" => /\ job[r].op = "record" /\ job[r].id \in Ids
                         /\ job[r].holding \in Holdings
  /\ pc[r] = "erase" => job[r].op \in {"delete", "merge"}
  /\ job[r].op = "delete" => job[r].id \in Ids
  /\ pc[r] \in {"move", "patch", "drop"} => job[r].op = "merge"
  /\ job[r].op = "merge" =>
       /\ job[r] \in Merges /\ job[r].keep # job[r].drop
       /\ pc[r] # "move" => job[r].left = {}

Typed == TypeOK /\ DOMAIN job = Requests /\ \A r \in Requests : InHand(r)

(* The members a request names. *)
Names(r) ==
  IF job[r].op = "merge" THEN {job[r].keep, job[r].drop}
  ELSE IF job[r].op \in {"none", "claims"} THEN {} ELSE {job[r].id}

(* No two requests name one member, but for those that have met. *)
Alone == \A r, q \in Requests : r # q => Names(r) \cap Names(q) \subseteq met

(* The tables a merge has been through hold nothing for the dropped member. *)
Emptied ==
  \A r \in Requests : job[r].op = "merge" /\ job[r].drop \notin met =>
    \A table \in {Gifts, Pledges} \ job[r].left : \A h \in table :
      holding[h].row = "live" => holding[h].owner # job[r].drop

MergeInv == Typed /\ Alone /\ Emptied

-----------------------------------------------------------------------------
LEMMA MembershipIsClaim ==
  ASSUME TypeOK, NEW u \in Users
  PROVE  Membership(u) \in Claim
<1>1. CASE Memberships(u) = {}
  BY <1>1 DEF Membership, Claim
<1>2. CASE Memberships(u) # {}
  <2> DEFINE m == CHOOSE m \in Memberships(u) : TRUE
  <2>1. m \in Ids
    BY <1>2 DEF Memberships
  <2>2. member[m].role \in Roles
    BY <2>1 DEF TypeOK
  <2>3. Membership(u) = [member |-> m, role |-> member[m].role]
    BY <1>2 DEF Membership
  <2>4. QED
    BY <2>1, <2>2, <2>3 DEF Claim
<1>3. QED
  BY <1>1, <1>2

LEMMA LinkedIsSeq == \A u \in Users \cup {Nobody} : Linked(u) \in Seq(Users)
  BY DEF Linked

(* What a request names it is concerned with. *)
LEMMA NamesConcern ==
  ASSUME Typed, NEW r \in Requests
  PROVE  Names(r) \subseteq Concerned(r) /\ Names(r) \subseteq Ids
<1>1. pc[r] \in Places /\ InHand(r)
  BY DEF Typed, TypeOK
<1>2. Names(r) \subseteq Ids
  BY <1>1 DEF Names, InHand, Merges, Places
<1>3. Names(r) # {} => Working(r)
  BY <1>1 DEF Names, InHand, Places, Working
<1>4. Nobody \notin Ids
  BY PeopleAssumption
<1>5. QED
  BY <1>2, <1>3, <1>4 DEF Names, Concerned

-----------------------------------------------------------------------------
(* Types. *)

LEMMA MembersInit == Init => MergeInv
<1> SUFFICES ASSUME Init PROVE MergeInv
  OBVIOUS
<1>1. TypeOK
  <2>1. \A u \in Users : Membership(u) \in Claim
    <3> SUFFICES ASSUME NEW u \in Users PROVE Membership(u) \in Claim
      OBVIOUS
    <3>1. CASE Memberships(u) = {}
      BY <3>1 DEF Membership, Claim
    <3>2. CASE Memberships(u) # {}
      <4> DEFINE m == CHOOSE m \in Memberships(u) : TRUE
      <4>1. m \in Ids
        BY <3>2 DEF Memberships
      <4>2. member[m].role \in Roles
        BY <4>1 DEF Init
      <4>3. Membership(u) = [member |-> m, role |-> member[m].role]
        BY <3>2 DEF Membership
      <4>4. QED
        BY <4>1, <4>2, <4>3 DEF Claim
    <3>3. QED
      BY <3>1, <3>2
  <2>2. claims \in [Users -> Claim]
    BY <2>1 DEF Init
  <2>3. QED
    BY <2>2 DEF Init, TypeOK, Places
<1>2. Typed
  BY <1>1 DEF Init, Typed, InHand, NoJob
<1>3. Alone /\ Emptied
  BY DEF Init, Alone, Emptied, Names, NoJob
<1>4. QED
  BY <1>2, <1>3 DEF MergeInv

(* Request r goes to another place; the others stay where they are. *)
Steps(r, place, work) ==
  /\ pc' = [pc EXCEPT ![r] = place]
  /\ job' = [job EXCEPT ![r] = work]

LEMMA OthersStay ==
  ASSUME Typed, NEW r \in Requests, NEW place, NEW work, Steps(r, place, work)
  PROVE  /\ pc'[r] = place /\ job'[r] = work /\ DOMAIN job' = Requests
         /\ \A q \in Requests \ {r} : pc'[q] = pc[q] /\ job'[q] = job[q]
         /\ \A q \in Requests \ {r} : InHand(q)'
<1>1. /\ pc'[r] = place /\ job'[r] = work /\ DOMAIN job' = Requests
      /\ \A q \in Requests \ {r} : pc'[q] = pc[q] /\ job'[q] = job[q]
  BY DEF Steps, Typed, TypeOK
<1>2. QED
  BY <1>1 DEF Typed, InHand

LEMMA BeginTyped ==
  ASSUME Typed, NEW r \in Requests, Start(r)
  PROVE  Typed'
<1>1. CASE SignIn(r)
  <2>1. PICK u \in Users : queue' = [queue EXCEPT ![r] = <<u>>] /\ Meet({u})
    BY <1>1 DEF SignIn
  <2>2. met' \subseteq Ids \cup Users
    BY <2>1 DEF Meet, Typed, TypeOK
  <2>3. TypeOK'
    BY <1>1, <2>1, <2>2 DEF SignIn, Typed, TypeOK, Places, rows
  <2>4. \A q \in Requests : InHand(q)'
    BY <1>1 DEF SignIn, Typed, TypeOK, InHand
  <2>5. QED
    BY <1>1, <2>3, <2>4 DEF SignIn, Typed
<1>2. ASSUME NEW place \in {"save", "erase", "revive", "move", "record"}, NEW work,
             Begin(r, place, work), Links(work) \subseteq Ids \cup Users \cup {Nobody},
             place = "save" => /\ work.op = "update" /\ work.id \in Ids
                               /\ work.role \in Roles \cup {Nobody},
             place = "revive" => work.op = "restore" /\ work.id \in Ids,
             place = "record" => /\ work.op = "record" /\ work.id \in Ids
                                 /\ work.holding \in Holdings,
             place = "erase" => work.op = "delete" /\ work.id \in Ids,
             place = "move" => work \in Merges /\ work.keep # work.drop
      PROVE  Typed'
  <2>1. Steps(r, place, work)
    BY <1>2 DEF Begin, Steps
  <2>2. InHand(r)'
    BY <1>2, <2>1, OthersStay DEF InHand, Merges
  <2>3. met' \subseteq Ids \cup Users
    BY <1>2 DEF Begin, Meet, Typed, TypeOK
  <2>4. TypeOK'
    BY <1>2, <2>3 DEF Begin, Typed, TypeOK, Places, rows
  <2>5. QED
    BY <2>1, <2>2, <2>4, OthersStay DEF Typed
<1>3. \A m \in Ids : member[m].user \in Users \cup {Nobody} /\ member[m].role \in Roles
  BY DEF Typed, TypeOK
<1>4. CASE BeginUpdate(r)
  <2>1. PICK m \in Ids, role \in Roles \cup {Nobody} :
          Begin(r, "save", [op |-> "update", id |-> m, role |-> role, before |-> member[m].role])
    BY <1>4 DEF BeginUpdate
  <2>2. QED
    BY <1>2, <1>3, <2>1 DEF Links
<1>5. CASE BeginDelete(r)
  <2>1. PICK m \in Ids : Begin(r, "erase", [op |-> "delete", id |-> m])
    BY <1>5 DEF BeginDelete
  <2>2. QED
    BY <1>2, <1>3, <2>1 DEF Links
<1>6. CASE BeginRestore(r)
  <2>1. PICK m \in Ids : Begin(r, "revive", [op |-> "restore", id |-> m])
    BY <1>6 DEF BeginRestore
  <2>2. QED
    BY <1>2, <1>3, <2>1 DEF Links
<1>7. CASE BeginMerge(r)
  <2>1. PICK k \in Ids, d \in Ids, fields \in SUBSET {"user", "contact"} : k # d /\
          Begin(r, "move", [op |-> "merge", keep |-> k, drop |-> d, user |-> member[d].user,
                            fields |-> fields, left |-> {Gifts, Pledges}])
    BY <1>7 DEF BeginMerge, FieldsToCopy
  <2>2. QED
    BY <1>2, <1>3, <2>1 DEF Links, Merges
<1>8. CASE BeginRecord(r)
  <2>1. PICK m \in Ids, h \in Holdings :
          Begin(r, "record", [op |-> "record", id |-> m, holding |-> h])
    BY <1>8 DEF BeginRecord
  <2>2. QED
    BY <1>2, <1>3, <2>1 DEF Links
<1>9. QED
  BY <1>1, <1>4, <1>5, <1>6, <1>7, <1>8 DEF Start

(* A request that goes on names no more members than before, and keeps the *)
(* merge it is about.                                                      *)
GoesOn(r) ==
  /\ \A q \in Requests \ {r} : pc'[q] = pc[q] /\ job'[q] = job[q]
  /\ Names(r)' \subseteq Names(r)
  /\ job'[r].op = "merge" => job[r].op = "merge" /\ job'[r].drop = job[r].drop

(* Members and users are written, then the claims of those in `stale`.      *)
LEMMA WrittenTyped ==
  ASSUME Typed, NEW r \in Requests, NEW stale \in Seq(Users), Written(r, stale),
         member' \in [Ids -> [row : Rows, user : Users \cup {Nobody}, role : Roles]],
         holding' \in [Holdings -> [row : {"live", "archived"}, owner : Ids] \cup {NoHolding}],
         claims' = claims
  PROVE  Typed' /\ GoesOn(r) /\ met' = met /\ job'[r] = NoJob
<1> DEFINE place == IF stale = <<>> THEN "done" ELSE "read"
<1>1. Steps(r, place, NoJob)
  BY DEF Written, Steps
<1>2. /\ pc'[r] = place /\ job'[r] = NoJob /\ DOMAIN job' = Requests
      /\ \A q \in Requests \ {r} : pc'[q] = pc[q] /\ job'[q] = job[q] /\ InHand(q)'
  BY <1>1, OthersStay
<1>3. InHand(r)'
  BY <1>2 DEF InHand, NoJob
<1>4. TypeOK'
  BY DEF Written, Typed, TypeOK, Places
<1>5. Names(r)' = {}
  BY <1>2 DEF Names, NoJob
<1>6. QED
  BY <1>2, <1>3, <1>4, <1>5 DEF Typed, GoesOn, NoJob, Written

LEMMA FailTyped ==
  ASSUME Typed, NEW r \in Requests, Fail(r)
  PROVE  Typed' /\ GoesOn(r) /\ met' = met /\ job'[r] = NoJob
<1>1. Steps(r, "failed", NoJob)
  BY DEF Fail, Steps
<1>2. /\ pc'[r] = "failed" /\ job'[r] = NoJob /\ DOMAIN job' = Requests
      /\ \A q \in Requests \ {r} : pc'[q] = pc[q] /\ job'[q] = job[q] /\ InHand(q)'
  BY <1>1, OthersStay
<1>3. InHand(r)'
  BY <1>2 DEF InHand, NoJob
<1>4. TypeOK'
  BY DEF Fail, Typed, TypeOK, Places, rows
<1>5. Names(r)' = {}
  BY <1>2 DEF Names, NoJob
<1>6. QED
  BY <1>2, <1>3, <1>4, <1>5 DEF Typed, GoesOn, NoJob, Fail

LEMMA ClaimsTyped ==
  ASSUME Typed, NEW r \in Requests, Look(r) \/ Send(r)
  PROVE  Typed' /\ GoesOn(r) /\ met' = met /\ holding' = holding /\ job'[r].op # "merge"
<1>1. /\ queue[r] \in Seq(Users) /\ queue[r] # <<>>
      /\ Head(queue[r]) \in Users /\ Tail(queue[r]) \in Seq(Users)
  BY DEF Typed, TypeOK, Look, Send
<1>2. CASE Look(r)
  <2> DEFINE work == [op |-> "claims", seen |-> Membership(Head(queue[r]))]
  <2>1. Steps(r, "send", work)
    BY <1>2 DEF Look, Steps
  <2>2. /\ pc'[r] = "send" /\ job'[r] = work /\ DOMAIN job' = Requests
        /\ \A q \in Requests \ {r} : pc'[q] = pc[q] /\ job'[q] = job[q] /\ InHand(q)'
    BY <2>1, OthersStay
  <2>3. InHand(r)'
    BY <1>1, <2>2, MembershipIsClaim DEF InHand, Typed, Claim
  <2>4. TypeOK'
    BY <1>1, <1>2 DEF Look, Typed, TypeOK, Places, rows
  <2>5. QED
    BY <1>2, <2>2, <2>3, <2>4 DEF Typed, GoesOn, Names, Look, rows
<1>3. CASE Send(r)
  <2> DEFINE place == IF Tail(queue[r]) = <<>> THEN "done" ELSE "read"
  <2>1. Steps(r, place, NoJob)
    BY <1>3 DEF Send, Steps
  <2>2. /\ pc'[r] = place /\ job'[r] = NoJob /\ DOMAIN job' = Requests
        /\ \A q \in Requests \ {r} : pc'[q] = pc[q] /\ job'[q] = job[q] /\ InHand(q)'
    BY <2>1, OthersStay
  <2>3. InHand(r)'
    BY <2>2 DEF InHand, NoJob
  <2>4. job[r].seen \in Claim
    BY <1>3 DEF Send, Typed, InHand
  <2>5. TypeOK'
    BY <1>1, <1>3, <2>4 DEF Send, Typed, TypeOK, Places
  <2>6. QED
    BY <1>3, <2>2, <2>3, <2>5 DEF Typed, GoesOn, Names, Send, NoJob
<1>4. QED
  BY <1>2, <1>3

(* Update, delete and restore of a member, and the end of a merge.          *)
LEMMA MemberWritten ==
  ASSUME Typed, NEW r \in Requests, Save(r) \/ Erase(r) \/ Revive(r)
  PROVE  Typed' /\ GoesOn(r) /\ met' = met /\ holding' = holding /\ job'[r] = NoJob
<1>1. InHand(r) /\ \A m \in Ids : member[m].user \in Users \cup {Nobody}
  BY DEF Typed, TypeOK
<1>2. CASE Save(r)
  <2>1. StaleAfterUpdate(r) \in Seq(Users)
    BY <1>1, <1>2, LinkedIsSeq DEF Save, InHand, StaleAfterUpdate
  <2>2. member' \in [Ids -> [row : Rows, user : Users \cup {Nobody}, role : Roles]]
    <3> DEFINE m == job[r].id
               role == IF job[r].role = Nobody THEN member[m].role ELSE job[r].role
    <3>1. m \in Ids /\ member' = [member EXCEPT ![m].role = role]
      BY <1>1, <1>2 DEF Save, InHand
    <3>2. role \in Roles
      BY <1>1, <1>2, <3>1 DEF Save, InHand, Typed, TypeOK
    <3> HIDE DEF m, role
    <3>3. QED
      BY <3>1, <3>2 DEF Typed, TypeOK
  <2>3. QED
    BY <1>2, <2>1, <2>2, WrittenTyped DEF Save, Typed, TypeOK
<1>3. CASE Erase(r)
  <2>1. Erased(r) \in Ids /\ job[r].op \in {"delete", "merge"}
    BY <1>1, <1>3 DEF Erase, InHand, Erased, Merges
  <2>2. StaleAfterErase(r) \in Seq(Users)
    <3>1. CASE job[r].op = "delete"
      BY <1>1, <3>1, LinkedIsSeq DEF InHand, StaleAfterErase
    <3>2. CASE job[r].op = "merge"
      <4>1. Linked(job[r].user) \in Seq(Users)
        BY <1>1, <3>2, LinkedIsSeq DEF InHand, Merges
      <4>2. QED
        BY <3>2, <4>1 DEF StaleAfterErase
    <3>3. QED
      BY <2>1, <3>1, <3>2
  <2>3. member' \in [Ids -> [row : Rows, user : Users \cup {Nobody}, role : Roles]]
    BY <1>3, <2>1 DEF Erase, Typed, TypeOK, Rows
  <2>4. QED
    BY <1>3, <2>2, <2>3, WrittenTyped DEF Erase, Typed, TypeOK
<1>4. CASE Revive(r)
  <2>1. Linked(member[job[r].id].user) \in Seq(Users)
    BY <1>1, <1>4, LinkedIsSeq DEF Revive, InHand
  <2>2. member' \in [Ids -> [row : Rows, user : Users \cup {Nobody}, role : Roles]]
    BY <1>1, <1>4 DEF Revive, InHand, Typed, TypeOK, Rows
  <2>3. QED
    BY <1>4, <2>1, <2>2, WrittenTyped DEF Revive, Typed, TypeOK
<1>5. QED
  BY <1>2, <1>3, <1>4

(* The steps of a merge that go on to another.                              *)
LEMMA MergeGoesOn ==
  ASSUME Typed, NEW r \in Requests, Move(r) \/ Patch(r) \/ Drop(r)
  PROVE  Typed' /\ GoesOn(r) /\ met' = met
<1>1. InHand(r) /\ job[r].op = "merge"
  BY DEF Typed, InHand, Move, Patch, Drop
<1>2. ASSUME NEW place \in {"move", "patch", "drop", "erase"}, NEW work,
             Advance(r, place, work),
             work \in Merges, work.keep = job[r].keep, work.drop = job[r].drop,
             place # "move" => work.left = {},
             member' \in [Ids -> [row : Rows, user : Users \cup {Nobody}, role : Roles]],
             holding' \in [Holdings -> [row : {"live", "archived"}, owner : Ids] \cup {NoHolding}],
             claims' = claims
      PROVE  Typed' /\ GoesOn(r) /\ met' = met
  <2>1. Steps(r, place, work)
    BY <1>2 DEF Advance, Steps
  <2>2. /\ pc'[r] = place /\ job'[r] = work /\ DOMAIN job' = Requests
        /\ \A q \in Requests \ {r} : pc'[q] = pc[q] /\ job'[q] = job[q] /\ InHand(q)'
    BY <2>1, OthersStay
  <2>3. work.op = "merge"
    BY <1>2 DEF Merges
  <2>4. InHand(r)'
    BY <1>1, <1>2, <2>2, <2>3 DEF InHand
  <2>5. TypeOK'
    BY <1>2 DEF Advance, Typed, TypeOK, Places
  <2>6. QED
    BY <1>1, <1>2, <2>2, <2>3, <2>4, <2>5 DEF Typed, GoesOn, Names, Advance
<1>3. CASE Move(r)
  <2>1. PICK table \in job[r].left :
          /\ holding' = [h \in Holdings |->
               IF h \in Moved(r, table) THEN [holding[h] EXCEPT !.owner = job[r].keep]
               ELSE holding[h]]
          /\ LET work == [job[r] EXCEPT !.left = @ \ {table}]
             IN  Advance(r, IF work.left # {} THEN "move"
                            ELSE IF work.fields # {} THEN "patch" ELSE "drop", work)
    BY <1>3 DEF Move
  <2> DEFINE work == [job[r] EXCEPT !.left = @ \ {table}]
             place == IF work.left # {} THEN "move"
                      ELSE IF work.fields # {} THEN "patch" ELSE "drop"
  <2>2. holding' \in [Holdings -> [row : {"live", "archived"}, owner : Ids] \cup {NoHolding}]
    <3>1. ASSUME NEW h \in Holdings
          PROVE  holding'[h] \in [row : {"live", "archived"}, owner : Ids] \cup {NoHolding}
      <4>1. holding[h] \in [row : {"live", "archived"}, owner : Ids] \cup {NoHolding}
        BY DEF Typed, TypeOK
      <4>2. CASE h \in Moved(r, table)
        <5>1. holding[h] \in [row : {"live", "archived"}, owner : Ids]
          BY <4>1, <4>2 DEF Moved, NoHolding
        <5>2. holding'[h] = [holding[h] EXCEPT !.owner = job[r].keep]
          BY <2>1, <4>2
        <5>3. QED
          BY <1>1, <5>1, <5>2 DEF InHand, Merges
      <4>3. CASE h \notin Moved(r, table)
        BY <2>1, <4>1, <4>3
      <4>4. QED
        BY <4>2, <4>3
    <3>2. QED
      BY <2>1, <3>1
  <2>3. /\ Advance(r, place, work) /\ work \in Merges
        /\ work.keep = job[r].keep /\ work.drop = job[r].drop
    BY <1>1, <2>1 DEF InHand, Merges
  <2>4. place \in {"move", "patch", "drop", "erase"} /\ (place # "move" => work.left = {})
    OBVIOUS
  <2>5. member' \in [Ids -> [row : Rows, user : Users \cup {Nobody}, role : Roles]]
    BY <1>3 DEF Move, Typed, TypeOK
  <2>6. QED
    BY <1>2, <1>3, <2>2, <2>3, <2>4, <2>5 DEF Move
<1>4. CASE Patch(r)
  <2>1. job[r] \in Merges /\ job[r].left = {}
    BY <1>1, <1>4 DEF Patch, InHand
  <2>2. member' \in [Ids -> [row : Rows, user : Users \cup {Nobody}, role : Roles]]
    <3> DEFINE m == job[r].keep
               user == IF "user" \in job[r].fields THEN job[r].user ELSE member[m].user
    <3>1. m \in Ids /\ member' = [member EXCEPT ![m].user = user]
      BY <1>4, <2>1 DEF Patch, Merges
    <3>2. user \in Users \cup {Nobody}
      BY <2>1, <3>1 DEF Merges, Typed, TypeOK
    <3> HIDE DEF m, user
    <3>3. QED
      BY <3>1, <3>2 DEF Typed, TypeOK
  <2>3. QED
    BY <1>2, <1>4, <2>1, <2>2 DEF Patch, Typed, TypeOK
<1>5. CASE Drop(r)
  <2>1. job[r] \in Merges /\ job[r].left = {}
    BY <1>1, <1>5 DEF Drop, InHand
  <2>2. QED
    BY <1>2, <1>5, <2>1 DEF Drop, Typed, TypeOK, rows
<1>6. QED
  BY <1>3, <1>4, <1>5

LEMMA RecordTyped ==
  ASSUME Typed, NEW r \in Requests, Record(r)
  PROVE  Typed' /\ GoesOn(r) /\ met' = met /\ job'[r] = NoJob
<1>1. job[r].id \in Ids /\ job[r].holding \in Holdings
  BY DEF Record, Typed, InHand
<1>2. holding' \in [Holdings -> [row : {"live", "archived"}, owner : Ids] \cup {NoHolding}]
  BY <1>1 DEF Record, Typed, TypeOK
<1>3. <<>> \in Seq(Users)
  OBVIOUS
<1>4. QED
  BY <1>2, <1>3, WrittenTyped DEF Record, Typed, TypeOK

(* Steps of no request. *)
LEMMA OutsideTyped ==
  ASSUME Typed,
         (\E m \in Ids : CreateMember(m))
           \/ (\E h \in Holdings : Archive(h) \/ Restore(h) \/ Reattribute(h))
  PROVE  Typed' /\ pc' = pc /\ job' = job /\ met \subseteq met'
<1>1. CASE \E m \in Ids : CreateMember(m)
  BY <1>1 DEF CreateMember, Typed, TypeOK, InHand, Rows
<1>2. ASSUME NEW h \in Holdings, NEW row \in {"live", "archived"}, NEW m \in Ids,
             SetHolding(h, row, m)
      PROVE  Typed' /\ pc' = pc /\ job' = job /\ met \subseteq met'
  <2>1. met' \subseteq Ids \cup Users /\ met \subseteq met'
    BY <1>2 DEF SetHolding, Meet, Typed, TypeOK
  <2>2. TypeOK'
    BY <1>2, <2>1 DEF SetHolding, Typed, TypeOK
  <2>3. QED
    BY <1>2, <2>1, <2>2 DEF SetHolding, Typed, InHand
<1>3. ASSUME NEW h \in Holdings, holding[h].row \in {"live", "archived"}
      PROVE  holding[h].owner \in Ids
  BY <1>3 DEF Typed, TypeOK, NoHolding
<1>4. QED
  BY <1>1, <1>2, <1>3 DEF Archive, Restore, Reattribute

-----------------------------------------------------------------------------
(* Nobody else works on what a merge drops, and nothing new is given to it. *)

LEMMA AloneStays ==
  ASSUME Alone, met \subseteq met', NEW r \in Requests, GoesOn(r)
  PROVE  Alone'
BY DEF Alone, GoesOn, Names

(* A request that begins meets those it shares a member with. *)
LEMMA AloneBegins ==
  ASSUME Typed, Alone, NEW r \in Requests, NEW place, NEW work, Begin(r, place, work)
  PROVE  Alone'
<1>1. /\ job'[r] = work /\ \A q \in Requests \ {r} : job'[q] = job[q]
      /\ met' = met \cup ((Links(work) \ {Nobody}) \cap UNION {Concerned(q) : q \in Requests})
  BY DEF Begin, Meet, Typed
<1>2. Nobody \notin Ids
  BY PeopleAssumption
<1>3. ASSUME NEW q \in Requests \ {r}, NEW m \in Names(r)' \cap Names(q)
      PROVE  m \in met'
  <2>1. m \in Links(work)
    BY <1>1, <1>3 DEF Names, Links
  <2>2. m \in Concerned(q) /\ m # Nobody
    BY <1>2, <1>3, NamesConcern
  <2>3. QED
    BY <1>1, <2>1, <2>2
<1>4. \A q \in Requests \ {r} : Names(q)' = Names(q)
  BY <1>1 DEF Names
<1>5. ASSUME NEW a \in Requests, NEW q \in Requests, a # q, NEW m \in Names(a)' \cap Names(q)'
      PROVE  m \in met'
  <2>1. CASE a = r
    BY <1>3, <1>4, <1>5, <2>1
  <2>2. CASE q = r
    BY <1>3, <1>4, <1>5, <2>2
  <2>3. CASE a # r /\ q # r
    BY <1>1, <1>4, <1>5, <2>3 DEF Alone
  <2>4. QED
    BY <2>1, <2>2, <2>3
<1>6. QED
  BY <1>5 DEF Alone

(* Live rows that belong to m now did so before. *)
NoneGiven(m) ==
  \A h \in Holdings : holding'[h].row = "live" /\ holding'[h].owner = m =>
    holding[h].row = "live" /\ holding[h].owner = m

(* A step after which every merge is as far as it was. *)
LEMMA EmptiedStays ==
  ASSUME Emptied, met \subseteq met',
         \A q \in Requests : job'[q].op = "merge" =>
           \/ job'[q].left = {Gifts, Pledges}
           \/ job[q].op = "merge" /\ job'[q].drop = job[q].drop /\ job'[q].left = job[q].left,
         \A q \in Requests : job[q].op = "merge" /\ job[q].drop \notin met' => NoneGiven(job[q].drop)
  PROVE  Emptied'
BY DEF Emptied, NoneGiven, Holdings

(* Only what a request names is given to anyone. *)
LEMMA RecordGives ==
  ASSUME MergeInv, NEW r \in Requests, Record(r), NEW q \in Requests,
         job[q].op = "merge", job[q].drop \notin met
  PROVE  NoneGiven(job[q].drop)
<1>1. job[r].op = "record" /\ job[r].id \in Ids /\ job[r].holding \in Holdings
  BY DEF Record, MergeInv, Typed, InHand
<1>2. job[r].id # job[q].drop
  BY <1>1 DEF MergeInv, Alone, Names
<1>3. \A h \in Holdings : holding'[h] = holding[h] \/ holding'[h].owner = job[r].id
  BY <1>1 DEF Record, MergeInv, Typed, TypeOK
<1>4. QED
  BY <1>2, <1>3 DEF NoneGiven

LEMMA OutsideGives ==
  ASSUME MergeInv, NEW h \in Holdings, NEW row, NEW m \in Ids, SetHolding(h, row, m),
         NEW q \in Requests, job[q].op = "merge", job[q].drop \notin met'
  PROVE  NoneGiven(job[q].drop)
<1>1. job[q].drop \in Concerned(q)
  BY NamesConcern DEF MergeInv, Names
<1>2. m # job[q].drop
  BY <1>1 DEF SetHolding, Meet
<1>3. \A x \in Holdings : holding'[x] = holding[x] \/ holding'[x].owner = m
  BY DEF SetHolding, MergeInv, Typed, TypeOK
<1>4. QED
  BY <1>2, <1>3 DEF NoneGiven

(* Moving gives to the kept member, whom no other merge drops. *)
LEMMA MoveStep ==
  ASSUME MergeInv, NEW r \in Requests, Move(r)
  PROVE  Emptied'
<1>1. PICK table \in job[r].left :
        /\ holding' = [h \in Holdings |->
             IF h \in Moved(r, table) THEN [holding[h] EXCEPT !.owner = job[r].keep]
             ELSE holding[h]]
        /\ \E place : Advance(r, place, [job[r] EXCEPT !.left = @ \ {table}])
  BY DEF Move
<1>2. job[r] \in Merges /\ job[r].op = "merge" /\ job[r].keep # job[r].drop
  BY DEF Move, MergeInv, Typed, InHand
<1>3. /\ job'[r] = [job[r] EXCEPT !.left = @ \ {table}] /\ met' = met
      /\ \A q \in Requests \ {r} : job'[q] = job[q]
  BY <1>1 DEF Advance, MergeInv, Typed
<1>4. /\ job'[r].drop = job[r].drop /\ job'[r].left = job[r].left \ {table}
      /\ job'[r].op = "merge" /\ table \in {Gifts, Pledges}
  BY <1>1, <1>2, <1>3 DEF Merges
<1>5. ASSUME NEW h \in Holdings
      PROVE  /\ holding'[h] = holding[h] \/ holding'[h].owner = job[r].keep
             /\ h \in Moved(r, table) => holding'[h].owner = job[r].keep
             /\ h \notin Moved(r, table) => holding'[h] = holding[h]
  <2>1. holding[h] \in [row : {"live", "archived"}, owner : Ids] \cup {NoHolding}
    BY DEF MergeInv, Typed, TypeOK
  <2>2. CASE h \in Moved(r, table)
    <3>1. holding'[h] = [holding[h] EXCEPT !.owner = job[r].keep]
      BY <1>1, <2>2
    <3>2. holding'[h].owner = job[r].keep
      BY <2>1, <3>1 DEF NoHolding
    <3>3. QED
      BY <2>2, <3>2
  <2>3. CASE h \notin Moved(r, table)
    BY <1>1, <2>3
  <2>4. QED
    BY <2>2, <2>3
<1>6. ASSUME NEW q \in Requests, job'[q].op = "merge", job'[q].drop \notin met',
             NEW t \in {Gifts, Pledges} \ job'[q].left, NEW h \in t, holding'[h].row = "live"
      PROVE  holding'[h].owner # job'[q].drop
  <2>1. h \in Holdings
    BY <1>6 DEF Holdings
  <2>2. CASE q = r
    <3>1. CASE t = table
      <4>1. h \in Moved(r, table) => holding'[h].owner = job[r].keep
        BY <1>5, <2>1
      <4>2. h \notin Moved(r, table) => holding[h].owner # job[r].drop /\ holding'[h] = holding[h]
        BY <1>5, <1>6, <2>1, <3>1 DEF Moved
      <4>3. QED
        BY <1>2, <1>4, <2>2, <4>1, <4>2
    <3>2. CASE t # table
      <4>1. t \in {Gifts, Pledges} \ job[r].left
        BY <1>4, <1>6, <2>2, <3>2
      <4>2. holding[h].row = "live" => holding[h].owner # job[r].drop
        BY <1>2, <1>3, <1>4, <1>6, <2>2, <4>1 DEF MergeInv, Emptied
      <4>3. QED
        BY <1>2, <1>4, <1>5, <1>6, <2>1, <2>2, <4>2
    <3>3. QED
      BY <3>1, <3>2
  <2>3. CASE q # r
    <3>1. job'[q] = job[q] /\ job[q].drop \notin met
      BY <1>3, <1>6, <2>3
    <3>2. job[q].drop # job[r].keep
      BY <1>2, <1>6, <2>3, <3>1 DEF MergeInv, Alone, Names
    <3>3. holding[h].row = "live" => holding[h].owner # job[q].drop
      BY <1>6, <3>1 DEF MergeInv, Emptied
    <3>4. QED
      BY <1>5, <1>6, <2>1, <3>1, <3>2, <3>3
  <2>4. QED
    BY <2>2, <2>3
<1>7. QED
  BY <1>6 DEF Emptied

-----------------------------------------------------------------------------
LEMMA StartStep ==
  ASSUME MergeInv, NEW r \in Requests, Start(r)
  PROVE  MergeInv'
<1>1. Typed'
  BY BeginTyped DEF MergeInv
<1>2. CASE SignIn(r)
  <2>1. job' = job /\ holding' = holding /\ met \subseteq met'
    BY <1>2 DEF SignIn, Meet, rows
  <2>2. QED
    BY <1>1, <2>1 DEF MergeInv, Alone, Emptied, Names
<1>3. ASSUME NEW place, NEW work, Begin(r, place, work),
             work.op = "merge" => work.left = {Gifts, Pledges}
      PROVE  MergeInv'
  <2>1. Alone'
    BY <1>3, AloneBegins DEF MergeInv
  <2>2. /\ job'[r] = work /\ \A q \in Requests \ {r} : job'[q] = job[q]
        /\ holding' = holding /\ met \subseteq met'
    BY <1>3 DEF Begin, Meet, MergeInv, Typed, rows
  <2>3. Emptied'
    <3>1. \A q \in Requests : NoneGiven(job[q].drop)
      BY <2>2 DEF NoneGiven
    <3>2. QED
      BY <1>3, <2>2, <3>1, EmptiedStays DEF MergeInv
  <2>4. QED
    BY <1>1, <2>1, <2>3 DEF MergeInv
<1>4. CASE BeginUpdate(r) \/ BeginDelete(r) \/ BeginRestore(r) \/ BeginRecord(r)
  BY <1>3, <1>4 DEF BeginUpdate, BeginDelete, BeginRestore, BeginRecord
<1>5. CASE BeginMerge(r)
  BY <1>3, <1>5 DEF BeginMerge
<1>6. QED
  BY <1>2, <1>4, <1>5 DEF Start

LEMMA ProceedStep ==
  ASSUME MergeInv, NEW r \in Requests, Proceed(r) \/ Crash(r)
  PROVE  MergeInv'
<1>1. ASSUME Typed', GoesOn(r), met' = met, Emptied' PROVE MergeInv'
  BY <1>1, AloneStays DEF MergeInv
<1>2. ASSUME GoesOn(r), met' = met,
             job'[r].op = "merge" => job'[r].left = job[r].left,
             \A q \in Requests : job[q].op = "merge" /\ job[q].drop \notin met =>
               NoneGiven(job[q].drop)
      PROVE  Emptied'
  BY <1>2, EmptiedStays DEF MergeInv, GoesOn
<1>3. holding' = holding => \A q \in Requests : NoneGiven(job[q].drop)
  BY DEF NoneGiven
<1>4. CASE Look(r) \/ Send(r)
  BY <1>1, <1>2, <1>3, <1>4, ClaimsTyped DEF MergeInv
<1>5. CASE Save(r) \/ Erase(r) \/ Revive(r)
  BY <1>1, <1>2, <1>3, <1>5, MemberWritten DEF MergeInv, NoJob
<1>6. CASE Fail(r)
  <2>1. Typed' /\ GoesOn(r) /\ met' = met /\ job'[r] = NoJob
    BY <1>6, FailTyped DEF MergeInv
  <2>2. holding' = holding
    BY <1>6 DEF Fail, rows
  <2>3. QED
    BY <1>1, <1>2, <1>3, <2>1, <2>2 DEF NoJob
<1>7. CASE Record(r)
  BY <1>1, <1>2, <1>7, RecordTyped, RecordGives DEF MergeInv, NoJob
<1>8. CASE Move(r)
  BY <1>1, <1>8, MergeGoesOn, MoveStep DEF MergeInv
<1>9. CASE Patch(r) \/ Drop(r)
  <2>1. job'[r] = job[r] /\ holding' = holding
    BY <1>9 DEF Patch, Drop, Advance, MergeInv, Typed, rows
  <2>2. QED
    BY <1>1, <1>2, <1>3, <1>9, <2>1, MergeGoesOn DEF MergeInv
<1>10. QED
  BY <1>4, <1>5, <1>6, <1>7, <1>8, <1>9
  DEF Proceed, Crash, SaveGone, ReviveTaken, PatchRefused, DropGone

LEMMA OutsideStep ==
  ASSUME MergeInv,
         (\E m \in Ids : CreateMember(m))
           \/ (\E h \in Holdings : Archive(h) \/ Restore(h) \/ Reattribute(h))
  PROVE  MergeInv'
<1>1. Typed' /\ pc' = pc /\ job' = job /\ met \subseteq met'
  BY OutsideTyped DEF MergeInv
<1>2. Alone'
  BY <1>1 DEF MergeInv, Alone, Names
<1>3. CASE \E m \in Ids : CreateMember(m)
  <2>1. holding' = holding
    BY <1>3 DEF CreateMember
  <2>2. QED
    BY <1>1, <1>2, <2>1 DEF MergeInv, Emptied
<1>4. ASSUME NEW h \in Holdings, NEW row, NEW m \in Ids, SetHolding(h, row, m)
      PROVE  Emptied'
  BY <1>1, <1>4, OutsideGives, EmptiedStays DEF MergeInv
<1>5. ASSUME NEW h \in Holdings, holding[h].row \in {"live", "archived"}
      PROVE  holding[h].owner \in Ids
  BY <1>5 DEF MergeInv, Typed, TypeOK, NoHolding
<1>6. CASE \E h \in Holdings : Archive(h) \/ Restore(h) \/ Reattribute(h)
  BY <1>1, <1>2, <1>4, <1>5, <1>6 DEF MergeInv, Archive, Restore, Reattribute
<1>7. QED
  BY <1>3, <1>6

LEMMA MergeInvStep == MergeInv /\ [Next]_vars => MergeInv'
<1> SUFFICES ASSUME MergeInv, [Next]_vars PROVE MergeInv'
  OBVIOUS
<1>1. CASE UNCHANGED vars
  BY <1>1 DEF vars, MergeInv, Typed, TypeOK, InHand, Alone, Emptied, Names
<1>2. CASE Next
  BY <1>2, StartStep, ProceedStep, OutsideStep DEF Next
<1>3. QED
  BY <1>1, <1>2

LEMMA MergeInvHolds == Spec => []MergeInv
  BY MembersInit, MergeInvStep, PTL DEF Spec

(* Every variable keeps its type, whatever requests interleave or die.      *)
THEOREM MembersTypeOK == Spec => []TypeOK
<1>1. MergeInv => TypeOK
  BY DEF MergeInv, Typed
<1>2. QED
  BY <1>1, MergeInvHolds, PTL

(* When a merge comes to archive the dropped member, none of its live gifts *)
(* or pledges is left behind, in whatever order the two tables were done    *)
(* and whatever happened to other members, unless another request worked on *)
(* the dropped member meanwhile ("Move all transactions + pledges from drop *)
(* to keep", comment on merge).                                             *)
THEOREM MergeMovesAll == Spec => []MergeLeavesNone
<1>1. MergeInv => MergeLeavesNone
  <2> SUFFICES ASSUME MergeInv, NEW r \in Requests,
                      pc[r] \in {"patch", "drop", "erase"}, job[r].op = "merge",
                      job[r].drop \notin met, NEW h \in Holdings, holding[h].row = "live"
               PROVE  holding[h].owner # job[r].drop
    BY DEF MergeLeavesNone
  <2>1. job[r].left = {}
    BY DEF MergeInv, Typed, InHand
  <2>2. QED
    BY <2>1 DEF MergeInv, Emptied, Holdings
<1>2. QED
  BY <1>1, MergeInvHolds, PTL
-----------------------------------------------------------------------------
(* The claims. *)

(* Nobody but request r is concerned with a user it has met nobody over. *)
Apart ==
  \A u \in Users \ met : \A r, q \in Requests : u \in Concerned(r) /\ u \in Concerned(q) => r = q

(* Users wait only for a request that has written the member. *)
Waiting(r) == pc[r] \notin {"read", "send", "failed"} => queue[r] = <<>>

(* The dropped member of a merge keeps the user the merge has read, and the  *)
(* kept one gets no user but over a meeting: while the dropped member holds  *)
(* the link, the index refuses it.                                           *)
LinkRead(r) ==
  job[r].op = "merge" =>
    /\ \A u \in Users \ met :
         member[job[r].drop].user = u \/ job[r].user = u =>
           Live(job[r].drop) /\ member[job[r].drop].user = u /\ job[r].user = u
    /\ "user" \in job[r].fields => /\ job[r].user \in Users
                                   /\ member[job[r].keep].user \notin Users \ met

(* An update knows the role it changes. *)
RoleRead(r) ==
  pc[r] = "save" /\ member[job[r].id].user \in Users \ met =>
    job[r].before = member[job[r].id].role

(* What a request is about to send is so. *)
SeenSo(r) ==
  pc[r] = "send" /\ Head(queue[r]) \notin met => job[r].seen = Membership(Head(queue[r]))

Knows(r) == Waiting(r) /\ LinkRead(r) /\ RoleRead(r) /\ SeenSo(r)

OweInv == Typed /\ Apart /\ (\A r \in Requests : Knows(r)) /\ ClaimsOwed

LEMMA RangeFacts ==
  /\ Range(<<>>) = {}
  /\ \A u \in Users : Range(<<u>>) = {u}
  /\ \A u \in Users \cup {Nobody} : Range(Linked(u)) = {u} \ {Nobody}
  /\ \A s, t \in Seq(Users) : Range(s \o t) = Range(s) \cup Range(t)
  /\ \A s \in Seq(Users) : Range(s) \subseteq Users
  /\ \A s \in Seq(Users) : s # <<>> =>
       /\ Head(s) \in Users /\ Tail(s) \in Seq(Users)
       /\ Range(s) = {Head(s)} \cup Range(Tail(s))
<1>1. Range(<<>>) = {} /\ \A u \in Users : Range(<<u>>) = {u}
  BY DEF Range
<1>2. \A u \in Users \cup {Nobody} : Range(Linked(u)) = {u} \ {Nobody}
  BY <1>1, PeopleAssumption DEF Linked
<1>3. ASSUME NEW s \in Seq(Users), NEW t \in Seq(Users)
      PROVE  Range(s \o t) = Range(s) \cup Range(t)
  <2>1. DOMAIN s = 1 .. Len(s) /\ DOMAIN t = 1 .. Len(t) /\ DOMAIN (s \o t) = 1 .. Len(s) + Len(t)
        /\ Len(s) \in Nat /\ Len(t) \in Nat
    OBVIOUS
  <2>2. \A n \in 1 .. Len(s) + Len(t) : (s \o t)[n] \in Range(s) \cup Range(t)
    <3> SUFFICES ASSUME NEW n \in 1 .. Len(s) + Len(t)
                 PROVE  (s \o t)[n] \in Range(s) \cup Range(t)
      OBVIOUS
    <3>1. CASE n <= Len(s)
      BY <2>1, <3>1 DEF Range
    <3>2. CASE n > Len(s)
      <4>1. n - Len(s) \in 1 .. Len(t) /\ (s \o t)[n] = t[n - Len(s)]
        BY <2>1, <3>2
      <4>2. QED
        BY <2>1, <4>1 DEF Range
    <3>3. QED
      BY <2>1, <3>1, <3>2
  <2>3. \A n \in 1 .. Len(s) : s[n] \in Range(s \o t)
    <3>1. \A n \in 1 .. Len(s) : n \in 1 .. Len(s) + Len(t) /\ (s \o t)[n] = s[n]
      BY <2>1
    <3>2. QED
      BY <2>1, <3>1 DEF Range
  <2>4. \A n \in 1 .. Len(t) : t[n] \in Range(s \o t)
    <3>1. \A n \in 1 .. Len(t) :
            n + Len(s) \in 1 .. Len(s) + Len(t) /\ (s \o t)[n + Len(s)] = t[n]
      BY <2>1
    <3>2. QED
      BY <2>1, <3>1 DEF Range
  <2>5. QED
    BY <2>1, <2>2, <2>3, <2>4 DEF Range
<1>4. \A s \in Seq(Users) : Range(s) \subseteq Users
  BY DEF Range
<1>5. ASSUME NEW s \in Seq(Users), s # <<>>
      PROVE  /\ Head(s) \in Users /\ Tail(s) \in Seq(Users)
             /\ Range(s) = {Head(s)} \cup Range(Tail(s))
  <2>1. /\ Len(s) \in Nat \ {0} /\ DOMAIN s = 1 .. Len(s) /\ Head(s) = s[1]
        /\ Tail(s) \in Seq(Users) /\ DOMAIN Tail(s) = 1 .. Len(s) - 1
        /\ \A n \in 1 .. Len(s) - 1 : Tail(s)[n] = s[n + 1]
    BY <1>5
  <2>2. \A n \in 1 .. Len(s) : n = 1 \/ (n - 1 \in 1 .. Len(s) - 1 /\ Tail(s)[n - 1] = s[n])
    BY <2>1
  <2>3. \A n \in 1 .. Len(s) - 1 : n + 1 \in 1 .. Len(s)
    BY <2>1
  <2>4. 1 \in 1 .. Len(s) /\ Head(s) \in Users
    BY <2>1
  <2>5. ASSUME NEW n \in 1 .. Len(s) PROVE s[n] \in {Head(s)} \cup Range(Tail(s))
    <3>1. CASE n = 1
      BY <2>1, <3>1
    <3>2. CASE n # 1
      <4>1. Tail(s)[n - 1] \in Range(Tail(s))
        BY <2>1, <2>2, <3>2 DEF Range
      <4>2. QED
        BY <2>2, <3>2, <4>1
    <3>3. QED
      BY <3>1, <3>2
  <2>6. Range(Tail(s)) \subseteq Range(s)
    BY <2>1, <2>3 DEF Range
  <2>7. Head(s) \in Range(s)
    BY <2>1, <2>4 DEF Range
  <2>8. QED
    <3>1. Range(s) \subseteq {Head(s)} \cup Range(Tail(s))
      BY <2>1, <2>5 DEF Range
    <3>2. QED
      BY <2>1, <2>4, <2>6, <2>7, <3>1
<1>6. QED
  BY <1>1, <1>2, <1>3, <1>4, <1>5

(* The step leaves the members of user u alone. *)
Kept(u) ==
  \A m \in Ids : /\ member'[m].user = u <=> member[m].user = u
                 /\ member[m].user = u => /\ member'[m].row = member[m].row
                                          /\ member'[m].role = member[m].role

LEMMA KeptMembership ==
  ASSUME NEW u, Kept(u)
  PROVE  Memberships(u)' = Memberships(u) /\ Membership(u)' = Membership(u)
<1>1. Memberships(u)' = Memberships(u)
  BY DEF Memberships, Kept, Live
<1>2. CASE Memberships(u) = {}
  BY <1>1, <1>2 DEF Membership
<1>3. CASE Memberships(u) # {}
  <2> DEFINE m == CHOOSE m \in Memberships(u) : TRUE
  <2>1. m \in Ids /\ member[m].user = u
    BY <1>3 DEF Memberships
  <2>2. (CHOOSE x \in Memberships(u)' : TRUE) = m
    BY <1>1
  <2>3. member'[m].role = member[m].role
    BY <2>1 DEF Kept
  <2>4. Membership(u) = [member |-> m, role |-> member[m].role]
    BY <1>3 DEF Membership
  <2>5. Membership(u)' = [member |-> m, role |-> member'[m].role]
    BY <1>1, <1>3, <2>2 DEF Membership
  <2>6. QED
    BY <1>1, <2>3, <2>4, <2>5
<1>4. QED
  BY <1>2, <1>3

(* No user is linked or unlinked but over a meeting. *)
LinksStand ==
  \A m \in Ids, u \in Users \ met' : member'[m].user = u <=> member[m].user = u

Idles(q) == pc'[q] = pc[q] /\ job'[q] = job[q] /\ queue'[q] = queue[q]

(* What a request that takes no step is concerned with. *)
LEMMA ConcernStands ==
  ASSUME Typed, NEW q \in Requests, Idles(q), LinksStand, NEW u \in Users \ met', u \in Concerned(q)'
  PROVE  u \in Concerned(q)
<1>1. InHand(q) /\ pc[q] \in Places
  BY DEF Typed, TypeOK
<1>2. u \notin Ids /\ u # Nobody
  BY PeopleAssumption
<1>3. Working(q)' <=> Working(q)
  BY DEF Idles, Working
<1>4. CASE job[q].op = "merge"
  <2>1. job[q].keep \in Ids /\ job[q].drop \in Ids
    BY <1>1, <1>4 DEF InHand, Merges
  <2>2. QED
    BY <1>2, <1>3, <1>4, <2>1 DEF Concerned, Idles, LinksStand
<1>5. CASE job[q].op \in {"none", "claims"}
  BY <1>2, <1>3, <1>5 DEF Concerned, Idles
<1>6. CASE job[q].op \notin {"merge", "none", "claims"} /\ Working(q)
  <2>1. job[q].id \in Ids
    BY <1>1, <1>6 DEF InHand, Working, Places
  <2>2. QED
    BY <1>2, <1>3, <1>6, <2>1 DEF Concerned, Idles, LinksStand
<1>7. CASE ~Working(q)
  BY <1>3, <1>7 DEF Concerned
<1>8. QED
  BY <1>4, <1>5, <1>6, <1>7

(* A request that takes no step still knows what it knew, if the step leaves *)
(* the members of its users alone.                                           *)
LEMMA KnowsStill ==
  ASSUME Typed, Typed', met \subseteq met', NEW q \in Requests, Idles(q), Knows(q), LinksStand,
         \A u \in Users \ met' : u \in Concerned(q) => Kept(u)
  PROVE  Knows(q)'
<1> USE DEF Idles, Knows
<1>1. InHand(q) /\ pc[q] \in Places /\ \A m \in Ids : member'[m].user \in Users \cup {Nobody}
  BY DEF Typed, TypeOK
<1>2. Nobody \notin Users
  BY PeopleAssumption
<1>3. Waiting(q)'
  BY DEF Waiting
<1>4. LinkRead(q)'
  <2> SUFFICES ASSUME job[q].op = "merge"
               PROVE  /\ \A u \in Users \ met' :
                           member'[job[q].drop].user = u \/ job[q].user = u =>
                             /\ Live(job[q].drop)' /\ member'[job[q].drop].user = u
                             /\ job[q].user = u
                      /\ "user" \in job[q].fields =>
                           /\ job[q].user \in Users
                           /\ member'[job[q].keep].user \notin Users \ met'
    BY DEF LinkRead
  <2>1. job[q].drop \in Ids /\ job[q].keep \in Ids
    BY <1>1 DEF InHand, Merges
  <2>2. Working(q)
    BY <1>1 DEF InHand, Working
  <2>3. ASSUME NEW u \in Users \ met', member'[job[q].drop].user = u \/ job[q].user = u
        PROVE  /\ Live(job[q].drop)' /\ member'[job[q].drop].user = u
               /\ job[q].user = u
    <3>1. Live(job[q].drop) /\ member[job[q].drop].user = u /\ job[q].user = u
      BY <2>1, <2>3 DEF LinksStand, LinkRead
    <3>2. u \in Concerned(q)
      BY <1>2, <2>2, <3>1 DEF Concerned
    <3>3. QED
      BY <2>1, <3>1, <3>2 DEF Kept, Live
  <2>4. "user" \in job[q].fields =>
          job[q].user \in Users /\ member'[job[q].keep].user \notin Users \ met'
    BY <2>1 DEF LinkRead, LinksStand
  <2>5. QED
    BY <2>3, <2>4
<1>5. RoleRead(q)'
  <2> SUFFICES ASSUME pc[q] = "save", member'[job[q].id].user \in Users \ met'
               PROVE  job[q].before = member'[job[q].id].role
    BY DEF RoleRead
  <2>1. job[q].id \in Ids /\ job[q].op = "update" /\ Working(q)
    BY <1>1 DEF InHand, Working
  <2> DEFINE u == member[job[q].id].user
  <2>2. member'[job[q].id].user = u /\ u \in Users \ met'
    BY <2>1 DEF LinksStand
  <2>3. u \in Concerned(q)
    BY <1>2, <2>1, <2>2 DEF Concerned
  <2>4. job[q].before = member[job[q].id].role
    BY <2>2 DEF RoleRead
  <2>5. Kept(u)
    BY <2>2, <2>3
  <2>6. QED
    BY <2>1, <2>4, <2>5 DEF Kept
<1>6. SeenSo(q)'
  <2> SUFFICES ASSUME pc[q] = "send", Head(queue[q]) \notin met'
               PROVE  job[q].seen = Membership(Head(queue[q]))'
    BY DEF SeenSo
  <2>1. Head(queue[q]) \in Users /\ Head(queue[q]) \in Range(queue[q])
    BY RangeFacts DEF Typed, TypeOK
  <2>2. Head(queue[q]) \in Concerned(q)
    BY <1>2, <2>1 DEF Concerned, Working
  <2> DEFINE u == Head(queue[q])
  <2>3. Kept(u)
    BY <2>1, <2>2
  <2>4. Membership(u)' = Membership(u)
    BY <2>3, KeptMembership
  <2>5. QED
    BY <2>4 DEF SeenSo
<1>7. QED
  BY <1>3, <1>4, <1>5, <1>6

(* What a step by request r keeps of the others. *)
LEMMA OthersKnow ==
  ASSUME OweInv, Typed', met \subseteq met', NEW r \in Requests,
         \A q \in Requests \ {r} : Idles(q),
         LinksStand,
         \A u \in Users \ met' : u \in Concerned(r) \/ Kept(u)
  PROVE  \A q \in Requests \ {r} : Knows(q)'
<1> SUFFICES ASSUME NEW q \in Requests \ {r} PROVE Knows(q)'
  OBVIOUS
<1>1. ASSUME NEW u \in Users \ met', u \in Concerned(q) PROVE Kept(u)
  BY <1>1 DEF OweInv, Apart
<1>2. QED
  BY <1>1, KnowsStill DEF OweInv

(* Requests stay apart if the one that steps meets whom it turns to. *)
LEMMA ApartStays ==
  ASSUME OweInv, met \subseteq met', NEW r \in Requests,
         \A q \in Requests \ {r} : Idles(q),
         LinksStand,
         \A u \in Users \ met' : u \in Concerned(r)' =>
           u \in Concerned(r) \/ \A q \in Requests \ {r} : u \notin Concerned(q)
  PROVE  Apart'
<1> SUFFICES ASSUME NEW u \in Users \ met', NEW a \in Requests, NEW b \in Requests,
                    u \in Concerned(a)', u \in Concerned(b)', a # b
             PROVE  FALSE
  BY DEF Apart
<1>1. \A q \in Requests \ {r} : u \in Concerned(q)' => u \in Concerned(q)
  BY ConcernStands DEF OweInv
<1>2. CASE a # r /\ b # r
  BY <1>1, <1>2 DEF OweInv, Apart
<1>3. CASE a = r
  BY <1>1, <1>3 DEF OweInv, Apart
<1>4. CASE b = r
  BY <1>1, <1>4 DEF OweInv, Apart
<1>5. QED
  BY <1>2, <1>3, <1>4

(* A user's claims are in order after the step. *)
Settled(u) ==
  \/ /\ Kept(u) /\ claims'[u] = claims[u]
     /\ \A q \in Requests : u \in Range(queue[q]) => u \in Range(queue'[q])
  \/ \E q \in Requests : u \in Range(queue'[q])
  \/ claims'[u] = Membership(u)'

LEMMA ClaimsStayOwed ==
  ASSUME OweInv, met \subseteq met', \A u \in Users \ met' : Settled(u)
  PROVE  ClaimsOwed'
<1> SUFFICES ASSUME NEW u \in Users \ met', claims'[u] # Membership(u)'
             PROVE  \E q \in Requests : u \in Range(queue'[q])
  BY DEF ClaimsOwed
<1>1. CASE /\ Kept(u) /\ claims'[u] = claims[u]
           /\ \A q \in Requests : u \in Range(queue[q]) => u \in Range(queue'[q])
  <2>1. claims[u] # Membership(u)
    BY <1>1, KeptMembership
  <2>2. QED
    BY <1>1, <2>1 DEF OweInv, ClaimsOwed
<1>2. QED
  BY <1>1 DEF Settled

(* All members as they were. *)
LEMMA AllKept ==
  ASSUME member' = member
  PROVE  LinksStand /\ \A u : Kept(u)
BY DEF LinksStand, Kept
-----------------------------------------------------------------------------
(* A request begins. *)
LEMMA OweBegins ==
  ASSUME OweInv, Typed', NEW r \in Requests, NEW place, NEW work, Begin(r, place, work),
         place \notin {"read", "send"},
         place = "save" => work.op = "update" /\ work.before = member[work.id].role,
         work.op \notin {"none", "claims"},
         work.op = "merge" =>
           /\ Live(work.drop) /\ work.user = member[work.drop].user
           /\ "user" \in work.fields => member[work.keep].user = Nobody /\ work.user \in Users
  PROVE  OweInv'
<1>0. Nobody \notin Users /\ Users \cap Ids = {}
  BY PeopleAssumption
<1>1. /\ pc[r] = "idle" /\ pc'[r] = place /\ job'[r] = work
      /\ UNCHANGED <<member, claims, queue>>
      /\ met \subseteq met'
      /\ \A q \in Requests \ {r} : Idles(q)
      /\ met' = met \cup ((Links(work) \ {Nobody}) \cap UNION {Concerned(q) : q \in Requests})
  BY DEF Begin, Meet, rows, OweInv, Typed, TypeOK, Idles
<1>2. LinksStand /\ \A u : Kept(u)
  BY <1>1, AllKept
<1>3. queue[r] = <<>> /\ queue'[r] = <<>>
  BY <1>1 DEF OweInv, Knows, Waiting
<1>4. Concerned(r)' \subseteq Links(work) \ {Nobody}
  <2>1. Range(queue'[r]) = {}
    BY <1>3, RangeFacts
  <2>2. QED
    BY <1>1, <2>1 DEF Concerned, Links
<1>5. Apart'
  <2>1. ASSUME NEW u \in Users \ met', u \in Concerned(r)', NEW q \in Requests \ {r}
        PROVE  u \notin Concerned(q)
    BY <1>1, <1>4, <2>1
  <2>2. QED
    BY <1>1, <1>2, <2>1, ApartStays
<1>6. Knows(r)'
  <2>1. Waiting(r)' /\ SeenSo(r)'
    BY <1>1, <1>3 DEF Waiting, SeenSo
  <2>2. LinkRead(r)'
    BY <1>0, <1>1 DEF LinkRead, Live
  <2>3. RoleRead(r)'
    BY <1>1 DEF RoleRead
  <2>4. QED
    BY <2>1, <2>2, <2>3 DEF Knows
<1>7. \A q \in Requests : Knows(q)'
  BY <1>1, <1>2, <1>6, OthersKnow
<1>8. ClaimsOwed'
  BY <1>1, <1>2, ClaimsStayOwed DEF Settled
<1>9. QED
  BY <1>5, <1>7, <1>8 DEF OweInv

LEMMA OweStart ==
  ASSUME OweInv, Typed', NEW r \in Requests, Start(r)
  PROVE  OweInv'
<1>0. \A m \in Ids : member[m].user \in Users \cup {Nobody}
  BY DEF OweInv, Typed, TypeOK
<1>1. CASE SignIn(r)
  <2>1. PICK u \in Users : queue' = [queue EXCEPT ![r] = <<u>>] /\ Meet({u})
    BY <1>1 DEF SignIn
  <2>2. /\ pc[r] = "idle" /\ pc'[r] = "read" /\ job'[r] = job[r] /\ queue'[r] = <<u>>
        /\ UNCHANGED <<member, claims>>
        /\ met \subseteq met'
        /\ met' = met \cup ({u} \cap UNION {Concerned(q) : q \in Requests})
        /\ \A q \in Requests \ {r} : Idles(q)
    BY <1>1, <2>1 DEF SignIn, Meet, rows, OweInv, Typed, TypeOK, Idles
  <2>3. LinksStand /\ \A v : Kept(v)
    BY <2>2, AllKept
  <2>4. job[r].op = "none"
    BY <2>2 DEF OweInv, Typed, InHand
  <2>5. queue[r] = <<>>
    BY <2>2 DEF OweInv, Knows, Waiting
  <2>6. Concerned(r)' \subseteq {u}
    <3>1. Range(queue'[r]) = {u}
      BY <2>2, RangeFacts
    <3>2. QED
      BY <2>2, <2>4, <3>1 DEF Concerned
  <2>7. Apart'
    <3>1. ASSUME NEW v \in Users \ met', v \in Concerned(r)', NEW q \in Requests \ {r}
          PROVE  v \notin Concerned(q)
      BY <2>2, <2>6, <3>1
    <3>2. QED
      BY <2>2, <2>3, <3>1, ApartStays
  <2>8. Knows(r)'
    BY <2>2, <2>4 DEF Knows, Waiting, LinkRead, RoleRead, SeenSo
  <2>9. \A q \in Requests : Knows(q)'
    BY <2>2, <2>3, <2>8, OthersKnow
  <2>10. \A q \in Requests, v \in Users : v \in Range(queue[q]) => v \in Range(queue'[q])
    BY <2>2, <2>5, RangeFacts DEF Idles
  <2>11. ClaimsOwed'
    BY <2>2, <2>3, <2>10, ClaimsStayOwed DEF Settled
  <2>12. QED
    BY <2>7, <2>9, <2>11 DEF OweInv
<1>2. CASE BeginUpdate(r)
  <2>1. PICK m \in Ids, role \in Roles \cup {Nobody} :
          Begin(r, "save", [op |-> "update", id |-> m, role |-> role, before |-> member[m].role])
    BY <1>2 DEF BeginUpdate
  <2>2. QED
    BY <2>1, OweBegins
<1>3. CASE BeginDelete(r)
  BY <1>3, OweBegins DEF BeginDelete
<1>4. CASE BeginRestore(r)
  BY <1>4, OweBegins DEF BeginRestore
<1>5. CASE BeginMerge(r)
  <2>1. PICK k \in Ids, d \in Ids, fields \in SUBSET {"user", "contact"} :
          /\ Live(d) /\ fields \in FieldsToCopy(k, d)
          /\ Begin(r, "move", [op |-> "merge", keep |-> k, drop |-> d, user |-> member[d].user,
                               fields |-> fields, left |-> {Gifts, Pledges}])
    BY <1>5 DEF BeginMerge, FieldsToCopy
  <2>2. "user" \in fields => member[k].user = Nobody /\ member[d].user \in Users
    BY <1>0, <2>1 DEF FieldsToCopy
  <2>3. QED
    BY <2>1, <2>2, OweBegins
<1>6. CASE BeginRecord(r)
  BY <1>6, OweBegins DEF BeginRecord
<1>7. QED
  BY <1>1, <1>2, <1>3, <1>4, <1>5, <1>6 DEF Start

(* The member is written and the claims come next. *)
LEMMA OweWritten ==
  ASSUME OweInv, Typed', NEW r \in Requests, NEW stale \in Seq(Users), Written(r, stale),
         pc[r] \in {"save", "erase", "revive", "record"}, claims' = claims,
         LinksStand,
         \A u \in Users \ met : u \in Range(stale) => u \in Concerned(r),
         \A u \in Users \ met : u \in Range(stale) \/ Kept(u)
  PROVE  OweInv'
<1>1. /\ job'[r] = NoJob /\ queue'[r] = stale /\ met' = met
      /\ pc'[r] \in {"done", "read"} /\ (pc'[r] = "done" => stale = <<>>)
      /\ \A q \in Requests \ {r} : Idles(q)
  BY DEF Written, OweInv, Typed, TypeOK, Idles
<1>2. queue[r] = <<>>
  BY DEF OweInv, Knows, Waiting
<1>3. Apart'
  <2>1. Concerned(r)' \subseteq Range(stale)
    BY <1>1 DEF Concerned, NoJob
  <2>2. QED
    BY <1>1, <2>1, ApartStays
<1>4. Knows(r)'
  BY <1>1 DEF Knows, Waiting, LinkRead, RoleRead, SeenSo, NoJob
<1>5. \A q \in Requests : Knows(q)'
  BY <1>1, <1>4, OthersKnow
<1>6. ClaimsOwed'
  <2>1. \A q \in Requests, u \in Users : u \in Range(queue[q]) => u \in Range(queue'[q])
    BY <1>1, <1>2, RangeFacts DEF Idles
  <2>2. \A u \in Users \ met' : Settled(u)
    BY <1>1, <2>1 DEF Settled
  <2>3. QED
    BY <1>1, <2>2, ClaimsStayOwed
<1>7. QED
  BY <1>3, <1>5, <1>6 DEF OweInv

(* A member is written, but for its user. *)
WrittenRow(m, row, role) ==
  /\ member'[m].user = member[m].user /\ member'[m].row = row /\ member'[m].role = role
  /\ \A n \in Ids \ {m} : member'[n] = member[n]

LEMMA RowWritten ==
  ASSUME NEW m \in Ids, NEW row, NEW role, WrittenRow(m, row, role)
  PROVE  /\ LinksStand
         /\ \A u : u # member[m].user => Kept(u)
         /\ row = member[m].row /\ role = member[m].role => \A u : Kept(u)
BY DEF WrittenRow, LinksStand, Kept

LEMMA OweMemberWritten ==
  ASSUME OweInv, Typed', NEW r \in Requests, Save(r) \/ Erase(r) \/ Revive(r)
  PROVE  OweInv'
<1>0. /\ InHand(r) /\ \A m \in Ids : member[m].user \in Users \cup {Nobody}
      /\ member \in [Ids -> [row : Rows, user : Users \cup {Nobody}, role : Roles]]
      /\ LinkRead(r) /\ RoleRead(r)
  BY DEF OweInv, Typed, TypeOK, Knows
<1>1. Nobody \notin Users
  BY PeopleAssumption
<1>2. CASE Save(r)
  <2> DEFINE m == job[r].id
             role == IF job[r].role = Nobody THEN member[m].role ELSE job[r].role
  <2>1. /\ m \in Ids /\ job[r].op = "update" /\ pc[r] = "save" /\ Working(r)
        /\ member' = [member EXCEPT ![m].role = role]
        /\ Written(r, StaleAfterUpdate(r)) /\ claims' = claims
    BY <1>0, <1>2 DEF Save, InHand, Working
  <2>2. WrittenRow(m, member[m].row, role)
    BY <1>0, <2>1 DEF WrittenRow
  <2>3. StaleAfterUpdate(r) \in Seq(Users) /\ Range(StaleAfterUpdate(r)) \subseteq {member[m].user} \ {Nobody}
    BY <1>0, <2>1, LinkedIsSeq, RangeFacts DEF StaleAfterUpdate
  <2>4. {member[m].user} \ {Nobody} \subseteq Concerned(r)
    BY <2>1 DEF Concerned
  <2>5. ASSUME NEW u \in Users \ met PROVE u \in Range(StaleAfterUpdate(r)) \/ Kept(u)
    <3>1. CASE u # member[m].user
      BY <2>1, <2>2, <3>1, RowWritten
    <3>2. CASE u = member[m].user /\ job[r].role \in {Nobody, job[r].before}
      <4>1. role = member[m].role
        BY <1>0, <2>1, <3>2 DEF RoleRead
      <4>2. QED
        BY <2>1, <2>2, <4>1, RowWritten
    <3>3. CASE u = member[m].user /\ job[r].role \notin {Nobody, job[r].before}
      BY <1>1, <3>3, RangeFacts DEF StaleAfterUpdate
    <3>4. QED
      BY <3>1, <3>2, <3>3
  <2> HIDE DEF m, role
  <2>6. LinksStand
    BY <2>1, <2>2, RowWritten
  <2>7. QED
    BY <2>1, <2>3, <2>4, <2>5, <2>6, OweWritten
<1>3. CASE Erase(r)
  <2>1. /\ Erased(r) \in Ids /\ job[r].op \in {"delete", "merge"} /\ pc[r] = "erase" /\ Working(r)
        /\ job[r].op = "merge" => job[r] \in Merges
        /\ job[r].op = "delete" => job[r].id \in Ids
        /\ member' = [member EXCEPT ![Erased(r)].row = "archived"]
        /\ Written(r, StaleAfterErase(r)) /\ claims' = claims
    BY <1>0, <1>3 DEF Erase, InHand, Working, Erased, Merges
  <2> DEFINE m == Erased(r)
  <2>2. WrittenRow(m, "archived", member[m].role)
    BY <1>0, <2>1 DEF WrittenRow
  <2>3. member[m].user \in Users => member[m].user \in Concerned(r)
    BY <1>1, <2>1 DEF Concerned, Erased
  <2>4. /\ StaleAfterErase(r) \in Seq(Users)
        /\ \A u \in Users \ met : u \in Range(StaleAfterErase(r)) <=> u = member[m].user
    <3>1. CASE job[r].op = "delete"
      BY <1>0, <1>1, <2>1, <3>1, LinkedIsSeq, RangeFacts DEF StaleAfterErase, Erased
    <3>2. CASE job[r].op = "merge"
      <4>1. /\ Linked(job[r].user) \in Seq(Users)
            /\ Range(Linked(job[r].user)) = {job[r].user} \ {Nobody}
        BY <2>1, <3>2, LinkedIsSeq, RangeFacts DEF Merges
      <4> DEFINE again == IF "user" \in job[r].fields THEN Linked(job[r].user) ELSE <<>>
      <4>2. again \in Seq(Users) /\ Range(again) \subseteq {job[r].user} \ {Nobody}
        <5>1. <<>> \in Seq(Users)
          OBVIOUS
        <5>2. QED
          BY <4>1, <5>1, RangeFacts
      <4>3. StaleAfterErase(r) = Linked(job[r].user) \o again
        BY <3>2 DEF StaleAfterErase
      <4> HIDE DEF again
      <4>4. /\ StaleAfterErase(r) \in Seq(Users)
            /\ Range(StaleAfterErase(r)) = {job[r].user} \ {Nobody}
        BY <4>1, <4>2, <4>3, RangeFacts
      <4>5. \A u \in Users \ met : u = job[r].user <=> u = member[job[r].drop].user
        BY <1>0, <3>2 DEF LinkRead
      <4>6. QED
        BY <1>1, <3>2, <4>4, <4>5 DEF Erased
    <3>3. QED
      BY <2>1, <3>1, <3>2
  <2>5. LinksStand /\ \A u : u # member[m].user => Kept(u)
    BY <2>1, <2>2, RowWritten
  <2> HIDE DEF m
  <2>6. QED
    BY <2>1, <2>3, <2>4, <2>5, OweWritten
<1>4. CASE Revive(r)
  <2> DEFINE m == job[r].id
  <2>1. /\ m \in Ids /\ job[r].op = "restore" /\ pc[r] = "revive" /\ Working(r)
        /\ member' = [member EXCEPT ![m].row = "live"]
        /\ Written(r, Linked(member[m].user)) /\ claims' = claims
    BY <1>0, <1>4 DEF Revive, InHand, Working
  <2>2. WrittenRow(m, "live", member[m].role)
    BY <1>0, <2>1 DEF WrittenRow
  <2>3. member[m].user \in Users => member[m].user \in Concerned(r)
    BY <1>1, <2>1 DEF Concerned
  <2>4. /\ Linked(member[m].user) \in Seq(Users)
        /\ \A u \in Users : u \in Range(Linked(member[m].user)) <=> u = member[m].user
    BY <1>0, <1>1, <2>1, LinkedIsSeq, RangeFacts
  <2>5. LinksStand /\ \A u : u # member[m].user => Kept(u)
    BY <2>1, <2>2, RowWritten
  <2> HIDE DEF m
  <2>6. QED
    BY <2>1, <2>3, <2>4, <2>5, OweWritten
<1>5. QED
  BY <1>2, <1>3, <1>4

LEMMA OweClaims ==
  ASSUME OweInv, Typed', NEW r \in Requests, Look(r) \/ Send(r)
  PROVE  OweInv'
<1>0. /\ queue[r] \in Seq(Users) /\ queue[r] # <<>> /\ InHand(r) /\ SeenSo(r) /\ pc[r] \in {"read", "send"}
  BY DEF Look, Send, OweInv, Typed, TypeOK, Knows
<1>1. /\ Head(queue[r]) \in Users /\ Tail(queue[r]) \in Seq(Users)
      /\ Range(queue[r]) = {Head(queue[r])} \cup Range(Tail(queue[r]))
      /\ Range(queue[r]) \subseteq Users
  BY <1>0, RangeFacts
<1>2. Concerned(r) = Range(queue[r])
  BY <1>0, <1>1, PeopleAssumption DEF InHand, Concerned, Working
<1>3. CASE Look(r)
  <2>1. /\ job'[r] = [op |-> "claims", seen |-> Membership(Head(queue[r]))]
        /\ pc'[r] = "send" /\ queue'[r] = queue[r]
        /\ UNCHANGED <<member, claims, queue, met>>
        /\ \A q \in Requests \ {r} : Idles(q)
    BY <1>3 DEF Look, rows, OweInv, Typed, TypeOK, Idles
  <2>2. LinksStand /\ \A v : Kept(v)
    BY <2>1, AllKept
  <2>3. Concerned(r)' \subseteq Concerned(r)
    BY <1>2, <2>1 DEF Concerned
  <2>4. Membership(Head(queue[r]))' = Membership(Head(queue[r]))
    BY <2>1 DEF Membership, Memberships, Live
  <2>5. Knows(r)'
    BY <2>1, <2>4 DEF Knows, Waiting, LinkRead, RoleRead, SeenSo
  <2>6. Apart' /\ \A q \in Requests : Knows(q)'
    BY <2>1, <2>2, <2>3, <2>5, OthersKnow, ApartStays
  <2>7. ClaimsOwed'
    BY <2>1, <2>2, ClaimsStayOwed DEF Settled
  <2>8. QED
    BY <2>6, <2>7 DEF OweInv
<1>4. CASE Send(r)
  <2>1. /\ job'[r] = NoJob /\ queue'[r] = Tail(queue[r])
        /\ pc'[r] \in {"done", "read"} /\ (pc'[r] = "done" => queue'[r] = <<>>)
        /\ UNCHANGED <<member, met>>
        /\ claims'[Head(queue[r])] = job[r].seen
        /\ \A u \in Users \ {Head(queue[r])} : claims'[u] = claims[u]
        /\ \A q \in Requests \ {r} : Idles(q)
        /\ pc[r] = "send"
    BY <1>1, <1>4 DEF Send, OweInv, Typed, TypeOK, Idles
  <2>2. LinksStand /\ \A v : Kept(v)
    BY <2>1, AllKept
  <2>3. Concerned(r)' \subseteq Concerned(r)
    BY <1>1, <1>2, <2>1 DEF Concerned, NoJob
  <2>4. Knows(r)'
    BY <2>1 DEF Knows, Waiting, LinkRead, RoleRead, SeenSo, NoJob
  <2>5. Apart' /\ \A q \in Requests : Knows(q)'
    BY <2>1, <2>2, <2>3, <2>4, OthersKnow, ApartStays
  <2>6. ASSUME NEW u \in Users \ met' PROVE Settled(u)
    <3>1. CASE u = Head(queue[r])
      <4>1. claims'[u] = Membership(u)
        BY <1>0, <2>1, <3>1 DEF SeenSo
      <4>2. Membership(u)' = Membership(u)
        BY <2>2, KeptMembership
      <4>3. QED
        BY <4>1, <4>2 DEF Settled
    <3>2. CASE u # Head(queue[r])
      <4>1. \A q \in Requests : u \in Range(queue[q]) => u \in Range(queue'[q])
        BY <1>1, <2>1, <3>2 DEF Idles
      <4>2. QED
        BY <2>1, <2>2, <3>2, <4>1 DEF Settled
    <3>3. QED
      BY <3>1, <3>2
  <2>7. QED
    BY <2>1, <2>5, <2>6, ClaimsStayOwed DEF OweInv
<1>5. QED
  BY <1>3, <1>4

(* A merge goes on to its next call. *)
LEMMA OweGoesOn ==
  ASSUME OweInv, Typed', NEW r \in Requests,
         {pc[r], pc'[r]} \subseteq {"move", "patch", "drop", "erase"},
         job[r].op = "merge", job'[r].op = "merge", job'[r].keep = job[r].keep,
         job'[r].drop = job[r].drop, job'[r].user = job[r].user, job'[r].fields = job[r].fields,
         UNCHANGED <<queue, met, claims>>,
         \A q \in Requests \ {r} : Idles(q),
         LinksStand, \A u \in Users \ met' : Kept(u)
  PROVE  OweInv'
<1>0. job[r].keep \in Ids /\ job[r].drop \in Ids /\ Users \cap Ids = {} /\ LinkRead(r)
  BY PeopleAssumption DEF OweInv, Typed, InHand, Merges, Knows
<1>1. Apart'
  <2>1. ASSUME NEW u \in Users \ met', u \in Concerned(r)' PROVE u \in Concerned(r)
    BY <1>0, <2>1 DEF Concerned, Working, LinksStand
  <2>2. QED
    BY <2>1, ApartStays
<1>2. LinkRead(r)'
  <2>1. ASSUME NEW u \in Users \ met', member'[job[r].drop].user = u \/ job[r].user = u
        PROVE  Live(job[r].drop)' /\ member'[job[r].drop].user = u /\ job[r].user = u
    <3>1. Live(job[r].drop) /\ member[job[r].drop].user = u /\ job[r].user = u
      BY <1>0, <2>1 DEF LinksStand, LinkRead
    <3>2. QED
      BY <1>0, <3>1 DEF Kept, Live
  <2>2. "user" \in job[r].fields =>
          job[r].user \in Users /\ member'[job[r].keep].user \notin Users \ met'
    BY <1>0 DEF LinkRead, LinksStand
  <2>3. QED
    BY <2>1, <2>2 DEF LinkRead, Live
<1>3. Knows(r)'
  BY <1>2 DEF OweInv, Knows, Waiting, RoleRead, SeenSo
<1>4. \A q \in Requests : Knows(q)'
  BY <1>3, OthersKnow
<1>5. ClaimsOwed'
  BY ClaimsStayOwed DEF Settled
<1>6. QED
  BY <1>1, <1>4, <1>5 DEF OweInv

LEMMA OweMerges ==
  ASSUME OweInv, Typed', NEW r \in Requests, Move(r) \/ Patch(r) \/ Drop(r)
  PROVE  OweInv'
<1>0. /\ job[r] \in Merges /\ job[r].op = "merge" /\ job[r].keep # job[r].drop
      /\ pc[r] \in {"move", "patch", "drop"} /\ LinkRead(r)
  BY DEF OweInv, Typed, InHand, Move, Patch, Drop, Knows
<1>1. ASSUME NEW place \in {"move", "patch", "drop", "erase"}, NEW work, Advance(r, place, work),
             work.op = "merge", work.keep = job[r].keep, work.drop = job[r].drop,
             work.user = job[r].user, work.fields = job[r].fields, claims' = claims,
             LinksStand, \A u \in Users \ met' : Kept(u)
      PROVE  OweInv'
  <2>1. /\ pc'[r] = place /\ job'[r] = work /\ UNCHANGED <<queue, met>>
        /\ \A q \in Requests \ {r} : Idles(q)
    BY <1>1 DEF Advance, OweInv, Typed, TypeOK, Idles
  <2>2. QED
    BY <1>0, <1>1, <2>1, OweGoesOn
<1>2. CASE Move(r)
  <2>1. PICK table \in job[r].left :
          LET work == [job[r] EXCEPT !.left = @ \ {table}]
          IN  Advance(r, IF work.left # {} THEN "move"
                         ELSE IF work.fields # {} THEN "patch" ELSE "drop", work)
    BY <1>2 DEF Move
  <2> DEFINE work == [job[r] EXCEPT !.left = @ \ {table}]
             place == IF work.left # {} THEN "move"
                      ELSE IF work.fields # {} THEN "patch" ELSE "drop"
  <2>2. /\ work.op = "merge" /\ work.keep = job[r].keep /\ work.drop = job[r].drop
        /\ work.user = job[r].user /\ work.fields = job[r].fields
    BY <1>0 DEF Merges
  <2>3. Advance(r, place, work) /\ place \in {"move", "patch", "drop"}
    BY <2>1
  <2> HIDE DEF work, place
  <2>4. member' = member /\ claims' = claims
    BY <1>2 DEF Move
  <2>5. QED
    BY <1>1, <2>2, <2>3, <2>4, AllKept
<1>3. CASE Patch(r)
  <2>1. /\ Advance(r, "drop", job[r]) /\ claims' = claims /\ Patchable(r)
        /\ met' = met /\ job[r].keep \in Ids /\ job[r].drop \in Ids
    BY <1>0, <1>3 DEF Patch, Advance, Merges
  <2>2. CASE "user" \notin job[r].fields
    <3>1. member' = member
      BY <1>3, <2>1, <2>2 DEF Patch, OweInv, Typed, TypeOK
    <3>2. QED
      BY <1>0, <1>1, <2>1, <3>1, AllKept
  <2>3. CASE "user" \in job[r].fields
    <3> DEFINE k == job[r].keep
    <3>1. /\ k \in Ids /\ member'[k].user = job[r].user
          /\ \A m \in Ids \ {k} : member'[m] = member[m]
      BY <1>3, <2>1, <2>3 DEF Patch, OweInv, Typed, TypeOK
    <3>2. job[r].user \in Users /\ member[k].user \notin Users \ met
      BY <1>0, <2>3 DEF LinkRead
    <3>3. job[r].user \in met
      <4>1. SUFFICES ASSUME job[r].user \notin met PROVE FALSE
        OBVIOUS
      <4>2. Live(job[r].drop) /\ member[job[r].drop].user = job[r].user
        BY <1>0, <3>2, <4>1 DEF LinkRead
      <4>3. job[r].drop \in Memberships(job[r].user)
        BY <2>1, <4>2 DEF Memberships
      <4>4. Memberships(job[r].user) \subseteq {k}
        BY <2>1, <2>3, <3>2, PeopleAssumption DEF Patchable, IndexAllows
      <4>5. QED
        BY <1>0, <4>3, <4>4
    <3> HIDE DEF k
    <3>4. LinksStand /\ \A u \in Users \ met' : Kept(u)
      <4>1. \A m \in Ids, u \in Users \ met :
              /\ member'[m].user = u <=> member[m].user = u
              /\ member[m].user = u => member'[m] = member[m]
        BY <3>1, <3>2, <3>3
      <4>2. QED
        BY <2>1, <4>1 DEF LinksStand, Kept
    <3>5. QED
      BY <1>0, <1>1, <2>1, <3>4
  <2>4. QED
    BY <2>2, <2>3
<1>4. CASE Drop(r)
  <2>1. Advance(r, "erase", job[r]) /\ member' = member /\ claims' = claims
    BY <1>4 DEF Drop, rows
  <2>2. QED
    BY <1>0, <1>1, <2>1, AllKept
<1>5. QED
  BY <1>2, <1>3, <1>4

(* A request that fails leaves its debts standing. *)
LEMMA OweFails ==
  ASSUME OweInv, Typed', NEW r \in Requests, Fail(r)
  PROVE  OweInv'
<1>1. /\ pc'[r] = "failed" /\ job'[r] = NoJob /\ UNCHANGED <<member, claims, queue, met>>
      /\ \A q \in Requests \ {r} : Idles(q)
  BY DEF Fail, rows, OweInv, Typed, TypeOK, Idles
<1>2. LinksStand /\ \A u : Kept(u)
  BY <1>1, AllKept
<1>3. Concerned(r)' = {}
  BY <1>1 DEF Concerned, Working
<1>4. Knows(r)'
  BY <1>1 DEF Knows, Waiting, LinkRead, RoleRead, SeenSo, NoJob
<1>5. Apart' /\ \A q \in Requests : Knows(q)'
  BY <1>1, <1>2, <1>3, <1>4, OthersKnow, ApartStays
<1>6. ClaimsOwed'
  BY <1>1, <1>2, ClaimsStayOwed DEF Settled
<1>7. QED
  BY <1>5, <1>6 DEF OweInv

LEMMA OweRecords ==
  ASSUME OweInv, Typed', NEW r \in Requests, Record(r)
  PROVE  OweInv'
<1>1. <<>> \in Seq(Users) /\ Range(<<>>) = {}
  BY RangeFacts
<1>2. member' = member /\ claims' = claims /\ Written(r, <<>>) /\ pc[r] = "record"
  BY DEF Record
<1>3. LinksStand /\ \A u : Kept(u)
  BY <1>2, AllKept
<1>4. QED
  BY <1>1, <1>2, <1>3, OweWritten

(* A row that is not there has no user. *)
Blank == \A m \in Ids : member[m].row = "absent" => member[m].user = Nobody

(* Steps of no request. *)
LEMMA OweOutside ==
  ASSUME OweInv, Typed', Blank,
         \/ \E m \in Ids : CreateMember(m)
         \/ \E h \in Holdings : Archive(h) \/ Restore(h) \/ Reattribute(h)
         \/ UNCHANGED vars
  PROVE  OweInv'
<1>1. /\ UNCHANGED <<claims, pc, job, queue>> /\ met \subseteq met'
      /\ \A q \in Requests : Idles(q)
  BY DEF CreateMember, Archive, Restore, Reattribute, SetHolding, Meet, vars, Idles
<1>2. LinksStand /\ \A u \in Users \ met' : Kept(u)
  <2>1. CASE member' = member
    BY <2>1, AllKept
  <2>2. CASE \E m \in Ids : CreateMember(m)
    <3>1. PICK m \in Ids, role \in Roles :
            /\ member[m].row = "absent"
            /\ member' = [member EXCEPT ![m] = [row |-> "live", user |-> Nobody, role |-> role]]
      BY <2>2 DEF CreateMember
    <3>2. /\ member'[m].user = Nobody /\ member[m].user = Nobody
          /\ \A n \in Ids \ {m} : member'[n] = member[n]
      BY <3>1 DEF Blank, OweInv, Typed, TypeOK
    <3>3. \A u \in Users : u # Nobody
      BY PeopleAssumption
    <3>4. QED
      BY <3>2, <3>3 DEF LinksStand, Kept
  <2>3. QED
    BY <2>1, <2>2 DEF Archive, Restore, Reattribute, SetHolding, vars
<1>3. \A q \in Requests : Knows(q)'
  BY <1>1, <1>2, KnowsStill DEF OweInv
<1>4. Apart'
  BY <1>1, <1>2, ConcernStands DEF OweInv, Apart
<1>5. ClaimsOwed'
  BY <1>1, <1>2, ClaimsStayOwed DEF Settled
<1>6. QED
  BY <1>3, <1>4, <1>5 DEF OweInv

LEMMA BlankStep ==
  ASSUME Typed, Blank, [Next]_vars
  PROVE  Blank'
<1>0. member \in [Ids -> [row : Rows, user : Users \cup {Nobody}, role : Roles]]
  BY DEF Typed, TypeOK
<1>1. ASSUME NEW m \in Ids, NEW row \in {"live", "archived"}, NEW user, NEW role,
             member' = [member EXCEPT ![m] = [row |-> row, user |-> user, role |-> role]]
      PROVE  Blank'
  BY <1>0, <1>1 DEF Blank
<1>2. CASE member' = member
  BY <1>2 DEF Blank
<1>3. CASE \E r \in Requests : Save(r) \/ Patch(r)
  <2>1. PICK r \in Requests : Save(r) \/ Patch(r)
    BY <1>3
  <2>2. InHand(r)
    BY DEF Typed
  <2>3. CASE Save(r)
    <3> DEFINE m == job[r].id
               role == IF job[r].role = Nobody THEN member[m].role ELSE job[r].role
    <3>1. m \in Ids /\ Live(m) /\ member' = [member EXCEPT ![m].role = role]
      BY <2>2, <2>3 DEF Save, InHand
    <3> HIDE DEF m, role
    <3>2. QED
      BY <1>0, <3>1 DEF Blank, Live
  <2>4. CASE Patch(r)
    <3> DEFINE m == job[r].keep
               user == IF "user" \in job[r].fields THEN job[r].user ELSE member[m].user
    <3>1. m \in Ids /\ Live(m) /\ member' = [member EXCEPT ![m].user = user]
      BY <2>2, <2>4 DEF Patch, Patchable, InHand, Merges
    <3> HIDE DEF m, user
    <3>2. QED
      BY <1>0, <3>1 DEF Blank, Live
  <2>5. QED
    BY <2>1, <2>3, <2>4
<1>4. CASE \E r \in Requests : Erase(r) \/ Revive(r)
  <2>1. PICK r \in Requests : Erase(r) \/ Revive(r)
    BY <1>4
  <2>2. \/ member' = [member EXCEPT ![Erased(r)].row = "archived"]
        \/ member' = [member EXCEPT ![job[r].id].row = "live"]
    BY <2>1 DEF Erase, Revive
  <2>3. QED
    BY <1>0, <2>2 DEF Blank
<1>5. CASE \E m \in Ids : CreateMember(m)
  BY <1>1, <1>5 DEF CreateMember
<1>6. QED
  BY <1>2, <1>3, <1>4, <1>5
  DEF Next, Start, Proceed, SignIn, BeginUpdate, BeginDelete, BeginRestore, BeginMerge, BeginRecord,
      Begin, Look, Send, SaveGone, ReviveTaken, Move, PatchRefused, Drop, DropGone, Record, Fail,
      Crash, Archive, Restore, Reattribute, SetHolding, rows, vars

LEMMA OweStep == OweInv /\ Blank /\ Typed' /\ [Next]_vars => OweInv'
<1> SUFFICES ASSUME OweInv, Blank, Typed', [Next]_vars PROVE OweInv'
  OBVIOUS
<1>1. ASSUME NEW r \in Requests, Proceed(r) \/ Crash(r) PROVE OweInv'
  BY <1>1, OweClaims, OweMemberWritten, OweMerges, OweFails, OweRecords
  DEF Proceed, Crash, SaveGone, ReviveTaken, PatchRefused, DropGone
<1>2. QED
  BY <1>1, OweStart, OweOutside DEF Next

LEMMA OweInit == Init => OweInv /\ Blank
<1> SUFFICES ASSUME Init PROVE OweInv /\ Blank
  OBVIOUS
<1>1. \A r \in Requests : pc[r] = "idle" /\ job[r] = NoJob /\ queue[r] = <<>>
  BY DEF Init
<1>2. \A r \in Requests : Concerned(r) = {} /\ Knows(r)
  BY <1>1 DEF Concerned, Working, Knows, Waiting, LinkRead, RoleRead, SeenSo, NoJob
<1>3. Apart /\ ClaimsOwed
  BY <1>2 DEF Apart, ClaimsOwed, Init
<1>4. Blank
  <2>1. \A m \in Ids : member[m].row = "absent" =>
          member[m] = [row |-> "absent", user |-> Nobody, role |-> "USER"]
    BY DEF Init
  <2>2. QED
    BY <2>1 DEF Blank
<1>5. QED
  BY <1>2, <1>3, <1>4, MembersInit DEF OweInv, MergeInv

(* A user whose membership a request changed, and nobody else worked on       *)
(* meanwhile, is still on that request's list of claims to rebuild, be it     *)
(* alive or dead, for as long as the claims do not say what the member rows   *)
(* say ("so the change takes effect on next token refresh"): whichever branch *)
(* update, delete, restore or merge takes, and however many requests there    *)
(* are.                                                                       *)
THEOREM NoClaimForgotten == Spec => []ClaimsOwed
<1>1. Init => OweInv /\ Blank
  BY OweInit
<1>2. MergeInv /\ MergeInv' /\ OweInv /\ Blank /\ [Next]_vars => OweInv' /\ Blank'
  BY OweStep, BlankStep DEF MergeInv
<1>3. OweInv => ClaimsOwed
  BY DEF OweInv
<1>4. QED
  BY <1>1, <1>2, <1>3, MergeInvHolds, PTL DEF Spec
=============================================================================
