------------------------------- MODULE Members -------------------------------
(***************************************************************************)
(* The members of one church, the gifts and pledges that name them, and    *)
(* the copy of their memberships that the identity provider keeps in each  *)
(* user's claims.                                                          *)
(*                                                                         *)
(* A request runs in several awaited calls, each of which commits on its   *)
(* own: it reads the member, writes it, and then, when that can matter to  *)
(* a signed-in user, rebuilds the user's claims: it reads the memberships  *)
(* (UserClaimsService.refreshFor) and sends what it read.  Merging two     *)
(* members is five such calls in a row.  Requests interleave between calls *)
(* and may die there.                                                      *)
(*                                                                         *)
(* Names and addresses are left out: whether the row to be dropped has one *)
(* that the kept row lacks is a free choice.  Gifts and pledges are rows   *)
(* with an owner.                                                          *)
(***************************************************************************)
EXTENDS Naturals, Sequences, SequencesExt

CONSTANTS
  Ids,            \* ids a Member row may get
  Users,          \* signed-in users
  Gifts, Pledges, \* ids of Transaction and Pledge rows
  Requests,       \* requests of a behaviour, each served once
  Nobody          \* no user, no claim, no role given

ASSUME PeopleAssumption ==
  /\ Nobody \notin Users \cup Ids
  /\ Users \cap Ids = {}
  /\ Gifts \cap Pledges = {}

VARIABLES
  member,         \* the Member table
  holding,        \* the Transaction and Pledge tables: owner and tombstone
  claims,         \* each user's membership claim for this church
  pc, job,        \* where each request is, and what it has read and will write
  queue,          \* the users whose claims a request has still to rebuild,
                  \* or would have, had it not failed
  met             \* history: members and users two requests worked on at once

vars == <<member, holding, claims, pc, job, queue, met>>
rows == <<member, holding, claims>>

Roles == {"ADMIN", "USER"}
Rows == {"absent", "live", "archived"}
Holdings == Gifts \cup Pledges

Live(m) == member[m].row = "live"

(* What refreshFor would send for u: the partial unique index on (tenant,   *)
(* user) leaves a user at most one live membership.                         *)
Memberships(u) == {m \in Ids : Live(m) /\ member[m].user = u}
Membership(u) ==
  IF Memberships(u) = {} THEN [member |-> Nobody, role |-> Nobody]
  ELSE LET m == CHOOSE m \in Memberships(u) : TRUE
       IN  [member |-> m, role |-> member[m].role]

(* The unique index lets m hold its user u. *)
IndexAllows(m, u) == u # Nobody => Memberships(u) \subseteq {m}

-----------------------------------------------------------------------------
NoJob == [op |-> "none"]
NoHolding == [row |-> "absent", owner |-> Nobody]

Working(r) == pc[r] \notin {"idle", "done", "failed"}

(* The members and users a request works on. *)
Concerned(r) ==
  IF ~Working(r) THEN {}
  ELSE LET named == IF job[r].op = "merge" THEN {job[r].keep, job[r].drop}
                    ELSE IF job[r].op \in {"none", "claims"} THEN {} ELSE {job[r].id}
       IN  (named \cup {member[m].user : m \in named} \cup Range(queue[r])) \ {Nobody}

(* The history: those in `who` that a working request is concerned with. *)
Meet(who) == met' = met \cup (who \cap UNION {Concerned(q) : q \in Requests})

Links(work) ==
  IF work.op = "merge" THEN {work.keep, work.drop, member[work.keep].user, member[work.drop].user}
  ELSE {work.id, member[work.id].user}

Begin(r, place, work) ==
  /\ pc[r] = "idle"
  /\ pc' = [pc EXCEPT ![r] = place]
  /\ job' = [job EXCEPT ![r] = work]
  /\ Meet(Links(work) \ {Nobody})
  /\ UNCHANGED <<rows, queue>>

(* The next call of a request is at `place`. *)
Advance(r, place, work) ==
  /\ pc' = [pc EXCEPT ![r] = place]
  /\ job' = [job EXCEPT ![r] = work]
  /\ UNCHANGED <<queue, met>>

(* The row is written; the claims of the users in `stale` come next. *)
Written(r, stale) ==
  /\ pc' = [pc EXCEPT ![r] = IF stale = <<>> THEN "done" ELSE "read"]
  /\ queue' = [queue EXCEPT ![r] = stale]
  /\ job' = [job EXCEPT ![r] = NoJob]
  /\ UNCHANGED met

Fail(r) ==
  /\ pc' = [pc EXCEPT ![r] = "failed"]
  /\ job' = [job EXCEPT ![r] = NoJob]
  /\ UNCHANGED <<rows, queue, met>>

(* Fault: a member without a user has claims to rebuild all the same. *)
LinkedOrNot(u) == <<u>>

Linked(u) == IF u = Nobody THEN <<>> ELSE <<u>>

-----------------------------------------------------------------------------
(* refreshFor: read the memberships, then send them. *)

(* Fault: what is sent is what the sign-in saw, not what is there now. *)
LookAtClaims(r) ==
  /\ pc[r] = "read"
  /\ pc' = [pc EXCEPT ![r] = "send"]
  /\ job' = [job EXCEPT ![r] = [op |-> "claims", seen |-> claims[Head(queue[r])]]]
  /\ UNCHANGED <<rows, queue, met>>

Look(r) ==
  /\ pc[r] = "read"
  /\ pc' = [pc EXCEPT ![r] = "send"]
  /\ job' = [job EXCEPT ![r] = [op |-> "claims", seen |-> Membership(Head(queue[r]))]]
  /\ UNCHANGED <<rows, queue, met>>

Send(r) ==
  /\ pc[r] = "send"
  /\ claims' = [claims EXCEPT ![Head(queue[r])] = job[r].seen]
  /\ queue' = [queue EXCEPT ![r] = Tail(@)]
  /\ pc' = [pc EXCEPT ![r] = IF Tail(queue[r]) = <<>> THEN "done" ELSE "read"]
  /\ job' = [job EXCEPT ![r] = NoJob]
  /\ UNCHANGED <<member, holding, met>>

(* exchangeIdToken: a sign-in rebuilds the user's claims. *)
SignIn(r) ==
  /\ pc[r] = "idle"
  /\ \E u \in Users : /\ queue' = [queue EXCEPT ![r] = <<u>>]
                      /\ Meet({u})
  /\ pc' = [pc EXCEPT ![r] = "read"]
  /\ UNCHANGED <<rows, job>>

-----------------------------------------------------------------------------
(* create, update, delete, restore. *)

CreateMember(m) ==
  /\ member[m].row = "absent"
  /\ \E role \in Roles :
       member' = [member EXCEPT ![m] = [row |-> "live", user |-> Nobody, role |-> role]]
  /\ UNCHANGED <<holding, claims, pc, job, queue, met>>

(* A role may be given or not. *)
BeginUpdate(r) ==
  \E m \in Ids, role \in Roles \cup {Nobody} :
    /\ Live(m)
    /\ Begin(r, "save", [op |-> "update", id |-> m, role |-> role, before |-> member[m].role])

(* Fault: the claims are left alone when a role is taken away. *)
StaleAfterPromotionOnly(r) ==
  IF job[r].role = "ADMIN" /\ job[r].role # job[r].before
  THEN Linked(member[job[r].id].user) ELSE <<>>

(* Claims are rebuilt only if the role given differs from the one read. *)
StaleAfterUpdate(r) ==
  IF job[r].role \notin {Nobody, job[r].before}
  THEN Linked(member[job[r].id].user) ELSE <<>>

Save(r) ==
  /\ pc[r] = "save"
  /\ Live(job[r].id)
  /\ member' = [member EXCEPT ![job[r].id].role = IF job[r].role = Nobody THEN @ ELSE job[r].role]
  /\ Written(r, StaleAfterUpdate(r))
  /\ UNCHANGED <<holding, claims>>

SaveGone(r) == pc[r] = "save" /\ ~Live(job[r].id) /\ Fail(r)

BeginDelete(r) ==
  \E m \in Ids : Live(m) /\ Begin(r, "erase", [op |-> "delete", id |-> m])

(* The row is stamped if it is still live, and read back in either case; a  *)
(* merge looks at the link it read at the start.                            *)
Erased(r) == IF job[r].op = "merge" THEN job[r].drop ELSE job[r].id
StaleAfterErase(r) ==
  IF job[r].op = "delete" THEN Linked(member[job[r].id].user)
  ELSE Linked(job[r].user) \o IF "user" \in job[r].fields THEN Linked(job[r].user) ELSE <<>>

Erase(r) ==
  /\ pc[r] = "erase"
  /\ member' = [member EXCEPT ![Erased(r)].row = "archived"]
  /\ Written(r, StaleAfterErase(r))
  /\ UNCHANGED <<holding, claims>>

BeginRestore(r) ==
  \E m \in Ids : /\ member[m].row # "absent"
                 /\ Begin(r, "revive", [op |-> "restore", id |-> m])

(* A live row is left as it is, and its user's claims are rebuilt as well. *)
Revive(r) ==
  /\ pc[r] = "revive"
  /\ Live(job[r].id) \/ IndexAllows(job[r].id, member[job[r].id].user)
  /\ member' = [member EXCEPT ![job[r].id].row = "live"]
  /\ Written(r, Linked(member[job[r].id].user))
  /\ UNCHANGED <<holding, claims>>

(* The user has another membership by now: the unique index refuses. *)
ReviveTaken(r) ==
  /\ pc[r] = "revive"
  /\ ~Live(job[r].id) /\ ~IndexAllows(job[r].id, member[job[r].id].user)
  /\ Fail(r)

-----------------------------------------------------------------------------
(* merge: check both; move gifts and pledges; fill in what the kept row      *)
(* lacks; archive the other; rebuild claims.                                 *)

(* collectFieldsToCopy: the user link if only the dropped row has one, and   *)
(* perhaps an address.                                                       *)
FieldsToCopy(k, d) ==
  LET link == {f \in {"user"} : member[k].user = Nobody /\ member[d].user # Nobody}
  IN  {link, link \cup {"contact"}}

(* Both live; linked to different users they cannot be merged, and the index *)
(* keeps them from being linked to the same one.                             *)
BeginMerge(r) ==
  \E k, d \in Ids :
    /\ k # d /\ Live(k) /\ Live(d)
    /\ Nobody \in {member[k].user, member[d].user}
    /\ \E fields \in FieldsToCopy(k, d) :
         Begin(r, "move", [op |-> "merge", keep |-> k, drop |-> d, user |-> member[d].user,
                           fields |-> fields, left |-> {Gifts, Pledges}])

(* Fault: the pledges stay where they are. *)
GiftsOnly(r, table) == {h \in table \cap Gifts : /\ holding[h].row = "live"
                                                 /\ holding[h].owner = job[r].drop}

(* reassignMember of one table.  Its where clause does not mention          *)
(* deletedAt, so that the archive filter narrows it to live rows.           *)
Moved(r, table) == {h \in table : /\ holding[h].row = "live"
                                  /\ holding[h].owner = job[r].drop}

(* The two updates run side by side and commit in either order. *)
Move(r) ==
  /\ pc[r] = "move"
  /\ \E table \in job[r].left :
       /\ holding' = [h \in Holdings |->
            IF h \in Moved(r, table) THEN [holding[h] EXCEPT !.owner = job[r].keep]
            ELSE holding[h]]
       /\ LET work == [job[r] EXCEPT !.left = @ \ {table}]
          IN  Advance(r, IF work.left # {} THEN "move"
                         ELSE IF work.fields # {} THEN "patch" ELSE "drop", work)
  /\ UNCHANGED <<member, claims>>

Patchable(r) ==
  /\ Live(job[r].keep)
  /\ "user" \in job[r].fields => IndexAllows(job[r].keep, job[r].user)

Patch(r) ==
  /\ pc[r] = "patch" /\ Patchable(r)
  /\ member' = [member EXCEPT
       ![job[r].keep].user = IF "user" \in job[r].fields THEN job[r].user ELSE @]
  /\ Advance(r, "drop", job[r])
  /\ UNCHANGED <<holding, claims>>

(* Archived meanwhile; or the link is still held by the row to be dropped. *)
PatchRefused(r) == pc[r] = "patch" /\ ~Patchable(r) /\ Fail(r)

Drop(r) ==
  /\ pc[r] = "drop" /\ Live(job[r].drop)
  /\ Advance(r, "erase", job[r])
  /\ UNCHANGED rows

DropGone(r) == pc[r] = "drop" /\ ~Live(job[r].drop) /\ Fail(r)

-----------------------------------------------------------------------------
(* Gifts and pledges come and go meanwhile. *)

(* The member is checked, the row comes next. *)
BeginRecord(r) ==
  \E m \in Ids, h \in Holdings :
    /\ Live(m) /\ holding[h].row = "absent"
    /\ \A q \in Requests : pc[q] = "record" => job[q].holding # h
    /\ Begin(r, "record", [op |-> "record", id |-> m, holding |-> h])

Record(r) ==
  /\ pc[r] = "record"
  /\ holding' = [holding EXCEPT ![job[r].holding] = [row |-> "live", owner |-> job[r].id]]
  /\ Written(r, <<>>)
  /\ UNCHANGED <<member, claims>>

SetHolding(h, row, owner) ==
  /\ holding' = [holding EXCEPT ![h] = [row |-> row, owner |-> owner]]
  /\ Meet({owner})
  /\ UNCHANGED <<member, claims, pc, job, queue>>

Archive(h) == holding[h].row = "live" /\ SetHolding(h, "archived", holding[h].owner)
Restore(h) == holding[h].row = "archived" /\ SetHolding(h, "live", holding[h].owner)

(* An update of a gift may name another member, who is not looked at; only   *)
(* the foreign key is.                                                       *)
Reattribute(h) ==
  /\ h \in Gifts /\ holding[h].row = "live"
  /\ \E m \in Ids : member[m].row # "absent" /\ SetHolding(h, "live", m)

-----------------------------------------------------------------------------
Crash(r) == Working(r) /\ Fail(r)

Init ==
  /\ member \in [Ids -> [row : Rows, user : Users \cup {Nobody}, role : Roles]]
  /\ \A m \in Ids : /\ IndexAllows(m, member[m].user) \/ ~Live(m)
                    /\ member[m].row = "absent" =>
                         member[m] = [row |-> "absent", user |-> Nobody, role |-> "USER"]
  /\ holding \in [Holdings -> [row : {"live", "archived"}, owner : Ids] \cup {NoHolding}]
  /\ \A h \in Holdings :
       holding[h].owner \in {Nobody} \cup {m \in Ids : member[m].row # "absent"}
  /\ claims = [u \in Users |-> Membership(u)]
  /\ pc = [r \in Requests |-> "idle"]
  /\ job = [r \in Requests |-> NoJob]
  /\ queue = [r \in Requests |-> <<>>]
  /\ met = {}

Start(r) ==
  \/ SignIn(r) \/ BeginUpdate(r) \/ BeginDelete(r) \/ BeginRestore(r)
  \/ BeginMerge(r) \/ BeginRecord(r)

Proceed(r) ==
  \/ Look(r) \/ Send(r)
  \/ Save(r) \/ SaveGone(r) \/ Erase(r) \/ Revive(r) \/ ReviveTaken(r)
  \/ Move(r) \/ Patch(r) \/ PatchRefused(r) \/ Drop(r) \/ DropGone(r)
  \/ Record(r)

Next ==
  \/ \E r \in Requests : Start(r) \/ Proceed(r) \/ Crash(r)
  \/ \E m \in Ids : CreateMember(m)
  \/ \E h \in Holdings : Archive(h) \/ Restore(h) \/ Reattribute(h)

Spec == Init /\ [][Next]_vars

(* Node resumes a handler whose call has returned. *)
FairSpec == Spec /\ \A r \in Requests : WF_vars(Proceed(r))
-----------------------------------------------------------------------------
Places == {"idle", "read", "send", "save", "erase", "revive", "move", "patch",
           "drop", "record", "done", "failed"}
Claim == [member : Ids \cup {Nobody}, role : Roles \cup {Nobody}]

(* Every variable has its type. *)
TypeOK ==
  /\ member \in [Ids -> [row : Rows, user : Users \cup {Nobody}, role : Roles]]
  /\ holding \in [Holdings -> [row : {"live", "archived"}, owner : Ids] \cup {NoHolding}]
  /\ claims \in [Users -> Claim]
  /\ pc \in [Requests -> Places]
  /\ queue \in [Requests -> Seq(Users)]
  /\ \A r \in Requests : pc[r] \in {"read", "send"} => queue[r] # <<>>
  /\ met \subseteq Ids \cup Users

(* The claims of a user on whom no two requests have worked at once say what *)
(* the member rows say, or a request was to rebuild them and has not come to  *)
(* it yet, or died before it did: whichever branch a handler took, it did not *)
(* forget a user whose membership it changed ("so the change takes effect on  *)
(* next token refresh", comments on update, delete, restore and merge).       *)
ClaimsOwed ==
  \A u \in Users \ met :
    claims[u] # Membership(u) => \E r \in Requests : u \in Range(queue[r])

(* When a merge comes to archive the dropped member, none of its live gifts  *)
(* or pledges is left behind, if nobody else worked on that member meanwhile *)
(* ("Move all transactions + pledges from drop to keep", comment on merge).  *)
MergeLeavesNone ==
  \A r \in Requests :
    pc[r] \in {"patch", "drop", "erase"} /\ job[r].op = "merge" /\ job[r].drop \notin met =>
      \A h \in Holdings : holding[h].row = "live" => holding[h].owner # job[r].drop

(* If no request fails, the claims of a user nobody worked on twice at once  *)
(* come to say what the member rows say.                                     *)
ClaimsSettle ==
  \A u \in Users :
    [](u \notin met /\ \A r \in Requests : pc[r] # "failed") =>
      <>[](claims[u] = Membership(u))

(* When a merge comes to archive the dropped member, nothing names it any    *)
(* more, if nobody worked on it meanwhile: "Soft-deleted rows are            *)
(* intentionally moved too" (reassignMember).                                *)
MergeMovesTombstones ==
  \A r \in Requests :
    pc[r] = "erase" /\ job[r].op = "merge" /\ job[r].drop \notin met =>
      \A h \in Holdings : holding[h].owner # job[r].drop
=============================================================================
