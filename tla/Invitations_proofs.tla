-------------------------- MODULE Invitations_proofs --------------------------
(***************************************************************************)
(* Proofs about invitations: how many there are, and whom they join.       *)
(***************************************************************************)
EXTENDS Invitations, FiniteSetTheorems, TLAPS

Statuses == {"absent", "PENDING", "ACCEPTED", "EXPIRED", "CANCELLED"}
InvitationRow == [status : Statuses, email : Emails \cup {Nobody},
                  memberId : Ids \cup {Nobody}, createdAt : Nat]
MemberRow == [row : {"absent", "live", "archived"}, user : Users \cup {Nobody}]

Issues == [op : {"issue"}, email : Emails, memberId : Ids \cup {Nobody}]
Accepts == [op : {"accept"}, id : Invitations, user : Users,
            memberId : Ids \cup {Nobody}, seen : Ids \cup {Nobody}]
Cancels == [op : {"cancel"}, id : Invitations]

(* Where a request is when its invitation has joined nobody yet, when it has *)
(* joined the user and does not say so, and when it says so.                 *)
IssuePlaces == {"dedup", "check", "create"}
Before == {"expire", "find", "link", "enrol"}
Joining == {"email", "mark"}
After == {"look", "send"}
Places == IssuePlaces \cup Before \cup Joining \cup After \cup {"cancel", "idle", "done", "failed"}

Typed ==
  /\ clock \in Nat
  /\ invitation \in [Invitations -> InvitationRow]
  /\ member \in [Ids -> MemberRow]
  /\ \A m \in Ids : member[m].row = "absent" => member[m].user = Nobody
  /\ pc \in [Requests -> Places]
  /\ job \in [Requests -> {NoJob} \cup Issues \cup Accepts \cup Cancels]
  /\ \A r \in Requests :
       /\ pc[r] \in IssuePlaces => job[r] \in Issues
       /\ pc[r] = "check" => job[r].memberId # Nobody
       /\ pc[r] \in Before \cup Joining \cup After => job[r] \in Accepts
       /\ pc[r] \in {"find", "link", "email"} => job[r].memberId # Nobody
       /\ pc[r] = "cancel" => job[r] \in Cancels
  /\ peak \in Nat
  /\ joined \in [Invitations -> SUBSET Users]
  /\ troubled \subseteq Invitations
-----------------------------------------------------------------------------
(* How many. *)

CreatingFor(e) == {r \in Requests : pc[r] \in {"check", "create"} /\ job[r].email = e}

(* The requests that are issuing have counted, and those past the look for a *)
(* pending invitation may each add one.                                      *)
Counted ==
  /\ Cardinality(Issuing) <= peak
  /\ Cardinality(Recent) + Cardinality(Issuing) <= RateMax + peak - 1
  /\ \A e \in Emails : Cardinality(PendingFor(e)) + Cardinality(CreatingFor(e)) <= peak
  /\ \A i \in Invitations : Issued(i) => invitation[i].createdAt <= clock

CountInv == Typed /\ Counted /\ RateBounded
-----------------------------------------------------------------------------
(* Whom they join. *)

(* Request r has invitation i open. *)
Handles(r, i) == pc[r] \in Before \cup Joining \cup After \cup {"cancel"} /\ job[r].id = i

Alone == \A i \in Invitations \ troubled : \A q, r \in Requests : Handles(q, i) /\ Handles(r, i) => q = r

(* A request has what it opened. *)
Opened ==
  \A r \in Requests, i \in Invitations : Handles(r, i) =>
    Issued(i) /\ (pc[r] # "cancel" => job[r].memberId = invitation[i].memberId)

(* Only an invitation that names nobody enrols. *)
Enrolling == \A r \in Requests : pc[r] = "enrol" => job[r].memberId = Nobody

(* How far an invitation is, as the request that has it open and the table   *)
(* say.                                                                      *)
Standing ==
  /\ \A r \in Requests, i \in Invitations \ troubled : Handles(r, i) =>
       /\ pc[r] \in Before \cup {"cancel"} => invitation[i].status = "PENDING" /\ joined[i] = {}
       /\ pc[r] \in Joining => invitation[i].status = "PENDING" /\ joined[i] = {job[r].user}
       /\ pc[r] \in After => invitation[i].status = "ACCEPTED"
  /\ \A i \in Invitations \ troubled :
       /\ invitation[i].status = "ACCEPTED" => \E u \in Users : joined[i] = {u}
       /\ invitation[i].status \in {"EXPIRED", "CANCELLED"} => joined[i] = {}
       /\ invitation[i].status = "PENDING" =>
            joined[i] = {} \/ \E r \in Requests : Handles(r, i) /\ pc[r] \in Joining
  /\ \A i \in Invitations : ~Issued(i) => joined[i] = {}

(* No invitation names member m, nor will one that is being issued. *)
Unnamed(m) ==
  /\ \A j \in Invitations : Issued(j) => invitation[j].memberId # m
  /\ \A r \in Requests : pc[r] = "create" => job[r].memberId # m

(* Two invitations that name one member are troubled. *)
Named ==
  /\ \A i, j \in Invitations \ troubled :
       Issued(i) /\ Issued(j) /\ invitation[i].memberId # Nobody
         /\ invitation[i].memberId = invitation[j].memberId => i = j
  /\ \A i \in Invitations \ troubled, j \in troubled :
       Issued(i) /\ Issued(j) /\ invitation[i].memberId # Nobody =>
         invitation[i].memberId # invitation[j].memberId
  /\ \A i \in Invitations, m \in Ids :
       Issued(i) /\ invitation[i].memberId = m => member[m].row # "absent"
  /\ \A r \in Requests, m \in Ids :
       pc[r] = "create" /\ job[r].memberId = m =>
         /\ member[m].row # "absent"
         /\ \/ member[m].user = Nobody
            \/ \E j \in Invitations : Issued(j) /\ invitation[j].memberId = m

(* A user who joined is linked to the member invited, or to one whom no      *)
(* invitation names; a member invited who has not joined has no user.        *)
Linked ==
  \A i \in Invitations \ troubled : Issued(i) =>
    /\ \A u \in joined[i] : \E m \in Ids :
         /\ member[m].user = u
         /\ \/ invitation[i].memberId = m
            \/ invitation[i].memberId = Nobody /\ Unnamed(m)
    /\ joined[i] = {} => \A m \in Ids : invitation[i].memberId = m => member[m].user = Nobody

JoinInv == Typed /\ Alone /\ Opened /\ Enrolling /\ Standing /\ Named /\ Linked
-----------------------------------------------------------------------------

LEMMA PlacesApart ==
  /\ \A j \in Issues : j \notin Accepts /\ j \notin Cancels /\ j # NoJob
  /\ \A j \in Accepts : j \notin Cancels /\ j # NoJob
  /\ \A j \in Cancels : j # NoJob
BY DEF Issues, Accepts, Cancels, NoJob

(* A request goes on with the job it has. *)
LEMMA GoTyped ==
  ASSUME Typed, NEW r \in Requests, NEW place \in Places, Go(r, place),
         place \in IssuePlaces => job[r] \in Issues,
         place = "check" => job[r].memberId # Nobody,
         place \in Before \cup Joining \cup After => job[r] \in Accepts,
         place \in {"find", "link", "email"} => job[r].memberId # Nobody,
         place = "cancel" => job[r] \in Cancels,
         invitation' \in [Invitations -> InvitationRow],
         member' \in [Ids -> MemberRow],
         \A m \in Ids : member'[m].row = "absent" => member'[m].user = Nobody,
         UNCHANGED peak, joined' \in [Invitations -> SUBSET Users], troubled' \subseteq Invitations
  PROVE  Typed'
<1>1. /\ pc' \in [Requests -> Places] /\ job' = job /\ clock' = clock
      /\ \A q \in Requests : pc'[q] = IF q = r THEN place ELSE pc[q]
  BY DEF Go, Typed
<1>2. \A q \in Requests :
       /\ pc'[q] \in IssuePlaces => job'[q] \in Issues
       /\ pc'[q] = "check" => job'[q].memberId # Nobody
       /\ pc'[q] \in Before \cup Joining \cup After => job'[q] \in Accepts
       /\ pc'[q] \in {"find", "link", "email"} => job'[q].memberId # Nobody
       /\ pc'[q] = "cancel" => job'[q] \in Cancels
  BY <1>1 DEF Typed
<1>3. QED
  BY <1>1, <1>2 DEF Typed

(* The tables stay. *)
LEMMA GoTypedOnly ==
  ASSUME Typed, NEW r \in Requests, NEW place \in Places, Go(r, place), UNCHANGED <<rows, history>>,
         place \in IssuePlaces => job[r] \in Issues,
         place = "check" => job[r].memberId # Nobody,
         place \in Before \cup Joining \cup After => job[r] \in Accepts,
         place \in {"find", "link", "email"} => job[r].memberId # Nobody,
         place = "cancel" => job[r] \in Cancels
  PROVE  Typed'
<1>1. UNCHANGED <<invitation, member, peak, joined, troubled>>
  BY DEF rows, history
<1>2. QED
  BY <1>1, GoTyped DEF Typed

(* A request begins. *)
LEMMA BeginTyped ==
  ASSUME Typed, NEW r \in Requests, NEW place \in Places,
         NEW work \in Issues \cup Accepts \cup Cancels,
         pc' = [pc EXCEPT ![r] = place], job' = [job EXCEPT ![r] = work],
         place \in IssuePlaces => work \in Issues,
         place = "check" => work.memberId # Nobody,
         place \in Before \cup Joining \cup After => work \in Accepts,
         place \in {"find", "link", "email"} => work.memberId # Nobody,
         place = "cancel" => work \in Cancels,
         UNCHANGED <<clock, invitation, member, joined>>, peak' \in Nat, troubled' \subseteq Invitations
  PROVE  Typed'
<1>1. /\ pc' \in [Requests -> Places]
      /\ job' \in [Requests -> {NoJob} \cup Issues \cup Accepts \cup Cancels]
      /\ \A q \in Requests : /\ pc'[q] = IF q = r THEN place ELSE pc[q]
                             /\ job'[q] = IF q = r THEN work ELSE job[q]
  BY DEF Typed
<1>2. \A q \in Requests :
       /\ pc'[q] \in IssuePlaces => job'[q] \in Issues
       /\ pc'[q] = "check" => job'[q].memberId # Nobody
       /\ pc'[q] \in Before \cup Joining \cup After => job'[q] \in Accepts
       /\ pc'[q] \in {"find", "link", "email"} => job'[q].memberId # Nobody
       /\ pc'[q] = "cancel" => job'[q] \in Cancels
  BY <1>1 DEF Typed
<1>3. QED
  BY <1>1, <1>2 DEF Typed

LEMMA MaxOfTwo ==
  ASSUME NEW a \in Nat, NEW b \in Nat
  PROVE  Max({a, b}) \in Nat /\ Max({a, b}) >= a /\ Max({a, b}) >= b
<1>1. \E x \in {a, b} : \A y \in {a, b} : x >= y
  <2>1. CASE a >= b
    BY <2>1
  <2>2. CASE b >= a
    BY <2>2
  <2>3. QED
    BY <2>1, <2>2
<1>2. QED
  BY <1>1 DEF Max

LEMMA Finite ==
  /\ \A S \in SUBSET Invitations : IsFiniteSet(S) /\ Cardinality(S) \in Nat
  /\ \A S \in SUBSET Requests : IsFiniteSet(S) /\ Cardinality(S) \in Nat
BY InvitationAssumption, FS_Subset, FS_CardinalityType

LEMMA AtMost ==
  /\ \A S, T \in SUBSET Invitations : S \subseteq T => Cardinality(S) <= Cardinality(T)
  /\ \A S, T \in SUBSET Requests : S \subseteq T => Cardinality(S) <= Cardinality(T)
BY Finite, FS_Subset

LEMMA OneMore ==
  /\ \A S \in SUBSET Invitations, x \in Invitations :
       x \notin S => Cardinality(S \cup {x}) = Cardinality(S) + 1
  /\ \A S \in SUBSET Requests, x \in Requests :
       /\ x \notin S => Cardinality(S \cup {x}) = Cardinality(S) + 1
       /\ x \in S => Cardinality(S \ {x}) = Cardinality(S) - 1
BY Finite, FS_AddElement, FS_RemoveElement

LEMMA SetsHere ==
  /\ Issuing \subseteq Requests /\ Recent \subseteq Invitations
  /\ \A e : PendingFor(e) \subseteq Invitations /\ CreatingFor(e) \subseteq Requests
BY DEF Issuing, Recent, PendingFor, CreatingFor

LEMMA TypedInit == Init => Typed
BY DEF Init, Typed, InvitationRow, MemberRow, Unissued, Places, IssuePlaces, Before, Joining, After,
       Statuses
-----------------------------------------------------------------------------
(* One lemma for each step: the types, and what it does to whom.             *)

LEMMA BeginIssueFacts ==
  ASSUME Typed, NEW r \in Requests, BeginIssue(r)
  PROVE  /\ Typed' /\ UNCHANGED <<clock, invitation, member, joined, troubled>>
         /\ pc[r] = "idle" /\ pc'[r] = "dedup" /\ WithinRate
         /\ \A q \in Requests \ {r} : pc'[q] = pc[q] /\ job'[q] = job[q]
         /\ peak' >= peak /\ peak' >= Cardinality(Issuing) + 1
<1>1. PICK e \in Emails, m \in Ids \cup {Nobody} :
        job' = [job EXCEPT ![r] = [op |-> "issue", email |-> e, memberId |-> m]]
  BY DEF BeginIssue
<1> DEFINE work == [op |-> "issue", email |-> e, memberId |-> m]
<1>2. work \in Issues
  BY DEF Issues
<1>3. /\ UNCHANGED <<clock, invitation, member, joined, troubled>> /\ pc[r] = "idle"
      /\ pc' = [pc EXCEPT ![r] = "dedup"] /\ WithinRate
      /\ peak' = Max({peak, Cardinality(Issuing) + 1})
  BY DEF BeginIssue, rows
<1>4. Cardinality(Issuing) + 1 \in Nat /\ peak \in Nat
  BY SetsHere, Finite DEF Typed
<1>5. peak' \in Nat /\ peak' >= peak /\ peak' >= Cardinality(Issuing) + 1
  BY <1>3, <1>4, MaxOfTwo
<1> HIDE DEF work
<1>6. Typed'
  BY <1>1, <1>2, <1>3, <1>5, BeginTyped DEF work, Typed, Places, IssuePlaces, Before, Joining, After
<1>7. QED
  BY <1>1, <1>3, <1>5, <1>6 DEF Typed

LEMMA OpenFacts ==
  ASSUME Typed, NEW r \in Requests, BeginAccept(r) \/ BeginCancel(r)
  PROVE  \E i \in Invitations :
           /\ Typed' /\ UNCHANGED <<clock, invitation, member, peak, joined>>
           /\ pc[r] = "idle" /\ pc'[r] \in Before \cup {"cancel"}
           /\ job'[r].id = i /\ Issued(i) /\ invitation[i].status = "PENDING"
           /\ pc'[r] # "cancel" => job'[r].memberId = invitation[i].memberId
           /\ pc'[r] = "enrol" => job'[r].memberId = Nobody
           /\ \A q \in Requests \ {r} : pc'[q] = pc[q] /\ job'[q] = job[q]
           /\ troubled \subseteq troubled'
           /\ OpenOn(i) = {} \/ i \in troubled'
<1>1. CASE BeginAccept(r)
  <2>1. PICK i \in Invitations, u \in Users :
          /\ Acceptable(i)
          /\ Open(r, i, IF Expired(i) THEN "expire"
                        ELSE IF invitation[i].memberId = Nobody THEN "enrol" ELSE "find",
                  [op |-> "accept", id |-> i, user |-> u, memberId |-> invitation[i].memberId,
                   seen |-> Nobody])
    BY <1>1 DEF BeginAccept, Acceptors
  <2> DEFINE place == IF Expired(i) THEN "expire"
                      ELSE IF invitation[i].memberId = Nobody THEN "enrol" ELSE "find"
             work == [op |-> "accept", id |-> i, user |-> u, memberId |-> invitation[i].memberId,
                      seen |-> Nobody]
  <2>2. /\ pc[r] = "idle" /\ Issued(i) /\ pc' = [pc EXCEPT ![r] = place]
        /\ job' = [job EXCEPT ![r] = work]
        /\ troubled' = troubled \cup (IF OpenOn(i) = {} THEN {} ELSE {i})
        /\ UNCHANGED <<clock, invitation, member, peak, joined>>
    BY <2>1 DEF Open, rows
  <2>3. work \in Accepts /\ work.memberId = invitation[i].memberId /\ work.id = i
    BY DEF Accepts, Typed, InvitationRow
  <2>4. place \in Before /\ (place = "find" => invitation[i].memberId # Nobody)
        /\ (place = "enrol" => invitation[i].memberId = Nobody)
        /\ place \notin {"link", "email"}
    BY DEF Before
  <2> HIDE DEF place, work
  <2>5. Typed'
    BY <2>2, <2>3, <2>4, BeginTyped DEF Typed, Places, IssuePlaces, Before
  <2>6. /\ pc'[r] = place /\ job'[r] = work
        /\ \A q \in Requests \ {r} : pc'[q] = pc[q] /\ job'[q] = job[q]
    BY <2>2 DEF Typed
  <2>7. QED
    BY <2>1, <2>2, <2>3, <2>4, <2>5, <2>6 DEF Acceptable
<1>2. CASE BeginCancel(r)
  <2>1. PICK i \in Invitations : Cancellable(i) /\ Open(r, i, "cancel", [op |-> "cancel", id |-> i])
    BY <1>2 DEF BeginCancel
  <2> DEFINE work == [op |-> "cancel", id |-> i]
  <2>2. /\ pc[r] = "idle" /\ Issued(i) /\ pc' = [pc EXCEPT ![r] = "cancel"]
        /\ job' = [job EXCEPT ![r] = work]
        /\ troubled' = troubled \cup (IF OpenOn(i) = {} THEN {} ELSE {i})
        /\ UNCHANGED <<clock, invitation, member, peak, joined>>
    BY <2>1 DEF Open, rows
  <2>3. work \in Cancels /\ work.id = i
    BY DEF Cancels
  <2> HIDE DEF work
  <2>4. Typed'
    BY <2>2, <2>3, BeginTyped DEF Typed, Places, IssuePlaces, Before, Joining, After
  <2>5. /\ pc'[r] = "cancel" /\ job'[r] = work
        /\ \A q \in Requests \ {r} : pc'[q] = pc[q] /\ job'[q] = job[q]
    BY <2>2 DEF Typed
  <2>6. QED
    BY <2>1, <2>2, <2>3, <2>4, <2>5 DEF Cancellable
<1>3. QED
  BY <1>1, <1>2

(* A request that does not write. *)
Moves(r) ==
  Dedup(r) \/ CheckMember(r) \/ RefuseIssue(r) \/ FindMember(r) \/ SaveEmail(r)
    \/ RefuseAccept(r) \/ Crash(r)

LEMMA MoveFacts ==
  ASSUME Typed, NEW r \in Requests, Moves(r)
  PROVE  /\ Typed' /\ UNCHANGED <<clock, invitation, member, job, peak, joined>>
         /\ \A q \in Requests \ {r} : pc'[q] = pc[q]
         /\ troubled \subseteq troubled'
         /\ \/ /\ pc[r] = "dedup" /\ PendingFor(job[r].email) = {}
               /\ pc'[r] = "check" \/ (pc'[r] = "create" /\ job[r].memberId = Nobody)
            \/ pc[r] = "check" /\ pc'[r] = "create" /\ Claimable(job[r].memberId)
            \/ pc[r] = "find" /\ pc'[r] = "link"
            \/ pc[r] = "email" /\ pc'[r] = "mark"
            \/ pc'[r] = "failed" /\ (pc[r] \in Joining => job[r].id \in troubled')
<1> USE DEF Places, IssuePlaces, Before, Joining, After
<1>0. ASSUME NEW place, Go(r, place)
      PROVE  /\ UNCHANGED <<clock, job>> /\ pc'[r] = place
             /\ \A q \in Requests \ {r} : pc'[q] = pc[q]
  BY <1>0 DEF Go, Typed
<1>1. CASE Dedup(r)
  <2> DEFINE place == IF job[r].memberId = Nobody THEN "create" ELSE "check"
  <2>1. /\ Go(r, place) /\ pc[r] = "dedup" /\ PendingFor(job[r].email) = {}
        /\ UNCHANGED <<rows, history>>
    BY <1>1 DEF Dedup
  <2>2. place = "check" \/ (place = "create" /\ job[r].memberId = Nobody)
    OBVIOUS
  <2>3. place = "check" => job[r].memberId # Nobody
    OBVIOUS
  <2> HIDE DEF place
  <2>4. Typed'
    BY <2>1, <2>2, <2>3, GoTypedOnly DEF Typed
  <2>5. QED
    BY <1>0, <2>1, <2>2, <2>4 DEF rows, history
<1>2. CASE CheckMember(r)
  <2>1. /\ Go(r, "create") /\ pc[r] = "check" /\ Claimable(job[r].memberId)
        /\ UNCHANGED <<rows, history>>
    BY <1>2 DEF CheckMember
  <2>2. Typed'
    BY <2>1, GoTypedOnly DEF Typed
  <2>3. QED
    BY <1>0, <2>1, <2>2 DEF rows, history
<1>3. CASE RefuseIssue(r)
  <2>1. Go(r, "failed") /\ UNCHANGED <<rows, history>> /\ pc[r] \in {"dedup", "check"}
    BY <1>3 DEF RefuseIssue, Fail
  <2>2. Typed'
    BY <2>1, GoTypedOnly DEF Typed
  <2>3. QED
    BY <1>0, <2>1, <2>2 DEF rows, history
<1>4. CASE FindMember(r) \/ SaveEmail(r)
  <2>1. \E place \in {"link", "mark"} :
          /\ Go(r, place) /\ UNCHANGED <<rows, history>>
          /\ pc[r] = IF place = "link" THEN "find" ELSE "email"
    BY <1>4 DEF FindMember, SaveEmail
  <2>2. Typed'
    BY <2>1, GoTypedOnly DEF Typed
  <2>3. QED
    BY <1>0, <2>1, <2>2 DEF rows, history
<1>5. CASE RefuseAccept(r) \/ Crash(r)
  <2>1. /\ Go(r, "failed") /\ UNCHANGED <<rows, peak, joined>>
        /\ pc[r] \in Joining => job[r].id \in troubled'
        /\ \/ troubled' = troubled
           \/ troubled' = troubled \cup {job[r].id} /\ pc[r] \in Joining \cup After
    BY <1>5 DEF RefuseAccept, Crash, Fail
  <2>2. pc[r] \in Joining \cup After => job[r].id \in Invitations
    BY DEF Typed, Accepts
  <2>3. troubled' \subseteq Invitations
    BY <2>1, <2>2 DEF Typed
  <2>4. UNCHANGED <<invitation, member, peak, joined>>
    BY <2>1 DEF rows
  <2>5. Typed'
    BY <2>1, <2>3, <2>4, GoTyped DEF Typed
  <2>6. QED
    BY <1>0, <2>1, <2>4, <2>5
<1>6. QED
  BY <1>1, <1>2, <1>3, <1>4, <1>5 DEF Moves

(* The claims are rebuilt. *)
LEMMA RefreshFacts ==
  ASSUME Typed, NEW r \in Requests, Look(r) \/ Send(r)
  PROVE  /\ Typed' /\ UNCHANGED <<clock, invitation, member, peak, joined, troubled>>
         /\ \A q \in Requests \ {r} : pc'[q] = pc[q] /\ job'[q] = job[q]
         /\ \/ pc'[r] = "done" /\ pc[r] = "send" /\ job'[r] = job[r]
            \/ /\ pc[r] = "look" /\ pc'[r] = "send" /\ job'[r].id = job[r].id
               /\ job'[r].user = job[r].user /\ job'[r].memberId = job[r].memberId
<1> USE DEF Places, IssuePlaces, Before, Joining, After
<1>1. CASE Look(r)
  <2>1. job[r] \in Accepts
    BY <1>1 DEF Look, Typed
  <2> DEFINE seen == Membership(job[r].user)
             work == [job[r] EXCEPT !.seen = seen]
  <2>2. seen \in Ids \cup {Nobody}
    BY DEF Membership, Memberships
  <2> HIDE DEF seen
  <2>3. /\ work \in Accepts /\ work.id = job[r].id /\ work.user = job[r].user
        /\ work.memberId = job[r].memberId
    BY <2>1, <2>2 DEF Accepts
  <2>4. /\ pc' = [pc EXCEPT ![r] = "send"] /\ job' = [job EXCEPT ![r] = work]
        /\ UNCHANGED <<clock, invitation, member, peak, joined, troubled>>
    BY <1>1 DEF Look, rows, history, seen, Typed
  <2> HIDE DEF work
  <2>5. Typed'
    BY <2>3, <2>4, BeginTyped DEF Typed
  <2>6. /\ pc'[r] = "send" /\ job'[r] = work /\ pc[r] = "look"
        /\ \A q \in Requests \ {r} : pc'[q] = pc[q] /\ job'[q] = job[q]
    BY <1>1, <2>4 DEF Typed, Look
  <2>7. QED
    BY <2>3, <2>4, <2>5, <2>6
<1>2. CASE Send(r)
  <2>1. /\ Go(r, "done") /\ pc[r] = "send"
        /\ UNCHANGED <<invitation, member, peak, joined, troubled>>
    BY <1>2 DEF Send, history
  <2>2. Typed'
    BY <2>1, GoTyped DEF Typed
  <2>3. QED
    BY <2>1, <2>2 DEF Go, Typed
<1>3. QED
  BY <1>1, <1>2

(* A request says how its invitation ended. *)
LEMMA MarkFacts ==
  ASSUME Typed, NEW r \in Requests, MarkExpired(r) \/ MarkAccepted(r) \/ MarkCancelled(r)
  PROVE  \E i \in Invitations, s \in {"EXPIRED", "CANCELLED", "ACCEPTED"} :
           /\ Typed' /\ UNCHANGED <<clock, member, job, peak, joined, troubled>>
           /\ i = job[r].id
           /\ invitation'[i].status = s /\ invitation'[i].email = invitation[i].email
           /\ invitation'[i].memberId = invitation[i].memberId
           /\ invitation'[i].createdAt = invitation[i].createdAt
           /\ \A j \in Invitations \ {i} : invitation'[j] = invitation[j]
           /\ \A q \in Requests \ {r} : pc'[q] = pc[q]
           /\ IF s = "ACCEPTED" THEN pc[r] = "mark" /\ pc'[r] = "look"
              ELSE pc[r] \in {"expire", "cancel"} /\ pc'[r] \in {"done", "failed"}
<1> USE DEF Places, IssuePlaces, Before, Joining, After
<1>1. PICK s \in {"EXPIRED", "CANCELLED", "ACCEPTED"}, place \in {"done", "failed", "look"} :
        /\ invitation' = [invitation EXCEPT ![job[r].id].status = s]
        /\ Go(r, place) /\ UNCHANGED <<member, peak, joined, troubled>>
        /\ IF s = "ACCEPTED" THEN pc[r] = "mark" /\ place = "look"
           ELSE pc[r] \in {"expire", "cancel"} /\ place \in {"done", "failed"}
  BY DEF MarkExpired, MarkAccepted, MarkCancelled, Fail, history
<1>2. job[r].id \in Invitations /\ (place = "look" => job[r] \in Accepts)
  BY <1>1 DEF Typed, Accepts, Cancels
<1> DEFINE i == job[r].id
<1>3. invitation[i] \in InvitationRow /\ invitation'[i] = [invitation[i] EXCEPT !.status = s]
      /\ \A j \in Invitations \ {i} : invitation'[j] = invitation[j]
  BY <1>1, <1>2 DEF Typed
<1>4. /\ invitation'[i] \in InvitationRow
      /\ invitation'[i].status = s /\ invitation'[i].email = invitation[i].email
      /\ invitation'[i].memberId = invitation[i].memberId
      /\ invitation'[i].createdAt = invitation[i].createdAt
  BY <1>3 DEF InvitationRow, Statuses
<1>5. invitation' \in [Invitations -> InvitationRow]
  BY <1>1, <1>2, <1>3, <1>4 DEF Typed
<1>6. Typed'
  BY <1>1, <1>2, <1>5, GoTyped DEF Typed
<1>7. /\ pc'[r] = place /\ UNCHANGED <<clock, job>>
      /\ \A q \in Requests \ {r} : pc'[q] = pc[q]
  BY <1>1 DEF Go, Typed
<1>8. QED
  BY <1>1, <1>2, <1>3, <1>4, <1>6, <1>7

(* A request links its user to a member. *)
LEMMA JoinFacts ==
  ASSUME Typed, NEW r \in Requests, Link(r) \/ Enrol(r)
  PROVE  \E m \in Ids :
           /\ Typed' /\ UNCHANGED <<clock, invitation, job, peak, troubled>>
           /\ job[r].id \in Invitations /\ job[r].user \in Users
           /\ member'[m].row = "live" /\ member'[m].user = job[r].user
           /\ \A n \in Ids \ {m} : member'[n] = member[n]
           /\ joined'[job[r].id] = joined[job[r].id] \cup {job[r].user}
           /\ \A j \in Invitations \ {job[r].id} : joined'[j] = joined[j]
           /\ \A q \in Requests \ {r} : pc'[q] = pc[q]
           /\ pc'[r] \in Joining
           /\ \/ pc[r] = "link" /\ m = job[r].memberId
              \/ pc[r] = "enrol" /\ member[m].row = "absent"
<1> USE DEF Places, IssuePlaces, Before, Joining, After
<1>1. PICK m \in Ids, place \in {"email", "mark"} :
        /\ Join(r, m, place)
        /\ \/ pc[r] = "link" /\ m = job[r].memberId
           \/ pc[r] = "enrol" /\ member[m].row = "absent" /\ place = "mark"
  <2>1. CASE Link(r)
    <3>1. job[r].memberId \in Ids
      BY <2>1 DEF Link, Typed, Accepts
    <3>2. QED
      BY <2>1, <3>1 DEF Link
  <2>2. CASE Enrol(r)
    BY <2>2 DEF Enrol
  <2>3. QED
    BY <2>1, <2>2
<1>2. job[r] \in Accepts /\ job[r].id \in Invitations /\ job[r].user \in Users
  BY <1>1 DEF Typed, Accepts
<1>3. /\ member' = [member EXCEPT ![m] = [row |-> "live", user |-> job[r].user]]
      /\ joined' = [joined EXCEPT ![job[r].id] = @ \cup {job[r].user}]
      /\ Go(r, place) /\ UNCHANGED <<invitation, peak, troubled>>
  BY <1>1 DEF Join
<1>4. [row |-> "live", user |-> job[r].user] \in MemberRow
  BY <1>2 DEF MemberRow
<1>5. /\ member' \in [Ids -> MemberRow]
      /\ member'[m].row = "live" /\ member'[m].user = job[r].user
      /\ \A n \in Ids \ {m} : member'[n] = member[n]
  BY <1>3, <1>4 DEF Typed
<1>6. /\ joined' \in [Invitations -> SUBSET Users]
      /\ joined'[job[r].id] = joined[job[r].id] \cup {job[r].user}
      /\ \A j \in Invitations \ {job[r].id} : joined'[j] = joined[j]
  BY <1>2, <1>3 DEF Typed
<1>7. \A n \in Ids : member'[n].row = "absent" => member'[n].user = Nobody
  BY <1>5 DEF Typed
<1>8. place = "email" => job[r].memberId # Nobody
  BY <1>1 DEF Typed
<1>9. Typed'
  BY <1>2, <1>3, <1>5, <1>6, <1>7, <1>8, GoTyped DEF Typed
<1>10. /\ pc'[r] = place /\ UNCHANGED <<clock, job>>
       /\ \A q \in Requests \ {r} : pc'[q] = pc[q]
  BY <1>3 DEF Go, Typed
<1>11. QED
  BY <1>1, <1>2, <1>3, <1>5, <1>6, <1>9, <1>10

(* An invitation is written. *)
LEMMA CreateFacts ==
  ASSUME Typed, NEW r \in Requests, Create(r)
  PROVE  \E i \in Invitations :
           /\ Typed' /\ UNCHANGED <<clock, member, job, peak, joined>>
           /\ ~Issued(i)
           /\ invitation'[i].status = "PENDING" /\ invitation'[i].email = job[r].email
           /\ invitation'[i].memberId = job[r].memberId /\ invitation'[i].createdAt = clock
           /\ \A j \in Invitations \ {i} : invitation'[j] = invitation[j]
           /\ pc[r] = "create" /\ pc'[r] = "done" /\ job[r] \in Issues
           /\ \A q \in Requests \ {r} : pc'[q] = pc[q]
           /\ troubled \subseteq troubled' /\ troubled' \subseteq Invitations
           /\ \A j \in Invitations :
                Issued(j) /\ job[r].memberId # Nobody /\ invitation[j].memberId = job[r].memberId =>
                  {i, j} \subseteq troubled'
<1> USE DEF Places, IssuePlaces, Before, Joining, After
<1>1. PICK i \in Invitations :
        /\ ~Issued(i)
        /\ invitation' = [invitation EXCEPT ![i] =
             [status |-> "PENDING", email |-> job[r].email,
              memberId |-> job[r].memberId, createdAt |-> clock]]
        /\ troubled' = troubled \cup
             LET others == {j \in Invitations : /\ Issued(j) /\ job[r].memberId # Nobody
                                                /\ invitation[j].memberId = job[r].memberId}
             IN  IF others = {} THEN {} ELSE others \cup {i}
  BY DEF Create
<1>2. Go(r, "done") /\ UNCHANGED <<member, peak, joined>> /\ pc[r] = "create" /\ job[r] \in Issues
  BY DEF Create, Typed
<1>3. [status |-> "PENDING", email |-> job[r].email, memberId |-> job[r].memberId, createdAt |-> clock]
        \in InvitationRow
  BY <1>2 DEF Issues, InvitationRow, Statuses, Typed
<1>4. /\ invitation' \in [Invitations -> InvitationRow]
      /\ invitation'[i].status = "PENDING" /\ invitation'[i].email = job[r].email
      /\ invitation'[i].memberId = job[r].memberId /\ invitation'[i].createdAt = clock
      /\ \A j \in Invitations \ {i} : invitation'[j] = invitation[j]
  BY <1>1, <1>3 DEF Typed
<1>5. /\ troubled \subseteq troubled' /\ troubled' \subseteq Invitations
      /\ \A j \in Invitations :
           Issued(j) /\ job[r].memberId # Nobody /\ invitation[j].memberId = job[r].memberId =>
             {i, j} \subseteq troubled'
  BY <1>1 DEF Typed
<1>6. Typed'
  BY <1>2, <1>4, <1>5, GoTyped DEF Typed
<1>7. /\ pc'[r] = "done" /\ UNCHANGED <<clock, job>>
      /\ \A q \in Requests \ {r} : pc'[q] = pc[q]
  BY <1>2 DEF Go, Typed
<1>8. QED
  BY <1>1, <1>2, <1>4, <1>5, <1>6, <1>7

(* What goes on beside the requests. *)
LEMMA OutsideFacts ==
  ASSUME Typed, \/ \E m \in Ids : ArchiveMember(m) \/ RestoreMember(m)
                \/ Tick
                \/ UNCHANGED vars
  PROVE  /\ Typed' /\ UNCHANGED <<invitation, pc, job, peak, joined, troubled>>
         /\ \A m \in Ids : /\ member'[m].user = member[m].user
                           /\ member'[m].row = "absent" <=> member[m].row = "absent"
         /\ clock' = clock \/ clock' = clock + 1
<1>1. CASE \E m \in Ids : ArchiveMember(m) \/ RestoreMember(m)
  <2>1. PICK m \in Ids, row \in {"live", "archived"} :
          /\ member' = [member EXCEPT ![m].row = row] /\ member[m].row \in {"live", "archived"}
          /\ UNCHANGED <<clock, invitation, pc, job, peak, joined, troubled>>
    BY <1>1 DEF ArchiveMember, RestoreMember, history, Live
  <2>2. member[m] \in MemberRow /\ member'[m] = [member[m] EXCEPT !.row = row]
        /\ \A n \in Ids \ {m} : member'[n] = member[n]
    BY <2>1 DEF Typed
  <2>3. /\ member'[m] \in MemberRow /\ member'[m].row = row /\ member'[m].user = member[m].user
    BY <2>2 DEF MemberRow
  <2>4. member' \in [Ids -> MemberRow]
    BY <2>1, <2>2, <2>3 DEF Typed
  <2>5. \A n \in Ids : /\ member'[n].user = member[n].user
                       /\ member'[n].row = "absent" <=> member[n].row = "absent"
    BY <2>1, <2>2, <2>3
  <2>6. QED
    BY <2>1, <2>4, <2>5 DEF Typed
<1>2. CASE Tick
  BY <1>2 DEF Tick, rows, history, Typed
<1>3. CASE UNCHANGED vars
  BY <1>3 DEF vars, rows, history, Typed
<1>4. QED
  BY <1>1, <1>2, <1>3
-----------------------------------------------------------------------------
(* A window of time either has passed, or what was created in it is recent.  *)
Window(t) == {i \in Invitations : Issued(i) /\ invitation[i].createdAt \in t .. t + RateWindow}

LEMMA WindowPassedOrRecent ==
  Typed => \A t \in Nat : t + RateWindow >= clock => Window(t) \subseteq Recent
BY InvitationAssumption DEF Typed, InvitationRow, Window, Recent, Issued

LEMMA WindowAfter ==
  Typed' => (\A t \in Nat : t + RateWindow >= clock => Window(t) \subseteq Recent)'
BY WindowPassedOrRecent, PTL

RecentBounded == Cardinality(Recent) <= RateMax + peak - 1
Passed(t) == t + RateWindow < clock
PeakStands == peak' >= peak
ClockRuns == clock' \in {clock, clock + 1}

(* The bound on the recent ones bounds every window that has not passed, and *)
(* one that has passed gets no more.                                         *)
LEMMA RateFromRecent ==
  ASSUME CountInv, Typed', ClockRuns, PeakStands, RecentBounded',
         \A t \in Nat : Passed(t) \/ clock' # clock => Window(t)' \subseteq Window(t)
  PROVE  RateBounded'
<1> SUFFICES ASSUME NEW t \in 0 .. clock'
             PROVE  Cardinality(Window(t)') <= RateMax + peak' - 1
  BY DEF RateBounded, Window
<1> USE DEF ClockRuns, PeakStands, Passed, RecentBounded
<1>0. /\ clock \in Nat /\ clock' \in Nat /\ peak \in Nat /\ peak' \in Nat
      /\ RateMax \in Nat /\ RateWindow \in Nat /\ t \in Nat
  BY InvitationAssumption DEF CountInv, Typed
<1>1. /\ Window(t)' \subseteq Invitations /\ Window(t) \subseteq Invitations
      /\ Recent' \subseteq Invitations
  BY DEF Window, Recent
<1>2. CASE t + RateWindow >= clock'
  <2>1. Window(t)' \subseteq Recent'
    BY <1>0, <1>2, WindowAfter
  <2>2. Cardinality(Window(t)') <= Cardinality(Recent')
    BY <1>1, <2>1, AtMost
  <2>3. Cardinality(Window(t)') \in Nat /\ Cardinality(Recent') \in Nat
    BY <1>1, Finite
  <2>4. QED
    BY <1>0, <2>2, <2>3
<1>3. CASE t + RateWindow < clock'
  <2>1. t \in 0 .. clock
    BY <1>0, <1>3
  <2>2. Cardinality(Window(t)) <= RateMax + peak - 1
    BY <2>1 DEF CountInv, RateBounded, Window
  <2>3. Window(t)' \subseteq Window(t)
    BY <1>0, <1>3, <2>1
  <2>4. Window(t)' \subseteq Window(t) => Cardinality(Window(t)') <= Cardinality(Window(t))
    BY <1>1, AtMost
  <2>5. Cardinality(Window(t)') \in Nat /\ Cardinality(Window(t)) \in Nat
    BY <1>1, Finite
  <2>6. QED
    BY <1>0, <2>2, <2>3, <2>4, <2>5
<1>4. QED
  BY <1>0, <1>2, <1>3

(* A step that issues nothing, and lets no request past the look for a       *)
(* pending invitation unless there is none.                                  *)
LEMMA CountStays ==
  ASSUME CountInv, Typed', UNCHANGED peak, ClockRuns,
         \A i \in Invitations :
           /\ Issued(i)' <=> Issued(i)
           /\ invitation'[i].createdAt = invitation[i].createdAt
           /\ invitation'[i].email = invitation[i].email
           /\ invitation'[i].status = "PENDING" => invitation[i].status = "PENDING",
         Issuing' \subseteq Issuing,
         \A e \in Emails : CreatingFor(e)' \subseteq CreatingFor(e) \/ PendingFor(e) = {}
  PROVE  CountInv'
<1>0. /\ clock \in Nat /\ clock' \in Nat /\ peak \in Nat /\ RateMax \in Nat /\ RateWindow \in Nat
      /\ \A i \in Invitations : invitation[i].createdAt \in Nat
      /\ clock' \in {clock, clock + 1}
  BY InvitationAssumption DEF CountInv, Typed, InvitationRow, ClockRuns
<1>1. /\ Issuing \subseteq Requests /\ Issuing' \subseteq Requests
      /\ Recent \subseteq Invitations /\ Recent' \subseteq Invitations
  BY DEF Issuing, Recent
<1>2. /\ Cardinality(Issuing) \in Nat /\ Cardinality(Issuing') \in Nat
      /\ Cardinality(Issuing') <= Cardinality(Issuing)
  BY <1>1, Finite, AtMost
<1>3. Recent' \subseteq Recent
  BY <1>0 DEF Recent
<1>4. /\ Cardinality(Recent) \in Nat /\ Cardinality(Recent') \in Nat
      /\ Cardinality(Recent') <= Cardinality(Recent)
  BY <1>1, <1>3, Finite, AtMost
<1>5. /\ Cardinality(Issuing) <= peak
      /\ Cardinality(Recent) + Cardinality(Issuing) <= RateMax + peak - 1
  BY DEF CountInv, Counted
<1>6. ASSUME NEW e \in Emails
      PROVE  Cardinality(PendingFor(e)') + Cardinality(CreatingFor(e)') <= peak
  <2>1. /\ PendingFor(e)' \subseteq PendingFor(e) /\ PendingFor(e) \subseteq Invitations
        /\ CreatingFor(e)' \subseteq Requests /\ CreatingFor(e) \subseteq Requests
        /\ CreatingFor(e)' \subseteq Issuing'
    BY DEF PendingFor, CreatingFor, Issuing
  <2>2. /\ Cardinality(PendingFor(e)) \in Nat /\ Cardinality(PendingFor(e)') \in Nat
        /\ Cardinality(CreatingFor(e)) \in Nat /\ Cardinality(CreatingFor(e)') \in Nat
        /\ Cardinality(PendingFor(e)') <= Cardinality(PendingFor(e))
    BY <2>1, Finite, AtMost
  <2>3. Cardinality(PendingFor(e)) + Cardinality(CreatingFor(e)) <= peak
    BY DEF CountInv, Counted
  <2>4. CASE CreatingFor(e)' \subseteq CreatingFor(e)
    <3>1. Cardinality(CreatingFor(e)') <= Cardinality(CreatingFor(e))
      BY <2>1, <2>4, AtMost
    <3>2. QED
      BY <1>0, <2>2, <2>3, <3>1
  <2>5. CASE PendingFor(e) = {}
    <3>1. Cardinality(PendingFor(e)') = 0
      BY <2>1, <2>5, FS_EmptySet
    <3>2. Cardinality(CreatingFor(e)') <= Cardinality(Issuing')
      BY <1>1, <2>1, AtMost
    <3>3. QED
      BY <1>0, <1>2, <1>5, <2>2, <3>1, <3>2
  <2>6. QED
    BY <2>4, <2>5
<1>7. Counted'
  <2>1. \A i \in Invitations : Issued(i)' => invitation'[i].createdAt <= clock'
    BY <1>0 DEF CountInv, Counted
  <2>2. QED
    BY <1>0, <1>2, <1>4, <1>5, <1>6, <2>1 DEF Counted
<1>8. \A t : Window(t)' \subseteq Window(t)
  BY DEF Window
<1>9. RateBounded'
  <2>1. PeakStands /\ RecentBounded'
    BY <1>0, <1>2, <1>4, <1>5 DEF PeakStands, RecentBounded
  <2>2. QED
    BY <1>8, <2>1, RateFromRecent
<1>10. QED
  BY <1>7, <1>9 DEF CountInv

LEMMA BeginIssueCounts ==
  ASSUME CountInv, NEW r \in Requests, BeginIssue(r)
  PROVE  CountInv'
<1>1. /\ Typed' /\ UNCHANGED <<clock, invitation, member, joined, troubled>>
      /\ pc[r] = "idle" /\ pc'[r] = "dedup" /\ WithinRate
      /\ \A q \in Requests \ {r} : pc'[q] = pc[q] /\ job'[q] = job[q]
      /\ peak' >= peak /\ peak' >= Cardinality(Issuing) + 1
  BY BeginIssueFacts DEF CountInv
<1>2. /\ clock \in Nat /\ peak \in Nat /\ peak' \in Nat /\ RateMax \in Nat
      /\ Cardinality(Issuing) \in Nat /\ Cardinality(Recent) \in Nat
  BY <1>1, InvitationAssumption, SetsHere, Finite DEF CountInv, Typed
<1>3. Cardinality(Issuing') = Cardinality(Issuing) + 1
  <2>1. Issuing' = Issuing \cup {r} /\ r \notin Issuing
    BY <1>1 DEF Issuing
  <2>2. QED
    BY <2>1, SetsHere, OneMore
<1>4. Recent' = Recent /\ \A e \in Emails : PendingFor(e)' = PendingFor(e)
  BY <1>1 DEF Recent, Issued, PendingFor
<1>5. \A e \in Emails : CreatingFor(e)' = CreatingFor(e)
  BY <1>1 DEF CreatingFor
<1>6. Cardinality(Recent) < RateMax
  BY <1>1 DEF WithinRate
<1>7. Counted'
  <2>1. Cardinality(Issuing') <= peak' /\ Cardinality(Recent') + Cardinality(Issuing') <= RateMax + peak' - 1
    BY <1>1, <1>2, <1>3, <1>4, <1>6
  <2>2. ASSUME NEW e \in Emails
        PROVE  Cardinality(PendingFor(e)') + Cardinality(CreatingFor(e)') <= peak'
    <3>1. Cardinality(PendingFor(e)) + Cardinality(CreatingFor(e)) <= peak
      BY DEF CountInv, Counted
    <3>2. Cardinality(PendingFor(e)) \in Nat /\ Cardinality(CreatingFor(e)) \in Nat
      BY SetsHere, Finite
    <3>3. QED
      BY <1>1, <1>2, <1>4, <1>5, <3>1, <3>2
  <2>3. \A i \in Invitations : Issued(i)' => invitation'[i].createdAt <= clock'
    BY <1>1 DEF CountInv, Counted, Issued
  <2>4. QED
    BY <2>1, <2>2, <2>3 DEF Counted
<1>8. RateBounded'
  <2>1. \A t : Window(t)' \subseteq Window(t)
    BY <1>1 DEF Window, Issued
  <2>2. RecentBounded' /\ PeakStands /\ ClockRuns
    BY <1>1, <1>2, <1>4, <1>6 DEF RecentBounded, PeakStands, ClockRuns
  <2>3. QED
    BY <1>1, <2>1, <2>2, RateFromRecent
<1>9. QED
  BY <1>1, <1>7, <1>8 DEF CountInv

LEMMA CreateCounts ==
  ASSUME CountInv, NEW r \in Requests, Create(r)
  PROVE  CountInv'
<1>1. PICK i \in Invitations :
        /\ Typed' /\ UNCHANGED <<clock, member, job, peak, joined>>
        /\ ~Issued(i)
        /\ invitation'[i].status = "PENDING" /\ invitation'[i].email = job[r].email
        /\ invitation'[i].memberId = job[r].memberId /\ invitation'[i].createdAt = clock
        /\ \A j \in Invitations \ {i} : invitation'[j] = invitation[j]
        /\ pc[r] = "create" /\ pc'[r] = "done" /\ job[r] \in Issues
        /\ \A q \in Requests \ {r} : pc'[q] = pc[q]
  BY CreateFacts DEF CountInv
<1>2. /\ clock \in Nat /\ peak \in Nat /\ RateMax \in Nat /\ RateWindow \in Nat
      /\ Cardinality(Issuing) \in Nat /\ Cardinality(Recent) \in Nat
      /\ Cardinality(Issuing) <= peak
      /\ Cardinality(Recent) + Cardinality(Issuing) <= RateMax + peak - 1
  BY InvitationAssumption, SetsHere, Finite DEF CountInv, Typed, Counted
<1>3. Cardinality(Issuing') = Cardinality(Issuing) - 1
  <2>1. Issuing' = Issuing \ {r} /\ r \in Issuing
    BY <1>1 DEF Issuing
  <2>2. QED
    BY <2>1, SetsHere, OneMore
<1>4. Cardinality(Recent') = Cardinality(Recent) + 1
  <2>1. Recent' = Recent \cup {i} /\ i \notin Recent
    <3>1. i \in Recent'
      BY <1>1, <1>2 DEF Recent, Issued
    <3>2. i \notin Recent
      BY <1>1 DEF Recent
    <3>3. \A j \in Invitations \ {i} : j \in Recent' <=> j \in Recent
      BY <1>1 DEF Recent, Issued
    <3>4. QED
      BY <3>1, <3>2, <3>3 DEF Recent
  <2>2. QED
    BY <2>1, SetsHere, OneMore
<1>5. ASSUME NEW e \in Emails
      PROVE  Cardinality(PendingFor(e)') + Cardinality(CreatingFor(e)') <= peak
  <2>1. Cardinality(PendingFor(e)) + Cardinality(CreatingFor(e)) <= peak
    BY DEF CountInv, Counted
  <2>2. Cardinality(PendingFor(e)) \in Nat /\ Cardinality(CreatingFor(e)) \in Nat
    BY SetsHere, Finite
  <2>3. CASE job[r].email = e
    <3>1. PendingFor(e)' = PendingFor(e) \cup {i} /\ i \notin PendingFor(e)
      <4>1. i \in PendingFor(e)'
        BY <1>1, <2>3 DEF PendingFor
      <4>2. i \notin PendingFor(e)
        BY <1>1 DEF PendingFor, Issued
      <4>3. \A j \in Invitations \ {i} : j \in PendingFor(e)' <=> j \in PendingFor(e)
        BY <1>1 DEF PendingFor
      <4>4. QED
        BY <4>1, <4>2, <4>3 DEF PendingFor
    <3>2. CreatingFor(e)' = CreatingFor(e) \ {r} /\ r \in CreatingFor(e)
      BY <1>1, <2>3 DEF CreatingFor
    <3>3. /\ Cardinality(PendingFor(e)') = Cardinality(PendingFor(e)) + 1
          /\ Cardinality(CreatingFor(e)') = Cardinality(CreatingFor(e)) - 1
      BY <3>1, <3>2, SetsHere, OneMore
    <3>4. QED
      BY <1>2, <2>1, <2>2, <3>3
  <2>4. CASE job[r].email # e
    <3>1. PendingFor(e)' = PendingFor(e)
      <4>1. i \notin PendingFor(e)'
        BY <1>1, <2>4 DEF PendingFor
      <4>2. i \notin PendingFor(e)
        BY <1>1 DEF PendingFor, Issued
      <4>3. \A j \in Invitations \ {i} : j \in PendingFor(e)' <=> j \in PendingFor(e)
        BY <1>1 DEF PendingFor
      <4>4. QED
        BY <4>1, <4>2, <4>3 DEF PendingFor
    <3>2. CreatingFor(e)' = CreatingFor(e)
      BY <1>1, <2>4 DEF CreatingFor
    <3>3. QED
      BY <2>1, <3>1, <3>2
  <2>5. QED
    BY <2>3, <2>4
<1>6. Counted'
  <2>1. \A j \in Invitations : Issued(j)' => invitation'[j].createdAt <= clock'
    BY <1>1, <1>2 DEF CountInv, Counted, Issued
  <2>2. /\ Cardinality(Issuing') <= peak'
        /\ Cardinality(Recent') + Cardinality(Issuing') <= RateMax + peak' - 1
    BY <1>1, <1>2, <1>3, <1>4
  <2>3. QED
    BY <1>1, <1>5, <2>1, <2>2 DEF Counted
<1>7. RateBounded'
  <2>1. \A t \in Nat : Passed(t) => Window(t)' \subseteq Window(t)
    <3> SUFFICES ASSUME NEW t \in Nat, t + RateWindow < clock, NEW j \in Window(t)'
                 PROVE  j \in Window(t)
      BY DEF Passed
    <3>1. j \in Invitations /\ invitation'[j].createdAt <= t + RateWindow
      BY DEF Window
    <3>2. j # i
      BY <1>1, <1>2, <3>1
    <3>3. QED
      BY <1>1, <3>1, <3>2 DEF Window, Issued
  <2>2. RecentBounded' /\ PeakStands /\ ClockRuns
    <3>1. Issuing' \subseteq Requests
      BY DEF Issuing
    <3>2. Cardinality(Issuing') \in Nat
      BY <3>1, Finite
    <3>3. QED
      BY <1>1, <1>2, <1>3, <1>4, <3>2 DEF RecentBounded, PeakStands, ClockRuns
  <2>3. QED
    BY <1>1, <2>1, <2>2, RateFromRecent
<1>8. QED
  BY <1>1, <1>6, <1>7 DEF CountInv

LEMMA CountStep == CountInv /\ Opened /\ [Next]_vars => CountInv'
<1> SUFFICES ASSUME CountInv, Opened, [Next]_vars PROVE CountInv'
  OBVIOUS
<1> USE DEF Places, IssuePlaces, Before, Joining, After
<1>0. Typed /\ clock \in Nat
  BY DEF CountInv, Typed
<1>1. ASSUME NEW r \in Requests, Moves(r) PROVE CountInv'
  <2>1. /\ Typed' /\ UNCHANGED <<clock, invitation, member, job, peak, joined>>
        /\ \A q \in Requests \ {r} : pc'[q] = pc[q]
        /\ \/ /\ pc[r] = "dedup" /\ PendingFor(job[r].email) = {} /\ pc'[r] \in IssuePlaces
           \/ pc[r] = "check" /\ pc'[r] = "create"
           \/ pc'[r] \notin IssuePlaces
    BY <1>0, <1>1, MoveFacts
  <2>2. Issuing' \subseteq Issuing
    BY <2>1 DEF Issuing
  <2>3. \A e \in Emails : CreatingFor(e)' \subseteq CreatingFor(e) \/ PendingFor(e) = {}
    BY <2>1 DEF CreatingFor
  <2>4. QED
    BY <2>1, <2>2, <2>3, CountStays DEF Issued, ClockRuns
<1>2. ASSUME NEW r \in Requests, BeginAccept(r) \/ BeginCancel(r) PROVE CountInv'
  <2>1. /\ Typed' /\ UNCHANGED <<clock, invitation, peak>>
        /\ pc'[r] \notin IssuePlaces
        /\ \A q \in Requests \ {r} : pc'[q] = pc[q] /\ job'[q] = job[q]
    BY <1>0, <1>2, OpenFacts
  <2>2. Issuing' \subseteq Issuing /\ \A e \in Emails : CreatingFor(e)' \subseteq CreatingFor(e)
    BY <2>1 DEF Issuing, CreatingFor
  <2>3. QED
    BY <2>1, <2>2, CountStays DEF Issued, ClockRuns
<1>3. ASSUME NEW r \in Requests, Look(r) \/ Send(r) PROVE CountInv'
  <2>1. /\ Typed' /\ UNCHANGED <<clock, invitation, peak>>
        /\ pc'[r] \notin IssuePlaces
        /\ \A q \in Requests \ {r} : pc'[q] = pc[q] /\ job'[q] = job[q]
    BY <1>0, <1>3, RefreshFacts
  <2>2. Issuing' \subseteq Issuing /\ \A e \in Emails : CreatingFor(e)' \subseteq CreatingFor(e)
    BY <2>1 DEF Issuing, CreatingFor
  <2>3. QED
    BY <2>1, <2>2, CountStays DEF Issued, ClockRuns
<1>4. ASSUME NEW r \in Requests, MarkExpired(r) \/ MarkAccepted(r) \/ MarkCancelled(r)
      PROVE  CountInv'
  <2>1. PICK i \in Invitations, s \in {"EXPIRED", "CANCELLED", "ACCEPTED"} :
          /\ Typed' /\ UNCHANGED <<clock, job, peak>>
          /\ invitation'[i].status = s /\ invitation'[i].email = invitation[i].email
          /\ invitation'[i].createdAt = invitation[i].createdAt
          /\ \A j \in Invitations \ {i} : invitation'[j] = invitation[j]
          /\ \A q \in Requests \ {r} : pc'[q] = pc[q]
          /\ pc'[r] \notin IssuePlaces
          /\ i = job[r].id /\ pc[r] \in {"mark", "expire", "cancel"}
    BY <1>0, <1>4, MarkFacts
  <2>2. Issuing' \subseteq Issuing /\ \A e \in Emails : CreatingFor(e)' \subseteq CreatingFor(e)
    BY <2>1 DEF Issuing, CreatingFor
  <2>3. Issued(i)
    BY <2>1 DEF Opened, Handles
  <2>4. QED
    BY <2>1, <2>2, <2>3, CountStays DEF Issued, ClockRuns
<1>5. ASSUME NEW r \in Requests, Link(r) \/ Enrol(r) PROVE CountInv'
  <2>1. /\ Typed' /\ UNCHANGED <<clock, invitation, job, peak>>
        /\ pc'[r] \notin IssuePlaces
        /\ \A q \in Requests \ {r} : pc'[q] = pc[q]
    BY <1>0, <1>5, JoinFacts
  <2>2. Issuing' \subseteq Issuing /\ \A e \in Emails : CreatingFor(e)' \subseteq CreatingFor(e)
    BY <2>1 DEF Issuing, CreatingFor
  <2>3. QED
    BY <2>1, <2>2, CountStays DEF Issued, ClockRuns
<1>6. CASE \/ \E m \in Ids : ArchiveMember(m) \/ RestoreMember(m)
           \/ Tick
           \/ UNCHANGED vars
  <2>1. /\ Typed' /\ UNCHANGED <<invitation, pc, job, peak>>
        /\ ClockRuns
    BY <1>0, <1>6, OutsideFacts DEF ClockRuns
  <2>2. Issuing' \subseteq Issuing /\ \A e \in Emails : CreatingFor(e)' \subseteq CreatingFor(e)
    BY <2>1 DEF Issuing, CreatingFor
  <2>3. QED
    BY <2>1, <2>2, CountStays DEF Issued, ClockRuns
<1>7. QED
  BY <1>1, <1>2, <1>3, <1>4, <1>5, <1>6, BeginIssueCounts, CreateCounts DEF Next, Moves
-----------------------------------------------------------------------------
Holding == Before \cup Joining \cup After \cup {"cancel"}

LEMMA OpenOnIs ==
  Typed => \A i \in Invitations : OpenOn(i) = {r \in Requests : Handles(r, i)}
<1> SUFFICES ASSUME Typed, NEW i \in Invitations PROVE OpenOn(i) = {r \in Requests : Handles(r, i)}
  OBVIOUS
<1>1. \A r \in Requests :
        (pc[r] \notin {"idle", "done", "failed"} /\ job[r].op \in {"accept", "cancel"})
          <=> pc[r] \in Holding
  <2> SUFFICES ASSUME NEW r \in Requests
               PROVE  (pc[r] \notin {"idle", "done", "failed"} /\ job[r].op \in {"accept", "cancel"})
                        <=> pc[r] \in Holding
    OBVIOUS
  <2>1. pc[r] \in IssuePlaces \cup Holding \cup {"idle", "done", "failed"}
    BY DEF Typed, Places, Holding
  <2>2. CASE pc[r] \in IssuePlaces
    <3>1. job[r].op = "issue"
      BY <2>2 DEF Typed, Issues
    <3>2. QED
      BY <2>2, <3>1 DEF IssuePlaces, Holding, Before, Joining, After
  <2>3. CASE pc[r] \in Holding
    <3>1. job[r].op \in {"accept", "cancel"}
      BY <2>3 DEF Holding, Typed, Accepts, Cancels
    <3>2. QED
      BY <2>3, <3>1 DEF Holding, Before, Joining, After
  <2>4. CASE pc[r] \in {"idle", "done", "failed"}
    BY <2>4 DEF Holding, Before, Joining, After
  <2>5. QED
    BY <2>1, <2>2, <2>3, <2>4
<1>2. QED
  BY <1>1 DEF OpenOn, Handles, Holding

(* Request q goes on as it was, stays at its stage, or leaves its invitation. *)
Stays(q) ==
  \/ pc'[q] = pc[q] /\ job'[q] = job[q]
  \/ /\ job'[q].id = job[q].id /\ job'[q].user = job[q].user /\ job'[q].memberId = job[q].memberId
     /\ \/ pc[q] \in Before /\ pc'[q] \in Before
        \/ pc[q] \in Joining /\ pc'[q] \in Joining
        \/ pc[q] \in After /\ pc'[q] \in After
Leaves(q) == pc'[q] \notin Holding /\ (pc[q] \in Joining => job[q].id \in troubled')

(* A step at which no invitation gets any further. *)
LEMMA StandingStays ==
  ASSUME JoinInv, UNCHANGED <<invitation, joined>>, troubled \subseteq troubled',
         \A q \in Requests : Stays(q) \/ Leaves(q)
  PROVE  Alone' /\ Opened' /\ Standing'
<1> USE DEF Holding, Before, Joining, After
<1>0. Alone /\ Opened /\ Standing
  BY DEF JoinInv
<1>1. \A q \in Requests, i \in Invitations :
        Handles(q, i)' =>
          /\ Stays(q) /\ Handles(q, i)
          /\ pc'[q] \in Before <=> pc[q] \in Before
          /\ pc'[q] \in Joining <=> pc[q] \in Joining
          /\ pc'[q] \in After <=> pc[q] \in After
          /\ pc'[q] = "cancel" <=> pc[q] = "cancel"
          /\ job'[q].user = job[q].user /\ job'[q].memberId = job[q].memberId
  BY DEF Handles, Stays, Leaves
<1>2. \A q \in Requests, i \in Invitations \ troubled' :
        Handles(q, i) /\ pc[q] \in Joining => Handles(q, i)' /\ pc'[q] \in Joining
  BY DEF Handles, Stays, Leaves
<1> HIDE DEF Holding, Before, Joining, After
<1>3. Alone'
  BY <1>0, <1>1 DEF Alone
<1>4. Opened'
  <2> SUFFICES ASSUME NEW r \in Requests, NEW i \in Invitations, Handles(r, i)'
               PROVE  Issued(i)' /\ (pc'[r] # "cancel" => job'[r].memberId = invitation'[i].memberId)
    BY DEF Opened
  <2>1. QED
    BY <1>0, <1>1 DEF Opened, Issued
<1>5. Standing'
  <2>1. ASSUME NEW r \in Requests, NEW i \in Invitations \ troubled', Handles(r, i)'
        PROVE  /\ pc'[r] \in Before \cup {"cancel"} => invitation'[i].status = "PENDING" /\ joined'[i] = {}
               /\ pc'[r] \in Joining => invitation'[i].status = "PENDING" /\ joined'[i] = {job'[r].user}
               /\ pc'[r] \in After => invitation'[i].status = "ACCEPTED"
    BY <1>0, <1>1, <2>1 DEF Standing
  <2>2. ASSUME NEW i \in Invitations \ troubled'
        PROVE  /\ invitation'[i].status = "ACCEPTED" => \E u \in Users : joined'[i] = {u}
               /\ invitation'[i].status \in {"EXPIRED", "CANCELLED"} => joined'[i] = {}
               /\ invitation'[i].status = "PENDING" =>
                    joined'[i] = {} \/ \E r \in Requests : Handles(r, i)' /\ pc'[r] \in Joining
    BY <1>0, <1>2 DEF Standing
  <2>3. \A i \in Invitations : ~Issued(i)' => joined'[i] = {}
    BY <1>0 DEF Standing, Issued
  <2>4. QED
    BY <2>1, <2>2, <2>3 DEF Standing
<1>6. QED
  BY <1>3, <1>4, <1>5

(* A request opens an invitation. *)
LEMMA OpenStands ==
  ASSUME JoinInv, NEW r \in Requests, BeginAccept(r) \/ BeginCancel(r)
  PROVE  Alone' /\ Opened' /\ Standing'
<1> USE DEF Holding
<1>0. Typed /\ Alone /\ Opened /\ Standing
  BY DEF JoinInv
<1>1. PICK i \in Invitations :
           /\ Typed' /\ UNCHANGED <<clock, invitation, member, peak, joined>>
           /\ pc[r] = "idle" /\ pc'[r] \in Before \cup {"cancel"}
           /\ job'[r].id = i /\ Issued(i) /\ invitation[i].status = "PENDING"
           /\ pc'[r] # "cancel" => job'[r].memberId = invitation[i].memberId
           /\ \A q \in Requests \ {r} : pc'[q] = pc[q] /\ job'[q] = job[q]
           /\ troubled \subseteq troubled'
           /\ OpenOn(i) = {} \/ i \in troubled'
  BY <1>0, OpenFacts
<1>2. i \notin troubled' => \A q \in Requests : ~Handles(q, i)
  BY <1>0, <1>1, OpenOnIs
<1>3. \A q \in Requests \ {r} : \A j : Handles(q, j)' <=> Handles(q, j)
  BY <1>1 DEF Handles
<1>4. \A j : Handles(r, j)' => j = i
  BY <1>1 DEF Handles
<1>5. \A j : ~Handles(r, j)
  BY <1>1 DEF Handles, Before, Joining, After
<1>6. pc'[r] \notin Joining /\ pc'[r] \notin After
  BY <1>1 DEF Before, Joining, After
<1>7. Alone'
  BY <1>0, <1>1, <1>2, <1>3, <1>4 DEF Alone
<1>8. Opened'
  <2> SUFFICES ASSUME NEW q \in Requests, NEW j \in Invitations, Handles(q, j)'
               PROVE  Issued(j)' /\ (pc'[q] # "cancel" => job'[q].memberId = invitation'[j].memberId)
    BY DEF Opened
  <2>1. CASE q = r
    BY <1>1, <1>4, <2>1 DEF Issued
  <2>2. CASE q # r
    BY <1>0, <1>1, <1>3, <2>2 DEF Issued, Opened
  <2>3. QED
    BY <2>1, <2>2
<1>9. Standing'
  <2>1. ASSUME NEW q \in Requests, NEW j \in Invitations \ troubled', Handles(q, j)'
        PROVE  /\ pc'[q] \in Before \cup {"cancel"} => invitation'[j].status = "PENDING" /\ joined'[j] = {}
               /\ pc'[q] \in Joining => invitation'[j].status = "PENDING" /\ joined'[j] = {job'[q].user}
               /\ pc'[q] \in After => invitation'[j].status = "ACCEPTED"
    <3>1. CASE q = r
      <4>1. j = i /\ joined[i] = {}
        BY <1>0, <1>1, <1>2, <1>4, <2>1, <3>1 DEF Standing
      <4>2. QED
        BY <1>1, <1>6, <3>1, <4>1
    <3>2. CASE q # r
      <4>1. Handles(q, j) /\ pc'[q] = pc[q] /\ job'[q] = job[q] /\ j \in Invitations \ troubled
        BY <1>1, <1>3, <2>1, <3>2
      <4>2. QED
        BY <1>0, <1>1, <4>1 DEF Standing
    <3>3. QED
      BY <3>1, <3>2
  <2>2. ASSUME NEW j \in Invitations \ troubled'
        PROVE  /\ invitation'[j].status = "ACCEPTED" => \E u \in Users : joined'[j] = {u}
               /\ invitation'[j].status \in {"EXPIRED", "CANCELLED"} => joined'[j] = {}
               /\ invitation'[j].status = "PENDING" =>
                    joined'[j] = {} \/ \E q \in Requests : Handles(q, j)' /\ pc'[q] \in Joining
    <3>1. \A q \in Requests : Handles(q, j) /\ pc[q] \in Joining => Handles(q, j)' /\ pc'[q] \in Joining
      BY <1>1, <1>3, <1>5
    <3>2. QED
      BY <1>0, <1>1, <3>1 DEF Standing
  <2>3. \A j \in Invitations : ~Issued(j)' => joined'[j] = {}
    BY <1>0, <1>1 DEF Standing, Issued
  <2>4. QED
    BY <2>1, <2>2, <2>3 DEF Standing
<1>10. QED
  BY <1>7, <1>8, <1>9

(* A request says how its invitation ended. *)
LEMMA MarkStands ==
  ASSUME JoinInv, NEW r \in Requests, MarkExpired(r) \/ MarkAccepted(r) \/ MarkCancelled(r)
  PROVE  Alone' /\ Opened' /\ Standing'
<1> USE DEF Holding
<1>0. Typed /\ Alone /\ Opened /\ Standing
  BY DEF JoinInv
<1>1. PICK i \in Invitations, s \in {"EXPIRED", "CANCELLED", "ACCEPTED"} :
           /\ Typed' /\ UNCHANGED <<clock, member, job, peak, joined, troubled>>
           /\ i = job[r].id
           /\ invitation'[i].status = s
           /\ invitation'[i].memberId = invitation[i].memberId
           /\ \A j \in Invitations \ {i} : invitation'[j] = invitation[j]
           /\ \A q \in Requests \ {r} : pc'[q] = pc[q]
           /\ IF s = "ACCEPTED" THEN pc[r] = "mark" /\ pc'[r] = "look"
              ELSE pc[r] \in {"expire", "cancel"} /\ pc'[r] \in {"done", "failed"}
  BY <1>0, MarkFacts
<1>2. Handles(r, i) /\ Issued(i)
  BY <1>0, <1>1 DEF Handles, Opened, Before, Joining
<1>3. \A q \in Requests \ {r} : \A j : Handles(q, j)' <=> Handles(q, j)
  BY <1>1 DEF Handles
<1>4. \A j : Handles(r, j)' => j = i /\ pc'[r] = "look" /\ s = "ACCEPTED"
  BY <1>1 DEF Handles, Before, Joining, After
<1>5. \A q \in Requests, j \in Invitations : Handles(q, j)' => Handles(q, j)
  BY <1>2, <1>3, <1>4
<1>6. \A j \in Invitations : Issued(j)' <=> Issued(j)
  BY <1>1, <1>2 DEF Issued
<1>7. Alone'
  BY <1>0, <1>1, <1>5 DEF Alone
<1>8. Opened'
  <2> SUFFICES ASSUME NEW q \in Requests, NEW j \in Invitations, Handles(q, j)'
               PROVE  Issued(j)' /\ (pc'[q] # "cancel" => job'[q].memberId = invitation'[j].memberId)
    BY DEF Opened
  <2>1. Handles(q, j)
    BY <1>5
  <2>2. pc'[q] # "cancel" => pc[q] # "cancel"
    BY <1>1, <1>4
  <2>3. QED
    BY <1>0, <1>1, <1>6, <2>1, <2>2 DEF Opened
<1>9. Standing'
  <2>1. ASSUME NEW q \in Requests, NEW j \in Invitations \ troubled', Handles(q, j)'
        PROVE  /\ pc'[q] \in Before \cup {"cancel"} => invitation'[j].status = "PENDING" /\ joined'[j] = {}
               /\ pc'[q] \in Joining => invitation'[j].status = "PENDING" /\ joined'[j] = {job'[q].user}
               /\ pc'[q] \in After => invitation'[j].status = "ACCEPTED"
    <3>1. CASE q = r
      BY <1>1, <1>4, <2>1, <3>1 DEF Before, Joining
    <3>2. CASE q # r
      <4>1. Handles(q, j) /\ pc'[q] = pc[q] /\ j \in Invitations \ troubled
        BY <1>1, <1>3, <2>1, <3>2
      <4>2. j # i
        BY <1>0, <1>2, <3>2, <4>1 DEF Alone
      <4>3. QED
        BY <1>0, <1>1, <4>1, <4>2 DEF Standing
    <3>3. QED
      BY <3>1, <3>2
  <2>2. ASSUME NEW j \in Invitations \ troubled'
        PROVE  /\ invitation'[j].status = "ACCEPTED" => \E u \in Users : joined'[j] = {u}
               /\ invitation'[j].status \in {"EXPIRED", "CANCELLED"} => joined'[j] = {}
               /\ invitation'[j].status = "PENDING" =>
                    joined'[j] = {} \/ \E q \in Requests : Handles(q, j)' /\ pc'[q] \in Joining
    <3>1. CASE j = i /\ s = "ACCEPTED"
      <4>1. joined[i] = {job[r].user}
        BY <1>0, <1>1, <1>2, <3>1 DEF Standing, Joining
      <4>2. job[r].user \in Users
        BY <1>0, <1>1, <3>1 DEF Typed, Joining, Accepts
      <4>3. QED
        BY <1>1, <3>1, <4>1, <4>2
    <3>2. CASE j = i /\ s # "ACCEPTED"
      <4>1. joined[i] = {}
        BY <1>0, <1>1, <1>2, <3>2 DEF Standing, Before
      <4>2. QED
        BY <1>1, <3>2, <4>1
    <3>3. CASE j # i
      <4>1. \A q \in Requests : Handles(q, j) /\ pc[q] \in Joining => Handles(q, j)' /\ pc'[q] \in Joining
        BY <1>1, <1>2, <1>3, <3>3 DEF Handles
      <4>2. QED
        BY <1>0, <1>1, <3>3, <4>1 DEF Standing
    <3>4. QED
      BY <3>1, <3>2, <3>3
  <2>3. \A j \in Invitations : ~Issued(j)' => joined'[j] = {}
    BY <1>0, <1>1, <1>6 DEF Standing
  <2>4. QED
    BY <2>1, <2>2, <2>3 DEF Standing
<1>10. QED
  BY <1>7, <1>8, <1>9

(* A request links its user to a member. *)
LEMMA JoinStands ==
  ASSUME JoinInv, NEW r \in Requests, Link(r) \/ Enrol(r)
  PROVE  Alone' /\ Opened' /\ Standing'
<1> USE DEF Holding
<1>0. Typed /\ Alone /\ Opened /\ Standing
  BY DEF JoinInv
<1>1. PICK i \in Invitations :
      /\ UNCHANGED <<clock, invitation, job, peak, troubled>>
      /\ i = job[r].id /\ job[r].user \in Users
      /\ joined'[i] = joined[i] \cup {job[r].user}
      /\ \A j \in Invitations \ {i} : joined'[j] = joined[j]
      /\ \A q \in Requests \ {r} : pc'[q] = pc[q]
      /\ pc'[r] \in Joining /\ pc[r] \in {"link", "enrol"}
  BY <1>0, JoinFacts
<1>2. Handles(r, i) /\ Issued(i)
  BY <1>0, <1>1 DEF Handles, Opened, Before
<1>3. \A q \in Requests : \A j : Handles(q, j)' <=> Handles(q, j)
  BY <1>1 DEF Handles, Before, Joining
<1>4. \A j : Handles(r, j) => j = i
  BY <1>1 DEF Handles
<1>5. Alone'
  BY <1>0, <1>1, <1>3 DEF Alone
<1>6. Opened'
  <2> SUFFICES ASSUME NEW q \in Requests, NEW j \in Invitations, Handles(q, j)'
               PROVE  Issued(j)' /\ (pc'[q] # "cancel" => job'[q].memberId = invitation'[j].memberId)
    BY DEF Opened
  <2>1. Handles(q, j) /\ (pc'[q] # "cancel" => pc[q] # "cancel")
    BY <1>1, <1>3
  <2>2. QED
    BY <1>0, <1>1, <2>1 DEF Opened, Issued
<1>7. Standing'
  <2>1. ASSUME NEW q \in Requests, NEW j \in Invitations \ troubled', Handles(q, j)'
        PROVE  /\ pc'[q] \in Before \cup {"cancel"} => invitation'[j].status = "PENDING" /\ joined'[j] = {}
               /\ pc'[q] \in Joining => invitation'[j].status = "PENDING" /\ joined'[j] = {job'[q].user}
               /\ pc'[q] \in After => invitation'[j].status = "ACCEPTED"
    <3>1. CASE q = r
      <4>1. j = i /\ i \notin troubled
        BY <1>1, <1>3, <1>4, <2>1, <3>1
      <4>2. invitation[i].status = "PENDING" /\ joined[i] = {}
        BY <1>0, <1>1, <1>2, <4>1 DEF Standing, Before
      <4>3. pc'[r] \notin Before \cup {"cancel"} /\ pc'[r] \notin After
        BY <1>1 DEF Before, Joining, After
      <4>4. joined'[j] = {job'[r].user}
        BY <1>1, <4>1, <4>2
      <4>5. QED
        BY <1>1, <3>1, <4>1, <4>2, <4>3, <4>4
    <3>2. CASE q # r
      <4>1. Handles(q, j) /\ pc'[q] = pc[q] /\ j \in Invitations \ troubled
        BY <1>1, <1>3, <2>1, <3>2
      <4>2. j # i
        BY <1>0, <1>2, <3>2, <4>1 DEF Alone
      <4>3. QED
        BY <1>0, <1>1, <4>1, <4>2 DEF Standing
    <3>3. QED
      BY <3>1, <3>2
  <2>2. ASSUME NEW j \in Invitations \ troubled'
        PROVE  /\ invitation'[j].status = "ACCEPTED" => \E u \in Users : joined'[j] = {u}
               /\ invitation'[j].status \in {"EXPIRED", "CANCELLED"} => joined'[j] = {}
               /\ invitation'[j].status = "PENDING" =>
                    joined'[j] = {} \/ \E q \in Requests : Handles(q, j)' /\ pc'[q] \in Joining
    <3>1. CASE j = i
      <4>1. invitation[i].status = "PENDING"
        BY <1>0, <1>1, <1>2, <3>1 DEF Standing, Before
      <4>2. Handles(r, i)' /\ pc'[r] \in Joining
        BY <1>1, <1>2, <1>3
      <4>3. QED
        BY <1>1, <3>1, <4>1, <4>2
    <3>2. CASE j # i
      <4>1. \A q \in Requests : Handles(q, j) /\ pc[q] \in Joining => Handles(q, j)' /\ pc'[q] \in Joining
        BY <1>1, <1>3, <1>4, <3>2
      <4>2. QED
        BY <1>0, <1>1, <3>2, <4>1 DEF Standing
    <3>3. QED
      BY <3>1, <3>2
  <2>3. \A j \in Invitations : ~Issued(j)' => joined'[j] = {}
    BY <1>0, <1>1, <1>2 DEF Standing, Issued
  <2>4. QED
    BY <2>1, <2>2, <2>3 DEF Standing
<1>8. QED
  BY <1>5, <1>6, <1>7

(* An invitation is written. *)
LEMMA CreateStands ==
  ASSUME JoinInv, NEW r \in Requests, Create(r)
  PROVE  Alone' /\ Opened' /\ Standing'
<1> USE DEF Holding
<1>0. Typed /\ Alone /\ Opened /\ Standing
  BY DEF JoinInv
<1>1. PICK i \in Invitations :
        /\ UNCHANGED <<clock, member, job, peak, joined>>
        /\ ~Issued(i)
        /\ invitation'[i].status = "PENDING"
        /\ \A j \in Invitations \ {i} : invitation'[j] = invitation[j]
        /\ pc[r] = "create" /\ pc'[r] = "done"
        /\ \A q \in Requests \ {r} : pc'[q] = pc[q]
        /\ troubled \subseteq troubled'
  BY <1>0, CreateFacts
<1>2. \A q \in Requests : \A j : Handles(q, j)' <=> Handles(q, j)
  BY <1>1 DEF Handles, Before, Joining, After
<1>3. \A q \in Requests : ~Handles(q, i)
  BY <1>0, <1>1 DEF Opened
<1>4. joined[i] = {}
  BY <1>0, <1>1 DEF Standing
<1>5. \A q \in Requests, j \in Invitations : Handles(q, j) => q # r /\ j # i
  BY <1>1, <1>3 DEF Handles, Before, Joining, After
<1>6. Alone'
  BY <1>0, <1>1, <1>2 DEF Alone
<1>7. Opened'
  BY <1>0, <1>1, <1>2, <1>5 DEF Opened, Issued
<1>8. Standing'
  <2>1. ASSUME NEW q \in Requests, NEW j \in Invitations \ troubled', Handles(q, j)'
        PROVE  /\ pc'[q] \in Before \cup {"cancel"} => invitation'[j].status = "PENDING" /\ joined'[j] = {}
               /\ pc'[q] \in Joining => invitation'[j].status = "PENDING" /\ joined'[j] = {job'[q].user}
               /\ pc'[q] \in After => invitation'[j].status = "ACCEPTED"
    BY <1>0, <1>1, <1>2, <1>5, <2>1 DEF Standing
  <2>2. ASSUME NEW j \in Invitations \ troubled'
        PROVE  /\ invitation'[j].status = "ACCEPTED" => \E u \in Users : joined'[j] = {u}
               /\ invitation'[j].status \in {"EXPIRED", "CANCELLED"} => joined'[j] = {}
               /\ invitation'[j].status = "PENDING" =>
                    joined'[j] = {} \/ \E q \in Requests : Handles(q, j)' /\ pc'[q] \in Joining
    <3>1. \A q \in Requests : Handles(q, j) /\ pc[q] \in Joining => Handles(q, j)' /\ pc'[q] \in Joining
      BY <1>1, <1>2, <1>5
    <3>2. CASE j = i
      BY <1>1, <1>4, <3>2
    <3>3. CASE j # i
      BY <1>0, <1>1, <3>1, <3>3 DEF Standing
    <3>4. QED
      BY <3>2, <3>3
  <2>3. \A j \in Invitations : ~Issued(j)' => joined'[j] = {}
    BY <1>0, <1>1, <1>4 DEF Standing, Issued
  <2>4. QED
    BY <2>1, <2>2, <2>3 DEF Standing
<1>9. QED
  BY <1>6, <1>7, <1>8
-----------------------------------------------------------------------------
(* Request q is about to write an invitation that it was not about to write, *)
(* for nobody or for a member it has just seen without a user.               *)
NewCreator(q) ==
  \A m \in Ids : job'[q].memberId = m => member[m].row # "absent" /\ member[m].user = Nobody

(* A step at which no invitation and no member's user changes. *)
LEMMA LinksStay ==
  ASSUME JoinInv, joined' = joined, troubled \subseteq troubled', troubled' \subseteq Invitations,
         \A i \in Invitations : /\ Issued(i)' <=> Issued(i)
                                /\ invitation'[i].memberId = invitation[i].memberId,
         \A m \in Ids : /\ member'[m].user = member[m].user
                        /\ member'[m].row = "absent" <=> member[m].row = "absent",
         \A q \in Requests : pc'[q] = "create" =>
           (pc[q] = "create" /\ job'[q].memberId = job[q].memberId) \/ NewCreator(q)
  PROVE  Named' /\ Linked'
<1>0. Typed /\ Named /\ Linked
  BY DEF JoinInv
<1>1. Named'
  <2>1. \A i, j \in Invitations \ troubled' :
          Issued(i)' /\ Issued(j)' /\ invitation'[i].memberId # Nobody
            /\ invitation'[i].memberId = invitation'[j].memberId => i = j
    BY <1>0 DEF Named
  <2>2. \A i \in Invitations \ troubled', j \in troubled' :
          Issued(i)' /\ Issued(j)' /\ invitation'[i].memberId # Nobody =>
            invitation'[i].memberId # invitation'[j].memberId
    <3> SUFFICES ASSUME NEW i \in Invitations \ troubled', NEW j \in troubled',
                        Issued(i)', Issued(j)', invitation'[i].memberId # Nobody
                 PROVE  invitation'[i].memberId # invitation'[j].memberId
      OBVIOUS
    <3>1. j \in Invitations
      OBVIOUS
    <3>2. CASE j \in troubled
      BY <1>0, <3>1, <3>2 DEF Named
    <3>3. CASE j \notin troubled
      BY <1>0, <3>1, <3>3 DEF Named
    <3>4. QED
      BY <3>2, <3>3
  <2>3. \A i \in Invitations, m \in Ids :
          Issued(i)' /\ invitation'[i].memberId = m => member'[m].row # "absent"
    BY <1>0 DEF Named
  <2>4. \A r \in Requests, m \in Ids :
          pc'[r] = "create" /\ job'[r].memberId = m =>
            /\ member'[m].row # "absent"
            /\ \/ member'[m].user = Nobody
               \/ \E j \in Invitations : Issued(j)' /\ invitation'[j].memberId = m
    BY <1>0 DEF Named, NewCreator
  <2>5. QED
    BY <2>1, <2>2, <2>3, <2>4 DEF Named
<1>2. ASSUME NEW m \in Ids, member[m].user # Nobody, Unnamed(m) PROVE Unnamed(m)'
  BY <1>2 DEF Unnamed, NewCreator
<1>3. Linked'
  <2> SUFFICES ASSUME NEW i \in Invitations \ troubled', Issued(i)'
               PROVE  /\ \A u \in joined'[i] : \E m \in Ids :
                           /\ member'[m].user = u
                           /\ \/ invitation'[i].memberId = m
                              \/ invitation'[i].memberId = Nobody /\ Unnamed(m)'
                      /\ joined'[i] = {} => \A m \in Ids :
                           invitation'[i].memberId = m => member'[m].user = Nobody
    BY DEF Linked
  <2>1. ASSUME NEW u \in joined'[i]
        PROVE  \E m \in Ids :
                 /\ member'[m].user = u
                 /\ \/ invitation'[i].memberId = m
                    \/ invitation'[i].memberId = Nobody /\ Unnamed(m)'
    <3>1. u \in Users /\ u # Nobody
      BY <1>0, InvitationAssumption DEF Typed
    <3>2. PICK m \in Ids :
            /\ member[m].user = u
            /\ invitation[i].memberId = m \/ (invitation[i].memberId = Nobody /\ Unnamed(m))
      BY <1>0 DEF Linked
    <3>3. QED
      BY <1>2, <3>1, <3>2
  <2>2. joined'[i] = {} => \A m \in Ids :
          invitation'[i].memberId = m => member'[m].user = Nobody
    BY <1>0 DEF Linked
  <2>3. QED
    BY <2>1, <2>2
<1>4. QED
  BY <1>1, <1>3

(* An invitation is written. *)
LEMMA CreateLinks ==
  ASSUME JoinInv, NEW r \in Requests, Create(r)
  PROVE  Named' /\ Linked'
<1>0. Typed /\ Standing /\ Named /\ Linked
  BY DEF JoinInv
<1>1. PICK n \in Invitations :
        /\ UNCHANGED <<member, job, joined>>
        /\ ~Issued(n)
        /\ invitation'[n].status = "PENDING"
        /\ invitation'[n].memberId = job[r].memberId
        /\ \A j \in Invitations \ {n} : invitation'[j] = invitation[j]
        /\ pc[r] = "create" /\ pc'[r] = "done"
        /\ \A q \in Requests \ {r} : pc'[q] = pc[q]
        /\ troubled \subseteq troubled' /\ troubled' \subseteq Invitations
        /\ \A j \in Invitations :
             Issued(j) /\ job[r].memberId # Nobody /\ invitation[j].memberId = job[r].memberId =>
               {n, j} \subseteq troubled'
  BY <1>0, CreateFacts
<1>2. \A j \in Invitations : Issued(j)' <=> Issued(j) \/ j = n
  BY <1>1 DEF Issued
<1>3. \A j \in Invitations : Issued(j) => j # n /\ invitation'[j] = invitation[j]
  BY <1>1
<1>4. \A q \in Requests : pc'[q] = "create" => pc[q] = "create"
  BY <1>1
<1>5. \A m \in Ids : job[r].memberId = m => m # Nobody
  BY InvitationAssumption
<1>6. Named'
  <2>1. \A i, j \in Invitations \ troubled' :
          Issued(i)' /\ Issued(j)' /\ invitation'[i].memberId # Nobody
            /\ invitation'[i].memberId = invitation'[j].memberId => i = j
    BY <1>0, <1>1, <1>2, <1>3 DEF Named
  <2>2. \A i \in Invitations \ troubled', j \in troubled' :
          Issued(i)' /\ Issued(j)' /\ invitation'[i].memberId # Nobody =>
            invitation'[i].memberId # invitation'[j].memberId
    <3> SUFFICES ASSUME NEW i \in Invitations \ troubled', NEW j \in troubled',
                        Issued(i)', Issued(j)', invitation'[i].memberId # Nobody,
                        invitation'[i].memberId = invitation'[j].memberId
                 PROVE  FALSE
      OBVIOUS
    <3>1. j \in Invitations /\ i \notin troubled
      BY <1>1
    <3>2. CASE i = n
      BY <1>1, <1>2, <1>3, <3>1, <3>2
    <3>3. CASE j = n
      BY <1>1, <1>2, <1>3, <3>1, <3>3
    <3>4. CASE i # n /\ j # n
      <4>1. /\ Issued(i) /\ Issued(j) /\ invitation[i].memberId # Nobody
            /\ invitation[i].memberId = invitation[j].memberId
        BY <1>1, <1>2, <3>1, <3>4
      <4>2. j \in troubled => FALSE
        BY <1>0, <3>1, <4>1 DEF Named
      <4>3. j \notin troubled => i = j
        BY <1>0, <3>1, <4>1 DEF Named
      <4>4. QED
        BY <4>2, <4>3
    <3>5. QED
      BY <3>2, <3>3, <3>4
  <2>3. \A i \in Invitations, m \in Ids :
          Issued(i)' /\ invitation'[i].memberId = m => member'[m].row # "absent"
    BY <1>0, <1>1, <1>2, <1>3 DEF Named
  <2>4. \A q \in Requests, m \in Ids :
          pc'[q] = "create" /\ job'[q].memberId = m =>
            /\ member'[m].row # "absent"
            /\ \/ member'[m].user = Nobody
               \/ \E j \in Invitations : Issued(j)' /\ invitation'[j].memberId = m
    BY <1>0, <1>1, <1>2, <1>3, <1>4 DEF Named
  <2>5. QED
    BY <2>1, <2>2, <2>3, <2>4 DEF Named
<1>7. ASSUME NEW m \in Ids, Unnamed(m) PROVE Unnamed(m)'
  BY <1>1, <1>2, <1>3, <1>4, <1>7 DEF Unnamed
<1>8. Linked'
  <2> SUFFICES ASSUME NEW i \in Invitations \ troubled', Issued(i)'
               PROVE  /\ \A u \in joined'[i] : \E m \in Ids :
                           /\ member'[m].user = u
                           /\ \/ invitation'[i].memberId = m
                              \/ invitation'[i].memberId = Nobody /\ Unnamed(m)'
                      /\ joined'[i] = {} => \A m \in Ids :
                           invitation'[i].memberId = m => member'[m].user = Nobody
    BY DEF Linked
  <2>1. CASE i = n
    <3>1. joined[n] = {}
      BY <1>0, <1>1 DEF Standing
    <3>2. ASSUME NEW m \in Ids, invitation'[n].memberId = m PROVE member'[m].user = Nobody
      <4>1. \/ member[m].user = Nobody
            \/ \E j \in Invitations : Issued(j) /\ invitation[j].memberId = m
        BY <1>0, <1>1, <3>2 DEF Named
      <4>2. QED
        BY <1>1, <1>5, <2>1, <3>2, <4>1
    <3>3. QED
      BY <1>1, <2>1, <3>1, <3>2
  <2>2. CASE i # n
    <3>1. i \in Invitations \ troubled /\ Issued(i) /\ invitation'[i] = invitation[i]
      BY <1>1, <1>2, <2>2
    <3>2. QED
      BY <1>0, <1>1, <1>7, <3>1 DEF Linked
  <2>3. QED
    BY <2>1, <2>2
<1>9. QED
  BY <1>6, <1>8

(* A request links its user to a member. *)
LEMMA JoinLinks ==
  ASSUME JoinInv, NEW r \in Requests, Link(r) \/ Enrol(r)
  PROVE  Named' /\ Linked'
<1>0. Typed /\ Alone /\ Opened /\ Enrolling /\ Standing /\ Named /\ Linked
  BY DEF JoinInv
<1>1. PICK n \in Ids, i \in Invitations, v \in Users :
        /\ UNCHANGED <<invitation, job, troubled>>
        /\ i = job[r].id /\ v = job[r].user
        /\ member'[n].row = "live" /\ member'[n].user = v
        /\ \A m \in Ids \ {n} : member'[m] = member[m]
        /\ joined'[i] = joined[i] \cup {v}
        /\ \A j \in Invitations \ {i} : joined'[j] = joined[j]
        /\ \A q \in Requests \ {r} : pc'[q] = pc[q]
        /\ pc'[r] \in Joining
        /\ \/ pc[r] = "link" /\ n = job[r].memberId
           \/ pc[r] = "enrol" /\ member[n].row = "absent"
  BY <1>0, JoinFacts
<1>2. Handles(r, i) /\ Issued(i) /\ invitation[i].memberId = job[r].memberId
  BY <1>0, <1>1 DEF Handles, Opened, Before
<1>3. i \notin troubled => joined[i] = {}
  BY <1>0, <1>1, <1>2 DEF Standing, Before
<1>4. /\ \A j \in Invitations : Issued(j)' <=> Issued(j)
      /\ \A q \in Requests : pc'[q] = "create" => pc[q] = "create"
  BY <1>1 DEF Issued, Joining
<1>5. \/ invitation[i].memberId = n
      \/ /\ invitation[i].memberId = Nobody /\ member[n].user = Nobody /\ Unnamed(n)
         /\ member[n].row = "absent"
  <2>1. CASE pc[r] = "link" /\ n = job[r].memberId
    BY <1>2, <2>1
  <2>2. CASE pc[r] = "enrol" /\ member[n].row = "absent"
    <3>1. invitation[i].memberId = Nobody /\ member[n].user = Nobody
      BY <1>0, <1>2, <2>2 DEF Typed, Enrolling
    <3>2. Unnamed(n)
      BY <1>0, <2>2 DEF Named, Unnamed
    <3>3. QED
      BY <2>2, <3>1, <3>2
  <2>3. QED
    BY <1>1, <2>1, <2>2
<1>6. n # Nobody /\ v # Nobody
  BY InvitationAssumption
<1>7. Named'
  <2>1. \A j \in Invitations, m \in Ids :
          Issued(j) /\ invitation[j].memberId = m => member'[m].row # "absent"
    BY <1>0, <1>1 DEF Named
  <2>2. ASSUME NEW q \in Requests, NEW m \in Ids, pc[q] = "create", job[q].memberId = m
        PROVE  /\ member'[m].row # "absent"
               /\ \/ member'[m].user = Nobody
                  \/ \E j \in Invitations : Issued(j) /\ invitation[j].memberId = m
    <3>1. CASE m = n
      <4>1. invitation[i].memberId = n
        BY <1>5, <2>2, <3>1 DEF Unnamed
      <4>2. QED
        BY <1>1, <1>2, <3>1, <4>1
    <3>2. CASE m # n
      BY <1>0, <1>1, <2>2, <3>2 DEF Named
    <3>3. QED
      BY <3>1, <3>2
  <2>3. /\ \A j, k \in Invitations \ troubled' :
             Issued(j)' /\ Issued(k)' /\ invitation'[j].memberId # Nobody
               /\ invitation'[j].memberId = invitation'[k].memberId => j = k
        /\ \A j \in Invitations \ troubled', k \in troubled' :
             Issued(j)' /\ Issued(k)' /\ invitation'[j].memberId # Nobody =>
               invitation'[j].memberId # invitation'[k].memberId
    BY <1>0, <1>1 DEF Named, Issued
  <2>4. \A j \in Invitations, m \in Ids :
          Issued(j)' /\ invitation'[j].memberId = m => member'[m].row # "absent"
    BY <1>1, <1>4, <2>1
  <2>5. \A q \in Requests, m \in Ids :
          pc'[q] = "create" /\ job'[q].memberId = m =>
            /\ member'[m].row # "absent"
            /\ \/ member'[m].user = Nobody
               \/ \E j \in Invitations : Issued(j)' /\ invitation'[j].memberId = m
    BY <1>1, <1>4, <2>2
  <2>6. QED
    BY <2>3, <2>4, <2>5 DEF Named
<1>8. ASSUME NEW m \in Ids, Unnamed(m) PROVE Unnamed(m)'
  BY <1>1, <1>4, <1>8 DEF Unnamed
<1>9. Linked'
  <2> SUFFICES ASSUME NEW j \in Invitations \ troubled, Issued(j)
               PROVE  /\ \A u \in joined'[j] : \E m \in Ids :
                           /\ member'[m].user = u
                           /\ \/ invitation[j].memberId = m
                              \/ invitation[j].memberId = Nobody /\ Unnamed(m)'
                      /\ joined'[j] = {} => \A m \in Ids :
                           invitation[j].memberId = m => member'[m].user = Nobody
    BY <1>1, <1>4 DEF Linked
  <2>1. CASE j = i
    <3>1. joined'[j] = {v}
      BY <1>1, <1>3, <2>1
    <3>2. QED
      BY <1>1, <1>5, <1>8, <2>1, <3>1
  <2>2. CASE j # i
    <3>1. invitation[j].memberId # n
      <4>1. CASE invitation[i].memberId = n
        <5>1. i \notin troubled => invitation[j].memberId # n
          BY <1>0, <1>2, <1>6, <2>2, <4>1 DEF Named
        <5>2. i \in troubled => invitation[j].memberId # n
          BY <1>0, <1>2, <1>6, <2>2, <4>1 DEF Named
        <5>3. QED
          BY <5>1, <5>2
      <4>2. CASE Unnamed(n)
        BY <4>2 DEF Unnamed
      <4>3. QED
        BY <1>5, <4>1, <4>2
    <3>2. ASSUME NEW u \in joined[j]
          PROVE  \E m \in Ids :
                   /\ member'[m].user = u
                   /\ invitation[j].memberId = m \/ (invitation[j].memberId = Nobody /\ Unnamed(m)')
      <4>1. u # Nobody
        BY <1>0, InvitationAssumption DEF Typed
      <4>2. PICK m \in Ids :
              /\ member[m].user = u
              /\ invitation[j].memberId = m \/ (invitation[j].memberId = Nobody /\ Unnamed(m))
        BY <1>0 DEF Linked
      <4>3. m # n
        BY <1>2, <1>5, <3>1, <4>1, <4>2 DEF Unnamed
      <4>4. QED
        BY <1>1, <1>8, <4>2, <4>3
    <3>3. joined[j] = {} => \A m \in Ids : invitation[j].memberId = m => member'[m].user = Nobody
      BY <1>0, <1>1, <3>1 DEF Linked
    <3>4. QED
      BY <1>1, <2>2, <3>2, <3>3
  <2>3. QED
    BY <2>1, <2>2
<1>10. QED
  BY <1>7, <1>9
-----------------------------------------------------------------------------
LEMMA JoinStep == JoinInv /\ [Next]_vars => JoinInv'
<1> SUFFICES ASSUME JoinInv, [Next]_vars PROVE JoinInv'
  OBVIOUS
<1> USE DEF Places, IssuePlaces, Before, Joining, After
<1>0. Typed /\ Opened /\ Enrolling
  BY DEF JoinInv
<1>1. ASSUME NEW r \in Requests, BeginIssue(r) PROVE JoinInv'
  <2>1. /\ Typed' /\ UNCHANGED <<clock, invitation, member, joined, troubled>>
        /\ pc[r] = "idle" /\ pc'[r] = "dedup"
        /\ \A q \in Requests \ {r} : pc'[q] = pc[q] /\ job'[q] = job[q]
        /\ troubled \subseteq Invitations
    BY <1>0, <1>1, BeginIssueFacts DEF Typed
  <2>2. \A q \in Requests : Stays(q) \/ Leaves(q)
    BY <2>1 DEF Stays, Leaves, Holding
  <2>3. Alone' /\ Opened' /\ Standing'
    BY <2>1, <2>2, StandingStays
  <2>4. Named' /\ Linked'
    BY <2>1, LinksStay DEF Issued
  <2>5. Enrolling'
    BY <1>0, <2>1 DEF Enrolling
  <2>6. QED
    BY <2>1, <2>3, <2>4, <2>5 DEF JoinInv
<1>2. ASSUME NEW r \in Requests, Moves(r) PROVE JoinInv'
  <2>1. /\ Typed' /\ UNCHANGED <<clock, invitation, member, job, joined>>
        /\ \A q \in Requests \ {r} : pc'[q] = pc[q]
        /\ troubled \subseteq troubled'
        /\ \/ pc[r] = "dedup" /\ (pc'[r] = "check" \/ (pc'[r] = "create" /\ job[r].memberId = Nobody))
           \/ pc[r] = "check" /\ pc'[r] = "create" /\ Claimable(job[r].memberId)
           \/ pc[r] = "find" /\ pc'[r] = "link"
           \/ pc[r] = "email" /\ pc'[r] = "mark"
           \/ pc'[r] = "failed" /\ (pc[r] \in Joining => job[r].id \in troubled')
    BY <1>0, <1>2, MoveFacts
  <2>2. troubled' \subseteq Invitations
    BY <2>1 DEF Typed
  <2>3. \A q \in Requests : Stays(q) \/ Leaves(q)
    BY <2>1 DEF Stays, Leaves, Holding
  <2>4. Alone' /\ Opened' /\ Standing'
    BY <2>1, <2>3, StandingStays
  <2>5. \A q \in Requests : pc'[q] = "create" =>
          (pc[q] = "create" /\ job'[q].memberId = job[q].memberId) \/ NewCreator(q)
    BY <2>1, InvitationAssumption DEF NewCreator, Claimable, Live
  <2>6. Named' /\ Linked'
    BY <2>1, <2>2, <2>5, LinksStay DEF Issued
  <2>7. Enrolling'
    BY <1>0, <2>1 DEF Enrolling
  <2>8. QED
    BY <2>1, <2>4, <2>6, <2>7 DEF JoinInv
<1>3. ASSUME NEW r \in Requests, BeginAccept(r) \/ BeginCancel(r) PROVE JoinInv'
  <2>1. /\ Typed' /\ UNCHANGED <<clock, invitation, member, joined>>
        /\ pc'[r] # "create" /\ (pc'[r] = "enrol" => job'[r].memberId = Nobody)
        /\ \A q \in Requests \ {r} : pc'[q] = pc[q] /\ job'[q] = job[q]
        /\ troubled \subseteq troubled'
    BY <1>0, <1>3, OpenFacts
  <2>2. troubled' \subseteq Invitations
    BY <2>1 DEF Typed
  <2>3. Named' /\ Linked'
    BY <2>1, <2>2, LinksStay DEF Issued
  <2>4. Enrolling'
    BY <1>0, <2>1 DEF Enrolling
  <2>5. QED
    BY <1>3, <2>1, <2>3, <2>4, OpenStands DEF JoinInv
<1>4. ASSUME NEW r \in Requests, Look(r) \/ Send(r) PROVE JoinInv'
  <2>1. /\ Typed' /\ UNCHANGED <<clock, invitation, member, joined, troubled>>
        /\ \A q \in Requests \ {r} : pc'[q] = pc[q] /\ job'[q] = job[q]
        /\ \/ pc'[r] = "done" /\ pc[r] = "send" /\ job'[r] = job[r]
           \/ /\ pc[r] = "look" /\ pc'[r] = "send" /\ job'[r].id = job[r].id
              /\ job'[r].user = job[r].user /\ job'[r].memberId = job[r].memberId
        /\ troubled \subseteq Invitations
    BY <1>0, <1>4, RefreshFacts DEF Typed
  <2>2. \A q \in Requests : Stays(q) \/ Leaves(q)
    BY <2>1 DEF Stays, Leaves, Holding
  <2>3. Alone' /\ Opened' /\ Standing'
    BY <2>1, <2>2, StandingStays
  <2>4. Named' /\ Linked'
    BY <2>1, LinksStay DEF Issued
  <2>5. Enrolling'
    BY <1>0, <2>1 DEF Enrolling
  <2>6. QED
    BY <2>1, <2>3, <2>4, <2>5 DEF JoinInv
<1>5. ASSUME NEW r \in Requests, MarkExpired(r) \/ MarkAccepted(r) \/ MarkCancelled(r)
      PROVE  JoinInv'
  <2>1. PICK i \in Invitations, s \in {"EXPIRED", "CANCELLED", "ACCEPTED"} :
          /\ Typed' /\ UNCHANGED <<member, job, joined, troubled>>
          /\ i = job[r].id
          /\ invitation'[i].status = s
          /\ invitation'[i].memberId = invitation[i].memberId
          /\ \A j \in Invitations \ {i} : invitation'[j] = invitation[j]
          /\ \A q \in Requests \ {r} : pc'[q] = pc[q]
          /\ pc[r] \in {"mark", "expire", "cancel"} /\ pc'[r] \in {"look", "done", "failed"}
    BY <1>0, <1>5, MarkFacts
  <2>2. Issued(i)
    BY <1>0, <2>1 DEF Opened, Handles
  <2>3. \A j \in Invitations : /\ Issued(j)' <=> Issued(j)
                               /\ invitation'[j].memberId = invitation[j].memberId
    BY <2>1, <2>2 DEF Issued
  <2>4. troubled \subseteq Invitations /\ \A q \in Requests : pc'[q] = "create" => pc[q] = "create"
    BY <1>0, <2>1 DEF Typed
  <2>5. Named' /\ Linked'
    BY <2>1, <2>3, <2>4, LinksStay
  <2>6. Enrolling'
    BY <1>0, <2>1 DEF Enrolling
  <2>7. QED
    BY <1>5, <2>1, <2>5, <2>6, MarkStands DEF JoinInv
<1>6. ASSUME NEW r \in Requests, Link(r) \/ Enrol(r) PROVE JoinInv'
  <2>1. /\ Typed' /\ job' = job /\ pc'[r] \in Joining
        /\ \A q \in Requests \ {r} : pc'[q] = pc[q]
    BY <1>0, <1>6, JoinFacts
  <2>2. Enrolling'
    BY <1>0, <2>1 DEF Enrolling
  <2>3. QED
    BY <1>6, <2>1, <2>2, JoinStands, JoinLinks DEF JoinInv
<1>7. ASSUME NEW r \in Requests, Create(r) PROVE JoinInv'
  <2>1. /\ Typed' /\ job' = job /\ pc'[r] = "done"
        /\ \A q \in Requests \ {r} : pc'[q] = pc[q]
    BY <1>0, <1>7, CreateFacts
  <2>2. Enrolling'
    BY <1>0, <2>1 DEF Enrolling
  <2>3. QED
    BY <1>7, <2>1, <2>2, CreateStands, CreateLinks DEF JoinInv
<1>8. CASE \/ \E m \in Ids : ArchiveMember(m) \/ RestoreMember(m)
           \/ Tick
           \/ UNCHANGED vars
  <2>1. /\ Typed' /\ UNCHANGED <<invitation, pc, job, joined, troubled>>
        /\ \A m \in Ids : /\ member'[m].user = member[m].user
                          /\ member'[m].row = "absent" <=> member[m].row = "absent"
        /\ troubled \subseteq Invitations
    BY <1>0, <1>8, OutsideFacts DEF Typed
  <2>2. \A q \in Requests : Stays(q)
    BY <2>1 DEF Stays
  <2>3. Alone' /\ Opened' /\ Standing'
    BY <2>1, <2>2, StandingStays
  <2>4. Named' /\ Linked'
    BY <2>1, LinksStay DEF Issued
  <2>5. Enrolling'
    BY <1>0, <2>1 DEF Enrolling
  <2>6. QED
    BY <2>1, <2>3, <2>4, <2>5 DEF JoinInv
<1>9. QED
  BY <1>1, <1>2, <1>3, <1>4, <1>5, <1>6, <1>7, <1>8 DEF Next, Moves

LEMMA JoinInit == Init => JoinInv
<1> SUFFICES ASSUME Init PROVE JoinInv
  OBVIOUS
<1>1. /\ \A i \in Invitations : ~Issued(i) /\ joined[i] = {} /\ invitation[i].status = "absent"
      /\ \A r \in Requests : pc[r] = "idle"
      /\ troubled = {}
  BY DEF Init, Issued, Unissued
<1>2. \A r \in Requests, i \in Invitations : ~Handles(r, i)
  BY <1>1 DEF Handles, Before, Joining, After
<1>3. Alone /\ Opened /\ Enrolling
  BY <1>1, <1>2 DEF Alone, Opened, Enrolling
<1>4. Standing
  BY <1>1, <1>2 DEF Standing
<1>5. Named
  BY <1>1 DEF Named
<1>6. Linked
  BY <1>1 DEF Linked
<1>7. QED
  BY <1>3, <1>4, <1>5, <1>6, TypedInit DEF JoinInv

LEMMA CountInit == Init => CountInv
<1> SUFFICES ASSUME Init PROVE CountInv
  OBVIOUS
<1>1. /\ \A i \in Invitations : ~Issued(i) /\ invitation[i].status = "absent"
      /\ \A r \in Requests : pc[r] = "idle"
      /\ peak = 0 /\ clock = 0
  BY DEF Init, Issued, Unissued
<1>2. Cardinality({}) = 0
  BY FS_EmptySet
<1>3. RateMax \in Nat \ {0}
  BY InvitationAssumption
<1>4. Recent = {} /\ Issuing = {}
  BY <1>1 DEF Recent, Issuing
<1>5. \A e \in Emails : PendingFor(e) = {} /\ CreatingFor(e) = {}
  BY <1>1 DEF PendingFor, CreatingFor
<1>6. Counted
  BY <1>1, <1>2, <1>3, <1>4, <1>5 DEF Counted
<1>7. RateBounded
  <2> SUFFICES ASSUME NEW t \in 0 .. clock PROVE Cardinality(Window(t)) <= RateMax + peak - 1
    BY DEF RateBounded, Window
  <2>1. Window(t) = {}
    BY <1>1 DEF Window
  <2>2. QED
    BY <1>1, <1>2, <1>3, <2>1
<1>8. QED
  BY <1>6, <1>7, TypedInit DEF CountInv

(* Both inductive invariants hold in every reachable state: JoinInv relates  *)
(* the request that has an invitation open to what it has written so far,    *)
(* CountInv bounds the requests that are issuing, with the recent and the    *)
(* pending invitations, by the most that ever issued at once.                *)
THEOREM InvariantsHold == Spec => [](JoinInv /\ CountInv)
<1>1. Init => JoinInv /\ CountInv
  BY JoinInit, CountInit
<1>2. JoinInv /\ CountInv /\ [Next]_vars => (JoinInv /\ CountInv)'
  BY JoinStep, CountStep DEF JoinInv
<1>3. QED
  BY <1>1, <1>2, PTL DEF Spec
-----------------------------------------------------------------------------
(* "at most 20 invitations per tenant per hour": in any window there are at  *)
(* most RateMax, plus one for each request beyond the first that was issuing *)
(* at the same time (the count of issue and the write of Create).            *)
THEOREM RateIsBounded == Spec => []RateBounded
BY InvariantsHold, PTL DEF CountInv

(* "if there's a pending invite for the same email + tenant, reject": an     *)
(* address has no more pending invitations than requests were ever issuing   *)
(* at once, so one while requests come one after the other.                  *)
THEOREM PendingIsOne == Spec => []OnePending
<1>1. CountInv => OnePending
  <2> SUFFICES ASSUME CountInv, NEW e \in Emails
               PROVE  Cardinality(PendingFor(e)) <= peak
    BY DEF OnePending, PendingFor
  <2>1. Cardinality(PendingFor(e)) + Cardinality(CreatingFor(e)) <= peak
    BY DEF CountInv, Counted
  <2>2. /\ Cardinality(PendingFor(e)) \in Nat /\ Cardinality(CreatingFor(e)) \in Nat
        /\ peak \in Nat
    BY SetsHere, Finite DEF CountInv, Typed
  <2>3. QED
    BY <2>1, <2>2
<1>2. QED
  BY <1>1, InvariantsHold, PTL

(* An invitation that gave no trouble says ACCEPTED, or its request is about *)
(* to say so, exactly when one user has joined by it, and that user is       *)
(* linked to the member it names, if it names one.                           *)
THEOREM AcceptedHasJoined == Spec => []AcceptedMeansJoined
<1>1. JoinInv => AcceptedMeansJoined
  <2> SUFFICES ASSUME JoinInv, NEW i \in Invitations \ troubled, Issued(i)
               PROVE  /\ (invitation[i].status = "ACCEPTED"
                            \/ \E r \in OpenOn(i) : pc[r] \in {"email", "mark"})
                           <=> Cardinality(joined[i]) = 1
                      /\ \A u \in joined[i] : \E m \in Ids :
                           /\ member[m].user = u
                           /\ invitation[i].memberId \in {Nobody, m}
    BY DEF AcceptedMeansJoined
  <2>0. Typed /\ Standing /\ Linked
    BY DEF JoinInv
  <2>1. OpenOn(i) = {r \in Requests : Handles(r, i)}
    BY <2>0, OpenOnIs
  <2>2. invitation[i].status = "ACCEPTED" \/ (\E r \in OpenOn(i) : pc[r] \in {"email", "mark"})
          => \E u \in Users : joined[i] = {u}
    <3>1. CASE invitation[i].status = "ACCEPTED"
      BY <2>0, <3>1 DEF Standing
    <3>2. ASSUME NEW r \in OpenOn(i), pc[r] \in {"email", "mark"}
          PROVE  \E u \in Users : joined[i] = {u}
      <4>1. joined[i] = {job[r].user}
        BY <2>0, <2>1, <3>2 DEF Standing, Joining
      <4>2. job[r].user \in Users
        BY <2>0, <2>1, <3>2 DEF Typed, Joining, Accepts
      <4>3. QED
        BY <4>1, <4>2
    <3>3. QED
      BY <3>1, <3>2
  <2>3. joined[i] # {} =>
          invitation[i].status = "ACCEPTED" \/ \E r \in OpenOn(i) : pc[r] \in {"email", "mark"}
    <3>1. invitation[i].status \in {"PENDING", "ACCEPTED", "EXPIRED", "CANCELLED"}
      BY <2>0 DEF Typed, InvitationRow, Statuses, Issued
    <3>2. QED
      BY <2>0, <2>1, <3>1 DEF Standing, Joining
  <2>4. /\ \A u : Cardinality({u}) = 1
        /\ Cardinality({}) = 0
    BY FS_Singleton, FS_EmptySet
  <2>5. Cardinality(joined[i]) = 1 => joined[i] # {}
    BY <2>4
  <2>6. \A u \in joined[i] : \E m \in Ids :
          member[m].user = u /\ invitation[i].memberId \in {Nobody, m}
    BY <2>0 DEF Linked
  <2>7. QED
    BY <2>2, <2>3, <2>4, <2>5, <2>6
<1>2. QED
  BY <1>1, InvariantsHold, PTL

(* An invitation that is over stays as it ended ("Invitation is no longer    *)
(* pending"), unless two requests had it open at once.                       *)
THEOREM FinalHolds == Spec => FinalStays
<1>1. JoinInv /\ [Next]_vars =>
        \A i \in Invitations \ troubled :
          invitation[i].status \notin {"absent", "PENDING"} => invitation'[i] = invitation[i]
  <2> SUFFICES ASSUME JoinInv, [Next]_vars, NEW i \in Invitations \ troubled,
                      invitation[i].status \notin {"absent", "PENDING"}
               PROVE  invitation'[i] = invitation[i]
    OBVIOUS
  <2>0. Typed /\ Standing
    BY DEF JoinInv
  <2>1. CASE \E r \in Requests : Create(r)
    BY <2>0, <2>1, CreateFacts DEF Issued
  <2>2. ASSUME NEW r \in Requests, MarkExpired(r) \/ MarkAccepted(r) \/ MarkCancelled(r)
        PROVE  invitation'[i] = invitation[i]
    <3>1. /\ \A j \in Invitations \ {job[r].id} : invitation'[j] = invitation[j]
          /\ pc[r] \in {"mark", "expire", "cancel"}
      BY <2>0, <2>2, MarkFacts
    <3>2. i # job[r].id
      BY <2>0, <3>1 DEF Standing, Handles, Before, Joining
    <3>3. QED
      BY <3>1, <3>2
  <2>3. CASE UNCHANGED invitation
    BY <2>3
  <2>4. QED
    <3>1. ASSUME NEW r \in Requests, Moves(r) PROVE UNCHANGED invitation
      BY <2>0, <3>1, MoveFacts
    <3>2. ASSUME NEW r \in Requests, BeginIssue(r) PROVE UNCHANGED invitation
      BY <2>0, <3>2, BeginIssueFacts
    <3>3. ASSUME NEW r \in Requests, BeginAccept(r) \/ BeginCancel(r) PROVE UNCHANGED invitation
      BY <2>0, <3>3, OpenFacts
    <3>4. ASSUME NEW r \in Requests, Look(r) \/ Send(r) PROVE UNCHANGED invitation
      BY <2>0, <3>4, RefreshFacts
    <3>5. ASSUME NEW r \in Requests, Link(r) \/ Enrol(r) PROVE UNCHANGED invitation
      BY <2>0, <3>5, JoinFacts
    <3>6. CASE \/ \E m \in Ids : ArchiveMember(m) \/ RestoreMember(m)
               \/ Tick
               \/ UNCHANGED vars
      BY <2>0, <3>6, OutsideFacts
    <3>7. QED
      BY <2>1, <2>2, <2>3, <3>1, <3>2, <3>3, <3>4, <3>5, <3>6 DEF Next, Moves
<1>2. QED
  BY <1>1, InvariantsHold, PTL DEF Spec, FinalStays

(* A member that has a user passes to another only by an invitation that     *)
(* gave trouble ("must not already be linked to a user").                    *)
THEOREM LinkIsKept == Spec => LinkKept
<1>1. JoinInv /\ [Next]_vars =>
        \A m \in Ids :
          member[m].user # Nobody /\ member'[m].user # member[m].user =>
            \E i \in troubled : invitation[i].memberId = m
  <2> SUFFICES ASSUME JoinInv, [Next]_vars, NEW m \in Ids,
                      member[m].user # Nobody, member'[m].user # member[m].user
               PROVE  \E i \in troubled : invitation[i].memberId = m
    OBVIOUS
  <2>0. Typed /\ Opened /\ Standing /\ Linked
    BY DEF JoinInv
  <2>1. ASSUME NEW r \in Requests, Link(r) \/ Enrol(r)
        PROVE  \E i \in troubled : invitation[i].memberId = m
    <3>1. PICK n \in Ids, i \in Invitations :
            /\ i = job[r].id
            /\ \A k \in Ids \ {n} : member'[k] = member[k]
            /\ \/ pc[r] = "link" /\ n = job[r].memberId
               \/ pc[r] = "enrol" /\ member[n].row = "absent"
      BY <2>0, <2>1, JoinFacts
    <3>2. n = m
      BY <3>1
    <3>3. pc[r] = "link" /\ m = job[r].memberId
      BY <2>0, <3>1, <3>2 DEF Typed
    <3>4. Handles(r, i) /\ Issued(i) /\ invitation[i].memberId = m
      BY <2>0, <3>1, <3>3 DEF Opened, Handles, Before
    <3>5. i \in troubled
      <4>1. i \notin troubled => joined[i] = {}
        BY <2>0, <3>3, <3>4 DEF Standing, Before
      <4>2. QED
        BY <2>0, <3>4, <4>1 DEF Linked
    <3>6. QED
      BY <3>4, <3>5
  <2>2. QED
    <3>1. ASSUME NEW r \in Requests, Moves(r) PROVE UNCHANGED member
      BY <2>0, <3>1, MoveFacts
    <3>2. ASSUME NEW r \in Requests, BeginIssue(r) PROVE UNCHANGED member
      BY <2>0, <3>2, BeginIssueFacts
    <3>3. ASSUME NEW r \in Requests, BeginAccept(r) \/ BeginCancel(r) PROVE UNCHANGED member
      BY <2>0, <3>3, OpenFacts
    <3>4. ASSUME NEW r \in Requests, Look(r) \/ Send(r) PROVE UNCHANGED member
      BY <2>0, <3>4, RefreshFacts
    <3>5. ASSUME NEW r \in Requests, MarkExpired(r) \/ MarkAccepted(r) \/ MarkCancelled(r)
          PROVE  UNCHANGED member
      BY <2>0, <3>5, MarkFacts
    <3>6. ASSUME NEW r \in Requests, Create(r) PROVE UNCHANGED member
      BY <2>0, <3>6, CreateFacts
    <3>7. CASE \/ \E n \in Ids : ArchiveMember(n) \/ RestoreMember(n)
               \/ Tick
               \/ UNCHANGED vars
      BY <2>0, <3>7, OutsideFacts
    <3>8. QED
      BY <2>1, <3>1, <3>2, <3>3, <3>4, <3>5, <3>6, <3>7 DEF Next, Moves
<1>2. QED
  BY <1>1, InvariantsHold, PTL DEF Spec, LinkKept
=============================================================================
