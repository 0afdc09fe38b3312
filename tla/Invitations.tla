----------------------------- MODULE Invitations -----------------------------
(***************************************************************************)
(* Invitations to one church: issuing, accepting, cancelling and expiring  *)
(* them, and the member rows that acceptance links or creates              *)
(* (InvitationProcessingService).                                          *)
(*                                                                         *)
(* No database transaction spans the calls of a request.  What was checked *)
(* before an await may no longer hold after it, and a request that dies    *)
(* leaves what it has done.  Expiry is noticed only by a request to        *)
(* accept: until then an invitation that has run out still says PENDING.   *)
(***************************************************************************)
EXTENDS Naturals, FiniteSets, FiniteSetsExt

CONSTANTS
  Ids,            \* ids a Member row may get
  Users, Emails,
  Invitations,    \* ids of Invitation rows
  Requests,       \* requests of a behaviour, each served once
  Nobody,         \* no user, no member
  RateMax, RateWindow, Ttl,  \* INVITATION_RATE_MAX, _RATE_WINDOW_MS, _TTL_DAYS
  Horizon         \* bound: the clock stops here

ASSUME InvitationAssumption ==
  /\ RateMax \in Nat \ {0} /\ {RateWindow, Ttl, Horizon} \subseteq Nat
  /\ Nobody \notin Ids \cup Users
  /\ IsFiniteSet(Invitations) /\ IsFiniteSet(Requests)

VARIABLES
  clock,
  invitation,     \* the Invitation table
  member,         \* the Member table: row and user link
  claims,         \* the membership in each user's claims
  pc, job,        \* where each request is, and what it has read
  peak,           \* history: most requests that were issuing at once
  joined,         \* history: the users that joined by an invitation
  troubled        \* history: invitations two requests had open at once, on
                  \* which one failed half-way, or that name one member

vars == <<clock, invitation, member, claims, pc, job, peak, joined, troubled>>
rows == <<invitation, member, claims>>
history == <<peak, joined, troubled>>

Live(m) == member[m].row = "live"
Unissued == [status |-> "absent", email |-> Nobody, memberId |-> Nobody, createdAt |-> 0]
Issued(i) == invitation[i].status # "absent"
Expired(i) == invitation[i].createdAt + Ttl < clock

Memberships(u) == {m \in Ids : Live(m) /\ member[m].user = u}
IndexAllows(m, u) == Memberships(u) \subseteq {m}
Membership(u) == IF Memberships(u) = {} THEN Nobody ELSE CHOOSE m \in Memberships(u) : TRUE

-----------------------------------------------------------------------------
NoJob == [op |-> "none"]
Issuing == {r \in Requests : pc[r] \in {"dedup", "check", "create"}}
OpenOn(i) == {r \in Requests : /\ pc[r] \notin {"idle", "done", "failed"}
                               /\ job[r].op \in {"accept", "cancel"} /\ job[r].id = i}

Go(r, place) == pc' = [pc EXCEPT ![r] = place] /\ UNCHANGED <<clock, job>>
Fail(r) == Go(r, "failed")

(* A request opens invitation i. *)
Open(r, i, place, work) ==
  /\ pc[r] = "idle" /\ Issued(i)
  /\ pc' = [pc EXCEPT ![r] = place]
  /\ job' = [job EXCEPT ![r] = work]
  /\ troubled' = troubled \cup (IF OpenOn(i) = {} THEN {} ELSE {i})
  /\ UNCHANGED <<clock, rows, peak, joined>>

-----------------------------------------------------------------------------
(* issue: count, look for a pending one, look at the member, write, mail.   *)

Recent == {i \in Invitations : Issued(i) /\ invitation[i].createdAt + RateWindow >= clock}

(* Fault: one too many. *)
WithinRateAndOne == Cardinality(Recent) <= RateMax

WithinRate == Cardinality(Recent) < RateMax

BeginIssue(r) ==
  /\ pc[r] = "idle" /\ WithinRate
  /\ \E e \in Emails, m \in Ids \cup {Nobody} :
       job' = [job EXCEPT ![r] = [op |-> "issue", email |-> e, memberId |-> m]]
  /\ pc' = [pc EXCEPT ![r] = "dedup"]
  /\ peak' = Max({peak, Cardinality(Issuing) + 1})
  /\ UNCHANGED <<clock, rows, joined, troubled>>

(* Fault: one that has run out does not count. *)
ValidFor(e) == {i \in Invitations : /\ invitation[i].status = "PENDING"
                                    /\ invitation[i].email = e /\ ~Expired(i)}

PendingFor(e) == {i \in Invitations : /\ invitation[i].status = "PENDING"
                                      /\ invitation[i].email = e}

Dedup(r) ==
  /\ pc[r] = "dedup" /\ PendingFor(job[r].email) = {}
  /\ Go(r, IF job[r].memberId = Nobody THEN "create" ELSE "check")
  /\ UNCHANGED <<rows, history>>

(* Fault: a member that has a user can be claimed. *)
ClaimableIfLive(m) == Live(m)

Claimable(m) == Live(m) /\ member[m].user = Nobody

CheckMember(r) ==
  /\ pc[r] = "check" /\ Claimable(job[r].memberId)
  /\ Go(r, "create")
  /\ UNCHANGED <<rows, history>>

RefuseIssue(r) ==
  /\ \/ pc[r] = "dedup" /\ PendingFor(job[r].email) # {}
     \/ pc[r] = "check" /\ ~Claimable(job[r].memberId)
  /\ Fail(r)
  /\ UNCHANGED <<rows, history>>

(* The mail that follows may fail without changing anything. *)
Create(r) ==
  /\ pc[r] = "create"
  /\ \E i \in Invitations :
       /\ ~Issued(i)
       /\ invitation' = [invitation EXCEPT ![i] =
            [status |-> "PENDING", email |-> job[r].email,
             memberId |-> job[r].memberId, createdAt |-> clock]]
       /\ troubled' = troubled \cup
            LET others == {j \in Invitations : /\ Issued(j) /\ job[r].memberId # Nobody
                                               /\ invitation[j].memberId = job[r].memberId}
            IN  IF others = {} THEN {} ELSE others \cup {i}
  /\ Go(r, "done")
  /\ UNCHANGED <<member, claims, peak, joined>>

-----------------------------------------------------------------------------
(* accept: open, link or create the member, mark, rebuild claims.           *)

(* Fault: only the date is looked at. *)
AcceptableByDate(i) == TRUE

Acceptable(i) == invitation[i].status = "PENDING"

(* "User profile must exist before accepting invitation". *)
Acceptors == Users

BeginAccept(r) ==
  \E i \in Invitations, u \in Acceptors :
    /\ Acceptable(i)
    /\ Open(r, i, IF Expired(i) THEN "expire"
                  ELSE IF invitation[i].memberId = Nobody THEN "enrol" ELSE "find",
            [op |-> "accept", id |-> i, user |-> u, memberId |-> invitation[i].memberId,
             seen |-> Nobody])

MarkExpired(r) ==
  /\ pc[r] = "expire"
  /\ invitation' = [invitation EXCEPT ![job[r].id].status = "EXPIRED"]
  /\ Fail(r)
  /\ UNCHANGED <<member, claims, history>>

FindMember(r) ==
  /\ pc[r] = "find" /\ Live(job[r].memberId)
  /\ Go(r, "link")
  /\ UNCHANGED <<rows, history>>

Join(r, m, place) ==
  /\ member' = [member EXCEPT ![m] = [row |-> "live", user |-> job[r].user]]
  /\ joined' = [joined EXCEPT ![job[r].id] = @ \cup {job[r].user}]
  /\ Go(r, place)
  /\ UNCHANGED <<invitation, claims, peak, troubled>>

(* linkUser does not look at the link that is there. *)
Link(r) ==
  /\ pc[r] = "link" /\ Live(job[r].memberId) /\ IndexAllows(job[r].memberId, job[r].user)
  /\ Join(r, job[r].memberId, "email")

SaveEmail(r) ==
  /\ pc[r] = "email" /\ Live(job[r].memberId)
  /\ Go(r, "mark")
  /\ UNCHANGED <<rows, history>>

Enrol(r) ==
  /\ pc[r] = "enrol" /\ Memberships(job[r].user) = {}
  /\ \E m \in Ids : member[m].row = "absent" /\ Join(r, m, "mark")

(* The member is gone, or the user has another membership by now. *)
RefuseAccept(r) ==
  /\ \/ pc[r] \in {"find", "link", "email"} /\ ~Live(job[r].memberId)
     \/ pc[r] = "link" /\ ~IndexAllows(job[r].memberId, job[r].user)
     \/ pc[r] = "enrol" /\ Memberships(job[r].user) # {}
  /\ troubled' = troubled \cup (IF pc[r] = "email" THEN {job[r].id} ELSE {})
  /\ Fail(r)
  /\ UNCHANGED <<rows, peak, joined>>

MarkAccepted(r) ==
  /\ pc[r] = "mark"
  /\ invitation' = [invitation EXCEPT ![job[r].id].status = "ACCEPTED"]
  /\ Go(r, "look")
  /\ UNCHANGED <<member, claims, history>>

(* refreshFor: read the memberships, then send them. *)
Look(r) ==
  /\ pc[r] = "look"
  /\ job' = [job EXCEPT ![r].seen = Membership(job[r].user)]
  /\ pc' = [pc EXCEPT ![r] = "send"]
  /\ UNCHANGED <<clock, rows, history>>

Send(r) ==
  /\ pc[r] = "send"
  /\ claims' = [claims EXCEPT ![job[r].user] = job[r].seen]
  /\ Go(r, "done")
  /\ UNCHANGED <<invitation, member, history>>

-----------------------------------------------------------------------------
(* cancelById. *)

(* Fault: what is over can be cancelled, as by token. *)
CancellableAnyhow(i) == TRUE

Cancellable(i) == invitation[i].status = "PENDING"

BeginCancel(r) ==
  \E i \in Invitations : Cancellable(i) /\ Open(r, i, "cancel", [op |-> "cancel", id |-> i])

MarkCancelled(r) ==
  /\ pc[r] = "cancel"
  /\ invitation' = [invitation EXCEPT ![job[r].id].status = "CANCELLED"]
  /\ Go(r, "done")
  /\ UNCHANGED <<member, claims, history>>

-----------------------------------------------------------------------------
(* Members are archived and restored meanwhile (module Members has the      *)
(* steps); time passes; the server dies.                                     *)
ArchiveMember(m) ==
  /\ Live(m)
  /\ member' = [member EXCEPT ![m].row = "archived"]
  /\ claims' = [u \in Users |-> IF u = member[m].user THEN Nobody ELSE claims[u]]
  /\ UNCHANGED <<clock, invitation, pc, job, history>>

RestoreMember(m) ==
  /\ member[m].row = "archived"
  /\ member[m].user # Nobody => Memberships(member[m].user) = {}
  /\ member' = [member EXCEPT ![m].row = "live"]
  /\ claims' = [u \in Users |-> IF u = member[m].user THEN m ELSE claims[u]]
  /\ UNCHANGED <<clock, invitation, pc, job, history>>

Tick ==
  /\ clock < Horizon
  /\ clock' = clock + 1
  /\ UNCHANGED <<rows, pc, job, history>>

Crash(r) ==
  /\ pc[r] \notin {"idle", "done", "failed"}
  /\ troubled' = troubled \cup
       (IF pc[r] \in {"email", "mark", "look", "send"} THEN {job[r].id} ELSE {})
  /\ Fail(r)
  /\ UNCHANGED <<rows, peak, joined>>

Init ==
  /\ clock = 0
  /\ invitation = [i \in Invitations |-> Unissued]
  /\ member \in [Ids -> [row : {"absent", "live", "archived"}, user : Users \cup {Nobody}]]
  /\ \A m \in Ids : /\ member[m].row = "absent" => member[m].user = Nobody
                    /\ Live(m) /\ member[m].user # Nobody => IndexAllows(m, member[m].user)
  /\ claims = [u \in Users |-> Membership(u)]
  /\ pc = [r \in Requests |-> "idle"]
  /\ job = [r \in Requests |-> NoJob]
  /\ peak = 0
  /\ joined = [i \in Invitations |-> {}]
  /\ troubled = {}

Next ==
  \/ \E r \in Requests :
       \/ BeginIssue(r) \/ Dedup(r) \/ CheckMember(r) \/ RefuseIssue(r) \/ Create(r)
       \/ BeginAccept(r) \/ MarkExpired(r) \/ FindMember(r) \/ Link(r) \/ SaveEmail(r)
       \/ Enrol(r) \/ RefuseAccept(r) \/ MarkAccepted(r) \/ Look(r) \/ Send(r)
       \/ BeginCancel(r) \/ MarkCancelled(r)
       \/ Crash(r)
  \/ \E m \in Ids : ArchiveMember(m) \/ RestoreMember(m)
  \/ Tick

Spec == Init /\ [][Next]_vars
-----------------------------------------------------------------------------
(* "at most 20 invitations per tenant per hour" (comment on the limit),     *)
(* give or take the requests that were counting at the same time: each of   *)
(* them beyond the first may add one.                                        *)
RateBounded ==
  \A t \in 0 .. clock :
    Cardinality({i \in Invitations :
      /\ Issued(i) /\ invitation[i].createdAt \in t .. t + RateWindow}) <= RateMax + peak - 1

(* "if there's a pending invite for the same email + tenant, reject": an     *)
(* address has one pending invitation, and at most as many as requests were  *)
(* ever issuing at once.                                                     *)
OnePending ==
  \A e \in Emails :
    Cardinality({i \in Invitations : invitation[i].status = "PENDING"
                                      /\ invitation[i].email = e}) <= peak

(* An invitation that gave no trouble says ACCEPTED, or is about to, exactly *)
(* when one user has joined by it, and that user is linked to a member, the  *)
(* invited one if it names one.                                              *)
AcceptedMeansJoined ==
  \A i \in {i \in Invitations \ troubled : Issued(i)} :
    /\ (invitation[i].status = "ACCEPTED" \/ \E r \in OpenOn(i) : pc[r] \in {"email", "mark"})
         <=> Cardinality(joined[i]) = 1
    /\ \A u \in joined[i] : \E m \in Ids :
         /\ member[m].user = u
         /\ invitation[i].memberId \in {Nobody, m}

(* An invitation that is over stays as it ended, unless two requests had it  *)
(* open at once ("Invitation is no longer pending").                         *)
FinalStays ==
  [][\A i \in Invitations \ troubled :
       invitation[i].status \notin {"absent", "PENDING"} => invitation'[i] = invitation[i]]_vars

(* A member that has a user passes to another only by an invitation that     *)
(* gave trouble: it "must not already be linked to a user" (comment on       *)
(* issue), and acceptance does not look again.                               *)
LinkKept ==
  [][\A m \in Ids :
       member[m].user # Nobody /\ member'[m].user # member[m].user =>
         \E i \in troubled : invitation[i].memberId = m]_vars
=============================================================================
