------------------------------- MODULE Sessions -------------------------------
(***************************************************************************)
(* Credentials, the cache of verified credentials, signing out everywhere, *)
(* and granting and taking away the super-admin role                       *)
(* (FirebaseAdminService, FirebaseAuthGuard, RolesGuard, AuthFeature-      *)
(* Service, AdminFeatureService, UserClaimsService).                       *)
(*                                                                         *)
(* The identity provider (Firebase) keeps each user's claims and knows     *)
(* which credentials are revoked; a credential carries the claims of the   *)
(* moment it was minted.  Every request starts at the guard, which trusts  *)
(* a verification for VERIFY_CACHE_TTL from the moment it began.  What the *)
(* provider answers reaches the server later: a verification, a revocation *)
(* and a refresh of claims are two steps each.                             *)
(***************************************************************************)
EXTENDS Integers, FiniteSets

CONSTANTS
  Users,
  Credentials,   \* bearer tokens and session cookies
  Requests,      \* requests of a behaviour, each served once
  None,
  Ttl,           \* AUTH_VERIFY_CACHE_TTL_MS
  MaxEntries,    \* VERIFY_CACHE_MAX_ENTRIES
  Horizon        \* bound: the clock stops here

ASSUME SessionAssumption ==
  /\ Ttl \in Nat \ {0} /\ MaxEntries \in Nat \ {0} /\ Horizon \in Nat
  /\ IsFiniteSet(Credentials)
  /\ None \notin Users

VARIABLES
  clock,
  super,         \* the User table: isSuperAdmin
  claims,        \* the provider: each user's isSuperAdmin claim
  token,         \* the provider: what each credential says, and when it was revoked
  cache,         \* verifyCache
  born,          \* insertions into verifyCache so far (a Map keeps their order)
  pc, job,       \* where each request is, and what it has read
  raced,         \* history: credentials under verification when they were revoked
  crossed,       \* history: users whose role was set while another request was
                 \* sending their claims, or whose refresh failed, and of whose
                 \* refreshes none has since begun with no other being sent
  usurped        \* history: the role was changed by one who no longer had it

vars == <<clock, super, claims, token, cache, born, pc, job, raced, crossed, usurped>>
provider == <<claims, token>>
verified == <<cache, born>>
history == <<raced, crossed, usurped>>

NoEntry == [uid |-> None]
Cached == {c \in Credentials : cache[c] # NoEntry}
Valid(c) == cache[c] # NoEntry /\ cache[c].expiresAt > clock

Working(r) == pc[r] \notin {"idle", "served", "denied", "failed"}
Actor(r) == token[job[r].credential].uid
Fail(r) == pc' = [pc EXCEPT ![r] = "failed"] /\ UNCHANGED <<clock, super, job>>
Go(r, place) == pc' = [pc EXCEPT ![r] = place] /\ UNCHANGED <<clock, super, job>>

-----------------------------------------------------------------------------
(* The provider mints a credential for a user who signs in: it says what the  *)
(* claims are at that moment.                                                 *)
Mint(c) ==
  /\ token[c].uid = None
  /\ \E u \in Users :
       token' = [token EXCEPT ![c] = [uid |-> u, super |-> claims[u], revokedAt |-> None]]
  /\ UNCHANGED <<clock, super, claims, verified, pc, job, history>>

Accepts(c) == token[c].revokedAt = None

-----------------------------------------------------------------------------
(* FirebaseAuthGuard: a hit, or a question to the provider.                  *)

(* Where a request goes once its credential is verified: RolesGuard lets     *)
(* only super-admins, by what the credential says, change roles.             *)
Admitted(r, decoded) ==
  IF job[r].op = "toggle" THEN IF decoded.super THEN "actor" ELSE "denied"
  ELSE IF job[r].op = "signout" THEN "revoke"
  ELSE IF job[r].op = "refresh" THEN "look" ELSE "served"

(* refresh is every other request that rebuilds the claims of a user: a       *)
(* sign-in (its own, exchangeIdToken), a member linked, updated or removed,   *)
(* an invitation accepted, a merge.                                           *)

Arrive(r) ==
  /\ pc[r] = "idle"
  /\ \E c \in Credentials, op \in {"read", "toggle", "signout", "refresh"}, u \in Users, give \in BOOLEAN :
       /\ token[c].uid # None
       /\ op \in {"read", "signout"} => u = token[c].uid
       /\ op # "toggle" => give
       /\ job' = [job EXCEPT ![r] =
            [op |-> op, credential |-> c, user |-> u, give |-> give,
             since |-> clock, decoded |-> NoEntry]]
  /\ pc' = [pc EXCEPT ![r] = "guard"]
  /\ UNCHANGED <<clock, super, provider, verified, history>>

Hit(r) ==
  /\ pc[r] = "guard" /\ Valid(job[r].credential)
  /\ Go(r, Admitted(r, cache[job[r].credential]))
  /\ UNCHANGED <<provider, verified, history>>

(* `now` is read before the question is put. *)
Miss(r) ==
  /\ pc[r] = "guard" /\ ~Valid(job[r].credential)
  /\ pc' = [pc EXCEPT ![r] = "ask"]
  /\ job' = [job EXCEPT ![r].since = clock]
  /\ UNCHANGED <<clock, super, provider, verified, history>>

Ask(r) ==
  /\ pc[r] = "ask"
  /\ IF Accepts(job[r].credential)
     THEN /\ pc' = [pc EXCEPT ![r] = "store"]
          /\ job' = [job EXCEPT ![r].decoded = [uid |-> Actor(r), super |-> token[job[r].credential].super]]
          /\ UNCHANGED <<clock, super>>
     ELSE Go(r, "denied")
  /\ UNCHANGED <<provider, verified, history>>

(* setVerifyCache: at capacity the entries that have run out go, and then    *)
(* the oldest until there is room for one.                                   *)
Unexpired == {c \in Cached : cache[c].expiresAt > clock}
Newer(c, kept) == {d \in kept : cache[d].born >= cache[c].born}
AtCapacity == Cardinality(Cached) >= MaxEntries

(* Fault: room is made only when the cache is over its limit. *)
KeptWhenOver ==
  IF Cardinality(Cached) <= MaxEntries THEN Cached
  ELSE {c \in Unexpired : Cardinality(Newer(c, Unexpired)) < MaxEntries}

Kept ==
  IF ~AtCapacity THEN Cached
  ELSE {c \in Unexpired : Cardinality(Newer(c, Unexpired)) < MaxEntries}

(* Fault: the time to live starts when the answer is there. *)
ExpiryFromAnswer(r) == clock + Ttl

Expiry(r) == job[r].since + Ttl

(* Fault: the entry does not say whose it is. *)
OwnerUnset(r) == None

Owner(r) == job[r].decoded.uid

Store(r) ==
  /\ pc[r] = "store"
  /\ LET c == job[r].credential
         entry == [uid |-> Owner(r), super |-> job[r].decoded.super,
                   expiresAt |-> Expiry(r),
                   born |-> IF c \in Kept THEN cache[c].born ELSE born]
     IN  /\ cache' = [d \in Credentials |-> IF d = c THEN entry
                                            ELSE IF d \in Kept THEN cache[d] ELSE NoEntry]
         /\ born' = IF c \in Kept THEN born ELSE born + 1
  /\ Go(r, Admitted(r, job[r].decoded))
  /\ UNCHANGED <<provider, history>>

-----------------------------------------------------------------------------
(* signOutEverywhere: revoke at the provider, then forget. *)

Revoke(r, place) ==
  /\ pc[r] = "revoke"
  /\ token' = [c \in Credentials |->
       IF token[c].uid = Actor(r) /\ Accepts(c) THEN [token[c] EXCEPT !.revokedAt = clock] ELSE token[c]]
  /\ raced' = raced \cup
       {c \in Credentials : /\ token[c].uid = Actor(r)
                            /\ \/ place = "failed"
                               \/ \E q \in Requests : pc[q] = "store" /\ job[q].credential = c}
  /\ Go(r, place)
  /\ UNCHANGED <<claims, verified, crossed, usurped>>

Revoked(r) == Revoke(r, "forget")
(* Revoked, but the answer does not come. *)
RevokedUnheard(r) == Revoke(r, "failed")

(* Fault: only this credential is forgotten. *)
ForgottenOne(r) == {job[r].credential}

Forgotten(r) == {c \in Cached : cache[c].uid = Actor(r)}

(* invalidateUser. *)
Forget(r) ==
  /\ pc[r] = "forget"
  /\ cache' = [c \in Credentials |-> IF c \in Forgotten(r) THEN NoEntry ELSE cache[c]]
  /\ Go(r, "served")
  /\ UNCHANGED <<provider, born, history>>

-----------------------------------------------------------------------------
(* toggleSuperAdmin: find the actor, update the user, rebuild the claims.    *)
(* Fault: the actor is not compared with the user. *)
SelfDemotionIgnored(r) == FALSE

SelfDemotion(r) == Actor(r) = job[r].user /\ ~job[r].give

FindActor(r) ==
  /\ pc[r] = "actor"
  /\ Go(r, IF SelfDemotion(r) THEN "denied" ELSE "update")
  /\ UNCHANGED <<provider, verified, history>>

(* Other requests that have read the user's row and have still to send it. *)
Sending(r) == {q \in Requests \ {r} : pc[q] = "send" /\ job[q].user = job[r].user}

Update(r) ==
  /\ pc[r] = "update"
  /\ super' = [super EXCEPT ![job[r].user] = job[r].give]
  /\ usurped' = (usurped \/ ~super[Actor(r)])
  /\ crossed' = crossed \cup IF Sending(r) = {} THEN {} ELSE {job[r].user}
  /\ pc' = [pc EXCEPT ![r] = "look"]
  /\ UNCHANGED <<clock, job, provider, verified, raced>>

(* Fault: the role is not taken away again. *)
SeenByClaim(r) == claims[job[r].user] \/ super[job[r].user]

Seen(r) == super[job[r].user]

(* refreshFor: read the row, then send it. *)
Look(r) ==
  /\ pc[r] = "look"
  /\ pc' = [pc EXCEPT ![r] = "send"]
  /\ job' = [job EXCEPT ![r].give = Seen(r)]
  /\ crossed' = IF Sending(r) = {} THEN crossed \ {job[r].user} ELSE crossed
  /\ UNCHANGED <<clock, super, provider, verified, raced, usurped>>

Send(r) ==
  /\ pc[r] = "send"
  /\ claims' = [claims EXCEPT ![job[r].user] = job[r].give]
  /\ Go(r, "served")
  /\ UNCHANGED <<token, verified, history>>

-----------------------------------------------------------------------------
Tick ==
  /\ clock < Horizon
  /\ clock' = clock + 1
  /\ UNCHANGED <<super, provider, verified, pc, job, history>>

Break(r) ==
  /\ Working(r) /\ pc[r] # "forget"   \* the last step of signing out cannot fail
  /\ crossed' = crossed \cup IF pc[r] \in {"look", "send"} THEN {job[r].user} ELSE {}
  /\ Fail(r)
  /\ UNCHANGED <<provider, verified, raced, usurped>>

(* The server restarts: requests and cache are gone. *)
Restart ==
  /\ \E r \in Requests : Working(r)
  /\ pc' = [r \in Requests |-> IF Working(r) THEN "failed" ELSE pc[r]]
  /\ cache' = [c \in Credentials |-> NoEntry]
  /\ crossed' = crossed \cup {job[r].user : r \in {r \in Requests : pc[r] \in {"look", "send"}}}
  /\ UNCHANGED <<clock, super, provider, born, job, raced, usurped>>

Init ==
  /\ clock = 0
  /\ super \in [Users -> BOOLEAN] /\ \E u \in Users : super[u]
  /\ claims = super
  /\ token = [c \in Credentials |-> [uid |-> None, super |-> FALSE, revokedAt |-> None]]
  /\ cache = [c \in Credentials |-> NoEntry]
  /\ born = 0
  /\ pc = [r \in Requests |-> "idle"]
  /\ job = [r \in Requests |-> [op |-> "none"]]
  /\ raced = {} /\ crossed = {} /\ usurped = FALSE

Next ==
  \/ \E r \in Requests :
       \/ Arrive(r) \/ Hit(r) \/ Miss(r) \/ Ask(r) \/ Store(r)
       \/ Revoked(r) \/ RevokedUnheard(r) \/ Forget(r)
       \/ FindActor(r) \/ Update(r) \/ Look(r) \/ Send(r)
       \/ Break(r)
  \/ \E c \in Credentials : Mint(c)
  \/ Tick \/ Restart

Spec == Init /\ [][Next]_vars
-----------------------------------------------------------------------------
(* Every variable has its type. *)
Entry == [uid : Users, super : BOOLEAN, expiresAt : Int, born : Nat]
Job == [op : {"read", "toggle", "signout", "refresh"}, credential : Credentials, user : Users,
        give : BOOLEAN, since : Int,
        decoded : [uid : Users, super : BOOLEAN] \cup {NoEntry}]
TypeOK ==
  /\ clock \in Int
  /\ super \in [Users -> BOOLEAN] /\ claims \in [Users -> BOOLEAN]
  /\ token \in [Credentials -> [uid : Users \cup {None}, super : BOOLEAN, revokedAt : Int \cup {None}]]
  /\ cache \in [Credentials -> Entry \cup {NoEntry}]
  /\ born \in Nat
  /\ job \in [Requests -> Job \cup {[op |-> "none"]}]

(* However verifications, revocations and time interleave, a revoked         *)
(* credential is honoured for less than VERIFY_CACHE_TTL: "the TTL only      *)
(* bounds how long we trust the revocation check".                           *)
HonouredLessThanTtl ==
  \A c \in Credentials :
    Valid(c) /\ token[c].revokedAt # None => clock < token[c].revokedAt + Ttl

(* The cache keeps to its limit ("Hard cap"). *)
CacheBounded == Cardinality(Cached) <= MaxEntries

(* "a revoked user is dropped from this instance immediately rather than     *)
(* after the TTL": a revoked credential is in the cache only while its       *)
(* sign-out has still to forget it, unless its verification was under way    *)
(* when it was revoked or the revocation was not heard of.                   *)
DroppedAtSignOut ==
  \A c \in Cached \ raced :
    token[c].revokedAt # None =>
      \E r \in Requests : pc[r] = "forget" /\ Actor(r) = token[c].uid

(* Somebody keeps the super-admin role, as long as it is changed only by     *)
(* those who have it: "You cannot demote yourself from super admin".         *)
SomeoneLeft == usurped \/ \E u \in Users : super[u]

(* Whichever requests rebuild the claims of a user, the claim says what the   *)
(* table says or one of them is about to set it - unless a role was changed   *)
(* between the two steps of another's refresh, or a refresh failed; and the   *)
(* next refresh begun while none is being sent puts that right as well.       *)
ClaimFollows ==
  \A u \in Users \ crossed :
    claims[u] # super[u] => \E r \in Requests : pc[r] \in {"look", "send"} /\ job[r].user = u
=============================================================================
