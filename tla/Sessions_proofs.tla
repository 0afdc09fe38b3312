---------------------------- MODULE Sessions_proofs ----------------------------
(***************************************************************************)
(* Proofs about credentials, the cache of verified credentials and the     *)
(* super-admin role.  TypeInv is what every other invariant leans on: a    *)
(* request under way knows whose credential it carries, and the cache says *)
(* of a credential whose it is.                                            *)
(***************************************************************************)
EXTENDS Sessions, FiniteSetTheorems, WellFoundedInduction, TLAPS

Places == {"idle", "guard", "ask", "store", "revoke", "forget", "actor", "update",
           "look", "send", "served", "denied", "failed"}

Known ==
  /\ pc \in [Requests -> Places]
  /\ \A r \in Requests : pc[r] # "idle" => job[r] \in Job /\ Actor(r) \in Users
  /\ \A r \in Requests :
       pc[r] = "store" => job[r].decoded # NoEntry /\ job[r].decoded.uid = Actor(r)
  /\ \A c \in Credentials : cache[c] # NoEntry => cache[c].uid = token[c].uid

TypeInv == TypeOK /\ Known

LEMMA TypeInit == Init => TypeInv
  BY SessionAssumption DEF Init, TypeInv, TypeOK, Known, Places, NoEntry, Entry

(* An entry is one: it has an owner, NoEntry has none. *)
LEMMA EntryOrNot ==
  /\ \A e \in Entry : e # NoEntry /\ e.uid \in Users /\ e.expiresAt \in Int /\ e.born \in Nat
  /\ \A e \in [uid : Users, super : BOOLEAN] : e # NoEntry
  BY SessionAssumption DEF Entry, NoEntry

(* Where a request may go from the guard. *)
LEMMA AdmittedPlace ==
  \A r, decoded : Admitted(r, decoded) \in {"actor", "denied", "revoke", "look", "served"}
  BY DEF Admitted

(* A request that only moves on, and reads nothing. *)
LEMMA MoveOnTypes ==
  ASSUME TypeInv, NEW r \in Requests, pc[r] # "idle",
         NEW place \in Places \ {"idle", "store"}, Go(r, place), UNCHANGED <<provider, verified>>
  PROVE  TypeInv'
<1>1. TypeOK'
  BY DEF TypeInv, TypeOK, Go, provider, verified
<1>2. Known'
  BY DEF TypeInv, Known, Go, provider, verified, Actor
<1>3. QED
  BY <1>1, <1>2 DEF TypeInv

LEMMA TypeStep == TypeInv /\ [Next]_vars => TypeInv'
<1> SUFFICES ASSUME TypeInv, [Next]_vars PROVE TypeInv'
  OBVIOUS
<1>0. CASE UNCHANGED vars
  BY <1>0 DEF TypeInv, TypeOK, Known, Actor, vars, provider, verified, history
<1>1. ASSUME NEW c \in Credentials, Mint(c) PROVE TypeInv'
  <2>1. \A d \in Credentials : token[d].uid \in Users => token'[d] = token[d]
    BY <1>1, SessionAssumption DEF Mint, TypeInv, TypeOK
  <2>2. TypeOK'
    BY <1>1 DEF Mint, TypeInv, TypeOK, verified
  <2>3. Known'
    <3>1. \A r \in Requests : pc[r] # "idle" => job[r].credential \in Credentials
      BY DEF TypeInv, Known, Job
    <3>2. \A d \in Credentials : cache[d] # NoEntry => cache[d].uid \in Users
      BY EntryOrNot DEF TypeInv, TypeOK
    <3>3. QED
      BY <1>1, <2>1, <3>1, <3>2 DEF Mint, TypeInv, Known, Actor, verified
  <2>4. QED
    BY <2>2, <2>3 DEF TypeInv
<1>2. ASSUME NEW r \in Requests, Arrive(r) PROVE TypeInv'
  <2>1. PICK c \in Credentials, op \in {"read", "toggle", "signout", "refresh"}, u \in Users, give \in BOOLEAN :
          /\ token[c].uid # None
          /\ job' = [job EXCEPT ![r] = [op |-> op, credential |-> c, user |-> u, give |-> give,
                                        since |-> clock, decoded |-> NoEntry]]
    BY <1>2 DEF Arrive
  <2>2. job'[r] \in Job /\ job'[r].credential = c
    BY <2>1 DEF TypeInv, TypeOK, Job
  <2>3. TypeOK'
    BY <1>2, <2>1, <2>2 DEF Arrive, TypeInv, TypeOK, provider, verified
  <2>4. Actor(r)' \in Users
    BY <1>2, <2>1, <2>2 DEF Arrive, TypeInv, TypeOK, Actor, provider
  <2>5. Known'
    BY <1>2, <2>1, <2>2, <2>4 DEF Arrive, TypeInv, TypeOK, Known, Actor, Places, provider, verified
  <2>6. QED
    BY <2>3, <2>5 DEF TypeInv
<1>3. ASSUME NEW r \in Requests, Hit(r) PROVE TypeInv'
  BY <1>3, AdmittedPlace, MoveOnTypes DEF Hit, Places
<1>4. ASSUME NEW r \in Requests, Miss(r) PROVE TypeInv'
  <2>1. job[r] \in Job /\ job'[r] = [job[r] EXCEPT !.since = clock]
    BY <1>4 DEF Miss, TypeInv, TypeOK, Known
  <2>2. job'[r] \in Job /\ job'[r].credential = job[r].credential
    BY <2>1 DEF Job, TypeInv, TypeOK
  <2>3. TypeOK'
    BY <1>4, <2>2 DEF Miss, TypeInv, TypeOK, provider, verified
  <2>4. Known'
    BY <1>4, <2>2 DEF Miss, TypeInv, TypeOK, Known, Actor, Places, provider, verified
  <2>5. QED
    BY <2>3, <2>4 DEF TypeInv
<1>5. ASSUME NEW r \in Requests, Ask(r) PROVE TypeInv'
  <2>1. CASE ~Accepts(job[r].credential)
    BY <1>5, <2>1, MoveOnTypes DEF Ask, Places
  <2>2. CASE Accepts(job[r].credential)
    <3>0. job[r] \in Job /\ Actor(r) \in Users /\ job[r].credential \in Credentials
      BY <1>5 DEF Ask, TypeInv, Known, Job
    <3> DEFINE decoded == [uid |-> Actor(r), super |-> token[job[r].credential].super]
    <3>1. decoded \in [uid : Users, super : BOOLEAN] /\ decoded.uid = Actor(r)
      BY <3>0 DEF TypeInv, TypeOK
    <3>2. job'[r] = [job[r] EXCEPT !.decoded = decoded]
      BY <1>5, <2>2, <3>0 DEF Ask, TypeInv, TypeOK
    <3> HIDE DEF decoded
    <3>3. /\ job'[r] \in Job /\ job'[r].credential = job[r].credential
          /\ job'[r].decoded = decoded
      BY <3>0, <3>1, <3>2 DEF Job
    <3>4. decoded # NoEntry
      BY <3>1, EntryOrNot
    <3>5. TypeOK'
      BY <1>5, <2>2, <3>3 DEF Ask, TypeInv, TypeOK, provider, verified
    <3>6. Known'
      BY <1>5, <2>2, <3>0, <3>1, <3>3, <3>4 DEF Ask, TypeInv, TypeOK, Known, Actor, Places, provider, verified
    <3>7. QED
      BY <3>5, <3>6 DEF TypeInv
  <2>3. QED
    BY <2>1, <2>2
<1>6. ASSUME NEW r \in Requests, Store(r) PROVE TypeInv'
  <2>0. /\ job[r] \in Job /\ Actor(r) \in Users /\ job[r].credential \in Credentials
        /\ job[r].decoded \in [uid : Users, super : BOOLEAN] /\ job[r].decoded.uid = Actor(r)
        /\ job[r].since \in Int
    BY <1>6 DEF Store, TypeInv, Known, Job
  <2>1. PICK entry : /\ entry.uid = Actor(r)
                     /\ entry \in Entry
                     /\ cache' = [d \in Credentials |-> IF d = job[r].credential THEN entry
                                    ELSE IF d \in Kept THEN cache[d] ELSE NoEntry]
    <3> DEFINE c == job[r].credential
               entry == [uid |-> Owner(r), super |-> job[r].decoded.super,
                         expiresAt |-> Expiry(r),
                         born |-> IF c \in Kept THEN cache[c].born ELSE born]
    <3>1. c \in Kept => cache[c].born \in Nat
      BY <2>0, EntryOrNot DEF Kept, Cached, Unexpired, TypeInv, TypeOK
    <3>2. entry \in Entry /\ entry.uid = Actor(r)
      BY <2>0, <3>1, SessionAssumption DEF Entry, Owner, Expiry, TypeInv, TypeOK
    <3>3. QED
      BY <1>6, <3>2 DEF Store
  <2>2. born' \in Nat
    BY <1>6 DEF Store, TypeInv, TypeOK
  <2>3. TypeOK'
    BY <1>6, <2>1, <2>2 DEF Store, Go, TypeInv, TypeOK, provider
  <2>4. Known'
    <3>1. Admitted(r, job[r].decoded) \in Places \ {"idle", "store"}
      BY AdmittedPlace DEF Places
    <3>2. \A d \in Credentials : cache'[d] # NoEntry => cache'[d].uid = token[d].uid
      BY <2>1 DEF TypeInv, Known, Actor
    <3>3. QED
      BY <1>6, <3>1, <3>2 DEF Store, Go, TypeInv, Known, Actor, provider
  <2>5. QED
    BY <2>3, <2>4 DEF TypeInv
<1>7. ASSUME NEW r \in Requests, NEW place \in {"forget", "failed"}, Revoke(r, place) PROVE TypeInv'
  <2>1. \A c \in Credentials : token'[c].uid = token[c].uid
    BY <1>7 DEF Revoke, TypeInv, TypeOK
  <2>2. token' \in [Credentials -> [uid : Users \cup {None}, super : BOOLEAN, revokedAt : Int \cup {None}]]
    BY <1>7 DEF Revoke, TypeInv, TypeOK
  <2>3. TypeOK'
    BY <1>7, <2>2 DEF Revoke, Go, TypeInv, TypeOK, verified
  <2>4. \A q \in Requests : pc[q] # "idle" => job[q].credential \in Credentials
    BY DEF TypeInv, Known, Job
  <2>5. Known'
    BY <1>7, <2>1, <2>4 DEF Revoke, Go, TypeInv, Known, Actor, Places, verified
  <2>6. QED
    BY <2>3, <2>5 DEF TypeInv
<1>8. ASSUME NEW r \in Requests, Forget(r) PROVE TypeInv'
  <2>1. TypeOK'
    BY <1>8 DEF Forget, Go, TypeInv, TypeOK, provider
  <2>2. Known'
    BY <1>8 DEF Forget, Go, TypeInv, Known, Actor, Places, provider
  <2>3. QED
    BY <2>1, <2>2 DEF TypeInv
<1>9. ASSUME NEW r \in Requests, FindActor(r) PROVE TypeInv'
  BY <1>9, MoveOnTypes DEF FindActor, Places
<1>10. ASSUME NEW r \in Requests, Update(r) PROVE TypeInv'
  <2>0. job[r] \in Job /\ job[r].give \in BOOLEAN
    BY <1>10 DEF Update, TypeInv, Known, Job
  <2>1. TypeOK'
    BY <1>10, <2>0 DEF Update, TypeInv, TypeOK, provider, verified
  <2>2. Known'
    BY <1>10 DEF Update, TypeInv, Known, Actor, Places, provider, verified
  <2>3. QED
    BY <2>1, <2>2 DEF TypeInv
<1>11. ASSUME NEW r \in Requests, Look(r) PROVE TypeInv'
  <2>1. job[r] \in Job /\ job'[r] = [job[r] EXCEPT !.give = Seen(r)] /\ Seen(r) \in BOOLEAN
    BY <1>11 DEF Look, TypeInv, TypeOK, Known, Seen, Job
  <2>2. job'[r] \in Job /\ job'[r].credential = job[r].credential
    BY <2>1 DEF Job
  <2>3. TypeOK'
    BY <1>11, <2>2 DEF Look, TypeInv, TypeOK, provider, verified
  <2>4. Known'
    BY <1>11, <2>2 DEF Look, TypeInv, TypeOK, Known, Actor, Places, provider, verified
  <2>5. QED
    BY <2>3, <2>4 DEF TypeInv
<1>12. ASSUME NEW r \in Requests, Send(r) PROVE TypeInv'
  <2>0. job[r] \in Job /\ job[r].give \in BOOLEAN
    BY <1>12 DEF Send, TypeInv, Known, Job
  <2>1. TypeOK'
    BY <1>12, <2>0 DEF Send, Go, TypeInv, TypeOK, verified
  <2>2. Known'
    BY <1>12 DEF Send, Go, TypeInv, Known, Actor, Places, verified
  <2>3. QED
    BY <2>1, <2>2 DEF TypeInv
<1>13. ASSUME NEW r \in Requests, Break(r) PROVE TypeInv'
  BY <1>13, MoveOnTypes DEF Break, Fail, Go, Working, Places
<1>14. CASE Tick
  <2>1. TypeOK'
    BY <1>14 DEF Tick, TypeInv, TypeOK, provider, verified
  <2>2. Known'
    BY <1>14 DEF Tick, TypeInv, Known, Actor, provider, verified
  <2>3. QED
    BY <2>1, <2>2 DEF TypeInv
<1>15. CASE Restart
  <2>1. TypeOK'
    BY <1>15 DEF Restart, TypeInv, TypeOK, provider
  <2>2. Known'
    BY <1>15 DEF Restart, Working, TypeInv, Known, Actor, Places, provider
  <2>3. QED
    BY <2>1, <2>2 DEF TypeInv
<1>16. QED
  BY <1>0, <1>1, <1>2, <1>3, <1>4, <1>5, <1>6, <1>7, <1>8, <1>9, <1>10, <1>11, <1>12, <1>13,
     <1>14, <1>15
     DEF Next, Revoked, RevokedUnheard

(* Every variable keeps its type (TypeOK), for any numbers of users,         *)
(* credentials and requests, any time to live and any capacity.              *)
THEOREM SessionTypeOK == Spec => []TypeOK
<1>1. TypeInv => TypeOK
  BY DEF TypeInv
<1>2. QED
  BY <1>1, TypeInit, TypeStep, PTL DEF Spec

(***************************************************************************)
(* How long a revoked credential is honoured.  The argument is about       *)
(* since, the moment a verification began: it is not later than a          *)
(* revocation the verification did not see, and the entry runs out at      *)
(* since + Ttl.                                                            *)
(***************************************************************************)
Timely ==
  /\ \A r \in Requests : pc[r] # "idle" => job[r].since <= clock
  /\ \A r \in Requests :
       pc[r] = "store" /\ token[job[r].credential].revokedAt # None =>
         job[r].since <= token[job[r].credential].revokedAt
  /\ \A c \in Credentials :
       cache[c] # NoEntry =>
         /\ cache[c].expiresAt <= clock + Ttl
         /\ token[c].revokedAt # None => cache[c].expiresAt <= token[c].revokedAt + Ttl

LEMMA TimelyInit == Init => Timely
  BY DEF Init, Timely

LEMMA TimelyStep == TypeInv /\ Timely /\ [Next]_vars => Timely'
<1> SUFFICES ASSUME TypeInv, Timely, [Next]_vars PROVE Timely'
  OBVIOUS
<1>a. /\ \A r \in Requests : pc[r] # "idle" => job[r] \in Job /\ job[r].credential \in Credentials
                                                /\ job[r].since \in Int
      /\ clock \in Int /\ Ttl \in Int
      /\ \A c \in Credentials : cache[c] # NoEntry => cache[c].expiresAt \in Int
      /\ \A c \in Credentials : token[c].revokedAt \in Int \cup {None}
  BY SessionAssumption, EntryOrNot DEF TypeInv, TypeOK, Known, Job
<1>b. ASSUME NEW r \in Requests, NEW place \in Places \ {"store"}, pc[r] # "idle",
             Go(r, place), UNCHANGED <<provider, verified>>
      PROVE  Timely'
  BY <1>b DEF Timely, Go, TypeInv, Known, provider, verified
<1>0. CASE UNCHANGED vars
  BY <1>0 DEF Timely, vars, provider, verified, history
<1>1. ASSUME NEW c \in Credentials, Mint(c) PROVE Timely'
  <2>1. \A d \in Credentials : token'[d].revokedAt # None => token'[d] = token[d]
    BY <1>1 DEF Mint, TypeInv, TypeOK
  <2>2. QED
    BY <1>1, <1>a, <2>1 DEF Mint, Timely, verified
<1>2. ASSUME NEW r \in Requests, Arrive(r) PROVE Timely'
  <2>1. job'[r].since = clock /\ \A q \in Requests \ {r} : job'[q] = job[q]
    BY <1>2 DEF Arrive, TypeInv, TypeOK
  <2>2. pc'[r] = "guard" /\ \A q \in Requests \ {r} : pc'[q] = pc[q]
    BY <1>2 DEF Arrive, TypeInv, Known
  <2>3. QED
    BY <1>2, <1>a, <2>1, <2>2 DEF Arrive, Timely, provider, verified
<1>3. ASSUME NEW r \in Requests, Hit(r) PROVE Timely'
  BY <1>3, <1>b, AdmittedPlace DEF Hit, Places
<1>4. ASSUME NEW r \in Requests, Miss(r) PROVE Timely'
  <2>1. /\ job'[r].since = clock /\ \A q \in Requests \ {r} : job'[q] = job[q]
        /\ pc'[r] = "ask" /\ \A q \in Requests \ {r} : pc'[q] = pc[q]
    BY <1>4, <1>a DEF Miss, TypeInv, TypeOK, Known, Job
  <2>2. QED
    BY <1>4, <1>a, <2>1 DEF Miss, Timely, provider, verified
<1>5. ASSUME NEW r \in Requests, Ask(r) PROVE Timely'
  <2>1. CASE ~Accepts(job[r].credential)
    BY <1>5, <2>1, <1>b DEF Ask, Places
  <2>2. CASE Accepts(job[r].credential)
    <3>1. /\ job'[r].since = job[r].since /\ job'[r].credential = job[r].credential
          /\ \A q \in Requests \ {r} : job'[q] = job[q] /\ pc'[q] = pc[q]
          /\ pc[r] # "idle"
      BY <1>5, <1>a, <2>2 DEF Ask, TypeInv, TypeOK, Known, Job
    <3>2. token[job[r].credential].revokedAt = None
      BY <2>2 DEF Accepts
    <3>3. QED
      BY <1>5, <1>a, <2>2, <3>1, <3>2 DEF Ask, Timely, provider, verified
  <2>3. QED
    BY <2>1, <2>2
<1>6. ASSUME NEW r \in Requests, Store(r) PROVE Timely'
  <2>1. PICK entry : /\ entry.expiresAt = job[r].since + Ttl
                     /\ cache' = [d \in Credentials |-> IF d = job[r].credential THEN entry
                                    ELSE IF d \in Kept THEN cache[d] ELSE NoEntry]
    BY <1>6 DEF Store, Expiry
  <2>2. /\ pc[r] = "store" /\ pc' = [pc EXCEPT ![r] = Admitted(r, job[r].decoded)]
        /\ UNCHANGED <<clock, job, token>>
    BY <1>6 DEF Store, Go, provider
  <2>3. Admitted(r, job[r].decoded) # "store" /\ pc \in [Requests -> Places]
    BY AdmittedPlace DEF TypeInv, Known
  <2>4. QED
    BY <1>a, <2>1, <2>2, <2>3 DEF Timely
<1>7. ASSUME NEW r \in Requests, NEW place \in {"forget", "failed"}, Revoke(r, place) PROVE Timely'
  <2>1. \A c \in Credentials : token'[c].revokedAt \in {token[c].revokedAt, clock}
    BY <1>7 DEF Revoke, TypeInv, TypeOK
  <2>2. \A c \in Credentials : token'[c].revokedAt # token[c].revokedAt => token[c].revokedAt = None
    BY <1>7 DEF Revoke, Accepts, TypeInv, TypeOK
  <2>3. pc' = [pc EXCEPT ![r] = place] /\ UNCHANGED <<clock, job, cache>> /\ pc[r] # "idle"
    BY <1>7 DEF Revoke, Go, verified
  <2>4. QED
    BY <1>a, <2>1, <2>2, <2>3 DEF Timely, TypeInv, Known
<1>8. ASSUME NEW r \in Requests, Forget(r) PROVE Timely'
  BY <1>8 DEF Forget, Go, Timely, TypeInv, Known, provider
<1>9. ASSUME NEW r \in Requests, FindActor(r) PROVE Timely'
  BY <1>9, <1>b DEF FindActor, Places
<1>10. ASSUME NEW r \in Requests, Update(r) PROVE Timely'
  BY <1>10 DEF Update, Timely, TypeInv, Known, provider, verified
<1>11. ASSUME NEW r \in Requests, Look(r) PROVE Timely'
  <2>1. /\ job'[r].since = job[r].since
        /\ \A q \in Requests \ {r} : job'[q] = job[q] /\ pc'[q] = pc[q]
        /\ pc[r] # "idle" /\ pc'[r] # "store"
    BY <1>11, <1>a DEF Look, TypeInv, TypeOK, Known, Job
  <2>2. QED
    BY <1>11, <1>a, <2>1 DEF Look, Timely, provider, verified
<1>12. ASSUME NEW r \in Requests, Send(r) PROVE Timely'
  BY <1>12 DEF Send, Go, Timely, TypeInv, Known, verified
<1>13. ASSUME NEW r \in Requests, Break(r) PROVE Timely'
  BY <1>13, <1>b DEF Break, Fail, Go, Working, Places
<1>14. CASE Tick
  BY <1>14, <1>a DEF Tick, Timely, provider, verified
<1>15. CASE Restart
  BY <1>15 DEF Restart, Working, Timely, TypeInv, Known, provider
<1>16. QED
  BY <1>0, <1>1, <1>2, <1>3, <1>4, <1>5, <1>6, <1>7, <1>8, <1>9, <1>10, <1>11, <1>12, <1>13,
     <1>14, <1>15
     DEF Next, Revoked, RevokedUnheard

(* A revoked credential is honoured for less than the time to live of a      *)
(* verification (HonouredLessThanTtl), whatever raced with what.             *)
THEOREM HonouredBriefly == Spec => []HonouredLessThanTtl
<1>1. TypeInv /\ Timely => HonouredLessThanTtl
  <2> SUFFICES ASSUME TypeInv, Timely, NEW c \in Credentials,
                      Valid(c), token[c].revokedAt # None
               PROVE  clock < token[c].revokedAt + Ttl
    BY DEF HonouredLessThanTtl
  <2>1. /\ cache[c].expiresAt \in Int /\ clock \in Int /\ token[c].revokedAt \in Int /\ Ttl \in Int
    BY SessionAssumption, EntryOrNot DEF Valid, TypeInv, TypeOK
  <2>2. cache[c].expiresAt > clock /\ cache[c].expiresAt <= token[c].revokedAt + Ttl
    BY DEF Valid, Timely
  <2>3. QED
    BY <2>1, <2>2
<1>2. QED
  BY <1>1, TypeInit, TypeStep, TimelyInit, TimelyStep, PTL DEF Spec

(***************************************************************************)
(* Signing out everywhere.  A verification that is about to be stored and  *)
(* whose credential is revoked by now was under way when that happened.    *)
(***************************************************************************)
Traced ==
  \A r \in Requests :
    pc[r] = "store" /\ token[job[r].credential].revokedAt # None => job[r].credential \in raced

SignOutInv == Traced /\ DroppedAtSignOut

LEMMA SignOutInit == Init => SignOutInv
  BY DEF Init, SignOutInv, Traced, DroppedAtSignOut, Cached

(* A step that neither revokes, stores nor forgets. *)
LEMMA SignOutFrame ==
  ASSUME TypeInv, SignOutInv, raced \subseteq raced',
         \A r \in Requests : pc'[r] = "store" =>
           pc[r] = "store" /\ job'[r].credential = job[r].credential,
         \A r \in Requests : pc[r] = "forget" =>
           pc'[r] = "forget" /\ job'[r].credential = job[r].credential,
         \A c \in Credentials : token'[c] = token[c] \/ token'[c].revokedAt = None,
         \A c \in Credentials : token[c].uid \in Users => token'[c] = token[c],
         \A c \in Credentials : cache'[c] \in {cache[c], NoEntry}
  PROVE  SignOutInv'
<1>0. \A r \in Requests : pc[r] # "idle" => job[r].credential \in Credentials /\ Actor(r) \in Users
  BY DEF TypeInv, Known, Job
<1>1. Traced'
  BY <1>0 DEF SignOutInv, Traced, Actor
<1>2. DroppedAtSignOut'
  <2> SUFFICES ASSUME NEW c \in (Cached \ raced)', token'[c].revokedAt # None
               PROVE  \E r \in Requests : pc'[r] = "forget" /\ Actor(r)' = token'[c].uid
    BY DEF DroppedAtSignOut
  <2>1. c \in Credentials /\ cache[c] # NoEntry /\ c \in Cached \ raced /\ token'[c] = token[c]
    BY DEF Cached
  <2>2. PICK r \in Requests : pc[r] = "forget" /\ Actor(r) = token[c].uid
    BY <2>1 DEF SignOutInv, DroppedAtSignOut
  <2>3. pc'[r] = "forget" /\ Actor(r)' = Actor(r)
    BY <1>0, <2>2 DEF Actor
  <2>4. QED
    BY <2>1, <2>2, <2>3
<1>3. QED
  BY <1>1, <1>2 DEF SignOutInv

LEMMA SignOutStep == TypeInv /\ SignOutInv /\ [Next]_vars => SignOutInv'
<1> SUFFICES ASSUME TypeInv, SignOutInv, [Next]_vars PROVE SignOutInv'
  OBVIOUS
<1>a. /\ \A r \in Requests : pc[r] # "idle" => job[r] \in Job /\ job[r].credential \in Credentials
                                                /\ Actor(r) \in Users
      /\ pc \in [Requests -> Places]
  BY DEF TypeInv, Known, Job
<1>0. CASE UNCHANGED vars
  BY <1>0, SignOutFrame DEF vars, provider, verified, history
<1>1. ASSUME NEW c \in Credentials, Mint(c) PROVE SignOutInv'
  <2>1. /\ \A d \in Credentials : token'[d] = token[d] \/ token'[d].revokedAt = None
        /\ \A d \in Credentials : token[d].uid \in Users => token'[d] = token[d]
    BY <1>1, SessionAssumption DEF Mint, TypeInv, TypeOK
  <2>2. UNCHANGED <<pc, job, cache, raced>>
    BY <1>1 DEF Mint, verified, history
  <2>3. QED
    BY <2>1, <2>2, SignOutFrame
<1>2. ASSUME NEW r \in Requests, Arrive(r) PROVE SignOutInv'
  <2>1. /\ pc[r] = "idle" /\ pc'[r] = "guard" /\ UNCHANGED <<token, cache, raced>>
        /\ \A q \in Requests \ {r} : job'[q] = job[q] /\ pc'[q] = pc[q]
    BY <1>2, <1>a DEF Arrive, TypeInv, TypeOK, provider, verified, history
  <2>2. QED
    BY <2>1, SignOutFrame
<1>3. ASSUME NEW r \in Requests, Hit(r) PROVE SignOutInv'
  <2>1. /\ pc[r] = "guard" /\ pc'[r] \notin {"store"}
        /\ \A q \in Requests \ {r} : pc'[q] = pc[q]
        /\ UNCHANGED <<job, token, cache, raced>>
    BY <1>3, <1>a, AdmittedPlace DEF Hit, Go, provider, verified, history
  <2>2. QED
    BY <2>1, SignOutFrame
<1>4. ASSUME NEW r \in Requests, Miss(r) PROVE SignOutInv'
  <2>1. /\ pc[r] = "guard" /\ pc'[r] = "ask"
        /\ \A q \in Requests \ {r} : job'[q] = job[q] /\ pc'[q] = pc[q]
        /\ UNCHANGED <<token, cache, raced>>
    BY <1>4, <1>a DEF Miss, TypeInv, TypeOK, provider, verified, history
  <2>2. QED
    BY <2>1, SignOutFrame
<1>5. ASSUME NEW r \in Requests, Ask(r) PROVE SignOutInv'
  <2>1. CASE ~Accepts(job[r].credential)
    <3>1. /\ pc[r] = "ask" /\ pc'[r] = "denied" /\ UNCHANGED <<job, token, cache, raced>>
          /\ \A q \in Requests \ {r} : pc'[q] = pc[q]
      BY <1>5, <1>a, <2>1 DEF Ask, Go, provider, verified, history
    <3>2. QED
      BY <3>1, SignOutFrame
  <2>2. CASE Accepts(job[r].credential)
    <3>1. /\ pc[r] = "ask" /\ pc'[r] = "store" /\ job'[r].credential = job[r].credential
          /\ \A q \in Requests \ {r} : job'[q] = job[q] /\ pc'[q] = pc[q]
          /\ UNCHANGED <<token, cache, raced>>
      BY <1>5, <1>a, <2>2 DEF Ask, TypeInv, TypeOK, Job, provider, verified, history
    <3>2. token[job[r].credential].revokedAt = None
      BY <2>2 DEF Accepts
    <3>3. Traced'
      BY <3>1, <3>2 DEF SignOutInv, Traced
    <3>4. DroppedAtSignOut'
      <4>1. \A q \in Requests : pc[q] = "forget" => pc'[q] = "forget" /\ Actor(q)' = Actor(q)
        BY <3>1 DEF Actor
      <4>2. QED
        BY <3>1, <4>1 DEF SignOutInv, DroppedAtSignOut, Cached
    <3>5. QED
      BY <3>3, <3>4 DEF SignOutInv
  <2>3. QED
    BY <2>1, <2>2
<1>6. ASSUME NEW r \in Requests, Store(r) PROVE SignOutInv'
  <2>1. /\ pc[r] = "store" /\ pc'[r] # "store" /\ UNCHANGED <<job, token, raced>>
        /\ \A q \in Requests \ {r} : pc'[q] = pc[q]
        /\ \A d \in Credentials \ {job[r].credential} : cache'[d] \in {cache[d], NoEntry}
    BY <1>6, <1>a, AdmittedPlace DEF Store, Go, provider, history
  <2>2. Traced'
    BY <2>1 DEF SignOutInv, Traced
  <2>3. DroppedAtSignOut'
    <3> SUFFICES ASSUME NEW c \in (Cached \ raced)', token'[c].revokedAt # None
                 PROVE  \E q \in Requests : pc'[q] = "forget" /\ Actor(q)' = token'[c].uid
      BY DEF DroppedAtSignOut
    <3>1. c # job[r].credential
      BY <2>1 DEF SignOutInv, Traced
    <3>2. c \in Cached \ raced
      BY <2>1, <3>1 DEF Cached
    <3>3. PICK q \in Requests : pc[q] = "forget" /\ Actor(q) = token[c].uid
      BY <2>1, <3>2 DEF SignOutInv, DroppedAtSignOut
    <3>4. QED
      BY <2>1, <3>3 DEF Actor
  <2>4. QED
    BY <2>2, <2>3 DEF SignOutInv
<1>7. ASSUME NEW r \in Requests, NEW place \in {"forget", "failed"}, Revoke(r, place),
             place = "failed" \/ place = "forget"
      PROVE  SignOutInv'
  <2>0. /\ pc[r] = "revoke" /\ pc' = [pc EXCEPT ![r] = place] /\ UNCHANGED <<job, cache>>
        /\ raced \subseteq raced'
        /\ \A c \in Credentials : token'[c].uid = token[c].uid
    BY <1>7 DEF Revoke, Go, verified, TypeInv, TypeOK
  <2>1. ASSUME NEW c \in Credentials
        PROVE  token'[c] = token[c] \/ (token[c].uid = Actor(r) /\ token[c].revokedAt = None)
    BY <1>7 DEF Revoke, Accepts
  <2>2. ASSUME NEW c \in Credentials, token[c].uid = Actor(r),
               place = "failed" \/ \E q \in Requests : pc[q] = "store" /\ job[q].credential = c
        PROVE  c \in raced'
    BY <1>7, <2>2 DEF Revoke
  <2>3. Traced'
    BY <1>a, <2>0, <2>1, <2>2 DEF SignOutInv, Traced
  <2>4. DroppedAtSignOut'
    <3> SUFFICES ASSUME NEW c \in (Cached \ raced)', token'[c].revokedAt # None
                 PROVE  \E q \in Requests : pc'[q] = "forget" /\ Actor(q)' = token'[c].uid
      BY DEF DroppedAtSignOut
    <3>1. c \in Credentials /\ c \in Cached \ raced
      BY <2>0 DEF Cached
    <3>2. CASE token'[c] = token[c]
      <4>1. PICK q \in Requests : pc[q] = "forget" /\ Actor(q) = token[c].uid
        BY <3>1, <3>2 DEF SignOutInv, DroppedAtSignOut
      <4>2. pc'[q] = "forget" /\ Actor(q)' = Actor(q)
        BY <1>a, <2>0, <4>1 DEF Actor
      <4>3. QED
        BY <3>2, <4>1, <4>2
    <3>3. CASE token[c].uid = Actor(r) /\ token[c].revokedAt = None
      <4>1. place = "forget"
        BY <1>7, <2>2, <3>1, <3>3
      <4>2. pc'[r] = "forget" /\ Actor(r)' = Actor(r)
        BY <1>a, <2>0, <4>1 DEF Actor
      <4>3. QED
        BY <2>0, <3>1, <3>3, <4>2
    <3>4. QED
      BY <2>1, <3>1, <3>2, <3>3
  <2>5. QED
    BY <2>3, <2>4 DEF SignOutInv
<1>8. ASSUME NEW r \in Requests, Forget(r) PROVE SignOutInv'
  <2>0. /\ pc' = [pc EXCEPT ![r] = "served"] /\ UNCHANGED <<job, token, raced>>
        /\ cache' = [c \in Credentials |-> IF c \in Forgotten(r) THEN NoEntry ELSE cache[c]]
    BY <1>8 DEF Forget, Go, provider, history
  <2>1. Traced'
    BY <1>a, <2>0 DEF SignOutInv, Traced
  <2>2. DroppedAtSignOut'
    <3> SUFFICES ASSUME NEW c \in (Cached \ raced)', token'[c].revokedAt # None
                 PROVE  \E q \in Requests : pc'[q] = "forget" /\ Actor(q)' = token'[c].uid
      BY DEF DroppedAtSignOut
    <3>1. c \in Cached \ raced /\ c \notin Forgotten(r)
      BY <2>0 DEF Cached
    <3>2. token[c].uid # Actor(r)
      BY <3>1 DEF Forgotten, Cached, TypeInv, Known
    <3>3. PICK q \in Requests : pc[q] = "forget" /\ Actor(q) = token[c].uid
      BY <2>0, <3>1 DEF SignOutInv, DroppedAtSignOut
    <3>4. QED
      BY <1>a, <2>0, <3>2, <3>3 DEF Actor
  <2>3. QED
    BY <2>1, <2>2 DEF SignOutInv
<1>9. ASSUME NEW r \in Requests, FindActor(r) \/ Update(r) \/ Look(r) \/ Send(r) \/ Break(r)
      PROVE  SignOutInv'
  <2>1. /\ pc[r] \notin {"idle", "forget"} /\ pc'[r] # "store" /\ UNCHANGED <<cache, raced>>
        /\ \A q \in Requests \ {r} : job'[q] = job[q] /\ pc'[q] = pc[q]
        /\ \A c \in Credentials : token'[c] = token[c]
    BY <1>9, <1>a DEF FindActor, Update, Look, Send, Break, Fail, Go, Working, TypeInv, TypeOK,
                      provider, verified, history
  <2>2. QED
    BY <2>1, SignOutFrame
<1>10. CASE Tick
  BY <1>10, SignOutFrame DEF Tick, provider, verified, history
<1>11. CASE Restart
  <2>1. Traced'
    BY <1>11, <1>a DEF Restart, Working, provider, SignOutInv, Traced
  <2>2. DroppedAtSignOut'
    BY <1>11 DEF Restart, DroppedAtSignOut, Cached
  <2>3. QED
    BY <2>1, <2>2 DEF SignOutInv
<1>12. QED
  BY <1>0, <1>1, <1>2, <1>3, <1>4, <1>5, <1>6, <1>7, <1>8, <1>9, <1>10, <1>11
     DEF Next, Revoked, RevokedUnheard

(* Once a user has signed out everywhere, no credential of that user is left *)
(* in the cache (DroppedAtSignOut), but for those whose verification was     *)
(* under way.                                                                *)
THEOREM SignOutDrops == Spec => []DroppedAtSignOut
<1>1. SignOutInv => DroppedAtSignOut
  BY DEF SignOutInv
<1>2. QED
  BY <1>1, TypeInit, TypeStep, SignOutInit, SignOutStep, PTL DEF Spec

(***************************************************************************)
(* The super-admin role.  A request that is about to write the table was   *)
(* not made by the user from whom it takes the role; and what a request is *)
(* about to send is what the table says, but for users whose refreshes an  *)
(* update crossed.                                                         *)
(***************************************************************************)
RoleInv ==
  /\ \A r \in Requests : pc[r] = "update" => ~SelfDemotion(r)
  /\ SomeoneLeft
  /\ \A r \in Requests :
       pc[r] = "send" /\ job[r].user \notin crossed => job[r].give = super[job[r].user]
  /\ ClaimFollows

LEMMA RoleInit == Init => RoleInv
  BY DEF Init, RoleInv, SomeoneLeft, ClaimFollows

(* A step that leaves the role, the claims and the requests about them; a    *)
(* request may come to the start of its refresh.                             *)
LEMMA RoleFrame ==
  ASSUME TypeInv, RoleInv, UNCHANGED <<super, claims, crossed, usurped>>,
         \A c \in Credentials : token[c].uid \in Users => token'[c].uid = token[c].uid,
         \A r \in Requests :
           pc[r] \in {"look", "send"} \/ pc'[r] \in {"update", "send"} =>
             pc'[r] = pc[r] /\ job'[r] = job[r]
  PROVE  RoleInv'
<1>1. \A r \in Requests : pc[r] = "update" =>
        job[r].credential \in Credentials /\ Actor(r) \in Users
  BY DEF TypeInv, Known, Job
<1>2. \A r \in Requests : pc'[r] = "update" => ~SelfDemotion(r)'
  BY <1>1 DEF RoleInv, SelfDemotion, Actor
<1>3. SomeoneLeft' /\ ClaimFollows'
  BY DEF RoleInv, SomeoneLeft, ClaimFollows
<1>4. \A r \in Requests :
        pc'[r] = "send" /\ job'[r].user \notin crossed' => job'[r].give = super'[job'[r].user]
  BY DEF RoleInv
<1>5. QED
  BY <1>2, <1>3, <1>4 DEF RoleInv

(* Requests that break off; users whose claims one of them was rebuilding    *)
(* are crossed from then on.                                                 *)
LEMMA RoleBreak ==
  ASSUME TypeInv, RoleInv, UNCHANGED <<super, claims, usurped, job, token>>,
         crossed \subseteq crossed',
         \A r \in Requests : pc'[r] \in {pc[r], "failed"},
         \A r \in Requests :
           pc[r] \in {"look", "send"} /\ pc'[r] # pc[r] => job[r].user \in crossed'
  PROVE  RoleInv'
<1>1. \A r \in Requests : pc'[r] # "failed" => pc'[r] = pc[r]
  OBVIOUS
<1>2. \A r \in Requests : pc'[r] = "update" => ~SelfDemotion(r)'
  BY <1>1 DEF RoleInv, SelfDemotion, Actor
<1>3. SomeoneLeft' /\ ClaimFollows'
  BY DEF RoleInv, SomeoneLeft, ClaimFollows
<1>4. \A r \in Requests :
        pc'[r] = "send" /\ job'[r].user \notin crossed' => job'[r].give = super'[job'[r].user]
  BY DEF RoleInv
<1>5. QED
  BY <1>2, <1>3, <1>4 DEF RoleInv

LEMMA RoleStep == TypeInv /\ RoleInv /\ [Next]_vars => RoleInv'
<1> SUFFICES ASSUME TypeInv, RoleInv, [Next]_vars PROVE RoleInv'
  OBVIOUS
<1>a. /\ \A r \in Requests : pc[r] # "idle" => /\ job[r] \in Job /\ job[r].credential \in Credentials
                                                /\ Actor(r) \in Users /\ job[r].user \in Users
                                                /\ job[r].give \in BOOLEAN
      /\ pc \in [Requests -> Places]
  BY DEF TypeInv, Known, Job
<1>0. CASE UNCHANGED vars
  BY <1>0, RoleFrame DEF vars, provider, verified, history
<1>1. ASSUME NEW c \in Credentials, Mint(c) PROVE RoleInv'
  <2>1. \A d \in Credentials : token[d].uid \in Users => token'[d].uid = token[d].uid
    BY <1>1, SessionAssumption DEF Mint, TypeInv, TypeOK
  <2>2. QED
    BY <1>1, <2>1, RoleFrame DEF Mint, verified, history
<1>2. ASSUME NEW r \in Requests, Arrive(r) \/ Hit(r) \/ Miss(r) \/ Ask(r) \/ Store(r) PROVE RoleInv'
  <2>1. UNCHANGED <<super, claims, crossed, usurped, token>>
    BY <1>2 DEF Arrive, Hit, Miss, Ask, Store, Go, provider, history
  <2>2. \A q \in Requests \ {r} : pc'[q] = pc[q] /\ job'[q] = job[q]
    BY <1>2, <1>a DEF Arrive, Hit, Miss, Ask, Store, Go, TypeInv, TypeOK
  <2>3. pc[r] \in {"idle", "guard", "ask", "store"}
    BY <1>2 DEF Arrive, Hit, Miss, Ask, Store
  <2>4. pc'[r] \in {"guard", "ask", "store", "actor", "denied", "revoke", "look", "served"}
    <3>1. CASE Hit(r) \/ Store(r)
      BY <1>a, <3>1, AdmittedPlace DEF Hit, Store, Go
    <3>2. CASE Arrive(r) \/ Miss(r) \/ Ask(r)
      BY <1>a, <3>2 DEF Arrive, Miss, Ask, Go
    <3>3. QED
      BY <1>2, <3>1, <3>2
  <2>5. QED
    BY <2>1, <2>2, <2>3, <2>4, RoleFrame
<1>3. ASSUME NEW r \in Requests, NEW place \in {"forget", "failed"}, Revoke(r, place) PROVE RoleInv'
  <2>1. /\ {pc[r], pc'[r]} \cap {"update", "look", "send"} = {}
        /\ \A q \in Requests \ {r} : pc'[q] = pc[q]
        /\ UNCHANGED <<super, claims, crossed, usurped, job>>
    BY <1>3, <1>a DEF Revoke, Go
  <2>2. \A d \in Credentials : token'[d].uid = token[d].uid
    BY <1>3 DEF Revoke, TypeInv, TypeOK
  <2>3. QED
    BY <2>1, <2>2, RoleFrame
<1>4. ASSUME NEW r \in Requests, Forget(r) PROVE RoleInv'
  <2>1. /\ {pc[r], pc'[r]} \cap {"update", "look", "send"} = {}
        /\ \A q \in Requests \ {r} : pc'[q] = pc[q]
        /\ UNCHANGED <<super, claims, crossed, usurped, job, token>>
    BY <1>4, <1>a DEF Forget, Go, provider, history
  <2>2. QED
    BY <2>1, RoleFrame
<1>5. ASSUME NEW r \in Requests, FindActor(r) PROVE RoleInv'
  <2>0. /\ pc[r] = "actor" /\ pc' = [pc EXCEPT ![r] = IF SelfDemotion(r) THEN "denied" ELSE "update"]
        /\ UNCHANGED <<super, claims, crossed, usurped, job, token>>
    BY <1>5 DEF FindActor, Go, provider, history
  <2>1. \A q \in Requests : pc'[q] = "update" => ~SelfDemotion(q)'
    BY <1>a, <2>0 DEF RoleInv, SelfDemotion, Actor
  <2>2. SomeoneLeft' /\ ClaimFollows'
    BY <1>a, <2>0 DEF RoleInv, SomeoneLeft, ClaimFollows
  <2>3. \A q \in Requests :
          pc'[q] = "send" /\ job'[q].user \notin crossed' => job'[q].give = super'[job'[q].user]
    BY <1>a, <2>0 DEF RoleInv
  <2>4. QED
    BY <2>1, <2>2, <2>3 DEF RoleInv
<1>6. ASSUME NEW r \in Requests, Update(r) PROVE RoleInv'
  <2>0. /\ pc[r] = "update" /\ pc' = [pc EXCEPT ![r] = "look"]
        /\ super' = [super EXCEPT ![job[r].user] = job[r].give]
        /\ usurped' = (usurped \/ ~super[Actor(r)])
        /\ crossed \subseteq crossed' /\ (Sending(r) # {} => job[r].user \in crossed')
        /\ UNCHANGED <<claims, job, token>>
    BY <1>6 DEF Update, provider
  <2>1. \A q \in Requests : pc'[q] = "update" => ~SelfDemotion(q)'
    BY <1>a, <2>0 DEF RoleInv, SelfDemotion, Actor
  <2>2. SomeoneLeft'
    <3>1. CASE usurped'
      BY <3>1 DEF SomeoneLeft
    <3>2. CASE ~usurped'
      <4>1. super[Actor(r)] /\ Actor(r) \in Users /\ job[r].user \in Users
        BY <1>a, <2>0, <3>2
      <4>2. Actor(r) # job[r].user \/ job[r].give
        BY <2>0 DEF RoleInv, SelfDemotion
      <4>3. super \in [Users -> BOOLEAN]
        BY DEF TypeInv, TypeOK
      <4>4. CASE job[r].give
        BY <2>0, <4>1, <4>3, <4>4 DEF SomeoneLeft
      <4>5. CASE Actor(r) # job[r].user
        BY <2>0, <4>1, <4>3, <4>5 DEF SomeoneLeft
      <4>6. QED
        BY <4>2, <4>4, <4>5
    <3>3. QED
      BY <3>1, <3>2
  <2>5. ASSUME NEW q \in Requests, pc'[q] = "send", job'[q].user \notin crossed'
        PROVE  job'[q].give = super'[job'[q].user]
    <3>1. q # r /\ pc[q] = "send"
      BY <1>a, <2>0, <2>5
    <3>2. job[q].user # job[r].user
      BY <1>a, <2>0, <2>5, <3>1 DEF Sending
    <3>3. QED
      BY <1>a, <2>0, <2>5, <3>1, <3>2 DEF RoleInv, TypeInv, TypeOK
  <2>6. ClaimFollows'
    <3> SUFFICES ASSUME NEW u \in (Users \ crossed)', claims'[u] # super'[u]
                 PROVE  \E q \in Requests : pc'[q] \in {"look", "send"} /\ job'[q].user = u
      BY DEF ClaimFollows
    <3>1. CASE u = job[r].user
      BY <1>a, <2>0, <3>1
    <3>2. CASE u # job[r].user
      BY <1>a, <2>0, <3>2 DEF RoleInv, ClaimFollows, TypeInv, TypeOK
    <3>3. QED
      BY <3>1, <3>2
  <2>7. QED
    BY <2>1, <2>2, <2>5, <2>6 DEF RoleInv
<1>7. ASSUME NEW r \in Requests, Look(r) PROVE RoleInv'
  <2>0. /\ pc[r] = "look" /\ pc' = [pc EXCEPT ![r] = "send"]
        /\ UNCHANGED <<super, claims, usurped, token>>
        /\ \A q \in Requests \ {r} : job'[q] = job[q]
        /\ job'[r].user = job[r].user /\ job'[r].give = super[job[r].user]
        /\ job'[r].credential = job[r].credential
    BY <1>7, <1>a DEF Look, Seen, TypeInv, TypeOK, Job, provider
  <2>1. crossed \ {job[r].user} \subseteq crossed' /\ (Sending(r) # {} => crossed' = crossed)
    BY <1>7 DEF Look
  <2>2. \A q \in Requests : pc'[q] = "update" => ~SelfDemotion(q)'
    BY <1>a, <2>0 DEF RoleInv, SelfDemotion, Actor
  <2>3. SomeoneLeft'
    BY <2>0 DEF RoleInv, SomeoneLeft
  <2>4. ASSUME NEW q \in Requests, pc'[q] = "send", job'[q].user \notin crossed'
        PROVE  job'[q].give = super'[job'[q].user]
    <3>1. CASE q = r
      BY <2>0, <3>1
    <3>2. CASE q # r
      <4>1. pc[q] = "send" /\ job'[q] = job[q]
        BY <1>a, <2>0, <2>4, <3>2
      <4>2. job[q].user \notin crossed
        BY <2>1, <2>4, <3>2, <4>1 DEF Sending
      <4>3. QED
        BY <2>0, <4>1, <4>2 DEF RoleInv
    <3>3. QED
      BY <3>1, <3>2
  <2>5. ClaimFollows'
    <3> SUFFICES ASSUME NEW u \in (Users \ crossed)', claims'[u] # super'[u]
                 PROVE  \E q \in Requests : pc'[q] \in {"look", "send"} /\ job'[q].user = u
      BY DEF ClaimFollows
    <3>1. CASE u = job[r].user
      BY <1>a, <2>0, <3>1
    <3>2. CASE u # job[r].user
      BY <1>a, <2>0, <2>1, <3>2 DEF RoleInv, ClaimFollows
    <3>3. QED
      BY <3>1, <3>2
  <2>6. QED
    BY <2>2, <2>3, <2>4, <2>5 DEF RoleInv
<1>8. ASSUME NEW r \in Requests, Send(r) PROVE RoleInv'
  <2>0. /\ pc[r] = "send" /\ pc' = [pc EXCEPT ![r] = "served"]
        /\ UNCHANGED <<super, crossed, usurped, token, job>>
        /\ claims' = [claims EXCEPT ![job[r].user] = job[r].give]
    BY <1>8 DEF Send, Go, history
  <2>1. \A q \in Requests : pc'[q] = "update" => ~SelfDemotion(q)'
    BY <1>a, <2>0 DEF RoleInv, SelfDemotion, Actor
  <2>2. SomeoneLeft'
    BY <2>0 DEF RoleInv, SomeoneLeft
  <2>5. \A q \in Requests :
          pc'[q] = "send" /\ job'[q].user \notin crossed' => job'[q].give = super'[job'[q].user]
    BY <1>a, <2>0 DEF RoleInv
  <2>6. ClaimFollows'
    <3> SUFFICES ASSUME NEW u \in (Users \ crossed)', claims'[u] # super'[u]
                 PROVE  \E q \in Requests : pc'[q] \in {"look", "send"} /\ job'[q].user = u
      BY DEF ClaimFollows
    <3>1. u # job[r].user
      BY <1>a, <2>0 DEF RoleInv, TypeInv, TypeOK
    <3>2. claims[u] # super[u]
      BY <2>0, <3>1 DEF TypeInv, TypeOK
    <3>3. PICK q \in Requests : pc[q] \in {"look", "send"} /\ job[q].user = u
      BY <2>0, <3>2 DEF RoleInv, ClaimFollows
    <3>4. QED
      BY <1>a, <2>0, <3>1, <3>3
  <2>7. QED
    BY <2>1, <2>2, <2>5, <2>6 DEF RoleInv
<1>9. ASSUME NEW r \in Requests, Break(r) PROVE RoleInv'
  <2>1. /\ pc' = [pc EXCEPT ![r] = "failed"] /\ UNCHANGED <<super, claims, usurped, job, token>>
        /\ crossed' = crossed \cup IF pc[r] \in {"look", "send"} THEN {job[r].user} ELSE {}
    BY <1>9 DEF Break, Fail, provider
  <2>2. QED
    BY <1>a, <2>1, RoleBreak
<1>10. CASE Tick
  BY <1>10, RoleFrame DEF Tick, provider, verified, history
<1>11. CASE Restart
  <2>1. /\ \A r \in Requests : pc'[r] \in {pc[r], "failed"}
        /\ UNCHANGED <<super, claims, usurped, job, token>>
        /\ crossed \subseteq crossed'
        /\ \A r \in Requests : pc[r] \in {"look", "send"} => job[r].user \in crossed'
    BY <1>11 DEF Restart, provider
  <2>2. QED
    BY <2>1, RoleBreak
<1>12. QED
  BY <1>0, <1>1, <1>2, <1>3, <1>4, <1>5, <1>6, <1>7, <1>8, <1>9, <1>10, <1>11
     DEF Next, Revoked, RevokedUnheard

(* Whatever order super-admins change roles in, somebody has the role        *)
(* (SomeoneLeft), as long as nobody changes one after losing it.             *)
THEOREM RoleNotLost == Spec => []SomeoneLeft
<1>1. RoleInv => SomeoneLeft
  BY DEF RoleInv
<1>2. QED
  BY <1>1, TypeInit, TypeStep, RoleInit, RoleStep, PTL DEF Spec

(* A claim agrees with the table, or a request is on its way to set it       *)
(* (ClaimFollows), whichever requests rebuild it: sign-ins, changes of       *)
(* members and of the role.  Excused are users of whom a refresh crossed a   *)
(* change of the role or failed, until their next refresh that crosses none. *)
THEOREM ClaimsFollowTable == Spec => []ClaimFollows
<1>1. RoleInv => ClaimFollows
  BY DEF RoleInv
<1>2. QED
  BY <1>1, TypeInit, TypeStep, RoleInit, RoleStep, PTL DEF Spec

(***************************************************************************)
(* The capacity of the cache.  Of the entries that are kept at capacity,   *)
(* the oldest has fewer than MaxEntries at least as new as itself, and so  *)
(* fewer than that are kept.                                               *)
(***************************************************************************)
LEMMA Oldest ==
  ASSUME NEW T \in SUBSET Credentials, T # {}, \A c \in T : cache[c].born \in Nat
  PROVE  \E c \in T : \A d \in T : cache[d].born >= cache[c].born
<1> DEFINE HasOldest(U) == \E c \in U : \A d \in U : cache[d].born >= cache[c].born
           Without == {U \in SUBSET T : U # {} /\ ~HasOldest(U)}
<1> SUFFICES ASSUME ~HasOldest(T) PROVE FALSE
  OBVIOUS
<1>1. IsFiniteSet(T)
  BY SessionAssumption, FS_Subset
<1>2. IsWellFoundedOn(StrictSubsetOrdering(T), SUBSET T)
  BY <1>1, FS_StrictSubsetOrderingWellFounded, FS_FiniteSubsetsOfFinite
<1>3. PICK U \in Without : \A W \in Without : ~(<<W, U>> \in StrictSubsetOrdering(T))
  <2>1. Without \subseteq SUBSET T /\ T \in Without
    OBVIOUS
  <2> HIDE DEF Without
  <2>2. Without \subseteq SUBSET T /\ Without # {}
    BY <2>1
  <2>3. QED
    BY <1>2, <2>2, WFMin
<1>4. PICK c \in U : TRUE
  OBVIOUS
<1>5. CASE U \ {c} = {}
  BY <1>5
<1>6. CASE U \ {c} # {}
  <2>1. <<U \ {c}, U>> \in StrictSubsetOrdering(T)
    BY <1>4 DEF StrictSubsetOrdering
  <2>2. HasOldest(U \ {c})
    BY <1>3, <1>6, <2>1
  <2>3. PICK d \in U \ {c} : \A e \in U \ {c} : cache[e].born >= cache[d].born
    BY <2>2
  <2>4. CASE cache[c].born >= cache[d].born
    BY <2>3, <2>4
  <2>5. CASE cache[d].born >= cache[c].born
    BY <2>3, <2>5
  <2>6. QED
    BY <2>4, <2>5
<1>7. QED
  BY <1>5, <1>6

LEMMA RoomIsMade ==
  ASSUME TypeInv, CacheBounded
  PROVE  /\ Kept \subseteq Credentials /\ IsFiniteSet(Kept)
         /\ Cardinality(Kept) < MaxEntries
<1>1. /\ MaxEntries \in Nat \ {0} /\ IsFiniteSet(Credentials)
      /\ Cached \subseteq Credentials /\ Unexpired \subseteq Cached
  BY SessionAssumption DEF Cached, Unexpired
<1>2. IsFiniteSet(Cached) /\ Cardinality(Cached) \in Nat
  BY <1>1, FS_Subset, FS_CardinalityType
<1>3. CASE ~AtCapacity
  BY <1>1, <1>2, <1>3 DEF Kept, AtCapacity
<1>4. CASE AtCapacity
  <2>1. Kept = {c \in Unexpired : Cardinality(Newer(c, Unexpired)) < MaxEntries}
    BY <1>4 DEF Kept
  <2>2. /\ Kept \subseteq Unexpired /\ Kept \subseteq Credentials
        /\ IsFiniteSet(Kept) /\ Cardinality(Kept) \in Nat
    BY <1>1, <2>1, FS_Subset, FS_CardinalityType
  <2>3. CASE Kept = {}
    BY <1>1, <2>2, <2>3, FS_EmptySet
  <2>4. CASE Kept # {}
    <3>1. \A c \in Kept : cache[c].born \in Nat
      BY <1>1, <2>2, EntryOrNot DEF Cached, TypeInv, TypeOK
    <3>2. PICK c \in Kept : \A d \in Kept : cache[d].born >= cache[c].born
      BY <2>2, <2>4, <3>1, Oldest
    <3>3. Kept \subseteq Newer(c, Unexpired) /\ Newer(c, Unexpired) \subseteq Credentials
      BY <1>1, <2>2, <3>2 DEF Newer
    <3>4. /\ IsFiniteSet(Newer(c, Unexpired)) /\ Cardinality(Newer(c, Unexpired)) \in Nat
          /\ Cardinality(Kept) <= Cardinality(Newer(c, Unexpired))
      BY <1>1, <3>3, FS_Subset, FS_CardinalityType
    <3>5. Cardinality(Newer(c, Unexpired)) < MaxEntries
      BY <2>1, <3>2
    <3>6. QED
      BY <1>1, <2>2, <3>4, <3>5
  <2>5. QED
    BY <2>3, <2>4
<1>5. QED
  BY <1>3, <1>4

LEMMA CacheShrinks ==
  ASSUME TypeInv, CacheBounded, Cached' \subseteq Cached
  PROVE  CacheBounded'
<1>1. Cached \subseteq Credentials /\ IsFiniteSet(Credentials) /\ MaxEntries \in Nat
  BY SessionAssumption DEF Cached
<1>2. IsFiniteSet(Cached) /\ Cardinality(Cached) \in Nat
  BY <1>1, FS_Subset, FS_CardinalityType
<1>3. Cardinality(Cached') <= Cardinality(Cached) /\ Cardinality(Cached') \in Nat
  BY <1>2, FS_Subset, FS_CardinalityType
<1>4. QED
  BY <1>1, <1>2, <1>3 DEF CacheBounded

LEMMA BoundedStep == TypeInv /\ CacheBounded /\ [Next]_vars => CacheBounded'
<1> SUFFICES ASSUME TypeInv, CacheBounded, [Next]_vars PROVE CacheBounded'
  OBVIOUS
<1>1. ASSUME NEW r \in Requests, Store(r) PROVE CacheBounded'
  <2>1. Cached' \subseteq Kept \cup {job[r].credential}
    BY <1>1 DEF Store, Cached
  <2>2. /\ IsFiniteSet(Kept) /\ Cardinality(Kept) < MaxEntries
        /\ Cardinality(Kept) \in Nat /\ MaxEntries \in Nat
    BY RoomIsMade, FS_CardinalityType, SessionAssumption
  <2>3. /\ IsFiniteSet(Kept \cup {job[r].credential})
        /\ Cardinality(Kept \cup {job[r].credential}) <= Cardinality(Kept) + 1
        /\ Cardinality(Kept \cup {job[r].credential}) \in Nat
    <3>1. /\ IsFiniteSet(Kept \cup {job[r].credential})
          /\ Cardinality(Kept \cup {job[r].credential}) =
               IF job[r].credential \in Kept THEN Cardinality(Kept) ELSE Cardinality(Kept) + 1
      BY <2>2, FS_AddElement
    <3>2. QED
      BY <2>2, <3>1
  <2>4. /\ Cardinality(Cached') <= Cardinality(Kept \cup {job[r].credential})
        /\ Cardinality(Cached') \in Nat
    BY <2>1, <2>3, FS_Subset, FS_CardinalityType
  <2>5. QED
    BY <2>2, <2>3, <2>4 DEF CacheBounded
<1>2. ASSUME \A c \in Credentials : cache'[c] \in {cache[c], NoEntry} PROVE CacheBounded'
  BY <1>2, CacheShrinks DEF Cached
<1>3. CASE UNCHANGED vars \/ Tick
  BY <1>2, <1>3 DEF vars, verified, Tick
<1>4. CASE Restart
  BY <1>2, <1>4 DEF Restart
<1>5. ASSUME NEW r \in Requests, Forget(r) PROVE CacheBounded'
  BY <1>2, <1>5 DEF Forget
<1>6. ASSUME NEW c \in Credentials, Mint(c) PROVE CacheBounded'
  BY <1>2, <1>6 DEF Mint, verified
<1>7. ASSUME NEW r \in Requests,
             Arrive(r) \/ Hit(r) \/ Miss(r) \/ Ask(r) \/ Revoked(r) \/ RevokedUnheard(r)
               \/ FindActor(r) \/ Update(r) \/ Look(r) \/ Send(r) \/ Break(r)
      PROVE  CacheBounded'
  BY <1>2, <1>7 DEF Arrive, Hit, Miss, Ask, Revoked, RevokedUnheard, Revoke, FindActor, Update,
                    Look, Send, Break, verified
<1>8. QED
  BY <1>1, <1>3, <1>4, <1>5, <1>6, <1>7 DEF Next

(* The cache never holds more than its capacity (CacheBounded), whatever     *)
(* verifications are stored at once.                                         *)
THEOREM CacheKeepsToLimit == Spec => []CacheBounded
<1>1. Init => CacheBounded
  <2>1. Init => Cached = {}
    BY DEF Init, Cached
  <2>2. QED
    BY <2>1, FS_EmptySet, SessionAssumption DEF CacheBounded
<1>2. QED
  BY <1>1, TypeInit, TypeStep, BoundedStep, PTL DEF Spec
=============================================================================
