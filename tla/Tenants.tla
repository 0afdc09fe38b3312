------------------------------- MODULE Tenants -------------------------------
(***************************************************************************)
(* Churches (tenants), the cache that maps a slug or an id of the URL to a *)
(* church, and the guard in front of every route of a church               *)
(* (TenantFeatureService, TenantResolverService, TenantGuard).             *)
(*                                                                         *)
(* The cache lives in the server's memory.  A request that changes a       *)
(* church commits to the database first and invalidates afterwards; a      *)
(* lookup that missed reads the database first and caches afterwards.      *)
(* The two interleave, and an entry that is wrong stays until its time is  *)
(* up.  Time is left out: an entry may lapse at any moment and, if the     *)
(* clock goes on, does.                                                    *)
(*                                                                         *)
(* Archived rows keep their slug and another church may take it: the       *)
(* unique index covers live rows only.  A slug may spell the id of a       *)
(* church, too: the pattern of slugs lets a UUID pass.  A user's claims    *)
(* name the church of a membership by the slug it had when they were       *)
(* built.                                                                  *)
(***************************************************************************)
EXTENDS Naturals, FiniteSets

CONSTANTS
  Tenants,   \* ids a Tenant row may get
  Slugs,     \* slugs that assertValidSlug lets pass; ids may be among them
  Users,
  Requests,  \* requests of a behaviour, each served once
  None       \* no church, no slug

ASSUME TenantAssumption == None \notin Tenants \cup Slugs

VARIABLES
  tenant,    \* the Tenant table
  person,    \* each user: the church of the membership, the role there, super-admin or not
  claims,    \* what each user's claims say of that: the slug, the role, super-admin or not
  cache,     \* TenantResolverService's part of the cache manager
  pc, job,   \* where each request is, and what it has read
  missed,    \* history: keys that a lookup had read when they changed, or that
             \* no invalidation reached
  calm       \* history: guards during which no church changed

vars == <<tenant, person, claims, cache, pc, job, missed, calm>>
tables == <<tenant, person, claims>>

Keys == Slugs \cup Tenants
Live(t) == tenant[t].row = "live"
Rows == [row : {"live", "archived"}, slug : Slugs] \cup {[row |-> "absent", slug |-> None]}
Nothing == [id |-> None, slug |-> None]
Resolved(t) == [id |-> t, slug |-> tenant[t].slug]

(* findFirst over live rows, by slug and by id. *)
SlugTaken(s) == \E t \in Tenants : Live(t) /\ tenant[t].slug = s
BySlug(key) ==
  IF SlugTaken(key) THEN Resolved(CHOOSE t \in Tenants : Live(t) /\ tenant[t].slug = key) ELSE Nothing
ById(key) == IF key \in Tenants /\ Live(key) THEN Resolved(key) ELSE Nothing
Current(key) == IF BySlug(key) # Nothing THEN BySlug(key) ELSE ById(key)

KeysOf(t) == {t, tenant[t].slug}
Roles == {"ADMIN", "USER"}
ClaimsOf(u) ==
  [slug |-> tenant[person[u].church].slug, role |-> person[u].role, super |-> person[u].super]
-----------------------------------------------------------------------------
Verdicts == {"admitted", "notfound", "forbidden"}
Working(r) == pc[r] \notin {"idle", "done", "failed"} \cup Verdicts
Changing(t) == {r \in Requests : Working(r) /\ job[r].op = "change" /\ job[r].id = t}
ReadAlready == {job[r].key : r \in {r \in Requests : pc[r] \in {"id", "set"}}}

Go(r, place, work) == pc' = [pc EXCEPT ![r] = place] /\ job' = [job EXCEPT ![r] = work]

(* A request to change a church begins. *)
Begin(r, place, work) ==
  /\ pc[r] = "idle"
  /\ Go(r, place, work)
  /\ UNCHANGED <<tables, cache, missed, calm>>

(* The call failed before it could change anything. *)
Fail(r) ==
  /\ pc' = [pc EXCEPT ![r] = "failed"]
  /\ UNCHANGED <<tables, cache, job, calm>>

-----------------------------------------------------------------------------
(* create: check, write.  rename, delete, restore: check, write, invalidate.  *)

BeginCreate(r) ==
  \E t \in Tenants, s \in Slugs :
    /\ tenant[t].row = "absent" /\ Changing(t) = {} /\ ~SlugTaken(s)
    /\ Begin(r, "write",
         [op |-> "change", kind |-> "create", id |-> t, row |-> "live", slug |-> s, keys |-> {}])

(* `before` is read before the slug is checked. *)
BeginRename(r) ==
  \E t \in Tenants, s \in Slugs :
    /\ Live(t)
    /\ Begin(r, "check",
         [op |-> "change", kind |-> "rename", id |-> t, row |-> "live", slug |-> s,
          keys |-> KeysOf(t)])

CheckSlug(r) ==
  /\ pc[r] = "check" /\ ~SlugTaken(job[r].slug)
  /\ Go(r, "write", job[r])
  /\ UNCHANGED <<tables, cache, missed, calm>>

BeginDelete(r) ==
  \E t \in Tenants :
    /\ Live(t)
    /\ Begin(r, "write",
         [op |-> "change", kind |-> "delete", id |-> t, row |-> "archived", slug |-> None,
          keys |-> {}])

(* A live church is left as it is. *)
BeginRestore(r) ==
  \E t \in Tenants :
    /\ tenant[t].row # "absent"
    /\ Begin(r, IF Live(t) THEN "invalidate" ELSE "write",
         [op |-> "change", kind |-> "restore", id |-> t, row |-> "live", slug |-> None,
          keys |-> IF Live(t) THEN KeysOf(t) ELSE {}])

(* The slug a write leaves, and the keys that are to be invalidated. *)
SlugToBe(r) == IF job[r].slug = None THEN tenant[job[r].id].slug ELSE job[r].slug

(* Fault: only what the church is called from now on. *)
KeysToDropNewOnly(r) == {job[r].id, SlugToBe(r)}

KeysToDrop(r) == job[r].keys \cup {job[r].id, SlugToBe(r)}

(* The unique index on the slugs of live rows; a rename needs a live row. *)
IndexAllows(r) ==
  /\ job[r].row = "live" =>
       \A t \in Tenants \ {job[r].id} : ~(Live(t) /\ tenant[t].slug = SlugToBe(r))
  /\ job[r].kind = "rename" => Live(job[r].id)

(* Keys that a write changes the answer for, and that are not invalidated: a  *)
(* slug the church was given after the request had read the one it had; and   *)
(* an id that a new church has for its slug, because create leaves the cache  *)
(* alone, and slugs are looked up first.                                      *)
Overlooked(r) ==
  CASE job[r].kind = "rename" -> {tenant[job[r].id].slug} \ job[r].keys
    [] job[r].kind = "create" -> {job[r].slug} \cap {t \in Tenants : Live(t)}
    [] OTHER -> {}

(* The table is written.  A lookup under way may have read it before. *)
Commit(r, t, row, slug) ==
  /\ tenant' = [tenant EXCEPT ![t] = [row |-> row, slug |-> slug]]
  /\ missed' = missed \cup (ReadAlready \cap {t, tenant[t].slug, slug}) \cup Overlooked(r)
  /\ calm' = {}
  /\ UNCHANGED <<person, claims, cache>>

(* softDelete and restore match no row, and change nothing, when another      *)
(* request has been there first; the row is read back all the same.           *)
Write(r) ==
  /\ pc[r] = "write" /\ IndexAllows(r)
  /\ Commit(r, job[r].id, job[r].row, SlugToBe(r))
  /\ IF job[r].kind = "create" THEN Go(r, "done", job[r])
     ELSE Go(r, "invalidate", [job[r] EXCEPT !.keys = KeysToDrop(r)])

(* An archived church that is read back fails; nothing else is invalidated. *)
WriteRefused(r) ==
  /\ \/ pc[r] = "check" /\ SlugTaken(job[r].slug)
     \/ pc[r] = "write" /\ ~IndexAllows(r)
  /\ Fail(r)
  /\ UNCHANGED missed

Invalidate(r) ==
  /\ pc[r] = "invalidate"
  /\ cache' = [k \in Keys |-> IF k \in job[r].keys THEN Nothing ELSE cache[k]]
  /\ Go(r, "done", job[r])
  /\ UNCHANGED <<tables, missed, calm>>

-----------------------------------------------------------------------------
(* TenantGuard: resolve the key, then ask the claims that the credential      *)
(* carries for the slug.                                                      *)

Fresh(u) == claims[u] = ClaimsOf(u)
Coherent == \A k \in Keys : cache[k] \in {Nothing, Current(k)}

(* Nor is a lookup about to cache anything but what the table says. *)
Settled ==
  /\ Coherent
  /\ \A r \in Requests : /\ pc[r] = "id" => BySlug(job[r].key) = Nothing
                         /\ pc[r] = "set" => job[r].found \in {Nothing, Current(job[r].key)}

(* Fault: the claims are asked for what the URL says. *)
MembershipByKey(claim, key, slug) == claim.slug = key

Membership(claim, key, slug) == claim.slug = slug

(* A church that is not the user's is not there ("don't leak existence");     *)
(* super-admins pass, members if they have a role that the route requires.    *)
Verdict(claim, key, found, needs) ==
  IF found = Nothing \/ ~(claim.super \/ Membership(claim, key, found.slug)) THEN "notfound"
  ELSE IF claim.super \/ needs = {} \/ claim.role \in needs THEN "admitted" ELSE "forbidden"

(* Any route: it requires one of the roles in `needs`, or none. *)
Decide(r, found) ==
  \E needs \in SUBSET Roles :
    Go(r, Verdict(job[r].claim, job[r].key, found, needs),
       [job[r] EXCEPT !.found = found, !.needs = needs])

BeginGuard(r) ==
  /\ pc[r] = "idle"
  /\ \E u \in Users, key \in Keys :
       /\ Go(r, "get", [op |-> "guard", user |-> u, key |-> key, claim |-> claims[u],
                        found |-> Nothing, needs |-> {}])
       /\ calm' = calm \cup (IF Fresh(u) /\ Settled THEN {r} ELSE {})
  /\ UNCHANGED <<tables, cache, missed>>

Get(r) ==
  /\ pc[r] = "get"
  /\ IF cache[job[r].key] # Nothing
     THEN Decide(r, cache[job[r].key])
     ELSE Go(r, "slug", job[r])
  /\ UNCHANGED <<tables, cache, missed, calm>>

ReadBySlug(r) ==
  /\ pc[r] = "slug"
  /\ LET found == BySlug(job[r].key)
     IN  Go(r, IF found = Nothing THEN "id" ELSE "set", [job[r] EXCEPT !.found = found])
  /\ UNCHANGED <<tables, cache, missed, calm>>

ReadById(r) ==
  /\ pc[r] = "id"
  /\ Go(r, "set", [job[r] EXCEPT !.found = ById(job[r].key)])
  /\ UNCHANGED <<tables, cache, missed, calm>>

Set(r) ==
  /\ pc[r] = "set"
  /\ cache' = IF job[r].found = Nothing THEN cache ELSE [cache EXCEPT ![job[r].key] = job[r].found]
  /\ Decide(r, job[r].found)
  /\ UNCHANGED <<tables, missed, calm>>

-----------------------------------------------------------------------------
(* Claims are rebuilt at sign-in (module Members has the steps). *)
RefreshClaims(u) ==
  /\ ~Fresh(u)
  /\ claims' = [claims EXCEPT ![u] = ClaimsOf(u)]
  /\ UNCHANGED <<tenant, person, cache, pc, job, missed, calm>>

(* Fault: entries have no time to live. *)
LapseNever(k) == FALSE /\ UNCHANGED vars

(* RESOLVE_TTL_MS is up. *)
Lapse(k) ==
  /\ cache[k] # Nothing
  /\ cache' = [cache EXCEPT ![k] = Nothing]
  /\ UNCHANGED <<tables, pc, job, missed, calm>>

(* A call fails, after it has committed or before. *)
Break(r) ==
  /\ Working(r)
  /\ missed' = missed \cup IF pc[r] = "invalidate" THEN job[r].keys ELSE {}
  /\ Fail(r)

(* The server restarts: requests and cache are gone. *)
Restart ==
  /\ \E r \in Requests : Working(r)
  /\ pc' = [r \in Requests |-> IF Working(r) THEN "failed" ELSE pc[r]]
  /\ cache' = [k \in Keys |-> Nothing]
  /\ UNCHANGED <<tables, job, missed, calm>>

Init ==
  /\ tenant \in [Tenants -> Rows]
  /\ \A t, v \in Tenants : Live(t) /\ Live(v) /\ t # v => tenant[t].slug # tenant[v].slug
  /\ person \in [Users -> [church : {t \in Tenants : tenant[t].row # "absent"},
                          role : Roles, super : BOOLEAN]]
  /\ claims = [u \in Users |-> ClaimsOf(u)]
  /\ cache \in [Keys -> {Nothing} \cup {Resolved(t) : t \in {t \in Tenants : Live(t)}}]
  /\ Coherent
  /\ pc = [r \in Requests |-> "idle"]
  /\ job = [r \in Requests |-> [op |-> "none"]]
  /\ missed = {}
  /\ calm = {}

Proceed(r) ==
  \/ CheckSlug(r) \/ Write(r) \/ WriteRefused(r) \/ Invalidate(r)
  \/ Get(r) \/ ReadBySlug(r) \/ ReadById(r) \/ Set(r)

Next ==
  \/ \E r \in Requests :
       \/ BeginCreate(r) \/ BeginRename(r) \/ BeginDelete(r) \/ BeginRestore(r)
       \/ BeginGuard(r) \/ Proceed(r) \/ Break(r)
  \/ \E u \in Users : RefreshClaims(u)
  \/ \E k \in Keys : Lapse(k)
  \/ Restart

(* Node resumes a handler whose call has returned, and the clock goes on. *)
Spec ==
  /\ Init /\ [][Next]_vars
  /\ \A r \in Requests : WF_vars(Proceed(r))
  /\ \A k \in Keys : WF_vars(Lapse(k))
-----------------------------------------------------------------------------
(* "so the cache never serves an archived tenant", "so TenantGuard doesn't    *)
(* route on a stale slug": what is cached for a key is what the table says of *)
(* it, or a request has still to invalidate the key - unless a lookup had     *)
(* read the key when it changed, a change broke off before its invalidation,  *)
(* a rename did not know of another, or a new church has the id of a live one *)
(* for its slug (the comment on invalidate has it called "whenever a tenant   *)
(* is created", which create does not do).                                    *)
CacheCurrent ==
  \A k \in Keys \ missed :
    cache[k] \in {Nothing, Current(k)}
      \/ \E r \in Requests : pc[r] = "invalidate" /\ k \in job[r].keys

(* What a key stands for: the live church of that slug, or else of that id.   *)
Names(key, t) == Live(t) /\ (tenant[t].slug = key \/ (t = key /\ ~SlugTaken(key)))
(* Claims name churches by slug: when another church has taken the slug of an *)
(* archived one, the members of the old are let into the new.                 *)
MemberOf(u, t) == tenant[t].slug = tenant[person[u].church].slug

(* "Verify the caller is a member of that tenant OR is a super-admin ...      *)
(* verify the caller's role matches", "same 404 as if missing": a guard       *)
(* during which nothing changed, and which began with claims, a cache and     *)
(* lookups under way that were up to date, decides by the church that the key *)
(* names, whichever "form the caller used": it admits members who have the    *)
(* role the route requires, and super-admins; to others than these and the    *)
(* members without the role, there is no such church.                         *)
GuardRight ==
  \A r \in calm :
    pc[r] \in Verdicts =>
      LET u == job[r].user
          needs == job[r].needs
          named == {t \in Tenants : Names(job[r].key, t)}
          role == needs = {} \/ person[u].role \in needs
      IN  /\ pc[r] = "admitted" <=> \E t \in named : person[u].super \/ (MemberOf(u, t) /\ role)
          /\ pc[r] = "notfound" <=> \A t \in named : ~person[u].super /\ ~MemberOf(u, t)

(* "any drift self-heals": whatever raced or broke off, in the end the cache *)
(* holds nothing but what the table says.                                    *)
CacheHeals == <>[]Coherent
=============================================================================
