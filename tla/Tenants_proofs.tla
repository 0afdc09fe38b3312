---------------------------- MODULE Tenants_proofs ----------------------------
(***************************************************************************)
(* Proofs about churches, the slug cache and the guard.  Both invariants   *)
(* rest on the slugs of live churches being different, so that a key names *)
(* one live church at most, and on a write changing the answer for no keys *)
(* but the church's id, the slug it had and the slug it gets.              *)
(***************************************************************************)
EXTENDS Tenants, TLAPS

Entries == [id : Tenants, slug : Slugs]
Claims == [slug : Slugs, role : Roles, super : BOOLEAN]

(* A church is created or renamed with a slug; the others keep theirs. *)
Named(work) ==
  IF work.kind \in {"create", "rename"} THEN work.slug \in Slugs /\ work.row = "live"
  ELSE work.slug = None

Changes ==
  {work \in [op : {"change"}, kind : {"create", "rename", "delete", "restore"}, id : Tenants,
             row : {"live", "archived"}, slug : Slugs \cup {None}, keys : SUBSET Keys] :
     Named(work)}

Guards ==
  [op : {"guard"}, user : Users, key : Keys, claim : Claims,
   found : Entries \cup {Nothing}, needs : SUBSET Roles]

ChangePlaces == {"check", "write", "invalidate"}
GuardPlaces == {"get", "slug", "id", "set"} \cup Verdicts

(* A change that keeps the slug is of a church that has one. *)
Typed ==
  /\ tenant \in [Tenants -> Rows]
  /\ person \in [Users -> [church : Tenants, role : Roles, super : BOOLEAN]]
  /\ \A u \in Users : tenant[person[u].church].row # "absent"
  /\ claims \in [Users -> Claims]
  /\ cache \in [Keys -> Entries \cup {Nothing}]
  /\ pc \in [Requests -> ChangePlaces \cup GuardPlaces \cup {"idle", "done", "failed"}]
  /\ job \in [Requests -> Changes \cup Guards \cup {[op |-> "none"]}]
  /\ \A r \in Requests : pc[r] \in ChangePlaces => job[r] \in Changes
  /\ \A r \in Requests : pc[r] \in GuardPlaces => job[r] \in Guards
  /\ \A r \in Requests :
       pc[r] \in {"check", "write"} /\ job[r].slug = None => tenant[job[r].id].row # "absent"
  /\ missed \subseteq Keys
  /\ calm \subseteq Requests

(* The unique index. *)
Distinct ==
  \A t, v \in Tenants : Live(t) /\ Live(v) /\ t # v => tenant[t].slug # tenant[v].slug

(* A church that is being created is not there yet, and is created once. *)
Creating(r, t) == pc[r] \in {"check", "write"} /\ job[r].kind = "create" /\ job[r].id = t

NewOnce ==
  \A t \in Tenants : \A r \in Requests : Creating(r, t) =>
    /\ tenant[t].row = "absent"
    /\ \A q \in Requests : Creating(q, t) => q = r

(* What lookups have read is what the table says, but for keys in `missed`. *)
LookupsRight ==
  \A r \in Requests, k \in Keys \ missed :
    /\ pc[r] = "id" /\ job[r].key = k => BySlug(k) = Nothing
    /\ pc[r] = "set" /\ job[r].key = k => job[r].found \in {Nothing, Current(k)}

CacheInv == Typed /\ Distinct /\ NewOnce /\ LookupsRight /\ CacheCurrent

(* A guard in calm: what it goes by is what the table says. *)
WellInformed(r) ==
  /\ job[r] \in Guards /\ pc[r] # "idle"
  /\ \A u \in Users, k \in Keys : u = job[r].user /\ k = job[r].key =>
       /\ job[r].claim = ClaimsOf(u)
       /\ pc[r] = "id" => BySlug(k) = Nothing
       /\ pc[r] = "set" => job[r].found = Current(k)

GuardInv ==
  /\ Typed /\ Distinct
  /\ calm # {} => Settled
  /\ \A r \in calm : WellInformed(r)
  /\ GuardRight
-----------------------------------------------------------------------------

LEMMA JobsDiffer ==
  /\ \A c \in Changes : c \notin Guards /\ c # [op |-> "none"]
  /\ \A g \in Guards : g # [op |-> "none"]
BY DEF Changes, Guards

LEMMA TypedInit == Init => Typed /\ Distinct
<1> SUFFICES ASSUME Init PROVE Typed /\ Distinct
  OBVIOUS
<1>1. \A t \in Tenants : Live(t) => Resolved(t) \in Entries
  BY TenantAssumption DEF Init, Rows, Live, Resolved, Entries
<1>2. cache \in [Keys -> Entries \cup {Nothing}]
  BY <1>1 DEF Init
<1>3. person \in [Users -> [church : Tenants, role : Roles, super : BOOLEAN]]
  BY DEF Init
<1>4. \A u \in Users : /\ tenant[person[u].church].row # "absent"
                       /\ tenant[person[u].church].slug \in Slugs
  BY DEF Init, Rows
<1>5. \A u \in Users : ClaimsOf(u) \in Claims
  BY <1>3, <1>4 DEF ClaimsOf, Claims
<1>6. claims \in [Users -> Claims]
  BY <1>5 DEF Init
<1>7. Typed
  BY <1>2, <1>3, <1>4, <1>6 DEF Init, Typed, ChangePlaces, GuardPlaces, Verdicts
<1>8. QED
  BY <1>7 DEF Init, Distinct

(* A request goes on, the tables stay. *)
LEMMA GoTyped ==
  ASSUME Typed, NEW r \in Requests, NEW work \in Changes \cup Guards,
         NEW place \in ChangePlaces \cup GuardPlaces \cup {"done"}, Go(r, place, work),
         place \in ChangePlaces => work \in Changes,
         place \in GuardPlaces => work \in Guards,
         place \in {"check", "write"} /\ work.slug = None => tenant[work.id].row # "absent",
         UNCHANGED tables, cache' \in [Keys -> Entries \cup {Nothing}],
         missed' \subseteq Keys, calm' \subseteq Requests
  PROVE  Typed'
BY DEF Typed, Go, tables, ChangePlaces, GuardPlaces, Verdicts

LEMMA FailTyped ==
  ASSUME Typed, NEW r \in Requests, Fail(r), missed' \subseteq Keys
  PROVE  Typed'
BY DEF Typed, Fail, tables, ChangePlaces, GuardPlaces, Verdicts

(* A church that has a row has a slug. *)
LEMMA RowFacts ==
  ASSUME Typed
  PROVE  /\ \A t \in Tenants : tenant[t].row # "absent" => tenant[t].slug \in Slugs
         /\ \A t \in Tenants : tenant[t].row = "absent" => tenant[t].slug = None
         /\ \A t \in Tenants : Live(t) => /\ Resolved(t) \in Entries /\ KeysOf(t) \subseteq Keys
                                          /\ tenant[t].row # "absent"
         /\ \A e \in Entries : e # Nothing /\ e.id \in Tenants
         /\ None \notin Keys
BY TenantAssumption DEF Typed, Rows, Live, Resolved, Entries, Nothing, Keys, KeysOf

(* What the table says of a key: the live church that has it for its slug, or *)
(* else for its id; and that one alone.                                       *)
TableRead ==
  /\ \A t \in Tenants : Live(t) => BySlug(tenant[t].slug) = Resolved(t)
  /\ \A k : ~SlugTaken(k) => BySlug(k) = Nothing
  /\ \A k \in Keys :
       \/ \E t \in Tenants :
            /\ Names(k, t) /\ \A v \in Tenants : Names(k, v) => v = t
            /\ Current(k) = Resolved(t)
            /\ SlugTaken(k) /\ tenant[t].slug = k /\ BySlug(k) = Resolved(t)
       \/ /\ k \in Tenants /\ Names(k, k) /\ \A v \in Tenants : Names(k, v) => v = k
          /\ Current(k) = Resolved(k)
          /\ ~SlugTaken(k) /\ BySlug(k) = Nothing /\ ById(k) = Resolved(k)
       \/ /\ \A v \in Tenants : ~Names(k, v)
          /\ Current(k) = Nothing
          /\ ~SlugTaken(k) /\ BySlug(k) = Nothing /\ ById(k) = Nothing

LEMMA ReadsRight == Typed /\ Distinct => TableRead
<1> SUFFICES ASSUME Typed, Distinct PROVE TableRead
  OBVIOUS
<1>1. ASSUME NEW k, SlugTaken(k)
      PROVE  \E t \in Tenants : Live(t) /\ tenant[t].slug = k /\ BySlug(k) = Resolved(t)
  BY <1>1 DEF SlugTaken, BySlug
<1>2. \A k : ~SlugTaken(k) => BySlug(k) = Nothing
  BY DEF BySlug
<1>3. ASSUME NEW t \in Tenants, Live(t) PROVE BySlug(tenant[t].slug) = Resolved(t)
  <2>1. SlugTaken(tenant[t].slug)
    BY <1>3 DEF SlugTaken
  <2>2. PICK v \in Tenants : /\ Live(v) /\ tenant[v].slug = tenant[t].slug
                             /\ BySlug(tenant[t].slug) = Resolved(v)
    BY <1>1, <2>1
  <2>3. v = t
    BY <1>3, <2>2 DEF Distinct
  <2>4. QED
    BY <2>2, <2>3
<1>4. ASSUME NEW k \in Keys, SlugTaken(k)
      PROVE  \E t \in Tenants :
               /\ Names(k, t) /\ \A v \in Tenants : Names(k, v) => v = t
               /\ Current(k) = Resolved(t)
               /\ SlugTaken(k) /\ tenant[t].slug = k /\ BySlug(k) = Resolved(t)
  <2>1. PICK t \in Tenants : Live(t) /\ tenant[t].slug = k /\ BySlug(k) = Resolved(t)
    BY <1>1, <1>4
  <2>2. Current(k) = Resolved(t)
    BY <2>1, RowFacts DEF Current
  <2>3. Names(k, t) /\ \A v \in Tenants : Names(k, v) => v = t
    BY <1>4, <2>1 DEF Names, Distinct
  <2>4. QED
    BY <1>4, <2>1, <2>2, <2>3
<1>5. ASSUME NEW k \in Keys, ~SlugTaken(k)
      PROVE  /\ BySlug(k) = Nothing /\ Current(k) = ById(k)
             /\ \A v \in Tenants : Names(k, v) <=> Live(v) /\ v = k
             /\ ById(k) = IF k \in Tenants /\ Live(k) THEN Resolved(k) ELSE Nothing
  <2>1. BySlug(k) = Nothing /\ Current(k) = ById(k)
    BY <1>2, <1>5 DEF Current
  <2>2. \A v \in Tenants : Names(k, v) <=> Live(v) /\ v = k
    BY <1>5 DEF Names, SlugTaken
  <2>3. QED
    BY <2>1, <2>2 DEF ById
<1>6. QED
  BY <1>2, <1>3, <1>4, <1>5 DEF TableRead

LEMMA ReadsRightAfter == Typed' /\ Distinct' => TableRead'
BY ReadsRight, PTL

(* A row is written: the answers for other keys stay. *)
LEMMA OthersKept ==
  ASSUME Typed, Distinct, Typed', Distinct', NEW t \in Tenants,
         \A v \in Tenants \ {t} : tenant'[v] = tenant[v],
         NEW k \in Keys, k # t, k # tenant[t].slug, k # tenant'[t].slug
  PROVE  Current(k)' = Current(k) /\ BySlug(k)' = BySlug(k)
<1>1. \A v \in Tenants \ {t} : (Live(v)' <=> Live(v)) /\ Resolved(v)' = Resolved(v)
  BY DEF Live, Resolved
<1>2. \A v \in Tenants : Live(v)' /\ tenant'[v].slug = k <=> Live(v) /\ tenant[v].slug = k
  BY DEF Live
<1>3. SlugTaken(k)' <=> SlugTaken(k)
  BY <1>2 DEF SlugTaken
<1>4. BySlug(k)' = BySlug(k)
  <2>1. CASE SlugTaken(k)
    <3>1. PICK v \in Tenants : Live(v) /\ tenant[v].slug = k
      BY <2>1 DEF SlugTaken
    <3>2. v # t /\ Live(v)' /\ tenant'[v].slug = k
      BY <1>2, <3>1
    <3>3. BySlug(k) = Resolved(v)
      BY <3>1, ReadsRight DEF TableRead
    <3>4. BySlug(k)' = Resolved(v)'
      BY <3>2, ReadsRightAfter DEF TableRead
    <3>5. QED
      BY <1>1, <3>2, <3>3, <3>4
  <2>2. CASE ~SlugTaken(k)
    <3>1. BySlug(k) = Nothing
      BY <2>2, ReadsRight DEF TableRead
    <3>2. BySlug(k)' = Nothing
      BY <1>3, <2>2, ReadsRightAfter DEF TableRead, Nothing
    <3>3. QED
      BY <3>1, <3>2
  <2>3. QED
    BY <2>1, <2>2
<1>5. ById(k)' = ById(k)
  BY <1>1 DEF ById, Nothing
<1>6. QED
  BY <1>4, <1>5 DEF Current, Nothing

(* The table stays: so does what it says. *)
LEMMA TableKept ==
  ASSUME UNCHANGED tenant
  PROVE  /\ \A k : Current(k)' = Current(k) /\ BySlug(k)' = BySlug(k)
         /\ \A t \in Tenants : Live(t)' <=> Live(t)
         /\ \A k : \A t \in Tenants : Names(k, t)' <=> Names(k, t)
BY DEF Current, BySlug, ById, Live, Resolved, SlugTaken, Names, Nothing
-----------------------------------------------------------------------------
(* The keys whose answer a write changes, at most. *)
Touched(r) == {job[r].id, tenant[job[r].id].slug, SlugToBe(r)}

(* What is overlooked, by kinds of change. *)
LEMMA OverlookedIs ==
  ASSUME NEW r \in Requests
  PROVE  /\ job[r].kind = "rename" => Overlooked(r) = {tenant[job[r].id].slug} \ job[r].keys
         /\ job[r].kind = "create" =>
              Overlooked(r) = {job[r].slug} \cap {t \in Tenants : Live(t)}
         /\ job[r].kind \notin {"create", "rename"} => Overlooked(r) = {}
BY DEF Overlooked

(* A write leaves a row of a church that has a slug, which no other live     *)
(* church has.                                                               *)
LEMMA WriteFacts ==
  ASSUME Typed, Distinct, NEW r \in Requests, Write(r)
  PROVE  /\ job[r] \in Changes /\ job[r].id \in Tenants /\ SlugToBe(r) \in Slugs
         /\ tenant' \in [Tenants -> Rows]
         /\ tenant'[job[r].id] = [row |-> job[r].row, slug |-> SlugToBe(r)]
         /\ \A t \in Tenants \ {job[r].id} : tenant'[t] = tenant[t]
         /\ missed' = missed \cup (ReadAlready \cap Touched(r)) \cup Overlooked(r)
         /\ Overlooked(r) \subseteq Keys /\ KeysToDrop(r) \subseteq Keys
         /\ \A q \in Requests \ {r} : pc'[q] = pc[q] /\ job'[q] = job[q]
         /\ \/ job[r].kind = "create" /\ pc'[r] = "done" /\ job'[r] = job[r]
            \/ /\ job[r].kind # "create" /\ pc'[r] = "invalidate"
               /\ job'[r] = [job[r] EXCEPT !.keys = KeysToDrop(r)]
               /\ job'[r].keys = KeysToDrop(r)
         /\ job'[r] \in Changes
         /\ Distinct'
<1>1. /\ job[r] \in Changes /\ job[r].id \in Tenants /\ job[r].row \in {"live", "archived"}
      /\ job[r].keys \subseteq Keys
      /\ job[r].kind = "rename" => job[r].slug \in Slugs
  BY DEF Write, Typed, ChangePlaces, Changes, Named
<1>2. SlugToBe(r) \in Slugs
  BY <1>1, RowFacts DEF SlugToBe, Write, Typed, Changes
<1>3. /\ tenant'[job[r].id] = [row |-> job[r].row, slug |-> SlugToBe(r)]
      /\ \A t \in Tenants \ {job[r].id} : tenant'[t] = tenant[t]
      /\ tenant' \in [Tenants -> Rows]
  BY <1>1, <1>2 DEF Write, Commit, Typed, Rows
<1>4. Overlooked(r) \subseteq Keys
  <2>1. CASE job[r].kind = "rename"
    BY <1>1, <2>1, OverlookedIs, RowFacts DEF Write, IndexAllows, Keys
  <2>2. CASE job[r].kind # "rename"
    BY <2>2, OverlookedIs DEF Keys
  <2>3. QED
    BY <2>1, <2>2
<1>5. KeysToDrop(r) \subseteq Keys
  BY <1>1, <1>2 DEF KeysToDrop, Keys
<1>6. missed' = missed \cup (ReadAlready \cap Touched(r)) \cup Overlooked(r)
  BY DEF Write, Commit, Touched
<1>7. \A q \in Requests \ {r} : pc'[q] = pc[q] /\ job'[q] = job[q]
  BY DEF Write, Go, Typed
<1>8. [job[r] EXCEPT !.keys = KeysToDrop(r)] \in Changes
      /\ [job[r] EXCEPT !.keys = KeysToDrop(r)].keys = KeysToDrop(r)
  BY <1>1, <1>5 DEF Changes, Named
<1>9. \/ job[r].kind = "create" /\ pc'[r] = "done" /\ job'[r] = job[r]
      \/ /\ job[r].kind # "create" /\ pc'[r] = "invalidate"
         /\ job'[r] = [job[r] EXCEPT !.keys = KeysToDrop(r)]
  BY DEF Write, Go, Typed
<1>10. Distinct'
  BY <1>1, <1>3 DEF Distinct, Live, Write, IndexAllows
<1>11. QED
  BY <1>1, <1>2, <1>3, <1>4, <1>5, <1>6, <1>7, <1>8, <1>9, <1>10

LEMMA WriteTyped ==
  ASSUME Typed, Distinct, NEW r \in Requests, Write(r)
  PROVE  Typed'
<1>1. /\ tenant' \in [Tenants -> Rows] /\ job'[r] \in Changes
      /\ \A t \in Tenants : tenant[t].row # "absent" => tenant'[t].row # "absent"
  <2>1. job[r].row # "absent"
    BY WriteFacts DEF Changes
  <2>2. tenant'[job[r].id].row # "absent"
    <3>1. tenant'[job[r].id] = [row |-> job[r].row, slug |-> SlugToBe(r)]
      BY WriteFacts
    <3>2. QED
      BY <2>1, <3>1
  <2>3. \A t \in Tenants : t # job[r].id => tenant'[t] = tenant[t]
    BY WriteFacts
  <2>4. QED
    BY <2>2, <2>3, WriteFacts
<1>2. missed' \subseteq Keys
  <2>1. ReadAlready \subseteq Keys
    BY DEF ReadAlready, Typed, Guards, GuardPlaces
  <2>2. QED
    BY <2>1, WriteFacts DEF Typed
<1>3. \A q \in Requests \ {r} : pc'[q] = pc[q] /\ job'[q] = job[q]
  BY WriteFacts
<1>4. /\ pc'[r] \in {"done", "invalidate"}
      /\ calm' = {} /\ person' = person /\ claims' = claims /\ cache' = cache
  BY WriteFacts DEF Write, Commit
<1>5. /\ pc' \in [Requests -> ChangePlaces \cup GuardPlaces \cup {"idle", "done", "failed"}]
      /\ job' \in [Requests -> Changes \cup Guards \cup {[op |-> "none"]}]
  <2>1. \E place \in {"done", "invalidate"} : \E work : Go(r, place, work)
    BY DEF Write
  <2>2. QED
    BY <1>1, <2>1 DEF Go, Typed, ChangePlaces
<1>6. \A q \in Requests : /\ pc'[q] \in ChangePlaces => job'[q] \in Changes
                          /\ pc'[q] \in GuardPlaces => job'[q] \in Guards
  BY <1>1, <1>3, <1>4 DEF Typed, ChangePlaces, GuardPlaces, Verdicts
<1>7. \A q \in Requests :
        pc'[q] \in {"check", "write"} /\ job'[q].slug = None => tenant'[job'[q].id].row # "absent"
  BY <1>1, <1>3, <1>4 DEF Typed, ChangePlaces, Changes
<1>8. /\ person' \in [Users -> [church : Tenants, role : Roles, super : BOOLEAN]]
      /\ claims' \in [Users -> Claims]
      /\ cache' \in [Keys -> Entries \cup {Nothing}] /\ calm' \subseteq Requests
      /\ \A u \in Users : tenant'[person'[u].church].row # "absent"
  <2>1. \A u \in Users : person[u].church \in Tenants
    BY DEF Typed
  <2>2. QED
    BY <1>1, <1>4, <2>1 DEF Typed
<1>9. QED
  BY <1>1, <1>2, <1>5, <1>6, <1>7, <1>8 DEF Typed

(* The step that leaves it to the invalidation, or to nobody. *)
LEMMA WriteKeeps ==
  ASSUME CacheInv, NEW r \in Requests, Write(r)
  PROVE  CacheInv'
<1>0. Typed /\ Distinct /\ NewOnce /\ LookupsRight /\ CacheCurrent
  BY DEF CacheInv
<1>a. Typed' /\ Distinct'
  BY <1>0, WriteTyped, WriteFacts
<1> DEFINE t == job[r].id
<1>1. /\ t \in Tenants /\ job[r] \in Changes /\ pc[r] = "write" /\ cache' = cache
      /\ IndexAllows(r) /\ (job[r].slug = None => tenant[t].row # "absent")
      /\ Creating(r, t) \/ job[r].kind # "create"
  BY <1>0, WriteFacts DEF Write, Commit, Typed, Creating
<1>2. /\ \A v \in Tenants \ {t} : tenant'[v] = tenant[v]
      /\ tenant'[t] = [row |-> job[r].row, slug |-> SlugToBe(r)]
      /\ missed' = missed \cup (ReadAlready \cap Touched(r)) \cup Overlooked(r)
      /\ \A q \in Requests \ {r} : pc'[q] = pc[q] /\ job'[q] = job[q]
      /\ pc'[r] \in {"done", "invalidate"}
  BY <1>0, WriteFacts
<1>3. job[r].kind # "create" => pc'[r] = "invalidate" /\ job'[r].keys = KeysToDrop(r)
  BY <1>0, WriteFacts
<1>4. Touched(r) = {t, tenant[t].slug, SlugToBe(r)} /\ tenant'[t].slug = SlugToBe(r)
  BY <1>2 DEF Touched
<1> HIDE DEF t
<1>5. \A k \in Keys \ Touched(r) : Current(k)' = Current(k) /\ BySlug(k)' = BySlug(k)
  BY <1>0, <1>a, <1>1, <1>2, <1>4, OthersKept
<1>6. NewOnce'
  <2> SUFFICES ASSUME NEW v \in Tenants, NEW q \in Requests, Creating(q, v)'
               PROVE  /\ tenant'[v].row = "absent"
                      /\ \A p \in Requests : Creating(p, v)' => p = q
    BY DEF NewOnce
  <2>1. \A p \in Requests : Creating(p, v)' => p # r /\ Creating(p, v)
    BY <1>2 DEF Creating
  <2>2. tenant[v].row = "absent" /\ \A p \in Requests : Creating(p, v) => p = q
    BY <1>0, <2>1 DEF NewOnce
  <2>3. CASE v = t
    <3>1. job[r].kind # "create"
      BY <1>1, <2>1, <2>2, <2>3
    <3>2. CASE job[r].kind = "rename"
      BY <1>1, <2>2, <2>3, <3>2 DEF IndexAllows, Live, t
    <3>3. CASE job[r].kind # "rename"
      BY <1>1, <2>2, <2>3, <3>1, <3>3 DEF Changes, Named
    <3>4. QED
      BY <3>2, <3>3
  <2>4. QED
    BY <1>2, <2>1, <2>2, <2>3
<1>7. LookupsRight'
  <2> SUFFICES ASSUME NEW q \in Requests, NEW k \in Keys, k \notin missed',
                      pc'[q] \in {"id", "set"}, job'[q].key = k
               PROVE  /\ pc'[q] = "id" => BySlug(k)' = Nothing
                      /\ pc'[q] = "set" => job'[q].found \in {Nothing, Current(k)'}
    BY DEF LookupsRight, Nothing
  <2>1. q # r /\ pc'[q] = pc[q] /\ job'[q] = job[q] /\ k \notin missed
    BY <1>2
  <2>2. k \in ReadAlready
    BY <2>1 DEF ReadAlready
  <2>3. Current(k)' = Current(k) /\ BySlug(k)' = BySlug(k)
    BY <1>2, <1>5, <2>2
  <2>4. QED
    BY <1>0, <2>1, <2>3 DEF LookupsRight
<1>8. CacheCurrent'
  <2> SUFFICES ASSUME NEW k \in Keys, k \notin missed'
               PROVE  \/ cache'[k] \in {Nothing, Current(k)'}
                      \/ \E q \in Requests : pc'[q] = "invalidate" /\ k \in job'[q].keys
    BY DEF CacheCurrent, Nothing
  <2>1. k \notin missed /\ k \notin Overlooked(r) /\ cache'[k] = cache[k]
    BY <1>1, <1>2
  <2>2. CASE \E q \in Requests : pc[q] = "invalidate" /\ k \in job[q].keys
    <3>1. PICK q \in Requests : pc[q] = "invalidate" /\ k \in job[q].keys
      BY <2>2
    <3>2. q # r
      BY <1>1, <3>1
    <3>3. QED
      BY <1>2, <3>1, <3>2
  <2>3. CASE cache[k] \in {Nothing, Current(k)} /\ k \notin Touched(r)
    BY <1>5, <2>1, <2>3
  <2>4. CASE k \in Touched(r) /\ job[r].kind # "create"
    <3>1. k \in KeysToDrop(r)
      <4>1. CASE job[r].kind = "rename"
        BY <1>4, <2>1, <2>4, <4>1, OverlookedIs DEF KeysToDrop, t
      <4>2. CASE job[r].kind # "rename"
        <5>1. SlugToBe(r) = tenant[t].slug
          BY <1>1, <2>4, <4>2 DEF SlugToBe, Changes, Named, t
        <5>2. QED
          BY <1>4, <2>4, <5>1 DEF KeysToDrop, t
      <4>3. QED
        BY <4>1, <4>2
    <3>2. QED
      BY <1>3, <2>4, <3>1
  <2>5. CASE k \in Touched(r) /\ job[r].kind = "create" /\ cache[k] \in {Nothing, Current(k)}
    <3>1. /\ tenant[t].row = "absent" /\ tenant[t].slug = None /\ ~Live(t)
          /\ job[r].row = "live" /\ SlugToBe(r) = job[r].slug
      <4>1. tenant[t].row = "absent"
        BY <1>0, <1>1, <2>5 DEF NewOnce
      <4>2. job[r].slug # None /\ job[r].row = "live"
        BY <1>1, <2>5, TenantAssumption DEF Changes, Named
      <4>3. QED
        BY <1>0, <1>1, <4>1, <4>2, RowFacts DEF Live, SlugToBe
    <3>2. k \in {t, job[r].slug}
      BY <1>0, <1>4, <2>5, <3>1, RowFacts
    <3>3. \A v \in Tenants : Live(v) => tenant[v].slug # job[r].slug
      BY <1>1, <3>1 DEF IndexAllows, t
    <3>4. CASE k = job[r].slug
      <4>1. ~SlugTaken(k) /\ ~(k \in Tenants /\ Live(k))
        BY <2>1, <2>5, <3>3, <3>4, OverlookedIs DEF SlugTaken
      <4>2. \A v \in Tenants : ~Names(k, v)
        BY <4>1 DEF Names, SlugTaken
      <4>3. Current(k) = Nothing
        BY <1>0, <4>2, ReadsRight DEF TableRead
      <4>4. QED
        BY <2>1, <2>5, <4>3
    <3>5. CASE k = t /\ ~SlugTaken(k)
      <4>1. \A v \in Tenants : ~Names(k, v)
        BY <3>1, <3>5 DEF Names, SlugTaken
      <4>2. Current(k) = Nothing
        BY <1>0, <4>1, ReadsRight DEF TableRead
      <4>3. QED
        BY <2>1, <2>5, <4>2
    <3>6. CASE SlugTaken(k)
      <4>1. PICK v \in Tenants : Live(v) /\ tenant[v].slug = k
        BY <3>6 DEF SlugTaken
      <4>2. v # t /\ tenant'[v] = tenant[v]
        BY <1>2, <3>1, <4>1
      <4>3. Resolved(v) # Nothing /\ BySlug(k) = Resolved(v) /\ Current(k) = Resolved(v)
        BY <1>0, <4>1, ReadsRight, RowFacts DEF TableRead, Current
      <4>4. Live(v)' /\ tenant'[v].slug = k /\ Resolved(v)' = Resolved(v)
        BY <4>1, <4>2 DEF Live, Resolved
      <4>5. BySlug(k)' = Resolved(v)'
        BY <1>a, <4>4, ReadsRightAfter DEF TableRead
      <4>6. Current(k)' = Current(k)
        BY <4>3, <4>4, <4>5 DEF Current, Nothing
      <4>7. QED
        BY <2>1, <2>5, <4>6
    <3>7. QED
      BY <3>2, <3>4, <3>5, <3>6
  <2>6. QED
    BY <1>0, <2>1, <2>2, <2>3, <2>4, <2>5 DEF CacheCurrent
<1>9. QED
  BY <1>a, <1>6, <1>7, <1>8 DEF CacheInv
-----------------------------------------------------------------------------
(* Request q goes on as it was, has ended, or has looked something up. *)
Keeps(q) == pc'[q] = pc[q] /\ job'[q] = job[q]
Ends(q) == pc'[q] \in {"done", "failed"}
LooksUp(q) ==
  /\ pc'[q] \in GuardPlaces /\ job'[q] \in Guards
  /\ \A k \in Keys \ missed : job'[q].key = k =>
       /\ pc'[q] = "id" => BySlug(k) = Nothing
       /\ pc'[q] = "set" => job'[q].found \in {Nothing, Current(k)}

(* A change goes from its check to its write, or is a new one. *)
Checked(q) == pc[q] = "check" /\ pc'[q] = "write" /\ job'[q] = job[q]
Begins(q) ==
  /\ pc[q] = "idle" /\ pc'[q] \in ChangePlaces /\ job'[q] \in Changes
  /\ job'[q].kind = "create" =>
       tenant[job'[q].id].row = "absent" /\ Changing(job'[q].id) = {}
  /\ \A p \in Requests \ {q} : Keeps(p)

LEMMA BeginFacts ==
  ASSUME Typed, NEW r \in Requests, NEW t \in Tenants, NEW work \in Changes,
         NEW place \in ChangePlaces, Begin(r, place, work),
         work.slug = None => tenant[work.id].row # "absent",
         work.kind = "create" => tenant[work.id].row = "absent" /\ Changing(work.id) = {}
  PROVE  Typed' /\ UNCHANGED <<tables, cache, missed, calm>> /\ Begins(r)
<1>1. Typed'
  BY GoTyped DEF Begin, Typed, tables, ChangePlaces, GuardPlaces, Verdicts
<1>2. /\ pc'[r] = place /\ pc[r] = "idle" /\ job'[r] = work
      /\ \A q \in Requests \ {r} : Keeps(q)
      /\ UNCHANGED <<tables, cache, missed, calm>>
  BY DEF Begin, Go, Keeps, Typed
<1>3. QED
  BY <1>1, <1>2 DEF Begins

(* The four changes, as they begin. *)
LEMMA ChangeBegins ==
  ASSUME Typed, NEW r \in Requests,
         BeginCreate(r) \/ BeginRename(r) \/ BeginDelete(r) \/ BeginRestore(r)
  PROVE  Typed' /\ UNCHANGED <<tables, cache, missed, calm>> /\ Begins(r)
<1>0. \A t \in Tenants : Live(t) => KeysOf(t) \subseteq Keys /\ tenant[t].row # "absent"
  BY RowFacts
<1>2. CASE BeginCreate(r)
  <2>1. PICK t \in Tenants, s \in Slugs :
          /\ tenant[t].row = "absent" /\ Changing(t) = {}
          /\ Begin(r, "write", [op |-> "change", kind |-> "create", id |-> t,
                                row |-> "live", slug |-> s, keys |-> {}])
    BY <1>2 DEF BeginCreate
  <2> DEFINE work == [op |-> "change", kind |-> "create", id |-> t,
                      row |-> "live", slug |-> s, keys |-> {}]
  <2>2. work \in Changes /\ work.id = t /\ work.slug # None
    BY <2>1, TenantAssumption DEF Changes, Named
  <2>3. Begin(r, "write", work)
    BY <2>1
  <2> HIDE DEF work
  <2>4. QED
    BY <2>1, <2>2, <2>3, BeginFacts DEF ChangePlaces
<1>3. CASE BeginRename(r)
  <2>1. PICK t \in Tenants, s \in Slugs :
          Live(t) /\ Begin(r, "check", [op |-> "change", kind |-> "rename", id |-> t,
                                row |-> "live", slug |-> s, keys |-> KeysOf(t)])
    BY <1>3 DEF BeginRename
  <2> DEFINE work == [op |-> "change", kind |-> "rename", id |-> t,
                      row |-> "live", slug |-> s, keys |-> KeysOf(t)]
  <2>2. work \in Changes /\ work.slug # None /\ work.kind # "create"
    BY <1>0, <2>1, TenantAssumption DEF Changes, Named
  <2>3. Begin(r, "check", work)
    BY <2>1
  <2> HIDE DEF work
  <2>4. QED
    BY <2>2, <2>3, BeginFacts DEF ChangePlaces
<1>4. CASE BeginDelete(r)
  <2>1. PICK t \in Tenants :
          Live(t) /\ Begin(r, "write", [op |-> "change", kind |-> "delete", id |-> t,
                                row |-> "archived", slug |-> None, keys |-> {}])
    BY <1>4 DEF BeginDelete
  <2> DEFINE work == [op |-> "change", kind |-> "delete", id |-> t,
                      row |-> "archived", slug |-> None, keys |-> {}]
  <2>2. work \in Changes /\ work.id = t /\ work.kind # "create"
    BY DEF Changes, Named
  <2>3. Begin(r, "write", work)
    BY <2>1
  <2> HIDE DEF work
  <2>4. QED
    BY <1>0, <2>1, <2>2, <2>3, BeginFacts DEF ChangePlaces
<1>5. CASE BeginRestore(r)
  <2>1. PICK t \in Tenants :
          /\ tenant[t].row # "absent"
          /\ Begin(r, IF Live(t) THEN "invalidate" ELSE "write",
                   [op |-> "change", kind |-> "restore", id |-> t, row |-> "live",
                    slug |-> None, keys |-> IF Live(t) THEN KeysOf(t) ELSE {}])
    BY <1>5 DEF BeginRestore
  <2> DEFINE keys == IF Live(t) THEN KeysOf(t) ELSE {}
             place == IF Live(t) THEN "invalidate" ELSE "write"
             work == [op |-> "change", kind |-> "restore", id |-> t, row |-> "live",
                      slug |-> None, keys |-> keys]
  <2>2. keys \in SUBSET Keys /\ place \in ChangePlaces
    BY <1>0 DEF ChangePlaces
  <2>3. Begin(r, place, work)
    BY <2>1
  <2> HIDE DEF keys, place
  <2>4. work \in Changes /\ work.id = t /\ work.kind # "create"
    BY <2>2 DEF Changes, Named
  <2> HIDE DEF work
  <2>5. QED
    BY <2>1, <2>2, <2>3, <2>4, BeginFacts
<1>6. QED
  BY <1>2, <1>3, <1>4, <1>5

(* A step that leaves the table alone. *)
LEMMA TableStays ==
  ASSUME CacheInv, Typed', UNCHANGED tenant, missed \subseteq missed',
         \A q \in Requests : Keeps(q) \/ Ends(q) \/ LooksUp(q) \/ Checked(q) \/ Begins(q),
         \A q \in Requests : pc[q] = "invalidate" =>
           \/ Keeps(q)
           \/ job[q].keys \subseteq missed'
           \/ \A k \in job[q].keys \cap Keys : cache'[k] = Nothing,
         \A k \in Keys :
           \/ cache'[k] \in {Nothing, cache[k]}
           \/ \E q \in Requests : pc[q] = "set" /\ job[q].key = k /\ cache'[k] = job[q].found
  PROVE  CacheInv'
<1>0. Typed /\ Distinct /\ NewOnce /\ LookupsRight /\ CacheCurrent
  BY DEF CacheInv
<1>1. Distinct'
  BY <1>0 DEF Distinct, Live
<1>2. \A k \in Keys : Current(k)' = Current(k) /\ BySlug(k)' = BySlug(k)
  BY TableKept
<1>3. ASSUME NEW t \in Tenants, NEW q \in Requests, Creating(q, t)'
      PROVE  \/ Creating(q, t)
             \/ /\ tenant[t].row = "absent" /\ Begins(q)
                /\ \A p \in Requests : ~Creating(p, t)
  <2>1. pc'[q] \in {"check", "write"} /\ job'[q].kind = "create" /\ job'[q].id = t
    BY <1>3 DEF Creating
  <2>2. CASE Keeps(q) \/ Checked(q)
    BY <2>1, <2>2 DEF Keeps, Checked, Creating
  <2>3. CASE Begins(q)
    <3>1. tenant[t].row = "absent" /\ Changing(t) = {}
      BY <2>1, <2>3 DEF Begins
    <3>2. \A p \in Requests : Creating(p, t) => p \in Changing(t)
      BY <1>0 DEF Creating, Changing, Working, Typed, ChangePlaces, Changes, Verdicts
    <3>3. QED
      BY <2>3, <3>1, <3>2
  <2>4. QED
    BY <2>1, <2>2, <2>3 DEF Ends, LooksUp, GuardPlaces, Verdicts
<1>4. NewOnce'
  <2> SUFFICES ASSUME NEW t \in Tenants, NEW q \in Requests, Creating(q, t)'
               PROVE  /\ tenant[t].row = "absent"
                      /\ \A p \in Requests : Creating(p, t)' => p = q
    BY DEF NewOnce
  <2>1. CASE Creating(q, t)
    BY <1>0, <1>3, <2>1 DEF NewOnce
  <2>2. CASE /\ tenant[t].row = "absent" /\ Begins(q)
             /\ \A p \in Requests : ~Creating(p, t)
    <3>1. \A p \in Requests \ {q} : ~Creating(p, t)'
      BY <2>2 DEF Begins, Keeps, Creating
    <3>2. QED
      BY <2>2, <3>1
  <2>3. QED
    BY <1>3, <2>1, <2>2
<1>5. LookupsRight'
  <2> SUFFICES ASSUME NEW q \in Requests, NEW k \in Keys, k \notin missed',
                      pc'[q] \in {"id", "set"}, job'[q].key = k
               PROVE  /\ pc'[q] = "id" => BySlug(k)' = Nothing
                      /\ pc'[q] = "set" => job'[q].found \in {Nothing, Current(k)'}
    BY DEF LookupsRight, Nothing
  <2>1. CASE Keeps(q)
    BY <1>0, <1>2, <2>1 DEF LookupsRight, Keeps
  <2>2. CASE LooksUp(q)
    BY <1>2, <2>2 DEF LooksUp
  <2>3. QED
    BY <2>1, <2>2 DEF Ends, Checked, Begins, ChangePlaces
<1>6. CacheCurrent'
  <2> SUFFICES ASSUME NEW k \in Keys, k \notin missed', cache'[k] \notin {Nothing, Current(k)}
               PROVE  \E q \in Requests : pc'[q] = "invalidate" /\ k \in job'[q].keys
    BY <1>2 DEF CacheCurrent, Nothing
  <2>1. cache'[k] = cache[k]
    BY <1>0 DEF LookupsRight
  <2>2. PICK q \in Requests : pc[q] = "invalidate" /\ k \in job[q].keys
    BY <1>0, <2>1 DEF CacheCurrent
  <2>3. Keeps(q)
    BY <2>1, <2>2
  <2>4. QED
    BY <2>2, <2>3 DEF Keeps
<1>7. QED
  BY <1>1, <1>4, <1>5, <1>6 DEF CacheInv
-----------------------------------------------------------------------------
(* What the table or the cache may answer is an entry. *)
LEMMA AnswerTyped ==
  ASSUME Typed, Distinct, NEW k \in Keys
  PROVE  {Current(k), BySlug(k), ById(k), cache[k]} \subseteq Entries \cup {Nothing}
<1>1. \A t \in Tenants : Names(k, t) => Resolved(t) \in Entries
  BY RowFacts DEF Names
<1>2. Current(k) \in Entries \cup {Nothing} /\ BySlug(k) \in Entries \cup {Nothing}
  BY <1>1, ReadsRight DEF TableRead
<1>3. ById(k) \in Entries \cup {Nothing}
  BY RowFacts DEF ById
<1>4. QED
  BY <1>2, <1>3 DEF Typed

(* The steps of a guard: the same user, key and claim throughout. *)
GuardSteps(r) == Get(r) \/ ReadBySlug(r) \/ ReadById(r) \/ Set(r)

(* Request r has decided by what it has found. *)
Found(r) ==
  /\ job'[r].needs \in SUBSET Roles
  /\ pc'[r] = Verdict(job[r].claim, job[r].key, job'[r].found, job'[r].needs)

LEMMA VerdictIs ==
  \A claim, key, found, needs : Verdict(claim, key, found, needs) \in Verdicts
BY DEF Verdict, Verdicts

(* A guard goes on, with what it has found and what its route requires. *)
Goes(r, place, found, needs) ==
  Go(r, place, [job[r] EXCEPT !.found = found, !.needs = needs])

LEMMA GuardGoes ==
  ASSUME Typed, NEW r \in Requests, job[r] \in Guards, NEW place \in GuardPlaces,
         NEW found \in Entries \cup {Nothing}, NEW needs \in SUBSET Roles,
         Goes(r, place, found, needs),
         UNCHANGED <<tables, missed, calm>>, cache' \in [Keys -> Entries \cup {Nothing}]
  PROVE  /\ Typed' /\ pc'[r] = place /\ job'[r] \in Guards
         /\ job'[r].found = found /\ job'[r].needs = needs
         /\ job'[r].user = job[r].user /\ job'[r].key = job[r].key
         /\ job'[r].claim = job[r].claim
         /\ \A q \in Requests \ {r} : Keeps(q)
<1> DEFINE work == [job[r] EXCEPT !.found = found, !.needs = needs]
<1>1. work \in Guards /\ work.found = found /\ work.needs = needs
      /\ work.user = job[r].user /\ work.key = job[r].key /\ work.claim = job[r].claim
  BY DEF Guards
<1>2. Go(r, place, work)
  BY DEF Goes
<1> HIDE DEF work
<1>3. Typed'
  BY <1>1, <1>2, GoTyped DEF Typed, GuardPlaces, ChangePlaces, Verdicts
<1>4. /\ pc'[r] = place /\ job'[r] = work
      /\ \A q \in Requests \ {r} : Keeps(q)
  BY <1>2 DEF Go, Keeps, Typed
<1>5. QED
  BY <1>1, <1>3, <1>4

LEMMA GuardFacts ==
  ASSUME Typed, Distinct, NEW r \in Requests, GuardSteps(r)
  PROVE  /\ Typed' /\ UNCHANGED <<tables, missed, calm>>
         /\ \A q \in Requests \ {r} : Keeps(q)
         /\ job[r] \in Guards /\ job'[r] \in Guards /\ pc'[r] \in GuardPlaces
         /\ job'[r].user = job[r].user /\ job'[r].key = job[r].key /\ job'[r].claim = job[r].claim
         /\ \A k \in Keys :
              \/ cache'[k] \in {Nothing, cache[k]}
              \/ pc[r] = "set" /\ job[r].key = k /\ cache'[k] = job[r].found
         /\ \/ /\ pc[r] = "get" /\ cache[job[r].key] # Nothing
               /\ job'[r].found = cache[job[r].key] /\ Found(r)
            \/ pc[r] = "get" /\ pc'[r] = "slug"
            \/ /\ pc[r] = "slug" /\ pc'[r] = "id" /\ BySlug(job[r].key) = Nothing
            \/ /\ pc[r] = "slug" /\ pc'[r] = "set" /\ job'[r].found = Current(job[r].key)
            \/ /\ pc[r] = "id" /\ pc'[r] = "set" /\ job'[r].found = ById(job[r].key)
            \/ /\ pc[r] = "set" /\ job'[r].found = job[r].found /\ Found(r)
<1>0. job[r] \in Guards /\ job[r].key \in Keys /\ job[r].needs \in SUBSET Roles
      /\ job[r].found \in Entries \cup {Nothing}
  BY DEF GuardSteps, Get, ReadBySlug, ReadById, Set, Typed, GuardPlaces, Guards
<1>1. cache \in [Keys -> Entries \cup {Nothing}]
  BY DEF Typed
<1>2. \A f : [job[r] EXCEPT !.found = f] = [job[r] EXCEPT !.found = f, !.needs = job[r].needs]
  BY <1>0 DEF Guards
<1>3. CASE Get(r) /\ cache[job[r].key] # Nothing
  <2>1. pc[r] = "get" /\ UNCHANGED <<tables, cache, missed, calm>>
        /\ cache[job[r].key] \in Entries \cup {Nothing}
    BY <1>0, <1>3, AnswerTyped DEF Get
  <2>2. PICK needs \in SUBSET Roles :
          Goes(r, Verdict(job[r].claim, job[r].key, cache[job[r].key], needs),
               cache[job[r].key], needs)
    BY <1>3 DEF Get, Decide, Goes
  <2>3. Verdict(job[r].claim, job[r].key, cache[job[r].key], needs) \in GuardPlaces
    BY VerdictIs DEF GuardPlaces
  <2>4. /\ Typed' /\ pc'[r] = Verdict(job[r].claim, job[r].key, cache[job[r].key], needs)
        /\ job'[r] \in Guards
        /\ job'[r].found = cache[job[r].key] /\ job'[r].needs = needs
        /\ job'[r].user = job[r].user /\ job'[r].key = job[r].key
        /\ job'[r].claim = job[r].claim
        /\ \A q \in Requests \ {r} : Keeps(q)
    BY <1>0, <1>1, <2>1, <2>2, <2>3, GuardGoes
  <2>5. Found(r)
    BY <2>4 DEF Found
  <2>6. QED
    BY <1>0, <1>3, <2>1, <2>3, <2>4, <2>5
<1>4. CASE Get(r) /\ cache[job[r].key] = Nothing
  <2>1. Go(r, "slug", job[r]) /\ pc[r] = "get" /\ UNCHANGED <<tables, cache, missed, calm>>
    BY <1>4 DEF Get
  <2>2. Typed'
    BY <1>0, <2>1, GoTyped DEF Typed, GuardPlaces, ChangePlaces
  <2>3. pc'[r] = "slug" /\ job'[r] = job[r] /\ \A q \in Requests \ {r} : Keeps(q)
    BY <2>1 DEF Go, Keeps, Typed
  <2>4. QED
    BY <1>0, <2>1, <2>2, <2>3 DEF GuardPlaces
<1>5. CASE ReadBySlug(r)
  <2> DEFINE found == BySlug(job[r].key)
             place == IF found = Nothing THEN "id" ELSE "set"
  <2>1. /\ found \in Entries \cup {Nothing} /\ place \in GuardPlaces
        /\ Goes(r, place, found, job[r].needs)
        /\ pc[r] = "slug" /\ UNCHANGED <<tables, cache, missed, calm>>
    BY <1>0, <1>2, <1>5, AnswerTyped DEF ReadBySlug, GuardPlaces, Goes
  <2>2. found # Nothing => found = Current(job[r].key)
    BY DEF Current
  <2> HIDE DEF found, place
  <2>3. /\ Typed' /\ pc'[r] = place /\ job'[r] \in Guards
        /\ job'[r].found = found
        /\ job'[r].user = job[r].user /\ job'[r].key = job[r].key
        /\ job'[r].claim = job[r].claim
        /\ \A q \in Requests \ {r} : Keeps(q)
    BY <1>0, <1>1, <2>1, GuardGoes
  <2>4. QED
    BY <1>0, <2>1, <2>2, <2>3 DEF found, place
<1>6. CASE ReadById(r)
  <2> DEFINE found == ById(job[r].key)
  <2>1. /\ found \in Entries \cup {Nothing} /\ "set" \in GuardPlaces
        /\ Goes(r, "set", found, job[r].needs)
        /\ pc[r] = "id" /\ UNCHANGED <<tables, cache, missed, calm>>
    BY <1>0, <1>2, <1>6, AnswerTyped DEF ReadById, Goes, GuardPlaces
  <2> HIDE DEF found
  <2>2. /\ Typed' /\ pc'[r] = "set" /\ job'[r] \in Guards
        /\ job'[r].found = found
        /\ job'[r].user = job[r].user /\ job'[r].key = job[r].key
        /\ job'[r].claim = job[r].claim
        /\ \A q \in Requests \ {r} : Keeps(q)
    BY <1>0, <1>1, <2>1, GuardGoes
  <2>3. QED
    BY <1>0, <2>1, <2>2 DEF found
<1>7. CASE Set(r)
  <2> DEFINE found == job[r].found
  <2>1. /\ cache' \in [Keys -> Entries \cup {Nothing}]
        /\ \A k \in Keys : cache'[k] = cache[k] \/ (job[r].key = k /\ cache'[k] = job[r].found)
    BY <1>0, <1>7 DEF Set, Typed
  <2>2. pc[r] = "set" /\ UNCHANGED <<tables, missed, calm>>
    BY <1>7 DEF Set
  <2>3. PICK needs \in SUBSET Roles :
          Goes(r, Verdict(job[r].claim, job[r].key, found, needs), found, needs)
    BY <1>7 DEF Set, Decide, Goes
  <2> DEFINE verdict == Verdict(job[r].claim, job[r].key, found, needs)
  <2>4. verdict \in GuardPlaces /\ found \in Entries \cup {Nothing} /\ Goes(r, verdict, found, needs)
    BY <1>0, <2>3, VerdictIs DEF GuardPlaces
  <2> HIDE DEF found, verdict
  <2>5. /\ Typed' /\ pc'[r] = verdict
        /\ job'[r] \in Guards
        /\ job'[r].found = found /\ job'[r].needs = needs
        /\ job'[r].user = job[r].user /\ job'[r].key = job[r].key
        /\ job'[r].claim = job[r].claim
        /\ \A q \in Requests \ {r} : Keeps(q)
    BY <1>0, <2>1, <2>2, <2>4, GuardGoes
  <2>6. Found(r)
    BY <2>5 DEF Found, verdict
  <2>7. QED
    BY <1>0, <2>1, <2>2, <2>4, <2>5, <2>6 DEF found
<1>8. QED
  BY <1>3, <1>4, <1>5, <1>6, <1>7 DEF GuardSteps
-----------------------------------------------------------------------------
(* What a step does to the table and to the types. *)
LEMMA GuardBegins ==
  ASSUME Typed, NEW r \in Requests, BeginGuard(r)
  PROVE  /\ Typed' /\ UNCHANGED <<tables, cache, missed>>
         /\ \A q \in Requests \ {r} : Keeps(q)
         /\ pc'[r] = "get" /\ job'[r] \in Guards
         /\ job'[r].claim = claims[job'[r].user]
         /\ \/ calm' = calm
            \/ calm' = calm \cup {r} /\ Fresh(job'[r].user) /\ Settled
<1>1. PICK u \in Users, key \in Keys :
        /\ Go(r, "get", [op |-> "guard", user |-> u, key |-> key, claim |-> claims[u],
                         found |-> Nothing, needs |-> {}])
        /\ calm' = calm \cup (IF Fresh(u) /\ Settled THEN {r} ELSE {})
  BY DEF BeginGuard
<1> DEFINE work == [op |-> "guard", user |-> u, key |-> key, claim |-> claims[u],
                    found |-> Nothing, needs |-> {}]
<1>2. work \in Guards /\ work.user = u /\ work.claim = claims[u]
  BY DEF Typed, Guards
<1>3. Go(r, "get", work) /\ UNCHANGED <<tables, cache, missed>>
  BY <1>1 DEF BeginGuard
<1> HIDE DEF work
<1>4. calm' \subseteq Requests
  BY <1>1 DEF Typed
<1>5. Typed'
  BY <1>2, <1>3, <1>4, GoTyped DEF Typed, GuardPlaces, ChangePlaces
<1>6. pc'[r] = "get" /\ job'[r] = work /\ \A q \in Requests \ {r} : Keeps(q)
  BY <1>3 DEF Go, Keeps, Typed
<1>7. QED
  BY <1>1, <1>2, <1>3, <1>5, <1>6

LEMMA ChangeSteps ==
  ASSUME Typed, NEW r \in Requests
  PROVE  /\ CheckSlug(r) => /\ Typed' /\ UNCHANGED <<tables, cache, missed, calm>> /\ Checked(r)
                            /\ \A q \in Requests \ {r} : Keeps(q)
         /\ WriteRefused(r) => /\ Typed' /\ UNCHANGED <<tables, cache, missed, calm>>
                               /\ pc'[r] = "failed" /\ pc[r] # "invalidate" /\ job' = job
                               /\ \A q \in Requests \ {r} : Keeps(q)
         /\ Invalidate(r) => /\ Typed' /\ UNCHANGED <<tables, missed, calm>>
                             /\ pc[r] = "invalidate" /\ pc'[r] = "done" /\ job'[r] = job[r]
                             /\ \A q \in Requests \ {r} : Keeps(q)
                             /\ \A k \in Keys : cache'[k] = IF k \in job[r].keys THEN Nothing ELSE cache[k]
         /\ Break(r) => /\ Typed' /\ UNCHANGED <<tables, cache, calm>> /\ missed \subseteq missed'
                        /\ pc'[r] = "failed" /\ job' = job
                        /\ pc[r] = "invalidate" => job[r].keys \subseteq missed'
                        /\ \A q \in Requests \ {r} : Keeps(q)
<1>1. ASSUME CheckSlug(r)
      PROVE  /\ Typed' /\ UNCHANGED <<tables, cache, missed, calm>> /\ Checked(r)
             /\ \A q \in Requests \ {r} : Keeps(q)
  <2>1. job[r] \in Changes /\ (job[r].slug = None => tenant[job[r].id].row # "absent")
    BY <1>1 DEF CheckSlug, Typed, ChangePlaces
  <2>2. Go(r, "write", job[r]) /\ UNCHANGED <<tables, cache, missed, calm>>
    BY <1>1 DEF CheckSlug
  <2>3. Typed'
    BY <2>1, <2>2, GoTyped DEF Typed, ChangePlaces, GuardPlaces, Verdicts
  <2>4. QED
    BY <1>1, <2>2, <2>3 DEF CheckSlug, Go, Keeps, Checked, Typed
<1>2. ASSUME WriteRefused(r)
      PROVE  /\ Typed' /\ UNCHANGED <<tables, cache, missed, calm>>
             /\ pc'[r] = "failed" /\ pc[r] # "invalidate" /\ job' = job
             /\ \A q \in Requests \ {r} : Keeps(q)
  <2>1. Typed'
    BY <1>2, FailTyped DEF WriteRefused, Typed
  <2>2. QED
    BY <1>2, <2>1 DEF WriteRefused, Fail, Keeps, Typed
<1>3. ASSUME Invalidate(r)
      PROVE  /\ Typed' /\ UNCHANGED <<tables, missed, calm>>
             /\ pc[r] = "invalidate" /\ pc'[r] = "done" /\ job'[r] = job[r]
             /\ \A q \in Requests \ {r} : Keeps(q)
             /\ \A k \in Keys : cache'[k] = IF k \in job[r].keys THEN Nothing ELSE cache[k]
  <2>1. job[r] \in Changes
    BY <1>3 DEF Invalidate, Typed, ChangePlaces
  <2>2. cache' \in [Keys -> Entries \cup {Nothing}]
    BY <1>3 DEF Invalidate, Typed
  <2>3. Go(r, "done", job[r]) /\ UNCHANGED <<tables, missed, calm>>
    BY <1>3 DEF Invalidate
  <2>4. Typed'
    BY <2>1, <2>2, <2>3, GoTyped DEF Typed, ChangePlaces, GuardPlaces, Verdicts
  <2>5. QED
    BY <1>3, <2>3, <2>4 DEF Invalidate, Go, Keeps, Typed
<1>4. ASSUME Break(r)
      PROVE  /\ Typed' /\ UNCHANGED <<tables, cache, calm>> /\ missed \subseteq missed'
             /\ pc'[r] = "failed" /\ job' = job
             /\ pc[r] = "invalidate" => job[r].keys \subseteq missed'
             /\ \A q \in Requests \ {r} : Keeps(q)
  <2>1. missed' \subseteq Keys
    BY <1>4 DEF Break, Typed, ChangePlaces, Changes
  <2>2. Typed'
    BY <1>4, <2>1, FailTyped DEF Break
  <2>3. QED
    BY <1>4, <2>2 DEF Break, Fail, Keeps, Typed
<1>5. QED
  BY <1>1, <1>2, <1>3, <1>4

(* The steps of nobody's request. *)
LEMMA OutsideTyped ==
  ASSUME Typed, \/ \E u \in Users : RefreshClaims(u)
                \/ \E k \in Keys : Lapse(k)
                \/ Restart
                \/ UNCHANGED vars
  PROVE  /\ Typed' /\ UNCHANGED <<tenant, person, job, missed, calm>>
         /\ \A k \in Keys : cache'[k] \in {Nothing, cache[k]}
         /\ \/ pc' = pc
            \/ /\ \A k \in Keys : cache'[k] = Nothing
               /\ \A q \in Requests : pc'[q] \in {pc[q], "failed"}
<1>1. CASE \E u \in Users : RefreshClaims(u)
  <2>1. \A u \in Users : ClaimsOf(u) \in Claims
    BY RowFacts DEF ClaimsOf, Claims, Typed
  <2>2. claims' \in [Users -> Claims]
    BY <1>1, <2>1 DEF RefreshClaims, Typed
  <2>3. QED
    BY <1>1, <2>2 DEF RefreshClaims, Typed
<1>2. CASE \E k \in Keys : Lapse(k)
  BY <1>2 DEF Lapse, Typed, tables
<1>3. CASE Restart
  <2>1. \A q \in Requests : pc'[q] \in {pc[q], "failed"}
    BY <1>3 DEF Restart
  <2>2. pc' \in [Requests -> ChangePlaces \cup GuardPlaces \cup {"idle", "done", "failed"}]
    BY <1>3, <2>1 DEF Restart, Typed
  <2>3. QED
    BY <1>3, <2>1, <2>2 DEF Restart, Typed, tables, ChangePlaces, GuardPlaces, Verdicts
<1>4. CASE UNCHANGED vars
  BY <1>4 DEF vars, tables, Typed
<1>5. QED
  BY <1>1, <1>2, <1>3, <1>4

(* Every step keeps types, and slugs apart. *)
LEMMA TypedStep == Typed /\ Distinct /\ [Next]_vars => Typed' /\ Distinct'
<1> SUFFICES ASSUME Typed, Distinct, [Next]_vars PROVE Typed' /\ Distinct'
  OBVIOUS
<1>0. ASSUME Typed', UNCHANGED tenant PROVE Typed' /\ Distinct'
  BY <1>0 DEF Distinct, Live
<1>1. ASSUME NEW r \in Requests,
             BeginCreate(r) \/ BeginRename(r) \/ BeginDelete(r) \/ BeginRestore(r)
      PROVE  Typed' /\ Distinct'
  BY <1>0, <1>1, ChangeBegins DEF tables
<1>2. ASSUME NEW r \in Requests, BeginGuard(r) PROVE Typed' /\ Distinct'
  BY <1>0, <1>2, GuardBegins DEF tables
<1>3. ASSUME NEW r \in Requests, CheckSlug(r) \/ WriteRefused(r) \/ Invalidate(r) \/ Break(r)
      PROVE  Typed' /\ Distinct'
  BY <1>0, <1>3, ChangeSteps DEF tables
<1>4. ASSUME NEW r \in Requests, GuardSteps(r) PROVE Typed' /\ Distinct'
  BY <1>0, <1>4, GuardFacts DEF tables
<1>5. ASSUME NEW r \in Requests, Write(r) PROVE Typed' /\ Distinct'
  BY <1>5, WriteTyped, WriteFacts
<1>6. CASE \/ \E u \in Users : RefreshClaims(u)
           \/ \E k \in Keys : Lapse(k)
           \/ Restart
           \/ UNCHANGED vars
  BY <1>0, <1>6, OutsideTyped
<1>7. QED
  BY <1>1, <1>2, <1>3, <1>4, <1>5, <1>6 DEF Next, Proceed, GuardSteps

(* A step of a guard finds what the table says. *)
LEMMA GuardLooksUp ==
  ASSUME Typed, Distinct, NEW r \in Requests, GuardSteps(r)
  PROVE  /\ pc'[r] = "id" => BySlug(job'[r].key) = Nothing
         /\ pc'[r] = "set" /\ (pc[r] = "id" => BySlug(job[r].key) = Nothing) =>
              job'[r].found = Current(job'[r].key)
<1>1. job[r].key \in Keys /\ job'[r].key = job[r].key
  BY GuardFacts DEF Guards
<1>2. BySlug(job[r].key) = Nothing => ById(job[r].key) = Current(job[r].key)
  BY <1>1 DEF Current
<1>3. \A v \in Verdicts : v # "id" /\ v # "set"
  BY DEF Verdicts
<1>4. Found(r) => pc'[r] \in Verdicts
  BY VerdictIs DEF Found
<1>5. QED
  BY <1>1, <1>2, <1>3, <1>4, GuardFacts

LEMMA CacheStep == CacheInv /\ [Next]_vars => CacheInv'
<1> SUFFICES ASSUME CacheInv, [Next]_vars PROVE CacheInv'
  OBVIOUS
<1>0. Typed /\ Distinct /\ Typed'
  BY TypedStep DEF CacheInv
<1>1. ASSUME NEW r \in Requests,
             BeginCreate(r) \/ BeginRename(r) \/ BeginDelete(r) \/ BeginRestore(r)
      PROVE  CacheInv'
  <2>1. UNCHANGED <<tables, cache, missed>> /\ pc[r] = "idle" /\ Begins(r)
    BY <1>0, <1>1, ChangeBegins DEF Begins
  <2>2. \A q \in Requests \ {r} : Keeps(q)
    BY <2>1 DEF Begins
  <2>3. QED
    BY <1>0, <2>1, <2>2, TableStays DEF tables
<1>2. ASSUME NEW r \in Requests, BeginGuard(r) PROVE CacheInv'
  <2>1. /\ UNCHANGED <<tables, cache, missed>> /\ pc[r] = "idle" /\ pc'[r] = "get"
        /\ job'[r] \in Guards /\ \A q \in Requests \ {r} : Keeps(q)
    BY <1>0, <1>2, GuardBegins DEF BeginGuard
  <2>2. LooksUp(r)
    BY <2>1 DEF LooksUp, GuardPlaces
  <2>3. QED
    BY <1>0, <2>1, <2>2, TableStays DEF tables
<1>3. ASSUME NEW r \in Requests, CheckSlug(r) \/ WriteRefused(r) PROVE CacheInv'
  <2>1. /\ UNCHANGED <<tables, cache, missed>> /\ pc[r] # "invalidate"
        /\ Checked(r) \/ Ends(r)
        /\ \A q \in Requests \ {r} : Keeps(q)
    BY <1>0, <1>3, ChangeSteps DEF Checked, Ends
  <2>2. QED
    BY <1>0, <2>1, TableStays DEF tables
<1>4. ASSUME NEW r \in Requests, Invalidate(r) PROVE CacheInv'
  <2>1. /\ UNCHANGED <<tables, missed>> /\ Ends(r)
        /\ \A q \in Requests \ {r} : Keeps(q)
        /\ \A k \in Keys : cache'[k] = IF k \in job[r].keys THEN Nothing ELSE cache[k]
    BY <1>0, <1>4, ChangeSteps DEF Ends
  <2>2. QED
    BY <1>0, <2>1, TableStays DEF tables
<1>5. ASSUME NEW r \in Requests, Break(r) PROVE CacheInv'
  <2>1. /\ UNCHANGED <<tables, cache>> /\ missed \subseteq missed' /\ Ends(r)
        /\ pc[r] = "invalidate" => job[r].keys \subseteq missed'
        /\ \A q \in Requests \ {r} : Keeps(q)
    BY <1>0, <1>5, ChangeSteps DEF Ends
  <2>2. QED
    BY <1>0, <2>1, TableStays DEF tables
<1>6. ASSUME NEW r \in Requests, GuardSteps(r) PROVE CacheInv'
  <2>1. /\ UNCHANGED <<tables, missed>> /\ pc[r] # "invalidate"
        /\ \A q \in Requests \ {r} : Keeps(q)
        /\ job'[r].key = job[r].key /\ job'[r] \in Guards /\ pc'[r] \in GuardPlaces
        /\ \A k \in Keys :
             \/ cache'[k] \in {Nothing, cache[k]}
             \/ pc[r] = "set" /\ job[r].key = k /\ cache'[k] = job[r].found
    BY <1>0, <1>6, GuardFacts DEF GuardSteps, Get, ReadBySlug, ReadById, Set
  <2>2. LooksUp(r)
    <3>1. \A k \in Keys \ missed : job[r].key = k => (pc[r] = "id" => BySlug(k) = Nothing)
      BY DEF CacheInv, LookupsRight
    <3>2. QED
      BY <1>0, <1>6, <2>1, <3>1, GuardLooksUp DEF LooksUp
  <2>3. QED
    BY <1>0, <2>1, <2>2, TableStays DEF tables
<1>7. ASSUME NEW r \in Requests, Write(r) PROVE CacheInv'
  BY <1>7, WriteKeeps
<1>8. CASE \/ \E u \in Users : RefreshClaims(u)
           \/ \E k \in Keys : Lapse(k)
           \/ Restart
           \/ UNCHANGED vars
  <2>1. /\ UNCHANGED <<tenant, job, missed>> /\ \A k \in Keys : cache'[k] \in {Nothing, cache[k]}
        /\ \/ pc' = pc
           \/ /\ \A k \in Keys : cache'[k] = Nothing
              /\ \A q \in Requests : pc'[q] \in {pc[q], "failed"}
    BY <1>0, <1>8, OutsideTyped
  <2>2. \A q \in Requests : Keeps(q) \/ Ends(q)
    BY <2>1 DEF Keeps, Ends
  <2>3. \A q \in Requests :
          Keeps(q) \/ \A k \in job[q].keys \cap Keys : cache'[k] = Nothing
    BY <2>1 DEF Keeps
  <2>4. QED
    BY <1>0, <2>1, <2>2, <2>3, TableStays
<1>9. QED
  BY <1>1, <1>2, <1>3, <1>4, <1>5, <1>6, <1>7, <1>8 DEF Next, Proceed, GuardSteps

(* What the cache says of a key is what the table says, or is still to be     *)
(* invalidated - but for keys that a lookup had read when they changed, and   *)
(* those that no invalidation reached: the change broke off, a rename did not *)
(* know of another, or a new church took a live one's id for its slug.        *)
THEOREM CacheIsCurrent == Spec => []CacheCurrent
<1>1. Init => CacheInv
  <2> SUFFICES ASSUME Init PROVE CacheInv
    OBVIOUS
  <2>1. Typed /\ Distinct
    BY TypedInit
  <2>2. NewOnce /\ LookupsRight
    BY DEF Init, NewOnce, Creating, LookupsRight
  <2>3. CacheCurrent
    BY DEF Init, CacheCurrent, Coherent
  <2>4. QED
    BY <2>1, <2>2, <2>3 DEF CacheInv
<1>2. CacheInv => CacheCurrent
  BY DEF CacheInv
<1>3. QED
  BY <1>1, <1>2, CacheStep, PTL DEF Spec
-----------------------------------------------------------------------------
(* Whom the church that a key names lets in, and from whom it is hidden. *)
Admits(u, key, needs) ==
  \E t \in Tenants :
    /\ Names(key, t)
    /\ person[u].super \/ (MemberOf(u, t) /\ (needs = {} \/ person[u].role \in needs))
Hides(u, key) ==
  \A t \in Tenants : Names(key, t) => ~person[u].super /\ ~MemberOf(u, t)

Decided(r) ==
  \A u \in Users, k \in Keys, needs \in SUBSET Roles :
    /\ u = job[r].user /\ k = job[r].key /\ needs = job[r].needs
    /\ pc[r] \in Verdicts
    => /\ pc[r] = "admitted" <=> Admits(u, k, needs)
       /\ pc[r] = "notfound" <=> Hides(u, k)

LEMMA DecidedIsRight ==
  ASSUME Typed PROVE GuardRight <=> \A r \in calm : (job[r] \in Guards => Decided(r))
                                      /\ (job[r] \notin Guards => pc[r] \notin Verdicts)
<1>1. \A r \in calm : pc[r] \in Verdicts => job[r] \in Guards
  BY DEF Typed, GuardPlaces
<1>2. \A r \in calm : job[r] \in Guards =>
        job[r].user \in Users /\ job[r].key \in Keys /\ job[r].needs \in SUBSET Roles
  BY DEF Guards
<1>3. \A r \in calm : job[r] \in Guards =>
        (Decided(r) <=>
           (pc[r] \in Verdicts =>
              /\ pc[r] = "admitted" <=> Admits(job[r].user, job[r].key, job[r].needs)
              /\ pc[r] = "notfound" <=> Hides(job[r].user, job[r].key)))
  BY <1>2 DEF Decided
<1>4. \A r : Admits(job[r].user, job[r].key, job[r].needs) <=>
        \E t \in {t \in Tenants : Names(job[r].key, t)} :
          person[job[r].user].super
            \/ (MemberOf(job[r].user, t)
                /\ (job[r].needs = {} \/ person[job[r].user].role \in job[r].needs))
  BY DEF Admits
<1>5. \A r : Hides(job[r].user, job[r].key) <=>
        \A t \in {t \in Tenants : Names(job[r].key, t)} :
          ~person[job[r].user].super /\ ~MemberOf(job[r].user, t)
  BY DEF Hides
<1>6. GuardRight <=>
        \A r \in calm : pc[r] \in Verdicts =>
          /\ pc[r] = "admitted" <=> Admits(job[r].user, job[r].key, job[r].needs)
          /\ pc[r] = "notfound" <=> Hides(job[r].user, job[r].key)
  BY <1>4, <1>5 DEF GuardRight
<1>7. QED
  BY <1>1, <1>3, <1>6

(* What a guard decides by what the table says is right. *)
LEMMA VerdictRight ==
  ASSUME Typed, Distinct, NEW u \in Users, NEW key \in Keys, NEW needs \in SUBSET Roles
  PROVE  /\ Verdict(ClaimsOf(u), key, Current(key), needs) = "admitted" <=> Admits(u, key, needs)
         /\ Verdict(ClaimsOf(u), key, Current(key), needs) = "notfound" <=> Hides(u, key)
<1> DEFINE claim == ClaimsOf(u)
           found == Current(key)
<1>1. /\ claim.slug = tenant[person[u].church].slug
      /\ claim.role = person[u].role
      /\ claim.super <=> person[u].super
  BY DEF ClaimsOf
<1>2. \/ found = Nothing /\ \A v \in Tenants : ~Names(key, v)
      \/ \E t \in Tenants : /\ found # Nothing /\ found.slug = tenant[t].slug
                            /\ Names(key, t) /\ \A v \in Tenants : Names(key, v) => v = t
  <2>1. \A t \in Tenants : Names(key, t) => Resolved(t) # Nothing
    BY RowFacts DEF Names
  <2>2. \A t \in Tenants : Resolved(t).slug = tenant[t].slug
    BY DEF Resolved
  <2>3. QED
    BY <2>1, <2>2, ReadsRight DEF TableRead
<1> HIDE DEF claim, found
<1>3. CASE found = Nothing /\ \A v \in Tenants : ~Names(key, v)
  <2>1. Verdict(claim, key, found, needs) = "notfound"
    BY <1>3 DEF Verdict
  <2>2. ~Admits(u, key, needs) /\ Hides(u, key)
    BY <1>3 DEF Admits, Hides
  <2>3. QED
    BY <2>1, <2>2 DEF claim, found
<1>4. ASSUME NEW t \in Tenants, found # Nothing, found.slug = tenant[t].slug,
             Names(key, t), \A v \in Tenants : Names(key, v) => v = t
      PROVE  /\ Verdict(claim, key, found, needs) = "admitted" <=> Admits(u, key, needs)
             /\ Verdict(claim, key, found, needs) = "notfound" <=> Hides(u, key)
  <2>1. Membership(claim, key, found.slug) <=> MemberOf(u, t)
    BY <1>1, <1>4 DEF Membership, MemberOf
  <2>2. Admits(u, key, needs) <=>
          claim.super \/ (MemberOf(u, t) /\ (needs = {} \/ claim.role \in needs))
    BY <1>1, <1>4 DEF Admits
  <2>3. Hides(u, key) <=> ~claim.super /\ ~MemberOf(u, t)
    BY <1>1, <1>4 DEF Hides
  <2>4. CASE ~(claim.super \/ MemberOf(u, t))
    <3>1. Verdict(claim, key, found, needs) = "notfound"
      BY <2>1, <2>4 DEF Verdict
    <3>2. QED
      BY <2>2, <2>3, <2>4, <3>1
  <2>5. CASE /\ claim.super \/ MemberOf(u, t)
             /\ claim.super \/ needs = {} \/ claim.role \in needs
    <3>1. Verdict(claim, key, found, needs) = "admitted"
      BY <1>4, <2>1, <2>5 DEF Verdict
    <3>2. QED
      BY <2>2, <2>3, <2>5, <3>1
  <2>6. CASE /\ claim.super \/ MemberOf(u, t)
             /\ ~(claim.super \/ needs = {} \/ claim.role \in needs)
    <3>1. Verdict(claim, key, found, needs) = "forbidden"
      BY <1>4, <2>1, <2>6 DEF Verdict
    <3>2. QED
      BY <2>2, <2>3, <2>6, <3>1
  <2>7. QED
    BY <2>4, <2>5, <2>6
<1>5. QED
  BY <1>2, <1>3, <1>4 DEF claim, found

(* The tables stay: so does what they decide. *)
LEMMA PeopleKept ==
  ASSUME UNCHANGED <<tenant, person>>
  PROVE  \A u, k, needs : /\ ClaimsOf(u)' = ClaimsOf(u)
                          /\ Admits(u, k, needs)' <=> Admits(u, k, needs)
                          /\ Hides(u, k)' <=> Hides(u, k)
<1>1. \A k : \A t \in Tenants : Names(k, t)' <=> Names(k, t)
  BY TableKept
<1>2. \A u, t : MemberOf(u, t)' <=> MemberOf(u, t)
  BY DEF MemberOf
<1>3. QED
  BY <1>1, <1>2 DEF ClaimsOf, Admits, Hides

(* A step that leaves the tables alone, and tells nobody anything else. *)
LEMMA CalmStays ==
  ASSUME GuardInv, Typed', UNCHANGED <<tenant, person>>,
         \A q \in calm' : \/ q \in calm /\ Keeps(q)
                          \/ q \in calm /\ Ends(q) /\ job'[q] = job[q]
                          \/ WellInformed(q)' /\ Decided(q)',
         calm' # {} => Settled,
         \A q \in Requests :
           \/ pc'[q] \notin {"id", "set"} \/ Keeps(q)
           \/ calm' # {} => /\ pc'[q] = "id" => BySlug(job'[q].key) = Nothing
                            /\ pc'[q] = "set" => job'[q].found \in {Nothing, Current(job'[q].key)},
         calm' # {} => \A k \in Keys : cache'[k] \in {Nothing, cache[k], Current(k)}
  PROVE  GuardInv'
<1>1. Distinct'
  BY DEF GuardInv, Distinct, Live
<1>2. \A k : Current(k)' = Current(k) /\ BySlug(k)' = BySlug(k)
  BY TableKept
<1>3. \A u, k, needs : /\ ClaimsOf(u)' = ClaimsOf(u)
                       /\ Admits(u, k, needs)' <=> Admits(u, k, needs)
                       /\ Hides(u, k)' <=> Hides(u, k)
  BY PeopleKept
<1>4. calm' # {} => Settled'
  <2> SUFFICES ASSUME calm' # {} PROVE Settled'
    OBVIOUS
  <2>1. Settled
    OBVIOUS
  <2>2. Coherent'
    BY <1>2, <2>1 DEF Coherent, Settled, Nothing
  <2>3. ASSUME NEW q \in Requests, NEW k \in Keys, job'[q].key = k
        PROVE  /\ pc'[q] = "id" => BySlug(k)' = Nothing
               /\ pc'[q] = "set" => job'[q].found \in {Nothing, Current(k)'}
    BY <1>2, <2>1, <2>3 DEF Settled, Keeps
  <2>4. \A q \in Requests : pc'[q] \in {"id", "set"} => job'[q].key \in Keys
    BY DEF Typed, GuardPlaces, Guards
  <2>5. QED
    BY <2>2, <2>3, <2>4 DEF Settled, Nothing
<1>5. ASSUME NEW q \in calm' PROVE WellInformed(q)' /\ Decided(q)'
  <2>1. CASE WellInformed(q)' /\ Decided(q)'
    BY <2>1
  <2>2. CASE q \in calm /\ (Keeps(q) \/ (Ends(q) /\ job'[q] = job[q]))
    <3>1. q \in Requests /\ WellInformed(q) /\ job'[q] = job[q] /\ job[q] \in Guards
          /\ (pc'[q] = pc[q] \/ pc'[q] \in {"done", "failed"})
      BY <2>2 DEF GuardInv, Typed, Keeps, Ends, WellInformed
    <3>2. Decided(q)
      BY <2>2, <3>1, DecidedIsRight DEF GuardInv
    <3>3. Decided(q)'
      BY <1>3, <3>1, <3>2 DEF Decided, Verdicts
    <3>4. WellInformed(q)'
      BY <1>2, <1>3, <3>1 DEF WellInformed, Nothing
    <3>5. QED
      BY <3>3, <3>4
  <2>3. QED
    BY <2>1, <2>2
<1>6. (GuardRight <=> \A r \in calm : (job[r] \in Guards => Decided(r))
                        /\ (job[r] \notin Guards => pc[r] \notin Verdicts))'
  BY DecidedIsRight, PTL
<1>7. GuardRight'
  BY <1>5, <1>6 DEF WellInformed
<1>8. QED
  BY <1>1, <1>4, <1>5, <1>7 DEF GuardInv

(* A step of a guard in calm. *)
LEMMA GuardInformed ==
  ASSUME GuardInv, NEW r \in calm, GuardSteps(r)
  PROVE  WellInformed(r)' /\ Decided(r)'
<1>1. Typed /\ Distinct /\ Settled /\ WellInformed(r) /\ r \in Requests
  BY DEF GuardInv, Typed
<1>2. /\ Typed' /\ UNCHANGED <<tenant, person>>
      /\ job[r] \in Guards /\ job'[r] \in Guards /\ pc'[r] \in GuardPlaces
      /\ job'[r].user = job[r].user /\ job'[r].key = job[r].key
      /\ job'[r].claim = job[r].claim
  BY <1>1, GuardFacts DEF tables
<1>3. PICK u \in Users, k \in Keys : u = job[r].user /\ k = job[r].key
  BY <1>2 DEF Guards
<1>4. u = job'[r].user /\ k = job'[r].key
  BY <1>2, <1>3
<1>5. /\ job[r].claim = ClaimsOf(u)
      /\ pc[r] = "id" => BySlug(k) = Nothing
      /\ pc[r] = "set" => job[r].found = Current(k)
  BY <1>1, <1>3 DEF WellInformed
<1>6. /\ Current(k)' = Current(k) /\ BySlug(k)' = BySlug(k)
      /\ ClaimsOf(u)' = ClaimsOf(u)
      /\ \A needs : /\ Admits(u, k, needs)' <=> Admits(u, k, needs)
                    /\ Hides(u, k)' <=> Hides(u, k)
  BY <1>2, TableKept, PeopleKept
<1>7. cache[k] \in {Nothing, Current(k)}
  BY <1>1 DEF Settled, Coherent
<1>8. \A v \in Verdicts : v \notin {"get", "slug", "id", "set"}
  BY DEF Verdicts
<1>9. /\ pc'[r] = "id" => BySlug(k) = Nothing
      /\ pc'[r] = "set" => job'[r].found = Current(k)
  BY <1>1, <1>3, <1>4, <1>5, GuardLooksUp
<1>10. pc'[r] \in Verdicts => job'[r].found = Current(k) /\ Found(r)
  BY <1>1, <1>3, <1>5, <1>7, <1>8, GuardFacts
<1>11. WellInformed(r)'
  <2>1. pc'[r] # "idle"
    BY <1>2 DEF GuardPlaces, Verdicts
  <2>2. QED
    BY <2>1, <1>2, <1>4, <1>5, <1>6, <1>9 DEF WellInformed, Nothing
<1>12. ASSUME pc'[r] \in Verdicts
       PROVE  /\ pc'[r] = "admitted" <=> Admits(u, k, job'[r].needs)
              /\ pc'[r] = "notfound" <=> Hides(u, k)
  <2>1. pc'[r] = Verdict(ClaimsOf(u), k, Current(k), job'[r].needs)
    BY <1>3, <1>5, <1>10, <1>12 DEF Found
  <2>2. job'[r].needs \in SUBSET Roles
    BY <1>2 DEF Guards
  <2>3. PICK needs \in SUBSET Roles : needs = job'[r].needs
    BY <2>2
  <2>4. /\ Verdict(ClaimsOf(u), k, Current(k), needs) = "admitted" <=> Admits(u, k, needs)
        /\ Verdict(ClaimsOf(u), k, Current(k), needs) = "notfound" <=> Hides(u, k)
    BY <1>1, VerdictRight
  <2>5. QED
    BY <2>1, <2>3, <2>4
<1>13. Decided(r)'
  BY <1>4, <1>6, <1>12 DEF Decided, Verdicts
<1>14. QED
  BY <1>11, <1>13

LEMMA GuardStep == GuardInv /\ [Next]_vars => GuardInv'
<1> SUFFICES ASSUME GuardInv, [Next]_vars PROVE GuardInv'
  OBVIOUS
<1>0. Typed /\ Distinct /\ Typed' /\ calm \subseteq Requests
  BY TypedStep DEF GuardInv, Typed
<1>a. calm # {} => Settled
  BY DEF GuardInv
<1>1. ASSUME NEW r \in Requests,
             BeginCreate(r) \/ BeginRename(r) \/ BeginDelete(r) \/ BeginRestore(r)
      PROVE  GuardInv'
  <2>1. /\ UNCHANGED <<tables, cache, calm>> /\ pc[r] = "idle" /\ Begins(r)
    BY <1>0, <1>1, ChangeBegins DEF Begins
  <2>2. pc'[r] \notin {"id", "set"} /\ \A q \in Requests \ {r} : Keeps(q)
    BY <2>1 DEF Begins, ChangePlaces
  <2>3. r \notin calm
    BY <2>1 DEF GuardInv, WellInformed
  <2>4. QED
    BY <1>0, <1>a, <2>1, <2>2, <2>3, CalmStays DEF tables
<1>2. ASSUME NEW r \in Requests, BeginGuard(r) PROVE GuardInv'
  <2>1. /\ UNCHANGED <<tables, cache, missed>> /\ pc'[r] = "get"
        /\ \A q \in Requests \ {r} : Keeps(q)
        /\ job'[r] \in Guards /\ job'[r].claim = claims[job'[r].user]
    BY <1>0, <1>2, GuardBegins
  <2>2. r \notin calm
    BY <1>2 DEF GuardInv, WellInformed, BeginGuard
  <2>3. CASE calm' = calm
    BY <1>0, <1>a, <2>1, <2>2, <2>3, CalmStays DEF tables
  <2>4. CASE calm' = calm \cup {r} /\ Fresh(job'[r].user) /\ Settled
    <3>1. PICK u \in Users : u = job'[r].user
      BY <2>1 DEF Guards
    <3>2. tenant' = tenant /\ person' = person
      BY <2>1 DEF tables
    <3>3. job'[r].claim = ClaimsOf(u) /\ ClaimsOf(u)' = ClaimsOf(u)
      BY <2>1, <2>4, <3>1, <3>2, PeopleKept DEF Fresh
    <3>4. WellInformed(r)'
      BY <2>1, <3>1, <3>3 DEF WellInformed
    <3>5. Decided(r)'
      BY <2>1 DEF Decided, Verdicts
    <3>6. QED
      BY <1>0, <2>1, <2>4, <3>2, <3>4, <3>5, CalmStays
  <2>5. QED
    BY <1>0, <1>2, <2>3, <2>4, GuardBegins
<1>3. ASSUME NEW r \in Requests, CheckSlug(r) \/ WriteRefused(r) \/ Break(r) PROVE GuardInv'
  <2>1. /\ UNCHANGED <<tables, cache, calm>>
        /\ job'[r] = job[r] /\ (pc'[r] = "write" \/ Ends(r))
        /\ \A q \in Requests \ {r} : Keeps(q)
    BY <1>0, <1>3, ChangeSteps DEF Checked, Ends
  <2>2. r \in calm => Ends(r)
    BY <1>0, <1>3, ChangeSteps, JobsDiffer DEF Checked, Ends, GuardInv, WellInformed, Typed, ChangePlaces
  <2>3. QED
    BY <1>0, <1>a, <2>1, <2>2, CalmStays DEF tables, Ends
<1>4. ASSUME NEW r \in Requests, Invalidate(r) PROVE GuardInv'
  <2>1. /\ UNCHANGED <<tables, calm>> /\ Ends(r) /\ job'[r] = job[r]
        /\ \A q \in Requests \ {r} : Keeps(q)
        /\ \A k \in Keys : cache'[k] \in {Nothing, cache[k]}
    BY <1>0, <1>4, ChangeSteps DEF Ends
  <2>2. QED
    BY <1>0, <1>a, <2>1, CalmStays DEF tables, Ends
<1>5. ASSUME NEW r \in Requests, GuardSteps(r) PROVE GuardInv'
  <2>1. /\ UNCHANGED <<tables, calm>>
        /\ \A q \in Requests \ {r} : Keeps(q)
        /\ job[r] \in Guards /\ job[r].key \in Keys
        /\ \A k \in Keys :
             \/ cache'[k] \in {Nothing, cache[k]}
             \/ pc[r] = "set" /\ job[r].key = k /\ cache'[k] = job[r].found
    BY <1>0, <1>5, GuardFacts DEF Guards
  <2>2. calm' # {} => /\ pc[r] = "id" => BySlug(job[r].key) = Nothing
                      /\ pc[r] = "set" => job[r].found \in {Nothing, Current(job[r].key)}
    BY <1>a, <2>1 DEF Settled
  <2>3. calm' # {} => /\ pc'[r] = "id" => BySlug(job'[r].key) = Nothing
                      /\ pc'[r] = "set" => job'[r].found \in {Nothing, Current(job'[r].key)}
    BY <1>0, <1>5, <2>2, GuardLooksUp
  <2>4. ASSUME calm' # {}, NEW k \in Keys PROVE cache'[k] \in {Nothing, cache[k], Current(k)}
    BY <2>1, <2>2, <2>4
  <2>5. r \in calm => WellInformed(r)' /\ Decided(r)'
    BY <1>5, GuardInformed
  <2>6. QED
    BY <1>0, <1>a, <2>1, <2>3, <2>4, <2>5, CalmStays DEF tables
<1>6. ASSUME NEW r \in Requests, Write(r) PROVE GuardInv'
  <2>1. calm' = {} /\ Distinct'
    BY <1>0, <1>6, WriteFacts DEF Write, Commit
  <2>2. QED
    BY <1>0, <2>1 DEF GuardInv, GuardRight
<1>7. CASE \/ \E u \in Users : RefreshClaims(u)
           \/ \E k \in Keys : Lapse(k)
           \/ Restart
           \/ UNCHANGED vars
  <2>1. /\ UNCHANGED <<tenant, person, job, calm>> /\ \A k \in Keys : cache'[k] \in {Nothing, cache[k]}
        /\ \A q \in Requests : pc'[q] \in {pc[q], "failed"}
    BY <1>0, <1>7, OutsideTyped
  <2>2. \A q \in Requests : (Keeps(q) \/ Ends(q)) /\ job'[q] = job[q]
    BY <2>1 DEF Keeps, Ends
  <2>3. \A q \in Requests : pc'[q] \notin {"id", "set"} \/ Keeps(q)
    BY <2>2 DEF Ends
  <2>4. QED
    BY <1>0, <1>a, <2>1, <2>2, <2>3, CalmStays
<1>8. QED
  BY <1>1, <1>2, <1>3, <1>4, <1>5, <1>6, <1>7, TypedStep DEF Next, Proceed, GuardSteps

(* A guard that began with everything up to date, and during which nothing    *)
(* changed, goes by the church that the key names: it admits super-admins and *)
(* the members who have the role that the route requires, and tells all but   *)
(* these and the members without the role that there is no such church.       *)
THEOREM GuardDecidesRight == Spec => []GuardRight
<1>1. Init => GuardInv
  BY TypedInit DEF Init, GuardInv, GuardRight
<1>2. GuardInv => GuardRight
  BY DEF GuardInv
<1>3. QED
  BY <1>1, <1>2, GuardStep, PTL DEF Spec
=============================================================================
