---------------------------- MODULE Giving_proofs ----------------------------
(***************************************************************************)
(* Proofs about what gifts and pledges are for.  What a request has looked *)
(* up it takes to the write, where it may be archived by now but is still  *)
(* what it was: a pledge keeps its campaign and item, an item its          *)
(* campaign, and no row is ever gone altogether.                           *)
(***************************************************************************)
EXTENDS Giving, TLAPS

Ops == {"record", "update", "pledge", "item"}
Work == [op : Ops, id : Gifts \cup Pledges \cup Items, pledge : Pledges \cup {None},
         campaign : Campaigns \cup {None}, item : Items \cup {None}, clears : SUBSET Clearable]

(* The type invariant. *)
Typed ==
  /\ row \in [Named -> {"absent", "live", "removed", "swept"}]
  /\ promise \in [Pledges -> Purpose]
  /\ gift \in [Gifts -> [row : {"absent", "live", "archived"}, pledge : Pledges \cup {None},
                         campaign : Campaigns \cup {None}, item : Items \cup {None}]]
  /\ pc \in [Requests -> {"idle", "pledge", "campaign", "item", "write", "done", "failed"}]
  /\ DOMAIN job = Requests
  /\ \A r \in Requests : Working(r) => job[r] \in Work

(* What each place of a request says of what it names. *)
Placed ==
  \A r \in Requests :
    /\ Working(r) => /\ job[r].op \in {"record", "update"} => job[r].id \in Gifts
                     /\ job[r].op = "pledge" => job[r].id \in Pledges
                     /\ job[r].op = "item" => job[r].id \in Items
                     /\ job[r].pledge # None => job[r].op \in {"record", "update"}
                     /\ job[r].op = "item" => job[r].item = None
                     /\ job[r].item # None => job[r].pledge # None \/ job[r].campaign # None
    /\ pc[r] = "pledge" => job[r].pledge # None
    /\ pc[r] \in {"campaign", "item"} => job[r].pledge = None /\ job[r].campaign # None
    /\ pc[r] = "item" => job[r].item # None

(* A campaign or item that fits the other. *)
Fits(c, i) == i # None => Home[i] = c

(* What a request has found out by the time it is at a place, and what of    *)
(* that cannot change.                                                       *)
FoundOut ==
  \A r \in Requests :
    /\ pc[r] = "campaign" /\ job[r].op \in {"record", "update"} => Fits(job[r].campaign, job[r].item)
    /\ pc[r] = "write" =>
         IF job[r].pledge = None THEN Fits(job[r].campaign, job[r].item)
         ELSE /\ row[job[r].pledge] # "absent"
              /\ job[r].campaign = promise[job[r].pledge].campaign
              /\ job[r].item = promise[job[r].pledge].item

GivenTo == \A g \in Gifts : gift[g].pledge # None => row[gift[g].pledge] # "absent"

Unpromised == \A p \in Pledges : row[p] = "absent" => promise[p] = Unset

GivingInv == Typed /\ Placed /\ FoundOut /\ GivenTo /\ Unpromised /\ AttributionAgrees

(* Ids of the three kinds differ from one another and from None. *)
LEMMA KindsDiffer ==
  /\ Campaigns \cup Items \cup Pledges = Named
  /\ \A x \in Named : x # None
  /\ \A i \in Items : Home[i] \in Campaigns
  /\ Unset \in Purpose
  BY GivingAssumption DEF Named, Unset, Purpose

LEMMA GivingInit == Init => GivingInv
<1> SUFFICES ASSUME Init PROVE GivingInv
  OBVIOUS
<1>1. Typed
  BY KindsDiffer DEF Init, Typed, Working
<1>2. Placed /\ FoundOut /\ GivenTo
  BY DEF Init, Placed, FoundOut, GivenTo, Working
<1>3. Unpromised
  BY KindsDiffer DEF Init, Unpromised
<1>4. AttributionAgrees
  BY KindsDiffer DEF Init, AttributionAgrees, Unset
<1>5. QED
  BY <1>1, <1>2, <1>3, <1>4 DEF GivingInv

(* A step of request r to another place, which writes no table. *)
LEMMA MovesOn ==
  ASSUME GivingInv, NEW r \in Requests, NEW place, NEW work, Go(r, place, work),
         UNCHANGED tables, loose' = loose,
         place \in {"pledge", "campaign", "item", "write", "failed"},
         place # "failed" =>
           /\ work \in Work
           /\ work.op \in {"record", "update"} => work.id \in Gifts
           /\ work.op = "pledge" => work.id \in Pledges
           /\ work.op = "item" => work.id \in Items /\ work.item = None
           /\ work.pledge # None => work.op \in {"record", "update"}
           /\ work.item # None => work.pledge # None \/ work.campaign # None,
         place = "pledge" => work.pledge # None,
         place \in {"campaign", "item"} => work.pledge = None /\ work.campaign # None,
         place = "item" => work.item # None,
         place = "campaign" /\ work.op \in {"record", "update"} => Fits(work.campaign, work.item),
         place = "write" =>
           IF work.pledge = None THEN Fits(work.campaign, work.item)
           ELSE /\ row[work.pledge] # "absent"
                /\ work.campaign = promise[work.pledge].campaign
                /\ work.item = promise[work.pledge].item
  PROVE  GivingInv'
<1>1. /\ pc'[r] = place /\ job'[r] = work
      /\ \A q \in Requests \ {r} : pc'[q] = pc[q] /\ job'[q] = job[q]
  BY DEF Go, GivingInv, Typed
<1>2. Typed'
  BY <1>1 DEF Go, GivingInv, Typed, Working, tables
<1>3. Placed'
  BY <1>1 DEF GivingInv, Placed, Working
<1>4. FoundOut'
  BY <1>1 DEF GivingInv, FoundOut, tables
<1>5. GivenTo' /\ Unpromised' /\ AttributionAgrees'
  BY DEF GivingInv, GivenTo, Unpromised, AttributionAgrees, tables
<1>6. QED
  BY <1>2, <1>3, <1>4, <1>5 DEF GivingInv

LEMMA BeginStep ==
  ASSUME GivingInv, NEW r \in Requests,
         BeginRecord(r) \/ BeginUpdate(r) \/ BeginPledge(r) \/ BeginAddItem(r)
  PROVE  GivingInv'
<1>1. PICK op \in Ops, id \in Gifts \cup Pledges \cup Items, p \in Pledges \cup {None},
           c \in Campaigns \cup {None}, i \in Items \cup {None}, clears \in SUBSET Clearable :
        /\ Begin(r, op, id, p, c, i, clears)
        /\ op \in {"record", "update"} => id \in Gifts
        /\ op = "pledge" => id \in Pledges /\ c # None
        /\ op = "item" => id \in Items /\ i = None /\ c # None
        /\ p # None => op \in {"record", "update"}
        /\ p = None /\ i # None => c # None
  <2>1. CASE BeginRecord(r)
    <3>1. PICK g \in Gifts, p \in Pledges \cup {None}, c \in Campaigns \cup {None},
               i \in Items \cup {None} :
            Begin(r, "record", g, p, c, i, {}) /\ (p = None /\ i # None => c # None)
      BY <2>1, Zenon DEF BeginRecord
    <3>2. {} \in SUBSET Clearable /\ "record" \in Ops
      BY DEF Ops
    <3>3. QED
      BY <3>1, <3>2, Zenon
  <2>2. CASE BeginUpdate(r)
    BY <2>2, Zenon DEF BeginUpdate, Ops
  <2>3. CASE BeginPledge(r)
    BY <2>3, KindsDiffer DEF BeginPledge, Ops, Named
  <2>4. CASE BeginAddItem(r)
    <3>1. PICK i \in Items : Begin(r, "item", i, None, Home[i], None, {})
      BY <2>4 DEF BeginAddItem
    <3>2. Home[i] \in Campaigns /\ Home[i] # None
      BY KindsDiffer DEF Named
    <3>3. QED
      BY <3>1, <3>2 DEF Ops
  <2>5. QED
    BY <2>1, <2>2, <2>3, <2>4
<1> DEFINE work == [op |-> op, id |-> id, pledge |-> p, campaign |-> c, item |-> i, clears |-> clears]
<1>2. work \in Work
  BY DEF Work
<1>3. FirstCheck(op, p, c, i) \in {"pledge", "campaign", "item", "write"}
  BY DEF FirstCheck
<1>4. Go(r, FirstCheck(op, p, c, i), work) /\ UNCHANGED tables /\ loose' = loose
  BY <1>1 DEF Begin
<1>5. QED
  BY <1>1, <1>2, <1>3, <1>4, MovesOn DEF FirstCheck, Fits, Ops

LEMMA CheckStep ==
  ASSUME GivingInv, NEW r \in Requests, CheckPledge(r) \/ CheckCampaign(r) \/ CheckItem(r)
  PROVE  GivingInv'
<1>0. /\ job[r] \in Work /\ Working(r)
      /\ pc[r] \in {"pledge", "campaign", "item"}
      /\ UNCHANGED tables /\ loose' = loose
  BY DEF CheckPledge, CheckCampaign, CheckItem, GivingInv, Typed, Working
<1>1. CASE CheckPledge(r)
  <2>1. job[r].pledge \in Pledges /\ row[job[r].pledge] = "live"
    BY <1>0, <1>1 DEF CheckPledge, GivingInv, Placed, Work, Live
  <2>2. promise[job[r].pledge] \in Purpose
    BY <2>1 DEF GivingInv, Typed
  <2> DEFINE for == promise[job[r].pledge]
  <2>3. /\ Taken(r) = [job[r] EXCEPT !.campaign = for.campaign, !.item = for.item]
        /\ for.campaign \in Campaigns \cup {None} /\ for.item \in Items \cup {None}
    BY <2>2 DEF Taken, Purpose
  <2>4. /\ Taken(r) \in Work
        /\ Taken(r).op = job[r].op /\ Taken(r).id = job[r].id /\ Taken(r).pledge = job[r].pledge
        /\ Taken(r).campaign = for.campaign /\ Taken(r).item = for.item
    BY <1>0, <2>3 DEF Work
  <2>5. /\ job[r].op \in {"record", "update"} /\ job[r].id \in Gifts /\ job[r].pledge # None
    BY <1>0, <1>1 DEF CheckPledge, GivingInv, Placed
  <2>6. Go(r, "write", Taken(r))
    BY <1>1 DEF CheckPledge
  <2>7. QED
    BY <1>0, <2>1, <2>4, <2>5, <2>6, MovesOn
<1>2. CASE CheckCampaign(r)
  <2>1. PICK place \in {"item", "write"} :
          Go(r, place, job[r]) /\ (place = "item" <=> job[r].op = "pledge" /\ job[r].item # None)
    BY <1>2 DEF CheckCampaign
  <2>2. job[r].pledge = None /\ job[r].campaign # None /\ pc[r] = "campaign"
    BY <1>2 DEF CheckCampaign, GivingInv, Placed
  <2>3. place = "write" => Fits(job[r].campaign, job[r].item)
    BY <1>0, <2>1, <2>2 DEF Fits, GivingInv, FoundOut, Placed, Work, Ops
  <2>4. QED
    BY <1>0, <2>1, <2>2, <2>3, MovesOn DEF GivingInv, Placed
<1>3. CASE CheckItem(r)
  <2>1. PICK place \in {"campaign", "write"} : Go(r, place, job[r])
    BY <1>3 DEF CheckItem
  <2>2. job[r].pledge = None /\ job[r].campaign # None /\ pc[r] = "item"
    BY <1>3 DEF CheckItem, GivingInv, Placed
  <2>3. Fits(job[r].campaign, job[r].item)
    BY <1>3 DEF CheckItem, ItemFits, Fits
  <2>4. QED
    BY <1>0, <2>1, <2>2, <2>3, MovesOn DEF GivingInv, Placed
<1>4. QED
  BY <1>1, <1>2, <1>3

LEMMA FailStep ==
  ASSUME GivingInv, NEW r \in Requests, Refuse(r) \/ Break(r)
  PROVE  GivingInv'
<1>1. Go(r, "failed", job[r]) /\ UNCHANGED tables /\ loose' = loose
  BY DEF Refuse, Break, Fail
<1>2. QED
  BY <1>1, MovesOn

(* Request r has written; what it wrote is the caller's concern. *)
LEMMA Finishes ==
  ASSUME GivingInv, NEW r \in Requests, Go(r, "done", job[r]),
         \A q \in Requests : pc[q] = "write" /\ job[q].pledge # None =>
           /\ row'[job[q].pledge] # "absent"
           /\ promise'[job[q].pledge] = promise[job[q].pledge]
  PROVE  /\ pc' \in [Requests -> {"idle", "pledge", "campaign", "item", "write", "done", "failed"}]
         /\ DOMAIN job' = Requests
         /\ \A q \in Requests : Working(q)' => job'[q] \in Work
         /\ Placed' /\ FoundOut'
<1>1. /\ pc'[r] = "done" /\ DOMAIN job' = Requests
      /\ \A q \in Requests : job'[q] = job[q]
      /\ \A q \in Requests \ {r} : pc'[q] = pc[q]
  BY DEF Go, GivingInv, Typed
<1>2. pc' \in [Requests -> {"idle", "pledge", "campaign", "item", "write", "done", "failed"}]
  BY DEF Go, GivingInv, Typed
<1>3. /\ DOMAIN job' = Requests
      /\ \A q \in Requests : Working(q)' => job'[q] \in Work
  BY <1>1 DEF GivingInv, Typed, Working
<1>4. Placed'
  BY <1>1 DEF GivingInv, Placed, Working
<1>5. FoundOut'
  BY <1>1 DEF GivingInv, FoundOut
<1>6. QED
  BY <1>2, <1>3, <1>4, <1>5

(* A write of one gift keeps the rest of the invariant. *)
LEMMA GiftWritten ==
  ASSUME GivingInv, NEW r \in Requests, Go(r, "done", job[r]),
         UNCHANGED <<row, promise>>,
         NEW g \in Gifts, NEW new, gift' = [gift EXCEPT ![g] = new],
         new \in [row : {"absent", "live", "archived"}, pledge : Pledges \cup {None},
                  campaign : Campaigns \cup {None}, item : Items \cup {None}],
         new.pledge # None => row[new.pledge] # "absent",
         loose \ {g} \subseteq loose',
         g \notin loose' =>
           /\ Fits(new.campaign, new.item)
           /\ new.pledge # None => /\ new.campaign = promise[new.pledge].campaign
                                   /\ new.item = promise[new.pledge].item
  PROVE  GivingInv'
<1>1. \A q \in Requests : pc[q] = "write" /\ job[q].pledge # None => row[job[q].pledge] # "absent"
  BY DEF GivingInv, FoundOut
<1>2. Typed' /\ Placed' /\ FoundOut'
  BY <1>1, Finishes DEF GivingInv, Typed
<1>3. /\ gift'[g] = new
      /\ \A h \in Gifts \ {g} : gift'[h] = gift[h] /\ (h \notin loose' => h \notin loose)
  BY DEF GivingInv, Typed
<1>4. GivenTo' /\ Unpromised'
  BY <1>3 DEF GivingInv, GivenTo, Unpromised
<1>5. AttributionAgrees'
  BY <1>3 DEF GivingInv, AttributionAgrees, Fits
<1>6. QED
  BY <1>2, <1>4, <1>5 DEF GivingInv

LEMMA GiftStep ==
  ASSUME GivingInv, NEW r \in Requests, Record(r) \/ Update(r)
  PROVE  GivingInv'
<1>0. /\ pc[r] = "write" /\ job[r] \in Work /\ job[r].id \in Gifts
      /\ Go(r, "done", job[r]) /\ UNCHANGED <<row, promise>>
  BY DEF Record, Update, GivingInv, Typed, Working, Placed
<1>1. /\ Columns(r) \in [row : {"absent", "live", "archived"}, pledge : Pledges \cup {None},
                         campaign : Campaigns \cup {None}, item : Items \cup {None}]
      /\ Columns(r).pledge = job[r].pledge /\ Columns(r).campaign = job[r].campaign
      /\ Columns(r).item = job[r].item
  BY <1>0 DEF Columns, Work
<1>2. IF job[r].pledge = None THEN Fits(job[r].campaign, job[r].item)
      ELSE /\ row[job[r].pledge] # "absent"
           /\ job[r].campaign = promise[job[r].pledge].campaign
           /\ job[r].item = promise[job[r].pledge].item
  BY <1>0 DEF GivingInv, FoundOut
<1>3. job[r].pledge # None => Fits(job[r].campaign, job[r].item)
  BY <1>0, <1>2 DEF GivingInv, AttributionAgrees, Fits, Work
<1>4. CASE Record(r)
  <2>1. gift' = [gift EXCEPT ![job[r].id] = Columns(r)] /\ loose' = loose
    BY <1>4 DEF Record
  <2>2. QED
    BY <1>0, <1>1, <1>2, <1>3, <2>1, GiftWritten
<1>5. CASE Update(r)
  <2> DEFINE old == gift[job[r].id]
  <2>1. gift' = [gift EXCEPT ![job[r].id] = Patched(r)]
    BY <1>5 DEF Update
  <2>2. loose' = IF ComesLoose(r) THEN loose \cup {job[r].id}
                 ELSE IF Restated(r) THEN loose \ {job[r].id} ELSE loose
    BY <1>5 DEF Update
  <2>3. CASE job[r].pledge # None
    <3>1. Patched(r) = Columns(r)
      BY <2>3 DEF Patched
    <3>2. loose \ {job[r].id} \subseteq loose'
      BY <2>2
    <3>3. QED
      BY <1>0, <1>1, <1>2, <1>3, <2>1, <2>3, <3>1, <3>2, GiftWritten
  <2>4. CASE job[r].pledge = None
    <3>0. old \in [row : {"absent", "live", "archived"}, pledge : Pledges \cup {None},
                   campaign : Campaigns \cup {None}, item : Items \cup {None}]
      BY <1>0 DEF GivingInv, Typed
    <3> DEFINE clears == job[r].clears
               new == Patched(r)
    <3>1. new = [old EXCEPT !.pledge = Set(None, "pledge" \in clears, @),
                            !.campaign = Set(job[r].campaign, "campaign" \in clears, @),
                            !.item = Set(job[r].item, "item" \in clears, @)]
      BY <2>4 DEF Patched
    <3>2. /\ new \in [row : {"absent", "live", "archived"}, pledge : Pledges \cup {None},
                      campaign : Campaigns \cup {None}, item : Items \cup {None}]
          /\ new.pledge = IF "pledge" \in clears THEN None ELSE old.pledge
          /\ new.campaign = IF SaysCampaign(r) THEN job[r].campaign ELSE old.campaign
          /\ new.item = IF SaysItem(r) THEN job[r].item ELSE old.item
      BY <1>0, <3>0, <3>1 DEF Set, Work, SaysCampaign, SaysItem
    <3>3. new.pledge # None => row[new.pledge] # "absent"
      BY <1>0, <3>2 DEF GivingInv, GivenTo
    <3>4. ASSUME job[r].id \notin loose'
          PROVE  /\ Fits(new.campaign, new.item)
                 /\ new.pledge # None => /\ new.campaign = promise[new.pledge].campaign
                                         /\ new.item = promise[new.pledge].item
      <4>1. ~ComesLoose(r) /\ (job[r].id \notin loose \/ Restated(r))
        BY <2>2, <3>4
      <4>2. job[r].id \notin loose =>
              /\ Fits(old.campaign, old.item)
              /\ old.pledge # None => /\ old.campaign = promise[old.pledge].campaign
                                      /\ old.item = promise[old.pledge].item
        BY <1>0 DEF GivingInv, AttributionAgrees, Fits
      <4>3. new.pledge # None =>
              KeepsPledge(r) /\ new.campaign = old.campaign /\ new.item = old.item
        BY <2>4, <3>2, <4>1 DEF ComesLoose, KeepsPledge
      <4>4. CASE SaysItem(r)
        <5>1. new.item # None => job[r].campaign # None /\ Fits(job[r].campaign, job[r].item)
          BY <1>0, <1>2, <2>4, <3>2, <4>4 DEF GivingInv, Placed, Working
        <5>2. Fits(new.campaign, new.item)
          BY <3>2, <4>4, <5>1 DEF Fits, SaysCampaign
        <5>3. new.pledge = None
          BY <2>4, <4>1, <4>3, <4>4 DEF ComesLoose
        <5>4. QED
          BY <5>2, <5>3
      <4>5. CASE ~SaysItem(r)
        <5>1. job[r].id \notin loose
          BY <2>4, <4>1, <4>5 DEF Restated
        <5>2. old.item # None => ~SaysCampaign(r)
          BY <2>4, <4>1, <4>5 DEF ComesLoose
        <5>3. Fits(new.campaign, new.item)
          BY <3>2, <4>2, <4>5, <5>1, <5>2 DEF Fits
        <5>4. new.pledge # None => new.pledge = old.pledge
          BY <3>2
        <5>5. QED
          BY <4>2, <4>3, <5>1, <5>3, <5>4
      <4>6. QED
        BY <4>4, <4>5
    <3>5. loose \ {job[r].id} \subseteq loose'
      BY <2>2
    <3> HIDE DEF new
    <3>6. gift' = [gift EXCEPT ![job[r].id] = new]
      BY <2>1 DEF new
    <3>7. QED
      BY <1>0, <3>2, <3>3, <3>4, <3>5, <3>6, GiftWritten
  <2>5. QED
    BY <2>3, <2>4
<1>6. QED
  BY <1>4, <1>5

LEMMA PromiseStep ==
  ASSUME GivingInv, NEW r \in Requests, Promise(r)
  PROVE  GivingInv'
<1> DEFINE p == job[r].id
<1>0. /\ pc[r] = "write" /\ job[r] \in Work /\ job[r].op = "pledge" /\ p \in Pledges
      /\ job[r].pledge = None /\ row[p] = "absent"
      /\ p \in Named
  BY KindsDiffer DEF Promise, GivingInv, Typed, Working, Placed, Named
<1>1. /\ row' = [row EXCEPT ![p] = "live"]
      /\ promise' = [promise EXCEPT ![p] = [campaign |-> job[r].campaign, item |-> job[r].item]]
      /\ Go(r, "done", job[r]) /\ UNCHANGED <<gift, loose>>
  BY DEF Promise
<1>2. /\ \A x \in Named \ {p} : row'[x] = row[x]
      /\ row'[p] = "live"
      /\ \A q \in Pledges \ {p} : promise'[q] = promise[q]
      /\ promise'[p] = [campaign |-> job[r].campaign, item |-> job[r].item]
  BY <1>0, <1>1 DEF GivingInv, Typed
<1>3. \A q \in Requests : pc[q] = "write" /\ job[q].pledge # None =>
        job[q].pledge \in Pledges \ {p} /\ row[job[q].pledge] # "absent"
  BY <1>0 DEF GivingInv, FoundOut, Typed, Working, Work
<1>4. \A q \in Requests : pc[q] = "write" /\ job[q].pledge # None =>
           /\ row'[job[q].pledge] # "absent"
           /\ promise'[job[q].pledge] = promise[job[q].pledge]
  BY <1>2, <1>3 DEF Named
<1>5. /\ pc' \in [Requests -> {"idle", "pledge", "campaign", "item", "write", "done", "failed"}]
      /\ DOMAIN job' = Requests
      /\ \A q \in Requests : Working(q)' => job'[q] \in Work
      /\ Placed' /\ FoundOut'
  BY <1>1, <1>4, Finishes
<1>6. Typed'
  <2>1. [campaign |-> job[r].campaign, item |-> job[r].item] \in Purpose
    BY <1>0 DEF Work, Purpose
  <2>2. QED
    BY <1>0, <1>1, <1>5, <2>1 DEF GivingInv, Typed
<1>7. \A g \in Gifts : gift[g].pledge # None => gift[g].pledge \in Pledges \ {p}
  BY <1>0 DEF GivingInv, Typed, GivenTo
<1>8. GivenTo' /\ Unpromised'
  BY <1>1, <1>2, <1>7 DEF GivingInv, GivenTo, Unpromised, Named
<1>9. AttributionAgrees'
  <2>1. job[r].item # None => Home[job[r].item] = job[r].campaign
    BY <1>0 DEF GivingInv, FoundOut, Fits
  <2>2. QED
    BY <1>1, <1>2, <1>7, <2>1 DEF GivingInv, AttributionAgrees
<1>10. QED
  BY <1>5, <1>6, <1>8, <1>9 DEF GivingInv

(* Rows that change state, none of them to "absent". *)
LEMMA RowsChange ==
  ASSUME GivingInv, row' \in [Named -> {"absent", "live", "removed", "swept"}],
         \A x \in Named : row[x] # "absent" => row'[x] # "absent",
         UNCHANGED <<promise, gift, loose, pc, job>>
  PROVE  GivingInv'
<1>1. Typed'
  BY DEF GivingInv, Typed, Working
<1>2. Placed'
  BY DEF GivingInv, Placed, Working
<1>3. FoundOut'
  <2>1. \A r \in Requests : pc[r] = "write" /\ job[r].pledge # None => job[r].pledge \in Named
    BY DEF GivingInv, Typed, Working, Work, Named
  <2>2. QED
    BY <2>1 DEF GivingInv, FoundOut
<1>4. GivenTo' /\ Unpromised'
  BY DEF GivingInv, Typed, GivenTo, Unpromised, Named
<1>5. AttributionAgrees'
  BY DEF GivingInv, AttributionAgrees
<1>6. QED
  BY <1>1, <1>2, <1>3, <1>4, <1>5 DEF GivingInv

LEMMA AddItemStep ==
  ASSUME GivingInv, NEW r \in Requests, AddItem(r)
  PROVE  GivingInv'
<1> DEFINE i == job[r].id
<1>0. /\ i \in Named /\ Go(r, "done", job[r]) /\ row' = [row EXCEPT ![i] = "live"]
      /\ UNCHANGED <<promise, gift, loose>>
  BY DEF AddItem, GivingInv, Typed, Working, Placed, Named
<1>1. /\ row' \in [Named -> {"absent", "live", "removed", "swept"}]
      /\ \A x \in Named : row[x] # "absent" => row'[x] # "absent"
      /\ \A x \in Named : row'[x] = "absent" => row[x] = "absent"
  BY <1>0 DEF GivingInv, Typed
<1>2. \A q \in Requests : pc[q] = "write" /\ job[q].pledge # None =>
        job[q].pledge \in Named /\ row[job[q].pledge] # "absent"
  BY DEF GivingInv, FoundOut, Typed, Working, Work, Named
<1>3. Typed' /\ Placed' /\ FoundOut'
  BY <1>0, <1>1, <1>2, Finishes DEF GivingInv, Typed
<1>4. GivenTo' /\ Unpromised' /\ AttributionAgrees'
  BY <1>0, <1>1 DEF GivingInv, Typed, GivenTo, Unpromised, AttributionAgrees, Named
<1>5. QED
  BY <1>3, <1>4 DEF GivingInv

LEMMA GivingStep == GivingInv /\ [Next]_vars => GivingInv'
<1> SUFFICES ASSUME GivingInv, [Next]_vars PROVE GivingInv'
  OBVIOUS
<1>1. CASE UNCHANGED vars
  BY <1>1, RowsChange DEF vars, GivingInv, Typed
<1>2. ASSUME NEW r \in Requests,
             \/ BeginRecord(r) \/ BeginUpdate(r) \/ BeginPledge(r) \/ BeginAddItem(r)
             \/ CheckPledge(r) \/ CheckCampaign(r) \/ CheckItem(r) \/ Refuse(r)
             \/ Record(r) \/ Update(r) \/ Promise(r) \/ AddItem(r) \/ Break(r)
      PROVE  GivingInv'
  BY <1>2, BeginStep, CheckStep, FailStep, GiftStep, PromiseStep, AddItemStep
<1>3. ASSUME NEW x \in Named, Archive(x) PROVE GivingInv'
  <2> DEFINE swept == {x} \cup {i \in Items : Live(i) /\ x = Home[i]}
  <2>1. /\ row' = [y \in Named |-> IF y \in swept THEN IF y = x THEN "removed" ELSE "swept" ELSE row[y]]
        /\ UNCHANGED <<promise, gift, loose, pc, job>>
    BY <1>3 DEF Archive, Becomes
  <2>2. QED
    BY <2>1, RowsChange DEF GivingInv, Typed
<1>4. ASSUME NEW x \in Named, Restore(x) PROVE GivingInv'
  <2> DEFINE back == {x} \cup {i \in Items : row[i] = "swept" /\ x = Home[i]}
  <2>1. /\ row' = [y \in Named |-> IF y \in back THEN "live" ELSE row[y]]
        /\ UNCHANGED <<promise, gift, loose, pc, job>>
    BY <1>4 DEF Restore, Becomes
  <2>2. QED
    BY <2>1, RowsChange DEF GivingInv, Typed
<1>5. ASSUME NEW g \in Gifts, ArchiveGift(g) PROVE GivingInv'
  <2>1. /\ gift' = [gift EXCEPT ![g].row = IF @ = "live" THEN "archived" ELSE "live"]
        /\ UNCHANGED <<row, promise, pc, job, loose>>
    BY <1>5 DEF ArchiveGift
  <2>2. gift'[g] = [gift[g] EXCEPT !.row = IF @ = "live" THEN "archived" ELSE "live"]
    BY <2>1 DEF GivingInv, Typed
  <2>3. \A h \in Gifts : /\ gift'[h].pledge = gift[h].pledge
                         /\ gift'[h].campaign = gift[h].campaign
                         /\ gift'[h].item = gift[h].item
    BY <2>1, <2>2 DEF GivingInv, Typed
  <2>4. Typed'
    BY <2>1 DEF GivingInv, Typed, Working
  <2>5. Placed' /\ FoundOut'
    BY <2>1 DEF GivingInv, Placed, FoundOut, Working
  <2>6. GivenTo' /\ Unpromised' /\ AttributionAgrees'
    BY <2>1, <2>3 DEF GivingInv, GivenTo, Unpromised, AttributionAgrees
  <2>7. QED
    BY <2>4, <2>5, <2>6 DEF GivingInv
<1>6. QED
  BY <1>1, <1>2, <1>3, <1>4, <1>5 DEF Next

(* However checks and writes interleave with archiving and restoring, the    *)
(* campaign and item of every pledge agree, and those of every gift of which *)
(* no update changed a part only (AttributionAgrees).                        *)
THEOREM AttributionHolds == Spec => []AttributionAgrees
<1>1. GivingInv => AttributionAgrees
  BY DEF GivingInv
<1>2. QED
  BY <1>1, GivingInit, GivingStep, PTL DEF Spec
-----------------------------------------------------------------------------
(* What a request not overtaken has found live, place by place, still is.  *)
StillLive ==
  \A r \in Requests \ overtaken :
    /\ pc[r] = "write" => \A x \in Checked(r) : Live(x)
    /\ pc[r] = "campaign" /\ job[r].op # "pledge" /\ job[r].item # None => Live(job[r].item)
    /\ pc[r] = "item" /\ job[r].op = "pledge" => Live(job[r].campaign)

LEMMA StillLiveInit == Init => StillLive
  BY DEF Init, StillLive

(* A request begins: only with nothing to check is it at its write at once. *)
LEMMA StillLiveBegin ==
  ASSUME GivingInv, StillLive, NEW r \in Requests,
         BeginRecord(r) \/ BeginUpdate(r) \/ BeginPledge(r) \/ BeginAddItem(r)
  PROVE  StillLive'
<1>1. PICK op, id, p, c, i, clears :
        /\ Begin(r, op, id, p, c, i, clears)
        /\ op \in {"record", "update"} => (p = None /\ i # None => c # None)
        /\ op \in {"pledge", "item"} => p = None /\ c # None
        /\ op = "item" => i = None
        /\ op \in Ops
  <2>1. \A i \in Items : Home[i] # None
    BY KindsDiffer DEF Named
  <2>2. \A c \in Campaigns : c # None
    BY KindsDiffer DEF Named
  <2>3. CASE BeginRecord(r)
    BY <2>3, Zenon DEF BeginRecord, Ops
  <2>4. CASE BeginUpdate(r)
    BY <2>4, Zenon DEF BeginUpdate, Ops
  <2>5. CASE BeginPledge(r)
    BY <2>5, <2>2, Zenon DEF BeginPledge, Ops
  <2>6. CASE BeginAddItem(r)
    BY <2>6, <2>1, Zenon DEF BeginAddItem, Ops
  <2>7. QED
    BY <2>3, <2>4, <2>5, <2>6
<1> DEFINE work == [op |-> op, id |-> id, pledge |-> p, campaign |-> c, item |-> i, clears |-> clears]
<1>2. /\ pc'[r] = FirstCheck(op, p, c, i) /\ job'[r] = work
      /\ \A q \in Requests \ {r} : pc'[q] = pc[q] /\ job'[q] = job[q]
      /\ row' = row /\ overtaken' = overtaken
  BY <1>1 DEF Begin, Go, tables, GivingInv, Typed
<1>3. pc'[r] = "write" => p = None /\ c = None /\ i = None
  BY <1>1, <1>2 DEF FirstCheck, Ops
<1>4. pc'[r] = "campaign" => op \in {"pledge", "item"} \/ i = None
  BY <1>1, <1>2 DEF FirstCheck, Ops
<1>5. pc'[r] = "item" => op \in {"record", "update"}
  BY <1>1, <1>2 DEF FirstCheck, Ops
<1>6. QED
  BY <1>1, <1>2, <1>3, <1>4, <1>5 DEF StillLive, Checked, Live

(* A lookup finds its row live, and keeps what the earlier one found. *)
LEMMA StillLiveCheck ==
  ASSUME GivingInv, StillLive, NEW r \in Requests, CheckPledge(r) \/ CheckCampaign(r) \/ CheckItem(r)
  PROVE  StillLive'
<1>1. /\ \A q \in Requests \ {r} : pc'[q] = pc[q] /\ job'[q] = job[q]
      /\ row' = row /\ overtaken' = overtaken
  BY DEF CheckPledge, CheckCampaign, CheckItem, Go, tables, GivingInv, Typed
<1>2. Working(r) /\ job[r] \in Work
  BY DEF CheckPledge, CheckCampaign, CheckItem, GivingInv, Typed, Working
<1>3. CASE CheckPledge(r)
  <2>1. pc'[r] = "write" /\ job'[r] = Taken(r) /\ Live(job[r].pledge)
    BY <1>3 DEF CheckPledge, Go, GivingInv, Typed
  <2>2. Taken(r).pledge = job[r].pledge /\ job[r].pledge # None
    BY <1>2, <1>3 DEF Taken, Work, CheckPledge, GivingInv, Placed
  <2>3. QED
    BY <1>1, <2>1, <2>2 DEF StillLive, Checked, Live
<1>4. CASE CheckCampaign(r)
  <2>1. /\ job'[r] = job[r] /\ Live(job[r].campaign) /\ pc[r] = "campaign"
        /\ job[r].pledge = None
        /\ pc'[r] = IF job[r].op = "pledge" /\ job[r].item # None THEN "item" ELSE "write"
    BY <1>4 DEF CheckCampaign, Go, GivingInv, Typed, Placed
  <2>2. r \notin overtaken /\ pc'[r] = "write" => job[r].item = None \/ Live(job[r].item)
    BY <2>1 DEF StillLive
  <2>3. QED
    BY <1>1, <2>1, <2>2 DEF StillLive, Checked, Live
<1>5. CASE CheckItem(r)
  <2>1. /\ job'[r] = job[r] /\ Live(job[r].item) /\ pc[r] = "item"
        /\ job[r].pledge = None
        /\ pc'[r] = IF job[r].op = "pledge" THEN "write" ELSE "campaign"
    BY <1>5 DEF CheckItem, ItemFits, Go, GivingInv, Typed, Placed
  <2>2. r \notin overtaken /\ job[r].op = "pledge" => Live(job[r].campaign)
    BY <2>1 DEF StillLive
  <2>3. QED
    BY <1>1, <2>1, <2>2 DEF StillLive, Checked, Live
<1>6. QED
  BY <1>3, <1>4, <1>5

(* What a request has at the places that StillLive speaks of. *)
LEMMA CheckedNamed ==
  ASSUME GivingInv, NEW r \in Requests,
         \/ pc[r] = "write"
         \/ pc[r] = "campaign" /\ job[r].item # None
         \/ pc[r] = "item"
  PROVE  /\ Working(r) /\ Checked(r) \subseteq Named
         /\ pc[r] = "campaign" => job[r].item \in Checked(r)
         /\ pc[r] = "item" => job[r].campaign \in Checked(r)
<1>1. Working(r)
  BY DEF Working
<1>2. job[r] \in Work
  BY <1>1 DEF GivingInv, Typed
<1>3. pc[r] \in {"campaign", "item"} => job[r].pledge = None /\ job[r].campaign # None
  BY DEF GivingInv, Placed
<1>4. QED
  BY <1>1, <1>2, <1>3 DEF Checked, Work, Named

(* A request that ends, and whatever adds live rows, leaves the rest alone. *)
LEMMA StillLiveEnd ==
  ASSUME GivingInv, StillLive, NEW r \in Requests,
         \/ Refuse(r) \/ Break(r) \/ Record(r) \/ Update(r) \/ Promise(r) \/ AddItem(r)
  PROVE  StillLive'
<1>1. /\ pc'[r] \in {"failed", "done"}
      /\ \A q \in Requests \ {r} : pc'[q] = pc[q]
      /\ \A q \in Requests : job'[q] = job[q]
      /\ overtaken' = overtaken
  BY DEF Refuse, Break, Fail, Record, Update, Promise, AddItem, Go, tables, GivingInv, Typed
<1>2. \A x \in Named : Live(x) => row'[x] = "live"
  BY DEF Refuse, Break, Fail, Record, Update, Promise, AddItem, tables, Live, GivingInv, Typed
<1>3. \A q \in Requests : /\ Checked(q)' = Checked(q)
                          /\ pc'[q] \in {"write", "campaign", "item"} => pc'[q] = pc[q]
  BY <1>1 DEF Checked
<1>4. ASSUME NEW q \in Requests \ overtaken,
             \/ pc[q] = "write"
             \/ pc[q] = "campaign" /\ job[q].item # None
             \/ pc[q] = "item"
      PROVE  \A y \in Checked(q) : Live(y) => Live(y)'
  BY <1>2, <1>4, CheckedNamed DEF Live
<1>5. QED
  BY <1>1, <1>3, <1>4, CheckedNamed DEF StillLive

(* What is archived overtakes the requests that name it. *)
LEMMA StillLiveArchive ==
  ASSUME GivingInv, StillLive, NEW x \in Named, Archive(x)
  PROVE  StillLive'
<1> DEFINE gone == {x} \cup {i \in Items : Live(i) /\ x = Home[i]}
<1>1. /\ UNCHANGED <<pc, job>>
      /\ \A y \in Named \ gone : row'[y] = row[y]
      /\ overtaken' = overtaken \cup {r \in Requests : Working(r) /\ Checked(r) \cap gone # {}}
  BY DEF Archive, Becomes
<1> HIDE DEF gone
<1>2. ASSUME NEW r \in Requests \ overtaken',
             \/ pc[r] = "write"
             \/ pc[r] = "campaign" /\ job[r].item # None
             \/ pc[r] = "item"
      PROVE  \A y \in Checked(r) : Live(y) => Live(y)'
  <2>1. Checked(r) \cap gone = {} /\ Checked(r) \subseteq Named
    BY <1>1, <1>2, CheckedNamed
  <2>2. QED
    BY <1>1, <2>1 DEF Live
<1>3. \A q \in Requests : Checked(q)' = Checked(q)
  BY <1>1 DEF Checked
<1>4. QED
  BY <1>1, <1>2, <1>3, CheckedNamed DEF StillLive

(* Restoring archives nothing. *)
LEMMA StillLiveRestore ==
  ASSUME GivingInv, StillLive, NEW x \in Named, Restore(x)
  PROVE  StillLive'
<1> DEFINE back == {x} \cup {i \in Items : row[i] = "swept" /\ x = Home[i]}
<1>1. /\ UNCHANGED <<pc, job, overtaken>>
      /\ row' = [y \in Named |-> IF y \in back THEN "live" ELSE row[y]]
  BY DEF Restore, Becomes
<1> HIDE DEF back
<1>2. \A y \in Named : Live(y) => Live(y)'
  BY <1>1 DEF Live
<1>3. \A q \in Requests : Checked(q)' = Checked(q)
  BY <1>1 DEF Checked
<1>4. QED
  BY <1>1, <1>2, <1>3, CheckedNamed DEF StillLive

LEMMA StillLiveStep == GivingInv /\ StillLive /\ [Next]_vars => StillLive'
<1> SUFFICES ASSUME GivingInv, StillLive, [Next]_vars PROVE StillLive'
  OBVIOUS
<1>1. CASE UNCHANGED vars
  BY <1>1 DEF vars, StillLive, Checked, Live
<1>2. ASSUME NEW r \in Requests,
             \/ BeginRecord(r) \/ BeginUpdate(r) \/ BeginPledge(r) \/ BeginAddItem(r)
             \/ CheckPledge(r) \/ CheckCampaign(r) \/ CheckItem(r) \/ Refuse(r)
             \/ Record(r) \/ Update(r) \/ Promise(r) \/ AddItem(r) \/ Break(r)
      PROVE  StillLive'
  BY <1>2, StillLiveBegin, StillLiveCheck, StillLiveEnd
<1>3. ASSUME NEW g \in Gifts, ArchiveGift(g) PROVE StillLive'
  BY <1>3 DEF ArchiveGift, StillLive, Checked, Live
<1>4. QED
  BY <1>1, <1>2, <1>3, StillLiveArchive, StillLiveRestore DEF Next

(* A write names nothing archived, unless it was archived while the request  *)
(* was under way (NamedIsLive).                                              *)
THEOREM NamedIsLiveHolds == Spec => NamedIsLive
<1>1. GivingInv /\ StillLive /\ [Next]_vars =>
        [\A r \in Requests :
           pc[r] = "write" /\ pc'[r] = "done" /\ r \notin overtaken => \A x \in Checked(r) : Live(x)]_vars
  BY DEF StillLive
<1>2. QED
  BY <1>1, GivingInit, GivingStep, StillLiveInit, StillLiveStep, PTL DEF Spec, NamedIsLive
=============================================================================
