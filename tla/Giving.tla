-------------------------------- MODULE Giving --------------------------------
(***************************************************************************)
(* What gifts and pledges are for: the pledge, the campaign and the item   *)
(* of a campaign that each names (TransactionFeatureService.resolve-       *)
(* Attribution, PledgeFeatureService.create, CampaignFeatureService.add-   *)
(* Item).                                                                  *)
(*                                                                         *)
(* A request looks up what it names, one call after the other, and writes  *)
(* afterwards; meanwhile what it found live may be archived.  Archiving    *)
(* and restoring are single steps here: module SoftDelete takes them       *)
(* apart.  The members that gifts and pledges name are module Members'.    *)
(***************************************************************************)

CONSTANTS
  Campaigns, Items,
  Home,       \* for each item id, the campaign it belongs to (campaignId)
  Pledges, Gifts,
  Requests,   \* requests of a behaviour, each served once
  None

ASSUME GivingAssumption ==
  /\ Home \in [Items -> Campaigns]
  /\ None \notin Campaigns \cup Items \cup Pledges
  /\ Campaigns \cap Items = {} /\ Campaigns \cap Pledges = {} /\ Items \cap Pledges = {}

VARIABLES
  row,        \* of campaigns, items and pledges: are they live
  promise,    \* the pledges: what each is for
  gift,       \* the gifts: what each is for
  pc, job,    \* where each request is; what it names, and what came of that
  overtaken,  \* history: requests that name something archived since they began
  loose       \* history: gifts of which an update changed a part of what they
              \* are for, and kept a pledge or an item that goes with the rest

vars == <<row, promise, gift, pc, job, overtaken, loose>>
tables == <<row, promise, gift>>

Named == Campaigns \cup Items \cup Pledges
Live(x) == row[x] = "live"
Purpose == [campaign : Campaigns \cup {None}, item : Items \cup {None}]
Unset == [campaign |-> None, item |-> None]
Clearable == {"pledge", "campaign", "item"}

Working(r) == pc[r] \notin {"idle", "done", "failed"}
Go(r, place, work) ==
  /\ pc' = [pc EXCEPT ![r] = place]
  /\ job' = [job EXCEPT ![r] = work]
Fail(r) == Go(r, "failed", job[r]) /\ UNCHANGED <<tables, overtaken, loose>>

(* What a request checks is live: of a pledge it takes the rest on trust. *)
Checked(r) ==
  IF job[r].pledge # None THEN {job[r].pledge} ELSE {job[r].campaign, job[r].item} \ {None}
-----------------------------------------------------------------------------
(* The first lookup of a request, and the one that follows a lookup. *)
FirstCheck(op, pledge, campaign, item) ==
  IF op \in {"record", "update"} /\ pledge # None THEN "pledge"
  ELSE IF op \in {"record", "update"} /\ item # None THEN "item"
  ELSE IF campaign # None THEN "campaign" ELSE "write"

Begin(r, op, id, pledge, campaign, item, clears) ==
  /\ pc[r] = "idle"
  /\ Go(r, FirstCheck(op, pledge, campaign, item),
        [op |-> op, id |-> id, pledge |-> pledge, campaign |-> campaign, item |-> item,
         clears |-> clears])
  /\ UNCHANGED <<tables, overtaken, loose>>

(* record and update: any of the three may be left out, but an item alone is  *)
(* refused.  An update may also clear those it gives no value for (null       *)
(* passes the DTO); if it gives a pledge, that has a value for all three.     *)
BeginRecord(r) ==
  \E g \in Gifts, p \in Pledges \cup {None}, c \in Campaigns \cup {None}, i \in Items \cup {None} :
    /\ gift[g].row = "absent"
    /\ p = None /\ i # None => c # None
    /\ Begin(r, "record", g, p, c, i, {})

BeginUpdate(r) ==
  \E g \in Gifts, p \in Pledges \cup {None}, c \in Campaigns \cup {None}, i \in Items \cup {None},
     clears \in SUBSET Clearable :
    /\ gift[g].row = "live"
    /\ p = None /\ i # None => c # None
    /\ p # None => clears = {}
    /\ c # None => "campaign" \notin clears
    /\ i # None => "item" \notin clears
    /\ Begin(r, "update", g, p, c, i, clears)

BeginPledge(r) ==
  \E p \in Pledges, c \in Campaigns, i \in Items \cup {None} :
    /\ row[p] = "absent"
    /\ Begin(r, "pledge", p, None, c, i, {})

BeginAddItem(r) ==
  \E i \in Items :
    /\ row[i] = "absent"
    /\ Begin(r, "item", i, None, Home[i], None, {})

-----------------------------------------------------------------------------
(* The pledge's own campaign and item replace those of the request.          *)
Matches(r) ==
  LET for == promise[job[r].pledge]
  IN  /\ job[r].campaign \in {None, for.campaign}
      /\ job[r].item = None \/ for.item \in {None, job[r].item}

(* Fault: an item the pledge does not have is kept. *)
TakenKeepsItem(r) ==
  LET for == promise[job[r].pledge]
  IN  [job[r] EXCEPT !.campaign = for.campaign, !.item = IF for.item = None THEN @ ELSE for.item]

Taken(r) ==
  LET for == promise[job[r].pledge]
  IN  [job[r] EXCEPT !.campaign = for.campaign, !.item = for.item]

CheckPledge(r) ==
  /\ pc[r] = "pledge" /\ Live(job[r].pledge) /\ Matches(r)
  /\ Go(r, "write", Taken(r))
  /\ UNCHANGED <<tables, overtaken, loose>>

CheckCampaign(r) ==
  /\ pc[r] = "campaign" /\ Live(job[r].campaign)
  /\ Go(r, IF job[r].op = "pledge" /\ job[r].item # None THEN "item" ELSE "write", job[r])
  /\ UNCHANGED <<tables, overtaken, loose>>

ItemFits(r) == Live(job[r].item) /\ Home[job[r].item] = job[r].campaign

(* Fault: whose campaign it is, is enough. *)
CheckItemOnly(r) ==
  /\ pc[r] = "item" /\ ItemFits(r)
  /\ Go(r, "write", job[r])
  /\ UNCHANGED <<tables, overtaken, loose>>

CheckItem(r) ==
  /\ pc[r] = "item" /\ ItemFits(r)
  /\ Go(r, IF job[r].op = "pledge" THEN "write" ELSE "campaign", job[r])
  /\ UNCHANGED <<tables, overtaken, loose>>

Refuse(r) ==
  /\ \/ pc[r] = "pledge" /\ ~(Live(job[r].pledge) /\ Matches(r))
     \/ pc[r] = "campaign" /\ ~Live(job[r].campaign)
     \/ pc[r] = "item" /\ ~ItemFits(r)
     \/ pc[r] = "write" /\ job[r].op = "update" /\ gift[job[r].id].row # "live"
  /\ Fail(r)

-----------------------------------------------------------------------------
(* The write.  An update sets the columns it has values for and those it      *)
(* clears; with a pledge it has one for all three, and sets an item the       *)
(* pledge has not to null.                                                    *)
Columns(r) ==
  [row |-> "live", pledge |-> job[r].pledge, campaign |-> job[r].campaign, item |-> job[r].item]
Set(given, cleared, old) == IF given # None THEN given ELSE IF cleared THEN None ELSE old

Patched(r) ==
  LET old == gift[job[r].id]
      clears == job[r].clears
  IN  IF job[r].pledge # None THEN Columns(r)
      ELSE [old EXCEPT !.pledge = Set(None, "pledge" \in clears, @),
                       !.campaign = Set(job[r].campaign, "campaign" \in clears, @),
                       !.item = Set(job[r].item, "item" \in clears, @)]

SaysCampaign(r) == job[r].campaign # None \/ "campaign" \in job[r].clears
SaysItem(r) == job[r].item # None \/ "item" \in job[r].clears
KeepsPledge(r) ==
  job[r].pledge = None /\ gift[job[r].id].pledge # None /\ "pledge" \notin job[r].clears

(* Nothing compares what an update changes with what it keeps: a pledge may   *)
(* stay beside another campaign or item, an item beside another campaign.     *)
ComesLoose(r) ==
  \/ KeepsPledge(r) /\ (SaysCampaign(r) \/ SaysItem(r))
  \/ job[r].pledge = None /\ SaysCampaign(r) /\ ~SaysItem(r) /\ gift[job[r].id].item # None
Restated(r) == job[r].pledge # None \/ (~KeepsPledge(r) /\ SaysItem(r))

Record(r) ==
  /\ pc[r] = "write" /\ job[r].op = "record" /\ gift[job[r].id].row = "absent"
  /\ gift' = [gift EXCEPT ![job[r].id] = Columns(r)]
  /\ Go(r, "done", job[r])
  /\ UNCHANGED <<row, promise, overtaken, loose>>

Update(r) ==
  /\ pc[r] = "write" /\ job[r].op = "update" /\ gift[job[r].id].row = "live"
  /\ gift' = [gift EXCEPT ![job[r].id] = Patched(r)]
  /\ loose' = IF ComesLoose(r) THEN loose \cup {job[r].id}
              ELSE IF Restated(r) THEN loose \ {job[r].id} ELSE loose
  /\ Go(r, "done", job[r])
  /\ UNCHANGED <<row, promise, overtaken>>

Promise(r) ==
  /\ pc[r] = "write" /\ job[r].op = "pledge" /\ row[job[r].id] = "absent"
  /\ row' = [row EXCEPT ![job[r].id] = "live"]
  /\ promise' = [promise EXCEPT ![job[r].id] = [campaign |-> job[r].campaign, item |-> job[r].item]]
  /\ Go(r, "done", job[r])
  /\ UNCHANGED <<gift, overtaken, loose>>

AddItem(r) ==
  /\ pc[r] = "write" /\ job[r].op = "item" /\ row[job[r].id] = "absent"
  /\ row' = [row EXCEPT ![job[r].id] = "live"]
  /\ Go(r, "done", job[r])
  /\ UNCHANGED <<promise, gift, overtaken, loose>>

Break(r) == Working(r) /\ Fail(r)

-----------------------------------------------------------------------------
(* Archiving and restoring.  A campaign takes its live items with it, and     *)
(* brings those back; an item may come back by itself, whatever its campaign. *)
Becomes(xs, state) ==
  /\ row' = [x \in Named |-> IF x \in xs THEN state[x] ELSE row[x]]
  /\ UNCHANGED <<promise, gift, pc, job, loose>>

Archive(x) ==
  LET swept == {i \in Items : Live(i) /\ x = Home[i]}
  IN  /\ Live(x)
      /\ Becomes({x} \cup swept, [y \in {x} \cup swept |-> IF y = x THEN "removed" ELSE "swept"])
      /\ overtaken' = overtaken \cup {r \in Requests : Working(r) /\ Checked(r) \cap ({x} \cup swept) # {}}

Restore(x) ==
  LET back == {i \in Items : row[i] = "swept" /\ x = Home[i]}
  IN  /\ row[x] \in {"removed", "swept"}
      /\ Becomes({x} \cup back, [y \in {x} \cup back |-> "live"])
      /\ UNCHANGED overtaken

ArchiveGift(g) ==
  /\ gift[g].row # "absent"
  /\ gift' = [gift EXCEPT ![g].row = IF @ = "live" THEN "archived" ELSE "live"]
  /\ UNCHANGED <<row, promise, pc, job, overtaken, loose>>

Init ==
  /\ row \in [Named -> {"absent", "live", "removed"}]
  /\ \A c \in Campaigns : row[c] # "absent"
  /\ \A i \in Items : Live(i) => Live(Home[i])
  /\ \A p \in Pledges : row[p] # "removed"
  /\ promise \in [Pledges -> Purpose]
  /\ \A p \in Pledges :
       IF row[p] = "absent" THEN promise[p] = Unset
       ELSE /\ promise[p].campaign # None
            /\ promise[p].item # None =>
                 row[promise[p].item] # "absent" /\ Home[promise[p].item] = promise[p].campaign
  /\ gift = [g \in Gifts |-> [row |-> "absent", pledge |-> None, campaign |-> None, item |-> None]]
  /\ pc = [r \in Requests |-> "idle"]
  /\ job = [r \in Requests |-> [op |-> "none"]]
  /\ overtaken = {} /\ loose = {}

Next ==
  \/ \E r \in Requests :
       \/ BeginRecord(r) \/ BeginUpdate(r) \/ BeginPledge(r) \/ BeginAddItem(r)
       \/ CheckPledge(r) \/ CheckCampaign(r) \/ CheckItem(r) \/ Refuse(r)
       \/ Record(r) \/ Update(r) \/ Promise(r) \/ AddItem(r) \/ Break(r)
  \/ \E x \in Named : Archive(x) \/ Restore(x)
  \/ \E g \in Gifts : ArchiveGift(g)

Spec == Init /\ [][Next]_vars
-----------------------------------------------------------------------------
(* "If pledgeId is set, campaignId and campaignItemId match the pledge.  If   *)
(* campaignItemId is set, it belongs to campaignId": true of every pledge,    *)
(* and of every gift until an update changes a part of what it is for, which  *)
(* is checked by itself and not against the part that stays.                  *)
AttributionAgrees ==
  /\ \A p \in Pledges : promise[p].item # None => Home[promise[p].item] = promise[p].campaign
  /\ \A g \in Gifts \ loose :
       /\ gift[g].item # None => Home[gift[g].item] = gift[g].campaign
       /\ gift[g].pledge # None =>
            /\ gift[g].campaign = promise[gift[g].pledge].campaign
            /\ gift[g].item = promise[gift[g].pledge].item

(* A gift, a pledge or an item that is written names nothing archived, unless *)
(* it was archived while the request was under way; a gift towards a pledge   *)
(* may name whatever the pledge does.                                         *)
NamedIsLive ==
  [][\A r \in Requests :
       pc[r] = "write" /\ pc'[r] = "done" /\ r \notin overtaken => \A x \in Checked(r) : Live(x)]_vars
=============================================================================
