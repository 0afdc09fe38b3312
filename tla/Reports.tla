------------------------------- MODULE Reports -------------------------------
(***************************************************************************)
(* What the server reports about pledges and campaigns, on top of what it  *)
(* reports about gifts, and that the reports agree with one another        *)
(* (PledgeRepository, CampaignRepository, CampaignFeatureService).         *)
(*                                                                         *)
(* A report is evaluated here on one state of the tables.  The server asks *)
(* for its parts in separate statements; a write between two of them shows *)
(* in one and not in the other.                                            *)
(***************************************************************************)
EXTENDS GiftReports

CONSTANTS
  MemberRows, CampaignRows, ItemRows, PledgeRows, GiftRows,  \* rows the tables may hold
  Limits,         \* how many rows a request may ask for
  MaxChanges      \* bound: changes of a behaviour

Statuses == {"ACTIVE", "FULFILLED", "CANCELLED"}
Kept == {"live", "archived"}
Deadlines == Int \cup {None}

(* The columns of the tables; a gift or a pledge may not be there yet. *)
ChurchColumns == [row : Kept]
MemberColumns == [row : Kept, church : Churches, role : {"ADMIN", "USER"}]
CampaignColumns == [row : Kept, church : Churches, deadline : Deadlines]
ItemColumns == [row : Kept, campaign : Campaigns, target : Nat, deadline : Deadlines]
PledgeColumns ==
  [row : Kept \cup {"absent"}, church : Churches, member : Members, campaign : Campaigns,
   item : Items \cup {None}, status : Statuses, pledged : Nat, paid : Nat, day : AllTime]
GiftColumns ==
  [row : Kept \cup {"absent"}, church : Churches, member : Members \cup {None},
   campaign : Campaigns \cup {None}, item : Items \cup {None}, pledge : Pledges \cup {None},
   type : Types, day : AllTime, amount : Nat]

ASSUME RowsAssumption ==
  /\ MemberRows \subseteq MemberColumns /\ CampaignRows \subseteq CampaignColumns
  /\ ItemRows \subseteq ItemColumns /\ PledgeRows \subseteq PledgeColumns
  /\ GiftRows \subseteq GiftColumns

ASSUME TablesAssumption ==
  /\ \A ids \in {Churches, Members, Campaigns, Items, Pledges, Gifts} : IsFiniteSet(ids)
  /\ None \notin Int \cup Members \cup Campaigns \cup Items \cup Pledges
  /\ Unfiltered \notin Members \cup Campaigns \cup Items \cup Types \cup Statuses \cup {None}
  /\ Limits \subseteq Nat \ {0} /\ MaxChanges \in Nat

VARIABLE changes

tables == <<church, member, campaign, item, pledge, gift, changes>>

LiveSum(p) == Amount({g \in Gifts : gift[g].row = "live" /\ gift[g].pledge = p})

(* The item's deadline, archived or not, or else the campaign's. *)
Deadline(p) ==
  LET own == IF pledge[p].item = None THEN None ELSE item[pledge[p].item].deadline
  IN  IF own # None THEN own ELSE campaign[pledge[p].campaign].deadline

(* deriveLifecycle *)
Lifecycle(status, pledged, paid, deadline) ==
  IF status = "CANCELLED" THEN "cancelled"
  ELSE IF status = "FULFILLED" \/ paid >= pledged THEN "fulfilled"
  ELSE IF deadline = None THEN "no-deadline"
  ELSE IF deadline < Today THEN "past-due"
  ELSE IF deadline - Today <= 14 THEN "due-soon" ELSE "on-track"

(* toWithRelations: a pledge with an amount paid. *)
PledgeRow(p, paid) ==
  [id |-> p, status |-> pledge[p].status, paid |-> paid,
   remaining |-> Max({0, pledge[p].pledged - paid}), deadline |-> Deadline(p),
   lifecycle |-> Lifecycle(pledge[p].status, pledge[p].pledged, paid, Deadline(p))]

-----------------------------------------------------------------------------
(* Filters: a church, when the pledge was made, and what else is asked for.  *)
Made(t, from, to) ==
  [church |-> t, from |-> from, to |-> to,
   member |-> Unfiltered, campaign |-> Unfiltered, item |-> Unfiltered, status |-> Unfiltered, state |-> "live"]

PledgesMatching(w) ==
  {p \in Pledges :
     /\ InState(pledge[p].row, w.state) /\ pledge[p].church = w.church
     /\ w.from = None \/ pledge[p].day >= w.from
     /\ w.to = None \/ pledge[p].day <= w.to
     /\ \A f \in {"member", "campaign", "item", "status"} : w[f] \in {Unfiltered, pledge[p][f]}}

Promised(P) == SumFunctionOnSet([p \in Pledges |-> pledge[p].pledged], P)
Stored(P) == SumFunctionOnSet([p \in Pledges |-> pledge[p].paid], P)
Outstanding(P) ==
  SumFunctionOnSet([p \in Pledges |-> Max({0, pledge[p].pledged - pledge[p].paid})], P)

(* findAll: paid amounts are summed afresh from the gifts. *)
PledgeList(w) ==
  LET P == PledgesMatching(w)
  IN  [items |-> {PledgeRow(p, LiveSum(p)) : p \in P}, total |-> Cardinality(P), sum |-> Promised(P)]

ByStatus(P) ==
  [s \in Statuses |-> LET Q == {p \in P : pledge[p].status = s}
                      IN  [count |-> Cardinality(Q), pledged |-> Promised(Q), paid |-> Stored(Q)]]

SumOver(groups, f) == SumFunctionOnSet([k \in DOMAIN groups |-> groups[k][f]], DOMAIN groups)
SumOf(rows, f) == SumFunctionOnSet([x \in rows |-> x[f]], rows)

(* Fault: the status alone says what is open. *)
UnpaidByStatus(P) == {p \in P : pledge[p].status = "ACTIVE"}

(* What is active and not paid, by the stored amounts. *)
Unpaid(P) == {p \in P : pledge[p].status = "ACTIVE" /\ pledge[p].paid < pledge[p].pledged}

(* Rows that are asked for in no order: when they are too many, the database *)
(* may leave out any of them.                                                *)
AtMost(n, P) ==
  IF Cardinality(P) <= n THEN P ELSE CHOOSE Q \in SUBSET P : Cardinality(Q) = n

AgingRows == 10000

PledgesReport(t, from, to) ==
  LET P == PledgesMatching(Made(t, from, to))
      aged == AtMost(AgingRows, Unpaid(P))
      stage(p) == PledgeRow(p, pledge[p].paid).lifecycle
      groups == ByStatus(P)
      aging(l) == LET Q == {p \in aged : stage(p) = l}
                  IN  [count |-> Cardinality(Q), outstanding |-> Outstanding(Q)]
  IN  [statusBreakdown |-> groups,
       totalPledged |-> SumOver(groups, "pledged"), totalPaid |-> SumOver(groups, "paid"),
       totalRemaining |-> Max({0, SumOver(groups, "pledged") - SumOver(groups, "paid")}),
       totalCount |-> SumOver(groups, "count"),
       aging |-> [l \in {stage(p) : p \in aged} |-> aging(l)]]

(* statsForMember *)
Stats(t, m) == ByStatus(PledgesMatching([Made(t, None, None) EXCEPT !.member = m]))

-----------------------------------------------------------------------------
(* findUrgent: a relation that is asked for with `is` must be live.          *)
Horizon == Today + 30
Due(x) == x.row = "live" /\ x.deadline # None /\ x.deadline <= Horizon

(* Fault: an item without a deadline does not fall back on the campaign's. *)
CandidateByOwn(p) ==
  \/ pledge[p].item # None /\ Due(item[pledge[p].item])
  \/ pledge[p].item = None /\ Due(campaign[pledge[p].campaign])

Candidate(p) ==
  \/ pledge[p].item # None /\ Due(item[pledge[p].item])
  \/ /\ Due(campaign[pledge[p].campaign])
     /\ pledge[p].item # None => item[pledge[p].item].row = "live" /\ item[pledge[p].item].deadline = None

Candidates(t, from, to) == {p \in Unpaid(PledgesMatching(Made(t, from, to))) : Candidate(p)}

SampleSize(limit) == Max({6 * limit, 50})
Sample(t, from, to, limit) == AtMost(SampleSize(limit), Candidates(t, from, to))

Rank(l) == CASE l = "past-due" -> 0 [] l = "due-soon" -> 1 [] l = "on-track" -> 2

MoreUrgent(a, b) ==
  \/ Rank(a.lifecycle) < Rank(b.lifecycle)
  \/ /\ Rank(a.lifecycle) = Rank(b.lifecycle)
     /\ a.deadline < b.deadline \/ (a.deadline = b.deadline /\ a.remaining > b.remaining)

Urgent(t, from, to, limit) ==
  LET rows == {PledgeRow(p, pledge[p].paid) : p \in Sample(t, from, to, limit)}
      urgent == {x \in rows : \/ x.lifecycle \in {"past-due", "due-soon"}
                              \/ x.lifecycle = "on-track" /\ x.deadline - Today <= 30}
  IN  Top(limit, Sorted(urgent, {two \in urgent \X urgent : MoreUrgent(two[1], two[2])}))

-----------------------------------------------------------------------------
(* Progress of one campaign, with its live items, and of many.               *)
ItemsOf(c) == {i \in Items : item[i].row = "live" /\ item[i].campaign = c}
Targets(I) == SumFunctionOnSet([i \in Items |-> item[i].target], I)
PledgesFor(c) == {p \in Pledges : pledge[p].row = "live" /\ pledge[p].campaign = c}
GiftsFor(c) == {g \in Gifts : gift[g].row = "live" /\ gift[g].campaign = c}

Progress(c) ==
  [goal |-> Targets(ItemsOf(c)), pledged |-> Promised(PledgesFor(c)),
   raised |-> Amount(GiftsFor(c)), pledgeCount |-> Cardinality(PledgesFor(c)),
   items |-> [i \in ItemsOf(c) |->
     LET P == {p \in PledgesFor(c) : pledge[p].item = i}
     IN  [target |-> item[i].target, pledged |-> Promised(P), pledgeCount |-> Cardinality(P),
          raised |-> Amount({g \in GiftsFor(c) : gift[g].item = i})]]]

(* Fault: gifts to an item do not count for its campaign. *)
ProgressManyUnitemised(cs) ==
  [c \in cs |->
     [goal |-> Targets(ItemsOf(c)), pledged |-> Promised(PledgesFor(c)),
      raised |-> Amount({g \in GiftsFor(c) : gift[g].item = None}),
      pledgeCount |-> Cardinality(PledgesFor(c))]]

ProgressMany(cs) ==
  [c \in cs |->
     [goal |-> Targets(ItemsOf(c)), pledged |-> Promised(PledgesFor(c)),
      raised |-> Amount(GiftsFor(c)), pledgeCount |-> Cardinality(PledgesFor(c))]]

-----------------------------------------------------------------------------
(* The tables: rows are archived and restored, and stored totals catch up.   *)
Other(row) == IF row = "live" THEN "archived" ELSE "live"
Toggled(table, x) == [table EXCEPT ![x].row = Other(@)]

ChangeChurch(t) ==
  /\ church' = Toggled(church, t)
  /\ UNCHANGED <<member, campaign, item, pledge, gift>>

ChangeMember(m) ==
  /\ member' = Toggled(member, m)
  /\ UNCHANGED <<church, campaign, item, pledge, gift>>

ChangeCampaign(c) ==
  /\ campaign' = Toggled(campaign, c)
  /\ UNCHANGED <<church, member, item, pledge, gift>>

ChangeItem(i) ==
  /\ item' = Toggled(item, i)
  /\ UNCHANGED <<church, member, campaign, pledge, gift>>

ChangePledge(p) ==
  /\ pledge[p].row # "absent"
  /\ pledge' = Toggled(pledge, p)
  /\ UNCHANGED <<church, member, campaign, item, gift>>

ChangeGift(g) ==
  /\ gift[g].row # "absent"
  /\ gift' = Toggled(gift, g)
  /\ UNCHANGED <<church, member, campaign, item, pledge>>

Settle(p) ==
  /\ pledge[p].row = "live" /\ pledge[p].paid # LiveSum(p)
  /\ pledge' = [pledge EXCEPT ![p].paid = LiveSum(p)]
  /\ UNCHANGED <<church, member, campaign, item, gift>>

TablesInit ==
  /\ church = [t \in Churches |-> [row |-> "live"]]
  /\ member \in [Members -> MemberRows]
  /\ campaign \in [Campaigns -> CampaignRows]
  /\ item \in [Items -> ItemRows]
  /\ pledge \in [Pledges -> PledgeRows]
  /\ gift \in [Gifts -> GiftRows]
  /\ \A g \in Gifts : gift[g].pledge # None =>
       /\ pledge[gift[g].pledge].row # "absent"
       /\ gift[g].campaign = pledge[gift[g].pledge].campaign
       /\ gift[g].item = pledge[gift[g].pledge].item
  /\ changes = 0

TablesNext ==
  /\ changes < MaxChanges
  /\ changes' = changes + 1
  /\ \/ \E t \in Churches : ChangeChurch(t)
     \/ \E m \in Members : ChangeMember(m)
     \/ \E c \in Campaigns : ChangeCampaign(c)
     \/ \E i \in Items : ChangeItem(i)
     \/ \E p \in Pledges : ChangePledge(p) \/ Settle(p)
     \/ \E g \in Gifts : ChangeGift(g)

TablesSpec == TablesInit /\ [][TablesNext]_tables
-----------------------------------------------------------------------------
AddsUp(groups, all) ==
  SumOver(groups, "total") = all.total /\ SumOver(groups, "count") = all.count

Days == {gift[g].day : g \in Gifts} \cup {pledge[p].day : p \in Pledges} \cup {Today}

(* The list, the summary and its parts. *)
SummaryAgrees(w) ==
  LET s == Summary(w, TRUE)
  IN  /\ s.all = List(w)
      /\ AddsUp(s.byType, s.all) /\ AddsUp(s.byCampaign, s.all) /\ AddsUp(s.byMonth, s.all)

(* The givers report, and the rest of the summary. *)
GiversAgree(t, from, to) ==
  LET all == Summary(Window(t, from, to), FALSE)
      gone == Unattributed(t, from, to)
      totals == GroupBy(Named(t, from, to), "member")
      rows == Givers(t, from, to, Cardinality(Members))
  IN  /\ AddsUp([i \in DOMAIN rows |-> rows[i].all],
                [total |-> all.all.total - gone.anonymous.total,
                 count |-> all.all.count - gone.anonymous.count])
      /\ gone.noCampaign = In(all.byCampaign, None)
      /\ \A x \in Range(rows) :
           AddsUp(x.byType, x.all) /\ AddsUp(x.byCampaign, x.all) /\ AddsUp(x.monthly, x.all)
      /\ \A n \in 1 .. Cardinality(DOMAIN totals) :
           LET leading == Range(Ranking(t, from, to, n))
           IN  /\ Cardinality(leading) = n
               /\ \A m \in leading, o \in DOMAIN totals \ leading : totals[m].total >= totals[o].total

(* "keeps the summary card and the table next to it from diverging":         *)
(* whatever the window and the archive filter, the list, the summary and its *)
(* parts by type, campaign and month agree; givers and anonymous gifts make  *)
(* up the whole, each giver's parts the giver's total, and no giver is left  *)
(* out who gave more than one who is listed.                                 *)
GiftReportsAgree ==
  \A t \in Churches, from, to \in Days :
    /\ \A state \in {"live", "archived", "all"} :
         SummaryAgrees([Window(t, from, to) EXCEPT !.state = state])
    /\ GiversAgree(t, from, to)

(* The figures of the churches add up to those of the platform, archived     *)
(* churches included, and a church's own page agrees with the super-admin's  *)
(* list while no gift bears a date to come; "the first month bucket is       *)
(* always full" and a window of n months has n buckets.                      *)
ChurchFiguresAgree ==
  LET rows == TenantList("all")
      Coming(t) == {g \in GiftsOf(t) : gift[g].row = "live" /\ gift[g].day > Today}
  IN  /\ SumOver(rows, "memberCount") = PlatformStats.totalMembers
      /\ SumOver(rows, "adminCount") = PlatformStats.totalAdmins
      /\ Cardinality(DOMAIN TenantList("live")) = PlatformStats.totalTenants
      /\ \A t \in Churches :
           LET mine == MyChurchSummary(t)
               year == MonthsPerYear - 1
               window == Resolved(None, None, year, FALSE)
               trend == Trend(t, Members, year)
           IN  /\ Coming(t) = {} => mine.thisMonth = rows[t].giftsMtd
               /\ AddsUp(mine.byTypeThisMonth, mine.thisMonth)
               /\ mine.thisMonth.total <= mine.yearToDate.total
               /\ window.from = MonthStart(MonthOf(window.from))
               /\ \A m \in Members :
                    /\ Cardinality(DOMAIN trend[m]) = year
                    /\ trend[m] = Summary([Window(t, window.from, window.to) EXCEPT !.member = m], TRUE).byMonth
-----------------------------------------------------------------------------
(* "Computes derived status + lifecycle server-side so every metric on the   *)
(* page agrees": when the stored totals are right, the report of the pledges *)
(* made in a window has the totals of their list and of the members' own     *)
(* figures and, unless more are unpaid than its chart takes, as many of each *)
(* age, and as much outstanding, as the list.                                *)
PledgeReportsAgree ==
  \A t \in Churches, from, to \in Days :
    LET w == Made(t, from, to)
        list == PledgeList(w)
        report == PledgesReport(t, from, to)
        At(l) == {x \in list.items : x.status = "ACTIVE" /\ x.lifecycle = l}
    IN  (\A p \in PledgesMatching(w) : pledge[p].paid = LiveSum(p)) =>
          /\ report.totalCount = list.total /\ report.totalPledged = list.sum
          /\ report.totalPaid = SumOf(list.items, "paid")
          /\ Cardinality(Unpaid(PledgesMatching(w))) <= AgingRows =>
               \A l \in {"no-deadline", "past-due", "due-soon", "on-track"} :
                 IF At(l) = {} THEN l \notin DOMAIN report.aging
                 ELSE report.aging[l] = [count |-> Cardinality(At(l)),
                        outstanding |-> SumOf(At(l), "remaining")]
          /\ "fulfilled" \notin DOMAIN report.aging
          /\ from = to => \A s \in Statuses :
               SumOver([m \in Members |-> Stats(t, m)[s]], "count")
                 = PledgesReport(t, None, None).statusBreakdown[s].count

(* "the most urgent active pledges": among active, unpaid pledges whose item *)
(* and campaign are live, those due within thirty days are listed, none      *)
(* before one that is more pressing, and, unless there are more than the     *)
(* sample holds, none is left out for one that is less.                      *)
UrgentIsUrgent ==
  \A t \in Churches, from \in Days \cup {None}, limit \in Limits :
    LET listed == Urgent(t, from, None, limit)
        open == {PledgeRow(p, pledge[p].paid) : p \in {p \in Unpaid(PledgesMatching(Made(t, from, None))) :
                   /\ campaign[pledge[p].campaign].row = "live"
                   /\ pledge[p].item # None => item[pledge[p].item].row = "live"}}
        due == {x \in open : x.deadline # None /\ x.deadline - Today <= 30}
    IN  /\ \A i, j \in DOMAIN listed : i < j => ~MoreUrgent(listed[j], listed[i])
        /\ \A x \in Range(listed) : x.deadline - Today <= 30
        /\ Cardinality(Candidates(t, from, None)) <= SampleSize(limit) =>
             \A x \in due \ Range(listed) :
               Len(listed) = limit /\ \A i \in DOMAIN listed : ~MoreUrgent(x, listed[i])

(* A campaign's progress is the same alone and among many; its live items    *)
(* make up its goal, and with what names no item, or an archived one, what   *)
(* is pledged and raised.                                                    *)
ProgressAgrees ==
  \A c \in Campaigns :
    LET one == Progress(c)
        many == ProgressMany(Campaigns)[c]
        rest(X, table) == {x \in X : table[x].item \notin DOMAIN one.items}
    IN  /\ \A f \in DOMAIN many : one[f] = many[f]
        /\ SumOver(one.items, "target") = one.goal
        /\ SumOver(one.items, "pledged") + Promised(rest(PledgesFor(c), pledge)) = one.pledged
        /\ SumOver(one.items, "raised") + Amount(rest(GiftsFor(c), gift)) = one.raised
=============================================================================
