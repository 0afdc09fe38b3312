----------------------------- MODULE GiftReports -----------------------------
(***************************************************************************)
(* What the server reports about gifts: the list, the summary, the givers  *)
(* report, the giving trend, gifts without attribution, and the figures of *)
(* a church and of the platform (TransactionRepository, Transaction-       *)
(* FeatureService, TenantFeatureService, AdminFeatureService).             *)
(*                                                                         *)
(* Each report asks the database several questions and puts the answers    *)
(* together; a bucket is a total and a count.  Dates are day numbers, and  *)
(* months and years have a fixed length.                                   *)
(***************************************************************************)
EXTENDS Integers, Sequences, FiniteSets, FiniteSetsExt, SequencesExt

CONSTANTS
  Churches, Members, Campaigns, Items, Pledges, Gifts,
  None,           \* a reference left out
  Unfiltered,     \* a filter left out
  DaysPerMonth, MonthsPerYear,
  Today,
  Lifetime        \* how many days before and after today a lifetime lasts

(* A year has twelve months, or fewer in a small model: the reports clamp    *)
(* the months of a trend to 24.                                              *)
ASSUME CalendarAssumption ==
  DaysPerMonth \in Nat \ {0} /\ MonthsPerYear \in 2 .. 12 /\ Today \in Int /\ Lifetime \in Nat

VARIABLES church, member, campaign, item, pledge, gift   \* the tables

Types == {"TITHE", "OFFERING"}
AllTime == Today - Lifetime .. Today + Lifetime     \* the bounds of a lifetime
InState(row, state) == row # "absent" /\ state \in {row, "all"}

MonthOf(day) == day \div DaysPerMonth
MonthStart(m) == m * DaysPerMonth
MonthEnd(m) == MonthStart(m) + DaysPerMonth - 1
YearStart(day) == MonthStart((MonthOf(day) \div MonthsPerYear) * MonthsPerYear)
Clamp(n, low, high) == Max({low, Min({n, high})})

(* Fault: the month of the last day is left out. *)
MonthsBetweenShort(from, to) ==
  MonthOf(from) .. MonthOf(from) + Max({0, MonthOf(to) - MonthOf(from) - 1})

(* The months of a series, from the one of the first day to that of the last. *)
MonthsBetween(from, to) ==
  MonthOf(from) .. MonthOf(from) + Max({0, MonthOf(to) - MonthOf(from)})

Amount(G) == SumFunctionOnSet([g \in Gifts |-> gift[g].amount], G)
Bucket(G) == [total |-> Amount(G), count |-> Cardinality(G)]
GroupBy(G, f) == [k \in {gift[g][f] : g \in G} |-> Bucket({g \in G : gift[g][f] = k})]
In(groups, k) == IF k \in DOMAIN groups THEN groups[k] ELSE [total |-> 0, count |-> 0]

(* bucketByMonth: zero where there is no gift. *)
Series(G, from, to) ==
  [m \in MonthsBetween(from, to) |-> Bucket({g \in G : MonthOf(gift[g].day) = m})]

-----------------------------------------------------------------------------
(* Filters: a church, a window of days, and what else is asked for.          *)
Window(t, from, to) ==
  [church |-> t, from |-> from, to |-> to,
   member |-> Unfiltered, campaign |-> Unfiltered, type |-> Unfiltered, state |-> "live"]

Matching(w) ==
  {g \in Gifts :
     /\ InState(gift[g].row, w.state)
     /\ gift[g].church = w.church /\ gift[g].day \in w.from .. w.to
     /\ \A f \in {"member", "campaign", "type"} : w[f] \in {Unfiltered, gift[g][f]}}

(* findAll, without the page. *)
List(w) == Bucket(Matching(w))

Summary(w, monthly) ==
  LET G == Matching(w)
      days == {gift[g].day : g \in G}
  IN  [all |-> Bucket(G),
       firstDate |-> IF G = {} THEN None ELSE Min(days),
       lastDate |-> IF G = {} THEN None ELSE Max(days),
       byType |-> GroupBy(G, "type"),
       byCampaign |-> GroupBy(G, "campaign"),
       byMonth |-> IF monthly THEN Series(G, w.from, w.to) ELSE <<>>]

(* The window of a summary: as given, or what is missing filled in; all time; *)
(* or the last `months` months.  None stands for what is not given.           *)
Resolved(from, to, months, lifetime) ==
  IF from # None \/ to # None
  THEN [from |-> IF from # None THEN from ELSE MonthStart(MonthOf(to)),
        to |-> IF to # None THEN to ELSE MonthEnd(MonthOf(Today)), monthly |-> TRUE]
  ELSE IF lifetime THEN [from |-> Today - Lifetime, to |-> Today + Lifetime, monthly |-> FALSE]
  ELSE [from |-> MonthStart(MonthOf(Today) - (Clamp(months, 1, 60) - 1)),
        to |-> MonthEnd(MonthOf(Today)), monthly |-> TRUE]

Unattributed(t, from, to) ==
  LET G == Matching(Window(t, from, to))
  IN  [anonymous |-> Bucket({g \in G : gift[g].member = None}),
       noCampaign |-> Bucket({g \in G : gift[g].campaign = None})]

-----------------------------------------------------------------------------
(* The elements of S in an order that puts none after one it comes before;   *)
(* the database may give those that tie in any.                              *)
Sorted(S, before) ==
  CHOOSE s \in [1 .. Cardinality(S) -> S] :
    /\ Range(s) = S
    /\ \A i, j \in DOMAIN s : i < j => <<s[j], s[i]>> \notin before

Top(limit, s) == SubSeq(s, 1, Min({limit, Len(s)}))

(* The givers report: rank, then ask again about those who are ranked.       *)
Named(t, from, to) == {g \in Matching(Window(t, from, to)) : gift[g].member # None}

Ranking(t, from, to, limit) ==
  LET totals == GroupBy(Named(t, from, to), "member")
      givers == DOMAIN totals
      more == {two \in givers \X givers : totals[two[1]].total > totals[two[2]].total}
  IN  Top(limit, Sorted(givers, more))

GiverRow(t, from, to, m) ==
  LET G == {g \in Named(t, from, to) : gift[g].member = m}
  IN  [member |-> m, archived |-> member[m].row = "archived", all |-> Bucket(G),
       byType |-> GroupBy(G, "type"), byCampaign |-> GroupBy(G, "campaign"),
       monthly |-> Series(G, from, to)]

Givers(t, from, to, limit) ==
  LET ranked == Ranking(t, from, to, limit)
  IN  [i \in 1 .. Len(ranked) |-> GiverRow(t, from, to, ranked[i])]

(* givingTrendByMember, over the window of givingTrend. *)
Trend(t, members, months) ==
  LET to == MonthEnd(MonthOf(Today))
      from == MonthStart(MonthOf(Today) - (Clamp(months, 1, 24) - 1))
      G == Matching(Window(t, from, to))
  IN  [m \in members |-> Series({g \in G : gift[g].member = m}, from, to)]

-----------------------------------------------------------------------------
(* Figures of churches and of the platform.                                  *)
PeopleOf(t) == {m \in Members : member[m].row = "live" /\ member[m].church = t}
Admins(M) == {m \in M : member[m].role = "ADMIN"}

(* Fault: archived gifts count. *)
SinceEver(G, day) == Bucket({g \in G : gift[g].row # "absent" /\ gift[g].day >= day})

Since(G, day) == Bucket({g \in G : gift[g].row = "live" /\ gift[g].day >= day})
GiftsOf(t) == {g \in Gifts : gift[g].church = t}

(* The first of the admins, at most three. *)
Preview(M) == SubSeq(SetToSeq(M), 1, Min({3, Cardinality(M)}))

TenantRow(t) ==
  [memberCount |-> Cardinality(PeopleOf(t)),
   adminCount |-> Cardinality(Admins(PeopleOf(t))),
   adminsPreview |-> Preview(Admins(PeopleOf(t))),
   giftsMtd |-> Since(GiftsOf(t), MonthStart(MonthOf(Today)))]

TenantList(state) == [t \in {t \in Churches : InState(church[t].row, state)} |-> TenantRow(t)]

PlatformStats ==
  LET people == {m \in Members : member[m].row = "live"}
  IN  [totalTenants |-> Cardinality({t \in Churches : church[t].row = "live"}),
       totalMembers |-> Cardinality(people), totalAdmins |-> Cardinality(Admins(people)),
       giftsLast30d |-> Since(Gifts, Today - 30)]

MyChurchSummary(t) ==
  LET received(from, to) == Summary(Window(t, from, to), FALSE)
      month == MonthOf(Today)
  IN  [thisMonth |-> received(MonthStart(month), Today).all,
       byTypeThisMonth |-> received(MonthStart(month), Today).byType,
       lastMonth |-> received(MonthStart(month - 1), MonthEnd(month - 1)).all,
       yearToDate |-> received(YearStart(Today), Today).all,
       memberCount |-> Cardinality(PeopleOf(t))]
=============================================================================
