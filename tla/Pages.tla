-------------------------------- MODULE Pages --------------------------------
(***************************************************************************)
(* What the requests that only read answer: a member's own pages and those *)
(* of the staff, with what a request leaves out filled in (the controllers *)
(* of transactions, pledges, members, campaigns and churches).  Whether    *)
(* the caller may ask is taken as given.                                   *)
(***************************************************************************)
EXTENDS Reports

(* The answer to a request for what is not there. *)
NotFound == [error |-> "not found"]

Default(given, otherwise) == IF given = None THEN otherwise ELSE given

Readable(table, t, x, archivedToo) ==
  /\ table[x].church = t
  /\ table[x].row \in IF archivedToo THEN {"live", "archived"} ELSE {"live"}

(* A page of rows in their order, with the figures of all of them. *)
Page(rows, total, sum, offset, limit) ==
  LET from == Default(offset, 0)
      items == SubSeq(rows, from + 1, Min({Len(rows), from + Default(limit, Len(rows))}))
  IN  [items |-> items, offset |-> from, limit |-> Default(limit, Len(items)),
       total |-> total, sum |-> sum]

-----------------------------------------------------------------------------
(* Gifts.  The church and the member of an own page are the caller's.        *)
GiftPage(w, offset, limit) ==
  LET later == {two \in Gifts \X Gifts : gift[two[1]].day > gift[two[2]].day}
  IN  Page(Sorted(Matching(w), later), List(w).count, List(w).total, offset, limit)

(* Fault: the member asked for is not the caller. *)
MyGiftsAnybody(t, me, w, offset, limit) ==
  IF me = None THEN NotFound ELSE GiftPage([w EXCEPT !.church = t], offset, limit)

MyGifts(t, me, w, offset, limit) ==
  IF me = None THEN NotFound
  ELSE GiftPage([w EXCEPT !.church = t, !.member = me], offset, limit)

(* What a gift names is shown, archived or not. *)
Relation(table, x) == IF x = None THEN None ELSE [id |-> x, archived |-> table[x].row = "archived"]

ShownGift(g) ==
  [id |-> g, member |-> Relation(member, gift[g].member),
   campaign |-> Relation(campaign, gift[g].campaign), item |-> Relation(item, gift[g].item)]

OneGift(t, g, archivedToo) == IF Readable(gift, t, g, archivedToo) THEN ShownGift(g) ELSE NotFound
MyGift(t, me, g) == IF me = None THEN NotFound ELSE OneGift(t, g, FALSE)

StaffSummary(t, q) ==
  LET window == Resolved(q.from, q.to, Default(q.months, 12), q.lifetime)
  IN  Summary([church |-> t, from |-> window.from, to |-> window.to, member |-> q.member,
               campaign |-> q.campaign, type |-> q.type, state |-> q.state], window.monthly)

(* A request for a summary that leaves everything out. *)
NoFilters ==
  [from |-> None, to |-> None, months |-> None, lifetime |-> FALSE, member |-> Unfiltered,
   campaign |-> Unfiltered, type |-> Unfiltered, state |-> "live"]

MySummary(t, me, from, to, months) ==
  IF me = None THEN NotFound
  ELSE StaffSummary(t, [NoFilters EXCEPT !.from = from, !.to = to, !.months = months, !.member = me])

UnattributedPage(t, from, to) == Unattributed(t, Default(from, Today - 7), Default(to, Today))

(* The months of the model have one length; see SetUTCMonth for those that   *)
(* have not.                                                                 *)
GiversPage(t, from, to, limit) ==
  Givers(t, Default(from, MonthStart(MonthOf(Today) - 11)), Default(to, Today), Default(limit, 50))

-----------------------------------------------------------------------------
(* The first day of the givers report, when the request gives none: the      *)
(* month is set first, and a day that month does not have runs over into the *)
(* next one; then the day is set.                                            *)
MonthLength(year, month) ==
  CASE month \in {4, 6, 9, 11} -> 30
    [] month = 2 -> IF year % 4 = 0 THEN 29 ELSE 28
    [] OTHER -> 31

Months(from, to) == 12 * (to.year - from.year) + to.month - from.month + 1

(* Month 0 is December of the year before. *)
InMonth(year, month) == [year |-> year + ((month - 1) \div 12), month |-> ((month - 1) % 12) + 1]

SetUTCMonth(date, month) ==
  LET at == InMonth(date.year, month)
      over == date.day - MonthLength(at.year, at.month)
      next == InMonth(at.year, at.month + 1)
  IN  IF over > 0 THEN [year |-> next.year, month |-> next.month, day |-> over]
      ELSE [year |-> at.year, month |-> at.month, day |-> date.day]

GiversFrom(today) == [SetUTCMonth(today, today.month - 11) EXCEPT !.day = 1]

-----------------------------------------------------------------------------
(* Pledges.                                                                  *)
PledgePage(w, offset, limit) ==
  LET list == PledgeList(w)
      later == {two \in list.items \X list.items : pledge[two[1].id].day > pledge[two[2].id].day}
  IN  Page(Sorted(list.items, later), list.total, list.sum, offset, limit)

MyPledges(t, me, w, offset, limit) ==
  IF me = None THEN NotFound
  ELSE PledgePage([w EXCEPT !.church = t, !.member = me], offset, limit)

OnePledge(t, p, archivedToo) ==
  IF Readable(pledge, t, p, archivedToo) THEN PledgeRow(p, LiveSum(p)) ELSE NotFound

MyPledge(t, me, p, archivedToo) == IF me = None THEN NotFound ELSE OnePledge(t, p, archivedToo)

UrgentPage(t, from, to, limit) ==
  LET items == Urgent(t, from, to, Default(limit, 50))
  IN  Page(items, Len(items), Promised({x.id : x \in Range(items)}), None, Default(limit, 50))

-----------------------------------------------------------------------------
(* Members, campaigns and churches.                                          *)
MemberPage(t, state) == {m \in Members : member[m].church = t /\ InState(member[m].row, state)}

OneMember(t, m, archivedToo) ==
  IF Readable(member, t, m, archivedToo) THEN member[m] ELSE NotFound

MemberFigures(t, m) ==
  LET all == Summary([Window(t, Today - Lifetime, Today + Lifetime) EXCEPT !.member = m], FALSE)
      stats == Stats(t, m)
  IN  [gifts |-> all.all, firstDate |-> all.firstDate, lastDate |-> all.lastDate,
       count |-> [s \in Statuses |-> stats[s].count],
       pledged |-> SumOver(stats, "pledged"), paid |-> SumOver(stats, "paid")]

MemberSummary(t, m) == IF OneMember(t, m, FALSE) = NotFound THEN NotFound ELSE MemberFigures(t, m)

TrendPage(t, members, months) == Trend(t, members, Default(months, 12))

CampaignPage(t, state) == {c \in Campaigns : campaign[c].church = t /\ InState(campaign[c].row, state)}

ItemPage(c, state) == {i \in Items : item[i].campaign = c /\ InState(item[i].row, state)}

OneCampaign(t, c, state) ==
  IF Readable(campaign, t, c, state # "live") THEN [items |-> ItemPage(c, state)] ELSE NotFound

MyCampaign(t, c, archivedToo) == OneCampaign(t, c, IF archivedToo THEN "all" ELSE "live")

ProgressPage(t, c) == IF OneCampaign(t, c, "live") = NotFound THEN NotFound ELSE Progress(c)

(* Zero for a campaign of another church. *)
ProgressBatch(t, cs) ==
  [c \in cs |-> IF campaign[c].church = t THEN ProgressMany(cs)[c]
                ELSE [goal |-> 0, pledged |-> 0, raised |-> 0, pledgeCount |-> 0]]

ChurchPage(t) == IF church[t].row = "live" THEN MyChurchSummary(t) ELSE NotFound
ChurchList(state) == TenantList(state)
-----------------------------------------------------------------------------
Always(t) == Window(t, Today - Lifetime, Today + Lifetime)
Totals(pages) == [total |-> SumOver(pages, "sum"), count |-> SumOver(pages, "total")]

(* The own pages of the members, with the gifts of nobody, make up the       *)
(* pages of the staff: lists, and summaries of two months.                   *)
OwnPagesAddUp(t) ==
  LET everything == GiftPage(Always(t), None, None)
      nobodys(from, to) == Unattributed(t, from, to).anonymous
      mine == [m \in Members |-> MyGifts(t, m, Always(t), None, None)]
      own == [m \in Members |-> MySummary(t, m, None, None, 2).all]
      all == StaffSummary(t, [NoFilters EXCEPT !.months = 2]).all
      window == Resolved(None, None, 2, FALSE)
      promised == PledgePage(Made(t, None, None), None, None)
  IN  /\ Totals(mine).total + nobodys(Today - Lifetime, Today + Lifetime).total = everything.sum
      /\ Totals(mine).count + nobodys(Today - Lifetime, Today + Lifetime).count = everything.total
      /\ SumOver(own, "total") + nobodys(window.from, window.to).total = all.total
      /\ Totals([m \in Members |-> MyPledges(t, m, Made(t, None, None), None, None)])
           = [total |-> promised.sum, count |-> promised.total]

(* The staff's page of a member has the figures of the member's own lists.   *)
MemberPageAgrees(t, m) ==
  LET page == MemberSummary(t, m)
      gifts == MyGifts(t, m, Always(t), None, None)
      pledges(s) == MyPledges(t, m, [Made(t, None, None) EXCEPT !.status = s], None, None)
      all == pledges(Unfiltered)
  IN  IF m \notin MemberPage(t, "live") THEN page = NotFound
      ELSE /\ page.gifts = [total |-> gifts.sum, count |-> gifts.total]
           /\ \A s \in Statuses : page.count[s] = pledges(s).total
           /\ page.pledged = all.sum
           /\ (\A p \in Pledges : pledge[p].row = "live" => pledge[p].paid = LiveSum(p)) =>
                page.paid = SumOf(Range(all.items), "paid")

(* What a list shows can be opened, and no more.                             *)
ListsOpen(t, state) ==
  LET Opens(found, listed) == found = NotFound <=> listed = FALSE
  IN  /\ \A g \in Gifts : state # "archived" =>
           Opens(OneGift(t, g, state = "all"), g \in Range(GiftPage([Always(t) EXCEPT !.state = state], None, None).items))
      /\ \A c \in Campaigns :
           /\ Opens(OneCampaign(t, c, state), c \in CampaignPage(t, IF state = "live" THEN "live" ELSE "all"))
           /\ Opens(ProgressPage(t, c), c \in CampaignPage(t, "live"))
      /\ Opens(ChurchPage(t), t \in DOMAIN ChurchList("live"))

(* While no gift bears a date to come, the givers report and the trend of    *)
(* the members' list, each with its own default window, show the same months. *)
DefaultsAgree(t) ==
  LET trend == TrendPage(t, Members, None)
  IN  (\A g \in GiftsOf(t) : gift[g].row = "live" => gift[g].day <= Today) =>
        \A row \in Range(GiversPage(t, None, None, None)) : row.monthly = trend[row.member]

(* The default window of the givers report starts on the first of a month    *)
(* and has twelve months, or eleven when today is a day that the month       *)
(* eleven months ago does not have.                                          *)
GiversWindow ==
  \A year \in 2023 .. 2026, month \in 1 .. 12 : \A day \in 1 .. MonthLength(year, month) :
    LET today == [year |-> year, month |-> month, day |-> day]
        from == GiversFrom(today)
        ago == InMonth(year, month - 11)
    IN  /\ from.day = 1
        /\ Months(from, today) = IF day > MonthLength(ago.year, ago.month) THEN 11 ELSE 12

(* The pages of the members and of the staff tell the same of the same rows: *)
(* own lists and summaries add up to the staff's, a member's page to the     *)
(* member's own lists, what is listed can be opened, and reports that fill   *)
(* in a window of their own still agree.                                     *)
PagesAgree ==
  /\ GiversWindow
  /\ \A t \in Churches :
       /\ OwnPagesAddUp(t)
       /\ \A m \in Members : MemberPageAgrees(t, m)
       /\ \A state \in {"live", "archived", "all"} : ListsOpen(t, state)
       /\ DefaultsAgree(t)
=============================================================================
