------------------------------ MODULE MCReports ------------------------------
(***************************************************************************)
(* Pages for TLC, in two halves: all kinds of gifts of two members and     *)
(* nobody, with no pledge; and all kinds of pledges, with one gift each.   *)
(* A month has three days, and today is the second of month 1.             *)
(***************************************************************************)
EXTENDS Pages

CONSTANTS t1, t2, m1, m2, m3, c1, i1, p1, p2, g1, g2, g3

MCChurches == {t1, t2}
MCMembers == {m1, m2, m3}
MCCampaigns == {c1}
MCItems == {i1}
MCPledges == {p1, p2}
MCGifts == {g1, g2, g3}

Absent == [row |-> "absent", church |-> t1, member |-> None, campaign |-> None,
           item |-> None, pledge |-> None, type |-> "TITHE", day |-> Today, amount |-> 0]

(* A gift of 1 goes to the campaign, of 2 to none; day 2 is last month. *)
SomeGift(m, day, amount) ==
  [Absent EXCEPT !.row = "live", !.member = m, !.day = day, !.amount = amount,
                 !.campaign = IF amount = 1 THEN c1 ELSE None,
                 !.type = IF day = 2 THEN "TITHE" ELSE "OFFERING"]

LooseGifts ==
  {SomeGift(m1, day, amount) : day \in {2, 3, 5}, amount \in {1, 2}}
    \cup {SomeGift(m2, 2, 1), SomeGift(m2, 3, 2)}
    \cup {SomeGift(None, 3, 1), SomeGift(None, 5, 2)}
    \cup {[SomeGift(m3, Today, 1) EXCEPT !.church = t2, !.campaign = None]}

NoPledge == [row |-> "absent", church |-> t1, member |-> m1, campaign |-> c1, item |-> None,
             status |-> "ACTIVE", pledged |-> 0, paid |-> 0, day |-> Today]

SomePledge(m, i, status, paid) ==
  [NoPledge EXCEPT !.row = "live", !.member = m, !.item = i, !.status = status, !.pledged = 2,
                   !.paid = paid, !.day = IF m = m1 THEN 2 ELSE Today]

SomePledges ==
  {SomePledge(m1, i, "ACTIVE", paid) : i \in {i1, None}, paid \in 0 .. 2}
    \cup {SomePledge(m1, i, s, 1) : i \in {i1, None}, s \in {"FULFILLED", "CANCELLED"}}
ActivePledges == {SomePledge(m2, i, "ACTIVE", 1) : i \in {i1, None}}

(* What is paid towards p1. *)
PaidGifts == {[SomeGift(m1, Today, a) EXCEPT !.campaign = c1, !.pledge = p1, !.item = i] :
                a \in {1, 2}, i \in {i1, None}}

Person(t, role) == [row |-> "live", church |-> t, role |-> role]
CampaignDeadlines == {None, Today + 14, Today + 31}
ItemDeadlines == {None, Today - 1, Today + 15, Today + 30}
MCMemberRows == {Person(t, role) : t \in MCChurches, role \in {"ADMIN", "USER"}}
MCCampaignRows == {[row |-> "live", church |-> t1, deadline |-> d] : d \in CampaignDeadlines}
MCItemRows == {[row |-> "live", campaign |-> c1, target |-> 1, deadline |-> d] : d \in ItemDeadlines}
MCPledgeRows == {NoPledge} \cup SomePledges \cup ActivePledges
MCGiftRows == {Absent} \cup LooseGifts \cup PaidGifts

NoDeadlines ==
  /\ campaign = [c \in Campaigns |-> [row |-> "live", church |-> t1, deadline |-> None]]
  /\ item = [i \in Items |-> [row |-> "live", campaign |-> c1, target |-> 1, deadline |-> None]]

Half ==
  \/ /\ NoDeadlines
     /\ pledge = [p \in Pledges |-> NoPledge]
     /\ gift \in [Gifts -> {Absent} \cup LooseGifts]
  \/ /\ \E p \in {NoPledge} \cup SomePledges, q \in {NoPledge} \cup ActivePledges :
          pledge = (p1 :> p) @@ (p2 :> q)
     /\ \E g \in Gifts, paid \in {Absent} \cup PaidGifts :
          gift = [x \in Gifts |-> IF x = g THEN paid ELSE Absent]

MCInit ==
  /\ member = (m1 :> Person(t1, "USER")) @@ (m2 :> Person(t1, "ADMIN")) @@ (m3 :> Person(t2, "ADMIN"))
  /\ Half
  /\ TablesInit

MCSpec == MCInit /\ [][TablesNext]_tables
Symmetry == Permutations(Gifts)
=============================================================================
