--------------------------- MODULE MCQueryFilter ---------------------------
(* A church with a campaign, two pledges of one member and two gifts, one   *)
(* of them anonymous and general, and queries up to two relations deep.    *)
EXTENDS QueryFilter, SequencesExt, TLC

CONSTANTS t1, m1, c1, i1, p1, p2, g1, g2, a1

MCModelOf ==
  [x \in Rows |->
     CASE x = t1 -> "Tenant" [] x = m1 -> "Member"
       [] x = c1 -> "Campaign" [] x = i1 -> "CampaignItem"
       [] x \in {p1, p2} -> "Pledge" [] x \in {g1, g2} -> "Transaction"
       [] x = a1 -> "AuditEvent"]

MCKey ==
  [x \in Rows |->
     CASE x = m1 -> [tenant |-> t1, user |-> NoRow]
       [] x \in {c1, a1} -> [tenant |-> t1]
       [] x = i1 -> [campaign |-> c1]
       [] x = p1 -> [campaign |-> c1, campaignItem |-> i1, member |-> m1]
       [] x = p2 -> [campaign |-> c1, campaignItem |-> NoRow, member |-> m1]
       [] x = g1 -> [tenant |-> t1, member |-> m1, campaign |-> c1,
                     campaignItem |-> i1, pledge |-> p1]
       [] x = g2 -> [tenant |-> t1, member |-> NoRow, campaign |-> NoRow,
                     campaignItem |-> NoRow, pledge |-> NoRow]
       [] OTHER -> [field \in {} |-> NoRow]]

(* The element of a set of one.                                             *)
The(S) == CHOOSE x \in S : TRUE

(* f, with its values computed once.                                        *)
Tabled(f) == f @@ [x \in {} |-> NoRow]

Ordered(all) ==
  LET order[S \in SUBSET all] ==
        IF S = {} THEN <<>>
        ELSE LET x == CHOOSE x \in S : TRUE IN <<x>> \o order[S \ {x}]
  IN order[all]

InSomeOrder(S) == The({Ordered(all) : all \in {S}})

Root == [of |-> "", field |-> "", kind |-> "", to |-> ""]

(* Levels written as nested records, the way a query is written.            *)
Args(model, place, via, conds, include, counts) ==
  [model |-> model, place |-> place, via |-> via,
   conds |-> conds, include |-> include, counts |-> counts]

AmongRows(rows) == [op |-> "rows", rows |-> rows, of |-> <<>>]
Cond(op, of) == [op |-> op, rows |-> {}, of |-> of]
Plain(model, place, via, conds) == Args(model, place, via, conds, <<>>, <<>>)
Across(r, place, conds) == Plain(r.to, place, r, conds)

(* Rows that meet a condition on columns.                                   *)
Chosen == {c1, i1, p1, p2, g2, m1}

Asking == {"Member", "Campaign", "Pledge", "Transaction", "AuditEvent"}

Simple == {<<>>, <<AmongRows(Chosen)>>}

Ops(r) == IF r.kind = "toMany" THEN {"some", "none"} ELSE {"is", "isNot"}

(* Conditions on one relation, or through one relation on another.          *)
Filter(op, r, conds) == Cond(op, <<Across(r, "relation", conds)>>)
Filters(model) ==
  UNION {{Filter(op, r, w) : op \in Ops(r), w \in Simple} : r \in RelationsOf(model)}
Through(model) ==
  UNION {{Filter(op, r, <<f>>) : op \in Ops(r), f \in Filters(r.to)} :
           r \in {q \in RelationsOf(model) : q.to \in Archivable}}

(* A relation filter, by itself, negated, or as one of two choices.         *)
OneDeep(model) ==
  UNION {LET one == Plain(model, "logic", Root, <<f>>)
         IN {<<f>>, <<Cond("NOT", <<one>>)>>,
             <<Cond("OR", <<one, Plain(model, "logic", Root, <<AmongRows(Chosen)>>)>>)>>} :
           f \in Filters(model)}

ToMany(model) == {r \in RelationsOf(model) : r.kind = "toMany"}

(* Counts of all relations, of the short form or each with its conditions.  *)
AllCounted(model) ==
  InSomeOrder({Across(r, "countAll", <<>>) : r \in ToMany(model)})
Counted(model) ==
  InSomeOrder({Across(r, "count", w) : r \in ToMany(model), w \in Simple})

(* Included rows with what is included below them, and what is counted.     *)
Including(model) ==
  UNION {{Args(model, "query", Root, <<>>,
               <<Args(r.to, "include", r, w, <<Across(s, "include", <<>>)>>,
                      AllCounted(r.to))>>,
               Counted(model)) :
            w \in IF r.kind = "toMany" THEN {<<AmongRows(Chosen)>>} ELSE {<<>>},
            s \in RelationsOf(r.to)} :
          r \in {q \in RelationsOf(model) : q.to \in Archivable}}

About(m) ==
  {Plain(m, "query", Root, <<AmongRows({x})>>) : x \in {y \in Rows : ModelOf[y] = m}}
  \cup (IF m \in Asking
        THEN {Plain(m, "query", Root, w) : w \in Simple \cup OneDeep(m)} \cup Including(m)
        ELSE {})
  \cup (IF m = "Pledge"
        THEN {Plain(m, "query", Root, <<f>>) : f \in Through(m)}
        ELSE {})

Written ==
  The({FlattenSeq(s) : s \in {InSomeOrder({InSomeOrder(About(m)) : m \in {ModelOf[x] : x \in Rows}})}})

-----------------------------------------------------------------------------
(* The levels of what is written.  A level is a number whose digits are the  *)
(* number of its query and the steps down to it, two for each.              *)

(* A step is 10 * i + j for the j-th level of the i-th condition, 30 + i    *)
(* for an included level and 40 + i for a count; 0 is no step.              *)
Steps(l) ==
  UNION {{10 * i + j : j \in DOMAIN l.conds[i].of} : i \in DOMAIN l.conds}
  \cup {30 + i : i \in DOMAIN l.include} \cup {40 + i : i \in DOMAIN l.counts}

Down(l, step) ==
  IF step = 0 THEN l
  ELSE IF step < 30 THEN l.conds[step \div 10].of[step % 10]
  ELSE IF step < 40 THEN l.include[step - 30] ELSE l.counts[step - 40]

Query(id) == id \div 10000
First(id) == (id \div 100) % 100
Second(id) == id % 100

LevelsOf(n, q) ==
  {10000 * n} \cup
  UNION {{10000 * n + 100 * s + t : t \in {0} \cup Steps(Down(q, s))} : s \in Steps(q)}

Described(id, l) ==
  LET unit == IF First(id) = 0 THEN 100 ELSE 1
      query == 10000 * Query(id)
      first == query + 100 * First(id)
  IN [model |-> l.model, place |-> l.place, via |-> l.via,
      depth |-> IF id = query THEN 0 ELSE IF id = first THEN 1 ELSE 2,
      above |-> {query, first} \ {id},
      conds |-> {[op |-> l.conds[i].op, rows |-> l.conds[i].rows,
                  of |-> {id + unit * (10 * i + j) : j \in DOMAIN l.conds[i].of}] :
                   i \in DOMAIN l.conds},
      include |-> {id + unit * (30 + i) : i \in DOMAIN l.include},
      counts |-> {id + unit * (40 + i) : i \in DOMAIN l.counts}]

TableOf(written) ==
  Tabled([id \in UNION {LevelsOf(n, written[n]) : n \in DOMAIN written} |->
            The({Described(id, l) :
                   l \in {Down(k, Second(id)) : k \in {Down(written[Query(id)], First(id))}}})])

AllQueries == {10000 * n : n \in DOMAIN Written}
LevelTable == The({TableOf(written) : written \in {Written}})
AllLevels == DOMAIN LevelTable

(* TLC works a definition out once, but its use for a constant every time:  *)
(* hence a second name.                                                     *)
MCQueries == AllQueries
MCLevels == AllLevels
MCLevel == LevelTable
=============================================================================
