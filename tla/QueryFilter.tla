---------------------------- MODULE QueryFilter ----------------------------
(***************************************************************************)
(* The soft-delete extension's rewriting of queries.                       *)
(*                                                                         *)
(* Every statement passes through a walker that adds "deletedAt is null"   *)
(* at each level of its where clause, its includes and its counts that is  *)
(* about a model which can be archived; withDeleted runs the same walker   *)
(* beforehand, to put an "any deletedAt" at each such level, which the     *)
(* extension then leaves alone.                                            *)
(*                                                                         *)
(* A query is a tree of levels: the arguments it is asked with, the where  *)
(* clauses inside its own, and the arguments of what it includes and       *)
(* counts.  What the walker changes is only what each level says of        *)
(* deletedAt, so the trees are given and a walk is a function from what is *)
(* said to what is sent.  PostgreSQL is the operator Answer, which         *)
(* evaluates a query on the rows.                                          *)
(***************************************************************************)
EXTENDS Integers, FiniteSets

CONSTANTS
  Rows,           \* the rows of the database
  ModelOf,        \* for each row, the model it is a row of
  Key,            \* for each row, the row each of its foreign keys refers to, or NoRow
  NoRow,          \* no row
  Queries,        \* queries to ask
  Levels,         \* the levels they have, themselves included
  Level,          \* what each of them is
  Deepest         \* how deep a query goes

VARIABLE
  archived        \* the rows whose deletedAt is set

Archivable == {"Tenant", "User", "Member", "Campaign", "CampaignItem", "Pledge",
               "Transaction", "Invitation"}

Relations ==
  {[of |-> r[1], field |-> r[2], kind |-> r[3], to |-> r[4]] : r \in {
     <<"Tenant", "members", "toMany", "Member">>,
     <<"Tenant", "campaigns", "toMany", "Campaign">>,
     <<"Tenant", "transactions", "toMany", "Transaction">>,
     <<"Tenant", "invitations", "toMany", "Invitation">>,
     <<"Tenant", "auditEvents", "toMany", "AuditEvent">>,
     <<"User", "memberships", "toMany", "Member">>,
     <<"Member", "tenant", "toOneRequired", "Tenant">>,
     <<"Member", "user", "toOneOptional", "User">>,
     <<"Member", "transactions", "toMany", "Transaction">>,
     <<"Member", "pledges", "toMany", "Pledge">>,
     <<"Campaign", "tenant", "toOneRequired", "Tenant">>,
     <<"Campaign", "items", "toMany", "CampaignItem">>,
     <<"Campaign", "pledges", "toMany", "Pledge">>,
     <<"Campaign", "transactions", "toMany", "Transaction">>,
     <<"CampaignItem", "campaign", "toOneRequired", "Campaign">>,
     <<"CampaignItem", "pledges", "toMany", "Pledge">>,
     <<"CampaignItem", "transactions", "toMany", "Transaction">>,
     <<"Pledge", "campaign", "toOneRequired", "Campaign">>,
     <<"Pledge", "campaignItem", "toOneOptional", "CampaignItem">>,
     <<"Pledge", "member", "toOneRequired", "Member">>,
     <<"Pledge", "transactions", "toMany", "Transaction">>,
     <<"Transaction", "tenant", "toOneRequired", "Tenant">>,
     <<"Transaction", "member", "toOneOptional", "Member">>,
     <<"Transaction", "campaign", "toOneOptional", "Campaign">>,
     <<"Transaction", "campaignItem", "toOneOptional", "CampaignItem">>,
     <<"Transaction", "pledge", "toOneOptional", "Pledge">>,
     <<"Invitation", "tenant", "toOneRequired", "Tenant">>,
     <<"AuditEvent", "tenant", "toOneOptional", "Tenant">>}}

Models == Archivable \cup {"AuditEvent"}

RelationsOf(model) == {r \in Relations : r.of = model}

-----------------------------------------------------------------------------
(* Levels.  A level is about a model and has conditions, all of which are   *)
(* to hold, and levels it includes or counts.  It stands under the levels   *)
(* of above; via is the relation it hangs on, if any.  A condition on       *)
(* columns is the set of rows that meet it; others have levels of their     *)
(* own, under AND, OR and NOT about the same row and under some, none, is   *)
(* and isNot about others.  countAll is a count of the short form           *)
(* _count: true.                                                            *)

OnColumns(c) == c.op = "rows"
Logical == {"AND", "OR", "NOT"}
Relational == {"some", "none", "is", "isNot"}

(* These are about a table of levels, and say it once for all: TLC works a  *)
(* parameter out once, but a constant for each use.                         *)
Under(level, m, l) ==
  /\ m \in DOMAIN level
  /\ level[m].above = level[l].above \cup {l}
  /\ level[m].depth = level[l].depth + 1

Along(level, m, l) ==
  /\ Under(level, m, l)
  /\ level[m].via \in RelationsOf(level[l].model)
  /\ level[m].model = level[m].via.to

(* A level of a tree no deeper than Deepest.                                *)
WellFormed(level, l) ==
  /\ level[l].model \in Models
  /\ level[l].depth \in 0..Deepest
  /\ level[l].place \in {"query", "logic", "relation", "include", "count", "countAll"}
  /\ level[l].place = "query" <=> l \in Queries
  /\ l \in Queries => level[l].above = {}
  /\ \A c \in level[l].conds :
       /\ c.op \in {"rows"} \cup Logical \cup Relational
       /\ c.op \in Logical =>
            \A m \in c.of : /\ Under(level, m, l)
                            /\ level[m].place = "logic"
                            /\ level[m].model = level[l].model
       /\ c.op \in Relational =>
            \A m \in c.of : Along(level, m, l) /\ level[m].place = "relation"
  /\ \A m \in level[l].include : Along(level, m, l) /\ level[m].place = "include"
  /\ \A m \in level[l].counts :
       Along(level, m, l) /\ level[m].place \in {"count", "countAll"}

(* The walker looks no further at a relation to a model that is never       *)
(* archived, nor at a count: no query has conditions on relations there.    *)
LooksNoFurther(level, l) ==
  \/ level[l].place \in {"count", "countAll"}
  \/ level[l].place \in {"relation", "include"} /\ level[l].model \notin Archivable
  => /\ \A c \in level[l].conds : OnColumns(c)
     /\ level[l].include = {}
     /\ level[l].counts = {}

Trees(level) ==
  /\ DOMAIN level = Levels
  /\ \A l \in DOMAIN level : WellFormed(level, l) /\ LooksNoFurther(level, l)

ASSUME QueryTrees == Deepest \in Nat /\ Queries \subseteq Levels /\ Trees(Level)

ASSUME ForeignKeys ==
  \A x \in Rows :
    /\ x # NoRow
    /\ ModelOf[x] \in Models
    /\ \A r \in RelationsOf(ModelOf[x]) :
         r.kind # "toMany" =>
           Key[x][r.field] \in {NoRow} \cup {y \in Rows : ModelOf[y] = r.to}

-----------------------------------------------------------------------------
(* The walker, in its two modes.  What a level says of deletedAt is "unset",*)
(* or explicit: "null", "any" (the key with the value undefined) or "set"   *)
(* (not null).                                                              *)

Silent == [l \in Levels |-> "unset"]

Injected(mode) == IF mode = "filter" THEN "null" ELSE "any"

(* Fault: the bypass overwrites the slice the caller has asked for.         *)
MergeOverwriting(mode, said) ==
  IF mode = "filter" /\ said # "unset" THEN said ELSE Injected(mode)

(* mergeDeletedAt: an explicit deletedAt is the caller's, in either mode.   *)
Merge(mode, said) == IF said # "unset" THEN said ELSE Injected(mode)

(* Fault: what stands under AND, OR and NOT is not looked into.             *)
EntersRelationsOnly(l) ==
  \/ Level[l].place = "query"
  \/ Level[l].place \in {"relation", "include"} /\ Level[l].model \in Archivable

(* Whether the walker, at a level it has come to, looks at what is below:   *)
(* the recursive calls of processWhere and processRelationArg.              *)
Enters(l) ==
  \/ Level[l].place \in {"query", "logic"}
  \/ Level[l].place \in {"relation", "include"} /\ Level[l].model \in Archivable

Reached(l) == \A m \in Level[l].above : Enters(m)

(* Where it merges.  Under AND, OR and NOT the row is one that the level    *)
(* above is about already; a required parent cannot be filtered away, but   *)
(* what is included below it can.  Counts of both forms are merged, though  *)
(* not entered.                                                             *)
Merges(l) ==
  /\ Level[l].model \in Archivable
  /\ \/ Level[l].place \in {"query", "relation", "count", "countAll"}
     \/ Level[l].place = "include" /\ Level[l].via.kind # "toOneRequired"

ApplyWalker(mode, said) ==
  [l \in Levels |-> IF Reached(l) /\ Merges(l) THEN Merge(mode, said[l]) ELSE said[l]]

Filtered(said)    == ApplyWalker("filter", said)
WithDeleted(said) == ApplyWalker("bypass", said)

(* applyStateFilter, wrap included: what a list asks for when its request   *)
(* has these flags.                                                         *)
StateFiltered(q, flags) ==
  LET narrowed == IF flags.onlyDeleted THEN [Silent EXCEPT ![q] = "set"] ELSE Silent
  IN IF flags.onlyDeleted \/ flags.includeDeleted THEN WithDeleted(narrowed) ELSE narrowed

-----------------------------------------------------------------------------
(* The database, on the rows of the set there, of which those in gone have  *)
(* their deletedAt set.                                                     *)

(* The rows at the other end of a relation of row x.  Two models are joined *)
(* by one foreign key at most.                                              *)
Linked(x, r) ==
  IF r.kind = "toMany"
  THEN LET back == CHOOSE b \in RelationsOf(r.to) : b.to = r.of /\ b.kind # "toMany"
       IN {y \in Rows : ModelOf[y] = r.to /\ Key[y][back.field] = x}
  ELSE {Key[x][r.field]} \ {NoRow}

Slice(said, gone, x) ==
  /\ said = "null" => x \notin gone
  /\ said = "set" => x \in gone

(* meets is, for each level, the rows that meet it.                         *)
Found(there, meets, x, m) == there \cap Linked(x, Level[m].via) \cap meets[m]

Holds(there, meets, c, x) ==
  \/ OnColumns(c) /\ x \in c.rows
  \/ c.op = "AND" /\ \A m \in c.of : x \in meets[m]
  \/ c.op = "OR"  /\ \E m \in c.of : x \in meets[m]
  \/ c.op = "NOT" /\ \A m \in c.of : x \notin meets[m]
  \/ c.op \in {"some", "is"}    /\ \A m \in c.of : Found(there, meets, x, m) # {}
  \/ c.op \in {"none", "isNot"} /\ \A m \in c.of : Found(there, meets, x, m) = {}

Meets(there, gone, said) ==
  LET meets[l \in Levels] ==
        {x \in Rows : /\ ModelOf[x] = Level[l].model
                      /\ Slice(said[l], gone, x)
                      /\ \A c \in Level[l].conds : Holds(there, meets, c, x)}
  IN meets

(* The rows included with row x by level m.  A required parent is there     *)
(* whatever is said of it.                                                  *)
Included(there, meets, x, m) ==
  IF Level[m].via.kind = "toOneRequired" THEN Linked(x, Level[m].via)
  ELSE Found(there, meets, x, m)

(* A row as an answer shows it, with what a level includes and counts of it.*)
Shown(there, gone, said) ==
  LET meets == Meets(there, gone, said)
      shown[l \in Levels] ==
        [x \in Rows |->
          [row |-> x,
           included |-> [m \in Level[l].include |->
                           {shown[m][y] : y \in Included(there, meets, x, m)}],
           counted |-> [m \in Level[l].counts |->
                           Cardinality(Found(there, meets, x, m))]]]
  IN shown

Answer(there, gone, said, q) ==
  {Shown(there, gone, said)[q][x] : x \in there \cap Meets(there, gone, said)[q]}

(* What the server's code gets: the database's answer to the filtered query.*)
Asked(q, said) == Answer(Rows, archived, Filtered(said), q)

-----------------------------------------------------------------------------
(* Archiving and restoring change rows by statements that pass through the  *)
(* extension too; restoring names deletedAt, and so gets past it.  One row  *)
(* is a step, a cascade several.                                            *)

(* The query that asks for row x by its id.                                 *)
ById(q, x) ==
  /\ Level[q].model = ModelOf[x]
  /\ Level[q].conds = {[op |-> "rows", rows |-> {x}, of |-> {}]}
  /\ Level[q].include = {} /\ Level[q].counts = {}

Archive(x) ==
  /\ \E q \in Queries : ById(q, x) /\ Asked(q, Silent) # {}
  /\ archived' = archived \cup {x}

Restore(x) ==
  /\ \E q \in Queries : ById(q, x) /\ Asked(q, [Silent EXCEPT ![q] = "set"]) # {}
  /\ archived' = archived \ {x}

FilterInit == archived = {}

FilterNext == \E x \in {y \in Rows : ModelOf[y] \in Archivable} : Archive(x) \/ Restore(x)

FilterSpec == FilterInit /\ [][FilterNext]_archived

-----------------------------------------------------------------------------
(* A query that says nothing of deletedAt is answered as if the archived    *)
(* rows did not exist: at the top, in what it includes and counts, and in   *)
(* what a relation filter may find, however deep.                           *)
LiveWorld ==
  \A q \in Queries : Asked(q, Silent) = Answer(Rows \ archived, {}, Silent, q)

(* A list shows its three slices: without flags the live world, with        *)
(* includeDeleted everything, archived rows reached through relations       *)
(* included, and with onlyDeleted the archived ones of that, whatever       *)
(* includeDeleted says.                                                     *)
ListSlices ==
  \A q \in Queries, flags \in [includeDeleted : BOOLEAN, onlyDeleted : BOOLEAN] :
    LET all == Answer(Rows, archived, Silent, q)
        deleted == {a \in all : a.row \in archived}
        shown == Asked(q, StateFiltered(q, flags))
    IN CASE flags.onlyDeleted -> shown = deleted
         [] flags.includeDeleted /\ ~flags.onlyDeleted -> shown = all
         [] OTHER -> shown = Answer(Rows \ archived, {}, Silent, q)
=============================================================================
