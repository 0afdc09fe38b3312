----------------------------- MODULE MCMembers -----------------------------
(***************************************************************************)
(* Members for TLC.  Ids are interchangeable, so one of them owns the      *)
(* pledges to start with, and so are roles, so linked members start as     *)
(* administrators.  Pledges start live and gifts live or not at all: the   *)
(* other states of the tables are reached by requests.                     *)
(***************************************************************************)
EXTENDS Members

Someone == CHOOSE m \in Ids : TRUE

SmallInit ==
  /\ Init
  /\ \A p \in Pledges : holding[p] = [row |-> "live", owner |-> Someone]
  /\ \A g \in Gifts : holding[g].row # "archived"
  /\ \A m \in Ids : member[m].role = IF member[m].user = Nobody THEN "USER" ELSE "ADMIN"

SmallSpec == SmallInit /\ [][Next]_vars /\ \A r \in Requests : WF_vars(Proceed(r))
=============================================================================
