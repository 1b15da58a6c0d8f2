----------------------------- MODULE ListPages -----------------------------
(***************************************************************************)
(* The scripts that turn the pages of lists, each on the page that uses    *)
(* it: the page bars of the JSPs, the comment list of submit.js, and the   *)
(* table of ace-admin, its pages and its search.  They share no state: a   *)
(* behavior is about one of them.                                          *)
(***************************************************************************)
EXTENDS Pagination, GoPage, DataTable, TableSearch

VARIABLE script

listPagesVars == <<script, vars, goPageVars, tableVars, searchVars>>

\* What the other scripts start from does not matter
ListPagesInit ==
  /\ script \in {"bar", "comments", "table", "search"}
  /\ Init /\ GoPageInit /\ TableInit /\ SearchInit
  /\ script # "bar" => total = 1
  /\ script # "table" => ~serverSide
  /\ script # "search" => text = [r \in Rows |-> [i \in 1..MaxText |-> CHOOSE l \in Letters : TRUE]]

ListPagesNext ==
  /\ UNCHANGED script
  /\ \/ script = "bar" /\ Next /\ UNCHANGED <<goPageVars, tableVars, searchVars>>
     \/ script = "comments" /\ GoPageNext /\ UNCHANGED <<vars, tableVars, searchVars>>
     \/ script = "table" /\ TableNext /\ UNCHANGED <<vars, goPageVars, searchVars>>
     \/ script = "search" /\ SearchNext /\ UNCHANGED <<vars, goPageVars, tableVars>>

ListPagesSpec == ListPagesInit /\ [][ListPagesNext]_listPagesVars
=============================================================================
