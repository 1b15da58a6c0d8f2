------------------------------- MODULE GoPage -------------------------------
(***************************************************************************)
(* The comment list of submit.js: goPage empties the list and asks the     *)
(* server for another page; the answers come asynchronously, in any order, *)
(* or not at all.  A page of the list is known by its number.              *)
(***************************************************************************)
EXTENDS Integers, FiniteSets

CONSTANTS
  MaxPages,   \* bound: pages the comments fill
  MaxAsked    \* bound: requests

ASSUME GoPageBounds == MaxPages \in Nat \ {0} /\ MaxAsked \in Nat

VARIABLES
  totalPage,   \* pages the comments fill on the server
  curPage,     \* the hidden field #curPage
  list,        \* #commentList: a page's number, 0 when it is empty, -1 for the text of an error
  pageBar,     \* #pageBar: the pagination it was built from
  posts,       \* requests so far
  open,        \* those that are under way
  came,        \* the last answer that came: "list", "single" for one of a single page, "refused" or "error"
  overtaken    \* an answer came when an earlier request was still under way

goPageVars == <<totalPage, curPage, list, pageBar, posts, open, came, overtaken>>

AnyPage == 1..(MaxPages + 1)

GoPageTypeOK ==
  /\ totalPage \in 1..MaxPages
  /\ curPage \in AnyPage /\ list \in AnyPage \cup {0, -1}
  /\ pageBar \in [curPage : AnyPage, totalPage : 1..MaxPages]
  /\ posts \in 0..MaxAsked
  /\ open \subseteq [nr : 1..posts, page : AnyPage]
  /\ came \in {"list", "single", "refused", "error"} /\ overtaken \in BOOLEAN

\* The first page and its bar come with the document
GoPageInit ==
  /\ totalPage = MaxPages /\ curPage = 1 /\ list = 1
  /\ pageBar = [curPage |-> 1, totalPage |-> MaxPages]
  /\ posts = 0 /\ open = {} /\ came = "list" /\ overtaken = FALSE

\* Faulty variant: #curPage is left as it is
GoToUnnoted(p) ==
  /\ posts < MaxAsked /\ posts' = posts + 1
  /\ list' = 0
  /\ open' = open \cup {[nr |-> posts', page |-> p]}
  /\ UNCHANGED <<totalPage, curPage, pageBar, came, overtaken>>

GoTo(p) ==
  /\ posts < MaxAsked /\ posts' = posts + 1
  /\ curPage' = p
  /\ list' = 0
  /\ open' = open \cup {[nr |-> posts', page |-> p]}
  /\ UNCHANGED <<totalPage, pageBar, came, overtaken>>

\* Every page of pagesGroup (external: pages that exist), one back, one on, the first and the last
BarLinks(b) ==
  1..b.totalPage \cup (IF b.curPage > 1 THEN {b.curPage - 1} ELSE {})
                 \cup (IF b.curPage < b.totalPage THEN {b.curPage + 1} ELSE {})

ClickLink == \E p \in BarLinks(pageBar) : GoTo(p)

\* What is no number is refused, what is no page number becomes 1; nothing asks for the last page
Gotowhatpage == \E n \in 0..(MaxPages + 1) : GoTo(IF n <= 0 THEN 1 ELSE n)

Arrives(r, how) ==
  /\ open' = open \ {r}
  /\ came' = how
  /\ overtaken' = (overtaken \/ \E e \in open : e.nr < r.nr)
  /\ UNCHANGED <<totalPage, curPage, posts>>

\* A bar for one page is not put in: the old one stays
ListCame(r) ==
  /\ list' = r.page
  /\ \/ /\ totalPage > 1 /\ Arrives(r, "list")
        /\ pageBar' = [curPage |-> r.page, totalPage |-> totalPage]
     \/ /\ totalPage = 1 /\ Arrives(r, "single")
        /\ UNCHANGED pageBar

\* data.success is false or there is no list: nothing is done
RefusalCame(r) == Arrives(r, "refused") /\ UNCHANGED <<list, pageBar>>

ErrorCame(r) == Arrives(r, "error") /\ list' = -1 /\ UNCHANGED pageBar

CommentsChange ==
  /\ totalPage' \in 1..MaxPages
  /\ UNCHANGED <<curPage, list, pageBar, posts, open, came, overtaken>>

GoPageNext ==
  \/ ClickLink \/ Gotowhatpage
  \/ \E r \in open : ListCame(r) \/ RefusalCame(r) \/ ErrorCame(r)
  \/ CommentsChange

GoPageSpec == GoPageInit /\ [][GoPageNext]_goPageVars

-----------------------------------------------------------------------------
(* Lines 116-187: nothing tells an answer to an old request from one to    *)
(* the last.  As long as no answer has overtaken another, and after a      *)
(* refusal or an error as well, the list that came last is the page        *)
(* #curPage names, under its own bar unless it is the only page.           *)
LastPageShown ==
  ~overtaken /\ open = {} =>
    /\ came \in {"list", "single"} => list = curPage
    /\ came = "list" => pageBar.curPage = curPage
=============================================================================
