-------------------------- MODULE PageScriptsProofs --------------------------
(***************************************************************************)
(* The proofs about the scripts of the pages: the page bar, the comment    *)
(* list, the table of records, the effects of an element, the notices, the *)
(* dialog and the Deferred.                                                *)
(***************************************************************************)
EXTENDS Pagination, GoPage, DataTable, TableSearch, FxQueue, Gritter, Modal, Deferred, FiniteSetTheorems, TLAPS, WellFoundedInduction

(***************************************************************************)
(* Pagination: what the page bar promises, for any number of pages.  The   *)
(* arithmetic is in four lemmas about the operators; the invariants follow *)
(* from the type invariant, since they hold of every page the user can     *)
(* look at.                                                                *)
(***************************************************************************)
\* The window of any page number, existing or not
LEMMA WindowLemma ==
  ASSUME NEW c \in Nat \ {0}, NEW t \in Nat \ {0}
  PROVE  /\ ListBegin(c, t) \in Int /\ ListEnd(c, t) \in Int
         /\ ListBegin(c, t) >= 1 /\ ListEnd(c, t) <= t + 1
         /\ ListEnd(c, t) - ListBegin(c, t) = IF t < 9 THEN t ELSE 9
         /\ c <= t => ListBegin(c, t) <= c /\ c < ListEnd(c, t)
  BY SMT DEF ListBegin, ListEnd

LEMMA ClampLemma ==
  ASSUME NEW n \in Nat, NEW t \in Nat \ {0}
  PROVE  Clamp(n, t) \in 1..t
  BY SMT DEF Clamp

LEMMA FiveLemma ==
  ASSUME NEW c \in Nat \ {0}, NEW t \in Nat \ {0}
  PROVE  /\ PreFive(c) \in Int /\ NextFive(c) \in Int
         /\ HasPreFive(c) => PreFive(c) \in 1..(c - 1)
         /\ HasNextFive(c, t) => NextFive(c) \in (c + 1)..t
  <1>1. CeilFifth(c) \in Int /\ CeilFifth(c) * 5 >= c /\ CeilFifth(c) * 5 <= c + 4
    BY SMT DEF CeilFifth
  <1>2. c > 5 => CeilFifth(c) >= 2
    BY <1>1, SMT
  <1> QED
    BY <1>1, <1>2, SMT DEF PreFive, NextFive, HasPreFive, HasNextFive

\* No link leads beyond the current page and the last one
LEMMA LinksLemma ==
  ASSUME NEW c \in Nat \ {0}, NEW t \in Nat \ {0}, NEW m \in Nat, c <= m, t <= m
  PROVE  Links(c, t) \subseteq 1..m
  <1>1. /\ ListBegin(c, t) \in Int /\ ListEnd(c, t) \in Int
        /\ ListBegin(c, t) >= 1 /\ ListEnd(c, t) <= t + 1
    BY WindowLemma
  <1>2. Window(c, t) \subseteq 1..m
    BY <1>1, SMT DEF Window
  <1>3. c > 1 => {1, c - 1} \subseteq 1..m
    BY SMT
  <1>4. c < t => {c + 1, t} \subseteq 1..m
    BY SMT
  <1> QED
    BY <1>2, <1>3, <1>4 DEF Links

(* Whatever the user clicks or types and however the rows change, the      *)
(* pages asked for are pages that can exist.                               *)
THEOREM PaginationTypeCorrect == Spec => []TypeOK
  <1>1. Init => TypeOK
    BY SomePages, SMT DEF Init, TypeOK
  <1>2. TypeOK /\ [Next]_vars => TypeOK'
    <2> SUFFICES ASSUME TypeOK, [Next]_vars PROVE TypeOK'
      OBVIOUS
    <2>0. /\ cur \in Nat \ {0} /\ shown \in Nat \ {0} /\ MaxTotal \in Nat
          /\ cur <= MaxTotal /\ shown <= MaxTotal /\ 1..shown \subseteq 1..MaxTotal
      BY SomePages, SMT DEF TypeOK
    <2> DEFINE Shows(p) == p \in 1..MaxTotal /\ Show(p)
    <2>1. ASSUME NEW p, Shows(p) PROVE TypeOK'
      BY <2>1 DEF TypeOK, Show
    <2>2. CASE GoPage
      <3>1. PICK p \in Links(cur, shown) : Show(p)
        BY <2>2 DEF GoPage
      <3>2. p \in 1..MaxTotal
        BY <2>0, LinksLemma
      <3> QED
        BY <2>1, <3>1, <3>2
    <2>3. CASE ToPage
      <3>1. PICK n \in 0..(MaxTotal + 1) : Show(Clamp(n, shown))
        BY <2>3 DEF ToPage
      <3>2. n \in Nat
        BY <2>0, SMT
      <3>3. Clamp(n, shown) \in 1..MaxTotal
        BY <2>0, <3>2, ClampLemma
      <3> QED
        BY <2>1, <3>1, <3>3
    <2>4. CASE GoFive
      <3>1. CASE HasPreFive(cur) /\ Show(PreFive(cur))
        <4>1. PreFive(cur) \in 1..(cur - 1)
          BY <2>0, <3>1, FiveLemma
        <4>2. PreFive(cur) \in 1..MaxTotal
          BY <2>0, <4>1, SMT
        <4> QED
          BY <2>1, <3>1, <4>2
      <3>2. CASE HasNextFive(cur, shown) /\ Show(NextFive(cur))
        <4>1. NextFive(cur) \in (cur + 1)..shown
          BY <2>0, <3>2, FiveLemma
        <4>2. NextFive(cur) \in 1..MaxTotal
          BY <2>0, <4>1, SMT
        <4> QED
          BY <2>1, <3>2, <4>2
      <3> QED
        BY <2>4, <3>1, <3>2 DEF GoFive
    <2>5. CASE RowsChange
      BY <2>5 DEF TypeOK, RowsChange
    <2>6. CASE UNCHANGED vars
      BY <2>6 DEF TypeOK, vars
    <2> QED
      BY <2>2, <2>3, <2>4, <2>5, <2>6 DEF Next
  <1> QED
    BY <1>1, <1>2, PTL DEF Spec

(* The window lists nine pages or all, only pages that exist, and the      *)
(* current one if it exists: for every number of pages.                    *)
THEOREM WindowHolds == Spec => []WindowFull
  <1>1. TypeOK => WindowFull
    <2> SUFFICES ASSUME TypeOK PROVE WindowFull
      OBVIOUS
    <2>1. cur \in Nat \ {0} /\ shown \in Nat \ {0}
      BY SomePages, SMT DEF TypeOK
    <2>2. /\ ListBegin(cur, shown) \in Int /\ ListEnd(cur, shown) \in Int
          /\ ListBegin(cur, shown) >= 1 /\ ListEnd(cur, shown) <= shown + 1
          /\ ListEnd(cur, shown) - ListBegin(cur, shown) = IF shown < 9 THEN shown ELSE 9
          /\ cur <= shown => ListBegin(cur, shown) <= cur /\ cur < ListEnd(cur, shown)
      BY <2>1, WindowLemma
    <2>3. Window(cur, shown) \subseteq 1..shown
      BY <2>1, <2>2, SMT DEF Window
    <2>4. cur <= shown => cur \in Window(cur, shown)
      BY <2>1, <2>2, SMT DEF Window
    <2> QED
      BY <2>2, <2>3, <2>4 DEF WindowFull
  <1> QED
    BY <1>1, PaginationTypeCorrect, PTL

(* From an existing page every link, number and step leads to a page that  *)
(* existed when the bar was rendered: for every number of pages.           *)
THEOREM LinksExistHolds == Spec => []LinksExist
  <1>1. TypeOK => LinksExist
    <2> SUFFICES ASSUME TypeOK, cur <= shown
                 PROVE  /\ Links(cur, shown) \subseteq 1..shown
                        /\ \A n \in 0..(MaxTotal + 1) : Clamp(n, shown) \in 1..shown
                        /\ HasPreFive(cur) => PreFive(cur) \in 1..(cur - 1)
                        /\ HasNextFive(cur, shown) => NextFive(cur) \in (cur + 1)..shown
      BY DEF LinksExist
    <2>1. cur \in Nat \ {0} /\ shown \in Nat \ {0} /\ shown \in Nat /\ shown <= shown
      BY SomePages, SMT DEF TypeOK
    <2>2. Links(cur, shown) \subseteq 1..shown
      BY <2>1, LinksLemma
    <2>3. ASSUME NEW n \in 0..(MaxTotal + 1) PROVE Clamp(n, shown) \in 1..shown
      <3>1. n \in Nat
        BY SomePages, SMT
      <3> QED
        BY <2>1, <3>1, ClampLemma
    <2> QED
      BY <2>1, <2>2, <2>3, FiveLemma
  <1> QED
    BY <1>1, PaginationTypeCorrect, PTL

-----------------------------------------------------------------------------
(***************************************************************************)
(* GoPage: what the comment list shows, for any number of pages and        *)
(* requests.  The inductive invariant says that requests are numbered      *)
(* apart and that the last of them asked for #curPage; and that, as long   *)
(* as nothing was overtaken, the last is also the last to be answered.     *)
(***************************************************************************)
\* What the links of the bar ask for
LEMMA AskedLemma ==
  ASSUME GoPageTypeOK, NEW p \in BarLinks(pageBar)
  PROVE  p \in AnyPage
  BY GoPageBounds DEF GoPageTypeOK, BarLinks, AnyPage

LEMMA GoPageTypeStep ==
  ASSUME GoPageTypeOK, [GoPageNext]_goPageVars
  PROVE  GoPageTypeOK'
  <1> USE GoPageBounds
  <1>1. ASSUME NEW p \in AnyPage, GoTo(p) PROVE GoPageTypeOK'
    <2>1. open' \subseteq [nr : 1..posts', page : AnyPage]
      BY <1>1 DEF GoTo, GoPageTypeOK
    <2> QED
      BY <1>1, <2>1 DEF GoTo, GoPageTypeOK
  <1>2. CASE ClickLink
    BY <1>1, <1>2, AskedLemma DEF ClickLink
  <1>3. CASE Gotowhatpage
    BY <1>1, <1>3 DEF Gotowhatpage, AnyPage
  <1>4. ASSUME NEW r \in open, ListCame(r) \/ RefusalCame(r) \/ ErrorCame(r) PROVE GoPageTypeOK'
    <2>1. r.page \in AnyPage
      BY DEF GoPageTypeOK
    <2>2. overtaken' \in BOOLEAN
      BY <1>4 DEF ListCame, RefusalCame, ErrorCame, Arrives
    <2>3. /\ totalPage' = totalPage /\ curPage' = curPage /\ posts' = posts
          /\ open' \subseteq open /\ came' \in {"list", "single", "refused", "error"}
      BY <1>4 DEF ListCame, RefusalCame, ErrorCame, Arrives
    <2>4. /\ list' \in AnyPage \cup {0, -1}
          /\ pageBar' \in [curPage : AnyPage, totalPage : 1..MaxPages]
      BY <1>4, <2>1 DEF ListCame, RefusalCame, ErrorCame, GoPageTypeOK
    <2> QED
      BY <2>2, <2>3, <2>4 DEF GoPageTypeOK
  <1>5. CASE CommentsChange \/ UNCHANGED goPageVars
    BY <1>5 DEF CommentsChange, goPageVars, GoPageTypeOK
  <1> QED
    BY <1>2, <1>3, <1>4, <1>5 DEF GoPageNext

LEMMA GoPageInitTyped ==
  ASSUME GoPageInit PROVE GoPageTypeOK
  <1>1. MaxPages \in Nat \ {0} /\ MaxAsked \in Nat /\ 1 \in AnyPage /\ 1 \in 1..MaxPages /\ MaxPages \in 1..MaxPages
    BY GoPageBounds DEF AnyPage
  <1>2. pageBar \in [curPage : AnyPage, totalPage : 1..MaxPages]
    BY <1>1 DEF GoPageInit
  <1>3. open \subseteq [nr : 1..posts, page : AnyPage] /\ posts \in 0..MaxAsked
    BY <1>1 DEF GoPageInit
  <1>4. list \in AnyPage \cup {0, -1} /\ curPage \in AnyPage /\ totalPage \in 1..MaxPages
    BY <1>1 DEF GoPageInit
  <1> QED
    BY <1>2, <1>3, <1>4 DEF GoPageInit, GoPageTypeOK

(* Whatever is clicked or typed, #curPage, the list and the bar are those  *)
(* of pages one can ask for.                                               *)
THEOREM GoPageTypeCorrect == GoPageSpec => []GoPageTypeOK
  <1>1. GoPageInit => GoPageTypeOK
    BY GoPageInitTyped
  <1> QED
    BY <1>1, GoPageTypeStep, PTL DEF GoPageSpec

-----------------------------------------------------------------------------
NumberedApart == \A r, s \in open : r.nr = s.nr => r = s

LastAskedForCurPage == \A r \in open : r.nr = posts => r.page = curPage

LastComesLast == ~overtaken /\ open # {} => \E r \in open : r.nr = posts

GoPageInv == GoPageTypeOK /\ NumberedApart /\ LastAskedForCurPage /\ LastComesLast /\ LastPageShown

\* A request is numbered behind all the others
LEMMA AskStep ==
  ASSUME GoPageInv, NEW p, GoTo(p), GoPageTypeOK'
  PROVE  GoPageInv'
  <1> DEFINE new == [nr |-> posts + 1, page |-> p]
  <1>1. posts \in Nat /\ \A r \in open : r.nr \in 1..posts
    BY DEF GoPageInv, GoPageTypeOK
  <1>2. open' = open \cup {new} /\ posts' = posts + 1 /\ curPage' = p
    BY DEF GoTo
  <1>3. \A r \in open : r.nr # posts + 1
    BY <1>1
  <1>0. new.nr = posts + 1 /\ new.page = p
    OBVIOUS
  <1> HIDE DEF new
  <1>4. NumberedApart'
    BY <1>2, <1>3, <1>0 DEF GoPageInv, NumberedApart
  <1>5. LastAskedForCurPage'
    BY <1>2, <1>3, <1>0 DEF LastAskedForCurPage
  <1>6. LastComesLast'
    BY <1>2, <1>0 DEF LastComesLast
  <1>7. LastPageShown'
    BY <1>2 DEF LastPageShown
  <1> QED
    BY <1>4, <1>5, <1>6, <1>7 DEF GoPageInv

\* The answer after which none is awaited is that of the last request, unless it was overtaken
LEMMA AnswerStep ==
  ASSUME GoPageInv, NEW r \in open, ListCame(r) \/ RefusalCame(r) \/ ErrorCame(r), GoPageTypeOK'
  PROVE  GoPageInv'
  <1>1. /\ open' = open \ {r} /\ posts' = posts /\ curPage' = curPage
        /\ overtaken' = (overtaken \/ \E e \in open : e.nr < r.nr)
    BY DEF ListCame, RefusalCame, ErrorCame, Arrives
  <1>2. posts \in Nat /\ \A e \in open : e.nr \in 1..posts
    BY DEF GoPageInv, GoPageTypeOK
  <1>3. NumberedApart' /\ LastAskedForCurPage'
    BY <1>1 DEF GoPageInv, NumberedApart, LastAskedForCurPage
  <1>4. LastComesLast'
    <2> SUFFICES ASSUME ~overtaken', NEW e \in open' PROVE \E s \in open' : s.nr = posts'
      BY DEF LastComesLast
    <2>1. PICK s \in open : s.nr = posts
      BY <1>1 DEF GoPageInv, LastComesLast
    <2>2. ~(e.nr < r.nr) /\ e # r /\ e \in open
      BY <1>1
    <2>3. s # r
      BY <1>2, <2>1, <2>2 DEF GoPageInv, NumberedApart
    <2> QED
      BY <1>1, <2>1, <2>3
  <1>5. LastPageShown'
    <2> SUFFICES ASSUME ~overtaken', open' = {}
                 PROVE  /\ came' \in {"list", "single"} => list' = curPage'
                        /\ came' = "list" => pageBar'.curPage = curPage'
      BY DEF LastPageShown
    <2>1. r.page = curPage
      BY <1>1 DEF GoPageInv, LastComesLast, LastAskedForCurPage
    <2> QED
      BY <1>1, <2>1 DEF ListCame, RefusalCame, ErrorCame, Arrives
  <1> QED
    BY <1>3, <1>4, <1>5 DEF GoPageInv

(* As long as no answer has overtaken another, the list that came last is  *)
(* the page that #curPage names, whatever was refused or failed before.    *)
THEOREM LastPageShownHolds == GoPageSpec => []LastPageShown
  <1>1. GoPageInit => GoPageInv
    <2> SUFFICES ASSUME GoPageInit PROVE GoPageInv
      OBVIOUS
    <2>1. NumberedApart /\ LastAskedForCurPage /\ LastComesLast
      BY DEF GoPageInit, NumberedApart, LastAskedForCurPage, LastComesLast
    <2>2. list = curPage /\ pageBar.curPage = curPage
      BY DEF GoPageInit
    <2> QED
      BY <2>1, <2>2, GoPageInitTyped DEF GoPageInv, LastPageShown
  <1>2. GoPageInv /\ [GoPageNext]_goPageVars => GoPageInv'
    <2> SUFFICES ASSUME GoPageInv, [GoPageNext]_goPageVars PROVE GoPageInv'
      OBVIOUS
    <2>1. GoPageTypeOK'
      BY GoPageTypeStep DEF GoPageInv
    <2>2. CASE ClickLink \/ Gotowhatpage
      BY <2>1, <2>2, AskStep DEF ClickLink, Gotowhatpage
    <2>3. ASSUME NEW r \in open, ListCame(r) \/ RefusalCame(r) \/ ErrorCame(r) PROVE GoPageInv'
      BY <2>1, <2>3, AnswerStep
    <2>4. CASE CommentsChange \/ UNCHANGED goPageVars
      BY <2>1, <2>4 DEF CommentsChange, goPageVars, GoPageInv, NumberedApart, LastAskedForCurPage,
             LastComesLast, LastPageShown
    <2> QED
      BY <2>2, <2>3, <2>4 DEF GoPageNext
  <1>3. GoPageInv => LastPageShown
    BY DEF GoPageInv
  <1> QED
    BY <1>1, <1>2, <1>3, PTL DEF GoPageSpec

-----------------------------------------------------------------------------
(***************************************************************************)
(* DataTable: the rows in view, for any number of records, page lengths    *)
(* and draws.                                                              *)
(***************************************************************************)

\* Arithmetic that the provers are given apart from the table
LEMMA PlusLemma ==
  ASSUME NEW a \in Nat, NEW b \in Nat PROVE a + b \in Nat
  OBVIOUS

LEMMA RangeLemma ==
  ASSUME NEW m \in Nat, NEW a \in 0..m PROVE a \in Nat /\ a <= m
  OBVIOUS

LEMMA PositiveLemma ==
  ASSUME NEW a \in Nat \ {0} PROVE a \in Nat /\ a >= 1
  OBVIOUS

\* A page before the last one begins before the last record
LEMMA CeilingLemma ==
  ASSUME NEW n \in Nat, NEW d \in Nat \ {0}
  PROVE  /\ Ceiling(n, d) \in Nat /\ Ceiling(n, d) <= n
         /\ \A p \in 1..Ceiling(n, d) : (p - 1) * d \in Nat /\ (p - 1) * d < n
  <1> DEFINE q == (n + d - 1) \div d
  <1>1. q \in Nat /\ q * d <= n + d - 1
    BY SMT
  <1>2. q <= n
    <2>1. CASE n = 0
      <3>1. d - 1 \in Nat /\ d - 1 < d /\ n + d - 1 = d - 1
        BY <2>1
      <3>2. ASSUME q >= 1 PROVE FALSE
        <4>1. q * d >= d
          BY <1>1, <3>2, SMT
        <4> HIDE DEF q
        <4>2. q * d \in Nat
          BY <1>1, SMT
        <4> QED
          BY <1>1, <3>1, <4>1, <4>2
      <3> QED
        BY <1>1, <3>2
    <2>2. CASE n > 0
      <3>1. ASSUME q >= n + 1 PROVE FALSE
        <4>1. q * d >= (n + 1) * d
          BY <1>1, <3>1, SMT
        <4>2. (n + 1) * d = n * d + d /\ n * d >= n
          BY <2>2, SMT
        <4> HIDE DEF q
        <4>3. q * d \in Nat /\ n * d \in Nat
          BY <1>1, SMT
        <4> DEFINE a == q * d
                   b == n * d
        <4>4. a \in Nat /\ b \in Nat /\ a >= b + d /\ b >= n /\ a <= n + d - 1
          BY <1>1, <4>1, <4>2, <4>3
        <4> HIDE DEF a, b
        <4> QED
          BY <4>4
      <3> QED
        BY <1>1, <3>1
    <2> QED
      BY <2>1, <2>2
  <1>3. ASSUME NEW p \in 1..q PROVE (p - 1) * d \in Nat /\ (p - 1) * d < n
    <2>1. p * d <= q * d /\ p * d = (p - 1) * d + d /\ (p - 1) * d \in Nat
      BY <1>1, SMT
    <2> DEFINE a == p * d
               b == q * d
               c == (p - 1) * d
    <2>2. b \in Nat
      BY <1>1, SMT
    <2>3. a <= b /\ a = c + d /\ c \in Nat /\ b <= n + d - 1
      BY <1>1, <2>1
    <2> HIDE DEF a, b, c
    <2>4. c < n
      BY <2>2, <2>3
    <2> QED
      BY <2>3, <2>4 DEF c
  <1> QED
    BY <1>1, <1>2, <1>3 DEF Ceiling

\* The bar links to pages that exist, whatever page it was made for
LEMMA LinksOfLemma ==
  ASSUME NEW page \in Nat, NEW pages \in Nat
  PROVE  LinksOf(page, pages) \subseteq 1..pages
  <1>1. CASE pages < 5
    BY <1>1 DEF LinksOf
  <1>2. CASE pages >= 5 /\ page <= 2
    <2>1. LinksOf(page, pages) = 1..5
      BY <1>2 DEF LinksOf
    <2> QED
      BY <1>2, <2>1
  <1>3. CASE pages >= 5 /\ page > 2 /\ page >= pages - 2
    <2>1. LinksOf(page, pages) = (pages - 4)..pages
      BY <1>3 DEF LinksOf
    <2> QED
      BY <1>3, <2>1
  <1>4. CASE pages >= 5 /\ page > 2 /\ ~(page >= pages - 2)
    <2>1. LinksOf(page, pages) = (page - 1)..(page + 3)
      BY <1>4 DEF LinksOf
    <2> QED
      BY <1>4, <2>1
  <1> QED
    BY <1>1, <1>2, <1>3, <1>4

LEMMA BarLemma ==
  ASSUME NEW s \in Nat, NEW l \in Nat \ {0}, NEW n \in Nat
  PROVE  BarOf(s, l, n).links \subseteq 1..Ceiling(n, l) /\ BarOf(s, l, n).len = l
  BY CeilingLemma, LinksOfLemma DEF BarOf

LEMMA MinLemma == Min(Lengths) \in Lengths
  <1>1. PICK x \in Lengths : \A y \in Lengths : ~(<<y, x>> \in OpToRel(<, Nat))
    BY LengthsAssumption, WFMin, NatLessThanWellFounded, Zenon
  <1>2. \A y \in Lengths : x <= y
    <2> SUFFICES ASSUME NEW y \in Lengths PROVE x <= y
      OBVIOUS
    <2>1. x \in Nat /\ y \in Nat
      BY LengthsAssumption
    <2>2. ~(y < x)
      BY <1>1, <2>1 DEF OpToRel
    <2> QED
      BY <2>1, <2>2
  <1> QED
    BY <1>2 DEF Min

LEMMA MaxLemma ==
  ASSUME NEW a \in Nat, NEW b \in Nat
  PROVE  Max({a, b}) \in Nat
  <1>1. \E x \in {a, b} : \A y \in {a, b} : x >= y
    BY SMT
  <1>2. Max({a, b}) \in {a, b}
    BY <1>1 DEF Max
  <1> QED
    BY <1>2

-----------------------------------------------------------------------------
\* The bar was made for as many records as the table knows of
BarFits == bar.links \subseteq 1..Ceiling(known, bar.len)

\* What is in the page of a table that has its records itself
HereDrawn ==
  ~serverSide =>
    /\ known = records[search] /\ (start = 0 \/ start < known)
    /\ drawn = [search |-> search, from |-> start, to |-> DisplayEnd(start, len, known), len |-> len]
    /\ bar = BarOf(start, len, known)
    /\ asked = {}

\* The last request asked for what the user wants to see
LastAsked ==
  \A r \in asked : r.sEcho = iDraw => r = Request(iDraw, search, start, len)

LastDrawn ==
  serverSide /\ ~failed /\ (\A r \in asked : r.sEcho # iDraw) =>
    drawn.search = search /\ drawn.from = start /\ drawn.len = len

TableInv == TableTypeOK /\ BarFits /\ HereDrawn /\ LastAsked /\ LastDrawn

RecordsTyped == records \in [Searches -> 0..MaxRecords] /\ records["typed"] <= records[""]

\* What the type invariant says, for the provers
LEMMA TableFacts ==
  ASSUME TableInv
  PROVE  /\ MaxRecords \in Nat /\ Lengths \subseteq Nat \ {0}
         /\ len \in Lengths /\ len \in Nat \ {0}
         /\ start \in 0..MaxRecords /\ start \in Nat /\ start <= MaxRecords
         /\ known \in 0..MaxRecords /\ known \in Nat /\ known <= MaxRecords
         /\ iDraw \in Nat
         /\ RecordsTyped /\ search \in Searches
         /\ records \in [Searches -> 0..MaxRecords]
         /\ records[""] \in Nat /\ records["typed"] \in Nat
         /\ records[""] <= MaxRecords /\ records["typed"] <= records[""]
         /\ search = "" \/ search = "typed"
  <1>1. /\ len \in Lengths /\ start \in 0..MaxRecords /\ known \in 0..MaxRecords /\ iDraw \in 0..MaxDraws
        /\ search \in Searches /\ records \in [Searches -> 0..MaxRecords] /\ records["typed"] <= records[""]
    BY DEF TableInv, TableTypeOK
  <1>2. records[""] \in 0..MaxRecords /\ records["typed"] \in 0..MaxRecords
    BY <1>1 DEF Searches
  <1>3. MaxRecords \in Nat /\ MaxDraws \in Nat /\ Lengths \subseteq Nat \ {0}
    BY LengthsAssumption, TableBounds
  <1>4. RecordsTyped
    BY <1>1 DEF RecordsTyped
  <1>5. /\ start \in Nat /\ start <= MaxRecords /\ known \in Nat /\ known <= MaxRecords /\ iDraw \in Nat
        /\ records[""] \in Nat /\ records["typed"] \in Nat /\ records[""] <= MaxRecords
    BY <1>1, <1>2, <1>3, RangeLemma, Zenon
  <1>6. len \in Nat \ {0}
    BY <1>1, <1>3
  <1>7. search = "" \/ search = "typed"
    BY <1>1 DEF Searches
  <1> QED
    BY <1>1, <1>3, <1>4, <1>5, <1>6, <1>7

LEMMA DrawKeeps ==
  ASSUME TableInv, Draw, RecordsTyped', search' \in Searches, start' \in 0..MaxRecords,
         len' \in Lengths, known' \in 0..MaxRecords,
         serverSide => known' = known,
         ~serverSide => known' = records'[search'] /\ (start' = 0 \/ start' < known')
  PROVE  TableInv'
  <1>0. /\ start' \in Nat /\ len' \in Nat \ {0} /\ known' \in Nat /\ MaxRecords \in Nat /\ MaxDraws \in Nat
        /\ known' <= MaxRecords
    BY LengthsAssumption, TableBounds
  <1>1. CASE DrawHere
    <2>1. /\ bar' = BarOf(start', len', known') /\ serverSide' = serverSide /\ ~serverSide
          /\ drawn' = [search |-> search', from |-> start', to |-> DisplayEnd(start', len', known'), len |-> len']
          /\ iDraw' = iDraw /\ asked' = asked /\ failed' = failed /\ asked = {}
      BY <1>1 DEF DrawHere, TableInv, HereDrawn
    <2>2. bar'.links \subseteq 1..Ceiling(known', bar'.len) /\ bar'.len = len'
      BY <1>0, <2>1, BarLemma
    <2>3. bar'.links \subseteq 1..MaxRecords
      <3>1. Ceiling(known', len') \in Nat /\ Ceiling(known', len') <= known'
        BY <1>0, CeilingLemma
      <3>2. Ceiling(known', len') <= MaxRecords
        BY <1>0, <3>1
      <3> QED
        BY <1>0, <2>2, <3>1, <3>2
    <2>4. DisplayEnd(start', len', known') \in Nat
      <3>0. start' \in Nat /\ len' \in Nat
        BY <1>0
      <3>1. start' + len' \in Nat
        BY <3>0, PlusLemma, Zenon
      <3> QED
        BY <1>0, <3>1 DEF DisplayEnd, Least
    <2>5. drawn' \in [search : Searches, from : Nat, to : Nat, len : Lengths \cup {0}]
      BY <1>0, <2>1, <2>4
    <2>6. TableTypeOK'
      BY <2>1, <2>2, <2>3, <2>5 DEF TableTypeOK, TableInv, RecordsTyped
    <2>7. BarFits'
      BY <2>2 DEF BarFits
    <2>8. HereDrawn'
      BY <2>1 DEF HereDrawn
    <2>9. LastAsked' /\ LastDrawn'
      BY <2>1 DEF LastAsked, LastDrawn
    <2> QED
      BY <2>6, <2>7, <2>8, <2>9 DEF TableInv
  <1>2. CASE AskServer
    <2> DEFINE new == Request(iDraw + 1, search', start', len')
    <2>1. /\ serverSide /\ serverSide' = serverSide /\ iDraw < MaxDraws /\ iDraw' = iDraw + 1
          /\ asked' = asked \cup {new} /\ failed' = FALSE /\ drawn' = drawn /\ bar' = bar /\ known' = known
      BY <1>2 DEF AskServer
    <2>2. iDraw \in Nat /\ iDraw' \in 0..MaxDraws /\ iDraw + 1 \in 1..(iDraw + 1)
      <3>1. iDraw \in 0..MaxDraws
        BY DEF TableInv, TableTypeOK
      <3> QED
        BY <1>0, <2>1, <3>1
    <2>3. new \in [sEcho : 1..iDraw', search : Searches, start : 0..MaxRecords, len : Lengths]
          /\ new.sEcho = iDraw'
      BY <2>1, <2>2 DEF Request
    <2>4. asked \subseteq [sEcho : 1..iDraw, search : Searches, start : 0..MaxRecords, len : Lengths]
      BY DEF TableInv, TableTypeOK
    <2>5. \A r \in asked : r \in [sEcho : 1..iDraw', search : Searches, start : 0..MaxRecords, len : Lengths]
                           /\ r.sEcho # iDraw'
      BY <2>1, <2>2, <2>4
    <2>6. new = Request(iDraw', search', start', len')
      BY <2>1
    <2> HIDE DEF new
    <2>7. TableTypeOK'
      BY <2>1, <2>2, <2>3, <2>5 DEF TableTypeOK, TableInv, RecordsTyped
    <2>8. LastAsked'
      BY <2>1, <2>5, <2>6 DEF LastAsked
    <2>9. LastDrawn'
      BY <2>1, <2>3 DEF LastDrawn
    <2>10. BarFits' /\ HereDrawn'
      BY <2>1 DEF BarFits, HereDrawn, TableInv
    <2> QED
      BY <2>7, <2>8, <2>9, <2>10 DEF TableInv
  <1> QED
    BY <1>1, <1>2 DEF Draw

LEMMA TableInitInv ==
  ASSUME TableInit PROVE TableInv
  <1> DEFINE l == Min(Lengths)
  <1>1. l \in Lengths /\ l \in Nat \ {0}
    BY MinLemma, LengthsAssumption
  <1>2. /\ MaxRecords \in Nat /\ MaxRecords \div 2 \in 0..MaxRecords /\ MaxRecords \in 0..MaxRecords
        /\ 0 \in 0..MaxRecords /\ 0 \in 0..MaxDraws
    BY TableBounds, SMT
  <1>3. records \in [Searches -> 0..MaxRecords] /\ records["typed"] <= records[""] /\ records[""] = MaxRecords
    <2>1. records = [q \in Searches |-> IF q = "" THEN MaxRecords ELSE MaxRecords \div 2]
      BY DEF TableInit
    <2>2. records[""] = MaxRecords /\ records["typed"] = MaxRecords \div 2
      BY <2>1 DEF Searches
    <2>3. records \in [Searches -> 0..MaxRecords]
      BY <1>2, <2>1
    <2>4. records["typed"] <= records[""]
      <3>1. MaxRecords \div 2 <= MaxRecords
        BY <1>2, RangeLemma, Zenon
      <3> QED
        BY <2>2, <3>1
    <2> QED
      BY <2>2, <2>3, <2>4
  <1>4. start = 0 /\ len = l /\ search = "" /\ known \in {0, MaxRecords} /\ bar = BarOf(0, l, known) /\ failed = FALSE
    BY DEF TableInit
  <1> HIDE DEF l
  <1>5. known \in Nat /\ known <= MaxRecords /\ known \in 0..MaxRecords
    <2>1. CASE known = 0
      BY <1>2, <2>1
    <2>2. CASE known = MaxRecords
      <3>1. MaxRecords \in Nat /\ MaxRecords <= MaxRecords /\ MaxRecords \in 0..MaxRecords
        BY <1>2
      <3> QED
        BY <2>2, <3>1, Zenon
    <2> QED
      BY <1>4, <2>1, <2>2
  <1>6. bar.links \subseteq 1..Ceiling(known, bar.len) /\ bar.len = l
    <2>1. BarOf(0, l, known).links \subseteq 1..Ceiling(known, l) /\ BarOf(0, l, known).len = l
      BY <1>1, <1>5, BarLemma
    <2> QED
      BY <1>4, <2>1
  <1>7. bar.links \subseteq 1..MaxRecords
    <2>1. Ceiling(known, l) \in Nat /\ Ceiling(known, l) <= known
      BY <1>1, <1>5, CeilingLemma
    <2>2. Ceiling(known, l) <= MaxRecords
      BY <1>2, <1>5, <2>1
    <2> QED
      BY <1>2, <1>6, <2>1, <2>2
  <1>8. CASE serverSide
    <2>1. iDraw = 1 /\ asked = {Request(1, "", 0, l)} /\ drawn = Nothing /\ serverSide = TRUE
      BY <1>4, <1>8 DEF TableInit, l
    <2>2. 1 \in 1..1 /\ 1 \in 0..MaxDraws /\ "" \in Searches
      BY TableBounds DEF Searches
    <2>3. Request(1, "", 0, l) \in [sEcho : 1..1, search : Searches, start : 0..MaxRecords, len : Lengths]
      BY <1>1, <1>2, <2>2 DEF Request
    <2>4. drawn \in [search : Searches, from : Nat, to : Nat, len : Lengths \cup {0}]
      BY <2>1, <2>2 DEF Nothing
    <2>5. TableTypeOK
      BY <1>1, <1>2, <1>3, <1>4, <1>5, <1>6, <1>7, <2>1, <2>2, <2>3, <2>4 DEF TableTypeOK
    <2>6. BarFits /\ HereDrawn
      BY <1>6, <2>1 DEF BarFits, HereDrawn
    <2>7. LastAsked
      BY <1>4, <2>1 DEF LastAsked
    <2>8. LastDrawn
      <3>1. Request(1, "", 0, l).sEcho = 1
        BY DEF Request
      <3> QED
        BY <2>1, <3>1 DEF LastDrawn
    <2> QED
      BY <2>5, <2>6, <2>7, <2>8 DEF TableInv
  <1>9. CASE ~serverSide
    <2>1. /\ iDraw = 0 /\ asked = {} /\ known = MaxRecords /\ serverSide = FALSE
          /\ drawn = [search |-> "", from |-> 0, to |-> DisplayEnd(0, l, known), len |-> l]
      BY <1>4, <1>9 DEF TableInit, l
    <2>2. DisplayEnd(0, l, known) \in Nat /\ "" \in Searches
      <3>1. 0 + l \in Nat
        BY <1>1
      <3> QED
        BY <1>5, <3>1 DEF DisplayEnd, Least, Searches
    <2>3. drawn \in [search : Searches, from : Nat, to : Nat, len : Lengths \cup {0}]
      BY <1>1, <2>1, <2>2
    <2>4. TableTypeOK
      BY <1>1, <1>2, <1>3, <1>4, <1>5, <1>6, <1>7, <2>1, <2>2, <2>3 DEF TableTypeOK
    <2>5. BarFits /\ HereDrawn
      BY <1>3, <1>4, <1>6, <2>1 DEF BarFits, HereDrawn
    <2>6. LastAsked /\ LastDrawn
      BY <2>1 DEF LastAsked, LastDrawn
    <2> QED
      BY <2>4, <2>5, <2>6 DEF TableInv
  <1> QED
    BY <1>8, <1>9 DEF TableInit

\* What the user does to the page in view
LEMMA UserKeeps ==
  ASSUME TableInv, Filter \/ Sort \/ ChangeLength \/ Previous \/ Following \/ ClickPage
  PROVE  TableInv'
  <1>0. /\ MaxRecords \in Nat /\ Lengths \subseteq Nat \ {0}
        /\ len \in Lengths /\ len \in Nat \ {0} /\ start \in 0..MaxRecords /\ known \in 0..MaxRecords
        /\ start \in Nat /\ known \in Nat /\ start <= MaxRecords /\ known <= MaxRecords
        /\ RecordsTyped /\ search \in Searches
    BY TableFacts
  <1>1. ~serverSide => known = records[search] /\ (start = 0 \/ start < known)
    BY DEF TableInv, HereDrawn
  <1>2. ASSUME NEW q \in Searches, records' = records, FilterComplete(q) PROVE TableInv'
    <2>1. /\ search' = q /\ known' = (IF serverSide THEN known ELSE records[q]) /\ start' = 0
          /\ len' = len /\ Draw
      BY <1>2 DEF FilterComplete
    <2>2. RecordsTyped' /\ known' \in 0..MaxRecords
      BY <1>0, <1>2, <2>1 DEF RecordsTyped
    <2> QED
      BY <1>0, <1>2, <2>1, <2>2, DrawKeeps
  <1>3. ASSUME records' = records, search' = search, known' = known, len' \in Lengths, Draw,
               start' \in 0..MaxRecords, start < known => start' < known, known <= start => start' <= start
        PROVE  TableInv'
    <2>1. RecordsTyped'
      BY <1>0, <1>3 DEF RecordsTyped
    <2>2. start' = 0 \/ start' < known \/ serverSide
      BY <1>0, <1>1, <1>3
    <2> QED
      BY <1>0, <1>1, <1>3, <2>1, <2>2, DrawKeeps
  <1>4. CASE Filter \/ Sort
    BY <1>0, <1>2, <1>4 DEF Filter, Sort
  <1>5. CASE ChangeLength
    <2>1. PICK l \in Lengths :
            /\ len' = l
            /\ start' = IF DisplayEnd(start, l, known) = known
                        THEN IF known > l THEN known - l ELSE 0
                        ELSE start
            /\ UNCHANGED <<records, search, known>> /\ Draw
      BY <1>5 DEF ChangeLength
    <2>2. l \in Nat \ {0}
      BY <1>0
    <2>3. start' \in 0..MaxRecords /\ (start < known => start' < known) /\ (known <= start => start' <= start)
      BY <1>0, <2>1, <2>2
    <2> QED
      BY <1>3, <2>1, <2>3
  <1>6. CASE Previous
    <2>1. /\ start' = (IF start > len THEN start - len ELSE 0)
          /\ UNCHANGED <<records, search, len, known>> /\ Draw
      BY <1>6 DEF Previous
    <2>2. start' \in 0..MaxRecords /\ (start < known => start' < known) /\ (known <= start => start' <= start)
      BY <1>0, <2>1
    <2> QED
      BY <1>0, <1>3, <2>1, <2>2
  <1>7. CASE Following
    <2>1. start + len < known /\ start' = start + len /\ UNCHANGED <<records, search, len, known>> /\ Draw
      BY <1>7 DEF Following
    <2>2. start' \in 0..MaxRecords /\ (start < known => start' < known) /\ (known <= start => start' <= start)
      BY <1>0, <2>1
    <2> QED
      BY <1>0, <1>3, <2>1, <2>2
  <1>8. CASE ClickPage
    <2>1. PICK p \in bar.links :
            start' = (p - 1) * bar.len /\ UNCHANGED <<records, search, len, known>> /\ Draw
      BY <1>8 DEF ClickPage
    <2>2. bar.len \in Nat \ {0} /\ p \in 1..Ceiling(known, bar.len)
      BY <1>0 DEF TableInv, TableTypeOK, BarFits
    <2>3. start' \in Nat /\ start' < known
      BY <1>0, <2>1, <2>2, CeilingLemma
    <2>4. start' \in 0..MaxRecords /\ (start < known => start' < known) /\ (known <= start => start' <= start)
      BY <1>0, <2>3
    <2> QED
      BY <1>0, <1>3, <2>1, <2>4
  <1> QED
    BY <1>4, <1>5, <1>6, <1>7, <1>8

\* What scripts do to a table that has its records itself
LEMMA ScriptKeeps ==
  ASSUME TableInv, DeleteRow \/ AddData
  PROVE  TableInv'
  <1> DEFINE all == records[""]
             some == records["typed"]
  <1>0. /\ MaxRecords \in Nat /\ len \in Lengths /\ start \in 0..MaxRecords
        /\ records \in [Searches -> 0..MaxRecords] /\ search \in Searches
        /\ search = "" \/ search = "typed"
    BY TableFacts
  <1>3. MaxRecords \in Nat /\ 0 \in 0..MaxRecords /\ start \in Nat /\ start <= MaxRecords
    <2>1. MaxRecords \in Nat /\ start \in Nat /\ start <= MaxRecords
      BY TableFacts, Zenon
    <2>2. ASSUME NEW m \in Nat PROVE 0 \in 0..m
      OBVIOUS
    <2> QED
      BY <2>1, <2>2, Zenon
  <1>4. all \in Nat /\ some \in Nat /\ all <= MaxRecords /\ some <= all
    BY TableFacts, Zenon
  <1>5. len \in Nat /\ len >= 1
    BY TableFacts, PositiveLemma, Zenon
  <1>1. CASE DeleteRow
    <2>1. PICK q \in Searches :
            /\ ~serverSide /\ Deletable(q) /\ records' = Fewer(q) /\ known' = records'[search]
            /\ start' = IF start >= known' THEN IF start > len THEN start - len ELSE 0 ELSE start
            /\ UNCHANGED <<search, len>> /\ Draw
      BY <1>1 DEF DeleteRow
    <2>2. all > 0 /\ (q = "typed" => some > 0) /\ (q # "typed" => some < all)
      <3>1. q \in {"", "typed"} /\ Deletable(q)
        BY <2>1 DEF Searches
      <3>2. CASE q = "typed"
        <4>1. some > 0
          BY <3>1, <3>2 DEF Deletable
        <4> HIDE DEF all, some
        <4> QED
          BY <1>4, <3>2, <4>1
      <3>3. CASE q = ""
        <4>1. all > some
          BY <3>1, <3>3 DEF Deletable
        <4> HIDE DEF all, some
        <4> QED
          <5>1. all > 0 /\ some < all
            BY <1>4, <4>1
          <5>2. q # "typed"
            BY <3>3
          <5> QED
            BY <5>1, <5>2, Zenon
      <3> QED
        BY <3>1, <3>2, <3>3
    <2> DEFINE less == IF q = "typed" THEN some - 1 ELSE some
    <2>3. all - 1 \in 0..MaxRecords /\ less \in 0..MaxRecords /\ less <= all - 1
      <3> HIDE DEF all, some
      <3> QED
        BY <1>3, <1>4, <2>2
    <2>4. records' = [records EXCEPT ![""] = all - 1, !["typed"] = less]
      BY <2>1 DEF Fewer
    <2> HIDE DEF less
    <2>5. /\ records' \in [Searches -> 0..MaxRecords]
          /\ records'[""] = all - 1 /\ records'["typed"] = less
      BY <1>0, <2>3, <2>4 DEF Searches
    <2>6. RecordsTyped'
      BY <2>3, <2>5 DEF RecordsTyped
    <2>7. known' \in 0..MaxRecords
      BY <1>0, <2>1, <2>5
    <2>8. records[search] \in Nat /\ known' >= records[search] - 1
      <3>1. CASE search = ""
        <4>1. records[search] = all /\ known' = all - 1
          BY <2>1, <2>5, <3>1
        <4> HIDE DEF all, some
        <4> QED
          BY <1>4, <4>1
      <3>2. CASE search = "typed"
        <4>1. records[search] = some /\ known' = less
          BY <2>1, <2>5, <3>2
        <4> HIDE DEF all, some
        <4>2. less = some \/ less = some - 1
          BY DEF less
        <4> QED
          BY <1>4, <4>1, <4>2
      <3> QED
        BY <1>0, <3>1, <3>2
    <2>9. start = 0 \/ start < records[search]
      BY <2>1 DEF TableInv, HereDrawn
    <2>10. start' \in 0..MaxRecords /\ (start' = 0 \/ start' < known')
      <3> DEFINE n == records[search]
      <3>1. n \in Nat /\ known' >= n - 1 /\ (start = 0 \/ start < n)
        BY <2>8, <2>9
      <3>2. known' \in Nat
        BY <2>7
      <3>3. start' = IF start >= known' THEN IF start > len THEN start - len ELSE 0 ELSE start
        BY <2>1
      <3> HIDE DEF n
      <3>4. len \in Nat /\ len >= 1 /\ MaxRecords \in Nat
        BY <1>3, <1>5
      <3> QED
        BY <1>3, <3>1, <3>2, <3>3, <3>4
    <2> QED
      BY <1>0, <2>1, <2>6, <2>7, <2>10, DrawKeeps
  <1>2. CASE AddData
    <2>1. PICK q \in Searches :
            ~serverSide /\ records[""] < MaxRecords /\ records' = More(q) /\ FilterComplete(search)
      BY <1>2 DEF AddData
    <2>2. /\ search' = search /\ known' = records'[search] /\ start' = 0 /\ len' = len /\ Draw
      BY <2>1 DEF FilterComplete
    <2> DEFINE more == IF q = "typed" THEN some + 1 ELSE some
    <2>3. all + 1 \in 0..MaxRecords /\ more \in 0..MaxRecords /\ more <= all + 1
      <3>1. all < MaxRecords
        BY <2>1
      <3> HIDE DEF all, some
      <3> QED
        BY <1>3, <1>4, <3>1
    <2>4. records' = [records EXCEPT ![""] = all + 1, !["typed"] = more]
      BY <2>1 DEF More
    <2> HIDE DEF more
    <2>5. /\ records' \in [Searches -> 0..MaxRecords]
          /\ records'[""] = all + 1 /\ records'["typed"] = more
      BY <1>0, <2>3, <2>4 DEF Searches
    <2>6. RecordsTyped'
      BY <2>3, <2>5 DEF RecordsTyped
    <2>7. known' \in 0..MaxRecords
      BY <1>0, <2>2, <2>5
    <2> QED
      BY <1>0, <1>3, <2>1, <2>2, <2>6, <2>7, DrawKeeps
  <1> QED
    BY <1>1, <1>2

\* The answer that is drawn is that of the last request
LEMMA AnswerKeeps ==
  ASSUME TableInv, NEW r \in asked, Answered(r) \/ Failed(r)
  PROVE  TableInv'
  <1>0. /\ MaxRecords \in Nat /\ Lengths \subseteq Nat \ {0} /\ len \in Lengths /\ start \in 0..MaxRecords
        /\ r \in [sEcho : 1..iDraw, search : Searches, start : 0..MaxRecords, len : Lengths]
        /\ records \in [Searches -> 0..MaxRecords] /\ iDraw \in Nat /\ serverSide \in BOOLEAN
    BY TableFacts DEF TableInv, TableTypeOK
  <1>1. /\ asked' = asked \ {r} /\ serverSide' = serverSide /\ records' = records /\ search' = search
        /\ start' = start /\ len' = len /\ iDraw' = iDraw
    BY DEF Answered, Failed
  <1>2. serverSide
    BY DEF TableInv, HereDrawn
  <1>3. LastAsked' /\ HereDrawn'
    BY <1>1, <1>2 DEF LastAsked, HereDrawn, TableInv
  <1>4. r.sEcho = iDraw => /\ r.search = search /\ r.start = start /\ r.len = len
                           /\ \A e \in asked : e.sEcho = iDraw => e = r
    BY DEF TableInv, LastAsked, Request
  <1>5. CASE Failed(r)
    <2>1. failed' = (failed \/ r.sEcho = iDraw) /\ known' = known /\ drawn' = drawn /\ bar' = bar
      BY <1>5 DEF Failed
    <2>2. failed' \in BOOLEAN
      BY <2>1, Zenon
    <2>3. TableTypeOK'
      BY <1>1, <2>1, <2>2 DEF TableTypeOK, TableInv
    <2>4. BarFits'
      BY <2>1 DEF BarFits, TableInv
    <2>5. LastDrawn'
      BY <1>1, <2>1 DEF LastDrawn, TableInv
    <2> QED
      BY <1>3, <2>3, <2>4, <2>5 DEF TableInv
  <1>6. CASE Answered(r) /\ r.sEcho < iDraw
    <2>1. failed' = failed /\ known' = known /\ drawn' = drawn /\ bar' = bar
      BY <1>6 DEF Answered
    <2>2. TableTypeOK'
      BY <1>1, <2>1 DEF TableTypeOK, TableInv
    <2>3. BarFits'
      BY <2>1 DEF BarFits, TableInv
    <2>4. r.sEcho # iDraw
      BY <1>0, <1>6
    <2>5. LastDrawn'
      BY <1>1, <2>1, <2>4 DEF LastDrawn, TableInv
    <2> QED
      BY <1>3, <2>2, <2>3, <2>5 DEF TableInv
  <1>7. CASE Answered(r) /\ ~(r.sEcho < iDraw)
    <2>1. /\ failed' = failed /\ known' = records[r.search] /\ bar' = BarOf(start, len, known')
          /\ drawn' = [search |-> r.search, from |-> r.start,
                       to |-> Max({r.start, DisplayEnd(r.start, r.len, known')}), len |-> r.len]
      BY <1>7 DEF Answered
    <2>2. r.sEcho = iDraw
      BY <1>0, <1>7
    <2>3. /\ known' \in 0..MaxRecords /\ known' \in Nat /\ known' <= MaxRecords /\ start \in Nat
          /\ len \in Nat \ {0} /\ r.start \in Nat /\ r.len \in Nat /\ r.search \in Searches /\ r.len \in Lengths
      <3>1. known' \in 0..MaxRecords /\ start \in 0..MaxRecords /\ r.start \in 0..MaxRecords
            /\ len \in Lengths /\ r.search \in Searches /\ r.len \in Lengths
        BY <1>0, <2>1
      <3>2. len \in Nat \ {0} /\ r.len \in Nat
        BY <1>0, <3>1
      <3>3. MaxRecords \in Nat
        BY <1>0
      <3>4. known' \in Nat /\ known' <= MaxRecords /\ start \in Nat /\ r.start \in Nat
        BY <3>1, <3>3, RangeLemma, Zenon
      <3> QED
        BY <3>1, <3>2, <3>4
    <2>4. bar'.links \subseteq 1..Ceiling(known', bar'.len) /\ bar'.len = len
      BY <2>1, <2>3, BarLemma
    <2>5. bar'.links \subseteq 1..MaxRecords
      <3>1. Ceiling(known', len) \in Nat /\ Ceiling(known', len) <= known'
        BY <2>3, CeilingLemma
      <3>2. Ceiling(known', len) <= MaxRecords
        BY <1>0, <2>3, <3>1
      <3> QED
        BY <1>0, <2>4, <3>1, <3>2
    <2>6. drawn' \in [search : Searches, from : Nat, to : Nat, len : Lengths \cup {0}]
      <3>1. r.start + r.len \in Nat
        BY <2>3
      <3>2. DisplayEnd(r.start, r.len, known') \in Nat
        BY <2>3, <3>1 DEF DisplayEnd, Least
      <3>3. Max({r.start, DisplayEnd(r.start, r.len, known')}) \in Nat
        BY <2>3, <3>2, MaxLemma
      <3> QED
        BY <2>1, <2>3, <3>3
    <2>7. TableTypeOK'
      BY <1>0, <1>1, <2>1, <2>3, <2>4, <2>5, <2>6 DEF TableTypeOK, TableInv
    <2>8. BarFits'
      BY <2>4 DEF BarFits
    <2>9. LastDrawn'
      BY <1>1, <1>4, <2>1, <2>2 DEF LastDrawn
    <2> QED
      BY <1>3, <2>7, <2>8, <2>9 DEF TableInv
  <1> QED
    BY <1>5, <1>6, <1>7

LEMMA TableInvHolds == TableSpec => []TableInv
  <1>1. TableInv /\ [TableNext]_tableVars => TableInv'
    <2> SUFFICES ASSUME TableInv, [TableNext]_tableVars PROVE TableInv'
      OBVIOUS
    <2>1. CASE UNCHANGED tableVars
      BY <2>1 DEF tableVars, TableInv, TableTypeOK, BarFits, HereDrawn, LastAsked, LastDrawn
    <2>2. CASE TableNext
      BY <2>2, UserKeeps, ScriptKeeps, AnswerKeeps DEF TableNext
    <2> QED
      BY <2>1, <2>2
  <1> QED
    BY <1>1, TableInitInv, PTL DEF TableSpec

(* Whatever is searched, sorted, turned, deleted and answered, the table's *)
(* start and its bar stay within the records there can be.                 *)
THEOREM TableTypeCorrect == TableSpec => []TableTypeOK
  <1>1. TableInv => TableTypeOK
    BY DEF TableInv
  <1> QED
    BY <1>1, TableInvHolds, PTL

(* For any number of records and any page lengths: as long as records      *)
(* match, there are rows in view and behind every link of the bar.         *)
THEOREM PageHasRowsHolds == TableSpec => []PageHasRows
  <1>1. TableInv => PageHasRows
    <2> SUFFICES ASSUME TableInv, ~serverSide, known > 0
                 PROVE  /\ start \in 0..(known - 1)
                        /\ drawn.from = start /\ drawn.from < drawn.to /\ drawn.to <= known
                        /\ \A p \in bar.links : (p - 1) * bar.len \in 0..(known - 1)
      BY DEF PageHasRows
    <2>1. /\ len \in Nat \ {0} /\ start \in Nat /\ known \in Nat
      BY TableFacts
    <2>2. /\ start = 0 \/ start < known
          /\ drawn = [search |-> search, from |-> start, to |-> DisplayEnd(start, len, known), len |-> len]
          /\ bar = BarOf(start, len, known)
      BY DEF TableInv, HereDrawn
    <2>3. start < known
      BY <2>1, <2>2
    <2>4. drawn.from = start /\ start < DisplayEnd(start, len, known) /\ DisplayEnd(start, len, known) <= known
      <3>1. start + len \in Nat /\ start < start + len
        BY <2>1
      <3> QED
        BY <2>1, <2>2, <2>3, <3>1 DEF DisplayEnd, Least
    <2>5. ASSUME NEW p \in bar.links PROVE (p - 1) * bar.len \in 0..(known - 1)
      <3>1. bar.len = len /\ bar.links \subseteq 1..Ceiling(known, len)
        BY <2>1, <2>2, BarLemma
      <3>2. (p - 1) * len \in Nat /\ (p - 1) * len < known
        BY <2>1, <3>1, CeilingLemma
      <3> DEFINE a == (p - 1) * len
      <3>3. a \in Nat /\ a < known
        BY <3>2
      <3> HIDE DEF a
      <3>4. a \in 0..(known - 1)
        BY <2>1, <3>3
      <3> QED
        BY <3>1, <3>4 DEF a
    <2> QED
      BY <2>1, <2>2, <2>3, <2>4, <2>5
  <1> QED
    BY <1>1, TableInvHolds, PTL

(* For any number of requests under way and any order of their answers:    *)
(* once none is awaited and the last came, its rows are in view.           *)
THEOREM LastAnswerDrawnHolds == TableSpec => []LastAnswerDrawn
  <1>1. TableInv => LastAnswerDrawn
    BY DEF TableInv, LastDrawn, LastAnswerDrawn
  <1> QED
    BY <1>1, TableInvHolds, PTL

-----------------------------------------------------------------------------
(***************************************************************************)
(* Effects: what the operators on the effects of an element do, whatever   *)
(* the jobs are.                                                           *)
(***************************************************************************)
Lines(J) == Seq(J \cup {Sentinel})
EffectStates(J) == [queue : Lines(J), stop : SUBSET J, timers : SUBSET J, timeouts : SUBSET J]

\* A set of jobs
Proper(J) == \A j \in J : j.kind # "inprogress"

\* A queue of one to m entries, of which the sentinel is the first
Headed(q, J, m) == Len(q) \in 1..m /\ q[1] = Sentinel /\ \A i \in 2..Len(q) : q[i] \in J

LEMMA HeadedOne == \A q, J : Headed(q, J, 1) => Len(q) = 1 /\ q[1] = Sentinel
  BY DEF Headed

LEMMA SentinelKind == Sentinel.kind = "inprogress" /\ \A J : Proper(J) => Sentinel \notin J
  BY DEF Sentinel, Proper

LEMMA AppendFacts ==
  ASSUME NEW S, NEW q \in Seq(S), NEW x \in S
  PROVE  /\ Append(q, x) \in Seq(S) /\ Len(Append(q, x)) = Len(q) + 1 /\ Append(q, x) # <<>>
         /\ Append(q, x)[Len(q) + 1] = x
         /\ \A i \in 1..Len(q) : Append(q, x)[i] = q[i]
  OBVIOUS

LEMMA TailFacts ==
  ASSUME NEW S, NEW q \in Seq(S), q # <<>>
  PROVE  /\ Tail(q) \in Seq(S) /\ Len(Tail(q)) = Len(q) - 1 /\ Len(q) \in Nat \ {0}
         /\ Head(q) = q[1] /\ Head(q) \in S
         /\ \A i \in 1..(Len(q) - 1) : Tail(q)[i] = q[i + 1]
  OBVIOUS

LEMMA LenFacts ==
  ASSUME NEW S, NEW q \in Seq(S)
  PROVE  /\ Len(q) \in Nat /\ (q = <<>> <=> Len(q) = 0)
         /\ \A i \in 1..Len(q) : q[i] \in S
  OBVIOUS

LEMMA ConsFacts ==
  ASSUME NEW S, NEW q \in Seq(S), NEW x \in S
  PROVE  /\ <<x>> \o q \in Seq(S) /\ Len(<<x>> \o q) = Len(q) + 1 /\ (<<x>> \o q)[1] = x
         /\ \A i \in 2..(Len(q) + 1) : (<<x>> \o q)[i] = q[i - 1]
  OBVIOUS

LEMMA TwoOrMore ==
  \A m \in Nat : \A n \in Nat : n \in 1..(m + 1) /\ n # 1 => n >= 2 /\ n <= m + 1
  OBVIOUS

LEMMA BegunLemma ==
  ASSUME NEW J, NEW f \in EffectStates(J), NEW j \in J
  PROVE  LET g == Begun(f, j) IN
           /\ g \in EffectStates(J) /\ g.queue = f.queue
           /\ j.kind # "delay" => g.timers = f.timers \cup {j} /\ g.timeouts = f.timeouts /\ g.stop = {}
           /\ j.kind = "delay" => g.timers = f.timers /\ g.timeouts = f.timeouts \cup {j} /\ g.stop = {j}
  <1> DEFINE a == [f EXCEPT !.timers = f.timers \cup {j}, !.stop = {}]
             d == [f EXCEPT !.timeouts = f.timeouts \cup {j}, !.stop = {j}]
  <1>1. Begun(f, j) = IF j.kind = "delay" THEN d ELSE a
    BY DEF Begun, EffectStates
  <1>2. /\ a \in EffectStates(J) /\ a.queue = f.queue
        /\ a.timers = f.timers \cup {j} /\ a.timeouts = f.timeouts /\ a.stop = {}
    BY DEF EffectStates
  <1>3. /\ d \in EffectStates(J) /\ d.queue = f.queue
        /\ d.timers = f.timers /\ d.timeouts = f.timeouts \cup {j} /\ d.stop = {j}
    BY DEF EffectStates
  <1> HIDE DEF a, d
  <1> QED
    BY <1>1, <1>2, <1>3

LEMMA QueueLemma ==
  ASSUME NEW J, NEW f \in EffectStates(J), NEW q \in Lines(J)
  PROVE  LET g == [f EXCEPT !.queue = q] IN
           /\ g \in EffectStates(J) /\ g.queue = q /\ g.stop = f.stop
           /\ g.timers = f.timers /\ g.timeouts = f.timeouts
  BY DEF EffectStates

LEMMA EmptyLine == \A J : <<>> \in Lines(J)
  BY DEF Lines

\* Nothing is left to begin
LEMMA DequeuedLast ==
  ASSUME NEW J, NEW f \in EffectStates(J),
         f.queue = <<>> \/ (Len(f.queue) = 1 /\ f.queue[1] = Sentinel)
  PROVE  LET g == Dequeued(f) IN
           /\ g \in EffectStates(J) /\ g.queue = <<>> /\ g.stop = {}
           /\ g.timers = f.timers /\ g.timeouts = f.timeouts
  <1> DEFINE w == IF SentinelFirst(f.queue) THEN Tail(f.queue) ELSE f.queue
  <1>0. f.queue \in Lines(J)
    BY DEF EffectStates
  <1>1. w = <<>>
    <2>1. CASE f.queue = <<>>
      BY <2>1 DEF SentinelFirst
    <2>2. CASE f.queue # <<>>
      <3>1. Len(f.queue) = 1 /\ f.queue[1] = Sentinel
        BY <2>2
      <3>2. /\ Tail(f.queue) \in Lines(J) /\ Len(Tail(f.queue)) = Len(f.queue) - 1 /\ Head(f.queue) = f.queue[1]
        BY <1>0, <2>2, TailFacts DEF Lines
      <3>3. Len(Tail(f.queue)) = 0
        BY <3>1, <3>2
      <3>4. Tail(f.queue) = <<>>
        BY <3>2, <3>3, LenFacts DEF Lines
      <3>5. SentinelFirst(f.queue)
        BY <2>2, <3>1, <3>2, SentinelKind DEF SentinelFirst
      <3> QED
        BY <3>4, <3>5
    <2> QED
      BY <2>1, <2>2
  <1>2. Dequeued(f) = [f EXCEPT !.queue = <<>>, !.stop = {}]
    BY <1>1 DEF Dequeued
  <1>3. LET g == [f EXCEPT !.queue = <<>>, !.stop = {}] IN
           /\ g \in EffectStates(J) /\ g.queue = <<>> /\ g.stop = {}
           /\ g.timers = f.timers /\ g.timeouts = f.timeouts
    BY EmptyLine DEF EffectStates
  <1> QED
    BY <1>2, <1>3

\* The first that waits behind the sentinel begins
LEMMA DequeuedNext ==
  ASSUME NEW J, NEW f \in EffectStates(J), NEW m \in Nat, Headed(f.queue, J, m + 1), Len(f.queue) # 1
  PROVE  /\ f.queue[2] \in J
         /\ \E h \in EffectStates(J) :
              /\ Dequeued(f) = Begun(h, f.queue[2]) /\ h.timers = f.timers /\ h.timeouts = f.timeouts
              /\ Headed(h.queue, J, m)
  <1> DEFINE q == f.queue
             w == Tail(q)
             k == Head(w)
             r == Tail(w)
             l == <<Sentinel>> \o r
  <1>0. q \in Lines(J) /\ Len(q) \in Nat /\ Len(q) >= 2 /\ Len(q) <= m + 1
    <2>1. q \in Lines(J)
      BY DEF EffectStates
    <2>2. Len(q) \in Nat
      BY <2>1, LenFacts DEF Lines
    <2>3. Len(q) \in 1..(m + 1) /\ Len(q) # 1
      BY DEF Headed
    <2> QED
      BY <2>1, <2>2, <2>3, TwoOrMore, Zenon
  <1>12. /\ q[1] = Sentinel /\ \A i \in 2..Len(q) : q[i] \in J
    BY DEF Headed
  <1>1. q # <<>>
    BY <1>0, LenFacts DEF Lines
  <1>2. /\ w \in Lines(J) /\ Len(w) = Len(q) - 1 /\ Head(q) = q[1]
        /\ \A i \in 1..(Len(q) - 1) : w[i] = q[i + 1]
    BY <1>0, <1>1, TailFacts DEF Lines
  <1>3. SentinelFirst(q)
    BY <1>1, <1>2, <1>12, SentinelKind DEF SentinelFirst
  <1>4. w # <<>>
    <2> HIDE DEF w, q
    <2>1. Len(w) # 0
      BY <1>0, <1>2
    <2> QED
      BY <1>2, <2>1, LenFacts DEF Lines
  <1>5. /\ r \in Lines(J) /\ Len(r) = Len(w) - 1 /\ k = w[1]
        /\ \A i \in 1..(Len(w) - 1) : r[i] = w[i + 1]
    <2> HIDE DEF w
    <2> QED
      BY <1>2, <1>4, TailFacts DEF Lines
  <1>6. k = q[2] /\ k \in J
    BY <1>0, <1>2, <1>5, <1>12
  <1>7. \A i \in 1..Len(r) : r[i] \in J
    <2> SUFFICES ASSUME NEW i \in 1..Len(r) PROVE r[i] \in J
      OBVIOUS
    <2> HIDE DEF r, w, q
    <2>1. i \in 1..(Len(w) - 1) /\ i + 1 \in 1..(Len(q) - 1) /\ i + 2 \in 2..Len(q) /\ (i + 1) + 1 = i + 2
      BY <1>0, <1>2, <1>5
    <2>2. r[i] = q[i + 2]
      BY <1>2, <1>5, <2>1
    <2> QED
      BY <1>12, <2>1, <2>2
  <1>8. /\ l \in Lines(J) /\ Len(l) = Len(r) + 1 /\ l[1] = Sentinel
        /\ \A i \in 2..(Len(r) + 1) : l[i] = r[i - 1]
    <2> HIDE DEF r
    <2> QED
      BY <1>5, ConsFacts DEF Lines
  <1>9. Headed(l, J, m)
    <2> HIDE DEF l, r, w, q
    <2>1. Len(r) \in Nat /\ Len(l) \in 1..m
      BY <1>0, <1>2, <1>5, <1>8
    <2>2. ASSUME NEW i \in 2..Len(l) PROVE l[i] \in J
      <3>1. i \in 2..(Len(r) + 1) /\ i - 1 \in 1..Len(r)
        BY <1>8, <2>1
      <3> QED
        BY <1>7, <1>8, <3>1
    <2> QED
      BY <1>8, <2>1, <2>2 DEF Headed
  <1>10. Dequeued(f) = Begun([f EXCEPT !.queue = l], k)
    BY <1>3, <1>4 DEF Dequeued
  <1> HIDE DEF l, k, w, r
  <1>11. LET h == [f EXCEPT !.queue = l] IN
           /\ h \in EffectStates(J) /\ h.queue = l /\ h.stop = f.stop
           /\ h.timers = f.timers /\ h.timeouts = f.timeouts
    BY <1>8, QueueLemma
  <1> QED
    BY <1>6, <1>9, <1>10, <1>11

\* What was queued where there was nothing begins
LEMMA DequeuedFirst ==
  ASSUME NEW J, Proper(J), NEW f \in EffectStates(J), NEW k \in J, Len(f.queue) = 1, f.queue[1] = k
  PROVE  \E h \in EffectStates(J) :
           /\ Dequeued(f) = Begun(h, k) /\ h.timers = f.timers /\ h.timeouts = f.timeouts
           /\ Headed(h.queue, J, 1)
  <1> DEFINE q == f.queue
             r == Tail(q)
             l == <<Sentinel>> \o r
  <1>0. q \in Lines(J) /\ q # <<>>
    BY LenFacts DEF EffectStates, Lines
  <1>1. Head(q) = k /\ r \in Lines(J) /\ Len(r) = Len(q) - 1
    BY <1>0, TailFacts DEF Lines
  <1>2. ~SentinelFirst(q)
    BY <1>1 DEF SentinelFirst, Proper
  <1>3. l \in Lines(J) /\ Len(l) = Len(r) + 1 /\ l[1] = Sentinel
    <2> HIDE DEF r
    <2> QED
      BY <1>1, ConsFacts DEF Lines
  <1>4. Dequeued(f) = Begun([f EXCEPT !.queue = l], k)
    BY <1>0, <1>1, <1>2 DEF Dequeued
  <1>5. Headed(l, J, 1)
    <2> HIDE DEF l, r
    <2>1. Len(l) = 1
      BY <1>1, <1>3
    <2> QED
      BY <1>3, <2>1 DEF Headed
  <1> HIDE DEF l, r
  <1>6. LET h == [f EXCEPT !.queue = l] IN
           /\ h \in EffectStates(J) /\ h.queue = l /\ h.stop = f.stop
           /\ h.timers = f.timers /\ h.timeouts = f.timeouts
    BY <1>3, QueueLemma
  <1> QED
    BY <1>4, <1>5, <1>6

\* What is queued behind others waits
LEMMA EnqueuedBehind ==
  ASSUME NEW J, Proper(J), NEW f \in EffectStates(J), NEW m \in Nat, Headed(f.queue, J, m), NEW k \in J
  PROVE  LET g == Enqueued(f, k) IN
           /\ g \in EffectStates(J) /\ Headed(g.queue, J, m + 1)
           /\ g.stop = f.stop /\ g.timers = f.timers /\ g.timeouts = f.timeouts
  <1> DEFINE p == f.queue
             q == Append(p, k)
             g == [f EXCEPT !.queue = q]
  <1>1. p \in Seq(J \cup {Sentinel}) /\ Len(p) \in Nat /\ Len(p) \in 1..m /\ p # <<>>
    BY LenFacts DEF EffectStates, Lines, Headed
  <1>2. /\ q \in Lines(J) /\ Len(q) = Len(p) + 1 /\ q[Len(p) + 1] = k
        /\ \A i \in 1..Len(p) : q[i] = p[i]
    <2>1. k \in J \cup {Sentinel}
      OBVIOUS
    <2> QED
      BY <1>1, <2>1, AppendFacts DEF Lines
  <1>6. p[1] = Sentinel /\ \A i \in 2..Len(p) : p[i] \in J
    BY DEF Headed
  <1>3. SentinelFirst(p)
    BY <1>1, <1>6, TailFacts, SentinelKind DEF SentinelFirst
  <1>4. Enqueued(f, k) = g
    BY <1>3 DEF Enqueued
  <1>7. Headed(q, J, m + 1)
    <2> HIDE DEF q, p
    <2>1. Len(q) \in 1..(m + 1) /\ 1 \in 1..Len(p)
      BY <1>1, <1>2
    <2>2. ASSUME NEW i \in 2..Len(q) PROVE q[i] \in J
      <3>1. i = Len(p) + 1 \/ i \in 2..Len(p)
        BY <1>1, <1>2
      <3>2. i \in 2..Len(p) => i \in 1..Len(p)
        BY <1>1
      <3> QED
        BY <1>2, <1>6, <3>1, <3>2
    <2> QED
      BY <1>2, <1>6, <2>1, <2>2 DEF Headed
  <1> HIDE DEF q
  <1>5. g \in EffectStates(J) /\ g.queue = q /\ g.stop = f.stop /\ g.timers = f.timers /\ g.timeouts = f.timeouts
    BY <1>1, <1>2, QueueLemma
  <1> HIDE DEF g
  <1> QED
    BY <1>4, <1>5, <1>7

\* Where nothing is queued it begins
LEMMA EnqueuedFirst ==
  ASSUME NEW J, Proper(J), NEW f \in EffectStates(J), f.queue = <<>>, NEW k \in J
  PROVE  \E h \in EffectStates(J) :
           /\ Enqueued(f, k) = Begun(h, k) /\ h.timers = f.timers /\ h.timeouts = f.timeouts
           /\ Headed(h.queue, J, 1)
  <1> DEFINE q == Append(f.queue, k)
             e == [f EXCEPT !.queue = q]
  <1>1. f.queue \in Seq(J \cup {Sentinel}) /\ Len(f.queue) = 0
    BY LenFacts DEF EffectStates, Lines
  <1>2. q \in Lines(J) /\ Len(q) = 1 /\ q[1] = k
    <2>1. k \in J \cup {Sentinel}
      OBVIOUS
    <2> QED
      BY <1>1, <2>1, AppendFacts DEF Lines
  <1>3. Enqueued(f, k) = Dequeued(e)
    BY DEF Enqueued, SentinelFirst
  <1> HIDE DEF q
  <1>4. e \in EffectStates(J) /\ e.queue = q /\ e.stop = f.stop /\ e.timers = f.timers /\ e.timeouts = f.timeouts
    BY <1>2, QueueLemma
  <1> HIDE DEF e
  <1>5. \E h \in EffectStates(J) :
          /\ Dequeued(e) = Begun(h, k) /\ h.timers = e.timers /\ h.timeouts = e.timeouts
          /\ Headed(h.queue, J, 1)
    BY <1>2, <1>4, DequeuedFirst
  <1> QED
    BY <1>3, <1>4, <1>5

-----------------------------------------------------------------------------
(***************************************************************************)
(* FxQueue: jobs of any number, in any order with the calls of scripts and *)
(* callbacks.                                                              *)
(***************************************************************************)
LEMMA JobsProper == Proper(Jobs) /\ \A j \in Jobs : j.kind # "inprogress"
  BY DEF Proper, Jobs

\* Nothing is queued and nothing runs; one job runs, and a delay has its stop hook set
Idle(f) ==
  f \in EffectStates(Jobs) /\ f.queue = <<>> /\ f.timers = {} /\ f.timeouts = {} /\ f.stop = {}

Runs(f, j) ==
  \/ f.timers = {j} /\ f.timeouts = {} /\ f.stop = {}
  \/ f.timers = {} /\ f.timeouts = {j} /\ f.stop = {j}

Busy(f) ==
  /\ f \in EffectStates(Jobs)
  /\ \E m \in Nat : Headed(f.queue, Jobs, m)
  /\ \E j \in Jobs : Runs(f, j)

\* Nothing runs, and what is queued waits behind the sentinel
Vacant(f) ==
  /\ f \in EffectStates(Jobs) /\ f.timers = {} /\ f.timeouts = {}
  /\ f.queue = <<>> \/ \E m \in Nat : Headed(f.queue, Jobs, m)

\* Between two calls of a callback: nothing runs, nor is a delay to be stopped, or one job runs
Open(f) == Vacant(f) /\ f.stop = {}

Sound(f) == Open(f) \/ Busy(f)

LEMMA IdleOpen == \A f : Idle(f) => Open(f)
  BY DEF Idle, Open, Vacant

LEMMA BegunBusy ==
  ASSUME NEW h \in EffectStates(Jobs), h.timers = {}, h.timeouts = {}, NEW k \in Jobs,
         NEW m \in Nat, Headed(h.queue, Jobs, m)
  PROVE  Busy(Begun(h, k))
  <1> DEFINE g == Begun(h, k)
  <1>1. /\ g \in EffectStates(Jobs) /\ g.queue = h.queue
        /\ k.kind # "delay" => g.timers = h.timers \cup {k} /\ g.timeouts = h.timeouts /\ g.stop = {}
        /\ k.kind = "delay" => g.timers = h.timers /\ g.timeouts = h.timeouts \cup {k} /\ g.stop = {k}
    BY BegunLemma
  <1> HIDE DEF g
  <1>2. Runs(g, k)
    BY <1>1 DEF Runs
  <1>3. Busy(g)
    BY <1>1, <1>2 DEF Busy
  <1> QED
    BY <1>3 DEF g

LEMMA WiderHeaded == \A q, J : \A m \in Nat : Headed(q, J, m) => Headed(q, J, m + 1)
  BY DEF Headed

LEMMA VacantGoesOn ==
  ASSUME NEW f, Vacant(f)
  PROVE  Idle(Dequeued(f)) \/ Busy(Dequeued(f))
  <1>0. f \in EffectStates(Jobs) /\ f.timers = {} /\ f.timeouts = {}
    BY DEF Vacant
  <1>1. CASE f.queue = <<>> \/ (Len(f.queue) = 1 /\ f.queue[1] = Sentinel)
    <2> DEFINE g == Dequeued(f)
    <2>1. /\ g \in EffectStates(Jobs) /\ g.queue = <<>> /\ g.stop = {}
          /\ g.timers = f.timers /\ g.timeouts = f.timeouts
      BY <1>0, <1>1, DequeuedLast
    <2> HIDE DEF g
    <2>2. Idle(g)
      BY <1>0, <2>1 DEF Idle
    <2> QED
      BY <2>2 DEF g
  <1>2. CASE ~(f.queue = <<>> \/ (Len(f.queue) = 1 /\ f.queue[1] = Sentinel))
    <2>1. PICK m \in Nat : Headed(f.queue, Jobs, m)
      BY <1>2 DEF Vacant
    <2>2. Len(f.queue) # 1 /\ Headed(f.queue, Jobs, m + 1)
      BY <1>2, <2>1, WiderHeaded DEF Headed
    <2>3. /\ f.queue[2] \in Jobs
          /\ \E h \in EffectStates(Jobs) :
               /\ Dequeued(f) = Begun(h, f.queue[2]) /\ h.timers = f.timers /\ h.timeouts = f.timeouts
               /\ Headed(h.queue, Jobs, m)
      BY <1>0, <2>2, DequeuedNext, Zenon
    <2>4. PICK h \in EffectStates(Jobs) :
               /\ Dequeued(f) = Begun(h, f.queue[2]) /\ h.timers = f.timers /\ h.timeouts = f.timeouts
               /\ Headed(h.queue, Jobs, m)
      BY <2>3
    <2>5. Busy(Begun(h, f.queue[2]))
      BY <1>0, <2>3, <2>4, BegunBusy
    <2> QED
      BY <2>4, <2>5
  <1> QED
    BY <1>1, <1>2

LEMMA EnqueuedIdleBegins ==
  ASSUME NEW f, Idle(f), NEW k \in Jobs PROVE Busy(Enqueued(f, k))
  <1>0. f \in EffectStates(Jobs) /\ f.queue = <<>> /\ f.timers = {} /\ f.timeouts = {}
    BY DEF Idle
  <1>1. PICK h \in EffectStates(Jobs) :
           /\ Enqueued(f, k) = Begun(h, k) /\ h.timers = f.timers /\ h.timeouts = f.timeouts
           /\ Headed(h.queue, Jobs, 1)
    BY <1>0, JobsProper, EnqueuedFirst
  <1>2. Busy(Begun(h, k))
    BY <1>0, <1>1, BegunBusy
  <1> QED
    BY <1>1, <1>2

LEMMA EnqueuedWaits ==
  ASSUME NEW f \in EffectStates(Jobs), NEW m \in Nat, Headed(f.queue, Jobs, m), NEW k \in Jobs
  PROVE  LET g == Enqueued(f, k) IN
           /\ g \in EffectStates(Jobs) /\ \E n \in Nat : Headed(g.queue, Jobs, n)
           /\ g.stop = f.stop /\ g.timers = f.timers /\ g.timeouts = f.timeouts
  <1> DEFINE g == Enqueued(f, k)
  <1>1. /\ g \in EffectStates(Jobs) /\ Headed(g.queue, Jobs, m + 1)
        /\ g.stop = f.stop /\ g.timers = f.timers /\ g.timeouts = f.timeouts
    BY JobsProper, EnqueuedBehind
  <1> HIDE DEF g
  <1>2. m + 1 \in Nat
    OBVIOUS
  <1> QED
    BY <1>1, <1>2 DEF g

LEMMA EnqueuedBusy ==
  ASSUME NEW f, Busy(f), NEW k \in Jobs
  PROVE  LET g == Enqueued(f, k) IN
           Busy(g) /\ g.timers = f.timers /\ g.timeouts = f.timeouts /\ g.stop = f.stop
  <1> DEFINE g == Enqueued(f, k)
  <1>1. PICK m \in Nat : Headed(f.queue, Jobs, m)
    BY DEF Busy
  <1>2. f \in EffectStates(Jobs)
    BY DEF Busy
  <1>3. /\ g \in EffectStates(Jobs) /\ \E n \in Nat : Headed(g.queue, Jobs, n)
        /\ g.stop = f.stop /\ g.timers = f.timers /\ g.timeouts = f.timeouts
    BY <1>1, <1>2, EnqueuedWaits
  <1> HIDE DEF g
  <1>4. Busy(g)
    BY <1>3 DEF Busy, Runs
  <1> QED
    BY <1>3, <1>4 DEF g

LEMMA EnqueuedSound ==
  ASSUME NEW f, Sound(f), NEW k \in Jobs PROVE Sound(Enqueued(f, k))
  <1>1. CASE Busy(f)
    BY <1>1, EnqueuedBusy DEF Sound
  <1>2. CASE Open(f) /\ f.queue = <<>>
    <2>1. Idle(f)
      BY <1>2 DEF Open, Vacant, Idle
    <2> QED
      BY <2>1, EnqueuedIdleBegins DEF Sound
  <1>3. CASE Open(f) /\ f.queue # <<>>
    <2>1. PICK m \in Nat : Headed(f.queue, Jobs, m)
      BY <1>3 DEF Open, Vacant
    <2>2. f \in EffectStates(Jobs) /\ f.timers = {} /\ f.timeouts = {} /\ f.stop = {}
      BY <1>3 DEF Open, Vacant
    <2> DEFINE g == Enqueued(f, k)
    <2>3. /\ g \in EffectStates(Jobs) /\ \E n \in Nat : Headed(g.queue, Jobs, n)
          /\ g.stop = f.stop /\ g.timers = f.timers /\ g.timeouts = f.timeouts
      BY <2>1, <2>2, EnqueuedWaits
    <2> HIDE DEF g
    <2>4. Open(g)
      BY <2>2, <2>3 DEF Open, Vacant
    <2> QED
      BY <2>4 DEF Sound, g
  <1> QED
    BY <1>1, <1>2, <1>3 DEF Sound

\* The job that ran leaves, and nothing runs any more
LEMMA WithoutJobOpen ==
  ASSUME NEW f, Busy(f), NEW j \in f.timers
  PROVE  Open([f EXCEPT !.timers = f.timers \ {j}])
  <1> DEFINE h == [f EXCEPT !.timers = f.timers \ {j}]
  <1>1. f \in EffectStates(Jobs) /\ \E m \in Nat : Headed(f.queue, Jobs, m)
    BY DEF Busy
  <1>2. f.timers \ {j} = {} /\ f.timeouts = {} /\ f.stop = {}
    BY DEF Busy, Runs
  <1>3. /\ h \in EffectStates(Jobs) /\ h.queue = f.queue /\ h.timers = f.timers \ {j}
        /\ h.timeouts = f.timeouts /\ h.stop = f.stop
    BY <1>1 DEF EffectStates
  <1> HIDE DEF h
  <1>4. Open(h)
    BY <1>1, <1>2, <1>3 DEF Open, Vacant
  <1> QED
    BY <1>4 DEF h

LEMMA CompletedGoesOn ==
  ASSUME NEW f, NEW j, f \in EffectStates(Jobs), f.queue = <<>> \/ \E m \in Nat : Headed(f.queue, Jobs, m),
         f.timers \ {j} = {}, f.timeouts \ {j} = {}
  PROVE  Idle(Completed(f, j)) \/ Busy(Completed(f, j))
  <1> DEFINE h == [f EXCEPT !.timers = @ \ {j}, !.timeouts = @ \ {j}]
  <1>3. h \in EffectStates(Jobs) /\ h.queue = f.queue /\ h.timers = f.timers \ {j} /\ h.timeouts = f.timeouts \ {j}
    BY DEF EffectStates
  <1>4. Completed(f, j) = Dequeued(h)
    BY DEF Completed
  <1> HIDE DEF h
  <1>5. Vacant(h)
    BY <1>3 DEF Vacant
  <1> QED
    BY <1>4, <1>5, VacantGoesOn

\* The delay that runs has its stop hook, so nothing runs any more; what is cleared is nothing that runs
LEMMA HaltedKept ==
  ASSUME NEW f, Sound(f)
  PROVE  Open(Halted(f, FALSE))
  <1> DEFINE h == Halted(f, FALSE)
  <1>1. f \in EffectStates(Jobs) /\ f.timeouts \ f.stop = {}
    BY DEF Sound, Open, Vacant, Busy, Runs
  <1>2. f.queue = <<>> \/ \E m \in Nat : Headed(f.queue, Jobs, m)
    BY DEF Sound, Open, Vacant, Busy
  <1>3. h = [f EXCEPT !.timeouts = f.timeouts \ f.stop, !.stop = {}, !.timers = {}]
    BY DEF Halted
  <1> HIDE DEF h
  <1>4. h \in EffectStates(Jobs) /\ h.queue = f.queue /\ h.timers = {} /\ h.stop = {} /\ h.timeouts = f.timeouts \ f.stop
    BY <1>1, <1>3 DEF EffectStates
  <1>5. Open(h)
    BY <1>1, <1>2, <1>4 DEF Open, Vacant
  <1>6. Halted(f, FALSE) = h
    BY DEF h
  <1> QED
    BY <1>5, <1>6, Zenon

LEMMA HaltedCleared ==
  ASSUME NEW f, Sound(f), f.timeouts = {}
  PROVE  Idle(Halted(f, TRUE))
  <1> DEFINE e == [f EXCEPT !.queue = <<>>]
             c == Dequeued(e)
             h == [c EXCEPT !.timeouts = c.timeouts \ c.stop, !.stop = {}, !.timers = {}]
  <1>1. f \in EffectStates(Jobs)
    BY DEF Sound, Open, Vacant, Busy
  <1>2. e \in EffectStates(Jobs) /\ e.queue = <<>> /\ e.timeouts = {}
    BY <1>1, EmptyLine, QueueLemma
  <1>3. Halted(f, TRUE) = h
    BY DEF Halted, Cleared
  <1> HIDE DEF e
  <1>4. c \in EffectStates(Jobs) /\ c.queue = <<>> /\ c.timeouts = {}
    BY <1>2, DequeuedLast
  <1> HIDE DEF c
  <1>5. /\ h \in EffectStates(Jobs) /\ h.queue = c.queue /\ h.timers = {} /\ h.stop = {}
        /\ h.timeouts = c.timeouts \ c.stop
    BY <1>4 DEF EffectStates
  <1> HIDE DEF h
  <1>6. Idle(h)
    BY <1>4, <1>5 DEF Idle
  <1> QED
    BY <1>3, <1>6

LEMMA FinishedIdle ==
  ASSUME NEW f, Sound(f) PROVE Idle(Finished(f))
  <1> DEFINE h == [f EXCEPT !.queue = <<>>, !.stop = {}, !.timers = {}, !.timeouts = f.timeouts \ f.stop]
  <1>1. f \in EffectStates(Jobs) /\ f.timeouts \ f.stop = {}
    BY DEF Sound, Open, Vacant, Busy, Runs
  <1>2. /\ h \in EffectStates(Jobs) /\ h.queue = <<>> /\ h.timers = {} /\ h.stop = {}
        /\ h.timeouts = f.timeouts \ f.stop
    BY <1>1, EmptyLine DEF EffectStates
  <1>3. Finished(f) = h
    BY DEF Finished
  <1> HIDE DEF h
  <1>4. Idle(h)
    BY <1>1, <1>2 DEF Idle
  <1> QED
    BY <1>3, <1>4

LEMMA DequeuedOnce == \A f : DequeuedTimes(1, f) = Dequeued(f)
  <1> SUFFICES ASSUME NEW f PROVE DequeuedTimes(1, f) = Dequeued(f)
    OBVIOUS
  <1> DEFINE F(g) == [i \in 0..1 |-> IF i = 0 THEN f ELSE Dequeued(g[i - 1])]
             w0 == [i \in 0..1 |-> f]
             w1 == F(w0)
             after == CHOOSE g : g = F(g)
  <1>1. w1 = F(w1)
    <2>1. \A i \in 0..1 : i # 0 => w0[i - 1] = f /\ w1[i - 1] = f
      OBVIOUS
    <2> QED
      BY <2>1
  <1>2. after = F(after)
    <2> HIDE DEF w1, F
    <2> QED
      BY <1>1
  <1>3. DequeuedTimes(1, f) = after[1]
    BY DEF DequeuedTimes
  <1> HIDE DEF after
  <1>4. after[0] = f
    BY <1>2
  <1>5. after[1] = Dequeued(after[1 - 1])
    BY <1>2
  <1>6. 1 - 1 = 0
    OBVIOUS
  <1> QED
    BY <1>3, <1>4, <1>5, <1>6

\* Inductive: unless a script has upset the queue, nothing runs and nothing is queued or one job runs
FxOrdered == queued \in 0..MaxJobs /\ (~upset => Idle(fx) \/ Busy(fx))

\* The same of what scripts and callbacks hand from call to call
Ordered(r) ==
  /\ DOMAIN r = {"fx", "queued", "ended", "upset"}
  /\ r.queued \in 0..MaxJobs
  /\ ~r.upset => Sound(r.fx)

LEMMA NewJobsTyped ==
  ASSUME NEW n, NEW j \in NewJobs(n) PROVE j \in Jobs /\ j.id \in 0..MaxJobs
  BY FxBounds DEF NewJobs, Jobs

LEMMA StoppingFacts ==
  ASSUME NEW r, DOMAIN r = {"fx", "queued", "ended", "upset"}, NEW c \in BOOLEAN, NEW f
  PROVE  LET s == Stopping(r, c, f) IN
           /\ DOMAIN s = {"fx", "queued", "ended", "upset"} /\ s.fx = f /\ s.queued = r.queued
           /\ ~s.upset => ~r.upset /\ (c => r.fx.timeouts = {})
  BY DEF Stopping

LEMMA HaltedOpen ==
  ASSUME NEW f, Sound(f), NEW c \in BOOLEAN, c => f.timeouts = {}
  PROVE  Open(Halted(f, c))
  <1>1. CASE c = TRUE
    BY <1>1, HaltedCleared, IdleOpen
  <1>2. CASE c = FALSE
    BY <1>2, HaltedKept
  <1> QED
    BY <1>1, <1>2

LEMMA CallOrdered ==
  ASSUME NEW r, Ordered(r), NEW s \in Call(r)
  PROVE  Ordered(s) /\ (~s.upset => ~r.upset)
  <1>1. CASE s \in Animate(r)
    <2>1. PICK j \in NewJobs(r.queued) : s = [r EXCEPT !.fx = Enqueued(r.fx, j), !.queued = j.id]
      BY <1>1, Zenon DEF Animate
    <2>2. /\ DOMAIN s = {"fx", "queued", "ended", "upset"} /\ s.fx = Enqueued(r.fx, j) /\ s.queued = j.id
          /\ s.upset = r.upset
      BY <2>1 DEF Ordered
    <2> QED
      BY <2>2, NewJobsTyped, EnqueuedSound DEF Ordered
  <1>2. CASE s \in Stop(r)
    <2>1. PICK c \in BOOLEAN : s = Stopping(r, c, Stopped(r.fx, c))
      BY <1>2 DEF Stop
    <2>2. /\ DOMAIN s = {"fx", "queued", "ended", "upset"} /\ s.fx = Stopped(r.fx, c)
          /\ s.queued = r.queued /\ (~s.upset => ~r.upset /\ (c => r.fx.timeouts = {}))
      BY <2>1, StoppingFacts DEF Ordered
    <2>3. ASSUME ~s.upset PROVE Sound(s.fx)
      <3>1. Open(Halted(r.fx, c))
        BY <2>2, <2>3, HaltedOpen DEF Ordered
      <3>2. Idle(s.fx) \/ Busy(s.fx)
        BY <2>2, <3>1, VacantGoesOn DEF Stopped, Open
      <3> QED
        BY <3>2, IdleOpen DEF Sound
    <2> QED
      BY <2>2, <2>3 DEF Ordered
  <1>3. CASE s \in Finish(r)
    <2>1. s = [r EXCEPT !.fx = Finished(r.fx),
                        !.ended = @ \cup Ids(r.fx.timers \cup r.fx.stop \cup Queued(r.fx))]
      BY <1>3 DEF Finish
    <2>2. /\ DOMAIN s = {"fx", "queued", "ended", "upset"} /\ s.fx = Finished(r.fx)
          /\ s.queued = r.queued /\ s.upset = r.upset
      BY <2>1 DEF Ordered
    <2> QED
      BY <2>2, FinishedIdle, IdleOpen DEF Ordered, Sound
  <1> QED
    BY <1>1, <1>2, <1>3 DEF Call

LEMMA CallbackOrdered ==
  ASSUME NEW r, Ordered(r), NEW s \in AfterCallback(r)
  PROVE  Ordered(s) /\ (~s.upset => ~r.upset)
  <1>1. CASE s = r
    BY <1>1
  <1>2. CASE s \in Call(r)
    BY <1>2, CallOrdered
  <1>3. ASSUME NEW t \in Call(r), s \in Call(t) PROVE Ordered(s) /\ (~s.upset => ~r.upset)
    BY <1>3, CallOrdered
  <1> QED
    BY <1>1, <1>2, <1>3 DEF AfterCallback

\* What opt.complete finds after the callback: unless the queue is upset, nothing runs
LEMMA GoesFacts ==
  ASSUME NEW r, Ordered(r), NEW f, Become(Goes(r, f))
  PROVE  fx' = f /\ queued' \in 0..MaxJobs /\ (~upset' => ~r.upset /\ Open(r.fx))
  <1>1. fx' = f /\ queued' = r.queued /\ upset' = (r.upset \/ InProgress(r.fx) # {})
    BY DEF Become, Goes, Ordered
  <1>2. ASSUME ~upset' PROVE ~r.upset /\ Open(r.fx)
    <2>1. ~r.upset /\ InProgress(r.fx) = {}
      BY <1>1, <1>2
    <2>2. ~Busy(r.fx)
      BY <2>1 DEF Busy, Runs, InProgress
    <2> QED
      BY <2>1, <2>2 DEF Ordered, Sound
  <1> QED
    BY <1>1, <1>2 DEF Ordered

\* A script's call finds nothing between two jobs and leaves nothing there
LEMMA ScriptGoesOn ==
  ASSUME NEW r, DOMAIN r = {"fx", "queued", "ended", "upset"}, Idle(r.fx) \/ Busy(r.fx),
         NEW s \in Call(r), ~s.upset
  PROVE  Idle(s.fx) \/ Busy(s.fx)
  <1>0. Sound(r.fx)
    BY IdleOpen DEF Sound
  <1>1. CASE s \in Animate(r)
    <2>1. PICK j \in NewJobs(r.queued) : s = [r EXCEPT !.fx = Enqueued(r.fx, j), !.queued = j.id]
      BY <1>1, Zenon DEF Animate
    <2>2. s.fx = Enqueued(r.fx, j)
      BY <2>1
    <2> QED
      BY <2>2, NewJobsTyped, EnqueuedIdleBegins, EnqueuedBusy
  <1>2. CASE s \in Stop(r)
    <2>1. PICK c \in BOOLEAN : s = Stopping(r, c, Stopped(r.fx, c))
      BY <1>2 DEF Stop
    <2>2. s.fx = Stopped(r.fx, c) /\ (c => r.fx.timeouts = {})
      BY <2>1, StoppingFacts
    <2>3. Open(Halted(r.fx, c))
      BY <1>0, <2>2, HaltedOpen
    <2> QED
      BY <2>2, <2>3, VacantGoesOn DEF Stopped, Open
  <1>3. CASE s \in Finish(r)
    <2>1. s.fx = Finished(r.fx)
      BY <1>3 DEF Finish
    <2> QED
      BY <1>0, <2>1, FinishedIdle
  <1> QED
    BY <1>1, <1>2, <1>3 DEF Call

LEMMA NowOrdered ==
  ASSUME FxOrdered PROVE Ordered(Now) /\ Now.upset = upset /\ Now.fx = fx /\ Now.queued = queued
  BY IdleOpen DEF FxOrdered, Ordered, Now, Sound

LEMMA FxOrderedInit == ASSUME FxInit PROVE FxOrdered
  <1>1. AtRest \in EffectStates(Jobs)
    BY EmptyLine DEF AtRest, EffectStates
  <1> QED
    BY <1>1, FxBounds DEF FxInit, FxOrdered, Idle, AtRest

LEMMA FxOrderedStep == ASSUME FxOrdered, FxNext PROVE FxOrdered'
  <1>0. queued \in 0..MaxJobs
    BY DEF FxOrdered
  <1>1. ASSUME ScriptCalls PROVE FxOrdered'
    <2>1. PICK s \in Call(Now) : Become(s)
      BY <1>1 DEF ScriptCalls
    <2>2. fx' = s.fx /\ queued' = s.queued /\ upset' = s.upset
      BY <2>1 DEF Become
    <2>3. Ordered(s) /\ (~s.upset => ~upset)
      BY NowOrdered, CallOrdered
    <2>4. ASSUME ~upset' PROVE Idle(fx') \/ Busy(fx')
      <3>1. Idle(fx) \/ Busy(fx)
        BY <2>2, <2>3, <2>4 DEF FxOrdered
      <3> QED
        <4>1. DOMAIN Now = {"fx", "queued", "ended", "upset"} /\ (Idle(Now.fx) \/ Busy(Now.fx))
          BY <3>1 DEF Now
        <4>2. s \in Call(Now) /\ ~s.upset
          BY <2>1, <2>2, <2>4
        <4> QED
          BY <2>2, <4>1, <4>2, ScriptGoesOn
    <2> QED
      BY <2>2, <2>3, <2>4 DEF FxOrdered, Ordered
  <1>2. ASSUME NEW j \in Jobs, TickEnds(j) PROVE FxOrdered'
    <2> DEFINE f == [fx EXCEPT !.timers = fx.timers \ {j}]
               before == [Now EXCEPT !.fx = f, !.ended = ended \cup {j.id}]
    <2>1. j \in fx.timers /\ \E r \in AfterCallback(before) : Become(Goes(r, Completed(r.fx, j)))
      BY <1>2 DEF TickEnds
    <2>2. PICK r \in AfterCallback(before) : Become(Goes(r, Completed(r.fx, j)))
      BY <2>1
    <2>3. Ordered(before)
      <3>1. ASSUME ~upset PROVE Open(f)
        <4>1. Busy(fx)
          BY <2>1, <3>1 DEF FxOrdered, Idle
        <4> QED
          BY <2>1, <4>1, WithoutJobOpen
      <3>2. /\ DOMAIN before = {"fx", "queued", "ended", "upset"} /\ before.fx = f
            /\ before.queued = queued /\ before.upset = upset
        BY DEF Now
      <3> HIDE DEF f, before
      <3> QED
        BY <1>0, <3>1, <3>2 DEF Ordered, Sound
    <2> HIDE DEF f, before
    <2>4. Ordered(r)
      BY <2>2, <2>3, CallbackOrdered
    <2>5. fx' = Completed(r.fx, j) /\ queued' \in 0..MaxJobs /\ (~upset' => Open(r.fx))
      BY <2>2, <2>4, GoesFacts
    <2>6. ASSUME ~upset' PROVE Idle(fx') \/ Busy(fx')
      <3>1. /\ r.fx \in EffectStates(Jobs) /\ r.fx.timers \ {j} = {} /\ r.fx.timeouts \ {j} = {}
            /\ r.fx.queue = <<>> \/ \E m \in Nat : Headed(r.fx.queue, Jobs, m)
        BY <2>5, <2>6 DEF Open, Vacant
      <3> QED
        BY <2>5, <3>1, CompletedGoesOn
    <2> QED
      BY <2>5, <2>6 DEF FxOrdered
  <1>3. ASSUME NEW j \in Jobs, DelayEnds(j) PROVE FxOrdered'
    <2>1. j \in fx.timeouts /\ fx' = Completed(fx, j) /\ queued' = queued /\ upset' = upset
      BY <1>3 DEF DelayEnds
    <2>2. ASSUME ~upset PROVE Idle(fx') \/ Busy(fx')
      <3>1. Busy(fx)
        BY <2>1, <2>2 DEF FxOrdered, Idle
      <3>2. /\ fx \in EffectStates(Jobs) /\ \E m \in Nat : Headed(fx.queue, Jobs, m)
            /\ fx.timers \ {j} = {} /\ fx.timeouts \ {j} = {}
        BY <2>1, <3>1 DEF Busy, Runs
      <3> QED
        BY <2>1, <3>2, CompletedGoesOn
    <2> QED
      BY <1>0, <2>1, <2>2 DEF FxOrdered
  <1>4. ASSUME NEW c \in BOOLEAN, StopAtEnd(c) PROVE FxOrdered'
    <2> DEFINE halted == Stopping(Now, c, Halted(fx, c))
    <2>1. fx.timers # {}
      BY <1>4 DEF StopAtEnd
    <2>2. PICK r \in AfterCallback(halted) :
            Become(Goes(r, DequeuedTimes(Cardinality(fx.timers), r.fx)))
      <3>1. {halted} \cup Animate(halted) \subseteq AfterCallback(halted)
        BY DEF AfterCallback, Call
      <3> QED
        BY <1>4, <3>1 DEF StopAtEnd
    <2>3. /\ DOMAIN halted = {"fx", "queued", "ended", "upset"} /\ halted.fx = Halted(fx, c)
          /\ halted.queued = queued /\ (~halted.upset => ~upset /\ (c => fx.timeouts = {}))
      BY NowOrdered, StoppingFacts DEF Ordered
    <2>4. Ordered(halted)
      <3>1. ASSUME ~halted.upset PROVE Sound(halted.fx)
        <4>1. Sound(fx)
          BY <2>3, <3>1, IdleOpen DEF FxOrdered, Sound
        <4> QED
          BY <2>3, <3>1, <4>1, HaltedOpen DEF Sound
      <3> HIDE DEF halted
      <3> QED
        BY <1>0, <2>3, <3>1 DEF Ordered
    <2> HIDE DEF halted
    <2>5. Ordered(r) /\ (~r.upset => ~halted.upset)
      BY <2>2, <2>4, CallbackOrdered
    <2>6. /\ fx' = DequeuedTimes(Cardinality(fx.timers), r.fx) /\ queued' \in 0..MaxJobs
          /\ ~upset' => ~r.upset /\ Open(r.fx)
      BY <2>2, <2>5, GoesFacts
    <2>7. ASSUME ~upset' PROVE Idle(fx') \/ Busy(fx')
      <3>1. Busy(fx)
        BY <2>1, <2>3, <2>5, <2>6, <2>7 DEF FxOrdered, Idle
      <3>2. PICK j : fx.timers = {j}
        BY <2>1, <3>1 DEF Busy, Runs
      <3>3. Cardinality(fx.timers) = 1
        BY <3>2, FS_Singleton
      <3>4. fx' = Dequeued(r.fx)
        BY <2>6, <3>3, DequeuedOnce
      <3> QED
        BY <2>6, <2>7, <3>4, VacantGoesOn DEF Open
    <2> QED
      BY <2>6, <2>7 DEF FxOrdered
  <1>5. ASSUME FinishCallbackAnimates PROVE FxOrdered'
    <2>1. PICK j \in NewJobs(queued), s \in Finish(Now) :
            \/ Become([s EXCEPT !.queued = j.id, !.ended = @ \cup {j.id}])
            \/ Become([s EXCEPT !.queued = j.id, !.fx = [s.fx EXCEPT !.timeouts = s.fx.timeouts \cup {j}],
                                !.upset = TRUE])
      BY <1>5, Zenon DEF FinishCallbackAnimates
    <2>2. Ordered(s) /\ s.fx = Finished(fx) /\ s.upset = upset
      <3>1. s \in Call(Now)
        BY DEF Call
      <3>2. s.fx = Finished(fx) /\ s.upset = upset
        BY NowOrdered DEF Finish, Ordered
      <3> QED
        BY <3>1, <3>2, NowOrdered, CallOrdered
    <2>3. queued' = j.id /\ (~upset' => ~upset /\ fx' = Finished(fx))
      <3>1. CASE Become([s EXCEPT !.queued = j.id, !.ended = @ \cup {j.id}])
        BY <2>2, <3>1 DEF Become, Ordered
      <3>2. CASE Become([s EXCEPT !.queued = j.id,
                                  !.fx = [s.fx EXCEPT !.timeouts = s.fx.timeouts \cup {j}], !.upset = TRUE])
        BY <2>2, <3>2 DEF Become, Ordered
      <3> QED
        BY <2>1, <3>1, <3>2
    <2>4. ASSUME ~upset' PROVE Idle(fx')
      BY <2>3, <2>4, FinishedIdle, IdleOpen DEF FxOrdered, Sound
    <2> QED
      BY <2>3, <2>4, NewJobsTyped DEF FxOrdered
  <1>6. ASSUME FinishCallbackFinishes PROVE FxOrdered'
    <2>1. PICK later : /\ fx' = [Finished(fx) EXCEPT !.timers = later]
                       /\ upset' = (upset \/ later # {}) /\ queued' = queued
      BY <1>6 DEF FinishCallbackFinishes
    <2>2. ASSUME ~upset' PROVE Idle(fx')
      <3>1. Idle(Finished(fx))
        BY <2>1, <2>2, FinishedIdle, IdleOpen DEF FxOrdered, Sound
      <3>2. later = {}
        BY <2>1, <2>2
      <3> DEFINE g == Finished(fx)
                 h == [g EXCEPT !.timers = {}]
      <3>3. g \in EffectStates(Jobs) /\ Idle(g)
        BY <3>1 DEF Idle
      <3> HIDE DEF g
      <3>4. /\ h \in EffectStates(Jobs) /\ h.queue = g.queue /\ h.timers = {}
            /\ h.timeouts = g.timeouts /\ h.stop = g.stop
        BY <3>3 DEF EffectStates
      <3>5. fx' = h
        BY <2>1, <3>2 DEF g
      <3> HIDE DEF h
      <3> QED
        BY <3>3, <3>4, <3>5 DEF Idle
    <2> QED
      BY <1>0, <2>1, <2>2 DEF FxOrdered
  <1> QED
    BY <1>1, <1>2, <1>3, <1>4, <1>5, <1>6 DEF FxNext, JobEnds

LEMMA FxOrderedHolds == FxSpec => []FxOrdered
  <1>1. FxOrdered /\ UNCHANGED fxVars => FxOrdered'
    BY DEF fxVars, FxOrdered
  <1> QED
    BY <1>1, FxOrderedInit, FxOrderedStep, PTL DEF FxSpec

LEMMA OrderedDriven == FxOrdered => QueueDriven
  <1> SUFFICES ASSUME FxOrdered, ~upset
               PROVE /\ Cardinality(InProgress(fx)) = IF SentinelFirst(fx.queue) THEN 1 ELSE 0
                     /\ fx.queue # <<>> => SentinelFirst(fx.queue)
                     /\ Sentinel \notin {fx.queue[i] : i \in 2..Len(fx.queue)}
    BY DEF QueueDriven
  <1>1. CASE Idle(fx)
    <2>1. fx.queue = <<>> /\ InProgress(fx) = {}
      BY <1>1 DEF Idle, InProgress
    <2>2. Len(fx.queue) = 0 /\ 2..0 = {}
      BY <2>1
    <2> QED
      BY <2>1, <2>2, FS_EmptySet DEF SentinelFirst
  <1>2. CASE Busy(fx)
    <2>1. PICK m \in Nat : Headed(fx.queue, Jobs, m)
      BY <1>2 DEF Busy
    <2>2. PICK j \in Jobs : InProgress(fx) = {j}
      BY <1>2 DEF Busy, Runs, InProgress
    <2>3. Cardinality(InProgress(fx)) = 1
      BY <2>2, FS_Singleton
    <2>4. SentinelFirst(fx.queue)
      <3>1. fx.queue \in Seq(Jobs \cup {Sentinel})
        BY <1>2 DEF Busy, EffectStates, Lines
      <3>2. fx.queue # <<>> /\ fx.queue[1] = Sentinel
        BY <2>1, <3>1, LenFacts DEF Headed
      <3>3. Head(fx.queue) = fx.queue[1]
        BY <3>1, <3>2, TailFacts
      <3> QED
        BY <3>2, <3>3, SentinelKind DEF SentinelFirst
    <2>5. \A i \in 2..Len(fx.queue) : fx.queue[i] # Sentinel
      BY <2>1, JobsProper, SentinelKind DEF Headed
    <2> QED
      BY <2>3, <2>4, <2>5
  <1> QED
    BY <1>1, <1>2 DEF FxOrdered

\* Whatever scripts and callbacks call, for any number of jobs, the sentinel is at the head exactly while one
\* job runs, until the queue is cleared under a delay, a callback leaves a job running that it began, or one
\* delays or finishes under finish (jquery-2.0.3.js dequeue, stop, finish and complete)
THEOREM QueueDrivenHolds == FxSpec => []QueueDriven
  BY FxOrderedHolds, OrderedDriven, PTL

-----------------------------------------------------------------------------
(***************************************************************************)
(* Gritter: notices of any number.  A notice has one effect at once; what  *)
(* waits behind it does so only after its X was clicked, and by then the   *)
(* timer is out for good.                                                  *)
(***************************************************************************)
Does == {"fadeIn", "fade", "shrink"}
Anim == [kind : {"anim"}, does : Does, id : 1..5]

LEMMA AnimProper == Proper(Anim) /\ \A j \in Anim : j.kind = "anim" /\ j.kind # "delay"
  BY DEF Proper, Anim

\* No delay was ever queued
NoDelay(f) == f \in EffectStates(Anim) /\ f.stop = {} /\ f.timeouts = {}

\* Nothing runs; j runs and nothing is queued, not even the sentinel; j runs, and waits with others in a
\* queue of m at most
Still(f) == f.queue = <<>> /\ f.timers = {}
Left(f, j) == f.queue = <<>> /\ f.timers = {j}
Driven(f, j, m) == f.timers = {j} /\ Headed(f.queue, Anim, m)

\* How the effects go on from each state they can be in
LEMMA EnqueuedIdle ==
  ASSUME NEW f, NoDelay(f), f.queue = <<>>, NEW k \in Anim
  PROVE  LET g == Enqueued(f, k) IN
           NoDelay(g) /\ g.timers = f.timers \cup {k} /\ Headed(g.queue, Anim, 1)
  <1>1. f \in EffectStates(Anim) /\ f.timeouts = {}
    BY DEF NoDelay
  <1>2. PICK h \in EffectStates(Anim) :
          /\ Enqueued(f, k) = Begun(h, k) /\ h.timers = f.timers /\ h.timeouts = f.timeouts
          /\ Headed(h.queue, Anim, 1)
    BY <1>1, AnimProper, EnqueuedFirst
  <1> DEFINE g == Begun(h, k)
  <1>3. k.kind # "delay"
    BY AnimProper
  <1>4. /\ g \in EffectStates(Anim) /\ g.queue = h.queue
        /\ g.timers = h.timers \cup {k} /\ g.timeouts = h.timeouts /\ g.stop = {}
    BY <1>3, BegunLemma
  <1> HIDE DEF g
  <1> QED
    BY <1>1, <1>2, <1>4 DEF NoDelay, g

LEMMA EnqueuedDriven ==
  ASSUME NEW f, NoDelay(f), NEW j, NEW m \in Nat, Driven(f, j, m), NEW k \in Anim
  PROVE  NoDelay(Enqueued(f, k)) /\ Driven(Enqueued(f, k), j, m + 1)
  <1> DEFINE g == Enqueued(f, k)
  <1>1. /\ g \in EffectStates(Anim) /\ Headed(g.queue, Anim, m + 1)
        /\ g.stop = f.stop /\ g.timers = f.timers /\ g.timeouts = f.timeouts
    <2>1. f \in EffectStates(Anim) /\ Headed(f.queue, Anim, m)
      BY DEF NoDelay, Driven
    <2> QED
      BY <2>1, AnimProper, EnqueuedBehind
  <1> HIDE DEF g
  <1>2. NoDelay(g) /\ Driven(g, j, m + 1)
    BY <1>1 DEF NoDelay, Driven
  <1> QED
    BY <1>2 DEF g

LEMMA WithoutJob ==
  ASSUME NEW f, NoDelay(f), NEW j
  PROVE  LET g == [f EXCEPT !.timers = @ \ {j}, !.timeouts = @ \ {j}] IN
           NoDelay(g) /\ g.queue = f.queue /\ g.timers = f.timers \ {j}
  BY DEF NoDelay, EffectStates

\* A job that comes to its end is followed by the next that waits
LEMMA CompletedLeft ==
  ASSUME NEW f, NoDelay(f), NEW j, f.queue = <<>> \/ (Len(f.queue) = 1 /\ f.queue[1] = Sentinel)
  PROVE  LET g == Completed(f, j) IN NoDelay(g) /\ g.queue = <<>> /\ g.timers = f.timers \ {j}
  <1> DEFINE h == [f EXCEPT !.timers = @ \ {j}, !.timeouts = @ \ {j}]
             g == Dequeued(h)
  <1>1. NoDelay(h) /\ h.queue = f.queue /\ h.timers = f.timers \ {j}
    BY WithoutJob
  <1>2. Completed(f, j) = g
    BY DEF Completed
  <1> HIDE DEF h
  <1>3. /\ g \in EffectStates(Anim) /\ g.queue = <<>> /\ g.stop = {}
        /\ g.timers = h.timers /\ g.timeouts = h.timeouts
    BY <1>1, DequeuedLast DEF NoDelay
  <1> QED
    BY <1>1, <1>2, <1>3 DEF NoDelay

LEMMA CompletedDriven ==
  ASSUME NEW f, NoDelay(f), NEW j, NEW m \in Nat, Driven(f, j, m + 1)
  PROVE  LET g == Completed(f, j) IN
           NoDelay(g) /\ (Still(g) \/ \E k \in Anim : Driven(g, k, m))
  <1> DEFINE e == [f EXCEPT !.timers = @ \ {j}, !.timeouts = @ \ {j}]
  <1>1. NoDelay(e) /\ e.queue = f.queue /\ e.timers = {}
    <2>1. NoDelay(e) /\ e.queue = f.queue /\ e.timers = f.timers \ {j}
      BY WithoutJob
    <2> QED
      BY <2>1 DEF Driven
  <1>2. Completed(f, j) = Dequeued(e)
    BY DEF Completed
  <1>3. Headed(f.queue, Anim, m + 1)
    BY DEF Driven
  <1> HIDE DEF e
  <1>4. CASE Len(f.queue) = 1
    BY <1>1, <1>2, <1>3, <1>4, CompletedLeft DEF Still, Driven, Headed
  <1>5. CASE Len(f.queue) # 1
    <2> DEFINE k == e.queue[2]
    <2>1. /\ k \in Anim
          /\ \E h \in EffectStates(Anim) :
               /\ Dequeued(e) = Begun(h, k) /\ h.timers = e.timers /\ h.timeouts = e.timeouts
               /\ Headed(h.queue, Anim, m)
      <3>1. e \in EffectStates(Anim) /\ Headed(e.queue, Anim, m + 1) /\ Len(e.queue) # 1
        BY <1>1, <1>3, <1>5 DEF NoDelay
      <3> QED
        BY <3>1, DequeuedNext, Zenon
    <2> HIDE DEF k
    <2>2. PICK h \in EffectStates(Anim) :
            /\ Dequeued(e) = Begun(h, k) /\ h.timers = e.timers /\ h.timeouts = e.timeouts
            /\ Headed(h.queue, Anim, m)
      BY <2>1
    <2> DEFINE g == Begun(h, k)
    <2>3. k.kind # "delay"
      BY <2>1, AnimProper
    <2>4. /\ g \in EffectStates(Anim) /\ g.queue = h.queue
          /\ g.timers = h.timers \cup {k} /\ g.timeouts = h.timeouts /\ g.stop = {}
      BY <2>1, <2>3, BegunLemma
    <2> HIDE DEF g
    <2>5. NoDelay(g) /\ Driven(g, k, m)
      BY <1>1, <2>2, <2>4 DEF NoDelay, Driven
    <2> QED
      BY <1>2, <2>1, <2>2, <2>5 DEF g
  <1> QED
    BY <1>4, <1>5

\* stop, of an effect with none behind it
LEMMA StoppedAlone ==
  ASSUME NEW f, NoDelay(f), f.queue = <<>> \/ (Len(f.queue) = 1 /\ f.queue[1] = Sentinel)
  PROVE  NoDelay(Stopped(f, FALSE)) /\ Still(Stopped(f, FALSE))
  <1> DEFINE h == Halted(f, FALSE)
             g == Dequeued(h)
  <1>1. h \in EffectStates(Anim) /\ h.queue = f.queue /\ h.timers = {} /\ h.timeouts = {}
    BY DEF Halted, NoDelay, EffectStates
  <1>2. Stopped(f, FALSE) = g
    BY DEF Stopped
  <1> HIDE DEF h
  <1>3. /\ g \in EffectStates(Anim) /\ g.queue = <<>> /\ g.stop = {}
        /\ g.timers = h.timers /\ g.timeouts = h.timeouts
    BY <1>1, DequeuedLast
  <1> QED
    BY <1>1, <1>2, <1>3 DEF NoDelay, Still

\* There is a free number for the next effect
LEMMA JobLemma ==
  ASSUME NEW f, NoDelay(f), NEW d \in Does,
         Still(f) \/ \E j \in Anim : Left(f, j) \/ Driven(f, j, 3)
  PROVE  Job(f, d) \in Anim /\ Job(f, d).does = d
  <1>1. PICK a \in 1..5, b \in 1..5, c \in 1..5 : Waiting(f) \cup {j.id : j \in f.timers} \subseteq {a, b, c}
    <2>1. CASE Still(f) \/ \E j \in Anim : Left(f, j)
      <3>1. Waiting(f) = {}
        BY <2>1 DEF Still, Left, Waiting
      <3>2. CASE Still(f)
        BY <3>1, <3>2 DEF Still
      <3>3. ASSUME NEW j \in Anim, Left(f, j)
            PROVE  Waiting(f) \cup {x.id : x \in f.timers} \subseteq {j.id} /\ j.id \in 1..5
        BY <3>1, <3>3 DEF Left, Anim
      <3> QED
        BY <2>1, <3>2, <3>3
    <2>2. ASSUME NEW j \in Anim, Driven(f, j, 3)
          PROVE  \E a \in 1..5, b \in 1..5, c \in 1..5 :
                   Waiting(f) \cup {x.id : x \in f.timers} \subseteq {a, b, c}
      <3> DEFINE q == f.queue
                 id2 == IF Len(q) >= 2 THEN q[2].id ELSE 1
                 id3 == IF Len(q) >= 3 THEN q[3].id ELSE 1
      <3>1. Len(q) \in 1..3 /\ q[1] = Sentinel /\ \A i \in 2..Len(q) : q[i] \in Anim
        BY <2>2 DEF Driven, Headed
      <3>2. \A x \in Anim : x.id \in 1..5
        BY DEF Anim
      <3>3. id2 \in 1..5 /\ id3 \in 1..5
        <4>1. /\ Len(q) >= 2 => 2 \in 2..Len(q)
              /\ Len(q) >= 3 => 3 \in 2..Len(q)
          BY <3>1
        <4> QED
          BY <3>1, <3>2, <4>1
      <3>4. Waiting(f) \subseteq {id2, id3}
        <4> SUFFICES ASSUME NEW i \in 1..Len(q), q[i].kind = "anim" PROVE q[i].id \in {id2, id3}
          BY DEF Waiting
        <4>1. i # 1
          BY <3>1, SentinelKind
        <4>2. i = 2 \/ i = 3
          BY <3>1, <4>1
        <4>3. i = 2 => Len(q) >= 2
          BY <3>1
        <4>4. i = 3 => Len(q) >= 3
          BY <3>1
        <4> QED
          BY <4>2, <4>3, <4>4
      <3>5. {x.id : x \in f.timers} = {j.id}
        BY <2>2 DEF Driven, Headed
      <3> HIDE DEF id2, id3
      <3> QED
        <4>1. j.id \in 1..5
          BY <3>2
        <4>2. Waiting(f) \cup {x.id : x \in f.timers} \subseteq {id2, id3, j.id}
          BY <3>4, <3>5
        <4> QED
          BY <3>3, <4>1, <4>2
    <2> QED
      BY <2>1, <2>2
  <1>2. \E i \in 1..5 : i # a /\ i # b /\ i # c
    OBVIOUS
  <1>3. FreeId(f) \in 1..5
    BY <1>1, <1>2 DEF FreeId
  <1> QED
    BY <1>3 DEF Job, Anim

-----------------------------------------------------------------------------
NoticeRecords ==
  [at : {"none", "page", "gone"}, sticky : BOOLEAN, timer : BOOLEAN, hover : BOOLEAN, bound : BOOLEAN,
   enters : 0..MaxEnters, fx : EffectStates(Anim), closed : 0..1]

\* Effects wait behind another only for a notice in the page whose X was clicked; only what has left the
\* page may have an effect without a queue
EffectsOf(x) ==
  \/ Still(x.fx)
  \/ \E j \in Anim : x.at # "none" /\ Driven(x.fx, j, 1)
  \/ \E j \in Anim : x.at = "gone" /\ Left(x.fx, j)
  \/ \E j \in Anim : x.at = "page" /\ ~x.bound /\ Driven(x.fx, j, 3)

\* The timer is set only while nothing but the fading in goes on, and never again once the X was clicked or the
\* notice was closed; the pointer stops what it may stop
NoticeOK(x) ==
  /\ x \in NoticeRecords /\ NoDelay(x.fx) /\ EffectsOf(x)
  /\ x.timer => x.bound /\ ~x.sticky /\ x.at # "none" /\ \A j \in x.fx.timers : j.does = "fadeIn"
  /\ x.closed = 1 => x.at = "gone" /\ ~x.timer /\ Still(x.fx)
  /\ x.at = "page" /\ x.hover => ~x.timer /\ (x.bound /\ ~x.sticky => Still(x.fx))

LEMMA FxLemma ==
  ASSUME NEW x \in NoticeRecords, NEW g \in EffectStates(Anim)
  PROVE  LET y == [x EXCEPT !.fx = g] IN
           /\ y \in NoticeRecords /\ y.fx = g
           /\ y.at = x.at /\ y.sticky = x.sticky /\ y.timer = x.timer /\ y.hover = x.hover
           /\ y.bound = x.bound /\ y.enters = x.enters /\ y.closed = x.closed
  BY DEF NoticeRecords

LEMMA JobOfNotice ==
  ASSUME NEW x, NoticeOK(x), NEW d \in Does
  PROVE  Job(x.fx, d) \in Anim /\ Job(x.fx, d).does = d
  <1>1. NoDelay(x.fx)
    BY DEF NoticeOK
  <1>2. \A j : Driven(x.fx, j, 1) => Driven(x.fx, j, 3)
    BY DEF Driven, Headed
  <1>3. Still(x.fx) \/ \E j \in Anim : Left(x.fx, j) \/ Driven(x.fx, j, 3)
    BY <1>2 DEF NoticeOK, EffectsOf
  <1> QED
    BY <1>1, <1>3, JobLemma

\* An effect of a notice that has none begins
LEMMA AnimatedStill ==
  ASSUME NEW x, NoticeOK(x), Still(x.fx), NEW d \in Does
  PROVE  LET y == Animated(x, d) IN
           /\ y \in NoticeRecords /\ NoDelay(y.fx) /\ \E j \in Anim : Driven(y.fx, j, 1) /\ j.does = d
           /\ y.at = x.at /\ y.sticky = x.sticky /\ y.timer = x.timer /\ y.hover = x.hover
           /\ y.bound = x.bound /\ y.enters = x.enters /\ y.closed = x.closed
  <1> DEFINE k == Job(x.fx, d)
             g == Enqueued(x.fx, k)
             y == [x EXCEPT !.fx = g]
  <1>1. k \in Anim /\ k.does = d
    BY JobOfNotice
  <1> HIDE DEF k
  <1>2. NoDelay(g) /\ g.timers = x.fx.timers \cup {k} /\ Len(g.queue) = 1 /\ g.queue[1] = Sentinel
    BY <1>1, EnqueuedIdle, HeadedOne DEF NoticeOK, Still
  <1>3. Animated(x, d) = y
    BY DEF Animated, k
  <1> HIDE DEF g
  <1>4. Driven(g, k, 1)
    BY <1>2 DEF Driven, Still, Headed
  <1>5. /\ y \in NoticeRecords /\ y.fx = g
        /\ y.at = x.at /\ y.sticky = x.sticky /\ y.timer = x.timer /\ y.hover = x.hover
        /\ y.bound = x.bound /\ y.enters = x.enters /\ y.closed = x.closed
    BY <1>2, FxLemma DEF NoticeOK, NoDelay
  <1> HIDE DEF y
  <1> QED
    BY <1>1, <1>2, <1>3, <1>4, <1>5

\* or waits for the one that runs
LEMMA AnimatedDriven ==
  ASSUME NEW x, NoticeOK(x), NEW j \in Anim, NEW m \in Nat, Driven(x.fx, j, m), NEW d \in Does
  PROVE  LET y == Animated(x, d) IN
           /\ y \in NoticeRecords /\ NoDelay(y.fx) /\ Driven(y.fx, j, m + 1)
           /\ y.at = x.at /\ y.sticky = x.sticky /\ y.timer = x.timer /\ y.hover = x.hover
           /\ y.bound = x.bound /\ y.enters = x.enters /\ y.closed = x.closed
  <1> DEFINE k == Job(x.fx, d)
             g == Enqueued(x.fx, k)
             y == [x EXCEPT !.fx = g]
  <1>1. k \in Anim /\ k.does = d
    BY JobOfNotice
  <1> HIDE DEF k
  <1>2. NoDelay(g) /\ Driven(g, j, m + 1)
    BY <1>1, EnqueuedDriven DEF NoticeOK
  <1>3. Animated(x, d) = y
    BY DEF Animated, k
  <1> HIDE DEF g
  <1>5. /\ y \in NoticeRecords /\ y.fx = g
        /\ y.at = x.at /\ y.sticky = x.sticky /\ y.timer = x.timer /\ y.hover = x.hover
        /\ y.bound = x.bound /\ y.enters = x.enters /\ y.closed = x.closed
    BY <1>2, FxLemma DEF NoticeOK, NoDelay
  <1> HIDE DEF y
  <1> QED
    BY <1>2, <1>3, <1>5

LEMMA AtRestFacts == AtRest \in EffectStates(Anim) /\ NoDelay(AtRest) /\ Still(AtRest)
  BY EmptyLine DEF AtRest, EffectStates, NoDelay, Still

LEMMA NewFacts ==
  /\ New \in NoticeRecords /\ New.at = "none" /\ New.sticky = FALSE /\ New.timer = FALSE /\ New.hover = FALSE
  /\ New.bound = FALSE /\ New.enters = 0 /\ New.closed = 0 /\ New.fx = AtRest
  <1>1. AtRest \in EffectStates(Anim) /\ 0 \in 0..MaxEnters /\ 0 \in 0..1
    BY AtRestFacts, GritterBounds
  <1> QED
    BY <1>1 DEF New, NoticeRecords

LEMMA FadeKinds ==
  /\ "fadeIn" \in Does /\ "fade" \in Does /\ "shrink" \in Does
  /\ "fade" # "fadeIn" /\ "shrink" # "fadeIn" /\ "shrink" # "fade"
  BY DEF Does

LEMMA AddStep ==
  ASSUME NEW s \in BOOLEAN
  PROVE  LET z == Animated([New EXCEPT !.at = "page", !.sticky = s, !.timer = ~s, !.bound = TRUE], "fadeIn") IN
           NoticeOK(z) /\ z.at = "page"
  <1> DEFINE t == ~s
             x == [New EXCEPT !.at = "page", !.sticky = s, !.timer = t, !.bound = TRUE]
             y == Animated(x, "fadeIn")
  <1>0. t \in BOOLEAN /\ (t => ~s)
    BY Zenon
  <1> HIDE DEF t
  <1>1. /\ x \in NoticeRecords
        /\ x.at = "page" /\ x.sticky = s /\ x.timer = t /\ x.hover = New.hover /\ x.bound = TRUE
        /\ x.enters = New.enters /\ x.closed = New.closed /\ x.fx = New.fx
    <2>1. New \in NoticeRecords
      BY NewFacts
    <2> QED
      BY <1>0, <2>1 DEF NoticeRecords
  <1> HIDE DEF x
  <1>2. x.hover = FALSE /\ x.closed = 0 /\ x.fx = AtRest /\ 0 # 1
    BY <1>1, NewFacts
  <1>7. x.timer => x.bound /\ ~x.sticky /\ x.at # "none" /\ \A j \in x.fx.timers : j.does = "fadeIn"
    <2>1. x.fx.timers = {}
      BY <1>2, AtRestFacts DEF Still
    <2>2. x.timer => ~x.sticky
      BY <1>0, <1>1, Zenon
    <2> QED
      BY <1>1, <2>1, <2>2
  <1>8. NoticeOK(x)
    <2>1. NoDelay(x.fx) /\ EffectsOf(x)
      BY <1>2, AtRestFacts DEF EffectsOf
    <2>2. x.closed = 1 => x.at = "gone" /\ ~x.timer /\ Still(x.fx)
      BY <1>2
    <2>3. x.at = "page" /\ x.hover => ~x.timer /\ (x.bound /\ ~x.sticky => Still(x.fx))
      BY <1>2
    <2> QED
      BY <1>1, <1>7, <2>1, <2>2, <2>3 DEF NoticeOK
  <1>3. /\ y \in NoticeRecords /\ NoDelay(y.fx) /\ \E j \in Anim : Driven(y.fx, j, 1) /\ j.does = "fadeIn"
        /\ y.at = x.at /\ y.sticky = x.sticky /\ y.timer = x.timer /\ y.hover = x.hover
        /\ y.bound = x.bound /\ y.enters = x.enters /\ y.closed = x.closed
    BY <1>2, <1>8, AtRestFacts, AnimatedStill, FadeKinds
  <1> HIDE DEF y
  <1>4. PICK j \in Anim : Driven(y.fx, j, 1) /\ j.does = "fadeIn"
    BY <1>3
  <1>5. \A i \in y.fx.timers : i.does = "fadeIn"
    BY <1>4 DEF Driven
  <1>6. NoticeOK(y)
    <2>1. EffectsOf(y)
      BY <1>1, <1>3, <1>4 DEF EffectsOf
    <2>2. y.timer => y.bound /\ ~y.sticky /\ y.at # "none" /\ \A i \in y.fx.timers : i.does = "fadeIn"
      BY <1>3, <1>5, <1>7
    <2>3. /\ y.closed = 1 => y.at = "gone" /\ ~y.timer /\ Still(y.fx)
          /\ y.at = "page" /\ y.hover => ~y.timer /\ (y.bound /\ ~y.sticky => Still(y.fx))
      BY <1>2, <1>3
    <2> QED
      BY <1>3, <2>1, <2>2, <2>3 DEF NoticeOK
  <1> QED
    BY <1>1, <1>3, <1>6 DEF x, y, t

\* An effect that is alone, or none, as stop and removal find it
Lone(f) == f.queue = <<>> \/ (Len(f.queue) = 1 /\ f.queue[1] = Sentinel)

LEMMA LoneLemma ==
  ASSUME NEW x, NoticeOK(x)
  PROVE  /\ x.at # "page" \/ x.bound => Lone(x.fx)
         /\ \A j : Driven(x.fx, j, 1) => Lone(x.fx)
         /\ x.timer /\ x.fx.timers = {} => Still(x.fx)
  <1>1. \A j : Driven(x.fx, j, 1) => Lone(x.fx)
    <2> SUFFICES ASSUME NEW j, Driven(x.fx, j, 1) PROVE Lone(x.fx)
      OBVIOUS
    <2>1. Len(x.fx.queue) \in 1..1 /\ x.fx.queue[1] = Sentinel
      BY DEF Driven, Headed
    <2>2. Len(x.fx.queue) = 1
      BY <2>1
    <2> QED
      BY <2>1, <2>2 DEF Lone
  <1>2. \A j : Left(x.fx, j) => Lone(x.fx)
    BY DEF Left, Lone
  <1>3. Still(x.fx) => Lone(x.fx)
    BY DEF Still, Lone
  <1>4. ASSUME x.fx.timers = {} PROVE Still(x.fx)
    BY <1>4 DEF NoticeOK, EffectsOf, Still, Left, Driven
  <1> QED
    BY <1>1, <1>2, <1>3, <1>4 DEF NoticeOK, EffectsOf

\* The pointer comes and goes
LEMMA EnterStep ==
  ASSUME NEW x, NoticeOK(x), x.at = "page", ~x.hover, x.enters < MaxEnters
  PROVE  LET here == [x EXCEPT !.hover = TRUE, !.enters = @ + 1]
             y == IF here.bound /\ ~here.sticky
                  THEN [here EXCEPT !.timer = FALSE, !.fx = Stopped(@, FALSE)] ELSE here
         IN  NoticeOK(y) /\ y.at = "page"
  <1> DEFINE n == x.enters + 1
             here == [x EXCEPT !.hover = TRUE, !.enters = n]
             g == Stopped(here.fx, FALSE)
             z == [here EXCEPT !.timer = FALSE, !.fx = g]
  <1>1. x \in NoticeRecords /\ NoDelay(x.fx) /\ EffectsOf(x)
    BY DEF NoticeOK
  <1>2. n \in 0..MaxEnters
    <2>1. x.enters \in 0..MaxEnters
      BY <1>1 DEF NoticeRecords
    <2> QED
      BY <2>1, GritterBounds
  <1>3. here = [x EXCEPT !.hover = TRUE, !.enters = @ + 1]
    BY <1>1 DEF NoticeRecords
  <1> HIDE DEF n
  <1>4. /\ here \in NoticeRecords /\ here.hover = TRUE /\ here.fx = x.fx
        /\ here.at = x.at /\ here.sticky = x.sticky /\ here.timer = x.timer
        /\ here.bound = x.bound /\ here.closed = x.closed
    BY <1>1, <1>2 DEF NoticeRecords
  <1> HIDE DEF here
  <1>5. CASE here.bound /\ ~here.sticky
    <2>1. Lone(x.fx)
      BY <1>4, <1>5, LoneLemma
    <2>2. NoDelay(g) /\ Still(g)
      BY <1>1, <1>4, <2>1, StoppedAlone DEF Lone
    <2> HIDE DEF g
    <2>3. /\ z \in NoticeRecords /\ z.fx = g /\ z.timer = FALSE /\ z.hover = here.hover
          /\ z.at = here.at /\ z.sticky = here.sticky /\ z.bound = here.bound /\ z.closed = here.closed
      BY <1>4, <2>2 DEF NoticeRecords, NoDelay
    <2> HIDE DEF z
    <2>4. NoticeOK(z)
      <3>1. x.closed # 1
        BY DEF NoticeOK
      <3>2. EffectsOf(z)
        BY <2>2, <2>3 DEF EffectsOf
      <3> QED
        BY <1>4, <2>2, <2>3, <3>1, <3>2 DEF NoticeOK
    <2> QED
      BY <1>3, <1>4, <1>5, <2>3, <2>4 DEF z, g
  <1>6. CASE ~(here.bound /\ ~here.sticky)
    <2>1. NoticeOK(here)
      <3>1. x.closed # 1 /\ ~x.timer
        BY <1>4, <1>6 DEF NoticeOK
      <3>2. EffectsOf(here)
        BY <1>1, <1>4 DEF EffectsOf
      <3> QED
        BY <1>1, <1>4, <1>6, <3>1, <3>2 DEF NoticeOK
    <2> QED
      BY <1>3, <1>4, <1>6, <2>1
  <1> QED
    BY <1>5, <1>6

LEMMA LeaveStep ==
  ASSUME NEW x, NoticeOK(x), x.at = "page", x.hover
  PROVE  LET y == [x EXCEPT !.hover = FALSE, !.timer = @ \/ (x.bound /\ ~x.sticky)] IN
           NoticeOK(y) /\ y.at = "page"
  <1> DEFINE t == x.timer \/ (x.bound /\ ~x.sticky)
             y == [x EXCEPT !.hover = FALSE, !.timer = t]
  <1>1. x \in NoticeRecords /\ NoDelay(x.fx) /\ EffectsOf(x)
    BY DEF NoticeOK
  <1>2. t \in BOOLEAN /\ (t => x.bound /\ ~x.sticky /\ Still(x.fx)) /\ x.closed # 1
    <2>1. ~x.timer /\ (x.bound /\ ~x.sticky => Still(x.fx)) /\ x.closed # 1
      BY DEF NoticeOK
    <2>2. t \in BOOLEAN
      BY Zenon
    <2> QED
      BY <2>1, <2>2
  <1>3. y = [x EXCEPT !.hover = FALSE, !.timer = @ \/ (x.bound /\ ~x.sticky)]
    BY <1>1 DEF NoticeRecords
  <1> HIDE DEF t
  <1>4. /\ y \in NoticeRecords /\ y.hover = FALSE /\ y.fx = x.fx /\ y.timer = t
        /\ y.at = x.at /\ y.sticky = x.sticky /\ y.bound = x.bound /\ y.closed = x.closed
    BY <1>1, <1>2 DEF NoticeRecords
  <1> HIDE DEF y
  <1>5. EffectsOf(y)
    BY <1>1, <1>4 DEF EffectsOf
  <1>6. y.timer => y.bound /\ ~y.sticky /\ y.at # "none" /\ \A j \in y.fx.timers : j.does = "fadeIn"
    BY <1>2, <1>4 DEF Still
  <1>7. NoticeOK(y)
    BY <1>1, <1>2, <1>4, <1>5, <1>6 DEF NoticeOK
  <1> QED
    BY <1>3, <1>4, <1>7

\* What only effects change
LEMMA FxStep ==
  ASSUME NEW x, NoticeOK(x), NEW g, NoDelay(g), ~x.timer, x.closed # 1, x.at # "page" \/ ~x.hover \/ ~x.bound \/ x.sticky \/ Still(g),
         \/ Still(g)
         \/ \E j \in Anim : x.at # "none" /\ Driven(g, j, 1)
         \/ \E j \in Anim : x.at = "gone" /\ Left(g, j)
         \/ \E j \in Anim : x.at = "page" /\ ~x.bound /\ Driven(g, j, 3)
  PROVE  NoticeOK([x EXCEPT !.fx = g]) /\ [x EXCEPT !.fx = g].at = x.at
  <1> DEFINE y == [x EXCEPT !.fx = g]
  <1>1. /\ y \in NoticeRecords /\ y.fx = g
        /\ y.at = x.at /\ y.sticky = x.sticky /\ y.timer = x.timer /\ y.hover = x.hover
        /\ y.bound = x.bound /\ y.enters = x.enters /\ y.closed = x.closed
    BY FxLemma DEF NoticeOK, NoDelay
  <1> HIDE DEF y
  <1>2. EffectsOf(y)
    BY <1>1 DEF EffectsOf
  <1>3. NoticeOK(y)
    BY <1>1, <1>2 DEF NoticeOK
  <1> QED
    BY <1>1, <1>3 DEF y

LEMMA TimerStep ==
  ASSUME NEW x, NoticeOK(x), x.timer, InProgress(x.fx) = {}
  PROVE  LET y == Animated([x EXCEPT !.timer = FALSE], "fade") IN NoticeOK(y) /\ y.at = x.at
  <1> DEFINE z == [x EXCEPT !.timer = FALSE]
             y == Animated(z, "fade")
  <1>1. x \in NoticeRecords /\ NoDelay(x.fx) /\ x.at # "none" /\ x.closed # 1 /\ ~(x.at = "page" /\ x.hover)
    BY DEF NoticeOK
  <1>2. Still(x.fx)
    BY LoneLemma DEF InProgress
  <1>3. /\ z \in NoticeRecords /\ z.timer = FALSE /\ z.fx = x.fx
        /\ z.at = x.at /\ z.sticky = x.sticky /\ z.hover = x.hover /\ z.bound = x.bound /\ z.closed = x.closed
    BY <1>1 DEF NoticeRecords
  <1> HIDE DEF z
  <1>4. NoticeOK(z)
    BY <1>1, <1>2, <1>3 DEF NoticeOK, EffectsOf
  <1>5. /\ y \in NoticeRecords /\ NoDelay(y.fx) /\ \E j \in Anim : Driven(y.fx, j, 1) /\ j.does = "fade"
        /\ y.at = z.at /\ y.sticky = z.sticky /\ y.timer = z.timer /\ y.hover = z.hover
        /\ y.bound = z.bound /\ y.enters = z.enters /\ y.closed = z.closed
    BY <1>2, <1>3, <1>4, AnimatedStill, FadeKinds
  <1> HIDE DEF y
  <1>6. EffectsOf(y)
    BY <1>1, <1>3, <1>5 DEF EffectsOf
  <1>7. NoticeOK(y)
    BY <1>1, <1>3, <1>5, <1>6 DEF NoticeOK
  <1> QED
    BY <1>3, <1>5, <1>7 DEF y, z

LEMMA ClickStep ==
  ASSUME NEW x, NoticeOK(x), x.at = "page", x.hover, Len(x.fx.queue) < 3
  PROVE  LET y == Animated([x EXCEPT !.bound = FALSE], "fade") IN NoticeOK(y) /\ y.at = "page"
  <1> DEFINE z == [x EXCEPT !.bound = FALSE]
             y == Animated(z, "fade")
  <1>1. x \in NoticeRecords /\ NoDelay(x.fx) /\ ~x.timer /\ x.closed # 1 /\ EffectsOf(x)
    BY DEF NoticeOK
  <1>3. /\ z \in NoticeRecords /\ z.timer = x.timer /\ z.fx = x.fx
        /\ z.at = x.at /\ z.sticky = x.sticky /\ z.hover = x.hover /\ z.bound = FALSE /\ z.closed = x.closed
    BY <1>1 DEF NoticeRecords
  <1> HIDE DEF z
  <1>2. Still(z.fx) \/ \E j \in Anim : Driven(z.fx, j, 2)
    <2>1. \A j : Driven(x.fx, j, 1) => Driven(x.fx, j, 2)
      BY DEF Driven, Headed
    <2>2. \A j : Driven(x.fx, j, 3) => Driven(x.fx, j, 2)
      BY DEF Driven, Headed
    <2> QED
      BY <1>1, <1>3, <2>1, <2>2 DEF EffectsOf
  <1>4. NoticeOK(z)
    <2>1. \A j : Driven(z.fx, j, 2) => Driven(z.fx, j, 3)
      BY DEF Driven, Headed
    <2>2. EffectsOf(z)
      BY <1>2, <1>3, <2>1 DEF EffectsOf
    <2> QED
      BY <1>1, <1>3, <2>2 DEF NoticeOK
  <1>5. /\ y \in NoticeRecords /\ NoDelay(y.fx) /\ \E j \in Anim : Driven(y.fx, j, 3)
        /\ y.at = z.at /\ y.sticky = z.sticky /\ y.timer = z.timer /\ y.hover = z.hover
        /\ y.bound = z.bound /\ y.enters = z.enters /\ y.closed = z.closed
    <2>1. CASE Still(z.fx)
      <3>1. \A g : \A j : Driven(g, j, 1) => Driven(g, j, 3)
        BY DEF Driven, Headed
      <3> HIDE DEF y
      <3>2. /\ y \in NoticeRecords /\ NoDelay(y.fx) /\ \E j \in Anim : Driven(y.fx, j, 1) /\ j.does = "fade"
            /\ y.at = z.at /\ y.sticky = z.sticky /\ y.timer = z.timer /\ y.hover = z.hover
            /\ y.bound = z.bound /\ y.enters = z.enters /\ y.closed = z.closed
        BY <1>4, <2>1, AnimatedStill, FadeKinds DEF y
      <3> QED
        BY <3>1, <3>2
    <2>2. ASSUME NEW j \in Anim, Driven(z.fx, j, 2)
          PROVE  /\ y \in NoticeRecords /\ NoDelay(y.fx) /\ Driven(y.fx, j, 3)
                 /\ y.at = z.at /\ y.sticky = z.sticky /\ y.timer = z.timer /\ y.hover = z.hover
                 /\ y.bound = z.bound /\ y.enters = z.enters /\ y.closed = z.closed
      <3>1. 2 \in Nat /\ 2 + 1 = 3
        OBVIOUS
      <3> HIDE DEF y
      <3>2. /\ y \in NoticeRecords /\ NoDelay(y.fx) /\ Driven(y.fx, j, 2 + 1)
            /\ y.at = z.at /\ y.sticky = z.sticky /\ y.timer = z.timer /\ y.hover = z.hover
            /\ y.bound = z.bound /\ y.enters = z.enters /\ y.closed = z.closed
        BY <1>4, <2>2, <3>1, AnimatedDriven, FadeKinds DEF y
      <3> QED
        BY <3>1, <3>2, Zenon
    <2> QED
      BY <1>2, <2>1, <2>2
  <1> HIDE DEF y
  <1>6. EffectsOf(y)
    BY <1>3, <1>5 DEF EffectsOf
  <1>7. NoticeOK(y)
    BY <1>1, <1>3, <1>5, <1>6 DEF NoticeOK
  <1> QED
    BY <1>3, <1>5, <1>7 DEF y, z

\* The wrapper, or the last of its effects, takes the notice from the page
LEMMA RemovedFacts ==
  ASSUME NEW x, NoticeOK(x)
  PROVE  LET y == Removed(x) IN
           /\ y \in NoticeRecords /\ NoDelay(y.fx) /\ y.at = "gone" /\ y.fx.queue = <<>> /\ y.fx.timers = x.fx.timers
           /\ y.sticky = x.sticky /\ y.timer = x.timer /\ y.hover = x.hover /\ y.bound = x.bound
           /\ y.enters = x.enters /\ y.closed = x.closed
  <1> DEFINE g == [x.fx EXCEPT !.queue = <<>>, !.stop = {}]
             y == [x EXCEPT !.at = "gone", !.fx = g]
  <1>1. x \in NoticeRecords /\ x.fx \in EffectStates(Anim) /\ NoDelay(x.fx)
    BY DEF NoticeOK, NoDelay
  <1>2. g \in EffectStates(Anim) /\ NoDelay(g) /\ g.queue = <<>> /\ g.timers = x.fx.timers
    BY <1>1, EmptyLine DEF NoDelay, EffectStates
  <1>3. Removed(x) = y
    BY <1>1 DEF Removed, NoticeRecords
  <1> HIDE DEF g
  <1>4. /\ y \in NoticeRecords /\ y.at = "gone" /\ y.fx = g
        /\ y.sticky = x.sticky /\ y.timer = x.timer /\ y.hover = x.hover /\ y.bound = x.bound
        /\ y.enters = x.enters /\ y.closed = x.closed
    BY <1>1, <1>2 DEF NoticeRecords
  <1> HIDE DEF y
  <1> QED
    BY <1>2, <1>3, <1>4

LEMMA RemoveStep ==
  ASSUME NEW x, NoticeOK(x), x.at = "page"
  PROVE  NoticeOK(Removed(x)) /\ Removed(x).at = "gone"
  <1> DEFINE y == Removed(x)
  <1>1. /\ y \in NoticeRecords /\ NoDelay(y.fx) /\ y.at = "gone" /\ y.fx.queue = <<>> /\ y.fx.timers = x.fx.timers
        /\ y.sticky = x.sticky /\ y.timer = x.timer /\ y.hover = x.hover /\ y.bound = x.bound
        /\ y.enters = x.enters /\ y.closed = x.closed
    BY RemovedFacts
  <1> HIDE DEF y
  <1>2. EffectsOf(y)
    <2>1. x.fx.timers = {} \/ \E j \in Anim : x.fx.timers = {j}
      BY DEF NoticeOK, EffectsOf, Still, Left, Driven
    <2> QED
      BY <1>1, <2>1 DEF EffectsOf, Still, Left
  <1>3. NoticeOK(y)
    BY <1>1, <1>2 DEF NoticeOK
  <1> QED
    BY <1>1, <1>3 DEF y

\* What runs is one effect, and if it is not the fading in, the timer is not set
LEMMA RunningFacts ==
  ASSUME NEW x, NoticeOK(x), NEW j \in x.fx.timers
  PROVE  /\ j \in Anim /\ x.at # "none" /\ x.closed # 1 /\ ~Still(x.fx)
         /\ j.does # "fadeIn" => ~x.timer
         /\ \/ Driven(x.fx, j, 1)
            \/ x.at = "gone" /\ Left(x.fx, j)
            \/ x.at = "page" /\ ~x.bound /\ Driven(x.fx, j, 3)
  <1>1. ~Still(x.fx)
    BY DEF Still
  <1>2. \A i : Driven(x.fx, i, 1) \/ Driven(x.fx, i, 3) \/ Left(x.fx, i) => i = j
    BY DEF Driven, Left
  <1>3. x.fx.timers \subseteq Anim
    BY DEF NoticeOK, NoDelay, EffectStates
  <1> QED
    BY <1>1, <1>2, <1>3 DEF NoticeOK, EffectsOf

LEMMA FadedInStep ==
  ASSUME NEW x, NoticeOK(x), NEW j \in x.fx.timers
  PROVE  NoticeOK([x EXCEPT !.fx = Completed(@, j)]) /\ [x EXCEPT !.fx = Completed(@, j)].at = x.at
  <1> DEFINE g == Completed(x.fx, j)
             y == [x EXCEPT !.fx = g]
  <1>0. x \in NoticeRecords /\ NoDelay(x.fx)
    BY DEF NoticeOK
  <1>1. y = [x EXCEPT !.fx = Completed(@, j)]
    BY <1>0 DEF NoticeRecords
  <1>2. /\ j \in Anim /\ x.at # "none" /\ x.closed # 1 /\ ~Still(x.fx)
        /\ \/ Driven(x.fx, j, 1)
           \/ x.at = "gone" /\ Left(x.fx, j)
           \/ x.at = "page" /\ ~x.bound /\ Driven(x.fx, j, 3)
    BY RunningFacts
  <1>3. /\ NoDelay(g)
        /\ Still(g) \/ (x.at = "page" /\ ~x.bound /\ \E k \in Anim : Driven(g, k, 3))
    <2>1. CASE Driven(x.fx, j, 1) \/ Left(x.fx, j)
      <3>1. Lone(x.fx)
        BY <2>1, LoneLemma DEF Left, Lone
      <3>2. NoDelay(g) /\ g.queue = <<>> /\ g.timers = x.fx.timers \ {j}
        BY <1>0, <3>1, CompletedLeft DEF Lone
      <3> HIDE DEF g
      <3>3. x.fx.timers = {j}
        BY <2>1 DEF Driven, Left
      <3> QED
        BY <3>2, <3>3 DEF Still
    <2>2. CASE x.at = "page" /\ ~x.bound /\ Driven(x.fx, j, 3)
      <3>1. 2 \in Nat /\ 2 + 1 = 3
        OBVIOUS
      <3>4. Driven(x.fx, j, 2 + 1)
        BY <2>2, <3>1, Zenon
      <3>2. NoDelay(g) /\ (Still(g) \/ \E k \in Anim : Driven(g, k, 2))
        BY <1>0, <3>1, <3>4, CompletedDriven
      <3> HIDE DEF g
      <3>3. \A k : Driven(g, k, 2) => Driven(g, k, 3)
        BY DEF Driven, Headed
      <3> QED
        BY <2>2, <3>2, <3>3
    <2> QED
      BY <1>2, <2>1, <2>2
  <1> HIDE DEF g
  <1>4. /\ y \in NoticeRecords /\ y.fx = g
        /\ y.at = x.at /\ y.sticky = x.sticky /\ y.timer = x.timer /\ y.hover = x.hover
        /\ y.bound = x.bound /\ y.enters = x.enters /\ y.closed = x.closed
    BY <1>0, <1>3, FxLemma DEF NoDelay
  <1> HIDE DEF y
  <1>5. EffectsOf(y)
    BY <1>3, <1>4 DEF EffectsOf
  <1>6. y.timer => \A i \in y.fx.timers : i.does = "fadeIn"
    <2>1. ~x.bound => ~x.timer
      BY DEF NoticeOK
    <2> QED
      BY <1>3, <1>4, <2>1 DEF Still
  <1>7. NoticeOK(y)
    <2>1. x.at = "page" /\ x.hover => ~x.timer /\ (x.bound /\ ~x.sticky => Still(x.fx))
      BY DEF NoticeOK
    <2>2. y.at = "page" /\ y.hover => ~y.timer /\ (y.bound /\ ~y.sticky => Still(y.fx))
      BY <1>2, <1>3, <1>4, <2>1
    <2>3. y.timer => y.bound /\ ~y.sticky /\ y.at # "none"
      BY <1>4 DEF NoticeOK
    <2> QED
      BY <1>2, <1>3, <1>4, <1>5, <1>6, <2>2, <2>3 DEF NoticeOK
  <1> QED
    BY <1>1, <1>4, <1>7

\* The effect that follows the fading out is queued before the next one begins
LEMMA FadedOutFx ==
  ASSUME NEW x, NoticeOK(x), NEW j \in x.fx.timers, j.does = "fade"
  PROVE  LET z == Animated(x, "shrink")
             g == Completed(z.fx, j)
         IN  /\ z \in NoticeRecords
             /\ z.at = x.at /\ z.sticky = x.sticky /\ z.timer = x.timer /\ z.hover = x.hover
             /\ z.bound = x.bound /\ z.enters = x.enters /\ z.closed = x.closed
             /\ NoDelay(g)
             /\ \/ Still(g)
                \/ \E k \in Anim : Driven(g, k, 1)
                \/ \E k \in Anim : x.at = "gone" /\ Left(g, k)
                \/ \E k \in Anim : x.at = "page" /\ ~x.bound /\ Driven(g, k, 3)
  <1> DEFINE z == Animated(x, "shrink")
             g == Completed(z.fx, j)
  <1>0. x \in NoticeRecords /\ NoDelay(x.fx)
    BY DEF NoticeOK
  <1>1. /\ j \in Anim
        /\ \/ Driven(x.fx, j, 1)
           \/ x.at = "gone" /\ Left(x.fx, j)
           \/ x.at = "page" /\ ~x.bound /\ Driven(x.fx, j, 3)
    BY RunningFacts
  <1>2. 1 \in Nat /\ 3 \in Nat /\ "shrink" \in Does
    BY DEF Does
  <1>3. ASSUME NEW m \in Nat, Driven(x.fx, j, m)
        PROVE  /\ z \in NoticeRecords
               /\ z.at = x.at /\ z.sticky = x.sticky /\ z.timer = x.timer /\ z.hover = x.hover
               /\ z.bound = x.bound /\ z.enters = x.enters /\ z.closed = x.closed
               /\ NoDelay(g) /\ (Still(g) \/ \E k \in Anim : Driven(g, k, m))
    <2> HIDE DEF z
    <2>1. /\ z \in NoticeRecords /\ NoDelay(z.fx) /\ Driven(z.fx, j, m + 1)
          /\ z.at = x.at /\ z.sticky = x.sticky /\ z.timer = x.timer /\ z.hover = x.hover
          /\ z.bound = x.bound /\ z.enters = x.enters /\ z.closed = x.closed
      BY <1>1, <1>2, <1>3, AnimatedDriven DEF z
    <2>2. NoDelay(g) /\ (Still(g) \/ \E k \in Anim : Driven(g, k, m))
      BY <2>1, CompletedDriven
    <2> QED
      BY <2>1, <2>2
  <1>4. CASE x.at = "gone" /\ Left(x.fx, j)
    <2> DEFINE k == Job(x.fx, "shrink")
               h == Enqueued(x.fx, k)
               w == [x EXCEPT !.fx = h]
    <2>1. k \in Anim /\ k.does = "shrink"
      BY <1>2, JobOfNotice
    <2>2. z = w
      BY DEF Animated
    <2> HIDE DEF k
    <2>3. NoDelay(h) /\ h.timers = x.fx.timers \cup {k} /\ Len(h.queue) = 1 /\ h.queue[1] = Sentinel
      BY <1>0, <1>4, <2>1, EnqueuedIdle, HeadedOne DEF Left
    <2> HIDE DEF h
    <2>4. /\ w \in NoticeRecords /\ w.fx = h
          /\ w.at = x.at /\ w.sticky = x.sticky /\ w.timer = x.timer /\ w.hover = x.hover
          /\ w.bound = x.bound /\ w.enters = x.enters /\ w.closed = x.closed
      BY <1>0, <2>3, FxLemma DEF NoDelay
    <2> HIDE DEF w, z
    <2>5. NoDelay(g) /\ g.queue = <<>> /\ g.timers = h.timers \ {j}
      BY <2>2, <2>3, <2>4, CompletedLeft
    <2> HIDE DEF g
    <2>6. k # j
      BY <2>1
    <2>7. g.timers = {k}
      BY <1>4, <2>3, <2>5, <2>6 DEF Left
    <2> QED
      BY <1>4, <2>1, <2>2, <2>4, <2>5, <2>7 DEF Left, z, g
  <1> HIDE DEF z, g
  <1>5. CASE Driven(x.fx, j, 1)
    BY <1>2, <1>3, <1>5 DEF z, g
  <1>6. CASE x.at = "page" /\ ~x.bound /\ Driven(x.fx, j, 3)
    BY <1>2, <1>3, <1>6 DEF z, g
  <1> QED
    BY <1>1, <1>4, <1>5, <1>6 DEF z, g

LEMMA FadedOutStep ==
  ASSUME NEW x, NoticeOK(x), NEW j \in x.fx.timers, j.does = "fade"
  PROVE  LET y == [Animated(x, "shrink") EXCEPT !.fx = Completed(@, j)] IN NoticeOK(y) /\ y.at = x.at
  <1> DEFINE z == Animated(x, "shrink")
             g == Completed(z.fx, j)
             y == [z EXCEPT !.fx = g]
  <1>1. /\ z \in NoticeRecords
        /\ z.at = x.at /\ z.sticky = x.sticky /\ z.timer = x.timer /\ z.hover = x.hover
        /\ z.bound = x.bound /\ z.enters = x.enters /\ z.closed = x.closed
        /\ NoDelay(g)
        /\ \/ Still(g)
           \/ \E k \in Anim : Driven(g, k, 1)
           \/ \E k \in Anim : x.at = "gone" /\ Left(g, k)
           \/ \E k \in Anim : x.at = "page" /\ ~x.bound /\ Driven(g, k, 3)
    BY FadedOutFx
  <1>2. /\ x.at # "none" /\ x.closed # 1 /\ ~Still(x.fx) /\ ~x.timer
    BY RunningFacts, FadeKinds
  <1> HIDE DEF z
  <1>3. y = [z EXCEPT !.fx = Completed(@, j)]
    BY <1>1 DEF NoticeRecords
  <1> HIDE DEF g
  <1>4. /\ y \in NoticeRecords /\ y.fx = g
        /\ y.at = z.at /\ y.sticky = z.sticky /\ y.timer = z.timer /\ y.hover = z.hover
        /\ y.bound = z.bound /\ y.enters = z.enters /\ y.closed = z.closed
    BY <1>1, FxLemma DEF NoDelay
  <1> HIDE DEF y
  <1>5. EffectsOf(y)
    BY <1>1, <1>2, <1>4 DEF EffectsOf
  <1>6. x.at = "page" /\ x.hover => ~(x.bound /\ ~x.sticky)
    BY <1>2 DEF NoticeOK
  <1>7. NoticeOK(y)
    BY <1>1, <1>2, <1>4, <1>5, <1>6 DEF NoticeOK
  <1> QED
    BY <1>1, <1>3, <1>4, <1>7 DEF z

LEMMA ShrunkStep ==
  ASSUME NEW x, NoticeOK(x), NEW j \in x.fx.timers, j.does = "shrink"
  PROVE  LET y == [Removed(x) EXCEPT !.closed = @ + 1, !.fx = Completed(@, j)] IN NoticeOK(y) /\ y.at = "gone"
  <1> DEFINE z == Removed(x)
             n == z.closed + 1
             g == Completed(z.fx, j)
             y == [z EXCEPT !.closed = n, !.fx = g]
  <1>1. /\ z \in NoticeRecords /\ NoDelay(z.fx) /\ z.at = "gone" /\ z.fx.queue = <<>> /\ z.fx.timers = x.fx.timers
        /\ z.sticky = x.sticky /\ z.timer = x.timer /\ z.hover = x.hover /\ z.bound = x.bound
        /\ z.enters = x.enters /\ z.closed = x.closed
    BY RemovedFacts
  <1>2. /\ x.closed # 1 /\ ~x.timer /\ x.fx.timers = {j}
    <2>1. Driven(x.fx, j, 1) \/ Left(x.fx, j) \/ Driven(x.fx, j, 3)
      BY RunningFacts
    <2> QED
      BY <2>1, RunningFacts, FadeKinds DEF Driven, Left
  <1> HIDE DEF z
  <1>3. NoDelay(g) /\ Still(g)
    BY <1>1, <1>2, CompletedLeft DEF Still
  <1>4. n = 1 /\ n \in 0..1
    <2>1. z.closed \in 0..1 /\ z.closed # 1
      BY <1>1, <1>2 DEF NoticeRecords
    <2> QED
      BY <2>1
  <1>5. y = [z EXCEPT !.closed = @ + 1, !.fx = Completed(@, j)]
    BY <1>1 DEF NoticeRecords
  <1> HIDE DEF g, n
  <1>6. /\ y \in NoticeRecords /\ y.fx = g /\ y.closed = n
        /\ y.at = z.at /\ y.sticky = z.sticky /\ y.timer = z.timer /\ y.hover = z.hover
        /\ y.bound = z.bound /\ y.enters = z.enters
    BY <1>1, <1>3, <1>4 DEF NoticeRecords, NoDelay
  <1> HIDE DEF y
  <1>7. NoticeOK(y)
    BY <1>1, <1>2, <1>3, <1>6 DEF NoticeOK, EffectsOf
  <1> QED
    BY <1>1, <1>5, <1>6, <1>7 DEF z

-----------------------------------------------------------------------------
NoticesOK ==
  /\ notice \in [Notices -> NoticeRecords]
  /\ wrapper \in {"none", "shown", "fading"}
  /\ \A n \in Notices : NoticeOK(notice[n])
  /\ wrapper = "none" => \A n \in Notices : notice[n].at # "page"

\* One notice changes, in the page or not
LEMMA OneNotice ==
  ASSUME NoticesOK, NEW n \in Notices, NEW y, NoticeOK(y), notice' = [notice EXCEPT ![n] = y],
         wrapper' \in {"none", "shown", "fading"},
         wrapper' = "none" => y.at # "page" /\ \A o \in Notices \ {n} : notice[o].at # "page"
  PROVE  NoticesOK'
  <1>1. y \in NoticeRecords
    BY DEF NoticeOK
  <1>2. /\ notice' \in [Notices -> NoticeRecords] /\ notice'[n] = y
        /\ \A o \in Notices \ {n} : notice'[o] = notice[o]
    BY <1>1 DEF NoticesOK
  <1>3. \A o \in Notices : NoticeOK(notice'[o])
    BY <1>2 DEF NoticesOK
  <1>4. NoticeOK(notice[n])' <=> NoticeOK(notice'[n])
    BY DEF NoticeOK, EffectsOf, NoDelay, Still, Left, Driven
  <1>5. \A o \in Notices : NoticeOK(notice[o])'
    BY <1>3 DEF NoticeOK, EffectsOf, NoDelay, Still, Left, Driven
  <1>6. wrapper' = "none" => \A o \in Notices : notice'[o].at # "page"
    BY <1>2
  <1> QED
    BY <1>2, <1>5, <1>6 DEF NoticesOK

LEMMA WrapperKinds ==
  "none" \in {"none", "shown", "fading"} /\ "shown" \in {"none", "shown", "fading"} /\ "shown" # "none"
  OBVIOUS

LEMMA NoticesInit == ASSUME GritterInit PROVE NoticesOK
  <1>1. New \in NoticeRecords /\ NoticeOK(New)
    BY NewFacts, AtRestFacts DEF NoticeOK, EffectsOf
  <1>2. \A n \in Notices : notice[n] = New
    BY DEF GritterInit
  <1> QED
    BY <1>1, <1>2, NewFacts, WrapperKinds DEF GritterInit, NoticesOK

LEMMA NoticesStep == ASSUME NoticesOK, GritterNext PROVE NoticesOK'
  <1>0. /\ notice \in [Notices -> NoticeRecords] /\ wrapper \in {"none", "shown", "fading"}
        /\ \A n \in Notices : NoticeOK(notice[n])
    BY DEF NoticesOK
  <1>1. ASSUME NEW n \in Notices, NEW s \in BOOLEAN, AddNotice(n, s) PROVE NoticesOK'
    <2> DEFINE y == Animated([New EXCEPT !.at = "page", !.sticky = s, !.timer = ~s, !.bound = TRUE], "fadeIn")
    <2>1. NoticeOK(y) /\ notice' = [notice EXCEPT ![n] = y]
      BY <1>1, AddStep DEF AddNotice
    <2>2. wrapper' \in {"none", "shown", "fading"} /\ wrapper' # "none"
      BY <1>0, <1>1 DEF AddNotice
    <2> HIDE DEF y
    <2> QED
      BY <2>1, <2>2, OneNotice
  <1>2. CASE AddRefused \/ RemoveAll
    BY <1>0, <1>2 DEF AddRefused, RemoveAll, NoticesOK, NoticeOK, EffectsOf, NoDelay, Still, Left, Driven
  \* A notice in the page, and one that stays where it is, leave the wrapper alone
  <1>3. ASSUME NEW n \in Notices, NEW y, NoticeOK(y), y.at = notice[n].at, notice' = [notice EXCEPT ![n] = y],
               wrapper' = wrapper
        PROVE  NoticesOK'
    <2>1. wrapper' = "none" => y.at # "page" /\ \A o \in Notices \ {n} : notice[o].at # "page"
      BY <1>3 DEF NoticesOK
    <2> QED
      BY <1>0, <1>3, <2>1, OneNotice
  <1>4. ASSUME NEW n \in Notices, Enter(n) PROVE NoticesOK'
    <2> DEFINE here == [notice[n] EXCEPT !.hover = TRUE, !.enters = @ + 1]
               y == IF here.bound /\ ~here.sticky
                    THEN [here EXCEPT !.timer = FALSE, !.fx = Stopped(@, FALSE)] ELSE here
    <2>1. notice[n].at = "page" /\ ~notice[n].hover /\ notice[n].enters < MaxEnters
      BY <1>4 DEF Enter
    <2>2. NoticeOK(y) /\ y.at = "page"
      BY <1>0, <2>1, EnterStep
    <2>3. notice' = [notice EXCEPT ![n] = y] /\ wrapper' = wrapper
      BY <1>4 DEF Enter
    <2> HIDE DEF y
    <2> QED
      BY <1>3, <2>1, <2>2, <2>3
  <1>5. ASSUME NEW n \in Notices, Leave(n) PROVE NoticesOK'
    <2> DEFINE y == [notice[n] EXCEPT !.hover = FALSE, !.timer = @ \/ (notice[n].bound /\ ~notice[n].sticky)]
    <2>1. notice[n].at = "page" /\ notice[n].hover
      BY <1>5 DEF Leave
    <2>2. NoticeOK(y) /\ y.at = "page"
      BY <1>0, <2>1, LeaveStep
    <2>3. notice' = [notice EXCEPT ![n] = y] /\ wrapper' = wrapper
      BY <1>0, <1>5 DEF Leave, NoticeRecords
    <2> HIDE DEF y
    <2> QED
      BY <1>3, <2>1, <2>2, <2>3
  <1>6. ASSUME NEW n \in Notices, ClickX(n) PROVE NoticesOK'
    <2> DEFINE y == Animated([notice[n] EXCEPT !.bound = FALSE], "fade")
    <2>1. notice[n].at = "page" /\ notice[n].hover /\ Len(notice[n].fx.queue) < 3
      BY <1>6 DEF ClickX
    <2>2. NoticeOK(y) /\ y.at = "page"
      BY <1>0, <2>1, ClickStep
    <2>3. notice' = [notice EXCEPT ![n] = y] /\ wrapper' = wrapper
      BY <1>6 DEF ClickX
    <2> HIDE DEF y
    <2> QED
      BY <1>3, <2>1, <2>2, <2>3
  <1>7. ASSUME NEW n \in Notices, TimerFires(n) PROVE NoticesOK'
    <2> DEFINE y == Animated([notice[n] EXCEPT !.timer = FALSE], "fade")
    <2>1. notice[n].timer /\ InProgress(notice[n].fx) = {}
      BY <1>7 DEF TimerFires
    <2>2. NoticeOK(y) /\ y.at = notice[n].at
      BY <1>0, <2>1, TimerStep
    <2>3. notice' = [notice EXCEPT ![n] = y] /\ wrapper' = wrapper
      BY <1>7 DEF TimerFires
    <2> HIDE DEF y
    <2> QED
      BY <1>3, <2>2, <2>3
  <1>8. ASSUME NEW n \in Notices, FadedIn(n) PROVE NoticesOK'
    <2>0. PICK j \in notice[n].fx.timers :
            notice' = [notice EXCEPT ![n].fx = Completed(@, j)] /\ wrapper' = wrapper
      BY <1>8 DEF FadedIn
    <2> DEFINE y == [notice[n] EXCEPT !.fx = Completed(@, j)]
    <2>2. NoticeOK(y) /\ y.at = notice[n].at
      BY <1>0, FadedInStep
    <2>3. notice' = [notice EXCEPT ![n] = y]
      BY <2>0
    <2> HIDE DEF y
    <2> QED
      BY <1>3, <2>0, <2>2, <2>3
  <1>9. ASSUME NEW n \in Notices, FadedOut(n) PROVE NoticesOK'
    <2>0. PICK j \in notice[n].fx.timers :
            /\ j.does = "fade" /\ wrapper' = wrapper
            /\ notice' = [notice EXCEPT ![n] = [Animated(notice[n], "shrink") EXCEPT !.fx = Completed(@, j)]]
      BY <1>9 DEF FadedOut
    <2> DEFINE y == [Animated(notice[n], "shrink") EXCEPT !.fx = Completed(@, j)]
    <2>2. NoticeOK(y) /\ y.at = notice[n].at
      BY <1>0, <2>0, FadedOutStep
    <2>3. notice' = [notice EXCEPT ![n] = y]
      BY <2>0
    <2> HIDE DEF y
    <2> QED
      BY <1>3, <2>0, <2>2, <2>3
  <1>10. ASSUME NEW n \in Notices, Shrunk(n) PROVE NoticesOK'
    <2>0. PICK j \in notice[n].fx.timers :
            /\ j.does = "shrink" /\ wrapper' = IF OnPage \ {n} = {} THEN "none" ELSE wrapper
            /\ notice' = [notice EXCEPT ![n] = [Removed(notice[n]) EXCEPT !.closed = @ + 1, !.fx = Completed(@, j)]]
      BY <1>10 DEF Shrunk
    <2> DEFINE y == [Removed(notice[n]) EXCEPT !.closed = @ + 1, !.fx = Completed(@, j)]
    <2>2. NoticeOK(y) /\ y.at = "gone"
      BY <1>0, <2>0, ShrunkStep
    <2>3. notice' = [notice EXCEPT ![n] = y]
      BY <2>0
    <2> HIDE DEF y
    <2>4. /\ wrapper' \in {"none", "shown", "fading"}
          /\ wrapper' = "none" => \A o \in Notices \ {n} : notice[o].at # "page"
      BY <1>0, <2>0 DEF OnPage, NoticesOK
    <2> QED
      BY <2>2, <2>3, <2>4, OneNotice
  <1>11. CASE WrapperFaded
    <2>1. /\ wrapper' = "none"
          /\ notice' = [n \in Notices |-> IF n \in OnPage THEN Removed(notice[n]) ELSE notice[n]]
      BY <1>11 DEF WrapperFaded
    <2>2. ASSUME NEW n \in Notices
          PROVE  NoticeOK(notice'[n]) /\ notice'[n].at # "page"
      <3>1. CASE n \in OnPage
        <4>1. notice'[n] = Removed(notice[n]) /\ notice[n].at = "page"
          BY <2>1, <3>1 DEF OnPage
        <4>2. NoticeOK(Removed(notice[n])) /\ Removed(notice[n]).at = "gone"
          BY <1>0, <4>1, RemoveStep
        <4> QED
          BY <4>1, <4>2
      <3>2. CASE n \notin OnPage
        BY <1>0, <2>1, <3>2 DEF OnPage
      <3> QED
        BY <3>1, <3>2
    <2>3. notice' \in [Notices -> NoticeRecords]
      <3>1. \A n \in Notices : notice'[n] \in NoticeRecords
        BY <2>2 DEF NoticeOK
      <3> QED
        BY <2>1, <3>1
    <2>4. \A n \in Notices : NoticeOK(notice[n])'
      BY <2>2 DEF NoticeOK, EffectsOf, NoDelay, Still, Left, Driven
    <2> QED
      BY <2>1, <2>2, <2>3, <2>4, WrapperKinds DEF NoticesOK
  <1> QED
    BY <1>1, <1>2, <1>4, <1>5, <1>6, <1>7, <1>8, <1>9, <1>10, <1>11 DEF GritterNext, Effect

LEMMA NoticesHold == GritterSpec => []NoticesOK
  <1>1. NoticesOK /\ UNCHANGED gritterVars => NoticesOK'
    BY DEF gritterVars, NoticesOK, NoticeOK, EffectsOf, NoDelay, Still, Left, Driven
  <1> QED
    BY <1>1, NoticesInit, NoticesStep, PTL DEF GritterSpec

(* Lines 198-209: for any number of notices, and whatever fades, stops and *)
(* removals are under way, after_close is called once at most.             *)
THEOREM ClosedOnceHolds == GritterSpec => []ClosedOnce
  <1>1. NoticesOK => ClosedOnce
    BY DEF NoticesOK, NoticeRecords, ClosedOnce
  <1> QED
    BY <1>1, NoticesHold, PTL

(* Whatever happens to the notices, each is nowhere, in the page or gone,  *)
(* and none is in the page without the wrapper.                            *)
THEOREM GritterTypeCorrect == GritterSpec => []GritterTypeOK
  <1>1. NoticesOK => GritterTypeOK
    BY DEF NoticesOK, NoticeRecords, GritterTypeOK
  <1> QED
    BY <1>1, NoticesHold, PTL

-----------------------------------------------------------------------------
(***************************************************************************)
(* Modal: the dialog under a patient user, through any number of           *)
(* backdrops.  The page is one record: the first lemmas say what each      *)
(* operator makes of its fields.  A patient page is bound (its handlers    *)
(* are on the dialog, the element or the backdrop there is, and a          *)
(* transition is awaited only by those it will call) and in one of four    *)
(* phases; what runs when a transition ends, the recursive function of     *)
(* RunAll, is unfolded for one and for two callbacks, which is all that    *)
(* is ever bound.                                                          *)
(***************************************************************************)
Pages == [visible : BOOLEAN, made : Nat, backdrop : Nat, onPage : SUBSET Nat,
          handlers : [1..Dialog -> Seq(Callbacks)], awaited : SUBSET (1..Dialog), modalOpen : BOOLEAN]

LEMMA AppendTyped ==
  ASSUME NEW S, NEW s \in Seq(S), NEW x \in S PROVE Append(s, x) \in Seq(S)
  OBVIOUS

LEMMA AwaitLemma ==
  ASSUME NEW p \in Pages, NEW e \in 1..Dialog, NEW what \in Callbacks
  PROVE  LET q == Await(p, e, what) IN
           /\ q \in Pages /\ q.visible = p.visible /\ q.made = p.made /\ q.backdrop = p.backdrop
           /\ q.onPage = p.onPage /\ q.modalOpen = p.modalOpen /\ q.awaited = p.awaited \cup {e}
           /\ q.handlers[e] = Append(p.handlers[e], what)
           /\ \A x \in 1..Dialog : x # e => q.handlers[x] = p.handlers[x]
  <1> DEFINE a == p.awaited \cup {e}
             h == [p.handlers EXCEPT ![e] = Append(p.handlers[e], what)]
  <1>1. a \in SUBSET (1..Dialog) /\ h \in [1..Dialog -> Seq(Callbacks)]
    <2>1. p.handlers \in [1..Dialog -> Seq(Callbacks)] /\ p.awaited \subseteq 1..Dialog
      BY DEF Pages
    <2>2. Append(p.handlers[e], what) \in Seq(Callbacks)
      <3>1. p.handlers[e] \in Seq(Callbacks)
        BY <2>1
      <3> QED
        BY <3>1, AppendTyped, Zenon
    <2> QED
      BY <2>1, <2>2
  <1>2. Await(p, e, what) = [p EXCEPT !.handlers = h, !.awaited = a]
    BY DEF Await, Pages
  <1> HIDE DEF a, h
  <1>3. LET q == [p EXCEPT !.handlers = h, !.awaited = a] IN
          /\ q \in Pages /\ q.visible = p.visible /\ q.made = p.made /\ q.backdrop = p.backdrop
          /\ q.onPage = p.onPage /\ q.modalOpen = p.modalOpen /\ q.awaited = a
          /\ q.handlers = h
    BY <1>1 DEF Pages
  <1>4. p.handlers \in [1..Dialog -> Seq(Callbacks)]
    BY DEF Pages
  <1>5. h[e] = Append(p.handlers[e], what) /\ \A x \in 1..Dialog : x # e => h[x] = p.handlers[x]
    BY <1>4 DEF h
  <1> QED
    BY <1>2, <1>3, <1>5 DEF a

LEMMA BaredLemma ==
  ASSUME NEW p \in Pages
  PROVE  LET q == Bared(p) IN
           /\ q \in Pages /\ q.visible = p.visible /\ q.made = p.made /\ q.backdrop = 0
           /\ q.onPage = p.onPage \ {p.backdrop} /\ q.modalOpen = FALSE
           /\ q.awaited = p.awaited \ {p.backdrop}
           /\ q.handlers = [e \in 1..Dialog |-> IF e = p.backdrop THEN <<>> ELSE p.handlers[e]]
  <1> DEFINE a == p.awaited \ {p.backdrop}
             o == p.onPage \ {p.backdrop}
             h == [e \in 1..Dialog |-> IF e = p.backdrop THEN <<>> ELSE p.handlers[e]]
  <1>1. /\ a \in SUBSET (1..Dialog) /\ h \in [1..Dialog -> Seq(Callbacks)] /\ o \in SUBSET Nat
    <2>1. p.handlers \in [1..Dialog -> Seq(Callbacks)] /\ p.awaited \subseteq 1..Dialog /\ p.onPage \subseteq Nat
      BY DEF Pages
    <2>2. <<>> \in Seq(Callbacks)
      OBVIOUS
    <2> QED
      BY <2>1, <2>2
  <1>2. DOMAIN p.handlers = 1..Dialog
    BY DEF Pages
  <1>3. Bared(p) = [p EXCEPT !.backdrop = 0, !.modalOpen = FALSE, !.onPage = o, !.handlers = h, !.awaited = a]
    BY <1>2 DEF Bared, Pages
  <1> HIDE DEF a, h, o
  <1>4. LET q == [p EXCEPT !.backdrop = 0, !.modalOpen = FALSE, !.onPage = o, !.handlers = h, !.awaited = a] IN
          /\ q \in Pages /\ q.visible = p.visible /\ q.made = p.made /\ q.backdrop = 0
          /\ q.onPage = o /\ q.modalOpen = FALSE /\ q.awaited = a
          /\ q.handlers = h
    BY <1>1 DEF Pages
  <1> QED
    BY <1>3, <1>4 DEF a, h, o

LEMMA NewLemma ==
  ASSUME NEW p \in Pages
  PROVE  LET q == NewBackdrop(p) IN
           /\ q \in Pages /\ q.visible = p.visible /\ q.made = p.made + 1 /\ q.backdrop = p.made + 1
           /\ q.onPage = p.onPage \cup {p.made + 1} /\ q.modalOpen = p.modalOpen
           /\ q.awaited = p.awaited /\ q.handlers = p.handlers
  <1> DEFINE n == p.made + 1
             o == p.onPage \cup {n}
  <1>1. n \in Nat /\ o \in SUBSET Nat
    BY DEF Pages
  <1>3. NewBackdrop(p) = [p EXCEPT !.made = n, !.backdrop = n, !.onPage = o]
    BY DEF NewBackdrop, Pages
  <1> HIDE DEF n, o
  <1>4. LET q == [p EXCEPT !.made = n, !.backdrop = n, !.onPage = o] IN
           /\ q \in Pages /\ q.visible = p.visible /\ q.made = n /\ q.backdrop = n
           /\ q.onPage = o /\ q.modalOpen = p.modalOpen
           /\ q.awaited = p.awaited /\ q.handlers = p.handlers
    BY <1>1 DEF Pages
  <1> QED
    BY <1>3, <1>4 DEF n, o

LEMMA SeenLemma ==
  ASSUME NEW p \in Pages, NEW x \in BOOLEAN
  PROVE  LET q == [p EXCEPT !.visible = x] IN
           /\ q \in Pages /\ q.visible = x /\ q.made = p.made /\ q.backdrop = p.backdrop
           /\ q.onPage = p.onPage /\ q.modalOpen = p.modalOpen
           /\ q.awaited = p.awaited /\ q.handlers = p.handlers
  BY DEF Pages

LEMMA OpenLemma ==
  ASSUME NEW p \in Pages
  PROVE  LET q == [p EXCEPT !.modalOpen = TRUE] IN
           /\ q \in Pages /\ q.visible = p.visible /\ q.made = p.made /\ q.backdrop = p.backdrop
           /\ q.onPage = p.onPage /\ q.modalOpen = TRUE
           /\ q.awaited = p.awaited /\ q.handlers = p.handlers
  BY DEF Pages

\* What is bound to some elements is called, once
Unbind(p, S) == [p EXCEPT !.awaited = @ \ S,
                          !.handlers = [x \in DOMAIN @ |-> IF x \in S THEN <<>> ELSE @[x]]]

LEMMA UnboundLemma ==
  ASSUME NEW p \in Pages, NEW S
  PROVE  LET q == Unbind(p, S) IN
           /\ q \in Pages /\ q.visible = p.visible /\ q.made = p.made /\ q.backdrop = p.backdrop
           /\ q.onPage = p.onPage /\ q.modalOpen = p.modalOpen
           /\ q.awaited = p.awaited \ S
           /\ \A x \in 1..Dialog : x \in S => q.handlers[x] = <<>>
           /\ \A x \in 1..Dialog : x \notin S => q.handlers[x] = p.handlers[x]
  <1> DEFINE a == p.awaited \ S
             h == [x \in 1..Dialog |-> IF x \in S THEN <<>> ELSE p.handlers[x]]
  <1>1. /\ a \in SUBSET (1..Dialog) /\ h \in [1..Dialog -> Seq(Callbacks)]
    <2>1. p.handlers \in [1..Dialog -> Seq(Callbacks)] /\ p.awaited \subseteq 1..Dialog
      BY DEF Pages
    <2>2. <<>> \in Seq(Callbacks)
      OBVIOUS
    <2> QED
      BY <2>1, <2>2
  <1>2. DOMAIN p.handlers = 1..Dialog
    BY DEF Pages
  <1>3. Unbind(p, S) = [p EXCEPT !.awaited = a, !.handlers = h]
    BY <1>2 DEF Unbind, Pages
  <1> HIDE DEF a, h
  <1>4. LET q == [p EXCEPT !.awaited = a, !.handlers = h] IN
           /\ q \in Pages /\ q.visible = p.visible /\ q.made = p.made /\ q.backdrop = p.backdrop
           /\ q.onPage = p.onPage /\ q.modalOpen = p.modalOpen
           /\ q.awaited = a /\ q.handlers = h
    BY <1>1 DEF Pages
  <1>5. /\ \A x \in 1..Dialog : x \in S => h[x] = <<>>
        /\ \A x \in 1..Dialog : x \notin S => h[x] = p.handlers[x]
    BY DEF h
  <1> QED
    BY <1>3, <1>4, <1>5 DEF a

\* One handler after another
Run(p, what) == IF what = "hideModal" THEN HideModal(p, isShown) ELSE Do(p, what)

LEMMA RunOne ==
  ASSUME NEW p, NEW w, NEW todo, Len(todo) = 1, todo[1] = w
  PROVE  RunAll(p, todo) = Run(p, w)
  <1> DEFINE G(g) == [i \in 0..Len(todo) |->
                        IF i = 0 THEN p
                        ELSE IF todo[i] = "hideModal" THEN HideModal(g[i - 1], isShown)
                        ELSE Do(g[i - 1], todo[i])]
             f == CHOOSE g : g = G(g)
             g1 == [i \in 0..1 |-> IF i = 0 THEN p ELSE Run(p, w)]
  <1>1. RunAll(p, todo) = f[Len(todo)]
    BY DEF RunAll
  <1>2. g1 = G(g1)
    BY DEF Run
  <1>3. f = G(f)
    BY <1>2
  <1> HIDE DEF f
  <1>4. f[0] = p
    BY <1>3
  <1>5. f[1] = Run(p, w)
    BY <1>3, <1>4 DEF Run
  <1> QED
    BY <1>1, <1>5

LEMMA RunTwo ==
  ASSUME NEW p, NEW w, NEW u, NEW todo, Len(todo) = 2, todo[1] = w, todo[2] = u
  PROVE  RunAll(p, todo) = Run(Run(p, w), u)
  <1> DEFINE G(g) == [i \in 0..Len(todo) |->
                        IF i = 0 THEN p
                        ELSE IF todo[i] = "hideModal" THEN HideModal(g[i - 1], isShown)
                        ELSE Do(g[i - 1], todo[i])]
             f == CHOOSE g : g = G(g)
             g1 == [i \in 0..2 |-> IF i = 0 THEN p ELSE IF i = 1 THEN Run(p, w) ELSE Run(Run(p, w), u)]
  <1>1. RunAll(p, todo) = f[Len(todo)]
    BY DEF RunAll
  <1>2. g1 = G(g1)
    <2>1. g1[0] = p /\ g1[1] = Run(p, w) /\ g1[2] = Run(Run(p, w), u)
      OBVIOUS
    <2> QED
      BY <2>1 DEF Run
  <1>3. f = G(f)
    BY <1>2
  <1> HIDE DEF f
  <1>4. f[0] = p
    BY <1>3
  <1>5. f[1] = Run(p, w)
    BY <1>3, <1>4 DEF Run
  <1>6. f[2] = Run(Run(p, w), u)
    BY <1>3, <1>5 DEF Run
  <1> QED
    BY <1>1, <1>6

-----------------------------------------------------------------------------
\* What is awaited is bound, once, and only on the backdrop, the dialog and the element
Bound(p) ==
  /\ p \in Pages /\ p.made \in 0..MaxBackdrops /\ p.backdrop \in 0..MaxBackdrops
  /\ \A x \in 1..Dialog : x \in p.awaited <=> p.handlers[x] # <<>>
  /\ \A x \in Backdrops : x # p.backdrop => p.handlers[x] = <<>>
  /\ p.handlers[Dialog] \in {<<>>, <<"shown">>} /\ p.handlers[Element] \in {<<>>, <<"hideModal">>}
  /\ ~animated => p.awaited = {}

\* The dialog waits for its backdrop; it is there; its backdrop leaves; it is gone
Opening(p, showing) ==
  /\ p.backdrop # 0 /\ p.onPage = {p.backdrop} /\ p.modalOpen = TRUE /\ p.visible = FALSE
  /\ p.handlers[p.backdrop] = <<"show">> /\ p.handlers[Dialog] = <<>>
  /\ showing <=> p.handlers[Element] = <<>>

Opened(p, showing) ==
  /\ p.backdrop # 0 /\ p.onPage = {p.backdrop} /\ p.modalOpen = TRUE /\ p.visible = TRUE
  /\ p.handlers[p.backdrop] = <<>>
  /\ showing <=> p.handlers[Element] = <<>>

Closing(p, showing) ==
  /\ p.backdrop # 0 /\ p.onPage = {p.backdrop} /\ p.modalOpen = TRUE /\ p.visible = FALSE
  /\ p.handlers[p.backdrop] = <<"removeBackdrop">> /\ p.handlers[Element] = <<>> /\ ~showing

Closed(p, showing) ==
  /\ p.backdrop = 0 /\ p.onPage = {} /\ p.modalOpen = FALSE /\ p.visible = FALSE
  /\ p.handlers[Element] = <<>> /\ ~showing

Phased(p, showing) == Opening(p, showing) \/ Opened(p, showing) \/ Closing(p, showing) \/ Closed(p, showing)

Patient == habit = "patient" => isShown \in BOOLEAN /\ Bound(Page) /\ Phased(Page, isShown)

LEMMA Numbers ==
  /\ Element \in 1..Dialog /\ Dialog \in 1..Dialog /\ Element # Dialog /\ Dialog # 0 /\ Element # 0
  /\ \A x \in Backdrops : x \in 1..Dialog /\ x # Element /\ x # Dialog /\ x \in Nat /\ x # 0
  /\ \A x \in 1..Dialog : x \in Backdrops \/ x = Element \/ x = Dialog
  /\ \A x \in 0..MaxBackdrops : x = 0 \/ x \in Backdrops
  /\ \A x \in 0..MaxBackdrops : x < MaxBackdrops => x + 1 \in Backdrops /\ x + 1 \in 0..MaxBackdrops
  /\ \A x \in Backdrops : x \in 0..MaxBackdrops
  BY ModalBounds DEF Element, Dialog, Backdrops

LEMMA Appended ==
  ASSUME NEW x PROVE Append(<<>>, x) = <<x>> /\ <<x>> # <<>>
  OBVIOUS

\* Callbacks are awaited where none is bound
LEMMA AwaitBound ==
  ASSUME NEW p, Bound(p), animated, NEW e \in 1..Dialog, p.handlers[e] = <<>>, NEW what \in Callbacks,
         \/ e = p.backdrop
         \/ e = Dialog /\ what = "shown"
         \/ e = Element /\ what = "hideModal"
  PROVE  LET q == Await(p, e, what) IN
           /\ Bound(q) /\ q.visible = p.visible /\ q.made = p.made /\ q.backdrop = p.backdrop
           /\ q.onPage = p.onPage /\ q.modalOpen = p.modalOpen
           /\ q.handlers[e] = <<what>>
           /\ \A x \in 1..Dialog : x # e => q.handlers[x] = p.handlers[x]
  <1> DEFINE q == Await(p, e, what)
  <1>1. p \in Pages
    BY DEF Bound
  <1>2. /\ q \in Pages /\ q.visible = p.visible /\ q.made = p.made /\ q.backdrop = p.backdrop
        /\ q.onPage = p.onPage /\ q.modalOpen = p.modalOpen /\ q.awaited = p.awaited \cup {e}
        /\ q.handlers[e] = Append(p.handlers[e], what)
        /\ \A x \in 1..Dialog : x # e => q.handlers[x] = p.handlers[x]
    BY <1>1, AwaitLemma, Zenon
  <1> HIDE DEF q
  <1>3. q.handlers[e] = <<what>> /\ <<what>> # <<>>
    BY <1>2, Appended, Zenon
  <1>4. \A x \in 1..Dialog : x # e => q.handlers[x] = p.handlers[x]
    BY <1>2
  <1>5. \A x \in 1..Dialog : x \in q.awaited <=> q.handlers[x] # <<>>
    BY <1>2, <1>3, <1>4 DEF Bound
  <1>6. \A x \in Backdrops : x # q.backdrop => q.handlers[x] = <<>>
    BY <1>2, <1>4, Numbers DEF Bound
  <1>7. q.handlers[Dialog] \in {<<>>, <<"shown">>} /\ q.handlers[Element] \in {<<>>, <<"hideModal">>}
    BY <1>3, <1>4, Numbers DEF Bound
  <1>8. Bound(q)
    BY <1>2, <1>5, <1>6, <1>7 DEF Bound
  <1> QED
    BY <1>2, <1>3, <1>4, <1>8 DEF q

LEMMA BaredBound ==
  ASSUME NEW p, Bound(p), p.backdrop # 0
  PROVE  LET q == Bared(p) IN
           /\ Bound(q) /\ q.visible = p.visible /\ q.made = p.made /\ q.backdrop = 0
           /\ q.onPage = p.onPage \ {p.backdrop} /\ q.modalOpen = FALSE
           /\ q.handlers[Dialog] = p.handlers[Dialog] /\ q.handlers[Element] = p.handlers[Element]
  <1> DEFINE q == Bared(p)
  <1>1. p \in Pages /\ p.backdrop \in Backdrops
    BY Numbers DEF Bound
  <1>2. /\ q \in Pages /\ q.visible = p.visible /\ q.made = p.made /\ q.backdrop = 0
        /\ q.onPage = p.onPage \ {p.backdrop} /\ q.modalOpen = FALSE
        /\ q.awaited = p.awaited \ {p.backdrop}
        /\ q.handlers = [e \in 1..Dialog |-> IF e = p.backdrop THEN <<>> ELSE p.handlers[e]]
    BY <1>1, BaredLemma, Zenon
  <1> HIDE DEF q
  <1>3. /\ q.handlers[p.backdrop] = <<>>
        /\ \A x \in 1..Dialog : x # p.backdrop => q.handlers[x] = p.handlers[x]
    BY <1>1, <1>2, Numbers
  <1>4. q.handlers[Dialog] = p.handlers[Dialog] /\ q.handlers[Element] = p.handlers[Element]
    BY <1>1, <1>3, Numbers
  <1>5. \A x \in 1..Dialog : x \in q.awaited <=> q.handlers[x] # <<>>
    BY <1>2, <1>3 DEF Bound
  <1>6. \A x \in Backdrops : q.handlers[x] = <<>>
    BY <1>3, Numbers DEF Bound
  <1>7. 0 \in 0..MaxBackdrops
    BY ModalBounds
  <1>8. Bound(q)
    BY <1>2, <1>4, <1>5, <1>6, <1>7 DEF Bound
  <1> QED
    BY <1>2, <1>4, <1>8 DEF q

LEMMA NewBound ==
  ASSUME NEW p, Bound(p), p.made < MaxBackdrops, p.awaited = {}
  PROVE  LET q == NewBackdrop(p) IN
           /\ Bound(q) /\ q.visible = p.visible /\ q.made = p.made + 1 /\ q.backdrop = p.made + 1
           /\ q.onPage = p.onPage \cup {p.made + 1} /\ q.modalOpen = p.modalOpen
           /\ q.handlers = p.handlers /\ q.awaited = p.awaited
  <1> DEFINE q == NewBackdrop(p)
  <1>1. p \in Pages /\ p.made + 1 \in Backdrops /\ p.made + 1 \in 0..MaxBackdrops
    BY Numbers DEF Bound
  <1>2. /\ q \in Pages /\ q.visible = p.visible /\ q.made = p.made + 1 /\ q.backdrop = p.made + 1
        /\ q.onPage = p.onPage \cup {p.made + 1} /\ q.modalOpen = p.modalOpen
        /\ q.awaited = p.awaited /\ q.handlers = p.handlers
    BY <1>1, NewLemma, Zenon
  <1>3. \A x \in 1..Dialog : p.handlers[x] = <<>>
    BY DEF Bound
  <1> HIDE DEF q
  <1>4. Bound(q)
    BY <1>1, <1>2, <1>3, Numbers DEF Bound
  <1> QED
    BY <1>2, <1>4 DEF q

LEMMA SeenBound ==
  ASSUME NEW p, Bound(p), NEW x \in BOOLEAN
  PROVE  LET q == [p EXCEPT !.visible = x] IN
           /\ Bound(q) /\ q.visible = x /\ q.made = p.made /\ q.backdrop = p.backdrop
           /\ q.onPage = p.onPage /\ q.modalOpen = p.modalOpen
           /\ q.handlers = p.handlers /\ q.awaited = p.awaited
  <1> DEFINE q == [p EXCEPT !.visible = x]
  <1>1. /\ q \in Pages /\ q.visible = x /\ q.made = p.made /\ q.backdrop = p.backdrop
        /\ q.onPage = p.onPage /\ q.modalOpen = p.modalOpen
        /\ q.awaited = p.awaited /\ q.handlers = p.handlers
    BY SeenLemma DEF Bound
  <1> HIDE DEF q
  <1>2. Bound(q)
    BY <1>1 DEF Bound
  <1> QED
    BY <1>1, <1>2 DEF q

LEMMA OpenBound ==
  ASSUME NEW p, Bound(p)
  PROVE  LET q == [p EXCEPT !.modalOpen = TRUE] IN
           /\ Bound(q) /\ q.visible = p.visible /\ q.made = p.made /\ q.backdrop = p.backdrop
           /\ q.onPage = p.onPage /\ q.modalOpen = TRUE
           /\ q.handlers = p.handlers /\ q.awaited = p.awaited
  <1> DEFINE q == [p EXCEPT !.modalOpen = TRUE]
  <1>1. /\ q \in Pages /\ q.visible = p.visible /\ q.made = p.made /\ q.backdrop = p.backdrop
        /\ q.onPage = p.onPage /\ q.modalOpen = TRUE
        /\ q.awaited = p.awaited /\ q.handlers = p.handlers
    BY OpenLemma DEF Bound
  <1> HIDE DEF q
  <1>2. Bound(q)
    BY <1>1 DEF Bound
  <1> QED
    BY <1>1, <1>2 DEF q

LEMMA UnbindBound ==
  ASSUME NEW p, Bound(p), NEW S
  PROVE  LET q == Unbind(p, S) IN
           /\ Bound(q) /\ q.visible = p.visible /\ q.made = p.made /\ q.backdrop = p.backdrop
           /\ q.onPage = p.onPage /\ q.modalOpen = p.modalOpen
           /\ \A x \in 1..Dialog : x \in S => q.handlers[x] = <<>>
           /\ \A x \in 1..Dialog : x \notin S => q.handlers[x] = p.handlers[x]
  <1> DEFINE q == Unbind(p, S)
  <1>1. /\ q \in Pages /\ q.visible = p.visible /\ q.made = p.made /\ q.backdrop = p.backdrop
        /\ q.onPage = p.onPage /\ q.modalOpen = p.modalOpen
        /\ q.awaited = p.awaited \ S
        /\ \A x \in 1..Dialog : x \in S => q.handlers[x] = <<>>
        /\ \A x \in 1..Dialog : x \notin S => q.handlers[x] = p.handlers[x]
    <2>1. p \in Pages
      BY DEF Bound
    <2> QED
      BY <2>1, UnboundLemma
  <1> HIDE DEF q
  <1>3. \A x \in 1..Dialog : x \in q.awaited <=> q.handlers[x] # <<>>
    BY <1>1 DEF Bound
  <1>4. \A x \in Backdrops : x # q.backdrop => q.handlers[x] = <<>>
    BY <1>1, Numbers DEF Bound
  <1>5. q.handlers[Dialog] \in {<<>>, <<"shown">>} /\ q.handlers[Element] \in {<<>>, <<"hideModal">>}
    BY <1>1, Numbers DEF Bound
  <1>6. Bound(q)
    BY <1>1, <1>3, <1>4, <1>5 DEF Bound
  <1> QED
    BY <1>1, <1>6 DEF q

LEMMA AppearStep ==
  ASSUME NEW p, Bound(p), NEW showing,
         p.backdrop # 0, p.onPage = {p.backdrop}, p.modalOpen = TRUE,
         p.handlers[p.backdrop] = <<>>, p.handlers[Dialog] = <<>>, showing <=> p.handlers[Element] = <<>>
  PROVE  Bound(Appear(p)) /\ Opened(Appear(p), showing)
  <1> DEFINE q == [p EXCEPT !.visible = TRUE]
             r == Await(q, Dialog, "shown")
  <1>1. /\ Bound(q) /\ q.visible = TRUE /\ q.made = p.made /\ q.backdrop = p.backdrop
        /\ q.onPage = p.onPage /\ q.modalOpen = p.modalOpen
        /\ q.handlers = p.handlers /\ q.awaited = p.awaited
    BY SeenBound
  <1>0. Appear(p) = IF animated THEN r ELSE q
    BY DEF Appear
  <1> HIDE DEF q
  <1>2. CASE animated
    <2>1. "shown" \in Callbacks
      BY DEF Callbacks
    <2>2. /\ Bound(r) /\ r.visible = q.visible /\ r.made = q.made /\ r.backdrop = q.backdrop
          /\ r.onPage = q.onPage /\ r.modalOpen = q.modalOpen
          /\ \A x \in 1..Dialog : x # Dialog => r.handlers[x] = q.handlers[x]
      BY <1>1, <1>2, <2>1, AwaitBound, Numbers
    <2> HIDE DEF r
    <2>3. p.backdrop \in Backdrops
      BY Numbers DEF Bound
    <2>4. r.handlers[p.backdrop] = <<>> /\ r.handlers[Element] = p.handlers[Element]
      BY <1>1, <2>2, <2>3, Numbers
    <2> QED
      BY <1>0, <1>1, <1>2, <2>2, <2>4 DEF Opened
  <1>3. CASE ~animated
    BY <1>0, <1>1, <1>3 DEF Opened
  <1> QED
    BY <1>2, <1>3

LEMMA BareStep ==
  ASSUME NEW p, Bound(p), p.backdrop # 0, p.onPage = {p.backdrop}, p.visible = FALSE, p.handlers[Element] = <<>>
  PROVE  Bound(Bared(p)) /\ Closed(Bared(p), FALSE)
  <1> DEFINE q == Bared(p)
  <1>1. /\ Bound(q) /\ q.visible = p.visible /\ q.made = p.made /\ q.backdrop = 0
        /\ q.onPage = p.onPage \ {p.backdrop} /\ q.modalOpen = FALSE
        /\ q.handlers[Dialog] = p.handlers[Dialog] /\ q.handlers[Element] = p.handlers[Element]
    BY BaredBound
  <1> HIDE DEF q
  <1>2. Closed(q, FALSE)
    BY <1>1 DEF Closed
  <1> QED
    BY <1>1, <1>2 DEF q

LEMMA HideStep ==
  ASSUME NEW p, Bound(p), p.backdrop # 0, p.onPage = {p.backdrop}, p.modalOpen = TRUE,
         p.handlers[p.backdrop] = <<>>, p.handlers[Element] = <<>>
  PROVE  Bound(HideModal(p, FALSE)) /\ Phased(HideModal(p, FALSE), FALSE)
  <1> DEFINE q == [p EXCEPT !.visible = FALSE]
             r == Await(q, q.backdrop, "removeBackdrop")
  <1>1. /\ Bound(q) /\ q.visible = FALSE /\ q.made = p.made /\ q.backdrop = p.backdrop
        /\ q.onPage = p.onPage /\ q.modalOpen = p.modalOpen
        /\ q.handlers = p.handlers /\ q.awaited = p.awaited
    BY SeenBound
  <1>0. HideModal(p, FALSE) = IF q.backdrop # 0 /\ animated THEN r ELSE Bared(q)
    BY DEF HideModal, WithBackdrop, Do
  <1> HIDE DEF q
  <1>2. CASE animated
    <2>1. "removeBackdrop" \in Callbacks
      BY DEF Callbacks
    <2>3. q.backdrop \in Backdrops
      BY <1>1, Numbers DEF Bound
    <2>4. q.backdrop \in 1..Dialog /\ q.backdrop # Element
      BY <2>3, Numbers
    <2>2. /\ Bound(r) /\ r.visible = q.visible /\ r.made = q.made /\ r.backdrop = q.backdrop
          /\ r.onPage = q.onPage /\ r.modalOpen = q.modalOpen
          /\ r.handlers[q.backdrop] = <<"removeBackdrop">>
          /\ \A x \in 1..Dialog : x # q.backdrop => r.handlers[x] = q.handlers[x]
      BY <1>1, <1>2, <2>1, <2>4, AwaitBound
    <2> HIDE DEF r
    <2>5. r.handlers[Element] = <<>>
      BY <1>1, <2>2, <2>4, Numbers
    <2> QED
      BY <1>0, <1>1, <1>2, <2>2, <2>5 DEF Phased, Closing
  <1>3. CASE ~animated
    BY <1>0, <1>1, <1>3, BareStep DEF Phased
  <1> QED
    BY <1>2, <1>3

LEMMA BecomesPage ==
  ASSUME NEW q \in Pages, Becomes(q) PROVE Page' = q
  BY DEF Becomes, Page, Pages

LEMMA PatientBecomes ==
  ASSUME NEW q, Bound(q), Becomes(q), Phased(q, isShown'), isShown' \in BOOLEAN, animated' = animated
  PROVE  Patient'
  <1>1. Page' = q
    BY BecomesPage DEF Bound
  <1>2. Bound(Page)' /\ Phased(Page, isShown)'
    BY <1>1 DEF Bound, Phased, Opening, Opened, Closing, Closed
  <1> QED
    BY <1>2 DEF Patient

LEMMA PageFields ==
  /\ Page.visible = visible /\ Page.made = made /\ Page.backdrop = backdrop /\ Page.onPage = onPage
  /\ Page.handlers = handlers /\ Page.awaited = awaited /\ Page.modalOpen = modalOpen
  BY DEF Page

\* With no transition under way the dialog is there or gone
LEMMA AtRestPhase ==
  ASSUME Bound(Page), Phased(Page, isShown), isShown \in BOOLEAN, awaited = {}
  PROVE  /\ isShown => Opened(Page, TRUE)
         /\ ~isShown => Closed(Page, FALSE)
         /\ \A x \in 1..Dialog : Page.handlers[x] = <<>>
  <1>1. \A x \in 1..Dialog : Page.handlers[x] = <<>>
    BY PageFields DEF Bound
  <1>2. /\ \A w : <<w>> # <<>>
        /\ Page.backdrop # 0 => Page.backdrop \in 1..Dialog
    BY Numbers, Appended DEF Bound
  <1>3. ~Opening(Page, isShown) /\ ~Closing(Page, isShown)
    BY <1>1, <1>2 DEF Opening, Closing
  <1>4. Page.handlers[Element] = <<>>
    BY <1>1, Numbers
  <1> QED
    BY <1>1, <1>3, <1>4 DEF Phased, Opened, Closed

LEMMA ShowStep ==
  ASSUME habit = "patient", Patient, ShowDialog PROVE Patient'
  <1> DEFINE p == [Page EXCEPT !.modalOpen = TRUE]
  <1>1. Bound(Page) /\ Phased(Page, isShown) /\ isShown \in BOOLEAN
    BY DEF Patient
  <1>2. /\ Bound(p) /\ p.visible = visible /\ p.made = made /\ p.backdrop = backdrop
        /\ p.onPage = onPage /\ p.modalOpen = TRUE /\ p.handlers = handlers /\ p.awaited = awaited
    BY <1>1, OpenBound, PageFields
  <1>3. isShown' = TRUE /\ animated' = animated
    BY DEF ShowDialog
  <1>4. CASE isShown
    <2>1. Becomes(p)
      BY <1>4 DEF ShowDialog
    <2> HIDE DEF p
    <2>2. Phased(p, TRUE)
      BY <1>1, <1>2, <1>4, PageFields DEF Phased, Opening, Opened, Closing, Closed
    <2> QED
      BY <1>2, <1>3, <2>1, <2>2, PatientBecomes
  <1>5. CASE ~isShown
    <2>0. Becomes(WithBackdrop(p, TRUE, "show"))
      BY <1>5 DEF ShowDialog
    <2>1. made < MaxBackdrops /\ awaited = {}
      BY <1>5 DEF ShowDialog
    <2> HIDE DEF p
    <2>2. Closed(Page, FALSE) /\ \A x \in 1..Dialog : handlers[x] = <<>>
      BY <1>1, <1>5, <2>1, AtRestPhase, PageFields
    <2> DEFINE q == NewBackdrop(p)
               r == Await(q, q.backdrop, "show")
    <2>3. /\ Bound(q) /\ q.visible = visible /\ q.made = made + 1 /\ q.backdrop = made + 1
          /\ q.onPage = onPage \cup {made + 1} /\ q.modalOpen = TRUE
          /\ q.handlers = handlers /\ q.awaited = {}
      BY <1>2, <2>1, NewBound
    <2>4. WithBackdrop(p, TRUE, "show") = IF animated THEN r ELSE Appear(q)
      BY <1>2, <2>3 DEF WithBackdrop, Do
    <2>5. /\ q.backdrop \in 1..Dialog /\ q.backdrop # 0 /\ q.backdrop # Element /\ q.backdrop # Dialog
          /\ q.onPage = {q.backdrop}
      <3>1. q.backdrop \in Backdrops
        BY <1>1, <2>1, <2>3, Numbers, PageFields DEF Bound
      <3> QED
        BY <2>2, <2>3, <3>1, Numbers, PageFields DEF Closed
    <2>6. visible = FALSE
      BY <2>2, PageFields DEF Closed
    <2> HIDE DEF q
    <2>7. CASE animated
      <3>1. "show" \in Callbacks
        BY DEF Callbacks
      <3>2. /\ Bound(r) /\ r.visible = q.visible /\ r.made = q.made /\ r.backdrop = q.backdrop
            /\ r.onPage = q.onPage /\ r.modalOpen = q.modalOpen
            /\ r.handlers[q.backdrop] = <<"show">>
            /\ \A x \in 1..Dialog : x # q.backdrop => r.handlers[x] = q.handlers[x]
        BY <2>2, <2>3, <2>5, <2>7, <3>1, AwaitBound
      <3> HIDE DEF r
      <3>3. r.handlers[Dialog] = <<>> /\ r.handlers[Element] = <<>>
        BY <2>2, <2>3, <2>5, <3>2, Numbers
      <3>4. Opening(r, TRUE)
        BY <2>3, <2>5, <2>6, <3>2, <3>3 DEF Opening
      <3> QED
        BY <1>3, <2>0, <2>4, <2>7, <3>2, <3>4, PatientBecomes DEF Phased
    <2>8. CASE ~animated
      <3>1. q.handlers[q.backdrop] = <<>> /\ q.handlers[Dialog] = <<>> /\ q.handlers[Element] = <<>>
        BY <2>2, <2>3, <2>5, Numbers
      <3>2. Bound(Appear(q)) /\ Opened(Appear(q), TRUE)
        BY <2>3, <2>5, <3>1, AppearStep
      <3> QED
        BY <1>3, <2>0, <2>4, <2>8, <3>2, PatientBecomes DEF Phased
    <2> QED
      BY <2>7, <2>8
  <1> QED
    BY <1>1, <1>4, <1>5

LEMMA HideDialogStep ==
  ASSUME habit = "patient", Patient, HideDialog PROVE Patient'
  <1> DEFINE p == Page
             q == Await(p, Element, "hideModal")
  <1>1. Bound(p) /\ Phased(p, TRUE) /\ isShown = TRUE
    BY DEF Patient, HideDialog
  <1>2. isShown' = FALSE /\ animated' = animated
    BY DEF HideDialog
  <1> HIDE DEF p
  <1>3. /\ p.handlers[Element] = <<>> /\ ~Closing(p, TRUE) /\ ~Closed(p, TRUE)
    BY <1>1 DEF Phased, Opening, Opened, Closing, Closed
  <1>4. CASE animated
    <2>1. "hideModal" \in Callbacks
      BY DEF Callbacks
    <2>2. /\ Bound(q) /\ q.visible = p.visible /\ q.made = p.made /\ q.backdrop = p.backdrop
          /\ q.onPage = p.onPage /\ q.modalOpen = p.modalOpen
          /\ q.handlers[Element] = <<"hideModal">>
          /\ \A x \in 1..Dialog : x # Element => q.handlers[x] = p.handlers[x]
      BY <1>1, <1>3, <1>4, <2>1, AwaitBound, Numbers
    <2>3. Becomes(q)
      BY <1>4 DEF HideDialog, p
    <2> HIDE DEF q
    <2>4. <<"hideModal">> # <<>>
      OBVIOUS
    <2>5. p.backdrop # 0 => q.handlers[p.backdrop] = p.handlers[p.backdrop]
      BY <1>1, <2>2, Numbers DEF Bound
    <2>6. q.handlers[Dialog] = p.handlers[Dialog]
      BY <2>2, Numbers
    <2>7. CASE Opening(p, TRUE)
      <3>1. Opening(q, FALSE)
        BY <2>2, <2>4, <2>5, <2>6, <2>7 DEF Opening
      <3> QED
        BY <1>2, <2>2, <2>3, <3>1, PatientBecomes DEF Phased
    <2>8. CASE Opened(p, TRUE)
      <3>1. Opened(q, FALSE)
        BY <2>2, <2>4, <2>5, <2>8 DEF Opened
      <3> QED
        BY <1>2, <2>2, <2>3, <3>1, PatientBecomes DEF Phased
    <2> QED
      BY <1>1, <1>3, <2>7, <2>8 DEF Phased
  <1>5. CASE ~animated
    <2>1. Becomes(HideModal(p, FALSE))
      BY <1>5 DEF HideDialog, p
    <2>2. ~Opening(p, TRUE)
      <3>1. p.backdrop # 0 => p.backdrop \in 1..Dialog
        BY <1>1, Numbers DEF Bound
      <3>2. <<"show">> # <<>>
        OBVIOUS
      <3> QED
        BY <1>1, <1>5, <3>1, <3>2 DEF Bound, Opening
    <2>3. Opened(p, TRUE)
      BY <1>1, <1>3, <2>2 DEF Phased
    <2>4. Bound(HideModal(p, FALSE)) /\ Phased(HideModal(p, FALSE), FALSE)
      BY <1>1, <1>3, <2>3, HideStep DEF Opened
    <2> QED
      BY <1>2, <2>1, <2>4, PatientBecomes
  <1> QED
    BY <1>4, <1>5

LEMMA OneCallback ==
  ASSUME NEW w PROVE Len(<<w>>) = 1 /\ <<w>>[1] = w /\ <<w>> \o <<>> = <<w>> /\ <<>> \o <<w>> = <<w>>
  OBVIOUS

LEMMA TwoCallbacks ==
  ASSUME NEW w, NEW u
  PROVE  Len(<<w>> \o <<u>>) = 2 /\ (<<w>> \o <<u>>)[1] = w /\ (<<w>> \o <<u>>)[2] = u
  OBVIOUS

LEMMA EndStep ==
  ASSUME habit = "patient", Patient, NEW e \in 1..Dialog, TransitionEnds(e) PROVE Patient'
  <1> DEFINE p == Page
             u == Unbind(p, Hears(e))
             todo == IF e = Dialog THEN handlers[Dialog] \o handlers[Element] ELSE handlers[e]
  <1>1. Bound(p) /\ Phased(p, isShown) /\ isShown \in BOOLEAN
    BY DEF Patient
  <1>2. isShown' = isShown /\ animated' = animated /\ Becomes(RunAll(u, todo))
    BY DEF TransitionEnds, Unbind
  <1>3. /\ Bound(u) /\ u.visible = p.visible /\ u.made = p.made /\ u.backdrop = p.backdrop
        /\ u.onPage = p.onPage /\ u.modalOpen = p.modalOpen
        /\ \A x \in 1..Dialog : x \in Hears(e) => u.handlers[x] = <<>>
        /\ \A x \in 1..Dialog : x \notin Hears(e) => u.handlers[x] = p.handlers[x]
    BY <1>1, UnbindBound
  <1>4. e \in awaited /\ InTime(e)
    BY DEF TransitionEnds
  <1>5. p.handlers = handlers /\ p.awaited = awaited
    BY PageFields
  <1>6. handlers[e] # <<>>
    BY <1>1, <1>4, <1>5 DEF Bound
  <1> HIDE DEF p, u
  <1>7. p.backdrop # 0 => p.backdrop \in Backdrops /\ p.backdrop \in 1..Dialog
    BY <1>1, Numbers DEF Bound
  <1>8. CASE e = p.backdrop
    <2>1. e \in Backdrops /\ e # Dialog /\ e # Element /\ p.backdrop # 0
      BY <1>7, <1>8, Numbers
    <2>2. Hears(e) = {e} /\ todo = handlers[e]
      BY <2>1 DEF Hears
    <2>3. /\ u.handlers[e] = <<>> /\ u.handlers[Dialog] = p.handlers[Dialog]
          /\ u.handlers[Element] = p.handlers[Element]
      BY <1>3, <2>1, <2>2, Numbers
    <2>4. CASE Opening(p, isShown)
      <3>1. handlers[e] = <<"show">>
        BY <1>5, <1>8, <2>4 DEF Opening
      <3>2. RunAll(u, todo) = Run(u, "show")
        BY <2>2, <3>1, RunOne, OneCallback
      <3>3. Run(u, "show") = Appear(u)
        BY DEF Run, Do
      <3>4. Bound(Appear(u)) /\ Opened(Appear(u), isShown)
        BY <1>3, <1>8, <2>1, <2>3, <2>4, AppearStep DEF Opening
      <3> QED
        BY <1>1, <1>2, <3>2, <3>3, <3>4, PatientBecomes DEF Phased
    <2>5. CASE Closing(p, isShown)
      <3>1. handlers[e] = <<"removeBackdrop">> /\ isShown = FALSE
        BY <1>1, <1>5, <1>8, <2>5 DEF Closing
      <3>2. RunAll(u, todo) = Run(u, "removeBackdrop")
        BY <2>2, <3>1, RunOne, OneCallback
      <3>3. Run(u, "removeBackdrop") = Bared(u)
        BY DEF Run, Do
      <3>4. Bound(Bared(u)) /\ Closed(Bared(u), FALSE)
        BY <1>3, <1>8, <2>1, <2>3, <2>5, BareStep DEF Closing
      <3> QED
        BY <1>1, <1>2, <3>1, <3>2, <3>3, <3>4, PatientBecomes DEF Phased
    <2>6. ~Opened(p, isShown) /\ ~Closed(p, isShown)
      BY <1>5, <1>6, <1>8, <2>1 DEF Opened, Closed
    <2> QED
      BY <1>1, <2>4, <2>5, <2>6 DEF Phased
  <1>9. e = p.backdrop \/ e = Dialog \/ e = Element
    BY <1>1, <1>5, <1>6, Numbers DEF Bound
  \* The callback of the element, where it is bound, hides the modal
  <1>10. ASSUME Element \in Hears(e), p.backdrop \notin Hears(e),
                handlers[Element] = <<"hideModal">>, Opened(p, isShown)
         PROVE  isShown = FALSE /\ Bound(HideModal(u, FALSE)) /\ Phased(HideModal(u, FALSE), FALSE)
    <2>1. <<"hideModal">> # <<>>
      OBVIOUS
    <2>2. isShown = FALSE
      BY <1>1, <1>5, <1>10, <2>1 DEF Opened
    <2>3. u.handlers[p.backdrop] = <<>> /\ u.handlers[Element] = <<>>
      BY <1>3, <1>7, <1>10, Numbers DEF Opened
    <2> QED
      BY <1>3, <1>10, <2>2, <2>3, HideStep DEF Opened
  <1>11. CASE e = Element
    <2>1. Hears(e) = {Element} /\ todo = handlers[Element] /\ handlers[Element] = <<"hideModal">>
      BY <1>1, <1>5, <1>6, <1>11, Numbers DEF Hears, Bound
    <2>2. ~Opening(p, isShown)
      BY <1>1, <1>4, <1>5, <1>7, <1>11, Appended DEF InTime, Opening, Bound
    <2>3. Opened(p, isShown)
      BY <1>1, <1>5, <1>6, <1>11, <2>2 DEF Phased, Closing, Closed
    <2>4. p.backdrop \notin Hears(e)
      BY <1>7, <2>1, <2>3, Numbers DEF Opened
    <2>5. isShown = FALSE /\ Bound(HideModal(u, FALSE)) /\ Phased(HideModal(u, FALSE), FALSE)
      BY <1>10, <2>1, <2>3, <2>4
    <2>6. RunAll(u, todo) = Run(u, "hideModal")
      <3>1. todo = <<"hideModal">>
        BY <2>1
      <3>2. Len(todo) = 1 /\ todo[1] = "hideModal"
        BY <3>1, OneCallback, Zenon
      <3> HIDE DEF todo
      <3> QED
        BY <3>2, RunOne
    <2>7. Run(u, "hideModal") = HideModal(u, FALSE)
      BY <2>5 DEF Run
    <2> QED
      BY <1>2, <2>5, <2>6, <2>7, PatientBecomes
  <1>12. CASE e = Dialog
    <2>1. /\ Hears(e) = {Dialog, Element} /\ todo = handlers[Dialog] \o handlers[Element]
          /\ handlers[Dialog] = <<"shown">>
      BY <1>1, <1>5, <1>6, <1>12, Numbers DEF Hears, Bound
    <2>2. Run(u, "shown") = u
      BY DEF Run, Do
    <2>3. ~Opening(p, isShown)
      BY <1>5, <1>6, <1>12 DEF Opening
    <2>4. p.backdrop # 0 => p.backdrop \notin Hears(e) /\ u.handlers[p.backdrop] = p.handlers[p.backdrop]
      BY <1>3, <1>7, <2>1, Numbers
    <2>5. u.handlers[Element] = <<>>
      BY <1>3, <2>1, Numbers
    <2>6. CASE handlers[Element] = <<>>
      <3>1. RunAll(u, todo) = u
        BY <2>1, <2>2, <2>6, RunOne, OneCallback
      <3>2. Phased(u, isShown)
        BY <1>1, <1>3, <1>5, <2>3, <2>4, <2>5, <2>6 DEF Phased, Opened, Closing, Closed
      <3> QED
        BY <1>1, <1>2, <1>3, <3>1, <3>2, PatientBecomes
    <2>7. CASE handlers[Element] = <<"hideModal">>
      <3>0. handlers[Element] # <<>>
        BY <2>7, Appended
      <3>1. Opened(p, isShown)
        BY <1>1, <1>5, <2>3, <3>0 DEF Phased, Closing, Closed
      <3>2. isShown = FALSE /\ Bound(HideModal(u, FALSE)) /\ Phased(HideModal(u, FALSE), FALSE)
        BY <1>10, <1>12, <2>1, <2>4, <2>7, <3>1 DEF Opened
      <3>3. RunAll(u, todo) = Run(Run(u, "shown"), "hideModal")
        <4>1. todo = <<"shown">> \o <<"hideModal">>
          BY <2>1, <2>7
        <4> HIDE DEF todo
        <4>2. Len(todo) = 2 /\ todo[1] = "shown" /\ todo[2] = "hideModal"
          BY <4>1, TwoCallbacks
        <4> QED
          BY <4>2, RunTwo
      <3>4. Run(u, "hideModal") = HideModal(u, FALSE)
        BY <3>2 DEF Run
      <3> QED
        BY <1>2, <2>2, <3>2, <3>3, <3>4, PatientBecomes
    <2> QED
      BY <1>1, <1>5, <2>6, <2>7 DEF Bound
  <1> QED
    BY <1>8, <1>9, <1>11, <1>12

LEMMA PatientInit == ASSUME ModalInit PROVE Patient
  <1>1. handlers \in [1..Dialog -> Seq(Callbacks)] /\ \A x \in 1..Dialog : handlers[x] = <<>>
    <2>1. <<>> \in Seq(Callbacks)
      OBVIOUS
    <2> QED
      BY <2>1 DEF ModalInit
  <1>2. Page \in Pages
    BY <1>1 DEF ModalInit, Page, Pages
  <1>3. 0 \in 0..MaxBackdrops
    BY ModalBounds
  <1>4. Bound(Page)
    BY <1>1, <1>2, <1>3, PageFields, Numbers DEF ModalInit, Bound
  <1>5. Closed(Page, FALSE)
    BY <1>1, PageFields, Numbers DEF ModalInit, Closed
  <1> QED
    BY <1>4, <1>5 DEF Patient, Phased, ModalInit

(* Lines 871-1018: for any number of openings and closings, by a user who  *)
(* closes as early as can be, the dialog that is at rest is on the screen, *)
(* under one backdrop and with the page locked, exactly if it is open.     *)
THEOREM SettledDialogHolds == ModalSpec => []SettledDialog
  <1>1. ModalInit => Patient
    BY PatientInit
  <1>2. Patient /\ [ModalNext]_modalVars => Patient'
    <2> SUFFICES ASSUME Patient, [ModalNext]_modalVars PROVE Patient'
      OBVIOUS
    <2>1. habit' = habit
      BY DEF ModalNext, ShowDialog, HideDialog, TransitionEnds, modalVars
    <2>2. CASE habit # "patient"
      BY <2>1, <2>2 DEF Patient
    <2>3. CASE habit = "patient" /\ ModalNext
      BY <2>3, ShowStep, HideDialogStep, EndStep DEF ModalNext
    <2>4. CASE habit = "patient" /\ UNCHANGED modalVars
      <3>1. Page' = Page /\ isShown' = isShown /\ animated' = animated
        BY <2>4 DEF modalVars, Page
      <3> QED
        BY <2>4, <3>1 DEF Patient, Bound, Phased, Opening, Opened, Closing, Closed
    <2> QED
      BY <2>2, <2>3, <2>4
  <1>3. Patient => SettledDialog
    <2> SUFFICES ASSUME Patient, habit = "patient", awaited = {}
                 PROVE  /\ visible = isShown /\ modalOpen = isShown
                        /\ onPage = (IF isShown THEN {backdrop} ELSE {}) /\ (backdrop # 0) = isShown
      BY DEF SettledDialog
    <2>1. /\ isShown \in BOOLEAN
          /\ isShown => Opened(Page, TRUE)
          /\ ~isShown => Closed(Page, FALSE)
      BY AtRestPhase DEF Patient
    <2> QED
      BY <2>1, PageFields DEF Opened, Closed
  <1> QED
    BY <1>1, <1>2, <1>3, PTL DEF ModalSpec

(***************************************************************************)
(* TableSearch: Keep is a recursive function of the index.  There is one   *)
(* and only one; the lemmas say what it does to an empty sequence and to a *)
(* longer one, and all else follows by induction on the length.  Search is *)
(* exact for three reasons: keeping twice is keeping what is in both sets, *)
(* so that a narrowed search and a deleted row commute with the search of  *)
(* all rows; what says a search says every beginning of it; and the cache  *)
(* is a front of the display, which is all that a lost entry leaves.       *)
(***************************************************************************)
LEMMA LeastNat ==
  ASSUME NEW T, T \subseteq Nat, T # {}
  PROVE  \E n \in T : \A m \in T : n <= m
  <1>1. PICK x \in T : \A y \in T : ~(<<y, x>> \in OpToRel(<, Nat))
    BY NatLessThanWellFounded, WFMin, Zenon
  <1>2. ASSUME NEW y \in T PROVE x <= y
    <2>1. x \in Nat /\ y \in Nat
      OBVIOUS
    <2>2. ~(y < x)
      BY <1>1, <2>1 DEF OpToRel
    <2> QED
      BY <2>1, <2>2
  <1> QED
    BY <1>2

\* What a recursive function that defines Keep is
UpTo(f, s, K, n) ==
  f = [i \in 0..n |-> IF i = 0 THEN <<>>
                      ELSE IF s[i] \in K THEN Append(f[i - 1], s[i]) ELSE f[i - 1]]

LEMMA UpToExists ==
  ASSUME NEW s, NEW K, NEW n \in Nat
  PROVE  \E f : UpTo(f, s, K, n)
  <1> DEFINE P(m) == \E f : UpTo(f, s, K, m)
             Bad == {m \in Nat : ~P(m)}
  <1> SUFFICES ASSUME Bad # {} PROVE FALSE
    OBVIOUS
  <1>1. PICK m \in Bad : \A k \in Bad : m <= k
    <2>1. Bad \subseteq Nat
      OBVIOUS
    <2> QED
      BY <2>1, LeastNat
  <1>2. m \in Nat /\ ~P(m)
    OBVIOUS
  <1>3. P(0)
    <2> DEFINE e == [i \in 0..0 |-> <<>>]
    <2>1. UpTo(e, s, K, 0)
      BY DEF UpTo
    <2> QED
      BY <2>1
  <1>4. m # 0
    BY <1>2, <1>3, Zenon
  <1>5. m - 1 \in Nat /\ ~(m <= m - 1)
    BY <1>2, <1>4
  <1>6. P(m - 1)
    <2>1. m - 1 \notin Bad
      BY <1>1, <1>5, Zenon
    <2> QED
      BY <2>1, <1>5
  <1>7. PICK f : UpTo(f, s, K, m - 1)
    BY <1>6
  <1> DEFINE F(h, i) == IF i = 0 THEN <<>>
                        ELSE IF s[i] \in K THEN Append(h[i - 1], s[i]) ELSE h[i - 1]
             g == [i \in 0..m |-> F(f, i)]
  <1>8. ASSUME NEW i \in 0..m PROVE F(f, i) = F(g, i)
    <2>1. CASE i = 0
      BY <2>1
    <2>2. CASE i # 0
      <3>1. i - 1 \in 0..(m - 1) /\ i - 1 \in 0..m
        BY <2>2, <1>2
      <3>2. f[i - 1] = F(f, i - 1)
        BY <1>7, <3>1 DEF UpTo
      <3>3. g[i - 1] = F(f, i - 1)
        BY <3>1
      <3> QED
        BY <3>2, <3>3
    <2> QED
      BY <2>1, <2>2
  <1>9. UpTo(g, s, K, m)
    <2>1. g = [i \in 0..m |-> F(g, i)]
      <3> DEFINE G == [i \in 0..m |-> F(g, i)]
      <3>1. \A i \in 0..m : g[i] = F(f, i) /\ G[i] = F(g, i)
        OBVIOUS
      <3>2. \A i \in 0..m : g[i] = G[i]
        BY <3>1, <1>8
      <3>3. g = [i \in 0..m |-> g[i]] /\ G = [i \in 0..m |-> G[i]]
        OBVIOUS
      <3> HIDE DEF g, G
      <3>4. g = G
        BY <3>2, <3>3
      <3> QED
        BY <3>4 DEF G
    <2> QED
      BY <2>1 DEF UpTo
  <1> QED
    BY <1>2, <1>9

Alike(s, t, n) == \A i \in 1..n : s[i] = t[i]

\* The functions agree as far as the sequences do
LEMMA UpToAgree ==
  ASSUME NEW s, NEW t, NEW K, NEW n \in Nat, NEW m \in Nat, NEW f, NEW g,
         n <= m, Alike(s, t, n), UpTo(f, s, K, n), UpTo(g, t, K, m)
  PROVE  \A i \in 0..n : f[i] = g[i]
  <1> DEFINE Bad == {i \in 0..n : f[i] # g[i]}
  <1> SUFFICES ASSUME Bad # {} PROVE FALSE
    OBVIOUS
  <1>1. PICK i \in Bad : \A k \in Bad : i <= k
    <2>1. Bad \subseteq Nat
      OBVIOUS
    <2> QED
      BY <2>1, LeastNat
  <1>2. i \in 0..n /\ i \in 0..m /\ f[i] # g[i]
    OBVIOUS
  <1>3. /\ f[i] = IF i = 0 THEN <<>> ELSE IF s[i] \in K THEN Append(f[i - 1], s[i]) ELSE f[i - 1]
        /\ g[i] = IF i = 0 THEN <<>> ELSE IF t[i] \in K THEN Append(g[i - 1], t[i]) ELSE g[i - 1]
    BY <1>2 DEF UpTo
  <1>4. i # 0 => f[i - 1] = g[i - 1] /\ s[i] = t[i]
    <2>1. i # 0 => i - 1 \in 0..n /\ ~(i <= i - 1) /\ i \in 1..n
      BY <1>2
    <2> QED
      BY <1>1, <2>1 DEF Alike
  <1> QED
    BY <1>2, <1>3, <1>4

LEMMA UpToAt ==
  ASSUME NEW f, NEW s, NEW K, NEW n, UpTo(f, s, K, n), NEW i \in 0..n
  PROVE  f[i] = IF i = 0 THEN <<>> ELSE IF s[i] \in K THEN Append(f[i - 1], s[i]) ELSE f[i - 1]
  BY DEF UpTo

LEMMA KeepIs ==
  ASSUME NEW s, NEW K, Len(s) \in Nat
  PROVE  \E f : UpTo(f, s, K, Len(s)) /\ Keep(s, K) = f[Len(s)]
  <1> DEFINE h == CHOOSE f : UpTo(f, s, K, Len(s))
  <1>1. UpTo(h, s, K, Len(s))
    BY UpToExists
  <1>2. Keep(s, K) = h[Len(s)]
    BY DEF Keep, UpTo
  <1> QED
    BY <1>1, <1>2

LEMMA KeepNone ==
  ASSUME NEW K
  PROVE  Keep(<<>>, K) = <<>>
  <1>1. Len(<<>>) = 0
    OBVIOUS
  <1>2. PICK f : UpTo(f, <<>>, K, 0) /\ Keep(<<>>, K) = f[0]
    BY <1>1, KeepIs
  <1> QED
    BY <1>2 DEF UpTo

LEMMA KeepGrown ==
  ASSUME NEW s, NEW t, NEW K, NEW n \in Nat, NEW m \in Nat, m = n + 1, Len(s) = n, Len(t) = m,
         Alike(s, t, n)
  PROVE  Keep(t, K) = IF t[m] \in K THEN Append(Keep(s, K), t[m]) ELSE Keep(s, K)
  <1>1. PICK f : UpTo(f, s, K, n) /\ Keep(s, K) = f[n]
    BY KeepIs
  <1>2. PICK g : UpTo(g, t, K, m) /\ Keep(t, K) = g[m]
    BY KeepIs
  <1>3. n <= m /\ n \in 0..n /\ m \in 0..m /\ m # 0 /\ m - 1 = n
    OBVIOUS
  <1>4. \A i \in 0..n : f[i] = g[i]
    BY <1>1, <1>2, <1>3, UpToAgree
  <1>5. g[m] = IF m = 0 THEN <<>> ELSE IF t[m] \in K THEN Append(g[m - 1], t[m]) ELSE g[m - 1]
    BY <1>2, <1>3, UpToAt
  <1> QED
    BY <1>1, <1>2, <1>3, <1>4, <1>5

LEMMA KeepAppend ==
  ASSUME NEW S, NEW s \in Seq(S), NEW x \in S, NEW K
  PROVE  Keep(Append(s, x), K) = IF x \in K THEN Append(Keep(s, K), x) ELSE Keep(s, K)
  <1> SUFFICES ASSUME NEW t, t = Append(s, x), NEW n, n = Len(s), NEW m, m = n + 1
               PROVE  Keep(t, K) = IF x \in K THEN Append(Keep(s, K), x) ELSE Keep(s, K)
    OBVIOUS
  <1>1. n \in Nat /\ m \in Nat /\ Len(t) = m /\ t[m] = x /\ Alike(s, t, n)
    BY DEF Alike
  <1>2. Keep(t, K) = IF t[m] \in K THEN Append(Keep(s, K), t[m]) ELSE Keep(s, K)
    BY <1>1, KeepGrown, Zenon
  <1> QED
    BY <1>1, <1>2

\* Induction on the length, for a set of sequences
LEMMA AppendInduction ==
  ASSUME NEW S, NEW T, <<>> \in T,
         \A s \in Seq(S) : s \in T => \A x \in S : Append(s, x) \in T
  PROVE  Seq(S) \subseteq T
  <1> DEFINE Bad == {n \in Nat : \E s \in Seq(S) : s \notin T /\ Len(s) = n}
  <1> SUFFICES ASSUME NEW s0 \in Seq(S), s0 \notin T PROVE FALSE
    OBVIOUS
  <1>1. Len(s0) \in Bad
    OBVIOUS
  <1>2. PICK n \in Bad : \A k \in Bad : n <= k
    <2>1. Bad \subseteq Nat /\ Bad # {}
      BY <1>1
    <2> QED
      BY <2>1, LeastNat
  <1>3. PICK s \in Seq(S) : s \notin T /\ Len(s) = n
    OBVIOUS
  <1>4. n \in Nat /\ n # 0
    <2>1. n \in Nat
      OBVIOUS
    <2>2. n = 0 => s = <<>>
      BY <1>3
    <2> QED
      BY <1>3, <2>1, <2>2
  <1> DEFINE p == [i \in 1..(n - 1) |-> s[i]]
  <1>5. p \in Seq(S) /\ Len(p) = n - 1 /\ s[n] \in S /\ s = Append(p, s[n])
    BY <1>3, <1>4
  <1> HIDE DEF p
  <1>6. n - 1 \in Nat /\ ~(n <= n - 1)
    BY <1>4
  <1>7. n - 1 \notin Bad
    BY <1>2, <1>6, Zenon
  <1>8. p \in T
    BY <1>5, <1>6, <1>7
  <1> QED
    BY <1>3, <1>5, <1>8

LEMMA DomainFact ==
  ASSUME NEW S, NEW q \in Seq(S)
  PROVE  DOMAIN q = 1..Len(q)
  OBVIOUS

LEMMA SetOfSequence ==
  ASSUME NEW S, NEW q \in Seq(S)
  PROVE  ToSet(q) = {q[i] : i \in 1..Len(q)} /\ ToSet(q) \subseteq S
  <1>1. ToSet(q) = {q[i] : i \in 1..Len(q)}
    BY DomainFact DEF ToSet
  <1> QED
    BY <1>1, LenFacts

LEMMA InjectiveSequence ==
  ASSUME NEW S, NEW q \in Seq(S)
  PROVE  IsInjective(q) <=> \A i, j \in 1..Len(q) : q[i] = q[j] => i = j
  BY DomainFact DEF IsInjective

LEMMA GrownSet ==
  ASSUME NEW S, NEW q \in Seq(S), NEW t \in Seq(S), Len(t) = Len(q) + 1, Alike(q, t, Len(q))
  PROVE  /\ ToSet(t) = ToSet(q) \cup {t[Len(t)]}
         /\ IsInjective(t) <=> IsInjective(q) /\ t[Len(t)] \notin ToSet(q)
  <1> DEFINE n == Len(q)
             m == Len(t)
  <1>1. n \in Nat /\ m \in Nat /\ 1..m = 1..n \cup {m} /\ m \notin 1..n
    OBVIOUS
  <1>2. ToSet(t) = {t[i] : i \in 1..m} /\ ToSet(q) = {q[i] : i \in 1..n}
    BY SetOfSequence
  <1>0. \A i \in 1..n : t[i] = q[i]
    BY DEF Alike
  <1>4. IsInjective(t) <=> \A i, j \in 1..m : t[i] = t[j] => i = j
    BY InjectiveSequence
  <1>5. IsInjective(q) <=> \A i, j \in 1..n : q[i] = q[j] => i = j
    BY InjectiveSequence
  <1> HIDE DEF n, m
  <1>3. ToSet(t) = ToSet(q) \cup {t[m]}
    BY <1>0, <1>1, <1>2
  <1>8. m \in 1..m /\ \A i \in 1..m : i # m => i \in 1..n
    BY <1>1
  <1>6. ASSUME IsInjective(t) PROVE IsInjective(q) /\ t[m] \notin ToSet(q)
    <2>1. \A i, j \in 1..m : t[i] = t[j] => i = j
      BY <1>4, <1>6
    <2>2. \A i, j \in 1..n : q[i] = q[j] => i = j
      BY <1>0, <1>1, <2>1
    <2>3. \A i \in 1..n : t[m] # q[i]
      BY <1>0, <1>1, <1>8, <2>1
    <2> QED
      BY <1>2, <1>5, <2>2, <2>3
  <1>7. ASSUME IsInjective(q), t[m] \notin ToSet(q) PROVE IsInjective(t)
    <2>1. \A i, j \in 1..n : q[i] = q[j] => i = j
      BY <1>5, <1>7
    <2>2. \A i \in 1..n : t[m] # q[i]
      BY <1>2, <1>7
    <2>3. \A i, j \in 1..m : t[i] = t[j] => i = j
      BY <1>0, <1>8, <2>1, <2>2
    <2> QED
      BY <1>4, <2>3
  <1> QED
    BY <1>3, <1>6, <1>7 DEF m

LEMMA AppendSet ==
  ASSUME NEW S, NEW q \in Seq(S), NEW x \in S
  PROVE  /\ ToSet(Append(q, x)) = ToSet(q) \cup {x}
         /\ IsInjective(Append(q, x)) <=> IsInjective(q) /\ x \notin ToSet(q)
  <1>1. /\ Append(q, x) \in Seq(S) /\ Len(Append(q, x)) = Len(q) + 1 /\ Append(q, x)[Len(q) + 1] = x
        /\ Alike(q, Append(q, x), Len(q))
    BY AppendFacts DEF Alike
  <1>2. /\ ToSet(Append(q, x)) = ToSet(q) \cup {Append(q, x)[Len(Append(q, x))]}
        /\ IsInjective(Append(q, x)) <=> IsInjective(q) /\ Append(q, x)[Len(Append(q, x))] \notin ToSet(q)
    BY <1>1, GrownSet, Zenon
  <1> QED
    BY <1>1, <1>2, Zenon

LEMMA EmptySet ==
  ASSUME NEW S
  PROVE  <<>> \in Seq(S) /\ Len(<<>>) = 0 /\ ToSet(<<>>) = {} /\ IsInjective(<<>>)
  <1>1. <<>> \in Seq(S) /\ Len(<<>>) = 0
    OBVIOUS
  <1> QED
    <2>1. ToSet(<<>>) = {}
      <3>1. ToSet(<<>>) = {<<>>[i] : i \in 1..Len(<<>>)}
        BY <1>1, SetOfSequence, Zenon
      <3> QED
        BY <3>1
    <2>2. IsInjective(<<>>)
      BY DEF IsInjective
    <2> QED
      BY <1>1, <2>1, <2>2

LEMMA KeepType ==
  ASSUME NEW S, NEW K, NEW q \in Seq(S)
  PROVE  /\ Keep(q, K) \in Seq(S) /\ ToSet(Keep(q, K)) = ToSet(q) \cap K
         /\ IsInjective(q) => IsInjective(Keep(q, K))
  <1> DEFINE T == {s \in Seq(S) : /\ Keep(s, K) \in Seq(S) /\ ToSet(Keep(s, K)) = ToSet(s) \cap K
                                  /\ IsInjective(s) => IsInjective(Keep(s, K))}
  <1>1. <<>> \in T
    BY EmptySet, KeepNone
  <1>2. ASSUME NEW s \in Seq(S), s \in T, NEW x \in S PROVE Append(s, x) \in T
    <2>1. Append(s, x) \in Seq(S)
      BY AppendFacts
    <2>2. Keep(Append(s, x), K) = IF x \in K THEN Append(Keep(s, K), x) ELSE Keep(s, K)
      BY KeepAppend
    <2>3. /\ Keep(s, K) \in Seq(S) /\ ToSet(Keep(s, K)) = ToSet(s) \cap K
          /\ IsInjective(s) => IsInjective(Keep(s, K))
      BY <1>2
    <2>4. /\ ToSet(Append(s, x)) = ToSet(s) \cup {x}
          /\ IsInjective(Append(s, x)) <=> IsInjective(s) /\ x \notin ToSet(s)
      BY AppendSet
    <2>5. /\ ToSet(Append(Keep(s, K), x)) = ToSet(Keep(s, K)) \cup {x}
          /\ IsInjective(Append(Keep(s, K), x)) <=> IsInjective(Keep(s, K)) /\ x \notin ToSet(Keep(s, K))
          /\ Append(Keep(s, K), x) \in Seq(S)
      BY <2>3, AppendSet, AppendFacts
    <2> HIDE DEF T
    <2>6. CASE x \in K
      <3>1. Keep(Append(s, x), K) \in Seq(S)
        BY <2>2, <2>5, <2>6
      <3>2. ToSet(Keep(Append(s, x), K)) = ToSet(Append(s, x)) \cap K
        BY <2>2, <2>3, <2>4, <2>5, <2>6, Zenon
      <3>3. IsInjective(Append(s, x)) => IsInjective(Keep(Append(s, x), K))
        BY <2>2, <2>3, <2>4, <2>5, <2>6, Zenon
      <3> QED
        BY <2>1, <3>1, <3>2, <3>3 DEF T
    <2>7. CASE x \notin K
      <3>1. Keep(Append(s, x), K) \in Seq(S)
        BY <2>2, <2>3, <2>7
      <3>2. ToSet(Keep(Append(s, x), K)) = ToSet(Append(s, x)) \cap K
        BY <2>2, <2>3, <2>4, <2>7, Zenon
      <3>3. IsInjective(Append(s, x)) => IsInjective(Keep(Append(s, x), K))
        BY <2>2, <2>3, <2>4, <2>7, Zenon
      <3> QED
        BY <2>1, <3>1, <3>2, <3>3 DEF T
    <2> QED
      BY <2>6, <2>7
  <1> HIDE DEF T
  <1>3. Seq(S) \subseteq T
    BY <1>1, <1>2, AppendInduction
  <1> QED
    BY <1>3 DEF T

\* Keeping twice is keeping what is in both sets
LEMMA KeepKeep ==
  ASSUME NEW S, NEW K, NEW L, NEW q \in Seq(S)
  PROVE  Keep(Keep(q, K), L) = Keep(q, K \cap L)
  <1> DEFINE T == {s \in Seq(S) : Keep(Keep(s, K), L) = Keep(s, K \cap L)}
  <1>1. <<>> \in T
    BY EmptySet, KeepNone
  <1>2. ASSUME NEW s \in Seq(S), s \in T, NEW x \in S PROVE Append(s, x) \in T
    <2>1. Append(s, x) \in Seq(S) /\ Keep(s, K) \in Seq(S)
      BY AppendFacts, KeepType
    <2>2. Keep(Append(s, x), K) = IF x \in K THEN Append(Keep(s, K), x) ELSE Keep(s, K)
      BY KeepAppend
    <2>3. Keep(Append(s, x), K \cap L) = IF x \in K \cap L THEN Append(Keep(s, K \cap L), x) ELSE Keep(s, K \cap L)
      BY KeepAppend
    <2>4. Keep(Append(Keep(s, K), x), L) = IF x \in L THEN Append(Keep(Keep(s, K), L), x) ELSE Keep(Keep(s, K), L)
      BY <2>1, KeepAppend
    <2>5. Keep(Keep(s, K), L) = Keep(s, K \cap L)
      BY <1>2
    <2>6. Keep(Keep(Append(s, x), K), L) = Keep(Append(s, x), K \cap L)
      <3>1. CASE x \in K /\ x \in L
        BY <2>2, <2>3, <2>4, <2>5, <3>1, Zenon
      <3>2. CASE x \in K /\ x \notin L
        BY <2>2, <2>3, <2>4, <2>5, <3>2, Zenon
      <3>3. CASE x \notin K
        BY <2>2, <2>3, <2>5, <3>3, Zenon
      <3> QED
        BY <3>1, <3>2, <3>3
    <2> QED
      BY <2>1, <2>6
  <1> HIDE DEF T
  <1>3. Seq(S) \subseteq T
    BY <1>1, <1>2, AppendInduction
  <1> QED
    BY <1>3 DEF T

LEMMA KeepEvery ==
  ASSUME NEW S, NEW K, NEW q \in Seq(S), ToSet(q) \subseteq K
  PROVE  Keep(q, K) = q
  <1> DEFINE T == {s \in Seq(S) : ToSet(s) \subseteq K => Keep(s, K) = s}
  <1>1. <<>> \in T
    BY EmptySet, KeepNone
  <1>2. ASSUME NEW s \in Seq(S), s \in T, NEW x \in S PROVE Append(s, x) \in T
    <2>1. Append(s, x) \in Seq(S) /\ ToSet(Append(s, x)) = ToSet(s) \cup {x}
      BY AppendFacts, AppendSet
    <2>2. Keep(Append(s, x), K) = IF x \in K THEN Append(Keep(s, K), x) ELSE Keep(s, K)
      BY KeepAppend
    <2>3. ToSet(s) \subseteq K => Keep(s, K) = s
      BY <1>2
    <2>4. ToSet(Append(s, x)) \subseteq K => Keep(Append(s, x), K) = Append(s, x)
      BY <2>1, <2>2, <2>3, Zenon
    <2> QED
      BY <2>1, <2>4
  <1> HIDE DEF T
  <1>3. Seq(S) \subseteq T
    BY <1>1, <1>2, AppendInduction
  <1> QED
    BY <1>3 DEF T

\* The entries of a sequence at given places, as Refined takes them
Picked(q, at) == [k \in 1..Len(at) |-> q[at[k]]]
Places(n) == [i \in 1..n |-> i]

LEMMA PlacesFacts ==
  ASSUME NEW n \in Nat
  PROVE  /\ Places(n) \in Seq(1..n) /\ Len(Places(n)) = n /\ ToSet(Places(n)) = 1..n
         /\ IsInjective(Places(n)) /\ Places(n + 1) = Append(Places(n), n + 1)
  <1>1. Places(n) \in Seq(1..n) /\ Len(Places(n)) = n
    BY DEF Places
  <1>2. ToSet(Places(n)) = 1..n
    BY DEF Places, ToSet
  <1>3. IsInjective(Places(n))
    BY DEF Places, IsInjective
  <1>4. Places(n + 1) = Append(Places(n), n + 1)
    BY DEF Places
  <1> QED
    BY <1>1, <1>2, <1>3, <1>4

LEMMA PickedFacts ==
  ASSUME NEW S, NEW q \in Seq(S), NEW at \in Seq(1..Len(q))
  PROVE  /\ Picked(q, at) \in Seq(S) /\ Len(Picked(q, at)) = Len(at)
         /\ \A k \in 1..Len(at) : Picked(q, at)[k] = q[at[k]]
         /\ ToSet(Picked(q, at)) = {q[i] : i \in ToSet(at)}
         /\ IsInjective(q) /\ IsInjective(at) => IsInjective(Picked(q, at))
  <1>1. /\ Len(at) \in Nat /\ \A k \in 1..Len(at) : at[k] \in 1..Len(q) /\ q[at[k]] \in S
    OBVIOUS
  <1>2. /\ Picked(q, at) \in Seq(S) /\ Len(Picked(q, at)) = Len(at)
        /\ \A k \in 1..Len(at) : Picked(q, at)[k] = q[at[k]]
    BY <1>1 DEF Picked
  <1>3. ToSet(Picked(q, at)) = {Picked(q, at)[k] : k \in 1..Len(at)}
    BY <1>2, SetOfSequence
  <1>4. ToSet(at) = {at[k] : k \in 1..Len(at)}
    BY SetOfSequence
  <1>5. ToSet(Picked(q, at)) = {q[i] : i \in ToSet(at)}
    BY <1>2, <1>3, <1>4
  <1>6. ASSUME IsInjective(q), IsInjective(at) PROVE IsInjective(Picked(q, at))
    <2>1. \A i, j \in 1..Len(q) : q[i] = q[j] => i = j
      BY <1>6, InjectiveSequence
    <2>2. \A i, j \in 1..Len(at) : at[i] = at[j] => i = j
      BY <1>6, InjectiveSequence
    <2>3. \A i, j \in 1..Len(at) : Picked(q, at)[i] = Picked(q, at)[j] => i = j
      BY <1>1, <1>2, <2>1, <2>2
    <2> QED
      BY <1>2, <2>3, InjectiveSequence
  <1> QED
    BY <1>2, <1>5, <1>6

LEMMA PickedAppend ==
  ASSUME NEW S, NEW q \in Seq(S), NEW x \in S, NEW at \in Seq(1..Len(q))
  PROVE  /\ Picked(Append(q, x), at) = Picked(q, at)
         /\ Picked(Append(q, x), Append(at, Len(q) + 1)) = Append(Picked(q, at), x)
  <1>1. /\ Len(at) \in Nat /\ Len(q) \in Nat /\ \A k \in 1..Len(at) : at[k] \in 1..Len(q)
    OBVIOUS
  <1>2. Picked(Append(q, x), at) = Picked(q, at)
    BY <1>1 DEF Picked
  <1>3. Picked(Append(q, x), Append(at, Len(q) + 1)) = Append(Picked(q, at), x)
    BY <1>1 DEF Picked
  <1> QED
    BY <1>2, <1>3

\* Keeping places and taking what is there is keeping what is there
LEMMA KeepPlaces ==
  ASSUME NEW S, NEW K, NEW q \in Seq(S), NEW J,
         \A i \in 1..Len(q) : i \in J <=> q[i] \in K
  PROVE  Picked(q, Keep(Places(Len(q)), J)) = Keep(q, K)
  <1> DEFINE Right(s) == \A i \in 1..Len(s) : i \in J <=> s[i] \in K
             T == {s \in Seq(S) : Right(s) => Picked(s, Keep(Places(Len(s)), J)) = Keep(s, K)}
  <1>1. <<>> \in T
    <2>1. Len(Keep(Places(0), J)) = 0
      <3>1. Places(0) = <<>>
        BY DEF Places
      <3> QED
        BY <3>1, KeepNone, EmptySet
    <2>2. Picked(<<>>, Keep(Places(0), J)) = <<>>
      BY <2>1 DEF Picked
    <2> QED
      BY <2>2, EmptySet, KeepNone
  <1>2. ASSUME NEW s \in Seq(S), s \in T, NEW x \in S PROVE Append(s, x) \in T
    <2> DEFINE n == Len(s)
               m == n + 1
               t == Append(s, x)
               old == Keep(Places(n), J)
    <2>1. /\ t \in Seq(S) /\ Len(t) = m /\ t[m] = x /\ n \in Nat /\ m \in 1..m /\ n + 1 = m
          /\ \A i \in 1..n : t[i] = s[i] /\ i \in 1..m
      OBVIOUS
    <2>2. Keep(t, K) = IF x \in K THEN Append(Keep(s, K), x) ELSE Keep(s, K)
      BY KeepAppend
    <2>3. /\ Places(n) \in Seq(1..n) /\ Places(m) = Append(Places(n), m)
      BY <2>1, PlacesFacts
    <2>4. old \in Seq(1..n)
      BY <2>3, KeepType
    <2>5. Keep(Places(m), J) = IF m \in J THEN Append(old, m) ELSE old
      <3>1. Places(n) \in Seq(Nat) /\ m \in Nat
        BY <2>1, <2>3
      <3> HIDE DEF n, m, t
      <3>2. Keep(Append(Places(n), m), J) = IF m \in J THEN Append(Keep(Places(n), J), m) ELSE Keep(Places(n), J)
        BY <3>1, KeepAppend, Zenon
      <3> QED
        BY <2>3, <3>2, Zenon DEF old
    <2>6. Picked(t, old) = Picked(s, old) /\ Picked(t, Append(old, m)) = Append(Picked(s, old), x)
      BY <2>4, PickedAppend
    <2>7. Right(s) => Picked(s, old) = Keep(s, K)
      BY <1>2
    <2> HIDE DEF n, m, t, old, T
    <2>8. ASSUME Right(t) PROVE Picked(t, Keep(Places(m), J)) = Keep(t, K)
      <3>1. Right(s) /\ (m \in J <=> x \in K)
        BY <2>1, <2>8 DEF n
      <3> HIDE DEF Right
      <3>2. CASE m \in J
        BY <2>2, <2>5, <2>6, <2>7, <3>1, <3>2, Zenon
      <3>3. CASE m \notin J
        BY <2>2, <2>5, <2>6, <2>7, <3>1, <3>3, Zenon
      <3> QED
        BY <3>2, <3>3
    <2>9. t \in T
      BY <2>1, <2>8 DEF T
    <2> QED
      BY <2>9 DEF t
  <1> HIDE DEF T
  <1>3. Seq(S) \subseteq T
    BY <1>1, <1>2, AppendInduction
  <1> QED
    BY <1>3 DEF T

\* Taking out one entry is keeping all others
LEMMA ConcatFacts ==
  ASSUME NEW S, NEW p \in Seq(S), NEW q \in Seq(S)
  PROVE  /\ p \o q \in Seq(S) /\ Len(p \o q) = Len(p) + Len(q)
         /\ \A k \in 1..(Len(p) + Len(q)) : (p \o q)[k] = IF k <= Len(p) THEN p[k] ELSE q[k - Len(p)]
  OBVIOUS

LEMMA RemoveFacts ==
  ASSUME NEW S, NEW q \in Seq(S), NEW i \in 1..Len(q)
  PROVE  /\ RemoveAt(q, i) \in Seq(S) /\ Len(RemoveAt(q, i)) = Len(q) - 1
         /\ \A k \in 1..(Len(q) - 1) : RemoveAt(q, i)[k] = IF k < i THEN q[k] ELSE q[k + 1]
  <1> DEFINE a == SubSeq(q, 1, i - 1)
             b == SubSeq(q, i + 1, Len(q))
  <1>1. a \in Seq(S) /\ Len(a) = i - 1 /\ \A k \in 1..(i - 1) : a[k] = q[k]
    OBVIOUS
  <1>2. b \in Seq(S) /\ Len(b) = Len(q) - i /\ \A k \in 1..(Len(q) - i) : b[k] = q[k + i]
    OBVIOUS
  <1>3. RemoveAt(q, i) = a \o b
    BY DEF RemoveAt
  <1> HIDE DEF a, b
  <1>4. /\ a \o b \in Seq(S) /\ Len(a \o b) = Len(q) - 1
        /\ \A k \in 1..(Len(q) - 1) : (a \o b)[k] = IF k < i THEN a[k] ELSE b[k - i + 1]
    <2>1. /\ a \o b \in Seq(S) /\ Len(a \o b) = Len(a) + Len(b)
          /\ \A k \in 1..(Len(a) + Len(b)) : (a \o b)[k] = IF k <= Len(a) THEN a[k] ELSE b[k - Len(a)]
      BY <1>1, <1>2, ConcatFacts
    <2>2. Len(a) + Len(b) = Len(q) - 1 /\ Len(q) \in Nat
      BY <1>1, <1>2
    <2>3. \A k \in 1..(Len(q) - 1) : (k <= Len(a) <=> k < i) /\ k - Len(a) = k - i + 1
      BY <1>1
    <2> QED
      BY <2>1, <2>2, <2>3
  <1>5. \A k \in 1..(Len(q) - 1) : k >= i => k - i + 1 \in 1..(Len(q) - i) /\ k - i + 1 + i = k + 1
    OBVIOUS
  <1>6. \A k \in 1..(Len(q) - 1) : (a \o b)[k] = IF k < i THEN q[k] ELSE q[k + 1]
    BY <1>1, <1>2, <1>4, <1>5
  <1> QED
    BY <1>3, <1>4, <1>6

LEMMA SameSequence ==
  ASSUME NEW S, NEW p \in Seq(S), NEW q \in Seq(S), Len(p) = Len(q),
         \A k \in 1..Len(p) : p[k] = q[k]
  PROVE  p = q
  OBVIOUS

LEMMA RemoveLast ==
  ASSUME NEW S, NEW q \in Seq(S), NEW x \in S
  PROVE  RemoveAt(Append(q, x), Len(q) + 1) = q
  <1> DEFINE t == Append(q, x)
             r == RemoveAt(t, Len(q) + 1)
  <1>1. t \in Seq(S) /\ Len(t) = Len(q) + 1 /\ Len(q) \in Nat /\ \A k \in 1..Len(q) : t[k] = q[k]
    OBVIOUS
  <1>2. Len(q) + 1 \in 1..Len(t) /\ Len(t) - 1 = Len(q) /\ \A k \in 1..Len(q) : k < Len(q) + 1
    BY <1>1
  <1> HIDE DEF t
  <1>3. /\ r \in Seq(S) /\ Len(r) = Len(t) - 1
        /\ \A k \in 1..(Len(t) - 1) : r[k] = IF k < Len(q) + 1 THEN t[k] ELSE t[k + 1]
    BY <1>1, <1>2, RemoveFacts
  <1> HIDE DEF r
  <1>4. r = q
    BY <1>1, <1>2, <1>3, SameSequence
  <1> QED
    BY <1>4 DEF r, t

LEMMA RemoveEarlier ==
  ASSUME NEW S, NEW q \in Seq(S), NEW x \in S, NEW i \in 1..Len(q)
  PROVE  RemoveAt(Append(q, x), i) = Append(RemoveAt(q, i), x)
  <1> DEFINE t == Append(q, x)
             r == RemoveAt(t, i)
             p == RemoveAt(q, i)
             u == Append(p, x)
             n == Len(q)
  <1>1. n \in Nat /\ i \in 1..n /\ t \in Seq(S) /\ Len(t) = n + 1 /\ t[n + 1] = x /\ \A k \in 1..n : t[k] = q[k]
    OBVIOUS
  <1>2. p \in Seq(S) /\ Len(p) = n - 1 /\ \A k \in 1..(n - 1) : p[k] = IF k < i THEN q[k] ELSE q[k + 1]
    BY RemoveFacts
  <1> HIDE DEF t, n
  <1>3. /\ r \in Seq(S) /\ Len(r) = n /\ \A k \in 1..n : r[k] = IF k < i THEN t[k] ELSE t[k + 1]
    <2>1. i \in 1..Len(t) /\ Len(t) - 1 = n
      BY <1>1
    <2>2. /\ r \in Seq(S) /\ Len(r) = Len(t) - 1
          /\ \A k \in 1..(Len(t) - 1) : r[k] = IF k < i THEN t[k] ELSE t[k + 1]
      BY <1>1, <2>1, RemoveFacts
    <2> QED
      BY <2>1, <2>2
  <1> HIDE DEF p, r
  <1>4. u \in Seq(S) /\ Len(u) = n /\ u[n] = x /\ \A k \in 1..(n - 1) : u[k] = p[k]
    BY <1>1, <1>2
  <1> HIDE DEF u
  <1>5. \A k \in 1..n : r[k] = u[k]
    <2> SUFFICES ASSUME NEW k \in 1..n PROVE r[k] = u[k]
      OBVIOUS
    <2>1. CASE k = n
      BY <1>1, <1>3, <1>4, <2>1
    <2>2. CASE k # n
      <3>1. k \in 1..(n - 1) /\ k + 1 \in 1..n
        BY <1>1, <2>2
      <3> QED
        BY <1>1, <1>2, <1>3, <1>4, <3>1
    <2> QED
      BY <2>1, <2>2
  <1>6. r = u
    BY <1>3, <1>4, <1>5, SameSequence
  <1> QED
    BY <1>6 DEF r, u, t, p

LEMMA RemoveKeeps ==
  ASSUME NEW S, NEW q \in Seq(S), IsInjective(q), NEW i \in 1..Len(q)
  PROVE  RemoveAt(q, i) = Keep(q, S \ {q[i]})
  <1> DEFINE Right(s) == \A k \in 1..Len(s) : RemoveAt(s, k) = Keep(s, S \ {s[k]})
             T == {s \in Seq(S) : IsInjective(s) => Right(s)}
  <1>1. <<>> \in T
    <2>1. Right(<<>>)
      BY EmptySet
    <2> QED
      BY <2>1, EmptySet
  <1>2. ASSUME NEW s \in Seq(S), s \in T, NEW x \in S PROVE Append(s, x) \in T
    <2> DEFINE t == Append(s, x)
    <2>1. t \in Seq(S) /\ Len(t) = Len(s) + 1 /\ t[Len(s) + 1] = x /\ \A k \in 1..Len(s) : t[k] = s[k]
      BY AppendFacts
    <2>2. IsInjective(t) => IsInjective(s) /\ x \notin ToSet(s)
      BY AppendSet
    <2>3. ASSUME IsInjective(t), NEW k \in 1..Len(t) PROVE RemoveAt(t, k) = Keep(t, S \ {t[k]})
      <3>1. IsInjective(s) /\ x \notin ToSet(s) /\ Right(s)
        BY <1>2, <2>2, <2>3
      <3>2. \A K : Keep(t, K) = IF x \in K THEN Append(Keep(s, K), x) ELSE Keep(s, K)
        BY KeepAppend
      <3>3. ToSet(s) \subseteq S /\ \A j \in 1..Len(s) : s[j] \in ToSet(s)
        BY SetOfSequence
      <3> HIDE DEF Right
      <3>4. CASE k = Len(s) + 1
        <4>1. RemoveAt(t, k) = s
          BY <3>4, RemoveLast
        <4>2. ToSet(s) \subseteq S \ {x}
          BY <3>1, <3>3
        <4>3. Keep(s, S \ {x}) = s
          BY <4>2, KeepEvery
        <4>4. t[k] = x
          BY <2>1, <3>4
        <4> HIDE DEF t
        <4>5. Keep(t, S \ {x}) = Keep(s, S \ {x})
          BY <3>2
        <4> QED
          BY <4>1, <4>3, <4>4, <4>5
      <3>5. CASE k # Len(s) + 1
        <4>1. k \in 1..Len(s)
          BY <2>1, <2>3, <3>5, LenFacts
        <4>2. t[k] = s[k] /\ x # s[k] /\ x \in S \ {s[k]}
          BY <2>1, <3>1, <3>3, <4>1
        <4>3. RemoveAt(t, k) = Append(RemoveAt(s, k), x)
          BY <4>1, RemoveEarlier
        <4>4. RemoveAt(s, k) = Keep(s, S \ {s[k]})
          BY <3>1, <4>1 DEF Right
        <4> HIDE DEF t
        <4>5. Keep(t, S \ {s[k]}) = Append(Keep(s, S \ {s[k]}), x)
          BY <3>2, <4>2
        <4> QED
          BY <4>2, <4>3, <4>4, <4>5
      <3> QED
        BY <3>4, <3>5
    <2> HIDE DEF t
    <2>4. t \in T
      BY <2>1, <2>3
    <2> QED
      BY <2>4 DEF t
  <1> HIDE DEF T
  <1>3. Seq(S) \subseteq T
    BY <1>1, <1>2, AppendInduction
  <1> QED
    BY <1>3 DEF T

\* The cache is the front of what is displayed, as far as it goes
CacheInFront ==
  /\ Len(cache) <= Len(display)
  /\ \A i \in 1..Len(cache) : cache[i] = display[i]

\* Inductive: until an entry was lost the cache is the display
SearchInv ==
  /\ SearchTypeOK /\ CacheInFront /\ SearchExact
  /\ ~spoilt => cache = display

LEMMA TextFacts ==
  ASSUME NEW s \in Texts
  PROVE  s \in Seq(Letters) /\ Len(s) \in Nat
  <1>1. PICK n \in 0..MaxText : s \in [1..n -> Letters]
    BY DEF Texts
  <1>2. n \in Nat
    BY SearchBounds
  <1> QED
    BY <1>1, <1>2

LEMMA PrefixFacts ==
  ASSUME NEW p \in Seq(Letters), NEW s \in Seq(Letters), IsPrefix(p, s)
  PROVE  Len(p) <= Len(s) /\ \A k \in 1..Len(p) : p[k] = s[k]
  <1>1. Len(p) <= Len(s) /\ SubSeq(p, 1, Len(p)) = SubSeq(s, 1, Len(p))
    BY DEF IsPrefix
  <1>2. \A k \in 1..Len(p) : SubSeq(p, 1, Len(p))[k] = p[k] /\ SubSeq(s, 1, Len(p))[k] = s[k]
    BY <1>1
  <1> QED
    BY <1>1, <1>2

LEMMA PartFacts ==
  ASSUME NEW q \in Seq(Letters), NEW i \in Nat \ {0}, NEW n \in Nat, i + n <= Len(q) + 1
  PROVE  /\ SubSeq(q, i, i + n - 1) \in Seq(Letters) /\ Len(SubSeq(q, i, i + n - 1)) = n
         /\ \A k \in 1..n : SubSeq(q, i, i + n - 1)[k] = q[i + k - 1]
  OBVIOUS

\* What says a search says its beginnings
LEMMA SaysLess ==
  ASSUME NEW r \in Rows, text[r] \in Seq(Letters), NEW p \in Seq(Letters), NEW s \in Seq(Letters),
         IsPrefix(p, s), Says(r, s)
  PROVE  Says(r, p)
  <1> DEFINE q == text[r]
             m == Len(p)
             n == Len(s)
  <1>1. PICK i \in 1..(Len(q) - n + 1) : SubSeq(q, i, i + n - 1) = s
    BY DEF Says
  <1>2. m \in Nat /\ n \in Nat /\ Len(q) \in Nat /\ m <= n /\ \A k \in 1..m : p[k] = s[k]
    BY PrefixFacts
  <1>3. i \in Nat \ {0} /\ i + n <= Len(q) + 1 /\ i + m <= Len(q) + 1 /\ i \in 1..(Len(q) - m + 1)
    BY <1>2
  <1>4. \A k \in 1..n : s[k] = q[i + k - 1]
    <2>1. \A k \in 1..n : SubSeq(q, i, i + n - 1)[k] = q[i + k - 1]
      BY <1>2, <1>3, PartFacts
    <2> QED
      BY <1>1, <2>1
  <1>5. /\ SubSeq(q, i, i + m - 1) \in Seq(Letters) /\ Len(SubSeq(q, i, i + m - 1)) = m
        /\ \A k \in 1..m : SubSeq(q, i, i + m - 1)[k] = q[i + k - 1]
    BY <1>2, <1>3, PartFacts
  <1>6. \A k \in 1..m : SubSeq(q, i, i + m - 1)[k] = p[k]
    <2> SUFFICES ASSUME NEW k \in 1..m PROVE SubSeq(q, i, i + m - 1)[k] = p[k]
      OBVIOUS
    <2>1. k \in 1..n
      BY <1>2
    <2>2. s[k] = q[i + k - 1] /\ p[k] = s[k]
      BY <1>2, <1>4, <2>1
    <2>3. SubSeq(q, i, i + m - 1)[k] = q[i + k - 1]
      BY <1>5
    <2> QED
      BY <2>2, <2>3, Zenon
  <1>7. SubSeq(q, i, i + m - 1) = p
    BY <1>5, <1>6, SameSequence
  <1> QED
    BY <1>3, <1>7 DEF Says

LEMMA SaysNothing ==
  ASSUME NEW r \in Rows, text[r] \in Seq(Letters)
  PROVE  Says(r, <<>>)
  <1>1. 1 \in 1..(Len(text[r]) - 0 + 1) /\ SubSeq(text[r], 1, 1 + 0 - 1) = <<>>
    OBVIOUS
  <1> QED
    BY <1>1, EmptySet DEF Says

LEMMA NarrowSaying ==
  ASSUME SearchTypeOK, NEW s \in Texts, IsPrefix(typed, s)
  PROVE  Saying(s) \subseteq Saying(typed)
  <1> SUFFICES ASSUME NEW r \in Saying(s) PROVE r \in Saying(typed)
    OBVIOUS
  <1>1. r \in Rows /\ Says(r, s)
    BY DEF Saying
  <1>2. text[r] \in Texts /\ typed \in Texts
    BY <1>1 DEF SearchTypeOK
  <1>3. text[r] \in Seq(Letters) /\ typed \in Seq(Letters) /\ s \in Seq(Letters)
    BY <1>2, TextFacts
  <1>4. Says(r, typed)
    BY <1>1, <1>3, SaysLess
  <1> QED
    BY <1>1, <1>4 DEF Saying

LEMMA MatchingFacts ==
  ASSUME NEW q \in Seq(Rows), NEW s
  PROVE  /\ Matching(q, s) \in Seq(Rows) /\ ToSet(Matching(q, s)) = ToSet(q) \cap Saying(s)
         /\ IsInjective(q) => IsInjective(Matching(q, s))
  BY KeepType DEF Matching

LEMMA RefinedFacts ==
  ASSUME SearchInv, NEW s \in Texts, IsPrefix(typed, s)
  PROVE  /\ Refined(s) \in Seq(Rows) /\ IsInjective(Refined(s))
         /\ ToSet(Matching(master, s)) \subseteq ToSet(Refined(s))
         /\ ~spoilt => Refined(s) = Matching(master, s)
  <1> DEFINE J == {i \in 1..Len(display) : i <= Len(cache) => Says(cache[i], s)}
             at == Keep(Places(Len(display)), J)
  <1>1. /\ master \in Seq(Rows) /\ display \in Seq(Rows) /\ cache \in Seq(Rows)
        /\ IsInjective(display)
    BY DEF SearchInv, SearchTypeOK
  <1>2. Refined(s) = Picked(display, at)
    BY DEF Refined, Picked, Places
  <1>3. Saying(s) \subseteq Saying(typed)
    BY NarrowSaying DEF SearchInv
  <1>4. Len(display) \in Nat
    BY <1>1
  <1>5. /\ Places(Len(display)) \in Seq(1..Len(display)) /\ IsInjective(Places(Len(display)))
        /\ ToSet(Places(Len(display))) = 1..Len(display)
    BY <1>4, PlacesFacts
  <1>6. /\ at \in Seq(1..Len(display)) /\ IsInjective(at) /\ ToSet(at) = (1..Len(display)) \cap J
    BY <1>5, KeepType
  <1>7. /\ Picked(display, at) \in Seq(Rows) /\ IsInjective(Picked(display, at))
        /\ ToSet(Picked(display, at)) = {display[i] : i \in ToSet(at)}
    <2>1. display \in Seq(Rows) /\ at \in Seq(1..Len(display)) /\ IsInjective(display) /\ IsInjective(at)
      BY <1>1, <1>6
    <2> HIDE DEF at
    <2> QED
      BY <2>1, PickedFacts
  <1>8. ToSet(Matching(master, s)) \subseteq ToSet(Refined(s))
    <2> SUFFICES ASSUME NEW r \in ToSet(Matching(master, s)) PROVE r \in ToSet(Refined(s))
      OBVIOUS
    <2>1. r \in ToSet(master) /\ r \in Saying(s) /\ r \in Saying(typed)
      BY <1>1, <1>3, MatchingFacts
    <2>2. r \in ToSet(display)
      BY <1>1, <2>1, MatchingFacts DEF SearchInv, SearchExact
    <2>3. PICK i \in 1..Len(display) : display[i] = r
      BY <1>1, <2>2, SetOfSequence
    <2>4. i <= Len(cache) => cache[i] = r
      BY <1>1, <1>4, <2>3 DEF SearchInv, CacheInFront
    <2>5. i \in J
      BY <2>1, <2>4 DEF Saying
    <2> HIDE DEF J
    <2>6. i \in ToSet(at)
      BY <1>6, <2>5
    <2> HIDE DEF at
    <2> QED
      BY <1>2, <1>7, <2>3, <2>6
  <1>9. ASSUME ~spoilt PROVE Refined(s) = Matching(master, s)
    <2>1. cache = display /\ display = Matching(master, typed)
      BY <1>9 DEF SearchInv, SearchExact
    <2>2. \A i \in 1..Len(display) : i \in J <=> display[i] \in Saying(s)
      <3> SUFFICES ASSUME NEW i \in 1..Len(display) PROVE i \in J <=> display[i] \in Saying(s)
        OBVIOUS
      <3>1. display[i] \in Rows /\ i <= Len(display)
        BY <1>1, <1>4
      <3> QED
        BY <2>1, <3>1 DEF Saying
    <2> HIDE DEF J
    <2>3. Picked(display, at) = Keep(display, Saying(s))
      BY <1>1, <2>2, KeepPlaces
    <2>4. Keep(display, Saying(s)) = Keep(master, Saying(typed) \cap Saying(s))
      BY <1>1, <2>1, KeepKeep DEF Matching
    <2>5. Saying(typed) \cap Saying(s) = Saying(s)
      BY <1>3
    <2> QED
      BY <1>2, <2>3, <2>4, <2>5 DEF Matching
  <1> QED
    BY <1>2, <1>7, <1>8, <1>9

LEMMA SetToSeqFacts ==
  /\ SetToSeq(Rows) \in Seq(Rows) /\ IsInjective(SetToSeq(Rows))
  <1>1. Cardinality(Rows) \in Nat /\ ExistsBijection(1..Cardinality(Rows), Rows)
    BY SearchBounds, FS_CardinalityType
  <1>2. \E f \in [1..Cardinality(Rows) -> Rows] : IsInjective(f)
    BY <1>1 DEF ExistsBijection, Bijection, Injection
  <1>3. SetToSeq(Rows) \in [1..Cardinality(Rows) -> Rows] /\ IsInjective(SetToSeq(Rows))
    BY <1>2, Zenon DEF SetToSeq
  <1> QED
    BY <1>1, <1>3

LEMMA SearchStart == SearchInit => SearchInv
  <1> SUFFICES ASSUME SearchInit PROVE SearchInv
    OBVIOUS
  <1>1. /\ text \in [Rows -> [1..MaxText -> Letters]] /\ master = SetToSeq(Rows)
        /\ display = master /\ cache = master /\ typed = <<>> /\ spoilt = FALSE
    BY DEF SearchInit
  <1>2. master \in Seq(Rows) /\ IsInjective(master)
    BY <1>1, SetToSeqFacts
  <1>3. MaxText \in 0..MaxText /\ 0 \in 0..MaxText
    BY SearchBounds
  <1>4. [1..MaxText -> Letters] \subseteq Texts
    BY <1>3 DEF Texts
  <1>5. <<>> \in Texts
    <2>1. <<>> \in [1..0 -> Letters]
      OBVIOUS
    <2> QED
      BY <1>3, <2>1 DEF Texts
  <1>6. SearchTypeOK
    BY <1>1, <1>2, <1>4, <1>5 DEF SearchTypeOK
  <1>7. Rows \subseteq Saying(typed)
    <2> SUFFICES ASSUME NEW r \in Rows PROVE r \in Saying(typed)
      OBVIOUS
    <2>1. text[r] \in Texts
      BY <1>6 DEF SearchTypeOK
    <2>2. Says(r, <<>>)
      BY <2>1, TextFacts, SaysNothing
    <2> QED
      BY <1>1, <2>2 DEF Saying
  <1>8. Matching(master, typed) = master
    <2>1. ToSet(master) \subseteq Saying(typed)
      BY <1>2, <1>7, SetOfSequence
    <2> QED
      BY <1>2, <2>1, KeepEvery DEF Matching
  <1>9. CacheInFront
    BY <1>1, <1>2 DEF CacheInFront
  <1> QED
    BY <1>1, <1>6, <1>8, <1>9 DEF SearchInv, SearchExact

LEMMA SearchAgainKeeps ==
  ASSUME SearchInv, NEW s \in Texts, NEW force \in BOOLEAN, SearchAgain(s, force),
         force \/ master' = master, master' \in Seq(Rows), IsInjective(master')
  PROVE  SearchInv'
  <1>1. /\ typed' = s /\ cache' = display' /\ text' = text
        /\ display' = IF Narrows(s) /\ ~force THEN Refined(s) ELSE Rebuilt(s)
        /\ spoilt' = (spoilt /\ Narrows(s) /\ ~force)
    BY DEF SearchAgain
  <1>2. Matching(master, typed)' = Matching(master', s)
    BY <1>1 DEF Matching, Saying, Says
  <1>3. spoilt \in BOOLEAN /\ text \in [Rows -> Texts]
    BY DEF SearchInv, SearchTypeOK
  <1>4. /\ display' \in Seq(Rows) /\ IsInjective(display')
        /\ ToSet(Matching(master', s)) \subseteq ToSet(display')
        /\ ~spoilt' => display' = Matching(master', s)
    <2>1. CASE Narrows(s) /\ ~force
      <3>1. display' = Refined(s) /\ master' = master /\ spoilt' = spoilt
        BY <1>1, <1>3, <2>1
      <3>2. IsPrefix(typed, s)
        BY <2>1 DEF Narrows
      <3>3. /\ Refined(s) \in Seq(Rows) /\ IsInjective(Refined(s))
            /\ ToSet(Matching(master, s)) \subseteq ToSet(Refined(s))
            /\ ~spoilt => Refined(s) = Matching(master, s)
        BY <3>2, RefinedFacts
      <3> QED
        BY <3>1, <3>3
    <2>2. CASE ~(Narrows(s) /\ ~force)
      <3>1. display' = Matching(master', s)
        BY <1>1, <2>2 DEF Rebuilt
      <3>2. Matching(master', s) \in Seq(Rows) /\ IsInjective(Matching(master', s))
        BY MatchingFacts
      <3> QED
        BY <3>1, <3>2
    <2> QED
      BY <2>1, <2>2
  <1>5. SearchTypeOK'
    BY <1>1, <1>3, <1>4 DEF SearchTypeOK
  <1>6. CacheInFront'
    BY <1>1, <1>4 DEF CacheInFront
  <1> QED
    BY <1>1, <1>2, <1>4, <1>5, <1>6 DEF SearchInv, SearchExact

\* One and the same entry taken out of a sequence and of its front
LEMMA FrontRemoved ==
  ASSUME NEW a \in Nat, NEW b \in Nat, a <= b, NEW i \in 1..a, NEW c, NEW d, NEW e, NEW f,
         \A k \in 1..a : c[k] = d[k],
         \A k \in 1..(a - 1) : e[k] = IF k < i THEN c[k] ELSE c[k + 1],
         \A k \in 1..(b - 1) : f[k] = IF k < i THEN d[k] ELSE d[k + 1]
  PROVE  a - 1 <= b - 1 /\ \A k \in 1..(a - 1) : e[k] = f[k]
  OBVIOUS

LEMMA DropRowKeeps ==
  ASSUME SearchInv, DropRow
  PROVE  SearchInv'
  <1>1. /\ master \in Seq(Rows) /\ display \in Seq(Rows) /\ cache \in Seq(Rows)
        /\ IsInjective(master) /\ IsInjective(display) /\ IsInjective(cache)
        /\ spoilt \in BOOLEAN /\ text \in [Rows -> Texts] /\ typed \in Texts
    BY DEF SearchInv, SearchTypeOK
  <1>2. PICK r \in ToSet(master) :
          LET without(s) == Keep(s, Rows \ {r})
              seen  == r \in ToSet(display)
              index == IF seen THEN CHOOSE i \in 1..Len(display) : display[i] = r ELSE Len(cache)
          IN  /\ master' = without(master) /\ display' = without(display)
              /\ cache' = IF index \in 1..Len(cache) THEN RemoveAt(cache, index) ELSE cache
              /\ spoilt' = (spoilt \/ (~seen /\ cache # <<>>))
              /\ UNCHANGED <<text, typed>>
    BY DEF DropRow
  <1> DEFINE here  == r \in ToSet(display)
             index == IF here THEN CHOOSE i \in 1..Len(display) : display[i] = r ELSE Len(cache)
  <1>3. /\ master' = Keep(master, Rows \ {r}) /\ display' = Keep(display, Rows \ {r})
        /\ cache' = IF index \in 1..Len(cache) THEN RemoveAt(cache, index) ELSE cache
        /\ spoilt' = (spoilt \/ (~here /\ cache # <<>>))
        /\ text' = text /\ typed' = typed
    BY <1>2
  <1>4. here => index \in 1..Len(display) /\ display[index] = r
    <2> SUFFICES ASSUME here PROVE index \in 1..Len(display) /\ display[index] = r
      OBVIOUS
    <2>1. \E i \in 1..Len(display) : display[i] = r
      BY <1>1, SetOfSequence
    <2> QED
      BY <2>1
  <1>5. ~here => index = Len(cache)
    OBVIOUS
  <1> HIDE DEF index
  <1>6. /\ Len(display) \in Nat /\ Len(cache) \in Nat /\ Len(cache) <= Len(display)
        /\ \A i \in 1..Len(cache) : cache[i] = display[i]
    BY <1>1 DEF SearchInv, CacheInFront
  <1>7. here => display' = RemoveAt(display, index)
    BY <1>1, <1>3, <1>4, RemoveKeeps
  <1>8. ~here => display' = display
    <2> SUFFICES ASSUME ~here PROVE display' = display
      OBVIOUS
    <2>1. ToSet(display) \subseteq Rows \ {r}
      BY <1>1, SetOfSequence
    <2> QED
      BY <1>1, <1>3, <2>1, KeepEvery
  <1>9. /\ master' \in Seq(Rows) /\ IsInjective(master') /\ display' \in Seq(Rows) /\ IsInjective(display')
        /\ ToSet(master') = ToSet(master) \cap (Rows \ {r})
        /\ ToSet(display') = ToSet(display) \cap (Rows \ {r})
    BY <1>1, <1>3, KeepType
  <1>10. cache' \in Seq(Rows) /\ IsInjective(cache')
    <2>1. CASE index \in 1..Len(cache)
      <3>1. cache' = RemoveAt(cache, index)
        BY <1>3, <2>1
      <3>2. RemoveAt(cache, index) = Keep(cache, Rows \ {cache[index]})
        BY <1>1, <2>1, RemoveKeeps
      <3> QED
        BY <1>1, <3>1, <3>2, KeepType
    <2>2. CASE index \notin 1..Len(cache)
      BY <1>1, <1>3, <2>2
    <2> QED
      BY <2>1, <2>2
  <1>11. SearchTypeOK'
    BY <1>1, <1>3, <1>9, <1>10 DEF SearchTypeOK
  <1>12. CacheInFront'
    <2>1. CASE index \in 1..Len(cache)
      <3>1. /\ cache' = RemoveAt(cache, index) /\ Len(cache') = Len(cache) - 1
            /\ \A k \in 1..(Len(cache) - 1) : cache'[k] = IF k < index THEN cache[k] ELSE cache[k + 1]
        <4>1. cache' = RemoveAt(cache, index)
          BY <1>3, <2>1
        <4> QED
          BY <1>1, <2>1, <4>1, RemoveFacts
      <3>2. CASE here
        <4>1. /\ Len(display') = Len(display) - 1
              /\ \A k \in 1..(Len(display) - 1) : display'[k] = IF k < index THEN display[k] ELSE display[k + 1]
          BY <1>1, <1>4, <1>7, <3>2, RemoveFacts
        <4>2. Len(cache) - 1 <= Len(display) - 1 /\ \A k \in 1..(Len(cache) - 1) : cache'[k] = display'[k]
          BY <1>6, <2>1, <3>1, <4>1, FrontRemoved
        <4> QED
          BY <3>1, <4>1, <4>2 DEF CacheInFront
      <3>3. CASE ~here
        BY <1>5, <1>6, <1>8, <2>1, <3>1, <3>3 DEF CacheInFront
      <3> QED
        BY <3>2, <3>3
    <2>2. CASE index \notin 1..Len(cache)
      <3>1. cache' = cache
        BY <1>3, <2>2
      <3>2. CASE here
        <4>1. /\ Len(display') = Len(display) - 1
              /\ \A k \in 1..(Len(display) - 1) : display'[k] = IF k < index THEN display[k] ELSE display[k + 1]
          BY <1>1, <1>4, <1>7, <3>2, RemoveFacts
        <4>2. index > Len(cache) /\ Len(cache) <= Len(display) - 1 /\ index \in 1..Len(display)
          BY <1>4, <1>6, <2>2, <3>2
        <4> QED
          BY <1>6, <3>1, <4>1, <4>2 DEF CacheInFront
      <3>3. CASE ~here
        BY <1>6, <1>8, <3>1, <3>3 DEF CacheInFront
      <3> QED
        BY <3>2, <3>3
    <2> QED
      BY <2>1, <2>2
  <1>13. Matching(master, typed)' = Matching(master', typed)
    BY <1>3 DEF Matching, Saying, Says
  <1>14. ToSet(Matching(master', typed)) \subseteq ToSet(display')
    <2>1. ToSet(Matching(master', typed)) = ToSet(master') \cap Saying(typed)
      BY <1>9, MatchingFacts
    <2>2. ToSet(Matching(master, typed)) = ToSet(master) \cap Saying(typed)
      BY <1>1, MatchingFacts
    <2>3. ToSet(Matching(master, typed)) \subseteq ToSet(display)
      BY DEF SearchInv, SearchExact
    <2> QED
      BY <1>9, <2>1, <2>2, <2>3
  <1>15. ~spoilt' => cache' = display' /\ display' = Matching(master', typed)
    <2> SUFFICES ASSUME ~spoilt' PROVE cache' = display' /\ display' = Matching(master', typed)
      OBVIOUS
    <2>1. ~spoilt /\ (here \/ cache = <<>>)
      BY <1>1, <1>3
    <2>2. cache = display /\ display = Matching(master, typed)
      BY <2>1 DEF SearchInv, SearchExact
    <2>3. cache' = display'
      <3>1. CASE here
        BY <1>3, <1>4, <1>7, <2>2, <3>1
      <3>2. CASE ~here
        BY <1>3, <1>5, <1>8, <2>1, <2>2, <3>2, EmptySet
      <3> QED
        BY <3>1, <3>2
    <2>4. display' = Keep(master, Saying(typed) \cap (Rows \ {r}))
      BY <1>1, <1>3, <2>2, KeepKeep DEF Matching
    <2>5. Matching(master', typed) = Keep(master, (Rows \ {r}) \cap Saying(typed))
      BY <1>1, <1>3, KeepKeep DEF Matching
    <2>6. Saying(typed) \cap (Rows \ {r}) = (Rows \ {r}) \cap Saying(typed)
      OBVIOUS
    <2> QED
      BY <2>3, <2>4, <2>5, <2>6
  <1> QED
    BY <1>3, <1>11, <1>12, <1>13, <1>14, <1>15 DEF SearchInv, SearchExact

LEMMA SearchStep == SearchInv /\ [SearchNext]_searchVars => SearchInv'
  <1> SUFFICES ASSUME SearchInv, [SearchNext]_searchVars PROVE SearchInv'
    OBVIOUS
  <1>1. master \in Seq(Rows) /\ IsInjective(master) /\ typed \in Texts
    BY DEF SearchInv, SearchTypeOK
  <1>2. CASE Type
    <2>1. PICK s \in Texts \ {typed} : master' = master /\ SearchAgain(s, FALSE)
      BY <1>2 DEF Type
    <2> QED
      BY <1>1, <2>1, SearchAgainKeeps
  <1>3. CASE AddRow
    <2>1. PICK r \in Rows \ ToSet(master) : master' = Append(master, r) /\ SearchAgain(typed, TRUE)
      BY <1>3 DEF AddRow
    <2>2. master' \in Seq(Rows) /\ IsInjective(master')
      BY <1>1, <2>1, AppendFacts, AppendSet
    <2> QED
      BY <1>1, <2>1, <2>2, SearchAgainKeeps
  <1>4. CASE DropRow
    BY <1>4, DropRowKeeps
  <1>5. CASE UNCHANGED searchVars
    BY <1>5 DEF searchVars, SearchInv, SearchTypeOK, CacheInFront, SearchExact, Matching, Saying, Says
  <1> QED
    BY <1>2, <1>3, <1>4, <1>5 DEF SearchNext

\* TableSearch: the variables keep their types through every keystroke and redraw
THEOREM SearchTypeCorrect == SearchSpec => []SearchTypeOK
  <1>1. SearchInv => SearchTypeOK
    BY DEF SearchInv
  <1> QED
    BY <1>1, SearchStart, SearchStep, PTL DEF SearchSpec

(* However the search is narrowed, widened and taken back, and whichever   *)
(* rows are deleted between: no row that says what was typed is lost, and  *)
(* before a deletion spoils the cache the table shows exactly those rows.  *)
THEOREM SearchFindsAll == SearchSpec => []SearchExact
  <1>1. SearchInv => SearchExact
    BY DEF SearchInv
  <1> QED
    BY <1>1, SearchStart, SearchStep, PTL DEF SearchSpec

-----------------------------------------------------------------------------
(***************************************************************************)
(* Deferred: it is a Promise.  The invariant names the phases of a         *)
(* settlement - undecided, a side that has called k of its three built-in  *)
(* callbacks, decided - and says of each what the lists hold and who has   *)
(* been called; of the list "progress" it says that whoever the loop has   *)
(* yet to call knows less than its memory, and that what waits is newer.   *)
(***************************************************************************)
Frame == [of : Lists, at : {"loop", "body"}, data : 1..(MaxNews + 1)]
BuiltIns == <<BuiltIn("setState"), BuiltIn("disableOther"), BuiltIn("lockProgress")>>

\* The entries of a list that the loop has passed, the one being called included
Passed(l) == cbs[l].firingIndex + IF l \in Firing THEN 0 ELSE 1

\* All that were ever registered with a side
Full(cb, g) ==
  /\ Len(cb.list) = g + 3
  /\ \A i \in 1..3 : cb.list[i] = BuiltIns[i]
  /\ \A i \in 1..g : cb.list[i + 3] = User(i)

Fresh(cb, g, c) ==
  /\ cb.on /\ ~cb.fired /\ ~cb.firing /\ ~cb.repeat /\ cb.memory = 0 /\ cb.stack = <<>>
  /\ cb.firingStart = 0 /\ Full(cb, g) /\ c = <<>>

\* A side that is being settled, and whose loop has called k of its built-in callbacks
Underway(cb, g, c, k) ==
  /\ cb.on /\ cb.fired /\ cb.firing /\ ~cb.repeat /\ cb.memory # 0 /\ cb.stack = <<>>
  /\ cb.firingStart = 0 /\ Full(cb, g) /\ c = <<>>
  /\ cb.firingIndex = k /\ cb.firingLength = g + 3

\* The users' callbacks beyond the first n entries of a list are the last of the g registered ones
Rest(cb, g, n) ==
  /\ cb.firingLength = Len(cb.list) /\ n <= Len(cb.list)
  /\ \A i \in (n + 1)..Len(cb.list) : cb.list[i] = User(g - Len(cb.list) + i)

\* The side that was settled on: who has not been called yet is still to be called
Chosen(cb, g, c, n) ==
  /\ cb.on /\ cb.fired /\ ~cb.repeat /\ cb.memory # 0 /\ cb.stack = <<>> /\ cb.firingStart = 0
  /\ cb.firing => Rest(cb, g, n) /\ Len(c) + Len(cb.list) = g + n
  /\ ~cb.firing => cb.list = <<>> /\ Len(c) = g
  /\ \A i \in 1..Len(c) : c[i] = i

Off(cb, c) == ~cb.on /\ ~cb.firing /\ c = <<>>

\* The list "progress": its entries are the last registered ones, none knows more than its memory
Known(cb, g, h) ==
  /\ Len(cb.list) <= g
  /\ \A i \in 1..Len(cb.list) : cb.list[i] = User(g - Len(cb.list) + i)
  /\ \A i \in 1..MaxAdds : h[i] <= cb.memory

\* What its loop tells is news to the entries beyond the first n
Due(cb, g, n, h) ==
  /\ cb.firingLength = Len(cb.list) /\ n <= Len(cb.list)
  /\ \A i \in (n + 1)..Len(cb.list) : h[g - Len(cb.list) + i] < cb.memory

\* What waits is newer than its memory, and in order
InLine(cb, last) ==
  /\ \A i \in 1..Len(cb.stack) : cb.memory < cb.stack[i] /\ cb.stack[i] <= last
  /\ \A i, j \in 1..Len(cb.stack) : i < j => cb.stack[i] < cb.stack[j]
  /\ ~cb.firing \/ ~cb.repeat => cb.stack = <<>>

Spread(cb, g, n, h, last) ==
  /\ cb.firingStart = 0
  /\ ~cb.on => ~cb.firing
  /\ cb.on => /\ cb.memory <= last /\ (cb.fired <=> cb.memory # 0) /\ (cb.firing => cb.memory # 0)
              /\ Known(cb, g, h)
              /\ cb.firing => Due(cb, g, n, h)
  /\ InLine(cb, last)
  /\ \A i \in 1..MaxAdds : i > g => h[i] = 0

FramesOK ==
  /\ \A i \in 1..Len(frames) : i < Len(frames) => frames[i].at = "body"
  /\ \A i, j \in 1..Len(frames) : frames[i].of = frames[j].of => i = j
  /\ \A l \in Lists : cbs[l].firing <=> \E i \in 1..Len(frames) : frames[i].of = l
  /\ \A i \in 1..Len(frames) :
       frames[i].of = "progress" /\ cbs["progress"].on => frames[i].data = cbs["progress"].memory

Undecided ==
  /\ promise = "pending"
  /\ \A s \in Sides : Fresh(cbs[s], given[s], calls[s])
  /\ cbs["progress"].on /\ cbs["progress"].repeat

Deciding(s, k) ==
  /\ s \in Firing /\ Underway(cbs[s], given[s], calls[s], k)
  /\ promise = IF k = 0 THEN "pending" ELSE Settled(s)
  /\ IF k = 2 THEN Off(cbs[Other(s)], calls[Other(s)])
     ELSE Fresh(cbs[Other(s)], given[Other(s)], calls[Other(s)])
  /\ cbs["progress"].on /\ cbs["progress"].repeat

Decided(s) ==
  /\ promise = Settled(s)
  /\ Chosen(cbs[s], given[s], calls[s], Passed(s))
  /\ Off(cbs[Other(s)], calls[Other(s)])
  /\ ~cbs["progress"].repeat /\ (cbs["progress"].on => cbs["progress"].fired)

DeferredInv ==
  /\ DeferredTypeOK /\ FramesOK
  /\ Undecided \/ \E s \in Sides : Decided(s) \/ \E k \in 0..2 : Deciding(s, k)
  /\ Spread(cbs["progress"], given["progress"], Passed("progress"), heard, news)

ListState ==
  [on : BOOLEAN, list : Seq(Entry), repeat : BOOLEAN, stack : Seq(1..MaxNews),
   memory : 0..(MaxNews + 1), fired : BOOLEAN, firing : BOOLEAN,
   firingStart : Nat, firingLength : Nat, firingIndex : Nat]

LEMMA ListFields ==
  ASSUME NEW cb \in ListState
  PROVE  /\ cb.on \in BOOLEAN /\ cb.list \in Seq(Entry) /\ cb.repeat \in BOOLEAN /\ cb.stack \in Seq(1..MaxNews)
         /\ cb.memory \in 0..(MaxNews + 1) /\ cb.fired \in BOOLEAN /\ cb.firing \in BOOLEAN
         /\ cb.firingStart \in Nat /\ cb.firingLength \in Nat /\ cb.firingIndex \in Nat
  BY DEF ListState

LEMMA UserFacts ==
  ASSUME NEW n \in 0..MaxAdds
  PROVE  User(n) \in Entry /\ User(n).does = "user" /\ User(n).id = n
  BY DEF User, Entry

LEMMA BuiltInFacts ==
  /\ BuiltIns \in Seq(Entry) /\ Len(BuiltIns) = 3
  /\ BuiltIns[1].does = "setState" /\ BuiltIns[2].does = "disableOther" /\ BuiltIns[3].does = "lockProgress"
  BY DeferredBounds DEF BuiltIns, BuiltIn, Entry

LEMMA NewListFacts ==
  ASSUME NEW q \in Seq(Entry), NEW r \in BOOLEAN
  PROVE  LET nb == NewList(q, r) IN
           /\ nb \in ListState /\ nb.on /\ nb.list = q /\ nb.repeat = r /\ nb.stack = <<>> /\ nb.memory = 0
           /\ ~nb.fired /\ ~nb.firing /\ nb.firingStart = 0
  BY DeferredBounds DEF NewList, ListState

LEMMA FireBegunFacts ==
  ASSUME NEW cb \in ListState, NEW d \in 0..(MaxNews + 1)
  PROVE  LET nb == FireBegun(cb, d) IN
           /\ nb \in ListState /\ nb.on = cb.on /\ nb.list = cb.list /\ nb.repeat = cb.repeat /\ nb.stack = cb.stack
           /\ nb.memory = d /\ nb.fired /\ nb.firing
           /\ nb.firingStart = 0 /\ nb.firingLength = Len(cb.list) /\ nb.firingIndex = cb.firingStart
  <1>1. Len(cb.list) \in Nat /\ 0 \in Nat /\ TRUE \in BOOLEAN /\ cb.firingStart \in Nat
    BY ListFields
  <1>2. FireBegun(cb, d) \in ListState
    BY <1>1, Zenon DEF FireBegun, ListState
  <1>3. LET nb == FireBegun(cb, d) IN
          /\ nb.on = cb.on /\ nb.list = cb.list /\ nb.repeat = cb.repeat /\ nb.stack = cb.stack
          /\ nb.memory = d /\ nb.fired /\ nb.firing
          /\ nb.firingStart = 0 /\ nb.firingLength = Len(cb.list) /\ nb.firingIndex = cb.firingStart
    BY DEF FireBegun, ListState
  <1> QED
    BY <1>2, <1>3

LEMMA DisabledFacts ==
  ASSUME NEW cb \in ListState
  PROVE  LET nb == Disabled(cb) IN
           /\ nb \in ListState /\ ~nb.on /\ nb.list = <<>> /\ ~nb.repeat /\ nb.stack = <<>> /\ nb.memory = 0
           /\ nb.fired = cb.fired /\ nb.firing = cb.firing /\ nb.firingStart = cb.firingStart
           /\ nb.firingLength = cb.firingLength /\ nb.firingIndex = cb.firingIndex
  <1>1. 0 \in 0..(MaxNews + 1) /\ <<>> \in Seq(Entry) /\ <<>> \in Seq(1..MaxNews) /\ FALSE \in BOOLEAN
    BY DeferredBounds
  <1>2. Disabled(cb) \in ListState
    BY <1>1, Zenon DEF Disabled, ListState
  <1>3. LET nb == Disabled(cb) IN
          /\ ~nb.on /\ nb.list = <<>> /\ ~nb.repeat /\ nb.stack = <<>> /\ nb.memory = 0
          /\ nb.fired = cb.fired /\ nb.firing = cb.firing /\ nb.firingStart = cb.firingStart
          /\ nb.firingLength = cb.firingLength /\ nb.firingIndex = cb.firingIndex
    BY DEF Disabled, ListState
  <1> QED
    BY <1>2, <1>3

LEMMA StackChanged ==
  ASSUME NEW cb \in ListState, NEW q \in Seq(1..MaxNews)
  PROVE  LET nb == [cb EXCEPT !.stack = q] IN
           /\ nb \in ListState /\ nb.on = cb.on /\ nb.list = cb.list /\ nb.repeat = cb.repeat /\ nb.stack = q
           /\ nb.memory = cb.memory /\ nb.fired = cb.fired /\ nb.firing = cb.firing /\ nb.firingStart = cb.firingStart
           /\ nb.firingLength = cb.firingLength /\ nb.firingIndex = cb.firingIndex
  BY DEF ListState

LEMMA LockedFacts ==
  ASSUME NEW cb \in ListState
  PROVE  LET nb == Locked(cb) IN
           /\ nb \in ListState /\ ~nb.repeat /\ nb.stack = <<>>
           /\ nb.fired = cb.fired /\ nb.firing = cb.firing /\ nb.firingStart = cb.firingStart
           /\ nb.firingLength = cb.firingLength /\ nb.firingIndex = cb.firingIndex /\ nb.memory = cb.memory
           /\ cb.memory = 0 => ~nb.on
           /\ cb.memory # 0 => nb.on = cb.on /\ nb.list = cb.list
  <1> DEFINE un == [cb EXCEPT !.repeat = FALSE, !.stack = <<>>]
  <1>1. /\ un \in ListState /\ ~un.repeat /\ un.stack = <<>> /\ un.memory = cb.memory
        /\ un.fired = cb.fired /\ un.firing = cb.firing /\ un.firingStart = cb.firingStart
        /\ un.firingLength = cb.firingLength /\ un.firingIndex = cb.firingIndex
        /\ un.on = cb.on /\ un.list = cb.list
    <2>1. <<>> \in Seq(1..MaxNews) /\ FALSE \in BOOLEAN
      OBVIOUS
    <2>2. un \in ListState
      BY <2>1, Zenon DEF ListState
    <2>3. /\ ~un.repeat /\ un.stack = <<>> /\ un.memory = cb.memory
          /\ un.fired = cb.fired /\ un.firing = cb.firing /\ un.firingStart = cb.firingStart
          /\ un.firingLength = cb.firingLength /\ un.firingIndex = cb.firingIndex
          /\ un.on = cb.on /\ un.list = cb.list
      BY DEF ListState
    <2> QED
      BY <2>2, <2>3
  <1>2. Locked(cb) = IF cb.memory = 0 THEN Disabled(un) ELSE un
    BY DEF Locked
  <1> HIDE DEF un
  <1>3. CASE cb.memory = 0
    BY <1>1, <1>2, <1>3, DisabledFacts
  <1>4. CASE cb.memory # 0
    BY <1>1, <1>2, <1>4
  <1> QED
    BY <1>3, <1>4

LEMMA RestedFacts ==
  ASSUME NEW cb \in ListState, cb.on, cb.repeat \/ cb.memory # 0
  PROVE  LET nb == Rested(cb) IN
           /\ nb \in ListState /\ nb.on /\ nb.repeat = cb.repeat /\ nb.stack = cb.stack /\ nb.memory = cb.memory
           /\ nb.fired = cb.fired /\ ~nb.firing /\ nb.firingStart = cb.firingStart
           /\ nb.list = IF cb.repeat THEN cb.list ELSE <<>>
  <1> DEFINE still == [cb EXCEPT !.firing = FALSE]
             bare  == [still EXCEPT !.list = <<>>]
  <1>0. /\ still \in ListState /\ still.on = cb.on /\ still.repeat = cb.repeat /\ still.stack = cb.stack
        /\ still.memory = cb.memory /\ still.fired = cb.fired /\ ~still.firing /\ still.firingStart = cb.firingStart
        /\ still.list = cb.list
    BY DEF ListState
  <1>1. /\ bare \in ListState /\ bare.on = cb.on /\ bare.repeat = cb.repeat /\ bare.stack = cb.stack
        /\ bare.memory = cb.memory /\ bare.fired = cb.fired /\ ~bare.firing /\ bare.firingStart = cb.firingStart
        /\ bare.list = <<>>
    <2>1. <<>> \in Seq(Entry)
      OBVIOUS
    <2> HIDE DEF still
    <2>2. bare \in ListState
      BY <1>0, <2>1, Zenon DEF ListState
    <2>3. /\ bare.on = still.on /\ bare.repeat = still.repeat /\ bare.stack = still.stack
          /\ bare.memory = still.memory /\ bare.fired = still.fired /\ bare.firing = still.firing
          /\ bare.firingStart = still.firingStart /\ bare.list = <<>>
      BY <1>0 DEF ListState
    <2> QED
      BY <1>0, <2>2, <2>3
  <1>2. Rested(cb) = CASE ~cb.on \/ cb.repeat -> still
                       [] cb.on /\ ~cb.repeat /\ cb.memory # 0 -> bare
                       [] OTHER -> Disabled(still)
    BY DEF Rested
  <1> HIDE DEF still, bare
  <1>3. CASE cb.repeat
    <2>1. Rested(cb) = still
      BY <1>2, <1>3
    <2> QED
      BY <1>0, <1>3, <2>1
  <1>4. CASE ~cb.repeat
    <2>1. Rested(cb) = bare
      BY <1>2, <1>4
    <2> QED
      BY <1>1, <1>4, <2>1
  <1> QED
    BY <1>3, <1>4

LEMMA IndexChanged ==
  ASSUME NEW cb \in ListState, NEW n \in Nat
  PROVE  LET nb == [cb EXCEPT !.firingIndex = n] IN
           /\ nb \in ListState /\ nb.on = cb.on /\ nb.list = cb.list /\ nb.repeat = cb.repeat /\ nb.stack = cb.stack
           /\ nb.memory = cb.memory /\ nb.fired = cb.fired /\ nb.firing = cb.firing /\ nb.firingStart = cb.firingStart
           /\ nb.firingLength = cb.firingLength /\ nb.firingIndex = n
  BY DEF ListState

LEMMA ListChanged ==
  ASSUME NEW cb \in ListState, NEW q \in Seq(Entry)
  PROVE  LET nb == [cb EXCEPT !.list = q] IN
           /\ nb \in ListState /\ nb.on = cb.on /\ nb.list = q /\ nb.repeat = cb.repeat /\ nb.stack = cb.stack
           /\ nb.memory = cb.memory /\ nb.fired = cb.fired /\ nb.firing = cb.firing /\ nb.firingStart = cb.firingStart
           /\ nb.firingLength = cb.firingLength /\ nb.firingIndex = cb.firingIndex
  BY DEF ListState

LEMMA LengthChanged ==
  ASSUME NEW cb \in ListState, NEW n \in Nat
  PROVE  LET nb == [cb EXCEPT !.firingLength = n] IN
           /\ nb \in ListState /\ nb.on = cb.on /\ nb.list = cb.list /\ nb.repeat = cb.repeat /\ nb.stack = cb.stack
           /\ nb.memory = cb.memory /\ nb.fired = cb.fired /\ nb.firing = cb.firing /\ nb.firingStart = cb.firingStart
           /\ nb.firingLength = n /\ nb.firingIndex = cb.firingIndex
  BY DEF ListState

LEMMA StartChanged ==
  ASSUME NEW cb \in ListState, NEW n \in Nat
  PROVE  LET nb == [cb EXCEPT !.firingStart = n] IN
           /\ nb \in ListState /\ nb.on = cb.on /\ nb.list = cb.list /\ nb.repeat = cb.repeat /\ nb.stack = cb.stack
           /\ nb.memory = cb.memory /\ nb.fired = cb.fired /\ nb.firing = cb.firing /\ nb.firingStart = n
           /\ nb.firingLength = cb.firingLength /\ nb.firingIndex = cb.firingIndex
  BY DEF ListState

Longer(cb, n) == [cb EXCEPT !.list = Append(cb.list, User(n))]

LEMMA LongerFacts ==
  ASSUME NEW cb \in ListState, NEW n \in 0..MaxAdds
  PROVE  LET nb == Longer(cb, n) IN
           /\ nb \in ListState /\ nb.on = cb.on /\ nb.repeat = cb.repeat /\ nb.stack = cb.stack
           /\ nb.memory = cb.memory /\ nb.fired = cb.fired /\ nb.firing = cb.firing /\ nb.firingStart = cb.firingStart
           /\ nb.firingLength = cb.firingLength /\ nb.firingIndex = cb.firingIndex
           /\ nb.list \in Seq(Entry) /\ Len(nb.list) = Len(cb.list) + 1 /\ nb.list[Len(cb.list) + 1] = User(n)
           /\ \A i \in 1..Len(cb.list) : nb.list[i] = cb.list[i]
  <1>1. cb.list \in Seq(Entry) /\ User(n) \in Entry
    BY ListFields, UserFacts
  <1> DEFINE q == Append(cb.list, User(n))
  <1>2. /\ q \in Seq(Entry) /\ Len(q) = Len(cb.list) + 1 /\ q[Len(cb.list) + 1] = User(n)
        /\ \A i \in 1..Len(cb.list) : q[i] = cb.list[i]
    BY <1>1, AppendFacts
  <1>3. Longer(cb, n) = [cb EXCEPT !.list = q]
    BY DEF Longer
  <1> HIDE DEF q
  <1> QED
    BY <1>2, <1>3, ListChanged

LEMMA FreshAdd ==
  ASSUME NEW cb \in ListState, NEW g \in 0..MaxAdds, g < MaxAdds, NEW c, Fresh(cb, g, c)
  PROVE  Fresh(Longer(cb, g + 1), g + 1, c)
  <1> DEFINE nb == Longer(cb, g + 1)
  <1>0. g + 1 \in 0..MaxAdds /\ g \in Nat
    BY DeferredBounds
  <1>1. /\ nb.on = cb.on /\ nb.repeat = cb.repeat /\ nb.stack = cb.stack
        /\ nb.memory = cb.memory /\ nb.fired = cb.fired /\ nb.firing = cb.firing /\ nb.firingStart = cb.firingStart
        /\ Len(nb.list) = Len(cb.list) + 1 /\ nb.list[Len(cb.list) + 1] = User(g + 1)
        /\ \A i \in 1..Len(cb.list) : nb.list[i] = cb.list[i]
    BY <1>0, LongerFacts
  <1> HIDE DEF nb
  <1>2. Full(cb, g)
    BY DEF Fresh
  <1>3. Full(nb, g + 1)
    <2>1. \A i \in 1..3 : nb.list[i] = BuiltIns[i]
      BY <1>0, <1>1, <1>2 DEF Full
    <2>2. ASSUME NEW i \in 1..(g + 1) PROVE nb.list[i + 3] = User(i)
      <3>1. CASE i = g + 1
        BY <1>0, <1>1, <1>2, <3>1 DEF Full
      <3>2. CASE i # g + 1
        <4>1. i \in 1..g /\ i + 3 \in 1..(g + 3)
          BY <1>0, <2>2, <3>2
        <4> QED
          BY <1>1, <1>2, <4>1 DEF Full
      <3> QED
        BY <3>1, <3>2
    <2> QED
      BY <1>0, <1>1, <1>2, <2>1, <2>2 DEF Full
  <1>4. Fresh(nb, g + 1, c)
    BY <1>1, <1>3 DEF Fresh
  <1> QED
    BY <1>4 DEF nb

LEMMA FreshBegun ==
  ASSUME NEW cb \in ListState, NEW g \in 0..MaxAdds, NEW c, Fresh(cb, g, c)
  PROVE  Underway(FireBegun(cb, 1), g, c, 0)
  <1> DEFINE nb == FireBegun(cb, 1)
  <1>0. 1 \in 0..(MaxNews + 1)
    BY DeferredBounds
  <1>1. /\ nb.on = cb.on /\ nb.list = cb.list /\ nb.repeat = cb.repeat /\ nb.stack = cb.stack
        /\ nb.memory = 1 /\ nb.fired /\ nb.firing
        /\ nb.firingStart = 0 /\ nb.firingLength = Len(cb.list) /\ nb.firingIndex = cb.firingStart
    BY <1>0, FireBegunFacts
  <1> HIDE DEF nb
  <1>2. Underway(nb, g, c, 0)
    BY <1>1 DEF Fresh, Underway, Full
  <1> QED
    BY <1>2 DEF nb

LEMMA UnderwayMoves ==
  ASSUME NEW cb \in ListState, NEW g \in 0..MaxAdds, NEW c, NEW k \in 0..2, Underway(cb, g, c, k)
  PROVE  /\ k < 2 => Underway([cb EXCEPT !.firingIndex = k + 1], g, c, k + 1)
         /\ k = 2 => Chosen([cb EXCEPT !.firingIndex = k + 1], g, c, 3)
         /\ InRange(cb) /\ Current(cb) = BuiltIns[k + 1]
  <1> DEFINE nb == [cb EXCEPT !.firingIndex = k + 1]
  <1>0. k + 1 \in Nat /\ g \in Nat
    OBVIOUS
  <1>1. /\ nb.on = cb.on /\ nb.list = cb.list /\ nb.repeat = cb.repeat /\ nb.stack = cb.stack
        /\ nb.memory = cb.memory /\ nb.fired = cb.fired /\ nb.firing = cb.firing /\ nb.firingStart = cb.firingStart
        /\ nb.firingLength = cb.firingLength /\ nb.firingIndex = k + 1
    BY <1>0, IndexChanged
  <1> HIDE DEF nb
  <1>2. Underway(nb, g, c, k + 1)
    BY <1>1 DEF Underway, Full
  <1>3. Chosen(nb, g, c, 3)
    <2>1. nb.firingLength = Len(nb.list) /\ Len(nb.list) = g + 3
      BY <1>1 DEF Underway, Full
    <2>2. ASSUME NEW i \in (3 + 1)..Len(nb.list) PROVE nb.list[i] = User(g - Len(nb.list) + i)
      <3>1. i - 3 \in 1..g /\ i - 3 + 3 = i /\ g - Len(nb.list) + i = i - 3
        BY <1>0, <2>1
      <3> QED
        BY <1>1, <3>1 DEF Underway, Full
    <2>3. Rest(nb, g, 3)
      BY <1>0, <2>1, <2>2 DEF Rest
    <2>4. c = <<>> /\ Len(c) = 0
      BY DEF Underway
    <2> QED
      BY <1>0, <1>1, <2>1, <2>3, <2>4 DEF Underway, Chosen
  <1>4. InRange(cb) /\ Current(cb) = BuiltIns[k + 1]
    BY <1>0 DEF Underway, Full, InRange, Current
  <1> QED
    BY <1>2, <1>3, <1>4 DEF nb

LEMMA ChosenIndex ==
  ASSUME NEW cb \in ListState, NEW g, NEW c, NEW n, Chosen(cb, g, c, n), NEW k \in Nat
  PROVE  Chosen([cb EXCEPT !.firingIndex = k], g, c, n)
  <1> DEFINE nb == [cb EXCEPT !.firingIndex = k]
  <1>1. /\ nb.on = cb.on /\ nb.list = cb.list /\ nb.repeat = cb.repeat /\ nb.stack = cb.stack
        /\ nb.memory = cb.memory /\ nb.fired = cb.fired /\ nb.firing = cb.firing /\ nb.firingStart = cb.firingStart
        /\ nb.firingLength = cb.firingLength
    BY IndexChanged
  <1> HIDE DEF nb
  <1>2. Chosen(nb, g, c, n)
    BY <1>1 DEF Chosen, Rest
  <1> QED
    BY <1>2 DEF nb

LEMMA ChosenAddFiring ==
  ASSUME NEW cb \in ListState, NEW g \in 0..MaxAdds, g < MaxAdds, NEW c, NEW n \in Nat, Chosen(cb, g, c, n),
         cb.firing
  PROVE  LET nb == [Longer(cb, g + 1) EXCEPT !.firingLength = Len(Longer(cb, g + 1).list)] IN
           nb \in ListState /\ nb.firing /\ nb.firingIndex = cb.firingIndex /\ Chosen(nb, g + 1, c, n)
  <1> DEFINE lb == Longer(cb, g + 1)
             nb == [lb EXCEPT !.firingLength = Len(lb.list)]
  <1>0. g + 1 \in 0..MaxAdds /\ g \in Nat
    BY DeferredBounds
  <1>1. /\ lb \in ListState /\ lb.on = cb.on /\ lb.repeat = cb.repeat /\ lb.stack = cb.stack
        /\ lb.memory = cb.memory /\ lb.fired = cb.fired /\ lb.firing = cb.firing /\ lb.firingStart = cb.firingStart
        /\ Len(lb.list) = Len(cb.list) + 1 /\ lb.list[Len(cb.list) + 1] = User(g + 1)
        /\ \A i \in 1..Len(cb.list) : lb.list[i] = cb.list[i]
        /\ lb.firingIndex = cb.firingIndex
    BY <1>0, LongerFacts
  <1>2. Len(cb.list) \in Nat
    BY ListFields
  <1> HIDE DEF lb
  <1>9. Len(lb.list) \in Nat
    BY <1>1, <1>2
  <1>3. /\ nb \in ListState /\ nb.on = lb.on /\ nb.list = lb.list /\ nb.repeat = lb.repeat /\ nb.stack = lb.stack
        /\ nb.memory = lb.memory /\ nb.fired = lb.fired /\ nb.firing = lb.firing /\ nb.firingStart = lb.firingStart
        /\ nb.firingLength = Len(lb.list) /\ nb.firingIndex = lb.firingIndex
    BY <1>1, <1>9, LengthChanged
  <1> HIDE DEF nb
  <1>4. Rest(cb, g, n) /\ Len(c) + Len(cb.list) = g + n
    BY DEF Chosen
  <1>10. PICK m \in Nat : m = Len(cb.list)
    BY <1>2
  <1>11. Len(nb.list) = m + 1 /\ nb.list[m + 1] = User(g + 1) /\ \A i \in 1..m : nb.list[i] = cb.list[i]
    BY <1>1, <1>3, <1>10
  <1>12. n <= m /\ \A i \in (n + 1)..m : cb.list[i] = User(g - m + i)
    BY <1>4, <1>10 DEF Rest
  <1>5. ASSUME NEW i \in (n + 1)..(m + 1) PROVE nb.list[i] = User(g + 1 - (m + 1) + i)
    <2>1. CASE i = m + 1
      <3>1. g + 1 - (m + 1) + i = g + 1
        BY <1>0, <2>1
      <3> QED
        BY <1>11, <2>1, <3>1
    <2>2. CASE i # m + 1
      <3>1. i \in (n + 1)..m /\ i \in 1..m /\ g + 1 - (m + 1) + i = g - m + i
        BY <1>0, <1>5, <2>2
      <3> QED
        BY <1>11, <1>12, <3>1
    <2> QED
      BY <2>1, <2>2
  <1>6. Rest(nb, g + 1, n)
    <2>1. nb.firingLength = m + 1 /\ n <= m + 1
      BY <1>3, <1>11, <1>12
    <2> QED
      BY <1>5, <1>11, <2>1 DEF Rest
  <1>7. Len(c) + Len(nb.list) = (g + 1) + n
    <2>1. Len(nb.list) = Len(cb.list) + 1
      BY <1>1, <1>3
    <2>2. Len(c) = g + n - Len(cb.list) \/ Len(c) + Len(cb.list) = g + n
      BY <1>4
    <2> QED
      BY <1>0, <1>2, <1>4, <2>1
  <1>8. Chosen(nb, g + 1, c, n)
    BY <1>1, <1>3, <1>6, <1>7 DEF Chosen
  <1> QED
    BY <1>1, <1>3, <1>8 DEF nb, lb

\* A list with memory that calls its newest callback at once
Newcomer(cb, n) == FireBegun([Longer(cb, n) EXCEPT !.firingStart = Len(cb.list)], cb.memory)

LEMMA NewcomerFacts ==
  ASSUME NEW cb \in ListState, NEW n \in 0..MaxAdds
  PROVE  LET nb == Newcomer(cb, n) IN
           /\ nb \in ListState /\ nb.on = cb.on /\ nb.repeat = cb.repeat /\ nb.stack = cb.stack
           /\ nb.memory = cb.memory /\ nb.fired /\ nb.firing /\ nb.firingStart = 0
           /\ nb.firingLength = Len(cb.list) + 1 /\ nb.firingIndex = Len(cb.list)
           /\ nb.list \in Seq(Entry) /\ Len(nb.list) = Len(cb.list) + 1 /\ nb.list[Len(cb.list) + 1] = User(n)
           /\ \A i \in 1..Len(cb.list) : nb.list[i] = cb.list[i]
  <1> DEFINE lb == Longer(cb, n)
             sb == [lb EXCEPT !.firingStart = Len(cb.list)]
             nb == FireBegun(sb, cb.memory)
  <1>0. Len(cb.list) \in Nat /\ cb.memory \in 0..(MaxNews + 1)
    BY ListFields
  <1>1. /\ lb \in ListState /\ lb.on = cb.on /\ lb.repeat = cb.repeat /\ lb.stack = cb.stack
        /\ lb.list \in Seq(Entry) /\ Len(lb.list) = Len(cb.list) + 1 /\ lb.list[Len(cb.list) + 1] = User(n)
        /\ \A i \in 1..Len(cb.list) : lb.list[i] = cb.list[i]
    BY LongerFacts
  <1> HIDE DEF lb
  <1>2. /\ sb \in ListState /\ sb.on = lb.on /\ sb.list = lb.list /\ sb.repeat = lb.repeat /\ sb.stack = lb.stack
        /\ sb.firingStart = Len(cb.list)
    BY <1>0, <1>1, StartChanged
  <1> HIDE DEF sb
  <1>3. /\ nb \in ListState /\ nb.on = sb.on /\ nb.list = sb.list /\ nb.repeat = sb.repeat /\ nb.stack = sb.stack
        /\ nb.memory = cb.memory /\ nb.fired /\ nb.firing
        /\ nb.firingStart = 0 /\ nb.firingLength = Len(sb.list) /\ nb.firingIndex = sb.firingStart
    BY <1>0, <1>2, FireBegunFacts
  <1>4. Newcomer(cb, n) = nb
    BY DEF Newcomer, nb, sb, lb
  <1> HIDE DEF nb
  <1> QED
    BY <1>1, <1>2, <1>3, <1>4

LEMMA ChosenAddResting ==
  ASSUME NEW cb \in ListState, NEW g \in 0..MaxAdds, g < MaxAdds, NEW c, NEW n, Chosen(cb, g, c, n), ~cb.firing
  PROVE  Chosen(Newcomer(cb, g + 1), g + 1, c, Newcomer(cb, g + 1).firingIndex)
  <1> DEFINE nb == Newcomer(cb, g + 1)
  <1>0. g + 1 \in 0..MaxAdds /\ g \in Nat
    BY DeferredBounds
  <1>1. cb.list = <<>> /\ Len(cb.list) = 0 /\ Len(c) = g
    BY DEF Chosen
  <1>2. /\ nb.on = cb.on /\ nb.repeat = cb.repeat /\ nb.stack = cb.stack
        /\ nb.memory = cb.memory /\ nb.fired /\ nb.firing /\ nb.firingStart = 0
        /\ nb.firingLength = 0 + 1 /\ nb.firingIndex = 0
        /\ Len(nb.list) = 0 + 1 /\ nb.list[0 + 1] = User(g + 1)
    <2>1. /\ nb.on = cb.on /\ nb.repeat = cb.repeat /\ nb.stack = cb.stack
          /\ nb.memory = cb.memory /\ nb.fired /\ nb.firing /\ nb.firingStart = 0
          /\ nb.firingLength = Len(cb.list) + 1 /\ nb.firingIndex = Len(cb.list)
          /\ Len(nb.list) = Len(cb.list) + 1 /\ nb.list[Len(cb.list) + 1] = User(g + 1)
      BY <1>0, NewcomerFacts
    <2> HIDE DEF nb
    <2> QED
      BY <1>1, <2>1
  <1> HIDE DEF nb
  <1>3. Rest(nb, g + 1, 0)
    BY <1>0, <1>2 DEF Rest
  <1>4. Chosen(nb, g + 1, c, 0)
    BY <1>0, <1>1, <1>2, <1>3 DEF Chosen
  <1> QED
    BY <1>2, <1>4 DEF nb

LEMMA ChosenCall ==
  ASSUME NEW cb \in ListState, NEW g \in 0..MaxAdds, NEW c \in Seq(1..MaxAdds), Chosen(cb, g, c, cb.firingIndex),
         cb.firing, InRange(cb)
  PROVE  /\ Current(cb).does = "user" /\ Current(cb).id = Len(c) + 1 /\ Len(c) < g
         /\ Append(c, Len(c) + 1) \in Seq(1..MaxAdds)
         /\ Chosen(cb, g, Append(c, Len(c) + 1), cb.firingIndex + 1)
  <1> DEFINE d == Append(c, Len(c) + 1)
             k == cb.firingIndex
  <1>0. g \in Nat /\ k \in Nat /\ Len(cb.list) \in Nat /\ Len(c) \in Nat /\ MaxAdds \in Nat
    BY ListFields, DeferredBounds
  <1> HIDE DEF k
  <1>1. PICK m \in Nat : m = Len(cb.list)
    BY <1>0
  <1>2. /\ cb.firingLength = m /\ k <= m /\ Len(c) + m = g + k
        /\ \A i \in (k + 1)..m : cb.list[i] = User(g - m + i)
    BY <1>1 DEF Chosen, Rest, k
  <1>3. k < m
    BY <1>2 DEF InRange, k
  <1>4. k + 1 \in (k + 1)..m /\ g - m + (k + 1) = Len(c) + 1 /\ Len(c) < g /\ Len(c) + 1 \in 1..MaxAdds
    BY <1>0, <1>2, <1>3
  <1>5. cb.list[k + 1] = User(Len(c) + 1)
    BY <1>2, <1>4
  <1>6. Current(cb) = User(Len(c) + 1)
    BY <1>5 DEF Current, k
  <1>7. Current(cb).does = "user" /\ Current(cb).id = Len(c) + 1
    BY <1>6 DEF User
  <1>8. d \in Seq(1..MaxAdds) /\ Len(d) = Len(c) + 1 /\ d[Len(c) + 1] = Len(c) + 1 /\ \A i \in 1..Len(c) : d[i] = c[i]
    BY <1>4, AppendFacts
  <1> HIDE DEF d
  <1>9. \A i \in 1..Len(d) : d[i] = i
    <2> SUFFICES ASSUME NEW i \in 1..Len(d) PROVE d[i] = i
      OBVIOUS
    <2>1. CASE i = Len(c) + 1
      BY <1>8, <2>1
    <2>2. CASE i # Len(c) + 1
      <3>1. i \in 1..Len(c)
        BY <1>0, <1>8, <2>2
      <3> QED
        BY <1>8, <3>1 DEF Chosen
    <2> QED
      BY <2>1, <2>2
  <1>10. Rest(cb, g, k + 1)
    <2>1. k + 1 <= m /\ \A i \in (k + 1 + 1)..m : cb.list[i] = User(g - m + i)
      BY <1>0, <1>2, <1>3
    <2> QED
      BY <1>1, <1>2, <2>1 DEF Rest
  <1>11. Len(d) + Len(cb.list) = g + (k + 1)
    <2>1. Len(d) = Len(c) + 1 /\ Len(c) + m = g + k /\ Len(cb.list) = m
      BY <1>1, <1>2, <1>8
    <2> QED
      BY <1>0, <2>1
  <1>12. Chosen(cb, g, d, k + 1)
    BY <1>9, <1>10, <1>11 DEF Chosen
  <1> QED
    BY <1>4, <1>7, <1>8, <1>12 DEF d, k

LEMMA ChosenRests ==
  ASSUME NEW cb \in ListState, NEW g \in 0..MaxAdds, NEW c \in Seq(1..MaxAdds), Chosen(cb, g, c, cb.firingIndex),
         cb.firing, ~InRange(cb), NEW n
  PROVE  Rested(cb) \in ListState /\ ~Rested(cb).firing /\ Chosen(Rested(cb), g, c, n)
  <1> DEFINE nb == Rested(cb)
  <1>0. cb.on /\ ~cb.repeat /\ cb.memory # 0
    BY DEF Chosen
  <1>1. /\ nb \in ListState /\ nb.on /\ nb.repeat = cb.repeat /\ nb.stack = cb.stack /\ nb.memory = cb.memory
        /\ nb.fired = cb.fired /\ ~nb.firing /\ nb.firingStart = cb.firingStart /\ nb.list = <<>>
    BY <1>0, RestedFacts
  <1> HIDE DEF nb
  <1>2. g \in Nat /\ cb.firingIndex \in Nat /\ Len(cb.list) \in Nat /\ Len(c) \in Nat
    BY ListFields
  <1>3. /\ cb.firingLength = Len(cb.list) /\ cb.firingIndex <= Len(cb.list)
        /\ Len(c) + Len(cb.list) = g + cb.firingIndex
    BY DEF Chosen, Rest
  <1>4. Len(c) = g
    BY <1>0, <1>2, <1>3 DEF InRange
  <1>5. Chosen(nb, g, c, n)
    BY <1>1, <1>4 DEF Chosen
  <1> QED
    BY <1>1, <1>5 DEF nb

\* How far a loop is says nothing about a list that does not fire
LEMMA ChosenAnyhow ==
  ASSUME NEW cb, NEW g, NEW c, NEW n, Chosen(cb, g, c, n), ~cb.firing, NEW m
  PROVE  Chosen(cb, g, c, m)
  BY DEF Chosen

LEMMA SpreadStart ==
  ASSUME NEW h, \A i \in 1..MaxAdds : h[i] = 0, NEW n
  PROVE  Spread(NewList(<<>>, TRUE), 0, n, h, 0)
  <1> DEFINE nb == NewList(<<>>, TRUE)
  <1>1. /\ nb \in ListState /\ nb.on /\ nb.list = <<>> /\ nb.repeat = TRUE /\ nb.stack = <<>> /\ nb.memory = 0
        /\ ~nb.fired /\ ~nb.firing /\ nb.firingStart = 0
    <2>1. <<>> \in Seq(Entry)
      OBVIOUS
    <2> QED
      BY <2>1, NewListFacts
  <1> HIDE DEF nb
  <1>2. InLine(nb, 0)
    BY <1>1 DEF InLine
  <1>3. Known(nb, 0, h)
    BY <1>1 DEF Known
  <1>4. Spread(nb, 0, n, h, 0)
    BY <1>1, <1>2, <1>3 DEF Spread
  <1> QED
    BY <1>4 DEF nb

LEMMA SpreadAnyhow ==
  ASSUME NEW cb, NEW g, NEW n, NEW h, NEW last, Spread(cb, g, n, h, last), ~cb.firing, NEW m
  PROVE  Spread(cb, g, m, h, last)
  BY DEF Spread

LEMMA SpreadIndex ==
  ASSUME NEW cb \in ListState, NEW g, NEW n, NEW h, NEW last, Spread(cb, g, n, h, last), NEW k \in Nat
  PROVE  Spread([cb EXCEPT !.firingIndex = k], g, n, h, last)
  <1> DEFINE nb == [cb EXCEPT !.firingIndex = k]
  <1>1. /\ nb.on = cb.on /\ nb.list = cb.list /\ nb.repeat = cb.repeat /\ nb.stack = cb.stack
        /\ nb.memory = cb.memory /\ nb.fired = cb.fired /\ nb.firing = cb.firing /\ nb.firingStart = cb.firingStart
        /\ nb.firingLength = cb.firingLength
    BY IndexChanged
  <1> HIDE DEF nb
  <1>2. Spread(nb, g, n, h, last)
    BY <1>1 DEF Spread, InLine, Known, Due
  <1> QED
    BY <1>2 DEF nb

LEMMA SpreadAddOff ==
  ASSUME NEW cb, NEW g \in Nat, NEW n, NEW h, NEW last, Spread(cb, g, n, h, last), ~cb.on
  PROVE  Spread(cb, g + 1, n, h, last)
  BY DEF Spread

LEMMA KnownBy ==
  ASSUME NEW cb, NEW g, NEW h, Len(cb.list) <= g,
         \A i \in 1..Len(cb.list) : cb.list[i] = User(g - Len(cb.list) + i),
         \A i \in 1..MaxAdds : h[i] <= cb.memory
  PROVE  Known(cb, g, h)
  BY DEF Known

\* One entry more, the newest callback's
LEMMA KnownAdd ==
  ASSUME NEW cb \in ListState, NEW nb \in ListState, NEW g \in 0..MaxAdds, g < MaxAdds, NEW h, Known(cb, g, h),
         nb.memory = cb.memory, Len(nb.list) = Len(cb.list) + 1, nb.list[Len(cb.list) + 1] = User(g + 1),
         \A i \in 1..Len(cb.list) : nb.list[i] = cb.list[i]
  PROVE  Known(nb, g + 1, h)
  <1>0. /\ Len(cb.list) <= g /\ \A i \in 1..Len(cb.list) : cb.list[i] = User(g - Len(cb.list) + i)
        /\ \A i \in 1..MaxAdds : h[i] <= cb.memory
    BY DEF Known
  <1>1. PICK m \in Nat : m = Len(cb.list)
    <2>1. cb.list \in Seq(Entry)
      BY ListFields
    <2>2. Len(cb.list) \in Nat
      BY <2>1, LenFacts
    <2> QED
      BY <2>2
  <1>2. g \in Nat /\ m <= g /\ \A i \in 1..m : cb.list[i] = User(g - m + i)
    <2>1. m <= g /\ \A i \in 1..m : cb.list[i] = User(g - m + i)
      BY <1>0, <1>1, Zenon
    <2> QED
      BY <2>1
  <1>3. Len(nb.list) = m + 1 /\ nb.list[m + 1] = User(g + 1) /\ \A i \in 1..m : nb.list[i] = cb.list[i]
    BY <1>1
  <1>4. PICK p \in Nat : p = g + 1
    BY <1>2
  <1>5. PICK k \in Nat : k = Len(nb.list)
    BY <1>3
  <1>6. k = m + 1
    BY <1>3, <1>5
  <1>7. ASSUME NEW i \in 1..k PROVE nb.list[i] = User(p - k + i)
    <2>1. CASE i = m + 1
      <3>1. p - k + i = g + 1
        BY <1>2, <1>4, <1>6, <2>1
      <3> QED
        BY <1>3, <2>1, <3>1
    <2>2. CASE i # m + 1
      <3>1. i \in 1..m /\ p - k + i = g - m + i
        BY <1>2, <1>4, <1>6, <1>7, <2>2
      <3> QED
        BY <1>2, <1>3, <3>1
    <2> QED
      BY <2>1, <2>2
  <1>8. k <= p /\ \A i \in 1..MaxAdds : h[i] <= nb.memory
    BY <1>0, <1>2, <1>4, <1>6
  <1>9. Known(nb, p, h)
    BY <1>5, <1>7, <1>8 DEF Known
  <1> QED
    BY <1>4, <1>9

LEMMA SpreadAddFiring ==
  ASSUME NEW cb \in ListState, NEW g \in 0..MaxAdds, g < MaxAdds, NEW n \in Nat, NEW h, NEW last,
         Spread(cb, g, n, h, last), cb.on, cb.firing
  PROVE  LET nb == [Longer(cb, g + 1) EXCEPT !.firingLength = Len(Longer(cb, g + 1).list)] IN
           /\ nb \in ListState /\ nb.firing /\ nb.firingIndex = cb.firingIndex
           /\ nb.on = cb.on /\ nb.memory = cb.memory /\ nb.repeat = cb.repeat /\ nb.fired = cb.fired
           /\ Spread(nb, g + 1, n, h, last)
  <1> DEFINE lb == Longer(cb, g + 1)
             nb == [lb EXCEPT !.firingLength = Len(lb.list)]
  <1>0. g + 1 \in 0..MaxAdds /\ g \in Nat /\ g + 1 \in 1..MaxAdds
    BY DeferredBounds
  <1>1. /\ lb \in ListState /\ lb.on = cb.on /\ lb.repeat = cb.repeat /\ lb.stack = cb.stack
        /\ lb.memory = cb.memory /\ lb.fired = cb.fired /\ lb.firing = cb.firing /\ lb.firingStart = cb.firingStart
        /\ Len(lb.list) = Len(cb.list) + 1 /\ lb.list[Len(cb.list) + 1] = User(g + 1)
        /\ \A i \in 1..Len(cb.list) : lb.list[i] = cb.list[i]
        /\ lb.firingIndex = cb.firingIndex
    BY <1>0, LongerFacts
  <1>2. Len(cb.list) \in Nat /\ cb.memory \in Nat
    BY ListFields
  <1> HIDE DEF lb
  <1>9. Len(lb.list) \in Nat
    BY <1>1, <1>2
  <1>3. /\ nb \in ListState /\ nb.on = lb.on /\ nb.list = lb.list /\ nb.repeat = lb.repeat /\ nb.stack = lb.stack
        /\ nb.memory = lb.memory /\ nb.fired = lb.fired /\ nb.firing = lb.firing /\ nb.firingStart = lb.firingStart
        /\ nb.firingLength = Len(lb.list) /\ nb.firingIndex = lb.firingIndex
    BY <1>1, <1>9, LengthChanged
  <1> HIDE DEF nb
  <1>4. Known(nb, g + 1, h)
    <2>1. Known(cb, g, h)
      BY DEF Spread
    <2>2. /\ nb.memory = cb.memory /\ Len(nb.list) = Len(cb.list) + 1 /\ nb.list[Len(cb.list) + 1] = User(g + 1)
          /\ \A i \in 1..Len(cb.list) : nb.list[i] = cb.list[i]
      BY <1>1, <1>3
    <2> QED
      BY <1>3, <2>1, <2>2, KnownAdd
  <1>5. Due(nb, g + 1, n, h)
    <2>0. PICK m \in Nat : m = Len(cb.list)
      BY <1>2
    <2>1. /\ n <= m /\ \A i \in (n + 1)..m : h[g - m + i] < cb.memory
      BY <2>0 DEF Spread, Due
    <2>2. Len(nb.list) = m + 1 /\ nb.firingLength = m + 1 /\ nb.memory = cb.memory
      BY <1>1, <1>3, <2>0
    <2>3. ASSUME NEW i \in (n + 1)..(m + 1) PROVE h[g + 1 - (m + 1) + i] < nb.memory
      <3>1. CASE i = m + 1
        <4>1. g + 1 - (m + 1) + i = g + 1
          BY <1>0, <3>1
        <4>2. h[g + 1] = 0 /\ cb.memory # 0
          BY <1>0 DEF Spread
        <4> QED
          BY <1>2, <2>2, <4>1, <4>2
      <3>2. CASE i # m + 1
        <4>1. i \in (n + 1)..m /\ g + 1 - (m + 1) + i = g - m + i
          BY <1>0, <2>3, <3>2
        <4> QED
          BY <2>1, <2>2, <4>1
      <3> QED
        BY <3>1, <3>2
    <2>4. n <= m + 1
      BY <2>1
    <2> QED
      BY <2>2, <2>3, <2>4 DEF Due
  <1>6. InLine(nb, last)
    <2>1. InLine(cb, last)
      BY DEF Spread
    <2>2. nb.stack = cb.stack /\ nb.memory = cb.memory /\ nb.firing = cb.firing /\ nb.repeat = cb.repeat
      BY <1>1, <1>3
    <2> QED
      BY ONLY <2>1, <2>2 DEF InLine
  <1>7. \A i \in 1..MaxAdds : i > g + 1 => h[i] = 0
    BY <1>0 DEF Spread
  <1>8. Spread(nb, g + 1, n, h, last)
    BY <1>1, <1>3, <1>4, <1>5, <1>6, <1>7 DEF Spread
  <1> QED
    BY <1>1, <1>3, <1>8 DEF nb, lb

LEMMA SpreadAddQuiet ==
  ASSUME NEW cb \in ListState, NEW g \in 0..MaxAdds, g < MaxAdds, NEW n, NEW h, NEW last,
         Spread(cb, g, n, h, last), cb.on, ~cb.firing
  PROVE  Spread(Longer(cb, g + 1), g + 1, n, h, last)
  <1> DEFINE nb == Longer(cb, g + 1)
  <1>0. g + 1 \in 0..MaxAdds /\ g \in Nat
    BY DeferredBounds
  <1>1. /\ nb \in ListState /\ nb.on = cb.on /\ nb.repeat = cb.repeat /\ nb.stack = cb.stack
        /\ nb.memory = cb.memory /\ nb.fired = cb.fired /\ nb.firing = cb.firing /\ nb.firingStart = cb.firingStart
        /\ Len(nb.list) = Len(cb.list) + 1 /\ nb.list[Len(cb.list) + 1] = User(g + 1)
        /\ \A i \in 1..Len(cb.list) : nb.list[i] = cb.list[i]
    BY <1>0, LongerFacts
  <1> HIDE DEF nb
  <1>2. Known(nb, g + 1, h)
    <2>1. Known(cb, g, h)
      BY DEF Spread
    <2> QED
      BY <1>1, <2>1, KnownAdd
  <1>3. InLine(nb, last)
    BY <1>1 DEF Spread, InLine
  <1>4. \A i \in 1..MaxAdds : i > g + 1 => h[i] = 0
    BY <1>0 DEF Spread
  <1>5. Spread(nb, g + 1, n, h, last)
    BY <1>1, <1>2, <1>3, <1>4 DEF Spread
  <1> QED
    BY <1>5 DEF nb

LEMMA SpreadAddResting ==
  ASSUME NEW cb \in ListState, NEW g \in 0..MaxAdds, g < MaxAdds, NEW n, NEW h, NEW last,
         Spread(cb, g, n, h, last), cb.on, ~cb.firing, cb.memory # 0
  PROVE  Spread(Newcomer(cb, g + 1), g + 1, Newcomer(cb, g + 1).firingIndex, h, last)
  <1> DEFINE nb == Newcomer(cb, g + 1)
  <1>0. g + 1 \in 0..MaxAdds /\ g \in Nat /\ g + 1 \in 1..MaxAdds
    BY DeferredBounds
  <1>1. /\ nb \in ListState /\ nb.on = cb.on /\ nb.repeat = cb.repeat /\ nb.stack = cb.stack
        /\ nb.memory = cb.memory /\ nb.fired /\ nb.firing /\ nb.firingStart = 0
        /\ nb.firingLength = Len(cb.list) + 1 /\ nb.firingIndex = Len(cb.list)
        /\ Len(nb.list) = Len(cb.list) + 1 /\ nb.list[Len(cb.list) + 1] = User(g + 1)
        /\ \A i \in 1..Len(cb.list) : nb.list[i] = cb.list[i]
    BY <1>0, NewcomerFacts
  <1> HIDE DEF nb
  <1>2. Known(nb, g + 1, h)
    <2>1. Known(cb, g, h)
      BY DEF Spread
    <2> QED
      BY <1>1, <2>1, KnownAdd
  <1>3. InLine(nb, last)
    <2>1. nb.stack = <<>> /\ Len(<<>>) = 0
      BY <1>1 DEF Spread, InLine
    <2> QED
      BY <2>1 DEF InLine
  <1>4. \A i \in 1..MaxAdds : i > g + 1 => h[i] = 0
    BY <1>0 DEF Spread
  <1>5. Due(nb, g + 1, Len(cb.list), h)
    <2>0. PICK m \in Nat : m = Len(cb.list)
      BY ListFields
    <2>1. Len(nb.list) = m + 1 /\ nb.firingLength = m + 1
      BY <1>1, <2>0
    <2>2. ASSUME NEW i \in (m + 1)..(m + 1) PROVE h[g + 1 - (m + 1) + i] < nb.memory
      <3>1. g + 1 - (m + 1) + i = g + 1
        BY <1>0, <2>2
      <3>2. h[g + 1] = 0 /\ cb.memory \in Nat
        BY <1>0, ListFields DEF Spread
      <3> QED
        BY <1>1, <3>1, <3>2
    <2>3. m <= m + 1
      OBVIOUS
    <2>4. Due(nb, g + 1, m, h)
      BY <2>1, <2>2, <2>3 DEF Due
    <2> QED
      BY <2>0, <2>4
  <1>6. Spread(nb, g + 1, Len(cb.list), h, last)
    BY <1>1, <1>2, <1>3, <1>4, <1>5 DEF Spread
  <1> QED
    BY <1>1, <1>6 DEF nb

LEMMA StackFacts ==
  ASSUME NEW cb \in ListState
  PROVE  /\ cb.stack \in Seq(1..MaxNews) /\ Len(cb.stack) \in Nat /\ cb.memory \in Nat
         /\ \A i \in 1..Len(cb.stack) : cb.stack[i] \in Nat
  <1>1. cb.stack \in Seq(1..MaxNews) /\ cb.memory \in Nat
    BY ListFields
  <1>2. Len(cb.stack) \in Nat /\ \A i \in 1..Len(cb.stack) : cb.stack[i] \in 1..MaxNews
    BY <1>1, LenFacts
  <1> QED
    BY <1>1, <1>2

\* A notification while the list fires waits
LEMMA SpreadNewsWaits ==
  ASSUME NEW cb \in ListState, NEW g, NEW n, NEW h, NEW last \in 0..MaxNews, last < MaxNews,
         Spread(cb, g, n, h, last), cb.on, cb.firing, cb.repeat
  PROVE  LET nb == [cb EXCEPT !.stack = Append(cb.stack, last + 1)] IN
           /\ nb \in ListState /\ nb.firing /\ nb.on /\ nb.repeat /\ nb.memory = cb.memory
           /\ nb.firingIndex = cb.firingIndex /\ Spread(nb, g, n, h, last + 1)
  <1> DEFINE q  == Append(cb.stack, last + 1)
             nb == [cb EXCEPT !.stack = q]
             m  == Len(cb.stack)
  <1>0. last \in Nat /\ last + 1 \in 1..MaxNews
    BY DeferredBounds
  <1>1. /\ cb.stack \in Seq(1..MaxNews) /\ m \in Nat /\ cb.memory \in Nat
        /\ \A i \in 1..m : cb.stack[i] \in Nat
    BY StackFacts
  <1>2. q \in Seq(1..MaxNews) /\ Len(q) = m + 1 /\ q[m + 1] = last + 1 /\ \A i \in 1..m : q[i] = cb.stack[i]
    BY <1>0, <1>1, AppendFacts
  <1>3. /\ cb.memory <= last
        /\ \A i \in 1..m : cb.memory < cb.stack[i] /\ cb.stack[i] <= last
        /\ \A i, j \in 1..m : i < j => cb.stack[i] < cb.stack[j]
    BY DEF Spread, InLine
  <1> HIDE DEF q, m
  <1>4. /\ nb \in ListState /\ nb.on = cb.on /\ nb.list = cb.list /\ nb.repeat = cb.repeat /\ nb.stack = q
        /\ nb.memory = cb.memory /\ nb.fired = cb.fired /\ nb.firing = cb.firing /\ nb.firingStart = cb.firingStart
        /\ nb.firingLength = cb.firingLength /\ nb.firingIndex = cb.firingIndex
    BY <1>2, StackChanged
  <1> HIDE DEF nb
  <1>5. \A i \in 1..(m + 1) : i = m + 1 \/ i \in 1..m
    BY <1>1
  <1>6. \A i \in 1..(m + 1) : cb.memory < q[i] /\ q[i] <= last + 1
    BY <1>0, <1>1, <1>2, <1>3, <1>5
  <1>7. ASSUME NEW i \in 1..(m + 1), NEW j \in 1..(m + 1), i < j PROVE q[i] < q[j]
    <2>1. i \in 1..m
      BY <1>1, <1>7
    <2>2. CASE j = m + 1
      BY <1>0, <1>1, <1>2, <1>3, <2>1, <2>2
    <2>3. CASE j # m + 1
      BY <1>2, <1>3, <1>5, <1>7, <2>1, <2>3
    <2> QED
      BY <2>2, <2>3
  <1>8. InLine(nb, last + 1)
    BY <1>2, <1>4, <1>6, <1>7 DEF InLine
  <1>9. cb.memory <= last + 1
    BY <1>0, <1>1, <1>3
  <1>10. Known(nb, g, h) /\ Due(nb, g, n, h)
    BY <1>4 DEF Spread, Known, Due
  <1>11. Spread(nb, g, n, h, last + 1)
    BY <1>4, <1>8, <1>9, <1>10 DEF Spread
  <1> QED
    BY <1>4, <1>11 DEF nb, q

\* Whoever knows no more than an older memory is due to hear the next
LEMMA DueAfresh ==
  ASSUME NEW cb \in ListState, NEW nb \in ListState, NEW g \in 0..MaxAdds, NEW h \in [1..MaxAdds -> Nat], Known(cb, g, h),
         nb.list = cb.list, cb.memory < nb.memory, nb.firingLength = Len(nb.list)
  PROVE  Known(nb, g, h) /\ Due(nb, g, 0, h)
  <1>0. /\ Len(cb.list) <= g /\ \A i \in 1..Len(cb.list) : cb.list[i] = User(g - Len(cb.list) + i)
        /\ \A i \in 1..MaxAdds : h[i] <= cb.memory
    BY DEF Known
  <1>1. cb.memory \in Nat /\ nb.memory \in Nat /\ MaxAdds \in Nat /\ g \in Nat /\ g <= MaxAdds
    BY ListFields, DeferredBounds
  <1>2. PICK m \in Nat : m = Len(cb.list)
    <2>1. cb.list \in Seq(Entry)
      BY ListFields
    <2>2. Len(cb.list) \in Nat
      BY <2>1, LenFacts
    <2> QED
      BY <2>2
  <1>3. \A i \in 1..MaxAdds : h[i] < nb.memory /\ h[i] <= nb.memory
    <2> SUFFICES ASSUME NEW i \in 1..MaxAdds PROVE h[i] < nb.memory /\ h[i] <= nb.memory
      OBVIOUS
    <2>1. h[i] <= cb.memory /\ h[i] \in Nat
      BY <1>0
    <2> QED
      BY <1>1, <2>1
  <1>4. Known(nb, g, h)
    BY <1>0, <1>3 DEF Known
  <1>5. m <= g
    BY <1>0, <1>2
  <1>6. \A i \in (0 + 1)..m : g - m + i \in 1..MaxAdds
    BY <1>1, <1>5
  <1>7. PICK k \in Nat : k = Len(nb.list) /\ k = m
    BY <1>2
  <1>8. Due(nb, g, 0, h)
    <2>1. \A i \in (0 + 1)..k : h[g - k + i] < nb.memory
      BY <1>3, <1>6, <1>7
    <2>2. 0 <= k /\ nb.firingLength = k
      BY <1>7
    <2> QED
      BY <1>7, <2>1, <2>2 DEF Due
  <1> QED
    BY <1>4, <1>8

LEMMA SpreadNewsFires ==
  ASSUME NEW cb \in ListState, NEW g \in 0..MaxAdds, NEW n, NEW h \in [1..MaxAdds -> Nat],
         NEW last \in 0..MaxNews, last < MaxNews, Spread(cb, g, n, h, last), cb.on, ~cb.firing
  PROVE  LET nb == FireBegun(cb, last + 1) IN
           /\ nb \in ListState /\ nb.firing /\ nb.on /\ nb.repeat = cb.repeat /\ nb.memory = last + 1
           /\ nb.firingIndex = 0 /\ Spread(nb, g, 0, h, last + 1)
  <1> DEFINE nb == FireBegun(cb, last + 1)
  <1>0. last \in Nat /\ last + 1 \in 1..MaxNews /\ last + 1 \in 0..(MaxNews + 1) /\ cb.firingStart = 0
    BY DeferredBounds DEF Spread
  <1>1. /\ nb \in ListState /\ nb.on = cb.on /\ nb.list = cb.list /\ nb.repeat = cb.repeat /\ nb.stack = cb.stack
        /\ nb.memory = last + 1 /\ nb.fired /\ nb.firing
        /\ nb.firingStart = 0 /\ nb.firingLength = Len(cb.list) /\ nb.firingIndex = cb.firingStart
    BY <1>0, FireBegunFacts
  <1> HIDE DEF nb
  <1>2. cb.memory <= last /\ Known(cb, g, h) /\ cb.stack = <<>>
    BY DEF Spread, InLine
  <1>3. cb.memory < nb.memory
    <2>1. cb.memory \in Nat
      BY StackFacts
    <2> QED
      BY <1>0, <1>1, <1>2, <2>1
  <1>4. Known(nb, g, h) /\ Due(nb, g, 0, h)
    BY <1>1, <1>2, <1>3, DueAfresh
  <1>5. InLine(nb, last + 1)
    <2>1. nb.stack = <<>> /\ Len(<<>>) = 0
      BY <1>1, <1>2
    <2> QED
      BY <2>1 DEF InLine
  <1>6. nb.memory # 0 /\ nb.memory <= last + 1
    BY <1>0, <1>1
  <1>7. Spread(nb, g, 0, h, last + 1)
    BY <1>1, <1>4, <1>5, <1>6 DEF Spread
  <1> QED
    BY <1>0, <1>1, <1>7 DEF nb

\* The next notification that waited
LEMMA SpreadNext ==
  ASSUME NEW cb \in ListState, NEW g \in 0..MaxAdds, NEW n, NEW h \in [1..MaxAdds -> Nat],
         NEW last \in 0..MaxNews, Spread(cb, g, n, h, last), cb.on, cb.firing, cb.stack # <<>>
  PROVE  LET nb == FireBegun([cb EXCEPT !.stack = Tail(cb.stack)], Head(cb.stack)) IN
           /\ nb \in ListState /\ nb.firing /\ nb.on /\ nb.repeat = cb.repeat /\ nb.memory = Head(cb.stack)
           /\ Head(cb.stack) \in 1..MaxNews
           /\ nb.firingIndex = 0 /\ Spread(nb, g, 0, h, last)
  <1> DEFINE q  == Tail(cb.stack)
             d  == Head(cb.stack)
             sb == [cb EXCEPT !.stack = q]
             nb == FireBegun(sb, d)
             m  == Len(cb.stack)
  <1>1. /\ cb.stack \in Seq(1..MaxNews) /\ cb.memory \in Nat /\ \A i \in 1..m : cb.stack[i] \in Nat
    BY StackFacts
  <1>2. /\ q \in Seq(1..MaxNews) /\ Len(q) = m - 1 /\ m \in Nat \ {0} /\ d = cb.stack[1] /\ d \in 1..MaxNews
        /\ \A i \in 1..(m - 1) : q[i] = cb.stack[i + 1]
    BY <1>1, TailFacts
  <1>3. /\ cb.firingStart = 0 /\ Known(cb, g, h) /\ cb.repeat
        /\ \A i \in 1..m : cb.memory < cb.stack[i] /\ cb.stack[i] <= last
        /\ \A i, j \in 1..m : i < j => cb.stack[i] < cb.stack[j]
    BY DEF Spread, InLine
  <1> HIDE DEF q, d, m
  <1>4. /\ sb \in ListState /\ sb.on = cb.on /\ sb.list = cb.list /\ sb.repeat = cb.repeat /\ sb.stack = q
        /\ sb.firingStart = cb.firingStart
    BY <1>2, StackChanged
  <1> HIDE DEF sb
  <1>5. d \in 0..(MaxNews + 1) /\ d # 0 /\ d \in Nat /\ MaxNews \in Nat
    BY <1>2, DeferredBounds
  <1>6. /\ nb \in ListState /\ nb.on = sb.on /\ nb.list = sb.list /\ nb.repeat = sb.repeat /\ nb.stack = sb.stack
        /\ nb.memory = d /\ nb.fired /\ nb.firing
        /\ nb.firingStart = 0 /\ nb.firingLength = Len(sb.list) /\ nb.firingIndex = sb.firingStart
    BY <1>4, <1>5, FireBegunFacts
  <1> HIDE DEF nb
  <1>7. 1 \in 1..m /\ \A i \in 1..(m - 1) : i + 1 \in 1..m /\ 1 < i + 1
    BY <1>2
  <1>8. cb.memory < d /\ d <= last
    BY <1>2, <1>3, <1>7
  <1>9. Known(nb, g, h) /\ Due(nb, g, 0, h)
    <2>1. nb.list = cb.list /\ cb.memory < nb.memory /\ nb.firingLength = Len(nb.list)
      BY <1>4, <1>6, <1>8
    <2> QED
      BY <1>3, <1>6, <2>1, DueAfresh
  <1>10. \A i \in 1..(m - 1) : d < q[i] /\ q[i] <= last
    BY <1>2, <1>3, <1>7
  <1>11. \A i, j \in 1..(m - 1) : i < j => q[i] < q[j]
    <2> SUFFICES ASSUME NEW i \in 1..(m - 1), NEW j \in 1..(m - 1), i < j PROVE q[i] < q[j]
      OBVIOUS
    <2>1. i + 1 \in 1..m /\ j + 1 \in 1..m /\ i + 1 < j + 1
      BY <1>2
    <2>2. cb.stack[i + 1] < cb.stack[j + 1]
      BY <1>3, <2>1
    <2> QED
      BY <1>2, <2>2
  <1>12. InLine(nb, last)
    <2>1. nb.stack = q /\ Len(q) = m - 1 /\ nb.memory = d /\ nb.firing /\ nb.repeat
      BY <1>2, <1>3, <1>4, <1>6
    <2> QED
      BY <1>10, <1>11, <2>1 DEF InLine
  <1>13. \A i \in 1..MaxAdds : i > g => h[i] = 0
    BY DEF Spread
  <1>14. Spread(nb, g, 0, h, last)
    BY <1>4, <1>5, <1>6, <1>8, <1>9, <1>12, <1>13 DEF Spread
  <1> QED
    BY <1>2, <1>3, <1>4, <1>6, <1>14 DEF nb, sb, q, d

LEMMA LaterPlaces ==
  ASSUME NEW g \in Nat, NEW m \in Nat, NEW k \in Nat, NEW b \in Nat, m <= g, g <= b
  PROVE  \A i \in (k + 1 + 1)..m : g - m + i \in 1..b /\ g - m + i # g - m + (k + 1) /\ i \in (k + 1)..m
  OBVIOUS

\* A progress callback is called: it has not heard of that, nor of anything later
LEMMA SpreadTell ==
  ASSUME NEW cb \in ListState, NEW g \in 0..MaxAdds, NEW h \in [1..MaxAdds -> Nat],
         NEW last \in 0..MaxNews, Spread(cb, g, cb.firingIndex, h, last), cb.on, cb.firing, InRange(cb)
  PROVE  LET c == Current(cb).id IN
           /\ Current(cb).does = "user" /\ c \in 1..MaxAdds /\ c <= g
           /\ h[c] < cb.memory /\ cb.memory <= last
           /\ Spread(cb, g, cb.firingIndex + 1, [h EXCEPT ![c] = cb.memory], last)
  <1> DEFINE k == cb.firingIndex
  <1>0. g \in Nat /\ MaxAdds \in Nat /\ g <= MaxAdds /\ k \in Nat /\ cb.memory \in Nat
    BY DeferredBounds, ListFields
  <1>1. Known(cb, g, h) /\ Due(cb, g, k, h) /\ cb.memory <= last
    BY DEF Spread
  <1> HIDE DEF k
  <1>2. PICK m \in Nat : m = Len(cb.list)
    <2>1. cb.list \in Seq(Entry)
      BY ListFields
    <2>2. Len(cb.list) \in Nat
      BY <2>1, LenFacts
    <2> QED
      BY <2>2
  <1>3. /\ m <= g /\ \A i \in 1..m : cb.list[i] = User(g - m + i)
        /\ \A i \in 1..MaxAdds : h[i] <= cb.memory
    BY <1>1, <1>2, Zenon DEF Known
  <1>4. /\ cb.firingLength = m /\ k <= m /\ \A i \in (k + 1)..m : h[g - m + i] < cb.memory
    BY <1>1, <1>2, Zenon DEF Due
  <1>5. k < m
    BY <1>4 DEF InRange, k
  <1> DEFINE c == g - m + (k + 1)
             t == [h EXCEPT ![c] = cb.memory]
  <1>6. k + 1 \in 1..m /\ k + 1 \in (k + 1)..m /\ c \in 1..MaxAdds /\ c <= g
    BY <1>0, <1>3, <1>5
  <1>7. cb.list[k + 1] = User(c) /\ h[c] < cb.memory
    BY <1>3, <1>4, <1>6
  <1>8. Current(cb) = User(c)
    BY <1>7 DEF Current, k
  <1>9. Current(cb).does = "user" /\ Current(cb).id = c
    BY <1>8 DEF User
  <1>10. \A i \in 1..MaxAdds : t[i] = IF i = c THEN cb.memory ELSE h[i]
    BY <1>6
  <1>11. \A i \in (k + 1 + 1)..m : g - m + i \in 1..MaxAdds /\ g - m + i # c /\ i \in (k + 1)..m
    BY <1>0, <1>3, LaterPlaces
  <1> HIDE DEF t, c
  <1>12. \A i \in (k + 1 + 1)..m : t[g - m + i] < cb.memory
    BY <1>4, <1>10, <1>11
  <1>13. Due(cb, g, k + 1, t)
    <2>1. cb.firingLength = Len(cb.list) /\ k + 1 <= Len(cb.list)
      BY <1>0, <1>2, <1>4, <1>5
    <2>2. \A i \in (k + 1 + 1)..Len(cb.list) : t[g - Len(cb.list) + i] < cb.memory
      BY <1>2, <1>12, Zenon
    <2> QED
      BY <2>1, <2>2, Zenon DEF Due
  <1>14. Known(cb, g, t)
    <2>1. \A i \in 1..MaxAdds : t[i] <= cb.memory
      BY <1>0, <1>3, <1>10
    <2> QED
      BY <1>1, <2>1 DEF Known
  <1>15. \A i \in 1..MaxAdds : i > g => t[i] = 0
    BY <1>0, <1>6, <1>10 DEF Spread
  <1>16. Spread(cb, g, k + 1, t, last)
    BY <1>13, <1>14, <1>15 DEF Spread
  <1> QED
    BY <1>1, <1>6, <1>7, <1>9, <1>16 DEF t, k

LEMMA SpreadRests ==
  ASSUME NEW cb \in ListState, NEW g \in 0..MaxAdds, NEW n, NEW h, NEW last,
         Spread(cb, g, n, h, last), cb.on, cb.firing, cb.stack = <<>>, NEW k
  PROVE  LET nb == Rested(cb) IN
           /\ nb \in ListState /\ ~nb.firing /\ nb.on /\ nb.repeat = cb.repeat /\ nb.memory = cb.memory
           /\ nb.fired = cb.fired /\ Spread(nb, g, k, h, last)
  <1> DEFINE nb == Rested(cb)
  <1>0. cb.memory # 0 /\ Known(cb, g, h) /\ g \in Nat
    BY DEF Spread
  <1>1. /\ nb \in ListState /\ nb.on /\ nb.repeat = cb.repeat /\ nb.stack = cb.stack /\ nb.memory = cb.memory
        /\ nb.fired = cb.fired /\ ~nb.firing /\ nb.firingStart = cb.firingStart
        /\ nb.list = IF cb.repeat THEN cb.list ELSE <<>>
    BY <1>0, RestedFacts
  <1> HIDE DEF nb
  <1>2. Known(nb, g, h)
    <2>1. CASE cb.repeat
      BY <1>0, <1>1, <2>1 DEF Known
    <2>2. CASE ~cb.repeat
      <3>1. nb.list = <<>> /\ Len(<<>>) = 0
        BY <1>1, <2>2
      <3>2. Len(nb.list) <= g /\ \A i \in 1..Len(nb.list) : FALSE
        BY <1>0, <3>1
      <3>3. \A i \in 1..MaxAdds : h[i] <= nb.memory
        BY <1>0, <1>1 DEF Known
      <3> QED
        BY <3>2, <3>3 DEF Known
    <2> QED
      BY <2>1, <2>2
  <1>3. InLine(nb, last)
    <2>1. nb.stack = <<>> /\ Len(<<>>) = 0
      BY <1>1
    <2> QED
      BY <2>1 DEF InLine
  <1>4. Spread(nb, g, k, h, last)
    BY <1>0, <1>1, <1>2, <1>3 DEF Spread
  <1> QED
    BY <1>1, <1>4 DEF nb

LEMMA SpreadLocked ==
  ASSUME NEW cb \in ListState, NEW g, NEW n, NEW h, NEW last, Spread(cb, g, n, h, last), cb.on
  PROVE  LET nb == Locked(cb) IN
           /\ nb \in ListState /\ nb.firing = cb.firing /\ ~nb.repeat /\ nb.memory = cb.memory
           /\ nb.firingIndex = cb.firingIndex
           /\ nb.on => nb.fired
           /\ Spread(nb, g, n, h, last)
  <1> DEFINE nb == Locked(cb)
  <1>1. /\ nb \in ListState /\ ~nb.repeat /\ nb.stack = <<>>
        /\ nb.fired = cb.fired /\ nb.firing = cb.firing /\ nb.firingStart = cb.firingStart
        /\ nb.firingLength = cb.firingLength /\ nb.firingIndex = cb.firingIndex /\ nb.memory = cb.memory
        /\ cb.memory = 0 => ~nb.on
        /\ cb.memory # 0 => nb.on = cb.on /\ nb.list = cb.list
    BY LockedFacts
  <1> HIDE DEF nb
  <1>2. /\ cb.fired <=> cb.memory # 0
        /\ cb.firing => cb.memory # 0
        /\ cb.firingStart = 0 /\ cb.memory <= last /\ \A i \in 1..MaxAdds : i > g => h[i] = 0
    BY DEF Spread
  <1>6. /\ nb.fired <=> cb.memory # 0
        /\ nb.firing => cb.memory # 0
        /\ nb.firingStart = 0 /\ nb.memory <= last
    BY <1>1, <1>2
  <1>3. InLine(nb, last)
    <2>1. nb.stack = <<>> /\ Len(<<>>) = 0
      BY <1>1
    <2> QED
      BY <2>1 DEF InLine
  <1>4. CASE cb.memory = 0
    <2>1. ~nb.on /\ ~nb.firing
      BY <1>1, <1>4, <1>6
    <2>2. Spread(nb, g, n, h, last)
      BY <1>2, <1>3, <1>6, <2>1 DEF Spread
    <2> QED
      BY <1>1, <2>1, <2>2 DEF nb
  <1>5. CASE cb.memory # 0
    <2>1. nb.on /\ nb.list = cb.list
      BY <1>1, <1>5
    <2>2. Known(nb, g, h) /\ (nb.firing => Due(nb, g, n, h))
      BY <1>1, <2>1 DEF Spread, Known, Due
    <2> QED
      <3>1. Spread(nb, g, n, h, last)
        BY <1>1, <1>2, <1>3, <1>5, <1>6, <2>1, <2>2 DEF Spread
      <3> QED
        BY <1>1, <1>5, <1>6, <3>1 DEF nb
  <1> QED
    BY <1>4, <1>5 DEF nb

LEMMA DeferredTypes ==
  ASSUME DeferredTypeOK
  PROVE  /\ promise \in {"pending", "resolved", "rejected"} /\ cbs \in [Lists -> ListState] /\ frames \in Seq(Frame)
         /\ given \in [Lists -> 0..MaxAdds] /\ calls \in [Sides -> Seq(1..MaxAdds)] /\ news \in 0..MaxNews
         /\ heard \in [1..MaxAdds -> 0..MaxNews]
         /\ heard \in [1..MaxAdds -> Nat] /\ news \in Nat
  <1>1. heard \in [1..MaxAdds -> 0..MaxNews] /\ news \in 0..MaxNews
    BY DEF DeferredTypeOK
  <1>2. heard \in [1..MaxAdds -> Nat] /\ news \in Nat
    BY <1>1
  <1> QED
    BY <1>2 DEF DeferredTypeOK, ListState, Frame

LEMMA FrameFields ==
  /\ \A x \in Frame : x.of \in Lists /\ x.at \in {"loop", "body"} /\ x.data \in 1..(MaxNews + 1)
  /\ \A l \in Lists : \A a \in {"loop", "body"} : \A d \in 1..(MaxNews + 1) :
       LET x == [of |-> l, at |-> a, data |-> d] IN x \in Frame /\ x.of = l /\ x.at = a /\ x.data = d
  BY DEF Frame

LEMMA TopFacts ==
  ASSUME DeferredTypeOK
  PROVE  /\ Len(frames) \in Nat /\ (frames # <<>> <=> Len(frames) > 0)
         /\ \A i \in 1..Len(frames) : frames[i] \in Frame /\ frames[i].of \in Lists
                                      /\ frames[i].at \in {"loop", "body"} /\ frames[i].data \in 1..(MaxNews + 1)
         /\ frames # <<>> => Len(frames) \in 1..Len(frames) /\ Top = frames[Len(frames)]
  <1>1. frames \in Seq(Frame)
    BY DeferredTypes
  <1>2. Len(frames) \in Nat /\ (frames = <<>> <=> Len(frames) = 0) /\ \A i \in 1..Len(frames) : frames[i] \in Frame
    BY <1>1, LenFacts
  <1>3. \A i \in 1..Len(frames) : frames[i].of \in Lists /\ frames[i].at \in {"loop", "body"}
                                   /\ frames[i].data \in 1..(MaxNews + 1)
    BY <1>2, FrameFields
  <1>4. Len(frames) > 0 => Len(frames) \in 1..Len(frames)
    BY <1>2
  <1>5. frames # <<>> <=> Len(frames) > 0
    BY <1>2
  <1> QED
    BY <1>2, <1>3, <1>4, <1>5 DEF Top

LEMMA FiringFacts ==
  ASSUME DeferredTypeOK, FramesOK
  PROVE  /\ ScriptRuns <=> Firing = {}
         /\ \A l \in Firing : /\ l \in Lists /\ Firing = {l} /\ cbs[l].firing
                              /\ frames # <<>> /\ Top.of = l /\ Top.at = "loop"
  <1>1. ASSUME NEW l \in Firing
        PROVE  l \in Lists /\ Firing = {l} /\ cbs[l].firing /\ frames # <<>> /\ Top.of = l /\ Top.at = "loop"
    <2>1. l \in Lists /\ frames # <<>> /\ Top.of = l /\ Top.at = "loop"
      BY DEF Firing
    <2>2. Firing = {l}
      BY <2>1 DEF Firing
    <2>3. Len(frames) \in 1..Len(frames) /\ frames[Len(frames)].of = l
      BY <2>1, TopFacts
    <2>4. cbs[l].firing
      BY <2>1, <2>3 DEF FramesOK
    <2> QED
      BY <2>1, <2>2, <2>4
  <1>2. ScriptRuns => Firing = {}
    BY DEF ScriptRuns, Firing
  <1>3. ASSUME ~ScriptRuns PROVE Firing # {}
    <2>1. frames # <<>> /\ Top.at # "body"
      BY <1>3 DEF ScriptRuns
    <2>2. Top.of \in Lists /\ Top.at = "loop"
      BY <2>1, TopFacts
    <2> QED
      BY <2>1, <2>2 DEF Firing
  <1> QED
    BY <1>1, <1>2, <1>3

\* A list begins to fire
LEMMA FramesPushed ==
  ASSUME DeferredTypeOK, FramesOK, ScriptRuns, NEW l \in Lists, NEW d \in 1..(MaxNews + 1), ~cbs[l].firing,
         frames' = Push(l, d), cbs'[l].firing, \A m \in Lists : m # l => cbs'[m] = cbs[m],
         l = "progress" => cbs'[l].memory = d
  PROVE  FramesOK' /\ frames' \in Seq(Frame) /\ Firing' = {l}
  <1> DEFINE x == [of |-> l, at |-> "loop", data |-> d]
             n == Len(frames)
  <1>1. x \in Frame /\ x.of = l /\ x.at = "loop" /\ x.data = d
    BY FrameFields
  <1> HIDE DEF x
  <1>2. frames \in Seq(Frame) /\ n \in Nat /\ \A i \in 1..n : frames[i].at \in {"loop", "body"}
    BY DeferredTypes, TopFacts
  <1>3. frames' = Append(frames, x)
    BY DEF Push, x
  <1>4. /\ frames' \in Seq(Frame) /\ Len(frames') = n + 1 /\ frames' # <<>> /\ frames'[n + 1] = x
        /\ \A i \in 1..n : frames'[i] = frames[i]
    BY <1>1, <1>2, <1>3, AppendFacts
  <1>5. n > 0 => frames[n].at = "body"
    <2>1. n > 0 => frames # <<>> /\ Top = frames[n]
      BY TopFacts
    <2> QED
      BY <2>1 DEF ScriptRuns
  <1> HIDE DEF n
  <1>6. \A i \in 1..(n + 1) : i = n + 1 \/ i \in 1..n
    BY <1>2
  <1>6a. n + 1 \notin 1..n /\ n + 1 \in 1..(n + 1) /\ \A i \in 1..n : i \in 1..(n + 1) /\ i < n + 1 /\ (i < n \/ i = n)
    BY <1>2
  <1>7. /\ \A i \in 1..n : i < n => frames[i].at = "body"
        /\ \A i, j \in 1..n : frames[i].of = frames[j].of => i = j
        /\ \A m \in Lists : cbs[m].firing <=> \E i \in 1..n : frames[i].of = m
        /\ \A i \in 1..n : frames[i].of = "progress" /\ cbs["progress"].on => frames[i].data = cbs["progress"].memory
    BY DEF FramesOK, n
  <1>8. \A i \in 1..n : frames[i].of # l
    BY <1>7
  <1>9. \A i \in 1..(n + 1) : i < n + 1 => frames'[i].at = "body"
    BY <1>4, <1>5, <1>6, <1>6a, <1>7
  <1>10. \A i, j \in 1..(n + 1) : frames'[i].of = frames'[j].of => i = j
    BY <1>1, <1>4, <1>6, <1>7, <1>8
  <1>11. ASSUME NEW m \in Lists PROVE cbs'[m].firing <=> \E i \in 1..(n + 1) : frames'[i].of = m
    <2>1. CASE m = l
      BY <1>1, <1>4, <1>6a, <2>1
    <2>2. CASE m # l
      <3>1. cbs'[m] = cbs[m]
        BY <2>2
      <3>2. cbs[m].firing <=> \E i \in 1..n : frames[i].of = m
        BY <1>7
      <3>3. (\E i \in 1..n : frames[i].of = m) <=> \E i \in 1..(n + 1) : frames'[i].of = m
        BY <1>1, <1>4, <1>6, <1>6a, <2>2
      <3> QED
        BY <3>1, <3>2, <3>3
    <2> QED
      BY <2>1, <2>2
  <1>12. ASSUME NEW i \in 1..(n + 1), frames'[i].of = "progress", cbs'["progress"].on
         PROVE  frames'[i].data = cbs'["progress"].memory
    <2>1. CASE i = n + 1
      BY <1>1, <1>4, <1>12, <2>1
    <2>2. CASE i # n + 1
      <3>1. i \in 1..n /\ frames'[i] = frames[i] /\ frames[i].of # l
        BY <1>4, <1>6, <1>8, <2>2
      <3>2. cbs'["progress"] = cbs["progress"]
        BY <1>12, <3>1 DEF Lists
      <3> QED
        BY <1>7, <1>12, <3>1, <3>2
    <2> QED
      BY <2>1, <2>2
  <1>13. FramesOK'
    BY <1>4, <1>9, <1>10, <1>11, <1>12 DEF FramesOK
  <1>14. Firing' = {l}
    <2>1. Top' = x
      BY <1>4 DEF Top
    <2> QED
      BY <1>1, <1>4, <2>1 DEF Firing
  <1> QED
    BY <1>4, <1>13, <1>14

LEMMA FrontFacts ==
  ASSUME NEW S, NEW q \in Seq(S), Len(q) > 0
  PROVE  /\ SubSeq(q, 1, Len(q) - 1) \in Seq(S) /\ Len(SubSeq(q, 1, Len(q) - 1)) = Len(q) - 1
         /\ \A i \in 1..(Len(q) - 1) : SubSeq(q, 1, Len(q) - 1)[i] = q[i]
  <1> DEFINE m == Len(q) - 1
  <1>1. m \in Nat /\ m <= Len(q) /\ \A i \in 1..m : q[i] \in S
    OBVIOUS
  <1> HIDE DEF m
  <1>2. SubSeq(q, 1, m) = [i \in 1..m |-> q[i]]
    BY <1>1
  <1>3. SubSeq(q, 1, m) \in Seq(S) /\ Len(SubSeq(q, 1, m)) = m
    BY <1>1, <1>2
  <1>4. \A i \in 1..m : SubSeq(q, 1, m)[i] = q[i]
    BY <1>2
  <1> QED
    BY <1>3, <1>4 DEF m

\* The list that fired comes to rest
LEMMA FramesPopped ==
  ASSUME DeferredTypeOK, FramesOK, NEW l \in Firing, frames' = SubSeq(frames, 1, Len(frames) - 1),
         ~cbs'[l].firing, \A m \in Lists : m # l => cbs'[m] = cbs[m]
  PROVE  FramesOK' /\ frames' \in Seq(Frame) /\ Firing' = {}
  <1> DEFINE n == Len(frames)
  <1>1. /\ l \in Lists /\ frames # <<>> /\ Top.of = l
    BY FiringFacts
  <1>2. frames \in Seq(Frame) /\ n \in Nat /\ n > 0 /\ n \in 1..n /\ frames[n].of = l
    BY <1>1, DeferredTypes, TopFacts
  <1>3. /\ frames' \in Seq(Frame) /\ Len(frames') = n - 1 /\ \A i \in 1..(n - 1) : frames'[i] = frames[i]
    BY <1>2, FrontFacts
  <1>4. /\ \A i \in 1..n : i < n => frames[i].at = "body"
        /\ \A i, j \in 1..n : frames[i].of = frames[j].of => i = j
        /\ \A m \in Lists : cbs[m].firing <=> \E i \in 1..n : frames[i].of = m
        /\ \A i \in 1..n : frames[i].of = "progress" /\ cbs["progress"].on => frames[i].data = cbs["progress"].memory
    BY DEF FramesOK
  <1> HIDE DEF n
  <1>5. n - 1 \in Nat /\ \A i \in 1..(n - 1) : i \in 1..n /\ i < n /\ i # n
    BY <1>2
  <1>6. \A i \in 1..n : i = n \/ i \in 1..(n - 1)
    BY <1>2
  <1>7. \A i \in 1..(n - 1) : frames'[i].at = "body" /\ frames'[i].of # l
    BY <1>2, <1>3, <1>4, <1>5
  <1>8. \A i, j \in 1..(n - 1) : frames'[i].of = frames'[j].of => i = j
    BY <1>3, <1>4, <1>5
  <1>9. ASSUME NEW m \in Lists PROVE cbs'[m].firing <=> \E i \in 1..(n - 1) : frames'[i].of = m
    <2>1. CASE m = l
      BY <1>7, <2>1
    <2>2. CASE m # l
      <3>1. cbs'[m] = cbs[m]
        BY <2>2
      <3>2. cbs[m].firing <=> \E i \in 1..n : frames[i].of = m
        BY <1>4
      <3>3. (\E i \in 1..n : frames[i].of = m) <=> \E i \in 1..(n - 1) : frames'[i].of = m
        BY <1>2, <1>3, <1>5, <1>6, <2>2
      <3> QED
        BY <3>1, <3>2, <3>3
    <2> QED
      BY <2>1, <2>2
  <1>10. ASSUME NEW i \in 1..(n - 1), frames'[i].of = "progress", cbs'["progress"].on
         PROVE  frames'[i].data = cbs'["progress"].memory
    <2>1. frames'[i] = frames[i] /\ i \in 1..n /\ l # "progress"
      BY <1>3, <1>5, <1>7, <1>10
    <2>2. cbs'["progress"] = cbs["progress"]
      BY <2>1 DEF Lists
    <2> QED
      BY <1>4, <1>10, <2>1, <2>2
  <1>11. FramesOK'
    BY <1>3, <1>7, <1>8, <1>9, <1>10 DEF FramesOK
  <1>12. Firing' = {}
    <2>1. frames' # <<>> => Len(frames') \in 1..(n - 1)
      BY <1>3, <1>5, LenFacts
    <2>2. frames' # <<>> => Top'.at = "body"
      BY <1>3, <1>7, <2>1 DEF Top
    <2> QED
      BY <2>2 DEF Firing
  <1> QED
    BY <1>3, <1>11, <1>12

\* No list begins or ends to fire
LEMMA FramesStay ==
  ASSUME DeferredTypeOK, FramesOK, frames' \in Seq(Frame), Len(frames') = Len(frames),
         \A i \in 1..Len(frames) : frames'[i].of = frames[i].of,
         \A i \in 1..Len(frames) : i < Len(frames) => frames'[i].at = frames[i].at,
         \A m \in Lists : cbs'[m].firing <=> cbs[m].firing,
         \A i \in 1..Len(frames) :
           frames[i].of = "progress" /\ cbs'["progress"].on => frames'[i].data = cbs'["progress"].memory
  PROVE  FramesOK'
  <1> DEFINE n == Len(frames)
  <1>1. /\ \A i \in 1..n : i < n => frames[i].at = "body"
        /\ \A i, j \in 1..n : frames[i].of = frames[j].of => i = j
        /\ \A m \in Lists : cbs[m].firing <=> \E i \in 1..n : frames[i].of = m
    BY DEF FramesOK
  <1>2. \A i \in 1..n : i < n => frames'[i].at = "body"
    BY <1>1
  <1>3. \A i, j \in 1..n : frames'[i].of = frames'[j].of => i = j
    BY <1>1
  <1>4. \A m \in Lists : cbs'[m].firing <=> \E i \in 1..n : frames'[i].of = m
    BY <1>1
  <1> QED
    BY <1>2, <1>3, <1>4 DEF FramesOK

LEMMA FramesKept ==
  ASSUME DeferredTypeOK, FramesOK, frames' = frames,
         \A m \in Lists : cbs'[m].firing <=> cbs[m].firing,
         cbs'["progress"].on => cbs["progress"].on /\ cbs'["progress"].memory = cbs["progress"].memory
  PROVE  FramesOK' /\ frames' \in Seq(Frame) /\ Firing' = Firing
  <1>1. frames' \in Seq(Frame)
    BY DeferredTypes
  <1>2. \A i \in 1..Len(frames) :
          frames[i].of = "progress" /\ cbs'["progress"].on => frames'[i].data = cbs'["progress"].memory
    BY DEF FramesOK
  <1>3. FramesOK'
    BY <1>1, <1>2, FramesStay
  <1>4. Firing' = Firing
    BY DEF Firing, Top
  <1> QED
    BY <1>1, <1>3, <1>4

\* The loop calls a callback, or the callback returns
LEMMA FramesTurned ==
  ASSUME DeferredTypeOK, FramesOK, frames # <<>>, NEW a \in {"loop", "body"},
         frames' = [frames EXCEPT ![Len(frames)].at = a],
         \A m \in Lists : cbs'[m].firing <=> cbs[m].firing,
         cbs'["progress"].on => cbs["progress"].on /\ cbs'["progress"].memory = cbs["progress"].memory
  PROVE  FramesOK' /\ frames' \in Seq(Frame) /\ Firing' = IF a = "loop" THEN {Top.of} ELSE {}
  <1> DEFINE n == Len(frames)
             x == [frames[n] EXCEPT !.at = a]
  <1>1. /\ frames \in Seq(Frame) /\ n \in 1..n /\ n \in Nat /\ frames[n] \in Frame /\ Top = frames[n]
        /\ Top.of \in Lists
    BY DeferredTypes, TopFacts
  <1>2. x \in Frame /\ x.of = frames[n].of /\ x.data = frames[n].data /\ x.at = a
    BY <1>1 DEF Frame
  <1>3. frames' = [frames EXCEPT ![n] = x]
    OBVIOUS
  <1> HIDE DEF x
  <1>4. frames' \in Seq(Frame) /\ Len(frames') = n /\ frames' # <<>> /\ \A i \in 1..n : frames'[i] = IF i = n THEN x ELSE frames[i]
    BY <1>1, <1>2, <1>3
  <1>5. \A i \in 1..n : frames'[i].of = frames[i].of /\ frames'[i].data = frames[i].data
    BY <1>2, <1>4
  <1>6. \A i \in 1..n : i < n => frames'[i].at = frames[i].at
    BY <1>4
  <1>7. \A i \in 1..n :
          frames[i].of = "progress" /\ cbs'["progress"].on => frames'[i].data = cbs'["progress"].memory
    BY <1>5 DEF FramesOK
  <1>8. FramesOK'
    BY <1>4, <1>5, <1>6, <1>7, FramesStay
  <1>9. Firing' = IF a = "loop" THEN {Top.of} ELSE {}
    <2>1. Top' = x
      BY <1>1, <1>4 DEF Top
    <2> QED
      BY <1>1, <1>2, <1>4, <2>1 DEF Firing
  <1> QED
    BY <1>4, <1>8, <1>9

\* The loop begins anew with what waited
LEMMA FramesRenewed ==
  ASSUME DeferredTypeOK, FramesOK, NEW l \in Firing, NEW d \in 1..(MaxNews + 1),
         frames' = [frames EXCEPT ![Len(frames)].data = d],
         cbs'[l].firing, \A m \in Lists : m # l => cbs'[m] = cbs[m],
         l = "progress" => cbs'[l].memory = d
  PROVE  FramesOK' /\ frames' \in Seq(Frame) /\ Firing' = {l}
  <1> DEFINE n == Len(frames)
             x == [frames[n] EXCEPT !.data = d]
  <1>0. /\ l \in Lists /\ Firing = {l} /\ cbs[l].firing /\ frames # <<>> /\ Top.of = l /\ Top.at = "loop"
    BY FiringFacts
  <1>1. /\ frames \in Seq(Frame) /\ n \in 1..n /\ n \in Nat /\ frames[n] \in Frame /\ Top = frames[n]
    BY <1>0, DeferredTypes, TopFacts
  <1>2. x \in Frame /\ x.of = frames[n].of /\ x.data = d /\ x.at = frames[n].at
    BY <1>1 DEF Frame
  <1>3. frames' = [frames EXCEPT ![n] = x]
    OBVIOUS
  <1> HIDE DEF x
  <1>4. frames' \in Seq(Frame) /\ Len(frames') = n /\ frames' # <<>> /\ \A i \in 1..n : frames'[i] = IF i = n THEN x ELSE frames[i]
    BY <1>1, <1>2, <1>3
  <1>5. \A i \in 1..n : frames'[i].of = frames[i].of /\ frames'[i].at = frames[i].at
    BY <1>2, <1>4
  <1>6. \A m \in Lists : cbs'[m].firing <=> cbs[m].firing
    BY <1>0
  <1>7. ASSUME NEW i \in 1..n, frames[i].of = "progress", cbs'["progress"].on
        PROVE  frames'[i].data = cbs'["progress"].memory
    <2>1. CASE i = n
      BY <1>0, <1>1, <1>2, <1>4, <1>7, <2>1
    <2>2. CASE i # n
      <3>1. frames[i].of # frames[n].of /\ frames'[i] = frames[i]
        BY <1>1, <1>4, <2>2 DEF FramesOK
      <3>2. cbs'["progress"] = cbs["progress"]
        BY <1>0, <1>1, <1>7, <3>1 DEF Lists
      <3> QED
        BY <1>7, <3>1, <3>2 DEF FramesOK
    <2> QED
      BY <2>1, <2>2
  <1>8. FramesOK'
    BY <1>4, <1>5, <1>6, <1>7, FramesStay
  <1>9. Firing' = {l}
    <2>1. Top' = x
      BY <1>1, <1>4 DEF Top
    <2> QED
      BY <1>0, <1>1, <1>2, <1>4, <2>1 DEF Firing
  <1> QED
    BY <1>4, <1>8, <1>9

LEMMA SideFacts ==
  /\ \A s \in Sides : /\ s \in Lists /\ s # "progress" /\ Other(s) \in Sides /\ Other(s) \in Lists
                      /\ Other(s) # s /\ Other(s) # "progress" /\ Other(Other(s)) = s
                      /\ Settled(s) # "pending" /\ Settled(s) \in {"pending", "resolved", "rejected"}
                      /\ Settled(Other(s)) # Settled(s)
  /\ \A l \in Lists : l = "progress" \/ l \in Sides
  /\ \A s, r \in Sides : r = s \/ r = Other(s)
  /\ "progress" \in Lists /\ "progress" \notin Sides
  BY DEF Sides, Lists, Other, Settled

LEMMA DeferredTyped ==
  ASSUME promise' \in {"pending", "resolved", "rejected"}, cbs' \in [Lists -> ListState], frames' \in Seq(Frame),
         given' \in [Lists -> 0..MaxAdds], calls' \in [Sides -> Seq(1..MaxAdds)], news' \in 0..MaxNews,
         heard' \in [1..MaxAdds -> 0..MaxNews]
  PROVE  DeferredTypeOK'
  BY DEF DeferredTypeOK, ListState, Frame

LEMMA ScriptPhases ==
  ASSUME DeferredInv, ScriptRuns
  PROVE  Undecided \/ \E s \in Sides : Decided(s)
  <1>1. Firing = {}
    BY FiringFacts DEF DeferredInv
  <1> QED
    BY <1>1 DEF DeferredInv, Deciding

LEMMA PassedKept ==
  ASSUME NEW m, cbs'[m].firingIndex = cbs[m].firingIndex, m \in Firing' <=> m \in Firing
  PROVE  Passed(m)' = Passed(m)
  BY DEF Passed

\* The state and the lists after one list was given another state
LEMMA OneListChanged ==
  ASSUME cbs \in [Lists -> ListState], NEW l \in Lists, NEW nb \in ListState, cbs' = [cbs EXCEPT ![l] = nb]
  PROVE  /\ cbs' \in [Lists -> ListState] /\ cbs'[l] = nb
         /\ \A m \in Lists : m # l => cbs'[m] = cbs[m]
  OBVIOUS

\* What the four ways to register a callback leave
LEMMA RegisterWays ==
  ASSUME DeferredInv, NEW l \in Lists, Register(l)
  PROVE  LET cb == cbs[l]
             n  == given[l] + 1
         IN  /\ cb \in ListState /\ given[l] \in 0..MaxAdds /\ given[l] < MaxAdds
             /\ given' = [given EXCEPT ![l] = n] /\ UNCHANGED <<promise, calls, news, heard>> /\ Firing = {}
             /\ \/ ~cb.on /\ cbs' = cbs /\ frames' = frames
                \/ /\ cb.on /\ cb.firing /\ frames' = frames
                   /\ cbs' = [cbs EXCEPT ![l] = [Longer(cb, n) EXCEPT !.firingLength = Len(Longer(cb, n).list)]]
                \/ /\ cb.on /\ ~cb.firing /\ cb.memory # 0 /\ frames' = Push(l, cb.memory)
                   /\ cb.memory \in 1..(MaxNews + 1)
                   /\ cbs' = [cbs EXCEPT ![l] = Newcomer(cb, n)]
                \/ /\ cb.on /\ ~cb.firing /\ cb.memory = 0 /\ frames' = frames
                   /\ cbs' = [cbs EXCEPT ![l] = Longer(cb, n)]
  <1>1. cbs[l] \in ListState /\ given[l] \in 0..MaxAdds
    BY DeferredTypes DEF DeferredInv
  <1>2. given[l] < MaxAdds /\ Firing = {} /\ UNCHANGED <<promise, calls, news, heard>>
    BY FiringFacts DEF DeferredInv, Register
  <1>3. given' = [given EXCEPT ![l] = given[l] + 1]
    BY DEF Register
  <1>4. cbs[l].memory \in 0..(MaxNews + 1) /\ (cbs[l].memory # 0 => cbs[l].memory \in 1..(MaxNews + 1))
    BY <1>1, ListFields
  <1> QED
    BY <1>1, <1>2, <1>3, <1>4 DEF Register, Longer, Newcomer

\* What registering leaves of the stack and of the lists
LEMMA RegisterFrames ==
  ASSUME DeferredInv, NEW l \in Lists, Register(l)
  PROVE  /\ cbs' \in [Lists -> ListState] /\ frames' \in Seq(Frame) /\ FramesOK'
         /\ \A m \in Lists : m # l => cbs'[m] = cbs[m] /\ given'[m] = given[m] /\ Passed(m)' = Passed(m)
         /\ given' \in [Lists -> 0..MaxAdds] /\ given'[l] = given[l] + 1
         /\ \/ cbs'[l].firing = cbs[l].firing /\ Passed(l)' = Passed(l) /\ Firing' = {}
            \/ ~cbs[l].firing /\ Firing' = {l} /\ Passed(l)' = cbs'[l].firingIndex
  <1> DEFINE cb == cbs[l]
             n == given[l] + 1
  <1>1. /\ cb \in ListState /\ given[l] \in 0..MaxAdds /\ given[l] < MaxAdds
        /\ given' = [given EXCEPT ![l] = n] /\ Firing = {}
    BY RegisterWays
  <1>2. cbs \in [Lists -> ListState] /\ given \in [Lists -> 0..MaxAdds] /\ DeferredTypeOK /\ FramesOK
    BY DeferredTypes DEF DeferredInv
  <1>3. n \in 0..MaxAdds
    BY <1>1, DeferredBounds
  <1>4. given' \in [Lists -> 0..MaxAdds] /\ given'[l] = n /\ \A m \in Lists : m # l => given'[m] = given[m]
    BY <1>1, <1>2, <1>3
  <1>5. ASSUME NEW nb \in ListState, cbs' = [cbs EXCEPT ![l] = nb], frames' = frames,
               nb.firing = cb.firing, nb.firingIndex = cb.firingIndex, nb.on = cb.on, nb.memory = cb.memory
        PROVE  /\ cbs' \in [Lists -> ListState] /\ frames' \in Seq(Frame) /\ FramesOK'
               /\ \A m \in Lists : m # l => cbs'[m] = cbs[m] /\ Passed(m)' = Passed(m)
               /\ cbs'[l].firing = cbs[l].firing /\ Passed(l)' = Passed(l) /\ Firing' = {}
    <2>1. cbs' \in [Lists -> ListState] /\ cbs'[l] = nb /\ \A m \in Lists : m # l => cbs'[m] = cbs[m]
      BY <1>2, <1>5, OneListChanged
    <2>2. \A m \in Lists : /\ cbs'[m].firing = cbs[m].firing /\ cbs'[m].firingIndex = cbs[m].firingIndex
                           /\ cbs'[m].on = cbs[m].on /\ cbs'[m].memory = cbs[m].memory
      BY <1>5, <2>1
    <2>3. FramesOK' /\ frames' \in Seq(Frame) /\ Firing' = Firing
      <3>1. \A m \in Lists : cbs'[m].firing <=> cbs[m].firing
        BY <2>2
      <3>2. cbs'["progress"].on => cbs["progress"].on /\ cbs'["progress"].memory = cbs["progress"].memory
        BY <2>2, SideFacts
      <3> QED
        BY <1>2, <1>5, <3>1, <3>2, FramesKept
    <2>4. \A m \in Lists : Passed(m)' = Passed(m)
      BY <2>2, <2>3 DEF Passed
    <2> QED
      BY <1>1, <1>5, <2>1, <2>3, <2>4
  <1>6. CASE ~cb.on /\ cbs' = cbs /\ frames' = frames
    <2>1. cbs' = [cbs EXCEPT ![l] = cb]
      BY <1>2, <1>6
    <2> QED
      BY <1>1, <1>4, <1>5, <1>6, <2>1
  <1>7. CASE /\ cb.on /\ cb.firing /\ frames' = frames
             /\ cbs' = [cbs EXCEPT ![l] = [Longer(cb, n) EXCEPT !.firingLength = Len(Longer(cb, n).list)]]
    <2> DEFINE nb == [Longer(cb, n) EXCEPT !.firingLength = Len(Longer(cb, n).list)]
    <2>1. /\ Longer(cb, n) \in ListState /\ Longer(cb, n).firing = cb.firing
          /\ Longer(cb, n).firingIndex = cb.firingIndex /\ Longer(cb, n).on = cb.on
          /\ Longer(cb, n).memory = cb.memory /\ Longer(cb, n).list \in Seq(Entry)
      BY <1>1, <1>3, LongerFacts
    <2>2. Len(Longer(cb, n).list) \in Nat
      BY <2>1, LenFacts
    <2>3. nb \in ListState /\ nb.firing = cb.firing /\ nb.firingIndex = cb.firingIndex /\ nb.on = cb.on
          /\ nb.memory = cb.memory
      BY <2>1, <2>2, LengthChanged
    <2> HIDE DEF nb
    <2>4. cbs' = [cbs EXCEPT ![l] = nb]
      BY <1>7 DEF nb
    <2> QED
      BY <1>4, <1>5, <1>7, <2>3, <2>4
  <1>8. CASE /\ cb.on /\ ~cb.firing /\ cb.memory # 0 /\ frames' = Push(l, cb.memory)
             /\ cb.memory \in 1..(MaxNews + 1)
             /\ cbs' = [cbs EXCEPT ![l] = Newcomer(cb, n)]
    <2>1. Newcomer(cb, n) \in ListState /\ Newcomer(cb, n).firing /\ Newcomer(cb, n).memory = cb.memory
      BY <1>1, <1>3, NewcomerFacts
    <2>2. /\ cbs' \in [Lists -> ListState] /\ cbs'[l] = Newcomer(cb, n)
          /\ \A m \in Lists : m # l => cbs'[m] = cbs[m]
      BY <1>2, <1>8, <2>1, OneListChanged
    <2>3. cbs'[l].firing /\ (l = "progress" => cbs'[l].memory = cb.memory) /\ ScriptRuns
      BY <2>1, <2>2 DEF Register
    <2>4. FramesOK' /\ frames' \in Seq(Frame) /\ Firing' = {l}
      BY <1>2, <1>8, <2>2, <2>3, FramesPushed
    <2>5. \A m \in Lists : m # l => Passed(m)' = Passed(m)
      BY <1>1, <2>2, <2>4 DEF Passed
    <2>6. cbs'[l].firingIndex \in Nat
      BY <2>2, ListFields
    <2>7. Passed(l)' = cbs'[l].firingIndex
      BY <2>4, <2>6 DEF Passed
    <2> QED
      BY <1>4, <1>8, <2>2, <2>4, <2>5, <2>7
  <1>9. CASE /\ cb.on /\ ~cb.firing /\ cb.memory = 0 /\ frames' = frames
             /\ cbs' = [cbs EXCEPT ![l] = Longer(cb, n)]
    <2>1. /\ Longer(cb, n) \in ListState /\ Longer(cb, n).firing = cb.firing
          /\ Longer(cb, n).firingIndex = cb.firingIndex /\ Longer(cb, n).on = cb.on
          /\ Longer(cb, n).memory = cb.memory
      BY <1>1, <1>3, LongerFacts
    <2> QED
      BY <1>4, <1>5, <1>9, <2>1
  <1> QED
    BY <1>6, <1>7, <1>8, <1>9, RegisterWays

\* What may happen to a side when a callback is registered with it
LEMMA RegisterSide ==
  ASSUME DeferredInv, NEW s \in Sides, Register(s)
  PROVE  /\ Fresh(cbs[s], given[s], calls[s]) => Fresh(cbs'[s], given'[s], calls[s])
         /\ Off(cbs[s], calls[s]) => Off(cbs'[s], calls[s])
         /\ Chosen(cbs[s], given[s], calls[s], Passed(s)) => Chosen(cbs'[s], given'[s], calls[s], Passed(s)')
  <1> DEFINE cb == cbs[s]
             g == given[s]
  <1>1. /\ s \in Lists /\ cb \in ListState /\ g \in 0..MaxAdds /\ g < MaxAdds /\ given'[s] = g + 1
        /\ cbs \in [Lists -> ListState]
    BY SideFacts, RegisterWays, RegisterFrames, DeferredTypes DEF DeferredInv
  <1>1a. g + 1 \in 0..MaxAdds
    BY <1>1, DeferredBounds
  <1>2. CASE ~cb.on /\ cbs' = cbs
    BY <1>2 DEF Fresh, Chosen, Off
  <1>3. CASE /\ cb.on /\ cb.firing
             /\ cbs' = [cbs EXCEPT ![s] = [Longer(cb, g + 1) EXCEPT !.firingLength = Len(Longer(cb, g + 1).list)]]
    <2> DEFINE nb == [Longer(cb, g + 1) EXCEPT !.firingLength = Len(Longer(cb, g + 1).list)]
    <2>1. ASSUME Chosen(cb, g, calls[s], Passed(s))
          PROVE  nb.firing /\ nb.firingIndex = cb.firingIndex /\ Chosen(nb, g + 1, calls[s], Passed(s))
      <3>1. Passed(s) \in Nat
        BY <1>1, ListFields DEF Passed
      <3> QED
        BY <1>1, <1>3, <2>1, <3>1, ChosenAddFiring
    <2> HIDE DEF nb
    <2>2. cbs'[s] = nb
      BY <1>1, <1>3 DEF nb
    <2>3. ASSUME Chosen(cb, g, calls[s], Passed(s))
          PROVE  Chosen(cbs'[s], given'[s], calls[s], Passed(s)')
      <3>1. cbs'[s] = nb /\ Chosen(nb, g + 1, calls[s], Passed(s))
        BY <2>1, <2>2, <2>3
      <3>4. Passed(s)' = Passed(s)
        BY <1>1, <1>3, RegisterFrames
      <3> QED
        BY <1>1, <3>1, <3>4
    <2> QED
      BY <1>3, <2>3 DEF Fresh, Off
  <1>4. CASE /\ cb.on /\ ~cb.firing /\ cb.memory # 0 /\ cbs' = [cbs EXCEPT ![s] = Newcomer(cb, g + 1)]
    <2>1. cbs'[s] = Newcomer(cb, g + 1) /\ Newcomer(cb, g + 1).firing
      BY <1>1, <1>1a, <1>4, NewcomerFacts
    <2>2. Passed(s)' = cbs'[s].firingIndex
      BY <1>1, <1>4, <2>1, RegisterFrames
    <2>3. ASSUME Chosen(cb, g, calls[s], Passed(s))
          PROVE  Chosen(cbs'[s], given'[s], calls[s], Passed(s)')
      <3>1. Chosen(Newcomer(cb, g + 1), g + 1, calls[s], Newcomer(cb, g + 1).firingIndex)
        BY <1>1, <1>4, <2>3, ChosenAddResting
      <3> QED
        BY <1>1, <2>1, <2>2, <3>1
    <2> QED
      BY <1>4, <2>3 DEF Fresh, Off
  <1>5. CASE /\ cb.on /\ ~cb.firing /\ cb.memory = 0 /\ cbs' = [cbs EXCEPT ![s] = Longer(cb, g + 1)]
    <2>1. cbs'[s] = Longer(cb, g + 1)
      BY <1>1, <1>5
    <2>2. Fresh(cb, g, calls[s]) => Fresh(Longer(cb, g + 1), g + 1, calls[s])
      BY <1>1, FreshAdd
    <2> QED
      BY <1>1, <1>5, <2>1, <2>2 DEF Chosen, Off
  <1> QED
    BY <1>1, <1>2, <1>3, <1>4, <1>5, RegisterWays

\* What may happen to the list "progress" when a callback is registered with it
LEMMA RegisterProgress ==
  ASSUME DeferredInv, Register("progress")
  PROVE  /\ cbs'["progress"].on = cbs["progress"].on /\ cbs'["progress"].repeat = cbs["progress"].repeat
         /\ cbs["progress"].fired => cbs'["progress"].fired
         /\ Spread(cbs'["progress"], given'["progress"], Passed("progress")', heard, news)
  <1> DEFINE cb == cbs["progress"]
             g == given["progress"]
             n == Passed("progress")
  <1>1. /\ "progress" \in Lists /\ cb \in ListState /\ g \in 0..MaxAdds /\ g < MaxAdds /\ given'["progress"] = g + 1
        /\ cbs \in [Lists -> ListState]
    BY SideFacts, RegisterWays, RegisterFrames, DeferredTypes DEF DeferredInv
  <1>1a. g + 1 \in 0..MaxAdds /\ g \in Nat
    BY <1>1, DeferredBounds
  <1>1b. n \in Nat /\ Spread(cb, g, n, heard, news)
    BY <1>1, ListFields DEF Passed, DeferredInv
  <1>2. CASE ~cb.on /\ cbs' = cbs /\ frames' = frames
    <2>1. Passed("progress")' = n
      BY <1>2 DEF Passed, Firing, Top
    <2>2. Spread(cb, g + 1, n, heard, news)
      BY <1>1a, <1>1b, <1>2, SpreadAddOff
    <2> QED
      BY <1>1, <1>2, <2>1, <2>2
  <1>3. CASE /\ cb.on /\ cb.firing /\ frames' = frames
             /\ cbs' = [cbs EXCEPT !["progress"] =
                          [Longer(cb, g + 1) EXCEPT !.firingLength = Len(Longer(cb, g + 1).list)]]
    <2> DEFINE nb == [Longer(cb, g + 1) EXCEPT !.firingLength = Len(Longer(cb, g + 1).list)]
    <2>1. /\ nb.firingIndex = cb.firingIndex
          /\ nb.on = cb.on /\ nb.memory = cb.memory /\ nb.repeat = cb.repeat /\ nb.fired = cb.fired
          /\ Spread(nb, g + 1, n, heard, news)
      BY <1>1, <1>1b, <1>3, SpreadAddFiring
    <2> HIDE DEF nb
    <2>2. cbs'["progress"] = nb
      BY <1>1, <1>3 DEF nb
    <2>3. Passed("progress")' = n
      BY <1>3, <2>1, <2>2 DEF Passed, Firing, Top
    <2> QED
      BY <1>1, <2>1, <2>2, <2>3
  <1>4. CASE /\ cb.on /\ ~cb.firing /\ cb.memory # 0 /\ cbs' = [cbs EXCEPT !["progress"] = Newcomer(cb, g + 1)]
    <2>1. /\ cbs'["progress"] = Newcomer(cb, g + 1) /\ Newcomer(cb, g + 1).firing /\ Newcomer(cb, g + 1).fired
          /\ Newcomer(cb, g + 1).on = cb.on /\ Newcomer(cb, g + 1).repeat = cb.repeat
      BY <1>1, <1>1a, <1>4, NewcomerFacts
    <2>2. Passed("progress")' = cbs'["progress"].firingIndex
      BY <1>1, <1>4, <2>1, RegisterFrames
    <2>3. Spread(Newcomer(cb, g + 1), g + 1, Newcomer(cb, g + 1).firingIndex, heard, news)
      BY <1>1, <1>1b, <1>4, SpreadAddResting
    <2> QED
      BY <1>1, <2>1, <2>2, <2>3
  <1>5. CASE /\ cb.on /\ ~cb.firing /\ cb.memory = 0 /\ frames' = frames
             /\ cbs' = [cbs EXCEPT !["progress"] = Longer(cb, g + 1)]
    <2>1. /\ cbs'["progress"] = Longer(cb, g + 1) /\ Longer(cb, g + 1).on = cb.on
          /\ Longer(cb, g + 1).repeat = cb.repeat /\ Longer(cb, g + 1).fired = cb.fired
          /\ Longer(cb, g + 1).firingIndex = cb.firingIndex
      BY <1>1, <1>1a, <1>5, LongerFacts
    <2>2. Spread(Longer(cb, g + 1), g + 1, n, heard, news)
      BY <1>1, <1>1b, <1>5, SpreadAddQuiet
    <2>3. Passed("progress")' = n
      BY <1>5, <2>1 DEF Passed, Firing, Top
    <2> QED
      BY <1>1, <2>1, <2>2, <2>3
  <1> QED
    BY <1>1, <1>2, <1>3, <1>4, <1>5, RegisterWays

LEMMA RegisterInv ==
  ASSUME DeferredInv, NEW l \in Lists, Register(l)
  PROVE  DeferredInv'
  <1>1. /\ cbs' \in [Lists -> ListState] /\ frames' \in Seq(Frame) /\ FramesOK'
        /\ \A m \in Lists : m # l => cbs'[m] = cbs[m] /\ given'[m] = given[m] /\ Passed(m)' = Passed(m)
        /\ given' \in [Lists -> 0..MaxAdds]
    BY RegisterFrames
  <1>2. UNCHANGED <<promise, calls, news, heard>>
    BY RegisterWays
  <1>3. DeferredTypeOK'
    BY <1>1, <1>2, DeferredTypes, DeferredTyped DEF DeferredInv
  <1>4. ASSUME NEW s \in Sides
        PROVE  /\ Fresh(cbs[s], given[s], calls[s]) => Fresh(cbs'[s], given'[s], calls'[s])
               /\ Off(cbs[s], calls[s]) => Off(cbs'[s], calls'[s])
               /\ Chosen(cbs[s], given[s], calls[s], Passed(s)) => Chosen(cbs'[s], given'[s], calls'[s], Passed(s)')
    <2>1. CASE l = s
      BY <1>2, <2>1, RegisterSide
    <2>2. CASE l # s
      BY <1>1, <1>2, <2>2, SideFacts
    <2> QED
      BY <2>1, <2>2
  <1>5. /\ cbs'["progress"].on = cbs["progress"].on /\ cbs'["progress"].repeat = cbs["progress"].repeat
        /\ cbs["progress"].fired => cbs'["progress"].fired
        /\ Spread(cbs'["progress"], given'["progress"], Passed("progress")', heard', news')
    <2>1. CASE l = "progress"
      BY <1>2, <2>1, RegisterProgress
    <2>2. CASE l # "progress"
      BY <1>1, <1>2, <2>2, SideFacts DEF DeferredInv
    <2> QED
      BY <2>1, <2>2
  <1>6. Undecided => Undecided'
    BY <1>2, <1>4, <1>5 DEF Undecided
  <1>7. ASSUME NEW s \in Sides, Decided(s) PROVE Decided(s)'
    BY <1>2, <1>4, <1>5, <1>7, SideFacts DEF Decided
  <1>8. ScriptRuns
    BY DEF Register
  <1> QED
    BY <1>1, <1>3, <1>5, <1>6, <1>7, <1>8, ScriptPhases DEF DeferredInv

LEMMA SettleInv ==
  ASSUME DeferredInv, NEW s \in Sides, Settle(s)
  PROVE  DeferredInv'
  <1> DEFINE nb == FireBegun(cbs[s], 1)
  <1>1. /\ s \in Lists /\ s # "progress" /\ Other(s) \in Lists /\ Other(s) \in Sides /\ Other(s) # s
        /\ Other(s) # "progress" /\ "progress" \in Lists /\ Settled(s) # "pending"
    BY SideFacts
  <1>2. /\ cbs \in [Lists -> ListState] /\ DeferredTypeOK /\ FramesOK /\ cbs[s] \in ListState
        /\ given[s] \in 0..MaxAdds
    BY <1>1, DeferredTypes DEF DeferredInv
  <1>3. Firing = {} /\ ScriptRuns
    BY <1>2, FiringFacts DEF Settle
  <1>4. Accepts(cbs[s])
    BY DEF Settle, FireWith
  <1>5. Undecided
    <2>1. ASSUME NEW r \in Sides, Decided(r) PROVE FALSE
      <3>1. CASE s = r
        BY <1>4, <2>1, <3>1 DEF Decided, Chosen, Accepts
      <3>2. CASE s = Other(r)
        BY <1>4, <2>1, <3>2 DEF Decided, Off, Accepts
      <3> QED
        BY <3>1, <3>2, SideFacts
    <2> QED
      BY <1>3, <2>1, ScriptPhases
  <1>6. Fresh(cbs[s], given[s], calls[s]) /\ ~cbs[s].firing
    BY <1>5 DEF Undecided, Fresh
  <1>7. Underway(nb, given[s], calls[s], 0)
    BY <1>2, <1>6, FreshBegun
  <1>8. 1 \in 0..(MaxNews + 1) /\ 1 \in 1..(MaxNews + 1)
    BY DeferredBounds
  <1>9. nb \in ListState /\ nb.firing
    BY <1>2, <1>8, FireBegunFacts
  <1>10. /\ cbs' = [cbs EXCEPT ![s] = nb] /\ frames' = Push(s, 1)
         /\ UNCHANGED <<promise, given, calls, news, heard>>
    BY <1>6 DEF Settle, FireWith
  <1> HIDE DEF nb
  <1>11. cbs' \in [Lists -> ListState] /\ cbs'[s] = nb /\ \A m \in Lists : m # s => cbs'[m] = cbs[m]
    BY <1>1, <1>2, <1>9, <1>10, OneListChanged
  <1>12. FramesOK' /\ frames' \in Seq(Frame) /\ Firing' = {s}
    <2>1. cbs'[s].firing
      BY <1>9, <1>11
    <2> QED
      BY <1>1, <1>2, <1>3, <1>6, <1>8, <1>10, <1>11, <2>1, FramesPushed
  <1>13. DeferredTypeOK'
    BY <1>2, <1>10, <1>11, <1>12, DeferredTypes, DeferredTyped
  <1>14. cbs'["progress"] = cbs["progress"] /\ cbs'[Other(s)] = cbs[Other(s)]
    BY <1>1, <1>11
  <1>15. Deciding(s, 0)'
    <2>1. Fresh(cbs'[Other(s)], given'[Other(s)], calls'[Other(s)])
      BY <1>1, <1>5, <1>10, <1>14 DEF Undecided
    <2>2. Underway(cbs'[s], given'[s], calls'[s], 0)
      BY <1>7, <1>10, <1>11
    <2>3. promise' = "pending" /\ cbs'["progress"].on /\ cbs'["progress"].repeat
      BY <1>5, <1>10, <1>14 DEF Undecided
    <2> QED
      BY <1>12, <2>1, <2>2, <2>3 DEF Deciding
  <1>16. Passed("progress")' = Passed("progress")
    BY <1>1, <1>3, <1>12, <1>14 DEF Passed
  <1>17. Spread(cbs'["progress"], given'["progress"], Passed("progress")', heard', news')
    BY <1>10, <1>14, <1>16 DEF DeferredInv
  <1> QED
    BY <1>12, <1>13, <1>15, <1>17 DEF DeferredInv

LEMMA NotifyInv ==
  ASSUME DeferredInv, Notify
  PROVE  DeferredInv' /\ promise = "pending"
  <1> DEFINE cb == cbs["progress"]
             g == given["progress"]
             n == Passed("progress")
  <1>1. "progress" \in Lists /\ \A s \in Sides : s \in Lists /\ s # "progress"
    BY SideFacts
  <1>2. /\ cbs \in [Lists -> ListState] /\ DeferredTypeOK /\ FramesOK /\ cb \in ListState
        /\ g \in 0..MaxAdds /\ heard \in [1..MaxAdds -> Nat] /\ news \in 0..MaxNews
    BY <1>1, DeferredTypes DEF DeferredInv
  <1>3. Firing = {} /\ ScriptRuns /\ news < MaxNews
    BY <1>2, FiringFacts DEF Notify
  <1>4. news + 1 \in 0..MaxNews /\ news + 1 \in 1..(MaxNews + 1)
    BY <1>2, <1>3, DeferredBounds
  <1>5. Undecided
    <2>1. ASSUME NEW r \in Sides, Decided(r) PROVE FALSE
      BY <2>1 DEF Decided, Notify, FireWith, Accepts
    <2> QED
      BY <1>3, <2>1, ScriptPhases
  <1>6. cb.on /\ cb.repeat /\ Spread(cb, g, n, heard, news)
    BY <1>5 DEF Undecided, DeferredInv
  <1>6a. promise = "pending"
    BY <1>5 DEF Undecided
  <1>7. news' = news + 1 /\ UNCHANGED <<promise, given, calls, heard>>
    BY DEF Notify
  <1>8. ASSUME NEW nb \in ListState, cbs' = [cbs EXCEPT !["progress"] = nb], nb.on, nb.repeat,
               FramesOK', frames' \in Seq(Frame), "progress" \notin Sides,
               Spread(nb, g, Passed("progress")', heard, news + 1)
        PROVE  DeferredInv'
    <2>1. /\ cbs' \in [Lists -> ListState] /\ cbs'["progress"] = nb
          /\ \A m \in Lists : m # "progress" => cbs'[m] = cbs[m]
      BY <1>1, <1>2, <1>8, OneListChanged
    <2>2. DeferredTypeOK'
      BY <1>2, <1>4, <1>7, <1>8, <2>1, DeferredTypes, DeferredTyped
    <2>3. Undecided'
      BY <1>1, <1>5, <1>7, <1>8, <2>1 DEF Undecided
    <2>4. Spread(cbs'["progress"], given'["progress"], Passed("progress")', heard', news')
      BY <1>7, <1>8, <2>1
    <2> QED
      BY <1>8, <2>2, <2>3, <2>4 DEF DeferredInv
  <1>9. CASE cb.firing
    <2> DEFINE nb == [cb EXCEPT !.stack = Append(cb.stack, news + 1)]
    <2>1. /\ nb \in ListState /\ nb.firing /\ nb.on /\ nb.repeat /\ nb.memory = cb.memory
          /\ nb.firingIndex = cb.firingIndex /\ Spread(nb, g, n, heard, news + 1)
      BY <1>2, <1>3, <1>6, <1>9, SpreadNewsWaits
    <2>2. cbs' = [cbs EXCEPT !["progress"] = nb] /\ frames' = frames
      BY <1>9 DEF Notify, FireWith
    <2> HIDE DEF nb
    <2>3. cbs'["progress"] = nb /\ \A m \in Lists : m # "progress" => cbs'[m] = cbs[m]
      BY <1>1, <1>2, <2>1, <2>2, OneListChanged
    <2>4. \A m \in Lists : cbs'[m].firing <=> cbs[m].firing
      BY <1>9, <2>1, <2>3
    <2>5. FramesOK' /\ frames' \in Seq(Frame) /\ Firing' = Firing
      BY <1>2, <1>6, <2>1, <2>2, <2>3, <2>4, FramesKept
    <2>6. Passed("progress")' = n
      BY <2>1, <2>3, <2>5 DEF Passed
    <2>7. Spread(nb, g, Passed("progress")', heard, news + 1)
      BY ONLY <2>1, <2>6, Zenon
    <2> HIDE DEF n, g
    <2> QED
      BY <1>8, <2>1, <2>2, <2>5, <2>7, <1>6a, SideFacts
  <1>10. CASE ~cb.firing
    <2> DEFINE nb == FireBegun(cb, news + 1)
    <2>1. /\ nb \in ListState /\ nb.firing /\ nb.on /\ nb.repeat /\ nb.memory = news + 1
          /\ nb.firingIndex = 0 /\ Spread(nb, g, 0, heard, news + 1)
      BY <1>2, <1>3, <1>6, <1>10, SpreadNewsFires
    <2>2. cbs' = [cbs EXCEPT !["progress"] = nb] /\ frames' = Push("progress", news + 1)
      BY <1>10 DEF Notify, FireWith
    <2> HIDE DEF nb
    <2>3. cbs'["progress"] = nb /\ \A m \in Lists : m # "progress" => cbs'[m] = cbs[m]
      BY <1>1, <1>2, <2>1, <2>2, OneListChanged
    <2>4. cbs'["progress"].firing /\ cbs'["progress"].memory = news + 1
      BY <2>1, <2>3
    <2>5. FramesOK' /\ frames' \in Seq(Frame) /\ Firing' = {"progress"}
      BY <1>1, <1>2, <1>3, <1>4, <1>10, <2>2, <2>3, <2>4, FramesPushed
    <2>6. Passed("progress")' = 0
      BY <2>1, <2>3, <2>5 DEF Passed
    <2>7. Spread(nb, g, Passed("progress")', heard, news + 1)
      BY ONLY <2>1, <2>6, Zenon
    <2> HIDE DEF n, g
    <2> QED
      BY <1>8, <2>1, <2>2, <2>5, <2>7, <1>6a, SideFacts
  <1> QED
    BY <1>5, <1>9, <1>10 DEF Undecided

\* Whose loop runs in which phase
LEMMA FiringPhases ==
  ASSUME DeferredInv, NEW l \in Firing
  PROVE  /\ l \in Lists /\ Firing = {l} /\ cbs[l].firing /\ frames # <<>> /\ Top.of = l /\ Top.at = "loop"
         /\ Passed(l) = cbs[l].firingIndex
         /\ \/ l = "progress" /\ cbs[l].on /\ (Undecided \/ \E s \in Sides : Decided(s))
            \/ l \in Sides /\ (Decided(l) \/ \E k \in 0..2 : Deciding(l, k))
  <1>1. l \in Lists /\ Firing = {l} /\ cbs[l].firing /\ frames # <<>> /\ Top.of = l /\ Top.at = "loop"
    BY FiringFacts DEF DeferredInv
  <1>2. cbs[l].firingIndex \in Nat
    BY <1>1, DeferredTypes, ListFields DEF DeferredInv
  <1>3. Passed(l) = cbs[l].firingIndex
    BY <1>2 DEF Passed
  <1>4. l = "progress" => cbs[l].on
    BY <1>1 DEF DeferredInv, Spread
  <1>5. CASE Undecided
    <2>1. l \notin Sides
      BY <1>1, <1>5 DEF Undecided, Fresh
    <2>2. l = "progress"
      BY <1>1, <2>1, SideFacts
    <2> QED
      BY <1>1, <1>3, <1>4, <1>5, <2>2
  <1>6. ASSUME NEW s \in Sides, Decided(s)
        PROVE  l = "progress" \/ l = s
    BY <1>1, <1>6, SideFacts DEF Decided, Off
  <1>7. ASSUME NEW s \in Sides, NEW k \in 0..2, Deciding(s, k)
        PROVE  l = s
    BY <1>1, <1>7 DEF Deciding
  <1> QED
    BY <1>1, <1>3, <1>4, <1>5, <1>6, <1>7 DEF DeferredInv

LEMMA CallBuiltInInv ==
  ASSUME DeferredInv, CallBuiltIn
  PROVE  /\ DeferredInv'
         /\ UNCHANGED <<given, calls, news, heard>>
         /\ promise' = promise \/ (promise = "pending" /\ \E s \in Sides : promise' = Settled(s))
  <1> DEFINE moved(l) == [cbs EXCEPT ![l] = [cbs[l] EXCEPT !.firingIndex = cbs[l].firingIndex + 1]]
  <1>1. PICK s \in Firing :
          LET does == Current(cbs[s]).does IN
            /\ InRange(cbs[s]) /\ does # "user"
            /\ promise' = IF does = "setState" THEN Settled(s) ELSE promise
            /\ does = "setState" => cbs' = moved(s)
            /\ does = "disableOther" => cbs' = [moved(s) EXCEPT ![Other(s)] = Disabled(cbs[Other(s)])]
            /\ does = "lockProgress" => cbs' = [moved(s) EXCEPT !["progress"] = Locked(cbs["progress"])]
            /\ UNCHANGED <<frames, given, calls, news, heard>>
    BY DEF CallBuiltIn
  <1>2. /\ s \in Lists /\ Firing = {s} /\ cbs[s].firing /\ Passed(s) = cbs[s].firingIndex
        /\ \/ s = "progress" /\ cbs[s].on
           \/ s \in Sides /\ (Decided(s) \/ \E k \in 0..2 : Deciding(s, k))
    BY FiringPhases
  <1>3. /\ cbs \in [Lists -> ListState] /\ DeferredTypeOK /\ FramesOK
        /\ \A l \in Lists : cbs[l] \in ListState /\ given[l] \in 0..MaxAdds
        /\ heard \in [1..MaxAdds -> Nat] /\ news \in 0..MaxNews
        /\ calls \in [Sides -> Seq(1..MaxAdds)]
    BY DeferredTypes DEF DeferredInv
  <1>4. s # "progress"
    <2> SUFFICES ASSUME s = "progress" PROVE FALSE
      OBVIOUS
    <2>1. Spread(cbs[s], given[s], cbs[s].firingIndex, heard, news) /\ cbs[s].on
      BY <1>2, SideFacts DEF DeferredInv
    <2>2. Current(cbs[s]).does = "user"
      BY <1>1, <1>2, <1>3, <2>1, SpreadTell
    <2> QED
      BY <1>1, <2>2
  <1>5. ~Decided(s)
    <2> SUFFICES ASSUME Decided(s) PROVE FALSE
      OBVIOUS
    <2>1. Chosen(cbs[s], given[s], calls[s], cbs[s].firingIndex) /\ s \in Sides
      BY <1>2, <1>4 DEF Decided
    <2>2. calls[s] \in Seq(1..MaxAdds)
      BY <1>3, <2>1
    <2>3. Current(cbs[s]).does = "user"
      BY <1>1, <1>2, <1>3, <2>1, <2>2, ChosenCall
    <2> QED
      BY <1>1, <2>3
  <1>6. PICK k \in 0..2 : Deciding(s, k)
    BY <1>2, <1>4, <1>5
  <1> DEFINE o == Other(s)
             nb == [cbs[s] EXCEPT !.firingIndex = k + 1]
  <1>7. /\ s \in Sides /\ o \in Sides /\ o \in Lists /\ o # s /\ o # "progress" /\ "progress" \in Lists
        /\ Settled(s) \in {"pending", "resolved", "rejected"}
    BY <1>2, <1>4, SideFacts
  <1>8. Underway(cbs[s], given[s], calls[s], k) /\ cbs[s].firingIndex = k
    BY <1>6 DEF Deciding, Underway
  <1>9. /\ k < 2 => Underway(nb, given[s], calls[s], k + 1)
        /\ k = 2 => Chosen(nb, given[s], calls[s], 3)
        /\ Current(cbs[s]) = BuiltIns[k + 1]
    <2>1. k = 2 => k + 1 = 3
      OBVIOUS
    <2>2. k = 2 => Chosen(nb, given[s], calls[s], 3)
      BY <1>2, <1>3, <1>7, <1>8, UnderwayMoves
    <2>3. /\ k < 2 => Underway(nb, given[s], calls[s], k + 1)
          /\ Current(cbs[s]) = BuiltIns[k + 1]
      BY <1>2, <1>3, <1>7, <1>8, UnderwayMoves
    <2> QED
      BY <2>2, <2>3
  <1>10. /\ nb \in ListState /\ nb.firing = cbs[s].firing /\ nb.firingIndex = k + 1
    <2>1. k + 1 \in Nat
      OBVIOUS
    <2>2. cbs[s] \in ListState
      BY <1>2, <1>3
    <2> QED
      BY <2>1, <2>2, IndexChanged, Zenon
  <1>11. moved(s) = [cbs EXCEPT ![s] = nb]
    BY <1>8
  <1> HIDE DEF nb, moved, o
  <1>12. moved(s) \in [Lists -> ListState] /\ moved(s)[s] = nb /\ \A m \in Lists : m # s => moved(s)[m] = cbs[m]
    BY <1>2, <1>3, <1>10, <1>11
  <1>13. cbs["progress"].on /\ cbs["progress"].repeat
         /\ Spread(cbs["progress"], given["progress"], Passed("progress"), heard, news)
    BY <1>6 DEF Deciding, DeferredInv
  <1>14. UNCHANGED <<frames, given, calls, news, heard>>
    BY <1>1
  <1>15. ASSUME cbs' \in [Lists -> ListState], promise' \in {"pending", "resolved", "rejected"},
                \A m \in Lists : cbs'[m].firing = cbs[m].firing,
                cbs'["progress"].memory = cbs["progress"].memory,
                cbs'["progress"].firingIndex = cbs["progress"].firingIndex,
                Spread(cbs'["progress"], given["progress"], Passed("progress"), heard, news)
         PROVE  /\ DeferredTypeOK' /\ FramesOK' /\ Firing' = {s}
                /\ Spread(cbs'["progress"], given'["progress"], Passed("progress")', heard', news')
    <2>1. FramesOK' /\ frames' \in Seq(Frame) /\ Firing' = Firing
      BY <1>3, <1>13, <1>14, <1>15, FramesKept
    <2>2. Passed("progress")' = Passed("progress")
      BY <1>15, <2>1 DEF Passed
    <2>3. DeferredTypeOK'
      BY <1>3, <1>14, <1>15, <2>1, DeferredTypes, DeferredTyped
    <2> QED
      BY <1>2, <1>14, <1>15, <2>1, <2>2, <2>3
  <1>16. CASE k = 0
    <2>1. Current(cbs[s]).does = "setState"
      BY <1>9, <1>16, BuiltInFacts
    <2>2. cbs' = moved(s) /\ promise' = Settled(s)
      BY <1>1, <2>1
    <2>3. /\ \A m \in Lists : cbs'[m].firing = cbs[m].firing
          /\ cbs'["progress"] = cbs["progress"] /\ cbs'[o] = cbs[o] /\ cbs'[s] = nb
      BY <1>4, <1>7, <1>10, <1>12, <2>2
    <2>4. promise' \in {"pending", "resolved", "rejected"} /\ cbs' \in [Lists -> ListState]
      BY <1>7, <1>12, <2>2
    <2>5. /\ DeferredTypeOK' /\ FramesOK' /\ Firing' = {s}
          /\ Spread(cbs'["progress"], given'["progress"], Passed("progress")', heard', news')
      BY <1>13, <1>15, <2>3, <2>4
    <2>6. Underway(nb, given[s], calls[s], 1)
      BY <1>9, <1>16
    <2>7. Fresh(cbs[o], given[o], calls[o]) /\ promise = "pending"
      BY <1>6, <1>16 DEF Deciding, o
    <2>8. Deciding(s, 1)'
      BY <1>13, <1>14, <2>2, <2>3, <2>5, <2>6, <2>7 DEF Deciding, o
    <2> QED
      BY <1>7, <1>14, <2>2, <2>5, <2>7, <2>8 DEF DeferredInv
  <1>17. CASE k = 1
    <2> DEFINE d == Disabled(cbs[o])
    <2>1. Current(cbs[s]).does = "disableOther"
      BY <1>9, <1>17, BuiltInFacts
    <2>2. cbs' = [moved(s) EXCEPT ![o] = d] /\ promise' = promise
      BY <1>1, <2>1 DEF o
    <2>3. d \in ListState /\ ~d.on /\ d.firing = cbs[o].firing
      BY <1>3, <1>7, DisabledFacts
    <2> HIDE DEF d
    <2>4. /\ cbs' \in [Lists -> ListState] /\ cbs'[s] = nb /\ cbs'[o] = d
          /\ \A m \in Lists : m # s /\ m # o => cbs'[m] = cbs[m]
      BY <1>2, <1>7, <1>12, <2>2, <2>3
    <2>5. /\ \A m \in Lists : cbs'[m].firing = cbs[m].firing
          /\ cbs'["progress"] = cbs["progress"]
      BY <1>4, <1>7, <1>10, <2>3, <2>4
    <2>6. promise' \in {"pending", "resolved", "rejected"}
      BY <1>3, <2>2 DEF DeferredTypeOK
    <2>7. /\ DeferredTypeOK' /\ FramesOK' /\ Firing' = {s}
          /\ Spread(cbs'["progress"], given'["progress"], Passed("progress")', heard', news')
      BY <1>13, <1>15, <2>4, <2>5, <2>6
    <2>8. Underway(nb, given[s], calls[s], 2)
      BY <1>9, <1>17
    <2>9. Fresh(cbs[o], given[o], calls[o]) /\ promise = Settled(s)
      BY <1>6, <1>17 DEF Deciding, o
    <2>10. Off(d, calls[o])
      BY <2>3, <2>9 DEF Off, Fresh
    <2>11. Deciding(s, 2)'
      BY <1>13, <1>14, <2>2, <2>4, <2>5, <2>7, <2>8, <2>9, <2>10 DEF Deciding, o
    <2>12. DeferredInv'
      BY <1>7, <2>7, <2>11 DEF DeferredInv
    <2> QED
      BY <1>14, <2>2, <2>12
  <1>18. CASE k = 2
    <2> DEFINE d == Locked(cbs["progress"])
    <2>1. Current(cbs[s]).does = "lockProgress"
      BY <1>9, <1>18, BuiltInFacts
    <2>2. cbs' = [moved(s) EXCEPT !["progress"] = d] /\ promise' = promise
      BY <1>1, <2>1
    <2>3. /\ d \in ListState /\ d.firing = cbs["progress"].firing /\ ~d.repeat /\ d.memory = cbs["progress"].memory
          /\ d.firingIndex = cbs["progress"].firingIndex
          /\ d.on => d.fired
          /\ Spread(d, given["progress"], Passed("progress"), heard, news)
      BY <1>3, <1>7, <1>13, SpreadLocked
    <2> HIDE DEF d
    <2>4. /\ cbs' \in [Lists -> ListState] /\ cbs'[s] = nb /\ cbs'["progress"] = d
          /\ \A m \in Lists : m # s /\ m # "progress" => cbs'[m] = cbs[m]
      BY <1>2, <1>4, <1>7, <1>12, <2>2, <2>3
    <2>5. \A m \in Lists : cbs'[m].firing = cbs[m].firing
      BY <1>4, <1>7, <1>10, <2>3, <2>4
    <2>6. promise' \in {"pending", "resolved", "rejected"}
      BY <1>3, <2>2 DEF DeferredTypeOK
    <2>7. /\ DeferredTypeOK' /\ FramesOK' /\ Firing' = {s}
          /\ Spread(cbs'["progress"], given'["progress"], Passed("progress")', heard', news')
      BY <1>15, <2>3, <2>4, <2>5, <2>6
    <2>8. Chosen(nb, given[s], calls[s], 3)
      BY <1>9, <1>18
    <2>9. Off(cbs[o], calls[o]) /\ promise = Settled(s)
      BY <1>6, <1>18 DEF Deciding, o
    <2>10. Passed(s)' = 3
      BY <1>10, <1>18, <2>4, <2>7 DEF Passed
    <2>11. Chosen(cbs'[s], given'[s], calls'[s], Passed(s)')
      BY <1>14, <2>4, <2>8, <2>10
    <2>12. Off(cbs'[o], calls'[o])
      BY <1>7, <1>14, <2>4, <2>9
    <2>13. Decided(s)'
      BY <2>2, <2>3, <2>4, <2>9, <2>11, <2>12 DEF Decided, o
    <2>14. DeferredInv'
      BY <1>7, <2>7, <2>13 DEF DeferredInv
    <2> QED
      BY <1>14, <2>2, <2>14
  <1> QED
    BY <1>16, <1>17, <1>18

\* What the steps of a loop have in common: who is due in which phase is told by the list that fires
LEMMA LoopPhases ==
  ASSUME DeferredInv, NEW l \in Firing, ~InRange(cbs[l]) \/ Current(cbs[l]).does = "user"
  PROVE  \/ l = "progress" /\ cbs[l].on
         \/ l \in Sides /\ Decided(l)
  <1>1. /\ l \in Lists
        /\ \/ l = "progress" /\ cbs[l].on
           \/ l \in Sides /\ (Decided(l) \/ \E k \in 0..2 : Deciding(l, k))
    BY FiringPhases
  <1>2. cbs[l] \in ListState /\ given[l] \in 0..MaxAdds
    BY <1>1, DeferredTypes DEF DeferredInv
  <1>3. ASSUME NEW k \in 0..2, Deciding(l, k) PROVE FALSE
    <2>1. Underway(cbs[l], given[l], calls[l], k)
      BY <1>3 DEF Deciding
    <2>2. InRange(cbs[l]) /\ Current(cbs[l]) = BuiltIns[k + 1]
      BY <1>2, <2>1, UnderwayMoves
    <2>3. k + 1 = 1 \/ k + 1 = 2 \/ k + 1 = 3
      OBVIOUS
    <2>4. BuiltIns[k + 1].does # "user"
      BY <2>3, BuiltInFacts
    <2> QED
      BY <2>2, <2>4
  <1> QED
    BY <1>1, <1>3

LEMMA CallUserInv ==
  ASSUME DeferredInv, CallUser
  PROVE  /\ DeferredInv'
         /\ UNCHANGED <<promise, given, news>>
         /\ \/ /\ UNCHANGED calls
               /\ \E c \in 1..MaxAdds : \E v \in (heard[c] + 1)..news : heard' = [heard EXCEPT ![c] = v]
            \/ /\ UNCHANGED heard
               /\ \E s \in Sides : /\ promise = Settled(s) /\ Len(calls[s]) < given[s]
                                   /\ calls' = [calls EXCEPT ![s] = Append(calls[s], Len(calls[s]) + 1)]
  <1>1. PICK l \in Firing :
          /\ InRange(cbs[l]) /\ Current(cbs[l]).does = "user"
          /\ LET n == Current(cbs[l]).id IN
               IF l = "progress"
               THEN heard' = [heard EXCEPT ![n] = Top.data] /\ UNCHANGED calls
               ELSE calls' = [calls EXCEPT ![l] = Append(calls[l], n)] /\ UNCHANGED heard
          /\ frames' = [frames EXCEPT ![Len(frames)].at = "body"]
          /\ UNCHANGED <<promise, cbs, given, news>>
    BY DEF CallUser
  <1>2. /\ l \in Lists /\ Firing = {l} /\ cbs[l].firing /\ frames # <<>> /\ Top.of = l
        /\ Passed(l) = cbs[l].firingIndex
        /\ \/ l = "progress" /\ cbs[l].on /\ (Undecided \/ \E s \in Sides : Decided(s))
           \/ l \in Sides /\ (Decided(l) \/ \E k \in 0..2 : Deciding(l, k))
    BY FiringPhases
  <1>3. \/ l = "progress" /\ cbs[l].on
        \/ l \in Sides /\ Decided(l)
    BY <1>1, LoopPhases
  <1>4. /\ cbs \in [Lists -> ListState] /\ DeferredTypeOK /\ FramesOK
        /\ \A m \in Lists : cbs[m] \in ListState /\ given[m] \in 0..MaxAdds
        /\ heard \in [1..MaxAdds -> Nat] /\ heard \in [1..MaxAdds -> 0..MaxNews] /\ news \in 0..MaxNews
        /\ calls \in [Sides -> Seq(1..MaxAdds)]
    BY DeferredTypes DEF DeferredInv
  <1>5. UNCHANGED <<promise, cbs, given, news>>
    BY <1>1
  <1>6. FramesOK' /\ frames' \in Seq(Frame) /\ Firing' = {}
    <2>1. frames' = [frames EXCEPT ![Len(frames)].at = "body"]
      BY <1>1
    <2>2. cbs'["progress"].on => cbs["progress"].on /\ cbs'["progress"].memory = cbs["progress"].memory
      BY <1>5 DEF FramesOK
    <2>3. \A m \in Lists : cbs'[m].firing <=> cbs[m].firing
      BY <1>5
    <2>4. FramesOK' /\ frames' \in Seq(Frame) /\ Firing' = IF "body" = "loop" THEN {Top.of} ELSE {}
      BY <1>2, <1>4, <2>1, <2>2, <2>3, FramesTurned
    <2> QED
      BY <2>4
  <1>7. \A m \in Lists : m # l => Passed(m)' = Passed(m)
    BY <1>2, <1>5, <1>6 DEF Passed
  <1>8. Passed(l)' = cbs[l].firingIndex + 1
    BY <1>5, <1>6 DEF Passed
  <1>9. CASE l = "progress"
    <2> DEFINE cb == cbs["progress"]
               c == Current(cb).id
    <2>1. Spread(cb, given["progress"], cb.firingIndex, heard, news) /\ cb.on /\ cb.firing /\ InRange(cb)
          /\ cb \in ListState /\ given["progress"] \in 0..MaxAdds
      BY <1>1, <1>2, <1>3, <1>4, <1>9, SideFacts DEF DeferredInv
    <2>2. /\ c \in 1..MaxAdds /\ heard[c] < cb.memory /\ cb.memory <= news
          /\ Spread(cb, given["progress"], cb.firingIndex + 1, [heard EXCEPT ![c] = cb.memory], news)
      BY <1>4, <2>1, SpreadTell
    <2>3. Top.data = cb.memory
      <3>1. Len(frames) \in 1..Len(frames) /\ Top = frames[Len(frames)]
        BY <1>2, <1>4, TopFacts
      <3> QED
        BY <1>2, <1>4, <1>9, <2>1, <3>1 DEF FramesOK
    <2>4. heard' = [heard EXCEPT ![c] = cb.memory] /\ UNCHANGED calls
      BY <1>1, <1>9, <2>3
    <2> HIDE DEF c
    <2>5. cb.memory \in (heard[c] + 1)..news /\ cb.memory \in 0..MaxNews
      <3>1. cb.memory \in Nat /\ heard[c] \in Nat /\ news \in Nat /\ MaxNews \in Nat /\ news <= MaxNews
        BY <1>4, <2>1, <2>2, ListFields, DeferredBounds
      <3> QED
        BY <2>2, <3>1
    <2>6. heard' \in [1..MaxAdds -> 0..MaxNews]
      BY <1>4, <2>2, <2>4, <2>5
    <2>7. DeferredTypeOK'
      BY <1>4, <1>5, <1>6, <2>4, <2>6, DeferredTypes, DeferredTyped
    <2>8. Spread(cbs'["progress"], given'["progress"], Passed("progress")', heard', news')
      <3>1. Passed("progress")' = cb.firingIndex + 1
        BY <1>8, <1>9
      <3> QED
        BY <1>5, <2>2, <2>4, <3>1
    <2>9. Undecided => Undecided'
      BY <1>5, <2>4 DEF Undecided
    <2>10. ASSUME NEW s \in Sides, Decided(s) PROVE Decided(s)'
      <3>1. Passed(s)' = Passed(s)
        BY <1>7, <1>9, SideFacts
      <3> QED
        BY <1>5, <2>4, <2>10, <3>1 DEF Decided
    <2>11. DeferredInv'
      BY <1>2, <1>6, <1>9, <2>7, <2>8, <2>9, <2>10, SideFacts DEF DeferredInv
    <2> QED
      BY <1>5, <2>2, <2>4, <2>5, <2>11
  <1>10. CASE l \in Sides /\ Decided(l)
    <2> DEFINE cb == cbs[l]
               q == calls[l]
               n == Len(q) + 1
    <2>1. /\ Chosen(cb, given[l], q, cb.firingIndex) /\ cb.firing /\ InRange(cb)
          /\ cb \in ListState /\ given[l] \in 0..MaxAdds /\ q \in Seq(1..MaxAdds)
      BY <1>1, <1>2, <1>4, <1>10 DEF Decided
    <2>2. /\ Current(cb).id = n /\ Len(q) < given[l] /\ Append(q, n) \in Seq(1..MaxAdds)
          /\ Chosen(cb, given[l], Append(q, n), cb.firingIndex + 1)
      BY <2>1, ChosenCall
    <2>3. l # "progress" /\ Other(l) \in Sides /\ Other(l) # l /\ "progress" \in Lists
      BY <1>10, SideFacts
    <2>4. calls' = [calls EXCEPT ![l] = Append(q, n)] /\ UNCHANGED heard
      BY <1>1, <2>2, <2>3
    <2> HIDE DEF n
    <2>5. /\ calls' \in [Sides -> Seq(1..MaxAdds)] /\ calls'[l] = Append(q, n)
          /\ calls'[Other(l)] = calls[Other(l)]
      BY <1>4, <1>10, <2>2, <2>3, <2>4
    <2>6. DeferredTypeOK'
      BY <1>4, <1>5, <1>6, <2>4, <2>5, DeferredTypes, DeferredTyped
    <2>7. Spread(cbs'["progress"], given'["progress"], Passed("progress")', heard', news')
      <3>1. Passed("progress")' = Passed("progress")
        BY <1>7, <2>3
      <3> QED
        BY <1>5, <2>4, <3>1 DEF DeferredInv
    <2>8. Chosen(cbs'[l], given'[l], calls'[l], Passed(l)')
      BY <1>5, <1>8, <2>2, <2>5
    <2>9. Decided(l)'
      BY <1>5, <1>10, <2>5, <2>8 DEF Decided
    <2>10. DeferredInv'
      BY <1>6, <1>10, <2>6, <2>7, <2>9 DEF DeferredInv
    <2>11. promise = Settled(l)
      BY <1>10 DEF Decided
    <2> QED
      BY <1>5, <1>10, <2>2, <2>4, <2>10, <2>11 DEF n
  <1> QED
    BY <1>3, <1>9, <1>10

LEMMA CallReturnsInv ==
  ASSUME DeferredInv, CallReturns
  PROVE  DeferredInv'
  <1> DEFINE l == Top.of
             cb == cbs[l]
             nb == [cb EXCEPT !.firingIndex = cb.firingIndex + 1]
  <1>1. /\ frames # <<>> /\ Top.at = "body" /\ frames' = [frames EXCEPT ![Len(frames)].at = "loop"]
        /\ cbs' = [cbs EXCEPT ![l] = nb] /\ UNCHANGED <<promise, given, calls, news, heard>>
    BY DEF CallReturns
  <1>2. /\ cbs \in [Lists -> ListState] /\ DeferredTypeOK /\ FramesOK
    BY DeferredTypes DEF DeferredInv
  <1>3. l \in Lists /\ cb.firing
    <2>1. Len(frames) \in 1..Len(frames) /\ Top = frames[Len(frames)] /\ frames[Len(frames)].of \in Lists
      BY <1>1, <1>2, TopFacts
    <2> QED
      BY <1>2, <2>1 DEF FramesOK
  <1>4. Firing = {} /\ ScriptRuns
    BY <1>1 DEF Firing, ScriptRuns
  <1>5. cb \in ListState /\ cb.firingIndex \in Nat /\ cb.firingIndex + 1 \in Nat
    BY <1>2, <1>3, ListFields
  <1>6. /\ nb \in ListState /\ nb.on = cb.on /\ nb.repeat = cb.repeat
        /\ nb.memory = cb.memory /\ nb.fired = cb.fired /\ nb.firing = cb.firing
        /\ nb.firingIndex = cb.firingIndex + 1
    BY <1>5, IndexChanged, Zenon
  <1> HIDE DEF nb, l
  <1>7. cbs' \in [Lists -> ListState] /\ cbs'[l] = nb /\ \A m \in Lists : m # l => cbs'[m] = cbs[m]
    BY <1>1, <1>2, <1>3, <1>6, OneListChanged
  <1>8. \A m \in Lists : /\ cbs'[m].firing = cbs[m].firing /\ cbs'[m].on = cbs[m].on
                         /\ cbs'[m].memory = cbs[m].memory /\ cbs'[m].repeat = cbs[m].repeat
                         /\ cbs'[m].fired = cbs[m].fired
    BY <1>6, <1>7
  <1>9. FramesOK' /\ frames' \in Seq(Frame) /\ Firing' = {l}
    <2>1. cbs'["progress"].on => cbs["progress"].on /\ cbs'["progress"].memory = cbs["progress"].memory
      BY <1>8, SideFacts
    <2>2. \A m \in Lists : cbs'[m].firing <=> cbs[m].firing
      BY <1>8
    <2>3. FramesOK' /\ frames' \in Seq(Frame) /\ Firing' = IF "loop" = "loop" THEN {Top.of} ELSE {}
      BY <1>1, <1>2, <2>1, <2>2, FramesTurned
    <2> QED
      BY <2>3 DEF l
  <1>10. \A m \in Lists : Passed(m)' = Passed(m)
    <2>1. ASSUME NEW m \in Lists PROVE Passed(m)' = Passed(m)
      <3>1. CASE m = l
        BY <1>4, <1>5, <1>6, <1>7, <1>9, <3>1 DEF Passed
      <3>2. CASE m # l
        BY <1>4, <1>7, <1>9, <3>2 DEF Passed
      <3> QED
        BY <3>1, <3>2
    <2> QED
      BY <2>1
  <1>11. DeferredTypeOK'
    BY <1>1, <1>2, <1>7, <1>9, DeferredTypes, DeferredTyped
  <1>12. Spread(cbs'["progress"], given'["progress"], Passed("progress")', heard', news')
    <2>1. Spread(cbs["progress"], given["progress"], Passed("progress"), heard, news) /\ "progress" \in Lists
      BY SideFacts DEF DeferredInv
    <2>2. Spread(nb, given["progress"], Passed("progress"), heard, news) \/ l # "progress"
      BY <1>5, <2>1, SpreadIndex DEF nb
    <2>3. Spread(cbs'["progress"], given["progress"], Passed("progress"), heard, news)
      BY <1>7, <2>1, <2>2
    <2> QED
      BY <1>1, <1>10, <2>1, <2>3
  <1>13. Undecided => Undecided'
    <2>1. ASSUME Undecided, NEW s \in Sides PROVE cbs'[s] = cbs[s]
      <3>1. ~cbs[s].firing
        BY <2>1 DEF Undecided, Fresh
      <3> QED
        BY <1>3, <1>7, <3>1, SideFacts
    <2> QED
      BY <1>1, <1>8, <2>1, SideFacts DEF Undecided
  <1>14. ASSUME NEW s \in Sides, Decided(s) PROVE Decided(s)'
    <2>1. s \in Lists /\ Other(s) \in Lists /\ "progress" \in Lists
      BY SideFacts
    <2>2. Chosen(cbs[s], given[s], calls[s], Passed(s)) /\ Off(cbs[Other(s)], calls[Other(s)])
      BY <1>14 DEF Decided
    <2>3. Chosen(cbs'[s], given[s], calls[s], Passed(s))
      <3>1. CASE s = l
        <4>1. Chosen(nb, given[s], calls[s], Passed(s))
          BY <1>5, <2>2, <3>1, ChosenIndex DEF nb
        <4> QED
          BY <1>7, <3>1, <4>1
      <3>2. CASE s # l
        BY <1>7, <2>1, <2>2, <3>2
      <3> QED
        BY <3>1, <3>2
    <2>4. cbs'[Other(s)] = cbs[Other(s)]
      BY <1>3, <1>7, <2>1, <2>2 DEF Off
    <2> QED
      BY <1>1, <1>8, <1>10, <1>14, <2>1, <2>2, <2>3, <2>4 DEF Decided
  <1> QED
    BY <1>4, <1>9, <1>11, <1>12, <1>13, <1>14, ScriptPhases DEF DeferredInv

LEMMA FireEndsInv ==
  ASSUME DeferredInv, FireEnds
  PROVE  DeferredInv'
  <1>1. PICK l \in Firing :
          LET cb == cbs[l] IN
            /\ ~InRange(cb)
            /\ \/ /\ cb.on /\ cb.stack # <<>>
                  /\ cbs' = [cbs EXCEPT ![l] = FireBegun([cb EXCEPT !.stack = Tail(cb.stack)], Head(cb.stack))]
                  /\ frames' = [frames EXCEPT ![Len(frames)].data = Head(cb.stack)]
               \/ /\ ~cb.on \/ cb.stack = <<>>
                  /\ cbs' = [cbs EXCEPT ![l] = Rested(cb)]
                  /\ frames' = SubSeq(frames, 1, Len(frames) - 1)
            /\ UNCHANGED <<promise, given, calls, news, heard>>
    BY DEF FireEnds
  <1> DEFINE cb == cbs[l]
  <1>2. /\ l \in Lists /\ Firing = {l} /\ cb.firing /\ frames # <<>>
        /\ Passed(l) = cb.firingIndex
        /\ l = "progress" => Undecided \/ \E s \in Sides : Decided(s)
    BY FiringPhases, SideFacts
  <1>3. \/ l = "progress" /\ cb.on
        \/ l \in Sides /\ Decided(l)
    BY <1>1, LoopPhases
  <1>4. /\ cbs \in [Lists -> ListState] /\ DeferredTypeOK /\ FramesOK
        /\ \A m \in Lists : cbs[m] \in ListState /\ given[m] \in 0..MaxAdds
        /\ heard \in [1..MaxAdds -> Nat] /\ news \in 0..MaxNews
        /\ calls \in [Sides -> Seq(1..MaxAdds)]
    BY DeferredTypes DEF DeferredInv
  <1>5. UNCHANGED <<promise, given, calls, news, heard>>
    BY <1>1
  <1>6. ASSUME NEW nb \in ListState, cbs' = [cbs EXCEPT ![l] = nb], frames' \in Seq(Frame),
               Firing' \subseteq {l}
        PROVE  /\ DeferredTypeOK' /\ cbs'[l] = nb
               /\ \A m \in Lists : m # l => cbs'[m] = cbs[m] /\ Passed(m)' = Passed(m)
    <2>1. cbs' \in [Lists -> ListState] /\ cbs'[l] = nb /\ \A m \in Lists : m # l => cbs'[m] = cbs[m]
      BY <1>2, <1>4, <1>6, OneListChanged
    <2>2. \A m \in Lists : m # l => Passed(m)' = Passed(m)
      BY <1>2, <1>6, <2>1 DEF Passed
    <2>3. DeferredTypeOK'
      BY <1>4, <1>5, <1>6, <2>1, DeferredTypes, DeferredTyped
    <2> QED
      BY <2>1, <2>2, <2>3
  <1>7. ASSUME NEW nb \in ListState, l = "progress", cbs'[l] = nb, DeferredTypeOK', FramesOK',
               nb.on, nb.repeat = cb.repeat, cb.fired => nb.fired,
               Spread(nb, given[l], Passed(l)', heard, news),
               \A m \in Lists : m # l => cbs'[m] = cbs[m] /\ Passed(m)' = Passed(m)
        PROVE  DeferredInv'
    <2>1. \A s \in Sides : s \in Lists /\ s # l /\ Other(s) \in Lists /\ Other(s) # l
      BY <1>7, SideFacts
    <2>2. \A s \in Sides : cbs'[s] = cbs[s] /\ cbs'[Other(s)] = cbs[Other(s)] /\ Passed(s)' = Passed(s)
      BY <1>7, <2>1
    <2>3. Undecided => Undecided'
      BY <1>5, <1>7, <2>2 DEF Undecided
    <2>4. ASSUME NEW s \in Sides, Decided(s) PROVE Decided(s)'
      <3>1. cbs["progress"].on /\ cbs["progress"].fired /\ ~cbs["progress"].repeat
        BY <1>3, <1>7, <2>4, SideFacts DEF Decided
      <3> QED
        BY <1>5, <1>7, <2>2, <2>4, <3>1 DEF Decided
    <2>5. Spread(cbs'["progress"], given'["progress"], Passed("progress")', heard', news')
      BY <1>5, <1>7
    <2> QED
      BY <1>2, <1>7, <2>3, <2>4, <2>5 DEF DeferredInv
  <1>8. CASE l = "progress" /\ cb.on /\ cb.stack # <<>>
    <2> DEFINE d == Head(cb.stack)
               nb == FireBegun([cb EXCEPT !.stack = Tail(cb.stack)], d)
    <2>1. Spread(cb, given[l], Passed(l), heard, news)
      BY <1>8 DEF DeferredInv
    <2>2. /\ nb \in ListState /\ nb.firing /\ nb.on /\ nb.repeat = cb.repeat /\ nb.memory = d
          /\ d \in 1..MaxNews
          /\ nb.firingIndex = 0 /\ Spread(nb, given[l], 0, heard, news)
      BY <1>2, <1>4, <1>8, <2>1, SpreadNext
    <2>3. nb.fired
      <3>1. [cb EXCEPT !.stack = Tail(cb.stack)] \in ListState
        <4>1. cb \in ListState
          BY <1>2, <1>4
        <4>2. cb.stack \in Seq(1..MaxNews)
          BY <4>1, StackFacts
        <4>3. Tail(cb.stack) \in Seq(1..MaxNews)
          BY <1>8, <4>2, TailFacts
        <4> QED
          BY <4>1, <4>3, StackChanged, Zenon
      <3>2. d \in 0..(MaxNews + 1)
        BY <2>2, DeferredBounds
      <3> QED
        BY <3>1, <3>2, FireBegunFacts, Zenon
    <2>4. cbs' = [cbs EXCEPT ![l] = nb] /\ frames' = [frames EXCEPT ![Len(frames)].data = d]
      BY <1>1, <1>8
    <2> HIDE DEF nb, d
    <2>5. cbs'[l] = nb /\ \A m \in Lists : m # l => cbs'[m] = cbs[m]
      BY <1>2, <1>4, <2>2, <2>4, OneListChanged
    <2>6. d \in 1..(MaxNews + 1) /\ cbs'[l].firing /\ cbs'[l].memory = d
      BY <2>2, <2>5, DeferredBounds
    <2>7. FramesOK' /\ frames' \in Seq(Frame) /\ Firing' = {l}
      BY <1>4, <2>4, <2>5, <2>6, FramesRenewed
    <2>8. DeferredTypeOK' /\ \A m \in Lists : m # l => cbs'[m] = cbs[m] /\ Passed(m)' = Passed(m)
      BY <1>6, <2>2, <2>4, <2>7
    <2>9. Passed(l)' = 0
      BY <2>2, <2>5, <2>7 DEF Passed
    <2>10. Spread(nb, given[l], Passed(l)', heard, news)
      BY <2>2, <2>9
    <2> QED
      BY <1>7, <1>8, <2>2, <2>3, <2>5, <2>7, <2>8, <2>10
  <1>9. ASSUME NEW nb \in ListState, cbs' = [cbs EXCEPT ![l] = nb], ~nb.firing,
               frames' = SubSeq(frames, 1, Len(frames) - 1)
        PROVE  /\ FramesOK' /\ Firing' = {} /\ DeferredTypeOK' /\ cbs'[l] = nb
               /\ \A m \in Lists : m # l => cbs'[m] = cbs[m] /\ Passed(m)' = Passed(m)
    <2>1. cbs'[l] = nb /\ \A m \in Lists : m # l => cbs'[m] = cbs[m]
      BY <1>2, <1>4, <1>9, OneListChanged
    <2>2. ~cbs'[l].firing
      BY <1>9, <2>1
    <2>3. FramesOK' /\ frames' \in Seq(Frame) /\ Firing' = {}
      BY <1>4, <1>9, <2>1, <2>2, FramesPopped
    <2> QED
      BY <1>6, <1>9, <2>3
  <1>10. CASE l = "progress" /\ cb.on /\ cb.stack = <<>>
    <2> DEFINE nb == Rested(cb)
    <2>1. Spread(cb, given[l], Passed(l), heard, news)
      BY <1>10 DEF DeferredInv
    <2>2. \A k : /\ nb \in ListState /\ ~nb.firing /\ nb.on /\ nb.repeat = cb.repeat
                 /\ nb.fired = cb.fired /\ Spread(nb, given[l], k, heard, news)
      BY <1>2, <1>4, <1>10, <2>1, SpreadRests
    <2>3. cbs' = [cbs EXCEPT ![l] = nb] /\ frames' = SubSeq(frames, 1, Len(frames) - 1)
      BY <1>1, <1>10
    <2> HIDE DEF nb
    <2>4. /\ FramesOK' /\ DeferredTypeOK' /\ cbs'[l] = nb
          /\ \A m \in Lists : m # l => cbs'[m] = cbs[m] /\ Passed(m)' = Passed(m)
      BY <1>9, <2>2, <2>3
    <2> QED
      BY <1>7, <1>10, <2>2, <2>4
  <1>11. CASE l \in Sides /\ Decided(l)
    <2> DEFINE nb == Rested(cb)
    <2>1. /\ cb \in ListState /\ given[l] \in 0..MaxAdds /\ calls[l] \in Seq(1..MaxAdds)
          /\ Chosen(cb, given[l], calls[l], cb.firingIndex)
      BY <1>2, <1>4, <1>11 DEF Decided
    <2>2. nb \in ListState /\ ~nb.firing /\ Chosen(nb, given[l], calls[l], Passed(l)')
      BY <1>1, <1>2, <2>1, ChosenRests
    <2>3. cb.on /\ cb.stack = <<>>
      BY <2>1 DEF Chosen
    <2>4. cbs' = [cbs EXCEPT ![l] = nb] /\ frames' = SubSeq(frames, 1, Len(frames) - 1)
      BY <1>1, <2>3
    <2> HIDE DEF nb
    <2>5. /\ FramesOK' /\ DeferredTypeOK' /\ cbs'[l] = nb
          /\ \A m \in Lists : m # l => cbs'[m] = cbs[m] /\ Passed(m)' = Passed(m)
      BY <1>9, <2>2, <2>4
    <2>6. /\ l # "progress" /\ "progress" \in Lists /\ Other(l) \in Lists /\ Other(l) # l
      BY <1>11, SideFacts
    <2>7. /\ cbs'["progress"] = cbs["progress"] /\ Passed("progress")' = Passed("progress")
          /\ cbs'[Other(l)] = cbs[Other(l)]
      BY <2>5, <2>6
    <2>8. Decided(l)'
      BY <1>5, <1>11, <2>2, <2>5, <2>7 DEF Decided
    <2>9. Spread(cbs'["progress"], given'["progress"], Passed("progress")', heard', news')
      BY <1>5, <2>7 DEF DeferredInv
    <2> QED
      BY <1>11, <2>5, <2>8, <2>9 DEF DeferredInv
  <1> QED
    BY <1>3, <1>8, <1>10, <1>11

-----------------------------------------------------------------------------
LEMMA DeferredStarts ==
  ASSUME DeferredInit
  PROVE  DeferredInv
  <1> DEFINE side == NewList(BuiltIns, FALSE)
             prog == NewList(<<>>, TRUE)
  <1>1. /\ side \in ListState /\ side.on /\ side.list = BuiltIns /\ ~side.repeat /\ side.stack = <<>> /\ side.memory = 0
        /\ ~side.fired /\ ~side.firing /\ side.firingStart = 0
    BY BuiltInFacts, NewListFacts
  <1>2. prog \in ListState /\ prog.on /\ prog.repeat /\ ~prog.firing
    <2>1. <<>> \in Seq(Entry)
      OBVIOUS
    <2> QED
      BY <2>1, NewListFacts
  <1>3. cbs = [l \in Lists |-> IF l = "progress" THEN prog ELSE side]
    BY DEF DeferredInit, BuiltIns
  <1> HIDE DEF side, prog
  <1>4. /\ cbs \in [Lists -> ListState] /\ cbs["progress"] = prog /\ \A s \in Sides : cbs[s] = side
        /\ \A l \in Lists : ~cbs[l].firing
    BY <1>1, <1>2, <1>3, SideFacts
  <1>5. /\ promise = "pending" /\ frames = <<>> /\ given = [l \in Lists |-> 0] /\ calls = [s \in Sides |-> <<>>]
        /\ news = 0 /\ heard = [c \in 1..MaxAdds |-> 0]
    BY DEF DeferredInit
  <1>6. DeferredTypeOK
    <2>1. frames \in Seq(Frame) /\ calls \in [Sides -> Seq(1..MaxAdds)]
      BY <1>5
    <2>2. given \in [Lists -> 0..MaxAdds] /\ news \in 0..MaxNews /\ heard \in [1..MaxAdds -> 0..MaxNews]
      BY <1>5, DeferredBounds
    <2> QED
      BY <1>4, <1>5, <2>1, <2>2 DEF DeferredTypeOK, ListState, Frame
  <1>7. FramesOK
    <2>1. Len(frames) = 0
      BY <1>5
    <2> QED
      BY <1>4, <2>1 DEF FramesOK
  <1>8. ASSUME NEW s \in Sides PROVE Fresh(cbs[s], given[s], calls[s])
    <2>1. given[s] = 0 /\ calls[s] = <<>> /\ cbs[s] = side
      BY <1>4, <1>5, SideFacts
    <2>2. Len(side.list) = 3 /\ \A i \in 1..3 : side.list[i] = BuiltIns[i]
      BY <1>1, BuiltInFacts
    <2>3. Full(side, 0)
      BY <2>2 DEF Full
    <2> QED
      BY <1>1, <2>1, <2>3 DEF Fresh
  <1>9. Undecided
    BY <1>2, <1>4, <1>5, <1>8 DEF Undecided
  <1>10. Spread(cbs["progress"], given["progress"], Passed("progress"), heard, news)
    <2>1. given["progress"] = 0 /\ \A i \in 1..MaxAdds : heard[i] = 0
      BY <1>5, SideFacts
    <2>2. Spread(prog, 0, Passed("progress"), heard, 0)
      BY <2>1, SpreadStart DEF prog
    <2> QED
      BY <1>4, <1>5, <2>1, <2>2
  <1> QED
    BY <1>6, <1>7, <1>9, <1>10 DEF DeferredInv

LEMMA DeferredStays ==
  ASSUME DeferredInv, UNCHANGED deferredVars
  PROVE  DeferredInv'
  <1>1. /\ promise' = promise /\ cbs' = cbs /\ frames' = frames /\ given' = given /\ calls' = calls /\ news' = news
        /\ heard' = heard
    BY DEF deferredVars
  <1>2. Firing' = Firing /\ FramesOK'
    BY <1>1 DEF Firing, Top, FramesOK, DeferredInv
  <1>3. \A l \in Lists : Passed(l)' = Passed(l)
    BY <1>1, <1>2 DEF Passed
  <1>4. DeferredTypeOK'
    BY <1>1 DEF DeferredInv, DeferredTypeOK
  <1>5. Undecided => Undecided'
    BY <1>1 DEF Undecided
  <1>6. ASSUME NEW s \in Sides, Decided(s) PROVE Decided(s)'
    BY <1>1, <1>3, <1>6, SideFacts DEF Decided
  <1>7. ASSUME NEW s \in Sides, NEW k \in 0..2, Deciding(s, k) PROVE Deciding(s, k)'
    BY <1>1, <1>2, <1>7 DEF Deciding
  <1>8. Spread(cbs'["progress"], given'["progress"], Passed("progress")', heard', news')
    BY <1>1, <1>3, SideFacts DEF DeferredInv
  <1> QED
    BY <1>2, <1>4, <1>5, <1>6, <1>7, <1>8 DEF DeferredInv

\* Everything DeferredInv says is kept by every step
LEMMA DeferredKept ==
  ASSUME DeferredInv, [DeferredNext]_deferredVars
  PROVE  DeferredInv'
  <1>1. CASE UNCHANGED deferredVars
    BY <1>1, DeferredStays
  <1>2. ASSUME NEW l \in Lists, Register(l) PROVE DeferredInv'
    BY <1>2, RegisterInv
  <1>3. ASSUME NEW s \in Sides, Settle(s) PROVE DeferredInv'
    BY <1>3, SettleInv
  <1>4. CASE Notify
    BY <1>4, NotifyInv
  <1>5. CASE CallBuiltIn
    BY <1>5, CallBuiltInInv
  <1>6. CASE CallUser
    BY <1>6, CallUserInv
  <1>7. CASE CallReturns
    BY <1>7, CallReturnsInv
  <1>8. CASE FireEnds
    BY <1>8, FireEndsInv
  <1> QED
    BY <1>1, <1>2, <1>3, <1>4, <1>5, <1>6, <1>7, <1>8 DEF DeferredNext, Engine

GivenMap == [s \in Sides |-> given[s]]
CalledMap == [s \in Sides |-> IF InTurn(s) THEN Len(calls[s]) ELSE MaxAdds + 1]

\* The callbacks of a side are called in the order of their registration
LEMMA InTurnAlways ==
  ASSUME DeferredInv
  PROVE  \A s \in Sides : InTurn(s) /\ CalledMap[s] = Len(calls[s]) /\ Len(calls[s]) \in Nat
  <1> SUFFICES ASSUME NEW s \in Sides PROVE InTurn(s) /\ CalledMap[s] = Len(calls[s]) /\ Len(calls[s]) \in Nat
    OBVIOUS
  <1>1. calls[s] \in Seq(1..MaxAdds)
    BY DeferredTypes DEF DeferredInv
  <1>2. Len(calls[s]) \in Nat /\ (calls[s] = <<>> => Len(calls[s]) = 0)
    BY <1>1, LenFacts
  <1>3. (calls[s] = <<>>) \/ (\A i \in 1..Len(calls[s]) : calls[s][i] = i)
    <2>1. CASE Undecided
      BY <2>1 DEF Undecided, Fresh
    <2>2. ASSUME NEW r \in Sides, Decided(r)
          PROVE  (calls[s] = <<>>) \/ (\A i \in 1..Len(calls[s]) : calls[s][i] = i)
      <3>1. s = r \/ s = Other(r)
        BY SideFacts
      <3> QED
        BY <2>2, <3>1 DEF Decided, Chosen, Off
    <2>3. ASSUME NEW r \in Sides, NEW k \in 0..2, Deciding(r, k) PROVE calls[s] = <<>>
      <3>1. s = r \/ s = Other(r)
        BY SideFacts
      <3> QED
        BY <2>3, <3>1 DEF Deciding, Underway, Fresh, Off
    <2> QED
      BY <2>1, <2>2, <2>3 DEF DeferredInv
  <1>4. InTurn(s)
    BY <1>2, <1>3 DEF InTurn
  <1> QED
    BY <1>2, <1>4 DEF CalledMap

\* What the promise does in a step of the Deferred
LEMMA PromiseStep ==
  ASSUME DeferredInv, [DeferredNext]_deferredVars
  PROVE  Abstract!Next \/ UNCHANGED <<promise, GivenMap, CalledMap, news, heard>>
  <1>1. calls' = calls => CalledMap' = CalledMap
    BY DEF CalledMap, InTurn
  <1>2. given' = given => GivenMap' = GivenMap
    BY DEF GivenMap
  <1>3. CASE UNCHANGED deferredVars
    BY <1>1, <1>2, <1>3 DEF deferredVars
  <1>4. ASSUME NEW l \in Lists, Register(l)
        PROVE  Abstract!Next \/ UNCHANGED <<promise, GivenMap, CalledMap, news, heard>>
    <2>1. given' = [given EXCEPT ![l] = given[l] + 1] /\ UNCHANGED <<promise, calls, news, heard>>
      BY <1>4 DEF Register
    <2>2. given \in [Lists -> 0..MaxAdds]
      BY DeferredTypes DEF DeferredInv
    <2>3. CASE l = "progress"
      <3>1. GivenMap' = GivenMap
        BY <2>1, <2>2, <2>3, SideFacts DEF GivenMap
      <3> QED
        BY <1>1, <2>1, <3>1
    <2>4. CASE l \in Sides
      <3>1. GivenMap' = [GivenMap EXCEPT ![l] = GivenMap[l] + 1]
        BY <2>1, <2>2, <2>4, SideFacts DEF GivenMap
      <3>2. Abstract!Register(l)
        BY <1>1, <2>1, <3>1 DEF Abstract!Register, GivenMap, CalledMap
      <3> QED
        BY <2>4, <3>2 DEF Abstract!Next, Abstract!Sides, Sides
    <2> QED
      BY <2>3, <2>4, SideFacts
  <1>5. ASSUME NEW s \in Sides, Settle(s)
        PROVE  UNCHANGED <<promise, GivenMap, CalledMap, news, heard>>
    BY <1>1, <1>2, <1>5 DEF Settle
  <1>6. CASE Notify
    <2>1. promise = "pending" /\ news' = news + 1 /\ UNCHANGED <<promise, given, calls, heard>>
      BY <1>6, NotifyInv DEF Notify
    <2>2. Abstract!Notify
      BY <1>1, <1>2, <2>1 DEF Abstract!Notify, GivenMap, CalledMap
    <2> QED
      BY <2>2 DEF Abstract!Next
  <1>7. CASE CallBuiltIn
    <2>1. UNCHANGED <<given, calls, news, heard>>
      BY <1>7, CallBuiltInInv
    <2>2. CASE promise' = promise
      BY <1>1, <1>2, <2>1, <2>2
    <2>3. ASSUME NEW s \in Sides, promise = "pending", promise' = Settled(s)
          PROVE  Abstract!Next
      <3>1. Abstract!Settle(s)
        BY <1>1, <1>2, <2>1, <2>3 DEF Abstract!Settle, Abstract!Outcome, Settled, GivenMap, CalledMap
      <3> QED
        BY <3>1 DEF Abstract!Next, Abstract!Sides, Sides
    <2> QED
      BY <1>7, <2>2, <2>3, CallBuiltInInv
  <1>8. CASE CallUser
    <2>1. UNCHANGED <<promise, given, news>>
      BY <1>8, CallUserInv
    <2>2. ASSUME NEW c \in 1..MaxAdds, NEW v \in (heard[c] + 1)..news, heard' = [heard EXCEPT ![c] = v],
                 UNCHANGED calls
          PROVE  Abstract!Next
      <3>1. Abstract!Tell(c)
        BY <1>1, <1>2, <2>1, <2>2 DEF Abstract!Tell, GivenMap, CalledMap
      <3> QED
        BY <3>1 DEF Abstract!Next
    <2>3. ASSUME NEW s \in Sides, promise = Settled(s), Len(calls[s]) < given[s],
                 calls' = [calls EXCEPT ![s] = Append(calls[s], Len(calls[s]) + 1)], UNCHANGED heard
          PROVE  Abstract!Next
      <3>1. calls \in [Sides -> Seq(1..MaxAdds)] /\ calls' \in [Sides -> Seq(1..MaxAdds)]
        <4>1. DeferredInv'
          BY <1>8, CallUserInv
        <4> QED
          BY <4>1 DEF DeferredInv, DeferredTypeOK
      <3>2. calls'[s] = Append(calls[s], Len(calls[s]) + 1) /\ \A r \in Sides : r # s => calls'[r] = calls[r]
        BY <2>3, <3>1
      <3>3. Len(calls'[s]) = Len(calls[s]) + 1
        BY <3>1, <3>2
      <3>4. \A r \in Sides : CalledMap'[r] = Len(calls'[r]) /\ CalledMap[r] = Len(calls[r])
        <4>1. \A r \in Sides : CalledMap[r] = Len(calls[r])
          BY InTurnAlways
        <4>2. ASSUME NEW r \in Sides PROVE InTurn(r)'
          <5>1. InTurn(r) /\ (r # s => calls'[r] = calls[r])
            BY <3>2, InTurnAlways
          <5>2. CASE r # s
            BY <5>1, <5>2 DEF InTurn
          <5>3. CASE r = s
            <6>1. PICK n \in Nat : n = Len(calls[s])
              BY InTurnAlways
            <6>2. \A i \in 1..n : calls[s][i] = i
              BY <5>1, <5>3, <6>1 DEF InTurn
            <6>3. Len(calls'[s]) = n + 1 /\ calls'[s][n + 1] = n + 1 /\ \A i \in 1..n : calls'[s][i] = i
              BY <3>1, <3>2, <6>1, <6>2
            <6>4. \A i \in 1..(n + 1) : i \in 1..n \/ i = n + 1
              OBVIOUS
            <6> QED
              BY <5>3, <6>3, <6>4 DEF InTurn
          <5> QED
            BY <5>2, <5>3
        <4>3. \A r \in Sides : CalledMap'[r] = Len(calls'[r])
          BY <4>2 DEF CalledMap
        <4> QED
          BY <4>1, <4>3
      <3>5. CalledMap' = [CalledMap EXCEPT ![s] = CalledMap[s] + 1]
        <4>1. \A r \in Sides : CalledMap'[r] = [CalledMap EXCEPT ![s] = CalledMap[s] + 1][r]
          BY <3>2, <3>3, <3>4 DEF CalledMap
        <4> QED
          BY <4>1 DEF CalledMap
      <3>6. CalledMap[s] < GivenMap[s]
        BY <2>3, <3>4 DEF GivenMap
      <3>7. Abstract!Call(s)
        BY <1>2, <2>1, <2>3, <3>5, <3>6 DEF Abstract!Call, Abstract!Outcome, Settled, GivenMap, CalledMap
      <3> QED
        BY <3>7 DEF Abstract!Next, Abstract!Sides, Sides
    <2> QED
      BY <1>8, <2>2, <2>3, CallUserInv
  <1>9. CASE CallReturns \/ FireEnds
    BY <1>1, <1>2, <1>9 DEF CallReturns, FireEnds
  <1> QED
    BY <1>3, <1>4, <1>5, <1>6, <1>7, <1>8, <1>9 DEF DeferredNext, Engine

\* Deferred: DeferredInv holds in every state
LEMMA DeferredInvariant == DeferredSpec => []DeferredInv
  <1> QED
    BY DeferredStarts, DeferredKept, PTL DEF DeferredSpec

\* Deferred: the variables keep their types, whatever the callbacks call
THEOREM DeferredTypeCorrect == DeferredSpec => []DeferredTypeOK
  <1>1. DeferredInv => DeferredTypeOK
    BY DEF DeferredInv
  <1> QED
    BY <1>1, DeferredInvariant, PTL

(* However the calls of its callbacks nest, the Deferred starts as a       *)
(* Promise does and takes no step a Promise does not: one outcome, the      *)
(* callbacks of its side once each and in order, no late or repeated news. *)
THEOREM DeferredKeepsPromise ==
  DeferredSpec
  => /\ Abstract!Init
     /\ [][Abstract!Next]_<<promise, [s \in Sides |-> given[s]],
                            [s \in Sides |-> IF InTurn(s) THEN Len(calls[s]) ELSE MaxAdds + 1], news, heard>>
  <1>1. DeferredInit => Abstract!Init
    <2> SUFFICES ASSUME DeferredInit PROVE Abstract!Init
      OBVIOUS
    <2>1. DeferredInv
      BY DeferredStarts
    <2>2. \A s \in Sides : given[s] = 0 /\ Len(calls[s]) = 0 /\ CalledMap[s] = Len(calls[s])
      BY <2>1, InTurnAlways, SideFacts DEF DeferredInit
    <2>3. GivenMap = [s \in Sides |-> 0] /\ CalledMap = [s \in Sides |-> 0]
      BY <2>2 DEF GivenMap, CalledMap
    <2>4. promise = "pending" /\ news = 0 /\ heard = [c \in 1..MaxAdds |-> 0]
      BY DEF DeferredInit
    <2> QED
      BY <2>3, <2>4 DEF Abstract!Init, Abstract!Sides, Sides, GivenMap, CalledMap
  <1>2. DeferredInv /\ [DeferredNext]_deferredVars
          => [Abstract!Next]_<<promise, [s \in Sides |-> given[s]],
                               [s \in Sides |-> IF InTurn(s) THEN Len(calls[s]) ELSE MaxAdds + 1], news, heard>>
    BY PromiseStep DEF GivenMap, CalledMap
  <1> QED
    BY DeferredInvariant, <1>1, <1>2, PTL DEF DeferredSpec
=============================================================================
