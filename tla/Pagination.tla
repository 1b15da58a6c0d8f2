----------------------------- MODULE Pagination -----------------------------
(***************************************************************************)
(* The page bar of paginationProd.jsp (a window of listStep = 9 pages      *)
(* around the current one, and a box for any page number) and the steps of *)
(* five pages of pagination.jsp.  The bar is rendered with the totals of   *)
(* the moment; rows come and go before the user clicks.                    *)
(***************************************************************************)
EXTENDS Integers, FiniteSets

CONSTANT MaxTotal   \* bound: pages the rows may fill

ASSUME SomePages == MaxTotal \in Nat \ {0}

VARIABLES
  total,   \* pages the server's rows fill now
  shown,   \* pagination.totalPage of the page the user looks at
  cur      \* pagination.curPage of that page

vars == <<total, shown, cur>>

TypeOK == total \in 1..MaxTotal /\ shown \in 1..MaxTotal /\ cur \in 1..MaxTotal

Init == total \in 1..MaxTotal /\ shown = total /\ cur = 1

\* Math.ceil(9/2) = 5 and Math.floor(9/2) = 4
ListBegin(c, t) ==
  LET b == IF t - c < 4 THEN t - 8 ELSE c - 5 IN IF b < 1 THEN 1 ELSE b

\* Faulty variant: the window not filled up at the start
EndPlain(c, t) == IF c + 4 > t THEN t + 1 ELSE c + 4

ListEnd(c, t) ==
  LET e == IF c + 4 < 10 THEN 10 ELSE c + 4 IN IF e > t THEN t + 1 ELSE e

Window(c, t) == ListBegin(c, t) .. (ListEnd(c, t) - 1)

\* Nothing is rendered for a single page
Links(c, t) ==
  IF t <= 1 THEN {}
  ELSE Window(c, t) \cup (IF c > 1 THEN {1, c - 1} ELSE {})
                    \cup (IF c < t THEN {c + 1, t} ELSE {})

Clamp(n, t) == IF n > t THEN t ELSE IF n < 1 THEN 1 ELSE n

\* The links of pagination.jsp; the division in the condition is EL's, which keeps fractions
CeilFifth(c) == (c + 4) \div 5
FiveBackFloor(c) == (c \div 5) * 5       \* faulty variant: lands on the page itself
PreFive(c) == (CeilFifth(c) - 1) * 5
NextFive(c) == CeilFifth(c) * 5 + 1
HasPreFive(c) == c > 5
HasNextFive(c, t) == t > c + 5

\* The server is external: it shows the page it is asked for
Show(p) == cur' = p /\ shown' = total /\ UNCHANGED total

GoPage == \E p \in Links(cur, shown) : Show(p)

ToPage == shown > 1 /\ \E n \in 0..(MaxTotal + 1) : Show(Clamp(n, shown))

GoFive ==
  \/ HasPreFive(cur) /\ Show(PreFive(cur))
  \/ HasNextFive(cur, shown) /\ Show(NextFive(cur))

RowsChange == total' \in 1..MaxTotal /\ UNCHANGED <<shown, cur>>

Next == GoPage \/ ToPage \/ GoFive \/ RowsChange

Spec == Init /\ [][Next]_vars

-----------------------------------------------------------------------------
(* Lines 12-25 and 36-42: the window lists nine pages, or all there are,   *)
(* and only pages that exist, also when the current page has vanished      *)
(* meanwhile; and it has the current page in it if that one exists.        *)
WindowFull ==
  /\ Window(cur, shown) \subseteq 1..shown
  /\ ListEnd(cur, shown) - ListBegin(cur, shown) = IF shown < 9 THEN shown ELSE 9
  /\ cur <= shown => cur \in Window(cur, shown)

(* Lines 32-46 and 65-80 of paginationProd.jsp, 15-28 and 42-52 of         *)
(* pagination.jsp: from an existing page every link, every number typed    *)
(* and every step of five leads to a page that existed when it was         *)
(* rendered.                                                               *)
LinksExist ==
  cur <= shown =>
    /\ Links(cur, shown) \subseteq 1..shown
    /\ \A n \in 0..(MaxTotal + 1) : Clamp(n, shown) \in 1..shown
    /\ HasPreFive(cur) => PreFive(cur) \in 1..(cur - 1)
    /\ HasNextFive(cur, shown) => NextFive(cur) \in (cur + 1)..shown
=============================================================================
