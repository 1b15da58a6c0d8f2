----------------------------- MODULE DataTable -----------------------------
(***************************************************************************)
(* A table of jquery.dataTables.js with the page bar of                    *)
(* jquery.dataTables.bootstrap.js: the user searches, sorts, turns pages   *)
(* and changes their length while scripts add and delete records.  The     *)
(* records are in the page or, with bServerSide, on a server whose answers *)
(* may overtake one another or fail to come.  A record is counted, not     *)
(* described: what matters is how many match the search.                   *)
(***************************************************************************)
EXTENDS Integers, FiniteSetsExt

CONSTANTS
  MaxRecords,   \* bound: records of the table
  Lengths,      \* aLengthMenu
  MaxDraws      \* bound: draws of a table whose records are on the server

ASSUME LengthsAssumption == Lengths \subseteq Nat \ {0} /\ Lengths # {}
ASSUME TableBounds == MaxRecords \in Nat /\ MaxDraws \in Nat \ {0}

VARIABLES
  serverSide,   \* oFeatures.bServerSide
  records,      \* how many records match each search
  search,       \* oPreviousSearch
  start, len,   \* _iDisplayStart, _iDisplayLength
  known,        \* fnRecordsDisplay(): as many match, as far as the table knows
  drawn,        \* the rows in the page: whose, from where, up to where
  bar,          \* the page bar: its links and the page length it was made for
  iDraw,        \* the number of the last draw (of a table on the server)
  asked,        \* requests that are under way
  failed        \* the last request failed

tableVars == <<serverSide, records, search, start, len, known, drawn, bar, iDraw, asked, failed>>

Searches == {"", "typed"}
Nothing == [search |-> "", from |-> 0, to |-> 0, len |-> 0]

Ceiling(n, d) == (n + d - 1) \div d
Least(a, b) == IF a < b THEN a ELSE b

\* _fnCalculateEnd
DisplayEnd(s, l, n) == Least(s + l, n)

\* fnUpdate of the page bar, iListLength = 5: page is counted from 0, the links from 1
LinksOf(page, pages) ==
  CASE pages < 5 -> 1..pages
    [] pages >= 5 /\ page <= 2 -> 1..5
    [] pages >= 5 /\ page > 2 /\ page >= pages - 2 -> (pages - 4)..pages
    [] OTHER -> (page - 1)..(page + 3)

BarOf(s, l, n) == [links |-> LinksOf(Ceiling(s, l), Ceiling(n, l)), len |-> l]

TableTypeOK ==
  /\ serverSide \in BOOLEAN
  /\ records \in [Searches -> 0..MaxRecords] /\ records["typed"] <= records[""]
  /\ search \in Searches
  /\ start \in 0..MaxRecords /\ len \in Lengths /\ known \in 0..MaxRecords
  /\ drawn \in [search : Searches, from : Nat, to : Nat, len : Lengths \cup {0}]
  /\ bar.links \subseteq 1..MaxRecords /\ bar.len \in Lengths
  /\ iDraw \in 0..MaxDraws
  /\ asked \subseteq [sEcho : 1..iDraw, search : Searches, start : 0..MaxRecords, len : Lengths]
  /\ failed \in BOOLEAN

Request(n, q, s, l) == [sEcho |-> n, search |-> q, start |-> s, len |-> l]

TableInit ==
  /\ serverSide \in BOOLEAN
  /\ records = [q \in Searches |-> IF q = "" THEN MaxRecords ELSE MaxRecords \div 2]
  /\ search = "" /\ start = 0 /\ len = Min(Lengths)
  /\ IF serverSide
     THEN /\ known = 0 /\ drawn = Nothing /\ iDraw = 1 /\ asked = {Request(1, "", 0, len)}
     ELSE /\ known = MaxRecords /\ iDraw = 0 /\ asked = {}
          /\ drawn = [search |-> "", from |-> 0, to |-> DisplayEnd(0, len, known), len |-> len]
  /\ bar = BarOf(0, len, known)
  /\ failed = FALSE

-----------------------------------------------------------------------------
(* _fnDraw, at the end of every operation *)

DrawHere ==
  /\ ~serverSide
  /\ drawn' = [search |-> search', from |-> start', to |-> DisplayEnd(start', len', known'), len |-> len']
  /\ bar' = BarOf(start', len', known')
  /\ UNCHANGED <<serverSide, iDraw, asked, failed>>

\* _fnAjaxUpdate
AskServer ==
  /\ serverSide /\ iDraw < MaxDraws
  /\ iDraw' = iDraw + 1
  /\ asked' = asked \cup {Request(iDraw', search', start', len')}
  /\ failed' = FALSE
  /\ UNCHANGED <<serverSide, drawn, bar>>

Draw == DrawHere \/ AskServer

\* _fnFilterComplete; on the server nothing is counted before the answer
FilterComplete(q) ==
  /\ search' = q
  /\ known' = IF serverSide THEN known ELSE records'[q]
  /\ start' = 0
  /\ UNCHANGED len
  /\ Draw

-----------------------------------------------------------------------------
(* The user *)

Filter == \E q \in Searches \ {search} : UNCHANGED records /\ FilterComplete(q)

\* _fnSort draws through the filter
Sort == UNCHANGED records /\ FilterComplete(search)

\* The page is backed up from the end
ChangeLength ==
  \E l \in Lengths \ {len} :
    /\ len' = l
    /\ start' = IF DisplayEnd(start, l, known) = known
                THEN IF known > l THEN known - l ELSE 0
                ELSE start
    /\ UNCHANGED <<records, search, known>>
    /\ Draw

\* _fnPageChange, behind the two arrows; nothing is drawn if the page stays
Previous ==
  /\ start > 0
  /\ start' = IF start > len THEN start - len ELSE 0
  /\ UNCHANGED <<records, search, len, known>>
  /\ Draw

Following ==
  /\ start + len < known
  /\ start' = start + len
  /\ UNCHANGED <<records, search, len, known>>
  /\ Draw

\* A link takes the length of the time when the bar was made
ClickPage ==
  \E p \in bar.links :
    /\ start' = (p - 1) * bar.len
    /\ UNCHANGED <<records, search, len, known>>
    /\ Draw

-----------------------------------------------------------------------------
(* Scripts *)

\* A record is left that matches nothing but the empty search, or one that matches both
Deletable(q) == IF q = "" THEN records[""] > records["typed"] ELSE records["typed"] > 0
Fewer(q) == [records EXCEPT ![""] = @ - 1, !["typed"] = IF q = "typed" THEN @ - 1 ELSE @]
More(q)  == [records EXCEPT ![""] = @ + 1, !["typed"] = IF q = "typed" THEN @ + 1 ELSE @]

\* Faulty variant: the start stays behind the end
DeleteRowInPlace ==
  \E q \in Searches :
    /\ ~serverSide /\ Deletable(q)
    /\ records' = Fewer(q)
    /\ known' = records'[search]
    /\ UNCHANGED <<search, start, len>>
    /\ Draw

\* fnDeleteRow of a record that matches the search or not; a start beyond the end moves back one page
DeleteRow ==
  \E q \in Searches :
    /\ ~serverSide /\ Deletable(q)
    /\ records' = Fewer(q)
    /\ known' = records'[search]
    /\ start' = IF start >= known' THEN IF start > len THEN start - len ELSE 0 ELSE start
    /\ UNCHANGED <<search, len>>
    /\ Draw

\* fnAddData redraws through the sort
AddData ==
  \E q \in Searches :
    /\ ~serverSide /\ records[""] < MaxRecords
    /\ records' = More(q)
    /\ FilterComplete(search)

-----------------------------------------------------------------------------
(* The server is external: it answers with the records that match          *)

\* Faulty variant: every answer is drawn
AnsweredLate(r) ==
  /\ asked' = asked \ {r}
  /\ known' = records[r.search]
  /\ drawn' = [search |-> r.search, from |-> r.start,
               to |-> Max({r.start, DisplayEnd(r.start, r.len, known')}), len |-> r.len]
  /\ bar' = BarOf(start, len, known')
  /\ UNCHANGED <<serverSide, records, search, start, len, iDraw, failed>>

\* _fnAjaxUpdateDraw drops the answer to a request that is not the last
Answered(r) ==
  /\ asked' = asked \ {r}
  /\ IF r.sEcho < iDraw THEN UNCHANGED <<known, drawn, bar>>
     ELSE /\ known' = records[r.search]
          /\ drawn' = [search |-> r.search, from |-> r.start,
                       to |-> Max({r.start, DisplayEnd(r.start, r.len, known')}), len |-> r.len]
          /\ bar' = BarOf(start, len, known')
  /\ UNCHANGED <<serverSide, records, search, start, len, iDraw, failed>>

\* The error callback draws nothing
Failed(r) ==
  /\ asked' = asked \ {r}
  /\ failed' = (failed \/ r.sEcho = iDraw)
  /\ UNCHANGED <<serverSide, records, search, start, len, known, drawn, bar, iDraw>>

TableNext ==
  \/ Filter \/ Sort \/ ChangeLength \/ Previous \/ Following \/ ClickPage
  \/ DeleteRow \/ AddData
  \/ \E r \in asked : Answered(r) \/ Failed(r)

TableSpec == TableInit /\ [][TableNext]_tableVars

-----------------------------------------------------------------------------
(* Lines 2779-2812, 2904-2966 and 5374-5388 of jquery.dataTables.js, 48-83 *)
(* of the bootstrap plug-in: as long as records match, and whatever was    *)
(* deleted and however the length was changed, the page in view has rows   *)
(* in it and so has the page behind every link of the bar.                 *)
PageHasRows ==
  ~serverSide /\ known > 0 =>
    /\ start \in 0..(known - 1)
    /\ drawn.from = start /\ drawn.from < drawn.to /\ drawn.to <= known
    /\ \A p \in bar.links : (p - 1) * bar.len \in 0..(known - 1)

(* Lines 2005-2017: in whatever order the answers come, once none is       *)
(* awaited and the last one did come, the rows in the page are those of    *)
(* the last search, start and length.                                      *)
LastAnswerDrawn ==
  serverSide /\ asked = {} /\ ~failed =>
    drawn.search = search /\ drawn.from = start /\ drawn.len = len
=============================================================================
