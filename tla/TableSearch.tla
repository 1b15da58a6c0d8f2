---------------------------- MODULE TableSearch ----------------------------
(***************************************************************************)
(* How jquery.dataTables.js searches: aiDisplay is narrowed down by the    *)
(* cached texts asDataSearch when the search grows, and rebuilt from       *)
(* aiDisplayMaster otherwise.  A row is known by its identity instead of   *)
(* its index; its text is a short sequence of letters.                     *)
(***************************************************************************)
EXTENDS Integers, FiniteSets, SequencesExt

CONSTANTS
  Rows,      \* the rows that may ever be in the table
  Letters,   \* what texts and searches are made of
  MaxText    \* bound: letters of a text or a search

ASSUME SearchBounds == IsFiniteSet(Rows) /\ MaxText \in Nat

VARIABLES
  text,       \* what each row says
  master,     \* aiDisplayMaster
  display,    \* aiDisplay
  cache,      \* asDataSearch: whose text each entry is
  typed,      \* oPreviousSearch.sSearch
  spoilt      \* an entry of the cache was removed that was not the deleted row's

searchVars == <<text, master, display, cache, typed, spoilt>>

Texts == UNION {[1..n -> Letters] : n \in 0..MaxText}

SearchTypeOK ==
  /\ text \in [Rows -> Texts] /\ typed \in Texts
  /\ \A s \in {master, display, cache} : s \in Seq(Rows) /\ IsInjective(s)
  /\ spoilt \in BOOLEAN

Says(r, s) ==
  \E i \in 1..(Len(text[r]) - Len(s) + 1) : SubSeq(text[r], i, i + Len(s) - 1) = s

\* The entries of a sequence that are in a set (SelectSeq, in a form the proofs can expand)
Keep(seq, kept) ==
  LET upTo[i \in 0..Len(seq)] ==
        IF i = 0 THEN <<>>
        ELSE IF seq[i] \in kept THEN Append(upTo[i - 1], seq[i]) ELSE upTo[i - 1]
  IN  upTo[Len(seq)]

Saying(s) == {r \in Rows : Says(r, s)}
Matching(rows, s) == Keep(rows, Saying(s))

SearchInit ==
  /\ text \in [Rows -> [1..MaxText -> Letters]]
  /\ master = SetToSeq(Rows)
  /\ display = master /\ cache = master
  /\ typed = <<>> /\ spoilt = FALSE

\* _fnFilter from the master array, with iForce or because the search does not narrow the last one
Rebuilt(s) == Matching(master', s)

\* _fnFilter through the cache: row i goes if text i does not match; rows beyond the cache stay
Refined(s) ==
  LET stays == Keep([i \in 1..Len(display) |-> i],
                    {i \in 1..Len(display) : i <= Len(cache) => Says(cache[i], s)})
  IN  [k \in 1..Len(stays) |-> display[stays[k]]]

\* Faulty variant: any longer search is taken for a narrower one
NarrowsByLength(s) == Len(display) # Len(master) /\ Len(typed) <= Len(s) /\ s # <<>>

Narrows(s) == Len(display) # Len(master) /\ IsPrefix(typed, s) /\ s # <<>>

\* _fnFilterComplete ends with _fnBuildSearchArray of what is displayed
SearchAgain(s, force) ==
  /\ typed' = s
  /\ display' = IF Narrows(s) /\ ~force THEN Refined(s) ELSE Rebuilt(s)
  /\ cache' = display'
  /\ spoilt' = (spoilt /\ Narrows(s) /\ ~force)
  /\ UNCHANGED text

Type == \E s \in Texts \ {typed} : UNCHANGED master /\ SearchAgain(s, FALSE)

\* fnAddData goes through the sort
AddRow ==
  \E r \in Rows \ ToSet(master) :
    /\ master' = Append(master, r)
    /\ SearchAgain(typed, TRUE)

\* inArray is -1 for a row that is not displayed, and splice(-1, 1) takes the last entry
DropRow ==
  \E r \in ToSet(master) :
    LET without(s) == Keep(s, Rows \ {r})
        shown      == r \in ToSet(display)
        index      == IF shown THEN CHOOSE i \in 1..Len(display) : display[i] = r ELSE Len(cache)
    IN  /\ master' = without(master) /\ display' = without(display)
        /\ cache' = IF index \in 1..Len(cache) THEN RemoveAt(cache, index) ELSE cache
        /\ spoilt' = (spoilt \/ (~shown /\ cache # <<>>))
        /\ UNCHANGED <<text, typed>>

SearchNext == Type \/ AddRow \/ DropRow

SearchSpec == SearchInit /\ [][SearchNext]_searchVars

-----------------------------------------------------------------------------
(* Lines 2267-2339 and 5339-5388: the narrowed search finds what a search  *)
(* of all rows finds, in the same order; after a row was deleted that did  *)
(* not match, rows that do not match may stay, but none that does is lost. *)
SearchExact ==
  /\ ToSet(Matching(master, typed)) \subseteq ToSet(display)
  /\ ~spoilt => display = Matching(master, typed)

(* Line 5360, "Remove the target row from the search array": no row but    *)
(* the target is removed from it, so that whatever is displayed can be     *)
(* found again in it.                                                      *)
OnlyTargetRemoved == ToSet(display) \subseteq ToSet(cache)
=============================================================================
