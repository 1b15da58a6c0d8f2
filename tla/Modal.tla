------------------------------- MODULE Modal -------------------------------
(***************************************************************************)
(* A dialog of bootstrap.js (modal.js v3.0.0).  With transitions, opening  *)
(* and closing go through callbacks that wait for the end of a transition  *)
(* of the backdrop, of the dialog or of the modal itself; a timeout        *)
(* emulates an end that does not come (transition.js).  The user may       *)
(* close before the dialog is open; a hasty one opens again before it is   *)
(* closed.                                                                 *)
(***************************************************************************)
EXTENDS Naturals, Sequences

CONSTANT MaxBackdrops   \* bound: backdrops ever made

ASSUME ModalBounds == MaxBackdrops \in Nat

VARIABLES
  habit,       \* "patient" or "hasty"
  animated,    \* $.support.transition, and the element has the class fade
  isShown,     \* this.isShown
  visible,     \* the element is displayed
  made,        \* backdrops made so far
  backdrop,    \* this.$backdrop, 0 for null
  onPage,      \* the backdrops in the page
  handlers,    \* what is bound to the end of a transition of each element, once
  awaited,     \* the elements whose transition's end or timeout is to come
  modalOpen    \* the class modal-open of the body

modalVars == <<habit, animated, isShown, visible, made, backdrop, onPage, handlers, awaited, modalOpen>>

Backdrops == 1..MaxBackdrops

\* The modal and its dialog are numbered behind the backdrops
Element == MaxBackdrops + 1
Dialog  == MaxBackdrops + 2

Callbacks == {"show", "shown", "hideModal", "removeBackdrop"}

ModalTypeOK ==
  /\ habit \in {"patient", "hasty"} /\ animated \in BOOLEAN /\ isShown \in BOOLEAN
  /\ visible \in BOOLEAN /\ modalOpen \in BOOLEAN /\ made \in 0..MaxBackdrops
  /\ backdrop \in 0..made /\ onPage \subseteq 1..made
  /\ handlers \in [1..Dialog -> Seq(Callbacks)]
  /\ awaited \subseteq 1..Dialog

\* What a handler changes, as a record, so that one event can run several of them
Page == [visible |-> visible, made |-> made, backdrop |-> backdrop, onPage |-> onPage,
         handlers |-> handlers, awaited |-> awaited, modalOpen |-> modalOpen]

Becomes(p) ==
  /\ visible' = p.visible /\ made' = p.made /\ backdrop' = p.backdrop /\ onPage' = p.onPage
  /\ handlers' = p.handlers /\ awaited' = p.awaited /\ modalOpen' = p.modalOpen

\* one(transition end, what) and emulateTransitionEnd
Await(p, e, what) == [p EXCEPT !.handlers[e] = Append(@, what), !.awaited = @ \cup {e}]

\* The element appears; shown.bs.modal, which nothing here listens to, follows its transition
Appear(p) ==
  LET there == [p EXCEPT !.visible = TRUE] IN IF animated THEN Await(there, Dialog, "shown") ELSE there

\* removeBackdrop and hidden.bs.modal
Bared(p) ==
  [p EXCEPT !.backdrop = 0, !.modalOpen = FALSE, !.onPage = @ \ {p.backdrop},
            !.handlers = [e \in DOMAIN @ |-> IF e = p.backdrop THEN <<>> ELSE @[e]],
            !.awaited = @ \ {p.backdrop}]

Do(p, what) ==
  CASE what = "show" -> Appear(p)
    [] what = "removeBackdrop" -> Bared(p)
    [] OTHER -> p

NewBackdrop(p) ==
  [p EXCEPT !.made = @ + 1, !.backdrop = p.made + 1, !.onPage = @ \cup {p.made + 1}]

\* Modal.backdrop(callback)
WithBackdrop(p, shownNow, what) ==
  IF shownNow
  THEN IF animated THEN Await(NewBackdrop(p), p.made + 1, what) ELSE Do(NewBackdrop(p), what)
  ELSE IF p.backdrop # 0 /\ animated THEN Await(p, p.backdrop, what) ELSE Do(p, what)

HideModal(p, shownNow) == WithBackdrop([p EXCEPT !.visible = FALSE], shownNow, "removeBackdrop")

ModalInit ==
  /\ habit \in {"patient", "hasty"} /\ animated \in BOOLEAN
  /\ isShown = FALSE /\ visible = FALSE /\ made = 0 /\ backdrop = 0 /\ onPage = {}
  /\ handlers = [e \in 1..Dialog |-> <<>>] /\ awaited = {} /\ modalOpen = FALSE

\* Faulty variant: a dialog that is shown is shown again
ShowDialogAgain ==
  /\ made < MaxBackdrops /\ (habit = "patient" => isShown \/ awaited = {})
  /\ isShown' = TRUE
  /\ Becomes(WithBackdrop([Page EXCEPT !.modalOpen = TRUE], TRUE, "show"))
  /\ UNCHANGED <<habit, animated>>

\* The button: show.bs.modal is triggered even if the dialog is shown already
ShowDialog ==
  /\ made < MaxBackdrops /\ (habit = "patient" => isShown \/ awaited = {})
  /\ isShown' = TRUE
  /\ LET opened == [Page EXCEPT !.modalOpen = TRUE] IN
       Becomes(IF isShown THEN opened ELSE WithBackdrop(opened, TRUE, "show"))
  /\ UNCHANGED <<habit, animated>>

\* The X, the escape key, a click beside the dialog
HideDialog ==
  /\ isShown
  /\ isShown' = FALSE
  /\ Becomes(IF animated THEN Await(Page, Element, "hideModal") ELSE HideModal(Page, FALSE))
  /\ UNCHANGED <<habit, animated>>

\* The event bubbles from the dialog to the modal: its handlers run after the dialog's
Hears(e) == IF e = Dialog THEN {Dialog, Element} ELSE {e}

RunAll(p, todo) ==
  LET after[i \in 0..Len(todo)] ==
        IF i = 0 THEN p
        ELSE IF todo[i] = "hideModal" THEN HideModal(after[i - 1], isShown)
        ELSE Do(after[i - 1], todo[i])
  IN  after[Len(todo)]

\* The modal's 300 ms begin after the 150 ms of a backdrop that is to show it, and it has no
\* transition of its own before it is shown
InTime(e) == e = Element => \A b \in Backdrops : b \in awaited => handlers[b] # <<"show">>

TransitionEnds(e) ==
  /\ e \in awaited /\ InTime(e)
  /\ LET todo == IF e = Dialog THEN handlers[Dialog] \o handlers[Element] ELSE handlers[e]
         unbound == [Page EXCEPT !.awaited = @ \ Hears(e),
                                 !.handlers = [x \in DOMAIN @ |-> IF x \in Hears(e) THEN <<>> ELSE @[x]]]
     IN  /\ isShown => Len(SelectSeq(todo, LAMBDA w : w = "hideModal")) <= MaxBackdrops - made
         /\ Becomes(RunAll(unbound, todo))
  /\ UNCHANGED <<habit, animated, isShown>>

ModalNext == ShowDialog \/ HideDialog \/ \E e \in 1..Dialog : TransitionEnds(e)

ModalSpec == ModalInit /\ [][ModalNext]_modalVars

-----------------------------------------------------------------------------
(* Lines 871-1018: when a patient user has opened and closed the dialog,   *)
(* however early it was closed, and no transition is under way, the dialog *)
(* is on the screen, under one backdrop and with the page locked, exactly  *)
(* if it is open.                                                          *)
SettledDialog ==
  (habit = "patient" /\ awaited = {}) =>
    /\ visible = isShown /\ modalOpen = isShown
    /\ onPage = (IF isShown THEN {backdrop} ELSE {}) /\ (backdrop # 0) = isShown
=============================================================================
