------------------------------ MODULE Gritter ------------------------------
(***************************************************************************)
(* The notices of jquery.gritter.js as elements.jsp uses them: added       *)
(* sticky or with a timer, held by the pointer, closed by their X, removed *)
(* all together.  Fading in, fading out and shrinking are effects of the   *)
(* notice's element (Effects).                                             *)
(***************************************************************************)
EXTENDS Effects, Naturals

CONSTANTS
  Notices,     \* the notices that may be added
  MaxEnters    \* bound: how often the pointer comes to one notice

ASSUME GritterBounds == MaxEnters \in Nat

VARIABLES
  notice,    \* each notice: where its element is, its handlers, its timer and its effects
  wrapper    \* #gritter-notice-wrapper: "none", "shown" or "fading"

gritterVars == <<notice, wrapper>>

\* The effects that are queued or run at once have different numbers
Waiting(f) == {f.queue[i].id : i \in {k \in 1..Len(f.queue) : f.queue[k].kind = "anim"}}
FreeId(f) == CHOOSE i \in 1..5 : i \notin Waiting(f) \cup {j.id : j \in f.timers}
Job(f, d) == [kind |-> "anim", does |-> d, id |-> FreeId(f)]

New == [at |-> "none", sticky |-> FALSE, timer |-> FALSE, hover |-> FALSE, bound |-> FALSE,
        enters |-> 0, fx |-> AtRest, closed |-> 0]

GritterTypeOK ==
  /\ wrapper \in {"none", "shown", "fading"}
  /\ \A n \in Notices :
       LET x == notice[n] IN
         /\ x.at \in {"none", "page", "gone"} /\ x.closed \in Nat /\ x.enters \in 0..MaxEnters
         /\ x.sticky \in BOOLEAN /\ x.timer \in BOOLEAN /\ x.hover \in BOOLEAN /\ x.bound \in BOOLEAN
         /\ wrapper = "none" => x.at # "page"

GritterInit == notice = [n \in Notices |-> New] /\ wrapper = "none"

OnPage == {n \in Notices : notice[n].at = "page"}

\* Faulty variant: the element is detached and keeps its data
RemovedWithData(x) == [x EXCEPT !.at = "gone"]

\* remove(): the element leaves the page and its data goes; a running animation goes on
Removed(x) == [x EXCEPT !.at = "gone", !.fx.queue = <<>>, !.fx.stop = {}]

Animated(x, d) == [x EXCEPT !.fx = Enqueued(@, Job(@, d))]

AddNotice(n, sticky) ==
  /\ notice[n].at = "none"
  /\ notice' = [notice EXCEPT ![n] =
                  Animated([New EXCEPT !.at = "page", !.sticky = sticky, !.timer = ~sticky, !.bound = TRUE], "fadeIn")]
  /\ wrapper' = IF wrapper = "none" THEN "shown" ELSE wrapper

\* before_open of the "max 3" button returns false: nothing but the wrapper is there
AddRefused ==
  /\ \E n \in Notices : notice[n].at = "none"
  /\ wrapper' = IF wrapper = "none" THEN "shown" ELSE wrapper
  /\ UNCHANGED notice

\* _restoreItemIfFading: the timer is cleared and the effect that runs is stopped
Enter(n) ==
  /\ notice[n].at = "page" /\ ~notice[n].hover /\ notice[n].enters < MaxEnters
  /\ LET here == [notice[n] EXCEPT !.hover = TRUE, !.enters = @ + 1] IN
       notice' = [notice EXCEPT ![n] =
                    IF here.bound /\ ~here.sticky
                    THEN [here EXCEPT !.timer = FALSE, !.fx = Stopped(@, FALSE)] ELSE here]
  /\ UNCHANGED wrapper

\* Faulty variant: the timer is not set again
LeaveUntimed(n) ==
  /\ notice[n].at = "page" /\ notice[n].hover
  /\ notice' = [notice EXCEPT ![n].hover = FALSE]
  /\ UNCHANGED wrapper

Leave(n) ==
  /\ notice[n].at = "page" /\ notice[n].hover
  /\ notice' = [notice EXCEPT ![n].hover = FALSE,
                              ![n].timer = @ \/ (notice[n].bound /\ ~notice[n].sticky)]
  /\ UNCHANGED wrapper

\* _fade, from the timer; the element may have left the page with the wrapper.  The timer is six
\* seconds long, longer than all the effects together that had begun when it was set
TimerFires(n) ==
  /\ notice[n].timer /\ InProgress(notice[n].fx) = {}
  /\ notice' = [notice EXCEPT ![n] = Animated([@ EXCEPT !.timer = FALSE], "fade")]
  /\ UNCHANGED wrapper

\* The X is shown to the pointer that is on the notice; it unbinds the hover handlers, not itself
ClickX(n) ==
  /\ notice[n].at = "page" /\ notice[n].hover /\ Len(notice[n].fx.queue) < 3
  /\ notice' = [notice EXCEPT ![n] = Animated([@ EXCEPT !.bound = FALSE], "fade")]
  /\ UNCHANGED wrapper

\* after_open, then the queue goes on
FadedIn(n) ==
  \E j \in notice[n].fx.timers :
    /\ j.does = "fadeIn"
    /\ notice' = [notice EXCEPT ![n].fx = Completed(@, j)]
    /\ UNCHANGED wrapper

FadedOut(n) ==
  \E j \in notice[n].fx.timers :
    /\ j.does = "fade"
    /\ notice' = [notice EXCEPT ![n] = [Animated(notice[n], "shrink") EXCEPT !.fx = Completed(@, j)]]
    /\ UNCHANGED wrapper

\* _countRemoveWrapper, with after_close
Shrunk(n) ==
  \E j \in notice[n].fx.timers :
    /\ j.does = "shrink"
    /\ notice' = [notice EXCEPT ![n] = [Removed(notice[n]) EXCEPT !.closed = @ + 1, !.fx = Completed(@, j)]]
    /\ wrapper' = IF OnPage \ {n} = {} THEN "none" ELSE wrapper

RemoveAll == wrapper = "shown" /\ wrapper' = "fading" /\ UNCHANGED notice

\* stop: the wrapper goes with all that is in it
WrapperFaded ==
  /\ wrapper = "fading" /\ wrapper' = "none"
  /\ notice' = [n \in Notices |-> IF n \in OnPage THEN Removed(notice[n]) ELSE notice[n]]

Effect(n) == TimerFires(n) \/ FadedIn(n) \/ FadedOut(n) \/ Shrunk(n)

GritterNext ==
  \/ \E n \in Notices : Enter(n) \/ Leave(n) \/ ClickX(n) \/ Effect(n)
  \/ \E n \in Notices, sticky \in BOOLEAN : AddNotice(n, sticky)
  \/ AddRefused \/ RemoveAll \/ WrapperFaded

\* Timers and effects run off
GritterFairness == (\A n \in Notices : WF_gritterVars(Effect(n))) /\ WF_gritterVars(WrapperFaded)

GritterSpec == GritterInit /\ [][GritterNext]_gritterVars /\ GritterFairness

-----------------------------------------------------------------------------
(* Lines 168-251 and 307-340: a notice that is not sticky goes, unless the *)
(* pointer holds it; and once its X was clicked nothing holds it any more. *)
NoticesLeave ==
  \A n \in Notices :
    (notice[n].at = "page" /\ (notice[n].bound => ~notice[n].sticky /\ ~notice[n].hover))
      ~> (notice[n].at = "gone" \/ (notice[n].hover /\ notice[n].bound))

(* Lines 198-209: whatever fades, stops and removals are under way, the    *)
(* after_close callback of a notice is called once at most.                *)
ClosedOnce == \A n \in Notices : notice[n].closed <= 1
=============================================================================
