------------------------------ MODULE Effects ------------------------------
(***************************************************************************)
(* The effects of one element in jquery-2.0.3.js: its "fx" queue with the  *)
(* "inprogress" sentinel at the head, the stop hook of a delay, its        *)
(* animations among jQuery.timers and the timeouts of its delays.  A job   *)
(* is an animation or a delay; its duration is not 0.                      *)
(***************************************************************************)
EXTENDS Sequences

Sentinel == [kind |-> "inprogress", id |-> 0]

\* Nothing queued; stop holds the delay whose stop hook is set, if one is
AtRest == [queue |-> <<>>, stop |-> {}, timers |-> {}, timeouts |-> {}]

SentinelFirst(q) == q # <<>> /\ Head(q).kind = "inprogress"

InProgress(f) == f.timers \cup f.timeouts

\* An animation joins jQuery.timers; a delay sets its timeout and the stop hook
Begun(f, j) ==
  IF j.kind = "delay"
  THEN [f EXCEPT !.timeouts = @ \cup {j}, !.stop = {j}]
  ELSE [f EXCEPT !.timers = @ \cup {j}, !.stop = {}]

\* With nothing left to begin, hooks.empty removes the queue, and the hooks with it
Dequeued(f) ==
  LET waiting == IF SentinelFirst(f.queue) THEN Tail(f.queue) ELSE f.queue
  IN  IF waiting = <<>> THEN [f EXCEPT !.queue = <<>>, !.stop = {}]
      ELSE Begun([f EXCEPT !.queue = <<Sentinel>> \o Tail(waiting)], Head(waiting))

\* Faulty variants: what is queued begins at once; what completes does not begin the next
EnqueuedAndBegun(f, j) == Dequeued([f EXCEPT !.queue = Append(@, j)])
CompletedAlone(f, j) == [f EXCEPT !.timers = @ \ {j}, !.timeouts = @ \ {j}]

Enqueued(f, j) ==
  LET longer == [f EXCEPT !.queue = Append(@, j)]
  IN  IF SentinelFirst(f.queue) THEN longer ELSE Dequeued(longer)

\* queue("fx", []): what replaces the queue has no sentinel and is dequeued
Cleared(f) == Dequeued([f EXCEPT !.queue = <<>>])

\* complete: the job has left timers or timeouts, the next one begins
Completed(f, j) == Dequeued([f EXCEPT !.timers = @ \ {j}, !.timeouts = @ \ {j}])

\* stop(clearQueue, _) before it dequeues: the delay that has its stop hook and the animations end
Halted(f, clearQueue) ==
  LET kept == IF clearQueue THEN Cleared(f) ELSE f
  IN  [kept EXCEPT !.timeouts = @ \ kept.stop, !.stop = {}, !.timers = {}]

Stopped(f, clearQueue) == Dequeued(Halted(f, clearQueue))

\* finish: nothing of the queue is left, nor is the delay that has its stop hook
Finished(f) == [f EXCEPT !.queue = <<>>, !.stop = {}, !.timers = {}, !.timeouts = @ \ f.stop]
=============================================================================
