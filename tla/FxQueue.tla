------------------------------ MODULE FxQueue ------------------------------
(***************************************************************************)
(* An element whose effects are queued, stopped and finished by scripts    *)
(* and by the callbacks of the effects themselves (Effects).               *)
(***************************************************************************)
EXTENDS Effects, Naturals, FiniteSets

CONSTANT MaxJobs   \* bound: jobs ever queued

ASSUME FxBounds == MaxJobs \in Nat

VARIABLES
  fx,          \* the element's effects
  queued,      \* jobs ever queued; a job is known by its number
  ended,       \* jobs that completed, were stopped or were thrown away
  upset        \* something once began a job beside one in progress: see what makes it TRUE

fxVars == <<fx, queued, ended, upset>>

Jobs == [kind : {"anim", "delay"}, id : 1..MaxJobs]

FxTypeOK ==
  /\ fx \in [queue : Seq(Jobs \cup {Sentinel}), stop : SUBSET Jobs,
             timers : SUBSET Jobs, timeouts : SUBSET Jobs]
  /\ queued \in 0..MaxJobs
  /\ ended \subseteq 1..MaxJobs
  /\ upset \in BOOLEAN

FxInit == fx = AtRest /\ queued = 0 /\ ended = {} /\ upset = FALSE

Ids(jobs) == {j.id : j \in jobs}
Queued(f) == {f.queue[i] : i \in 1..Len(f.queue)} \ {Sentinel}

(***************************************************************************)
(* Scripts and callbacks make the same calls, each as a function of the    *)
(* state it finds.                                                         *)
(***************************************************************************)
Now == [fx |-> fx, queued |-> queued, ended |-> ended, upset |-> upset]

Become(r) == fx' = r.fx /\ queued' = r.queued /\ ended' = r.ended /\ upset' = r.upset

NewJobs(n) == [kind : {"anim", "delay"}, id : {n + 1} \cap 1..MaxJobs]

Animate(r) == {[r EXCEPT !.fx = Enqueued(r.fx, j), !.queued = j.id] : j \in NewJobs(r.queued)}

\* Stopping: the jobs in progress end, and with clearQueue the waiting ones.  To clear
\* forgets the stop hook of a delay, which goes on.
Stopping(r, clearQueue, after) ==
  [r EXCEPT !.fx = after,
            !.ended = @ \cup Ids(r.fx.timers)
                        \cup (IF clearQueue THEN Ids(Queued(r.fx)) ELSE Ids(r.fx.stop)),
            !.upset = @ \/ (clearQueue /\ r.fx.timeouts # {})]

Stop(r) == {Stopping(r, clearQueue, Stopped(r.fx, clearQueue)) : clearQueue \in BOOLEAN}

Finish(r) ==
  {[r EXCEPT !.fx = Finished(r.fx), !.ended = @ \cup Ids(r.fx.timers \cup r.fx.stop \cup Queued(r.fx))]}

Call(r) == Animate(r) \cup Stop(r) \cup Finish(r)

\* A callback calls what it likes, in any order; bound: two calls
AfterCallback(r) == {r} \cup Call(r) \cup UNION {Call(s) : s \in Call(r)}

\* opt.complete after the callback: it dequeues, though the callback may have begun a job
Goes(r, f) == [r EXCEPT !.fx = f, !.upset = @ \/ InProgress(r.fx) # {}]

ScriptCalls == \E r \in Call(Now) : Become(r)

\* jQuery.fx.tick finds an animation at its end.  Its callback no longer sees it among the
\* timers (tick.elem is deleted); then the next job.
TickEnds(j) ==
  /\ j \in fx.timers
  /\ \E r \in AfterCallback([Now EXCEPT !.fx = [fx EXCEPT !.timers = fx.timers \ {j}],
                                       !.ended = ended \cup {j.id}]) :
       Become(Goes(r, Completed(r.fx, j)))

DelayEnds(j) ==
  /\ j \in fx.timeouts
  /\ fx' = Completed(fx, j)
  /\ ended' = ended \cup {j.id}
  /\ UNCHANGED <<queued, upset>>

DequeuedTimes(n, f) ==
  LET after[i \in 0..n] == IF i = 0 THEN f ELSE Dequeued(after[i - 1]) IN after[n]

\* With gotoEnd each animation completes, with its callback, and dequeues by itself.  Several
\* are in progress once the queue is upset; bound: their callbacks then only animate.
StopAtEnd(clearQueue) ==
  LET halted == Stopping(Now, clearQueue, Halted(fx, clearQueue))
      several == Cardinality(fx.timers) > 1
  IN  /\ fx.timers # {}
      /\ \E r \in IF several THEN {halted} \cup Animate(halted) ELSE AfterCallback(halted) :
           Become(Goes(r, DequeuedTimes(Cardinality(fx.timers), r.fx)))

\* One of the callbacks starts an effect: an animation is finished too, a delay is left without a queue
FinishCallbackAnimates ==
  \E j \in NewJobs(queued), s \in Finish(Now) :
    /\ \E k \in fx.timers \cup Queued(fx) : k.kind = "anim"
    /\ \/ /\ j.kind = "anim"
          /\ Become([s EXCEPT !.queued = j.id, !.ended = @ \cup {j.id}])
       \/ /\ j.kind = "delay"
          /\ Become([s EXCEPT !.queued = j.id,
                            !.fx = [s.fx EXCEPT !.timeouts = s.fx.timeouts \cup {j}], !.upset = TRUE])

\* One of the callbacks finishes: the flag is gone, and the animations not reached yet begin together
FinishCallbackFinishes ==
  \E i \in 0..Len(fx.queue) :
    LET later == {j \in Jobs : j.kind = "anim" /\ \E k \in (i + 1)..Len(fx.queue) : fx.queue[k] = j}
    IN  /\ IF i = 0 THEN fx.timers # {} ELSE fx.queue[i].kind = "anim"
        /\ fx' = [Finished(fx) EXCEPT !.timers = later]
        /\ ended' = ended \cup Ids((fx.timers \cup fx.stop \cup Queued(fx)) \ later)
        /\ upset' = (upset \/ later # {})
        /\ UNCHANGED queued

JobEnds == \E j \in Jobs : TickEnds(j) \/ DelayEnds(j)

FxNext ==
  \/ ScriptCalls
  \/ JobEnds
  \/ \E clearQueue \in BOOLEAN : StopAtEnd(clearQueue)
  \/ FinishCallbackAnimates \/ FinishCallbackFinishes

\* Timers and timeouts run off
FxFairness == WF_fxVars(JobEnds)

FxSpec == FxInit /\ [][FxNext]_fxVars /\ FxFairness

-----------------------------------------------------------------------------
(* dequeue (3673-3707), stop (8357-8406), finish (8407-8448) and complete  *)
(* (8504-8512): the sentinel is at the head of the queue exactly while one *)
(* job is in progress, and with none in progress nothing waits, whatever   *)
(* scripts and callbacks call, until                                       *)
(*   - the queue is cleared in the middle of a delay,                      *)
(*   - a callback leaves a job in progress that it has begun (it stops     *)
(*     while others wait, or empties the queue and animates), or           *)
(*   - a callback delays or finishes while its element is finished.        *)
QueueDriven ==
  ~upset =>
    /\ Cardinality(InProgress(fx)) = IF SentinelFirst(fx.queue) THEN 1 ELSE 0
    /\ fx.queue # <<>> => SentinelFirst(fx.queue)
    /\ Sentinel \notin {fx.queue[i] : i \in 2..Len(fx.queue)}

(* Whatever scripts and callbacks call, upset or not, each job that is     *)
(* queued comes to its end.                                                *)
JobsEnd == \A n \in 1..MaxJobs : n <= queued ~> n \in ended
=============================================================================
