------------------------------ MODULE Deferred ------------------------------
(***************************************************************************)
(* jQuery.Deferred over its three jQuery.Callbacks lists (jquery-2.0.3.js, *)
(* the version the ace-admin views load): "done" and "fail" are "once      *)
(* memory", "progress" is "memory".  The script is single-threaded, but a  *)
(* callback may itself register callbacks, notify, resolve and reject: the *)
(* calls nest, and frames is the stack of the lists that are firing.       *)
(***************************************************************************)
EXTENDS Naturals, Sequences

CONSTANTS
  MaxAdds,     \* bound: callbacks registered with each list
  MaxNews      \* bound: notifications

ASSUME DeferredBounds == MaxAdds \in Nat /\ MaxNews \in Nat

VARIABLES
  promise,   \* the variable state of Deferred
  cbs,       \* the variables of the three callback lists
  frames,    \* the fire loops that are on the call stack, the innermost last
  given,     \* callbacks registered with each list so far
  calls,     \* those of "done" and "fail" that were called, in order
  news,      \* notifications that were not ignored
  heard      \* the last notification each progress callback was called with

deferredVars == <<promise, cbs, frames, given, calls, news, heard>>

Sides == {"done", "fail"}
Lists == Sides \cup {"progress"}
Other(l) == IF l = "done" THEN "fail" ELSE "done"
Settled(l) == IF l = "done" THEN "resolved" ELSE "rejected"

\* A list's entries: its built-in callbacks and the user's, which are numbered
Entry == [does : {"setState", "disableOther", "lockProgress", "user"}, id : 0..MaxAdds]
BuiltIn(d) == [does |-> d, id |-> 0]
User(n) == [does |-> "user", id |-> n]

\* list = undefined is on = FALSE; stack is an array or it is not (repeat = FALSE); memory = 0 is none
NewList(entries, r) ==
  [on |-> TRUE, list |-> entries, repeat |-> r, stack |-> <<>>, memory |-> 0, fired |-> FALSE,
   firing |-> FALSE, firingStart |-> 0, firingLength |-> 0, firingIndex |-> 0]

DeferredTypeOK ==
  /\ promise \in {"pending", "resolved", "rejected"}
  /\ cbs \in [Lists -> [on : BOOLEAN, list : Seq(Entry), repeat : BOOLEAN, stack : Seq(1..MaxNews),
                        memory : 0..(MaxNews + 1), fired : BOOLEAN, firing : BOOLEAN,
                        firingStart : Nat, firingLength : Nat, firingIndex : Nat]]
  /\ frames \in Seq([of : Lists, at : {"loop", "body"}, data : 1..(MaxNews + 1)])
  /\ given \in [Lists -> 0..MaxAdds]
  /\ calls \in [Sides -> Seq(1..MaxAdds)]
  /\ news \in 0..MaxNews
  /\ heard \in [1..MaxAdds -> 0..MaxNews]

DeferredInit ==
  /\ promise = "pending"
  /\ cbs = [l \in Lists |->
              IF l = "progress" THEN NewList(<<>>, TRUE)
              ELSE NewList(<<BuiltIn("setState"), BuiltIn("disableOther"), BuiltIn("lockProgress")>>, FALSE)]
  /\ frames = <<>>
  /\ given = [l \in Lists |-> 0]
  /\ calls = [s \in Sides |-> <<>>]
  /\ news = 0
  /\ heard = [c \in 1..MaxAdds |-> 0]

-----------------------------------------------------------------------------
(* The operations of Callbacks on one list *)

FireBegun(cb, data) ==
  [cb EXCEPT !.memory = data, !.fired = TRUE, !.firingIndex = cb.firingStart, !.firingStart = 0,
             !.firingLength = Len(cb.list), !.firing = TRUE]

Disabled(cb) == [cb EXCEPT !.on = FALSE, !.list = <<>>, !.repeat = FALSE, !.stack = <<>>, !.memory = 0]

Locked(cb) ==
  LET unstacked == [cb EXCEPT !.repeat = FALSE, !.stack = <<>>]
  IN  IF cb.memory = 0 THEN Disabled(unstacked) ELSE unstacked

\* What is left of a list whose loop has ended with nothing on its stack
Rested(cb) ==
  LET still == [cb EXCEPT !.firing = FALSE]
  IN  CASE ~cb.on \/ cb.repeat -> still
        [] cb.on /\ ~cb.repeat /\ cb.memory # 0 -> [still EXCEPT !.list = <<>>]
        [] OTHER -> Disabled(still)

-----------------------------------------------------------------------------
(* The script: code outside of all callbacks, or the callback being called *)

Top == frames[Len(frames)]
ScriptRuns == frames # <<>> => Top.at = "body"
Push(l, data) == Append(frames, [of |-> l, at |-> "loop", data |-> data])

\* done, fail and progress are list.add; a fired list with memory calls the newcomer at once
Register(l) ==
  LET cb     == cbs[l]
      longer == [cb EXCEPT !.list = Append(cb.list, User(given[l] + 1))]
  IN  /\ ScriptRuns /\ given[l] < MaxAdds
      /\ given' = [given EXCEPT ![l] = @ + 1]
      /\ \/ /\ ~cb.on
            /\ UNCHANGED <<cbs, frames>>
         \/ /\ cb.on /\ cb.firing
            /\ cbs' = [cbs EXCEPT ![l] = [longer EXCEPT !.firingLength = Len(longer.list)]]
            /\ UNCHANGED frames
         \/ /\ cb.on /\ ~cb.firing /\ cb.memory # 0
            /\ cbs' = [cbs EXCEPT ![l] = FireBegun([longer EXCEPT !.firingStart = Len(cb.list)], cb.memory)]
            /\ frames' = Push(l, cb.memory)
         \/ /\ cb.on /\ ~cb.firing /\ cb.memory = 0
            /\ cbs' = [cbs EXCEPT ![l] = longer]
            /\ UNCHANGED frames
      /\ UNCHANGED <<promise, calls, news, heard>>

\* Faulty variant: a list fires as often as it is told to
AcceptsAgain(cb) == cb.on

\* fireWith: of a list that is undefined, or that has fired and does not repeat, nothing is fired
Accepts(cb) == cb.on /\ (~cb.fired \/ cb.repeat)

FireWith(l, data) ==
  /\ Accepts(cbs[l])
  /\ \/ /\ cbs[l].firing
        /\ cbs' = [cbs EXCEPT ![l].stack = Append(@, data)]
        /\ UNCHANGED frames
     \/ /\ ~cbs[l].firing
        /\ cbs' = [cbs EXCEPT ![l] = FireBegun(cbs[l], data)]
        /\ frames' = Push(l, data)

\* deferred.resolve and deferred.reject; the values they carry are all alike
Settle(s) ==
  /\ ScriptRuns /\ FireWith(s, 1)
  /\ UNCHANGED <<promise, given, calls, news, heard>>

Notify ==
  /\ ScriptRuns /\ news < MaxNews /\ FireWith("progress", news + 1)
  /\ news' = news + 1
  /\ UNCHANGED <<promise, given, calls, heard>>

-----------------------------------------------------------------------------
(* The fire loop on top of the stack *)

Firing == {l \in Lists : frames # <<>> /\ Top.of = l /\ Top.at = "loop"}
InRange(cb) == cb.on /\ cb.firingIndex < cb.firingLength
Current(cb) == cb.list[cb.firingIndex + 1]

CallBuiltIn ==
  \E l \in Firing :
    LET moved == [cbs EXCEPT ![l].firingIndex = @ + 1]
        does  == Current(cbs[l]).does
    IN  /\ InRange(cbs[l]) /\ does # "user"
        /\ promise' = IF does = "setState" THEN Settled(l) ELSE promise
        /\ cbs' = CASE does = "setState" -> moved
                    [] does = "disableOther" -> [moved EXCEPT ![Other(l)] = Disabled(cbs[Other(l)])]
                    [] does = "lockProgress" -> [moved EXCEPT !["progress"] = Locked(cbs["progress"])]
        /\ UNCHANGED <<frames, given, calls, news, heard>>

CallUser ==
  \E l \in Firing :
    /\ InRange(cbs[l]) /\ Current(cbs[l]).does = "user"
    /\ LET n == Current(cbs[l]).id IN
         IF l = "progress"
         THEN heard' = [heard EXCEPT ![n] = Top.data] /\ UNCHANGED calls
         ELSE calls' = [calls EXCEPT ![l] = Append(@, n)] /\ UNCHANGED heard
    /\ frames' = [frames EXCEPT ![Len(frames)].at = "body"]
    /\ UNCHANGED <<promise, cbs, given, news>>

CallReturns ==
  /\ frames # <<>> /\ Top.at = "body"
  /\ frames' = [frames EXCEPT ![Len(frames)].at = "loop"]
  /\ cbs' = [cbs EXCEPT ![Top.of].firingIndex = @ + 1]
  /\ UNCHANGED <<promise, given, calls, news, heard>>

\* After the loop: the next call of fire that had to wait, or the list comes to rest
FireEnds ==
  \E l \in Firing :
    LET cb == cbs[l] IN
      /\ ~InRange(cb)
      /\ \/ /\ cb.on /\ cb.stack # <<>>
            /\ cbs' = [cbs EXCEPT ![l] = FireBegun([cb EXCEPT !.stack = Tail(cb.stack)], Head(cb.stack))]
            /\ frames' = [frames EXCEPT ![Len(frames)].data = Head(cb.stack)]
         \/ /\ ~cb.on \/ cb.stack = <<>>
            /\ cbs' = [cbs EXCEPT ![l] = Rested(cb)]
            /\ frames' = SubSeq(frames, 1, Len(frames) - 1)
      /\ UNCHANGED <<promise, given, calls, news, heard>>

Engine == CallBuiltIn \/ CallUser \/ CallReturns \/ FireEnds

DeferredNext ==
  \/ \E l \in Lists : Register(l)
  \/ \E s \in Sides : Settle(s)
  \/ Notify
  \/ Engine

\* The engine goes on, and every callback returns
DeferredFairness == WF_deferredVars(Engine)

DeferredSpec == DeferredInit /\ [][DeferredNext]_deferredVars /\ DeferredFairness

-----------------------------------------------------------------------------
\* A callback that is called out of turn does not count as the next one
InTurn(s) == \A i \in 1..Len(calls[s]) : calls[s][i] = i

Abstract == INSTANCE Promise WITH
  outcome    <- promise,
  registered <- [s \in Sides |-> given[s]],
  called     <- [s \in Sides |-> IF InTurn(s) THEN Len(calls[s]) ELSE MaxAdds + 1],
  Listeners  <- 1..MaxAdds

(* Lines 2880-3130: however calls nest, the Deferred behaves like a        *)
(* Promise: one outcome, every callback of its side called once and in     *)
(* order of registration, the news in order and only until the settlement. *)
PromiseSpec == Abstract!Spec
=============================================================================
