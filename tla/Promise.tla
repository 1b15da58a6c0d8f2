------------------------------ MODULE Promise ------------------------------
(***************************************************************************)
(* What a jQuery.Deferred promises to the scripts that use it: it is       *)
(* settled at most once; the callbacks of the side it settled on, and no   *)
(* others, are each called once in the order of their registration, those  *)
(* that are registered late included; and a progress callback hears of the *)
(* news in their order and never of news that came after the settlement.   *)
(***************************************************************************)
EXTENDS Naturals

CONSTANT Listeners   \* the progress callbacks

VARIABLES
  outcome,      \* "pending", "resolved" or "rejected"
  registered,   \* how many callbacks "done" and "fail" have been given
  called,       \* how many of them have been called
  news,         \* notifications accepted so far
  heard         \* the last of them each progress callback was called with

Sides == {"done", "fail"}

Outcome(s) == IF s = "done" THEN "resolved" ELSE "rejected"

Init ==
  /\ outcome = "pending"
  /\ registered = [s \in Sides |-> 0]
  /\ called = [s \in Sides |-> 0]
  /\ news = 0
  /\ heard = [c \in Listeners |-> 0]

Register(s) ==
  /\ registered' = [registered EXCEPT ![s] = @ + 1]
  /\ UNCHANGED <<outcome, called, news, heard>>

Settle(s) ==
  /\ outcome = "pending"
  /\ outcome' = Outcome(s)
  /\ UNCHANGED <<registered, called, news, heard>>

Call(s) ==
  /\ outcome = Outcome(s) /\ called[s] < registered[s]
  /\ called' = [called EXCEPT ![s] = @ + 1]
  /\ UNCHANGED <<outcome, registered, news, heard>>

Notify ==
  /\ outcome = "pending"
  /\ news' = news + 1
  /\ UNCHANGED <<outcome, registered, called, heard>>

Tell(c) ==
  /\ \E v \in (heard[c] + 1)..news : heard' = [heard EXCEPT ![c] = v]
  /\ UNCHANGED <<outcome, registered, called, news>>

Next ==
  \/ \E s \in Sides : Register(s) \/ Settle(s) \/ Call(s)
  \/ Notify
  \/ \E c \in Listeners : Tell(c)

vars == <<outcome, registered, called, news, heard>>

Spec == Init /\ [][Next]_vars /\ \A s \in Sides : WF_vars(Call(s))
=============================================================================
