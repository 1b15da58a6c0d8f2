---------------------------- MODULE RequestReply ----------------------------
(***************************************************************************)
(* What the blocking request/reply services of the repository promise      *)
(* (io.Client/ServerHandler, RpcFramework): a request is served at most    *)
(* once, an answer follows the serving of that very request, and a caller  *)
(* that got no answer cannot tell whether its request was served.          *)
(***************************************************************************)
CONSTANT Requests

VARIABLES asked,   \* "idle", "waiting", "answered" or "failed", as the caller sees it
          served   \* "no" or "yes", as the server sees it

TypeOK ==
  /\ asked \in [Requests -> {"idle", "waiting", "answered", "failed"}]
  /\ served \in [Requests -> {"no", "yes"}]

Init ==
  /\ asked = [r \in Requests |-> "idle"]
  /\ served = [r \in Requests |-> "no"]

Ask(r) ==
  /\ asked[r] = "idle"
  /\ asked' = [asked EXCEPT ![r] = "waiting"]
  /\ UNCHANGED served

\* The server does not know whether the caller still waits
Serve(r) ==
  /\ asked[r] \in {"waiting", "failed"} /\ served[r] = "no"
  /\ served' = [served EXCEPT ![r] = "yes"]
  /\ UNCHANGED asked

Answer(r) ==
  /\ asked[r] = "waiting" /\ served[r] = "yes"
  /\ asked' = [asked EXCEPT ![r] = "answered"]
  /\ UNCHANGED served

Fail(r) ==
  /\ asked[r] \in {"idle", "waiting"}
  /\ asked' = [asked EXCEPT ![r] = "failed"]
  /\ UNCHANGED served

Next == \E r \in Requests : Ask(r) \/ Serve(r) \/ Answer(r) \/ Fail(r)

Spec == Init /\ [][Next]_<<asked, served>>
=============================================================================
