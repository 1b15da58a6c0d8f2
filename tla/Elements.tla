------------------------------ MODULE Elements ------------------------------
(***************************************************************************)
(* The scripts of ace-admin's elements.jsp (queued effects, notices and a  *)
(* dialog) and the Deferred of the jQuery below them.  The scripts share   *)
(* no state: a behavior is about one of them.                              *)
(***************************************************************************)
EXTENDS Deferred, FxQueue, Gritter, Modal

VARIABLE script

elementsVars == <<script, deferredVars, fxVars, gritterVars, modalVars>>

\* What the other scripts start from does not matter
ElementsInit ==
  /\ script \in {"deferred", "effects", "notices", "dialog"}
  /\ DeferredInit /\ FxInit /\ GritterInit /\ ModalInit
  /\ script # "dialog" => habit = "patient" /\ ~animated

ElementsNext ==
  /\ UNCHANGED script
  /\ \/ script = "deferred" /\ DeferredNext /\ UNCHANGED <<fxVars, gritterVars, modalVars>>
     \/ script = "effects" /\ FxNext /\ UNCHANGED <<deferredVars, gritterVars, modalVars>>
     \/ script = "notices" /\ GritterNext /\ UNCHANGED <<deferredVars, fxVars, modalVars>>
     \/ script = "dialog" /\ ModalNext /\ UNCHANGED <<deferredVars, fxVars, gritterVars>>

ElementsSpec ==
  ElementsInit /\ [][ElementsNext]_elementsVars /\ DeferredFairness /\ FxFairness /\ GritterFairness
=============================================================================
