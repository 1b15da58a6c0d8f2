---------------------------- MODULE WebRequests ----------------------------
(***************************************************************************)
(* What stands before the controllers of the two web programs: the         *)
(* gateway's check of the parameters, and the portal's interceptor.  They  *)
(* share no state: a behavior is about one of them.                        *)
(***************************************************************************)
EXTENDS MCPortalCache, CheckParams

VARIABLE program

requestsVars == <<program, vars, checkVars>>

Pinned == [n \in 1..NRules |-> Absent]
AnyRule == CHOOSE r \in Rules : TRUE

RequestsInit ==
  /\ program \in {"gateway", "portal"}
  /\ Init /\ CheckInit
  /\ program = "portal" => form = "object" /\ body = Pinned /\ rules = [n \in 1..NRules |-> AnyRule]
  /\ program = "gateway" => load = CHOOSE l \in Loads : TRUE

RequestsNext ==
  /\ UNCHANGED program
  /\ \/ program = "gateway" /\ CheckNext /\ UNCHANGED vars
     \/ program = "portal" /\ Next /\ UNCHANGED checkVars

RequestsSpec == RequestsInit /\ [][RequestsNext]_requestsVars
=============================================================================
