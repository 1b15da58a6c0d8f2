------------------------------- MODULE Stores -------------------------------
(***************************************************************************)
(* The static helpers through which the web programs reach their stores:   *)
(* RedisUtil, ZooKeeperHolder and FezoStorageUtils.  They share no state:  *)
(* a behavior is about the users of one of them.                           *)
(***************************************************************************)
EXTENDS RedisPool, ZkHolder, FezoUpload

VARIABLE helper

storesVars == <<helper, vars, zkVars, fezoVars>>

StoresInit ==
  /\ helper \in {"RedisUtil", "ZooKeeperHolder", "FezoStorageUtils"}
  /\ Init /\ ZkInit /\ FezoInit
  /\ helper # "RedisUtil" => users = "prompt"
  /\ IF helper = "FezoStorageUtils" THEN present # {}
     ELSE present = {} /\ length = CHOOSE n \in Lengths : TRUE

StoresNext ==
  /\ UNCHANGED helper
  /\ \/ helper = "RedisUtil" /\ Next /\ UNCHANGED <<zkVars, fezoVars>>
     \/ helper = "ZooKeeperHolder" /\ ZkNext /\ UNCHANGED <<vars, fezoVars>>
     \/ helper = "FezoStorageUtils" /\ FezoNext /\ UNCHANGED <<vars, zkVars>>

StoresSpec ==
  StoresInit /\ [][StoresNext]_storesVars /\ Fairness /\ ZkFairness /\ FezoFairness
=============================================================================
