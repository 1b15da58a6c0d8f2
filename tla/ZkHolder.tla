------------------------------ MODULE ZkHolder ------------------------------
(***************************************************************************)
(* ZooKeeperHolder: the first thread that uses the class initialises it,   *)
(* and with it the client; everybody else waits for the end of the         *)
(* initialisation, which waits for the client's first connection.          *)
(***************************************************************************)
EXTENDS Naturals, FiniteSets

CONSTANTS
  ZkUsers,      \* the threads that use the class
  MaxOutages    \* bound: how often the connection is lost

ASSUME ZkBounds == MaxOutages \in Nat

VARIABLES
  holder,      \* the class: "cold", "build", "start", "listen", "acquire", "ready" or "erroneous"
  caller,      \* each thread: "idle", "initialiser", "waiting" (for the class), "using",
               \* or what it was given: "data", "null" or "error"
  client,      \* zkclient is not null
  link,        \* the client's connection: "none" so far, "up" or "down"
  listening,   \* the listener was added
  permits,     \* of the semaphore
  outages

zkVars == <<holder, caller, client, link, listening, permits, outages>>

Initialising == holder \in {"build", "start", "listen", "acquire"}

ZkTypeOK ==
  /\ holder \in {"cold", "build", "start", "listen", "acquire", "ready", "erroneous"}
  /\ caller \in [ZkUsers -> {"idle", "initialiser", "waiting", "using", "data", "null", "error"}]
  /\ client \in BOOLEAN /\ listening \in BOOLEAN /\ permits \in 0..1
  /\ link \in {"none", "up", "down"} /\ outages \in 0..MaxOutages
  /\ Initialising <=> Cardinality({t \in ZkUsers : caller[t] = "initialiser"}) = 1

ZkInit ==
  /\ holder = "cold" /\ caller = [t \in ZkUsers |-> "idle"]
  /\ client = FALSE /\ link = "none" /\ listening = FALSE /\ permits = 0 /\ outages = 0

ZkCall(t) ==
  /\ caller[t] = "idle"
  /\ holder' = IF holder = "cold" THEN "build" ELSE holder
  /\ caller' = [caller EXCEPT ![t] =
                  CASE holder = "cold" -> "initialiser" [] holder = "ready" -> "using"
                    [] holder = "erroneous" -> "error" [] OTHER -> "waiting"]
  /\ UNCHANGED <<client, link, listening, permits, outages>>

\* The initialisation is over: the threads that waited go on, or all get the error
Over(how) ==
  /\ holder' = how
  /\ caller' = [t \in ZkUsers |->
                  IF caller[t] \notin {"initialiser", "waiting"} THEN caller[t]
                  ELSE IF how = "ready" THEN "using" ELSE "error"]

\* A missing or wrong entry of zk.properties is not caught; the exception of build() is
Build ==
  /\ holder = "build"
  /\ \/ Over("erroneous") /\ UNCHANGED client
     \/ Over("ready") /\ UNCHANGED client
     \/ holder' = "start" /\ client' = TRUE /\ UNCHANGED caller
  /\ UNCHANGED <<link, listening, permits, outages>>

Start ==
  /\ holder = "start" /\ holder' = "listen"
  /\ UNCHANGED <<caller, client, link, listening, permits, outages>>

\* Faulty variant: nobody listens
AddListenerNone ==
  /\ holder = "listen" /\ holder' = "acquire"
  /\ UNCHANGED <<caller, client, link, listening, permits, outages>>

AddListener ==
  /\ holder = "listen" /\ holder' = "acquire" /\ listening' = TRUE
  /\ UNCHANGED <<caller, client, link, permits, outages>>

Acquire ==
  /\ holder = "acquire" /\ permits > 0 /\ permits' = permits - 1
  /\ Over("ready")
  /\ UNCHANGED <<client, link, listening, outages>>

\* The wait is given up, the client is kept
Interrupt ==
  /\ holder = "acquire" /\ Over("ready")
  /\ UNCHANGED <<client, link, listening, permits, outages>>

\* The client (external) connects in a thread of its own; CONNECTED comes once, and to those who listen
Connect ==
  /\ holder \in {"listen", "acquire", "ready"} /\ client /\ link # "up"
  /\ link' = "up"
  /\ permits' = IF link = "none" /\ listening THEN permits + 1 ELSE permits
  /\ UNCHANGED <<holder, caller, client, listening, outages>>

Lose ==
  /\ link = "up" /\ outages < MaxOutages
  /\ link' = "down" /\ outages' = outages + 1
  /\ UNCHANGED <<holder, caller, client, listening, permits>>

\* getData, setData and their kin: any exception becomes null, that of a null client too
Use(t) ==
  /\ caller[t] = "using"
  /\ \/ client /\ link = "up" /\ caller' = [caller EXCEPT ![t] = "data"]
     \/ (client => link # "up") /\ caller' = [caller EXCEPT ![t] = "null"]
  /\ UNCHANGED <<holder, client, link, listening, permits, outages>>

Again(t) ==
  /\ caller[t] \in {"data", "null", "error"}
  /\ caller' = [caller EXCEPT ![t] = "idle"]
  /\ UNCHANGED <<holder, client, link, listening, permits, outages>>

Initialise == Build \/ Start \/ AddListener \/ Acquire

ZkNext ==
  \/ Initialise \/ Interrupt \/ Connect \/ Lose
  \/ \E t \in ZkUsers : ZkCall(t) \/ Use(t) \/ Again(t)

\* Threads are scheduled, and a ZooKeeper server can be reached sooner or later
ZkFairness ==
  /\ WF_zkVars(Initialise) /\ WF_zkVars(Connect)
  /\ \A t \in ZkUsers : WF_zkVars(Use(t))

ZkSpec == ZkInit /\ [][ZkNext]_zkVars /\ ZkFairness

-----------------------------------------------------------------------------
\* The first connection was made between lines 52 and 55
Missed == holder = "acquire" /\ listening /\ link # "none" /\ permits = 0

(* Lines 32-71: with a ZooKeeper server that can be reached, whoever comes *)
(* while the class is initialised gets an answer, unless the client has    *)
(* connected before the listener was there: then nobody ever does.         *)
ZkCallersServed ==
  \A t \in ZkUsers :
    caller[t] \in {"initialiser", "waiting"} ~> (caller[t] \in {"data", "null", "error"} \/ Missed)

(* Lines 50-55: a first connection is missed only because it was made      *)
(* before the listener was there, and what was missed is never made good:  *)
(* of all later steps only an interrupt ends the wait.                     *)
MissedOnlyEarly ==
  [][ /\ ~Missed /\ Missed' => link # "none" /\ ~listening
      /\ Missed /\ ~Missed' => Interrupt ]_zkVars
=============================================================================
