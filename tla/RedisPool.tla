----------------------------- MODULE RedisPool -----------------------------
(***************************************************************************)
(* RedisUtil: getJedis() holds the class monitor while it waits, up to     *)
(* MAX_WAIT, for the pool, and while the pool tries its connections, each  *)
(* for up to TIMEOUT a step; returnResource() does not need the monitor.   *)
(*                                                                         *)
(* Time is counted in ticks and passes only while the thread in the        *)
(* monitor waits, for the pool or for the server: what is measured is      *)
(* waiting that the code itself imposes.                                   *)
(***************************************************************************)
EXTENDS Naturals, FiniteSets

CONSTANTS
  Threads,
  MaxActive, MaxIdle, MaxWait,   \* MAX_ACTIVE, MAX_IDLE, and MAX_WAIT in ticks
  MaxAttempt,   \* ticks that the pool may try one connection: it opens it or not,
                \* validates it and closes a bad one, and each may take TIMEOUT
  PromptHold, LongHold,   \* bound: ticks for which prompt and careless users keep a connection
  Calls      \* bound: calls of getJedis per thread

ASSUME Capacities == MaxActive \in Nat \ {0} /\ MaxIdle \in Nat /\ MaxWait \in Nat \ {0}
                      /\ MaxAttempt \in Nat
                      /\ PromptHold \in 0..(MaxWait - 1) /\ LongHold \in Nat
ASSUME Callers == IsFiniteSet(Threads) /\ Calls \in Nat

VARIABLES
  users,    \* "prompt", or "careless": forgetting connections as TestRedis.testRedisPool does
  state,    \* [Threads -> "idle", "entering", "inside" (the monitor) or "using"]
  result,   \* the last answer of getJedis: "none", "jedis" or "null"
  calls,    \* calls made so far
  since,    \* ticks since getJedis was called or answered, 0 for an idle thread
  trying,   \* the connection the pool tries for the thread inside: "none", "idle", "new"
  inner,    \* ticks the thread inside has waited for the pool, or for this attempt
  active,   \* connections lent out, the forgotten ones included
  idle,     \* connections kept idle in the pool
  redis     \* "up" or "down"

vars == <<users, state, result, calls, since, trying, inner, active, idle, redis>>

Are(s) == {t \in Threads : state[t] = s}

Patience == IF trying = "none" THEN MaxWait ELSE MaxAttempt

TypeOK ==
  /\ users \in {"prompt", "careless"}
  /\ state \in [Threads -> {"idle", "entering", "inside", "using"}]
  /\ result \in [Threads -> {"none", "jedis", "null"}]
  /\ calls \in [Threads -> 0..Calls]
  /\ since \in [Threads -> Nat]
  /\ trying \in {"none", "idle", "new"}
  /\ inner \in 0..Patience
  /\ idle \in 0..MaxIdle
  /\ redis \in {"up", "down"}
  /\ active \in Cardinality(Are("using"))..MaxActive
  /\ idle + active <= MaxActive
  /\ Cardinality(Are("inside")) <= 1

Init ==
  /\ users \in {"prompt", "careless"}
  /\ state = [t \in Threads |-> "idle"]
  /\ result = [t \in Threads |-> "none"]
  /\ calls = [t \in Threads |-> 0]
  /\ since = [t \in Threads |-> 0]
  /\ trying = "none" /\ inner = 0 /\ active = 0 /\ idle = 0
  /\ redis = "up"

Call(t) ==
  /\ state[t] = "idle" /\ calls[t] < Calls
  /\ state' = [state EXCEPT ![t] = "entering"]
  /\ calls' = [calls EXCEPT ![t] = @ + 1]
  /\ since' = [since EXCEPT ![t] = 0]
  /\ UNCHANGED <<users, result, trying, inner, active, idle, redis>>

Enter(t) ==
  /\ state[t] = "entering" /\ Are("inside") = {}
  /\ state' = [state EXCEPT ![t] = "inside"]
  /\ inner' = 0
  /\ UNCHANGED <<users, result, calls, since, trying, active, idle, redis>>

Answer(t, r) ==
  /\ result' = [result EXCEPT ![t] = r]
  /\ state' = [state EXCEPT ![t] = IF r = "jedis" THEN "using" ELSE "idle"]
  /\ since' = [since EXCEPT ![t] = 0]
  /\ trying' = "none" /\ inner' = 0
  /\ UNCHANGED <<users, calls, redis>>

\* The pool tries an idle connection, or a new one if there is none
TryNext ==
  /\ trying' = IF idle > 0 THEN "idle" ELSE "new"
  /\ idle' = IF idle > 0 THEN idle - 1 ELSE 0
  /\ inner' = 0

Try(t) ==
  /\ state[t] = "inside" /\ trying = "none" /\ active < MaxActive
  /\ TryNext
  /\ UNCHANGED <<users, state, result, calls, since, active, redis>>

\* It is good (TEST_ON_BORROW)
Borrow(t) ==
  /\ state[t] = "inside" /\ trying # "none" /\ redis = "up"
  /\ Answer(t, "jedis")
  /\ active' = active + 1 /\ UNCHANGED idle

\* It is not: an idle one, which the server may have closed, is dropped and the next
\* one tried; when a new one fails the exception becomes null
BorrowFails(t) ==
  /\ state[t] = "inside"
  /\ \/ /\ trying = "idle"
        /\ TryNext
        /\ UNCHANGED <<users, state, result, calls, since, active, redis>>
     \/ /\ trying = "new" /\ redis = "down"
        /\ Answer(t, "null")
        /\ UNCHANGED <<active, idle>>

\* Faulty variant: a timeout that starts another wait
TimesOutRestarts(t) ==
  /\ state[t] = "inside" /\ trying = "none" /\ active = MaxActive /\ inner = MaxWait
  /\ inner' = 0
  /\ UNCHANGED <<users, state, result, calls, since, trying, active, idle, redis>>

\* The pool stayed exhausted: its exception becomes null
TimesOut(t) ==
  /\ state[t] = "inside" /\ trying = "none" /\ active = MaxActive /\ inner = MaxWait
  /\ Answer(t, "null")
  /\ UNCHANGED <<active, idle>>

\* Faulty variant: synchronized like getJedis
MayReturnLocked(t) == state[t] = "using" /\ Are("inside") = {}

MayReturn(t) == state[t] = "using"

ReturnResource(t) ==
  /\ MayReturn(t)
  /\ state' = [state EXCEPT ![t] = "idle"]
  /\ active' = active - 1
  /\ idle' = IF idle < MaxIdle THEN idle + 1 ELSE idle
  /\ since' = [since EXCEPT ![t] = 0]
  /\ UNCHANGED <<users, result, calls, trying, inner, redis>>

Forget(t) ==
  /\ state[t] = "using" /\ users = "careless"
  /\ state' = [state EXCEPT ![t] = "idle"]
  /\ since' = [since EXCEPT ![t] = 0]
  /\ UNCHANGED <<users, result, calls, trying, inner, active, idle, redis>>

RedisDown ==
  /\ redis = "up" /\ redis' = "down"
  /\ UNCHANGED <<users, state, result, calls, since, trying, inner, active, idle>>

GetJedisStep(t) == Enter(t) \/ Try(t) \/ Borrow(t) \/ BorrowFails(t) \/ TimesOut(t)

Hold == IF users = "prompt" THEN PromptHold ELSE LongHold

(* Time passes while the thread in the monitor waits for the pool or for   *)
(* the attempt, and no user is overdue that may return.                    *)
Tick ==
  /\ Are("inside") # {} /\ (trying = "none" => active = MaxActive) /\ inner < Patience
  /\ \A t \in Are("using") : MayReturn(t) => since[t] < Hold
  /\ since' = [t \in Threads |-> IF state[t] = "idle" THEN since[t] ELSE since[t] + 1]
  /\ inner' = inner + 1
  /\ UNCHANGED <<users, state, result, calls, trying, active, idle, redis>>

Next ==
  \/ \E t \in Threads : Call(t) \/ GetJedisStep(t) \/ ReturnResource(t) \/ Forget(t)
  \/ RedisDown \/ Tick

(* Threads are scheduled, clocks advance, and a user is done with its      *)
(* connection within Hold ticks; nothing makes anyone call again.       *)
Fairness ==
  /\ \A t \in Threads : WF_vars(GetJedisStep(t)) /\ WF_vars(ReturnResource(t) \/ Forget(t))
  /\ WF_vars(Tick)

Spec == Init /\ [][Next]_vars /\ Fairness

-----------------------------------------------------------------------------
(* Lines 54 and 72: when every user returns its connection sooner than     *)
(* MAX_WAIT and the server is up, nobody is refused, although the waiting  *)
(* caller keeps the monitor; returning must not need that monitor.         *)
NoRefusalWhileUsersArePrompt ==
  users = "prompt" /\ redis = "up" => \A t \in Threads : result[t] # "null"

\* One call: the wait for the pool, then every connection that may be idle, then a new one
CallBound == MaxWait + MaxAttempt * (MaxActive + 1)

(* Lines 54 and 57: callers queue at the monitor, and every call that      *)
(* overtakes a thread there can cost it MAX_WAIT and an attempt for every  *)
(* connection that the pool may keep and one more, never more than that.   *)
QueueBound ==
  \A t \in Are("entering") : since[t] <= CallBound * Calls * (Cardinality(Threads) - 1)
=============================================================================
