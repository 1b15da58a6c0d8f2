---------------------------- MODULE StoresProofs ----------------------------
(***************************************************************************)
(* The helpers through which the web programs reach their stores (Stores): *)
(* RedisUtil, FezoStorageUtils and ZooKeeperHolder.                        *)
(***************************************************************************)
EXTENDS FezoUpload, RedisPool, ZkHolder, FiniteSetTheorems, TLAPS

(***************************************************************************)
(* RedisPool: what callers of getJedis are refused and how long they wait, *)
(* for any number of threads, any size of the pool and any MAX_WAIT.       *)
(***************************************************************************)

\* The type invariant without counting: at most one thread is in the monitor
PoolFields ==
  /\ users \in {"prompt", "careless"}
  /\ state \in [Threads -> {"idle", "entering", "inside", "using"}]
  /\ result \in [Threads -> {"none", "jedis", "null"}]
  /\ calls \in [Threads -> 0..Calls]
  /\ since \in [Threads -> Nat]
  /\ trying \in {"none", "idle", "new"}
  /\ inner \in 0..Patience
  /\ idle \in 0..MaxIdle
  /\ redis \in {"up", "down"}
  /\ active \in 0..MaxActive
  /\ idle + active + (IF trying = "none" THEN 0 ELSE 1) <= MaxActive
  /\ \A s, t \in Threads : state[s] = "inside" /\ state[t] = "inside" => s = t
  /\ trying # "none" => \E t \in Threads : state[t] = "inside"

\* Every connection in use is counted, and when nobody forgets any no others are
Lent ==
  /\ Cardinality(Are("using")) <= active
  /\ users = "prompt" => active = Cardinality(Are("using"))

LEMMA AreFinite ==
  ASSUME NEW s
  PROVE  IsFiniteSet(Are(s)) /\ Cardinality(Are(s)) \in Nat
  <1>1. Are(s) \in SUBSET Threads
    BY DEF Are
  <1>2. IsFiniteSet(Are(s))
    BY <1>1, Callers, FS_Subset
  <1> QED
    BY <1>2, FS_CardinalityType

LEMMA AreFinite2 ==
  ASSUME NEW s
  PROVE  IsFiniteSet(Are(s)') /\ Cardinality(Are(s)') \in Nat
  <1>1. Are(s)' \in SUBSET Threads
    BY DEF Are
  <1>2. IsFiniteSet(Are(s)')
    BY <1>1, Callers, FS_Subset
  <1> QED
    BY <1>2, FS_CardinalityType

LEMMA UsedIsLent ==
  ASSUME PoolFields, Lent, NEW t \in Threads, state[t] = "using"
  PROVE  active >= 1
  <1>1. t \in Are("using")
    BY DEF Are
  <1>2. Cardinality(Are("using")) \in Nat /\ Cardinality(Are("using")) # 0
    BY <1>1, AreFinite, FS_EmptySet
  <1> QED
    BY <1>2 DEF Lent, PoolFields

\* What getting and giving back a connection does to the number of those in use
LEMMA UsingMoves ==
  ASSUME PoolFields, NEW t \in Threads
  PROVE  /\ state[t] # "using" /\ state' = [state EXCEPT ![t] = "using"] =>
              Cardinality(Are("using")') = Cardinality(Are("using")) + 1
         /\ state[t] = "using" /\ state' = [state EXCEPT ![t] = "idle"] =>
              Cardinality(Are("using")') = Cardinality(Are("using")) - 1
         /\ (\A s \in Threads : state'[s] = "using" <=> state[s] = "using") =>
              Cardinality(Are("using")') = Cardinality(Are("using"))
  <1>1. CASE state[t] # "using" /\ state' = [state EXCEPT ![t] = "using"]
    <2>1. Are("using")' = Are("using") \cup {t} /\ t \notin Are("using")
      BY <1>1 DEF PoolFields, Are
    <2> QED
      BY <1>1, <2>1, AreFinite, FS_AddElement DEF PoolFields
  <1>2. CASE state[t] = "using" /\ state' = [state EXCEPT ![t] = "idle"]
    <2>1. Are("using")' = Are("using") \ {t} /\ t \in Are("using")
      BY <1>2 DEF PoolFields, Are
    <2> QED
      BY <1>2, <2>1, AreFinite, FS_RemoveElement DEF PoolFields
  <1>3. ASSUME \A s \in Threads : state'[s] = "using" <=> state[s] = "using"
        PROVE  Cardinality(Are("using")') = Cardinality(Are("using"))
    <2>1. Are("using")' = Are("using")
      BY <1>3 DEF Are
    <2> QED
      BY <2>1
  <1> QED
    BY <1>1, <1>2, <1>3, Zenon

LEMMA UsingKept ==
  ASSUME \A s \in Threads : state'[s] = "using" <=> state[s] = "using"
  PROVE  Cardinality(Are("using")') = Cardinality(Are("using"))
  <1>1. Are("using")' = Are("using")
    BY DEF Are
  <1> QED
    BY <1>1

LEMMA FieldsKept ==
  ASSUME PoolFields, Lent, [Next]_vars
  PROVE  PoolFields'
  <1> USE Capacities, Callers DEF PoolFields, Patience
  <1>1. ASSUME NEW t \in Threads, Call(t) PROVE PoolFields'
    BY <1>1 DEF Call
  <1>2. ASSUME NEW t \in Threads, Enter(t) PROVE PoolFields'
    BY <1>2 DEF Enter, Are
  <1>9. ASSUME NEW t \in Threads, Try(t) PROVE PoolFields'
    BY <1>9 DEF Try, TryNext
  <1>3. ASSUME NEW t \in Threads, Borrow(t) PROVE PoolFields'
    BY <1>3 DEF Borrow, Answer
  <1>4. ASSUME NEW t \in Threads, BorrowFails(t) \/ TimesOut(t) PROVE PoolFields'
    BY <1>4 DEF BorrowFails, TryNext, TimesOut, Answer
  <1>5. ASSUME NEW t \in Threads, ReturnResource(t) PROVE PoolFields'
    <2>1. active >= 1
      BY <1>5, UsedIsLent DEF ReturnResource, MayReturn
    <2> QED
      BY <1>5, <2>1 DEF ReturnResource, MayReturn
  <1>6. ASSUME NEW t \in Threads, Forget(t) PROVE PoolFields'
    BY <1>6 DEF Forget
  <1>7. CASE RedisDown \/ UNCHANGED vars
    BY <1>7 DEF RedisDown, vars
  <1>8. CASE Tick
    BY <1>8 DEF Tick
  <1> QED
    BY <1>1, <1>2, <1>3, <1>4, <1>5, <1>6, <1>7, <1>8, <1>9 DEF Next, GetJedisStep

LEMMA LentKept ==
  ASSUME PoolFields, Lent, [Next]_vars
  PROVE  Lent'
  <1> USE DEF Lent
  <1>0. active \in Nat /\ Cardinality(Are("using")) \in Nat /\ Cardinality(Are("using")') \in Nat
    BY AreFinite, AreFinite2, Capacities DEF PoolFields
  <1>1. ASSUME NEW t \in Threads, Call(t) \/ Enter(t) \/ Try(t) \/ BorrowFails(t) \/ TimesOut(t) PROVE Lent'
    <2>1. \A s \in Threads : state'[s] = "using" <=> state[s] = "using"
      BY <1>1 DEF Call, Enter, Try, TryNext, BorrowFails, TimesOut, Answer, PoolFields
    <2>2. active' = active /\ users' = users
      BY <1>1 DEF Call, Enter, Try, TryNext, BorrowFails, TimesOut, Answer
    <2> QED
      BY <2>1, <2>2, UsingKept
  <1>2. ASSUME NEW t \in Threads, Borrow(t) PROVE Lent'
    <2>1. state[t] # "using" /\ state' = [state EXCEPT ![t] = "using"]
          /\ active' = active + 1 /\ users' = users
      BY <1>2 DEF Borrow, Answer
    <2>2. Cardinality(Are("using")') = Cardinality(Are("using")) + 1
      BY <2>1, UsingMoves, Zenon
    <2> QED
      BY <1>0, <2>1, <2>2
  <1>3. ASSUME NEW t \in Threads, ReturnResource(t) PROVE Lent'
    <2>1. state[t] = "using" /\ state' = [state EXCEPT ![t] = "idle"]
          /\ active' = active - 1 /\ users' = users
      BY <1>3 DEF ReturnResource, MayReturn
    <2>2. Cardinality(Are("using")') = Cardinality(Are("using")) - 1
      BY <2>1, UsingMoves, Zenon
    <2> QED
      BY <1>0, <2>1, <2>2
  <1>4. ASSUME NEW t \in Threads, Forget(t) PROVE Lent'
    <2>1. state[t] = "using" /\ state' = [state EXCEPT ![t] = "idle"]
          /\ active' = active /\ users' = users /\ users # "prompt"
      BY <1>4 DEF Forget
    <2>2. Cardinality(Are("using")') = Cardinality(Are("using")) - 1
      BY <2>1, UsingMoves, Zenon
    <2> QED
      BY <1>0, <2>1, <2>2
  <1>5. CASE RedisDown \/ Tick \/ UNCHANGED vars
    <2>1. state' = state /\ active' = active /\ users' = users
      BY <1>5 DEF RedisDown, Tick, vars
    <2> QED
      BY <2>1, UsingKept
  <1> QED
    BY <1>1, <1>2, <1>3, <1>4, <1>5 DEF Next, GetJedisStep

LEMMA PoolInit ==
  ASSUME Init PROVE PoolFields /\ Lent
  <1>1. PoolFields
    BY Capacities, Callers DEF Init, PoolFields, Patience
  <1>2. Are("using") = {}
    BY DEF Init, Are
  <1> QED
    BY <1>1, <1>2, FS_EmptySet DEF Lent, Init

LEMMA PoolHolds == Spec => [](PoolFields /\ Lent)
  <1> QED
    BY PoolInit, FieldsKept, LentKept, PTL DEF Spec

(* However users borrow, return and forget connections, no more than       *)
(* MAX_ACTIVE are lent, none in use is uncounted, and one thread at most   *)
(* is in the monitor of getJedis.                                          *)
THEOREM RedisTypeCorrect == Spec => []TypeOK
  <1>1. PoolFields /\ Lent => TypeOK
    <2> SUFFICES ASSUME PoolFields, Lent PROVE TypeOK
      OBVIOUS
    <2>1. Cardinality(Are("inside")) <= 1
      <3>1. CASE Are("inside") = {}
        BY <3>1, FS_EmptySet
      <3>2. ASSUME NEW t \in Are("inside") PROVE Cardinality(Are("inside")) <= 1
        <4>1. Are("inside") = {t}
          BY <3>2 DEF Are, PoolFields
        <4> QED
          BY <4>1, FS_Singleton
      <3> QED
        BY <3>1, <3>2
    <2>2. active \in Cardinality(Are("using"))..MaxActive
      BY AreFinite, Capacities DEF PoolFields, Lent
    <2> QED
      BY <2>1, <2>2, Capacities DEF TypeOK, PoolFields
  <1> QED
    BY <1>1, PoolHolds, PTL

-----------------------------------------------------------------------------
(* A caller in the monitor waits for the pool no longer than the           *)
(* connections that are lent have been used since it came.                 *)
Prompt ==
  users = "prompt" =>
    /\ \A u \in Threads : state[u] = "using" => since[u] <= PromptHold
    /\ \A t, u \in Threads : state[t] = "inside" /\ state[u] = "using" /\ trying = "none" => inner <= since[u]
    /\ redis = "up" => \A t \in Threads : result[t] # "null"

LEMMA PromptKept ==
  ASSUME PoolFields, Lent, Prompt, [Next]_vars
  PROVE  Prompt'
  <1> USE DEF Prompt
  <1>0. PromptHold \in Nat /\ inner \in Nat /\ MaxWait \in Nat /\ PromptHold < MaxWait
        /\ \A t \in Threads : since[t] \in Nat
    BY Capacities DEF PoolFields, Patience
  <1>1. ASSUME NEW t \in Threads, Call(t) PROVE Prompt'
    BY <1>1 DEF Call, PoolFields
  <1>2. ASSUME NEW t \in Threads, Enter(t) PROVE Prompt'
    BY <1>0, <1>2 DEF Enter, PoolFields
  <1>3. ASSUME NEW t \in Threads, Borrow(t) PROVE Prompt'
    <2>1. /\ users' = users /\ redis' = redis /\ inner' = 0
          /\ state' = [state EXCEPT ![t] = "using"] /\ since' = [since EXCEPT ![t] = 0]
          /\ result' = [result EXCEPT ![t] = "jedis"] /\ state[t] = "inside"
      BY <1>3 DEF Borrow, Answer
    <2>2. \A s \in Threads : state'[s] # "inside"
      BY <2>1 DEF PoolFields
    <2> QED
      BY <1>0, <2>1, <2>2 DEF PoolFields
  <1>4. ASSUME NEW t \in Threads, Try(t) \/ BorrowFails(t) PROVE Prompt'
    BY <1>4 DEF Try, TryNext, BorrowFails, Answer, PoolFields
  <1>5. ASSUME NEW t \in Threads, TimesOut(t) PROVE Prompt'
    <2>1. users = "prompt" => FALSE
      <3> SUFFICES ASSUME users = "prompt" PROVE FALSE
        OBVIOUS
      <3>1. /\ active = MaxActive /\ MaxActive \in Nat \ {0}
            /\ inner = MaxWait /\ trying = "none" /\ state[t] = "inside"
        BY <1>5, Capacities DEF TimesOut
      <3>2. Are("using") # {}
        BY <3>1, FS_EmptySet DEF Lent
      <3>3. PICK u \in Threads : state[u] = "using"
        BY <3>2 DEF Are
      <3> QED
        BY <1>0, <3>1, <3>3
    <2> QED
      BY <1>5, <2>1 DEF TimesOut, Answer
  <1>6. ASSUME NEW t \in Threads, ReturnResource(t) \/ Forget(t) PROVE Prompt'
    BY <1>6 DEF ReturnResource, Forget, PoolFields
  <1>7. CASE RedisDown \/ UNCHANGED vars
    BY <1>7 DEF RedisDown, vars
  <1>8. CASE Tick
    <2>1. users = "prompt" => \A u \in Threads : state[u] = "using" => since[u] < PromptHold
      BY <1>8 DEF Tick, Are, MayReturn, Hold
    <2>2. /\ users' = users /\ redis' = redis /\ state' = state /\ trying' = trying
          /\ inner' = inner + 1 /\ result' = result
          /\ \A u \in Threads : state[u] # "idle" => since'[u] = since[u] + 1
      BY <1>8 DEF Tick
    <2>3. users = "prompt" => \A u \in Threads : state[u] = "using" => since'[u] <= PromptHold
      BY <1>0, <2>1, <2>2
    <2>4. users = "prompt" => \A t, u \in Threads :
             state[t] = "inside" /\ state[u] = "using" /\ trying = "none" => inner + 1 <= since'[u]
      BY <1>0, <2>2
    <2> QED
      BY <2>2, <2>3, <2>4
  <1> QED
    BY <1>1, <1>2, <1>3, <1>4, <1>5, <1>6, <1>7, <1>8 DEF Next, GetJedisStep

(* For any number of callers and connections: as long as every user keeps  *)
(* its connection for less than MAX_WAIT and Redis is up, no call of       *)
(* getJedis is answered with null, though the caller that waits for the    *)
(* pool keeps all the others out.                                          *)
THEOREM NoRefusalHolds == Spec => []NoRefusalWhileUsersArePrompt
  <1>1. Init => Prompt
    BY Capacities DEF Init, Prompt
  <1>2. Prompt => NoRefusalWhileUsersArePrompt
    BY DEF Prompt, NoRefusalWhileUsersArePrompt
  <1> QED
    BY <1>1, <1>2, PoolHolds, PromptKept, PTL DEF Spec

-----------------------------------------------------------------------------
(* The calls of other threads that have come to the monitor so far.  Each  *)
(* was worth CallBound ticks at most of the time t has queued, and the one *)
(* in the monitor has Left of them left: the wait for the pool and an      *)
(* attempt for every connection and one more, or what is left of them.     *)
Overtaking(t) ==
  {c \in (Threads \ {t}) \X (1..Calls) :
     c[2] < calls[c[1]] \/ (c[2] = calls[c[1]] /\ state[c[1]] # "entering")}

Span(a) == IF a = "none" THEN MaxWait ELSE MaxAttempt

Rest(a, lent, waited) ==
  (Span(a) - waited) + (IF a = "new" THEN 0 ELSE MaxAttempt * (lent + 1))

Left == IF Are("inside") = {} THEN 0 ELSE Rest(trying, idle + active, inner)

Queue ==
  /\ \A t \in Threads : state[t] \in {"entering", "inside"} => calls[t] >= 1
  /\ \A t \in Are("entering") : since[t] + Left <= CallBound * Cardinality(Overtaking(t))

LEMMA WaitLemma ==
  ASSUME NEW s \in Nat, NEW l \in Nat, NEW m \in Nat, NEW now \in Nat, NEW b \in Nat,
         s + l <= b, m + now <= l
  PROVE  (s + now) + m <= b /\ s + m <= b
  OBVIOUS

LEMMA TimesLemma ==
  ASSUME NEW m \in Nat, NEW n \in Nat
  PROVE  m * n \in Nat /\ m * (n + 1) = m * n + m
  BY SMT

LEMMA CallBoundNat == CallBound \in Nat
  <1>1. MaxActive + 1 \in Nat /\ MaxAttempt \in Nat /\ MaxWait \in Nat
    BY Capacities
  <1>2. MaxAttempt * (MaxActive + 1) \in Nat
    BY <1>1, TimesLemma
  <1> QED
    BY <1>1, <1>2 DEF CallBound

LEMMA TimesMore ==
  ASSUME NEW m \in Nat, NEW k \in Nat, NEW n \in Nat, k <= n
  PROVE  m * k \in Nat /\ m * n \in Nat /\ m * k <= m * n
  <1>1. PICK d \in Nat : n = k + d
    <2>1. n - k \in Nat /\ n = k + (n - k)
      OBVIOUS
    <2> QED
      BY <2>1
  <1>2. m * (k + d) = m * k + m * d /\ m * d \in Nat /\ m * k \in Nat
    BY SMT
  <1> QED
    BY <1>1, <1>2

\* What is left of a call never exceeds its bound, nor does it grow with fewer connections
LEMMA RestBound ==
  ASSUME NEW a \in {"none", "idle", "new"}, NEW lent \in Nat, NEW waited \in 0..Span(a),
         lent + (IF a = "none" THEN 0 ELSE 1) <= MaxActive
  PROVE  Rest(a, lent, waited) \in Nat /\ Rest(a, lent, waited) <= CallBound
  <1>1. /\ MaxWait \in Nat /\ MaxAttempt \in Nat /\ MaxActive \in Nat
        /\ lent + 1 \in Nat /\ MaxActive + 1 \in Nat /\ lent + 1 <= MaxActive + 1
        /\ a # "none" => lent + 1 <= MaxActive
    BY Capacities
  <1> DEFINE x == MaxAttempt * (lent + 1)
             y == MaxAttempt * (MaxActive + 1)
             z == MaxAttempt * MaxActive
  <1>2. x \in Nat /\ y \in Nat /\ x <= y
    BY <1>1, TimesMore
  <1>3. y = z + MaxAttempt /\ z \in Nat
    BY <1>1, TimesLemma
  <1>4. a # "none" => x <= z
    BY <1>1, TimesMore
  <1>5. /\ Rest(a, lent, waited) = (Span(a) - waited) + (IF a = "new" THEN 0 ELSE x)
        /\ CallBound = MaxWait + y
    BY DEF Rest, CallBound
  <1>6. Span(a) = (IF a = "none" THEN MaxWait ELSE MaxAttempt) /\ waited \in 0..Span(a)
    BY DEF Span
  <1> HIDE DEF x, y, z
  <1> QED
    BY <1>1, <1>2, <1>3, <1>4, <1>5, <1>6

LEMMA RestLess ==
  ASSUME NEW a \in {"none", "idle", "new"}, NEW lent \in Nat, NEW waited \in 0..Span(a),
         NEW fewer \in Nat, fewer <= lent
  PROVE  Rest(a, fewer, waited) <= Rest(a, lent, waited)
  <1>1. MaxWait \in Nat /\ MaxAttempt \in Nat /\ lent + 1 \in Nat /\ fewer + 1 \in Nat
    BY Capacities
  <1> DEFINE x == MaxAttempt * (fewer + 1)
             y == MaxAttempt * (lent + 1)
  <1>2. x \in Nat /\ y \in Nat /\ x <= y
    BY <1>1, TimesMore
  <1>3. Span(a) \in Nat /\ waited \in Nat
    BY <1>1 DEF Span
  <1> HIDE DEF x, y
  <1>4. (Span(a) - waited) + (IF a = "new" THEN 0 ELSE x) <= (Span(a) - waited) + (IF a = "new" THEN 0 ELSE y)
    BY <1>2, <1>3
  <1> QED
    BY <1>4 DEF Rest, x, y

\* An attempt that begins takes from what was left
LEMMA RestNext ==
  ASSUME NEW a \in {"none", "idle"}, NEW lent \in Nat, NEW waited \in 0..Span(a)
  PROVE  /\ Rest("new", lent, 0) <= Rest(a, lent, waited)
         /\ lent > 0 => Rest("idle", lent - 1, 0) <= Rest(a, lent, waited)
  <1>1. MaxWait \in Nat /\ MaxAttempt \in Nat
    BY Capacities
  <1> DEFINE x == MaxAttempt * lent
             y == MaxAttempt * (lent + 1)
  <1>2. x \in Nat /\ y = x + MaxAttempt
    BY <1>1, TimesLemma
  <1>3. Span(a) \in Nat /\ waited \in Nat /\ waited <= Span(a) /\ Span("idle") = MaxAttempt
        /\ Span("new") = MaxAttempt
    BY <1>1 DEF Span
  <1>4. Rest("new", lent, 0) = (MaxAttempt - 0) + 0
    BY <1>3 DEF Rest
  <1>5. Rest(a, lent, waited) = (Span(a) - waited) + y
    BY DEF Rest
  <1>6. lent > 0 => Rest("idle", lent - 1, 0) = (MaxAttempt - 0) + x
    <2>1. (lent - 1) + 1 = lent
      OBVIOUS
    <2> QED
      BY <1>3, <2>1 DEF Rest
  <1> HIDE DEF x, y
  <1> QED
    BY <1>1, <1>2, <1>3, <1>4, <1>5, <1>6

LEMMA LeftBound ==
  ASSUME PoolFields
  PROVE  Left \in Nat /\ Left <= CallBound
  <1>1. /\ trying \in {"none", "idle", "new"} /\ idle + active \in Nat /\ inner \in 0..Span(trying)
        /\ (idle + active) + (IF trying = "none" THEN 0 ELSE 1) <= MaxActive
    BY Capacities DEF PoolFields, Patience, Span
  <1>2. Rest(trying, idle + active, inner) \in Nat /\ Rest(trying, idle + active, inner) <= CallBound
    BY <1>1, RestBound
  <1> QED
    BY <1>2, CallBoundNat DEF Left

LEMMA BoundLemma ==
  ASSUME NEW m \in Nat, NEW n \in Nat, NEW c \in Nat, NEW k \in Nat, n <= k * c
  PROVE  m * n \in Nat /\ m * c * k \in Nat /\ m * n <= m * c * k
  <1>1. PICK d \in Nat : k * c = n + d
    <2>1. k * c \in Nat
      BY SMT
    <2> DEFINE b == k * c
    <2> HIDE DEF b
    <2>2. b \in Nat /\ n <= b
      BY <2>1 DEF b
    <2>3. b - n \in Nat /\ b = n + (b - n)
      BY <2>2
    <2> QED
      BY <2>3 DEF b
  <1>2. m * c * k = m * (k * c)
    BY SMT
  <1>3. m * (n + d) = m * n + m * d /\ m * n \in Nat /\ m * d \in Nat
    BY SMT
  <1>4. m * c * k = m * n + m * d
    BY <1>1, <1>2, <1>3, Zenon
  <1> QED
    BY <1>3, <1>4

\* The calls that can overtake one that queues
LEMMA OvertakingBound ==
  ASSUME NEW t \in Threads
  PROVE  /\ IsFiniteSet(Overtaking(t)) /\ Cardinality(Overtaking(t)) \in Nat
         /\ Cardinality(Overtaking(t)) <= (Cardinality(Threads) - 1) * Calls
         /\ Cardinality(Threads) - 1 \in Nat
  <1> DEFINE Others == Threads \ {t}
             Numbers == 1..Calls
  <1>1. IsFiniteSet(Others) /\ Cardinality(Others) = Cardinality(Threads) - 1
        /\ Cardinality(Others) \in Nat
    BY Callers, FS_RemoveElement, FS_CardinalityType
  <1>2. IsFiniteSet(Numbers) /\ Cardinality(Numbers) = Calls
    BY Callers, FS_Interval
  <1>3. Overtaking(t) \in SUBSET (Others \X Numbers)
    BY DEF Overtaking
  <1> HIDE DEF Others, Numbers
  <1>4. IsFiniteSet(Others \X Numbers) /\ Cardinality(Others \X Numbers) = Cardinality(Others) * Cardinality(Numbers)
    BY <1>1, <1>2, FS_Product
  <1>5. IsFiniteSet(Overtaking(t)) /\ Cardinality(Overtaking(t)) <= Cardinality(Others \X Numbers)
    BY <1>3, <1>4, FS_Subset
  <1> QED
    BY <1>1, <1>2, <1>4, <1>5, FS_CardinalityType

\* No thread comes to the monitor or to the head of those that queue there
Quiet ==
  \A s \in Threads :
    \/ state[s] = "idle" /\ calls'[s] = calls[s] + 1 /\ state'[s] = "entering"
    \/ calls'[s] = calls[s] /\ (state'[s] = "entering" <=> state[s] = "entering")

LEMMA OvertakingKept ==
  ASSUME PoolFields, Quiet, NEW t \in Threads
  PROVE  Overtaking(t)' = Overtaking(t)
  <1>1. ASSUME NEW s \in Threads, NEW k \in 1..Calls
        PROVE  (k < calls'[s] \/ (k = calls'[s] /\ state'[s] # "entering"))
                 <=> (k < calls[s] \/ (k = calls[s] /\ state[s] # "entering"))
    <2>1. calls[s] \in Nat /\ k \in Nat
      BY Callers DEF PoolFields
    <2> QED
      BY <2>1 DEF Quiet
  <1> QED
    BY <1>1 DEF Overtaking

\* The thread that enters overtakes all that queue
LEMMA EnterQueued ==
  ASSUME PoolFields, Queue, NEW s \in Threads, Enter(s), NEW t \in Are("entering")'
  PROVE  since'[t] + Left' <= CallBound * Cardinality(Overtaking(t)')
  <1>1. /\ t \in Threads /\ t # s /\ state[t] = "entering" /\ t \in Are("entering") /\ since' = since
        /\ state' = [state EXCEPT ![s] = "inside"] /\ calls' = calls /\ state[s] = "entering"
        /\ inner' = 0 /\ Are("inside") = {} /\ calls[s] \in 1..Calls
    BY Callers DEF Enter, Are, PoolFields, Queue
  <1>2. Left = 0 /\ Left' \in Nat /\ Left' <= CallBound /\ CallBound \in Nat /\ since[t] \in Nat
    <2>1. trying' = "none" /\ idle' + active' = idle + active /\ s \in Are("inside")'
      BY <1>1 DEF Enter, PoolFields, Are
    <2>2. idle + active \in Nat /\ idle + active <= MaxActive /\ 0 \in 0..Span("none")
      BY Capacities DEF PoolFields, Span
    <2>3. Rest("none", idle + active, 0) \in Nat /\ Rest("none", idle + active, 0) <= CallBound
      BY <2>2, RestBound
    <2>4. Left' = Rest("none", idle + active, 0)
      BY <1>1, <2>1 DEF Left, Rest
    <2> QED
      BY <1>1, <2>3, <2>4, CallBoundNat DEF Left, PoolFields
  <1>3. Overtaking(t)' = Overtaking(t) \cup {<<s, calls[s]>>}
    <2>1. ASSUME NEW c \in (Threads \ {t}) \X (1..Calls)
          PROVE  c \in Overtaking(t)' <=> c \in Overtaking(t) \/ c = <<s, calls[s]>>
      <3>1. CASE c[1] = s
        BY <1>1, <3>1 DEF Overtaking, PoolFields
      <3>2. CASE c[1] # s
        BY <1>1, <3>2 DEF Overtaking, PoolFields
      <3> QED
        BY <3>1, <3>2
    <2>2. <<s, calls[s]>> \in (Threads \ {t}) \X (1..Calls)
      BY <1>1
    <2> QED
      BY <2>1, <2>2 DEF Overtaking
  <1>4. <<s, calls[s]>> \notin Overtaking(t)
    BY <1>1 DEF Overtaking, PoolFields
  <1> DEFINE n == Cardinality(Overtaking(t))
  <1>5. n \in Nat /\ Cardinality(Overtaking(t)') = n + 1
    BY <1>1, <1>3, <1>4, OvertakingBound, FS_AddElement
  <1>6. CallBound * n \in Nat /\ CallBound * (n + 1) = CallBound * n + CallBound
    BY <1>2, <1>5, TimesLemma
  <1>7. since[t] + 0 <= CallBound * n
    BY <1>1, <1>2 DEF Queue
  <1> HIDE DEF n
  <1> DEFINE b == CallBound * n
  <1>8. CallBound * Cardinality(Overtaking(t)') = b + CallBound
    BY <1>5, <1>6
  <1>9. b \in Nat /\ since[t] + 0 <= b
    BY <1>6, <1>7
  <1> HIDE DEF b
  <1> QED
    BY <1>1, <1>2, <1>8, <1>9

\* One that comes while another is in the monitor has been overtaken already
LEMMA CallQueued ==
  ASSUME PoolFields, Queue, NEW t \in Threads, state[t] = "idle"
  PROVE  0 + Left <= CallBound * Cardinality(Overtaking(t))
  <1>1. CallBound \in Nat /\ Left \in Nat /\ Left <= CallBound
    BY CallBoundNat, LeftBound
  <1> DEFINE n == Cardinality(Overtaking(t))
  <1>2. n \in Nat /\ CallBound * n \in Nat
    BY <1>1, OvertakingBound, TimesLemma
  <1>3. CASE Are("inside") = {}
    BY <1>2, <1>3 DEF Left
  <1>4. CASE Are("inside") # {}
    <2>1. PICK s \in Threads : state[s] = "inside"
      BY <1>4 DEF Are
    <2>2. calls[s] \in 1..Calls /\ s # t
      BY <2>1, Callers DEF PoolFields, Queue
    <2>3. <<s, calls[s]>> \in Overtaking(t)
      BY <2>1, <2>2 DEF Overtaking
    <2>4. n # 0
      BY <2>3, OvertakingBound, FS_EmptySet
    <2>5. n - 1 \in Nat /\ n = (n - 1) + 1
      BY <1>2, <2>4
    <2> HIDE DEF n
    <2>6. CallBound * (n - 1) \in Nat /\ CallBound * ((n - 1) + 1) = CallBound * (n - 1) + CallBound
      BY <1>1, <2>5, TimesLemma
    <2> DEFINE b == CallBound * (n - 1)
    <2>7. CallBound * n = b + CallBound /\ b \in Nat
      BY <2>5, <2>6
    <2> HIDE DEF b
    <2>9. 0 + Left <= CallBound * n
      BY <1>1, <2>7
    <2> QED
      BY <2>9 DEF n
  <1> QED
    BY <1>3, <1>4

LEMMA QueueKept ==
  ASSUME PoolFields, Lent, Queue, [Next]_vars
  PROVE  Queue'
  <1>0. /\ CallBound \in Nat /\ Left \in Nat
        /\ trying \in {"none", "idle", "new"} /\ idle \in Nat /\ active \in Nat
        /\ idle + active \in Nat /\ inner \in 0..Span(trying)
        /\ \A t \in Threads : since[t] \in Nat /\ calls[t] \in 0..Calls
        /\ \A t \in Threads : CallBound * Cardinality(Overtaking(t)) \in Nat
        /\ calls \in [Threads -> 0..Calls]
    <2>1. CallBound \in Nat /\ Left \in Nat
      BY CallBoundNat, LeftBound
    <2>2. \A t \in Threads : CallBound * Cardinality(Overtaking(t)) \in Nat
      BY <2>1, OvertakingBound, TimesLemma
    <2> QED
      BY <2>1, <2>2, Capacities DEF PoolFields, Patience, Span
  <1> DEFINE
        Numbered == \A t \in Threads : state[t] \in {"entering", "inside"} => calls[t] >= 1
  \* Whoever queues was overtaken by as many calls as before
  <1>1. ASSUME Quiet, Numbered', NEW now \in 0..1, Left' \in Nat,
               Left' + now <= Left,
               \A t \in Threads : state[t] = "entering" => since'[t] = since[t] + now,
               \A t \in Threads : state[t] # "entering" /\ state'[t] = "entering" =>
                 state[t] = "idle" /\ since'[t] = 0
        PROVE  Queue'
    <2> SUFFICES ASSUME NEW t \in Threads, state'[t] = "entering"
                 PROVE  since'[t] + Left' <= CallBound * Cardinality(Overtaking(t)')
      BY <1>1 DEF Queue, Are
    <2>1. Overtaking(t)' = Overtaking(t)
      BY <1>1, OvertakingKept
    <2> DEFINE b == CallBound * Cardinality(Overtaking(t))
    <2>2. b \in Nat
      BY <1>0
    <2>5. Left \in Nat
      BY <1>0
    <2>6. Left' \in Nat
      BY <1>1
    <2>7. Left' + now <= Left
      BY <1>1
    <2>8. now \in Nat
      OBVIOUS
    <2>3. CASE state[t] = "entering"
      <3>1. since[t] + Left <= b
        BY <2>3 DEF Queue, Are
      <3>2. since[t] \in Nat
        BY <1>0
      <3>3. since'[t] = since[t] + now
        BY <1>1, <2>3
      <3> HIDE DEF b
      <3>4. (since[t] + now) + Left' <= b
        BY <2>2, <2>5, <2>6, <2>7, <2>8, <3>1, <3>2, WaitLemma, Zenon
      <3> QED
        BY <2>1, <3>3, <3>4, Zenon DEF b
    <2>4. CASE state[t] # "entering"
      <3>1. state[t] = "idle" /\ since'[t] = 0
        BY <1>1, <2>4
      <3>2. 0 + Left <= b
        BY <3>1, CallQueued
      <3>3. 0 \in Nat
        OBVIOUS
      <3> HIDE DEF b
      <3>4. 0 + Left' <= b
        BY <2>2, <2>5, <2>6, <2>7, <2>8, <3>2, <3>3, WaitLemma, Zenon
      <3> QED
        BY <2>1, <3>1, <3>4, Zenon DEF b
    <2> QED
      BY <2>3, <2>4
  <1>2. ASSUME NEW a \in {"none", "idle", "new"}, NEW lent \in Nat, NEW waited \in 0..Span(a),
               lent + (IF a = "none" THEN 0 ELSE 1) <= MaxActive,
               trying' = a, idle' + active' = lent, inner' = waited, Are("inside")' # {},
               NEW now \in 0..1, Are("inside") # {},
               Rest(a, lent, waited) + now <= Rest(trying, idle + active, inner)
        PROVE  Left' \in Nat /\ Left' + now <= Left
    <2>1. Left' = Rest(a, lent, waited) /\ Left = Rest(trying, idle + active, inner)
      BY <1>2 DEF Left, Rest
    <2>2. Rest(a, lent, waited) \in Nat
      BY <1>2, RestBound
    <2> QED
      BY <1>2, <2>1, <2>2
  <1>3. ASSUME NEW t \in Threads, Call(t) PROVE Queue'
    <2>4. /\ state[t] = "idle" /\ state' = [state EXCEPT ![t] = "entering"]
          /\ calls' = [calls EXCEPT ![t] = @ + 1]
      BY <1>3 DEF Call
    <2>5. Quiet
      <3>1. ASSUME NEW s \in Threads \ {t} PROVE calls'[s] = calls[s] /\ state'[s] = state[s]
        BY <2>4 DEF PoolFields
      <3>2. calls'[t] = calls[t] + 1 /\ state'[t] = "entering"
        BY <2>4 DEF PoolFields
      <3> QED
        BY <2>4, <3>1, <3>2 DEF Quiet
    <2>6. Numbered'
      BY <1>0, <2>4 DEF PoolFields, Queue
    <2>0. Quiet /\ Numbered'
      BY <2>5, <2>6
    <2>1. Left' = Left
      <3>1. Are("inside")' = Are("inside") /\ inner' = inner /\ trying' = trying
            /\ idle' = idle /\ active' = active
        BY <1>3 DEF Call, PoolFields, Are
      <3> QED
        BY <3>1 DEF Left, Rest
    <2>2. \A s \in Threads : state[s] = "entering" => since'[s] = since[s] + 0
      BY <1>0, <1>3 DEF Call, PoolFields
    <2>3. \A s \in Threads : state[s] # "entering" /\ state'[s] = "entering" =>
            state[s] = "idle" /\ since'[s] = 0
      BY <1>3 DEF Call, PoolFields
    <2> QED
      BY <1>0, <1>1, <2>0, <2>1, <2>2, <2>3
  <1>4. ASSUME NEW s \in Threads, Enter(s) PROVE Queue'
    <2>1. Numbered'
      BY <1>4 DEF Enter, PoolFields, Queue
    <2> QED
      BY <1>4, <2>1, EnterQueued DEF Queue
  <1>5. ASSUME NEW t \in Threads, NEW r \in {"jedis", "null"}, state[t] = "inside", Answer(t, r)
        PROVE  Queue'
    <2>1. Quiet /\ Numbered'
      BY <1>5 DEF Quiet, Answer, PoolFields, Queue
    <2>2. Left' = 0
      <3>1. Are("inside")' = {}
        BY <1>5 DEF Answer, PoolFields, Are
      <3> QED
        BY <3>1 DEF Left
    <2>3. \A s \in Threads : state[s] = "entering" => since'[s] = since[s] + 0
      BY <1>0, <1>5 DEF Answer, PoolFields
    <2>4. \A s \in Threads : state'[s] = "entering" => state[s] = "entering"
      BY <1>5 DEF Answer, PoolFields
    <2> QED
      BY <1>0, <1>1, <2>1, <2>2, <2>3, <2>4
  \* The pool turns to its next connection
  <1>9. ASSUME NEW t \in Threads, state[t] = "inside", trying \in {"none", "idle"}, active < MaxActive,
               TryNext, UNCHANGED <<state, calls, since, active>>
        PROVE  Queue'
    <2>1. Quiet /\ Numbered'
      BY <1>9 DEF Quiet, Queue
    <2>2. Are("inside") # {} /\ Are("inside")' # {}
      BY <1>9 DEF Are
    <2>3. idle + active <= MaxActive /\ MaxAttempt \in Nat /\ MaxActive \in Nat
      BY Capacities DEF PoolFields
    <2>4. CASE idle > 0
      <3>1. /\ (idle + active) - 1 \in Nat /\ idle + active > 0 /\ trying' = "idle"
            /\ idle' + active' = (idle + active) - 1 /\ inner' = 0
        BY <1>0, <1>9, <2>4 DEF TryNext
      <3>2. Rest("idle", (idle + active) - 1, 0) <= Rest(trying, idle + active, inner)
        BY <1>0, <1>9, <3>1, RestNext
      <3>3. 0 \in 0..Span("idle") /\ ((idle + active) - 1) + 1 <= MaxActive
        BY <1>0, <2>3 DEF Span
      <3>4. Rest("idle", (idle + active) - 1, 0) \in Nat
        BY <3>1, <3>3, RestBound
      <3>5. Left' = Rest("idle", (idle + active) - 1, 0) /\ Left = Rest(trying, idle + active, inner)
        BY <2>2, <3>1 DEF Left, Rest
      <3> QED
        BY <1>0, <1>1, <1>9, <2>1, <3>2, <3>4, <3>5
    <2>5. CASE ~(idle > 0)
      <3>1. idle = 0 /\ trying' = "new" /\ idle' + active' = idle + active /\ inner' = 0
        BY <1>0, <1>9, <2>5 DEF TryNext
      <3>2. Rest("new", idle + active, 0) <= Rest(trying, idle + active, inner)
        BY <1>0, <1>9, RestNext
      <3>3. 0 \in 0..Span("new") /\ (idle + active) + 1 <= MaxActive
        BY <1>0, <1>9, <2>3, <3>1 DEF Span
      <3>4. Rest("new", idle + active, 0) \in Nat
        BY <1>0, <3>3, RestBound
      <3>5. Left' = Rest("new", idle + active, 0) /\ Left = Rest(trying, idle + active, inner)
        BY <2>2, <3>1 DEF Left, Rest
      <3> QED
        BY <1>0, <1>1, <1>9, <2>1, <3>2, <3>4, <3>5
    <2> QED
      BY <2>4, <2>5
  <1>10. ASSUME NEW t \in Threads, Try(t) \/ Borrow(t) \/ BorrowFails(t) \/ TimesOut(t) PROVE Queue'
    <2>1. CASE Try(t)
      BY <1>9, <2>1 DEF Try
    <2>2. CASE Borrow(t)
      BY <1>5, <2>2 DEF Borrow
    <2>3. CASE TimesOut(t)
      BY <1>5, <2>3 DEF TimesOut
    <2>4. CASE BorrowFails(t)
      <3>1. CASE trying = "idle" /\ TryNext /\ UNCHANGED <<users, state, result, calls, since, active, redis>>
        <4>1. active < MaxActive
          BY <1>0, <3>1, Capacities DEF PoolFields
        <4> QED
          BY <1>9, <2>4, <3>1, <4>1 DEF BorrowFails
      <3>2. CASE Answer(t, "null")
        BY <1>5, <2>4, <3>2 DEF BorrowFails
      <3> QED
        BY <2>4, <3>1, <3>2 DEF BorrowFails
    <2> QED
      BY <1>10, <2>1, <2>2, <2>3, <2>4
  <1>6. ASSUME NEW t \in Threads, ReturnResource(t) \/ Forget(t) PROVE Queue'
    <2>1. Quiet /\ Numbered'
      BY <1>6 DEF Quiet, ReturnResource, MayReturn, Forget, PoolFields, Queue
    <2>2. Left' \in Nat /\ Left' <= Left
      <3>1. Are("inside")' = Are("inside") /\ inner' = inner /\ trying' = trying
        BY <1>6 DEF ReturnResource, MayReturn, Forget, PoolFields, Are
      <3>2. idle' + active' \in Nat /\ idle' + active' <= idle + active
        BY <1>0, <1>6, UsedIsLent DEF ReturnResource, MayReturn, Forget
      <3>3. CASE Are("inside") = {}
        BY <3>1, <3>3 DEF Left
      <3>4. CASE Are("inside") # {}
        <4> DEFINE k == idle' + active'
        <4>1. k \in Nat /\ k <= idle + active /\ k + (IF trying = "none" THEN 0 ELSE 1) <= MaxActive
          BY <1>0, <3>2, Capacities DEF PoolFields
        <4>2. Left' = Rest(trying, k, inner) /\ Left = Rest(trying, idle + active, inner)
          BY <3>1, <3>4 DEF Left, Rest
        <4> HIDE DEF k
        <4>3. Rest(trying, k, inner) <= Rest(trying, idle + active, inner) /\ Rest(trying, k, inner) \in Nat
          BY <1>0, <4>1, RestLess, RestBound
        <4> QED
          BY <4>2, <4>3
      <3> QED
        BY <3>3, <3>4
    <2>3. \A s \in Threads : state[s] = "entering" => since'[s] = since[s] + 0
      <3>1. ASSUME NEW s \in Threads, state[s] = "entering" PROVE since'[s] = since[s]
        BY <1>6, <3>1 DEF ReturnResource, MayReturn, Forget, PoolFields
      <3> QED
        BY <1>0, <3>1
    <2>4. \A s \in Threads : state'[s] = "entering" => state[s] = "entering"
      BY <1>6 DEF ReturnResource, Forget, PoolFields
    <2> QED
      BY <1>0, <1>1, <2>1, <2>2, <2>3, <2>4
  <1>7. CASE Tick
    <2>1. Quiet /\ Numbered' /\ state' = state
      BY <1>7 DEF Quiet, Tick, Queue
    <2>2. Left' + 1 <= Left /\ Left' \in Nat
      <3>1. /\ Are("inside") # {} /\ Are("inside")' # {} /\ trying' = trying /\ idle' = idle
            /\ active' = active /\ inner' = inner + 1 /\ inner < Span(trying)
        BY <1>7 DEF Tick, Are, Patience, Span
      <3>2. Span(trying) \in Nat /\ inner \in Nat
        BY <1>0, Capacities DEF Span
      <3> DEFINE more == IF trying = "new" THEN 0 ELSE MaxAttempt * (idle + active + 1)
      <3>3. more \in Nat
        <4>1. MaxAttempt \in Nat /\ idle + active + 1 \in Nat
          BY <1>0, Capacities
        <4> QED
          BY <4>1, TimesLemma
      <3>4. Left = (Span(trying) - inner) + more
        BY <3>1 DEF Left, Rest
      <3>5. Left' = (Span(trying) - (inner + 1)) + more
        BY <3>1 DEF Left, Rest
      <3> HIDE DEF more
      <3> QED
        BY <3>1, <3>2, <3>3, <3>4, <3>5
    <2>3. \A s \in Threads : state[s] = "entering" => since'[s] = since[s] + 1
      BY <1>7 DEF Tick
    <2> QED
      BY <1>0, <1>1, <2>1, <2>2, <2>3
  <1>8. CASE RedisDown \/ UNCHANGED vars
    BY <1>8 DEF RedisDown, vars, Queue, Left, Rest, Are, Overtaking
  <1> QED
    BY <1>3, <1>4, <1>6, <1>7, <1>8, <1>10 DEF Next, GetJedisStep

(* For any number of threads, calls and connections, and any times: a      *)
(* caller that queues at the monitor waits, for each call of another       *)
(* thread that could come before it, MAX_WAIT and an attempt for every     *)
(* connection and one more at most.                                        *)
THEOREM QueueBoundHolds == Spec => []QueueBound
  <1>1. Init => Queue
    BY DEF Init, Queue, Are
  <1>2. PoolFields /\ Queue => QueueBound
    <2> SUFFICES ASSUME PoolFields, Queue, NEW t \in Are("entering")
                 PROVE  since[t] <= CallBound * Calls * (Cardinality(Threads) - 1)
      BY DEF QueueBound
    <2> DEFINE n == Cardinality(Overtaking(t))
               others == Cardinality(Threads) - 1
    <2>1. t \in Threads /\ CallBound \in Nat /\ Calls \in Nat /\ since[t] \in Nat /\ Left \in Nat
      BY Callers, CallBoundNat, LeftBound DEF Are, PoolFields
    <2>2. n \in Nat /\ others \in Nat /\ n <= others * Calls
      BY <2>1, OvertakingBound
    <2>3. since[t] + Left <= CallBound * n
      BY DEF Queue
    <2> HIDE DEF n, others
    <2>4. CallBound * n <= CallBound * Calls * others
      BY <2>1, <2>2, BoundLemma
    <2>5. CallBound * n \in Nat /\ CallBound * Calls * others \in Nat
      BY <2>1, <2>2, BoundLemma
    <2> QED
      BY <2>1, <2>3, <2>4, <2>5 DEF others
  <1> QED
    BY <1>1, <1>2, PoolHolds, QueueKept, PTL DEF Spec

-----------------------------------------------------------------------------
(***************************************************************************)
(* FezoUpload: what an uploader is told and what it sends, for any number  *)
(* of uploaders, any lengths and page size, and any number of failures.    *)
(* The cloud never loses what it has, which keeps every success true; a    *)
(* lone uploader is always at or behind the end of what the cloud has.     *)
(***************************************************************************)

\* A page that is not the last one begins before the end of the file
LEMMA PagesLemma ==
  ASSUME NEW rest \in Nat, NEW p \in Nat \ {0}, NEW k \in Nat, k < (rest + p - 1) \div p
  PROVE  k * p < rest
  <1> DEFINE q == (rest + p - 1) \div p
  <1>1. q \in Int /\ q * p <= rest + p - 1
    BY SMT
  <1>2. k + 1 <= q
    BY <1>1
  <1>3. (k + 1) * p <= q * p
    BY <1>1, <1>2, SMT
  <1> QED
    BY <1>1, <1>3, SMT

\* The page after a full one
LEMMA NextPageLemma ==
  ASSUME NEW k \in Nat, NEW p \in Nat
  PROVE  k * p \in Nat /\ (k + 1) * p = k * p + p
  BY SMT

\* What a block of a resumed upload covers
LEMMA BlockLemma ==
  ASSUME FezoTypeOK, NEW u \in Uploaders, pc[u] = "block"
  PROVE  /\ Offset(u) \in Nat /\ Offset(u) < length /\ length \in Nat /\ cloud \in Nat
         /\ End(u) \in 0..length /\ End(u) > Offset(u)
         /\ Full(u) => End(u) = Offset(u) + Page
         /\ ~Full(u) => End(u) = length
  <1>1. /\ length \in Nat /\ cloud \in Nat /\ page[u] \in Nat /\ uploaded[u] \in Nat /\ Page \in Nat \ {0}
        /\ Offset(u) < length
    BY Sizes DEF FezoTypeOK
  <1>2. Offset(u) \in Nat
    BY <1>1, NextPageLemma DEF Offset
  <1> QED
    BY <1>1, <1>2 DEF End, Full

(* The pages, offsets and results of the uploaders have their types; an    *)
(* uploader that sends blocks has a page to send that begins within the    *)
(* file.                                                                   *)
THEOREM FezoTypeCorrect == FezoSpec => []FezoTypeOK
  <1>1. FezoInit => FezoTypeOK
    BY Sizes, FewUploaders DEF FezoInit, FezoTypeOK, Success
  <1>2. FezoTypeOK /\ [FezoNext]_fezoVars => FezoTypeOK'
    <2> SUFFICES ASSUME FezoTypeOK, [FezoNext]_fezoVars PROVE FezoTypeOK'
      OBVIOUS
    <2> USE Sizes, FewUploaders
    <2>1. CASE UNCHANGED fezoVars
      BY <2>1 DEF FezoTypeOK, fezoVars, Offset, TotalPage
    <2>2. ASSUME NEW u \in present, Step(u) PROVE FezoTypeOK'
      <3>u. u \in Uploaders
        BY DEF FezoTypeOK
      <3> DEFINE Elsewhere == \A v \in Uploaders \ {u} : pc'[v] = pc[v] /\ page'[v] = page[v] /\ uploaded'[v] = uploaded[v]
      <3>0. ASSUME length' = length, Elsewhere,
                   pc'[u] = "block" => (page[u] < TotalPage(u) /\ Offset(u) < length)'
            PROVE \A v \in Uploaders : pc'[v] = "block" => (page[v] < TotalPage(v) /\ Offset(v) < length)'
        BY <3>0 DEF FezoTypeOK, Offset, TotalPage
      <3>1. CASE UploadFile(u)
        <4>1. length' = length /\ Elsewhere /\ pc'[u] # "block"
          BY <3>1, <3>u DEF UploadFile, FezoTypeOK
        <4> QED
          BY <4>1, <3>0, <3>1, <3>u DEF UploadFile, FezoTypeOK
      <3>2. CASE UploadFileOld(u) \/ UploadFileOldThrows(u)
        <4>1. length' = length /\ Elsewhere /\ pc'[u] # "block"
          BY <3>2, <3>u DEF UploadFileOld, UploadFileOldThrows, Throws, Return, FezoTypeOK
        <4> QED
          BY <4>1, <3>0, <3>2, <3>u
             DEF UploadFileOld, UploadFileOldThrows, Throws, Return, Fault, FezoTypeOK, Success
      <3>3. CASE Detect(u)
        <4>1. length' = length /\ Elsewhere
          BY <3>3, <3>u DEF Detect, Return, FezoTypeOK
        <4>2. ASSUME pc'[u] = "block" PROVE (page[u] < TotalPage(u) /\ Offset(u) < length)'
          <5>1. cloud < length /\ uploaded'[u] = cloud /\ page'[u] = 0 /\ length' = length
            BY <3>3, <3>u, <4>2 DEF Detect, Return, FezoTypeOK
          <5>2. /\ length \in Nat /\ cloud \in Nat /\ Page \in Nat \ {0}
            BY DEF FezoTypeOK
          <5>3. 0 < (length - cloud + Page - 1) \div Page
            BY <5>1, <5>2, SMT
          <5>4. 0 * Page = 0
            BY <5>2, SMT
          <5> QED
            BY <5>1, <5>2, <5>3, <5>4 DEF TotalPage, Offset
        <4> QED
          BY <4>1, <4>2, <3>0, <3>3, <3>u DEF Detect, Return, Fault, FezoTypeOK, Success
      <3>4. CASE DetectThrows(u)
        <4>1. length' = length /\ Elsewhere /\ pc'[u] # "block"
          BY <3>4, <3>u DEF DetectThrows, Throws, Return, FezoTypeOK
        <4> QED
          BY <4>1, <3>0, <3>4, <3>u DEF DetectThrows, Throws, Return, Fault, FezoTypeOK, Success
      <3>5. CASE Block(u)
        <4>0. pc[u] = "block"
          BY <3>5 DEF Block
        <4>1. length' = length /\ Elsewhere /\ uploaded' = uploaded
          BY <3>5, <3>u DEF Block, Advance, Return, FezoTypeOK
        <4>2. ASSUME pc'[u] = "block" PROVE (page[u] < TotalPage(u) /\ Offset(u) < length)'
          <5>1. page'[u] = page[u] + 1 /\ page[u] + 1 < TotalPage(u)
            BY <3>5, <3>u, <4>0, <4>2 DEF Block, Advance, Return, FezoTypeOK
          <5>2. /\ length \in Nat /\ page[u] + 1 \in Nat /\ Page \in Nat \ {0}
                /\ uploaded[u] \in Nat /\ length - uploaded[u] \in Nat
            BY <3>u DEF FezoTypeOK
          <5>3. (page[u] + 1) * Page < length - uploaded[u]
            BY <5>1, <5>2, PagesLemma DEF TotalPage
          <5>4. (page[u] + 1) * Page \in Nat
            BY <5>2, SMT
          <5> QED
            BY <5>1, <5>2, <5>3, <5>4, <4>1 DEF TotalPage, Offset
        <4>3. cloud' \in 0..length
          BY <3>5, <3>u, <4>0, BlockLemma DEF Block, FezoTypeOK
        <4>4. /\ pc' \in [Uploaders -> {"idle", "whole", "detect", "block"}]
              /\ page' \in [Uploaders -> Nat]
              /\ resultCode' \in [Uploaders -> {"none", "null", "error", "thrown"} \cup Success]
              /\ faults' \in 0..MaxFaults
          BY <3>5, <3>u DEF Block, Advance, Return, Fault, FezoTypeOK, Success
        <4>5. present' = present
          BY <3>5 DEF Block
        <4> QED
          BY <4>1, <4>2, <4>3, <4>4, <4>5, <3>0 DEF FezoTypeOK
      <3>6. CASE BlockThrows(u)
        <4>1. length' = length /\ Elsewhere /\ pc'[u] # "block"
          BY <3>6, <3>u DEF BlockThrows, Throws, Return, FezoTypeOK
        <4>2. cloud' \in 0..length
          BY <3>6, <3>u, BlockLemma DEF BlockThrows, Throws, FezoTypeOK
        <4> QED
          BY <4>1, <4>2, <3>0, <3>6, <3>u DEF BlockThrows, Throws, Return, Fault, FezoTypeOK, Success
      <3> QED
        BY <2>2, <3>1, <3>2, <3>3, <3>4, <3>5, <3>6 DEF Step
    <2> QED
      BY <2>1, <2>2 DEF FezoNext
  <1> QED
    BY <1>1, <1>2, PTL DEF FezoSpec

\* What the cloud has only grows, and what is told of success is stored
LEMMA StoredStep ==
  ASSUME FezoTypeOK, FezoTypeOK', SuccessMeansStored, NEW u \in Uploaders, Step(u)
  PROVE  SuccessMeansStored'
  <1>0. length \in Nat /\ cloud \in 0..length
    BY Sizes DEF FezoTypeOK
  <1> SUFFICES /\ length' = length /\ (cloud = length => cloud' = length)
               /\ \A v \in Uploaders \ {u} : resultCode'[v] = resultCode[v]
               /\ resultCode'[u] \in Success => resultCode[u] \in Success \/ cloud' = length
    BY <1>0 DEF SuccessMeansStored
  <1> USE DEF FezoTypeOK, Success, Return
  <1>1. CASE UploadFile(u)
    BY <1>1 DEF UploadFile
  <1>2. CASE UploadFileOld(u) \/ UploadFileOldThrows(u)
    BY <1>2 DEF UploadFileOld, UploadFileOldThrows, Throws
  <1>3. CASE Detect(u) \/ DetectThrows(u)
    BY <1>3 DEF Detect, DetectThrows, Throws
  <1>4. CASE Block(u)
    <2>1. pc[u] = "block"
      BY <1>4 DEF Block
    <2>2. cloud = length => cloud' = length
      BY <1>0, <1>4, <2>1, BlockLemma DEF Block
    <2>3. ~Full(u) /\ resultCode'[u] = "done" => cloud' = length
      BY <1>0, <1>4, <2>1, BlockLemma DEF Block, Advance
    <2>4. Full(u) => resultCode'[u] \in {resultCode[u], "null"}
      BY <1>4 DEF Block, Advance
    <2> QED
      BY <1>4, <2>2, <2>3, <2>4 DEF Block, Advance
  <1>5. CASE BlockThrows(u)
    <2>1. cloud = length => cloud' = length
      BY <1>0, <1>5, BlockLemma DEF BlockThrows, Throws
    <2> QED
      BY <1>5, <2>1 DEF BlockThrows, Throws
  <1> QED
    BY <1>1, <1>2, <1>3, <1>4, <1>5 DEF Step

(* However many uploaders send blocks of one file at once and whatever     *)
(* requests fail, a caller that is told of success has its file stored.    *)
THEOREM SuccessMeansStoredHolds == FezoSpec => []SuccessMeansStored
  <1>1. FezoInit => SuccessMeansStored
    BY DEF FezoInit, SuccessMeansStored, Success
  <1>2. FezoTypeOK /\ FezoTypeOK' /\ SuccessMeansStored /\ [FezoNext]_fezoVars => SuccessMeansStored'
    <2> SUFFICES ASSUME FezoTypeOK, FezoTypeOK', SuccessMeansStored, [FezoNext]_fezoVars
                 PROVE  SuccessMeansStored'
      OBVIOUS
    <2>1. CASE UNCHANGED fezoVars
      BY <2>1 DEF fezoVars, SuccessMeansStored
    <2>2. ASSUME NEW u \in present, Step(u) PROVE SuccessMeansStored'
      BY <2>2, StoredStep DEF FezoTypeOK
    <2> QED
      BY <2>1, <2>2 DEF FezoNext
  <1> QED
    BY <1>1, <1>2, FezoTypeCorrect, PTL DEF FezoSpec

\* A lone uploader's next offset is not before the end of what the cloud has
LEMMA LoneStep ==
  ASSUME FezoTypeOK, NEW u \in Uploaders, present = {u}, Step(u),
         pc[u] = "block" => Offset(u) >= cloud
  PROVE  pc'[u] = "block" => Offset(u)' >= cloud'
  <1> SUFFICES ASSUME pc'[u] = "block" PROVE Offset(u)' >= cloud'
    OBVIOUS
  <1>1. Detect(u) \/ Block(u)
    BY DEF Step, UploadFile, UploadFileOld, UploadFileOldThrows, DetectThrows, BlockThrows,
           Throws, Return, FezoTypeOK
  <1>2. CASE Detect(u)
    <2>1. uploaded'[u] = cloud /\ page'[u] = 0 /\ cloud' = cloud
      BY <1>2 DEF Detect, Return, FezoTypeOK
    <2>2. cloud \in Nat /\ 0 * Page = 0
      BY Sizes, SMT DEF FezoTypeOK
    <2> QED
      BY <2>1, <2>2 DEF Offset
  <1>3. CASE Block(u)
    <2>1. pc[u] = "block" /\ uploaded' = uploaded
      BY <1>3 DEF Block
    <2>2. Full(u) /\ page'[u] = page[u] + 1
      BY <1>3 DEF Block, Advance, Return, FezoTypeOK
    <2>3. Offset(u)' = Offset(u) + Page
      <3>1. page[u] \in Nat /\ Page \in Nat \ {0} /\ uploaded[u] \in Nat
        BY Sizes DEF FezoTypeOK
      <3> QED
        BY <2>1, <2>2, <3>1, NextPageLemma DEF Offset
    <2>4. End(u) = Offset(u) + Page /\ Offset(u) >= cloud /\ Offset(u) \in Nat /\ cloud \in Nat
      BY <2>1, <2>2, BlockLemma
    <2>5. cloud' \in {cloud, End(u)}
      BY <1>3 DEF Block
    <2> QED
      BY <2>3, <2>4, <2>5, Sizes
  <1> QED
    BY <1>1, <1>2, <1>3

(* With a single uploader, a resumed upload sends nothing again, wherever  *)
(* the last one was cut off.                                               *)
THEOREM NothingSentTwiceHolds == FezoSpec => []NothingSentTwice
  <1>1. FezoInit => NothingSentTwice
    BY DEF FezoInit, NothingSentTwice
  <1>2. FezoTypeOK /\ NothingSentTwice /\ [FezoNext]_fezoVars => NothingSentTwice'
    <2> SUFFICES ASSUME FezoTypeOK, NothingSentTwice, [FezoNext]_fezoVars, Cardinality(present') = 1,
                        NEW u \in present'
                 PROVE  pc'[u] = "block" => Offset(u)' >= cloud'
      BY DEF NothingSentTwice
    <2>1. present' = present
      BY DEF FezoNext, Step, UploadFile, UploadFileOld, UploadFileOldThrows, Detect, DetectThrows,
             Block, BlockThrows, Throws, fezoVars
    <2>2. present = {u} /\ u \in Uploaders
      <3>1. IsFiniteSet(present)
        BY FewUploaders, FS_Subset DEF FezoTypeOK
      <3>2. PICK x : present = {x}
        BY <2>1, <3>1, FS_Singleton
      <3> QED
        BY <2>1, <3>2 DEF FezoTypeOK
    <2>3. pc[u] = "block" => Offset(u) >= cloud
      BY <2>1, <2>2 DEF NothingSentTwice
    <2>4. CASE UNCHANGED fezoVars
      BY <2>3, <2>4 DEF fezoVars, Offset
    <2>5. CASE FezoNext
      BY <2>2, <2>3, <2>5, LoneStep DEF FezoNext
    <2> QED
      BY <2>4, <2>5
  <1> QED
    BY <1>1, <1>2, FezoTypeCorrect, PTL DEF FezoSpec

-----------------------------------------------------------------------------
(***************************************************************************)
(* ZkHolder: who initialises the class, who waits for it, and what becomes *)
(* of a first connection, for any number of threads and of outages.        *)
(***************************************************************************)

ZkFields ==
  /\ holder \in {"cold", "build", "start", "listen", "acquire", "ready", "erroneous"}
  /\ caller \in [ZkUsers -> {"idle", "initialiser", "waiting", "using", "data", "null", "error"}]
  /\ client \in BOOLEAN /\ listening \in BOOLEAN /\ permits \in 0..1
  /\ link \in {"none", "up", "down"} /\ outages \in 0..MaxOutages

\* One thread initialises the class as long as that takes, and only then do others wait for it
OneInitialiser ==
  IF Initialising THEN \E t \in ZkUsers : \A u \in ZkUsers : caller[u] = "initialiser" <=> u = t
  ELSE \A u \in ZkUsers : caller[u] \notin {"initialiser", "waiting"}

\* The client is there from its start on, a permit only while nobody has acquired it
OnePermit ==
  /\ holder \in {"start", "listen", "acquire"} => client
  /\ link = "none" => permits = 0
  /\ listening => holder \in {"acquire", "ready"}

ZkInv == ZkFields /\ OneInitialiser /\ OnePermit

LEMMA ZkFirst == ZkInit => ZkInv
  <1> SUFFICES ASSUME ZkInit PROVE ZkInv
    OBVIOUS
  <1>1. ZkFields
    <2>1. outages \in 0..MaxOutages /\ permits \in 0..1
      BY ZkBounds DEF ZkInit
    <2> QED
      BY <2>1 DEF ZkInit, ZkFields
  <1>2. OneInitialiser
    BY DEF ZkInit, OneInitialiser, Initialising
  <1>3. OnePermit
    BY DEF ZkInit, OnePermit
  <1> QED
    BY <1>1, <1>2, <1>3 DEF ZkInv

\* When the initialisation is over nobody initialises or waits any more
LEMMA OverInv ==
  ASSUME ZkInv, NEW how \in {"ready", "erroneous"}, Over(how)
  PROVE  /\ holder' = how /\ OneInitialiser'
         /\ caller' \in [ZkUsers -> {"idle", "initialiser", "waiting", "using", "data", "null", "error"}]
  BY DEF ZkInv, ZkFields, Over, OneInitialiser, Initialising

LEMMA ZkCallInv ==
  ASSUME ZkInv, NEW t \in ZkUsers, ZkCall(t)
  PROVE  ZkInv'
  <1>1. ZkFields'
    BY DEF ZkInv, ZkFields, ZkCall
  <1>2. OneInitialiser'
    <2>1. CASE holder = "cold"
      BY <2>1 DEF ZkInv, ZkFields, ZkCall, OneInitialiser, Initialising
    <2>2. CASE Initialising
      BY <2>2 DEF ZkInv, ZkFields, ZkCall, OneInitialiser, Initialising
    <2>3. CASE holder \in {"ready", "erroneous"}
      BY <2>3 DEF ZkInv, ZkFields, ZkCall, OneInitialiser, Initialising
    <2> QED
      BY <2>1, <2>2, <2>3 DEF ZkInv, ZkFields, Initialising
  <1>3. OnePermit'
    BY DEF ZkInv, ZkFields, ZkCall, OnePermit
  <1> QED
    BY <1>1, <1>2, <1>3 DEF ZkInv

LEMMA InitialiseInv ==
  ASSUME ZkInv, Initialise \/ Interrupt
  PROVE  ZkInv'
  <1>1. CASE Build
    <2>1. CASE \E how \in {"ready", "erroneous"} : Over(how) /\ UNCHANGED client
      BY <1>1, <2>1, OverInv DEF ZkInv, ZkFields, Build, OnePermit
    <2>2. CASE holder' = "start" /\ client' = TRUE /\ UNCHANGED caller
      BY <1>1, <2>2 DEF ZkInv, ZkFields, Build, OnePermit, OneInitialiser, Initialising
    <2> QED
      BY <1>1, <2>1, <2>2 DEF Build
  <1>2. CASE Start
    BY <1>2 DEF ZkInv, ZkFields, Start, OnePermit, OneInitialiser, Initialising
  <1>3. CASE AddListener
    BY <1>3 DEF ZkInv, ZkFields, AddListener, OnePermit, OneInitialiser, Initialising
  <1>4. CASE Acquire
    BY <1>4, OverInv DEF ZkInv, ZkFields, Acquire, OnePermit
  <1>5. CASE Interrupt
    BY <1>5, OverInv DEF ZkInv, ZkFields, Interrupt, OnePermit
  <1> QED
    BY <1>1, <1>2, <1>3, <1>4, <1>5 DEF Initialise

LEMMA LinkInv ==
  ASSUME ZkInv, Connect \/ Lose
  PROVE  ZkInv'
  <1>1. ZkFields'
    BY ZkBounds DEF ZkInv, ZkFields, OnePermit, Connect, Lose
  <1>2. OneInitialiser'
    BY DEF ZkInv, OneInitialiser, Initialising, Connect, Lose
  <1>3. OnePermit'
    BY DEF ZkInv, ZkFields, OnePermit, Connect, Lose
  <1> QED
    BY <1>1, <1>2, <1>3 DEF ZkInv

LEMMA UseInv ==
  ASSUME ZkInv, NEW t \in ZkUsers, Use(t) \/ Again(t)
  PROVE  ZkInv'
  <1>1. ZkFields'
    BY DEF ZkInv, ZkFields, Use, Again
  <1>2. OneInitialiser'
    BY DEF ZkInv, ZkFields, Use, Again, OneInitialiser, Initialising
  <1>3. OnePermit'
    BY DEF ZkInv, OnePermit, Use, Again
  <1> QED
    BY <1>1, <1>2, <1>3 DEF ZkInv

LEMMA ZkStep == ZkInv /\ [ZkNext]_zkVars => ZkInv'
  <1> SUFFICES ASSUME ZkInv, [ZkNext]_zkVars PROVE ZkInv'
    OBVIOUS
  <1>1. CASE ZkNext
    BY <1>1, InitialiseInv, LinkInv, ZkCallInv, UseInv DEF ZkNext
  <1>2. CASE UNCHANGED zkVars
    BY <1>2 DEF zkVars, ZkInv, ZkFields, OneInitialiser, OnePermit, Initialising
  <1> QED
    BY <1>1, <1>2

\* One thread initialises exactly as long as there is one that is counted
LEMMA ZkTyped == ZkInv => ZkTypeOK
  <1> SUFFICES ASSUME ZkInv PROVE ZkTypeOK
    OBVIOUS
  <1> DEFINE Them == {t \in ZkUsers : caller[t] = "initialiser"}
  <1>1. CASE Initialising
    <2>1. PICK t \in ZkUsers : \A u \in ZkUsers : caller[u] = "initialiser" <=> u = t
      BY <1>1 DEF ZkInv, OneInitialiser
    <2>2. Them = {t}
      BY <2>1
    <2>3. Cardinality(Them) = 1
      BY <2>2, FS_Singleton
    <2> QED
      BY <1>1, <2>3 DEF ZkInv, ZkFields, ZkTypeOK
  <1>2. CASE ~Initialising
    <2>1. Them = {}
      BY <1>2 DEF ZkInv, OneInitialiser
    <2>2. Cardinality(Them) = 0
      BY <2>1, FS_EmptySet
    <2> QED
      BY <1>2, <2>2 DEF ZkInv, ZkFields, ZkTypeOK
  <1> QED
    BY <1>1, <1>2

(* The variables of the ZooKeeper holder have their types; while the class *)
(* is initialised one thread does it (ZooKeeperHolder.java:32-71), and the *)
(* semaphore never has more than the one permit.                           *)
THEOREM ZkTypeCorrect == ZkSpec => []ZkTypeOK
  <1>1. ZkSpec => []ZkInv
    BY ZkFirst, ZkStep, PTL DEF ZkSpec
  <1> QED
    BY <1>1, ZkTyped, PTL

\* A connection is missed only in the step that adds the listener too late
LEMMA MissedStep ==
  ASSUME ZkInv, ZkNext
  PROVE  /\ ~Missed /\ Missed' => link # "none" /\ ~listening
         /\ Missed /\ ~Missed' => Interrupt
  <1>1. CASE Build \/ Start
    BY <1>1 DEF Build, Start, Over, Missed, ZkInv, OnePermit
  <1>2. CASE AddListener
    BY <1>2 DEF AddListener, Missed, ZkInv, OnePermit
  <1>3. CASE Acquire \/ Interrupt
    BY <1>3 DEF Acquire, Interrupt, Over, Missed
  <1>4. CASE Connect \/ Lose
    BY <1>4 DEF Connect, Lose, Missed, ZkInv, ZkFields
  <1>5. ASSUME NEW t \in ZkUsers, ZkCall(t) \/ Use(t) \/ Again(t)
        PROVE  Missed' = Missed
    BY <1>5 DEF ZkCall, Use, Again, Missed
  <1> QED
    BY <1>1, <1>2, <1>3, <1>4, <1>5 DEF ZkNext, Initialise

(* What was missed is never made good: once acquire (line 55) waits for a  *)
(* connection that has been made, it waits for ever, unless interrupted.   *)
THEOREM MissedOnlyEarlyHolds == ZkSpec => MissedOnlyEarly
  <1>1. ZkSpec => []ZkInv
    BY ZkFirst, ZkStep, PTL DEF ZkSpec
  <1>2. ZkInv /\ [ZkNext]_zkVars =>
          [ /\ ~Missed /\ Missed' => link # "none" /\ ~listening
            /\ Missed /\ ~Missed' => Interrupt ]_zkVars
    BY MissedStep
  <1> QED
    BY <1>1, <1>2, PTL DEF ZkSpec, MissedOnlyEarly
=============================================================================
