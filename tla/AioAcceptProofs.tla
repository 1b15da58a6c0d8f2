--------------------------- MODULE AioAcceptProofs ---------------------------
(***************************************************************************)
(* Proofs about AioAccept: the client count is exact and there is never    *)
(* more than one acceptor, for every set of callers and connections.       *)
(***************************************************************************)
EXTENDS AioAccept, FiniteSetTheorems, TLAPS

\* AioAccept is type correct: no step of the server leaves the state space.
THEOREM TypeCorrect == Spec => []TypeOK
<1>1. Init => TypeOK
  BY DEF Init, TypeOK, ConnState, ServerState
<1>2. TypeOK /\ [Next]_vars => TypeOK'
  <2> SUFFICES ASSUME TypeOK, [Next]_vars
               PROVE  TypeOK'
    OBVIOUS
  <2> USE DEF TypeOK, ConnState, ServerState
  <2>1. ASSUME NEW p \in Callers, Start(p) PROVE TypeOK'
    BY <2>1 DEF Start
  <2>2. CASE Run
    BY <2>2 DEF Run, RunLatch, RunAccept, RunReturn
  <2>3. CASE AcceptFailed
    BY <2>3 DEF AcceptFailed
  <2>4. ASSUME NEW c \in Conns, Connect(c) PROVE TypeOK'
    BY <2>4 DEF Connect
  <2>5. ASSUME NEW c \in Conns, Handler(c) PROVE TypeOK'
    BY <2>5 DEF Handler, AcceptCompleted, CountLoad, CountStore, Rearm, FirstRead
  <2>6. CASE UNCHANGED vars
    BY <2>6 DEF vars
  <2>. QED
    BY <2>1, <2>2, <2>3, <2>4, <2>5, <2>6 DEF Next
<1>. QED
  BY <1>1, <1>2, PTL DEF Spec

-----------------------------------------------------------------------------
(***************************************************************************)
(* The right to accept is a token: it is the outstanding accept, or it is  *)
(* with the one handler that has been entered and has not accepted again.  *)
(* A handler that has read the count still holds the token, so the value   *)
(* it read is the current one.                                             *)
(***************************************************************************)
TokenInv ==
  /\ OneAcceptor
  /\ server \in {"none", "new", "latched"} => acceptOp = "none" /\ Accepting = {}
  /\ acceptOp = "pending" \/ Accepting # {} => latch = "one"
  /\ serverHandle = "null" => server = "none"
  /\ server = "latched" => latch = "one"

SeenInv == \A c \in Conns : conn[c] = "loaded" => seen[c] = clientCount

IInv == TypeOK /\ TokenInv /\ SeenInv /\ AcceptChainUnbroken

\* Adding one connection to the counted ones adds one to their number.
LEMMA CountedGrows ==
  ASSUME TypeOK, NEW c \in Conns, CountStore(c)
  PROVE  Cardinality(Counted') = Cardinality(Counted) + 1
<1>1. IsFiniteSet(Counted)
  BY ConnsAssumption, FS_Subset DEF Counted
<1>2. c \notin Counted
  BY DEF Counted, CountStore
<1>3. Counted' = Counted \cup {c}
  BY DEF Counted, CountStore, TypeOK
<1>. QED
  BY <1>1, <1>2, <1>3, FS_AddElement

LEMMA InitIInv == Init => IInv
<1> SUFFICES ASSUME Init PROVE IInv
  OBVIOUS
<1>1. TypeOK
  BY DEF Init, TypeOK, ConnState, ServerState
<1>2. Accepting = {}
  BY DEF Accepting, Init
<1>3. TokenInv /\ SeenInv /\ AcceptChainUnbroken
  BY <1>2 DEF Init, TokenInv, OneAcceptor, SeenInv, AcceptChainUnbroken
<1>. QED
  BY <1>1, <1>3 DEF IInv

LEMMA StepIInv == TypeOK' /\ IInv /\ [Next]_vars => IInv'
<1> SUFFICES ASSUME TypeOK', IInv, [Next]_vars
             PROVE  TokenInv' /\ SeenInv' /\ AcceptChainUnbroken'
  BY DEF IInv
<1> USE DEF IInv, TypeOK, TokenInv, OneAcceptor, SeenInv, AcceptChainUnbroken, Accepting
<1>1. ASSUME NEW p \in Callers, Start(p)
      PROVE  TokenInv' /\ SeenInv' /\ AcceptChainUnbroken'
  BY <1>1 DEF Start
<1>2. CASE Run
  BY <1>2 DEF Run, RunLatch, RunAccept, RunReturn
<1>3. CASE AcceptFailed
  BY <1>3 DEF AcceptFailed
<1>4. ASSUME NEW c \in Conns, Connect(c)
      PROVE  TokenInv' /\ SeenInv' /\ AcceptChainUnbroken'
  BY <1>4 DEF Connect
<1>5. ASSUME NEW c \in Conns, Handler(c)
      PROVE  TokenInv' /\ SeenInv' /\ AcceptChainUnbroken'
  <2>1. CASE AcceptCompleted(c)
    BY <2>1 DEF AcceptCompleted
  <2>2. CASE CountLoad(c)
    BY <2>2 DEF CountLoad
  <2>3. CASE CountStore(c)
    BY <2>3 DEF CountStore
  <2>4. CASE Rearm(c)
    BY <2>4 DEF Rearm
  <2>5. CASE FirstRead(c)
    BY <2>5 DEF FirstRead
  <2>. QED
    BY <1>5, <2>1, <2>2, <2>3, <2>4, <2>5 DEF Handler
<1>6. CASE UNCHANGED vars
  BY <1>6 DEF vars
<1>. QED
  BY <1>1, <1>2, <1>3, <1>4, <1>5, <1>6 DEF Next

LEMMA IInvInvariant == Spec => []IInv
<1>1. TypeOK /\ TypeOK' /\ IInv /\ [Next]_vars => IInv'
  BY StepIInv
<1>. QED
  BY InitIInv, TypeCorrect, <1>1, PTL DEF Spec

\* No accept is ever issued while another is outstanding, so
\* AcceptPendingException never drops a client (AcceptHandler.java:13).
THEOREM OneAcceptorHolds == Spec => []OneAcceptor
<1>1. IInv => OneAcceptor
  BY DEF IInv, TokenInv
<1>. QED
  BY IInvInvariant, <1>1, PTL

\* The chain of accepts is never silently broken (AcceptHandler.java:9-23).
THEOREM AcceptChainHolds == Spec => []AcceptChainUnbroken
<1>1. IInv => AcceptChainUnbroken
  BY DEF IInv
<1>. QED
  BY IInvInvariant, <1>1, PTL

\* failed() always finds the latch that run() created (AcceptHandler.java:22).
THEOREM LatchReadyHolds == Spec => []LatchReady
<1>1. IInv => LatchReady
  BY DEF IInv, TokenInv, LatchReady
<1>. QED
  BY IInvInvariant, <1>1, PTL

\* The unlocked increment at AcceptHandler.java:11 loses no update: clientCount
\* is the number of connections counted, whatever the interleaving.
THEOREM CountExactHolds == Spec => []CountExact
<1>1. Init => CountExact
  <2> SUFFICES ASSUME Init PROVE CountExact
    OBVIOUS
  <2>1. Counted = {}
    BY DEF Init, Counted
  <2>. QED
    BY <2>1, FS_EmptySet DEF Init, CountExact
<1>2. IInv /\ CountExact /\ [Next]_vars => CountExact'
  <2> SUFFICES ASSUME IInv, CountExact, [Next]_vars
               PROVE  CountExact'
    OBVIOUS
  <2> USE DEF IInv, TypeOK
  <2>1. ASSUME NEW c \in Conns, CountStore(c) PROVE CountExact'
    <3>1. Cardinality(Counted') = Cardinality(Counted) + 1
      BY <2>1, CountedGrows
    <3>2. clientCount' = clientCount + 1
      BY <2>1 DEF CountStore, SeenInv
    <3>. QED
      BY <3>1, <3>2 DEF CountExact
  <2>2. ASSUME Counted' = Counted, clientCount' = clientCount
        PROVE  CountExact'
    BY <2>2 DEF CountExact
  <2>3. ASSUME NEW p \in Callers, Start(p) PROVE CountExact'
    BY <2>2, <2>3 DEF Start, Counted
  <2>4. CASE Run
    BY <2>2, <2>4 DEF Run, RunLatch, RunAccept, RunReturn, Counted
  <2>5. CASE AcceptFailed
    BY <2>2, <2>5 DEF AcceptFailed, Counted
  <2>6. ASSUME NEW c \in Conns,
               Connect(c) \/ AcceptCompleted(c) \/ CountLoad(c) \/ Rearm(c) \/ FirstRead(c)
        PROVE  CountExact'
    BY <2>2, <2>6 DEF Connect, AcceptCompleted, CountLoad, Rearm, FirstRead, Counted
  <2>7. CASE UNCHANGED vars
    BY <2>2, <2>7 DEF vars, Counted
  <2>. QED
    BY <2>1, <2>3, <2>4, <2>5, <2>6, <2>7 DEF Next, Handler
<1>. QED
  BY IInvInvariant, <1>1, <1>2, PTL DEF Spec
=============================================================================
