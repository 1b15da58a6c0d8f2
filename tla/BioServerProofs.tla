--------------------------- MODULE BioServerProofs ---------------------------
(***************************************************************************)
(* Proofs about BioServer, for any numbers of starters, clients and pool   *)
(* threads: typing, the unique listening socket, and that the blocking     *)
(* calculator implements RequestReply.                                     *)
(***************************************************************************)
EXTENDS BioServer, TLAPS

\* BioServer is type correct: no step leaves the state space.
THEOREM TypeCorrect == Spec => []TypeOK
<1>1. Init => TypeOK
  BY DEF Init, TypeOK
<1>2. TypeOK /\ [Next]_vars => TypeOK'
  <2> SUFFICES ASSUME TypeOK, [Next]_vars
               PROVE  TypeOK'
    OBVIOUS
  <2> USE DEF TypeOK
  <2>1. CASE Take
    BY <2>1 DEF Take
  <2>2. ASSUME NEW s \in Starters, Start(s) PROVE TypeOK'
    BY <2>2 DEF Start
  <2>3. ASSUME NEW s \in Starters, AcceptFails(s) PROVE TypeOK'
    BY <2>3 DEF AcceptFails
  <2>4. ASSUME NEW c \in Clients, Accept(c) PROVE TypeOK'
    BY <2>4 DEF Accept
  <2>5. ASSUME NEW c \in Clients, Handler(c) PROVE TypeOK'
    BY <2>5 DEF Handler, HandleLine, HandleEnd
  <2>6. ASSUME NEW c \in Clients, Sender(c) PROVE TypeOK'
    BY <2>6 DEF Sender, SendLine, ReadReply, ReadReset
  <2>7. ASSUME NEW c \in Clients, Connect(c) \/ Die(c) PROVE TypeOK'
    BY <2>7 DEF Connect, Die
  <2>8. CASE UNCHANGED vars
    BY <2>8 DEF vars
  <2>. QED
    BY <2>1, <2>2, <2>3, <2>4, <2>5, <2>6, <2>7, <2>8 DEF Next
<1>. QED
  BY <1>1, <1>2, PTL DEF Spec

\* Only one thread is ever in the accept loop, the listening socket is there
\* exactly while one is, and nobody finds it set on entry (ServerBetter.java:26-50).
THEOREM OneListenerHolds == Spec => []OneListener
<1>1. Init => OneListener
  BY DEF Init, OneListener
<1>2. TypeOK /\ OneListener /\ [Next]_vars => OneListener'
  <2> SUFFICES ASSUME TypeOK, OneListener, [Next]_vars
               PROVE  OneListener'
    OBVIOUS
  <2>1. ASSUME NEW s \in Starters, Start(s) PROVE OneListener'
    BY <2>1 DEF Start, TypeOK, OneListener
  <2>2. ASSUME NEW s \in Starters, AcceptFails(s) PROVE OneListener'
    BY <2>2 DEF AcceptFails, TypeOK, OneListener
  <2>3. ASSUME UNCHANGED <<start, server>> PROVE OneListener'
    BY <2>3 DEF OneListener
  <2>4. CASE Take \/ UNCHANGED vars
    BY <2>3, <2>4 DEF Take, vars
  <2>5. ASSUME NEW c \in Clients,
               Accept(c) \/ Handler(c) \/ Sender(c) \/ Connect(c) \/ Die(c)
        PROVE  OneListener'
    BY <2>3, <2>5 DEF Accept, Handler, HandleLine, HandleEnd, Sender, SendLine,
                      ReadReply, ReadReset, Connect, Die
  <2>. QED
    BY <2>1, <2>2, <2>4, <2>5 DEF Next
<1>. QED
  BY TypeCorrect, <1>1, <1>2, PTL DEF Spec

-----------------------------------------------------------------------------
(***************************************************************************)
(* The refinement needs to know that the two lines of a call come in their *)
(* order: no reply before the request line has been read, no request line  *)
(* before the connection.                                                  *)
(***************************************************************************)
LineInv ==
  \A c \in Clients :
    /\ reply[c] = "none" <=> line[c] # "read"
    /\ client[c] \in {"idle", "refused"} => line[c] = "none"
    /\ client[c] = "done" => reply[c] = "read"
    /\ reply[c] = "read" => client[c] = "done"

LEMMA LineInvInvariant == Spec => []LineInv
<1>1. Init => LineInv
  BY DEF Init, LineInv
<1>2. TypeOK /\ LineInv /\ [Next]_vars => LineInv'
  <2> SUFFICES ASSUME TypeOK, LineInv, [Next]_vars
               PROVE  LineInv'
    OBVIOUS
  <2> USE DEF TypeOK, LineInv
  <2>1. CASE Take
    BY <2>1 DEF Take
  <2>2. ASSUME NEW s \in Starters, Start(s) PROVE LineInv'
    BY <2>2 DEF Start
  <2>3. ASSUME NEW s \in Starters, AcceptFails(s) PROVE LineInv'
    BY <2>3 DEF AcceptFails
  <2>4. ASSUME NEW c \in Clients, Accept(c) PROVE LineInv'
    BY <2>4 DEF Accept
  <2>5. ASSUME NEW c \in Clients, Handler(c) PROVE LineInv'
    BY <2>5 DEF Handler, HandleLine, HandleEnd
  <2>6. ASSUME NEW c \in Clients, Sender(c) PROVE LineInv'
    BY <2>6 DEF Sender, SendLine, ReadReply, ReadReset
  <2>7. ASSUME NEW c \in Clients, Connect(c) \/ Die(c) PROVE LineInv'
    BY <2>7 DEF Connect, Die
  <2>8. CASE UNCHANGED vars
    BY <2>8 DEF vars
  <2>. QED
    BY <2>1, <2>2, <2>3, <2>4, <2>5, <2>6, <2>7, <2>8 DEF Next
<1>. QED
  BY TypeCorrect, <1>1, <1>2, PTL DEF Spec

\* The blocking calculator implements RequestReply: a call of Client.send is
\* evaluated at most once, and answered only with that evaluation, whatever the
\* pool, the deaths of clients and the losses of the listening socket.
THEOREM Refinement == Spec => RequestReplySpec
<1>1. Init => RR!Init
  BY DEF Init, RR!Init, Asked, Served
<1>2. TypeOK /\ LineInv /\ [Next]_vars
        => [RR!Next]_<<[c \in Clients |-> Asked(c)], [c \in Clients |-> Served(c)]>>
  <2> SUFFICES ASSUME TypeOK, LineInv, [Next]_vars
               PROVE  \/ RR!Next
                      \/ UNCHANGED <<[c \in Clients |-> Asked(c)], [c \in Clients |-> Served(c)]>>
    OBVIOUS
  <2> DEFINE A == [c \in Clients |-> Asked(c)]
             S == [c \in Clients |-> Served(c)]
  <2>1. ASSUME UNCHANGED <<line, reply, client>> PROVE UNCHANGED <<A, S>>
    BY <2>1 DEF Asked, Served
  <2>2. CASE Take \/ UNCHANGED vars
    BY <2>1, <2>2 DEF Take, vars
  <2>3. ASSUME NEW s \in Starters, Start(s) \/ AcceptFails(s) PROVE UNCHANGED <<A, S>>
    BY <2>1, <2>3 DEF Start, AcceptFails
  <2>4. ASSUME NEW c \in Clients, Accept(c) \/ HandleEnd(c) PROVE UNCHANGED <<A, S>>
    BY <2>1, <2>4 DEF Accept, HandleEnd
  <2>5. ASSUME NEW c \in Clients, HandleLine(c) PROVE RR!Serve(c)
    BY <2>5 DEF HandleLine, RR!Serve, Asked, Served, TypeOK, LineInv
  <2>6. ASSUME NEW c \in Clients, SendLine(c) PROVE RR!Ask(c)
    BY <2>6 DEF SendLine, RR!Ask, Asked, Served, TypeOK, LineInv
  <2>7. ASSUME NEW c \in Clients, ReadReply(c) PROVE RR!Answer(c)
    BY <2>7 DEF ReadReply, RR!Answer, Asked, Served, TypeOK, LineInv
  <2>8. ASSUME NEW c \in Clients, UNCHANGED <<line, reply>>,
               client[c] \in {"idle", "connected"},
               \E x \in {"refused", "reset", "dead"} : client' = [client EXCEPT ![c] = x]
        PROVE  RR!Fail(c)
    <3>1. UNCHANGED S
      BY <2>8 DEF Served
    <3>2. A[c] \in {"idle", "waiting"}
      BY <2>8 DEF Asked
    <3>3. Asked(c)' = "failed"
      BY <2>8 DEF Asked, TypeOK
    <3>4. \A d \in Clients \ {c} : Asked(d)' = Asked(d)
      BY <2>8 DEF Asked, TypeOK
    <3>5. A' = [A EXCEPT ![c] = "failed"]
      BY <3>3, <3>4
    <3>. QED
      BY <3>1, <3>2, <3>5 DEF RR!Fail
  <2>9. ASSUME NEW c \in Clients, ReadReset(c) \/ Die(c) PROVE RR!Fail(c)
    BY <2>8, <2>9 DEF ReadReset, Die
  <2>10. ASSUME NEW c \in Clients, Connect(c) PROVE RR!Fail(c) \/ UNCHANGED <<A, S>>
    <3>1. CASE server = "open"
      BY <2>10, <3>1 DEF Connect, Asked, Served, TypeOK, LineInv
    <3>2. CASE server # "open"
      BY <2>8, <2>10, <3>2 DEF Connect
    <3>. QED
      BY <3>1, <3>2
  <2>. QED
    BY <2>2, <2>3, <2>4, <2>5, <2>6, <2>7, <2>9, <2>10 DEF Next, Handler, Sender, RR!Next
<1>. QED
  BY TypeCorrect, LineInvInvariant, <1>1, <1>2, PTL DEF Spec, RR!Spec, RequestReplySpec
=============================================================================
