------------------------------ MODULE AioAccept ------------------------------
(***************************************************************************)
(* The accept side of the asynchronous calculator server (package aio):    *)
(* Server.start, the "Server" thread of AsyncServerHandler.run, and the    *)
(* completion handler AcceptHandler, which runs on the threads of the      *)
(* default channel group.                                                  *)
(*                                                                         *)
(* Server.clientCount is a volatile long that AcceptHandler.completed      *)
(* increments with `++', a read followed by a write.  Nothing locks it.    *)
(* What keeps the count exact is the ORDER inside completed(): the next    *)
(* accept is issued only after the increment, so no two handlers can be    *)
(* inside the increment at once.                                           *)
(*                                                                         *)
(* What happens on a connection after its first read has been issued is    *)
(* the subject of AioSession.                                              *)
(***************************************************************************)
EXTENDS Integers, FiniteSets

CONSTANTS Callers,  \* threads that call Server.start(port)
          Conns     \* connections that clients may open

ASSUME ConnsAssumption == IsFiniteSet(Conns)

VARIABLES
  callers,       \* the callers whose call of start() has not been made yet
  serverHandle,  \* Server.serverHandle: "null", or the handler, "bound" or "unbound"
  server,        \* the thread "Server": where it is in AsyncServerHandler.run
  latch,         \* AsyncServerHandler.latch: "null", "one" or "zero"
  acceptOp,      \* is an accept outstanding on the listening channel?
  conn,          \* how far the handling of each connection has got
  seen,          \* the value of clientCount that completed() read
  clientCount    \* Server.clientCount

vars == <<callers, serverHandle, server, latch, acceptOp, conn, seen, clientCount>>

ConnState == {"none",      \* the client has not connected
              "backlog",   \* connected, in the listening socket's queue
              "accepted",  \* completed() has been called with the channel
              "loaded",    \* ... has read clientCount
              "counted",   \* ... has written clientCount + 1
              "rearmed",   \* ... has issued the next accept
              "reading",   \* ... has issued the first read
              "dropped"}   \* ... was left by AcceptPendingException

ServerState == {"none", "new", "latched", "awaiting", "dead", "done"}

TypeOK ==
  /\ callers \subseteq Callers
  /\ serverHandle \in {"null", "bound", "unbound"}
  /\ server \in ServerState
  /\ latch \in {"null", "one", "zero"}
  /\ acceptOp \in {"none", "pending"}
  /\ conn \in [Conns -> ConnState]
  /\ seen \in [Conns -> Nat]
  /\ clientCount \in Nat

Init ==
  /\ callers = Callers
  /\ serverHandle = "null"
  /\ server = "none"
  /\ latch = "null"
  /\ acceptOp = "none"
  /\ conn = [c \in Conns |-> "none"]
  /\ seen = [c \in Conns |-> 0]
  /\ clientCount = 0

(***************************************************************************)
(* Faulty variants of actions defined below, for checking that the         *)
(* properties notice the fault.  No specification uses them.               *)
(***************************************************************************)
\* the next accept is issued on entry to completed(), before the increment
AcceptCompletedRearming(c) ==
  /\ acceptOp = "pending"
  /\ conn[c] = "backlog"
  /\ conn' = [conn EXCEPT ![c] = "accepted"]
  /\ UNCHANGED <<callers, serverHandle, server, latch, acceptOp, seen, clientCount>>

\* failed() forgets latch.countDown
AcceptFailedSilently ==
  /\ acceptOp = "pending"
  /\ acceptOp' = "none"
  /\ UNCHANGED <<callers, serverHandle, server, latch, conn, seen, clientCount>>

(***************************************************************************)
(* Server.start is synchronized.  The constructor swallows the IOException *)
(* of a failed bind, so serverHandle is set and the thread is started      *)
(* whether or not the channel is bound.                                    *)
(***************************************************************************)
Start(p) ==
  /\ p \in callers
  /\ callers' = callers \ {p}
  /\ IF serverHandle # "null"
     THEN UNCHANGED <<serverHandle, server>>
     ELSE /\ serverHandle' \in {"bound", "unbound"}
          /\ server' = "new"
  /\ UNCHANGED <<latch, acceptOp, conn, seen, clientCount>>

\* run(): latch = new CountDownLatch(1)
RunLatch ==
  /\ server = "new"
  /\ latch' = "one"
  /\ server' = "latched"
  /\ UNCHANGED <<callers, serverHandle, acceptOp, conn, seen, clientCount>>

\* run(): channel.accept; NotYetBoundException ends the thread
RunAccept ==
  /\ server = "latched"
  /\ IF serverHandle = "bound"
     THEN acceptOp' = "pending" /\ server' = "awaiting"
     ELSE server' = "dead" /\ UNCHANGED acceptOp
  /\ UNCHANGED <<callers, serverHandle, latch, conn, seen, clientCount>>

\* run(): latch.await() returns
RunReturn ==
  /\ server = "awaiting"
  /\ latch = "zero"
  /\ server' = "done"
  /\ UNCHANGED <<callers, serverHandle, latch, acceptOp, conn, seen, clientCount>>

\* A client connects: the kernel completes the handshake of a listening socket
Connect(c) ==
  /\ serverHandle = "bound"
  /\ conn[c] = "none"
  /\ conn' = [conn EXCEPT ![c] = "backlog"]
  /\ UNCHANGED <<callers, serverHandle, server, latch, acceptOp, seen, clientCount>>

\* The outstanding accept completes with c and AcceptHandler.completed is entered
AcceptCompleted(c) ==
  /\ acceptOp = "pending"
  /\ conn[c] = "backlog"
  /\ acceptOp' = "none"
  /\ conn' = [conn EXCEPT ![c] = "accepted"]
  /\ UNCHANGED <<callers, serverHandle, server, latch, seen, clientCount>>

\* The outstanding accept fails (no descriptor left, for instance):
\* AcceptHandler.failed counts the latch down and issues no other accept
AcceptFailed ==
  /\ acceptOp = "pending"
  /\ acceptOp' = "none"
  /\ latch' = "zero"
  /\ UNCHANGED <<callers, serverHandle, server, conn, seen, clientCount>>

\* Server.clientCount++, its read ...
CountLoad(c) ==
  /\ conn[c] = "accepted"
  /\ seen' = [seen EXCEPT ![c] = clientCount]
  /\ conn' = [conn EXCEPT ![c] = "loaded"]
  /\ UNCHANGED <<callers, serverHandle, server, latch, acceptOp, clientCount>>

\* ... and its write
CountStore(c) ==
  /\ conn[c] = "loaded"
  /\ clientCount' = seen[c] + 1
  /\ conn' = [conn EXCEPT ![c] = "counted"]
  /\ UNCHANGED <<callers, serverHandle, server, latch, acceptOp, seen>>

\* serverHandler.channel.accept: AcceptPendingException, thrown when an accept
\* is outstanding, would leave completed() before the read is issued
Rearm(c) ==
  /\ conn[c] = "counted"
  /\ acceptOp' = "pending"
  /\ conn' = [conn EXCEPT ![c] = IF acceptOp = "pending" THEN "dropped" ELSE "rearmed"]
  /\ UNCHANGED <<callers, serverHandle, server, latch, seen, clientCount>>

\* channel.read with a new ReadHandler_Server
FirstRead(c) ==
  /\ conn[c] = "rearmed"
  /\ conn' = [conn EXCEPT ![c] = "reading"]
  /\ UNCHANGED <<callers, serverHandle, server, latch, acceptOp, seen, clientCount>>

Handler(c) ==
  \/ AcceptCompleted(c)
  \/ CountLoad(c)
  \/ CountStore(c)
  \/ Rearm(c)
  \/ FirstRead(c)

Run == RunLatch \/ RunAccept \/ RunReturn

Next ==
  \/ \E p \in Callers : Start(p)
  \/ Run
  \/ AcceptFailed
  \/ \E c \in Conns : Connect(c) \/ Handler(c)

(***************************************************************************)
(* Threads that can run do run.  The listening queue is FIFO, so a         *)
(* connection in it is not passed over for ever: strong fairness of its    *)
(* accept.  Clients need not connect, nor callers call, nor accepts fail.  *)
(***************************************************************************)
Fairness ==
  /\ WF_vars(Run)
  /\ \A c \in Conns :
       /\ SF_vars(AcceptCompleted(c))
       /\ WF_vars(Handler(c))

Spec == Init /\ [][Next]_vars /\ Fairness

-----------------------------------------------------------------------------
(***************************************************************************)
(* The handlers between being entered and issuing the next accept, and the *)
(* connections that clientCount has been written for.                      *)
(***************************************************************************)
Accepting == {c \in Conns : conn[c] \in {"accepted", "loaded", "counted"}}
Counted == {c \in Conns : conn[c] \in {"counted", "rearmed", "reading", "dropped"}}

\* Server.clientCount, incremented without a lock by handlers on different
\* threads, is at every moment the number of handlers that have passed their
\* increment (AcceptHandler.java:11): no update is ever lost.
CountExact == clientCount = Cardinality(Counted)

\* Two handlers are never both between their entry and their accept, and none
\* is while an accept is outstanding: accept at AcceptHandler.java:13 never
\* throws AcceptPendingException, which would drop the client unread.
OneAcceptor ==
  /\ acceptOp = "pending" => Accepting = {}
  /\ \A c, d \in Accepting : c = d
  /\ \A c \in Conns : conn[c] # "dropped"

\* While the server thread waits on a latch nobody has counted down, an accept
\* is outstanding or a handler is on its way to issue one: the accept chain,
\* which no loop drives, is never silently broken.
AcceptChainUnbroken ==
  server = "awaiting" /\ latch = "one" => acceptOp = "pending" \/ Accepting # {}

\* failed() dereferences the latch: whenever an accept can fail, run() has
\* already created the latch (AsyncServerHandler.java:28 before :30) and nobody
\* has counted it down.
LatchReady == acceptOp = "pending" => latch = "one"

\* Every connection that reaches the listening queue gets its first read,
\* unless an accept has failed.
EveryConnectionRead ==
  \A c \in Conns : conn[c] = "backlog" ~> conn[c] = "reading" \/ latch = "zero"
=============================================================================
