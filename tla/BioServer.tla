------------------------------ MODULE BioServer ------------------------------
(***************************************************************************)
(* The blocking calculator (package io): ServerBetter.start with its       *)
(* fixed thread pool, ServerHandler.run on a pool thread for each accepted *)
(* socket, and Client.send, one connection and one line per call.          *)
(* ServerNormal differs only in starting a thread per socket: it is the    *)
(* instance whose Pool is as large as the number of clients.               *)
(***************************************************************************)
EXTENDS Integers, Sequences, FiniteSets

CONSTANTS Starters,  \* threads that call ServerBetter.start(port)
          Clients,   \* calls of Client.send, and foreign clients:
          Silent,    \* those that connect and neither write nor close
          Pool       \* newFixedThreadPool(2)

ASSUME BioAssumption ==
  IsFiniteSet(Clients) /\ Silent \subseteq Clients /\ Pool \in Nat \ {0}

VARIABLES
  start,   \* where each starter is: "new", "listening" (holds the monitor),
           \* "failed" (with an exception), "returned" (found the field set)
  server,  \* the static field server: "null" or "open"
  sock,    \* the server's end of each connection
  queue,   \* sockets handed to execute() that no pool thread has taken
  line,    \* the request line: "none", "sent" or "read"
  reply,   \* the reply line: "none", "sent" or "read"
  client   \* the calls of Client.send

vars == <<start, server, sock, queue, line, reply, client>>

Serving == {c \in Clients : sock[c] = "serving"}

TypeOK ==
  /\ start \in [Starters -> {"new", "listening", "failed", "returned"}]
  /\ server \in {"null", "open"}
  /\ sock \in [Clients -> {"none", "backlog", "queued", "serving", "closed", "reset"}]
  /\ queue \in Seq(Clients)
  /\ line \in [Clients -> {"none", "sent", "read"}]
  /\ reply \in [Clients -> {"none", "sent", "read"}]
  /\ client \in [Clients -> {"idle", "connected", "done", "refused", "reset", "dead"}]

Init ==
  /\ start = [s \in Starters |-> "new"] /\ server = "null"
  /\ sock = [c \in Clients |-> "none"] /\ queue = <<>>
  /\ line = [c \in Clients |-> "none"] /\ reply = [c \in Clients |-> "none"]
  /\ client = [c \in Clients |-> "idle"]

-----------------------------------------------------------------------------
(* Faulty variants, for checking the properties; no specification uses them. *)

\* start without `synchronized': another thread's test comes before the assignment
StartUnlocked(s) ==
  /\ start[s] = "new"
  /\ start' = [start EXCEPT ![s] = "listening"]
  /\ server' = "open"
  /\ UNCHANGED <<sock, queue, line, reply, client>>

\* println without the flush that the second argument of PrintWriter asks for
HandleLineUnflushed(c) ==
  /\ sock[c] = "serving" /\ line[c] = "sent"
  /\ line' = [line EXCEPT ![c] = "read"]
  /\ UNCHANGED <<start, server, sock, queue, reply, client>>

\* the handler answers before it has read a line
HandleLineEarly(c) ==
  /\ sock[c] = "serving" /\ reply[c] = "none"
  /\ reply' = [reply EXCEPT ![c] = "sent"]
  /\ UNCHANGED <<start, server, sock, queue, line, client>>

-----------------------------------------------------------------------------
(* ServerBetter.start: the caller keeps the class's monitor in its accept loop *)

\* A thread enters once no other is inside, and returns if the field is set;
\* the constructor of ServerSocket may fail to bind
Start(s) ==
  /\ start[s] = "new" /\ \A t \in Starters : start[t] # "listening"
  /\ IF server # "null"
     THEN start' = [start EXCEPT ![s] = "returned"] /\ UNCHANGED server
     ELSE \/ start' = [start EXCEPT ![s] = "listening"] /\ server' = "open"
          \/ start' = [start EXCEPT ![s] = "failed"] /\ UNCHANGED server
  /\ UNCHANGED <<sock, queue, line, reply, client>>

\* accept, then executorService.execute
Accept(c) ==
  /\ server = "open" /\ sock[c] = "backlog"
  /\ sock' = [sock EXCEPT ![c] = "queued"]
  /\ queue' = Append(queue, c)
  /\ UNCHANGED <<start, server, line, reply, client>>

\* accept throws: the finally block closes the listening socket, which resets
\* the connections it has not accepted
AcceptFails(s) ==
  /\ start[s] = "listening"
  /\ start' = [start EXCEPT ![s] = "failed"]
  /\ server' = "null"
  /\ sock' = [c \in Clients |-> IF sock[c] = "backlog" THEN "reset" ELSE sock[c]]
  /\ UNCHANGED <<queue, line, reply, client>>

-----------------------------------------------------------------------------
(* The pool's threads and ServerHandler.run *)

Take ==
  /\ queue # <<>> /\ Cardinality(Serving) < Pool
  /\ sock' = [sock EXCEPT ![Head(queue)] = "serving"]
  /\ queue' = Tail(queue)
  /\ UNCHANGED <<start, server, line, reply, client>>

\* readLine returns the line; Calculator's exceptions are answers too, and a
\* PrintWriter reports no error, so a reply to a dead client is written as well
HandleLine(c) ==
  /\ sock[c] = "serving" /\ line[c] = "sent"
  /\ line' = [line EXCEPT ![c] = "read"]
  /\ reply' = [reply EXCEPT ![c] = "sent"]
  /\ UNCHANGED <<start, server, sock, queue, client>>

\* readLine returns null, or throws because the client died: the finally block
\* closes the socket and the thread goes back to the pool
HandleEnd(c) ==
  /\ sock[c] = "serving"
  /\ client[c] = "dead" \/ (client[c] = "done" /\ line[c] # "sent")
  /\ sock' = [sock EXCEPT ![c] = "closed"]
  /\ UNCHANGED <<start, server, queue, line, reply, client>>

-----------------------------------------------------------------------------
(* Client.send; its exceptions are printed and nothing is tried again *)

Connect(c) ==
  /\ client[c] = "idle"
  /\ IF server = "open"
     THEN /\ client' = [client EXCEPT ![c] = "connected"]
          /\ sock' = [sock EXCEPT ![c] = "backlog"]
     ELSE client' = [client EXCEPT ![c] = "refused"] /\ UNCHANGED sock
  /\ UNCHANGED <<start, server, queue, line, reply>>

\* out.println(expression)
SendLine(c) ==
  /\ client[c] = "connected" /\ line[c] = "none" /\ c \notin Silent
  /\ line' = [line EXCEPT ![c] = "sent"]
  /\ UNCHANGED <<start, server, sock, queue, reply, client>>

\* in.readLine returns the reply, and the finally block closes the socket
ReadReply(c) ==
  /\ client[c] = "connected" /\ reply[c] = "sent"
  /\ reply' = [reply EXCEPT ![c] = "read"]
  /\ client' = [client EXCEPT ![c] = "done"]
  /\ UNCHANGED <<start, server, sock, queue, line>>

\* println or readLine fails on a connection that was never accepted
ReadReset(c) ==
  /\ client[c] = "connected" /\ sock[c] = "reset"
  /\ client' = [client EXCEPT ![c] = "reset"]
  /\ UNCHANGED <<start, server, sock, queue, line, reply>>

\* The client's process ends at any moment
Die(c) ==
  /\ client[c] = "connected" /\ c \notin Silent
  /\ client' = [client EXCEPT ![c] = "dead"]
  /\ UNCHANGED <<start, server, sock, queue, line, reply>>

Handler(c) == HandleLine(c) \/ HandleEnd(c)
Sender(c) == SendLine(c) \/ ReadReply(c) \/ ReadReset(c)

Next ==
  \/ Take
  \/ \E s \in Starters : Start(s) \/ AcceptFails(s)
  \/ \E c \in Clients : Accept(c) \/ Handler(c) \/ Sender(c) \/ Connect(c) \/ Die(c)

\* Threads run; the listening queue is FIFO; clients need not call nor die
Fairness ==
  /\ WF_vars(Take)
  /\ WF_vars(\E s \in Starters : Start(s))
  /\ \A c \in Clients : SF_vars(Accept(c)) /\ WF_vars(Handler(c)) /\ WF_vars(Sender(c))

Spec == Init /\ [][Next]_vars /\ Fairness

-----------------------------------------------------------------------------
\* The monitor of start makes the listening socket unique, and whoever enters
\* finds the field null, so a caller that waited behind another listens in its
\* turn instead of returning (ServerBetter.java:26-50).
OneListener ==
  /\ \A s, t \in Starters : start[s] = "listening" /\ start[t] = "listening" => s = t
  /\ server = "open" <=> \E s \in Starters : start[s] = "listening"
  /\ \A s \in Starters : start[s] # "returned"

\* Once its connection is accepted, a call of Client.send ends with the answer
\* unless its own process dies: losing the listening socket hurts no accepted
\* client (ServerBetter.java:42-49 and ServerHandler.java:43-65).
AcceptedIsAnswered ==
  \A c \in Clients \ Silent :
    sock[c] = "queued" ~> client[c] \in {"done", "dead"}

\* A call as its caller sees it and as the server sees it
Asked(c) ==
  CASE client[c] = "idle" -> "idle"
    [] client[c] = "connected" -> IF line[c] = "none" THEN "idle" ELSE "waiting"
    [] client[c] = "done" -> "answered"
    [] OTHER -> "failed"

Served(c) == IF reply[c] = "none" THEN "no" ELSE "yes"

RR == INSTANCE RequestReply WITH
  Requests <- Clients,
  asked <- [c \in Clients |-> Asked(c)],
  served <- [c \in Clients |-> Served(c)]

\* Each call of Client.send is evaluated at most once, and answered only after.
RequestReplySpec == RR!Spec
=============================================================================
