------------------------------ MODULE NioServer ------------------------------
(***************************************************************************)
(* The selector-driven calculator server (package nio): Server.start,      *)
(* which stops the current ServerHandle and makes a new one, and the loop  *)
(* of each ServerHandle over its selector.  Handles are numbered in the    *)
(* order of their creation; a stopped one is still finishing its round     *)
(* while its successor runs.                                               *)
(***************************************************************************)
EXTENDS Integers, FiniteSets

CONSTANTS Ports,      \* ports that start(port) is called with
          Clients,    \* connections made to the server
          MaxStarts,  \* calls of start
          MaxUnread   \* messages of one client that are not read yet

Accepting == "OP_ACCEPT"  \* the key of the listening channel

ASSUME NioAssumption ==
  /\ MaxStarts \in Nat /\ MaxUnread \in Nat \ {0}
  /\ Accepting \notin Clients

VARIABLES
  current,  \* Server.serverHandle: the number of handles made so far
  jvm,      \* "running", or "exited" by System.exit
  port,     \* the port of each handle
  started,  \* ServerHandle.started
  loop,     \* the thread of each handle: "none", "top" of the loop, "keys", "done"
  keys,     \* the selected keys it has still to handle: Accepting, or clients
  listen,   \* its serverChannel: "none", "open", "faulted", "closed"
  conn,     \* the server's channel of each client
  owner,    \* the handle that each client is connected to
  peer,     \* the client's end: "open", "closed" (end of stream), "reset"
  unread    \* messages of each client that are not read yet

lifecycle == <<current, jvm, port, started>>
network == <<listen, conn, owner, peer, unread>>
vars == <<lifecycle, loop, keys, network>>

Handles == 1..MaxStarts

TypeOK ==
  /\ current \in 0..MaxStarts /\ jvm \in {"running", "exited"}
  /\ port \in [Handles -> Ports \cup {"none"}]
  /\ started \in [Handles -> {"yes", "no"}]
  /\ loop \in [Handles -> {"none", "top", "keys", "done"}]
  /\ keys \in [Handles -> SUBSET (Clients \cup {Accepting})]
  /\ listen \in [Handles -> {"none", "open", "faulted", "closed"}]
  /\ conn \in [Clients -> {"none", "backlog", "registered", "closed"}]
  /\ owner \in [Clients -> 0..MaxStarts]
  /\ peer \in [Clients -> {"open", "closed", "reset"}]
  /\ unread \in [Clients -> 0..MaxUnread]
  /\ \A h \in Handles : IF loop[h] = "keys" THEN keys[h] # {} ELSE keys[h] = {}
  /\ \A h \in Handles : h > current => loop[h] = "none"

Init ==
  /\ current = 0 /\ jvm = "running"
  /\ port = [h \in Handles |-> "none"] /\ started = [h \in Handles |-> "no"]
  /\ loop = [h \in Handles |-> "none"] /\ keys = [h \in Handles |-> {}]
  /\ listen = [h \in Handles |-> "none"]
  /\ conn = [c \in Clients |-> "none"] /\ owner = [c \in Clients |-> 0]
  /\ peer = [c \in Clients |-> "open"] /\ unread = [c \in Clients |-> 0]

Backlog(h) == {c \in Clients : owner[c] = h /\ conn[c] = "backlog"}
Registered(h) == {c \in Clients : owner[c] = h /\ conn[c] = "registered"}

\* The keys that select finds ready
Ready(h) ==
  {c \in Registered(h) : unread[c] > 0 \/ peer[c] # "open"}
    \cup {k \in {Accepting} : listen[h] = "open" /\ Backlog(h) # {}}

\* A faulty variant of the next definition, for checking the properties: the loop
\* without it.remove()
HandledNotRemoved(h, k) ==
  /\ loop' = [loop EXCEPT ![h] = "top"]
  /\ UNCHANGED keys

\* One key is done with: it.remove(), and back to the top after the last
Handled(h, k) ==
  /\ keys' = [keys EXCEPT ![h] = @ \ {k}]
  /\ loop' = [loop EXCEPT ![h] = IF keys[h] = {k} THEN "top" ELSE "keys"]

-----------------------------------------------------------------------------
(* Faulty variants, for checking the properties; no specification uses them. *)

\* a negative count is taken for "no bytes": the channel stays open
HandleReadNoEof(h, c) ==
  /\ jvm = "running" /\ loop[h] = "keys" /\ c \in keys[h] \ {Accepting}
  /\ Handled(h, c)
  /\ unread' = [unread EXCEPT ![c] = 0]
  /\ UNCHANGED <<lifecycle, listen, conn, owner, peer>>

\* select() without a timeout sleeps through stop()
LoopEndOnlyIfReady(h) ==
  /\ jvm = "running" /\ loop[h] = "top" /\ started[h] = "no" /\ Ready(h) # {}
  /\ loop' = [loop EXCEPT ![h] = "done"]
  /\ UNCHANGED <<lifecycle, keys, network>>

-----------------------------------------------------------------------------
(* Server.start(port), synchronized: stop the handle there is, make another;   *)
(* its constructor exits the JVM if it cannot bind.  The channel of a stopped  *)
(* handle is never closed, so its port stays taken.                            *)
Start(p) ==
  /\ jvm = "running" /\ current < MaxStarts
  /\ IF \E h \in Handles : listen[h] = "open" /\ port[h] = p
     THEN /\ jvm' = "exited"
          /\ started' = [started EXCEPT ![current] = "no"]
          /\ UNCHANGED <<current, port, loop, listen>>
     ELSE /\ current' = current + 1
          /\ port' = [port EXCEPT ![current + 1] = p]
          /\ started' = [h \in Handles |-> IF h = current + 1 THEN "yes"
                                           ELSE IF h = current THEN "no" ELSE started[h]]
          /\ loop' = [loop EXCEPT ![current + 1] = "top"]
          /\ listen' = [listen EXCEPT ![current + 1] = "open"]
          /\ UNCHANGED jvm
  /\ UNCHANGED <<keys, conn, owner, peer, unread>>

\* selector.select(1000), when it returns with keys; when it does not the loop
\* just goes round
Select(h) ==
  /\ jvm = "running" /\ loop[h] = "top" /\ started[h] = "yes"
  /\ keys[h] \cup Ready(h) # {}
  /\ keys' = [keys EXCEPT ![h] = @ \cup Ready(h)]
  /\ loop' = [loop EXCEPT ![h] = "keys"]
  /\ UNCHANGED <<lifecycle, network>>

\* handleInput of the listening channel's key: one connection is accepted and
\* registered.  If accept throws, or returns null because there is none, the
\* exception closes the key's channel, which is the listening channel
HandleAccept(h) ==
  /\ jvm = "running" /\ loop[h] = "keys" /\ Accepting \in keys[h]
  /\ Handled(h, Accepting)
  /\ IF Backlog(h) = {}
     THEN listen' = [listen EXCEPT ![h] = "closed"] /\ UNCHANGED conn
     ELSE \/ /\ \E c \in Backlog(h) : conn' = [conn EXCEPT ![c] = "registered"]
             /\ UNCHANGED listen
          \/ listen' = [listen EXCEPT ![h] = "faulted"] /\ UNCHANGED conn
  /\ UNCHANGED <<lifecycle, owner, peer, unread>>

\* handleInput of a client's key: what was read is evaluated as one expression
\* and answered; the end of the stream, or an exception, closes the channel
HandleRead(h, c) ==
  /\ jvm = "running" /\ loop[h] = "keys" /\ c \in keys[h] \ {Accepting}
  /\ Handled(h, c)
  /\ IF unread[c] > 0 /\ peer[c] # "reset"
     THEN /\ \E n \in 0..(unread[c] - 1) : unread' = [unread EXCEPT ![c] = n]
          /\ UNCHANGED conn
     ELSE /\ unread' = [unread EXCEPT ![c] = 0]
          /\ conn' = [conn EXCEPT ![c] = IF peer[c] = "open" THEN @ ELSE "closed"]
  /\ UNCHANGED <<lifecycle, listen, owner, peer>>

\* The loop sees started = false and closes the selector, which deregisters its
\* channels and closes none of them
LoopEnd(h) ==
  /\ jvm = "running" /\ loop[h] = "top" /\ started[h] = "no"
  /\ loop' = [loop EXCEPT ![h] = "done"]
  /\ UNCHANGED <<lifecycle, keys, network>>

-----------------------------------------------------------------------------
(* The clients and the network *)

Connect(c, h) ==
  /\ jvm = "running" /\ conn[c] = "none" /\ listen[h] = "open"
  /\ conn' = [conn EXCEPT ![c] = "backlog"]
  /\ owner' = [owner EXCEPT ![c] = h]
  /\ UNCHANGED <<lifecycle, loop, keys, listen, peer, unread>>

Send(c) ==
  /\ jvm = "running" /\ conn[c] \in {"backlog", "registered"} /\ peer[c] = "open" /\ unread[c] < MaxUnread
  /\ unread' = [unread EXCEPT ![c] = @ + 1]
  /\ UNCHANGED <<lifecycle, loop, keys, listen, conn, owner, peer>>

Leave(c) ==
  /\ jvm = "running" /\ conn[c] \in {"backlog", "registered"} /\ peer[c] = "open"
  /\ \E end \in {"closed", "reset"} : peer' = [peer EXCEPT ![c] = end]
  /\ UNCHANGED <<lifecycle, loop, keys, listen, conn, owner, unread>>

Work(h) ==
  Select(h) \/ HandleAccept(h) \/ LoopEnd(h) \/ \E c \in Clients : HandleRead(h, c)

Next ==
  \/ \E p \in Ports : Start(p)
  \/ \E h \in Handles : Work(h)
  \/ \E c \in Clients : Send(c) \/ Leave(c) \/ \E h \in Handles : Connect(c, h)

\* Each loop goes on, handles the keys of a round in some order and, the
\* listening queue being FIFO, passes no waiting connection over for ever
Fairness ==
  \A h \in Handles :
    /\ WF_vars(Work(h))
    /\ \A c \in Clients : SF_vars(HandleAccept(h) /\ conn[c] = "backlog" /\ conn'[c] # "backlog")

Spec == Init /\ [][Next]_vars /\ Fairness

-----------------------------------------------------------------------------
\* The listening channel is lost only to an accept that really failed, never to
\* readiness that was out of date: handleInput's NullPointerException on a null
\* accept would close it for good (ServerHandle.java:64, 91-99, 67-74).
ReadinessFresh == \A h \in Handles : listen[h] # "closed"

\* One handle is started at a time, the newest; older ones only finish their round
\* (Server.java:10-13).
OneStarted ==
  jvm = "running" => \A h \in Handles : started[h] = "yes" <=> (h = current)

\* A client's failure closes that client's channel and no other (ServerHandle.java:65-74).
FailuresStayApart == \A c \in Clients : conn[c] = "closed" => peer[c] # "open"

\* While its handle stays in service, a registered client that cannot send more
\* is read, and its channel is closed once it left (ServerHandle.java:107-134).
ClientServed ==
  \A c \in Clients, h \in Handles :
    /\ owner[c] = h /\ conn[c] = "registered" /\ unread[c] = MaxUnread ~>
         unread[c] < MaxUnread \/ started[h] = "no"
    /\ owner[c] = h /\ conn[c] = "registered" /\ peer[c] # "open" ~>
         conn[c] = "closed" \/ started[h] = "no"

\* The thread of a handle that was stopped ends, though nothing wakes its selector
\* (ServerHandle.java:53-56).
StoppedLoopEnds ==
  \A h \in Handles : loop[h] # "none" /\ started[h] = "no" ~> loop[h] = "done" \/ jvm = "exited"
=============================================================================
