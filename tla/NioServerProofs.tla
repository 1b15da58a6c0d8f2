--------------------------- MODULE NioServerProofs ---------------------------
(***************************************************************************)
(* Proofs about NioServer, for any ports, clients and number of restarts:  *)
(* typing, the freshness of the selector's readiness, the single started   *)
(* handle, and the isolation of client failures; and about its NioClient,  *)
(* whose attempts and replies are watched.                                 *)
(***************************************************************************)
EXTENDS NioServer, TLAPS

USE NioAssumption DEF lifecycle, network

\* Finishing one key keeps the loop in its key phase exactly while keys are left.
LEMMA KeysHandled ==
  ASSUME TypeOK, NEW h \in Handles, NEW k \in keys[h], loop[h] = "keys", Handled(h, k),
         UNCHANGED current
  PROVE  /\ loop' \in [Handles -> {"none", "top", "keys", "done"}]
         /\ keys' \in [Handles -> SUBSET (Clients \cup {Accepting})]
         /\ \A g \in Handles : IF loop'[g] = "keys" THEN keys'[g] # {} ELSE keys'[g] = {}
         /\ \A g \in Handles : g > current' => loop'[g] = "none"
<1>1. loop' \in [Handles -> {"none", "top", "keys", "done"}]
  BY DEF Handled, TypeOK
<1>2. keys' \in [Handles -> SUBSET (Clients \cup {Accepting})]
  BY DEF Handled, TypeOK
<1>3. ASSUME NEW g \in Handles
      PROVE  IF loop'[g] = "keys" THEN keys'[g] # {} ELSE keys'[g] = {}
  BY DEF Handled, TypeOK
<1>4. ASSUME NEW g \in Handles, g > current' PROVE loop'[g] = "none"
  BY <1>4 DEF Handled, TypeOK
<1>. QED
  BY <1>1, <1>2, <1>3, <1>4

\* NioServer is type correct, and a loop is handling keys exactly while it has some.
THEOREM TypeCorrect == Spec => []TypeOK
<1>1. Init => TypeOK
  BY DEF Init, TypeOK
<1>2. TypeOK /\ [Next]_vars => TypeOK'
  <2> SUFFICES ASSUME TypeOK, [Next]_vars
               PROVE  TypeOK'
    OBVIOUS
  <2> USE DEF TypeOK
  <2>1. ASSUME NEW p \in Ports, Start(p) PROVE TypeOK'
    <3>1. CASE \E h \in Handles : listen[h] = "open" /\ port[h] = p
      BY <2>1, <3>1 DEF Start
    <3>2. CASE ~(\E h \in Handles : listen[h] = "open" /\ port[h] = p)
      <4> DEFINE n == current + 1
      <4>1. /\ n \in Handles /\ current' = n /\ current' \in 0..MaxStarts
            /\ UNCHANGED <<jvm, keys, conn, owner, peer, unread>>
        BY <2>1, <3>2 DEF Start, Handles
      <4>2. /\ port' = [port EXCEPT ![n] = p]
            /\ loop' = [loop EXCEPT ![n] = "top"]
            /\ listen' = [listen EXCEPT ![n] = "open"]
        BY <2>1, <3>2 DEF Start
      <4>3. started' \in [Handles -> {"yes", "no"}]
        BY <2>1, <3>2 DEF Start
      <4>4. n > current
        OBVIOUS
      <4>5. loop[n] = "none" /\ keys[n] = {}
        BY <4>1, <4>4
      <4>6. \A h \in Handles : IF loop'[h] = "keys" THEN keys'[h] # {} ELSE keys'[h] = {}
        BY <4>1, <4>2, <4>5
      <4>7. \A h \in Handles : h > current' => loop'[h] = "none"
        BY <4>1, <4>2 DEF Handles
      <4>. QED
        BY <4>1, <4>2, <4>3, <4>6, <4>7
    <3>. QED
      BY <3>1, <3>2
  <2>2. ASSUME NEW h \in Handles, Select(h) PROVE TypeOK'
    BY <2>2 DEF Select, Ready, Registered, Accepting
  <2>3. ASSUME NEW h \in Handles, HandleAccept(h) PROVE TypeOK'
    <3>1. conn' \in [Clients -> {"none", "backlog", "registered", "closed"}]
      BY <2>3 DEF HandleAccept, Backlog
    <3>2. listen' \in [Handles -> {"none", "open", "faulted", "closed"}]
      BY <2>3 DEF HandleAccept
    <3>3. UNCHANGED <<lifecycle, owner, peer, unread>> /\ loop[h] = "keys" /\ Accepting \in keys[h]
      BY <2>3 DEF HandleAccept
    <3>4. Handled(h, Accepting)
      BY <2>3 DEF HandleAccept
    <3>. QED
      BY <3>1, <3>2, <3>3, <3>4, KeysHandled
  <2>4. ASSUME NEW h \in Handles, NEW c \in Clients, HandleRead(h, c) PROVE TypeOK'
    <3>1. conn' \in [Clients -> {"none", "backlog", "registered", "closed"}]
      BY <2>4 DEF HandleRead
    <3>2. unread' \in [Clients -> 0..MaxUnread]
      BY <2>4 DEF HandleRead
    <3>3. UNCHANGED <<lifecycle, owner, peer, listen>> /\ loop[h] = "keys" /\ c \in keys[h]
      BY <2>4 DEF HandleRead
    <3>4. Handled(h, c)
      BY <2>4 DEF HandleRead
    <3>. QED
      BY <3>1, <3>2, <3>3, <3>4, KeysHandled
  <2>5. ASSUME NEW h \in Handles, LoopEnd(h) PROVE TypeOK'
    BY <2>5 DEF LoopEnd
  <2>6. ASSUME NEW c \in Clients, Send(c) \/ Leave(c) PROVE TypeOK'
    <3>1. CASE Send(c)
      <4>1. unread' \in [Clients -> 0..MaxUnread]
        BY <3>1 DEF Send
      <4>2. UNCHANGED <<current, jvm, port, started, loop, keys, listen, conn, owner, peer>>
        BY <3>1 DEF Send
      <4>. QED BY <4>1, <4>2
    <3>2. CASE Leave(c)
      BY <3>2 DEF Leave
    <3>. QED
      BY <2>6, <3>1, <3>2
  <2>7. ASSUME NEW c \in Clients, NEW h \in Handles, Connect(c, h) PROVE TypeOK'
    <3>1. h \in 0..MaxStarts
      BY DEF Handles
    <3>. QED
      BY <2>7, <3>1 DEF Connect
  <2>8. CASE UNCHANGED vars
    BY <2>8 DEF vars
  <2>. QED
    BY <2>1, <2>2, <2>3, <2>4, <2>5, <2>6, <2>7, <2>8 DEF Next, Work
<1>. QED
  BY <1>1, <1>2, PTL DEF Spec

-----------------------------------------------------------------------------
(***************************************************************************)
(* A selected accept key is backed by a waiting connection: nobody but the *)
(* handle itself takes connections from its queue, and the step that takes *)
(* one uses the key up.  A selected client is registered with the handle.  *)
(***************************************************************************)
KeyBacked ==
  \A h \in Handles :
    /\ Accepting \in keys[h] => Backlog(h) # {}
    /\ keys[h] \ {Accepting} \subseteq Registered(h)

\* The listening channel is never closed by an accept that finds nobody
\* (ServerHandle.java:64 and 91-99).
THEOREM ReadinessFreshHolds == Spec => []ReadinessFresh
<1>1. Init => ReadinessFresh /\ KeyBacked
  BY DEF Init, ReadinessFresh, KeyBacked, Registered
<1>2. TypeOK /\ ReadinessFresh /\ KeyBacked /\ [Next]_vars => (ReadinessFresh /\ KeyBacked)'
  <2> SUFFICES ASSUME TypeOK, ReadinessFresh, KeyBacked, [Next]_vars
               PROVE  (ReadinessFresh /\ KeyBacked)'
    OBVIOUS
  <2> USE DEF TypeOK, ReadinessFresh, KeyBacked, Backlog, Registered
  <2>1. ASSUME NEW p \in Ports, Start(p) PROVE (ReadinessFresh /\ KeyBacked)'
    BY <2>1 DEF Start
  <2>2. ASSUME NEW h \in Handles, Select(h) PROVE (ReadinessFresh /\ KeyBacked)'
    BY <2>2 DEF Select, Ready
  <2>3. ASSUME NEW h \in Handles, HandleAccept(h) PROVE (ReadinessFresh /\ KeyBacked)'
    BY <2>3 DEF HandleAccept, Handled
  <2>4. ASSUME NEW h \in Handles, NEW c \in Clients, HandleRead(h, c)
        PROVE  (ReadinessFresh /\ KeyBacked)'
    BY <2>4 DEF HandleRead, Handled
  <2>5. ASSUME NEW h \in Handles, LoopEnd(h) PROVE (ReadinessFresh /\ KeyBacked)'
    BY <2>5 DEF LoopEnd
  <2>6. ASSUME NEW c \in Clients, Send(c) \/ Leave(c) PROVE (ReadinessFresh /\ KeyBacked)'
    BY <2>6 DEF Send, Leave
  <2>7. ASSUME NEW c \in Clients, NEW h \in Handles, Connect(c, h)
        PROVE  (ReadinessFresh /\ KeyBacked)'
    BY <2>7 DEF Connect
  <2>8. CASE UNCHANGED vars
    BY <2>8 DEF vars
  <2>. QED
    BY <2>1, <2>2, <2>3, <2>4, <2>5, <2>6, <2>7, <2>8 DEF Next, Work
<1>. QED
  BY TypeCorrect, <1>1, <1>2, PTL DEF Spec
-----------------------------------------------------------------------------
\* Start stops the handle there was and starts the new one in the same critical
\* section, so exactly the newest handle is started (Server.java:9-14).
THEOREM OneStartedHolds == Spec => []OneStarted
<1>1. Init => OneStarted
  BY DEF Init, OneStarted, Handles
<1>2. TypeOK /\ OneStarted /\ [Next]_vars => OneStarted'
  <2> SUFFICES ASSUME TypeOK, OneStarted, [Next]_vars
               PROVE  OneStarted'
    OBVIOUS
  <2>1. ASSUME NEW p \in Ports, Start(p) PROVE OneStarted'
    BY <2>1 DEF Start, OneStarted, TypeOK, Handles
  <2>2. ASSUME UNCHANGED lifecycle PROVE OneStarted'
    BY <2>2 DEF OneStarted
  <2>3. ASSUME NEW h \in Handles, Work(h) PROVE OneStarted'
    BY <2>2, <2>3 DEF Work, Select, HandleAccept, HandleRead, LoopEnd
  <2>4. ASSUME NEW c \in Clients, Send(c) \/ Leave(c) \/ \E h \in Handles : Connect(c, h)
        PROVE  OneStarted'
    BY <2>2, <2>4 DEF Send, Leave, Connect
  <2>5. CASE UNCHANGED vars
    BY <2>2, <2>5 DEF vars
  <2>. QED
    BY <2>1, <2>3, <2>4, <2>5 DEF Next
<1>. QED
  BY TypeCorrect, <1>1, <1>2, PTL DEF Spec

\* Closing a channel is always the answer to its own client's end or failure
\* (ServerHandle.java:65-74 and 131-134).
THEOREM FailuresStayApartHolds == Spec => []FailuresStayApart
<1>1. Init => FailuresStayApart
  BY DEF Init, FailuresStayApart
<1>2. TypeOK /\ FailuresStayApart /\ [Next]_vars => FailuresStayApart'
  <2> SUFFICES ASSUME TypeOK, FailuresStayApart, [Next]_vars
               PROVE  FailuresStayApart'
    OBVIOUS
  <2> USE DEF FailuresStayApart
  <2>1. ASSUME UNCHANGED <<conn, peer>> PROVE FailuresStayApart'
    BY <2>1
  <2>2. ASSUME NEW h \in Handles, HandleAccept(h) PROVE FailuresStayApart'
    BY <2>2 DEF HandleAccept, TypeOK
  <2>3. ASSUME NEW h \in Handles, NEW c \in Clients, HandleRead(h, c)
        PROVE  FailuresStayApart'
    BY <2>3 DEF HandleRead, TypeOK
  <2>4. ASSUME NEW c \in Clients, Leave(c) PROVE FailuresStayApart'
    BY <2>4 DEF Leave, TypeOK
  <2>5. ASSUME NEW c \in Clients, NEW h \in Handles, Connect(c, h)
        PROVE  FailuresStayApart'
    BY <2>5 DEF Connect, TypeOK
  <2>6. ASSUME NEW p \in Ports, Start(p) PROVE FailuresStayApart'
    BY <2>1, <2>6 DEF Start
  <2>7. ASSUME NEW h \in Handles, Select(h) \/ LoopEnd(h) PROVE FailuresStayApart'
    BY <2>1, <2>7 DEF Select, LoopEnd
  <2>8. ASSUME NEW c \in Clients, Send(c) PROVE FailuresStayApart'
    BY <2>1, <2>8 DEF Send
  <2>9. CASE UNCHANGED vars
    BY <2>1, <2>9 DEF vars
  <2>. QED
    BY <2>2, <2>3, <2>4, <2>5, <2>6, <2>7, <2>8, <2>9 DEF Next, Work
<1>. QED
  BY TypeCorrect, <1>1, <1>2, PTL DEF Spec

-----------------------------------------------------------------------------
(***************************************************************************)
(* The client of that server, NioClient, for any number of lines typed:    *)
(* its own state, apart from the server's.                                 *)
(***************************************************************************)
CONSTANT Msgs

VARIABLES user, main, selecting, chan, interest, tcp, sent, up, down

Client == INSTANCE NioClient WITH loop <- selecting

\* What the loop and the typing thread leave each other at every point
Watched ==
  /\ Client!TypeOK /\ Client!AttemptWatched /\ Client!RepliesWatched
  /\ chan = "new" <=> selecting = "new"
  /\ selecting = "registering" => chan = "pending"
  /\ selecting = "ended" => main = "restarted"
  /\ chan = "connected" => tcp # "none"
  /\ user = "ready" /\ main = "writing" /\ chan = "connected" => interest = "read"
  /\ user = "ready" /\ chan \in {"new", "pending"} => main \notin {"writing", "threw"} /\ sent = 0
  /\ interest = "connect" /\ chan = "connected" /\ user = "ready" => sent = 0
  /\ main = "writing" => sent < Msgs

LEMMA WatchedFirst ==
  ASSUME Client!NioClientAssumption, Client!Init
  PROVE  Watched
  BY DEF Watched, Client!NioClientAssumption, Client!Init, Client!TypeOK, Client!AttemptWatched, Client!RepliesWatched

LEMMA LoopWatched ==
  ASSUME Client!NioClientAssumption, Watched, Client!Loop
  PROVE  Watched'
  <1> USE DEF Watched, Client!TypeOK, Client!AttemptWatched, Client!RepliesWatched
  <1>1. CASE Client!DoConnect
    BY <1>1 DEF Client!DoConnect
  <1>2. CASE Client!RegisterConnect
    BY <1>2 DEF Client!RegisterConnect
  <1>3. CASE Client!HandleConnect
    BY <1>3 DEF Client!HandleConnect
  <1>4. CASE Client!HandleRead
    <2>1. ASSUME NEW n \in 1..down, down' = down - n
          PROVE  down' \in 0..Msgs /\ up + down' <= sent /\ (up + down' > 0 => up + down > 0)
      BY <2>1 DEF Client!NioClientAssumption
    <2>2. down' \in 0..Msgs /\ up + down' <= sent /\ (up + down' > 0 => up + down > 0)
      BY <1>4, <2>1 DEF Client!HandleRead
    <2> QED
      BY <1>4, <2>2 DEF Client!HandleRead
  <1>5. CASE Client!LoopEnd
    BY <1>5 DEF Client!LoopEnd
  <1> QED
    BY <1>1, <1>2, <1>3, <1>4, <1>5 DEF Client!Loop

LEMMA TypingWatched ==
  ASSUME Client!NioClientAssumption, Watched,
         Client!SendRegister \/ Client!SendWrite \/ Client!Restart \/ Client!Quit
  PROVE  Watched'
  <1> USE DEF Watched, Client!TypeOK, Client!AttemptWatched, Client!RepliesWatched
  <1>1. CASE Client!SendRegister
    BY <1>1 DEF Client!SendRegister
  <1>2. CASE Client!SendWrite
    BY <1>2 DEF Client!SendWrite, Client!NioClientAssumption
  <1>3. CASE Client!Restart
    BY <1>3 DEF Client!Restart
  <1>4. CASE Client!Quit
    BY <1>4 DEF Client!Quit
  <1> QED
    BY <1>1, <1>2, <1>3, <1>4

LEMMA NetworkWatched ==
  ASSUME Client!NioClientAssumption, Watched, Client!Handshake \/ Client!Serve \/ Client!Break
  PROVE  Watched'
  <1> USE DEF Watched, Client!TypeOK, Client!AttemptWatched, Client!RepliesWatched
  <1>1. CASE Client!Handshake
    BY <1>1 DEF Client!Handshake
  <1>2. CASE Client!Serve
    <2>1. ASSUME NEW n \in 1..up, up' = up - n, down' = down + 1
          PROVE  up' \in 0..Msgs /\ down' \in 0..Msgs /\ up' + down' <= sent /\ up + down > 0
      BY <2>1 DEF Client!NioClientAssumption
    <2>2. up' \in 0..Msgs /\ down' \in 0..Msgs /\ up' + down' <= sent /\ up + down > 0
      BY <1>2, <2>1 DEF Client!Serve
    <2> QED
      BY <1>2, <2>2 DEF Client!Serve
  <1>3. CASE Client!Break
    BY <1>3 DEF Client!Break
  <1> QED
    BY <1>1, <1>2, <1>3

LEMMA WatchedStep ==
  ASSUME Client!NioClientAssumption, Watched, [Client!Next]_Client!vars
  PROVE  Watched'
  <1>1. CASE Client!Next
    BY <1>1, LoopWatched, TypingWatched, NetworkWatched DEF Client!Next
  <1>2. CASE UNCHANGED Client!vars
    BY <1>2 DEF Client!vars, Watched, Client!TypeOK, Client!AttemptWatched, Client!RepliesWatched
  <1> QED
    BY <1>1, <1>2

(* For a number of lines Msgs, the variables of the client have their      *)
(* types; an attempt to connect never loses all who could resolve it, and  *)
(* a reply that is due to a user who types on a finished connection always *)
(* finds the key set for reading (ClientHandle.java:53, 136-141).          *)
THEOREM ClientWatchedHolds ==
  ASSUME Client!NioClientAssumption
  PROVE  Client!Spec => [](Client!TypeOK /\ Client!AttemptWatched /\ Client!RepliesWatched)
  <1>1. Client!Init => Watched
    BY WatchedFirst
  <1>2. Watched /\ [Client!Next]_Client!vars => Watched'
    BY WatchedStep
  <1>3. Watched => Client!TypeOK /\ Client!AttemptWatched /\ Client!RepliesWatched
    BY DEF Watched
  <1> QED
    BY <1>1, <1>2, <1>3, PTL DEF Client!Spec
=============================================================================
