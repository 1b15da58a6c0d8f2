------------------------------ MODULE NioClient ------------------------------
(***************************************************************************)
(* The selector-driven calculator client (package nio): the main thread    *)
(* calls Client.sendMsg for each line typed, while the thread started by   *)
(* Client.start connects and loops over the selector.  Both set the        *)
(* interest of the one key, each overwriting what the other has set.       *)
(* The server answers what one read of it returns with one reply.          *)
(***************************************************************************)
EXTENDS Integers

CONSTANT Msgs   \* bound: lines typed at most

ASSUME NioClientAssumption == Msgs \in Nat

VARIABLES
  user,      \* types "early" too, or only when the connection is "ready"
  main,      \* "typing", "writing" (in sendMsg, after register), "quit", "threw", or
             \* "restarted": it has called Client.start again and uses another handle
  loop,      \* the other thread: "new", "registering", "select", "ended", "exited" (the JVM)
  chan,      \* socketChannel: "new", "pending", "connected", "closed"
  interest,  \* of its key: "none" (no key), "connect", "read"
  tcp,       \* the connection attempt: "none", "up", "refused", "reset"
  sent,      \* messages written
  up, down   \* messages and replies in the connection, not read yet

vars == <<user, main, loop, chan, interest, tcp, sent, up, down>>

TypeOK ==
  /\ user \in {"early", "ready"}
  /\ main \in {"typing", "writing", "quit", "threw", "restarted"}
  /\ loop \in {"new", "registering", "select", "ended", "exited"}
  /\ chan \in {"new", "pending", "connected", "closed"}
  /\ interest \in {"none", "connect", "read"}
  /\ tcp \in {"none", "up", "refused", "reset"}
  /\ sent \in 0..Msgs /\ up \in 0..Msgs /\ down \in 0..Msgs
  /\ up + down <= sent

Init ==
  /\ user \in {"early", "ready"}
  /\ main = "typing" /\ loop = "new" /\ chan = "new" /\ interest = "none"
  /\ tcp = "none" /\ sent = 0 /\ up = 0 /\ down = 0

-----------------------------------------------------------------------------
(* Faulty variants, for checking the properties; no specification uses them. *)

\* doConnect registers for reading instead of connecting
RegisterRead ==
  /\ loop = "registering"
  /\ loop' = "select" /\ interest' = "read"
  /\ UNCHANGED <<user, main, chan, tcp, sent, up, down>>

\* sendMsg does not register
SendNoRegister ==
  /\ main = "typing" /\ loop # "exited" /\ sent < Msgs
  /\ user = "early" \/ chan \in {"connected", "closed"}
  /\ main' = "writing"
  /\ UNCHANGED <<user, loop, chan, interest, tcp, sent, up, down>>

-----------------------------------------------------------------------------
(* The thread of ClientHandle.run *)

\* doConnect: connect answers at once, or is pending; an exception exits the JVM
DoConnect ==
  /\ loop = "new"
  /\ \/ loop' = "select" /\ chan' = "connected" /\ tcp' = "up"
     \/ loop' = "registering" /\ chan' = "pending" /\ UNCHANGED tcp
     \/ loop' = "exited" /\ chan' = "closed" /\ tcp' = "refused"
  /\ UNCHANGED <<user, main, interest, sent, up, down>>

\* doConnect: register(selector, OP_CONNECT)
RegisterConnect ==
  /\ loop = "registering"
  /\ loop' = "select" /\ interest' = "connect"
  /\ UNCHANGED <<user, main, chan, tcp, sent, up, down>>

\* handleInput, isConnectable: finishConnect succeeds, or throws, and the loop
\* cancels the key and closes the channel
HandleConnect ==
  /\ loop = "select" /\ interest = "connect" /\ chan = "pending" /\ tcp # "none"
  /\ IF tcp = "up" THEN chan' = "connected" /\ UNCHANGED interest
                   ELSE chan' = "closed" /\ interest' = "none"
  /\ UNCHANGED <<user, main, loop, tcp, sent, up, down>>

\* handleInput, isReadable: print what is there; an exception, of a broken
\* connection or of one that was refused unwatched, closes the channel
HandleRead ==
  /\ loop = "select" /\ interest = "read"
  /\ \/ /\ chan = "connected" /\ tcp = "up" /\ down > 0
        /\ \E n \in 1..down : down' = down - n
        /\ UNCHANGED <<chan, interest>>
     \/ /\ chan \in {"pending", "connected"} /\ tcp \in {"refused", "reset"}
        /\ chan' = "closed" /\ interest' = "none"
        /\ UNCHANGED down
  /\ UNCHANGED <<user, main, loop, tcp, sent, up>>

\* The loop finds started = false; closing the selector cancels the key and
\* leaves the channel open
LoopEnd ==
  /\ loop = "select" /\ main = "restarted"
  /\ loop' = "ended" /\ interest' = "none"
  /\ UNCHANGED <<user, main, chan, tcp, sent, up, down>>

-----------------------------------------------------------------------------
(* The main thread: Client.sendMsg *)

\* register(selector, OP_READ), which a closed channel refuses with an exception
SendRegister ==
  /\ main = "typing" /\ loop # "exited" /\ sent < Msgs
  /\ user = "early" \/ chan \in {"connected", "closed"}
  /\ IF chan = "closed"
     THEN main' = "threw" /\ UNCHANGED interest
     ELSE main' = "writing" /\ interest' = "read"
  /\ UNCHANGED <<user, loop, chan, tcp, sent, up, down>>

\* doWrite, whose exceptions nobody catches
SendWrite ==
  /\ main = "writing" /\ loop # "exited"
  /\ IF chan = "connected" /\ tcp = "up"
     THEN main' = "typing" /\ sent' = sent + 1 /\ up' = up + 1
     ELSE main' = "threw" /\ UNCHANGED <<sent, up>>
  /\ UNCHANGED <<user, loop, chan, interest, tcp, down>>

\* Client.start once more: stop(), which is all that happens to this handle
Restart ==
  /\ main = "typing" /\ loop # "exited"
  /\ main' = "restarted"
  /\ UNCHANGED <<user, loop, chan, interest, tcp, sent, up, down>>

Quit ==
  /\ main = "typing" /\ loop # "exited"
  /\ main' = "quit"
  /\ UNCHANGED <<user, loop, chan, interest, tcp, sent, up, down>>

-----------------------------------------------------------------------------
(* The network and the server *)

Handshake ==
  /\ chan = "pending" /\ tcp = "none"
  /\ tcp' \in {"up", "refused"}
  /\ UNCHANGED <<user, main, loop, chan, interest, sent, up, down>>

\* NioServer's HandleRead: one evaluation and one reply for all that was read
Serve ==
  /\ up > 0 /\ tcp = "up"
  /\ \E n \in 1..up : up' = up - n
  /\ down' = down + 1
  /\ UNCHANGED <<user, main, loop, chan, interest, tcp, sent>>

Break ==
  /\ chan = "connected" /\ tcp = "up"
  /\ tcp' = "reset"
  /\ UNCHANGED <<user, main, loop, chan, interest, sent, up, down>>

Loop == DoConnect \/ RegisterConnect \/ HandleConnect \/ HandleRead \/ LoopEnd

Next ==
  Loop \/ SendRegister \/ SendWrite \/ Restart \/ Quit \/ Handshake \/ Serve \/ Break

\* Both threads run, the network decides every attempt, the server answers
Fairness ==
  WF_vars(Loop) /\ WF_vars(SendWrite) /\ WF_vars(Handshake) /\ WF_vars(Serve)

Spec == Init /\ [][Next]_vars /\ Fairness

-----------------------------------------------------------------------------
\* A connection attempt is never abandoned in silence, though sendMsg may
\* overwrite the OP_CONNECT that is waited for: every attempt is finished, or
\* closed, or the user has seen an exception or started another handle
\* (ClientHandle.java:136, 139, 140).
ConnectResolved ==
  chan = "pending" ~> chan \in {"connected", "closed"} \/ main \in {"threw", "restarted"}

\* A user who types only once the connection is finished gets every reply to
\* what was written read, unless the connection breaks or is given up, though it is main that
\* sets the interest and the loop that selects (ClientHandle.java:138-141, 53).
RepliesRead ==
  user = "ready" /\ up + down > 0 ~> up + down = 0 \/ tcp = "reset" \/ main = "restarted"

(* Why ConnectResolved can hold: an attempt under way is always somebody's: *)
(* of the loop, about to register or waiting for OP_CONNECT, or of the user *)
(* whose OP_READ has taken its place and whose write must fail; only a new  *)
(* start of the client gives it up (ClientHandle.java:136, 139, 140).       *)
AttemptWatched ==
  chan = "pending" =>
    \/ loop = "registering" \/ interest = "connect"
    \/ main \in {"writing", "threw"}
    \/ main = "restarted" /\ loop = "ended"

(* Why RepliesRead can hold: while a reply of a user who types on a finished *)
(* connection is due, the key waits for reading and the loop selects, unless *)
(* the connection broke or the handle was stopped                            *)
(* (ClientHandle.java:138-141, 53, 136).                                     *)
RepliesWatched ==
  user = "ready" /\ up + down > 0 /\ tcp = "up" /\ main # "restarted" =>
    chan = "connected" /\ interest = "read" /\ loop = "select"
=============================================================================
