----------------------------- MODULE AioSession -----------------------------
(***************************************************************************)
(* One session of the asynchronous calculator (package aio): the process   *)
(* of Client/AsyncClientHandler/WriteHandler/ReadHandler, the connection   *)
(* to the server, and the read-evaluate-write cycle of ReadHandler_Server. *)
(*                                                                         *)
(* TCP carries bytes, not messages: a write may accept and a read may      *)
(* return any part of what is there.  A message and a reply are one unit   *)
(* or several that can travel apart.  Neither side marks where one ends.   *)
(***************************************************************************)
EXTENDS Integers, Sequences, SequencesExt

CONSTANTS Msgs,                 \* lines the user types at most
          MaxParts, MaxReplyParts

ASSUME SessionAssumption ==
  Msgs \in Nat /\ MaxParts \in Nat \ {0} /\ MaxReplyParts \in Nat \ {0}

VARIABLES
  session,    \* does the user wait for the answer before typing on (patient), which
              \* lines are empty (blank), and how many units are any other message
              \* (parts) and a reply (replyParts: the text of one may be empty)?
  main,       \* the client's main thread: "typing", "quit", "threw" (exception)
  runner,     \* its thread "Client", in AsyncClientHandler.run
  latch,      \* AsyncClientHandler.latch: "null", "one", "zero"
  chan,       \* clientChannel: "new", "connecting", "open", "closed"
  killed,     \* has the client process been stopped?
  sent,       \* the messages accepted by clientChannel.write
  wbuf,       \* what is left of the write buffer of the outstanding write
  blanks,     \* writes of no byte, complete at once, whose handler has not yet run
  rop,        \* is a read outstanding on clientChannel?
  up, down,   \* units in the connection, to the server and to the client
  srv,        \* operation outstanding on the server's channel; "gone": process ended
  sbuf,       \* what is left of the server's write buffer
  evaluated,  \* the chunks the server has evaluated
  printed,    \* the chunks ReadHandler.completed has printed
  broken,     \* has the connection been reset?
  rstDue      \* has one side written to the other that is gone?

client == <<main, runner, latch, chan, killed, sent, wbuf, blanks, rop, printed>>
server == <<srv, sbuf, evaluated>>
net == <<up, down, broken, rstDue>>
vars == <<session, client, server, net>>

Msg(k) == IF k \in session.blank THEN <<>> ELSE [j \in 1..session.parts |-> <<k, j>>]
Reply(n) == [j \in 1..session.replyParts |-> <<n, j>>]
ErrorReply == <<<<0, 1>>>>      \* never empty
Drop(s, n) == SubSeq(s, n + 1, Len(s))

Sessions == [patient: BOOLEAN, blank: SUBSET (1..Msgs), parts: 1..MaxParts, replyParts: 0..MaxReplyParts]

TypeOK ==
  /\ session \in Sessions
  /\ main \in {"typing", "quit", "threw"}
  /\ runner \in {"new", "awaiting", "done"}
  /\ latch \in {"null", "one", "zero"}
  /\ chan \in {"new", "connecting", "open", "closed"}
  /\ killed \in BOOLEAN /\ rop \in BOOLEAN /\ broken \in BOOLEAN /\ rstDue \in BOOLEAN
  /\ srv \in {"none", "read", "write", "closed", "gone"}
  /\ blanks \in 0..Msgs
  /\ \A s \in {wbuf, up} : \A i \in DOMAIN s : s[i] \in (1..Msgs) \X (1..MaxParts)
  /\ chan # "open" => ~rop /\ wbuf = <<>>
  /\ \A s \in {sbuf, down} : \A i \in DOMAIN s : s[i] \in (0..Msgs * MaxParts) \X (1..MaxReplyParts)

Init ==
  /\ session \in Sessions
  /\ main = "typing" /\ runner = "new" /\ latch = "null" /\ chan = "new"
  /\ killed = FALSE /\ sent = 0 /\ wbuf = <<>> /\ blanks = 0 /\ rop = FALSE /\ printed = <<>>
  /\ srv = "none" /\ sbuf = <<>> /\ evaluated = <<>>
  /\ up = <<>> /\ down = <<>> /\ broken = FALSE /\ rstDue = FALSE

(***************************************************************************)
(* Faulty variants, for checking the properties; no specification uses     *)
(* them.  First, the reply's handler without buffer.hasRemaining().        *)
(***************************************************************************)
ServerWriteOnce ==
  /\ srv = "write" /\ ~broken
  /\ \E n \in 1..Len(sbuf) : down' = IF killed THEN down ELSE down \o SubSeq(sbuf, 1, n)
  /\ sbuf' = <<>> /\ srv' = "read" /\ rstDue' = (rstDue \/ killed)
  /\ UNCHANGED <<session, client, evaluated, up, broken>>

\* The server's read handler answers nothing at the end of the stream
ServerEofIgnored == srv = "read" /\ ~broken /\ up = <<>> /\ killed /\ UNCHANGED vars

\* The server reads into the buffer of the previous read without clearing it
ServerReadStaleBuffer ==
  /\ srv = "read" /\ ~broken /\ up # <<>>
  /\ \E n \in 1..Len(up) :
       /\ evaluated' = Append(evaluated, (IF evaluated = <<>> THEN <<>> ELSE Last(evaluated)) \o SubSeq(up, 1, n))
       /\ up' = Drop(up, n)
  /\ sbuf' = Reply(Len(evaluated'))
  /\ srv' = "write"
  /\ UNCHANGED <<session, client, down, broken, rstDue>>

\* The server does not read again after an answer
ServerWriteNoReread ==
  /\ srv = "write" /\ ~broken
  /\ down' = (IF killed THEN down ELSE down \o sbuf)
  /\ sbuf' = <<>> /\ srv' = "none" /\ rstDue' = (rstDue \/ killed)
  /\ UNCHANGED <<session, client, evaluated, up, broken>>

-----------------------------------------------------------------------------
(* The client process *)

\* AsyncClientHandler.run: new latch, connect
Run ==
  /\ ~killed /\ runner = "new"
  /\ runner' = "awaiting" /\ latch' = "one" /\ chan' = "connecting"
  /\ UNCHANGED <<session, main, killed, sent, wbuf, blanks, rop, printed, server, net>>

\* AsyncClientHandler.completed; the server's accept handler issues its first read
Connected ==
  /\ ~killed /\ chan = "connecting"
  /\ chan' = "open" /\ srv' = "read"
  /\ UNCHANGED <<session, main, runner, latch, killed, sent, wbuf, blanks, rop, printed, sbuf, evaluated, net>>

\* AsyncClientHandler.failed
ConnectFailed ==
  /\ ~killed /\ chan = "connecting"
  /\ chan' = "closed" /\ latch' = "zero"
  /\ UNCHANGED <<session, main, runner, killed, sent, wbuf, blanks, rop, printed, server, net>>

\* latch.await returns and run() closes the channel
RunReturn ==
  /\ ~killed /\ runner = "awaiting" /\ latch = "zero"
  /\ runner' = "done" /\ chan' = "closed"
  /\ UNCHANGED <<session, main, latch, killed, sent, wbuf, blanks, rop, printed, server, net>>

\* What write() does when it cannot be initiated: on a closed channel it calls
\* WriteHandler.failed; before the connection is made or while another write is
\* outstanding it throws, which ends the main thread
SendRefused ==
  /\ ~killed /\ main = "typing" /\ sent < Msgs /\ ~session.patient
  /\ \/ chan = "closed" /\ latch' = "zero" /\ UNCHANGED main
     \/ /\ chan \in {"new", "connecting"} \/ (chan = "open" /\ wbuf # <<>>)
        /\ main' = "threw" /\ UNCHANGED latch
  /\ UNCHANGED <<session, runner, chan, killed, sent, wbuf, blanks, rop, printed, server, net>>

\* Client.sendMsg of the next line; a patient user has seen the connection made
\* and as many outputs as messages.  An empty line is a write of no byte.
Send ==
  /\ ~killed /\ main = "typing" /\ sent < Msgs
  /\ session.patient => Len(printed) = sent
  /\ chan = "open" /\ wbuf = <<>>
  /\ sent' = sent + 1 /\ wbuf' = Msg(sent + 1)
  /\ blanks' = IF sent + 1 \in session.blank THEN blanks + 1 ELSE blanks
  /\ UNCHANGED <<session, main, runner, latch, chan, killed, rop, printed, server, net>>

\* The user types q: main returns, the thread "Client" stays at its latch
Quit ==
  /\ ~killed /\ main = "typing" /\ main' = "quit"
  /\ UNCHANGED <<session, runner, latch, chan, killed, sent, wbuf, blanks, rop, printed, server, net>>

\* WriteHandler.completed: write the rest, or read; a read while one is
\* outstanding throws ReadPendingException in the handler and changes nothing
WriteCompleted ==
  /\ ~killed /\ chan = "open" /\ ~broken /\ wbuf # <<>>
  /\ \E n \in 1..Len(wbuf) :
       /\ up' = up \o SubSeq(wbuf, 1, n)
       /\ wbuf' = Drop(wbuf, n)
  /\ rop' = (rop \/ wbuf' = <<>>)
  /\ rstDue' = (rstDue \/ srv = "gone")
  /\ UNCHANGED <<session, main, runner, latch, chan, killed, sent, blanks, printed, server, down, broken>>

\* WriteHandler.completed with result 0, whatever has become of the connection: it
\* reads; on a channel closed meanwhile the read fails, which changes nothing more
BlankWritten ==
  /\ ~killed /\ blanks > 0
  /\ blanks' = blanks - 1 /\ rop' = (rop \/ chan = "open")
  /\ UNCHANGED <<session, main, runner, latch, chan, killed, sent, wbuf, printed, server, net>>

\* ReadHandler.completed: print, and read no more.  It does not look at the result:
\* at the end of the stream (-1) it prints an empty output and closes nothing.
ReadCompleted ==
  /\ ~killed /\ chan = "open" /\ ~broken /\ rop
  /\ \E n \in 0..Len(down) :
       /\ n = 0 => down = <<>> /\ srv = "gone"
       /\ printed' = Append(printed, SubSeq(down, 1, n))
       /\ down' = Drop(down, n)
  /\ rop' = FALSE
  /\ UNCHANGED <<session, main, runner, latch, chan, killed, sent, wbuf, blanks, server, up, broken, rstDue>>

\* WriteHandler.failed or ReadHandler.failed; closing fails the other operation too
OpFailed ==
  /\ ~killed /\ chan = "open" /\ broken /\ (rop \/ wbuf # <<>>)
  /\ chan' = "closed" /\ latch' = "zero" /\ rop' = FALSE /\ wbuf' = <<>>
  /\ UNCHANGED <<session, main, runner, killed, sent, blanks, printed, server, net>>

\* The process is stopped from outside; nothing else ends it after the user quits
Kill ==
  /\ ~killed
  /\ killed' = TRUE
  /\ chan' = "closed" /\ rop' = FALSE /\ wbuf' = <<>> /\ down' = <<>>
  /\ UNCHANGED <<session, main, runner, latch, sent, blanks, printed, server, up, broken, rstDue>>

-----------------------------------------------------------------------------
(* The server's end of the connection *)

\* ReadHandler_Server.completed evaluates whatever was read and calls doWrite
ServerRead ==
  /\ srv = "read" /\ ~broken /\ up # <<>>
  /\ \E n \in 1..Len(up) :
       /\ evaluated' = Append(evaluated, SubSeq(up, 1, n))
       /\ up' = Drop(up, n)
  /\ sbuf' = Reply(Len(evaluated'))
  /\ srv' = "write"
  /\ UNCHANGED <<session, client, down, broken, rstDue>>

\* The same handler with result -1, which it does not look at: it evaluates the
\* empty string and writes an error message to a client that is gone
ServerEof ==
  /\ srv = "read" /\ ~broken /\ up = <<>> /\ killed
  /\ sbuf' = ErrorReply /\ srv' = "write"
  /\ UNCHANGED <<session, client, evaluated, net>>

\* The write handler of doWrite: write the rest, or read again; an empty text is
\* written at once
ServerWrite ==
  /\ srv = "write" /\ ~broken
  /\ \E n \in 0..Len(sbuf) :
       /\ n = 0 <=> sbuf = <<>>
       /\ down' = IF killed THEN down ELSE down \o SubSeq(sbuf, 1, n)
       /\ sbuf' = Drop(sbuf, n)
  /\ srv' = IF sbuf' = <<>> THEN "read" ELSE "write"
  /\ rstDue' = (rstDue \/ (killed /\ sbuf # <<>>))
  /\ UNCHANGED <<session, client, evaluated, up, broken>>

\* failed() of either handler of the server
ServerFailed ==
  /\ srv \in {"read", "write"} /\ broken
  /\ srv' = "closed" /\ sbuf' = <<>>
  /\ UNCHANGED <<session, client, evaluated, net>>

\* The server's process ends; the system ends the stream behind what was written, or
\* resets the connection if the server has left something unread
ServerEnds ==
  /\ srv \in {"read", "write"}
  /\ srv' = "gone" /\ broken' = (broken \/ up # <<>>)
  /\ UNCHANGED <<session, client, sbuf, evaluated, up, down, rstDue>>

\* The connection is reset: by the network, or in answer to data for a closed socket
Reset == ~broken /\ rstDue /\ broken' = TRUE /\ UNCHANGED <<session, client, server, up, down, rstDue>>

Fault ==
  /\ srv # "none" /\ ~broken
  /\ broken' = TRUE
  /\ UNCHANGED <<session, client, server, up, down, rstDue>>

ClientIO == Run \/ Connected \/ WriteCompleted \/ BlankWritten \/ ReadCompleted \/ OpFailed
ServerIO == ServerRead \/ ServerEof \/ ServerWrite \/ ServerFailed

Next ==
  \/ ClientIO \/ ServerIO \/ ConnectFailed \/ RunReturn
  \/ Send \/ SendRefused \/ Quit \/ Kill \/ ServerEnds \/ Reset \/ Fault

\* Outstanding operations complete, threads run, a reset that is due arrives;
\* the user need not type, nor quit, nor anybody stop a process
Fairness ==
  /\ WF_vars(ClientIO) /\ WF_vars(ServerIO) /\ WF_vars(RunReturn) /\ WF_vars(Reset)

Spec == Init /\ [][Next]_vars /\ Fairness

-----------------------------------------------------------------------------
\* A patient user, and messages and replies that travel whole
OneByOne == session.patient /\ session.parts = 1 /\ session.replyParts = 1

AllSent == FlattenSeq([k \in 1..sent |-> Msg(k)])
AllReplies == FlattenSeq([n \in DOMAIN evaluated |-> Reply(n)])

\* However writes and reads split the streams, no unit is lost, repeated or moved:
\* what the server evaluated, what is in the connection and what is left in the
\* write buffer make up what was sent (WriteHandler.java:18,
\* ReadHandler_Server.java:19-35); and what the client printed, what is in the
\* connection and what the server has still to write make up the replies
\* (ReadHandler_Server.java:49-58, ReadHandler.java:16-27).
StreamsConserved ==
  chan = "open" =>
    /\ FlattenSeq(evaluated) \o up \o wbuf = AllSent
    /\ ~broken => FlattenSeq(printed) \o down \o sbuf = AllReplies

\* For a patient user, and messages that travel whole, the k-th output is the
\* answer to the k-th message and to nothing else; except that an empty output
\* answers nothing: it is the end of the stream, and the server is gone
\* (ReadHandler.java:16-27, which prints it like an answer).
AnswerMatches ==
  OneByOne =>
    \A k \in DOMAIN printed :
      IF printed[k] = <<>> THEN srv = "gone"
                           ELSE evaluated[k] = Msg(k) /\ printed[k] = Reply(k)

Outstanding == rop \/ wbuf # <<>> \/ blanks > 0

\* No operation stays outstanding on a connection that has ended, but only a reset
\* lets go of the client's thread: it closes the channel and releases the latch
\* (WriteHandler.java:28-35, ReadHandler.java:29-36).  The end of the stream ends the
\* client's operations, and releases nobody (ReadHandler.java:16-27).  The server
\* takes the end of the stream for a request, and its answer to a killed client is
\* what closes its channel (ReadHandler_Server.java:18-76).
OperationsEnd ==
  /\ (broken /\ ~killed /\ Outstanding) ~> (killed \/ (runner = "done" /\ chan = "closed"))
  /\ (srv = "gone" /\ Outstanding) ~> (killed \/ ~Outstanding)
  /\ (killed /\ srv \in {"read", "write"}) ~> srv \in {"closed", "gone"}

\* A patient user gets an output that is an answer for every message, unless the
\* connection breaks or a process ends.  Not so for an empty line, of which the
\* server sees nothing, nor where the text of the answer is empty: the client reads,
\* and waits for ever (Client.java:18-22, WriteHandler.java:16-26).
EveryMessageAnswered ==
  \A k \in 1..Msgs :
    session.patient /\ session.replyParts > 0 /\ sent = k /\ k \notin session.blank
      ~> (Len(printed) >= k /\ printed[k] # <<>>) \/ broken \/ killed \/ srv = "gone"

-----------------------------------------------------------------------------
(* A session as a request/reply service: the user who waits has asked what *)
(* was sent and is answered what was printed, but for an empty output.     *)
Asked(k) ==
  CASE k <= Len(printed) /\ printed[k] # <<>> -> "answered"
    [] k <= Len(printed) /\ printed[k] = <<>> -> "failed"
    [] k > Len(printed) /\ k <= sent -> "waiting"
    [] OTHER -> "idle"
Served(k) == IF k <= Len(evaluated) THEN "yes" ELSE "no"

Abstract == INSTANCE RequestReply WITH
  Requests <- 1..Msgs,
  asked <- [k \in 1..Msgs |-> Asked(k)],
  served <- [k \in 1..Msgs |-> Served(k)]

(* For a patient user, and messages that travel whole, the asynchronous    *)
(* calculator is the service that the blocking one is: each message is     *)
(* served at most once, after it was asked, and answered after it was      *)
(* served; a user who is shown the end of the stream cannot tell           *)
(* (ReadHandler_Server.java:19-35, ReadHandler.java:16-27).                *)
PatientService ==
  /\ Abstract!Init
  /\ [][OneByOne => Abstract!Next]_<<[k \in 1..Msgs |-> Asked(k)], [k \in 1..Msgs |-> Served(k)]>>
=============================================================================
