-------------------------------- MODULE Rpc --------------------------------
(***************************************************************************)
(* RpcFramework: one connection and one server thread per call.            *)
(*                                                                         *)
(* Each side wraps the socket in an ObjectOutputStream, whose constructor  *)
(* sends a header, and in an ObjectInputStream, whose constructor blocks   *)
(* until the peer's header has come.  The order in which the two sides     *)
(* build the two streams is what keeps them from waiting for each other.   *)
(***************************************************************************)
EXTENDS Naturals, Sequences

CONSTANT Calls   \* the invocations of the proxies that refer() hands out

(* What a call asks for: a method that returns a serializable value, one   *)
(* that throws (or returns a Throwable, which the proxy cannot tell from   *)
(* it), one whose result cannot be serialized, one the service does not    *)
(* have, one whose arguments cannot be serialized.                         *)
Kinds == {"value", "throws", "opaque", "nomethod", "unsendable"}

VARIABLES
  call,     \* per call: what it asks for, where the two threads are, the two
            \* streams, and how often the service method was entered
  export    \* "running" or "dead": the server process

vars == <<call, export>>

Ended == {"returned", "threw", "failed"}   \* "threw": l.101, "failed": an IOException
Stages == {"idle", "connected", "opened", "sent", "reading"} \cup Ended
ThreadStages == {"none", "queued", "started", "opened", "read", "invoking", "replying", "closed"}

TypeOK ==
  /\ call \in [Calls -> [kind: Kinds, caller: Stages, thread: ThreadStages,
                         up: Seq({"header", "request", "abort"}),
                         down: Seq({"header", "value", "throwable", "abort"}),
                         runs: Nat]]
  /\ export \in {"running", "dead"}
  /\ \A r \in Calls : Len(call[r].up) <= 2 /\ Len(call[r].down) <= 3

Init ==
  /\ \E kind \in [Calls -> Kinds] :
       call = [r \in Calls |-> [kind |-> kind[r], caller |-> "idle", thread |-> "none",
                                up |-> <<>>, down |-> <<>>, runs |-> 0]]
  /\ export = "running"

Gone(r) == call[r].caller \in Ended        \* the consumer has closed its socket
Closed(r) == call[r].thread = "closed"     \* the server has closed its socket

Fail(r) == call' = [call EXCEPT ![r].caller = "failed"]
Close(r) == call' = [call EXCEPT ![r].thread = "closed"]

-----------------------------------------------------------------------------
(* The consumer: InvocationHandler.invoke *)

Connect(r) ==
  /\ call[r].caller = "idle"
  /\ IF export = "running"
     THEN call' = [call EXCEPT ![r].caller = "connected", ![r].thread = "queued"]
     ELSE Fail(r)

\* Faulty variant: the input stream first, as on the server's side
OpenOutputAfterInput(r) ==
  /\ call[r].caller = "connected" /\ call[r].down # <<>>
  /\ call' = [call EXCEPT ![r].caller = "opened", ![r].up = Append(@, "header")]

OpenOutput(r) ==
  /\ call[r].caller = "connected"
  /\ \/ call' = [call EXCEPT ![r].caller = "opened", ![r].up = Append(@, "header")]
     \/ Closed(r) /\ Fail(r)

\* writeObject of an unserializable argument leaves an abort mark in the stream and throws
SendRequest(r) ==
  /\ call[r].caller = "opened"
  /\ \/ IF call[r].kind = "unsendable"
        THEN call' = [call EXCEPT ![r].caller = "failed", ![r].up = Append(@, "abort")]
        ELSE call' = [call EXCEPT ![r].caller = "sent", ![r].up = Append(@, "request")]
     \/ Closed(r) /\ Fail(r)

OpenInput(r) ==
  /\ call[r].caller = "sent"
  /\ IF call[r].down # <<>>
     THEN call' = [call EXCEPT ![r].caller = "reading", ![r].down = Tail(@)]
     ELSE Closed(r) /\ Fail(r)

Result(item) ==
  CASE item = "value" -> "returned" [] item = "throwable" -> "threw" [] OTHER -> "failed"

ReadResult(r) ==
  /\ call[r].caller = "reading"
  /\ IF call[r].down # <<>>
     THEN call' = [call EXCEPT ![r].caller = Result(Head(call[r].down)), ![r].down = Tail(@)]
     ELSE Closed(r) /\ Fail(r)

-----------------------------------------------------------------------------
(* The server: export's loop, and run() of the connection's thread *)

Accept(r) ==
  /\ call[r].thread = "queued"
  /\ call' = [call EXCEPT ![r].thread = "started"]

ServerOpenInput(r) ==
  /\ call[r].thread = "started"
  /\ IF call[r].up # <<>>
     THEN call' = [call EXCEPT ![r].thread = "opened", ![r].up = Tail(@)]
     ELSE Gone(r) /\ Close(r)

ServerRead(r) ==
  /\ call[r].thread = "opened"
  /\ IF call[r].up # <<>>
     THEN call' = [call EXCEPT ![r].up = Tail(@),
                     ![r].thread = IF Head(call[r].up) = "request" THEN "read" ELSE "closed"]
     ELSE Gone(r) /\ Close(r)

ServerOpenOutput(r) ==
  /\ call[r].thread = "read"
  /\ \/ call' = [call EXCEPT ![r].thread = "invoking", ![r].down = Append(@, "header")]
     \/ Gone(r) /\ Close(r)

\* Faulty variant: answered before it is served
InvokeNothing(r) ==
  /\ call[r].thread = "invoking"
  /\ call' = [call EXCEPT ![r].thread = "replying"]

\* An unknown method is found out by getMethod, before the service is entered
Invoke(r) ==
  /\ call[r].thread = "invoking"
  /\ call' = [call EXCEPT ![r].thread = "replying",
                          ![r].runs = IF call[r].kind = "nomethod" THEN @ ELSE @ + 1]

\* Faulty variant: the mark withdrawn before the exception is written
RepliesClean(k) == IF k = "value" THEN <<"value">> ELSE <<"throwable">>

(* A result that cannot be serialized makes writeObject leave an abort     *)
(* mark and throw; the catch clause then writes the exception behind it.   *)
Replies(k) == CASE k = "value" -> <<"value">>
                [] k = "opaque" -> <<"abort", "throwable">>
                [] OTHER -> <<"throwable">>

Reply(r) ==
  /\ call[r].thread = "replying"
  /\ \/ call' = [call EXCEPT ![r].thread = "closed", ![r].down = @ \o Replies(call[r].kind)]
     \/ Gone(r) /\ Close(r)

-----------------------------------------------------------------------------
(* Processes die at any moment; the kernel closes their sockets, and what  *)
(* the peer has not read yet may be lost with a reset.                     *)

ConsumerDies(r) == call[r].caller \notin Ended \cup {"idle"} /\ Fail(r)

ServerDies ==
  /\ export' = "dead"
  /\ \E lost \in SUBSET {r \in Calls : call[r].thread \notin {"none", "closed"}} :
       call' = [r \in Calls |->
                  [call[r] EXCEPT !.thread = IF @ = "none" THEN @ ELSE "closed",
                                  !.down = IF r \in lost THEN <<>> ELSE @]]

CallerStep(r) ==
  /\ Connect(r) \/ OpenOutput(r) \/ SendRequest(r) \/ OpenInput(r) \/ ReadResult(r)
  /\ UNCHANGED export

ThreadStep(r) ==
  /\ \/ Accept(r) \/ ServerOpenInput(r) \/ ServerRead(r)
     \/ ServerOpenOutput(r) \/ Invoke(r) \/ Reply(r)
  /\ UNCHANGED export

Next ==
  \/ \E r \in Calls : CallerStep(r) \/ ThreadStep(r) \/ (ConsumerDies(r) /\ UNCHANGED export)
  \/ export = "running" /\ ServerDies

\* Threads are scheduled, the service returns, and TCP delivers or resets
Fairness == \A r \in Calls : WF_vars(CallerStep(r)) /\ WF_vars(ThreadStep(r))

Spec == Init /\ [][Next]_vars /\ Fairness

-----------------------------------------------------------------------------
(* Lines 41-45 and 99-103, with the failure of writeObject in between: a   *)
(* proxy that returns or throws the service's outcome reports what the     *)
(* method really did; an outcome that was cut off in the middle surfaces   *)
(* as an IOException, never as the service's exception.                    *)
OutcomeHonest ==
  \A r \in Calls :
    /\ call[r].caller = "returned" => call[r].kind = "value" /\ call[r].runs = 1
    /\ call[r].caller = "threw" =>
         \/ call[r].kind = "throws" /\ call[r].runs = 1
         \/ call[r].kind = "nomethod" /\ call[r].runs = 0

(* Lines 29-59 and 34, 39, 92, 97: no caller waits for ever, in particular *)
(* not for a header the server sends only after it got one; and every      *)
(* thread the loop starts ends and closes its socket.                      *)
BothSidesEnd ==
  \A r \in Calls :
    /\ call[r].caller = "connected" ~> call[r].caller \in Ended
    /\ call[r].thread = "queued" ~> call[r].thread = "closed"

(* The calls are request/reply interactions in the sense of RequestReply:  *)
(* answered only after they were served, and a failed one may or may not   *)
(* have been served.                                                       *)
Asked(r) ==
  CASE call[r].caller = "idle" -> "idle"
    [] call[r].caller = "returned" -> "answered"
    [] call[r].caller = "threw" -> IF call[r].kind = "nomethod" THEN "failed" ELSE "answered"
    [] call[r].caller = "failed" -> "failed"
    [] OTHER -> "waiting"
Abstract == INSTANCE RequestReply WITH
  Requests <- Calls,
  asked <- [r \in Calls |-> Asked(r)],
  served <- [r \in Calls |-> IF call[r].runs = 0 THEN "no" ELSE "yes"]
RequestReplySpec == Abstract!Spec
=============================================================================
