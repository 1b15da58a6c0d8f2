----------------------------- MODULE RpcProofs -----------------------------
(***************************************************************************)
(* Theorems about Rpc, for any set of calls: a proxy reports only what the *)
(* method did, and the framework implements the request-reply service.     *)
(***************************************************************************)
EXTENDS Rpc, SequenceTheorems, TLAPS

-----------------------------------------------------------------------------
(***************************************************************************)
(* Few streams ever occur, so they and the operations on them get names:   *)
(* the provers then need to know only the facts stated here, not what a    *)
(* sequence is.                                                            *)
(***************************************************************************)
Cat(s, t) == s \o t
App(s, e) == Append(s, e)
First(s) == Head(s)
Rest(s) == Tail(s)

Nil == <<>>
H == <<"header">>
R == <<"request">>
A == <<"abort">>
HR == <<"header", "request">>
HA == <<"header", "abort">>
V == <<"value">>
T == <<"throwable">>
AT == <<"abort", "throwable">>
HV == <<"header", "value">>
HT == <<"header", "throwable">>
HAT == <<"header", "abort", "throwable">>

LEMMA TwoEqual ==
  ASSUME NEW S, NEW s \in Seq(S), NEW t \in Seq(S),
         Len(s) = 2, Len(t) = 2, s[1] = t[1], s[2] = t[2]
  PROVE  s = t
BY SeqEqual

LEMMA ThreeEqual ==
  ASSUME NEW S, NEW s \in Seq(S), NEW t \in Seq(S),
         Len(s) = 3, Len(t) = 3, s[1] = t[1], s[2] = t[2], s[3] = t[3]
  PROVE  s = t
BY SeqEqual

LEMMA CatProperties ==
  ASSUME NEW S, NEW s \in Seq(S), NEW t \in Seq(S)
  PROVE  /\ Cat(s, t) \in Seq(S) /\ Len(Cat(s, t)) = Len(s) + Len(t)
         /\ \A i \in 1..Len(s) + Len(t) :
              Cat(s, t)[i] = IF i <= Len(s) THEN s[i] ELSE t[i - Len(s)]
BY ConcatProperties DEF Cat

LEMMA ConcatPair == ASSUME NEW a, NEW b PROVE <<a>> \o <<b>> = <<a, b>>
<1> DEFINE S == {a, b}
           s == <<a>>
           t == <<b>>
           u == <<a, b>>
<1>1. /\ s \in Seq(S) /\ Len(s) = 1 /\ t \in Seq(S) /\ Len(t) = 1
      /\ u \in Seq(S) /\ Len(u) = 2
  OBVIOUS
<1>2. u[1] = s[1] /\ u[2] = t[1]
  OBVIOUS
<1> HIDE DEF S, s, t, u
<1> DEFINE v == Cat(s, t)
<1>3. /\ v \in Seq(S) /\ Len(v) = Len(s) + Len(t)
      /\ \A i \in 1..Len(s) + Len(t) : v[i] = IF i <= Len(s) THEN s[i] ELSE t[i - Len(s)]
  BY <1>1, CatProperties
<1> HIDE DEF v
<1>4. v \in Seq(S) /\ Len(v) = 2 /\ v[1] = s[1] /\ v[2] = t[1]
  BY <1>1, <1>3
<1>5. v = u
  BY <1>1, <1>2, <1>4, TwoEqual
<1>. QED
  BY <1>5 DEF s, t, u, v, Cat

LEMMA ConcatTriple == ASSUME NEW a, NEW b, NEW c PROVE <<a>> \o <<b, c>> = <<a, b, c>>
<1> DEFINE S == {a, b, c}
           s == <<a>>
           t == <<b, c>>
           u == <<a, b, c>>
<1>1. /\ s \in Seq(S) /\ Len(s) = 1 /\ t \in Seq(S) /\ Len(t) = 2
      /\ u \in Seq(S) /\ Len(u) = 3
  OBVIOUS
<1>2. u[1] = s[1] /\ u[2] = t[1] /\ u[3] = t[2]
  OBVIOUS
<1> HIDE DEF S, s, t, u
<1> DEFINE v == Cat(s, t)
<1>3. /\ v \in Seq(S) /\ Len(v) = Len(s) + Len(t)
      /\ \A i \in 1..Len(s) + Len(t) : v[i] = IF i <= Len(s) THEN s[i] ELSE t[i - Len(s)]
  BY <1>1, CatProperties
<1> HIDE DEF v
<1>4. v \in Seq(S) /\ Len(v) = 3 /\ v[1] = s[1] /\ v[2] = t[1] /\ v[3] = t[2]
  BY <1>1, <1>3
<1>5. v = u
  BY <1>1, <1>2, <1>4, ThreeEqual
<1>. QED
  BY <1>5 DEF s, t, u, v, Cat

LEMMA AppendOne ==
  ASSUME NEW a, NEW b
  PROVE  Append(<<>>, b) = <<b>> /\ Append(<<a>>, b) = <<a, b>>
<1>1. <<>> \in Seq({a, b}) /\ <<a>> \in Seq({a, b}) /\ <<b>> \in Seq({a, b}) /\ b \in {a, b}
  OBVIOUS
<1>2. Append(<<>>, b) = <<>> \o <<b>> /\ Append(<<a>>, b) = <<a>> \o <<b>>
  BY <1>1, AppendIsConcat
<1>3. <<>> \o <<b>> = <<b>>
  BY <1>1, ConcatEmptySeq
<1>. QED
  BY <1>2, <1>3, ConcatPair

LEMMA StreamsDiffer ==
  /\ H # Nil /\ R # Nil /\ A # Nil /\ HR # Nil /\ HA # Nil
  /\ V # Nil /\ T # Nil /\ AT # Nil /\ HV # Nil /\ HT # Nil /\ HAT # Nil
  /\ H # R /\ H # A /\ H # HR /\ H # HA /\ R # A /\ R # HR /\ R # HA /\ A # HR /\ A # HA /\ HR # HA
  /\ H # V /\ H # T /\ H # AT /\ H # HV /\ H # HT /\ H # HAT
<1>1. /\ H # Nil /\ R # Nil /\ A # Nil /\ HR # Nil /\ HA # Nil
      /\ V # Nil /\ T # Nil /\ AT # Nil /\ HV # Nil /\ HT # Nil /\ HAT # Nil
  BY DEF Nil, H, R, A, HR, HA, V, T, AT, HV, HT, HAT
<1>2. H # R /\ H # A /\ H # HR /\ H # HA /\ R # A /\ R # HR /\ R # HA /\ A # HR /\ A # HA /\ HR # HA
  BY DEF H, R, A, HR, HA
<1>3. H # V /\ H # T /\ H # AT /\ H # HV /\ H # HT /\ H # HAT
  BY DEF H, V, T, AT, HV, HT, HAT
<1>. QED
  BY <1>1, <1>2, <1>3

LEMMA StreamsRead ==
  /\ First(H) = "header" /\ First(HR) = "header" /\ First(HA) = "header"
  /\ First(R) = "request" /\ First(A) = "abort"
  /\ First(V) = "value" /\ First(T) = "throwable" /\ First(AT) = "abort"
  /\ Rest(H) = Nil /\ Rest(R) = Nil /\ Rest(A) = Nil /\ Rest(HR) = R /\ Rest(HA) = A
  /\ Rest(V) = Nil /\ Rest(T) = Nil /\ Rest(AT) = T
  /\ Rest(HV) = V /\ Rest(HT) = T /\ Rest(HAT) = AT
<1>1. /\ First(H) = "header" /\ First(HR) = "header" /\ First(HA) = "header"
      /\ First(R) = "request" /\ First(A) = "abort"
      /\ First(V) = "value" /\ First(T) = "throwable" /\ First(AT) = "abort"
  BY DEF First, H, HR, HA, R, A, V, T, AT
<1>2. /\ Rest(H) = Nil /\ Rest(R) = Nil /\ Rest(A) = Nil /\ Rest(HR) = R /\ Rest(HA) = A
      /\ Rest(V) = Nil /\ Rest(T) = Nil
  BY DEF Rest, H, HR, HA, R, A, V, T, Nil
<1>3. Rest(AT) = T /\ Rest(HV) = V /\ Rest(HT) = T /\ Rest(HAT) = AT
  BY DEF Rest, V, T, AT, HV, HT, HAT
<1>. QED
  BY <1>1, <1>2, <1>3

LEMMA StreamsWritten ==
  /\ App(Nil, "header") = H /\ App(Nil, "request") = R /\ App(Nil, "abort") = A
  /\ App(H, "request") = HR /\ App(H, "abort") = HA
  /\ Cat(H, V) = HV /\ Cat(H, T) = HT /\ Cat(H, AT) = HAT
  /\ Cat(Nil, V) = V /\ Cat(Nil, T) = T /\ Cat(Nil, AT) = AT
<1>1. /\ App(Nil, "header") = H /\ App(Nil, "request") = R /\ App(Nil, "abort") = A
      /\ App(H, "request") = HR /\ App(H, "abort") = HA
  BY AppendOne DEF App, Nil, H, R, A, HR, HA
<1>2. Cat(H, V) = HV /\ Cat(H, T) = HT /\ Cat(H, AT) = HAT
  <2>1. Cat(H, V) = HV
    BY ConcatPair DEF Cat, H, V, HV
  <2>2. Cat(H, T) = HT
    BY ConcatPair DEF Cat, H, T, HT
  <2>3. Cat(H, AT) = HAT
    BY ConcatTriple DEF Cat, H, AT, HAT
  <2>. QED
    BY <2>1, <2>2, <2>3
<1>3. Cat(Nil, V) = V /\ Cat(Nil, T) = T /\ Cat(Nil, AT) = AT
  <2>1. V \in Seq({"value"}) /\ T \in Seq({"throwable"}) /\ AT \in Seq({"abort", "throwable"})
    BY DEF V, T, AT
  <2>. QED
    BY <2>1, ConcatEmptySeq DEF Cat, Nil
<1>. QED
  BY <1>1, <1>2, <1>3

Upward == {Nil, H, R, A, HR, HA}
Downward == {Nil, H, V, T, AT, HV, HT, HAT}

LEMMA StreamsTyped ==
  /\ \A s \in Upward : s \in Seq({"header", "request", "abort"}) /\ Len(s) <= 2
  /\ \A s \in Downward : s \in Seq({"header", "value", "throwable", "abort"}) /\ Len(s) <= 3
<1>1. /\ Nil \in Seq({"header", "request", "abort"}) /\ Len(Nil) <= 2
      /\ H \in Seq({"header", "request", "abort"}) /\ Len(H) <= 2
      /\ R \in Seq({"header", "request", "abort"}) /\ Len(R) <= 2
      /\ A \in Seq({"header", "request", "abort"}) /\ Len(A) <= 2
      /\ HR \in Seq({"header", "request", "abort"}) /\ Len(HR) <= 2
      /\ HA \in Seq({"header", "request", "abort"}) /\ Len(HA) <= 2
  BY DEF Nil, H, R, A, HR, HA
<1>2. /\ Nil \in Seq({"header", "value", "throwable", "abort"}) /\ Len(Nil) <= 3
      /\ H \in Seq({"header", "value", "throwable", "abort"}) /\ Len(H) <= 3
      /\ V \in Seq({"header", "value", "throwable", "abort"}) /\ Len(V) <= 3
      /\ T \in Seq({"header", "value", "throwable", "abort"}) /\ Len(T) <= 3
      /\ AT \in Seq({"header", "value", "throwable", "abort"}) /\ Len(AT) <= 3
      /\ HV \in Seq({"header", "value", "throwable", "abort"}) /\ Len(HV) <= 3
      /\ HT \in Seq({"header", "value", "throwable", "abort"}) /\ Len(HT) <= 3
      /\ HAT \in Seq({"header", "value", "throwable", "abort"}) /\ Len(HAT) <= 3
  BY DEF Nil, H, V, T, AT, HV, HT, HAT
<1>3. \A s \in Upward : s \in Seq({"header", "request", "abort"}) /\ Len(s) <= 2
  BY <1>1, Zenon DEF Upward
<1>4. \A s \in Downward : s \in Seq({"header", "value", "throwable", "abort"}) /\ Len(s) <= 3
  BY <1>2, Zenon DEF Downward
<1>. QED
  BY <1>3, <1>4

\* What the server writes last
LEMMA RepliesNamed ==
  ASSUME NEW k \in Kinds
  PROVE  Replies(k) = IF k = "value" THEN V ELSE IF k = "opaque" THEN AT ELSE T
<1>1. CASE k = "value"
  BY <1>1 DEF Replies, V
<1>2. CASE k = "opaque"
  BY <1>2 DEF Replies, AT
<1>3. CASE k \notin {"value", "opaque"}
  BY <1>3 DEF Replies, T
<1>. QED
  BY <1>1, <1>2, <1>3

-----------------------------------------------------------------------------
(***************************************************************************)
(* The inductive invariant says of one call what its two streams hold,     *)
(* given how far its two threads have come, and how often the method was   *)
(* entered.                                                                *)
(***************************************************************************)
BehindRequest == {"read", "invoking", "replying"}

\* How often the method is entered for a call that is answered
Runs(k) == IF k = "nomethod" THEN 0 ELSE 1

\* The answer, with and without the header
Answer(k) == IF k = "value" THEN V ELSE IF k = "opaque" THEN AT ELSE T
Headed(k) == IF k = "value" THEN HV ELSE IF k = "opaque" THEN HAT ELSE HT

CallType == [kind: Kinds, caller: Stages, thread: ThreadStages,
             up: Upward, down: Downward, runs: {0, 1}]

\* The consumer's stream, as far as the server has not read it
UpInv(c) ==
  /\ c.caller \in {"idle", "connected"} => c.up = Nil
  /\ c.caller = "opened" => c.up \in {Nil, H}
  /\ c.thread \in {"queued", "started"} =>
       /\ c.up \in {Nil, H, HR, HA}
       /\ c.caller = "opened" => c.up = H
  /\ c.thread = "opened" => c.up \in {Nil, R, A}
  /\ c.thread \in BehindRequest => c.up = Nil

\* A request that was sent, and may have been read, can be sent
SentInv(c) ==
  c.caller \in {"sent", "reading"} \/ c.up \in {R, HR} \/ c.thread \in BehindRequest
    => c.kind # "unsendable"

\* The server's stream, as far as the consumer has not read it: all that was
\* written or, after a reset, nothing
DownInv(c) ==
  /\ c.thread \in {"none", "queued", "started", "opened", "read"} => c.down = Nil
  /\ c.thread \in {"invoking", "replying"} /\ c.caller # "failed" =>
       c.down = IF c.caller = "reading" THEN Nil ELSE H
  /\ c.thread \in {"invoking", "replying"} /\ c.caller = "failed" => c.down \in {Nil, H}
  /\ c.caller \in {"connected", "opened", "sent"} =>
       c.down \in {Nil, H} \/ (c.down = Headed(c.kind) /\ c.runs = Runs(c.kind))
  /\ c.caller = "reading" => c.down = Nil \/ (c.down = Answer(c.kind) /\ c.runs = Runs(c.kind))

StageInv(c) ==
  /\ c.caller = "idle" => c.thread = "none"
  /\ c.thread = "none" => c.caller \in {"idle", "failed"}
  /\ c.caller = "connected" => c.thread \in {"queued", "started", "closed"}
  /\ c.caller = "opened" => c.thread \notin BehindRequest
  /\ c.caller = "reading" => c.thread \in {"invoking", "replying", "closed"}
  /\ c.caller \in {"returned", "threw"} => c.thread = "closed"

RunsInv(c) ==
  /\ c.thread \in {"none", "queued", "started", "opened", "read", "invoking"} => c.runs = 0
  /\ c.thread = "replying" => c.runs = Runs(c.kind)
  /\ c.runs \in {0, Runs(c.kind)}

HonestInv(c) ==
  /\ c.caller = "returned" => c.kind = "value" /\ c.runs = 1
  /\ c.caller = "threw" => c.kind \in {"throws", "nomethod"} /\ c.runs = Runs(c.kind)

CallInv(c) ==
  UpInv(c) /\ SentInv(c) /\ DownInv(c) /\ StageInv(c) /\ RunsInv(c) /\ HonestInv(c)

IInv ==
  /\ call \in [Calls -> CallType]
  /\ export \in {"running", "dead"}
  /\ \A r \in Calls : CallInv(call[r])

-----------------------------------------------------------------------------
\* One step of a call, on either side, or the end of its consumer, keeps the
\* invariant of that call
LEMMA CallerKeeps ==
  ASSUME IInv, NEW r \in Calls, CallerStep(r) \/ ConsumerDies(r)
  PROVE  CallInv(call'[r]) /\ call' \in [Calls -> CallType]
<1> USE DEF IInv, CallType, CallInv, UpInv, SentInv, DownInv, StageInv, RunsInv, HonestInv,
            Stages, ThreadStages, Ended, BehindRequest, Upward, Downward
<1>1. CASE Connect(r)
  BY <1>1 DEF Connect, Fail
<1>2. CASE OpenOutput(r)
  <2>1. call' = [call EXCEPT ![r].caller = "opened", ![r].up = App(@, "header")] \/ Fail(r)
    BY <1>2 DEF OpenOutput, App
  <2>. QED
    BY <1>2, <2>1, StreamsWritten DEF OpenOutput, Fail
<1>3. CASE SendRequest(r)
  <2>1. \/ /\ call[r].kind = "unsendable"
           /\ call' = [call EXCEPT ![r].caller = "failed", ![r].up = App(@, "abort")]
        \/ /\ call[r].kind # "unsendable"
           /\ call' = [call EXCEPT ![r].caller = "sent", ![r].up = App(@, "request")]
        \/ Fail(r)
    BY <1>3 DEF SendRequest, App
  <2>. QED
    BY <1>3, <2>1, StreamsWritten DEF SendRequest, Fail
<1>4. CASE OpenInput(r)
  <2>1. \/ /\ call[r].down # Nil
           /\ call' = [call EXCEPT ![r].caller = "reading", ![r].down = Rest(@)]
        \/ Fail(r)
    BY <1>4 DEF OpenInput, Rest, Nil
  <2>. QED
    BY <1>4, <2>1, StreamsRead, StreamsDiffer DEF OpenInput, Fail, Headed, Answer
<1>5. CASE ReadResult(r)
  <2>1. \/ /\ call[r].down # Nil
           /\ call' = [call EXCEPT ![r].caller = Result(First(call[r].down)), ![r].down = Rest(@)]
        \/ Fail(r)
    BY <1>5 DEF ReadResult, Rest, First, Nil
  <2>2. /\ Result("value") = "returned" /\ Result("throwable") = "threw"
        /\ Result("abort") = "failed"
    BY DEF Result
  <2>3. CASE Fail(r)
    BY <1>5, <2>3 DEF ReadResult, Fail
  <2>4. CASE ~Fail(r)
    <3>1. call[r].down = Answer(call[r].kind) /\ call[r].runs = Runs(call[r].kind)
      BY <1>5, <2>1, <2>4 DEF ReadResult
    <3>. QED
      BY <1>5, <2>1, <2>2, <2>4, <3>1, StreamsRead, StreamsDiffer
      DEF ReadResult, Answer, Runs, Kinds
  <2>. QED
    BY <2>3, <2>4
<1>6. CASE ConsumerDies(r)
  BY <1>6 DEF ConsumerDies, Fail
<1>. QED
  BY <1>1, <1>2, <1>3, <1>4, <1>5, <1>6 DEF CallerStep

LEMMA InvokeTyped ==
  ASSUME call \in [Calls -> CallType], NEW r \in Calls, NEW t \in ThreadStages, NEW n \in {0, 1},
         call' = [call EXCEPT ![r].thread = t, ![r].runs = n]
  PROVE  call' \in [Calls -> CallType]
BY DEF CallType

LEMMA ThreadKeeps ==
  ASSUME IInv, NEW r \in Calls, ThreadStep(r)
  PROVE  CallInv(call'[r]) /\ call' \in [Calls -> CallType]
<1> USE DEF IInv, CallType, CallInv, UpInv, SentInv, DownInv, StageInv, RunsInv, HonestInv,
            Stages, ThreadStages, Ended, BehindRequest, Upward, Downward
<1>1. CASE Accept(r)
  BY <1>1 DEF Accept
<1>2. CASE ServerOpenInput(r)
  <2>1. \/ /\ call[r].up # Nil
           /\ call' = [call EXCEPT ![r].thread = "opened", ![r].up = Rest(@)]
        \/ Gone(r) /\ Close(r)
    BY <1>2 DEF ServerOpenInput, Rest, Nil
  <2>. QED
    BY <1>2, <2>1, StreamsRead, StreamsDiffer DEF ServerOpenInput, Gone, Close
<1>3. CASE ServerRead(r)
  <2>1. \/ /\ call[r].up # Nil
           /\ call' = [call EXCEPT ![r].up = Rest(@),
                          ![r].thread = IF First(call[r].up) = "request" THEN "read" ELSE "closed"]
        \/ Gone(r) /\ Close(r)
    BY <1>3 DEF ServerRead, Rest, First, Nil
  <2>. QED
    BY <1>3, <2>1, StreamsRead, StreamsDiffer DEF ServerRead, Gone, Close
<1>4. CASE ServerOpenOutput(r)
  <2>1. \/ call' = [call EXCEPT ![r].thread = "invoking", ![r].down = App(@, "header")]
        \/ Gone(r) /\ Close(r)
    BY <1>4 DEF ServerOpenOutput, App
  <2>. QED
    BY <1>4, <2>1, StreamsWritten DEF ServerOpenOutput, Gone, Close
<1>5. CASE Invoke(r)
  <2>1. call[r].runs = 0
    BY <1>5 DEF Invoke
  <2>2. call' = [call EXCEPT ![r].thread = "replying", ![r].runs = Runs(call[r].kind)]
    BY <1>5, <2>1 DEF Invoke, Runs
  <2>3. call[r].thread = "invoking" /\ Runs(call[r].kind) \in {0, 1}
    BY <1>5 DEF Invoke, Runs
  <2>4. call' \in [Calls -> CallType]
    <3>1. Runs(call[r].kind) \in {0, 1} /\ "replying" \in ThreadStages
      BY <2>3
    <3>. QED
      BY <2>2, <3>1, InvokeTyped DEF IInv
  <2>5. /\ call'[r].kind = call[r].kind /\ call'[r].caller = call[r].caller
        /\ call'[r].thread = "replying" /\ call'[r].runs = Runs(call[r].kind)
        /\ call'[r].up = call[r].up /\ call'[r].down = call[r].down
    BY <2>2
  <2>. QED
    BY <2>3, <2>4, <2>5
<1>6. CASE Reply(r)
  <2>1. Replies(call[r].kind) = Answer(call[r].kind)
    BY RepliesNamed DEF Answer
  <2>2. \/ call' = [call EXCEPT ![r].thread = "closed",
                                ![r].down = Cat(@, Answer(call[r].kind))]
        \/ Gone(r) /\ Close(r)
    BY <1>6, <2>1 DEF Reply, Cat
  <2>. QED
    BY <1>6, <2>2, StreamsWritten DEF Reply, Gone, Close, Answer, Headed
<1>. QED
  BY <1>1, <1>2, <1>3, <1>4, <1>5, <1>6 DEF ThreadStep

\* The end of the server closes every call and may take what is in its stream
LEMMA ServerDeathKeeps ==
  ASSUME IInv, ServerDies
  PROVE  IInv'
<1> USE DEF IInv, CallType
<1>1. PICK lost \in SUBSET {r \in Calls : call[r].thread \notin {"none", "closed"}} :
        call' = [r \in Calls |->
                  [call[r] EXCEPT !.thread = IF @ = "none" THEN @ ELSE "closed",
                                  !.down = IF r \in lost THEN Nil ELSE @]]
  BY DEF ServerDies, Nil
<1>2. ASSUME NEW r \in Calls
      PROVE  call'[r] \in CallType /\ CallInv(call'[r])
  <2>1. /\ call'[r].kind = call[r].kind /\ call'[r].caller = call[r].caller
        /\ call'[r].thread = IF call[r].thread = "none" THEN "none" ELSE "closed"
        /\ call'[r].up = call[r].up /\ call'[r].runs = call[r].runs
        /\ call'[r].down = IF r \in lost THEN Nil ELSE call[r].down
    BY <1>1
  <2>2. call'[r] \in CallType
    BY <1>1 DEF ThreadStages, Downward
  <2>3. r \in lost => call[r].thread # "none"
    OBVIOUS
  <2>. QED
    BY <2>1, <2>2, <2>3 DEF CallInv, UpInv, SentInv, DownInv, StageInv, RunsInv, HonestInv,
       ThreadStages, BehindRequest
<1>3. call' \in [Calls -> CallType]
  <2>1. call' = [r \in Calls |-> call'[r]]
    BY <1>1
  <2>. QED
    BY <1>2, <2>1
<1>. QED
  BY <1>2, <1>3 DEF ServerDies

\* A step of one call leaves the others alone
LEMMA OtherCalls ==
  ASSUME IInv, NEW r \in Calls, CallerStep(r) \/ ThreadStep(r) \/ ConsumerDies(r)
  PROVE  \A q \in Calls \ {r} : call'[q] = call[q]
BY DEF CallerStep, ThreadStep, Connect, OpenOutput, SendRequest, OpenInput, ReadResult,
       Accept, ServerOpenInput, ServerRead, ServerOpenOutput, Invoke, Reply,
       ConsumerDies, Fail, Close, IInv

LEMMA IInvInvariant == Spec => []IInv
<1>1. Init => IInv
  <2> SUFFICES ASSUME Init PROVE IInv
    OBVIOUS
  <2>1. PICK kind \in [Calls -> Kinds] :
          call = [r \in Calls |-> [kind |-> kind[r], caller |-> "idle", thread |-> "none",
                                   up |-> Nil, down |-> Nil, runs |-> 0]]
    BY DEF Init, Nil
  <2>2. call \in [Calls -> CallType]
    BY <2>1 DEF CallType, Stages, ThreadStages, Upward, Downward
  <2>3. ASSUME NEW r \in Calls PROVE CallInv(call[r])
    <3>1. /\ call[r].caller = "idle" /\ call[r].thread = "none"
          /\ call[r].up = Nil /\ call[r].down = Nil /\ call[r].runs = 0
      BY <2>1
    <3>. QED
      BY <3>1, StreamsDiffer DEF CallInv, UpInv, SentInv, DownInv, StageInv, RunsInv, HonestInv, BehindRequest
  <2>. QED
    BY <2>2, <2>3 DEF Init, IInv
<1>2. IInv /\ [Next]_vars => IInv'
  <2> SUFFICES ASSUME IInv, [Next]_vars PROVE IInv'
    OBVIOUS
  <2>1. ASSUME NEW r \in Calls, CallerStep(r) \/ ThreadStep(r) \/ (ConsumerDies(r) /\ UNCHANGED export)
        PROVE  IInv'
    <3>1. CallInv(call'[r]) /\ call' \in [Calls -> CallType]
      BY <2>1, CallerKeeps, ThreadKeeps
    <3>2. \A q \in Calls \ {r} : call'[q] = call[q]
      BY <2>1, OtherCalls
    <3>3. UNCHANGED export
      BY <2>1 DEF CallerStep, ThreadStep
    <3>. QED
      BY <3>1, <3>2, <3>3 DEF IInv
  <2>2. CASE ServerDies
    BY <2>2, ServerDeathKeeps
  <2>3. CASE UNCHANGED vars
    BY <2>3 DEF vars, IInv
  <2>. QED
    BY <2>1, <2>2, <2>3 DEF Next
<1>. QED
  BY <1>1, <1>2, PTL DEF Spec

-----------------------------------------------------------------------------
\* Type correctness of the calls and the server process
THEOREM TypeCorrect == Spec => []TypeOK
<1>1. IInv => TypeOK
  BY StreamsTyped DEF IInv, TypeOK, CallType
<1>. QED
  BY <1>1, IInvInvariant, PTL

\* Lines 41-45 and 99-103: what a proxy returns or throws as the service's own
\* outcome is what the method did, whatever died or was cut off in between
THEOREM OutcomeHonestHolds == Spec => []OutcomeHonest
<1>1. IInv => OutcomeHonest
  BY DEF IInv, CallInv, HonestInv, OutcomeHonest, Runs
<1>. QED
  BY <1>1, IInvInvariant, PTL

-----------------------------------------------------------------------------
(* The mapping to RequestReply, as a function of the stages                *)

AskedAs(c) ==
  IF c.caller = "idle" THEN "idle"
  ELSE IF c.caller = "returned" THEN "answered"
  ELSE IF c.caller = "threw" THEN (IF c.kind = "nomethod" THEN "failed" ELSE "answered")
  ELSE IF c.caller = "failed" THEN "failed" ELSE "waiting"
ServedAs(c) == IF c.runs = 0 THEN "no" ELSE "yes"

AskedMap == [r \in Calls |-> AskedAs(call[r])]
ServedMap == [r \in Calls |-> ServedAs(call[r])]

LEMMA MapsAgree ==
  /\ AskedMap = [r \in Calls |-> Asked(r)]
  /\ ServedMap = [r \in Calls |-> IF call[r].runs = 0 THEN "no" ELSE "yes"]
  /\ AskedMap' = [r \in Calls |-> Asked(r)]'
  /\ ServedMap' = [r \in Calls |-> IF call[r].runs = 0 THEN "no" ELSE "yes"]'
<1>1. \A r \in Calls : Asked(r) = AskedAs(call[r])
  BY DEF Asked, AskedAs
<1>2. \A r \in Calls : Asked(r)' = AskedAs(call'[r])
  BY DEF Asked, AskedAs
<1>. QED
  BY <1>1, <1>2 DEF AskedMap, ServedMap, ServedAs

\* A step of one call that changes how its caller, or its service, is seen
LEMMA OneCallMapped ==
  ASSUME NEW r \in Calls, \A q \in Calls \ {r} : call'[q] = call[q]
  PROVE  /\ AskedMap' = [AskedMap EXCEPT ![r] = AskedAs(call'[r])]
         /\ ServedMap' = [ServedMap EXCEPT ![r] = ServedAs(call'[r])]
BY DEF AskedMap, ServedMap

\* The consumer asks, gets its answer or fails, or nobody outside sees the step
LEMMA CallerMapped ==
  ASSUME IInv, NEW r \in Calls, CallerStep(r) \/ ConsumerDies(r),
         \A q \in Calls \ {r} : call'[q] = call[q]
  PROVE  Abstract!Next \/ UNCHANGED <<AskedMap, ServedMap>>
<1> DEFINE c == call[r]
           d == call'[r]
<1>1. CallInv(d)
  BY CallerKeeps
<1>2. d.kind = c.kind /\ d.runs = c.runs
  BY DEF CallerStep, Connect, OpenOutput, SendRequest, OpenInput, ReadResult, ConsumerDies, Fail,
         IInv, CallType
<1>3. /\ c.caller = "idle" => d.caller \in {"connected", "failed"}
      /\ c.caller # "idle" => c.caller \notin Ended /\ d.caller # "idle"
  BY DEF CallerStep, Connect, OpenOutput, SendRequest, OpenInput, ReadResult, ConsumerDies, Fail,
         IInv, CallType, Result, Ended
<1>4. c.kind \in Kinds /\ c.runs \in {0, 1}
  BY DEF IInv, CallType
<1> HIDE DEF c, d
<1>5. UNCHANGED ServedMap
  <2>1. ServedAs(d) = ServedAs(c)
    BY <1>2 DEF ServedAs
  <2>. QED
    BY <2>1 DEF ServedMap, c, d
<1>6. AskedMap' = [AskedMap EXCEPT ![r] = AskedAs(d)]
  BY OneCallMapped DEF d
<1>7. AskedMap[r] = AskedAs(c) /\ ServedMap[r] = ServedAs(c)
  BY DEF AskedMap, ServedMap, c
<1>8. CASE AskedAs(d) = AskedAs(c)
  <2>1. AskedMap' = AskedMap
    BY <1>6, <1>7, <1>8 DEF AskedMap
  <2>. QED
    BY <1>5, <2>1
<1>9. CASE AskedAs(c) = "idle" /\ AskedAs(d) = "waiting"
  BY <1>5, <1>6, <1>7, <1>9, MapsAgree DEF Abstract!Next, Abstract!Ask
<1>10. CASE AskedAs(c) \in {"idle", "waiting"} /\ AskedAs(d) = "failed"
  BY <1>5, <1>6, <1>7, <1>10, MapsAgree DEF Abstract!Next, Abstract!Fail
<1>11. CASE AskedAs(c) = "waiting" /\ AskedAs(d) = "answered"
  <2>1. c.runs = 1
    BY <1>1, <1>2, <1>11 DEF CallInv, HonestInv, AskedAs, Runs
  <2>2. ServedMap[r] = "yes"
    BY <1>7, <2>1 DEF ServedAs
  <2>. QED
    BY <1>5, <1>6, <1>7, <1>11, <2>2, MapsAgree DEF Abstract!Next, Abstract!Answer
<1>. QED
  BY <1>3, <1>8, <1>9, <1>10, <1>11 DEF AskedAs, Ended

\* Of the server's steps the caller sees none, and the service one: Invoke
LEMMA ThreadMapped ==
  ASSUME IInv, NEW r \in Calls, ThreadStep(r),
         \A q \in Calls \ {r} : call'[q] = call[q]
  PROVE  Abstract!Next \/ UNCHANGED <<AskedMap, ServedMap>>
<1> DEFINE c == call[r]
           d == call'[r]
<1>1. /\ d.kind = c.kind /\ d.caller = c.caller
      /\ ~Invoke(r) => d.runs = c.runs
  <2> USE DEF IInv, CallType
  <2>1. CASE Accept(r)
    BY <2>1 DEF Accept
  <2>2. CASE ServerOpenInput(r)
    <3>1. call' = [call EXCEPT ![r].thread = "opened", ![r].up = Rest(@)] \/ Close(r)
      BY <2>2 DEF ServerOpenInput, Rest
    <3>. QED
      BY <3>1 DEF Close
  <2>3. CASE ServerRead(r)
    <3>1. \/ call' = [call EXCEPT ![r].up = Rest(@),
                          ![r].thread = IF First(call[r].up) = "request" THEN "read" ELSE "closed"]
          \/ Close(r)
      BY <2>3 DEF ServerRead, Rest, First
    <3>. QED
      BY <3>1 DEF Close
  <2>4. CASE ServerOpenOutput(r)
    <3>1. call' = [call EXCEPT ![r].thread = "invoking", ![r].down = App(@, "header")] \/ Close(r)
      BY <2>4 DEF ServerOpenOutput, App
    <3>. QED
      BY <3>1 DEF Close
  <2>5. CASE Invoke(r)
    BY <2>5 DEF Invoke
  <2>6. CASE Reply(r)
    <3>1. \/ call' = [call EXCEPT ![r].thread = "closed",
                                ![r].down = Cat(@, Replies(call[r].kind))]
          \/ Close(r)
      BY <2>6 DEF Reply, Cat
    <3>. QED
      BY <3>1 DEF Close
  <2>. QED
    BY <2>1, <2>2, <2>3, <2>4, <2>5, <2>6 DEF ThreadStep
<1>2. d.runs = c.runs
      \/ (c.runs = 0 /\ d.runs = 1 /\ c.caller \notin {"idle", "returned", "threw"})
  <2>1. CASE Invoke(r)
    <3>1. /\ c.runs = 0 /\ c.caller \notin {"idle", "returned", "threw"}
      BY <2>1 DEF Invoke, IInv, CallInv, RunsInv, StageInv
    <3>2. d.runs = IF c.kind = "nomethod" THEN c.runs ELSE c.runs + 1
      BY <2>1 DEF Invoke, IInv, CallType
    <3> HIDE DEF c, d
    <3>. QED
      BY <3>1, <3>2
  <2>. QED
    BY <1>1, <2>1
<1> HIDE DEF c, d
<1>3. UNCHANGED AskedMap
  <2>1. AskedAs(d) = AskedAs(c)
    BY <1>1 DEF AskedAs
  <2>. QED
    BY <2>1 DEF AskedMap, c, d
<1>4. ServedMap' = [ServedMap EXCEPT ![r] = ServedAs(d)]
  BY OneCallMapped DEF d
<1>5. AskedMap[r] = AskedAs(c) /\ ServedMap[r] = ServedAs(c)
  BY DEF AskedMap, ServedMap, c
<1>6. CASE d.runs = c.runs
  <2>1. ServedAs(d) = ServedAs(c)
    BY <1>6 DEF ServedAs
  <2>2. ServedMap' = ServedMap
    BY <1>4, <1>5, <2>1 DEF ServedMap
  <2>. QED
    BY <1>3, <2>2
<1>7. CASE d.runs # c.runs
  <2>1. AskedMap[r] \in {"waiting", "failed"} /\ ServedMap[r] = "no" /\ ServedAs(d) = "yes"
    BY <1>2, <1>5, <1>7 DEF AskedAs, ServedAs
  <2>. QED
    BY <1>3, <1>4, <2>1, MapsAgree DEF Abstract!Next, Abstract!Serve
<1>. QED
  BY <1>6, <1>7

\* RpcFramework implements RequestReply: a call is served at most once, answered
\* only after it was served, and of a failed one the caller cannot tell
THEOREM Refinement == Spec => RequestReplySpec
<1>1. Init => Abstract!Init
  <2> SUFFICES ASSUME Init PROVE Abstract!Init
    OBVIOUS
  <2>0. PICK kind \in [Calls -> Kinds] :
          call = [r \in Calls |-> [kind |-> kind[r], caller |-> "idle", thread |-> "none",
                                   up |-> Nil, down |-> Nil, runs |-> 0]]
    BY DEF Init, Nil
  <2>1. \A r \in Calls : call[r].caller = "idle" /\ call[r].runs = 0
    BY <2>0
  <2>2. \A r \in Calls : AskedAs(call[r]) = "idle" /\ ServedAs(call[r]) = "no"
    BY <2>1 DEF AskedAs, ServedAs
  <2>. QED
    BY <2>2, MapsAgree DEF Abstract!Init, AskedMap, ServedMap
<1>2. IInv /\ [Next]_vars => Abstract!Next \/ UNCHANGED <<AskedMap, ServedMap>>
  <2> SUFFICES ASSUME IInv, [Next]_vars
               PROVE  Abstract!Next \/ UNCHANGED <<AskedMap, ServedMap>>
    OBVIOUS
  <2>1. ASSUME NEW r \in Calls, CallerStep(r) \/ ThreadStep(r) \/ (ConsumerDies(r) /\ UNCHANGED export)
        PROVE  Abstract!Next \/ UNCHANGED <<AskedMap, ServedMap>>
    BY <2>1, OtherCalls, CallerMapped, ThreadMapped
  <2>2. CASE ServerDies
    <3>0. PICK lost \in SUBSET {r \in Calls : call[r].thread \notin {"none", "closed"}} :
            call' = [r \in Calls |->
                      [call[r] EXCEPT !.thread = IF @ = "none" THEN @ ELSE "closed",
                                      !.down = IF r \in lost THEN Nil ELSE @]]
      BY <2>2 DEF ServerDies, Nil
    <3>1. \A r \in Calls : /\ call'[r].caller = call[r].caller /\ call'[r].kind = call[r].kind
                           /\ call'[r].runs = call[r].runs
      BY <3>0 DEF IInv, CallType
    <3>2. \A r \in Calls : /\ AskedAs(call'[r]) = AskedAs(call[r])
                           /\ ServedAs(call'[r]) = ServedAs(call[r])
      BY <3>1 DEF AskedAs, ServedAs
    <3>. QED
      BY <3>2 DEF AskedMap, ServedMap
  <2>3. CASE UNCHANGED vars
    BY <2>3 DEF vars, AskedMap, ServedMap
  <2>. QED
    BY <2>1, <2>2, <2>3 DEF Next
<1>3. IInv /\ [Next]_vars
        => [Abstract!Next]_<<[r \in Calls |-> Asked(r)],
                             [r \in Calls |-> IF call[r].runs = 0 THEN "no" ELSE "yes"]>>
  BY <1>2, MapsAgree
<1>. QED
  BY IInvInvariant, <1>1, <1>3, PTL DEF Spec, RequestReplySpec, Abstract!Spec
=============================================================================
