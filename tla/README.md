# code_study in TLA+

This directory is a verification development for the `code_study` repository: a
collection of Java programs and snippets from web development, among them four
client/server calculators (blocking, selector-driven, asynchronous, Netty), a small
RPC framework, pools, caches, interceptors, an upload client with resumption, a
gateway's parameter check, page lists, an administration template with its scripts, and many
utilities. Every specification here is translated from the source, and every definition that
stands for code names its lines in `PROJECT.json` (`map`).

Contents: 1 inventory; 2 modules and the code; 3 runs, bounds and what they show;
4 fairness; 5 proofs; 6 where code and comments disagree; 7 not modelled; 8 what is left;
9 running it.

## 1. Inventory

Paths are relative to `src/`, those of scripts to `ace-admin/src/main/webapp/assets/js/`. "aio", "io", "nio" and "netty" are the packages under
`java + Bio + Nio代码/test/java/com/llh/`.

| Component | State | Operations | Interacts with | Hard because |
|---|---|---|---|---|
| **AIO server** (aio/Server, AsyncServerHandler, AcceptHandler) | `serverHandle`, `channel`, `latch`, `clientCount` | start, run, accept completed / failed | callers of start, the AIO thread group, clients | no loop: the chain of accepts lives in callbacks; counter without lock |
| **AIO session** (aio/ReadHandler_Server, AsyncClientHandler, WriteHandler, ReadHandler, Client) | both channels, buffers, latch, outstanding operations | connect, send, completed and failed of each handler, quit | two processes over TCP | partial reads and writes, broken and ended connections, empty lines, answers that fall behind |
| **BIO server and client** (io/ServerBetter, ServerNormal, ServerHandler, Client) | static `server`, the pool and its queue, sockets | start, accept, run, send | starters, pool threads, clients | a thread per link out of a pool of two |
| **NIO server** (nio/Server, ServerHandle) | `serverHandle`, `started`, selector, selected keys, channels | start, stop, select, handleInput, doWrite | clients, an older handle's thread | stale readiness, stopping, failures of single keys |
| **NIO client** (nio/Client, ClientHandle) | channel, its key's interest set, `started` | doConnect, handleInput, sendMsg | two threads of one process, the server | both threads set the interest of one key |
| **Netty calculator** (netty/*) | pipeline, channel attribute | channelRead, close | event loop | callbacks |
| **RPC** (RPC(远程过程调用协议)代码/RpcFramework) | two streams per call | export, refer, invoke | consumer and provider processes | the constructors of the object streams wait for each other; a reply can break in the middle |
| **Redis pool** (redis代码/RedisUtil; the same in redis缓存代码) | monitor, pool | getJedis, returnResource | request threads, Redis | waiting inside a monitor, for the pool and for connections that are opened and validated there; exhaustion; timeouts |
| **Storage upload** (文件上传代码/FezoStorageUtils) | nothing but the position of one call; the cloud's prefix of the file | uploadFile, uploadFileOld, detect, block | storage service, other uploaders of the same file | resumption, lost answers, ignored answers, page boundaries |
| **Gateway check** (gateway/.../CheckParamsUtil, Parameter, checkParams.xml) | `rulesMap` | init, checkParams | converters, json-lib | unboxing, conversions, boundaries |
| **Gateway pipeline** (gateway/.../JsonHttpMessageConverter, GatewayExceptionResolver) | the response | readInternal, resolveException | Spring | the error's way through wrappers |
| **Page lists** (js分页代码/paginationProd.jsp, pagination.jsp) | current page, totals as rendered | goPage, toPage, preFive, nextFive | the server's rows | boundaries; rows that vanish |
| **Portal fragments** (拦截器代码/CommonInterceptor) | memcached | preHandle, getCommonHtml | request threads, memcached, the portal | a cache shared by sessions with hand-made keys |
| **Comment list** (js代码/submit.js) | `#curPage`, `#commentList`, `#pageBar` | goPage, gotowhatpage, the answers | the server, by asynchronous requests | answers in any order, refused, failed |
| **ZooKeeper holder** (zookeeper代码/ZooKeeperHolder) | `zkclient`, the class's initialisation, a semaphore | init, the listener, getData and its kin | all threads that use the class, ZooKeeper | a wait inside a static initialiser; a listener added after the start |
| **Callbacks and Deferred** (uncompressed/jquery-2.0.3.js) | `list`, `memory`, `fired`, `firing`, `stack` and the indices; `state` | add, fireWith, disable, lock; done, fail, progress, resolve, reject, notify | callbacks that call back | nested calls change the list that is being fired |
| **Effect queue** (uncompressed/jquery-2.0.3.js) | an element's queue with its sentinel, stop hooks, `jQuery.timers` | queue, dequeue, delay, animate, stop, finish, tick | timers, callbacks that animate, stop and finish | stopping and clearing in the middle of a job, or from its callback |
| **Notices** (uncompressed/jquery.gritter.js) | notices with their timers, handlers and effects, the wrapper | add, mouseenter, mouseleave, X, the timer, removeAll | the effect queue, the pointer | timer, pointer, X and effects race |
| **Dialogs** (uncompressed/bootstrap.js) | `isShown`, `$backdrop`, handlers bound to ends of transitions | show, hide, hideModal, backdrop | transitions and the timeouts that emulate their ends | opening and closing cross |
| **Tables** (uncompressed/jquery.dataTables.js, jquery.dataTables.bootstrap.js) | start and length of the page, `aiDisplay`, `aiDisplayMaster`, `asDataSearch`, `iDraw` | draw, filter, sort, page, length, add and delete rows, the server's answers | user, scripts, a server | overtaken answers; two arrays and a cache aligned by position |
| **Points** (拦截器代码/AddPointsInterceptor) | none | afterCompletion, addPoints | database, points service | half-done loops |
| **memcached client**, **DBUtils**, **stored procedures**, **thread pool**, **asynchronous servlet**, **JMS**, **TCP/UDP echo** | see section 7 | | | |
| RMI, proxies, HTTP client, MD5, UUID, pinyin, captcha, zip, xls, xml, IP filter, JSP tags, ace-admin's controllers, mappers, descriptors | none of their own | single calls | | conversions and configuration |

What makes each modelled component correct:

* AIO server: exactly one accept is on its way as long as no accept failed; the count is exact.
* AIO session: no part of a message or an answer is lost, duplicated or reordered; a
  patient user gets the answer to what was asked; no operation stays outstanding on a connection
  that has ended. (A thread may: only a reset releases the latch, the end of the stream releases nobody.)
* BIO: one listener; each accepted client is answered; a request is served at most once and
  an answer follows it.
* NIO server: handled keys are ready; failures stay with their channel; clients are read
  and released as long as their handle is in service; a stopped loop ends.
* NIO client: an attempt to connect is resolved or reported; every reply is read.
* RPC: no deadlock of headers; what the caller is told is what happened; at most one execution.
* Redis pool: prompt users are not refused while Redis is up; a caller waits at the monitor no longer
  than MAX_WAIT and the time of the pool's attempts to connect and validate, for each call that
  overtakes it.
* Upload: success is only reported for a whole file; retries succeed; nothing is sent twice.
* ZooKeeper holder: whoever comes during the initialisation gets an answer.
* Gateway check: what is accepted conforms, and documented rules do not crash it for a body that is a
  JSON object. (Any other body ends in an exception of the JSON library.)
* Portal fragments: a page shows its own session's and its own parameters' fragments only, and
  all of them if the portal was up.
* Page lists: every link leads to a page that exists; the window is full and shows the current
  page; the comment list shows the page that `#curPage` names.
* Deferred: one outcome; each callback of its side called once and in order.
* Effect queue: each job comes to its end; one runs at a time, until the queue is cleared under a
  delay, a callback leaves a job running that it has begun, or a callback delays or finishes under
  `finish`.
* Notices: each closes once, and none stays that nothing holds.
* Dialogs: at rest a dialog is wholly open or wholly closed.
* Tables: a page in view has rows; the last answer is the one drawn; the cached search finds
  what a search of all rows finds.

`PROJECT.json` lists the hazards one by one at their lines (`hazards`), with the
properties that would catch them.

## 2. Modules and the code

Every action is a whole handler, or the part of one between two points where another
thread or process can interfere. Below each module's definitions stand *faulty variants*:
operators that change one definition the way a plausible bug would. No specification uses
them; `PROJECT.json` (`mutants`) says which property each one breaks.

* **AioAccept**: `Start` is `Server.start` (synchronized: one step); `RunLatch`, `RunAccept` and
  `RunReturn` are `AsyncServerHandler.run` before, at and after the accept. A completion
  handler is split at the points where another thread can see it: `AcceptCompleted`,
  `CountLoad` and `CountStore` (the two halves of `clientCount++`), `Rearm` (line 13),
  `FirstRead` (line 17). `AcceptFailed` is `failed`.
* **AioSession**: one session. `session` is what kind of session it is, chosen at the start: a
  patient user or one who types ahead, which lines are empty, and the parts that messages and
  replies travel in (none, for a reply whose text is empty).
  `main` is the thread that types, `runner` the client's thread in
  `run`, `wbuf`/`sbuf` what is left in the write buffers, `rop`/`srv` the outstanding
  operations, `up`/`down` what is in the connection. A message is a sequence of parts that TCP
  may deliver together or apart. An empty line is a write of no byte, which completes
  at once (`BlankWritten`): the client then reads though nothing was sent. Either process may end
  (`Kill`, `ServerEnds`), which ends the stream, or resets the connection where something was left
  unread. Neither handler tests the -1 of the end of the stream: the server's (`ServerEof`)
  evaluates the empty text and answers it, so it goes on until a write fails; the client's
  (`ReadCompleted` with nothing) prints an empty output like an answer, closes nothing and leaves the
  latch as it is. `Asked` and `Served` say what a session is as a request-reply service.
* **RequestReply**: the abstract service: `Ask`, `Serve`, `Answer`, `Fail` per request. BioServer
  and Rpc are shown to implement it, and so is AioSession for a patient user (`PatientService`).
* **BioServer**: `Start`, `Accept`, `AcceptFails` are `ServerBetter.start` (the monitor is
  held by the listener); `Take` a pool thread that takes a socket; `HandleLine` and
  `HandleEnd` are `ServerHandler.run`; `Connect` to `ReadReset` are `Client.send`. With a pool
  as large as the set of clients the module is `ServerNormal`, which starts a thread per link.
* **NioServer**: a handle per start. `Select` fills the selected keys, `HandleAccept` and
  `HandleRead` are `handleInput` together with the loop's `it.remove` and its catch;
  `LoopEnd` closes the selector. A start on a port that a stopped handle still holds ends the
  process (`jvm = "exited"`), as `System.exit(1)` does.
* **NioClient**: `DoConnect`, `RegisterConnect`, `HandleConnect`, `HandleRead` and `LoopEnd` are
  the loop's thread; `SendRegister` and `SendWrite` are `sendMsg` on the other thread, and `Restart` its
  second call of `Client.start`, which stops this handle. `interest` is the
  key's interest set, which each `register` overwrites; `user` says, from the start, whether
  lines are typed before the connection is there.
* **Rpc**: a caller and a server thread per call. `up` and `down` hold what each
  stream has delivered: its header and the objects. `Kinds` are the outcomes the code tells
  apart. A side that closes or dies cuts its stream off.
* **RedisPool**: `Enter` takes the monitor. `Try`, `Borrow`, `BorrowFails` and `TimesOut` are
  `getResource` inside it: the pool takes an idle connection or opens a new one, and tries it; one
  that does not pass is dropped and the next one tried, until a new one fails. `ReturnResource` needs
  no monitor, `Forget` is a user that never returns. `users`, chosen at the start, are prompt or
  careless. Time passes (`Tick`) while the thread inside waits, for an exhausted pool (up to
  MaxWait) or for an attempt (up to MaxAttempt, the TIMEOUTs of opening, validating and closing one
  connection); a server that is down may take all of that before it fails.
* **ZkHolder**: `ZkCall` is a thread's first use of the class: it initialises it, waits for
  another's initialisation, or goes on. `Build`, `Start`, `AddListener` and `Acquire` are the
  static initialiser, cut where the client's own thread (`Connect`) can come in between;
  `Over` lets go all that wait.
* **FezoUpload**: `UploadFile`, `UploadFileOld`, `Detect`, `Block` and their `...Throws` are one
  HTTP request each; `present` are the uploaders that take part. The cloud keeps a prefix of the
  file and takes the block that continues it.
* **CheckParams**: `CheckRule` is one round of the loop, `RuleVerdict` its body; a JSON member
  is its kind and its length. `form` is what the body is as a whole: for anything but an object
  json-lib throws (lines 66 and 74), which `Verdict` says.
* **PortalCache** and **MCPortalCache**: `Begin` is lines 33-85, `Handle` the branch of one
  fragment, with the interference of other threads between two branches. A key is the tuple
  of what is concatenated into it. `load`, chosen at the start,
  says which threads, requests and fragments take part; MCPortalCache defines the loads.
* **Pagination**: the arithmetic of both scripts; `GoPage`, `ToPage`, `GoFive` are what the
  user can do, `RowsChange` what others do to the list.
* **GoPage**: `GoTo` is `goPage` up to its request, `ListCame`, `RefusalCame` and `ErrorCame` its
  callbacks; `open` are the requests under way, answered in any order.
* **Promise**: what a Deferred promises: `Settle` once, `Call` of each registered callback
  once and in order, news (`Notify`, `Tell`) only while pending. Deferred is shown to implement it.
* **Deferred**: a list of Callbacks is a record of the variables of the closure, and `frames`
  is the JavaScript stack: a frame is a loop of `fire`, between two callbacks or inside one.
  `Register`, `Settle` and `Notify` may be called by the script or by the callback on top of the
  stack. Each built-in callback is one step (`CallBuiltIn`), a user's two (`CallUser`, `CallReturns`).
* **Effects**: the operators of one element's effect queue, as a record: what is queued, the
  delay that has the stop hook, the animations in `jQuery.timers`, the timeouts. **FxQueue**
  has an element whose effects scripts queue, stop and finish, and the callbacks of the effects too:
  a call is a function of a record of the module's variables (`Now`, `Become`), so that a
  script makes one (`ScriptCalls`) and a callback up to two in a row (`AfterCallback`) before
  `opt.complete` dequeues (`Goes`). `upset` notes when a job is begun beside another.
* **Gritter**: each notice has such a queue; `AddNotice` to `Leave` are the handlers that `add`
  binds, `TimerFires` is `_fade` from the timer, `FadedOut` and `Shrunk` the ends of its effects.
* **Modal**: `ShowDialog` and `HideDialog` are `show` and `hide`; `TransitionEnds` is the end of a
  transition or the timeout that emulates it, which runs the handlers bound to it, bubbling from
  the dialog to the modal. What a handler does is computed on a record (`Page`), since one event
  may run several.
* **DataTable**: each action is one handler with the draw that ends it (`DrawHere`, or `AskServer`
  with bServerSide). Records are counted: how many match, how many there are.
* **TableSearch**: the same table's search with the texts: `master`, `display` and `cache` are
  `aiDisplayMaster`, `aiDisplay` and `asDataSearch`, by rows.
* **Stores**, **WebRequests**, **ListPages**, **Elements**: compositions for checking. The
  components they put together share no state in the code (they are helpers, filters or scripts
  of different pages), so a behaviour is about one of them, chosen in the initial state
  (`helper`, `program`, `script`), and the others keep one initial state. A property of a
  component says the same in the composition as alone: the variables of the others never move.
  What does interact is composed in one module: callers, threads and the network in the
  client/server modules, Effects in FxQueue and Gritter, the table with its page bar and server
  in DataTable.

Three clients and servers evaluate expressions with `Calculator`, which hands them to the
platform's script engine: the result is uninterpreted, an error is an answer like any other.

## 3. Runs, bounds and what they show

Twelve runs, of seconds to two minutes. Where users of different habits
matter, the habit is chosen in the initial state, and a property about one habit says so.
Deadlock is not checked: every one of these systems may really stop (all clients done, a server
that ended, a process that exited, bounds used up); waiting that should end is what the
properties under fairness are about.

| Run | Bounds | Why they are enough |
|---|---|---|
| aio_accept | 2 callers, 3 clients | two handlers that could overlap and a third that comes after a failure |
| aio_session | 2 messages, any of them empty, of 1 or 2 parts, replies of 0 to 2, resets and ends of either process, both kinds of user | every split and join of two neighbours; an empty one before and after another; an answer that falls behind would show; an end at every point |
| bio_pool | 2 starters, 3 clients (1 silent), 2 threads | more clients than threads; a thread held by a silent client |
| nio_server | 2 ports, 2 starts, 2 clients, 1 unread message | a stopped handle beside its successor; same and different port |
| nio_client | 4 messages, both kinds of user | a send in each state of the connection |
| rpc | 2 calls of all 5 kinds, deaths at any step | calls share only the process |
| stores | pool: 3 threads, 1 connection, MAX_WAIT 2 ticks, attempts of 1, connections kept for 1 or 3, 2 calls, both kinds of user; ZooKeeper: 3 threads, 1 outage; upload: 1 or 2 uploaders, lengths 1, 4 to 7, page 2, 2 faults | one inside, one using, one at the monitor, exhaustion, a bad idle connection and the new one that fails after it; an initialiser and two behind it; whole and split files, multiples of a page and not, another uploader between any two requests |
| web_requests | cache: 2 threads, 2 requests, 3 fragments, or 1 thread, 5 requests, 5 fragments; check: bodies that are an object, null or anything else, 2 rules of 5 types, members of all 9 kinds, absent or null, limits none, 0, 2, lengths 2 and 3 | a writer of another session between read and use, each kind of key; each verdict after a good rule, lengths on both sides of the limit |
| check_params_max_length | 1 rule of 7 types | expected to fail, see section 6 |
| list_pages | bar: up to 24 pages; comments: 3 pages, 3 requests; table: 11 records, lengths 2 and 5, 3 draws; search: 3 rows, texts of up to 2 of 2 letters | window of nine and groups of five meet in every way; three answers in every order; more pages than the bar's five links, a length that is no multiple of the other; texts that match whole, in part and not |
| elements | 2 callbacks per list, 2 pieces of news; 5 jobs, callbacks of 2 calls; 2 notices, 1 visit of the pointer each; 4 backdrops | a callback that registers, settles and notifies in another's call; a job in progress, one waiting, one added by a callback, and any of them stopped or finished from there; a wrapper shared by two; open, close and open again in the middle of each other |
| table_search | 3 rows, texts of up to 2 letters | expected to fail, see section 6 |

A silent client (BioServer) connects and never writes: it holds a thread as long as it likes.
`AcceptedIsAnswered` therefore needs one thread that no silent client can hold, which the run
gives it; with as many silent clients as threads the others wait for ever, and that is what
the code does. With a pool as large as the set of clients the same property holds however
many are silent: that is ServerNormal.

`QueueBound` is the bound the code gives in place of the documented one: a
caller waits at the monitor, for every call that can overtake it, at most MAX_WAIT and the time
of an attempt for each connection the pool may have and one more (`CallBound`): a call may wait
for an exhausted pool, find every connection that is idle by then bad, and fail to open a new one.
`RepliesRead` is about a user who types after the connection is there. For one who types early
it is false: `sendMsg`'s OP_READ can be overwritten by a later OP_CONNECT registration, and
what is promised then is `ConnectResolved`.

Some properties name what they do not cover, because the code does not give it:

* `AnswerMatches` and `EveryMessageAnswered` say of an empty output only that the server is gone: the
  client prints the end of the stream as if it were an answer. `EveryMessageAnswered` excepts empty
  lines and replies of no text as well: the client reads, nothing comes, and a user who waits for
  an output waits for ever.
* `OperationsEnd` is about operations. After a reset the client's thread is released too; after the
  end of the stream its channel stays open and its thread at the latch until the process is stopped.
* `DocumentedRulesNeverCrash` is about bodies that are JSON objects.
* `ZkCallersServed` excepts the connection that is made between lines 52 and 55 (`Missed`):
  `acquire` then waits for ever, and so does everybody behind the class.
* `LastPageShown` is about answers that come in order. If one overtakes another, the list shows
  the page that came last and `#curPage` names the one that was asked for last.
* `QueueDriven` holds until the element is `upset`, after which two jobs may run at once. That happens
  when the queue is cleared during a delay (its stop hook is lost); when a callback leaves a job
  in progress that it has begun, by a plain `stop()` while others wait or by emptying the queue
  and animating (`opt.complete` dequeues once more); and when a callback delays or finishes while its
  element is finished. `JobsEnd` holds for these too.
* Of the callbacks of effects FxQueue has those that are called on completion, with calls on
  their own element: at most two in a row, and one inside `finish`. The callbacks of jobs that such a call
  ends at once are not followed further down. When `stop` with gotoEnd ends several
  animations (which only an upset element has), their callbacks only animate: a call that stops
  would change `jQuery.timers` under the index of the loop (8389-8397). The callbacks start,
  progress, fail and always are left out.
* `SettledDialog` is about a user who waits for one transition before opening again. A hasty one
  can leave a backdrop on the page that nothing removes.
* `SearchExact` demands less once a deletion has spoilt the cache (section 6): rows that do not
  match may stay, but none that matches is lost.
* `PageHasRows` says that pages have rows, not that the bar marks one as active: after a change
  of length the start need not be a multiple of it. With a server the links may be those of the
  old length until the answer comes.
* `LastAnswerDrawn` says nothing if the last answer fails to come: the old rows stay, under a bar
  and a search that are newer.

Each module has a type invariant, which its `.cfg` also passes if it is added there. It is
proved for every component but FxQueue and Modal.

## 4. Fairness

* Threads: weak fairness of each thread's next step. The code runs on preemptive threads
  and the AIO and selector callbacks on the platform's.
* Queues: strong fairness of accepting a given connection (AioAccept, BioServer, NioServer), since
  the listening queue is first in, first out and the models keep it as a set.
* The network (AioSession, NioClient, Rpc): an outstanding operation completes or fails, a
  connection attempt is decided, a reset that is due arrives. TCP gives no more.
* RedisPool: clocks advance, so that attempts to connect end, and a user is done with its connection or forgets it in the end.
* FezoUpload: the caller retries until it is told of success, and only MaxFaults requests fail.
* ZkHolder: the initialising thread and the threads that use the class go on, and a ZooKeeper
  server is reached in the end.
* Scripts (Deferred, FxQueue, Gritter): callbacks return, and timers and effects run off. The
  browser's event loop gives this; the dialog and the tables need no fairness.
* Never assumed: that users type, point, click, come or leave, that anything fails or a process is stopped, that a silent
  client writes, or that an answer to an asynchronous request comes.

The properties that are checked under fairness: `EveryConnectionRead`, `EveryMessageAnswered`,
`OperationsEnd`, `AcceptedIsAnswered`, `ClientServed`, `StoppedLoopEnds`, `ConnectResolved`,
`RepliesRead`, `BothSidesEnd`, `ZkCallersServed`, `RetriesSucceed`, `JobsEnd`, `NoticesLeave`, and
the fairness of the abstract specification in `PromiseSpec`.

## 5. Proofs

TLAPS checks the theorems of eight modules, for every value of the constants under the
named assumptions of the modules (`ConnsAssumption`, `SessionAssumption`, `BioAssumption`,
`NioAssumption`, `Capacities`, `Callers`, `Sizes`, `FewUploaders`, `RuleAttributes`, `Known`,
`RealContent`, `SomePages`, `GoPageBounds`, `LengthsAssumption`, `TableBounds`, `SearchBounds`,
`DeferredBounds`, `FxBounds`, `GritterBounds`, `ModalBounds`, `NioClientAssumption`, `ZkBounds`). They say that sets are finite where they are counted, that
bounds are natural numbers, that the pool, a page and the pages of a list are not of size 0, that
the traffic consists of known threads and requests, and that what the portal answers is not the
mark for nothing. They exclude no deployment of the code. Every safety invariant that a run checks
is a theorem too. `OneAcceptor`, `LatchReady`, `OneStarted`, `FailuresStayApart`, `PatientService`,
`AttemptWatched`, `RepliesWatched` and `MissedOnlyEarly` are theorems that no run states; each also
passes under the `.cfg` of its component if it is added there.

Servers and sessions:

* **AioAcceptProofs**: `TypeCorrect`, `OneAcceptorHolds`, `AcceptChainHolds`, `LatchReadyHolds`,
  `CountExactHolds`. The argument: the right to accept is a token, held by the pending accept or
  by the one handler between its entry and line 13 (`TokenInv`). A handler that has loaded the
  counter still holds the token, so what it loaded is current (`SeenInv`); hence the
  unsynchronised increment loses nothing. `OneAcceptor` is not inductive without the state of
  the latch and of the server's thread, which `TokenInv` adds. `CountedGrows` uses the
  library's theorems on finite sets.
* **AioSessionProofs**: `TypeCorrect`, `StreamsConservedHolds`, `AnswerMatchesHolds`,
  `PatientServiceHolds`, for messages and replies of any number and size, empty ones among them. What was received, what is in the connection and what is
  left in the buffer are, one behind the other, all that was sent (`ConservedInv`), and the replies
  are numbered as the messages were evaluated; `CountInv` bounds those numbers. For a
  patient user whose messages and replies travel whole, the session is in one of six situations
  (`Progress`), in each of which the streams are known; once the server is gone an output may be empty
  (`Matched`), and the one operation of the client is the last (`Turn`). How long the joined messages are, and that one more message is joined at their end, is
  said of the recursive `FlattenSeq` (`UnitsOfNext`, for a line that is typed or empty): `JoinedExists` and `JoinedUnique` take the least number for
  which it would fail. From `Progress` it follows that such a session is the service of RequestReply:
  sending asks (`SendAsks`), the server's read serves what was asked (`ServerReadServes`), the client's
  read answers what was served, or fails if it is the end of the stream (`ReadAnswers`), and every other step, a break included, is unseen
  (`Unseen`).
* **BioServerProofs**: `TypeCorrect`; `OneListenerHolds`; `Refinement`: BioServer implements
  RequestReply under the mapping at the end of BioServer. It needs `LineInv`: a reply is
  there only after the line, and a line only of a client that has connected.
* **NioServerProofs**: `TypeCorrect`, `ReadinessFreshHolds`, `OneStartedHolds`,
  `FailuresStayApartHolds`. Readiness stays fresh because each selected key is backed by what
  made it ready until it is handled (`KeyBacked`); `KeysHandled` says what taking one
  key out of the round does.
  `ClientWatchedHolds` is about NioClient, beside the server's state: `AttemptWatched` and
  `RepliesWatched` say who is watching the channel whatever both threads have registered, which is the
  safety that `ConnectResolved` and `RepliesRead` rest on. `Watched` adds what each thread's place in its
  code says of the channel: above all that a user who waits for the connection cannot overwrite
  the OP_CONNECT that brings it about.
* **RpcProofs**: `TypeCorrect`, `OutcomeHonestHolds`, and `Refinement`: Rpc implements RequestReply.
  Only six streams occur upwards and eight downwards, whatever is cut off where (`StreamsTyped`);
  the invariant relates the stage of each side to them (`UpInv`, `DownInv`, `StageInv`), so that
  what a caller reads as a result was written by the method's reply (`HonestInv`). Each step of a
  call is then a step of the abstract request or none (`CallerMapped`, `ThreadMapped`).

Stores and request filters:

* **StoresProofs**, RedisPool: `RedisTypeCorrect`, `NoRefusalHolds`, `QueueBoundHolds`, for any threads
  and capacities. What is lent is what is in use or forgotten, counted (`Lent`). With prompt users
  the thread inside has waited no longer than each connection that is lent has been in use since, and
  those come back before MAX_WAIT is over (`Prompt`). For the bound at the monitor each waiting thread has an
  account: the time it has waited, what the call inside has left, and `CallBound` for every call that may
  still overtake it never add up to more than at its start (`Queue`). What a call has left is the rest of
  its wait or of its attempt and one attempt for every connection that may be idle behind it; to try
  the next one never makes that more (`RestNext`), nor does a connection that is thrown away (`RestLess`).
* **StoresProofs**, FezoUpload: `FezoTypeCorrect`, `SuccessMeansStoredHolds`,
  `NothingSentTwiceHolds`, for any uploaders, lengths, page size and limit. Typing needs
  arithmetic of pages: a page that is not the last begins before the end of the file (`PagesLemma`,
  `NextPageLemma`, `BlockLemma`). The second theorem rests on the cloud never losing what it has
  (`StoredStep`); the third on a lone uploader being at, or behind, the end of what the cloud has
  (`LoneStep`).
* **StoresProofs**, ZkHolder: `ZkTypeCorrect`, `MissedOnlyEarlyHolds`, for any threads: one thread
  initialises the class exactly as long as that takes (`OneInitialiser`), and before the first
  connection there is no permit (`OnePermit`). The action property says how the state that
  `ZkCallersServed` excepts comes about, and that only an interrupt ends it.
* **WebRequestsProofs**, PortalCache: `PortalTypeCorrect`, `OwnFragmentsHolds`, `CompleteWhenUpHolds`,
  for any threads and traffic. The cache is shared, so the invariant speaks of everything that may
  ever be read: under each key there is nothing, or what the portal answers to whoever builds that
  key (`CacheOwn`), and the same of what was read early (`EarlyOwn`). `KeyLemma` says that equal
  keys mean equal content, `FollowingLemma` that a request comes to a next branch or its end.
  For completeness, as long as no call for a page has failed, every branch that it has passed has set
  the fragment it is for (`Complete`).
* **WebRequestsProofs**, CheckParams: `CheckTypeCorrect`, `AcceptedConformsHolds`,
  `DocumentedRulesNeverCrashHolds`, for rule lists of any length: the body is an object
  and the rules before the current one were obeyed (`ObeyedHolds`), and what one verdict says of one member is `RuleLemma`.

**PageScriptsProofs**, scripts of the pages:

* Pagination: `PaginationTypeCorrect`, `WindowHolds`, `LinksExistHolds` for lists of any length,
  from four lemmas about the operators (`WindowLemma`, `ClampLemma`, `FiveLemma`, `LinksLemma`).
* GoPage: `GoPageTypeCorrect`, `LastPageShownHolds`, for any number of pages and requests: the
  last request is for the page of `#curPage` (`LastAskedForCurPage`), requests are told apart
  (`NumberedApart`), and without overtaking the last request is answered last (`LastComesLast`).
* DataTable: `TableTypeCorrect`, `PageHasRowsHolds`, `LastAnswerDrawnHolds`, for any records and
  lengths. `TableInv` says for the table without a server that what it shows, its bar and
  its start fit the records it knows (`HereDrawn`); for the one with a server that the request that
  bears the number of the last draw asks for what the user wants to see (`LastAsked`), and that
  once it is answered this is what is drawn (`LastDrawn`).
* TableSearch: `SearchTypeCorrect`, `SearchFindsAll`, for any rows and texts. The cache is
  always the front of what is displayed (`CacheInFront`), and all of it as long as no deletion has
  spoilt it (`SearchInv`): so the test of entry i decides about the row at place i. What filtering does to a sequence is said of the recursive function in `Keep`, by the
  least prefix for which it would fail. A row that says a longer text says the shorter one it extends, so
  refining loses nothing.
* Deferred: `DeferredTypeCorrect`, `DeferredKeepsPromise`, for any callbacks in any nesting: the
  initial states of Deferred are Promise's, and its steps Promise's or stutters. `DeferredInv` has three
  parts. `FramesOK` speaks of every frame of the stack: only the top one is between two
  callbacks, no list has two, a list is being fired exactly while it has one, and a frame of
  the news hands on the latest piece.
  The phases say what the three lists are while nothing is settled, while the built-in
  callbacks of the side that was settled are being called (disabling the other side, locking the
  news), and afterwards. `Spread` says of the list of news, which fires many times, what of it
  has been told to whom. There is one lemma per action (`RegisterInv` to `FireEndsInv`).
* FxQueue: `QueueDrivenHolds`, for any number of jobs in any order with stop and finish, called by
  scripts and callbacks. Unless upset, the element is idle, with nothing left behind, or busy with
  one job, and then the stop hook is set exactly if that is a delay (`FxOrdered`). Between the end
  of an animation and the dequeuing that follows its callback the element is in a third
  situation, `Open`, with no job in progress and perhaps jobs waiting: every call takes it from one of
  these to another (`Sound`, `CallOrdered`), so two calls do (`CallbackOrdered`), and what the final
  dequeuing makes of that is orderly or noted as upset (`GoesFacts`). The lemmas on `Dequeued`,
  `Enqueued`, `Completed` and `Halted` say how an element goes from one to the other.
* Gritter: `ClosedOnceHolds`, `GritterTypeCorrect`, for any notices. `NoticesOK` says of one notice
  which effects may run or wait in each of its situations: behind another only in the page and after
  its X was clicked, nothing but the fading in while its timer is set, none and no timer once it was
  closed. It uses the same lemmas on effects.
* Modal: `SettledDialogHolds`, for any number of openings by a patient user. The page is opening,
  open, closing or closed (`Phased`), which says what is bound to the dialog, the element and the
  backdrop, and nothing is bound to a backdrop that has gone (`Bound`). What runs
  when a transition ends is the recursive function of `RunAll`; `RunOne` and `RunTwo` unfold it for the
  numbers of callbacks there can be.

Only model-checked:

* all properties under fairness: liveness and ENABLED are beyond this prover. Of `PromiseSpec` that is
  the fairness of Promise; its initial states and steps are proved;
* type correctness of FxQueue after `upset` and of Modal with a hasty user, about whom no
  property says more.

## 6. Where code and comments disagree

Two runs are expected to find a violation:

* `NullMaxLengthIsNoLimit` in `check_params_max_length`. `gateway/.../Parameter.java:14` says that a
  maxLength of null is not checked ("如果为null或者小于1则不做校验"); CheckParamsUtil unboxes it
  and throws, for a mandatory parameter (line 114) as for an optional one (line 164, that of the trace).
* `OnlyTargetRemoved` in `table_search`. `jquery.dataTables.js:5360` says "Remove the target row from
  the search array"; for a row that the search does not display, `inArray` (5361) gives -1 and
  `splice(-1, 1)` removes the last entry, which belongs to another row. A search that is then
  refined does not test the last displayed row, which stays though it does not match.

Other comments that the modelling showed to say more than the code does. The models follow
the code; these are not checked by runs of their own:

* `aio/ReadHandler_Server.java:12` speaks of half packets; the handler answers each part that a read
  delivers as an expression of its own.
* `io/ServerBetter.java:39` speaks of a new thread for each link; links queue up for two threads.
* `nio/ServerHandle.java:80` says that closing the selector releases what it manages; the
  channels stay open, and a second start on the same port ends the process.
* `redis代码/RedisUtil.java:24` says that a wait ends after MAX_WAIT with an exception; waits add up
  at the monitor, the time of connecting and validating (27, 44) comes on top, and the answer is null.
* `FezoStorageUtils.java:85` says that uploadFileOld returns NULL on failure; it throws (108).
* `CheckParamsUtil.java:129` says that an optional parameter is checked if it is given; one of type
  String is read with getString, which takes anything.
* `CommonInterceptor.java:116` looks the visitor's footer up under a key it is never stored
  under (119), so it is fetched from the portal for every request.

## 7. Not modelled

* The expressions and their evaluation, character sets, JSON text, HTML: data that no
  property depends on.
* Replies of the NIO server that do not fit the socket's buffer: the source says at the line that
  it does not handle them.
* Arguments of `export` and `refer` out of range.
* Two evaluations at once in the shared script engine: its behaviour is not in the repository.
* Of the client-side libraries, everything that is layout, drawing, formatting, DOM access or a
  single call of the browser: selectors, styles, charts, calendars, editors, widgets. They are
  vendored and make up 90 thousand lines of the repository, next to which the scripts modelled
  here, those with a protocol of callbacks, timers and answers, are a few hundred. A share of
  lines says little about this repository for that reason.
* `Callbacks.remove`, `empty` and its other options; `then` and `pipe`; queues other than "fx";
  dialogs with remote content or a static backdrop; columns, scrolling, saved states and regular
  expressions of the tables; in `pagination_new.jsp` the page numbers, which come from the server.
* `AddPointsInterceptor`, `AsyncServlet` and `ThreadPoolUtils`, the JMS examples, the Netty
  calculator, the TCP and UDP echoes, `DBUtils`, the memcached helper and the stored procedures:
  thin code over a service, a container, an executor, a broker, an event loop or a database that
  decides what happens. A model of them would be one of that other program; what the
  repository's own lines add is one call, or one loop without state. `PROJECT.json` says so of each.
* The other components marked `not_modelled` there: conversions without state, formatting,
  configuration, demonstrations of one library call.

## 8. What is left

The plan is done: the client/server family, RPC, the stores, the request filters, the page lists
and the scripts of the administration template. What could still be added:

* theorems: what is listed at the end of section 5, should a prover for liveness be at hand;
* the request-reply service also for the selector calculator with a patient user;
* other plug-ins with timers and transitions of bootstrap.js (carousel, collapse, tooltip), and
  the drag-and-drop of the template, if pages of this repository come to depend on them.

## 9. Running it

`tlc -config X.cfg M` for each run of `PROJECT.json` (`module`, `cfg`), and `tlapm M.tla` for
the eight `...Proofs` modules.
