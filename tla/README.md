# Cutelyst in TLA+

A verification development for Cutelyst: TLA+ modules translated from the C++
source, model-checked with TLC on small instances, and theorems about them
checked by TLAPS for every value of the constants. `PROJECT.json` maps every
definition to the lines it stands for, and lists the runs, the wrong variants
that each property catches, the findings, the hazards and the theorems.

## 1. The system and its parts

A Cutelyst process is a master that forks workers. Each worker runs one or more
`ServerEngine`s, each in a thread with its own event loop, its own `Application`
and its own sockets. Nothing is shared between requests except what is stored
outside of them: sessions, caches, databases. The hard behaviour is therefore
not lock-based concurrency. It is callbacks: what a handler may do between two
statements of another one, and what has become of the state when the event loop
comes back to a request.

| Component | State | Operations | Interacts with |
|---|---|---|---|
| Request dispatch and suspension (`application`, `dispatcher`, `controller`, `actionchain`, `context`, `async`) | action stack, reference count of `ASync` objects, queue of deferred actions, position in the chain, status flags | handleRequest, dispatch, execute, forward, detach, detachAsync, attachAsync, finalize | called by a protocol with a complete request; calls actions and plugins; answers through `EngineRequest` |
| HTTP/1.1 connection (`protocolhttp`, `socket`, `tcpserver`) | buffer and offsets, parser state, body, header of the connection, requests in progress, timeout mark | parse, readBody, processRequest, writeHeaders, processingFinished, resetData, disconnect, timeout, shutdown | bytes from Qt's sockets; hands requests to the dispatch |
| HTTP/2 connection (`protocolhttp2`) | frame buffer, streams, windows | one handler per frame type, doWrite, windowUpdated | as HTTP/1.1, several requests at once |
| HPACK (`hpack`) | the dynamic table, its size and its limits | decode, encodeHeaders | the header blocks of an HTTP/2 connection, in the order they come |
| WebSocket (`protocolwebsocket`) | phase, opcode, mask, collected message | parse, send, close | takes over an HTTP/1.1 connection |
| FastCGI (`protocolfastcgi`) | record buffer, one request | parse, writeBody | as HTTP/1.1 |
| Sessions and stores (`session`, `sessionstorefile`, `memcachedsessionstore`) | per request: stash of id, values, expiry; shared: the files | id, value, setValue, deleteSession, expires, save on afterDispatch | the cookie; a store shared by requests, threads and workers |
| Authentication, CSRF, StatusMessage | values in the session and the stash | authenticate, logout, beforeDispatch | session |
| Master and workers (`unixfork`) | children, restart counters, flags of the signals | createChild, respawn, restart, terminate, SIGCHLD | processes and signals |
| Server and engines (`server`, `serverengine`, listeners) | engines, started and running counts | start, workerStarted, shutdown, engineShutdown | workers, connections |
| Path matching (`dispatcher`, `dispatchtypepath`, `dispatchtypechained`) | tables built at start-up | registerAction, match, uriForAction | dispatch |
| Request and response data, multipart, validators, pagination, views, action roles, static files, language selection | none beyond the request | pure functions | actions |
| Event dispatcher (`EventLoopEPoll`) | timers and notifiers | Qt's interface | the kernel |

What makes each of them correct:

* **Dispatch**: actions start in the order Begin, Auto, action or chain, End;
  none starts while an asynchronous operation of an earlier one is outstanding;
  a request is resumed when the last operation completes, not before and not
  never; it is answered once; `afterDispatch` comes once, before the answer;
  nobody uses a `Context` that the engine deleted.
* **HTTP/1.1**: the application sees the requests as they were sent, however
  segmented and pipelined; the count of requests in progress is exact, so that a
  connection is neither released under a request nor kept for ever.
* **HTTP/2**: as above for every stream; windows never exceeded, every answer
  ended; no frame stalls the connection.
* **HPACK**: the table of the server follows that of the client, so that every index
  names the field the client meant.
* **WebSocket**: messages are delivered as sent; one close, one release.
* **Sessions**: a request sees what the previous one of the session stored; a
  deleted or expired session gives nothing back; cookie and store agree.
* **Workers**: the configured number of workers is restored after crashes,
  termination ends all of them, the exit code tells why.
* **Engines**: a shutdown waits for the last connection of every listener and no
  longer.
* **Event dispatcher**: no handler is called for what is gone, and nothing that is
  registered or posted is slept on.
* **Paths**: one action for a request, whatever the order of registration, and
  links that lead back.

## 2. Modules

| Module | Models |
|---|---|
| `ActionPlan` | abstract specification: what the dispatch promises about one request |
| `ContextDispatch` | the dispatch of one request with its asynchronous suspension |
| `ContextProperties` | its properties |
| `ContextInv` | its inductive invariant |
| `ContextDispatch_proofs` | the proofs, of the refinement too |
| `MCContextDispatch` | instance for TLC |
| `HttpConnection` | one HTTP/1.1 connection |
| `FastCgi` | a connection of a web server that speaks FastCGI |
| `HttpProperties` | the properties of both |
| `HttpConnection_proofs` | the proofs, for both |
| `MCHttpConnection` | instances for TLC |
| `Session` | the sessions of one client over the file store |
| `SessionClients` | the plugins that keep something in the session: status messages, authentication, CSRF protection |
| `SessionProperties` | the properties of both |
| `Session_proofs` | the proofs, for both |
| `MCSession` | instances for TLC |
| `WorkerPool`, `WorkerProperties`, `MCWorkerPool` | the master process and its workers |
| `Engines`, `EngineProperties`, `MCEngines` | one worker: the engines of its threads, their listeners and sockets |
| `WorkerPool_proofs`, `Engines_proofs` | the proofs |
| `Http2Connection`, `Http2Properties`, `MCHttp2Connection` | one HTTP/2 connection |
| `Http2_proofs` | the proofs |
| `Hpack`, `HpackProperties`, `MCHpack` | the header compression of an HTTP/2 connection |
| `WebSocket`, `WebSocketProperties`, `MCWebSocket` | a connection after the WebSocket handshake |
| `WebSocket_proofs` | the proofs |
| `EventDispatcher`, `EventDispatcherProperties`, `MCEventDispatcher` | the event loop over epoll |
| `EventDispatcher_proofs` | the proofs |
| `PathMatching`, `PathProperties`, `MCPathMatching` | the choice of the action, and links |

The models meet at their borders. `ContextDispatch` is what a connection calls when
a request is complete and what answers it, so `HttpConnection` and
`Http2Connection` have the answer as actions that come at once or later;
`Hpack` decodes the blocks that `Http2Connection` has as data;
`WebSocket` starts where `HttpConnection` hands a connection over; `Engines` reduces
a connection to whether a request is in progress, and its socket to the
`finished` the connection models prove to come once; `WorkerPool` reduces a worker to
a process that ends when it is told, which is what `Engines` shows.

Definitions whose comment says *wrong variant* are not part of a model: each is
the definition after it with a plausible bug, and breaks a property.

### 2.1 ContextDispatch

`pc` is where the thread is on behalf of the request: a signal handler of the
application (`beforePrepare`, `beforeDispatch`, `afterDispatch`), the loop over
the Autos, the action and End in `Controller::_DISPATCH` (`auto`, `main`, `end`,
`leave`), the body of an action (`run`), `ActionChain::doExecute` (`chain`), a
completion handler (`handler`), the loop of `Context::attachAsync` (`attach`),
or the event loop (`idle`). The stack of `Context` is a sequence of numbers of
the *plan*: the actions of the request in the order of the documentation. Which
actions these are is a matter of tables built at start-up, so their numbers
(`Autos`, `Chained`, `HasEnd`) are constants; the theorems hold for all of them.

The application is free: a hook, the body of an action or a completion handler
may construct and destroy `ASync` objects (copying one is the same object: the
reference count is on `ASyncPrivate`), forward, escape with `detach()`, upgrade to
a WebSocket, finalize the request, return true or false. An `ASync` that is alive
is in `held`; the event loop may deliver its completion whenever nothing runs.

`keeps` is chosen once: the test engine keeps the `Context` of a finalized
request, the protocols delete it, at once or when the connection goes.

`ActionPlan` has three variables (the last action started, whether the request
waits, how it was answered). `ContextDispatch` implements it with
`waiting <- refCount > 0` (`ImplementsPlan`).

### 2.2 HttpConnection

What a client sends is a sequence of symbols, one for the part of a line that
means something and one each for CR and LF, so that every place where a segment
can end is there, and the offsets of the code (`buf_size`, `last`, `beginLine`)
are the variables of the model. `pc` is the loop of `parse`, the reading of a
body, or the application working for the request. The application answers at
once, suspends the request and answers from a later event, or writes the response
itself. The peer, the idle timeout (two ticks, `timeout` is the mark of the
first), the shutdown of the server and the answer itself all may close the
connection; `Socket` counts requests in progress and emits `finished`.

`FastCgi` replaces the parser: what a web server sends are records, each a header, a
content and a padding, and `pc` is the loop of `ProtocolFastCGI::parse` (`read`), that
of `processPacket` (`packet`) or `readBody` (`body`), which reads the rest of a content
past the buffer and keeps the padding to be skipped in `buf_size`, as the code does.
`avail` is the `bytesAvailable` that `parse` counts down. The answers, the socket and
the properties are those of `HttpConnection`: `Finish` is given the protocol's own
`resetData`. `EitherSpec` is a connection to a listener of either protocol.

### 2.3 Session

The requests of one client, each with the stash `q` that the plugin and the store
keep in its `Context`, the cookie of the client, and the files of
`SessionStoreFile`. A call of the plugin does not return to the event loop and
opens at most one file, so it is one step; its functions are operators from stash
to stash, one for each function of `session.cpp`, and the lazy loading (`triedId`,
`triedExpires`, `extended`, `loaded`) is in them as it is in the code. Between
two calls other requests run, on the same thread or on another thread or worker.

A file is an inode with a name in `dir`, because the store keeps the file open
from the first look at a session to the end of the `Context`: another request may
remove it meanwhile, and writing to it then brings nothing back. `conns` holds the
contexts that the store has connected to `afterDispatch`, in order. The
emission of any request of an application runs the saving of all of
them, of suspended requests included, but not the ones that are connected during
the emission (`Emit` takes `conns` before the plugin's own handler ran). What a
handler saves is the stash of its own context (`Handled`).

A session has one value (its keys together), the peer it was created for (the verification of address
and user agent is on) and, for the properties only, its owner: the id it was
created with. `Scenarios` says what client and application do (`Habits`):
return, move, overlap, spread over threads, keep contexts alive after the answer,
ask for the expiry, delete after an update; and what they may do that the code
does not stand: not look at the session, delete it unseen, store after deleting.

`SessionClients` adds the plugins. A call of one of them makes several calls of
`Session` and is one step; what it stores is a part of the one value of the session
(`Contents`), read by `Held` and written by `Put`, which are `Session::value` and
`setValue` on the stash. `page` is what a plugin keeps in the stash of the request:
the user, the secret of the forms, whether `beforeDispatch` ran and what the
answer was when `reject` sent it. `cookie` is the one of the forms, which expires by
itself. `login`, `untold` and `valid` say what the session should hold, and no code
has them. A token of a form is the secret it was salted from, since two tokens
are compared without their salt. That the key of `Authentication` for the realm and
that of its realms are two, and that `logout` deletes one of them, is in
`PersistUser` and `Logout`. A user is restored in `RealmOf`: `user` asks for a realm
without a name, which stands for `AuthenticationPrivate::defaultRealm`
(`authentication.cpp:112`, `:177-180`, `:192`). Nothing assigns that member
(`authentication_p.h:37`; the constant `Authentication::defaultRealm` is another one), so
that the name is the empty one and no realm has it, and the session says which realm it
is. `DefaultRealm` is a constant all the same, for an application that adds a realm of
that name: all users then come back in it.

### 2.4 WorkerPool

`pc` is where `internalExec` is: forking (`CreateProcess`), in the event loop, or
gone. `childs`, `recreate`, `terminating` and `count` are `m_childs`,
`m_recreateWorker`, `m_terminating` and the static counter of `handleSigInt`. A signal
handler only writes a byte: `pipe` holds the bytes, `ReadSignal` is the slot that
reads one, and `posted` the `handleSigChld` it posts. A worker is a process from
`fork` on, but shares the socket pair of the master until it made its own
(`WorkerStarts`): a signal that arrives earlier ends in the master's pipe, as in the
code. Workers die, give up with status 15, hang, and end when they are told
(`WorkerFails`, `WorkerHangs`, `WorkerExits`). The timers are actions: the check of
the restarted workers, the delayed restart after a changed file, and the two of
the escalation from SIGQUIT to SIGKILL.

### 2.5 Engines

The main thread and the others process queued events, `q`: `postFork`, `shutdown`,
`started`, `completed` (`shutdownCompleted`), `finished` (of a thread). A handler
is one step; between two of them other threads go on. `runningServers`,
`serversTimeout` and `timer` are the counts of `ServerEngine`; `sock` has for each
connection the engine and listener that own it, what is done on it, and how many
slots of `TcpServer::shutdown` watch it. With `balancer`, the main thread accepts and
queues the descriptor to another engine, which may have been told to stop
meanwhile (`Balance`, `Take`).

### 2.6 Http2Connection

A client that keeps to the protocol is part of the model, with its own view of
the windows, because what the server must accept is defined by what such a
client may send. The first of `wire` is the preface, or on a direct connection
another protocol, which closes it; the rest are frames; `Parse` is one turn of the loop over the
frames, with one operator for each type. The fields of `ProtoRequestHttp2` and
`H2Stream` keep their names. `doWrite` waits in an event loop of its own: `stack` has
the streams that are in it, and only the innermost may go on (`Innermost`), while frames
and other requests are processed by the nested loop. `Habits` names what a
client of the runs may do besides; what is excluded is in section 5. Frames that
change nothing (PING, PRIORITY, unknown ones, the settings for push) are left out,
and one that the protocol forbids ends the connection as `Disconnect` does. The `form` of
a frame is one of the habits that show in it: cut by the end of a segment, padded, or larger
than the smallest limit. Padding is kept for DATA, where it changes what is received
(`Unpadded`: one byte more than was sent); of HEADERS it is removed and is part of the
layout. `TooLarge` compares a frame of headers with the limit that the client asked
of the server.

### 2.7 Hpack

The client encodes as RFC 7541 lets it: `encoder` is its table, `block` the
representations of the header block it is making, of which each has its integer in the
bytes that `EncodeUInt16` gives it. `Decode` is `HPack::decode` of a complete block: a fold of
`DecodeOne` over it from the table that the last block left, whatever stream that was
of. The numbers are those of the code (61 static entries, prefixes of 4 to 7
bits, 32 bytes of overhead, 16 bits); strings have a length and nothing else. `habits`
is chosen once and says what this client does besides (section 5).

### 2.8 WebSocket

The bytes of a script of frames arrive in any segments. `ReadyRead`, `Reads` and
`StopsReading` are the reading of a full buffer at a time, `Parse` one turn of the
loop over the four phases; `message`, `startOfFrame`, `continueOpcode` put fragments
together. A payload is made of characters of one byte and of two, so that a
segment or a fragment can end inside a character. A header says whether the frame is
masked; a reserved bit and a reserved opcode are the opcode `invalid`, since with either
the code refuses the frame and does not take it for a close. `RefusesHeader` has all that
is refused in a header, after the opcode was stored, and `ReadSize` refuses what is larger
than `websocket_max_size`. The application may close, the
client may close or be lost; `cause` says who came first and `finished` counts the
signal the listener waits for.

### 2.9 EventDispatcher

`stack` has the calls of `processEvents`: in which of its stages each is (posted
events, zero timers, the batch of `epoll_wait`), what is left of the batch, and
which handler runs. A handler may register and unregister timers, register,
disable and delete notifiers, and call `processEvents` again, which may exclude
notifiers or timers. `refs` are the reference counts of `EpollAbastractEvent`,
`active` and `timer` the two kinds of timer, `watched` the masks in epoll. The other
thread posts an event, swaps `m_wakeups` and writes the eventfd in three steps, and
so does the loop read it: the eventfd, then the counter.

### 2.10 PathMatching

Actions are registered one by one in any order (`RegisterPath`, `RegisterChained`),
requests are served at any moment of it. `NextLevel` is one turn of the loop of
`prepareAction`, which takes parts off the path; `RecurseMatch` is the recursive search
of the tree of chains. The search has a RECURSIVE operator, so that this module is
only model-checked. `PathProperties` says what is expected without searching, over the set
of all chains. `UriFor` makes a link and `Follow` sends it.

## 3. What is checked

| Run | Question | Result |
|---|---|---|
| `context_safety` | do order, suspension, resumption and answer of a request agree for every interleaving? | holds |
| `http_connection` | are requests seen as sent and connections released once? | holds |
| `session` | does a client find what it stored, is a deleted session gone, and are user, messages and forms those of the session? | holds |
| `session_delete` | ... when a request deletes its session without having looked? | no, it is still there |
| `workers` | does every worker come back, and does a master that is told to stop leave none behind? | holds |
| `engines` | does a worker wait for its connections, and then exit? | holds |
| `http2` | are legal frames accepted, requests dispatched as sent, answers within the window? | holds |
| `http2_segment` | ... when a read ends inside the header of a frame? | no, the thread loops |
| `hpack` | are fields read as they were sent, and legal blocks accepted, for every course of the two tables? | holds |
| `websocket` | do messages arrive as sent, is the end told once and the socket released? | holds |
| `event_dispatcher` | do handlers that change the sources, and another thread, leave the loop intact? | holds |
| `path_matching` | is the action the one the paths say, and do links lead to it? | holds |

The runs that are expected to fail are the findings, see section 6.

**Dispatch.** `NoLostWakeup`: a request the thread leaves is answered or has an
operation whose completion resumes it. `NothingSkipped`: the deferred rest of the plan
is complete and in order, whatever was suspended where, and `afterDispatch` is
emitted once at most. `NoDanglingContext`. `ImplementsPlan`: refinement of
`ActionPlan`. `EventuallyAnswered`: liveness. Proved, and no longer run: `RefCountExact`,
the count is the number of live `ASync` objects, and `StartsInOrder`, which the
refinement implies.

**HTTP/1.1.** `SeenAsSent`: the requests handed to the application are those the
client sent, in order, once, with their own headers and body. `FinishedOnce`. `EventuallyDispatched`,
`ShutdownCloses`, `ClosedIsReleased`: liveness. The same is required of
FastCGI. That the count of requests in progress says whether an answer is outstanding,
`ProcessingExact`, is proved (section 4) and not run.

**Sessions.** `StoredIsKept`: what a client's last request left in the session is
what the next one reads, as long as the cookie is valid. It relates the three
expiry times (cookie, store, stash) to the order in which the plugin and the
store handle `afterDispatch`. It is claimed for requests that do not overlap: the
store reads a session once and writes all of it back, and as even a reader writes
when it extends the expiry, overlapping requests do lose values. `DeletedIsGone`:
a request that starts after a deletion was answered reads nothing from that
session, though overlapping requests had it open, changed it and saved it later.
`StoredUnderOwnId`: no file holds the data of another session.

Of the plugins, for requests that do not overlap and lost no session:
`UserAsAuthenticated`, the user a request sees is the last one who logged in, in the
realm of that login, or nobody after a logout, whatever the stash and the keys of
earlier logins hold (in an application that adds a realm of the empty name: in that
realm); `MessageOnce`, a message is shown to the first request that asks
for it and to no other; `FormAccepted`, a form is accepted exactly when it was made in
the session, or for the cookie, that it comes back with.

**Workers.** `WorkersAccounted`: until the master terminates, each configured
worker is known under one pid, queued once for a fork, or gave up; and every
process that was not reaped is known, so that its death will be. `NoOrphan`: the
master neither leaves a running worker it never told to stop nor forks after it was
told itself. `TerminationEnds`, `WorkersReturn`: liveness. `WorkersReturn` excuses a
signal from outside, and the one reload that section 5 names.

**Engines.** `WaitsForSockets`: no thread quits and the process does not exit under an
open connection. `TimeoutRuns`: the timer of idle connections runs while there are
any, though every socket starts it and only the last one of a listener stops it.
`ReadyWhenStarted`: `ready` is emitted once, by the last engine, and never if one
failed. `ShutdownExits`: liveness.

**HTTP/2.** `LegalFramesAccepted`: no GOAWAY for a client that keeps to the protocol.
`DispatchedAsSent`: a request is dispatched when its stream ended, with all its
headers and body. Both for a client that does not pad its data nor sends large frames of
headers (section 5). `StreamWindowRespected`: judged by the client's own account of what
it allows. `EventuallyAnswered`: also with answers that wait under
others in nested loops, and when the connection ends meanwhile.

**HPACK.** `FieldsAsSent`: a request has the fields its client sent, or is refused;
`LegalBlocksAccepted`: it is not refused when the client keeps to the format and to what
section 5 says.

**WebSocket.** `MessagesAsSent` compares what the application got with what the frames
that were sent mean, put together one after the other (`Assembled`). `EndToldOnce`: for
every client of the run, those included whose frames are refused, but not for one whose
whole close frame is (section 5). `EventuallyDelivered`: what precedes the first frame that
may be refused (`Accepted`, `Due`) is delivered. `ClosedIsReleased`.

**Event dispatcher.** `HandlersAlive`: no handler is called for a source that was removed
earlier in the batch. `NoLostWakeUp`: the loop does not sleep on a posted event unless
the other thread is about to write. `NothingForgotten`: what is registered is
waited for when no call on the stack excludes it. `RefsExact`, that an info lives exactly
as long as a registration or a batch holds it, is proved and no longer run.

**Paths.** `PathChosen`, `ChainIsBest`: the search finds what a reader of the
registered paths expects, at every stage of the registration. `LinksLeadBack`: a link
leads to its action with the captures and arguments it was made with, or to one
that documentedly precedes it.

`TypeOK` of a module documents its types. Those of `ContextDispatch` and
`EventDispatcher` are proved; the others can be added to the cfg of their run, where
they hold.

### Bounds, and why they are enough

* `ContextSafety.cfg`: two Autos (one before which, and one after which, a
  suspension can happen), a chain of two (suspended before, between and after its
  members), an End; two `ASync` objects, so that completions come in both orders
  and one may be constructed while another is released; two forwards under a
  `RECURSION` of 3, so that a forward in a forward in the chain meets the limit.
  The theorems do not have these as bounds: they are proved for any number.
* `HttpConnection.cfg`: two requests, of every kind of connection header and
  with a body of two units (which may be in the buffer, split, or still in the
  socket), or one that cannot be stored; a buffer of 16 symbols, which holds any
  request and two short ones, but not all of two long ones: what is pipelined then has
  to be moved to the start and refilled. See section 5 for other sizes. With FastCGI, two
  requests with and without a body of two units and a padding, of which the last may end
  the connection: a segment may end anywhere but in a padding, so that the body is
  in the buffer, behind it, or in parts.
* `Session.cfg`: four requests, the first of them in the past, so that two overlap
  with a third that deletes, or a fourth comes after all of them; a lifetime of one
  tick and three ticks, so that a session expires, is extended near its end, and is
  used in the second in which it expires; one session per request, two addresses,
  two threads. Each scenario combines the habits that can disturb each other. The
  plugins have three requests: one that logs in, notifies or makes a form, one that
  does so again or undoes it, and one that sees; two users and two realms, so that each
  may stay while the other changes; and three ticks where a cookie or the session
  has to expire between a form and its return.
* `WorkerPool.cfg`: two workers (a death during the restart or respawn of the
  other), two deaths or hangs, one signal to the master from outside (those sent to
  workers that have not started come back to it as further ones, so that the
  escalation reaches the fourth), one changed file, one check before a restarted
  worker is killed.
* `Engines.cfg`: two engines, two listeners each, two sockets, so that a listener
  without and one with a connection shut down in both orders, and the timer is
  started by one listener and stopped by another; each engine may fail to start.
* `Http2Connection.cfg`: two streams, two frames on their way, windows of one to three
  units with answers of one and three: an answer fits, has to wait for its own
  window, or for that of the connection which the other stream used; the client
  changes the initial window and the largest frame while streams are open
  (`ServerFrame` is no smaller than any). Either
  protocol comes first, and the connection may be an upgraded one.
* `Hpack.cfg`: any number of requests, of three fields at most and trailers, in blocks of
  two representations; one to three entries fill the tables, of sizes below, equal
  to and above what the client begins with, and the client changes its size to
  nothing and back. Indices reach into the second byte of every prefix but that of
  an indexed field, which would take 66 entries.
* `WebSocket.cfg`: every legal script of three frames over all opcodes, fragments,
  empty and non-empty payloads, and characters of two bytes; `ShortSize` and
  `BufferSize` of 1, so that the extended size and the refilling of the buffer
  happen; all segmentations. Three frames are a message in two fragments with a
  control frame between them. Besides, one frame of each kind that is refused, for its
  mask, opcode, fragmentation, length of a control frame, or size (`MaxSize` is 2), between
  two messages and within one.
* `EventDispatcher.cfg`: a timer, a zero timer and a socket with both directions,
  which is a source of each kind and two notifiers that share an info; a nested call
  that waits and one that excludes; two posts, so that the second meets the reset of
  the first.
* `PathMatching.cfg`: every order and prefix of the registration of nine actions: an
  exact one and one that conflicts with it, two with any arguments, and chains that
  differ in captures, parts and arguments; all paths up to four parts over two
  names. Nine are as many as have a pair of each kind of conflict.

### Fairness

Code that was entered goes on, in all modules. Besides:

* `ContextDispatch`: each operation that holds an `ASync` completes: the contract of
  `async.h`, the request waits as long as the application holds the object.
* `HttpConnection`, `FastCgi`: Qt delivers a `readyRead` for a socket that has data, a suspended
  request is answered. The client, its disconnect, the timeout and the shutdown
  are not fair.
* `WorkerPool`: timers fire, a byte in the pipe is read, a process that was forked gets
  to run, a worker that was told to stop and does not hang stops. Deaths, hangs,
  signals and changed files are not fair.
* `Engines`: the queues of the threads are processed; a request is answered; a socket
  that is closing is closed. Clients are not fair: an idle one is closed by the
  shutdown itself.
* `Http2Connection`: suspended requests complete; the client opens windows again and
  again while an answer waits (strong fairness: it may be disabled between, when the
  wire is full), and finishes a header block that it began.
* `WebSocket`: what the client sent arrives, handlers return, a closing socket is
  flushed.

`EventDispatcher`, `PathMatching`, `Hpack` and `Session` have safety properties only; that the loop
does not sleep on an event is `NoLostWakeUp`.

## 4. What is proved

`ContextDispatch_proofs` proves, for every plan, every finite set of `ASync`
objects and every limit, and without any assumption beyond the named ones of
`ContextDispatch` (types of the constants, finiteness of `ASyncs`):

| Theorem | States |
|---|---|
| `InductiveInvariant` | `Spec => []IInv` |
| `TypeCorrect` | `Spec => []TypeOK` |
| `CountsASyncs` | `Spec => []RefCountExact` |
| `WakeupNotLost` | `Spec => []NoLostWakeup` |
| `QueueInOrder` | `Spec => []PendingInOrder` |
| `ActionsStartInOrder` | `Spec => StartsInOrder` |

None of these is inductive. That the queue is ordered depends on where the
dispatch stands when it appends and on the chain being at the bottom of the stack
when it prepends; that no wake-up is lost depends on the flag `Async` being set
whenever the dispatch leaves with a positive count. `IInv` says so in parts, and
`ContextInv` names them: `CountInv` (who counts), `StackInv` (an action chain only
at the bottom), `DispatchInv` (where the dispatch stands and what was started),
`DeferInv` (once something is deferred, everything after it is), `ChainInv` (a
running chain is not queued and only End is behind it), `QueueInv` (what may be
queued at each point), `WaitInv` (when the request is suspended and resumed).
The proof has one lemma for each action, grouped by the parts it can disturb, and
lemmas on sequences (append, prepend and tail of an ordered queue).

Three theorems of the same module have a condition on the application, that no
handler of `afterDispatch` uses an `ASync` (`~AfterHookASync`, see section 5):

| Theorem | States |
|---|---|
| `ImplementsThePlan` | `Spec => ImplementsPlan`: the refinement of `ActionPlan` |
| `NothingLeftOut` | `Spec => NothingSkipped` |
| `ContextAlive` | `Spec => []NoDanglingContext`, if also `~FinalizeWhenFreed` |

Under it `attachAsync` is never nested (`depth` is 0), so that an answered request is in
the event loop or in a completion handler, and on the way to an answer nothing is
outstanding (`AnswerInv`). A step that starts an action is then one of a request
without an answer, and one that answers comes after what was started has completed.
`NothingSkipped` has an invariant of its own, `SkipInv`. As long as nothing failed, what
was started is followed, without a gap, by what is queued, up to what the dispatch has
handed out; a running chain stands between the two (`GapInv`). It depends on what returns
FALSE to the dispatch having failed (`BaseInv`), on the queue being empty when
`afterDispatch` comes, which it does once (`EmptyInv`), and on a request without an action
queueing nothing (`UnmatchedInv`).

`EventDispatcher_proofs` proves, for any finite or infinite sets of sources, any
depth of nested calls and any number of posts:

| Theorem | States |
|---|---|
| `TypesKept` | `Spec => []TypeOK`; the counts stay natural numbers |
| `ReferencesExact` | `Spec => []RefsExact` |
| `WakeUpsKept` | `Spec => []NoLostWakeUp` |
| `HandlersOfTheLiving` | `Spec => HandlersAlive` |
| `AllWaitedFor` | `Spec => []NothingForgotten` |

`RefsExact` is a count over all the calls on the stack. It survives a step because a
step changes the top call only (`FramesOK`: of which batch a handler may run,
and that the calls below are in one) and what it takes out of the batch or
registers is one reference. `UsedOK` keeps the numbers of notifiers apart from those
that are gone, and `WakeOK` says where the wake-up of a posted event is: still
to be sent by the loop, to be swapped, to be written, or in the eventfd.
`HandlersOfTheLiving` follows from `RefsExact`: a count of one within the batch says
that the registration is gone, and the only other holder would be an outer call.
`NothingForgotten` is inductive on top of `IInv`: a call that excludes something is on
the stack until it has put it back, and a timer whose handler returns is armed
again if it is still registered, because the batch that holds it is then a second
reference and `canProcess` true.

`HttpConnection_proofs` proves, for either protocol, any client and any habits of the
application, those that the runs leave out included:

| Theorem | States |
|---|---|
| `AccountsKept` | `EitherSpec => []IInv` |
| `ReleasedOnce` | `EitherSpec => []FinishedOnce` |
| `CountedWhileOpen` | `EitherSpec => [](finalized \/ ProcessingExact)` |
| `RequestsAsSent` | `EitherSpec => [](Orderly => SeenAsSent)` |
| `CountedExactly` | `EitherSpec => [](Orderly => ProcessingExact)` |

The invariant of the first three has nothing about the bytes that arrive. `SuspendInv` says
that a suspended request keeps the thread out of the parser, without which a second
request would be counted; `CloseInv` that a status is only left finalized on a connection
that its answer closes; `CountInv` and `ReleaseInv` relate the count and the
release to these. After the answer that closes the connection the count depends on the
parser not beginning another request, which is about the bytes.

The last two are about HTTP/1.1 and follow every symbol, for streams of any length, any
`BodyLen` and any `BufferSize`. `Orderly` leaves out what `MCSplitLine`, `MCPipelineClose`
and an unlucky `BufferSize` show to go wrong (section 5); all scenarios of the run that
speak HTTP are orderly. Of the text, `TextInv` says that the requests lie in it one behind
the other (`TextIsEncoded`, by induction over the stream: `Text` joins them with
`FlattenSeq`), and `LineAt` and `BlankAt` where their lines are. Of the window, `ReadInv`
says that nothing was read that ends between CR and LF, and it begins where the current
request does. `PhaseInv` says what the fields of `ProtocolData` hold while the
parser is at a line (`AtLine`), reads a body (`InBody`), has all of a request
(`Complete`) or has handed it over (`InApp`): then the window ends its
first request at `last`, which is where `resetData` lets the next one begin. An answer
that closes leaves nothing that is taken for a request (`Done`): an empty rest, or
the state `ContentBody`, in which lines are skipped.

`WorkerPool_proofs` proves, for any number of workers, deaths, signals and changed
files, `ProcessesKnown` (`Spec => []IInv`) and `LeavesNoOrphan`
(`Spec => []NoOrphan`). That no worker is left behind needs that the master knows every
process that it did not reap (`KnownInv`: the table of children is complete until
the master goes), and that all that run were told when it began to terminate and
none is forked after that (`ToldInv`). `EveryWorkerAccounted`
(`Spec => []WorkersAccounted`) needs that no worker is twice in the table, twice in
the queue, or in both (`UniqueInv`), and that a worker which is not to restart ends only
because the master terminates or because it gave up (`StoppedInv`): each leaves the
table then for good, and in all other cases for the queue (`KeptInv`).

`Engines_proofs` proves, for any finite set of engines, any listeners, sockets and
signals, `StartsCounted` (`Spec => []IInv`) and `ReadyOnce`
(`Spec => []ReadyWhenStarted`). `workersNotRunning` is the number of engines that the
main thread has not heard of (`CountInv`): those that have not started and those
whose `started` is in its queue. That an engine starts once, and its message is queued
once, needs that a `postFork` is only ever the first event of a queue and that of
an engine that has not started (`Kept`).

`TimerWhileOpen` (`Spec => []TimeoutRuns`) has no condition: every socket adds to
`serversTimeout` and only the last one of a listener takes from it, so that the count
is at least the number of listeners with a connection (`TimerInv`), whatever else it is.
`ShutdownWaits` (`Spec => []WaitsForSockets`) is proved under `ToldOnce`: one signal at
most, none to a worker that balances, and no listener that looks for sockets of
another type. Each of these is a fault of the code without which the property fails
(section 5). The argument is one count: an engine that was told has as many
`runningServers` as it has listeners with a connection (`RunningInv`), because each
socket that was open then is watched once (`SocketsInv`) and no listener accepts any
more; an engine with running listeners is not told to quit (`LivesInv`).

`Session_proofs` proves, for any number of requests, sessions, threads, values and
scenarios, and with the plugins:

| Theorem | States |
|---|---|
| `OwnFile` | `ClientsSpec => [](NeverLate => StoredUnderOwnId)` |
| `NothingComesBack` | `ClientsSpec => [](Careful => DeletedIsGone)` |
| `KeptUntilRead` | `ClientsSpec => [](Attentive => StoredIsKept)` |
| `LoginKept` | `ClientsSpec => [](ByPlugins => UserAsAuthenticated)` |
| `MessagesShownOnce` | `ClientsSpec => [](ByPlugins => MessageOnce)` |
| `FormsChecked` | `ClientsSpec => [](ByPlugins /\ Protective => FormAccepted)` |

`NeverLate` leaves out applications that store values in a session after they deleted
it. The invariant (`SessionInv`) says that a file and its inode belong to one session
for ever, in the directory, in the stash of every request that has it open and in the
content; an inode that a request may still create is nobody's (`UnusedInv`), which is what
keeps apart requests that remove and create the same name.

`Careful` leaves out besides applications that delete a session without having looked
at it (the finding), that delete it after an update in the same request, and requests
that make no session call. TLC shows a violation of `DeletedIsGone` for each of these:
the first and the second, when requests overlap, put values into the session again after
the deletion; the last is extended by the plugin from a stash that the store does not
save in that emission. The argument follows the flags of a stash (`Tidy`): a request that
deletes the session of its cookie has looked, so it has the file open and is
connected to `afterDispatch` (`SeatInv`), and the emission removes the file. A request that has the
file of a deleted session open, as the inode it is now, has it empty (`HiddenInv`,
`Fenced`); one that has another inode writes to a file without a name. A dead session was
sent to the client before it died (`DeadInv`, `ClientInv`), so that no later request
makes it anew.

`Attentive` leaves out requests that make no session call, that delete a session without
having looked at it, and that store values after they deleted one; TLC shows a violation of
`StoredIsKept` for each. Deleting after an update, changes of the expiry, moves of the
client and any number of threads are all in. The invariant (`KeptInv`) is about
requests that do not overlap. Between two of them the client `Agrees` with its file: both
are empty, or the file holds the client's value and address and expires no earlier than its
cookie. While one is served (`Served`), its stash carries this agreement: what it copied
from the file is what the file still has, or is marked to be saved (`Copied`); what it
remembers of the steps it took fits the order they have to be taken in (`Flags`);
a deleted session is loaded, empty and marked (`Emptied`); the cookie that is sent lives no
longer than the expiry that was stored (`Sends`); and the file it looked at had not expired
(`Current`). The emission of `afterDispatch` then writes what the client is about to be told
(`After`), whichever of plugin and store handles it first. The calls of the plugins
matter only through the two stashes they leave: `Drawn` and `Turned` say which these can be.

`ByPlugins` is `Attentive` for an application that stores in its sessions by the plugins
alone: a value that it stores itself replaces, in the model, all the keys of a session, the
keys of the plugins included. `Protective` leaves out unprotected actions and malformed
cookies, for each of which TLC shows a violation of `FormAccepted` (`MCIgnore`, `MCMangle`).
The three theorems stand on `KeptInv`, which says that what one answer leaves is what the
next request finds; what it does not say is that this is right. `PluginInv` says so, with
`login`, `untold` and `valid` as what the session should hold. A session `Fits` if its user
and realm are those of the last login, its messages those that were not shown, and the forms
of its secret those that belong to it (`Suits`). The argument follows what a request `Finds`
in its session, which is the same before it has looked (in the client's session) and after (in
the stash of the plugin), so that a look, or a change of the expiry, changes nothing the
plugins rely on. As long as a request has lost no session, what it finds fits and what it was
told is true (`Attends`), and what `afterDispatch` sends the client fits (`Delivers`), so that
it fits when the next request begins. A deletion that loses no session is that of a request
that had none (`Lost`). A secret is named after the request that made it, and only one that
has come to its dispatch has made any (`Made`): the secret that a dispatch makes is therefore
no form's yet. With the secrets in a cookie the same holds of the secret that was sent with
the request, which the page keeps and the answer may send again. The proofs need that
no user is `None`, that no request is, and that what the plugins can store is a value of the
session (`ClientsConstants`); TLC evaluates this in the runs of `MCSession`.

`Http2_proofs` proves, for any number of streams, frames on their way, windows and
requests, `WindowsRespected` (`Spec => []StreamWindowRespected`), if answers are
written by one call each, segments end between frames (the second finding) and the
client lowers no initial window under open streams (section 5). What the client allows
and what the server knows of it differ by the frames on their way, so that no relation of the
two is an invariant. `WindowInv` says that every stream `Follows`: there is a sequence of
*views* along the wire, each the phase of the stream, the initial window and its own
window, of which the first is what the server knows now, the last what the client
knows, and each the previous one after one frame was read (`Moves`). A client that sends a
frame adds a view at the end, a server that reads one drops the first, and one that
sends data subtracts it from all: as every view is at most what the client counts
(`streamCredit`), so is what is sent.

`DispatchesWhatWasSent` (`Spec => []DispatchedAsSent`) has one condition, that data is
not padded (`NoPadding`: the code adds a byte to the body for each padded frame). No other
habit of the client, not even a segment that ends within a frame, makes the application
get a request before its stream ended, or with less or more than was sent. The argument is of the same
kind. A stream `Arrives` by *stages* along the wire, each the phase of the request and
what is left of its body, of which the first is what the server read (`AtServer`) and
the last what the client sent; a frame leads from one stage to the next (`Goes`), and no
stage goes back (`Rank`). A frame that ends the stream therefore finds all of the
rest in the hash, and what is queued is complete (`AskedInv`), also when the stream is
closed or the window is changed while it waits. `headersBuffer`, which the code does not
clear, needs an invariant of its own: it is empty or has a path (`BufferInv`). If it has
one that belongs to no block in progress, the block that follows has two, which
`validPseudoHeader` refuses: the connection ends (this is the habit `continues` of
section 5), and the fields of one request never reach another.

`WebSocket_proofs` proves, for any scripts of frames, sizes and segmentations,
`MessagesDelivered` (`Spec => [](Lawful(script) => MessagesAsSent)`), with all the
habits. `Lawful` is about the frames alone: each of them is `Accepted` (masked, of a known
opcode, no larger than `MaxSize`, and if it is a control frame whole and short); the client continues what it has
begun, begins nothing else meanwhile, ends with its close frame, and puts no character of a text in two
frames (section 5); all the scripts of `MCLegal` are lawful. The argument has three parts.
`Assembled` and the bytes of a script are computed along its frames (`FoldExists`), so that
frame `i + 1` lies between `Until(i)` and `Until(i + 1)` (`FrameAt`) and the messages of `i`
frames are the first of all (`MessagesGrow`). The parser is between two frames (`Rests`) or
within one (`Reading`): the place in the bytes fixes the phase, what was read of the frame
and what was collected of the message, however the bytes arrive. And a complete
frame adds to what was told of and kept what it adds to `Assembled` (`CompleteAdds`), for
which a text has to be decoded as it was meant: valid texts joined are valid
(`ValidJoined`), and what was not yet decoded of the message is the fragment
(`startOfFrame`). In particular nothing is refused.

It also proves `EndOnce` (`Spec /\ []Orderly => []EndToldOnce`), if the client has none of the
excluded habits and is `Orderly`: its close frame is not in fragments and not refused,
nothing arrives behind it, and it comes after no frame that was refused. Other frames may
be refused. Every client that is `Lawful` is orderly: `LawfulEndOnce`
(`Spec => [](Lawful(script) => EndToldOnce)`) follows from `EndOnce`'s invariant and the
place in the bytes. Without this the code tells the end twice, or not at all: `finnOpcode` is
compared as a whole with an unfragmented close, is overwritten by the next header, and is
stored before a header is refused. A close frame that was read has no extended size
(`SizeInv`), or it would be refused after it counts as told.
The invariant relates the socket, the count of what is in progress and the last opcode in
each of the three phases of a connection (`OpenInv`, `ClosingInv`, `ClosedInv`).

Only model-checked: of safety, `SeenAsSent` of FastCGI, `LegalFramesAccepted`, and the
properties of `Hpack` and `PathMatching`; and all liveness. Out of reach of the prover are
liveness under fairness, and `PathMatching`, whose search is a RECURSIVE operator. The
library's induction theorems cannot be instantiated by the provers; that the natural numbers
are well-founded can be used without them (lemma `Induction` of `HttpConnection_proofs` and
of `WebSocket_proofs`), which the fold of `Hpack` over blocks would need too
(`FieldsAsSent`, `LegalBlocksAccepted`).

## 5. Preconditions of the runs

Every precondition below is a parameter. Changing it in a cfg as said here shows the
violation that it excludes; the definitions named are in the MC modules.

* `context_safety`: `AfterHookASync = FALSE`: a handler of `afterDispatch` that
  constructs and releases an `ASync` re-enters `attachAsync`, which the comment at
  `context.cpp:358-362` knows about. `FinalizeWhenFreed = FALSE`: actions do not
  finalize a request whose `Context` the engine then deletes; an action that did would
  return into a deleted object. The theorems of section 4 assume neither, but
  `ImplementsThePlan` and `NothingLeftOut` the first and `ContextAlive` both. Two things the model has and
  no property requires: End is dropped when a resumed action fails
  (`context.cpp:383`), and a WebSocket handshake is followed by no `afterDispatch`
  (`application.cpp:397`).
* `http_connection` (`Scenarios <-`): `MCPipelineAsync`, a request pipelined behind an
  asynchronous one, is stuck (`EventuallyDispatched`): `processingFinished` tests
  `status & Async` after `resetData` has cleared it. `MCPipelineClose`: the parser
  goes on in the state that the answered request left (`SeenAsSent`). `MCSplitLine`, a
  segment that ends between CR and LF: the search goes on behind the CR
  (`EventuallyDispatched`). So does a `BufferSize` whose end falls between
  the two in what a client pipelines (10, 12, 14, 17; `SeenAsSent` at worst), and a head of
  more than `BufferSize` symbols is never answered. A streamed answer without a length does not close the
  connection: `Close` is compared with `close` (`protocolhttp.cpp:358`).
  With FastCGI, `MCFcgiPadding`: a segment that ends in the padding of a record stops the
  worker, as `memmove` is given a negative size (`protocolfastcgi.cpp:246`; a deadlock of
  the model). `MCFcgiRaces`: bytes that arrive within `parse` are taken for the start of a
  record while a content is incomplete. `MCFcgiPipelines`: a request in the buffer behind
  an answered one is parsed when more bytes come, not before. The last two violate
  `EventuallyDispatched`.
* `session` (`Scenarios <-`): `MCIdle`, a request that makes no session call: the
  plugin extends the session in its own handler of `afterDispatch`, and the saving
  that the store connects there misses the emission (`StoredIsKept`). `MCLate`, a value
  set after `deleteSession`: the stash of the store is not keyed by the session
  (`StoredUnderOwnId`). I/O on the files succeeds, and two calls do not meet inside one
  read or write (the lock file sees to that). A session found to have
  expired is reported with the expiry 0, which is a value, and so as a valid one to
  the rest of the request (`ReturnsExpires`); no property is about that. `MCIgnore`, a
  form on an action that the protection ignores, and `MCMangle`, a client whose cookie
  is malformed: the page has a secret that is not kept (`FormAccepted`).
* `workers`: no property requires a restart after a changed file: `LeaveExec` stops
  its timer when a worker dies in the second it runs (`abstractfork.cpp:56`).
  `WorkersReturn` excuses a reload that meets a worker which is still starting
  (`overheard`). The worker shares the socket pair of the master until it made its own
  (`unixfork.cpp:711`, `:721`), the handler writes the SIGQUIT of the reload there
  (`:246`), and the master reads it as its own and terminates, although nobody told it to:
  against `server.h:355`, which promises a reload. Without `overheard` TLC shows this.
* `engines`: one signal to a worker. `Modes <- MCTwice`, the two of a terminal and of
  the master: `serverShutdown` counts every idle listener twice (`WaitsForSockets`).
  `Ssl = {tcp}`: the listener looks for children of the wrong type and waits for
  none of its sockets. `Modes <- MCBalanced`, a balancer in a worker that is told to
  stop: nothing stops the balancer, which goes on accepting for engines that have
  shut down (`WaitsForSockets`, `ShutdownExits`); the run has it without a signal.
* `http2` (`Habits`): `"segment"` is the finding. `"continues"` (a second block in two
  frames: the header buffer is never emptied), `"uploads"` (a body of announced length
  in several frames) and `"late"` (frames for a stream just answered) violate
  `LegalFramesAccepted`; so do `"pads"` (of a padded frame of data the code takes the byte
  that tells the length of the padding for a part of the body, `protocolhttp2.cpp:340-346`,
  `:372-374`, which an announced length refuses, `:375-378`, and one that is not announced
  violates `DispatchedAsSent`) and `"large"` (a frame of headers that the server asked for
  is compared with what the client asked for, `:394-396`); `"shrinks"` makes a window negative and sends beyond it, and
  after `"vanishes"` an answer that waits for a window waits for ever. `Answers` has answers
  of one write: each write that is smaller than the window of its stream ends the stream and
  is not counted in it, so that one of three, `<<1, 1, 1>>`, violates `StreamWindowRespected`.
  An answer whose last part exactly fills the window or a frame is not ended, and
  last frames are not counted in the window of the connection: no property is about
  either.
* `hpack` (`Clients`): `"early"`, a client that sends requests before it knows that the
  table of the server is smaller than 4096, and `"names"`, one that takes the name of a
  literal without indexing from the dynamic table (`hpack.cpp:420`), violate
  `LegalBlocksAccepted`, but not `FieldsAsSent`: a block is refused, never misread. `"plain"`
  violates both: of a name without a Huffman code `parse_string_key` keeps every second
  character (`hpack.cpp:170-175`). An empty string with a Huffman code, of which a byte is
  read, and a table of 65536 bytes or more, whose size does not fit the integer, are
  left out.
* `websocket`: `Habits = {"cuts"}`, the connection is lost within a close frame, and
  `{"twice"}`, the application closes what is being closed, violate `EndToldOnce`.
  So does `Scripts <- MCRefusedClose`, a whole close frame without a mask or that is too
  long: it is refused (`protocolwebsocket.cpp:284-305`) after it was stored as the last
  opcode (`:279`), by which `socketDisconnected` takes the application for told
  (`protocolhttp.cpp:496`), so that nobody tells it.
  `Scripts <- MCSplit`, a character in two fragments, violates
  `EventuallyDelivered`: the fragment is decoded on its own and the message refused
  (`protocolwebsocket.cpp:144-188`). `MCSplitBeforeEmpty` violates `MessagesAsSent` too:
  `websocket_parse_mask` drops the refusal when the last fragment is empty
  (`protocolwebsocket.cpp:365-380`), and the message after it is delivered. `Lawful`, in
  the theorems, leaves both out.
* `event_dispatcher`: `HandlersAlive` leaves out a source that an outer call of
  `processEvents` has in its batch: the reference of that call makes `canProcess`
  true. A file descriptor is not used again for another file.
* `path_matching`: no property says which of two chains wins that leave as many parts
  over. The comment at `dispatchtypechained.cpp:428` says the one that captures less; the
  code requires besides that its last action has more parts than the whole of the other,
  and otherwise the order of registration decides. Actions without the faults that registration reports, no chain
  that leads back to itself, and `CaptureArgs` with a number.

## 6. Findings

* **Session deleted only at the client** (`session_delete`). `deleteSession` does not
  load the id from the cookie, and its test for a missing id never fails.
* **A frame header in two reads** (`http2_segment`). The loop over the frames neither
  reads on nor leaves when fewer bytes than a frame header are in the buffer.

## 7. Plan

Still to be modelled, in this order:

1. The multipart scanner over a split buffer, against a reference definition.
2. The store over memcached, whose entries expire by themselves.

Theorems still to be proved: `SeenAsSent` of FastCGI, along the argument for HTTP/1.1;
and `LegalFramesAccepted`, for
which the views and the stages along the wire are the basis (only for a large `MaxWindow`:
last frames are not counted in the window of the connection, and what the client adds for
them makes it grow).

## 8. Not modelled

* The multipart parser and the memcached store: see the plan.
* Of the plugins over the session: passwords and the stores of users, HTTP
  authentication, the check of the referer, the action that a rejected request is
  detached to.
* Views, validators, pagination, static files, language selection, e-mail: functions
  of their input, or file access; to the dispatch they are actions and hooks, which
  `ContextDispatch` leaves free.
* Set-up: configuration, the opening of listeners, users, groups and CPU affinity.
* The memcached client: calls into libmemcached.
* The text of headers and responses, statistics, logging, translations.
* Windows: `windowsfork.cpp`.

Most of the lines of the repository are of these kinds: tables (`hpack_p.cpp`,
`validatoremail.cpp`), wrappers with one call each (`memcached`), string handling,
and the declarations of the interface. The mapped share of the code is small for
that reason: what has a state that outlives a call is modelled, and the rest
would be transcribed.
