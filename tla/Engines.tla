------------------------------ MODULE Engines ------------------------------
(***************************************************************************)
(* One worker: the engines of its threads (ServerPrivate, ServerEngine),   *)
(* their listeners (TcpServer, TcpSslServer, LocalServer) and the sockets  *)
(* of these, from the fork to the exit of the process.                     *)
(*                                                                         *)
(* Each engine lives in a thread, the first one in the main thread.        *)
(* Signals between threads are queued: q holds, for each thread, the       *)
(* events it has still to process.  The requests of a socket are reduced   *)
(* to their being processed or not (HttpConnection models them).           *)
(***************************************************************************)
EXTENDS Integers, Sequences, FiniteSets

CONSTANTS EngineSet, Main,      \* the engines and the one of the main thread
          Listeners,            \* the addresses every engine listens to
          Ssl,                  \* those with a certificate
          MaxSockets,           \* bound: connections in all
          Modes,                \* whether the main thread accepts for all engines,
                                \* and how many signals the worker gets
          Fails                 \* engines whose postForkApplication may fail

ASSUME EnginesAssumption ==
    /\ Main \in EngineSet /\ Fails \subseteq EngineSet /\ Ssl \subseteq Listeners
    /\ MaxSockets \in Nat /\ IsFiniteSet(EngineSet) /\ IsFiniteSet(Listeners) /\ Listeners # {}
    /\ \A m \in Modes : m.balancer \in BOOLEAN /\ m.signals \in Nat

VARIABLES
    mode,               \* chosen at the start
    pc,                 \* the worker: forked, in exec(), or exited
    q,                  \* events of each thread
    engines,            \* ServerPrivate::engines
    workersNotRunning,
    ready,              \* how often Server::ready was emitted
    exiting,            \* qApp->exit(15) is posted
    signals,            \* received, for the bound
    thread,             \* of each engine: "off", "on", "quit" or "done"
    started,            \* the engines that emitted started()
    closed,             \* engine and listener that were closed
    runningServers, serversTimeout, timer,      \* of each engine
    sock                \* the sockets

server == <<engines, workersNotRunning, ready, exiting>>
counts == <<runningServers, serversTimeout, timer>>
vars   == <<mode, pc, q, server, signals, thread, started, closed, counts, sock>>

Sockets  == 1 .. MaxSockets
NoSocket == [state |-> "none"]
Deleted  == [state |-> "deleted"]
Socket   == [engine : EngineSet, listener : Listeners, watch : Nat,
             state : {"queued", "idle", "busy", "last", "gone", "closing"}]
Event    == {"postFork", "shutdown", "started", "completed", "finished"} \X EngineSet

Open(e, l) == {s \in Sockets : /\ sock[s].state \notin {"none", "queued", "deleted"}
                               /\ sock[s].engine = e /\ sock[s].listener = l}

TypeOK ==
    /\ mode \in Modes /\ pc \in {"forked", "exec", "exited"}
    /\ q \in [EngineSet -> Seq(Event)]
    /\ engines \subseteq EngineSet /\ workersNotRunning \in 0 .. Cardinality(EngineSet)
    /\ ready \in Nat /\ exiting \in BOOLEAN /\ signals \in 0 .. mode.signals
    /\ thread \in [EngineSet -> {"off", "on", "quit", "done"}]
    /\ started \subseteq EngineSet /\ closed \subseteq EngineSet \X Listeners
    /\ runningServers \in [EngineSet -> Int]
    /\ serversTimeout \in [EngineSet -> Nat]
    /\ timer \in [EngineSet -> BOOLEAN]
    /\ \A s \in Sockets : sock[s] \in Socket \cup {NoSocket, Deleted}

\* setupApplication counts the engine of the main thread and each of the others.
NotRunning == 1 + Cardinality(EngineSet \ {Main})

\* setupApplication: every engine has a clone of every listener.
Init ==
    /\ mode \in Modes /\ pc = "forked" /\ signals = 0
    /\ q = [e \in EngineSet |-> <<>>]
    /\ engines = EngineSet /\ workersNotRunning = NotRunning
    /\ ready = 0 /\ exiting = FALSE
    /\ thread = [e \in EngineSet |-> IF e = Main THEN "on" ELSE "off"]
    /\ started = {} /\ closed = {}
    /\ runningServers = [e \in EngineSet |-> Cardinality(Listeners)]
    /\ serversTimeout = [e \in EngineSet |-> 0] /\ timer = [e \in EngineSet |-> FALSE]
    /\ sock = [s \in Sockets |-> NoSocket]

Posted(e, event) == [q EXCEPT ![e] = Append(@, event)]
ToAll(signal) == [e \in EngineSet |-> Append(q[e], <<signal, e>>)]

\* The thread of an engine runs its event loop.
Runs(e) == pc = "exec" /\ thread[e] = "on"

----------------------------------------------------------------------------
(* The main thread.                                                         *)

\* ServerPrivate::postFork starts the threads; the engines hear of it later.
PostFork ==
    /\ pc = "forked" /\ pc' = "exec"
    /\ thread' = [e \in EngineSet |-> "on"]
    /\ q' = ToAll("postFork")
    /\ UNCHANGED <<mode, server, signals, started, closed, counts, sock>>

\* UnixFork::handleSigInt in a worker emits shutdown, to all engines.
Signal ==
    /\ pc = "exec" /\ signals < mode.signals
    /\ signals' = signals + 1
    /\ q' = ToAll("shutdown")
    /\ UNCHANGED <<mode, pc, server, thread, started, closed, counts, sock>>

\* Wrong variant: the first worker that starts makes the server ready.
WorkerStartedFirst ==
    /\ workersNotRunning' = workersNotRunning - 1
    /\ ready' = IF workersNotRunning' = Cardinality(EngineSet) - 1 THEN ready + 1 ELSE ready

\* workerStarted.
WorkerStarted ==
    /\ workersNotRunning' = workersNotRunning - 1
    /\ ready' = IF workersNotRunning' = 0 THEN ready + 1 ELSE ready

\* The engine is gone; without any the process ends (checkEngineShutdown).
Erase(e) ==
    /\ engines' = engines \ {e}
    /\ exiting' = (exiting \/ engines' = {})

\* engineShutdown: an engine of another thread is erased when that has finished.
EngineShutdown(e) ==
    IF e = Main THEN Erase(e) /\ UNCHANGED thread
    ELSE thread' = [thread EXCEPT ![e] = "quit"] /\ UNCHANGED <<engines, exiting>>

MainEvent ==
    /\ Runs(Main) /\ q[Main] # <<>> /\ Head(q[Main])[1] \notin {"postFork", "shutdown"}
    /\ q' = [q EXCEPT ![Main] = Tail(@)]
    /\ \/ /\ Head(q[Main])[1] = "started"
          /\ WorkerStarted /\ UNCHANGED <<engines, exiting, thread>>
       \/ \E e \in EngineSet :
             /\ Head(q[Main]) = <<"completed", e>>
             /\ EngineShutdown(e) /\ UNCHANGED <<workersNotRunning, ready>>
       \/ \E e \in EngineSet :
             /\ Head(q[Main]) = <<"finished", e>>
             /\ Erase(e) /\ UNCHANGED <<workersNotRunning, ready, thread>>
    /\ UNCHANGED <<mode, pc, signals, started, closed, counts, sock>>

\* QThread::quit ends the event loop of the thread, and with it its sockets.
ThreadFinishes(e) ==
    /\ pc = "exec" /\ thread[e] = "quit"
    /\ thread' = [thread EXCEPT ![e] = "done"]
    /\ q' = Posted(Main, <<"finished", e>>)
    /\ UNCHANGED <<mode, pc, server, signals, started, closed, counts, sock>>

Exit ==
    /\ pc = "exec" /\ exiting /\ pc' = "exited"
    /\ UNCHANGED <<mode, q, server, signals, thread, started, closed, counts, sock>>

----------------------------------------------------------------------------
(* The engines.                                                             *)

\* serverShutdown, called n times, after which queues are those of the threads:
\* the count passes zero once.
ServerShutdown(e, n, queues) ==
    /\ runningServers' = [runningServers EXCEPT ![e] = @ - n]
    /\ q' = IF runningServers[e] > 0 /\ runningServers[e] <= n
            THEN [queues EXCEPT ![Main] = Append(@, <<"completed", e>>)] ELSE queues

\* Wrong variant: a busy socket is left alone.
HandleSocketShutdownIdle(s) ==
    [sock[s] EXCEPT !.watch = @ + 1, !.state = IF @ = "idle" THEN "closing" ELSE @]

\* handleSocketShutdown: an idle socket is closed, a busy one after its answer.
\* A socket that has nothing to write is closed at once: then Closed comes next.
HandleSocketShutdown(s) ==
    [sock[s] EXCEPT !.watch = @ + 1,
                    !.state = CASE @ = "idle" -> "closing" [] @ = "busy" -> "last" [] OTHER -> @]

\* The shutdown of all listeners of an engine.  A listener with sockets waits for
\* their end.  One with a certificate looks for sockets of another class.
Shutdown(e, queues) ==
    /\ closed' = closed \cup ({e} \X Listeners)
    /\ sock' = [s \in Sockets |->
                   IF \E l \in Listeners \ Ssl : s \in Open(e, l) THEN HandleSocketShutdown(s)
                   ELSE sock[s]]
    /\ ServerShutdown(e, Cardinality({l \in Listeners : Open(e, l) = {}}), queues)

\* ServerEngine::postFork and the emission of shutdown.
EngineEvent(e) ==
    /\ Runs(e) /\ q[e] # <<>>
    /\ \/ /\ Head(q[e]) = <<"postFork", e>>
          /\ \/ /\ started' = started \cup {e}
                /\ q' = [[q EXCEPT ![e] = Tail(@)] EXCEPT ![Main] = Append(@, <<"started", e>>)]
                /\ UNCHANGED <<closed, runningServers, sock>>
             \/ e \in Fails /\ Shutdown(e, [q EXCEPT ![e] = Tail(@)]) /\ UNCHANGED started
       \/ /\ Head(q[e]) = <<"shutdown", e>>
          /\ Shutdown(e, [q EXCEPT ![e] = Tail(@)]) /\ UNCHANGED started
    /\ UNCHANGED <<mode, pc, server, signals, thread, serversTimeout, timer>>

----------------------------------------------------------------------------
(* The sockets.                                                             *)

\* Wrong variant: the sockets of other listeners are forgotten.
StartSocketTimeoutSets(e, l) ==
    /\ serversTimeout' = [serversTimeout EXCEPT ![e] = 1]
    /\ timer' = [timer EXCEPT ![e] = TRUE]

\* startSocketTimeout, which every new socket calls.
StartSocketTimeout(e, l) ==
    /\ serversTimeout' = [serversTimeout EXCEPT ![e] = @ + 1]
    /\ timer' = [timer EXCEPT ![e] = @ \/ serversTimeout'[e] = 1]

\* Sockets are numbered in the order in which they are accepted.
IsNext(s) == \A r \in Sockets : sock[r] = NoSocket <=> r >= s

\* incomingConnection.
Connected(s, e, l) ==
    /\ sock' = [sock EXCEPT ![s] = [engine |-> e, listener |-> l, watch |-> 0, state |-> "idle"]]
    /\ StartSocketTimeout(e, l)

\* A client connects to a listener that accepts.
Accept(s, e, l) ==
    /\ ~mode.balancer /\ Runs(e) /\ e \in started /\ <<e, l>> \notin closed
    /\ IsNext(s)
    /\ Connected(s, e, l)
    /\ UNCHANGED <<mode, pc, q, server, signals, thread, started, closed, runningServers>>

\* The balancer accepts in the main thread and sends the handle to an engine that
\* has started, which takes it when it comes to it.
Balance(s, e, l) ==
    /\ mode.balancer /\ Runs(Main) /\ e \in started /\ IsNext(s)
    /\ sock' = [sock EXCEPT ![s] = [engine |-> e, listener |-> l, watch |-> 0, state |-> "queued"]]
    /\ UNCHANGED <<mode, pc, q, server, signals, thread, started, closed, counts>>

Take(s) ==
    /\ sock[s].state = "queued" /\ Runs(sock[s].engine)
    /\ Connected(s, sock[s].engine, sock[s].listener)
    /\ UNCHANGED <<mode, pc, q, server, signals, thread, started, closed, runningServers>>

\* A request comes in.
Request(s) ==
    /\ sock[s].state = "idle" /\ Runs(sock[s].engine)
    /\ sock' = [sock EXCEPT ![s].state = "busy"]
    /\ UNCHANGED <<mode, pc, q, server, signals, thread, started, closed, counts>>

\* Wrong variant: every socket of a listener that shuts down is the last one.
WatchersAlways(s) == sock[s].watch

\* The handlers of finished() that shutdown() connected.
Watchers(s) ==
    IF Open(sock[s].engine, sock[s].listener) = {s} THEN sock[s].watch ELSE 0

\* Socket::finished: the listener counts the socket down.
Finished(s, e) ==
    /\ sock' = [sock EXCEPT ![s] = Deleted]
    /\ IF Open(e, sock[s].listener) = {s}
       THEN /\ serversTimeout' = [serversTimeout EXCEPT ![e] = @ - 1]
            /\ timer' = [timer EXCEPT ![e] = @ /\ serversTimeout'[e] # 0]
       ELSE UNCHANGED <<serversTimeout, timer>>
    /\ ServerShutdown(e, Watchers(s), q)

\* A request is answered: the last one closes the socket.
Answer(s) ==
    /\ sock[s].state \in {"busy", "last", "gone"} /\ Runs(sock[s].engine)
    /\ \/ /\ sock[s].state # "gone"
          /\ sock' = [sock EXCEPT ![s].state = IF @ = "busy" THEN "idle" ELSE "closing"]
          /\ UNCHANGED <<q, counts>>
       \/ sock[s].state = "gone" /\ Finished(s, sock[s].engine)
    /\ UNCHANGED <<mode, pc, server, signals, thread, started, closed>>

\* What was written to a closing socket is sent, and it is disconnected.
Closed(s) ==
    /\ sock[s].state = "closing" /\ Runs(sock[s].engine)
    /\ Finished(s, sock[s].engine)
    /\ UNCHANGED <<mode, pc, server, signals, thread, started, closed>>

\* The client disconnects.
PeerCloses(s) ==
    /\ sock[s].state \in {"idle", "busy", "last"} /\ Runs(sock[s].engine)
    /\ \/ sock[s].state = "idle" /\ Finished(s, sock[s].engine)
       \/ /\ sock[s].state # "idle"
          /\ sock' = [sock EXCEPT ![s].state = "gone"] /\ UNCHANGED <<q, counts>>
    /\ UNCHANGED <<mode, pc, server, signals, thread, started, closed>>

\* timeoutConnections closes a socket that was idle for two ticks.
Timeout(s) ==
    /\ sock[s].state = "idle" /\ Runs(sock[s].engine) /\ timer[sock[s].engine]
    /\ sock' = [sock EXCEPT ![s].state = "closing"]
    /\ UNCHANGED <<mode, pc, q, server, signals, thread, started, closed, counts>>

----------------------------------------------------------------------------
Network == \E s \in Sockets :
               \/ \E e \in EngineSet, l \in Listeners : Accept(s, e, l) \/ Balance(s, e, l)
               \/ Take(s) \/ Request(s) \/ Answer(s) \/ Closed(s) \/ PeerCloses(s) \/ Timeout(s)

Next == \/ PostFork \/ Signal \/ MainEvent \/ Exit
        \/ \E e \in EngineSet : ThreadFinishes(e) \/ EngineEvent(e)
        \/ Network

Spec == Init /\ [][Next]_vars

\* Threads run, the application answers, and Qt closes what is to be closed.
\* Clients and signals are not fair.
FairSpec ==
    /\ Spec
    /\ WF_vars(PostFork) /\ WF_vars(MainEvent) /\ WF_vars(Exit)
    /\ \A e \in EngineSet : WF_vars(ThreadFinishes(e)) /\ WF_vars(EngineEvent(e))
    /\ \A s \in Sockets : WF_vars(Take(s)) /\ WF_vars(Answer(s)) /\ WF_vars(Closed(s))
=============================================================================
