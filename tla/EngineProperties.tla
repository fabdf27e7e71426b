-------------------------- MODULE EngineProperties --------------------------
(***************************************************************************)
(* What must hold of a worker in Engines.                                  *)
(***************************************************************************)
EXTENDS Engines

\* A shutdown waits for the sockets of all listeners of all engines: no thread
\* is asked to quit, and the process does not exit, under an open connection
\* (serverengine.h:75-80, tcpserver.cpp:85-105, server.cpp:1781-1821).
Served(e) == \E l \in Listeners : Open(e, l) # {}
WaitsForSockets ==
    \A e \in EngineSet : Served(e) => thread[e] = "on" /\ pc = "exec" /\ e \in engines

\* The timer of the idle connections runs while there are any, although every
\* socket starts it and only the last of a listener stops it
\* (serverengine.h:61-73, tcpserver.cpp:58-79).
TimeoutRuns == \A e \in EngineSet : Served(e) => timer[e]

\* The server says it is ready once, when all engines have started and not
\* before; with an engine that failed it never is (server.cpp:1823-1831).
ReadyWhenStarted ==
    /\ ready <= 1
    /\ ready = 1 => started = EngineSet
    /\ q[Main] = <<>> /\ pc = "exec" => (ready = 1 <=> started = EngineSet)

\* A worker that is told to shut down exits (server.cpp:1781-1821).
ShutdownExits == signals > 0 ~> pc = "exited"
=============================================================================
