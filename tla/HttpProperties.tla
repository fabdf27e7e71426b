--------------------------- MODULE HttpProperties ---------------------------
(***************************************************************************)
(* What must hold of a connection in HttpConnection.                       *)
(***************************************************************************)
EXTENDS HttpConnection

\* The application sees the requests the client sent, each once, in order and
\* complete, however the bytes are split into segments and pipelined: the
\* window of the buffer, the position in the line and the partially read body
\* survive every return to the event loop (protocolhttp.cpp:80-186,420-432).
Sent(i) ==
    [method |-> i, http11 |-> TRUE,
     connection |-> CASE stream[i] = "close"             -> "Close"
                      [] stream[i] \in {"keep", "upload"} -> "Keep"
                      [] OTHER                           -> "NotSet",
     body |-> IF stream[i] \in {"post", "upload"} THEN BodyLen ELSE 0]
SeenAsSent ==
    /\ Len(dispatched) <= Len(stream)
    /\ \A i \in 1 .. Len(dispatched) : dispatched[i] = Sent(i)

\* A request is being processed exactly as long as its answer is outstanding,
\* on a socket that is not released: an asynchronous answer never finds its
\* connection deleted (socket.cpp:43-50,57-64).
ProcessingExact ==
    /\ pc # "app" => processing = IF suspended THEN 1 ELSE 0
    /\ pc = "app" => processing = 1 /\ ~suspended
    /\ processing > 0 => finished = 0

\* The end of a connection is announced once, whichever of the peer, the
\* timeout, the shutdown and the answer comes first: the server counts its
\* connections down by these signals (tcpserver.cpp:58-63).
FinishedOnce == finished <= 1 /\ (finished = 1 => sock # "connected")

\* Every complete request on an open connection is dispatched.
EventuallyDispatched ==
    \A i \in 1 .. 3 :
        (i <= Len(stream) /\ arrived >= ends[i] /\ sock = "connected")
            ~> (Len(dispatched) >= i \/ sock # "connected")

\* After a shutdown the connection is closed, at the latest when the request
\* that is being processed is answered (serverengine.cpp:209-219).
ShutdownCloses == shutdown ~> sock # "connected"

\* A connection that was closed is released.
ClosedIsReleased == sock = "closed" ~> finished > 0
=============================================================================
