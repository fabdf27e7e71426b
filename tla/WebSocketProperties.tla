------------------------ MODULE WebSocketProperties ------------------------
(***************************************************************************)
(* What must hold of a connection in WebSocket.                            *)
(***************************************************************************)
EXTENDS WebSocket

\* What a client means by its frames: the messages of the first n frames, and what
\* there is then of one that is not complete.
None == [op |-> "none", data |-> <<>>]
Started(f, m) == [op |-> IF f.op = "continue" THEN m.op ELSE f.op,
                  data |-> IF f.op = "continue" THEN m.data \o f.data ELSE f.data]
With(r, f) ==
    IF f.op \notin Data \cup {"continue"} THEN r
    ELSE IF f.fin THEN [open |-> None, messages |-> Append(r.messages, Started(f, r.open))]
    ELSE [r EXCEPT !.open = Started(f, r.open)]
Assembled(frames) ==
    LET after[n \in 0 .. Len(frames)] ==
            IF n = 0 THEN [open |-> None, messages |-> <<>>]
            ELSE With(after[n - 1], frames[n])
    IN  after
Messages == Assembled(script)[Len(script)].messages

\* The application gets the messages of the client, each once, in order and
\* complete, whatever their frames, what control frames come between them and
\* however the bytes arrive (protocolwebsocket.cpp:88-217,391-446).
MessagesAsSent == IsPrefix(got, Messages)

\* What a frame must be by itself for the code to take it: the application can lose
\* no more than what a client sends from the first other frame on.
Accepted(f) ==
    /\ f.masked /\ f.op # "invalid" /\ Len(f.data) <= MaxSize
    /\ f.op \in Control => f.fin
    /\ f.op \in {"ping", "close"} => Len(f.data) <= ShortSize
Taken == CHOOSE n \in 0 .. Len(script) : /\ \A i \in 1 .. n : Accepted(script[i])
                                         /\ n < Len(script) => ~Accepted(script[n + 1])
Due   == Assembled(script)[Taken].messages

\* The end of a connection is announced once to the server, and once to the
\* application that did not ask for it, whether a close frame, a loss or an error
\* comes first (request.h:536-543, protocolhttp.cpp:478-501, socket.cpp:43-64). Not
\* so after an unfragmented close frame that is refused for its size or for want of
\* a mask: it has already set the opcode by which socketDisconnected takes the
\* application to know (protocolwebsocket.cpp:279-294, protocolhttp.cpp:496), and
\* the end is told to nobody. The scripts of the run have no such frame.
EndToldOnce ==
    /\ finished <= 1 /\ closedSignals <= 1
    /\ finished = 1 => processing = 0 /\ conn # "open"
    /\ finished = 1 /\ cause # "application" => closedSignals = 1

\* The messages that a client sends before a frame that breaks the protocol, or is
\* larger than websocket_max_size, are delivered, unless the application closes or
\* the client is lost: none of them is refused (protocolwebsocket.cpp:144-188,
\* 264-356). The scripts of the run split no character between fragments.
EventuallyDelivered ==
    <>(Len(got) = Len(Due) \/ cause \in {"application", "client"})

\* A connection that is closed is released (protocolhttp.cpp:478-501).
ClosedIsReleased == conn # "open" ~> finished > 0
=============================================================================
