-------------------------- MODULE Http2Properties --------------------------
(***************************************************************************)
(* What must hold of a connection in Http2Connection.                      *)
(***************************************************************************)
EXTENDS Http2Connection

\* A client that keeps to the protocol is never told GOAWAY, whatever streams
\* are in progress when its frames are read (protocolhttp2.cpp:333-511,596-648), as
\* long as it pads no data and sends no frame of headers beyond what it asked for
\* itself: with "pads" a body with a Content-Length is refused (:372-379), with
\* "large" a frame of headers that the server asked for is (:394-396).
LegalFramesAccepted == ~goaway

\* The application gets every request once its stream has ended, with all of its
\* headers and of its body (protocolhttp2.cpp:376-384,463-508), unless it is padded:
\* with "pads" each padded frame adds a byte to what it sends (:372-374).
Sent(s) ==
    [block |-> (IF req[s].split THEN <<s, -s>> ELSE <<s>>) \o (IF req[s].trailers THEN <<0>> ELSE <<>>),
     body |-> req[s].body]
DispatchedAsSent ==
    \A s \in Streams : run[s] \notin {"none", "queued"} => phase[s] \in {"end", "reset"} /\ seen[s] = Sent(s)

\* No stream sends more than the client allows for it, although its window, that
\* of the connection and the initial window move while it waits
\* (protocolhttp2.cpp:869-926).
StreamWindowRespected == \A s \in Streams : streamCredit[s] >= 0

\* Every request that is dispatched is finished, also when its answer waits under
\* others in nested event loops, and also when the connection is closed
\* meanwhile (protocolhttp2.cpp:884-894,946-952).
EventuallyAnswered == \A s \in Streams : run[s] = "queued" ~> run[s] = "done"
=============================================================================
