--------------------------- MODULE HttpConnection ---------------------------
(***************************************************************************)
(* One HTTP/1.1 connection of the server: the incremental parser of        *)
(* ProtocolHttp, the request data it keeps between events, and the socket  *)
(* accounting that closes and releases the connection.                     *)
(*                                                                         *)
(* The bytes of the connection are a fixed sequence of symbols: "M" is the *)
(* text of a request line, "K" and "C" that of a Connection header with    *)
(* keep-alive or close, "L" that of a Content-Length header, "B" one unit  *)
(* of body, and "CR" and "LF" end the lines.  The buffer of the connection *)
(* is a window of it: the last bufSize of the taken symbols.  As in the    *)
(* code, last and beginLine are offsets into that window.                  *)
(*                                                                         *)
(* The application is its effect on the connection: it answers at once or  *)
(* suspends the request and answers from a later event (ContextDispatch    *)
(* models what it does in between).                                        *)
(***************************************************************************)
EXTENDS Integers, Sequences, SequencesExt

CONSTANTS Scenarios,        \* what a client sends, a sequence of Kinds, and
                            \* what client and application may do, a set of
                            \* Habits
          BodyLen,          \* the Content-Length of a request with a body
          BufferSize        \* m_bufferSize

Habits == {"pipelines",     \* the client does not wait for responses
           "splits",        \* a segment may end between CR and LF, or in padding
           "suspends",      \* actions may be asynchronous
           "closes",        \* actions may set "Connection: close"
           "streams",       \* actions may write to the response
          "fails",         \* no temporary file can be opened for a body
          "fastcgi",       \* the client is a web server and speaks FastCGI
          "races"}         \* segments arrive while the thread parses
Kinds  == {"get", "keep", "close", "post", "upload"}

ASSUME ScenariosAssumption ==
    \A s \in Scenarios : s.stream \in Seq(Kinds) \ {<<>>} /\ s.habits \subseteq Habits
ASSUME SizesAssumption ==
    /\ BodyLen \in Nat \ {0}
    /\ BufferSize \in Nat \ {0}

VARIABLES
    habits, stream,         \* chosen once for the connection
    text, ends,             \* what the client sends in all, and where each
                            \* request ends in it
    arrived,                \* symbols the socket received
    taken,                  \* symbols read from the socket
    ready,                  \* a readyRead is to be delivered
    pc,                     \* what the thread does for this connection
    back,                   \* where processRequest returns to
    bufSize, last, beginLine, connState, headerConnection,
    contentLength,          \* the fields of ProtocolData
    bodySize,               \* body->size()
    method,                 \* number of the request whose line was parsed
    http11,                 \* its protocol is exactly HTTP/1.1
    finalizedHeaders, finalized, async,     \* flags of EngineRequest::status
    suspended,              \* the application still has to answer
    processing, sock, timeout,              \* the fields of Socket
    finished,               \* how often Socket::finished was emitted
    shutdown,               \* TcpServer::shutdown ran
    dispatched,             \* the requests as the application saw them
    answered,               \* responses completed
    streamed                \* the response is written without a length

wire   == <<habits, stream, text, ends, arrived>>
parser == <<bufSize, last, beginLine, connState, contentLength, bodySize, method, http11>>
status == <<finalizedHeaders, finalized, async>>
socket == <<processing, sock, timeout, finished>>
hist   == <<dispatched, answered, streamed>>
vars   == <<wire, taken, ready, pc, back, parser, headerConnection, status,
            suspended, socket, shutdown, hist>>

\* What a client sends for each kind of request.
Wire(kind) ==
    <<"M", "CR", "LF">> \o
    (CASE kind \in {"get", "post"}    -> <<>>
       [] kind \in {"keep", "upload"} -> <<"K", "CR", "LF">>
       [] kind = "close"              -> <<"C", "CR", "LF">>) \o
    (IF kind \in {"post", "upload"} THEN <<"L", "CR", "LF">> ELSE <<>>) \o
    <<"CR", "LF">> \o
    (IF kind \in {"post", "upload"} THEN [i \in 1 .. BodyLen |-> "B"] ELSE <<>>)

\* The first i requests, in the encoding W.
Text(W, i) == FlattenSeq([j \in 1 .. i |-> W[stream[j]]])

At(p)     == text[taken - bufSize + p + 1]
Available == arrived - taken
Smaller(a, b) == IF a <= b THEN a ELSE b

TypeOK ==
    /\ [stream |-> stream, habits |-> habits] \in Scenarios
    /\ \A i \in DOMAIN ends : ends[i] \in 1 .. Len(text)
    /\ arrived \in 0 .. Len(text) /\ taken \in 0 .. arrived
    /\ ready \in BOOLEAN
    /\ pc \in {"idle", "loop", "body", "process", "app"}
    /\ back \in {"loop", "idle"}
    /\ bufSize \in 0 .. BufferSize /\ last \in 0 .. bufSize /\ beginLine \in 0 .. last
    /\ connState \in {"MethodLine", "HeaderLine", "ContentBody"}
    /\ headerConnection \in {"NotSet", "Keep", "Close"}
    /\ contentLength \in {-1, 0, BodyLen}
    /\ bodySize \in 0 .. BodyLen
    /\ method \in 0 .. Len(stream)
    /\ {http11, finalizedHeaders, finalized, async, suspended, timeout, shutdown, streamed} \subseteq BOOLEAN
    /\ processing \in Nat
    /\ sock \in {"connected", "closing", "closed"}
    /\ finished \in Nat
    /\ answered \in Nat

\* A new connection, of a client that encodes its requests as W does.
Connected(scenarios, W) ==
    /\ \E s \in scenarios : stream = s.stream /\ habits = s.habits
    /\ text = Text(W, Len(stream))
    /\ ends = [i \in 1 .. Len(stream) |-> Len(Text(W, i))]
    /\ arrived = 0 /\ taken = 0 /\ ready = FALSE
    /\ pc = "idle" /\ back = "idle"
    /\ bufSize = 0 /\ last = 0 /\ beginLine = 0
    /\ connState = "MethodLine" /\ headerConnection = "NotSet"
    /\ contentLength = 0 /\ bodySize = 0 /\ method = 0 /\ http11 = FALSE
    /\ finalizedHeaders = FALSE /\ finalized = FALSE /\ async = FALSE
    /\ suspended = FALSE
    /\ processing = 0 /\ sock = "connected" /\ timeout = FALSE /\ finished = 0
    /\ shutdown = FALSE
    /\ dispatched = <<>> /\ answered = 0 /\ streamed = FALSE

Init == Connected({s \in Scenarios : "fastcgi" \notin s.habits}, [k \in Kinds |-> Wire(k)])

----------------------------------------------------------------------------
(* The network, modelled from how the server uses QTcpSocket.               *)

\* A segment that ends there ends between CR and LF, or within the padding of a
\* record.
Splits(to) == text[to] = "CR" \/ (to < Len(text) /\ text[to + 1] = "P")

\* A segment arrives.  A client that does not pipeline sends nothing of the
\* next request before the last one is answered.
Send ==
    /\ sock = "connected" /\ finished = 0
    /\ pc # "idle" => "races" \in habits
    /\ \E to \in arrived + 1 .. Len(text) :
          /\ "pipelines" \notin habits /\ answered < Len(stream) => to <= ends[answered + 1]
          /\ "splits" \notin habits => ~Splits(to)
          /\ arrived' = to
    /\ ready' = TRUE
    /\ UNCHANGED <<habits, stream, text, ends, taken, pc, back, parser, headerConnection,
                   status, suspended, socket, shutdown, hist>>

\* Socket::socketDisconnected, called with the value processing has then.
Disconnected(proc) ==
    /\ sock' = "closed"
    /\ finished' = IF proc = 0 THEN finished + 1 ELSE finished

\* Socket::connectionClose: at once, or when what was written has been sent.
ConnectionClose(proc) ==
    \/ Disconnected(proc)
    \/ sock' = "closing" /\ UNCHANGED finished

\* The client goes away, or the last bytes of a closing connection are sent.
PeerCloses ==
    /\ pc = "idle" /\ sock # "closed" /\ finished = 0
    /\ Disconnected(processing)
    /\ UNCHANGED <<wire, taken, ready, pc, back, parser, headerConnection, status,
                   suspended, processing, timeout, shutdown, hist>>

----------------------------------------------------------------------------
(* ProtocolHttp::parse.                                                     *)

\* A read re-arms the notifier: it fires again if symbols are left.
TakeFromSocket(n) ==
    /\ taken' = taken + n
    /\ ready' = (arrived > taken + n)

ReadyRead ==
    /\ pc = "idle" /\ ready /\ sock = "connected" /\ finished = 0
    /\ timeout' = FALSE
    /\ \/ /\ async
          /\ ready' = FALSE
          /\ UNCHANGED <<taken, bufSize, pc>>
       \/ /\ ~async /\ connState = "ContentBody"
          /\ pc' = "body"
          /\ UNCHANGED <<taken, bufSize, ready>>
       \/ /\ ~async /\ connState # "ContentBody"
          /\ LET n == Smaller(Available, BufferSize - bufSize)
             IN TakeFromSocket(n) /\ bufSize' = bufSize + n
          /\ pc' = "loop"
    /\ UNCHANGED <<wire, back, last, beginLine, connState, contentLength, bodySize,
                   method, http11, headerConnection, status, suspended, processing,
                   sock, finished, shutdown, hist>>

\* The ContentBody branch: reads what belongs to the body.
ReadBody ==
    /\ pc = "body"
    /\ LET n == Smaller(Available, contentLength - bodySize)
       IN /\ TakeFromSocket(n)
          /\ bodySize' = bodySize + n
          /\ pc' = IF bodySize + n = contentLength THEN "process" ELSE "idle"
    /\ back' = "idle"
    /\ UNCHANGED <<wire, bufSize, last, beginLine, connState, contentLength, method,
                   http11, headerConnection, status, suspended, socket, shutdown, hist>>

\* CrLfIndexIn(buffer, buf_size, from): -1 is represented by the empty set.
CrLfIndexIn(from) ==
    {p \in from .. bufSize - 2 :
        /\ At(p) = "CR" /\ At(p + 1) = "LF"
        /\ \A q \in from .. p - 1 : At(q) # "CR" \/ At(q + 1) # "LF"}

\* The loop over the lines of the buffer.
LoopDone ==
    /\ pc = "loop" /\ last >= bufSize
    /\ pc' = "idle"
    /\ UNCHANGED <<wire, taken, ready, back, parser, headerConnection, status,
                   suspended, socket, shutdown, hist>>

LineIncomplete ==
    /\ pc = "loop" /\ last < bufSize /\ CrLfIndexIn(last) = {}
    /\ last' = bufSize
    /\ UNCHANGED <<wire, taken, ready, pc, back, bufSize, beginLine, connState,
                   contentLength, bodySize, method, http11, headerConnection,
                   status, suspended, socket, shutdown, hist>>

\* A line ends at ix: it is what lies between beginLine and ix.
NextLine(ix) ==
    /\ pc = "loop" /\ last < bufSize
    /\ ix \in CrLfIndexIn(last)
    /\ beginLine' = ix + 2

\* The request that the symbol after position p of the text belongs to.
RequestAt(p) == 1 + Cardinality({i \in DOMAIN ends : ends[i] <= p})

\* The request whose method is at offset p.
MethodAt(p) == IF At(p) = "M" THEN RequestAt(taken - bufSize + p) ELSE 0

ParseMethod ==
    /\ connState = "MethodLine"
    /\ \E ix \in 0 .. bufSize : NextLine(ix) /\ last' = ix + 2
                                /\ http11' = (ix = beginLine + 1)
    /\ method' = MethodAt(beginLine)
    /\ connState' = "HeaderLine"
    /\ contentLength' = -1
    /\ UNCHANGED <<wire, taken, ready, pc, back, bufSize, bodySize, headerConnection,
                   status, suspended, socket, shutdown, hist>>

\* The value of a header is its symbol, unless the line swallowed more.
ParseHeader ==
    /\ connState = "HeaderLine"
    /\ \E ix \in 0 .. bufSize :
          /\ NextLine(ix) /\ last' = ix + 2 /\ ix > beginLine
          /\ headerConnection' =
                IF headerConnection = "NotSet" /\ At(beginLine) \in {"K", "C"}
                THEN IF At(beginLine) = "C" /\ ix = beginLine + 1 THEN "Close" ELSE "Keep"
                ELSE headerConnection
          /\ contentLength' =
                IF contentLength < 0 /\ At(beginLine) = "L" /\ ix = beginLine + 1
                THEN BodyLen ELSE contentLength
    /\ UNCHANGED <<wire, taken, ready, pc, back, bufSize, connState, bodySize, method,
                   http11, status, suspended, socket, shutdown, hist>>

\* Wrong variant: the body in the buffer is not skipped.
HeadCompleteRereads ==
    /\ connState = "HeaderLine"
    /\ NextLine(beginLine)
    /\ IF contentLength > 0
       THEN LET n == Smaller(contentLength, bufSize - (beginLine + 2))
            IN /\ connState' = "ContentBody"
               /\ bodySize' = n
               /\ last' = beginLine + 2
               /\ pc' = IF n = contentLength THEN "process"
                        ELSE IF Available > 0 /\ sock = "connected" THEN "body"
                        ELSE "idle"
       ELSE /\ last' = beginLine + 2
            /\ pc' = "process"
            /\ UNCHANGED <<connState, bodySize>>
    /\ back' = "loop"
    /\ UNCHANGED <<wire, taken, ready, bufSize, contentLength, method, http11,
                   headerConnection, status, suspended, socket, shutdown, hist>>

\* The empty line after the headers.  The body starts in the buffer; what is
\* missing of it is read from the socket, now or on the next readyRead.
HeadComplete ==
    /\ connState = "HeaderLine"
    /\ NextLine(beginLine)
    /\ IF contentLength > 0
       THEN LET n == Smaller(contentLength, bufSize - (beginLine + 2))
            IN /\ connState' = "ContentBody"
               /\ bodySize' = n
               /\ last' = beginLine + 2 + n
               /\ pc' = IF n = contentLength THEN "process"
                        ELSE IF Available > 0 /\ sock = "connected" THEN "body"
                        ELSE "idle"
       ELSE /\ last' = beginLine + 2
            /\ pc' = "process"
            /\ UNCHANGED <<connState, bodySize>>
    /\ back' = "loop"
    /\ UNCHANGED <<wire, taken, ready, bufSize, contentLength, method, http11,
                   headerConnection, status, suspended, socket, shutdown, hist>>

\* createBody fails: the connection is closed and its notifier is not armed again.
\* A connection that an earlier answer closed stays as it is.
BodyFails ==
    /\ connState = "HeaderLine" /\ contentLength > 0 /\ "fails" \in habits
    /\ NextLine(beginLine) /\ last' = beginLine + 2
    /\ connState' = "ContentBody"
    /\ IF sock = "connected" THEN ConnectionClose(processing) ELSE UNCHANGED <<sock, finished>>
    /\ pc' = "idle"
    /\ UNCHANGED <<wire, taken, ready, back, bufSize, contentLength, bodySize, method, http11,
                   headerConnection, status, suspended, processing, timeout, shutdown, hist>>

\* No branch of the loop handles a line in the state ContentBody.
SkipLine ==
    /\ connState = "ContentBody"
    /\ \E ix \in 0 .. bufSize : NextLine(ix) /\ last' = ix + 2
    /\ UNCHANGED <<wire, taken, ready, pc, back, bufSize, connState, contentLength,
                   bodySize, method, http11, headerConnection, status, suspended,
                   socket, shutdown, hist>>

\* ProtocolHttp::processRequest: the application gets a new Context.
ProcessRequest ==
    /\ pc = "process"
    /\ pc' = "app"
    /\ processing' = processing + 1
    /\ dispatched' = Append(dispatched,
           [method |-> method, http11 |-> http11, connection |-> headerConnection,
            body |-> IF connState = "ContentBody" THEN bodySize ELSE 0])
    /\ UNCHANGED <<wire, taken, ready, back, parser, headerConnection, status,
                   suspended, sock, timeout, finished, shutdown, answered, streamed>>

----------------------------------------------------------------------------
(* The answer.                                                              *)

\* Wrong variant: what the request or a shutdown asked for is forgotten.
WriteHeadersForgets(header) ==
    CASE header = "close" -> "Close"
      [] header = "Close" -> "Keep"
      [] header = "none"  -> IF http11 THEN "Keep" ELSE "Close"

\* ProtoRequestHttp::writeHeaders: what becomes of headerConnection, given
\* the Connection header of the response.  The comparison with "close" is
\* case-sensitive.
WriteHeaders(header) ==
    CASE header = "close" -> "Close"
      [] header = "Close" -> "Keep"
      [] header = "none"  ->
            IF headerConnection = "Keep" \/ (headerConnection # "Close" /\ http11)
            THEN "Keep" ELSE "Close"

\* resetData, with the pipelined rest of the buffer moved to its start.
ResetData ==
    /\ bufSize' = bufSize - last
    /\ last' = 0 /\ beginLine' = 0
    /\ connState' = "MethodLine" /\ headerConnection' = "NotSet"
    /\ finalizedHeaders' = FALSE /\ finalized' = FALSE /\ async' = FALSE
    /\ streamed' = FALSE
    /\ UNCHANGED <<contentLength, bodySize, method, http11>>

\* Wrong variants: the connection is not looked at; the count is tested
\* before it is decremented.
ReleasesConnected    == processing = 1
ReleasesBeforeUpdate == processing = 0 /\ sock # "connected"

\* Socket::requestFinished emits finished.
RequestFinishedReleases == processing = 1 /\ sock # "connected"

\* EngineRequest::finalize and processingFinished of a request whose response has
\* the Connection header connection.  They do nothing for one that was finalized before.
Finish(connection, Reset) ==
    LET keepParser == UNCHANGED <<parser, async, streamed>>
                      /\ finalizedHeaders' = TRUE /\ finalized' = TRUE
                      /\ headerConnection' = connection
    IN IF finalized
       THEN UNCHANGED <<parser, headerConnection, status, processing, sock, finished,
                        answered, streamed>>
       ELSE /\ processing' = processing - 1
            /\ answered' = answered + 1
            /\ \/ /\ sock # "connected"
                  /\ finished' = IF RequestFinishedReleases THEN finished + 1 ELSE finished
                  /\ UNCHANGED sock
                  /\ keepParser
               \/ /\ sock = "connected" /\ connection = "Close"
                  /\ ConnectionClose(processing - 1)
                  /\ keepParser
               \/ /\ sock = "connected" /\ connection # "Close"
                  /\ finished' = IF RequestFinishedReleases THEN finished + 1 ELSE finished
                  /\ UNCHANGED sock
                  /\ Reset

Finalize(header) ==
    Finish(IF finalizedHeaders THEN headerConnection ELSE WriteHeaders(header), ResetData)

Answers == {"none"} \cup (IF "closes" \in habits THEN {"close"} ELSE {})

Answer ==
    /\ pc = "app"
    /\ pc' = back
    /\ \E header \in Answers : Finalize(header)
    /\ UNCHANGED <<wire, taken, ready, back, suspended, timeout, shutdown, dispatched>>

Suspend ==
    /\ pc = "app" /\ "suspends" \in habits
    /\ async' = TRUE
    /\ suspended' = TRUE
    /\ pc' = "idle"
    /\ UNCHANGED <<wire, taken, ready, back, parser, headerConnection, finalizedHeaders,
                   finalized, socket, shutdown, hist>>

\* Response::writeData without chunked encoding.
Write ==
    /\ pc = "app" \/ (pc = "idle" /\ suspended)
    /\ "streams" \in habits /\ ~finalizedHeaders
    /\ headerConnection' = WriteHeaders("Close")
    /\ finalizedHeaders' = TRUE
    /\ streamed' = TRUE
    /\ UNCHANGED <<wire, taken, ready, pc, back, parser, finalized, async, suspended,
                   socket, shutdown, dispatched, answered>>

\* The last ASync of a suspended request is released.
LateAnswer ==
    /\ pc = "idle" /\ suspended
    /\ suspended' = FALSE
    /\ \E header \in Answers : Finalize(header)
    /\ UNCHANGED <<wire, taken, ready, pc, back, timeout, shutdown, dispatched>>

----------------------------------------------------------------------------
(* The server closes connections.                                           *)

\* TcpServer::timeoutConnections for this connection.
TimeoutConnection ==
    /\ pc = "idle" /\ processing = 0 /\ sock = "connected" /\ finished = 0
    /\ IF timeout
       THEN ConnectionClose(0) /\ UNCHANGED timeout
       ELSE timeout' = TRUE /\ UNCHANGED <<sock, finished>>
    /\ UNCHANGED <<wire, taken, ready, pc, back, parser, headerConnection, status,
                   suspended, processing, shutdown, hist>>

\* TcpServer::shutdown, with ServerEngine::handleSocketShutdown.
Shutdown ==
    /\ pc = "idle" /\ ~shutdown /\ finished = 0
    /\ shutdown' = TRUE
    /\ \/ /\ processing = 0
          /\ IF sock = "connected" THEN ConnectionClose(0) ELSE UNCHANGED <<sock, finished>>
          /\ UNCHANGED headerConnection
       \/ /\ processing # 0
          /\ headerConnection' = "Close"
          /\ UNCHANGED <<sock, finished>>
    /\ UNCHANGED <<wire, taken, ready, pc, back, parser, status, suspended, processing,
                   timeout, hist>>

\* The socket is deleted: the connection is over.
Gone ==
    /\ pc = "idle" /\ finished > 0 /\ ~suspended
    /\ UNCHANGED vars

----------------------------------------------------------------------------

Parse ==
    \/ ReadBody
    \/ LoopDone \/ LineIncomplete \/ ParseMethod \/ ParseHeader \/ HeadComplete
    \/ BodyFails \/ SkipLine \/ ProcessRequest

Application == Answer \/ Suspend \/ Write

Next ==
    \/ Parse \/ Application
    \/ ReadyRead \/ LateAnswer
    \/ Send \/ PeerCloses \/ TimeoutConnection \/ Shutdown
    \/ Gone

Spec == Init /\ [][Next]_vars

\* Entered code goes on, readable sockets are read and suspended requests are
\* answered.  Nothing forces the client or the timeout.
Fairness ==
    /\ WF_vars(Parse \/ (Application /\ pc' # pc))
    /\ WF_vars(ReadyRead)
    /\ WF_vars(LateAnswer)

FairSpec == Spec /\ Fairness
=============================================================================
