-------------------------- MODULE Http2Connection --------------------------
(***************************************************************************)
(* One HTTP/2 connection: the frames ProtocolHttp2 parses, the streams it  *)
(* keeps, the dispatch of their requests, and H2Stream::doWrite, which     *)
(* waits for a flow control window in an event loop of its own, nested in  *)
(* whatever the thread was doing.                                          *)
(*                                                                         *)
(* Stream s is the one with the identifier 2s - 1.  Bodies and windows are *)
(* counted in units.  A header block is the sequence of its frames: s is    *)
(* the first of a request, with its pseudo headers, -s its continuation,   *)
(* and 0 stands for trailers.  Priorities, pings and unknown frames change *)
(* nothing and are left out, as is HPACK; so is the padding of headers,    *)
(* which is skipped.  That of data is not: see ParseData.  A frame that    *)
(* the protocol forbids ends the connection: see Disconnect.               *)
(*                                                                         *)
(* A client that keeps to the protocol is part of the model, with what it  *)
(* knows of the windows: what the server sends reaches it at once, what it *)
(* sends is read frame by frame.                                           *)
(***************************************************************************)
EXTENDS Integers, Sequences, FiniteSets, SequencesExt

CONSTANTS MaxStream,            \* bound: streams of a connection
          MaxWire,              \* bound: frames on their way
          Requests,             \* what the client may ask: see RequestType
          Answers,              \* what an action writes: sequences of lengths, of which
                                \* none is 0, as nothing is sent for it
          ConnWindow,           \* 65535
          DefaultWindow,        \* 65535, of a stream
          Windows,              \* other initial windows the client may set
          MaxWindow,            \* 2147483647
          DefaultFrame,         \* 16384, the largest frame
          FrameSizes,           \* other sizes the client may set, none of them smaller
          ServerFrame,          \* m_maxFrameSize, the largest frame the server asks for
          Habits                \* what the client does besides

Allowed == {"segment",          \* a segment may end within the header of a frame
            "continues",        \* a block in two frames may be followed by others
            "uploads",          \* an announced body may come in several frames
            "late",             \* a stream is reset or its window opened at any time
            "pads",             \* a frame of data may be padded
            "large",            \* a frame of headers may be as large as the server asks for
            "shrinks",          \* the initial window is lowered under open streams
            "vanishes"}         \* the connection is left while an answer waits

\* A body with a Content-Length or without, a header block in one frame or two,
\* and headers after the body.
RequestType == [body : Nat, announced : BOOLEAN, split : BOOLEAN, trailers : BOOLEAN]
NoRequest   == [body |-> 0, announced |-> FALSE, split |-> FALSE, trailers |-> FALSE]

ASSUME Http2Assumption ==
    /\ {MaxStream, MaxWire, ConnWindow, DefaultWindow, MaxWindow, DefaultFrame} \subseteq Nat \ {0}
    /\ Requests \subseteq RequestType /\ Windows \subseteq Nat /\ Answers \subseteq Seq(Nat \ {0})
    /\ {ServerFrame} \cup FrameSizes \subseteq {size \in Nat : size >= DefaultFrame}
    /\ Habits \subseteq Allowed

Streams == 1 .. MaxStream

VARIABLES
    \* the client
    wire,               \* frames it sent and the server did not read
    req,                \* of each stream, the request
    phase, left,        \* of each stream, what of the request was sent
    streamCredit, connCredit,   \* what it still allows the server to send
    clientInitial, clientFrame, \* the initial window and frame size it asked for
    ended,              \* the streams it has the end of
    \* the connection
    connState,          \* the preface is to come, or frames
    connected, finished, processing, spinning, goaway,
    maxStreamId, streamForContinuation, headersBuffer, windowSize, settingsInitialWindowSize,
    settingsMaxFrameSize,
    \* the streams
    stream,             \* H2Stream, of those in the hash
    seen,               \* what the application got
    \* the thread
    queued,             \* requests that are to be dispatched
    run,                \* of each stream, what its request is doing
    todo,               \* what is left of its answer
    stack               \* the streams in doWrite, the innermost last

asked  == <<clientInitial, clientFrame>>
client == <<wire, req, phase, left, streamCredit, connCredit, asked>>
socket == <<connState, connected, finished, processing, spinning, goaway>>
settings == <<settingsInitialWindowSize, settingsMaxFrameSize>>
parser == <<maxStreamId, streamForContinuation, headersBuffer, settings>>
thread == <<queued, run, todo, stack>>
vars   == <<client, ended, socket, parser, windowSize, stream, seen, thread>>

NoStream == [state |-> "none"]
NotSeen  == [block |-> <<>>, body |-> 0]

TypeOK ==
    /\ Len(wire) <= MaxWire
    /\ phase \in [Streams -> {"idle", "block", "open", "end", "reset"}]
    /\ req \in [Streams -> Requests \cup {NoRequest}] /\ left \in [Streams -> Nat]
    /\ streamCredit \in [Streams -> Int] /\ connCredit \in Int
    /\ clientInitial \in Windows \cup {DefaultWindow}
    /\ clientFrame \in FrameSizes \cup {DefaultFrame} /\ ended \subseteq Streams
    /\ connState \in {"MethodLine", "H2Frames"}
    /\ connected \in BOOLEAN /\ finished \in Nat /\ processing \in 0 .. MaxStream
    /\ spinning \in BOOLEAN /\ goaway \in BOOLEAN
    /\ maxStreamId \in {0} \cup Streams /\ streamForContinuation \in {0} \cup Streams
    /\ headersBuffer \in Seq(Int)
    /\ windowSize \in Int /\ settingsInitialWindowSize \in Windows \cup {DefaultWindow}
    /\ settingsMaxFrameSize \in FrameSizes \cup {DefaultFrame}
    /\ \A s \in Streams :
          \/ stream[s] = NoStream
          \/ /\ stream[s].state \in {"open", "half", "closed"} /\ stream[s].windowSize \in Int
             /\ stream[s].block \in Seq(Int) /\ stream[s].consumedData \in Nat
    /\ run \in [Streams -> {"none", "queued", "async", "writing", "waiting", "woken", "done"}]
    /\ todo \in [Streams -> Seq(Nat)]
    /\ queued \in Seq(Streams) /\ stack \in Seq(Streams)

Frame(type, s) == [type |-> type, s |-> s, end |-> FALSE, whole |-> TRUE, n |-> 0,
                   size |-> 0, form |-> "plain"]

\* A direct connection, or one that was upgraded with a first request (upgradeH2C).
\* The preface follows, or on a direct connection another protocol.
Init ==
    \E upgraded \in BOOLEAN, start \in {"preface", "other"} :
        /\ upgraded => start = "preface"
        /\ connState = "MethodLine" /\ wire = <<Frame(start, 0)>>
        /\ clientInitial = DefaultWindow /\ clientFrame = DefaultFrame
        /\ req = [s \in Streams |-> NoRequest]
        /\ phase = [s \in Streams |-> IF upgraded /\ s = 1 THEN "end" ELSE "idle"]
        /\ left = [s \in Streams |-> 0]
        /\ streamCredit = [s \in Streams |-> DefaultWindow] /\ connCredit = ConnWindow
        /\ ended = {} /\ connected = TRUE /\ finished = 0 /\ spinning = FALSE /\ goaway = FALSE
        /\ processing = IF upgraded THEN 1 ELSE 0
        /\ maxStreamId = IF upgraded THEN 1 ELSE 0
        /\ streamForContinuation = 0 /\ headersBuffer = <<>>
        /\ windowSize = ConnWindow
        /\ settingsInitialWindowSize = DefaultWindow /\ settingsMaxFrameSize = DefaultFrame
        /\ stream = [s \in Streams |->
                        IF upgraded /\ s = 1
                        THEN [state |-> "half", windowSize |-> DefaultWindow, block |-> <<1>>,
                              consumedData |-> 0, contentLength |-> -1]
                        ELSE NoStream]
        /\ seen = [s \in Streams |-> NotSeen]
        /\ queued = IF upgraded THEN <<1>> ELSE <<>>
        /\ run = [s \in Streams |-> IF upgraded /\ s = 1 THEN "queued" ELSE "none"]
        /\ todo = [s \in Streams |-> <<>>] /\ stack = <<>>

----------------------------------------------------------------------------
(* The client.                                                              *)

CanSend == /\ connected /\ Len(wire) < MaxWire
           /\ \A s \in Streams : phase[s] # "block"

HeaderFrames == {"headers", "continuation", "trailers"}

\* The habits that show in a single frame, at most one at a time: its header is cut
\* by the end of a segment, or it is padded, or it is larger than DefaultFrame.
Forms(type) ==
    {"plain"} \cup {form \in Habits :
        \/ form = "segment"
        \/ form = "pads" /\ type = "data"
        \/ form = "large" /\ type \in HeaderFrames}
Sends(frame) ==
    \E form \in Forms(frame.type) : wire' = Append(wire, [frame EXCEPT !.form = form])

\* Without trailers the last of headers and data ends the stream.
EndsHeaders(r) == r.body = 0 /\ ~r.trailers
AfterBlock(r)  == IF EndsHeaders(r) THEN "end" ELSE "open"

SendHeaders(s) ==
    /\ CanSend /\ phase[s] = "idle" /\ \A t \in 1 .. s - 1 : phase[t] # "idle"
    /\ "continues" \in Habits \/ \A t \in Streams : phase[t] # "idle" => ~req[t].split
    /\ \E r \in Requests :
          /\ \/ "continues" \in Habits \/ ~r.split
             \/ ~r.trailers /\ \A t \in Streams : phase[t] = "open" => ~req[t].trailers
          /\ req' = [req EXCEPT ![s] = r]
          /\ left' = [left EXCEPT ![s] = r.body]
          /\ phase' = [phase EXCEPT ![s] = IF r.split THEN "block" ELSE AfterBlock(r)]
          /\ Sends([Frame("headers", s) EXCEPT !.whole = ~r.split, !.end = EndsHeaders(r),
                                               !.n = IF r.announced THEN r.body ELSE -1])
    /\ streamCredit' = [streamCredit EXCEPT ![s] = clientInitial]
    /\ UNCHANGED <<connCredit, asked, ended, socket, parser, windowSize, stream, seen, thread>>

SendContinuation(s) ==
    /\ connected /\ Len(wire) < MaxWire /\ phase[s] = "block"
    /\ phase' = [phase EXCEPT ![s] = AfterBlock(req[s])]
    /\ Sends([Frame("continuation", s) EXCEPT !.n = IF req[s].announced THEN req[s].body ELSE -1])
    /\ UNCHANGED <<req, left, streamCredit, connCredit, asked, ended, socket, parser,
                   windowSize, stream, seen, thread>>

SendData(s) ==
    /\ CanSend /\ phase[s] = "open" /\ left[s] > 0
    /\ \E n \in 1 .. left[s] :
          /\ n = left[s] \/ ~req[s].announced \/ "uploads" \in Habits
          /\ left' = [left EXCEPT ![s] = @ - n]
          /\ Sends([Frame("data", s) EXCEPT !.n = n, !.end = (n = left[s] /\ ~req[s].trailers)])
    /\ phase' = [phase EXCEPT ![s] = IF left'[s] = 0 /\ ~req[s].trailers THEN "end" ELSE @]
    /\ UNCHANGED <<req, streamCredit, connCredit, asked, ended, socket, parser, windowSize,
                   stream, seen, thread>>

SendTrailers(s) ==
    /\ CanSend /\ phase[s] = "open" /\ left[s] = 0 /\ req[s].trailers
    /\ phase' = [phase EXCEPT ![s] = "end"]
    /\ Sends([Frame("trailers", s) EXCEPT !.end = TRUE])
    /\ UNCHANGED <<req, left, streamCredit, connCredit, asked, ended, socket, parser,
                   windowSize, stream, seen, thread>>

\* A stream that the server may close meanwhile is only reset with the habit.
SendReset(s) ==
    /\ CanSend /\ phase[s] \in {"open", "end"} /\ s \notin ended
    /\ "late" \in Habits \/ phase[s] = "open"
    /\ phase' = [phase EXCEPT ![s] = "reset"]
    /\ Sends(Frame("reset", s))
    /\ UNCHANGED <<req, left, streamCredit, connCredit, asked, ended, socket, parser,
                   windowSize, stream, seen, thread>>

\* What was received is allowed again; without the habit, when the server waits
\* for it, and as long as the Content-Length of the answer is not reached.
SendUpdate(s) ==
    /\ CanSend /\ phase[s] \in {"open", "end"} /\ s \notin ended
    /\ streamCredit[s] < clientInitial
    /\ "late" \in Habits \/ (streamCredit[s] = 0 /\ todo[s] # <<>>)
    /\ streamCredit' = [streamCredit EXCEPT ![s] = clientInitial]
    /\ Sends([Frame("update", s) EXCEPT !.n = clientInitial - streamCredit[s]])
    /\ UNCHANGED <<req, phase, left, connCredit, asked, ended, socket, parser, windowSize,
                   stream, seen, thread>>

SendConnUpdate ==
    /\ CanSend /\ connCredit < ConnWindow
    /\ connCredit' = ConnWindow
    /\ Sends([Frame("update", 0) EXCEPT !.n = ConnWindow - connCredit])
    /\ UNCHANGED <<req, phase, left, streamCredit, asked, ended, socket, parser, windowSize,
                   stream, seen, thread>>

\* Another initial window moves the windows of the streams in progress.
InProgress(s) == phase[s] \in {"open", "end"} /\ s \notin ended

SendSettings(w, size) ==
    /\ CanSend /\ <<w, size>> # asked
    /\ \/ "shrinks" \in Habits \/ w >= clientInitial
       \/ \A s \in Streams : ~InProgress(s)
    /\ clientInitial' = w /\ clientFrame' = size
    /\ streamCredit' = [s \in Streams |-> streamCredit[s] + IF InProgress(s) THEN w - clientInitial
                                                                 ELSE 0]
    /\ Sends([Frame("settings", 0) EXCEPT !.n = w, !.size = size])
    /\ UNCHANGED <<req, phase, left, connCredit, ended, socket, parser, windowSize, stream, seen,
                   thread>>

----------------------------------------------------------------------------
(* The socket and the thread.                                               *)

\* The thread is in an event loop, not in the code of an action.
InLoop == ~spinning /\ finished = 0 /\ \A s \in Streams : run[s] # "writing"

\* The connection is closed: socketDisconnected.
Closes ==
    /\ connected' = FALSE
    /\ finished' = IF processing = 0 THEN finished + 1 ELSE finished
    /\ UNCHANGED <<connState, processing, spinning>>

\* The client leaves, sends GOAWAY or a frame that the protocol forbids; or
\* timeoutConnections closes an idle one.
Disconnect ==
    /\ InLoop /\ connected
    /\ "vanishes" \in Habits \/ stack = <<>>
    /\ Closes /\ UNCHANGED goaway
    /\ UNCHANGED <<client, ended, parser, windowSize, stream, seen, thread>>

\* sendGoAway, after which parse closes the connection.
GoAway ==
    /\ Closes /\ goaway' = TRUE
    /\ UNCHANGED <<parser, windowSize, stream, thread>>

\* queueStream.
QueueStream(s) ==
    /\ queued' = Append(queued, s) /\ run' = [run EXCEPT ![s] = "queued"]
    /\ processing' = processing + 1
    /\ UNCHANGED <<todo, stack, connState, connected, finished, spinning, goaway>>

\* windowUpdated of all streams, with the new windows: the loop of a stream with
\* an open window is told to quit.
WindowUpdated(window, streams) ==
    [s \in Streams |->
        IF /\ streams[s] # NoStream /\ run[s] = "waiting"
           /\ window > 0 /\ streams[s].windowSize > 0
        THEN "woken" ELSE run[s]]

----------------------------------------------------------------------------
(* The frames.                                                              *)

\* The paths of a block: validPseudoHeader accepts one for a stream.
Paths(block) == Cardinality({i \in DOMAIN block : block[i] > 0})

\* Wrong variant: a stream that ended is not distinguished from a new block.
RefusesHalf(h) == /\ ~h.end /\ h.state = "open" /\ streamForContinuation = 0
                  \/ h.state \in {"half", "closed"}

\* The states in which a stream accepts no further header frame.
Refuses(h) == \/ ~h.end /\ h.state = "open" /\ streamForContinuation = 0
              \/ h.state = "half" /\ streamForContinuation = 0
              \/ h.state = "closed"

\* The stream after the header frame f: a new one is created by the first.
OpenedBy(f) ==
    LET old == IF stream[f.s] # NoStream THEN stream[f.s]
               ELSE [state |-> "open", windowSize |-> settingsInitialWindowSize, block |-> <<>>,
                     consumedData |-> 0, contentLength |-> -1]
    IN  IF f.end THEN [old EXCEPT !.state = "half"] ELSE old

Piece(f) == CASE f.type = "headers" -> f.s [] f.type = "continuation" -> -f.s [] OTHER -> 0

\* The block is decoded for the stream h: headersBuffer is not cleared.
Decode(f, h, block) ==
    IF Paths(h.block \o block) # 1 THEN GoAway /\ UNCHANGED seen
    ELSE /\ stream' = [stream EXCEPT ![f.s] =
                          [h EXCEPT !.block = @ \o block,
                                    !.contentLength = IF f.type = "trailers" THEN @ ELSE f.n]]
         /\ IF h.state = "half"
            THEN QueueStream(f.s)
            ELSE UNCHANGED <<socket, thread>>
         /\ streamForContinuation' = 0
         /\ headersBuffer' = IF headersBuffer = <<>> THEN <<>> ELSE block
         /\ maxStreamId' = IF stream[f.s] = NoStream THEN f.s ELSE maxStreamId
         /\ UNCHANGED <<seen, windowSize, settings>>

\* The size of a frame of headers is compared with what the client asked for, not
\* with what the server did.
TooLarge(f) == (IF f.form = "large" THEN ServerFrame ELSE DefaultFrame) > settingsMaxFrameSize

ParseHeaders(f) ==
    IF \/ TooLarge(f)
       \/ f.type = "continuation" /\ streamForContinuation # f.s
       \/ stream[f.s] # NoStream /\ Refuses([state |-> stream[f.s].state, end |-> f.end])
       \/ stream[f.s] = NoStream /\ maxStreamId >= f.s
    THEN GoAway /\ UNCHANGED seen
    ELSE IF f.whole
    THEN Decode(f, OpenedBy(f), Append(headersBuffer, Piece(f)))
    ELSE /\ stream' = [stream EXCEPT ![f.s] = OpenedBy(f)]
         /\ streamForContinuation' = f.s
         /\ headersBuffer' = Append(headersBuffer, Piece(f))
         /\ maxStreamId' = IF stream[f.s] = NoStream THEN f.s ELSE maxStreamId
         /\ UNCHANGED <<socket, thread, seen, windowSize, settings>>

\* An announced length is compared with every frame, not only with the last.
BadLength(f, h) == h.contentLength # -1 /\ ((f.end /\ h.contentLength # h.consumedData)
                                             \/ h.contentLength > h.consumedData)

\* Wrong variant: a body ends with its length, which need not be announced.
EndsBodyByLength(f, h) == h.consumedData >= h.contentLength

EndsBody(f, h) == f.end

\* What is written to the body: the padding is cut off, and the byte that tells its
\* length stays before the data.
Unpadded(f) == IF f.form = "pads" THEN f.n + 1 ELSE f.n

ParseData(f) ==
    IF stream[f.s] = NoStream \/ stream[f.s].state # "open" THEN GoAway /\ UNCHANGED seen
    ELSE \E h \in {[stream[f.s] EXCEPT !.consumedData = @ + Unpadded(f)]} :
         IF BadLength(f, h) THEN GoAway /\ UNCHANGED seen
         ELSE /\ stream' = [stream EXCEPT ![f.s] = h]
              /\ IF EndsBody(f, h) THEN QueueStream(f.s) ELSE UNCHANGED <<socket, thread>>
              /\ UNCHANGED <<parser, windowSize, seen>>

ParseRstStream(f) ==
    IF stream[f.s] = NoStream THEN GoAway /\ UNCHANGED seen
    ELSE /\ stream' = [stream EXCEPT ![f.s].state = "closed"]
         /\ UNCHANGED <<socket, thread, parser, windowSize, seen>>

\* The handlers that open windows end with windowUpdated.
Opens(window, streams) ==
    /\ windowSize' = window /\ stream' = streams /\ run' = WindowUpdated(window, streams)
    /\ UNCHANGED <<socket, seen, queued, todo, stack>>

\* Wrong variant: a larger initial window does not wake anyone.
ParseSettingsAsleep(f) ==
    /\ settingsInitialWindowSize' = f.n /\ settingsMaxFrameSize' = f.size
    /\ stream' = [s \in Streams |->
                     IF stream[s] = NoStream THEN NoStream
                     ELSE [stream[s] EXCEPT !.windowSize = @ + f.n - settingsInitialWindowSize]]
    /\ UNCHANGED <<windowSize, socket, seen, thread, maxStreamId, streamForContinuation, headersBuffer>>

ParseSettings(f) ==
    /\ settingsInitialWindowSize' = f.n /\ settingsMaxFrameSize' = f.size
    /\ Opens(windowSize, [s \in Streams |->
                 IF stream[s] = NoStream THEN NoStream
                 ELSE [stream[s] EXCEPT !.windowSize = @ + f.n - settingsInitialWindowSize]])
    /\ UNCHANGED <<maxStreamId, streamForContinuation, headersBuffer>>

ParseWindowUpdate(f) ==
    IF f.s = 0
    THEN IF windowSize + f.n > MaxWindow THEN GoAway /\ UNCHANGED seen
         ELSE Opens(windowSize + f.n, stream) /\ UNCHANGED parser
    ELSE IF stream[f.s] = NoStream THEN GoAway /\ UNCHANGED seen
    ELSE IF stream[f.s].windowSize + f.n > MaxWindow
    THEN /\ stream' = [stream EXCEPT ![f.s].state = "closed"]
         /\ Closes /\ UNCHANGED <<goaway, parser, windowSize, seen, thread>>
    ELSE /\ Opens(windowSize, [stream EXCEPT ![f.s].windowSize = @ + f.n])
         /\ UNCHANGED parser

\* The first bytes are the preface, or the connection is closed.
ParsePreface(f) ==
    /\ IF f.type = "preface"
       THEN connState' = "H2Frames" /\ UNCHANGED <<connected, finished, processing, spinning>>
       ELSE Closes
    /\ UNCHANGED <<goaway, parser, windowSize, stream, seen, thread>>

\* One turn of the loop of parse over the frames of the buffer.  With a part of
\* a frame header in the buffer it turns for ever.
Parse ==
    /\ InLoop /\ connected /\ wire # <<>>
    /\ wire' = Tail(wire)
    /\ \E f \in {Head(wire)} :
          IF connState = "MethodLine" THEN ParsePreface(f)
          ELSE IF f.form = "segment" THEN
                        /\ spinning' = TRUE
                        /\ UNCHANGED <<connState, connected, finished, processing, goaway, parser, windowSize,
                                       stream, seen, thread>>
          ELSE CASE f.type \in HeaderFrames -> ParseHeaders(f)
                 [] f.type = "data"     -> ParseData(f)
                 [] f.type = "reset"    -> ParseRstStream(f)
                 [] f.type = "update"   -> ParseWindowUpdate(f)
                 [] f.type = "settings" -> ParseSettings(f)
    /\ UNCHANGED <<req, phase, left, streamCredit, connCredit, asked, ended>>

----------------------------------------------------------------------------
(* The application and its answers.                                         *)

\* finalize: the headers are written, and the body when that succeeded.  The
\* call of doWrite is nested in what the thread was doing.
Answer(s, writes) ==
    /\ todo' = [todo EXCEPT ![s] = IF connected THEN writes ELSE <<>>]
    /\ run' = [run EXCEPT ![s] = "writing"] /\ stack' = Append(stack, s)

\* The queued call of processRequest: the action answers, or suspends.
Process ==
    /\ InLoop /\ queued # <<>> /\ queued' = Tail(queued)
    /\ \E s \in {Head(queued)} :
          /\ seen' = [seen EXCEPT ![s] = [block |-> stream[s].block, body |-> stream[s].consumedData]]
          /\ \/ \E writes \in Answers : Answer(s, writes)
             \/ run' = [run EXCEPT ![s] = "async"] /\ UNCHANGED <<todo, stack>>
    /\ UNCHANGED <<client, ended, socket, parser, windowSize, stream>>

Complete(s) ==
    /\ InLoop /\ run[s] = "async"
    /\ \E writes \in Answers : Answer(s, writes)
    /\ UNCHANGED <<client, ended, socket, parser, windowSize, stream, seen, queued>>

Innermost(s) == stack # <<>> /\ Last(stack) = s /\ run[s] \in {"writing", "woken"}

MinOf(S) == CHOOSE x \in S : \A y \in S : x <= y

\* Wrong variant: the larger of the two windows.
AvailableOfConnection(s) == MinOf({windowSize, settingsMaxFrameSize})

\* availableWindowSize.
Available(s) == MinOf({stream[s].windowSize, windowSize, settingsMaxFrameSize})

\* A frame of n is sent; the client has the end of the stream with end.
SendFrame(s, n, end) ==
    IF connected
    THEN /\ streamCredit' = [streamCredit EXCEPT ![s] = @ - n]
         /\ connCredit' = connCredit - n
         /\ ended' = IF end THEN ended \cup {s} ELSE ended
    ELSE UNCHANGED <<streamCredit, connCredit, ended>>

\* After a write: the rest of the answer, which a failed write ends.
AfterWrite(s) == IF connected THEN Tail(todo[s]) ELSE <<>>

\* One turn of the loop of doWrite, in three cases: no window, in which a nested
\* loop runs until it opens; the last frame, which does not count; another.
WaitForWindow(s) ==
    /\ Innermost(s) /\ todo[s] # <<>> /\ stream[s].state # "closed" /\ Available(s) = 0
    /\ run' = [run EXCEPT ![s] = "waiting"]
    /\ UNCHANGED <<client, ended, socket, parser, windowSize, stream, seen, queued, todo, stack>>

WriteLast(s) ==
    /\ Innermost(s) /\ todo[s] # <<>> /\ stream[s].state # "closed" /\ Available(s) > Head(todo[s])
    /\ SendFrame(s, Head(todo[s]), TRUE)
    /\ todo' = [todo EXCEPT ![s] = AfterWrite(s)]
    /\ run' = [run EXCEPT ![s] = "writing"]
    /\ UNCHANGED <<wire, req, phase, left, asked, socket, parser, windowSize, stream, seen,
                   queued, stack>>

Write(s) ==
    /\ Innermost(s) /\ todo[s] # <<>> /\ stream[s].state # "closed"
    /\ Available(s) # 0 /\ Available(s) <= Head(todo[s])
    /\ SendFrame(s, Available(s), FALSE)
    /\ windowSize' = windowSize - Available(s)
    /\ stream' = [stream EXCEPT ![s].windowSize = @ - Available(s)]
    /\ todo' = [todo EXCEPT ![s] = IF Head(@) = Available(s) THEN AfterWrite(s)
                                   ELSE <<Head(@) - Available(s)>> \o Tail(@)]
    /\ run' = [run EXCEPT ![s] = "writing"]
    /\ UNCHANGED <<wire, req, phase, left, asked, socket, parser, seen, queued, stack>>

\* Socket::requestFinished.
RequestFinished(s) ==
    /\ processing' = processing - 1
    /\ finished' = IF processing' = 0 /\ ~connected THEN finished + 1 ELSE finished

\* processingFinished, of an answer that is written or of a stream that is closed.
Finish(s) ==
    /\ Innermost(s) /\ (todo[s] = <<>> \/ stream[s].state = "closed")
    /\ RequestFinished(s)
    /\ stream' = [stream EXCEPT ![s] = NoStream]
    /\ run' = [run EXCEPT ![s] = "done"] /\ todo' = [todo EXCEPT ![s] = <<>>]
    /\ stack' = Front(stack)
    /\ UNCHANGED <<client, ended, connState, connected, spinning, goaway, parser, windowSize, seen, queued>>

----------------------------------------------------------------------------
Client == \/ \E s \in Streams : \/ SendHeaders(s) \/ SendContinuation(s) \/ SendData(s)
                                \/ SendTrailers(s) \/ SendReset(s) \/ SendUpdate(s)
          \/ SendConnUpdate
          \/ \E w \in Windows, size \in FrameSizes : SendSettings(w, size)

Next == \/ Client \/ Disconnect \/ Parse \/ Process
        \/ \E s \in Streams : \/ Complete(s) \/ WaitForWindow(s) \/ WriteLast(s) \/ Write(s)
                              \/ Finish(s)

Spec == Init /\ [][Next]_vars

\* The thread runs, actions answer, a client completes its header blocks and
\* opens the windows it has exhausted, although it may have other things to send.
FairSpec ==
    /\ Spec
    /\ WF_vars(Parse) /\ WF_vars(Process) /\ SF_vars(SendConnUpdate)
    /\ \A s \in Streams :
          /\ WF_vars(Complete(s)) /\ WF_vars(WaitForWindow(s)) /\ WF_vars(WriteLast(s))
          /\ WF_vars(Write(s)) /\ WF_vars(Finish(s))
          /\ WF_vars(SendContinuation(s)) /\ SF_vars(SendUpdate(s))
=============================================================================
