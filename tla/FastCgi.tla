------------------------------- MODULE FastCgi -------------------------------
(***************************************************************************)
(* A connection whose client is a web server that speaks FastCGI: the      *)
(* records of ProtocolFastCGI over the socket, the request and the answers *)
(* of HttpConnection.                                                      *)
(*                                                                         *)
(* A record is a header of HeaderSize symbols, of which the first says     *)
(* what record it is and "h" is the rest, its content "d" and its padding  *)
(* "P".  "BK" and "BC" begin a request, with and without FCGI_KEEP_CONN;   *)
(* "Q" and "U" are its parameters, without and with a CONTENT_LENGTH, and  *)
(* "N" the empty record after them; "S" is a part of the body and "E" its  *)
(* end.  While the content of a record is read from the socket into the    *)
(* body (connState = "ContentBody"), bufSize is the padding to be skipped. *)
(***************************************************************************)
EXTENDS HttpProperties

VARIABLES
    pktsize,                \* content of the record that is not read yet
    avail                   \* bytesAvailable of parse

records == <<pktsize, avail>>
cvars   == <<vars, records>>

HeaderSize == 2

\* fcgi_record: the content and the padding of each record a client sends.
Content(r) ==
    CASE r \in {"BK", "BC", "Q", "U"} -> 1
      [] r = "S"                      -> BodyLen
      [] r \in {"N", "E"}             -> 0
Padding(r) == IF r \in {"Q", "U", "S"} THEN 1 ELSE 0
RecordSize(r) == HeaderSize + Content(r) + Padding(r)

Record(r) ==
    <<r, "h">> \o [i \in 1 .. Content(r) |-> "d"] \o [i \in 1 .. Padding(r) |-> "P"]

\* The records of a request.
Records(kind) ==
    Record(IF kind = "close" THEN "BC" ELSE "BK")
    \o Record(IF kind = "upload" THEN "U" ELSE "Q")
    \o Record("N")
    \o (IF kind = "upload" THEN Record("S") ELSE <<>>)
    \o Record("E")

FcgiInit ==
    /\ Connected({s \in Scenarios : "fastcgi" \in s.habits}, [k \in Kinds |-> Records(k)])
    /\ pktsize = 0 /\ avail = 0

----------------------------------------------------------------------------
(* ProtocolFastCGI::parse: while (bytesAvailable).                          *)

Again(n) == IF n # 0 THEN "read" ELSE "idle"

\* The body is read before the buffer is, and the buffer then at least once.
FcgiReadyRead ==
    /\ pc = "idle" /\ ready /\ sock = "connected" /\ finished = 0
    /\ timeout' = FALSE
    /\ IF async
       THEN ready' = FALSE /\ UNCHANGED <<pc, back, avail>>
       ELSE /\ pc' = IF connState = "ContentBody" THEN "body" ELSE "read"
            /\ back' = "idle"
            /\ avail' = Available
            /\ UNCHANGED ready
    /\ UNCHANGED <<wire, taken, parser, headerConnection, status, suspended, processing,
                   sock, finished, shutdown, hist, pktsize>>

\* A read of nothing leaves the loop; one of less than a header goes on.
ReadRecords ==
    /\ pc = "read"
    /\ LET n == IF sock = "closed" THEN 0 ELSE Smaller(Available, BufferSize - bufSize)
       IN /\ TakeFromSocket(n)
          /\ avail' = avail - n
          /\ bufSize' = bufSize + n
          /\ pc' = CASE n = 0                     -> "idle"
                     [] bufSize + n >= HeaderSize -> "packet"
                     [] OTHER                     -> Again(avail - n)
    /\ UNCHANGED <<wire, back, last, beginLine, connState, contentLength, bodySize, method,
                   http11, headerConnection, status, suspended, socket, shutdown, hist, pktsize>>

\* readBody: the rest of the content, and the padding that follows it.
ReadContent ==
    /\ pc = "body" /\ avail # 0 /\ pktsize + bufSize > 0
    /\ LET n       == Smaller(Available, pktsize + bufSize)
           content == Smaller(n, pktsize)
       IN /\ TakeFromSocket(n)
          /\ avail' = avail - n
          /\ pktsize' = pktsize - content
          /\ bodySize' = bodySize + content
          /\ bufSize' = bufSize - (n - content)
    /\ UNCHANGED <<wire, pc, back, last, beginLine, connState, contentLength, method, http11,
                   headerConnection, status, suspended, socket, shutdown, hist>>

ContentRead ==
    /\ pc = "body" /\ (avail = 0 \/ pktsize + bufSize = 0)
    /\ connState' = IF pktsize + bufSize = 0 THEN "MethodLine" ELSE connState
    /\ pc' = IF back = "idle" THEN "read" ELSE Again(avail)
    /\ UNCHANGED <<wire, taken, ready, back, bufSize, last, beginLine, contentLength, bodySize,
                   method, http11, headerConnection, status, suspended, socket, shutdown, hist,
                   records>>

----------------------------------------------------------------------------
(* processPacket, for the record at the start of the buffer.                *)

\* The first n symbols of the buffer are done with.
Consume(n) == bufSize' = bufSize - n

\* A record other than those of the body is taken when it is in the buffer.  What
\* is not the start of a record is taken for one, of which more is to come.
Whole(kinds) ==
    /\ pc = "packet" /\ bufSize >= HeaderSize
    /\ At(0) \in kinds
    /\ bufSize >= RecordSize(At(0))
    /\ Consume(RecordSize(At(0)))

Starts == {"BK", "BC", "Q", "U", "N", "S", "E"}
Incomplete ==
    bufSize >= HeaderSize /\ At(0) \in Starts
        => At(0) \notin {"S", "E"} /\ bufSize < RecordSize(At(0))

RecordIncomplete ==
    /\ pc = "packet" /\ Incomplete
    /\ pc' = Again(avail)
    /\ UNCHANGED <<wire, taken, ready, back, parser, headerConnection, status, suspended,
                   socket, shutdown, hist, records>>

BeginRequest ==
    /\ Whole({"BK", "BC"})
    /\ headerConnection' = IF At(0) = "BK" THEN "Keep" ELSE "Close"
    /\ contentLength' = -1
    /\ connState' = "MethodLine"
    /\ UNCHANGED <<wire, taken, ready, pc, back, last, beginLine, bodySize, method, http11,
                   status, suspended, socket, shutdown, hist, records>>

\* parseHeaders, for parameters that fit in the buffer.
Params ==
    /\ Whole({"Q", "U", "N"})
    /\ IF At(0) = "N" THEN UNCHANGED <<method, http11, contentLength>>
       ELSE /\ method' = RequestAt(taken - bufSize)
            /\ http11' = TRUE
            /\ contentLength' = IF At(0) = "U" THEN BodyLen ELSE contentLength
    /\ UNCHANGED <<wire, taken, ready, pc, back, last, beginLine, connState, bodySize,
                   headerConnection, status, suspended, socket, shutdown, hist, records>>

\* Wrong variant: the padding is not skipped.
PaddingForgotten == 0

\* buf_size while the rest of a part of the body is read from the socket.
PaddingLeft == Padding("S")

\* A part of the body.  Its padding is not waited for: without it the rest of the
\* buffer has a negative size and is moved all the same.
Stdin ==
    /\ pc = "packet" /\ bufSize >= HeaderSize /\ At(0) = "S"
    /\ LET content == bufSize - HeaderSize
       IN IF content < Content("S")
          THEN /\ bodySize' = bodySize + content
               /\ pktsize' = Content("S") - content
               /\ bufSize' = PaddingLeft
               /\ connState' = "ContentBody"
               /\ pc' = "body" /\ back' = "loop"
          ELSE /\ bodySize' = bodySize + Content("S")
               /\ IF bufSize < RecordSize("S")
                  THEN pc' = "crashed" /\ UNCHANGED bufSize
                  ELSE Consume(RecordSize("S")) /\ UNCHANGED pc
               /\ UNCHANGED <<pktsize, connState, back>>
    /\ UNCHANGED <<wire, taken, ready, last, beginLine, contentLength, method, http11,
                   headerConnection, status, suspended, socket, shutdown, hist, avail>>

\* The request is complete: ++processing and processRequest.
StdinEnd ==
    /\ Whole({"E"})
    /\ pc' = "app"
    /\ processing' = processing + 1
    /\ dispatched' = Append(dispatched,
           [method |-> method, http11 |-> http11, connection |-> headerConnection,
            body |-> bodySize])
    /\ UNCHANGED <<wire, taken, ready, back, last, beginLine, connState, contentLength,
                   bodySize, method, http11, headerConnection, status, suspended, sock,
                   timeout, finished, shutdown, answered, streamed, records>>

\* writeBody fails, with createBody: io->close(), and the next read fails.
StdinFails ==
    /\ pc = "packet" /\ bufSize >= HeaderSize /\ At(0) = "S" /\ "fails" \in habits
    /\ IF sock = "connected" THEN ConnectionClose(processing) ELSE UNCHANGED <<sock, finished>>
    /\ pc' = "idle"
    /\ UNCHANGED <<wire, taken, ready, back, parser, headerConnection, status, suspended,
                   processing, timeout, shutdown, hist, records>>

----------------------------------------------------------------------------
(* The answer.                                                              *)

\* resetData; what is in the buffer stays there.
FcgiResetData ==
    /\ connState' = "MethodLine" /\ headerConnection' = "NotSet"
    /\ finalizedHeaders' = FALSE /\ finalized' = FALSE /\ async' = FALSE
    /\ streamed' = FALSE
    /\ bodySize' = 0
    /\ UNCHANGED <<bufSize, last, beginLine, contentLength, method, http11>>

\* processingFinished, which resets the record only on a connection it leaves open.
FcgiFinish ==
    /\ Finish(headerConnection, FcgiResetData)
    /\ pktsize' = IF sock' = "connected" THEN 0 ELSE pktsize
    /\ UNCHANGED avail

FcgiAnswer ==
    /\ pc = "app"
    /\ pc' = Again(avail)
    /\ FcgiFinish
    /\ UNCHANGED <<wire, taken, ready, back, suspended, timeout, shutdown, dispatched>>

FcgiLateAnswer ==
    /\ pc = "idle" /\ suspended
    /\ suspended' = FALSE
    /\ FcgiFinish
    /\ UNCHANGED <<wire, taken, ready, pc, back, timeout, shutdown, dispatched>>

----------------------------------------------------------------------------

FcgiParse ==
    \/ ReadRecords \/ ReadContent \/ ContentRead
    \/ RecordIncomplete \/ BeginRequest \/ Params
    \/ Stdin \/ StdinEnd \/ StdinFails

\* What does not depend on the protocol.
Shared == Send \/ PeerCloses \/ TimeoutConnection \/ Shutdown \/ Suspend \/ Gone

FcgiNext ==
    \/ FcgiParse \/ FcgiAnswer
    \/ FcgiReadyRead \/ FcgiLateAnswer
    \/ Shared /\ UNCHANGED records

FcgiSpec == FcgiInit /\ [][FcgiNext]_cvars

FcgiFairness ==
    /\ WF_cvars(FcgiParse \/ FcgiAnswer)
    /\ WF_cvars(FcgiReadyRead)
    /\ WF_cvars(FcgiLateAnswer)

----------------------------------------------------------------------------
(* A connection to a listener of either protocol.                           *)

UsesFastCgi == "fastcgi" \in habits

EitherInit == (Init /\ pktsize = 0 /\ avail = 0) \/ FcgiInit
EitherNext == \/ ~UsesFastCgi /\ Next /\ UNCHANGED records
              \/ UsesFastCgi /\ FcgiNext

EitherFairness ==
    /\ ~UsesFastCgi => Fairness
    /\ UsesFastCgi => FcgiFairness

EitherSpec == EitherInit /\ [][EitherNext]_cvars /\ EitherFairness
=============================================================================
