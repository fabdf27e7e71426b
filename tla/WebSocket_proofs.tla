-------------------------- MODULE WebSocket_proofs --------------------------
(***************************************************************************)
(* The end of a WebSocket connection is told once, whatever frames the     *)
(* client sends, how ever they arrive, and whoever ends the connection;    *)
(* and the application gets the messages of a client that keeps to the     *)
(* protocol.  The first proof follows the socket, the count of what is in  *)
(* progress and the last opcode, and is not about the bytes of a message.  *)
(* The second says where the frames are in the bytes of the client, and    *)
(* what the parser has collected at each of these places.                  *)
(***************************************************************************)
EXTENDS WebSocketProperties, WellFoundedInduction, SequenceTheorems, TLAPS

\* What the client of the theorem does: a close frame is not fragmented, nor refused
\* for its header, and is the last of what it sends, also after a frame that was
\* refused.
Orderly ==
    /\ finnOpcode.op = "close" =>
           /\ finnOpcode.fin = TRUE
           /\ phase = "header" => arrived = 0
           /\ cause # "refused"
    /\ phase = "header" /\ arrived # 0 /\ Head(stream).op = "close" => ~RefusesHeader(Head(stream))

\* A close frame that was read to its end.
ReadClose == finnOpcode.op = "close" /\ phase = "header"

\* The opcode is what TellClosed compares.
OpcodeInv == finnOpcode = [op |-> finnOpcode.op, fin |-> finnOpcode.fin]

\* A close frame has no extended size.
SizeInv == phase = "size" => finnOpcode.op # "close"

\* An open connection counts itself, and nobody was told.
OpenInv ==
    conn = "open" => /\ processing = 1 /\ finished = 0 /\ closedSignals = 0
                     /\ cause = "none" /\ ~ReadClose

\* One that is closing was counted down by the application that closed it, was
\* told of with the close frame, or is still to be told of.
ClosingInv ==
    conn = "closing" =>
        /\ finished = 0
        /\ \/ /\ cause = "application" /\ processing = 0
              /\ closedSignals = IF ReadClose THEN 1 ELSE 0
           \/ cause = "closeFrame" /\ processing = 1 /\ closedSignals = 1 /\ ReadClose
           \/ cause = "refused" /\ processing = 1 /\ closedSignals = 0

\* One that is closed was released, and was told of unless the application knew.
ClosedInv ==
    conn = "closed" =>
        /\ finished = 1 /\ processing = 0 /\ closedSignals \in {0, 1}
        /\ cause # "application" => closedSignals = 1

EndInv ==
    /\ conn \in {"open", "closing", "closed"}
    /\ OpcodeInv /\ SizeInv /\ OpenInv /\ ClosingInv /\ ClosedInv
    /\ continueOpcode # "close"

----------------------------------------------------------------------------
(* The steps of the socket.                                                 *)

\* A request in progress is released and told of, but for a close frame.
LEMMA DisconnectedOnce ==
    ASSUME NEW told0 \in {0, 1}, OpcodeInv, Orderly, finished = 0,
           Disconnected(1, told0)
    PROVE  /\ conn' = "closed" /\ finished' = 1 /\ processing' = 0
           /\ closedSignals' = IF finnOpcode.op = "close" THEN told0 ELSE told0 + 1
<1>1. finnOpcode.op = "close" => finnOpcode = [op |-> "close", fin |-> TRUE]
  BY DEF OpcodeInv, Orderly
<1>2. finnOpcode = [op |-> "close", fin |-> TRUE] => finnOpcode.op = "close"
  OBVIOUS
<1> QED BY <1>1, <1>2 DEF Disconnected, TellClosed

\* One that was counted down is only released.
LEMMA DisconnectedAnswered ==
    ASSUME NEW told0, finished = 0, Disconnected(0, told0)
    PROVE  conn' = "closed" /\ finished' = 1 /\ processing' = 0 /\ closedSignals' = told0
BY DEF Disconnected

\* The server closes what it refuses.
LEMMA RefusesOnce ==
    ASSUME EndInv, Orderly, conn # "closed",
           finnOpcode'.op # "close", finnOpcode.op # "close",
           OpcodeInv', continueOpcode' # "close",
           ConnectionClose(processing, closedSignals, "refused")
    PROVE  EndInv'
<1>1. CASE conn = "open"
  <2>1. processing = 1 /\ closedSignals = 0 /\ finished = 0 /\ cause' = "refused"
    BY <1>1 DEF EndInv, OpenInv, ConnectionClose
  <2>2. CASE Disconnected(processing, closedSignals)
    <3>1. conn' = "closed" /\ finished' = 1 /\ processing' = 0 /\ closedSignals' = 1
      BY <2>1, <2>2, DisconnectedOnce DEF EndInv
    <3> QED BY <3>1 DEF EndInv, SizeInv, OpenInv, ClosingInv, ClosedInv
  <2>3. CASE conn' = "closing" /\ processing' = processing /\ closedSignals' = closedSignals
             /\ UNCHANGED finished
    BY <2>1, <2>3 DEF EndInv, SizeInv, OpenInv, ClosingInv, ClosedInv
  <2> QED BY <1>1, <2>2, <2>3 DEF ConnectionClose
<1>2. CASE conn = "closing"
  <2>1. /\ processing' = processing /\ closedSignals' = closedSignals /\ cause' = cause
        /\ UNCHANGED <<conn, finished>>
    BY <1>2 DEF ConnectionClose, EndInv, ClosingInv
  <2> QED BY <1>2, <2>1 DEF EndInv, SizeInv, OpenInv, ClosingInv, ClosedInv, ReadClose
<1> QED BY <1>1, <1>2 DEF EndInv

\* So it does after a close frame, of which the application is told first.
LEMMA ClosesOnce ==
    ASSUME NEW empty, EndInv, Orderly', conn # "closed", ~ReadClose,
           finnOpcode.op = "close", finnOpcode' = finnOpcode, phase' = "header",
           continueOpcode' # "close", SendClosed(empty)
    PROVE  EndInv'
<1>1. ConnectionClose(processing, closedSignals + 1, "closeFrame") /\ OpcodeInv' /\ ReadClose'
  BY DEF SendClosed, EndInv, OpcodeInv, ReadClose
<1>2. cause' # "refused" /\ finnOpcode.fin = TRUE
  BY DEF Orderly
<1>3. CASE conn = "open"
  <2>1. processing = 1 /\ closedSignals = 0 /\ finished = 0 /\ cause' = "closeFrame"
    BY <1>1, <1>3 DEF EndInv, OpenInv, ConnectionClose
  <2>2. CASE Disconnected(processing, closedSignals + 1)
    <3>1. finnOpcode = [op |-> "close", fin |-> TRUE]
      BY <1>2 DEF EndInv, OpcodeInv
    <3>2. conn' = "closed" /\ finished' = 1 /\ processing' = 0 /\ closedSignals' = 1
      BY <2>1, <2>2, <3>1 DEF Disconnected, TellClosed
    <3> QED BY <1>1, <3>2 DEF EndInv, SizeInv, OpenInv, ClosingInv, ClosedInv
  <2>3. CASE conn' = "closing" /\ processing' = processing
             /\ closedSignals' = closedSignals + 1 /\ UNCHANGED finished
    BY <1>1, <2>1, <2>3 DEF EndInv, SizeInv, OpenInv, ClosingInv, ClosedInv
  <2> QED BY <1>1, <1>3, <2>2, <2>3 DEF ConnectionClose
<1>4. CASE conn = "closing"
  <2>1. /\ processing' = processing /\ closedSignals' = closedSignals + 1 /\ cause' = cause
        /\ UNCHANGED <<conn, finished>>
    BY <1>1, <1>4 DEF ConnectionClose, EndInv, ClosingInv
  <2>2. cause = "application" /\ processing = 0 /\ closedSignals = 0 /\ finished = 0
    BY <1>2, <1>4, <2>1 DEF EndInv, ClosingInv
  <2> QED BY <1>1, <1>4, <2>1, <2>2 DEF EndInv, SizeInv, OpenInv, ClosingInv, ClosedInv
<1> QED BY <1>3, <1>4 DEF EndInv

----------------------------------------------------------------------------
(* The actions.                                                             *)

\* A complete frame ends the connection, or leaves the socket alone.
LEMMA CompleteKeeps ==
    ASSUME NEW p, NEW empty, EndInv, Orderly, Orderly', conn # "closed", ~ReadClose,
           Complete(p, empty), UNCHANGED finnOpcode
    PROVE  EndInv'
<1>1. phase' = "header" /\ finnOpcode' = finnOpcode /\ OpcodeInv'
  BY DEF Complete, EndInv, OpcodeInv
<1>2. PICK op \in {IF finnOpcode.op = "continue" THEN continueOpcode ELSE finnOpcode.op} :
          \/ op = "text" /\ SendText(p, message \o p, Undecoded(p),
                                     finnOpcode.op = "text" /\ finnOpcode.fin, empty)
          \/ op = "binary" /\ SendBinary(message \o p)
          \/ op = "close" /\ SendClosed(empty) /\ UNCHANGED whole
          \/ op = "ping" /\ pc' = "parse" /\ UNCHANGED <<whole, socket, told>>
          \/ op = "pong" /\ pc' = "app" /\ UNCHANGED <<whole, socket, told>>
          \/ op = "none" /\ Refuse(empty) /\ UNCHANGED whole
  BY DEF Complete
<1>3. continueOpcode # "close" /\ (finnOpcode.op = "close" <=> op = "close")
  BY DEF EndInv
<1>4. ASSUME op # "close", continueOpcode' # "close", UNCHANGED <<socket, closedSignals>>
      PROVE  EndInv'
  BY <1>1, <1>3, <1>4 DEF EndInv, SizeInv, OpenInv, ClosingInv, ClosedInv, ReadClose, socket
<1>5. ASSUME op # "close", continueOpcode' # "close", Refuse(empty)
      PROVE  EndInv'
  BY <1>1, <1>3, <1>5, RefusesOnce DEF Refuse
<1>6. CASE op = "text" /\ SendText(p, message \o p, Undecoded(p),
                                   finnOpcode.op = "text" /\ finnOpcode.fin, empty)
  <2>1. continueOpcode' # "close"
    BY <1>3, <1>6 DEF SendText, Keeps
  <2>2. Refuse(empty) \/ UNCHANGED <<socket, closedSignals>>
    BY <1>6 DEF SendText, Tells
  <2> QED BY <1>4, <1>5, <1>6, <2>1, <2>2
<1>7. CASE op = "binary" /\ SendBinary(message \o p)
  BY <1>3, <1>4, <1>7 DEF SendBinary, Keeps, Tells
<1>8. CASE op = "close" /\ SendClosed(empty) /\ UNCHANGED whole
  BY <1>1, <1>3, <1>8, ClosesOnce DEF whole
<1>9. CASE op \in {"ping", "pong"} /\ UNCHANGED <<whole, socket, told>>
  BY <1>3, <1>4, <1>9 DEF whole, told
<1>10. CASE op = "none" /\ Refuse(empty) /\ UNCHANGED whole
  BY <1>3, <1>5, <1>10 DEF whole
<1> QED BY <1>2, <1>6, <1>7, <1>8, <1>9, <1>10

\* A header is read when no close frame was.
LEMMA ReadHeaderKeeps ==
    ASSUME EndInv, Orderly, Orderly', ReadHeader
    PROVE  EndInv'
<1>1. conn # "closed" /\ phase = "header" /\ finnOpcode.op # "close" /\ arrived # 0
  BY DEF ReadHeader, Reads, Orderly
<1>2. PICK h \in {Head(stream)} :
        /\ finnOpcode' = [op |-> h.op, fin |-> h.fin] /\ payloadSize' = h.size
        /\ IF RefusesHeader(h)
           THEN Refuse(FALSE) /\ UNCHANGED <<phase, payload, whole>>
           ELSE /\ phase' = IF h.size > ShortSize THEN "size" ELSE "mask"
                /\ message' = IF KeepsMessage(h.op) THEN message ELSE <<>>
                /\ startOfFrame' = IF h.op \in Data THEN 0 ELSE startOfFrame
                /\ continueOpcode' = IF h.op \in Data /\ ~h.fin THEN h.op ELSE continueOpcode
                /\ UNCHANGED <<payload, pc, socket, told>>
  BY DEF ReadHeader
<1>3. OpcodeInv' /\ finnOpcode'.op = h.op
  BY <1>2 DEF OpcodeInv
<1>4. CASE RefusesHeader(h)
  <2>1. finnOpcode'.op # "close" /\ continueOpcode' # "close"
    BY <1>1, <1>2, <1>3, <1>4 DEF Orderly, EndInv, whole
  <2> QED BY <1>1, <1>2, <1>3, <1>4, <2>1, RefusesOnce DEF Refuse
<1>5. CASE ~RefusesHeader(h)
  <2>1. phase' # "header" /\ UNCHANGED <<socket, closedSignals>> /\ continueOpcode' # "close"
    BY <1>2, <1>5 DEF EndInv, Data, told
  <2>2. SizeInv'
    BY <1>2, <1>3, <1>5 DEF SizeInv, RefusesHeader
  <2> QED BY <1>1, <1>3, <2>1, <2>2 DEF EndInv, OpenInv, ClosingInv, ClosedInv, ReadClose, socket
<1> QED BY <1>4, <1>5

\* Within a frame nothing changes until it is complete.
LEMMA ReadsKeep ==
    ASSUME EndInv, phase # "header", phase' \in {phase, "mask", "payload"},
           UNCHANGED <<finnOpcode, whole, socket, told>>
    PROVE  EndInv'
BY DEF EndInv, OpcodeInv, SizeInv, OpenInv, ClosingInv, ClosedInv, ReadClose, whole, socket, told

\* So does every step of the parser.
LEMMA ParseKeeps ==
    ASSUME EndInv, Orderly, Orderly', Parse
    PROVE  EndInv'
<1>1. CASE ReadHeader
  BY <1>1, ReadHeaderKeeps
<1>2. CASE ReadSize
  <2>1. conn # "closed" /\ phase = "size" /\ finnOpcode.op # "close"
        /\ UNCHANGED <<finnOpcode, whole>> /\ OpcodeInv' /\ continueOpcode' # "close"
    BY <1>2 DEF ReadSize, Reads, EndInv, SizeInv, OpcodeInv, whole
  <2>2. CASE Refuse(FALSE) /\ UNCHANGED phase
    BY <2>1, <2>2, RefusesOnce DEF Refuse
  <2>3. CASE phase' = "mask" /\ UNCHANGED <<pc, socket, told>>
    BY <2>1, <2>3, ReadsKeep
  <2> QED BY <1>2, <2>2, <2>3 DEF ReadSize
<1>3. CASE ReadMask
  <2>1. conn # "closed" /\ phase = "mask" /\ ~ReadClose
    BY <1>3 DEF ReadMask, Reads, ReadClose
  <2>2. CASE payloadSize = 0
    BY <1>3, <2>1, <2>2, CompleteKeeps DEF ReadMask
  <2>3. CASE payloadSize # 0
    BY <1>3, <2>1, <2>3, ReadsKeep DEF ReadMask
  <2> QED BY <2>2, <2>3
<1>4. CASE ReadPayload
  <2>1. PICK n : /\ Reads("payload", n) /\ UNCHANGED <<finnOpcode, payloadSize>>
                 /\ \E p \in {payload \o [i \in 1 .. n |-> stream[i].c]} :
                       IF Len(p) < payloadSize
                       THEN payload' = p /\ UNCHANGED <<phase, pc, whole, socket, told>>
                       ELSE Complete(p, FALSE)
    BY <1>4 DEF ReadPayload
  <2>2. conn # "closed" /\ phase = "payload" /\ ~ReadClose
    BY <2>1 DEF Reads, ReadClose
  <2>3. PICK p : \/ UNCHANGED <<phase, pc, whole, socket, told>>
                 \/ Complete(p, FALSE)
    BY <2>1
  <2>4. CASE UNCHANGED <<phase, pc, whole, socket, told>>
    BY <2>1, <2>2, <2>4, ReadsKeep
  <2>5. CASE Complete(p, FALSE)
    BY <2>1, <2>2, <2>5, CompleteKeeps
  <2> QED BY <2>3, <2>4, <2>5
<1> QED BY <1>1, <1>2, <1>3, <1>4 DEF Parse

\* The application closes once, and then is not told unless a close frame comes.
LEMMA WebSocketCloseKeeps ==
    ASSUME Habits = {}, EndInv, WebSocketClose
    PROVE  EndInv'
<1>1. conn = "open" /\ ConnectionClose(processing - 1, closedSignals, "application")
  BY DEF WebSocketClose
<1>2. processing - 1 = 0 /\ closedSignals = 0 /\ finished = 0 /\ cause' = "application" /\ ~ReadClose
  BY <1>1 DEF EndInv, OpenInv, ConnectionClose
<1>3. UNCHANGED <<frame, whole>> /\ OpcodeInv' /\ SizeInv' /\ ~ReadClose' /\ continueOpcode' # "close"
  BY <1>2 DEF WebSocketClose, EndInv, OpcodeInv, SizeInv, ReadClose, frame, whole
<1>4. CASE Disconnected(processing - 1, closedSignals)
  <2>1. conn' = "closed" /\ finished' = 1 /\ processing' = 0 /\ closedSignals' = 0
    BY <1>2, <1>4, DisconnectedAnswered
  <2> QED BY <1>2, <1>3, <2>1 DEF EndInv, OpenInv, ClosingInv, ClosedInv
<1>5. CASE conn' = "closing" /\ processing' = processing - 1 /\ closedSignals' = closedSignals
           /\ UNCHANGED finished
  BY <1>2, <1>3, <1>5 DEF EndInv, OpenInv, ClosingInv, ClosedInv
<1> QED BY <1>1, <1>4, <1>5 DEF ConnectionClose

\* A connection that is closing is closed, and told of if that was not done.
LEMMA FlushedKeeps ==
    ASSUME EndInv, Orderly, Flushed
    PROVE  EndInv'
<1>1. conn = "closing" /\ finished = 0 /\ Disconnected(processing, closedSignals) /\ cause' = cause
  BY DEF Flushed, EndInv, ClosingInv
<1>2. OpcodeInv' /\ SizeInv' /\ continueOpcode' # "close"
  BY DEF Flushed, EndInv, OpcodeInv, SizeInv, frame, whole
<1>3. CASE cause = "application"
  <2>1. conn' = "closed" /\ finished' = 1 /\ processing' = 0 /\ closedSignals' \in {0, 1}
    BY <1>1, <1>3, DisconnectedAnswered DEF EndInv, ClosingInv
  <2> QED BY <1>1, <1>2, <1>3, <2>1 DEF EndInv, OpenInv, ClosingInv, ClosedInv
<1>4. CASE cause # "application"
  <2>1. /\ processing = 1 /\ closedSignals \in {0, 1}
        /\ closedSignals = IF finnOpcode.op = "close" THEN 1 ELSE 0
    BY <1>1, <1>4 DEF EndInv, ClosingInv, ReadClose, Orderly
  <2>2. conn' = "closed" /\ finished' = 1 /\ processing' = 0 /\ closedSignals' = 1
    BY <1>1, <2>1, DisconnectedOnce DEF EndInv
  <2> QED BY <1>2, <2>2 DEF EndInv, OpenInv, ClosingInv, ClosedInv
<1> QED BY <1>3, <1>4

\* One that is lost is told of.
LEMMA LostKeeps ==
    ASSUME Habits = {}, EndInv, Orderly, Lost
    PROVE  EndInv'
<1>1. /\ conn = "open" /\ Disconnected(processing, closedSignals)
      /\ phase # "header" => finnOpcode.op # "close"
  BY DEF Lost
<1>2. processing = 1 /\ closedSignals = 0 /\ finished = 0 /\ finnOpcode.op # "close"
  BY <1>1 DEF EndInv, OpenInv, ReadClose
<1>3. conn' = "closed" /\ finished' = 1 /\ processing' = 0 /\ closedSignals' = 1
  BY <1>1, <1>2, DisconnectedOnce DEF EndInv
<1>4. OpcodeInv' /\ SizeInv' /\ continueOpcode' # "close"
  BY DEF Lost, EndInv, OpcodeInv, SizeInv, frame, whole
<1> QED BY <1>3, <1>4 DEF EndInv, OpenInv, ClosingInv, ClosedInv

----------------------------------------------------------------------------
(* The end of a connection.                                                 *)

\* EndInv is kept by what an orderly client, and an application that closes once, do.
LEMMA EndKept ==
    ASSUME Habits = {}, EndInv, Orderly, Orderly', [Next]_vars
    PROVE  EndInv'
<1>1. ASSUME UNCHANGED <<frame, whole, socket, told>>
      PROVE  EndInv'
  BY <1>1 DEF EndInv, OpcodeInv, SizeInv, OpenInv, ClosingInv, ClosedInv, ReadClose,
              frame, whole, socket, told
<1>2. CASE Network
  BY <1>1, <1>2 DEF Network, Arrive
<1>3. CASE ReadyRead \/ StopsReading \/ Returns
  BY <1>1, <1>3 DEF ReadyRead, StopsReading, Returns
<1>4. CASE Parse
  BY <1>4, ParseKeeps
<1>5. CASE WebSocketClose
  BY <1>5, WebSocketCloseKeeps
<1>6. CASE Flushed
  BY <1>6, FlushedKeeps
<1>7. CASE Lost
  BY <1>7, LostKeeps
<1>8. CASE UNCHANGED vars
  BY <1>1, <1>8 DEF vars
<1> QED BY <1>2, <1>3, <1>4, <1>5, <1>6, <1>7, <1>8 DEF Next

\* The end of a connection is announced once to the server and once to the
\* application that did not ask for it, for any client that sends its close frame in
\* one piece, masked, not too long and last, whatever of its other frames is refused,
\* as long as the connection is not lost within it and the
\* application does not close twice (request.h:536-543, protocolhttp.cpp:478-501,
\* socket.cpp:43-64).
THEOREM EndOnce ==
    ASSUME Habits = {}
    PROVE  Spec /\ []Orderly => []EndToldOnce
<1>1. Init => EndInv
  BY DEF Init, NoFrame, EndInv, OpcodeInv, SizeInv, OpenInv, ClosingInv, ClosedInv, ReadClose
<1>2. EndInv /\ Orderly /\ Orderly' /\ [Next]_vars => EndInv'
  BY EndKept
<1>3. EndInv => EndToldOnce
  BY DEF EndInv, SizeInv, OpenInv, ClosingInv, ClosedInv, EndToldOnce
<1> QED BY <1>1, <1>2, <1>3, PTL DEF Spec

----------------------------------------------------------------------------
(* Induction over the natural numbers.                                      *)

Below == {p \in Nat \X Nat : p[1] < p[2]}

\* The order of the natural numbers is well-founded.
LEMMA BelowWellFounded == IsWellFoundedOn(Below, Nat)
BY NatLessThanWellFounded DEF OpToRel, Below

\* Induction, for a set of numbers: what is not in it has a smallest element.
LEMMA Induction ==
    ASSUME NEW T, 0 \in T, \A n \in Nat : n \in T => n + 1 \in T
    PROVE  Nat \subseteq T
<1> SUFFICES ASSUME Nat \ T # {} PROVE FALSE
  OBVIOUS
<1>1. PICK x \in Nat \ T : \A y \in Nat \ T : <<y, x>> \notin Below
  <2> DEFINE S == Nat \ T
  <2>1. S \subseteq Nat /\ S # {}
    OBVIOUS
  <2> HIDE DEF S
  <2>2. \E x \in S : \A y \in S : <<y, x>> \notin Below
    BY <2>1, BelowWellFounded, WFMin
  <2> QED BY <2>2 DEF S
<1>2. x - 1 \in Nat /\ x - 1 < x /\ (x - 1) + 1 = x
  OBVIOUS
<1>3. <<x - 1, x>> \in Below
  BY <1>2 DEF Below
<1>4. x - 1 \in T
  BY <1>1, <1>2, <1>3
<1> QED BY <1>2, <1>4

----------------------------------------------------------------------------
(* What is computed along a sequence.                                       *)

\* g[i] is what G makes of r0 and the first i elements of s.
FoldUpto(G, r0, s, n, g) ==
    /\ g[0] = r0
    /\ \A i \in 1 .. n : g[i] = G[<<g[i - 1], s[i]>>]
Foldable(R, S, G, r0, s) == G \in [R \X S -> R] /\ r0 \in R /\ s \in Seq(S)
HasFold(R, G, r0, s, n) == \E g \in [0 .. n -> R] : FoldUpto(G, r0, s, n, g)

\* What was computed of n elements can be continued.
LEMMA FoldExtends ==
    ASSUME NEW R, NEW S, NEW G, NEW r0, NEW s, Foldable(R, S, G, r0, s),
           NEW n \in Nat, n + 1 <= Len(s), HasFold(R, G, r0, s, n)
    PROVE  HasFold(R, G, r0, s, n + 1)
<1> USE DEF Foldable
<1>1. PICK g \in [0 .. n -> R] : FoldUpto(G, r0, s, n, g)
  BY DEF HasFold
<1> DEFINE e == G[<<g[n], s[n + 1]>>]
           h == [i \in 0 .. n + 1 |-> IF i = n + 1 THEN e ELSE g[i]]
<1>2. e \in R
  <2>1. s[n + 1] \in S /\ g[n] \in R
    OBVIOUS
  <2> QED BY <2>1
<1>3. h \in [0 .. n + 1 -> R] /\ h[n + 1] = e /\ \A i \in 0 .. n : h[i] = g[i]
  <2> HIDE DEF e
  <2> QED BY <1>2
<1>4. ASSUME NEW i \in 1 .. n + 1 PROVE h[i] = G[<<h[i - 1], s[i]>>]
  <2> HIDE DEF h
  <2>1. CASE i \in 1 .. n
    <3>1. g[i] = G[<<g[i - 1], s[i]>>]
      BY <1>1, <2>1 DEF FoldUpto
    <3>2. h[i] = g[i] /\ h[i - 1] = g[i - 1]
      BY <1>3, <2>1
    <3> QED BY <3>1, <3>2
  <2>2. CASE i = n + 1
    <3>1. i - 1 = n /\ h[n] = g[n]
      BY <1>3, <2>2
    <3> QED BY <1>3, <2>2, <3>1
  <2> QED BY <2>1, <2>2
<1>5. h[0] = r0
  BY <1>1, <1>3 DEF FoldUpto
<1>6. FoldUpto(G, r0, s, n + 1, h)
  <2> HIDE DEF h
  <2> QED BY <1>4, <1>5 DEF FoldUpto
<1> QED BY <1>3, <1>6 DEF HasFold

\* Something is computed of every sequence.
LEMMA FoldExists ==
    ASSUME NEW R, NEW S, NEW G, NEW r0, NEW s, Foldable(R, S, G, r0, s)
    PROVE  HasFold(R, G, r0, s, Len(s))
<1> DEFINE T == {n \in Nat : n <= Len(s) => HasFold(R, G, r0, s, n)}
<1>1. 0 \in T
  <2> DEFINE g == [i \in 0 .. 0 |-> r0]
  <2>1. g \in [0 .. 0 -> R] /\ FoldUpto(G, r0, s, 0, g)
    BY DEF FoldUpto, Foldable
  <2>2. HasFold(R, G, r0, s, 0)
    BY <2>1 DEF HasFold
  <2> QED BY <2>2
<1>2. ASSUME NEW n \in Nat, n \in T PROVE n + 1 \in T
  <2>1. ASSUME n + 1 <= Len(s) PROVE HasFold(R, G, r0, s, n + 1)
    <3>1. HasFold(R, G, r0, s, n)
      BY <1>2, <2>1 DEF Foldable
    <3> QED BY <2>1, <3>1, FoldExtends
  <2> QED BY <2>1
<1>3. Nat \subseteq T
  <2> HIDE DEF T
  <2> QED BY <1>1, <1>2, Induction
<1> QED BY <1>3 DEF Foldable

----------------------------------------------------------------------------
(* What is kept of a client that keeps to the protocol.                     *)

\* A client that keeps to the protocol sends frames that are masked, of the opcodes there
\* are, no larger than the server takes, and complete if they are control frames, of which
\* a ping and a close are short; continues what it has begun, begins nothing else
\* meanwhile, ends with its close frame, and puts no character of a text in two frames.
Lawful(frames) ==
    \A i \in 1 .. Len(frames) :
        LET f == frames[i]
            begun == Assembled(frames)[i - 1].open.op
        IN  /\ Accepted(f)
            /\ f.op = "continue" => begun # "none"
            /\ f.op \in Data => begun = "none"
            /\ f.op = "close" => i = Len(frames)
            /\ f.op = "text" \/ (f.op = "continue" /\ begun = "text") => Valid(f.data)

\* The bytes of the first i frames, and how many they are.
Encoded(frames)  == [i \in DOMAIN frames |-> BytesOf(frames[i])]
BytesTo(frames)  ==
    LET to[i \in 1 .. Len(Encoded(frames))] ==
            IF i = 1 THEN Encoded(frames)[i] ELSE to[i - 1] \o Encoded(frames)[i]
    IN  to
Until(frames, i) == IF i = 0 THEN 0 ELSE Len(BytesTo(frames)[i])
HeadSize(f)      == IF Len(f.data) > ShortSize THEN 3 ELSE 2
Pos              == Len(Bytes(script)) - Len(stream)

\* The bytes there are.
Chars == {"a", "u", "v"}
Ops   == Data \cup Control \cup {"continue", "invalid"}
Byte  == [t : {"header"}, op : Ops, fin : BOOLEAN, masked : BOOLEAN, size : Nat]
         \cup [t : {"size"}] \cup [t : {"mask"}] \cup [t : {"payload"}, c : Chars]

\* The header of a frame.
HeaderOf(f) == [t |-> "header", op |-> f.op, fin |-> f.fin, masked |-> f.masked, size |-> Len(f.data)]

\* The stream is the rest of what the script encodes to.
StreamInv ==
    /\ script \in Scripts /\ stream \in Seq(Byte) /\ Pos \in Nat
    /\ \A j \in 1 .. Len(stream) : stream[j] = Bytes(script)[Pos + j]
    /\ arrived \in Nat /\ arrived <= Len(stream)

\* Between two frames, with what r there is of a message.
Between(r) ==
    /\ message = r.data /\ continueOpcode = r.op
    /\ continueOpcode = "text" => startOfFrame = Len(message)

\* Within the frame f.
Within(f, r) ==
    /\ finnOpcode = [op |-> f.op, fin |-> f.fin] /\ payloadSize = Len(f.data)
    /\ message = r.data
    /\ continueOpcode = IF f.op \in Data /\ ~f.fin THEN f.op ELSE r.op
    /\ f.op = "text" \/ continueOpcode = "text" => startOfFrame = Len(message)

\* How far it was read, when it begins at u.
ReadTo(f, u) ==
    \/ phase = "size" /\ HeadSize(f) = 3 /\ Pos = u + 1
    \/ phase = "mask" /\ Pos = u + HeadSize(f) - 1
    \/ /\ phase = "payload" /\ Pos = u + HeadSize(f) + Len(payload)
       /\ Len(payload) \in Nat /\ Len(payload) < Len(f.data)
       /\ payload = SubSeq(f.data, 1, Len(payload))

\* Read were i frames, or a part of the next too.
Rests(i)   == /\ phase = "header" /\ Pos = Until(script, i)
              /\ finnOpcode = IF i = 0 THEN NoFrame
                              ELSE [op |-> script[i].op, fin |-> script[i].fin]
              /\ Between(Assembled(script)[i].open)
Reading(i) == /\ i < Len(script) /\ Within(script[i + 1], Assembled(script)[i].open)
              /\ ReadTo(script[i + 1], Until(script, i))
ReadInv    == /\ cause # "refused"
              /\ \E i \in 0 .. Len(script) : /\ got = Assembled(script)[i].messages
                                             /\ Rests(i) \/ Reading(i)
MessageInv == StreamInv /\ ReadInv

----------------------------------------------------------------------------
(* What a client means.                                                     *)

\* A message, and what With makes of the frames so far.
Message  == [op : Data \cup {"none"}, data : Seq(Chars)]
Assembly == [open : Message, messages : Seq(Message)]

\* What the definition of Assembled says.
IsAssembled(A, frames) ==
    /\ A \in [0 .. Len(frames) -> Assembly]
    /\ A[0] = [open |-> None, messages |-> <<>>]
    /\ \A i \in 1 .. Len(frames) : A[i] = With(A[i - 1], frames[i])

\* A frame makes of messages messages.
LEMMA WithTypes ==
    ASSUME NEW r \in Assembly, NEW f \in Frame
    PROVE  With(r, f) \in Assembly
<1>1. r.open \in Message /\ r.messages \in Seq(Message)
  BY DEF Assembly
<1>2. CASE f.op \notin Data \cup {"continue"}
  BY <1>2 DEF With
<1>3. CASE f.op \in Data \cup {"continue"}
  <2>1. Started(f, r.open) \in Message
    <3>1. r.open.op \in Data \cup {"none"} /\ r.open.data \in Seq(Chars) /\ f.data \in Seq(Chars)
      BY <1>1 DEF Message, Frame, Chars
    <3>2. r.open.data \o f.data \in Seq(Chars)
      BY <3>1
    <3> QED BY <1>1, <1>3, <3>1, <3>2 DEF Started, Message
  <2>2. None \in Message
    BY DEF None, Message
  <2>3. Append(r.messages, Started(f, r.open)) \in Seq(Message)
    BY <1>1, <2>1
  <2>4. With(r, f) = IF f.fin
                     THEN [open |-> None, messages |-> Append(r.messages, Started(f, r.open))]
                     ELSE [open |-> Started(f, r.open), messages |-> r.messages]
    BY <1>3 DEF With, Assembly
  <2> QED BY <1>1, <2>1, <2>2, <2>3, <2>4 DEF Assembly
<1> QED BY <1>2, <1>3

\* Assembled is what its definition says.
LEMMA AssembledIs ==
    ASSUME NEW frames \in Seq(Frame)
    PROVE  IsAssembled(Assembled(frames), frames)
<1> DEFINE r0 == [open |-> None, messages |-> <<>>]
           G == [p \in Assembly \X Frame |-> With(p[1], p[2])]
           Def(A) == A = [n \in 0 .. Len(frames) |->
                             IF n = 0 THEN r0 ELSE With(A[n - 1], frames[n])]
<1>1. r0 \in Assembly
  BY DEF Assembly, Message, None
<1>2. G \in [Assembly \X Frame -> Assembly]
  BY WithTypes
<1>3. PICK g \in [0 .. Len(frames) -> Assembly] : FoldUpto(G, r0, frames, Len(frames), g)
  <2> HIDE DEF r0, G
  <2>1. HasFold(Assembly, G, r0, frames, Len(frames))
    BY <1>1, <1>2, FoldExists DEF Foldable
  <2> QED BY <2>1 DEF HasFold
<1>4. \A i \in 1 .. Len(frames) : g[i] = With(g[i - 1], frames[i])
  <2> SUFFICES ASSUME NEW i \in 1 .. Len(frames) PROVE g[i] = With(g[i - 1], frames[i])
    OBVIOUS
  <2>1. g[i] = G[<<g[i - 1], frames[i]>>] /\ g[i - 1] \in Assembly /\ frames[i] \in Frame
    <3> HIDE DEF G, r0
    <3> QED BY <1>3 DEF FoldUpto
  <2> QED BY <2>1
<1>5. g[0] = r0
  BY <1>3 DEF FoldUpto
<1>6. Def(g)
  <2> HIDE DEF r0, G
  <2> QED BY <1>4, <1>5
<1>7. Assembled(frames) = CHOOSE A : Def(A)
  BY DEF Assembled
<1>8. Def(Assembled(frames))
  <2> HIDE DEF Def
  <2> QED BY <1>6, <1>7
<1> DEFINE A == Assembled(frames)
<1>9. /\ A[0] = r0 /\ \A i \in 1 .. Len(frames) : A[i] = With(A[i - 1], frames[i])
      /\ A = [n \in 0 .. Len(frames) |-> A[n]]
  <2> HIDE DEF A, r0
  <2> QED BY <1>8 DEF A
<1>10. \A n \in 0 .. Len(frames) : A[n] = g[n]
  <2> HIDE DEF A, r0
  <2> DEFINE T == {n \in Nat : n <= Len(frames) => A[n] = g[n]}
  <2>1. 0 \in T
    BY <1>5, <1>9
  <2>2. ASSUME NEW n \in Nat, n \in T PROVE n + 1 \in T
    <3> SUFFICES ASSUME n + 1 <= Len(frames) PROVE A[n + 1] = g[n + 1]
      OBVIOUS
    <3>1. n + 1 \in 1 .. Len(frames) /\ (n + 1) - 1 = n /\ A[n] = g[n]
      BY <2>2
    <3> QED BY <1>4, <1>9, <3>1
  <2>3. Nat \subseteq T
    <3> HIDE DEF T
    <3> QED BY <2>1, <2>2, Induction
  <2> QED BY <2>3
<1>11. A \in [0 .. Len(frames) -> Assembly]
  <2> HIDE DEF A, r0
  <2> QED BY <1>9, <1>10
<1> QED BY <1>9, <1>11 DEF IsAssembled

\* The messages of the first frames are the first of the messages.
Starts(s, t) == Len(s) <= Len(t) /\ \A j \in 1 .. Len(s) : t[j] = s[j]

\* A frame takes no message back.
LEMMA WithGrows ==
    ASSUME NEW r \in Assembly, NEW f \in Frame, NEW s \in Seq(Message), Starts(s, r.messages)
    PROVE  Starts(s, With(r, f).messages)
<1>1. r.messages \in Seq(Message)
  BY DEF Assembly
<1>2. \/ With(r, f).messages = r.messages
      \/ With(r, f).messages = Append(r.messages, Started(f, r.open))
  BY DEF With, Assembly
<1> DEFINE m == Started(f, r.open)
           u == r.messages
<1>3. Starts(s, Append(u, m))
  <2> HIDE DEF m, u
  <2>1. u \in Seq(Message) /\ Starts(s, u)
    BY <1>1 DEF u
  <2>2. Len(s) \in Nat /\ Len(u) \in Nat /\ Len(Append(u, m)) = Len(u) + 1
    BY <2>1
  <2>3. \A j \in 1 .. Len(u) : Append(u, m)[j] = u[j]
    BY <2>1
  <2> QED BY <2>1, <2>2, <2>3 DEF Starts
<1> QED BY <1>2, <1>3

\* So the messages of i frames are the first of all.
LEMMA MessagesGrow ==
    ASSUME NEW frames \in Seq(Frame), NEW i \in 0 .. Len(frames)
    PROVE  Starts(Assembled(frames)[i].messages, Assembled(frames)[Len(frames)].messages)
<1> DEFINE A == Assembled(frames)
           T == {n \in Nat : i + n <= Len(frames) => Starts(A[i].messages, A[i + n].messages)}
<1>1. IsAssembled(A, frames)
  BY AssembledIs
<1> HIDE DEF A
<1>2. A[i] \in Assembly /\ A[i].messages \in Seq(Message)
  BY <1>1 DEF IsAssembled, Assembly
<1>3. 0 \in T
  BY <1>2 DEF Starts
<1>4. ASSUME NEW n \in Nat, n \in T PROVE n + 1 \in T
  <2> SUFFICES ASSUME i + (n + 1) <= Len(frames)
               PROVE  Starts(A[i].messages, A[i + (n + 1)].messages)
    OBVIOUS
  <2>1. i + n \in 0 .. Len(frames) /\ i + (n + 1) \in 1 .. Len(frames) /\ (i + (n + 1)) - 1 = i + n
    OBVIOUS
  <2>2. A[i + n] \in Assembly /\ A[i + (n + 1)] = With(A[i + n], frames[i + (n + 1)])
    BY <1>1, <2>1 DEF IsAssembled
  <2>3. Starts(A[i].messages, A[i + n].messages) /\ frames[i + (n + 1)] \in Frame
    BY <1>4, <2>1
  <2> QED BY <1>2, <2>2, <2>3, WithGrows
<1>5. Nat \subseteq T
  <2> HIDE DEF T
  <2> QED BY <1>3, <1>4, Induction
<1>6. Len(frames) - i \in Nat /\ i + (Len(frames) - i) = Len(frames)
  OBVIOUS
<1>7. Starts(A[i].messages, A[i + (Len(frames) - i)].messages)
  BY <1>5, <1>6
<1> QED BY <1>6, <1>7 DEF A

----------------------------------------------------------------------------
(* Texts.                                                                   *)

\* A text that ends within no character is decoded to itself, and one follows another.
LEMMA ValidJoined ==
    ASSUME NEW s \in Seq(Chars), NEW t \in Seq(Chars), Valid(s), Valid(t)
    PROVE  Valid(s \o t)
<1> DEFINE w == s \o t
<1>1. /\ w \in Seq(Chars) /\ Len(w) = Len(s) + Len(t) /\ Len(s) \in Nat /\ Len(t) \in Nat
      /\ \A i \in 1 .. Len(s) : w[i] = s[i]
      /\ \A i \in 1 .. Len(t) : w[Len(s) + i] = t[i]
  OBVIOUS
<1>2. ASSUME NEW u \in Seq(Chars)
      PROVE  Decoded(u) = u <=> (u = <<>> \/ u[Len(u)] # "u")
  <2>1. u # <<>> => Len(Front(u)) = Len(u) - 1 /\ Last(u) = u[Len(u)] /\ Len(u) \in Nat
    <3> SUFFICES ASSUME u # <<>>
                 PROVE  Len(Front(u)) = Len(u) - 1 /\ Last(u) = u[Len(u)] /\ Len(u) \in Nat
      OBVIOUS
    <3>1. Len(u) \in Nat /\ Len(u) # 0
      OBVIOUS
    <3>2. Len(u) - 1 \in Nat /\ Len(u) - 1 <= Len(u)
      BY <3>1
    <3>3. Len(SubSeq(u, 1, Len(u) - 1)) = Len(u) - 1
      <4> DEFINE m == Len(u) - 1
      <4>1. m \in Int /\ m \in Nat /\ \A i \in 1 .. m : u[i] \in Chars
        BY <3>2
      <4> HIDE DEF m
      <4>2. Len(SubSeq(u, 1, m)) = IF 1 <= m THEN m - 1 + 1 ELSE 0
        BY <4>1, SubSeqProperties
      <4>3. Len(SubSeq(u, 1, m)) = m
        BY <4>1, <4>2
      <4> QED BY <4>3 DEF m
    <3> QED BY <3>1, <3>3 DEF Front, Last
  <2> QED BY <2>1 DEF Decoded
<1>3. ~HasError(s) /\ ~HasError(t) /\ (s = <<>> \/ s[Len(s)] # "u") /\ (t = <<>> \/ t[Len(t)] # "u")
  BY <1>2 DEF Valid
<1>4. ASSUME NEW u \in Seq(Chars), ~HasError(u), NEW i \in 1 .. Len(u)
      PROVE  /\ u[i] = "v" => i # 1 /\ u[i - 1] = "u"
             /\ u[i] = "u" /\ i < Len(u) => u[i + 1] = "v"
  <2>1. i \in DOMAIN u
    OBVIOUS
  <2> QED BY <1>4, <2>1 DEF HasError
<1>5. w = <<>> \/ w[Len(w)] # "u"
  <2>1. CASE t = <<>>
    BY <1>3, <2>1
  <2>2. CASE t # <<>>
    <3>1. Len(t) \in 1 .. Len(t) /\ w[Len(s) + Len(t)] = t[Len(t)]
      BY <1>1, <2>2
    <3> QED BY <1>1, <1>3, <2>2, <3>1
  <2> QED BY <2>1, <2>2
<1>6. ~HasError(w)
  <2> HIDE DEF w
  <2> SUFFICES ASSUME NEW i \in 1 .. Len(w),
                      \/ w[i] = "v" /\ (i = 1 \/ w[i - 1] # "u")
                      \/ w[i] = "u" /\ i < Len(w) /\ w[i + 1] # "v"
               PROVE  FALSE
    BY <1>1 DEF HasError
  <2>1. CASE i \in 1 .. Len(s)
    <3>1. w[i] = s[i] /\ (i # 1 => w[i - 1] = s[i - 1])
      BY <1>1, <2>1
    <3>2. i < Len(s) => w[i + 1] = s[i + 1]
      BY <1>1, <2>1
    <3>3. CASE i < Len(s)
      BY <1>1, <1>3, <1>4, <2>1, <3>1, <3>2, <3>3
    <3>4. CASE i = Len(s)
      <4>1. s # <<>>
        BY <2>1
      <4>2. s[i] # "u"
        BY <1>3, <3>4, <4>1
      <4>3. s[i] = "v" => i # 1 /\ s[i - 1] = "u"
        BY <1>3, <1>4, <2>1
      <4> QED BY <3>1, <4>2, <4>3
    <3> QED BY <1>1, <2>1, <3>3, <3>4
  <2>2. CASE i = Len(s) + 1
    <3>1. 1 \in 1 .. Len(t) /\ w[i] = t[1] /\ (Len(t) > 1 => w[i + 1] = t[1 + 1])
      BY <1>1, <2>2
    <3>2. t[1] # "v" /\ ~(t[1] = "u" /\ 1 < Len(t) /\ t[1 + 1] # "v")
      BY <1>3, <1>4, <3>1
    <3> QED BY <1>1, <2>2, <3>1, <3>2
  <2>3. CASE i > Len(s) + 1
    <3> DEFINE k == i - Len(s)
    <3>1. k \in 1 .. Len(t) /\ k > 1 /\ w[i] = t[k] /\ w[i - 1] = t[k - 1]
          /\ (i < Len(w) => k < Len(t) /\ w[i + 1] = t[k + 1])
      <4>1. k \in 1 .. Len(t) /\ k - 1 \in 1 .. Len(t) /\ i = Len(s) + k /\ i - 1 = Len(s) + (k - 1)
        BY <1>1, <2>3
      <4>2. i < Len(w) => k + 1 \in 1 .. Len(t) /\ i + 1 = Len(s) + (k + 1)
        BY <1>1, <2>3
      <4>3. k > 1 /\ (i < Len(w) => k < Len(t))
        BY <1>1, <2>3
      <4> HIDE DEF k
      <4>4. w[i] = t[k] /\ w[i - 1] = t[k - 1]
        BY <1>1, <4>1
      <4>5. i < Len(w) => w[i + 1] = t[k + 1]
        BY <1>1, <4>2
      <4> QED BY <4>1, <4>3, <4>4, <4>5
    <3> HIDE DEF k
    <3>2. /\ t[k] = "v" => k # 1 /\ t[k - 1] = "u"
          /\ t[k] = "u" /\ k < Len(t) => t[k + 1] = "v"
      BY <1>3, <1>4, <3>1
    <3>3. i # 1
      BY <1>1, <2>3
    <3> QED BY <3>1, <3>2, <3>3
  <2> QED BY <1>1, <2>1, <2>2, <2>3
<1>7. Decoded(w) = w
  <2> HIDE DEF w
  <2> QED BY <1>1, <1>2, <1>5
<1> QED BY <1>6, <1>7 DEF Valid

\* What a client that keeps to the protocol has begun.
Proper(r) == (r.open.op = "none" => r.open.data = <<>>) /\ (r.open.op = "text" => Valid(r.open.data))

\* A frame of such a client leaves it so.
LEMMA WithProper ==
    ASSUME NEW r \in Assembly, NEW f \in Frame, Proper(r),
           f.op = "continue" => r.open.op # "none",
           f.op = "text" \/ (f.op = "continue" /\ r.open.op = "text") => Valid(f.data)
    PROVE  Proper(With(r, f))
<1>1. r.open \in Message /\ r.open.data \in Seq(Chars) /\ f.data \in Seq(Chars)
  BY DEF Assembly, Frame, Message, Chars
<1>2. CASE f.op \notin Data \cup {"continue"}
  BY <1>2 DEF With
<1>3. CASE f.op \in Data \cup {"continue"} /\ f.fin
  BY <1>3 DEF With, None, Proper
<1>4. CASE f.op \in Data \cup {"continue"} /\ ~f.fin
  <2>1. With(r, f).open = Started(f, r.open)
    BY <1>4 DEF With, Assembly
  <2>2. CASE f.op = "continue"
    <3>1. Started(f, r.open) = [op |-> r.open.op, data |-> r.open.data \o f.data]
      BY <2>2 DEF Started
    <3>2. r.open.op = "text" => Valid(r.open.data \o f.data)
      BY <1>1, <2>2, ValidJoined DEF Proper
    <3> QED BY <2>1, <2>2, <3>1, <3>2 DEF Proper
  <2>3. CASE f.op \in Data
    <3>1. Started(f, r.open) = [op |-> f.op, data |-> f.data]
      BY <2>3 DEF Started, Data
    <3> QED BY <2>1, <2>3, <3>1 DEF Proper, Data
  <2> QED BY <1>1, <1>4, <2>2, <2>3
<1> QED BY <1>2, <1>3, <1>4

\* So it is after every frame.
LEMMA OpenProper ==
    ASSUME NEW frames \in Seq(Frame), Lawful(frames), NEW i \in 0 .. Len(frames)
    PROVE  Proper(Assembled(frames)[i])
<1> DEFINE A == Assembled(frames)
           T == {n \in Nat : n <= Len(frames) => Proper(A[n])}
<1>1. IsAssembled(A, frames)
  BY AssembledIs
<1>2. 0 \in T
  BY <1>1 DEF IsAssembled, Proper, None
<1>3. ASSUME NEW n \in Nat, n \in T PROVE n + 1 \in T
  <2> SUFFICES ASSUME n + 1 <= Len(frames) PROVE Proper(A[n + 1])
    OBVIOUS
  <2>1. n + 1 \in 1 .. Len(frames) /\ (n + 1) - 1 = n /\ n \in 0 .. Len(frames) /\ Proper(A[n])
    BY <1>3
  <2>2. A[n] \in Assembly /\ A[n + 1] = With(A[n], frames[n + 1]) /\ frames[n + 1] \in Frame
    BY <1>1, <2>1 DEF IsAssembled
  <2>3. /\ frames[n + 1].op = "continue" => A[n].open.op # "none"
        /\ frames[n + 1].op = "text" \/ (frames[n + 1].op = "continue" /\ A[n].open.op = "text")
           => Valid(frames[n + 1].data)
    BY <2>1 DEF Lawful
  <2> HIDE DEF A
  <2> QED BY <2>1, <2>2, <2>3, WithProper
<1>4. Nat \subseteq T
  <2> HIDE DEF T
  <2> QED BY <1>2, <1>3, Induction
<1> QED BY <1>4

----------------------------------------------------------------------------
(* What a client sends.                                                     *)

\* The layout of a frame.
IsEncoded(b, f) ==
    /\ b \in Seq(Byte) /\ HeadSize(f) \in {2, 3} /\ Len(b) = HeadSize(f) + Len(f.data)
    /\ b[1] = HeaderOf(f)
    /\ \A j \in 1 .. Len(f.data) : b[HeadSize(f) + j] = [t |-> "payload", c |-> f.data[j]]

\* Two sequences, joined.
IsJoin(w, s, t) ==
    /\ w \in Seq(Byte) /\ Len(w) = Len(s) + Len(t)
    /\ \A i \in 1 .. Len(s) : w[i] = s[i]
    /\ \A i \in 1 .. Len(t) : w[Len(s) + i] = t[i]

\* What \o returns.
LEMMA Joined == \A s, t \in Seq(Byte) : IsJoin(s \o t, s, t)
BY DEF IsJoin

\* The header comes first, and the payload after the mask.
LEMMA BytesOfIs ==
    ASSUME NEW f \in Frame
    PROVE  IsEncoded(BytesOf(f), f)
<1> DEFINE h == HeaderOf(f)
           x == IF Len(f.data) > ShortSize THEN <<[t |-> "size"]>> ELSE <<>>
           m == <<[t |-> "mask"]>>
           d == [i \in DOMAIN f.data |-> [t |-> "payload", c |-> f.data[i]]]
           n == Len(f.data)
<1>1. f.data \in Seq(Chars) /\ n \in Nat /\ f.op \in Ops /\ f.fin \in BOOLEAN /\ f.masked \in BOOLEAN
  BY DEF Frame, Chars, Ops
<1>2. <<h>> \in Seq(Byte) /\ Len(<<h>>) = 1 /\ <<h>>[1] = h
  <2>1. h \in Byte
    BY <1>1 DEF Byte, HeaderOf
  <2> HIDE DEF h
  <2> QED BY <2>1
<1>3. x \in Seq(Byte) /\ Len(x) = HeadSize(f) - 2 /\ HeadSize(f) \in {2, 3}
  <2>1. [t |-> "size"] \in Byte
    BY DEF Byte
  <2>2. CASE n > ShortSize
    BY <2>1, <2>2 DEF HeadSize
  <2>3. CASE ~(n > ShortSize)
    BY <2>3 DEF HeadSize
  <2> QED BY <2>2, <2>3
<1>4. m \in Seq(Byte) /\ Len(m) = 1
  <2>1. [t |-> "mask"] \in Byte
    BY DEF Byte
  <2> QED BY <2>1
<1>5. d \in Seq(Byte) /\ Len(d) = n /\ \A j \in 1 .. n : d[j] = [t |-> "payload", c |-> f.data[j]]
  <2>1. DOMAIN f.data = 1 .. n
    BY <1>1
  <2>2. \A j \in 1 .. n : [t |-> "payload", c |-> f.data[j]] \in Byte
    BY <1>1 DEF Byte
  <2> HIDE DEF n
  <2> QED BY <1>1, <2>1, <2>2
<1>6. BytesOf(f) = ((<<h>> \o x) \o m) \o d
  BY DEF BytesOf, HeaderOf
<1> HIDE DEF h, x, m, d
<1>7. IsJoin(<<h>> \o x, <<h>>, x)
  BY <1>2, <1>3, Joined
<1>8. IsJoin((<<h>> \o x) \o m, <<h>> \o x, m)
  BY <1>4, <1>7, Joined DEF IsJoin
<1> DEFINE a == <<h>> \o x
           b == a \o m
<1>9. IsJoin(BytesOf(f), b, d)
  <2>1. b \in Seq(Byte) /\ BytesOf(f) = b \o d
    BY <1>6, <1>8 DEF IsJoin
  <2> HIDE DEF b
  <2>2. IsJoin(b \o d, b, d)
    BY <1>5, <2>1, Joined
  <2> QED BY <2>1, <2>2
<1> HIDE DEF n
<1>10. Len(a) = HeadSize(f) - 1 /\ a[1] = h
  <2> HIDE DEF a
  <2> QED BY <1>2, <1>3, <1>7 DEF IsJoin, a
<1>11. Len(b) = HeadSize(f) /\ b[1] = h
  <2> HIDE DEF a, b
  <2>1. IsJoin(b, a, m)
    BY <1>8 DEF a, b
  <2> QED BY <1>3, <1>4, <1>10, <2>1 DEF IsJoin
<1> HIDE DEF a, b
<1>12. Len(BytesOf(f)) = HeadSize(f) + n /\ BytesOf(f)[1] = h
       /\ \A j \in 1 .. n : BytesOf(f)[HeadSize(f) + j] = [t |-> "payload", c |-> f.data[j]]
  BY <1>3, <1>5, <1>9, <1>11 DEF IsJoin
<1> QED BY <1>3, <1>9, <1>12 DEF IsEncoded, IsJoin, h, n

----------------------------------------------------------------------------
(* Where the frames are in the bytes of the client.                         *)

\* What the definition of BytesTo says.
IsBytesTo(B, frames) ==
    /\ B \in [1 .. Len(frames) -> Seq(Byte)]
    /\ \A i \in 1 .. Len(frames) :
          B[i] = IF i = 1 THEN BytesOf(frames[i]) ELSE B[i - 1] \o BytesOf(frames[i])

\* The bytes of frames are sequences of bytes.
LEMMA EncodedIs ==
    ASSUME NEW frames \in Seq(Frame)
    PROVE  /\ Encoded(frames) \in Seq(Seq(Byte)) /\ Len(Encoded(frames)) = Len(frames)
           /\ \A i \in 1 .. Len(frames) :
                 Encoded(frames)[i] = BytesOf(frames[i]) /\ BytesOf(frames[i]) \in Seq(Byte)
<1>1. \A i \in 1 .. Len(frames) : BytesOf(frames[i]) \in Seq(Byte)
  <2> SUFFICES ASSUME NEW i \in 1 .. Len(frames) PROVE BytesOf(frames[i]) \in Seq(Byte)
    OBVIOUS
  <2>1. frames[i] \in Frame
    OBVIOUS
  <2> QED BY <2>1, BytesOfIs DEF IsEncoded
<1>2. DOMAIN frames = 1 .. Len(frames) /\ Len(frames) \in Nat
  OBVIOUS
<1> QED BY <1>1, <1>2 DEF Encoded

\* BytesTo is what its definition says.
LEMMA BytesToIs ==
    ASSUME NEW frames \in Seq(Frame)
    PROVE  IsBytesTo(BytesTo(frames), frames)
<1> DEFINE E == Encoded(frames)
           Def(B) == B = [i \in 1 .. Len(E) |-> IF i = 1 THEN E[i] ELSE B[i - 1] \o E[i]]
           r0 == <<>>
           G == [p \in Seq(Byte) \X Seq(Byte) |-> p[1] \o p[2]]
<1>1. E \in Seq(Seq(Byte)) /\ Len(E) \in Nat
  BY EncodedIs
<1>2. Foldable(Seq(Byte), Seq(Byte), G, r0, E)
  <2> HIDE DEF E
  <2> QED BY <1>1 DEF Foldable
<1>3. PICK g \in [0 .. Len(E) -> Seq(Byte)] : FoldUpto(G, r0, E, Len(E), g)
  <2> HIDE DEF r0, G, E
  <2>1. HasFold(Seq(Byte), G, r0, E, Len(E))
    BY <1>2, FoldExists
  <2> QED BY <2>1 DEF HasFold
<1> DEFINE h == [i \in 1 .. Len(E) |-> g[i]]
<1>4. \A i \in 1 .. Len(E) : g[i] = IF i = 1 THEN E[i] ELSE g[i - 1] \o E[i]
  <2> HIDE DEF E
  <2> SUFFICES ASSUME NEW i \in 1 .. Len(E) PROVE g[i] = IF i = 1 THEN E[i] ELSE g[i - 1] \o E[i]
    OBVIOUS
  <2>1. g[i] = G[<<g[i - 1], E[i]>>] /\ g[i - 1] \in Seq(Byte) /\ E[i] \in Seq(Byte)
    <3> HIDE DEF G, r0
    <3>1. g[i] = G[<<g[i - 1], E[i]>>]
      BY <1>3 DEF FoldUpto
    <3>2. i - 1 \in 0 .. Len(E)
      BY <1>1
    <3>3. g[i - 1] \in Seq(Byte)
      BY <3>2
    <3>4. E[i] \in Seq(Byte)
      BY <1>1
    <3> QED BY <3>1, <3>3, <3>4
  <2>2. g[i] = g[i - 1] \o E[i]
    BY <2>1
  <2>3. g[0] = <<>>
    BY <1>3 DEF FoldUpto
  <2>4. i = 1 => g[i] = <<>> \o E[i]
    <3> SUFFICES ASSUME i = 1 PROVE g[i] = <<>> \o E[i]
      OBVIOUS
    <3>1. i - 1 = 0
      OBVIOUS
    <3> QED BY <2>2, <2>3, <3>1
  <2>5. <<>> \o E[i] = E[i]
    BY <2>1
  <2> QED BY <2>2, <2>4, <2>5
<1>5. Def(h)
  <2> HIDE DEF E, G, r0
  <2>1. \A i \in 1 .. Len(E) : h[i] = g[i] /\ (i # 1 => h[i - 1] = g[i - 1])
    BY <1>1
  <2> QED BY <1>4, <2>1
<1>6. BytesTo(frames) = CHOOSE B : Def(B)
  BY DEF BytesTo
<1>7. Def(BytesTo(frames))
  <2> HIDE DEF Def, h
  <2> QED BY <1>5, <1>6
<1> DEFINE B == BytesTo(frames)
<1>8. /\ \A i \in 1 .. Len(E) : B[i] = IF i = 1 THEN E[i] ELSE B[i - 1] \o E[i]
      /\ B = [i \in 1 .. Len(E) |-> B[i]]
  <2> HIDE DEF B, E
  <2> QED BY <1>7 DEF B
<1>9. \A n \in 1 .. Len(E) : B[n] \in Seq(Byte)
  <2> HIDE DEF B, E
  <2> DEFINE T == {n \in Nat : n \in 1 .. Len(E) => B[n] \in Seq(Byte)}
  <2>1. 0 \in T
    OBVIOUS
  <2>2. ASSUME NEW n \in Nat, n \in T PROVE n + 1 \in T
    <3> SUFFICES ASSUME n + 1 \in 1 .. Len(E) PROVE B[n + 1] \in Seq(Byte)
      OBVIOUS
    <3>1. E[n + 1] \in Seq(Byte) /\ (n # 0 => B[n] \in Seq(Byte))
      BY <1>1, <2>2
    <3>2. n = 0 => B[n + 1] = E[n + 1]
      <4>1. n + 1 \in 1 .. Len(E) /\ (n = 0 => n + 1 = 1)
        OBVIOUS
      <4> QED BY <1>8, <4>1
    <3>3. n # 0 => B[n + 1] = B[n] \o E[n + 1]
      <4>1. (n + 1) - 1 = n /\ (n # 0 => n + 1 # 1)
        OBVIOUS
      <4> QED BY <1>8, <4>1
    <3>4. CASE n = 0
      BY <3>1, <3>2, <3>4
    <3>5. CASE n # 0
      <4>1. B[n] \in Seq(Byte)
        BY <3>1, <3>5
      <4>2. B[n] \o E[n + 1] \in Seq(Byte)
        BY <3>1, <4>1
      <4> QED BY <3>3, <3>5, <4>2
    <3> QED BY <3>4, <3>5
  <2>3. Nat \subseteq T
    <3> HIDE DEF T
    <3> QED BY <2>1, <2>2, Induction
  <2> QED BY <2>3
<1>10. B \in [1 .. Len(E) -> Seq(Byte)]
  <2> HIDE DEF B, E
  <2> QED BY <1>8, <1>9
<1>11. Len(E) = Len(frames) /\ \A i \in 1 .. Len(frames) : E[i] = BytesOf(frames[i])
  BY EncodedIs
<1> HIDE DEF B, E
<1> QED BY <1>8, <1>10, <1>11 DEF IsBytesTo, B

\* The bytes of the first frames are the first of the bytes.
LEMMA BytesGrow ==
    ASSUME NEW frames \in Seq(Frame), NEW i \in 1 .. Len(frames)
    PROVE  Starts(BytesTo(frames)[i], BytesTo(frames)[Len(frames)])
<1> DEFINE B == BytesTo(frames)
           T == {n \in Nat : i + n <= Len(frames) => Starts(B[i], B[i + n])}
<1>1. IsBytesTo(B, frames)
  BY BytesToIs
<1> HIDE DEF B
<1>2. B[i] \in Seq(Byte)
  BY <1>1 DEF IsBytesTo
<1>3. 0 \in T
  BY <1>2 DEF Starts
<1>4. ASSUME NEW n \in Nat, n \in T PROVE n + 1 \in T
  <2> SUFFICES ASSUME i + (n + 1) <= Len(frames) PROVE Starts(B[i], B[i + (n + 1)])
    OBVIOUS
  <2> DEFINE k == i + n
  <2>1. /\ k \in 1 .. Len(frames) /\ k + 1 \in 1 .. Len(frames) /\ (k + 1) - 1 = k /\ k + 1 # 1
        /\ i + (n + 1) = k + 1
    OBVIOUS
  <2>2. Starts(B[i], B[k])
    BY <1>4, <2>1
  <2> HIDE DEF k
  <2>3. B[k + 1] = B[k] \o BytesOf(frames[k + 1])
    BY <1>1, <2>1 DEF IsBytesTo
  <2>4. B[k] \in Seq(Byte) /\ BytesOf(frames[k + 1]) \in Seq(Byte)
    BY <1>1, <2>1, EncodedIs DEF IsBytesTo
  <2>5. IsJoin(B[k + 1], B[k], BytesOf(frames[k + 1]))
    BY <2>3, <2>4, Joined
  <2>6. Len(B[k]) \in Nat /\ Len(BytesOf(frames[k + 1])) \in Nat /\ Len(B[i]) \in Nat
    BY <1>2, <2>4
  <2>7. Starts(B[i], B[k + 1])
    <3>1. /\ Len(B[i]) <= Len(B[k]) /\ \A j \in 1 .. Len(B[i]) : B[k][j] = B[i][j]
          /\ Len(B[k + 1]) = Len(B[k]) + Len(BytesOf(frames[k + 1]))
          /\ \A j \in 1 .. Len(B[k]) : B[k + 1][j] = B[k][j]
      BY <2>2, <2>5 DEF Starts, IsJoin
    <3>2. Len(B[i]) <= Len(B[k + 1])
      <4> DEFINE x == Len(B[i])
                 y == Len(B[k])
                 z == Len(BytesOf(frames[k + 1]))
      <4>1. x \in Nat /\ y \in Nat /\ z \in Nat /\ x <= y /\ Len(B[k + 1]) = y + z
        BY <2>6, <3>1
      <4> HIDE DEF x, y, z
      <4>2. x <= Len(B[k + 1])
        BY <4>1
      <4> QED BY <4>2 DEF x
    <3>3. ASSUME NEW j \in 1 .. Len(B[i]) PROVE B[k + 1][j] = B[i][j]
      <4>1. j \in 1 .. Len(B[k])
        BY <2>6, <3>1
      <4> QED BY <3>1, <4>1
    <3> QED BY <3>2, <3>3 DEF Starts
  <2> QED BY <2>1, <2>7
<1>5. Nat \subseteq T
  <2> HIDE DEF T
  <2> QED BY <1>3, <1>4, Induction
<1>6. Len(frames) - i \in Nat /\ i + (Len(frames) - i) = Len(frames)
  OBVIOUS
<1>7. Starts(B[i], B[i + (Len(frames) - i)])
  BY <1>5, <1>6
<1> QED BY <1>6, <1>7 DEF B

\* The last of them are all.
LEMMA BytesAre ==
    ASSUME NEW frames \in Seq(Frame)
    PROVE  /\ Bytes(frames) \in Seq(Byte)
           /\ Until(frames, Len(frames)) = Len(Bytes(frames))
           /\ Len(frames) # 0 => Bytes(frames) = BytesTo(frames)[Len(frames)]
<1>1. /\ Encoded(frames) \in Seq(Seq(Byte)) /\ Len(Encoded(frames)) = Len(frames)
      /\ Len(frames) \in Nat /\ Bytes(frames) = FlattenSeq(Encoded(frames))
  BY EncodedIs DEF Bytes, Encoded
<1>2. CASE Len(frames) = 0
  <2>1. Encoded(frames) = <<>>
    <3> DEFINE E == Encoded(frames)
    <3> HIDE DEF E
    <3>1. E \in Seq(Seq(Byte)) /\ Len(E) = 0
      BY <1>1, <1>2 DEF E
    <3>2. E = <<>>
      BY <3>1
    <3> QED BY <3>2 DEF E
  <2>2. FlattenSeq(Encoded(frames)) = Encoded(frames)
    BY <1>1, <1>2 DEF FlattenSeq
  <2>3. Bytes(frames) = <<>>
    BY <1>1, <2>1, <2>2
  <2>4. Until(frames, Len(frames)) = 0
    BY <1>2 DEF Until
  <2> QED BY <1>2, <2>3, <2>4
<1>3. CASE Len(frames) # 0
  <2>1. FlattenSeq(Encoded(frames)) = BytesTo(frames)[Len(Encoded(frames))]
    <3> DEFINE E == Encoded(frames)
               C == CHOOSE B : B = [i \in 1 .. Len(E) |-> IF i = 1 THEN E[i] ELSE B[i - 1] \o E[i]]
    <3>1. Len(E) # 0
      BY <1>1, <1>3
    <3>2. BytesTo(frames) = C
      BY DEF BytesTo
    <3> HIDE DEF E
    <3>3. FlattenSeq(E) = IF Len(E) = 0 THEN E ELSE C[Len(E)]
      BY Zenon DEF FlattenSeq
    <3> HIDE DEF C
    <3>4. FlattenSeq(E) = C[Len(E)]
      BY <3>1, <3>3
    <3> QED BY <3>2, <3>4 DEF E
  <2>2. BytesTo(frames)[Len(frames)] \in Seq(Byte)
    <3>1. Len(frames) \in 1 .. Len(frames)
      BY <1>1, <1>3
    <3> QED BY <3>1, BytesToIs DEF IsBytesTo
  <2> QED BY <1>1, <1>3, <2>1, <2>2 DEF Until
<1> QED BY <1>2, <1>3, <1>1

\* Where frame i + 1 is.
Sends(frames, i, f) ==
    /\ Until(frames, i) \in Nat
    /\ Until(frames, i + 1) = Until(frames, i) + HeadSize(f) + Len(f.data)
    /\ Until(frames, i + 1) <= Len(Bytes(frames))
    /\ Bytes(frames)[Until(frames, i) + 1] = HeaderOf(f)
    /\ \A j \in 1 .. Len(f.data) :
          Bytes(frames)[Until(frames, i) + HeadSize(f) + j] = [t |-> "payload", c |-> f.data[j]]

\* It is there.
LEMMA FrameAt ==
    ASSUME NEW frames \in Seq(Frame), NEW i \in 0 .. Len(frames), i < Len(frames)
    PROVE  Sends(frames, i, frames[i + 1])
<1> DEFINE B == BytesTo(frames)
           W == Bytes(frames)
           f == frames[i + 1]
           b == BytesOf(f)
           u == Until(frames, i)
<1>1. i + 1 \in 1 .. Len(frames) /\ f \in Frame /\ Len(frames) # 0
  OBVIOUS
<1>2. IsEncoded(b, f)
  BY <1>1, BytesOfIs
<1>3. W \in Seq(Byte) /\ W = B[Len(frames)] /\ B[i + 1] \in Seq(Byte) /\ Starts(B[i + 1], W)
  BY <1>1, BytesAre, BytesGrow, BytesToIs DEF IsBytesTo
<1>4. Until(frames, i + 1) = Len(B[i + 1])
  BY DEF Until
<1>5. u \in Nat /\ Len(B[i + 1]) = u + Len(b) /\ \A j \in 1 .. Len(b) : B[i + 1][u + j] = b[j]
  <2>1. IsBytesTo(B, frames)
    BY BytesToIs
  <2> HIDE DEF B, b
  <2>2. CASE i = 0
    <3>1. u = 0
      BY <2>2 DEF Until
    <3>2. B[i + 1] = b
      <4>1. i + 1 = 1
        BY <2>2
      <4> QED BY <1>1, <2>1, <4>1 DEF IsBytesTo, b
    <3> QED BY <1>2, <3>1, <3>2 DEF IsEncoded
  <2>3. CASE i # 0
    <3>1. i + 1 # 1 /\ (i + 1) - 1 = i /\ i \in 1 .. Len(frames)
      BY <2>3
    <3>2. B[i + 1] = B[i] \o b /\ B[i] \in Seq(Byte)
      BY <1>1, <2>1, <3>1 DEF IsBytesTo, b
    <3>3. u = Len(B[i])
      BY <2>3 DEF Until, B
    <3>4. IsJoin(B[i + 1], B[i], b)
      BY <1>2, <3>2, Joined DEF IsEncoded
    <3> QED BY <3>2, <3>3, <3>4 DEF IsJoin
  <2> QED BY <2>2, <2>3
<1>6. f.data \in Seq(Chars) /\ Len(f.data) \in Nat
  BY <1>1 DEF Frame, Chars
<1> HIDE DEF B, W, b, u, f
<1>7. \A j \in 1 .. Len(b) : W[u + j] = b[j]
  <2> SUFFICES ASSUME NEW j \in 1 .. Len(b) PROVE W[u + j] = b[j]
    OBVIOUS
  <2>1. Len(b) \in Nat
    BY <1>2 DEF IsEncoded
  <2>2. u + j \in 1 .. Len(B[i + 1])
    BY <1>5, <2>1
  <2>3. W[u + j] = B[i + 1][u + j]
    BY <1>3, <2>2 DEF Starts
  <2> QED BY <1>5, <2>3
<1>8. W[u + 1] = HeaderOf(f)
  <2>1. 1 \in 1 .. Len(b)
    BY <1>2, <1>6 DEF IsEncoded
  <2> QED BY <1>2, <1>7, <2>1 DEF IsEncoded
<1>9. \A j \in 1 .. Len(f.data) : W[u + HeadSize(f) + j] = [t |-> "payload", c |-> f.data[j]]
  <2> SUFFICES ASSUME NEW j \in 1 .. Len(f.data)
               PROVE  W[u + HeadSize(f) + j] = [t |-> "payload", c |-> f.data[j]]
    OBVIOUS
  <2>1. HeadSize(f) + j \in 1 .. Len(b) /\ u + HeadSize(f) + j = u + (HeadSize(f) + j)
    <3>1. HeadSize(f) \in {2, 3} /\ Len(b) = HeadSize(f) + Len(f.data)
      BY <1>2 DEF IsEncoded
    <3>2. u \in Nat /\ Len(f.data) \in Nat /\ j \in Nat /\ 1 <= j /\ j <= Len(f.data)
      BY <1>5, <1>6
    <3> DEFINE n == Len(f.data)
               hs == HeadSize(f)
    <3> HIDE DEF n, hs
    <3>3. hs \in Nat /\ n \in Nat /\ j <= n /\ Len(b) = hs + n
      BY <3>1, <3>2 DEF n, hs
    <3>4. hs + j \in 1 .. Len(b) /\ u + hs + j = u + (hs + j)
      BY <3>2, <3>3
    <3> QED BY <3>4 DEF hs
  <2>2. W[u + (HeadSize(f) + j)] = b[HeadSize(f) + j]
    BY <1>7, <2>1
  <2> QED BY <1>2, <2>1, <2>2 DEF IsEncoded
<1>10. Until(frames, i + 1) = u + HeadSize(f) + Len(f.data) /\ Until(frames, i + 1) <= Len(W)
  <2>1. Len(b) = HeadSize(f) + Len(f.data) /\ HeadSize(f) \in {2, 3}
    BY <1>2 DEF IsEncoded
  <2> QED BY <1>3, <1>4, <1>5, <1>6, <2>1 DEF Starts
<1> QED BY <1>5, <1>8, <1>9, <1>10 DEF Sends, W, u, f

----------------------------------------------------------------------------
(* A frame is complete.                                                     *)

\* What frame f adds to the messages r of a client that keeps to the protocol.
Follows(f, r) ==
    /\ f \in Frame /\ r \in Assembly /\ Proper(r) /\ Accepted(f)
    /\ f.op = "continue" => r.open.op # "none"
    /\ f.op \in Data => r.open.op = "none"
    /\ f.op = "text" \/ (f.op = "continue" /\ r.open.op = "text") => Valid(f.data)

\* Each frame of a lawful script does so.
LEMMA FrameFollows ==
    ASSUME NEW frames \in Seq(Frame), Lawful(frames), NEW i \in 0 .. Len(frames), i < Len(frames)
    PROVE  /\ Follows(frames[i + 1], Assembled(frames)[i])
           /\ Assembled(frames)[i + 1] = With(Assembled(frames)[i], frames[i + 1])
<1>1. i + 1 \in 1 .. Len(frames) /\ (i + 1) - 1 = i /\ frames[i + 1] \in Frame
  OBVIOUS
<1>2. Proper(Assembled(frames)[i])
  BY OpenProper
<1> DEFINE A == Assembled(frames)
<1>3. IsAssembled(A, frames)
  BY AssembledIs
<1>4. /\ Accepted(frames[i + 1])
      /\ frames[i + 1].op = "continue" => A[i].open.op # "none"
      /\ frames[i + 1].op \in Data => A[i].open.op = "none"
      /\ frames[i + 1].op = "text" \/ (frames[i + 1].op = "continue" /\ A[i].open.op = "text")
         => Valid(frames[i + 1].data)
  BY <1>1 DEF Lawful
<1> HIDE DEF A
<1>5. A[i] \in Assembly /\ A[i + 1] = With(A[i], frames[i + 1])
  BY <1>1, <1>3 DEF IsAssembled
<1> QED BY <1>1, <1>2, <1>4, <1>5 DEF Follows, A

\* A valid text is not refused.
LEMMA TextSent ==
    ASSUME NEW p \in Seq(Chars), NEW empty, NEW single \in BOOLEAN, Valid(p),
           message \in Seq(Chars), Valid(message), single => message = <<>>,
           startOfFrame = Len(message),
           SendText(p, message \o p, Undecoded(p), single, empty)
    PROVE  /\ Keeps(message \o p) /\ startOfFrame' = Len(message \o p)
           /\ Tells("text", message \o p, FALSE)
<1> DEFINE msg == message \o p
<1>1. Undecoded(p) = p
  BY DEF Undecoded
<1>2. ~HasError(p) /\ Decoded(p) = p
  BY DEF Valid
<1>3. ~HasError(p \o msg) /\ Decoded(msg) = msg
  <2>1. Valid(msg) /\ msg \in Seq(Chars)
    BY ValidJoined
  <2> HIDE DEF msg
  <2>2. Valid(p \o msg)
    BY <2>1, ValidJoined
  <2> QED BY <2>1, <2>2 DEF Valid
<1>4. single => p = msg
  OBVIOUS
<1> HIDE DEF msg
<1>5. SendText(p, msg, p, single, empty)
  BY <1>1 DEF msg
<1>6. startOfFrame' = Len(msg)
  BY <1>2, <1>5 DEF SendText
<1>7. ~(\/ single /\ (HasError(p) \/ (Decoded(p) = <<>> /\ p # <<>>))
        \/ finnOpcode.fin /\ ~single /\ p # msg /\ HasError(p \o msg))
  BY <1>2, <1>3
<1>8. Keeps(msg) /\ Tells("text", Decoded(IF single \/ p = msg THEN p ELSE msg), HasError(p))
  BY <1>5, <1>7 DEF SendText
<1>9. Decoded(IF single \/ p = msg THEN p ELSE msg) = msg
  BY <1>2, <1>3, <1>4
<1>10. HasError(p) = FALSE
  BY <1>2 DEF HasError
<1> QED BY <1>6, <1>8, <1>9, <1>10 DEF msg

\* What is told of and kept is what the client means.
Adds(f, r) == LET s == With(r, f)
              IN  /\ got' = s.messages /\ message' = s.open.data /\ continueOpcode' = s.open.op
                  /\ continueOpcode' = "text" => startOfFrame' = Len(message')

\* A frame of a text or of a binary message does, when it is kept and told of.
LEMMA DataAdds ==
    ASSUME NEW f, NEW r, Follows(f, r), NEW op, NEW failed, got = r.messages, Within(f, r.open),
           f.op \notin Control, op = Started(f, r.open).op,
           Keeps(message \o f.data), Tells(op, message \o f.data, failed),
           op = "text" => startOfFrame' = Len(message \o f.data)
    PROVE  Adds(f, r) /\ cause' = cause
<1> DEFINE m == Started(f, r.open)
<1>7. cause' = cause
  BY DEF Tells, socket
<1>1. f.op \in Data \cup {"continue"} /\ f.data \in Seq(Chars) /\ r.open.data \in Seq(Chars)
      /\ f.fin \in BOOLEAN
  BY DEF Follows, Accepted, Frame, Assembly, Message, Chars
<1>2. message = r.open.data /\ finnOpcode = [op |-> f.op, fin |-> f.fin]
      /\ continueOpcode = IF f.op \in Data /\ ~f.fin THEN f.op ELSE r.open.op
  BY DEF Within
<1>3. m = [op |-> op, data |-> message \o f.data]
  <2>1. CASE f.op = "continue"
    BY <1>2, <2>1 DEF Started
  <2>2. CASE f.op \in Data
    <3>1. message = <<>>
      BY <1>2, <2>2 DEF Follows, Proper
    <3>2. message \o f.data = f.data
      BY <1>1, <3>1
    <3> QED BY <2>2, <3>2 DEF Started, Data
  <2> QED BY <1>1, <2>1, <2>2
<1>4. finnOpcode.fin = f.fin
  BY <1>2
<1>5. CASE f.fin
  <2>1. With(r, f) = [open |-> None, messages |-> Append(r.messages, m)]
    BY <1>1, <1>5 DEF With
  <2>2. got' = Append(got, [op |-> op, data |-> message \o f.data])
    BY <1>4, <1>5 DEF Tells
  <2>3. message' = <<>> /\ continueOpcode' = "none"
    BY <1>4, <1>5 DEF Keeps
  <2> QED BY <1>3, <1>7, <2>1, <2>2, <2>3 DEF Adds, Between, None
<1>6. CASE ~f.fin
  <2>1. With(r, f) = [open |-> m, messages |-> r.messages]
    BY <1>1, <1>6 DEF With, Follows, Assembly
  <2>2. got' = got
    BY <1>4, <1>6 DEF Tells
  <2>3. message' = message \o f.data /\ continueOpcode' = continueOpcode
    BY <1>4, <1>6 DEF Keeps
  <2>4. continueOpcode = op
    BY <1>1, <1>2, <1>6 DEF Started, Data
  <2> QED BY <1>3, <1>7, <2>1, <2>2, <2>3, <2>4 DEF Adds, Between
<1> QED BY <1>1, <1>5, <1>6, <1>7

\* A complete frame means to the application what it means to the client.
LEMMA CompleteAdds ==
    ASSUME NEW f, NEW r, NEW empty, Follows(f, r), got = r.messages, Within(f, r.open),
           Complete(f.data, empty)
    PROVE  phase' = "header" /\ Adds(f, r) /\ (cause # "refused" => cause' # "refused")
<1> DEFINE p == f.data
<1>1. f.op \in Data \cup Control \cup {"continue"} /\ p \in Seq(Chars) /\ r.open.data \in Seq(Chars)
      /\ f.fin \in BOOLEAN /\ r.open.op \in Data \cup {"none"}
  BY DEF Follows, Accepted, Frame, Assembly, Message, Chars
<1>2. message = r.open.data /\ finnOpcode.op = f.op /\ finnOpcode.fin = f.fin
      /\ continueOpcode = IF f.op \in Data /\ ~f.fin THEN f.op ELSE r.open.op
  BY DEF Within
<1>3. PICK op \in {IF finnOpcode.op = "continue" THEN continueOpcode ELSE finnOpcode.op} :
          \/ op = "text" /\ SendText(p, message \o p, Undecoded(p),
                                     finnOpcode.op = "text" /\ finnOpcode.fin, empty)
          \/ op = "binary" /\ SendBinary(message \o p)
          \/ op = "close" /\ SendClosed(empty) /\ UNCHANGED whole
          \/ op = "ping" /\ pc' = "parse" /\ UNCHANGED <<whole, socket, told>>
          \/ op = "pong" /\ pc' = "app" /\ UNCHANGED <<whole, socket, told>>
          \/ op = "none" /\ Refuse(empty) /\ UNCHANGED whole
  BY DEF Complete
<1>4. phase' = "header"
  BY DEF Complete
<1>5. op = IF f.op = "continue" THEN r.open.op ELSE f.op
  BY <1>2, <1>3 DEF Data
<1>6. CASE f.op \in Control
  <2>1. op = f.op /\ op \in {"ping", "pong", "close"}
    BY <1>5, <1>6 DEF Control
  <2>2. got' = got /\ UNCHANGED whole
    BY <1>3, <2>1 DEF SendClosed, told
  <2>3. With(r, f) = r
    BY <1>6 DEF With, Data, Control
  <2>4. continueOpcode = r.open.op /\ (continueOpcode = "text" => startOfFrame = Len(message))
    BY <1>2, <1>6 DEF Within, Data, Control
  <2>5. cause # "refused" => cause' # "refused"
    BY <1>3, <2>1 DEF SendClosed, ConnectionClose, socket
  <2> QED BY <1>2, <1>4, <2>2, <2>3, <2>4, <2>5 DEF Adds, Between, whole
<1>7. CASE f.op \notin Control
  <2>1. op \in Data /\ op = Started(f, r.open).op
    BY <1>1, <1>5, <1>7 DEF Follows, Started
  <2>2. CASE op = "text"
    <3>1. SendText(p, message \o p, Undecoded(p), finnOpcode.op = "text" /\ finnOpcode.fin, empty)
      BY <1>3, <2>2
    <3>2. Valid(p)
      BY <1>1, <1>5, <1>7, <2>2 DEF Follows
    <3>3. f.op \in Data => message = <<>>
      BY <1>2 DEF Follows, Proper
    <3>4. Valid(<<>>)
      BY DEF Valid, HasError, Decoded
    <3>5. message \in Seq(Chars) /\ Valid(message)
      <4>1. CASE f.op = "continue"
        BY <1>1, <1>2, <1>5, <2>2, <4>1 DEF Follows, Proper
      <4>2. CASE f.op \in Data
        BY <1>1, <1>2, <3>3, <3>4, <4>2
      <4> QED BY <1>1, <1>7, <4>1, <4>2
    <3>6. startOfFrame = Len(message)
      BY <1>1, <1>2, <1>5, <1>7, <2>2 DEF Within, Data
    <3> DEFINE single == finnOpcode.op = "text" /\ finnOpcode.fin
    <3>7. single \in BOOLEAN /\ (single => message = <<>>)
      BY <1>2, <3>3 DEF Data
    <3>8. SendText(p, message \o p, Undecoded(p), single, empty)
      BY <3>1
    <3> HIDE DEF single, p
    <3>9. p \in Seq(Chars)
      BY <1>1
    <3>10. Keeps(message \o p) /\ startOfFrame' = Len(message \o p) /\ Tells("text", message \o p, FALSE)
      BY <3>2, <3>5, <3>6, <3>7, <3>8, <3>9, TextSent
    <3> QED BY <1>4, <1>7, <2>1, <2>2, <3>10, DataAdds DEF p
  <2>3. CASE op = "binary"
    <3>1. Keeps(message \o p) /\ Tells("binary", message \o p, FALSE)
      BY <1>3, <2>3 DEF SendBinary
    <3> QED BY <1>4, <1>7, <2>1, <2>3, <3>1, DataAdds
  <2> QED BY <2>1, <2>2, <2>3 DEF Data
<1> QED BY <1>6, <1>7

----------------------------------------------------------------------------
(* The steps of the parser.                                                 *)

\* What a client sends is a sequence of frames.
LEMMA ScriptIs == ASSUME StreamInv PROVE script \in Seq(Frame)
BY WebSocketAssumption DEF StreamInv

\* The next n bytes are read.
LEMMA StreamRead ==
    ASSUME NEW n, StreamInv, n \in 1 .. arrived, arrived' = arrived - n,
           stream' = SubSeq(stream, n + 1, Len(stream)), script' = script
    PROVE  /\ StreamInv' /\ Pos' = Pos + n /\ Pos + n <= Len(Bytes(script))
           /\ \A j \in 1 .. n : stream[j] = Bytes(script)[Pos + j]
<1> DEFINE s == SubSeq(stream, n + 1, Len(stream))
           W == Bytes(script)
           k == Len(stream)
<1>1. /\ stream \in Seq(Byte) /\ k \in Nat /\ arrived \in Nat /\ arrived <= k /\ n \in Nat /\ n <= k
      /\ Pos = Len(W) - k /\ Pos \in Nat
      /\ \A j \in 1 .. k : stream[j] = W[Pos + j]
  BY DEF StreamInv, Pos
<1>2. Len(W) \in Nat
  <2>1. W \in Seq(Byte)
    BY ScriptIs, BytesAre
  <2> HIDE DEF W
  <2> QED BY <2>1
<1>3. /\ s \in Seq(Byte) /\ Len(s) = k - n
      /\ \A j \in 1 .. k - n : s[j] = stream[n + j]
  <2>1. n + 1 \in Int /\ k \in Int /\ \A i \in n + 1 .. k : stream[i] \in Byte
    BY <1>1
  <2> HIDE DEF k
  <2> DEFINE a == n + 1
  <2>2. a \in Int /\ k \in Int /\ \A i \in a .. k : stream[i] \in Byte
    BY <2>1
  <2> HIDE DEF a
  <2>3. /\ SubSeq(stream, a, k) \in Seq(Byte)
        /\ Len(SubSeq(stream, a, k)) = IF a <= k THEN k - a + 1 ELSE 0
        /\ \A i \in 1 .. k - a + 1 : SubSeq(stream, a, k)[i] = stream[a + i - 1]
    BY <2>2, SubSeqProperties
  <2>4. s = SubSeq(stream, a, k)
    BY DEF a, k
  <2> HIDE DEF s
  <2>5. Len(s) = k - n /\ k - a + 1 = k - n
    <3>1. k \in Nat /\ n \in Nat /\ n <= k
      BY <1>1
    <3>2. k - a + 1 = k - n /\ (IF a <= k THEN k - a + 1 ELSE 0) = k - n
      BY <3>1 DEF a
    <3> QED BY <2>3, <2>4, <3>2
  <2>6. \A j \in 1 .. k - n : s[j] = stream[a + j - 1] /\ a + j - 1 = n + j
    BY <1>1, <2>3, <2>4, <2>5 DEF a
  <2> QED BY <2>3, <2>4, <2>5, <2>6
<1>4. stream' = s /\ Bytes(script)' = W
  OBVIOUS
<1> HIDE DEF s, W, k
<1>5. Pos' = Pos + n /\ Pos + n <= Len(W)
  <2>1. Pos' = Len(W) - Len(s)
    BY <1>4 DEF Pos
  <2> QED BY <1>1, <1>2, <1>3, <2>1
<1>6. \A j \in 1 .. Len(s) : s[j] = W[(Pos + n) + j]
  <2> SUFFICES ASSUME NEW j \in 1 .. Len(s) PROVE s[j] = W[(Pos + n) + j]
    OBVIOUS
  <2>1. n + j \in 1 .. k /\ j \in 1 .. k - n
    BY <1>1, <1>3
  <2>2. s[j] = stream[n + j] /\ stream[n + j] = W[Pos + (n + j)]
    BY <1>1, <1>3, <2>1
  <2>3. Pos + (n + j) = (Pos + n) + j
    BY <1>1
  <2> QED BY <2>2, <2>3
<1>7. \A j \in 1 .. n : stream[j] = W[Pos + j]
  BY <1>1
<1>8. script' \in Scripts
  BY DEF StreamInv
<1>9. stream' \in Seq(Byte) /\ Pos' \in Nat /\ arrived' \in Nat /\ arrived' <= Len(stream')
  <2>1. k \in Nat /\ arrived \in Nat /\ arrived <= k /\ n \in Nat /\ n <= arrived /\ Pos \in Nat
    BY <1>1
  <2>2. Len(stream') = k - n /\ stream' \in Seq(Byte)
    BY <1>3, <1>4
  <2>3. Pos' \in Nat
    BY <1>5, <2>1
  <2> QED BY <2>1, <2>2, <2>3
<1>10. \A j \in 1 .. Len(stream') : stream'[j] = Bytes(script)'[Pos' + j]
  BY <1>4, <1>5, <1>6
<1>11. StreamInv'
  BY <1>8, <1>9, <1>10 DEF StreamInv
<1> QED BY <1>5, <1>7, <1>11 DEF W

\* What is read of frame i + 1.
LEMMA ReadFrame ==
    ASSUME StreamInv, Lawful(script), NEW i \in 0 .. Len(script), i < Len(script)
    PROVE  /\ Sends(script, i, script[i + 1])
           /\ Follows(script[i + 1], Assembled(script)[i])
           /\ Assembled(script)[i + 1] = With(Assembled(script)[i], script[i + 1])
           /\ i + 1 \in 0 .. Len(script)
<1>1. script \in Seq(Frame)
  BY ScriptIs
<1> DEFINE s == script
<1> HIDE DEF s
<1>2. s \in Seq(Frame) /\ Lawful(s) /\ i \in 0 .. Len(s) /\ i < Len(s)
  BY <1>1 DEF s
<1>3. Sends(s, i, s[i + 1])
  BY <1>2, FrameAt
<1>4. Follows(s[i + 1], Assembled(s)[i]) /\ Assembled(s)[i + 1] = With(Assembled(s)[i], s[i + 1])
  BY <1>2, FrameFollows
<1>5. i + 1 \in 0 .. Len(s)
  BY <1>2
<1> QED BY <1>3, <1>4, <1>5 DEF s

\* Between two frames, what is read next is the header of the frame after them, and it
\* is not refused.
LEMMA NextHeader ==
    ASSUME StreamInv, Lawful(script), NEW i \in 0 .. Len(script), Rests(i), arrived # 0
    PROVE  i < Len(script) /\ Head(stream) = HeaderOf(script[i + 1]) /\ ~RefusesHeader(Head(stream))
<1> DEFINE W == Bytes(script)
           f == script[i + 1]
           r == Assembled(script)[i]
           u == Until(script, i)
<1>1. script \in Seq(Frame) /\ Pos = u /\ continueOpcode = r.open.op
  BY ScriptIs DEF Rests, Between
<1>2. W \in Seq(Byte) /\ Until(script, Len(script)) = Len(W)
  BY <1>1, BytesAre
<1>3. Pos + 1 <= Len(W) /\ stream[1] = W[Pos + 1] /\ Head(stream) = stream[1] /\ Pos \in Nat
  <2> HIDE DEF W
  <2>1. Len(stream) \in Nat /\ Len(stream) >= 1 /\ Len(W) \in Nat
    BY <1>2 DEF StreamInv
  <2>2. Pos = Len(W) - Len(stream)
    BY DEF Pos, W
  <2>3. stream[1] = W[Pos + 1] /\ Head(stream) = stream[1] /\ Pos \in Nat
    BY <2>1 DEF StreamInv, W
  <2> QED BY <2>1, <2>2, <2>3
<1>4. i < Len(script)
  <2>1. CASE i = Len(script)
    <3>1. u = Len(W) /\ Len(W) \in Nat
      BY <1>2, <2>1
    <3> HIDE DEF W, u
    <3> QED BY <1>1, <1>3, <3>1
  <2>2. Len(script) \in Nat
    BY <1>1
  <2> QED BY <2>1, <2>2
<1>5. Sends(script, i, f) /\ Follows(f, r)
  BY <1>4, ReadFrame
<1>6. Head(stream) = HeaderOf(f)
  BY <1>1, <1>3, <1>5 DEF Sends
<1> HIDE DEF f, r, u, W
<1>7. ~RefusesHeader(HeaderOf(f))
  <2>1. Accepted(f) /\ f.fin \in BOOLEAN /\ (f.op \in Data => continueOpcode = "none")
    BY <1>1, <1>5 DEF Follows, Frame
  <2>2. Len(f.data) \in Nat /\ ShortSize \in Nat
    BY <1>5, WebSocketAssumption DEF Follows, Frame
  <2>3. f.op \in {"ping", "close"} => ~(Len(f.data) > ShortSize)
    BY <2>1, <2>2 DEF Accepted
  <2>4. ~Interrupts(f.op) /\ f.masked /\ f.op # "invalid" /\ (f.op \in Control => f.fin)
    BY <2>1 DEF Interrupts, Accepted
  <2> QED BY <2>3, <2>4 DEF RefusesHeader, HeaderOf
<1> QED BY <1>4, <1>6, <1>7 DEF f

\* After a header, the frame is being read.
LEMMA ReadHeaderReads ==
    ASSUME StreamInv, Lawful(script), NEW i \in 0 .. Len(script),
           got = Assembled(script)[i].messages, Rests(i), cause # "refused", ReadHeader
    PROVE  StreamInv' /\ ReadInv'
<1> DEFINE W == Bytes(script)
           f == script[i + 1]
           r == Assembled(script)[i]
           u == Until(script, i)
<1>1. 1 \in 1 .. arrived /\ arrived' = arrived - 1 /\ stream' = SubSeq(stream, 1 + 1, Len(stream))
      /\ script' = script
  BY DEF ReadHeader, Reads
<1>2. /\ StreamInv' /\ Pos' = Pos + 1 /\ Pos + 1 <= Len(W)
      /\ \A j \in 1 .. 1 : stream[j] = W[Pos + j]
  BY <1>1, StreamRead
<1>3. Pos = u /\ Between(r.open)
  BY DEF Rests
<1>4. i < Len(script) /\ Head(stream) = HeaderOf(f) /\ ~RefusesHeader(Head(stream))
  <2>1. arrived # 0
    BY <1>1 DEF StreamInv
  <2> QED BY <2>1, NextHeader
<1>5. Follows(f, r)
  BY <1>4, ReadFrame
<1>7. PICK h \in {Head(stream)} :
        /\ finnOpcode' = [op |-> h.op, fin |-> h.fin] /\ payloadSize' = h.size
        /\ IF RefusesHeader(h)
           THEN Refuse(FALSE) /\ UNCHANGED <<phase, payload, whole>>
           ELSE /\ phase' = IF h.size > ShortSize THEN "size" ELSE "mask"
                /\ message' = IF KeepsMessage(h.op) THEN message ELSE <<>>
                /\ startOfFrame' = IF h.op \in Data THEN 0 ELSE startOfFrame
                /\ continueOpcode' = IF h.op \in Data /\ ~h.fin THEN h.op ELSE continueOpcode
                /\ UNCHANGED <<payload, pc, socket, told>>
  BY DEF ReadHeader
<1> HIDE DEF f, r, u, W
<1>8. h.op = f.op /\ h.fin = f.fin /\ h.size = Len(f.data)
  BY <1>4, <1>7 DEF HeaderOf
<1>9. message = r.open.data /\ continueOpcode = r.open.op
      /\ (continueOpcode = "text" => startOfFrame = Len(message))
  BY <1>3 DEF Between
<1>10. f.op \in Data => r.open.op = "none" /\ r.open.data = <<>>
  BY <1>5 DEF Follows, Proper
<1>11. ~RefusesHeader(h)
  BY <1>4, <1>7
<1>12. /\ phase' = IF h.size > ShortSize THEN "size" ELSE "mask"
       /\ message' = IF KeepsMessage(h.op) THEN message ELSE <<>>
       /\ startOfFrame' = IF h.op \in Data THEN 0 ELSE startOfFrame
       /\ continueOpcode' = IF h.op \in Data /\ ~h.fin THEN h.op ELSE continueOpcode
       /\ finnOpcode' = [op |-> f.op, fin |-> f.fin] /\ payloadSize' = Len(f.data)
       /\ got' = got /\ cause' = cause
  BY <1>7, <1>8, <1>11 DEF told, socket
<1>13. message' = r.open.data
  BY <1>8, <1>9, <1>10, <1>12 DEF KeepsMessage
<1>14. continueOpcode' = IF f.op \in Data /\ ~f.fin THEN f.op ELSE r.open.op
  BY <1>8, <1>9, <1>12
<1>15. f.op = "text" \/ continueOpcode' = "text" => startOfFrame' = Len(message')
  <2>1. CASE f.op \in Data
    <3>1. message' = <<>> /\ startOfFrame' = 0
      BY <1>8, <1>10, <1>12, <1>13, <2>1
    <3> QED BY <3>1
  <2>2. CASE f.op \notin Data
    BY <1>8, <1>9, <1>12, <1>13, <1>14, <2>2 DEF Data
  <2> QED BY <2>1, <2>2
<1>16. \/ phase' = "size" /\ HeadSize(f) = 3 /\ Pos' = u + 1
       \/ phase' = "mask" /\ Pos' = u + HeadSize(f) - 1
  <2>1. u \in Nat /\ Pos' = u + 1
    BY <1>2, <1>3 DEF StreamInv
  <2>2. CASE Len(f.data) > ShortSize
    BY <1>8, <1>12, <2>1, <2>2 DEF HeadSize
  <2>3. CASE ~(Len(f.data) > ShortSize)
    BY <1>8, <1>12, <2>1, <2>3 DEF HeadSize
  <2> QED BY <2>2, <2>3
<1>17. Reading(i)'
  BY <1>1, <1>4, <1>12, <1>13, <1>14, <1>15, <1>16 DEF Reading, Within, ReadTo, f, r, u
<1>18. got' = Assembled(script)'[i].messages /\ i \in 0 .. Len(script')
  BY <1>1, <1>12
<1> QED BY <1>2, <1>12, <1>17, <1>18 DEF ReadInv

\* Within a frame only its bytes are read.
LEMMA FrameStays ==
    ASSUME NEW i \in 0 .. Len(script), got = Assembled(script)[i].messages, Reading(i),
           cause # "refused", script' = script, UNCHANGED <<finnOpcode, payloadSize, whole, got, cause>>,
           ReadTo(script[i + 1], Until(script, i))'
    PROVE  ReadInv'
<1>1. Reading(i)'
  BY DEF Reading, Within, whole
<1>2. got' = Assembled(script)'[i].messages /\ i \in 0 .. Len(script')
  OBVIOUS
<1> QED BY <1>1, <1>2 DEF ReadInv

\* After a frame it is between two.
LEMMA FrameEnds ==
    ASSUME StreamInv, Lawful(script), NEW i \in 0 .. Len(script), NEW empty,
           got = Assembled(script)[i].messages, Reading(i), cause # "refused",
           script' = script, finnOpcode' = finnOpcode,
           Pos' = Until(script, i + 1), Complete(script[i + 1].data, empty)
    PROVE  ReadInv'
<1> DEFINE f == script[i + 1]
           r == Assembled(script)[i]
<1>1. i < Len(script) /\ Within(f, r.open)
  BY DEF Reading
<1>2. Follows(f, r) /\ Assembled(script)[i + 1] = With(r, f) /\ i + 1 \in 0 .. Len(script)
  BY <1>1, ReadFrame
<1>3. Complete(f.data, empty) /\ got = r.messages
  OBVIOUS
<1> HIDE DEF f, r
<1>4. phase' = "header" /\ Adds(f, r) /\ cause' # "refused"
  BY <1>1, <1>2, <1>3, CompleteAdds
<1> DEFINE s == Assembled(script)[i + 1]
<1>5. /\ got' = s.messages /\ message' = s.open.data /\ continueOpcode' = s.open.op
      /\ continueOpcode' = "text" => startOfFrame' = Len(message')
  BY <1>2, <1>4 DEF Adds
<1>6. finnOpcode' = [op |-> f.op, fin |-> f.fin] /\ i + 1 # 0
  BY <1>1 DEF Within
<1>7. Rests(i + 1)' /\ got' = Assembled(script)'[i + 1].messages
  BY <1>4, <1>5, <1>6 DEF Rests, Between, f
<1> QED BY <1>2, <1>4, <1>7 DEF ReadInv

\* After its size, the mask of the frame comes.
LEMMA ReadSizeReads ==
    ASSUME StreamInv, Lawful(script), NEW i \in 0 .. Len(script),
           got = Assembled(script)[i].messages, Reading(i), cause # "refused", ReadSize
    PROVE  StreamInv' /\ ReadInv'
<1> DEFINE f == script[i + 1]
           u == Until(script, i)
<1>1. 1 \in 1 .. arrived /\ arrived' = arrived - 1 /\ stream' = SubSeq(stream, 1 + 1, Len(stream))
      /\ script' = script
  BY DEF ReadSize, Reads
<1>2. StreamInv' /\ Pos' = Pos + 1
  BY <1>1, StreamRead
<1>5. i < Len(script) /\ u \in Nat /\ Follows(f, Assembled(script)[i])
  BY ReadFrame DEF Reading, Sends
<1>8. ~(payloadSize > MaxSize)
  <2>1. payloadSize = Len(f.data)
    BY DEF Reading, Within
  <2> HIDE DEF f
  <2>2. Len(f.data) <= MaxSize /\ Len(f.data) \in Nat /\ MaxSize \in Nat
    BY <1>5, WebSocketAssumption DEF Follows, Accepted, Frame
  <2> QED BY <2>1, <2>2
<1>3. phase = "size" /\ phase' = "mask" /\ UNCHANGED <<finnOpcode, payloadSize, whole, got, cause>>
  BY <1>8 DEF ReadSize, Reads, told, socket
<1>4. HeadSize(f) = 3 /\ Pos = u + 1
  BY <1>3 DEF Reading, ReadTo
<1> HIDE DEF f, u
<1>6. Pos' = u + HeadSize(f) - 1
  BY <1>2, <1>4, <1>5
<1>7. ReadTo(script[i + 1], Until(script, i))'
  BY <1>1, <1>3, <1>6 DEF ReadTo, f, u
<1> QED BY <1>1, <1>2, <1>3, <1>7, FrameStays

\* After the mask the payload comes, if there is one.
LEMMA ReadMaskReads ==
    ASSUME StreamInv, Lawful(script), NEW i \in 0 .. Len(script),
           got = Assembled(script)[i].messages, Reading(i), cause # "refused", ReadMask
    PROVE  StreamInv' /\ ReadInv'
<1> DEFINE f == script[i + 1]
           u == Until(script, i)
<1>1. 1 \in 1 .. arrived /\ arrived' = arrived - 1 /\ stream' = SubSeq(stream, 1 + 1, Len(stream))
      /\ script' = script
  BY DEF ReadMask, Reads
<1>2. StreamInv' /\ Pos' = Pos + 1
  BY <1>1, StreamRead
<1>3. phase = "mask" /\ i < Len(script)
  BY DEF ReadMask, Reads, Reading
<1>4. Pos = u + HeadSize(f) - 1 /\ payloadSize = Len(f.data)
  BY <1>3 DEF Reading, ReadTo, Within
<1>5. /\ u \in Nat /\ Until(script, i + 1) = u + HeadSize(f) + Len(f.data)
      /\ f.data \in Seq(Chars)
  BY <1>3, ReadFrame DEF Sends, Follows, Frame, Chars
<1>6. HeadSize(f) \in {2, 3}
  BY DEF HeadSize
<1> DEFINE hs == HeadSize(f)
<1> HIDE DEF u, hs
<1>7. Pos' = u + hs /\ hs \in Nat
  <2>1. Pos = u + hs - 1 /\ hs \in {2, 3}
    BY <1>4, <1>6 DEF hs
  <2> QED BY <1>2, <1>5, <2>1
<1>8. CASE payloadSize = 0
  <2>1. f.data = <<>> /\ Len(f.data) = 0
    <3> HIDE DEF f
    <3>1. f.data \in Seq(Chars) /\ Len(f.data) = 0
      BY <1>4, <1>5, <1>8
    <3> QED BY <3>1
  <2>2. Pos' = Until(script, i + 1)
    BY <1>5, <1>7, <2>1 DEF hs
  <2>3. Complete(f.data, TRUE)
    BY <1>8, <2>1 DEF ReadMask
  <2>4. finnOpcode' = finnOpcode
    BY DEF ReadMask
  <2> QED BY <1>1, <1>2, <2>2, <2>3, <2>4, FrameEnds
<1>9. CASE payloadSize # 0
  <2>1. phase' = "payload" /\ payload' = <<>> /\ UNCHANGED <<finnOpcode, payloadSize, whole, got, cause>>
    BY <1>9 DEF ReadMask, told, socket
  <2>2. Len(payload') \in Nat /\ Len(payload') < Len(f.data) /\ payload' = SubSeq(f.data, 1, Len(payload'))
    <3>1. Len(f.data) \in Nat /\ Len(f.data) # 0 /\ Len(payload') = 0
      BY <1>4, <1>5, <1>9, <2>1
    <3>2. SubSeq(f.data, 1, 0) = <<>>
      BY SubSeqEmpty
    <3> QED BY <2>1, <3>1, <3>2
  <2>3. Pos' = u + HeadSize(f) + Len(payload')
    <3>1. Len(payload') = 0
      BY <2>1
    <3>2. Pos' = u + hs + Len(payload')
      BY <1>5, <1>7, <3>1
    <3> QED BY <3>2 DEF hs
  <2>4. ReadTo(script[i + 1], Until(script, i))'
    BY <1>1, <2>1, <2>2, <2>3 DEF ReadTo, u
  <2> QED BY <1>1, <1>2, <2>1, <2>4, FrameStays
<1> QED BY <1>8, <1>9

\* What is read of a payload.
\* q is what there is of d, and x the n bytes after it.
Continues(d, a, n, q, x) ==
    /\ d \in Seq(Chars) /\ a \in Nat /\ n \in Nat /\ a + n <= Len(d) /\ q = SubSeq(d, 1, a)
    /\ x \in Seq(Chars) /\ Len(x) = n /\ \A j \in 1 .. n : x[j] = d[a + j]

\* What was read of a payload, and what is read next, is the beginning of it.
LEMMA PayloadRead ==
    ASSUME NEW d, NEW a, NEW n, NEW q, NEW x, Continues(d, a, n, q, x)
    PROVE  q \o x = SubSeq(d, 1, a + n) /\ Len(q \o x) = a + n
<1> USE DEF Continues
<1>1. /\ SubSeq(d, 1, a) \in Seq(Chars) /\ Len(SubSeq(d, 1, a)) = a
      /\ \A j \in 1 .. a : SubSeq(d, 1, a)[j] = d[j]
  <2>1. a \in Int /\ \A j \in 1 .. a : d[j] \in Chars
    OBVIOUS
  <2>2. /\ SubSeq(d, 1, a) \in Seq(Chars) /\ Len(SubSeq(d, 1, a)) = IF 1 <= a THEN a - 1 + 1 ELSE 0
        /\ \A j \in 1 .. a - 1 + 1 : SubSeq(d, 1, a)[j] = d[1 + j - 1]
    BY <2>1, SubSeqProperties
  <2>3. a - 1 + 1 = a /\ \A j \in 1 .. a : 1 + j - 1 = j
    OBVIOUS
  <2> QED BY <2>2, <2>3
<1> DEFINE b == a + n
           s == SubSeq(d, 1, b)
<1>2. s \in Seq(Chars) /\ Len(s) = b /\ \A j \in 1 .. b : s[j] = d[j]
  <2>1. b \in Int /\ b \in Nat /\ \A j \in 1 .. b : d[j] \in Chars
    OBVIOUS
  <2> HIDE DEF b
  <2>2. /\ SubSeq(d, 1, b) \in Seq(Chars) /\ Len(SubSeq(d, 1, b)) = IF 1 <= b THEN b - 1 + 1 ELSE 0
        /\ \A j \in 1 .. b - 1 + 1 : SubSeq(d, 1, b)[j] = d[1 + j - 1]
    BY <2>1, SubSeqProperties
  <2>3. b - 1 + 1 = b /\ \A j \in 1 .. b : 1 + j - 1 = j
    BY <2>1
  <2> QED BY <2>1, <2>2, <2>3
<1>3. q \in Seq(Chars) /\ Len(q) = a /\ \A j \in 1 .. a : q[j] = d[j]
  BY <1>1
<1> DEFINE w == q \o x
<1>4. w \in Seq(Chars) /\ Len(w) = b
  <2> HIDE DEF s
  <2>1. q \in Seq(Chars) /\ x \in Seq(Chars) /\ Len(q) = a /\ Len(x) = n
    BY <1>3
  <2>2. w \in Seq(Chars)
    BY <2>1
  <2>3. Len(w) = Len(q) + Len(x)
    BY <2>1
  <2> QED BY <2>1, <2>2, <2>3
<1>5. ASSUME NEW j \in 1 .. b PROVE w[j] = s[j]
  <2> HIDE DEF s
  <2>1. CASE j <= a
    <3>1. j \in 1 .. a
      BY <2>1
    <3>2. w[j] = q[j]
      BY <1>3, <3>1
    <3> QED BY <1>2, <1>3, <3>1, <3>2
  <2>2. CASE j > a
    <3>1. j - a \in 1 .. n /\ a + (j - a) = j
      BY <2>2
    <3>2. w[j] = x[j - a]
      BY <1>3, <2>2
    <3> QED BY <1>2, <3>1, <3>2
  <2> QED BY <2>1, <2>2
<1>6. w = s
  <2> HIDE DEF w, s, b
  <2> QED BY <1>2, <1>4, <1>5
<1> QED BY <1>4, <1>6

\* Some of the payload is read, or the rest.
LEMMA ReadPayloadReads ==
    ASSUME StreamInv, Lawful(script), NEW i \in 0 .. Len(script),
           got = Assembled(script)[i].messages, Reading(i), cause # "refused", ReadPayload
    PROVE  StreamInv' /\ ReadInv'
<1> DEFINE f == script[i + 1]
           u == Until(script, i)
           d == f.data
           left == payloadSize - Len(payload)
           Smallest(n) == n <= left /\ n <= BufferSize /\ n <= arrived
<1>1. PICK n \in {CHOOSE n \in {left, BufferSize, arrived} : Smallest(n)} :
        /\ Reads("payload", n) /\ UNCHANGED <<finnOpcode, payloadSize>>
        /\ \E p \in {payload \o [j \in 1 .. n |-> stream[j].c]} :
              IF Len(p) < payloadSize
              THEN payload' = p /\ UNCHANGED <<phase, pc, whole, socket, told>>
              ELSE Complete(p, FALSE)
  BY DEF ReadPayload
<1>2. phase = "payload" /\ i < Len(script) /\ payloadSize = Len(d)
  BY <1>1 DEF Reads, Reading, Within
<1>3. /\ u \in Nat /\ Until(script, i + 1) = u + HeadSize(f) + Len(d)
      /\ \A j \in 1 .. Len(d) : Bytes(script)[u + HeadSize(f) + j] = [t |-> "payload", c |-> d[j]]
      /\ d \in Seq(Chars)
  BY <1>2, ReadFrame DEF Sends, Follows, Frame, Chars
<1>4. HeadSize(f) \in Nat
  BY DEF HeadSize
<1>5. /\ Pos = u + HeadSize(f) + Len(payload) /\ Len(payload) < Len(d)
      /\ payload = SubSeq(d, 1, Len(payload)) /\ Len(payload) \in Nat
  BY <1>2 DEF Reading, ReadTo
<1> DEFINE hs == HeadSize(f)
           a == Len(payload)
<1>6. a \in Nat /\ Len(d) \in Nat
  <2>1. Len(d) \in Nat
    BY <1>3
  <2> QED BY <1>5, <2>1
<1>7. n \in 1 .. arrived /\ n <= left
  <2>1. n \in 1 .. arrived
    BY <1>1 DEF Reads
  <2>2. left \in Int /\ BufferSize \in Int /\ arrived \in Int
    BY <1>2, <1>6, WebSocketAssumption DEF StreamInv
  <2> HIDE DEF left
  <2>3. \E m \in {left, BufferSize, arrived} : Smallest(m)
    BY <2>2
  <2> DEFINE S == {left, BufferSize, arrived}
  <2>4. \E m \in S : Smallest(m)
    BY <2>3
  <2>5. n = CHOOSE m \in S : Smallest(m)
    OBVIOUS
  <2> HIDE DEF S, Smallest
  <2>6. Smallest(n)
    BY <2>4, <2>5
  <2> QED BY <2>1, <2>6 DEF Smallest
<1>8. arrived' = arrived - n /\ stream' = SubSeq(stream, n + 1, Len(stream)) /\ script' = script
  BY <1>1 DEF Reads
<1>9. /\ StreamInv' /\ Pos' = Pos + n
      /\ \A j \in 1 .. n : stream[j] = Bytes(script)[Pos + j]
  BY <1>7, <1>8, StreamRead
<1> DEFINE x == [j \in 1 .. n |-> stream[j].c]
           p == payload \o x
<1>10. n \in Nat /\ a + n <= Len(d)
  BY <1>2, <1>6, <1>7 DEF StreamInv
<1>11. \A j \in 1 .. n : stream[j].c = d[a + j] /\ d[a + j] \in Chars
  <2> SUFFICES ASSUME NEW j \in 1 .. n PROVE stream[j].c = d[a + j] /\ d[a + j] \in Chars
    OBVIOUS
  <2> HIDE DEF a, hs, d, u
  <2>1. a + j \in 1 .. Len(d)
    BY <1>6, <1>10
  <2>2. Pos + j = u + hs + (a + j)
    <3>1. Pos = u + hs + a /\ hs \in Nat
      BY <1>4, <1>5 DEF a, hs
    <3> QED BY <1>3, <1>6, <1>10, <3>1
  <2>3. stream[j] = [t |-> "payload", c |-> d[a + j]]
    BY <1>3, <1>9, <2>1, <2>2 DEF hs
  <2> QED BY <1>3, <2>1, <2>3
<1>12. x \in Seq(Chars) /\ Len(x) = n /\ \A j \in 1 .. n : x[j] = d[a + j]
  <2> HIDE DEF d, a
  <2> QED BY <1>10, <1>11
<1>13. p = SubSeq(d, 1, a + n) /\ Len(p) = a + n
  <2>1. Continues(d, a, n, payload, x)
    <3> HIDE DEF x, d
    <3> QED BY <1>3, <1>5, <1>6, <1>10, <1>12 DEF Continues
  <2> HIDE DEF x, d, a
  <2>2. payload \o x = SubSeq(d, 1, a + n) /\ Len(payload \o x) = a + n
    BY <2>1, PayloadRead
  <2> QED BY <2>2
<1>14. Pos' = u + hs + (a + n)
  <2> HIDE DEF u, hs, a
  <2>1. Pos = u + hs + a /\ hs \in Nat
    BY <1>4, <1>5 DEF a, hs
  <2> QED BY <1>3, <1>6, <1>9, <1>10, <2>1
<1>15. CASE Len(p) < payloadSize
  <2>1. payload' = p /\ UNCHANGED <<phase, whole, got, cause>>
    BY <1>1, <1>15 DEF told, socket
  <2> HIDE DEF p, d, x, a
  <2>2. Len(payload') = a + n /\ a + n \in Nat /\ a + n < Len(d) /\ payload' = SubSeq(d, 1, Len(payload'))
    BY <1>2, <1>6, <1>10, <1>13, <1>15, <2>1
  <2>3. Pos' = u + HeadSize(f) + Len(payload')
    BY <1>14, <2>2
  <2>4. ReadTo(script[i + 1], Until(script, i))'
    BY <1>2, <1>8, <2>1, <2>2, <2>3 DEF ReadTo, d
  <2> QED BY <1>1, <1>8, <1>9, <2>1, <2>4, FrameStays
<1>16. CASE ~(Len(p) < payloadSize)
  <2>1. Complete(p, FALSE)
    BY <1>1, <1>16
  <2>2. a + n = Len(d)
    <3> HIDE DEF p, d, a
    <3> QED BY <1>2, <1>6, <1>10, <1>13, <1>16
  <2>3. p = d
    <3> HIDE DEF p, d, a
    <3>1. SubSeq(d, 1, Len(d)) = d
      BY <1>3
    <3> QED BY <1>13, <2>2, <3>1
  <2>4. Pos' = Until(script, i + 1)
    BY <1>3, <1>14, <2>2
  <2>5. Complete(script[i + 1].data, FALSE)
    <3> HIDE DEF p
    <3> QED BY <2>1, <2>3
  <2> QED BY <1>1, <1>8, <1>9, <2>4, <2>5, FrameEnds
<1> QED BY <1>15, <1>16

\* The steps of the parser keep to the frames.
LEMMA ParseReads ==
    ASSUME MessageInv, Lawful(script), Parse
    PROVE  MessageInv'
<1>1. PICK i \in 0 .. Len(script) : /\ got = Assembled(script)[i].messages /\ cause # "refused"
                                    /\ Rests(i) \/ Reading(i)
  BY DEF MessageInv, ReadInv
<1>2. Rests(i) => phase = "header"
  BY DEF Rests
<1>3. Reading(i) => phase \in {"size", "mask", "payload"}
  BY DEF Reading, ReadTo
<1>4. CASE ReadHeader
  <2>1. phase = "header"
    BY <1>4 DEF ReadHeader, Reads
  <2> QED BY <1>1, <1>3, <1>4, <2>1, ReadHeaderReads DEF MessageInv
<1>5. CASE ReadSize
  <2>1. phase = "size"
    BY <1>5 DEF ReadSize, Reads
  <2> QED BY <1>1, <1>2, <1>5, <2>1, ReadSizeReads DEF MessageInv
<1>6. CASE ReadMask
  <2>1. phase = "mask"
    BY <1>6 DEF ReadMask, Reads
  <2> QED BY <1>1, <1>2, <1>6, <2>1, ReadMaskReads DEF MessageInv
<1>7. CASE ReadPayload
  <2>1. phase = "payload"
    BY <1>7 DEF ReadPayload, Reads
  <2> QED BY <1>1, <1>2, <1>7, <2>1, ReadPayloadReads DEF MessageInv
<1> QED BY <1>4, <1>5, <1>6, <1>7 DEF Parse

\* What is not the parser's reads nothing and tells of nothing.
LEMMA OthersRead ==
    ASSUME MessageInv, UNCHANGED <<client, frame, whole, got>>,
           arrived' \in Nat, arrived' <= Len(stream), cause' # "refused"
    PROVE  MessageInv'
<1>1. script' = script /\ stream' = stream /\ Pos' = Pos
  BY DEF client, Pos
<1>2. StreamInv'
  BY <1>1 DEF MessageInv, StreamInv
<1>3. PICK i \in 0 .. Len(script) : got = Assembled(script)[i].messages /\ (Rests(i) \/ Reading(i))
  BY DEF MessageInv, ReadInv
<1>4. Rests(i) => Rests(i)'
  BY <1>1 DEF Rests, Between, frame, whole
<1>5. Reading(i) => Reading(i)'
  BY <1>1 DEF Reading, Within, ReadTo, frame, whole
<1>6. got' = Assembled(script)'[i].messages /\ i \in 0 .. Len(script')
  BY <1>1, <1>3
<1> QED BY <1>2, <1>3, <1>4, <1>5, <1>6 DEF MessageInv, ReadInv

\* MessageInv is inductive for a client that keeps to the protocol.
LEMMA MessageKept ==
    ASSUME MessageInv, Lawful(script), [Next]_vars
    PROVE  MessageInv'
<1>1. arrived \in Nat /\ arrived <= Len(stream) /\ Len(stream) \in Nat /\ cause # "refused"
  BY DEF MessageInv, StreamInv, ReadInv
<1>2. ASSUME UNCHANGED <<client, arrived, frame, whole, got>>, cause' # "refused"
      PROVE  MessageInv'
  BY <1>1, <1>2, OthersRead
<1>3. CASE Network
  <2>1. PICK n \in 1 .. 2 : Arrive(n)
    BY <1>3 DEF Network
  <2>2. UNCHANGED <<client, frame, whole, got>> /\ arrived' \in Nat /\ arrived' <= Len(stream)
    BY <1>1, <2>1 DEF Arrive, told
  <2>3. cause' # "refused"
    BY <1>1, <2>1 DEF Arrive, socket
  <2> QED BY <2>2, <2>3, OthersRead
<1>4. CASE ReadyRead \/ StopsReading \/ Returns
  BY <1>1, <1>2, <1>4 DEF ReadyRead, StopsReading, Returns, told, socket
<1>5. CASE Parse
  BY <1>5, ParseReads
<1>6. CASE WebSocketClose
  BY <1>1, <1>2, <1>6 DEF WebSocketClose, ConnectionClose
<1>7. CASE Flushed
  BY <1>1, <1>2, <1>7 DEF Flushed
<1>8. CASE Lost
  BY <1>1, <1>2, <1>8 DEF Lost
<1>9. CASE UNCHANGED vars
  BY <1>1, <1>2, <1>9 DEF vars, told, socket
<1> QED BY <1>3, <1>4, <1>5, <1>6, <1>7, <1>8, <1>9 DEF Next

\* The script is chosen once.
LEMMA ScriptStays == [Next]_vars => script' = script
<1> SUFFICES ASSUME [Next]_vars PROVE script' = script
  OBVIOUS
<1>1. CASE Network \/ ReadyRead \/ StopsReading \/ Returns \/ WebSocketClose \/ Flushed \/ Lost
  BY <1>1 DEF Network, Arrive, ReadyRead, StopsReading, Returns, WebSocketClose, Flushed, Lost, client
<1>2. CASE Parse
  BY <1>2 DEF Parse, ReadHeader, ReadSize, ReadMask, ReadPayload, Reads
<1>3. CASE UNCHANGED vars
  BY <1>3 DEF vars, client
<1> QED BY <1>1, <1>2, <1>3 DEF Next

\* And it holds at first.
LEMMA MessageInit == Init => MessageInv
<1> SUFFICES ASSUME Init PROVE MessageInv
  OBVIOUS
<1>1. script \in Scripts /\ stream = Bytes(script) /\ arrived = 0
  BY DEF Init
<1>2. script \in Seq(Frame)
  BY <1>1, WebSocketAssumption
<1>3. Bytes(script) \in Seq(Byte)
  BY <1>2, BytesAre
<1> DEFINE W == Bytes(script)
<1> HIDE DEF W
<1>4. W \in Seq(Byte) /\ Len(W) \in Nat /\ stream = W
  BY <1>1, <1>3 DEF W
<1>5. Pos = 0
  BY <1>4 DEF Pos, W
<1>6. \A j \in 1 .. Len(stream) : stream[j] = W[Pos + j]
  BY <1>4, <1>5
<1>7. StreamInv
  BY <1>1, <1>4, <1>5, <1>6 DEF StreamInv, W
<1>8. 0 \in 0 .. Len(script) /\ Until(script, 0) = 0
  BY <1>2 DEF Until
<1>9. Assembled(script)[0] = [open |-> None, messages |-> <<>>]
  BY <1>2, AssembledIs DEF IsAssembled
<1>10. Rests(0) /\ got = Assembled(script)[0].messages
  BY <1>5, <1>8, <1>9 DEF Init, Rests, Between, None
<1>11. cause # "refused"
  BY DEF Init
<1> QED BY <1>7, <1>8, <1>10, <1>11 DEF MessageInv, ReadInv

\* What was told of is what was meant.
LEMMA MessageTold == MessageInv => MessagesAsSent
<1> SUFFICES ASSUME MessageInv PROVE MessagesAsSent
  OBVIOUS
<1>1. PICK i \in 0 .. Len(script) : got = Assembled(script)[i].messages
  BY DEF MessageInv, ReadInv
<1>2. script \in Seq(Frame)
  BY ScriptIs DEF MessageInv
<1>3. Starts(got, Messages)
  BY <1>1, <1>2, MessagesGrow DEF Messages
<1>4. got \in Seq(Message) /\ Messages \in Seq(Message)
  <2> DEFINE A == Assembled(script)
  <2>1. IsAssembled(A, script)
    BY <1>2, AssembledIs
  <2>2. Len(script) \in 0 .. Len(script)
    BY <1>2
  <2> HIDE DEF A
  <2>3. A[i] \in Assembly /\ A[Len(script)] \in Assembly
    BY <2>1, <2>2 DEF IsAssembled
  <2>4. A[i].messages \in Seq(Message) /\ A[Len(script)].messages \in Seq(Message)
    BY <2>3 DEF Assembly
  <2> QED BY <1>1, <2>4 DEF A, Messages
<1> DEFINE s == got
           t == Messages
<1> HIDE DEF s, t
<1>5. s \in Seq(Message) /\ t \in Seq(Message) /\ Starts(s, t)
  BY <1>3, <1>4 DEF s, t
<1>6. IsPrefix(s, t)
  <2>1. Len(s) \in Nat /\ Len(t) \in Nat /\ Len(s) <= Len(t) /\ \A j \in 1 .. Len(s) : t[j] = s[j]
    BY <1>5 DEF Starts
  <2> QED BY <1>5, <2>1 DEF IsPrefix
<1> QED BY <1>6 DEF MessagesAsSent, s, t

\* The application gets the messages of a client that keeps to the protocol, each
\* once, in order and complete: for every script, however its bytes arrive, whatever
\* control frames come between, and whoever closes the connection or loses it
\* (protocolwebsocket.cpp:88-217,391-446).
THEOREM MessagesDelivered == Spec => [](Lawful(script) => MessagesAsSent)
<1>1. Init => (Lawful(script) => MessageInv)
  BY MessageInit
<1>2. (Lawful(script) => MessageInv) /\ [Next]_vars => (Lawful(script) => MessageInv)'
  <2> SUFFICES ASSUME Lawful(script) => MessageInv, [Next]_vars, Lawful(script)'
               PROVE  MessageInv'
    OBVIOUS
  <2>1. Lawful(script)
    BY ScriptStays
  <2> QED BY <2>1, MessageKept
<1>3. MessageInv => MessagesAsSent
  BY MessageTold
<1> QED BY <1>1, <1>2, <1>3, PTL DEF Spec

----------------------------------------------------------------------------
(* The end of what such a client has begun.                                 *)

\* Such a client is orderly: after its close frame there is nothing to read.
LEMMA LawfulIsOrderly ==
    ASSUME MessageInv, Lawful(script)
    PROVE  Orderly
<1> DEFINE Ended == finnOpcode.fin = TRUE /\ (phase = "header" => arrived = 0) /\ cause # "refused"
           Taking == phase = "header" /\ arrived # 0 => ~RefusesHeader(Head(stream))
<1> SUFFICES (finnOpcode.op = "close" => Ended) /\ Taking
  BY DEF Orderly
<1>1. cause # "refused" /\ script \in Seq(Frame) /\ StreamInv
  BY ScriptIs DEF MessageInv, ReadInv
<1>2. PICK i \in 0 .. Len(script) : Rests(i) \/ Reading(i)
  BY DEF MessageInv, ReadInv
<1>3. CASE Rests(i)
  <2>1. Taking
    BY <1>1, <1>3, NextHeader
  <2>2. ASSUME finnOpcode.op = "close" PROVE Ended
    <3>1. i # 0
      BY <1>3, <2>2 DEF Rests, NoFrame
    <3>2. i \in 1 .. Len(script) /\ script[i] \in Frame
      BY <1>1, <3>1
    <3>3. finnOpcode = [op |-> script[i].op, fin |-> script[i].fin] /\ Pos = Until(script, i)
      BY <1>3, <3>1 DEF Rests
    <3>4. script[i].op = "close" /\ finnOpcode.fin = script[i].fin /\ script[i].fin \in BOOLEAN
      BY <2>2, <3>2, <3>3 DEF Frame
    <3>5. i = Len(script) /\ script[i].fin
      BY <3>2, <3>4 DEF Lawful, Accepted, Control
    <3>6. Pos = Len(Bytes(script)) /\ Bytes(script) \in Seq(Byte)
      BY <1>1, <3>3, <3>5, BytesAre
    <3>7. arrived = 0
      <4> DEFINE W == Bytes(script)
      <4> HIDE DEF W
      <4>1. Len(W) \in Nat /\ Len(stream) \in Nat /\ Len(W) - Len(stream) = Len(W)
        BY <1>1, <3>6 DEF Pos, StreamInv, W
      <4> QED BY <1>1, <4>1 DEF StreamInv
    <3> QED BY <1>1, <3>4, <3>5, <3>7
  <2> HIDE DEF Ended, Taking
  <2> QED BY <2>1, <2>2
<1>4. CASE Reading(i)
  <2>1. i + 1 \in 1 .. Len(script) /\ script[i + 1] \in Frame
    BY <1>1, <1>4 DEF Reading
  <2>2. finnOpcode = [op |-> script[i + 1].op, fin |-> script[i + 1].fin] /\ phase # "header"
    BY <1>4 DEF Reading, Within, ReadTo
  <2>3. ASSUME finnOpcode.op = "close" PROVE Ended
    <3>1. script[i + 1].op = "close" /\ finnOpcode.fin = script[i + 1].fin /\ script[i + 1].fin \in BOOLEAN
      BY <2>1, <2>2, <2>3 DEF Frame
    <3>2. script[i + 1].fin
      BY <2>1, <3>1 DEF Lawful, Accepted, Control
    <3> QED BY <1>1, <2>2, <3>1, <3>2
  <2> QED BY <2>2, <2>3
<1> QED BY <1>2, <1>3, <1>4

\* So its end is told once, however its frames arrive: what EndOnce asks of every
\* state follows from the frames alone (request.h:536-543, protocolhttp.cpp:478-501,
\* socket.cpp:43-64).
THEOREM LawfulEndOnce ==
    ASSUME Habits = {}
    PROVE  Spec => [](Lawful(script) => EndToldOnce)
<1> DEFINE L == Lawful(script)
           Inv == MessageInv /\ EndInv
<1>1. Init => (L => Inv)
  BY MessageInit DEF Init, NoFrame, EndInv, OpcodeInv, SizeInv, OpenInv, ClosingInv,
                     ClosedInv, ReadClose
<1>2. (L => Inv) /\ [Next]_vars => (L => Inv)'
  <2> SUFFICES ASSUME L => Inv, [Next]_vars, L' PROVE Inv'
    OBVIOUS
  <2>1. L /\ Inv
    BY ScriptStays
  <2>2. MessageInv'
    BY <2>1, MessageKept
  <2>3. Orderly
    BY <2>1, LawfulIsOrderly
  <2>4. Orderly'
    <3>1. (MessageInv /\ Lawful(script) => Orderly)'
      BY LawfulIsOrderly, PTL
    <3> QED BY <2>2, <3>1
  <2>5. EndInv'
    BY <2>1, <2>3, <2>4, EndKept
  <2> QED BY <2>2, <2>5
<1>3. Inv => EndToldOnce
  BY DEF EndInv, OpenInv, ClosingInv, ClosedInv, EndToldOnce
<1> QED BY <1>1, <1>2, <1>3, PTL DEF Spec
=============================================================================
