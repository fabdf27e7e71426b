----------------------------- MODULE WebSocket -----------------------------
(***************************************************************************)
(* A connection after the handshake: ProtocolWebSocket reads the frames    *)
(* of the client in four phases, puts fragmented messages together and     *)
(* emits the signals of Request; ProtoRequestHttp ends the connection when *)
(* either side closes it or it is lost.                                    *)
(*                                                                         *)
(* The bytes of a frame are its header, its extended size if it has one,   *)
(* its mask, and its payload.  A payload is made of "a", a character of    *)
(* one byte, and "u" "v", the two bytes of another.  A header with a       *)
(* reserved bit or a reserved opcode has the opcode "invalid".             *)
(***************************************************************************)
EXTENDS Integers, Sequences, SequencesExt

CONSTANTS Scripts,          \* what the client sends: sequences of frames
          ShortSize,        \* 125: a longer payload has an extended size
          MaxSize,          \* websocket_max_size, of which an extended size is refused
          BufferSize,       \* m_postBufferSize
          Habits

Allowed == {"cuts",         \* the connection may be lost within a close frame
            "twice"}        \* the application may close what is being closed

Data    == {"text", "binary"}
Control == {"ping", "pong", "close"}
Frame   == [op : Data \cup Control \cup {"continue", "invalid"}, fin : BOOLEAN, masked : BOOLEAN,
            data : Seq({"a", "u", "v"})]

ASSUME WebSocketAssumption ==
    /\ Scripts \subseteq Seq(Frame) /\ Habits \subseteq Allowed
    /\ {ShortSize, MaxSize} \subseteq Nat /\ BufferSize \in Nat \ {0}

VARIABLES
    script,                 \* chosen once
    stream, arrived,        \* what was not read of it, and how much of that is in
                            \* the socket
    pc,                     \* of the thread: "idle", "parse", or "app" in a handler
    phase, finnOpcode, payloadSize, payload,    \* websocket_*
    message, startOfFrame, continueOpcode,
    processing, conn, finished, cause,          \* the socket, and why it was closed
    got, closedSignals                          \* what the application was told

client == <<script, stream>>
frame  == <<phase, finnOpcode, payloadSize, payload>>
whole  == <<message, startOfFrame, continueOpcode>>
socket == <<processing, conn, finished, cause>>
told   == <<got, closedSignals>>
vars   == <<client, arrived, pc, frame, whole, socket, told>>

NoFrame == [op |-> "none", fin |-> TRUE]

TypeOK ==
    /\ script \in Scripts /\ arrived \in 0 .. Len(stream)
    /\ pc \in {"idle", "parse", "app"}
    /\ phase \in {"header", "size", "mask", "payload"}
    /\ [finnOpcode EXCEPT !.op = "none"] \in [op : {"none"}, fin : BOOLEAN]
    /\ payloadSize \in Nat /\ (phase = "payload" => Len(payload) < payloadSize)
    /\ startOfFrame \in Nat /\ continueOpcode \in Data \cup {"none"}
    /\ processing \in {0, 1} /\ conn \in {"open", "closing", "closed"}
    /\ finished \in Nat /\ closedSignals \in Nat
    /\ cause \in {"none", "application", "closeFrame", "client", "refused"}

\* The bytes of a script.
BytesOf(f) == <<[t |-> "header", op |-> f.op, fin |-> f.fin, masked |-> f.masked, size |-> Len(f.data)]>>
              \o (IF Len(f.data) > ShortSize THEN <<[t |-> "size"]>> ELSE <<>>)
              \o <<[t |-> "mask"]>>
              \o [i \in DOMAIN f.data |-> [t |-> "payload", c |-> f.data[i]]]
Bytes(frames) == FlattenSeq([i \in DOMAIN frames |-> BytesOf(frames[i])])

Init ==
    /\ script \in Scripts /\ stream = Bytes(script) /\ arrived = 0
    /\ pc = "idle" /\ phase = "header" /\ finnOpcode = NoFrame
    /\ payloadSize = 0 /\ payload = <<>>
    /\ message = <<>> /\ startOfFrame = 0 /\ continueOpcode = "none"
    /\ processing = 1 /\ conn = "open" /\ finished = 0 /\ cause = "none"
    /\ got = <<>> /\ closedSignals = 0

----------------------------------------------------------------------------
(* UTF-8, as QStringDecoder takes it: an incomplete end is no error.        *)

HasError(s) == \E i \in DOMAIN s : \/ s[i] = "v" /\ (i = 1 \/ s[i - 1] # "u")
                                   \/ s[i] = "u" /\ i < Len(s) /\ s[i + 1] # "v"
Decoded(s)  == IF s = <<>> THEN s ELSE IF Last(s) = "u" THEN Front(s) ELSE s
Valid(s)    == ~HasError(s) /\ Decoded(s) = s

----------------------------------------------------------------------------
(* The socket.                                                              *)

Arrive(n) ==
    /\ conn = "open" /\ arrived + n <= Len(stream)
    /\ arrived' = arrived + n
    /\ UNCHANGED <<client, pc, frame, whole, socket, told>>

\* Wrong variant: the application is told whatever was read last.
TellClosedAlways(told0) == told0 + 1

\* ProtoRequestHttp::socketDisconnected: after a close frame the application knows.
TellClosed(told0) == IF finnOpcode = [op |-> "close", fin |-> TRUE] THEN told0 ELSE told0 + 1

\* Wrong variant: the request is counted down and nothing comes after it.
DisconnectedKeeps(proc, told0) ==
    /\ conn' = "closed"
    /\ IF proc = 0 THEN finished' = finished + 1 /\ processing' = 0 /\ closedSignals' = told0
       ELSE /\ closedSignals' = TellClosed(told0) /\ processing' = proc - 1
            /\ UNCHANGED finished

\* Socket::socketDisconnected: with a request in progress, that of the protocol.
Disconnected(proc, told0) ==
    /\ conn' = "closed"
    /\ IF proc = 0 THEN finished' = finished + 1 /\ processing' = 0 /\ closedSignals' = told0
       ELSE /\ closedSignals' = TellClosed(told0)
            /\ processing' = proc - 1
            /\ finished' = IF proc = 1 THEN finished + 1 ELSE finished

\* connectionClose: what was written may have to be sent first.
ConnectionClose(proc, told0, why) ==
    /\ cause' = IF cause = "none" THEN why ELSE cause
    /\ IF conn # "open" THEN processing' = proc /\ closedSignals' = told0 /\ UNCHANGED <<conn, finished>>
       ELSE \/ Disconnected(proc, told0)
            \/ /\ conn' = "closing" /\ processing' = proc /\ closedSignals' = told0
               /\ UNCHANGED finished

\* What was to be sent is sent, or the client is gone.
Flushed ==
    /\ pc = "idle" /\ conn = "closing"
    /\ Disconnected(processing, closedSignals)
    /\ UNCHANGED <<client, arrived, pc, frame, whole, cause, got>>

Lost ==
    /\ pc = "idle" /\ conn = "open"
    /\ phase # "header" /\ finnOpcode.op = "close" => "cuts" \in Habits
    /\ Disconnected(processing, closedSignals) /\ cause' = "client"
    /\ UNCHANGED <<client, arrived, pc, frame, whole, got>>

\* ProtoRequestHttp::webSocketClose, called by a handler, by another event of
\* the application, or by handleSocketShutdown.
WebSocketClose ==
    /\ pc \in {"idle", "app"} /\ finished = 0
    /\ cause = "application" \/ conn # "open" => "twice" \in Habits
    /\ \/ conn = "open" /\ ConnectionClose(processing - 1, closedSignals, "application")
       \/ /\ conn # "open" /\ processing' = processing - 1
          /\ finished' = IF processing' = 0 THEN finished + 1 ELSE finished
          /\ UNCHANGED <<conn, cause, closedSignals>>
    /\ pc' = IF pc = "app" THEN "parse" ELSE pc
    /\ UNCHANGED <<client, arrived, frame, whole, got>>

\* A handler returns.
Returns ==
    /\ pc = "app" /\ pc' = "parse"
    /\ UNCHANGED <<client, arrived, frame, whole, socket, told>>

----------------------------------------------------------------------------
(* The loop of parse.                                                       *)

ReadyRead ==
    /\ pc = "idle" /\ conn = "open" /\ arrived > 0 /\ pc' = "parse"
    /\ UNCHANGED <<client, arrived, frame, whole, socket, told>>

\* There is nothing more to read, or reading fails.
StopsReading ==
    /\ pc = "parse" /\ (arrived = 0 \/ conn = "closed") /\ pc' = "idle"
    /\ UNCHANGED <<client, arrived, frame, whole, socket, told>>

Reads(what, n) ==
    /\ pc = "parse" /\ phase = what /\ conn # "closed" /\ n \in 1 .. arrived
    /\ arrived' = arrived - n /\ stream' = SubSeq(stream, n + 1, Len(stream))
    /\ UNCHANGED script

\* After a frame that ends the connection parse returns.  Not so when the frame
\* was empty: websocket_parse_mask drops the result.
Leaves(empty) == pc' = IF empty THEN "parse" ELSE "idle"

Refuse(empty) ==
    /\ ConnectionClose(processing, closedSignals, "refused") /\ Leaves(empty)
    /\ UNCHANGED got

\* Wrong variant: an unfinished message is forgotten when a ping comes.
KeepsMessageData(op) == op = "continue"

\* Only the first frame of a message forgets what was there.
KeepsMessage(op) == op \notin Data

\* Wrong variant: nothing but its continuation may follow the frame of a message.
InterruptsAny(op) == continueOpcode # "none" /\ op # "continue"

\* A message begins before the last one is complete.
Interrupts(op) == continueOpcode # "none" /\ op \in Data

\* What the protocol forbids in a header: the connection is closed at once, but the
\* opcode is the one that was read last.
RefusesHeader(h) ==
    \/ ~h.masked \/ h.op = "invalid"
    \/ h.op \in {"ping", "close"} /\ h.size > ShortSize
    \/ ~h.fin /\ h.op \in Control
    \/ Interrupts(h.op)

ReadHeader ==
    /\ Reads("header", 1)
    /\ \E h \in {Head(stream)} :
          /\ finnOpcode' = [op |-> h.op, fin |-> h.fin] /\ payloadSize' = h.size
          /\ IF RefusesHeader(h)
             THEN Refuse(FALSE) /\ UNCHANGED <<phase, payload, whole>>
             ELSE /\ phase' = IF h.size > ShortSize THEN "size" ELSE "mask"
                  /\ message' = IF KeepsMessage(h.op) THEN message ELSE <<>>
                  /\ startOfFrame' = IF h.op \in Data THEN 0 ELSE startOfFrame
                  /\ continueOpcode' = IF h.op \in Data /\ ~h.fin THEN h.op ELSE continueOpcode
                  /\ UNCHANGED <<payload, pc, socket, told>>

\* A frame that is too large closes the connection, and what it brings is lost.
ReadSize ==
    /\ Reads("size", 1)
    /\ IF payloadSize > MaxSize
       THEN Refuse(FALSE) /\ UNCHANGED phase
       ELSE phase' = "mask" /\ UNCHANGED <<pc, socket, told>>
    /\ UNCHANGED <<finnOpcode, payloadSize, payload, whole>>

\* The application is told of a message or, unless the frame has failed, of the
\* frame of one.
Tells(op, data, failed) ==
    /\ got' = IF finnOpcode.fin THEN Append(got, [op |-> op, data |-> data]) ELSE got
    /\ pc' = IF failed /\ ~finnOpcode.fin THEN "parse" ELSE "app"
    /\ UNCHANGED <<socket, closedSignals>>

\* The message is complete or goes on.
Keeps(msg) ==
    /\ message' = IF finnOpcode.fin THEN <<>> ELSE msg
    /\ continueOpcode' = IF finnOpcode.fin THEN "none" ELSE continueOpcode

\* send_text, with the frame p, msg, what there is of the message, and text, what
\* was not yet decoded of it.  One decoder takes text and then msg.
SendText(p, msg, text, single, empty) ==
    /\ startOfFrame' = IF HasError(text) THEN startOfFrame ELSE Len(msg)
    /\ IF \/ single /\ (HasError(text) \/ (Decoded(text) = <<>> /\ text # <<>>))
          \/ finnOpcode.fin /\ ~single /\ p # msg /\ HasError(text \o msg)
       THEN /\ message' = msg /\ Refuse(empty)
            /\ continueOpcode' = IF finnOpcode.fin /\ ~single THEN "none" ELSE continueOpcode
       ELSE /\ Keeps(msg)
            /\ Tells("text", Decoded(IF single \/ p = msg THEN text ELSE msg), HasError(text))

Undecoded(p) ==
    IF startOfFrame # Len(message) THEN SubSeq(message \o p, startOfFrame + 1, Len(message \o p))
    ELSE p

SendBinary(msg) ==
    Keeps(msg) /\ Tells("binary", msg, FALSE) /\ UNCHANGED startOfFrame

\* send_closed.
SendClosed(empty) ==
    /\ ConnectionClose(processing, closedSignals + 1, "closeFrame") /\ Leaves(empty)
    /\ UNCHANGED got

\* What websocket_parse_payload does with a complete frame.
Complete(p, empty) ==
    /\ phase' = "header"
    /\ payload' = IF finnOpcode.fin /\ finnOpcode.op \notin Control THEN <<>> ELSE p
    /\ \E op \in {IF finnOpcode.op = "continue" THEN continueOpcode ELSE finnOpcode.op} :
          \/ op = "text" /\ SendText(p, message \o p, Undecoded(p),
                                     finnOpcode.op = "text" /\ finnOpcode.fin, empty)
          \/ op = "binary" /\ SendBinary(message \o p)
          \/ op = "close" /\ SendClosed(empty) /\ UNCHANGED whole
          \/ op = "ping" /\ pc' = "parse" /\ UNCHANGED <<whole, socket, told>>
          \/ op = "pong" /\ pc' = "app" /\ UNCHANGED <<whole, socket, told>>
          \/ op = "none" /\ Refuse(empty) /\ UNCHANGED whole

ReadMask ==
    /\ Reads("mask", 1)
    /\ IF payloadSize = 0 THEN Complete(<<>>, TRUE)
       ELSE /\ phase' = "payload" /\ payload' = <<>>
            /\ UNCHANGED <<pc, whole, socket, told>>
    /\ UNCHANGED <<finnOpcode, payloadSize>>

\* As much as there is, but not beyond the frame nor the buffer.
ReadPayload ==
    \E n \in {CHOOSE n \in {payloadSize - Len(payload), BufferSize, arrived} :
                 n <= payloadSize - Len(payload) /\ n <= BufferSize /\ n <= arrived} :
        /\ Reads("payload", n)
        /\ \E p \in {payload \o [i \in 1 .. n |-> stream[i].c]} :
              IF Len(p) < payloadSize
              THEN payload' = p /\ UNCHANGED <<phase, pc, whole, socket, told>>
              ELSE Complete(p, FALSE)
        /\ UNCHANGED <<finnOpcode, payloadSize>>

----------------------------------------------------------------------------
Network == \E n \in 1 .. 2 : Arrive(n)
Parse == ReadHeader \/ ReadSize \/ ReadMask \/ ReadPayload
Next == \/ Network \/ ReadyRead \/ Parse \/ StopsReading
        \/ Returns \/ WebSocketClose \/ Flushed \/ Lost

Spec == Init /\ [][Next]_vars

\* What is sent arrives, the thread runs, and a socket is closed in the end.
FairSpec == /\ Spec /\ WF_vars(Network) /\ WF_vars(ReadyRead) /\ WF_vars(Parse)
            /\ WF_vars(StopsReading) /\ WF_vars(Returns) /\ WF_vars(Flushed)
=============================================================================
