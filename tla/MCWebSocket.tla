---------------------------- MODULE MCWebSocket ----------------------------
(* Small instances of WebSocket for TLC. *)
EXTENDS WebSocketProperties

F(op, fin, data) == [op |-> op, fin |-> fin, masked |-> TRUE, data |-> data]

Frames ==
    {F(op, fin, data) : op \in {"text", "continue"}, fin \in BOOLEAN, data \in {<<>>, <<"a">>, <<"u", "v">>}}
    \cup {F("binary", fin, <<"v">>) : fin \in BOOLEAN}
    \cup {F(op, TRUE, <<>>) : op \in Control}
    \cup {F(op, TRUE, <<"a">>) : op \in {"ping", "close"}}

\* A client that keeps to the protocol continues what it has begun, begins nothing
\* else meanwhile, and ends with its close frame.
Begun(frames, i) ==
    \E j \in 1 .. i - 1 : /\ frames[j].op \in Data /\ ~frames[j].fin
                          /\ \A k \in j + 1 .. i - 1 : frames[k].op = "continue" => ~frames[k].fin
Legal(frames) ==
    \A i \in DOMAIN frames :
        /\ frames[i].op = "continue" => Begun(frames, i)
        /\ frames[i].op \in Data => ~Begun(frames, i)
        /\ frames[i].op = "close" => i = Len(frames)
MCLegal == {frames \in [1 .. 3 -> Frames] : Legal(frames)}

\* One frame that the code refuses, between two messages or within one.
Unmasked(f) == [f EXCEPT !.masked = FALSE]
Refused == {Unmasked(F("text", TRUE, <<"a">>)), F("invalid", TRUE, <<>>), F("ping", FALSE, <<>>),
            F("close", FALSE, <<>>), F("ping", TRUE, <<"a", "a">>),
            F("binary", TRUE, <<"a", "a", "a">>), F("continue", TRUE, <<"a", "a", "a">>)}
MCRefused == {<<F("text", TRUE, <<"a">>), f, F("text", TRUE, <<"a">>)>> : f \in Refused}
             \cup {<<F("text", FALSE, <<"a">>), f, F("continue", TRUE, <<"a">>)>> : f \in Refused}

MCScripts == MCLegal \cup MCRefused

\* What the run leaves out: an unfragmented close frame that is refused violates
\* EndToldOnce.
MCRefusedClose == {<<F("close", TRUE, <<"a", "a">>)>>, <<Unmasked(F("close", TRUE, <<>>))>>}

\* A character in two fragments violates EventuallyDelivered.
MCSplit == {<<F("text", FALSE, <<"u">>), F("continue", TRUE, <<"v">>)>>}

\* And of such a message with an empty last fragment, MessagesAsSent: the message is
\* refused, and the text after it told of.
MCSplitBeforeEmpty == {<<F("text", FALSE, <<"a", "u">>), F("continue", FALSE, <<"v">>),
                         F("continue", TRUE, <<>>), F("text", TRUE, <<"a">>)>>}
=============================================================================
