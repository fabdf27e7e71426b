------------------------- MODULE MCHttp2Connection -------------------------
(* Small instances of Http2Connection for TLC. *)
EXTENDS Http2Properties

\* Answers smaller than a window, and that need two.
MCAnswers == {<<1>>, <<3>>}

\* Without a body; with an announced one; with one of unknown length that is
\* followed by trailers; and with a header block in two frames.
MCRequests == {NoRequest, [NoRequest EXCEPT !.body = 2, !.announced = TRUE],
               [NoRequest EXCEPT !.body = 2, !.trailers = TRUE], [NoRequest EXCEPT !.split = TRUE]}

MCPlain == {NoRequest}
=============================================================================
