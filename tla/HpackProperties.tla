--------------------------- MODULE HpackProperties ---------------------------
(***************************************************************************)
(* What a client may rely on.                                               *)
(***************************************************************************)
EXTENDS Hpack

\* A request has the fields that the client sent, whatever was added to the two
\* tables, evicted from them and referred to since the connection began, and however
\* the client mixes the representations: where the tables differ, because the sizes
\* do, a block is refused rather than read as another. Only a name sent without a
\* Huffman code is not read as sent (hpack.cpp:326-477).
FieldsAsSent == block = <<>> /\ ~failed /\ "plain" \notin habits => stream.headers = sent

\* A block that the format allows is accepted, of a client that waits for the
\* settings and refers to the table only as HPack::decode expects: what it still has
\* in its table, the server has, at every change of the size (hpack.cpp:383-399,452-464).
LegalBlocksAccepted == failed => habits # {}
=============================================================================
