-------------------------------- MODULE Hpack --------------------------------
(***************************************************************************)
(* HPACK of one connection: HPack::decode with its dynamic table, which    *)
(* the blocks of all streams share in the order they arrive, against a     *)
(* client that encodes as RFC 7541 allows.                                 *)
(*                                                                         *)
(* A block is a sequence of representations: an integer in the bytes that  *)
(* are sent for it, and the strings that follow. The bits of a Huffman     *)
(* code are data. The name Path stands for the three pseudo headers that a *)
(* request must have. What the format forbids is not sent, and the headers *)
(* of an answer are left out: encodeHeaders uses no table.                 *)
(***************************************************************************)
EXTENDS Integers, Sequences, FiniteSets, FiniteSetsExt, SequencesExt

CONSTANTS Static,           \* the entries of hpackStaticHeaders that are used
          Path,             \* the name of a pseudo header
          Fields,           \* what the client sends
          Length,           \* of each name and value
          Garbled,          \* a name that was not read as it was sent
          HeaderTableSizes, \* what http2_header_table_size may be
          UpdateSizes,      \* what the client may change the size of its table to
          Clients,          \* the habits that a client may have
          MaxBlock, MaxSent, MaxTable   \* bounds: a block, a request, the table

Texts  == DOMAIN Length
Habits == {"plain",         \* a name may be sent without a Huffman code
           "names",         \* a literal that is not indexed may name an entry of the table
           "early"}         \* requests are sent before the settings are known

DefaultTable == 4096        \* the size of a table until the settings are known
StaticSize   == 61
Overhead     == 32          \* of an entry
Word         == 65536       \* quint16
Mask         == [indexed |-> 127, incremental |-> 63, update |-> 31, literal |-> 15]

ASSUME HpackAssumption ==
    /\ {Path, Garbled} \subseteq Texts /\ Length \in [Texts -> Nat]
    /\ Fields \subseteq [name : Texts, value : Texts]
    /\ DOMAIN Static \subseteq 1 .. StaticSize
    /\ \A i \in DOMAIN Static : Static[i] \in [name : Texts, value : Texts]
    /\ HeaderTableSizes \cup UpdateSizes \subseteq 0 .. Word - 1 /\ Clients \subseteq SUBSET Habits
    /\ {MaxBlock, MaxSent, MaxTable} \subseteq Nat

VARIABLES
    \* the client
    habits, known,      \* what it does, and whether it has the settings of the server
    encoder, encoderMax,    \* its table and the size it told
    block, opening,     \* the block it is making, and whether of a new stream
    sent,               \* the fields of the stream so far
    \* HPack
    m_maxTableSize, m_dynamicTable, m_dynamicTableSize, m_currentMaxDynamicTableSize,
    \* the connection
    stream,             \* H2Stream: whether it has its path, and its headers
    failed              \* decode returned an error

client == <<habits, known, encoder, encoderMax, block, opening, sent>>
hpack  == <<m_maxTableSize, m_dynamicTable, m_dynamicTableSize, m_currentMaxDynamicTableSize>>
vars   == <<client, hpack, stream, failed>>

Entries  == [name : Texts, value : Texts]
NoStream == [gotPath |-> FALSE, headers |-> <<>>]

TypeOK ==
    /\ habits \in Clients /\ known \in BOOLEAN /\ opening \in BOOLEAN /\ failed \in BOOLEAN
    /\ encoder \in Seq(Entries) /\ encoderMax \in Nat
    /\ Len(block) <= MaxBlock /\ sent \in Seq(Fields)
    /\ m_maxTableSize \in HeaderTableSizes /\ m_currentMaxDynamicTableSize \in Nat
    /\ m_dynamicTable \in Seq(Entries) /\ m_dynamicTableSize \in Nat
    /\ stream.gotPath \in BOOLEAN /\ stream.headers \in Seq(Entries)

Init ==
    /\ habits \in Clients /\ known = FALSE /\ encoder = <<>> /\ encoderMax = DefaultTable
    /\ block = <<>> /\ opening = FALSE /\ sent = <<>>
    /\ m_maxTableSize \in HeaderTableSizes
    /\ m_currentMaxDynamicTableSize = m_maxTableSize
    /\ m_dynamicTable = <<>> /\ m_dynamicTableSize = 0
    /\ stream = NoStream /\ failed = FALSE

----------------------------------------------------------------------------
(* Integers and tables.                                                     *)

\* encodeUInt16, which is the encoding of the format.
EncodeUInt16(i, mask) ==
    LET rest[n \in Nat] == IF n < 128 THEN <<n>> ELSE <<128 + (n % 128)>> \o rest[n \div 128]
    IN IF i < mask THEN <<i>> ELSE <<mask>> \o rest[i - mask]

DecodeUInt16(bytes, mask) ==
    LET add(d, b) == [dst |-> (d.dst + (b % 128) * d.scale) % Word, scale |-> d.scale * 128]
    IN IF bytes[1] # mask THEN bytes[1]
       ELSE FoldLeft(add, [dst |-> mask, scale |-> 1], Tail(bytes)).dst

SizeOf(f)    == Length[f.name] + Length[f.value] + Overhead

\* What the format keeps of a table: the newest fields that fit.
Newest(table, room) ==
    LET total[n \in 0 .. Len(table)] == IF n = 0 THEN 0 ELSE total[n - 1] + SizeOf(table[n])
    IN SubSeq(table, 1, Max({n \in 0 .. Len(table) : total[n] <= room}))

Entry(table, i) == IF i <= StaticSize THEN Static[i] ELSE table[i - StaticSize]
Indices(table)  == DOMAIN Static \cup (StaticSize + 1 .. StaticSize + Len(table))

----------------------------------------------------------------------------
(* The client.                                                              *)

SettingsArrive ==
    /\ ~known /\ block = <<>> /\ ~failed
    /\ known' = TRUE
    /\ UNCHANGED <<habits, encoder, encoderMax, block, opening, sent, hpack, stream, failed>>

Limit   == IF known THEN m_maxTableSize ELSE DefaultTable
Started == \E k \in 1 .. Len(block) : block[k].kind # "update"

Writes(kind, i, name, value) ==
    /\ ~failed /\ Len(block) < MaxBlock
    /\ known \/ m_maxTableSize >= DefaultTable \/ "early" \in habits
    /\ block' = Append(block, [kind |-> kind, int |-> EncodeUInt16(i, Mask[kind]),
                               name |-> name, value |-> value])
    /\ UNCHANGED <<habits, known, hpack, stream, failed>>

Text(s, plain) == [text |-> s, plain |-> plain]
None           == Text(Garbled, FALSE)

\* A change of the size comes first in a block.
SendUpdate(size) ==
    /\ size <= Limit /\ size # encoderMax /\ ~Started /\ Len(block) + 1 < MaxBlock
    /\ Writes("update", size, None, Garbled)
    /\ encoderMax' = size /\ encoder' = Newest(encoder, size)
    /\ UNCHANGED <<opening, sent>>

\* The path begins a request; other fields follow, and may follow again as trailers
\* in a block of their own. The change of the size must have been sent if the limit
\* fell.
Sends(f) ==
    /\ encoderMax <= Limit
    /\ IF f.name = Path THEN sent = <<>> /\ opening' = TRUE /\ sent' = <<f>>
       ELSE Len(sent) \in 1 .. MaxSent - 1 /\ opening' = opening /\ sent' = Append(sent, f)

SendIndexed(f) ==
    /\ Sends(f)
    /\ \E i \in Indices(encoder) : Entry(encoder, i) = f /\ Writes("indexed", i, None, Garbled)
    /\ UNCHANGED <<encoder, encoderMax>>

\* The name is the one of an entry or is sent.
SendNamed(kind, f, table) ==
    \/ \E i \in Indices(table) : Entry(table, i).name = f.name /\ Writes(kind, i, None, f.value)
    \/ \E plain \in {FALSE, "plain" \in habits} : Writes(kind, 0, Text(f.name, plain), f.value)

SendIncremental(f) ==
    /\ Sends(f) /\ SendNamed("incremental", f, encoder)
    /\ encoder' = Newest(<<f>> \o encoder, encoderMax) /\ Len(encoder') <= MaxTable
    /\ UNCHANGED encoderMax

SendLiteral(f) ==
    /\ Sends(f) /\ SendNamed("literal", f, IF "names" \in habits THEN encoder ELSE <<>>)
    /\ UNCHANGED <<encoder, encoderMax>>

----------------------------------------------------------------------------
(* HPack::decode. A block is decoded in d: the table, the stream, whether   *)
(* pseudo headers and changes of the size are still allowed, and whether    *)
(* there was an error.                                                      *)

Fail(d) == [d EXCEPT !.failed = TRUE]

\* parse_string_key: of a plain name only every second character is kept.
ParseStringKey(name) == IF name.plain THEN Garbled ELSE name.text

ValidHeader(f) == f.name # "connection" /\ (f.name = "te" => f.value = "trailers")

\* A field for the stream.
Push(d, f) ==
    IF IF f.name = Path THEN ~d.pseudoHeadersAllowed \/ d.gotPath ELSE ~ValidHeader(f)
    THEN Fail(d)
    ELSE [d EXCEPT !.gotPath = @ \/ f.name = Path, !.headers = Append(@, f),
                   !.pseudoHeadersAllowed = @ /\ f.name = Path]

\* Wrong variants: the overhead of an entry is not returned; the newest goes first.
EvictBare(d, room) ==
    FoldLeft(LAMBDA e, k : IF e.size <= room \/ e.table = <<>> THEN e
                           ELSE [e EXCEPT !.table = Front(@), !.size = @ - SizeOf(Last(e.table)) + Overhead],
             d, d.table)
EvictNewest(d, room) ==
    FoldLeft(LAMBDA e, k : IF e.size <= room THEN e
                           ELSE [e EXCEPT !.table = Tail(@), !.size = @ - SizeOf(Head(e.table))],
             d, d.table)

\* The oldest entries go until the others take no more than room.
Evict(d, room) ==
    FoldLeft(LAMBDA e, k : IF e.size <= room THEN e
                           ELSE [e EXCEPT !.table = Front(@), !.size = @ - SizeOf(Last(e.table))],
             d, d.table)

Insert(d, f) ==
    LET e == Evict(d, d.max - SizeOf(f))
    IN IF SizeOf(f) + e.size <= e.max
       THEN [e EXCEPT !.table = <<f>> \o @, !.size = @ + SizeOf(f)] ELSE e

Update(d, size) ==
    IF size > m_maxTableSize \/ ~d.allowedToUpdate THEN Fail(d)
    ELSE Evict([d EXCEPT !.max = size], size)

Indexed(d, i) == IF i \in Indices(d.table) THEN Push(d, Entry(d.table, i)) ELSE Fail(d)

\* Only a literal that is added to the table may take its name from the table.
Literal(d, i, r) ==
    LET adds   == r.kind = "incremental"
        f      == [name  |-> IF i = 0 THEN ParseStringKey(r.name) ELSE Entry(d.table, i).name,
                   value |-> r.value]
    IN IF i # 0 /\ i \notin Indices(IF adds THEN d.table ELSE <<>>) THEN Fail(d)
       ELSE IF adds /\ ~Push(d, f).failed THEN Insert(Push(d, f), f)
       ELSE Push(d, f)

DecodeOne(d, r) ==
    LET i == DecodeUInt16(r.int, Mask[r.kind])
    IN CASE d.failed            -> d
         [] r.kind = "update"   -> Update(d, i)
         [] r.kind = "indexed"  -> [Indexed(d, i) EXCEPT !.allowedToUpdate = FALSE]
         [] OTHER               -> [Literal(d, i, r) EXCEPT !.allowedToUpdate = FALSE]

\* The block is complete: it is decoded for the stream it is of.
Decode ==
    /\ Started /\ ~failed
    /\ LET of == IF opening THEN NoStream ELSE stream
           d  == FoldLeft(DecodeOne,
                     [table |-> m_dynamicTable, size |-> m_dynamicTableSize,
                      max |-> m_currentMaxDynamicTableSize,
                      gotPath |-> of.gotPath, headers |-> of.headers,
                      pseudoHeadersAllowed |-> TRUE, allowedToUpdate |-> TRUE, failed |-> FALSE],
                     block)
       IN /\ m_dynamicTable' = d.table /\ m_dynamicTableSize' = d.size
          /\ m_currentMaxDynamicTableSize' = d.max
          /\ stream' = [gotPath |-> d.gotPath, headers |-> d.headers]
          /\ failed' = (d.failed \/ ~d.gotPath)
    /\ block' = <<>> /\ opening' = FALSE
    /\ UNCHANGED <<habits, known, encoder, encoderMax, sent, m_maxTableSize>>

\* The request is answered and the stream is removed.
Answer ==
    /\ block = <<>> /\ stream.gotPath /\ ~failed
    /\ sent' = <<>> /\ stream' = NoStream
    /\ UNCHANGED <<habits, known, encoder, encoderMax, block, opening, hpack, failed>>

Next ==
    \/ SettingsArrive
    \/ \E size \in UpdateSizes : SendUpdate(size)
    \/ \E f \in Fields : SendIndexed(f) \/ SendIncremental(f) \/ SendLiteral(f)
    \/ Decode \/ Answer

Spec == Init /\ [][Next]_vars
=============================================================================
