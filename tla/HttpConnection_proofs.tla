------------------------ MODULE HttpConnection_proofs ------------------------
(***************************************************************************)
(* That a connection is released once, and that it counts its request in   *)
(* progress exactly, for all clients and applications of HttpConnection    *)
(* and FastCgi: also for those whose requests the parser gets wrong.       *)
(* And that the application sees the requests of HTTP/1.1 as they were     *)
(* sent, however many there are and however they are cut into segments,    *)
(* from the clients that the parser serves (Orderly).                      *)
(***************************************************************************)
EXTENDS FastCgi, WellFoundedInduction, FiniteSetTheorems, TLAPS

\* Where the thread parses, in either protocol.
Parsing == {"loop", "body", "process", "read", "packet", "crashed"}

Busy == pc = "app" \/ suspended

CountTypes ==
    /\ processing \in Nat /\ finished \in Nat
    /\ pc \in {"idle", "app"} \cup Parsing /\ back \in {"loop", "idle"}

\* A suspended request keeps the thread out of the parser.
SuspendInv == suspended => async /\ pc = "idle"

\* The status of a request is only left as it is when its answer closes.
CloseInv == finalized => sock # "connected"

\* One request is in progress, or none.
CountInv == ~finalized => processing = IF Busy THEN 1 ELSE 0

\* A released connection has an answered request or rests.
ReleaseInv ==
    /\ finished <= 1
    /\ finished = 1 => sock # "connected" /\ (finalized \/ (pc = "idle" /\ ~suspended))

IInv == CountTypes /\ SuspendInv /\ CloseInv /\ CountInv /\ ReleaseInv

Counts == <<finalized, async, suspended, processing, sock, finished>>

LEMMA InitInv == EitherInit => IInv
<1>1. EitherInit =>
              /\ pc = "idle" /\ back = "idle" /\ finalized = FALSE /\ async = FALSE
              /\ suspended = FALSE /\ processing = 0 /\ sock = "connected" /\ finished = 0
  BY DEF EitherInit, Init, FcgiInit, Connected
<1> QED BY <1>1 DEF IInv, CountTypes, SuspendInv, CloseInv, CountInv, ReleaseInv, Busy, Parsing

\* The parser moves between its states, and away from the event loop only on a
\* connection that is not released.
LEMMA ParserStep ==
    ASSUME IInv, UNCHANGED Counts, back' \in {"loop", "idle"},
           \/ pc' = pc
           \/ /\ pc # "app" /\ pc' \in {"idle"} \cup Parsing /\ ~suspended
              /\ pc = "idle" => finished = 0
    PROVE  IInv'
BY DEF IInv, Counts, CountTypes, SuspendInv, CloseInv, CountInv, ReleaseInv, Busy, Parsing

\* What becomes of the count and the socket when a request is finalized that was
\* not finalized before.
LEMMA FinishStep ==
    ASSUME IInv, Busy, NEW connection,
           Finish(connection, ResetData) \/ Finish(connection, FcgiResetData),
           suspended' = FALSE, pc' \in {"idle", "loop", "read"}, back' = back
    PROVE  IInv'
<1> USE DEF IInv, CountTypes, SuspendInv, CloseInv, CountInv, ReleaseInv, Busy, Parsing
<1>1. CASE finalized
  <2>1. UNCHANGED <<finalized, async, processing, sock, finished>>
    BY <1>1 DEF Finish, status
  <2> QED BY <1>1, <2>1
<1>2. CASE ~finalized
  <2>1. processing = 1 /\ processing' = 0
    BY <1>2 DEF Finish
  <2>2. finished = 0
    BY <1>2
  <2>3. CASE /\ sock # "connected"
             /\ finished' = IF RequestFinishedReleases THEN finished + 1 ELSE finished
             /\ UNCHANGED <<sock, async>> /\ finalized' = TRUE
    BY <2>1, <2>2, <2>3
  <2>4. CASE /\ ConnectionClose(processing - 1) /\ UNCHANGED async /\ finalized' = TRUE
    BY <2>1, <2>2, <2>4 DEF ConnectionClose, Disconnected
  <2>5. CASE /\ sock = "connected" /\ UNCHANGED sock
             /\ finished' = IF RequestFinishedReleases THEN finished + 1 ELSE finished
             /\ finalized' = FALSE /\ async' = FALSE
    BY <2>1, <2>2, <2>5 DEF RequestFinishedReleases
  <2> QED
    <3> HIDE DEF IInv, CountTypes, SuspendInv, CloseInv, CountInv, ReleaseInv, Busy, Parsing
    <3> QED BY <1>2, <2>3, <2>4, <2>5 DEF Finish, ResetData, FcgiResetData, parser
<1> QED BY <1>1, <1>2

\* The steps of a connection that speaks HTTP.
LEMMA StepInv == IInv /\ [Next]_vars => IInv'
<1> SUFFICES ASSUME IInv, [Next]_vars PROVE IInv'
  OBVIOUS
<1> USE DEF wire, parser, status, socket, hist
<1>1. CASE Parse
  <2>1. CASE ReadBody
    <3>1. pc = "body" /\ pc' \in {"process", "idle"} /\ back' = "idle" /\ UNCHANGED Counts
      BY <2>1 DEF ReadBody, Counts
    <3> QED BY <3>1, ParserStep DEF IInv, SuspendInv, Parsing
  <2>2. CASE LoopDone
    BY <2>2, ParserStep DEF LoopDone, Counts, IInv, SuspendInv, CountTypes, Parsing
  <2>3. CASE LineIncomplete
    BY <2>3, ParserStep DEF LineIncomplete, Counts, IInv, CountTypes, Parsing
  <2>4. CASE ParseMethod
    BY <2>4, ParserStep DEF ParseMethod, Counts, IInv, CountTypes, Parsing
  <2>5. CASE ParseHeader
    BY <2>5, ParserStep DEF ParseHeader, Counts, IInv, CountTypes, Parsing
  <2>6. CASE HeadComplete
    <3>1. pc = "loop" /\ back' = "loop" /\ UNCHANGED Counts
      BY <2>6 DEF HeadComplete, NextLine, Counts
    <3>2. pc' \in {"process", "body", "idle"}
      BY <2>6 DEF HeadComplete
    <3> QED BY <3>1, <3>2, ParserStep DEF IInv, SuspendInv, Parsing
  <2>7. CASE SkipLine
    BY <2>7, ParserStep DEF SkipLine, Counts, IInv, CountTypes, Parsing
  <2>8. CASE ProcessRequest
    BY <2>8 DEF ProcessRequest, IInv, CountTypes, SuspendInv, CloseInv, CountInv, ReleaseInv, Busy, Parsing
  <2>9. CASE BodyFails
    <3>1. pc = "loop" /\ pc' = "idle" /\ UNCHANGED <<back, finalized, async, suspended, processing>>
      BY <2>9 DEF BodyFails, NextLine
    <3>2. CASE sock = "connected" /\ ConnectionClose(processing)
      BY <3>1, <3>2 DEF ConnectionClose, Disconnected, IInv, CountTypes, SuspendInv, CloseInv,
                        CountInv, ReleaseInv, Busy, Parsing
    <3>3. CASE UNCHANGED <<sock, finished>>
      BY <3>1, <3>3, ParserStep DEF Counts, IInv, SuspendInv, CountTypes, Parsing
    <3> QED BY <2>9, <3>2, <3>3 DEF BodyFails
  <2> QED BY <1>1, <2>1, <2>2, <2>3, <2>4, <2>5, <2>6, <2>7, <2>8, <2>9 DEF Parse
<1>2. CASE Application
  <2>1. CASE Answer
    <3>1. PICK header \in Answers : Finalize(header)
      BY <2>1 DEF Answer
    <3>2. /\ Busy /\ suspended' = FALSE /\ pc' \in {"idle", "loop"} /\ back' = back
      BY <2>1 DEF Answer, IInv, CountTypes, SuspendInv, Busy
    <3>3. \E c : Finish(c, ResetData)
      BY <3>1 DEF Finalize
    <3> QED BY <3>2, <3>3, FinishStep
  <2>2. CASE Suspend
    BY <2>2 DEF Suspend, IInv, CountTypes, SuspendInv, CloseInv, CountInv, ReleaseInv, Busy, Parsing
  <2>3. CASE Write
    BY <2>3, ParserStep DEF Write, Counts, IInv, CountTypes, Parsing
  <2> QED BY <1>2, <2>1, <2>2, <2>3 DEF Application
<1>3. CASE ReadyRead
  <2>1. /\ UNCHANGED Counts /\ UNCHANGED back /\ pc = "idle" /\ finished = 0
        /\ pc' = pc \/ (~async /\ pc' \in {"body", "loop"})
    BY <1>3 DEF ReadyRead, Counts
  <2> QED BY <2>1, ParserStep DEF IInv, CountTypes, SuspendInv, Parsing
<1>4. CASE LateAnswer
  <2>1. PICK header \in Answers : Finalize(header)
    BY <1>4 DEF LateAnswer
  <2>2. \E c : Finish(c, ResetData)
    BY <2>1 DEF Finalize
  <2> QED BY <1>4, <2>2, FinishStep DEF LateAnswer, Busy, IInv, SuspendInv
<1>5. CASE Send
  BY <1>5, ParserStep DEF Send, Counts, IInv, CountTypes, Parsing
<1>6. CASE PeerCloses
  BY <1>6 DEF PeerCloses, Disconnected, IInv, CountTypes, SuspendInv, CloseInv, CountInv,
              ReleaseInv, Busy, Parsing
<1>7. CASE TimeoutConnection
  BY <1>7 DEF TimeoutConnection, ConnectionClose, Disconnected, IInv, CountTypes, SuspendInv,
              CloseInv, CountInv, ReleaseInv, Busy, Parsing
<1>8. CASE Shutdown
  BY <1>8 DEF Shutdown, ConnectionClose, Disconnected, IInv, CountTypes, SuspendInv, CloseInv,
              CountInv, ReleaseInv, Busy, Parsing
<1>9. CASE Gone \/ UNCHANGED vars
  BY <1>9, ParserStep DEF Gone, vars, Counts, IInv, CountTypes, Parsing
<1> QED BY <1>1, <1>2, <1>3, <1>4, <1>5, <1>6, <1>7, <1>8, <1>9 DEF Next

\* The steps of a connection that speaks FastCGI.
LEMMA FcgiStepInv == IInv /\ FcgiNext => IInv'
<1> SUFFICES ASSUME IInv, FcgiNext PROVE IInv'
  OBVIOUS
<1> USE DEF wire, parser, status, socket, hist, records
<1>1. CASE FcgiParse
  <2>1. CASE ReadRecords
    BY <2>1, ParserStep DEF ReadRecords, Again, Counts, IInv, SuspendInv, CountTypes, Parsing
  <2>2. CASE ReadContent
    BY <2>2, ParserStep DEF ReadContent, Counts, IInv, CountTypes, Parsing
  <2>3. CASE ContentRead
    BY <2>3, ParserStep DEF ContentRead, Again, Counts, IInv, SuspendInv, CountTypes, Parsing
  <2>4. CASE RecordIncomplete
    BY <2>4, ParserStep DEF RecordIncomplete, Again, Counts, IInv, SuspendInv, CountTypes, Parsing
  <2>5. CASE BeginRequest
    BY <2>5, ParserStep DEF BeginRequest, Counts, IInv, CountTypes, Parsing
  <2>6. CASE Params
    BY <2>6, ParserStep DEF Params, Counts, IInv, CountTypes, Parsing
  <2>7. CASE Stdin
    BY <2>7, ParserStep DEF Stdin, Counts, IInv, SuspendInv, CountTypes, Parsing
  <2>8. CASE StdinEnd
    BY <2>8 DEF StdinEnd, Whole, IInv, CountTypes, SuspendInv, CloseInv, CountInv, ReleaseInv,
                Busy, Parsing
  <2>9. CASE StdinFails
    <3>1. CASE sock = "connected" /\ ConnectionClose(processing)
      BY <2>9, <3>1 DEF StdinFails, ConnectionClose, Disconnected, IInv, CountTypes, SuspendInv,
                        CloseInv, CountInv, ReleaseInv, Busy, Parsing
    <3>2. CASE UNCHANGED <<sock, finished>>
      BY <2>9, <3>2, ParserStep DEF StdinFails, Counts, IInv, SuspendInv, CountTypes, Parsing
    <3> QED BY <2>9, <3>1, <3>2 DEF StdinFails
  <2> QED BY <1>1, <2>1, <2>2, <2>3, <2>4, <2>5, <2>6, <2>7, <2>8, <2>9 DEF FcgiParse
<1>2. CASE FcgiReadyRead
  <2>1. /\ UNCHANGED Counts /\ pc = "idle" /\ finished = 0
        /\ \/ pc' = pc /\ back' = back
           \/ ~async /\ pc' \in {"body", "read"} /\ back' = "idle"
    BY <1>2 DEF FcgiReadyRead, Counts
  <2> QED BY <2>1, ParserStep DEF IInv, CountTypes, SuspendInv, Parsing
<1>3. CASE FcgiAnswer
  <2>1. Finish(headerConnection, FcgiResetData)
    BY <1>3 DEF FcgiAnswer, FcgiFinish
  <2>2. Busy /\ suspended' = FALSE /\ pc' \in {"idle", "read"} /\ back' = back
    BY <1>3 DEF FcgiAnswer, Again, IInv, SuspendInv, CountTypes, Busy
  <2> QED BY <2>1, <2>2, FinishStep
<1>4. CASE FcgiLateAnswer
  <2>1. Finish(headerConnection, FcgiResetData)
    BY <1>4 DEF FcgiLateAnswer, FcgiFinish
  <2> QED BY <1>4, <2>1, FinishStep DEF FcgiLateAnswer, Busy
<1>5. CASE Shared
  BY <1>5, StepInv DEF Shared, Next, Application
<1> QED BY <1>1, <1>2, <1>3, <1>4, <1>5 DEF FcgiNext

LEMMA EitherStepInv == IInv /\ [EitherNext]_cvars => IInv'
BY StepInv, FcgiStepInv DEF EitherNext, cvars

\* Whatever the client sends, in either protocol, and however the connection ends, the counts agree with
\* what the thread and the application do (socket.cpp:37-64).
THEOREM AccountsKept == EitherSpec => []IInv
BY InitInv, EitherStepInv, PTL DEF EitherSpec

\* A connection is announced to the server as finished once at most, and not while
\* it is open, for every sequence of requests, segmentation and kind of answer
\* (socket.cpp:43-64, tcpserver.cpp:58-63).
THEOREM ReleasedOnce == EitherSpec => []FinishedOnce
<1>1. IInv => FinishedOnce
  BY DEF IInv, ReleaseInv, FinishedOnce
<1> QED BY <1>1, AccountsKept, PTL

\* As long as no answer has closed the connection, a request is counted exactly while
\* its answer is outstanding, and its socket is not released
\* (socket.cpp:43-64, protocolhttp.cpp:260-281,411-434).
THEOREM CountedWhileOpen == EitherSpec => [](finalized \/ ProcessingExact)
<1>1. IInv => finalized \/ ProcessingExact
  BY DEF IInv, CountTypes, SuspendInv, CountInv, ReleaseInv, Busy, ProcessingExact
<1> QED BY <1>1, AccountsKept, PTL

----------------------------------------------------------------------------
(* Induction over the natural numbers.                                      *)

Below == {p \in Nat \X Nat : p[1] < p[2]}

\* The order of the natural numbers is well-founded.
LEMMA BelowWellFounded == IsWellFoundedOn(Below, Nat)
BY NatLessThanWellFounded DEF OpToRel, Below

\* Induction, for a set of numbers: what is not in it has a smallest element.
LEMMA Induction ==
    ASSUME NEW T, 0 \in T, \A n \in Nat : n \in T => n + 1 \in T
    PROVE  Nat \subseteq T
<1> SUFFICES ASSUME Nat \ T # {} PROVE FALSE
  OBVIOUS
<1>1. PICK x \in Nat \ T : \A y \in Nat \ T : <<y, x>> \notin Below
  <2> DEFINE S == Nat \ T
  <2>1. S \subseteq Nat /\ S # {}
    OBVIOUS
  <2> HIDE DEF S
  <2>2. \E x \in S : \A y \in S : <<y, x>> \notin Below
    BY <2>1, BelowWellFounded, WFMin
  <2> QED BY <2>2 DEF S
<1>2. x - 1 \in Nat /\ x - 1 < x /\ (x - 1) + 1 = x
  OBVIOUS
<1>3. <<x - 1, x>> \in Below
  BY <1>2 DEF Below
<1>4. x - 1 \in T
  BY <1>1, <1>2, <1>3
<1> QED BY <1>2, <1>4

----------------------------------------------------------------------------
(* Sequences that are joined.                                               *)

\* g[i] is what the first i elements of s are when they are joined.
Flat(s, g) == g = [i \in 1 .. Len(s) |-> IF i = 1 THEN s[i] ELSE g[i - 1] \o s[i]]

FlatUpto(s, n, g) == \A i \in 1 .. n : g[i] = IF i = 1 THEN s[i] ELSE g[i - 1] \o s[i]
HasFlat(A, s, n) == \E g \in [1 .. n -> Seq(A)] : FlatUpto(s, n, g)

\* What n elements are joined to has a continuation.
LEMMA FlatExtends ==
    ASSUME NEW A, NEW s \in Seq(Seq(A)), NEW n \in Nat, n + 1 <= Len(s), HasFlat(A, s, n)
    PROVE  HasFlat(A, s, n + 1)
<1>1. PICK g \in [1 .. n -> Seq(A)] : FlatUpto(s, n, g)
  BY DEF HasFlat
<1> DEFINE e == IF n = 0 THEN s[n + 1] ELSE g[n] \o s[n + 1]
           h == [i \in 1 .. n + 1 |-> IF i = n + 1 THEN e ELSE g[i]]
<1>2. e \in Seq(A)
  <2>1. s[n + 1] \in Seq(A)
    OBVIOUS
  <2>2. n # 0 => g[n] \in Seq(A)
    BY <1>1
  <2> QED BY <2>1, <2>2
<1>3. h \in [1 .. n + 1 -> Seq(A)] /\ h[n + 1] = e /\ \A i \in 1 .. n : h[i] = g[i]
  <2> HIDE DEF e
  <2> QED BY <1>1, <1>2
<1>4. ASSUME NEW i \in 1 .. n + 1 PROVE h[i] = IF i = 1 THEN s[i] ELSE h[i - 1] \o s[i]
  <2> HIDE DEF h
  <2>1. CASE i \in 1 .. n
    <3>1. g[i] = IF i = 1 THEN s[i] ELSE g[i - 1] \o s[i]
      BY <1>1, <2>1 DEF FlatUpto
    <3>2. h[i] = g[i] /\ (i # 1 => h[i - 1] = g[i - 1])
      BY <1>3, <2>1
    <3> QED BY <3>1, <3>2
  <2>2. CASE i = n + 1 /\ n = 0
    BY <1>3, <2>2
  <2>3. CASE i = n + 1 /\ n # 0
    <3>1. n \in 1 .. n /\ i - 1 = n /\ i # 1
      BY <2>3
    <3>2. h[i] = g[n] \o s[i]
      BY <1>3, <2>3
    <3>3. h[n] = g[n]
      BY <1>3, <3>1
    <3> QED BY <3>1, <3>2, <3>3
  <2> QED BY <2>1, <2>2, <2>3
<1>5. FlatUpto(s, n + 1, h)
  BY <1>4 DEF FlatUpto
<1> QED BY <1>3, <1>5 DEF HasFlat

\* Every sequence of sequences is joined to something.
LEMMA FlatExists ==
    ASSUME NEW A, NEW s \in Seq(Seq(A))
    PROVE  \E g \in [1 .. Len(s) -> Seq(A)] : Flat(s, g)
<1> DEFINE T == {n \in Nat : n <= Len(s) => HasFlat(A, s, n)}
<1>1. 0 \in T
  <2> DEFINE g == [i \in 1 .. 0 |-> <<>>]
  <2>1. g \in [1 .. 0 -> Seq(A)] /\ FlatUpto(s, 0, g)
    BY DEF FlatUpto
  <2>2. HasFlat(A, s, 0)
    BY <2>1 DEF HasFlat
  <2> QED BY <2>2
<1>2. ASSUME NEW n \in Nat, n \in T PROVE n + 1 \in T
  BY <1>2, FlatExtends
<1>3. Len(s) \in T
  <2>1. Nat \subseteq T
    <3> HIDE DEF T
    <3> QED BY <1>1, <1>2, Induction
  <2>2. Len(s) \in Nat
    OBVIOUS
  <2> QED BY <2>1, <2>2
<1>4. PICK g \in [1 .. Len(s) -> Seq(A)] : FlatUpto(s, Len(s), g)
  BY <1>3 DEF HasFlat
<1>5. Flat(s, g)
  BY <1>4 DEF Flat, FlatUpto
<1> QED BY <1>5

\* Sequences that begin with the same m elements.
Agree(s, t, m) == \A i \in 1 .. m : s[i] = t[i]
HasPrefix(s, m) == Len(s) \in Nat /\ m <= Len(s)

\* And what it is joined to depends on its elements only.
LEMMA FlatUnique ==
    ASSUME NEW s, NEW t, NEW g, NEW h, Flat(s, g), Flat(t, h), NEW m \in Nat,
           HasPrefix(s, m), HasPrefix(t, m), Agree(s, t, m)
    PROVE  Agree(g, h, m)
<1> USE DEF Agree, HasPrefix
<1> DEFINE T == {n \in Nat : n \in 1 .. m => g[n] = h[n]}
<1>1. \A i \in 1 .. m : /\ g[i] = IF i = 1 THEN s[i] ELSE g[i - 1] \o s[i]
                        /\ h[i] = IF i = 1 THEN t[i] ELSE h[i - 1] \o t[i]
  <2> SUFFICES ASSUME NEW i \in 1 .. m
               PROVE  /\ g[i] = IF i = 1 THEN s[i] ELSE g[i - 1] \o s[i]
                      /\ h[i] = IF i = 1 THEN t[i] ELSE h[i - 1] \o t[i]
    OBVIOUS
  <2>1. i \in 1 .. Len(s) /\ i \in 1 .. Len(t)
    OBVIOUS
  <2>2. g[i] = IF i = 1 THEN s[i] ELSE g[i - 1] \o s[i]
    BY <2>1 DEF Flat
  <2>3. h[i] = IF i = 1 THEN t[i] ELSE h[i - 1] \o t[i]
    BY <2>1 DEF Flat
  <2> QED BY <2>2, <2>3
<1>2. 0 \in T
  OBVIOUS
<1>3. ASSUME NEW n \in Nat, n \in T PROVE n + 1 \in T
  <2> SUFFICES ASSUME n + 1 \in 1 .. m PROVE g[n + 1] = h[n + 1]
    OBVIOUS
  <2>1. CASE n = 0
    BY <1>1, <2>1
  <2>2. CASE n # 0
    <3>1. n \in 1 .. m /\ g[n] = h[n] /\ s[n + 1] = t[n + 1]
      BY <1>3, <2>2
    <3>2. n + 1 \in 1 .. m /\ n + 1 # 1 /\ (n + 1) - 1 = n
      BY <2>2
    <3>3. g[n + 1] = g[(n + 1) - 1] \o s[n + 1]
      BY <1>1, <3>2
    <3>4. h[n + 1] = h[(n + 1) - 1] \o t[n + 1]
      BY <1>1, <3>2
    <3> QED BY <3>1, <3>2, <3>3, <3>4
  <2> QED BY <2>1, <2>2
<1>4. Nat \subseteq T
  <2> HIDE DEF T
  <2> QED BY <1>2, <1>3, Induction
<1> QED BY <1>4

\* The last of the joined sequences is the one FlattenSeq returns.
LEMMA FlattenIs ==
    ASSUME NEW A, NEW s \in Seq(Seq(A)), s # <<>>
    PROVE  \E g : Flat(s, g) /\ FlattenSeq(s) = g[Len(s)]
<1> DEFINE f == CHOOSE g : Flat(s, g)
<1>1. Flat(s, f)
  <2>1. \E g : Flat(s, g)
    BY FlatExists
  <2> HIDE DEF Flat
  <2> QED BY <2>1
<1>2. FlattenSeq(s) = f[Len(s)]
  BY DEF FlattenSeq, Flat
<1> QED BY <1>1, <1>2

----------------------------------------------------------------------------
(* What a client sends.                                                     *)

\* Where the lines of a request are: a Connection header at 3, a Content-Length
\* before the empty line, a body behind it.
HasConn(k) == k \in {"keep", "close", "upload"}
HasBody(k) == k \in {"post", "upload"}
Blank(k) == 3 + (IF HasConn(k) THEN 3 ELSE 0) + (IF HasBody(k) THEN 3 ELSE 0)
Size(k)  == Blank(k) + 2 + (IF HasBody(k) THEN BodyLen ELSE 0)
Symbols  == {"M", "K", "C", "L", "B", "CR", "LF"} \cup {"BK", "BC", "Q", "U", "N", "S", "E", "h", "d", "P"}
Start(i) == IF i = 1 THEN 0 ELSE ends[i - 1]

ConnText(k) == CASE k \in {"get", "post"}    -> <<>>
                 [] k \in {"keep", "upload"} -> <<"K", "CR", "LF">>
                 [] k = "close"              -> <<"C", "CR", "LF">>
LengthText(k) == IF k \in {"post", "upload"} THEN <<"L", "CR", "LF">> ELSE <<>>
BodyText(k)   == IF k \in {"post", "upload"} THEN [i \in 1 .. BodyLen |-> "B"] ELSE <<>>

\* The parts of a request, and where their symbols are.
LEMMA TextsAre ==
    ASSUME NEW k \in Kinds
    PROVE  /\ ConnText(k) \in Seq(Symbols) /\ LengthText(k) \in Seq(Symbols)
           /\ BodyText(k) \in Seq(Symbols)
           /\ Len(ConnText(k)) = (IF HasConn(k) THEN 3 ELSE 0)
           /\ Len(LengthText(k)) = (IF HasBody(k) THEN 3 ELSE 0)
           /\ Len(BodyText(k)) = (IF HasBody(k) THEN BodyLen ELSE 0)
           /\ HasConn(k) => /\ ConnText(k)[1] = (IF k = "close" THEN "C" ELSE "K")
                            /\ ConnText(k)[2] = "CR" /\ ConnText(k)[3] = "LF"
           /\ HasBody(k) => /\ LengthText(k)[1] = "L"
                            /\ LengthText(k)[2] = "CR" /\ LengthText(k)[3] = "LF"
                            /\ \A j \in 1 .. BodyLen : BodyText(k)[j] = "B"
<1>1. BodyText(k) \in Seq(Symbols) /\ Len(BodyText(k)) = (IF HasBody(k) THEN BodyLen ELSE 0)
      /\ (HasBody(k) => \A j \in 1 .. BodyLen : BodyText(k)[j] = "B")
  BY SizesAssumption DEF Symbols, BodyText, HasBody
<1>2. LengthText(k) \in Seq(Symbols) /\ Len(LengthText(k)) = (IF HasBody(k) THEN 3 ELSE 0)
      /\ (HasBody(k) => LengthText(k)[1] = "L" /\ LengthText(k)[2] = "CR" /\ LengthText(k)[3] = "LF")
  <2>1. CASE HasBody(k)
    <3>1. LengthText(k) = <<"L", "CR", "LF">>
      BY <2>1 DEF LengthText, HasBody
    <3> QED BY <2>1, <3>1 DEF Symbols
  <2>2. CASE ~HasBody(k)
    BY <2>2 DEF LengthText, HasBody
  <2> QED BY <2>1, <2>2
<1>3. ConnText(k) \in Seq(Symbols) /\ Len(ConnText(k)) = (IF HasConn(k) THEN 3 ELSE 0)
      /\ (HasConn(k) => ConnText(k)[1] = (IF k = "close" THEN "C" ELSE "K")
                        /\ ConnText(k)[2] = "CR" /\ ConnText(k)[3] = "LF")
  <2>1. CASE k \in {"keep", "upload"}
    <3>1. ConnText(k) = <<"K", "CR", "LF">> /\ HasConn(k) /\ k # "close"
      BY <2>1 DEF ConnText, HasConn
    <3> QED BY <3>1 DEF Symbols
  <2>2. CASE k = "close"
    <3>1. ConnText(k) = <<"C", "CR", "LF">> /\ HasConn(k)
      BY <2>2 DEF ConnText, HasConn
    <3>2. ConnText(k) \in Seq(Symbols) /\ Len(ConnText(k)) = 3
      BY <3>1 DEF Symbols
    <3>3. ConnText(k)[1] = "C" /\ ConnText(k)[2] = "CR" /\ ConnText(k)[3] = "LF"
      BY <3>1
    <3> QED BY <2>2, <3>1, <3>2, <3>3
  <2>3. CASE k = "get"
    BY <2>3 DEF ConnText, HasConn
  <2>4. CASE k = "post"
    BY <2>4 DEF ConnText, HasConn
  <2> QED BY <2>1, <2>2, <2>3, <2>4 DEF Kinds
<1> QED BY <1>1, <1>2, <1>3

\* Where the elements of two joined sequences are.
IsJoin(w, s, t) ==
    /\ w \in Seq(Symbols) /\ Len(w) = Len(s) + Len(t) /\ Len(s) \in Nat /\ Len(t) \in Nat
    /\ \A j \in 1 .. Len(s) : w[j] = s[j]
    /\ \A j \in 1 .. Len(t) : w[Len(s) + j] = t[j]

\* Joining is appending.
LEMMA Joined == \A s, t \in Seq(Symbols) : IsJoin(s \o t, s, t)
<1> DEFINE S == Symbols
<1> HIDE DEF S
<1> SUFFICES ASSUME NEW s \in Seq(S), NEW t \in Seq(S), NEW w, w = s \o t
             PROVE  /\ w \in Seq(S) /\ Len(w) = Len(s) + Len(t) /\ Len(s) \in Nat /\ Len(t) \in Nat
                    /\ \A j \in 1 .. Len(s) : w[j] = s[j]
                    /\ \A j \in 1 .. Len(t) : w[Len(s) + j] = t[j]
  BY DEF S, IsJoin
<1>2. w \in Seq(S) /\ Len(w) = Len(s) + Len(t) /\ Len(s) \in Nat /\ Len(t) \in Nat
  OBVIOUS
<1>3. \A j \in 1 .. Len(s) : w[j] = s[j]
  BY <1>2
<1>4. \A j \in 1 .. Len(t) : w[Len(s) + j] = t[j]
  BY <1>2
<1> QED BY <1>2, <1>3, <1>4

\* The symbols of a request, line by line.
LEMMA WireSymbols ==
    ASSUME NEW k \in Kinds, NEW w, w = Wire(k)
    PROVE  /\ w \in Seq(Symbols) /\ Len(w) = Size(k)
           /\ w[1] = "M" /\ w[2] = "CR" /\ w[3] = "LF"
           /\ HasConn(k) => w[4] = (IF k = "close" THEN "C" ELSE "K") /\ w[5] = "CR" /\ w[6] = "LF"
           /\ HasBody(k) => /\ w[Blank(k) - 2] = "L" /\ w[Blank(k) - 1] = "CR" /\ w[Blank(k)] = "LF"
                            /\ \A j \in 1 .. BodyLen : w[Blank(k) + 2 + j] = "B"
           /\ w[Blank(k) + 1] = "CR" /\ w[Blank(k) + 2] = "LF"
<1> DEFINE p1 == <<"M", "CR", "LF">>
           p2 == ConnText(k)
           p3 == LengthText(k)
           p4 == <<"CR", "LF">>
           p5 == BodyText(k)
<1>1. w = p1 \o p2 \o p3 \o p4 \o p5
  BY DEF Wire, ConnText, LengthText, BodyText
<1>2. p1 \in Seq(Symbols) /\ Len(p1) = 3 /\ p1[1] = "M" /\ p1[2] = "CR" /\ p1[3] = "LF"
      /\ p4 \in Seq(Symbols) /\ Len(p4) = 2 /\ p4[1] = "CR" /\ p4[2] = "LF"
  BY DEF Symbols
<1>3. p2 \in Seq(Symbols) /\ p3 \in Seq(Symbols) /\ p5 \in Seq(Symbols)
  BY TextsAre
<1> HIDE DEF p1, p2, p3, p4, p5
<1> DEFINE q2 == p1 \o p2
           q3 == q2 \o p3
           q4 == q3 \o p4
<1>4. IsJoin(q2, p1, p2) /\ IsJoin(q3, q2, p3) /\ IsJoin(q4, q3, p4) /\ IsJoin(w, q4, p5)
  <2>1. IsJoin(q2, p1, p2)
    BY <1>2, <1>3, Joined
  <2>2. IsJoin(q3, q2, p3)
    <3>1. q2 \in Seq(Symbols)
      BY <2>1 DEF IsJoin
    <3> QED BY <1>3, <3>1, Joined
  <2>3. IsJoin(q4, q3, p4)
    <3>1. q3 \in Seq(Symbols)
      BY <2>2 DEF IsJoin
    <3> QED BY <1>2, <3>1, Joined
  <2>4. IsJoin(w, q4, p5)
    <3>1. q4 \in Seq(Symbols) /\ w = q4 \o p5
      BY <1>1, <2>3 DEF IsJoin
    <3> QED BY <1>3, <3>1, Joined
  <2> QED BY <2>1, <2>2, <2>3, <2>4
<1> HIDE DEF q2, q3, q4
<1>5. /\ Len(q2) = 3 + Len(p2) /\ Len(p2) \in Nat
      /\ \A j \in 1 .. 3 : q2[j] = p1[j]
      /\ \A j \in 1 .. Len(p2) : q2[3 + j] = p2[j]
  BY <1>2, <1>4 DEF IsJoin
<1>6. /\ Len(q3) = Len(q2) + Len(p3) /\ Len(q2) \in Nat /\ Len(p3) \in Nat
      /\ \A j \in 1 .. Len(q2) : q3[j] = q2[j]
      /\ \A j \in 1 .. Len(p3) : q3[Len(q2) + j] = p3[j]
  BY <1>4 DEF IsJoin
<1>7. /\ Len(q4) = Len(q3) + 2
      /\ \A j \in 1 .. Len(q3) : q4[j] = q3[j]
      /\ \A j \in 1 .. 2 : q4[Len(q3) + j] = p4[j]
  BY <1>2, <1>4 DEF IsJoin
<1>14. /\ w \in Seq(Symbols) /\ Len(w) = Len(q4) + Len(p5)
       /\ \A j \in 1 .. Len(q4) : w[j] = q4[j]
       /\ \A j \in 1 .. Len(p5) : w[Len(q4) + j] = p5[j]
  BY <1>4 DEF IsJoin
<1>8. Len(p2) = (IF HasConn(k) THEN 3 ELSE 0) /\ Len(p3) = (IF HasBody(k) THEN 3 ELSE 0)
      /\ Len(p5) = (IF HasBody(k) THEN BodyLen ELSE 0)
  BY TextsAre DEF p2, p3, p5
<1>9. Len(q2) \in Nat /\ Len(q3) = Blank(k) /\ Len(q4) = Blank(k) + 2 /\ Len(w) = Size(k)
  BY <1>5, <1>6, <1>7, <1>14, <1>8 DEF Blank, Size
<1>10. w[1] = "M" /\ w[2] = "CR" /\ w[3] = "LF"
  <2>1. ASSUME NEW j \in 1 .. 3 PROVE w[j] = p1[j]
    <3>1. j \in 1 .. Len(q2) /\ j \in 1 .. Len(q3) /\ j \in 1 .. Len(q4)
      BY <1>5, <1>6, <1>7, <1>8
    <3> QED BY <1>5, <1>6, <1>7, <1>14, <3>1
  <2> QED BY <2>1, <1>2
<1>11. ASSUME HasConn(k)
       PROVE  w[4] = (IF k = "close" THEN "C" ELSE "K") /\ w[5] = "CR" /\ w[6] = "LF"
  <2>1. ASSUME NEW j \in 1 .. 3 PROVE w[3 + j] = p2[j]
    <3>1. 3 + j \in 1 .. Len(q2) /\ 3 + j \in 1 .. Len(q3) /\ 3 + j \in 1 .. Len(q4) /\ j \in 1 .. Len(p2)
      BY <1>5, <1>6, <1>7, <1>8, <1>11
    <3> QED BY <1>5, <1>6, <1>7, <1>14, <3>1
  <2>2. p2[1] = (IF k = "close" THEN "C" ELSE "K") /\ p2[2] = "CR" /\ p2[3] = "LF"
    BY <1>11, TextsAre DEF p2
  <2>3. w[3 + 1] = p2[1] /\ w[3 + 2] = p2[2] /\ w[3 + 3] = p2[3]
    BY <2>1
  <2> QED BY <2>2, <2>3
<1>12. ASSUME HasBody(k)
       PROVE  /\ w[Blank(k) - 2] = "L" /\ w[Blank(k) - 1] = "CR" /\ w[Blank(k)] = "LF"
              /\ \A j \in 1 .. BodyLen : w[Blank(k) + 2 + j] = "B"
  <2>1. ASSUME NEW j \in 1 .. 3 PROVE w[Blank(k) - 3 + j] = p3[j]
    <3>1. Len(p3) = 3 /\ Len(q3) = Len(q2) + 3 /\ Len(q4) = Len(q2) + 5 /\ Blank(k) = Len(q2) + 3
      BY <1>6, <1>7, <1>8, <1>9, <1>12
    <3>2. Len(q2) + j \in 1 .. Len(q3) /\ Len(q2) + j \in 1 .. Len(q4) /\ j \in 1 .. Len(p3)
          /\ Blank(k) - 3 + j = Len(q2) + j
      BY <1>6, <3>1
    <3> QED BY <1>6, <1>7, <1>14, <3>2
  <2>2. p3[1] = "L" /\ p3[2] = "CR" /\ p3[3] = "LF" /\ \A j \in 1 .. BodyLen : p5[j] = "B"
    BY <1>12, TextsAre DEF p3, p5
  <2>3. w[Blank(k) - 3 + 1] = p3[1] /\ w[Blank(k) - 3 + 2] = p3[2] /\ w[Blank(k) - 3 + 3] = p3[3]
    BY <2>1
  <2>4. Blank(k) \in Nat
    BY DEF Blank
  <2>5. \A j \in 1 .. BodyLen : w[Blank(k) + 2 + j] = "B"
    BY <1>14, <1>8, <1>9, <1>12, <2>2
  <2>6. w[Blank(k) - 2] = "L" /\ w[Blank(k) - 1] = "CR" /\ w[Blank(k)] = "LF"
    BY <2>2, <2>3, <2>4
  <2> QED BY <2>5, <2>6
<1>13. w[Blank(k) + 1] = "CR" /\ w[Blank(k) + 2] = "LF"
  <2>1. ASSUME NEW j \in 1 .. 2 PROVE w[Blank(k) + j] = p4[j]
    <3>1. Len(q3) + j \in 1 .. Len(q4)
      BY <1>7, <1>9, <1>6, <1>3, <1>5
    <3> QED BY <1>7, <1>14, <1>9, <3>1
  <2> QED BY <2>1, <1>2
<1> QED BY <1>14, <1>9, <1>10, <1>11, <1>12, <1>13

\* The text is what the client encodes, request after request, and ends says where each
\* of them ends.
TextInv(W) ==
    /\ stream \in Seq(Kinds) /\ Len(stream) > 0
    /\ ends \in [1 .. Len(stream) -> Nat]
    /\ Len(text) = ends[Len(stream)]
    /\ \A i \in 1 .. Len(stream) :
          /\ ends[i] = Start(i) + Len(W[stream[i]])
          /\ \A j \in 1 .. Len(W[stream[i]]) : text[Start(i) + j] = W[stream[i]][j]
    /\ \A i, j \in 1 .. Len(stream) : i < j => ends[i] < ends[j]

\* A text is what its requests are joined to.
IsText(g, W) ==
    /\ g \in [1 .. Len(stream) -> Seq(Symbols)]
    /\ g[1] = W[stream[1]]
    /\ \A i \in 1 .. Len(stream) - 1 : g[i + 1] = g[i] \o W[stream[i + 1]]

\* The text of the first i requests is what they are joined to.
LEMMA TextIs ==
    ASSUME NEW W \in [Kinds -> Seq(Symbols)], stream \in Seq(Kinds), Len(stream) > 0
    PROVE  \E g : IsText(g, W) /\ \A i \in 1 .. Len(stream) : Text(W, i) = g[i]
<1> DEFINE s(i) == [j \in 1 .. i |-> W[stream[j]]]
           n == Len(stream)
<1>1. n \in Nat \ {0} /\ \A j \in 1 .. n : W[stream[j]] \in Seq(Symbols)
  OBVIOUS
<1>2. ASSUME NEW i \in 1 .. n
      PROVE  /\ s(i) \in Seq(Seq(Symbols)) /\ Len(s(i)) = i /\ s(i) # <<>>
             /\ \A j \in 1 .. i : s(i)[j] = W[stream[j]]
  <2> DEFINE A == Seq(Symbols)
  <2> HIDE DEF A
  <2>1. \A j \in 1 .. n : W[stream[j]] \in A
    BY <1>1 DEF A
  <2>2. s(i) \in Seq(A) /\ Len(s(i)) = i /\ \A j \in 1 .. i : s(i)[j] = W[stream[j]]
    BY <2>1
  <2>3. s(i) # <<>>
    <3>1. Len(s(i)) # Len(<<>>)
      BY <2>2
    <3> HIDE DEF s
    <3> QED BY <3>1
  <2> QED BY <2>2, <2>3 DEF A
<1> HIDE DEF s
<1>3. PICK g \in [1 .. Len(s(n)) -> Seq(Symbols)] : Flat(s(n), g)
  BY <1>1, <1>2, FlatExists
<1>4. ASSUME NEW i \in 1 .. n PROVE Text(W, i) = g[i]
  <2>1. PICK h : Flat(s(i), h) /\ FlattenSeq(s(i)) = h[Len(s(i))]
    BY <1>2, FlattenIs
  <2>2. Len(s(i)) = i /\ Len(s(n)) = n /\ n \in 1 .. n
    <3>1. n \in 1 .. n
      BY <1>1
    <3> HIDE DEF n
    <3> QED BY <1>2, <3>1
  <2>3. \A j \in 1 .. i : s(i)[j] = s(n)[j]
    <3>1. \A j \in 1 .. i : j \in 1 .. n /\ s(i)[j] = W[stream[j]]
      BY <1>1, <1>2
    <3>2. \A j \in 1 .. n : s(n)[j] = W[stream[j]]
      <4> HIDE DEF n
      <4> QED BY <1>2, <2>2
    <3> QED BY <3>1, <3>2
  <2>4. \A j \in 1 .. i : h[j] = g[j]
    <3>1. i \in Nat /\ n \in Nat /\ i <= n
      BY <1>1
    <3>2. /\ Flat(s(i), h) /\ Flat(s(n), g) /\ i \in Nat
          /\ HasPrefix(s(i), i) /\ HasPrefix(s(n), i) /\ Agree(s(i), s(n), i)
      BY <1>3, <2>1, <2>2, <2>3, <3>1 DEF HasPrefix, Agree
    <3>3. Agree(h, g, i)
      <4> HIDE DEF n
      <4> QED BY <3>2, FlatUnique
    <3> QED BY <3>3 DEF Agree
  <2> QED BY <2>1, <2>2, <2>4 DEF Text, s
<1>5. IsText(g, W)
  <2>1. n \in 1 .. n /\ Len(s(n)) = n
    BY <1>1, <1>2
  <2>2. ASSUME NEW i \in 1 .. n PROVE g[i] = IF i = 1 THEN W[stream[1]] ELSE g[i - 1] \o W[stream[i]]
    <3>1. g[i] = IF i = 1 THEN s(n)[i] ELSE g[i - 1] \o s(n)[i]
      BY <1>3, <2>1 DEF Flat
    <3>2. s(n)[i] = W[stream[i]]
      BY <1>2, <2>1
    <3> QED BY <3>1, <3>2
  <2>3. g[1] = W[stream[1]]
    BY <1>1, <2>2
  <2>4. ASSUME NEW i \in 1 .. n - 1 PROVE g[i + 1] = g[i] \o W[stream[i + 1]]
    <3>1. i + 1 \in 1 .. n /\ i + 1 # 1 /\ (i + 1) - 1 = i
      BY <1>1
    <3>2. g[i + 1] = g[(i + 1) - 1] \o W[stream[i + 1]]
      BY <2>2, <3>1
    <3> QED BY <3>1, <3>2
  <2> QED BY <1>3, <2>1, <2>3, <2>4 DEF IsText
<1> QED BY <1>4, <1>5

Encoding(W) == W \in [Kinds -> Seq(Symbols)] /\ \A k \in Kinds : Len(W[k]) > 0

\* A text begins with each shorter one.
Begins(t, u) == /\ t \in Seq(Symbols) /\ u \in Seq(Symbols)
                /\ Len(u) <= Len(t) /\ \A p \in 1 .. Len(u) : t[p] = u[p]

\* A joined sequence begins with the first of its two parts.
LEMMA JoinBegins ==
    ASSUME NEW w, NEW s \in Seq(Symbols), NEW t, IsJoin(w, s, t), Len(t) > 0
    PROVE  Begins(w, s) /\ Len(s) < Len(w)
BY DEF IsJoin, Begins

\* The text of more requests begins with that of fewer, and is longer.
LEMMA TextsGrow ==
    ASSUME NEW W, Encoding(W), NEW g, IsText(g, W), stream \in Seq(Kinds), Len(stream) > 0
    PROVE  /\ \A i \in 1 .. Len(stream) : g[i] \in Seq(Symbols)
           /\ \A i \in 1 .. Len(stream) - 1 : IsJoin(g[i + 1], g[i], W[stream[i + 1]])
           /\ \A j \in 1 .. Len(stream) : \A i \in 1 .. j :
                 Begins(g[j], g[i]) /\ (i < j => Len(g[i]) < Len(g[j]))
<1>1. \A i \in 1 .. Len(stream) : g[i] \in Seq(Symbols)
  BY DEF IsText
<1>2. ASSUME NEW i \in 1 .. Len(stream) - 1 PROVE IsJoin(g[i + 1], g[i], W[stream[i + 1]])
  <2>1. stream[i + 1] \in Kinds /\ i \in 1 .. Len(stream)
    OBVIOUS
  <2>2. W[stream[i + 1]] \in Seq(Symbols)
    BY <2>1 DEF Encoding
  <2> QED BY <1>1, <2>1, <2>2, Joined DEF IsText
<1>3. ASSUME NEW i \in 1 .. Len(stream) - 1
      PROVE  Begins(g[i + 1], g[i]) /\ Len(g[i]) < Len(g[i + 1])
  <2>1. i \in 1 .. Len(stream) /\ i + 1 \in 1 .. Len(stream)
    OBVIOUS
  <2>2. Len(W[stream[i + 1]]) > 0
    BY <2>1 DEF Encoding
  <2>3. g[i] \in Seq(Symbols)
    BY <1>1, <2>1
  <2> QED BY <1>2, <2>2, <2>3, JoinBegins
<1> DEFINE Grown(j) == \A i \in 1 .. j : Begins(g[j], g[i]) /\ (i < j => Len(g[i]) < Len(g[j]))
           T == {j \in Nat : j \in 1 .. Len(stream) => Grown(j)}
<1>4. 0 \in T
  OBVIOUS
<1>5. ASSUME NEW j \in Nat, j \in T PROVE j + 1 \in T
  <2> SUFFICES ASSUME j + 1 \in 1 .. Len(stream), NEW i \in 1 .. j + 1
               PROVE  Begins(g[j + 1], g[i]) /\ (i < j + 1 => Len(g[i]) < Len(g[j + 1]))
    OBVIOUS
  <2>1. CASE i = j + 1
    <3>1. g[i] \in Seq(Symbols) /\ Len(g[i]) \in Nat
      BY <1>1
    <3> QED BY <2>1, <3>1 DEF Begins
  <2>2. CASE i < j + 1
    <3>1. j \in 1 .. Len(stream) - 1 /\ j \in 1 .. Len(stream) /\ i \in 1 .. j
      BY <2>2
    <3>2. Begins(g[j + 1], g[j]) /\ Len(g[j]) < Len(g[j + 1])
      BY <1>3, <3>1
    <3>3. Begins(g[j], g[i]) /\ (i < j => Len(g[i]) < Len(g[j]))
      BY <1>5, <3>1
    <3>4. Len(g[i]) \in Nat /\ Len(g[j]) \in Nat /\ Len(g[j + 1]) \in Nat
      BY <3>2, <3>3 DEF Begins
    <3>5. \A p \in 1 .. Len(g[i]) : p \in 1 .. Len(g[j])
      BY <3>3, <3>4 DEF Begins
    <3> QED BY <3>2, <3>3, <3>4, <3>5 DEF Begins
  <2> QED BY <2>1, <2>2
<1>6. Nat \subseteq T
  <2> HIDE DEF T
  <2> QED BY <1>4, <1>5, Induction
<1>7. \A j \in 1 .. Len(stream) : Grown(j)
  <2> SUFFICES ASSUME NEW j \in 1 .. Len(stream) PROVE Grown(j)
    OBVIOUS
  <2>1. j \in T
    <3> HIDE DEF T
    <3> QED BY <1>6
  <2> HIDE DEF Grown
  <2> QED BY <2>1
<1> QED BY <1>1, <1>2, <1>7

\* The text of a new connection holds the requests of the client, one behind the other.
LEMMA TextIsEncoded ==
    ASSUME NEW W, Encoding(W), stream \in Seq(Kinds), Len(stream) > 0,
           text = Text(W, Len(stream)), ends = [i \in 1 .. Len(stream) |-> Len(Text(W, i))]
    PROVE  TextInv(W) /\ text \in Seq(Symbols)
<1> DEFINE n == Len(stream)
<1>1. PICK g : IsText(g, W) /\ \A i \in 1 .. n : Text(W, i) = g[i]
  BY TextIs DEF Encoding
<1>2. n \in Nat /\ n \in 1 .. n
  OBVIOUS
<1>3. text = g[n] /\ text \in Seq(Symbols) /\ \A i \in 1 .. n : ends[i] = Len(g[i]) /\ Len(g[i]) \in Nat
  BY <1>1, <1>2, TextsGrow
<1>4. ends \in [1 .. n -> Nat]
  <2> HIDE DEF n
  <2>1. ends = [i \in 1 .. n |-> Len(Text(W, i))]
    BY DEF n
  <2> QED BY <1>3, <2>1
<1>5. \A i, j \in 1 .. n : i < j => ends[i] < ends[j]
  <2> SUFFICES ASSUME NEW i \in 1 .. n, NEW j \in 1 .. n, i < j PROVE ends[i] < ends[j]
    OBVIOUS
  <2>1. i \in 1 .. j
    OBVIOUS
  <2>2. Len(g[i]) < Len(g[j])
    BY <1>1, <2>1, TextsGrow
  <2> QED BY <1>3, <2>2
<1>6. ASSUME NEW i \in 1 .. n
      PROVE  /\ ends[i] = Start(i) + Len(W[stream[i]])
             /\ \A j \in 1 .. Len(W[stream[i]]) : text[Start(i) + j] = W[stream[i]][j]
  <2>1. W[stream[i]] \in Seq(Symbols) /\ Len(W[stream[i]]) \in Nat
    BY DEF Encoding
  <2>2. /\ Len(g[i]) = Start(i) + Len(W[stream[i]]) /\ Start(i) \in Nat
        /\ \A j \in 1 .. Len(W[stream[i]]) : g[i][Start(i) + j] = W[stream[i]][j]
    <3>1. CASE i = 1
      <4>1. g[i] = W[stream[i]] /\ Start(i) = 0
        BY <1>1, <3>1 DEF IsText, Start
      <4> QED BY <2>1, <4>1
    <3>2. CASE i # 1
      <4>1. i - 1 \in 1 .. n - 1 /\ i - 1 \in 1 .. n /\ (i - 1) + 1 = i
        BY <3>2
      <4>2. IsJoin(g[(i - 1) + 1], g[i - 1], W[stream[(i - 1) + 1]])
        BY <1>1, <4>1, TextsGrow
      <4>3. Start(i) = Len(g[i - 1])
        BY <1>3, <3>2, <4>1 DEF Start
      <4> QED BY <4>1, <4>2, <4>3 DEF IsJoin
    <3> QED BY <3>1, <3>2
  <2>3. Begins(g[n], g[i])
    BY <1>1, <1>2, TextsGrow
  <2>4. ASSUME NEW j \in 1 .. Len(W[stream[i]]) PROVE text[Start(i) + j] = W[stream[i]][j]
    <3>1. Start(i) + j \in 1 .. Len(g[i])
      BY <2>1, <2>2
    <3>2. g[n][Start(i) + j] = g[i][Start(i) + j]
      BY <2>3, <3>1 DEF Begins
    <3> QED BY <1>3, <2>2, <3>2
  <2> QED BY <1>3, <2>2, <2>4
<1>7. Len(text) = ends[n]
  BY <1>2, <1>3
<1> QED BY <1>3, <1>4, <1>5, <1>6, <1>7 DEF TextInv

HttpText == [k \in Kinds |-> Wire(k)]

\* The requests of HTTP/1.1 are an encoding, and Size says how long each is.
LEMMA HttpEncoding ==
    Encoding(HttpText) /\ \A k \in Kinds : HttpText[k] = Wire(k) /\ Len(Wire(k)) = Size(k) /\ Size(k) \in Nat
<1>1. ASSUME NEW k \in Kinds
      PROVE  Wire(k) \in Seq(Symbols) /\ Len(Wire(k)) = Size(k) /\ Size(k) \in Nat /\ Size(k) > 0
  <2>1. Size(k) \in Nat /\ Size(k) > 0
    BY SizesAssumption DEF Size, Blank
  <2> QED BY <2>1, WireSymbols
<1>2. HttpText \in [Kinds -> Seq(Symbols)] /\ \A k \in Kinds : HttpText[k] = Wire(k)
  BY <1>1 DEF HttpText
<1> QED BY <1>1, <1>2 DEF Encoding

\* Where a request begins and ends.
LEMMA Ends ==
    ASSUME TextInv(HttpText), NEW i \in 1 .. Len(stream)
    PROVE  /\ Len(stream) \in Nat \ {0} /\ Len(text) \in Nat
           /\ stream[i] \in Kinds /\ Start(i) \in Nat /\ ends[i] \in Nat
           /\ ends[i] = Start(i) + Size(stream[i]) /\ ends[i] <= Len(text)
           /\ Start(i + 1) = ends[i]
<1>1. Len(stream) \in 1 .. Len(stream) /\ stream[i] \in Kinds /\ Len(stream) \in Nat \ {0}
  BY DEF TextInv
<1>2. Len(HttpText[stream[i]]) = Size(stream[i])
  BY <1>1, HttpEncoding
<1>3. ends[i] = Start(i) + Size(stream[i]) /\ ends[i] \in Nat /\ Len(text) = ends[Len(stream)]
  BY <1>2 DEF TextInv
<1>4. Start(i) \in Nat
  <2>1. CASE i = 1
    BY <2>1 DEF Start
  <2>2. CASE i # 1
    <3>1. i - 1 \in 1 .. Len(stream)
      BY <2>2, <1>1
    <3> QED BY <3>1, <2>2 DEF Start, TextInv
  <2> QED BY <2>1, <2>2
<1>5. ends[i] <= Len(text)
  <2>1. CASE i = Len(stream)
    BY <1>3, <2>1
  <2>2. CASE i < Len(stream)
    <3>1. ends[i] < ends[Len(stream)] /\ ends[Len(stream)] \in Nat
      BY <1>1, <2>2 DEF TextInv
    <3> QED BY <1>3, <3>1
  <2> QED BY <1>1, <2>1, <2>2
<1>6. Start(i + 1) = ends[i]
  BY DEF Start
<1>7. Len(text) \in Nat
  BY <1>1, <1>3 DEF TextInv
<1> QED BY <1>1, <1>3, <1>4, <1>5, <1>6, <1>7

\* The first request begins at the start of the text; none is behind the last.
LEMMA Behind == ASSUME TextInv(HttpText) PROVE Start(Len(stream) + 1) = Len(text) /\ Start(1) = 0
BY DEF TextInv, Start

\* The request that begins where the i-th begins is the i-th.
LEMMA RequestAtStart ==
    ASSUME TextInv(HttpText), NEW i \in 1 .. Len(stream)
    PROVE  RequestAt(Start(i)) = i
<1>1. {j \in DOMAIN ends : ends[j] <= Start(i)} = 1 .. i - 1
  <2>1. DOMAIN ends = 1 .. Len(stream) /\ Len(stream) \in Nat
    BY DEF TextInv
  <2>2. ASSUME NEW j \in 1 .. Len(stream) PROVE ends[j] <= Start(i) <=> j \in 1 .. i - 1
    <3>1. CASE i = 1
      <4>1. ends[j] > 0
        <5>1. ends[j] = Start(j) + Size(stream[j]) /\ Start(j) \in Nat
          BY Ends
        <5>2. Size(stream[j]) \in Nat \ {0}
          BY SizesAssumption DEF Size, Blank
        <5> QED BY <5>1, <5>2
      <4> QED BY <3>1, <4>1, Ends DEF Start
    <3>2. CASE i # 1
      <4>1. i - 1 \in 1 .. Len(stream) /\ Start(i) = ends[i - 1]
        BY <2>1, <3>2 DEF Start
      <4>2. ends[j] \in Nat /\ ends[i - 1] \in Nat
        BY <4>1 DEF TextInv
      <4>3. j < i - 1 => ends[j] < ends[i - 1]
        BY <4>1 DEF TextInv
      <4>4. i - 1 < j => ends[i - 1] < ends[j]
        BY <4>1 DEF TextInv
      <4> QED BY <4>1, <4>2, <4>3, <4>4
    <3> QED BY <3>1, <3>2
  <2> QED BY <2>1, <2>2
<1>2. Cardinality(1 .. i - 1) = i - 1
  <2>1. i - 1 \in Int /\ 1 \in Int
    BY DEF TextInv
  <2>2. Cardinality(1 .. i - 1) = IF 1 > i - 1 THEN 0 ELSE (i - 1) - 1 + 1
    BY <2>1, FS_Interval
  <2> QED BY <2>1, <2>2
<1>3. i \in Int
  BY DEF TextInv
<1>4. Cardinality({j \in DOMAIN ends : ends[j] <= Start(i)}) = i - 1
  BY <1>1, <1>2, Zenon
<1> QED BY <1>3, <1>4 DEF RequestAt

\* The symbol that begins the line at an offset of a request.
LineSym(k, off) == IF off = 0 THEN "M"
                   ELSE IF off = 3 /\ HasConn(k) THEN IF k = "close" THEN "C" ELSE "K"
                   ELSE "L"

\* The symbols of a request are in the text from where it begins.
LEMMA SymbolAt ==
    ASSUME TextInv(HttpText), NEW i \in 1 .. Len(stream), NEW j \in 1 .. Size(stream[i])
    PROVE  text[Start(i) + j] = Wire(stream[i])[j]
<1>1. stream[i] \in Kinds
  BY Ends
<1>2. HttpText[stream[i]] = Wire(stream[i]) /\ Len(HttpText[stream[i]]) = Size(stream[i])
  BY <1>1, HttpEncoding
<1> QED BY <1>2 DEF TextInv

\* The lines of a request before its empty line.
LEMMA LineAt ==
    ASSUME TextInv(HttpText), NEW i \in 1 .. Len(stream),
           NEW off \in {0, 3, 6}, off < Blank(stream[i])
    PROVE  /\ text[Start(i) + off + 1] = LineSym(stream[i], off)
           /\ text[Start(i) + off + 2] = "CR" /\ text[Start(i) + off + 3] = "LF"
<1> DEFINE k == stream[i]
           w == Wire(k)
<1>1. k \in Kinds /\ Start(i) \in Nat
  BY Ends
<1>2. Size(k) \in Nat /\ off + 3 <= Size(k)
  <2>1. off + 3 <= Blank(k) /\ Blank(k) \in Nat
    BY DEF Blank
  <2> QED BY <2>1, SizesAssumption DEF Size
<1>3. w[off + 1] = LineSym(k, off) /\ w[off + 2] = "CR" /\ w[off + 3] = "LF"
  <2>1. CASE off = 0
    BY <1>1, <2>1, WireSymbols DEF LineSym
  <2>2. CASE off = 3 /\ HasConn(k)
    BY <1>1, <2>2, WireSymbols DEF LineSym
  <2>3. CASE off # 0 /\ ~(off = 3 /\ HasConn(k))
    <3>1. HasBody(k) /\ off = Blank(k) - 3
      BY <2>3 DEF Blank
    <3>2. w[Blank(k) - 2] = "L" /\ w[Blank(k) - 1] = "CR" /\ w[Blank(k)] = "LF"
      BY <1>1, <3>1, WireSymbols
    <3>3. off + 1 = Blank(k) - 2 /\ off + 2 = Blank(k) - 1 /\ off + 3 = Blank(k)
      BY <3>1 DEF Blank
    <3>4. LineSym(k, off) = "L"
      BY <2>3 DEF LineSym
    <3> QED BY <3>2, <3>3, <3>4
  <2> QED BY <2>1, <2>2, <2>3
<1>4. off + 1 \in 1 .. Size(k) /\ off + 2 \in 1 .. Size(k) /\ off + 3 \in 1 .. Size(k)
  BY <1>2
<1>5. text[Start(i) + (off + 1)] = w[off + 1] /\ text[Start(i) + (off + 2)] = w[off + 2]
      /\ text[Start(i) + (off + 3)] = w[off + 3]
  BY <1>4, SymbolAt
<1>6. Start(i) + (off + 1) = Start(i) + off + 1 /\ Start(i) + (off + 2) = Start(i) + off + 2
      /\ Start(i) + (off + 3) = Start(i) + off + 3
  BY <1>1
<1> QED BY <1>3, <1>5, <1>6

\* Its empty line, and the body behind it.
LEMMA BlankAt ==
    ASSUME TextInv(HttpText), NEW i \in 1 .. Len(stream)
    PROVE  /\ Blank(stream[i]) \in {3, 6, 9} /\ Size(stream[i]) \in Nat
           /\ Blank(stream[i]) + 2 + (IF HasBody(stream[i]) THEN BodyLen ELSE 0) = Size(stream[i])
           /\ text[Start(i) + Blank(stream[i]) + 1] = "CR"
           /\ text[Start(i) + Blank(stream[i]) + 2] = "LF"
           /\ HasBody(stream[i]) =>
                 \A j \in 1 .. BodyLen : text[Start(i) + Blank(stream[i]) + 2 + j] = "B"
<1> DEFINE k == stream[i]
           b == Blank(k)
           w == Wire(k)
<1>1. k \in Kinds /\ Start(i) \in Nat
  BY Ends
<1>2. b \in {3, 6, 9} /\ Size(k) \in Nat /\ b + 2 + (IF HasBody(k) THEN BodyLen ELSE 0) = Size(k)
  BY SizesAssumption DEF Blank, Size
<1>3. /\ w[b + 1] = "CR" /\ w[b + 2] = "LF"
      /\ HasBody(k) => \A j \in 1 .. BodyLen : w[b + 2 + j] = "B"
  BY <1>1, WireSymbols
<1> HIDE DEF b, w
<1>4. b + 1 \in 1 .. Size(k) /\ b + 2 \in 1 .. Size(k)
  BY <1>2, SizesAssumption
<1>5. text[Start(i) + (b + 1)] = "CR" /\ text[Start(i) + (b + 2)] = "LF"
  BY <1>3, <1>4, SymbolAt DEF w
<1>6. ASSUME HasBody(k), NEW j \in 1 .. BodyLen PROVE text[Start(i) + b + 2 + j] = "B"
  <2>1. b + 2 + j \in 1 .. Size(k)
    BY <1>2, <1>6, SizesAssumption
  <2>2. text[Start(i) + (b + 2 + j)] = "B"
    BY <1>3, <1>6, <2>1, SymbolAt DEF w
  <2>3. Start(i) + (b + 2 + j) = Start(i) + b + 2 + j
    BY <1>1, <1>2
  <2> QED BY <2>2, <2>3
<1>7. Start(i) + (b + 1) = Start(i) + b + 1 /\ Start(i) + (b + 2) = Start(i) + b + 2
  BY <1>1, <1>2
<1> QED BY <1>2, <1>5, <1>6, <1>7 DEF b

----------------------------------------------------------------------------
(* The invariant of the parser.                                             *)

\* A client that the parser serves.  No segment ends between CR and LF, and neither does
\* a buffer that is filled from the start of a request: a line would swallow the next one
\* (EventuallyDispatched fails, MCSplitLine).  And what is pipelined behind an answer that
\* closes is behind a body, as lines in the buffer are still parsed after it
\* (SeenAsSent fails, MCPipelineClose).
Orderly ==
    /\ ~UsesFastCgi
    /\ "splits" \notin habits
    /\ \A i \in 1 .. Len(stream) :
          LET full == Start(i) + BufferSize
          IN full <= (IF "pipelines" \in habits THEN Len(text) ELSE ends[i]) => text[full] # "CR"
    /\ "pipelines" \in habits =>
          \A i \in 1 .. Len(stream) - 1 :
              stream[i] # "close" /\ ("closes" \in habits => HasBody(stream[i]))

Current == Len(dispatched) + 1
Cursor  == taken - bufSize + beginLine
Conn(k) == IF k = "close" THEN "Close" ELSE IF HasConn(k) THEN "Keep" ELSE "NotSet"

\* The window of the buffer; nothing was read that ends between CR and LF.
ReadInv ==
    /\ arrived \in Nat /\ arrived <= Len(text) /\ taken \in Nat /\ taken <= arrived
    /\ bufSize \in Nat /\ bufSize <= taken /\ bufSize <= BufferSize
    /\ last \in Nat /\ last <= bufSize /\ beginLine \in Nat /\ beginLine <= last
    /\ arrived > 0 => text[arrived] # "CR"
    /\ taken > 0 => text[taken] # "CR"

Requests == [method : Nat, http11 : BOOLEAN, connection : {"NotSet", "Keep", "Close"}, body : Nat]

\* A client that waits for the answers sends no more than one request ahead.
AnswerInv ==
    /\ dispatched \in Seq(Requests) /\ SeenAsSent
    /\ answered \in Nat
    /\ ~finalized => answered = Len(dispatched) - (IF Busy THEN 1 ELSE 0)
    /\ "pipelines" \notin habits /\ answered < Len(stream) => arrived <= ends[answered + 1]

\* The head of the request is parsed.
HeadOf(i) == method = i /\ http11 = TRUE /\ headerConnection = Conn(stream[i])

\* The parser is at the line that begins at an offset of the request.
AtHeader(off) ==
    /\ off <= Blank(stream[Current]) /\ Cursor = Start(Current) + off
    /\ headerConnection = IF off > 3 THEN Conn(stream[Current]) ELSE "NotSet"
    /\ contentLength = IF HasBody(stream[Current]) /\ off = Blank(stream[Current])
                       THEN BodyLen ELSE -1
    /\ off = Blank(stream[Current]) => last = beginLine
AtLine ==
    /\ Current <= Len(stream) + 1
    /\ taken - bufSize = Start(Current)
    /\ last \in {beginLine, beginLine + 1}
    /\ \/ connState = "MethodLine" /\ headerConnection = "NotSet" /\ Cursor = Start(Current)
       \/ /\ connState = "HeaderLine" /\ Current <= Len(stream)
          /\ method = Current /\ http11 = TRUE
          /\ \E off \in {3, 6, 9} : AtHeader(off)

\* Part of the body is read.
InBody ==
    /\ Current <= Len(stream) /\ HeadOf(Current) /\ HasBody(stream[Current])
    /\ connState = "ContentBody" /\ contentLength = BodyLen
    /\ bodySize \in Nat /\ bodySize <= BodyLen
    /\ taken = Start(Current) + Blank(stream[Current]) + 2 + bodySize
    /\ last = bufSize

\* All of the request is read.
Complete ==
    /\ Current <= Len(stream) /\ HeadOf(Current)
    /\ connState = IF HasBody(stream[Current]) THEN "ContentBody" ELSE "HeaderLine"
    /\ HasBody(stream[Current]) => bodySize = BodyLen
    /\ taken - bufSize + last = ends[Current]

\* The application has the request.
InApp ==
    /\ Len(dispatched) > 0 /\ taken - bufSize + last = ends[Len(dispatched)]
    /\ pc = "app" =>
          /\ HasBody(stream[Len(dispatched)]) => connState = "ContentBody"
          /\ IF finalizedHeaders THEN headerConnection = "Keep" ELSE HeadOf(Len(dispatched))

\* An answer closed the connection: the parser begins no other request.
Done ==
    /\ sock # "connected" /\ ~Busy /\ processing = 0
    /\ \/ pc = "idle"
       \/ pc = "loop" /\ (connState = "ContentBody" \/ last = bufSize)

Idle == pc = "idle" /\ ~suspended /\ sock = "connected"
PhaseInv ==
    IF finalized THEN Done
    ELSE /\ pc \in {"idle", "loop", "body", "process", "app"}
         /\ pc # "idle" => sock = "connected"
         /\ ~Busy => ~finalizedHeaders
         /\ Busy => InApp
         /\ pc = "process" => Complete
         /\ pc = "body" \/ (Idle /\ connState = "ContentBody") => InBody
         /\ pc = "loop" \/ (Idle /\ connState # "ContentBody") => AtLine

Fixed == <<habits, stream, text, ends>>
HttpInv == IInv /\ Orderly /\ TextInv(HttpText) /\ ReadInv /\ AnswerInv /\ PhaseInv

\* What depends on the fixed part only.
LEMMA FixedStep ==
    ASSUME UNCHANGED Fixed, Orderly, TextInv(HttpText)
    PROVE  Orderly' /\ TextInv(HttpText)'
<1>1. habits' = habits /\ stream' = stream /\ text' = text /\ ends' = ends
  BY DEF Fixed
<1>2. Orderly'
  BY <1>1 DEF Orderly, Start, UsesFastCgi
<1>3. TextInv(HttpText)'
  <2>1. HttpText' = HttpText
    BY DEF HttpText, Wire
  <2> QED BY <1>1, <2>1 DEF TextInv, Start
<1> QED BY <1>2, <1>3

\* What the application has to see of a request.
LEMMA SentIs ==
    ASSUME TextInv(HttpText), NEW i \in 1 .. Len(stream)
    PROVE  /\ Sent(i) = [method |-> i, http11 |-> TRUE, connection |-> Conn(stream[i]),
                         body |-> IF HasBody(stream[i]) THEN BodyLen ELSE 0]
           /\ Sent(i) \in Requests
<1>1. stream[i] \in Kinds /\ i \in Nat
  BY Ends DEF TextInv
<1>2. (CASE stream[i] = "close"              -> "Close"
         [] stream[i] \in {"keep", "upload"} -> "Keep"
         [] OTHER                           -> "NotSet") = Conn(stream[i])
  BY <1>1 DEF Conn, HasConn, Kinds
<1>3. Sent(i) = [method |-> i, http11 |-> TRUE, connection |-> Conn(stream[i]),
                 body |-> IF HasBody(stream[i]) THEN BodyLen ELSE 0]
  BY <1>2 DEF Sent, HasBody
<1>4. Conn(stream[i]) \in {"NotSet", "Keep", "Close"} /\ BodyLen \in Nat
  BY SizesAssumption DEF Conn
<1> QED BY <1>1, <1>3, <1>4 DEF Requests

\* The numbers that the steps compute with.
LEMMA Types ==
    ASSUME HttpInv
    PROVE  /\ Len(dispatched) \in Nat /\ Len(stream) \in Nat /\ Len(text) \in Nat /\ Current \in Nat \ {0}
           /\ Cursor \in Nat /\ taken - bufSize \in Nat
           /\ Current <= Len(stream) => Current \in 1 .. Len(stream)
           /\ BufferSize \in Nat /\ BodyLen \in Nat /\ BodyLen > 0
<1>1. Len(dispatched) \in Nat
  BY DEF HttpInv, AnswerInv
<1>2. Len(stream) \in Nat /\ Len(text) \in Nat
  <2>1. Len(stream) \in 1 .. Len(stream) /\ Len(stream) \in Nat
    BY DEF HttpInv, TextInv
  <2> QED BY <2>1 DEF HttpInv, TextInv
<1> QED BY <1>1, <1>2, SizesAssumption DEF Current, Cursor, HttpInv, ReadInv

\* The search finds the end of a line that is not empty, when it is in the buffer.
LEMMA LineFound ==
    ASSUME HttpInv, Current <= Len(stream), NEW off \in {0, 3, 6}, off < Blank(stream[Current]),
           Cursor = Start(Current) + off, last \in {beginLine, beginLine + 1}
    PROVE  /\ At(beginLine) = LineSym(stream[Current], off) /\ At(beginLine) # "CR"
           /\ \A ix \in CrLfIndexIn(last) : ix = beginLine + 1
           /\ CrLfIndexIn(last) = {} => bufSize <= beginLine + 1
<1> DEFINE c == Start(Current) + off
<1>1. Current \in 1 .. Len(stream) /\ Start(Current) \in Nat
  BY Types, Ends DEF HttpInv
<1>2. /\ text[c + 1] = LineSym(stream[Current], off) /\ text[c + 2] = "CR" /\ text[c + 3] = "LF"
  BY <1>1, LineAt DEF HttpInv
<1>3. LineSym(stream[Current], off) # "CR"
  BY DEF LineSym
<1>4. taken - bufSize + beginLine = c /\ c \in Nat /\ taken \in Nat /\ bufSize \in Nat /\ beginLine \in Nat
      /\ last \in Nat
  BY <1>1 DEF Cursor, HttpInv, ReadInv
<1> HIDE DEF c
<1>5. /\ At(beginLine) = text[c + 1] /\ At(beginLine + 1) = text[c + 2]
      /\ At(beginLine + 2) = text[c + 3]
  <2>1. /\ taken - bufSize + beginLine + 1 = c + 1
        /\ taken - bufSize + (beginLine + 1) + 1 = c + 2
        /\ taken - bufSize + (beginLine + 2) + 1 = c + 3
    BY <1>4
  <2> QED BY <2>1 DEF At
<1>6. ASSUME NEW ix \in CrLfIndexIn(last) PROVE ix = beginLine + 1
  <2>1. /\ ix \in Int /\ ix >= last /\ At(ix) = "CR" /\ At(ix + 1) = "LF"
        /\ \A q \in last .. ix - 1 : At(q) # "CR" \/ At(q + 1) # "LF"
    BY <1>4 DEF CrLfIndexIn
  <2>2. ix # beginLine
    BY <1>2, <1>3, <1>5, <2>1 DEF c
  <2>3. ~(ix > beginLine + 1)
    <3> SUFFICES ASSUME ix > beginLine + 1 PROVE FALSE
      OBVIOUS
    <3>1. beginLine + 1 \in last .. ix - 1
      BY <1>4, <2>1
    <3>2. At(beginLine + 1) = "CR" /\ At((beginLine + 1) + 1) = "LF"
      BY <1>2, <1>4, <1>5 DEF c
    <3> QED BY <2>1, <3>1, <3>2
  <2> QED BY <1>4, <2>1, <2>2, <2>3
<1>7. ASSUME CrLfIndexIn(last) = {} PROVE bufSize <= beginLine + 1
  <2>1. ~(beginLine + 3 <= bufSize)
    <3> SUFFICES ASSUME beginLine + 3 <= bufSize PROVE FALSE
      OBVIOUS
    <3>1. beginLine + 1 \in last .. bufSize - 2
      BY <1>4
    <3>2. At(beginLine + 1) = "CR" /\ At((beginLine + 1) + 1) = "LF"
      BY <1>2, <1>4, <1>5 DEF c
    <3>3. \A q \in last .. (beginLine + 1) - 1 : At(q) # "CR"
      <4>1. \A q \in last .. (beginLine + 1) - 1 : q = beginLine
        BY <1>4
      <4> QED BY <4>1, <1>2, <1>3, <1>5 DEF c
    <3>4. beginLine + 1 \in CrLfIndexIn(last)
      BY <3>1, <3>2, <3>3 DEF CrLfIndexIn
    <3> QED BY <1>7, <3>4
  <2>2. bufSize # beginLine + 2
    <3> SUFFICES ASSUME bufSize = beginLine + 2 PROVE FALSE
      OBVIOUS
    <3>1. taken = c + 2 /\ taken > 0
      BY <1>4
    <3> QED BY <1>2, <3>1 DEF c, HttpInv, ReadInv
  <2> QED BY <1>4, <2>1, <2>2
<1> QED BY <1>2, <1>3, <1>5, <1>6, <1>7 DEF c

\* The same for the empty line.
LEMMA BlankFound ==
    ASSUME HttpInv, Current <= Len(stream), Cursor = Start(Current) + Blank(stream[Current]),
           last = beginLine
    PROVE  /\ At(beginLine) = "CR"
           /\ \A ix \in CrLfIndexIn(last) : ix = beginLine
           /\ CrLfIndexIn(last) = {} => bufSize = beginLine
<1> DEFINE c == Start(Current) + Blank(stream[Current])
<1>1. Current \in 1 .. Len(stream) /\ Start(Current) \in Nat
  BY Types, Ends DEF HttpInv
<1>2. text[c + 1] = "CR" /\ text[c + 2] = "LF" /\ Blank(stream[Current]) \in Nat
  BY <1>1, BlankAt DEF HttpInv
<1>3. taken - bufSize + beginLine = c /\ c \in Nat /\ taken \in Nat /\ bufSize \in Nat
      /\ beginLine \in Nat /\ last <= bufSize
  BY <1>1, <1>2 DEF Cursor, HttpInv, ReadInv
<1> HIDE DEF c
<1>4. At(beginLine) = text[c + 1] /\ At(beginLine + 1) = text[c + 2]
  <2>1. /\ taken - bufSize + beginLine + 1 = c + 1
        /\ taken - bufSize + (beginLine + 1) + 1 = c + 2
    BY <1>3
  <2> QED BY <2>1 DEF At
<1>5. At(beginLine) = "CR" /\ At(beginLine + 1) = "LF"
  BY <1>2, <1>4 DEF c
<1>6. ASSUME NEW ix \in CrLfIndexIn(last) PROVE ix = beginLine
  <2>1. /\ ix \in Int /\ ix >= last
        /\ \A q \in last .. ix - 1 : At(q) # "CR" \/ At(q + 1) # "LF"
    BY <1>3 DEF CrLfIndexIn
  <2>2. ix > beginLine => beginLine \in last .. ix - 1
    BY <1>3, <2>1
  <2> QED BY <1>3, <1>5, <2>1, <2>2
<1>7. ASSUME CrLfIndexIn(last) = {} PROVE bufSize = beginLine
  <2>1. ~(beginLine + 2 <= bufSize)
    <3> SUFFICES ASSUME beginLine + 2 <= bufSize PROVE FALSE
      OBVIOUS
    <3>1. beginLine \in last .. bufSize - 2 /\ last .. beginLine - 1 = {}
      BY <1>3
    <3>2. beginLine \in CrLfIndexIn(last)
      BY <1>5, <3>1 DEF CrLfIndexIn
    <3> QED BY <1>7, <3>2
  <2>2. bufSize # beginLine + 1
    <3> SUFFICES ASSUME bufSize = beginLine + 1 PROVE FALSE
      OBVIOUS
    <3>1. taken = c + 1 /\ taken > 0
      BY <1>3
    <3> QED BY <1>2, <3>1 DEF c, HttpInv, ReadInv
  <2> QED BY <1>3, <2>1, <2>2
<1> QED BY <1>5, <1>6, <1>7

----------------------------------------------------------------------------
(* The steps of the parser.                                                 *)

\* The steps of the parser leave the accounts of the requests alone.
Answered == <<dispatched, answered, finalized, finalizedHeaders, suspended, arrived, sock, processing>>

\* The accounts of the requests change only with dispatched, answered and arrived.
LEMMA AnswerStays ==
    ASSUME HttpInv, UNCHANGED Fixed, Busy' = Busy,
           UNCHANGED <<dispatched, answered, finalized, arrived>>
    PROVE  AnswerInv'
<1>1. \A i : Sent(i)' = Sent(i)
  BY DEF Fixed, Sent
<1>2. SeenAsSent'
  BY <1>1 DEF HttpInv, AnswerInv, SeenAsSent, Fixed
<1> QED BY <1>2 DEF HttpInv, AnswerInv, Fixed

\* A step of the parser has to keep the window and the phase.
LEMMA ParseStays ==
    ASSUME HttpInv, IInv', UNCHANGED Fixed, UNCHANGED Answered, pc # "app", pc' # "app",
           ReadInv', PhaseInv'
    PROVE  HttpInv'
<1>1. Busy' = Busy
  BY DEF Busy, Answered
<1>2. AnswerInv'
  BY <1>1, AnswerStays DEF Answered
<1> QED BY <1>2, FixedStep DEF HttpInv

\* In the loop, on an open connection, the parser is at a line.
LEMMA LoopAtLine ==
    ASSUME HttpInv, pc = "loop", last < bufSize
    PROVE  \/ finalized /\ connState = "ContentBody"
           \/ ~finalized /\ AtLine /\ sock = "connected" /\ ~suspended /\ ~finalizedHeaders
BY DEF HttpInv, PhaseInv, Done, IInv, SuspendInv, Busy, ReadInv, AtLine

\* At the end of the buffer the parser waits at the line it is in.
LEMMA LoopDoneStep == ASSUME HttpInv, IInv', LoopDone PROVE HttpInv'
<1>1. UNCHANGED Fixed /\ UNCHANGED Answered /\ pc = "loop" /\ pc' = "idle"
  BY DEF LoopDone, Fixed, wire, Answered, status, socket, hist
<1>2. UNCHANGED <<taken, bufSize, last, beginLine, connState, headerConnection, method, http11,
                  contentLength>>
  BY DEF LoopDone, parser
<1>3. ReadInv'
  BY <1>1, <1>2 DEF HttpInv, ReadInv, Fixed, Answered
<1>4. PhaseInv'
  <2>1. CASE finalized
    BY <1>1, <2>1 DEF HttpInv, PhaseInv, Done, Busy, Answered
  <2>2. CASE ~finalized
    <3>1. AtLine /\ ~suspended /\ ~finalizedHeaders
      BY <1>1, <2>2 DEF HttpInv, PhaseInv, Busy, IInv, SuspendInv
    <3>2. AtLine'
      BY <1>1, <1>2, <3>1 DEF AtLine, AtHeader, Cursor, Current, Start, Fixed, Answered
    <3>3. connState' # "ContentBody"
      BY <1>2, <3>1 DEF AtLine
    <3> QED BY <1>1, <2>2, <3>1, <3>2, <3>3 DEF PhaseInv, Busy, Answered, Idle
  <2> QED BY <2>1, <2>2
<1> QED BY <1>1, <1>3, <1>4, ParseStays

\* A line that is not in the buffer as a whole is not lost: beginLine still is its start.
LEMMA LineIncompleteStep == ASSUME HttpInv, IInv', LineIncomplete PROVE HttpInv'
<1>1. UNCHANGED Fixed /\ UNCHANGED Answered /\ pc = "loop" /\ pc' = "loop"
  BY DEF LineIncomplete, Fixed, wire, Answered, status, socket, hist
<1>2. /\ UNCHANGED <<taken, bufSize, beginLine, connState, headerConnection, method, http11, contentLength>>
      /\ last < bufSize /\ CrLfIndexIn(last) = {} /\ last' = bufSize
  BY DEF LineIncomplete
<1>3. ReadInv'
  BY <1>1, <1>2 DEF HttpInv, ReadInv, Fixed, Answered
<1>4. PhaseInv'
  <2>1. CASE finalized
    BY <1>1, <1>2, <2>1 DEF HttpInv, PhaseInv, Done, Busy, Answered
  <2>2. CASE ~finalized
    <3>1. AtLine /\ sock = "connected" /\ ~suspended /\ ~finalizedHeaders
      BY <1>1, <1>2, <2>2, LoopAtLine
    <3>2. AtLine'
      <4>1. last \in Nat /\ bufSize \in Nat /\ beginLine \in Nat /\ beginLine <= last
        BY DEF HttpInv, ReadInv
      <4>2. ASSUME bufSize <= beginLine + 1 PROVE bufSize \in {beginLine, beginLine + 1}
        BY <4>1, <4>2, <1>2
      <4>3. CASE connState = "MethodLine"
        <5>1. Current <= Len(stream)
          BY <3>1, <4>1, <4>3, <1>2, Behind, Types DEF AtLine, Cursor, HttpInv, ReadInv
        <5>2. 0 < Blank(stream[Current]) /\ Cursor = Start(Current) + 0
          BY <3>1, <4>3, <5>1, Types, BlankAt, Ends DEF AtLine, HttpInv
        <5>3. bufSize <= beginLine + 1
          BY <3>1, <5>1, <5>2, <1>2, LineFound DEF AtLine
        <5> QED BY <1>1, <1>2, <3>1, <4>2, <4>3, <5>3 DEF AtLine, Cursor, Current, Start, Fixed, Answered
      <4>4. CASE connState = "HeaderLine"
        <5>1. PICK off \in {3, 6, 9} : AtHeader(off)
          BY <3>1, <4>4 DEF AtLine
        <5>2. Current <= Len(stream) /\ Current \in 1 .. Len(stream)
          BY <3>1, <4>4, Types DEF AtLine
        <5>3. off # Blank(stream[Current])
          BY <1>2, <4>1, <5>1, <5>2, BlankFound DEF AtHeader
        <5>4. off < Blank(stream[Current]) /\ off \in {0, 3, 6}
          BY <5>1, <5>2, <5>3, BlankAt DEF AtHeader, HttpInv
        <5>5. bufSize <= beginLine + 1
          BY <1>2, <3>1, <5>1, <5>2, <5>4, LineFound DEF AtLine, AtHeader
        <5>6. AtHeader(off)'
          BY <1>1, <1>2, <5>1, <5>3 DEF AtHeader, Cursor, Current, Start, Fixed, Answered
        <5> QED BY <1>1, <1>2, <3>1, <4>2, <4>4, <5>5, <5>6 DEF AtLine, Current, Start, Fixed, Answered
      <4> QED BY <3>1, <4>3, <4>4 DEF AtLine
    <3>3. connState' # "ContentBody"
      BY <1>2, <3>1 DEF AtLine
    <3> QED BY <1>1, <2>2, <3>1, <3>2, <3>3 DEF PhaseInv, Busy, Answered, Idle
  <2> QED BY <2>1, <2>2
<1> QED BY <1>1, <1>3, <1>4, ParseStays

\* The request line is that of the current request.
LEMMA ParseMethodStep == ASSUME HttpInv, IInv', ParseMethod PROVE HttpInv'
<1>1. PICK ix \in 0 .. bufSize : NextLine(ix) /\ last' = ix + 2 /\ http11' = (ix = beginLine + 1)
  BY DEF ParseMethod
<1>2. pc = "loop" /\ last < bufSize /\ ix \in CrLfIndexIn(last) /\ beginLine' = ix + 2
  BY <1>1 DEF NextLine
<1>3. /\ connState = "MethodLine" /\ method' = MethodAt(beginLine)
      /\ connState' = "HeaderLine" /\ contentLength' = -1
      /\ UNCHANGED <<taken, bufSize, headerConnection>>
  BY DEF ParseMethod
<1>4. UNCHANGED Fixed /\ UNCHANGED Answered /\ pc' = "loop"
  BY <1>2 DEF ParseMethod, Fixed, wire, Answered, status, socket, hist
<1>5. ~finalized /\ AtLine /\ sock = "connected" /\ ~suspended /\ ~finalizedHeaders
  BY <1>2, <1>3, LoopAtLine
<1>6. last \in Nat /\ bufSize \in Nat /\ beginLine \in Nat /\ beginLine <= last
  BY DEF HttpInv, ReadInv
<1>7. Current <= Len(stream) /\ Current \in 1 .. Len(stream)
  BY <1>2, <1>3, <1>5, <1>6, Behind, Types DEF AtLine, Cursor, HttpInv, ReadInv
<1>8. Blank(stream[Current]) \in {3, 6, 9} /\ Start(Current) \in Nat /\ Cursor = Start(Current)
  BY <1>3, <1>5, <1>7, BlankAt, Ends DEF AtLine, HttpInv
<1>9. ix = beginLine + 1 /\ At(beginLine) = "M"
  <2>1. 0 < Blank(stream[Current]) /\ Cursor = Start(Current) + 0
    BY <1>8
  <2>2. LineSym(stream[Current], 0) = "M"
    BY DEF LineSym
  <2> QED BY <1>2, <1>5, <1>7, <2>1, <2>2, LineFound DEF AtLine
<1>10. method' = Current
  BY <1>3, <1>7, <1>8, <1>9, RequestAtStart DEF MethodAt, Cursor, HttpInv
<1>11. ix + 2 <= bufSize
  BY <1>2, <1>6 DEF CrLfIndexIn
<1>12. ReadInv'
  BY <1>1, <1>2, <1>3, <1>4, <1>6, <1>9, <1>11 DEF HttpInv, ReadInv, Fixed, Answered
<1>13. AtHeader(3)'
  <2>1. Cursor' = Start(Current) + 3
    BY <1>1, <1>2, <1>3, <1>6, <1>8, <1>9, Types DEF Cursor
  <2>2. ~(HasBody(stream[Current]) /\ 3 = Blank(stream[Current]))
    BY DEF Blank
  <2> QED BY <1>1, <1>2, <1>3, <1>4, <1>5, <1>8, <2>1, <2>2
          DEF AtHeader, AtLine, Current, Start, Fixed, Answered
<1>14. AtLine'
  BY <1>1, <1>2, <1>3, <1>4, <1>5, <1>7, <1>9, <1>10, <1>13 DEF AtLine, Current, Start, Fixed, Answered
<1>15. PhaseInv'
  BY <1>3, <1>4, <1>5, <1>14 DEF PhaseInv, Busy, Answered, Idle
<1> QED BY <1>2, <1>4, <1>12, <1>15, ParseStays

\* A header line sets the field it is about.
LEMMA ParseHeaderStep == ASSUME HttpInv, IInv', ParseHeader PROVE HttpInv'
<1>1. PICK ix \in 0 .. bufSize :
          /\ NextLine(ix) /\ last' = ix + 2 /\ ix > beginLine
          /\ headerConnection' =
                IF headerConnection = "NotSet" /\ At(beginLine) \in {"K", "C"}
                THEN IF At(beginLine) = "C" /\ ix = beginLine + 1 THEN "Close" ELSE "Keep"
                ELSE headerConnection
          /\ contentLength' =
                IF contentLength < 0 /\ At(beginLine) = "L" /\ ix = beginLine + 1
                THEN BodyLen ELSE contentLength
  BY DEF ParseHeader
<1>2. pc = "loop" /\ last < bufSize /\ ix \in CrLfIndexIn(last) /\ beginLine' = ix + 2
  BY <1>1 DEF NextLine
<1>3. connState = "HeaderLine" /\ UNCHANGED <<taken, bufSize, connState, method, http11>>
  BY DEF ParseHeader
<1>4. UNCHANGED Fixed /\ UNCHANGED Answered /\ pc' = "loop"
  BY <1>2 DEF ParseHeader, Fixed, wire, Answered, status, socket, hist
<1>5. ~finalized /\ AtLine /\ sock = "connected" /\ ~suspended /\ ~finalizedHeaders
  BY <1>2, <1>3, LoopAtLine
<1>6. last \in Nat /\ bufSize \in Nat /\ beginLine \in Nat /\ beginLine <= last
  BY DEF HttpInv, ReadInv
<1>7. Current <= Len(stream) /\ Current \in 1 .. Len(stream)
  BY <1>3, <1>5, Types DEF AtLine
<1>8. Blank(stream[Current]) \in {3, 6, 9} /\ Start(Current) \in Nat
  BY <1>7, BlankAt, Ends DEF HttpInv
<1>9. PICK off \in {3, 6, 9} : AtHeader(off)
  BY <1>3, <1>5 DEF AtLine
<1> DEFINE k == stream[Current]
<1>10. off # Blank(k)
  BY <1>1, <1>2, <1>7, <1>9, BlankFound DEF AtHeader
<1>11. off < Blank(k) /\ off \in {0, 3, 6} /\ off + 3 \in {3, 6, 9} /\ off + 3 <= Blank(k)
  BY <1>8, <1>9, <1>10 DEF AtHeader
<1>12. ix = beginLine + 1 /\ At(beginLine) = LineSym(k, off)
  BY <1>2, <1>5, <1>7, <1>9, <1>11, LineFound DEF AtLine, AtHeader
<1>13. ix + 2 <= bufSize
  BY <1>2, <1>6 DEF CrLfIndexIn
<1>14. ReadInv'
  BY <1>1, <1>2, <1>3, <1>4, <1>6, <1>12, <1>13 DEF HttpInv, ReadInv, Fixed, Answered
<1>15. headerConnection' = Conn(k)
  <2>1. CASE off = 3 /\ HasConn(k)
    <3>1. headerConnection = "NotSet" /\ LineSym(k, off) = IF k = "close" THEN "C" ELSE "K"
      BY <1>9, <2>1 DEF AtHeader, LineSym
    <3> QED BY <1>1, <1>12, <2>1, <3>1 DEF Conn
  <2>2. CASE ~(off = 3 /\ HasConn(k))
    <3>1. LineSym(k, off) = "L"
      BY <1>9, <2>2 DEF LineSym
    <3>2. headerConnection = Conn(k)
      <4>1. CASE off = 3
        BY <1>9, <4>1, <2>2 DEF AtHeader, Conn, HasConn
      <4>2. CASE off # 3
        BY <1>9, <4>2 DEF AtHeader
      <4> QED BY <4>1, <4>2
    <3> QED BY <1>1, <1>12, <3>1, <3>2
  <2> QED BY <2>1, <2>2
<1>16. contentLength' = IF HasBody(k) /\ off + 3 = Blank(k) THEN BodyLen ELSE -1
  <2>1. contentLength = -1
    BY <1>9, <1>10 DEF AtHeader
  <2>2. LineSym(k, off) = "L" <=> HasBody(k) /\ off + 3 = Blank(k)
    BY <1>11 DEF LineSym, Blank, HasConn, HasBody
  <2> QED BY <1>1, <1>12, <2>1, <2>2
<1>17. AtHeader(off + 3)'
  <2>1. Cursor' = Start(Current) + (off + 3)
    <3>1. Cursor = Start(Current) + off
      BY <1>9 DEF AtHeader
    <3>2. Cursor' = Cursor + 3
      BY <1>2, <1>3, <1>6, <1>12, Types DEF Cursor
    <3> QED BY <1>8, <3>1, <3>2
  <2> QED BY <1>1, <1>2, <1>4, <1>11, <1>15, <1>16, <2>1 DEF AtHeader, Current, Start, Fixed, Answered
<1>18. AtLine'
  BY <1>1, <1>2, <1>3, <1>4, <1>5, <1>7, <1>11, <1>17 DEF AtLine, Current, Start, Fixed, Answered
<1>19. PhaseInv'
  BY <1>3, <1>4, <1>5, <1>18 DEF PhaseInv, Busy, Answered, Idle
<1> QED BY <1>2, <1>4, <1>14, <1>19, ParseStays

\* Behind the head, the part of the body that is in the buffer is taken from it.
LEMMA HeadCompleteStep == ASSUME HttpInv, IInv', HeadComplete PROVE HttpInv'
<1>1. /\ connState = "HeaderLine" /\ pc = "loop" /\ last < bufSize
      /\ beginLine \in CrLfIndexIn(last) /\ beginLine' = beginLine + 2
      /\ UNCHANGED <<taken, bufSize, contentLength, method, http11, headerConnection>>
  BY DEF HeadComplete, NextLine
<1>2. UNCHANGED Fixed /\ UNCHANGED Answered /\ pc' \in {"process", "body", "idle"}
  BY DEF HeadComplete, Fixed, wire, Answered, status, socket, hist
<1>3. ~finalized /\ AtLine /\ sock = "connected" /\ ~suspended /\ ~finalizedHeaders
  BY <1>1, LoopAtLine
<1>4. last \in Nat /\ bufSize \in Nat /\ beginLine \in Nat /\ beginLine <= last /\ taken \in Nat
  BY DEF HttpInv, ReadInv
<1>5. Current <= Len(stream) /\ Current \in 1 .. Len(stream)
  BY <1>1, <1>3, Types DEF AtLine
<1> DEFINE k == stream[Current]
<1>6. /\ Blank(k) \in {3, 6, 9} /\ Start(Current) \in Nat
      /\ ends[Current] = Start(Current) + Blank(k) + 2 + (IF HasBody(k) THEN BodyLen ELSE 0)
  <2>1. /\ Blank(k) \in {3, 6, 9}
        /\ Blank(k) + 2 + (IF HasBody(k) THEN BodyLen ELSE 0) = Size(k)
    BY <1>5, BlankAt DEF HttpInv
  <2>2. Start(Current) \in Nat /\ ends[Current] = Start(Current) + Size(k)
    BY <1>5, Ends DEF HttpInv
  <2>3. BodyLen \in Nat
    BY Types
  <2> HIDE DEF k
  <2> QED BY <2>1, <2>2, <2>3
<1>7. PICK off \in {3, 6, 9} : AtHeader(off)
  BY <1>1, <1>3 DEF AtLine
<1>8. off = Blank(k)
  <2> SUFFICES ASSUME off # Blank(k) PROVE FALSE
    OBVIOUS
  <2>1. off < Blank(k) /\ off \in {0, 3, 6}
    BY <1>6, <1>7 DEF AtHeader
  <2>2. beginLine = beginLine + 1
    BY <1>1, <1>3, <1>5, <1>7, <2>1, LineFound DEF AtLine, AtHeader
  <2> QED BY <1>4, <2>2
<1>9. /\ headerConnection = Conn(k) /\ taken - bufSize + beginLine = Start(Current) + Blank(k)
      /\ contentLength = IF HasBody(k) THEN BodyLen ELSE -1
  <2>1. Blank(k) = 3 => k = "get"
    BY <1>5, Ends DEF Blank, HasConn, HasBody, Kinds, HttpInv
  <2> QED BY <1>7, <1>8, <2>1 DEF AtHeader, Cursor, Conn, HasConn
<1>10. beginLine + 2 <= bufSize
  BY <1>1, <1>4 DEF CrLfIndexIn
<1>11. HeadOf(Current)' /\ Current' = Current
  BY <1>1, <1>2, <1>3, <1>9 DEF HeadOf, AtLine, Current, Fixed, Answered
<1>12. CASE ~HasBody(k)
  <2>1. last' = beginLine + 2 /\ pc' = "process" /\ connState' = connState
    BY <1>9, <1>12 DEF HeadComplete
  <2>2. ReadInv'
    BY <1>1, <1>2, <1>4, <1>10, <2>1 DEF HttpInv, ReadInv, Fixed, Answered
  <2>3. taken' - bufSize' + last' = ends[Current]
    BY <1>1, <1>4, <1>6, <1>9, <1>12, <2>1, Types
  <2>4. Complete'
    BY <1>1, <1>2, <1>5, <1>11, <1>12, <2>1, <2>3 DEF Complete, Fixed
  <2>5. PhaseInv'
    BY <1>2, <1>3, <2>1, <2>4 DEF PhaseInv, Busy, Answered, Idle
  <2> QED BY <1>1, <1>2, <2>2, <2>1, <2>5, ParseStays
<1>13. CASE HasBody(k)
  <2> DEFINE n == Smaller(contentLength, bufSize - (beginLine + 2))
  <2>1. contentLength = BodyLen /\ contentLength > 0
    BY <1>9, <1>13, Types
  <2>2. /\ connState' = "ContentBody" /\ bodySize' = n /\ last' = beginLine + 2 + n
        /\ pc' = IF n = contentLength THEN "process"
                 ELSE IF Available > 0 /\ sock = "connected" THEN "body"
                 ELSE "idle"
    BY <2>1 DEF HeadComplete
  <2>3. n \in Nat /\ n <= BodyLen /\ n <= bufSize - (beginLine + 2)
        /\ (n = BodyLen \/ n = bufSize - (beginLine + 2))
    BY <1>4, <1>10, <2>1, Types DEF Smaller
  <2> HIDE DEF n
  <2>4. ReadInv'
    BY <1>1, <1>2, <1>4, <1>10, <2>2, <2>3 DEF HttpInv, ReadInv, Fixed, Answered
  <2>5. ASSUME n = BodyLen PROVE PhaseInv'
    <3>1. pc' = "process"
      BY <2>1, <2>2, <2>5
    <3>2. taken' - bufSize' + last' = ends[Current]
      BY <1>1, <1>4, <1>6, <1>9, <1>13, <2>2, <2>5, Types
    <3>3. Complete'
      BY <1>1, <1>2, <1>5, <1>11, <1>13, <2>2, <2>5, <3>2 DEF Complete, Fixed
    <3> QED BY <1>2, <1>3, <3>1, <3>3 DEF PhaseInv, Busy, Answered, Idle
  <2>6. ASSUME n # BodyLen PROVE PhaseInv'
    <3>1. pc' \in {"body", "idle"}
      BY <2>1, <2>2, <2>6
    <3>2. taken = Start(Current) + Blank(k) + 2 + n /\ last' = bufSize
      BY <1>4, <1>6, <1>9, <2>2, <2>3, <2>6
    <3>3. InBody'
      BY <1>1, <1>2, <1>5, <1>11, <1>13, <2>1, <2>2, <2>3, <3>2 DEF InBody, Start, Fixed
    <3> QED BY <1>2, <1>3, <2>2, <3>1, <3>3 DEF PhaseInv, Busy, Answered, Idle
  <2> QED BY <1>1, <1>2, <2>4, <2>5, <2>6, ParseStays
<1> QED BY <1>12, <1>13

\* A body that cannot be stored ends the connection: nothing is read any more.
LEMMA BodyFailsStep == ASSUME HttpInv, IInv', BodyFails PROVE HttpInv'
<1>1. /\ connState = "HeaderLine" /\ pc = "loop" /\ last < bufSize
      /\ beginLine \in CrLfIndexIn(last) /\ beginLine' = beginLine + 2 /\ last' = beginLine + 2
      /\ UNCHANGED <<taken, bufSize>> /\ pc' = "idle"
  BY DEF BodyFails, NextLine
<1>2. UNCHANGED Fixed /\ UNCHANGED <<dispatched, answered, finalized, finalizedHeaders, suspended, arrived>>
  BY DEF BodyFails, Fixed, wire, status, hist
<1>3. ~finalized /\ sock = "connected" /\ ~suspended /\ ~finalizedHeaders
  BY <1>1, LoopAtLine
<1>4. sock' # "connected"
  BY <1>3 DEF BodyFails, ConnectionClose, Disconnected
<1>5. beginLine + 2 <= bufSize
  BY <1>1 DEF CrLfIndexIn, HttpInv, ReadInv
<1>6. ReadInv'
  BY <1>1, <1>2, <1>5 DEF HttpInv, ReadInv, Fixed
<1>7. PhaseInv'
  BY <1>1, <1>2, <1>3, <1>4 DEF PhaseInv, Busy, Idle
<1>8. AnswerInv'
  BY <1>1, <1>2, AnswerStays DEF Busy
<1> QED BY <1>2, <1>6, <1>7, <1>8, FixedStep DEF HttpInv

\* Lines are skipped only behind a request that closed the connection.
LEMMA SkipLineStep == ASSUME HttpInv, IInv', SkipLine PROVE HttpInv'
<1>1. PICK ix \in 0 .. bufSize : NextLine(ix) /\ last' = ix + 2
  BY DEF SkipLine
<1>2. /\ pc = "loop" /\ last < bufSize /\ ix \in CrLfIndexIn(last) /\ beginLine' = ix + 2
      /\ connState = "ContentBody" /\ UNCHANGED <<pc, taken, bufSize, connState>>
  BY <1>1 DEF NextLine, SkipLine
<1>3. UNCHANGED Fixed /\ UNCHANGED Answered
  BY DEF SkipLine, Fixed, wire, Answered, status, socket, hist
<1>4. finalized
  BY <1>2, LoopAtLine DEF AtLine
<1>5. ix + 2 <= bufSize
  BY <1>2 DEF CrLfIndexIn, HttpInv, ReadInv
<1>6. ReadInv'
  BY <1>1, <1>2, <1>3, <1>5 DEF HttpInv, ReadInv, Fixed, Answered
<1>7. PhaseInv'
  BY <1>2, <1>3, <1>4 DEF HttpInv, PhaseInv, Done, Busy, Answered
<1> QED BY <1>2, <1>3, <1>6, <1>7, ParseStays

\* The rest of the body is read from the socket, and no symbol of the next request.
LEMMA ReadBodyStep == ASSUME HttpInv, IInv', ReadBody PROVE HttpInv'
<1> DEFINE n == Smaller(Available, contentLength - bodySize)
           k == stream[Current]
<1>1. /\ pc = "body" /\ taken' = taken + n /\ bodySize' = bodySize + n
      /\ pc' = IF bodySize + n = contentLength THEN "process" ELSE "idle"
      /\ UNCHANGED <<bufSize, last, beginLine, connState, contentLength, method, http11, headerConnection>>
  BY DEF ReadBody, TakeFromSocket
<1>2. UNCHANGED Fixed /\ UNCHANGED Answered
  BY DEF ReadBody, Fixed, wire, Answered, status, socket, hist
<1>3. ~finalized /\ InBody /\ sock = "connected" /\ ~suspended /\ ~finalizedHeaders
  BY <1>1 DEF HttpInv, PhaseInv, Done, IInv, SuspendInv, Busy
<1>4. Current \in 1 .. Len(stream)
  BY <1>3, Types DEF InBody
<1>5. /\ Blank(k) \in {3, 6, 9} /\ Start(Current) \in Nat /\ HasBody(k)
      /\ ends[Current] = Start(Current) + Blank(k) + 2 + BodyLen
      /\ \A j \in 1 .. BodyLen : text[Start(Current) + Blank(k) + 2 + j] = "B"
  <2>1. /\ Blank(k) \in {3, 6, 9} /\ HasBody(k)
        /\ Blank(k) + 2 + (IF HasBody(k) THEN BodyLen ELSE 0) = Size(k)
        /\ \A j \in 1 .. BodyLen : text[Start(Current) + Blank(k) + 2 + j] = "B"
    BY <1>3, <1>4, BlankAt DEF HttpInv, InBody
  <2>2. Start(Current) \in Nat /\ ends[Current] = Start(Current) + Size(k)
    BY <1>4, Ends DEF HttpInv
  <2>3. BodyLen \in Nat
    BY Types
  <2> HIDE DEF k
  <2> QED BY <2>1, <2>2, <2>3
<1>13. /\ arrived \in Nat /\ taken \in Nat /\ taken <= arrived /\ BodyLen \in Nat
       /\ contentLength = BodyLen /\ bodySize \in Nat /\ bodySize <= BodyLen
       /\ taken = Start(Current) + Blank(k) + 2 + bodySize /\ last = bufSize /\ bufSize \in Nat
  BY <1>3, Types DEF InBody, HttpInv, ReadInv
<1>6. n \in Nat /\ n <= arrived - taken /\ n <= BodyLen - bodySize
  BY <1>13 DEF Smaller, Available
<1> HIDE DEF n
<1>7. taken' = Start(Current) + Blank(k) + 2 + (bodySize + n) /\ taken' \in Nat /\ taken' <= arrived
      /\ bodySize + n \in Nat /\ bodySize + n <= BodyLen /\ taken <= taken'
  <2> HIDE DEF k
  <2> QED BY <1>1, <1>5, <1>6, <1>13
<1>8. taken' > 0 => text[taken'] # "CR"
  <2>1. CASE bodySize + n = 0
    BY <1>1, <1>3, <1>6, <1>7, <2>1 DEF InBody, HttpInv, ReadInv
  <2>2. CASE bodySize + n # 0
    <3>1. bodySize + n \in 1 .. BodyLen
      BY <1>7, <2>2, Types
    <3> QED BY <1>5, <1>7, <3>1
  <2> QED BY <2>1, <2>2
<1>9. ReadInv'
  <2>1. text' = text /\ arrived' = arrived
    BY <1>2 DEF Fixed, Answered
  <2>2. bufSize <= taken'
    BY <1>7 DEF HttpInv, ReadInv
  <2> QED BY <1>1, <1>7, <1>8, <2>1, <2>2 DEF HttpInv, ReadInv
<1>10. HeadOf(Current)' /\ Current' = Current /\ Start(Current)' = Start(Current)
  BY <1>1, <1>2, <1>3 DEF HeadOf, InBody, Current, Start, Fixed, Answered
<1>11. ASSUME bodySize + n = BodyLen PROVE PhaseInv'
  <2>1. pc' = "process"
    BY <1>1, <1>3, <1>11 DEF InBody
  <2>2. taken' - bufSize' + last' = ends[Current]
    <3> HIDE DEF k
    <3> QED BY <1>1, <1>5, <1>7, <1>11, <1>13
  <2>3. Complete'
    BY <1>1, <1>2, <1>3, <1>10, <1>11, <2>2 DEF Complete, InBody, Fixed
  <2> QED BY <1>2, <1>3, <2>1, <2>3 DEF PhaseInv, Busy, Answered, Idle
<1>12. ASSUME bodySize + n # BodyLen PROVE PhaseInv'
  <2>1. pc' = "idle"
    BY <1>1, <1>3, <1>12 DEF InBody
  <2>2. InBody'
    BY <1>1, <1>2, <1>3, <1>7, <1>10 DEF InBody, Fixed
  <2> QED BY <1>2, <1>3, <2>1, <2>2 DEF PhaseInv, Busy, Answered, Idle, InBody
<1> QED BY <1>1, <1>2, <1>9, <1>11, <1>12, ParseStays

----------------------------------------------------------------------------
(* The request and its answer.                                              *)

\* A request in progress is in the hands of the application.
LEMMA BusyInApp ==
    ASSUME HttpInv, Busy
    PROVE  ~finalized /\ InApp /\ (pc = "idle" \/ sock = "connected")
           /\ Len(dispatched) \in 1 .. Len(stream) /\ answered + 1 = Len(dispatched)
<1>1. ~finalized /\ InApp /\ (pc = "idle" \/ sock = "connected")
  BY DEF HttpInv, PhaseInv, Done
<1>2. Len(dispatched) \in 1 .. Len(stream)
  BY <1>1, Types DEF InApp, HttpInv, AnswerInv, SeenAsSent
<1>3. answered + 1 = Len(dispatched)
  BY <1>1, <1>2 DEF HttpInv, AnswerInv
<1> QED BY <1>1, <1>2, <1>3

\* The application gets the request as it was sent.
LEMMA ProcessRequestStep == ASSUME HttpInv, IInv', ProcessRequest PROVE HttpInv'
<1> DEFINE r == [method |-> method, http11 |-> http11, connection |-> headerConnection,
                 body |-> IF connState = "ContentBody" THEN bodySize ELSE 0]
<1>1. /\ pc = "process" /\ pc' = "app" /\ dispatched' = Append(dispatched, r)
      /\ UNCHANGED <<arrived, taken, bufSize, last, beginLine, connState, method, http11,
                     headerConnection, finalizedHeaders, finalized, suspended, sock, answered>>
  BY DEF ProcessRequest, wire, parser, status
<1>2. UNCHANGED Fixed
  BY DEF ProcessRequest, wire, Fixed
<1>3. ~finalized /\ Complete /\ ~suspended /\ ~finalizedHeaders /\ sock = "connected" /\ ~Busy
  BY <1>1 DEF HttpInv, PhaseInv, Done, IInv, SuspendInv, Busy
<1>4. Current \in 1 .. Len(stream) /\ Len(dispatched) \in Nat
  BY <1>3, Types DEF Complete
<1>5. r = Sent(Current) /\ r \in Requests
  <2>1. bodySize = BodyLen \/ ~HasBody(stream[Current])
    BY <1>3 DEF Complete
  <2>2. r = [method |-> Current, http11 |-> TRUE, connection |-> Conn(stream[Current]),
             body |-> IF HasBody(stream[Current]) THEN BodyLen ELSE 0]
    BY <1>3, <2>1 DEF Complete, HeadOf
  <2> QED BY <1>4, <2>2, SentIs DEF HttpInv
<1> HIDE DEF r
<1>6. /\ dispatched' \in Seq(Requests) /\ Len(dispatched') = Current
      /\ \A i \in 1 .. Len(dispatched) : dispatched'[i] = dispatched[i]
      /\ dispatched'[Current] = r
  <2>1. dispatched \in Seq(Requests)
    BY DEF HttpInv, AnswerInv
  <2> QED BY <1>1, <1>5, <2>1 DEF Current
<1>7. \A i : Sent(i)' = Sent(i)
  BY <1>2 DEF Fixed, Sent
<1>8. SeenAsSent'
  <2>1. Len(dispatched') <= Len(stream)
    BY <1>4, <1>6
  <2>2. ASSUME NEW i \in 1 .. Len(dispatched') PROVE dispatched'[i] = Sent(i)
    <3>1. CASE i = Current
      BY <1>5, <1>6, <3>1
    <3>2. CASE i # Current
      <4>1. i \in 1 .. Len(dispatched)
        BY <1>4, <1>6, <3>2 DEF Current
      <4> QED BY <1>6, <4>1 DEF HttpInv, AnswerInv, SeenAsSent
    <3> QED BY <3>1, <3>2
  <2> QED BY <1>2, <1>7, <2>1, <2>2 DEF SeenAsSent, Fixed
<1>9. AnswerInv'
  <2>1. Busy'
    BY <1>1 DEF Busy
  <2>2. answered' = Len(dispatched') - 1
    BY <1>1, <1>3, <1>4, <1>6 DEF HttpInv, AnswerInv, Current
  <2>3. answered' \in Nat /\ habits' = habits /\ stream' = stream /\ ends' = ends /\ arrived' = arrived
        /\ answered' = answered
    BY <1>1, <1>2 DEF Fixed, HttpInv, AnswerInv
  <2>4. "pipelines" \notin habits /\ answered < Len(stream) => arrived <= ends[answered + 1]
    BY DEF HttpInv, AnswerInv
  <2> QED BY <1>6, <1>8, <2>1, <2>2, <2>3, <2>4 DEF AnswerInv
<1>10. ReadInv'
  BY <1>1, <1>2 DEF HttpInv, ReadInv, Fixed
<1>11. InApp'
  <2>1. Len(dispatched') = Current /\ Current > 0 /\ taken' - bufSize' + last' = ends'[Current]
    BY <1>1, <1>2, <1>3, <1>4, <1>6 DEF Complete, Fixed
  <2>2. HasBody(stream[Current]) => connState = "ContentBody"
    BY <1>3 DEF Complete
  <2> QED
    <3>1. stream' = stream /\ ~finalizedHeaders' /\ connState' = connState
      BY <1>1, <1>2, <1>3 DEF Fixed
    <3>2. HeadOf(Len(dispatched))'
      BY <1>1, <1>2, <1>3, <1>6 DEF Complete, HeadOf, Fixed
    <3> QED BY <2>1, <2>2, <3>1, <3>2 DEF InApp
<1>12. PhaseInv'
  BY <1>1, <1>3, <1>11 DEF PhaseInv, Busy, Idle
<1> QED BY <1>2, <1>9, <1>10, <1>12, FixedStep DEF HttpInv

\* When all that arrived belongs to requests that were answered, the buffer is empty.
LEMMA BufferEmpty ==
    ASSUME HttpInv, Busy, arrived <= ends[Len(dispatched)]
    PROVE  last = bufSize
<1>1. taken - bufSize + last = ends[Len(dispatched)]
  BY BusyInApp DEF InApp
<1> QED BY <1>1 DEF HttpInv, ReadInv

\* The request is answered: the connection closes, or the next request begins where
\* this one ended.
LEMMA FinishedStep ==
    ASSUME HttpInv, IInv', Busy, NEW connection, Finish(connection, ResetData),
           suspended' = FALSE, pc' \in {"idle", "loop"}, UNCHANGED <<Fixed, arrived, taken, dispatched>>,
           pc' = "loop" => pc = "app",
           pc = "app" /\ connection = "Close" => connState = "ContentBody" \/ last = bufSize
    PROVE  HttpInv'
<1> DEFINE n == Len(dispatched)
<1>1. /\ ~finalized /\ InApp /\ (pc = "idle" \/ sock = "connected")
      /\ n \in 1 .. Len(stream) /\ answered + 1 = n /\ Current = n + 1
  BY BusyInApp DEF Current
<1>2. /\ processing' = processing - 1 /\ answered' = answered + 1
  BY <1>1 DEF Finish
<1>3. processing' = 0
  BY <1>1, <1>2 DEF HttpInv, IInv, CountInv, CountTypes
<1>4. ~Busy' /\ UNCHANGED Fixed
  BY DEF Busy
<1>5. \A i : Sent(i)' = Sent(i)
  BY <1>4 DEF Fixed, Sent
<1>6. AnswerInv'
  <2>1. dispatched' = dispatched /\ stream' = stream /\ habits' = habits /\ ends' = ends /\ arrived' = arrived
    BY <1>4 DEF Fixed
  <2>2. SeenAsSent'
    BY <1>5, <2>1 DEF HttpInv, AnswerInv, SeenAsSent
  <2>3. answered' \in Nat /\ answered' = n
    BY <1>1, <1>2, Types
  <2>4. ASSUME "pipelines" \notin habits, n < Len(stream) PROVE arrived <= ends[n + 1]
    <3>1. arrived <= ends[n]
      BY <1>1, <2>4, Types DEF HttpInv, AnswerInv
    <3>2. n + 1 \in 1 .. Len(stream) /\ n < n + 1
      BY <1>1, <2>4, Types
    <3>3. ends[n] < ends[n + 1] /\ ends[n] \in Nat /\ ends[n + 1] \in Nat /\ arrived \in Nat
      BY <1>1, <3>2 DEF HttpInv, TextInv, ReadInv
    <3> QED BY <3>1, <3>3
  <2>5. answered' = Len(dispatched') - 0
    BY <2>1, <2>3
  <2>6. dispatched' \in Seq(Requests)
    BY <2>1 DEF HttpInv, AnswerInv
  <2> HIDE DEF n
  <2> QED BY <1>4, <2>1, <2>2, <2>3, <2>4, <2>5, <2>6 DEF AnswerInv
<1>7. CASE /\ finalized' = TRUE /\ sock' # "connected" /\ UNCHANGED parser
           /\ pc' = "loop" => connState = "ContentBody" \/ last = bufSize
  <2>1. ReadInv'
    BY <1>7, <1>4 DEF parser, Fixed, HttpInv, ReadInv
  <2>2. PhaseInv'
    BY <1>3, <1>4, <1>7 DEF PhaseInv, Done, parser
  <2> QED BY <1>4, <1>6, <2>1, <2>2, FixedStep DEF HttpInv
<1>8. CASE ResetData /\ sock' = "connected"
  <2>1. /\ bufSize' = bufSize - last /\ last' = 0 /\ beginLine' = 0 /\ connState' = "MethodLine"
        /\ headerConnection' = "NotSet" /\ finalizedHeaders' = FALSE /\ finalized' = FALSE
    BY <1>8 DEF ResetData
  <2>2. ReadInv'
    <3>1. ReadInv /\ text' = text /\ arrived' = arrived /\ taken' = taken
      BY DEF Fixed, HttpInv
    <3>2. bufSize - last \in Nat /\ bufSize - last <= taken /\ bufSize - last <= BufferSize
      BY <3>1, SizesAssumption DEF ReadInv
    <3> QED BY <2>1, <3>1, <3>2 DEF ReadInv
  <2>3. AtLine'
    <3>1. Current' = Current /\ Start(Current)' = Start(Current) /\ Len(stream') = Len(stream)
      BY <1>4 DEF Current, Start, Fixed
    <3>2. Start(Current) = ends[n]
      BY <1>1, Ends DEF HttpInv
    <3>3. taken' - bufSize' = Start(Current)
      BY <1>1, <2>1, <3>2 DEF InApp, HttpInv, ReadInv
    <3>4. Current <= Len(stream) + 1
      BY <1>1, Types
    <3>5. Cursor' = Start(Current)
      BY <1>1, <2>1, <3>2, <3>3, Types DEF Cursor, HttpInv, TextInv
    <3> QED BY <2>1, <3>1, <3>3, <3>4, <3>5 DEF AtLine
  <2>4. PhaseInv'
    BY <1>4, <1>8, <2>1, <2>3 DEF PhaseInv, Idle
  <2> QED BY <1>4, <1>6, <2>2, <2>4, FixedStep DEF HttpInv
<1>9. CASE /\ sock # "connected" /\ UNCHANGED <<sock, parser>> /\ finalized' = TRUE
  BY <1>1, <1>7, <1>9
<1>10. CASE /\ sock = "connected" /\ connection = "Close" /\ ConnectionClose(processing - 1)
            /\ UNCHANGED parser /\ finalized' = TRUE
  BY <1>7, <1>10 DEF ConnectionClose, Disconnected
<1>11. \/ sock # "connected" /\ UNCHANGED <<sock, parser>> /\ finalized' = TRUE
       \/ /\ sock = "connected" /\ connection = "Close" /\ ConnectionClose(processing - 1)
          /\ UNCHANGED parser /\ finalized' = TRUE
       \/ ResetData /\ sock' = "connected"
  BY <1>1 DEF Finish
<1> QED BY <1>8, <1>9, <1>10, <1>11

\* An answer that closes the connection leaves no line of another request to be parsed.
LEMMA ClosingIsLast ==
    ASSUME HttpInv, pc = "app", NEW header \in Answers,
           (IF finalizedHeaders THEN headerConnection ELSE WriteHeaders(header)) = "Close"
    PROVE  connState = "ContentBody" \/ last = bufSize
<1> DEFINE n == Len(dispatched)
<1>1. Busy /\ n \in 1 .. Len(stream) /\ answered + 1 = n /\ InApp
  BY BusyInApp DEF Busy
<1>2. CASE "pipelines" \notin habits \/ n = Len(stream)
  <2>1. arrived <= ends[n]
    <3>1. CASE "pipelines" \notin habits
      BY <1>1, <3>1, Types DEF HttpInv, AnswerInv
    <3>2. CASE n = Len(stream)
      BY <3>2 DEF HttpInv, ReadInv, TextInv
    <3> QED BY <1>2, <3>1, <3>2
  <2> QED BY <1>1, <2>1, BufferEmpty
<1>3. CASE "pipelines" \in habits /\ n # Len(stream)
  <2>1. n \in 1 .. Len(stream) - 1
    BY <1>1, <1>3, Types
  <2>2. stream[n] # "close" /\ ("closes" \in habits => HasBody(stream[n]))
    <3> HIDE DEF n
    <3> QED BY <1>3, <2>1 DEF HttpInv, Orderly
  <2>3. ~finalizedHeaders /\ HeadOf(n)
    BY <1>1 DEF InApp
  <2>4. headerConnection # "Close" /\ http11
    BY <2>2, <2>3 DEF HeadOf, Conn
  <2>5. header = "close"
    BY <2>3, <2>4 DEF WriteHeaders, Answers
  <2>6. "closes" \in habits
    BY <2>5 DEF Answers
  <2> QED BY <1>1, <2>2, <2>6 DEF InApp
<1> QED BY <1>2, <1>3

\* An answer at once.
LEMMA AnswerStep == ASSUME HttpInv, IInv', Answer PROVE HttpInv'
<1>1. PICK header \in Answers : Finalize(header)
  BY DEF Answer
<1> DEFINE connection == IF finalizedHeaders THEN headerConnection ELSE WriteHeaders(header)
<1>2. Finish(connection, ResetData)
  BY <1>1 DEF Finalize
<1>3. pc = "app" /\ pc' = back /\ UNCHANGED <<Fixed, arrived, taken, dispatched, suspended>> /\ Busy
  BY DEF Answer, wire, Fixed, Busy
<1>4. suspended' = FALSE /\ pc' \in {"idle", "loop"}
  BY <1>3 DEF HttpInv, IInv, SuspendInv, CountTypes
<1>5. connection = "Close" => connState = "ContentBody" \/ last = bufSize
  BY <1>3, ClosingIsLast
<1> HIDE DEF connection
<1> QED BY <1>2, <1>3, <1>4, <1>5, FinishedStep

\* An answer from a later event.
LEMMA LateAnswerStep == ASSUME HttpInv, IInv', LateAnswer PROVE HttpInv'
<1>1. PICK header \in Answers : Finalize(header)
  BY DEF LateAnswer
<1> DEFINE connection == IF finalizedHeaders THEN headerConnection ELSE WriteHeaders(header)
<1>2. Finish(connection, ResetData)
  BY <1>1 DEF Finalize
<1>3. /\ pc = "idle" /\ pc' = "idle" /\ suspended' = FALSE /\ Busy
      /\ UNCHANGED <<Fixed, arrived, taken, dispatched>>
  BY DEF LateAnswer, wire, Fixed, Busy
<1> HIDE DEF connection
<1> QED BY <1>2, <1>3, FinishedStep

\* A suspended request keeps what the parser knows of it.
LEMMA SuspendStep == ASSUME HttpInv, IInv', Suspend PROVE HttpInv'
<1>1. /\ pc = "app" /\ pc' = "idle" /\ suspended' = TRUE
      /\ UNCHANGED <<arrived, taken, parser, headerConnection, finalizedHeaders, finalized, dispatched,
                     answered>>
  BY DEF Suspend, wire, hist
<1>2. UNCHANGED Fixed
  BY DEF Suspend, wire, Fixed
<1>3. Busy /\ Busy'
  BY <1>1 DEF Busy
<1>4. ~finalized /\ InApp
  BY <1>3, BusyInApp
<1>5. InApp'
  BY <1>1, <1>2, <1>4 DEF InApp, parser, Fixed
<1>6. PhaseInv'
  BY <1>1, <1>3, <1>4, <1>5 DEF PhaseInv, Idle
<1>7. ReadInv'
  BY <1>1, <1>2 DEF HttpInv, ReadInv, parser, Fixed
<1>8. AnswerInv'
  BY <1>1, <1>2, <1>3, AnswerStays
<1> QED BY <1>2, <1>6, <1>7, <1>8, FixedStep DEF HttpInv

\* The first part of a streamed response decides that the connection stays open.
LEMMA WriteStep == ASSUME HttpInv, IInv', Write PROVE HttpInv'
<1>1. /\ Busy /\ Busy' /\ headerConnection' = "Keep" /\ finalizedHeaders' = TRUE
      /\ UNCHANGED <<arrived, taken, pc, sock, suspended, parser, finalized, dispatched, answered>>
  BY DEF Write, wire, socket, WriteHeaders, Busy
<1>2. UNCHANGED Fixed
  BY DEF Write, wire, Fixed
<1>3. ~finalized /\ InApp /\ (pc = "idle" \/ sock = "connected")
  BY <1>1, BusyInApp
<1>4. InApp'
  BY <1>1, <1>2, <1>3 DEF InApp, parser, Fixed
<1>5. PhaseInv'
  <2>1. pc \in {"idle", "app"} /\ (pc = "idle" => suspended)
    BY DEF Write
  <2> QED BY <1>1, <1>3, <1>4, <2>1 DEF PhaseInv, Idle
<1>6. ReadInv'
  BY <1>1, <1>2 DEF HttpInv, ReadInv, parser, Fixed
<1>7. AnswerInv'
  BY <1>1, <1>2, AnswerStays
<1> QED BY <1>2, <1>5, <1>6, <1>7, FixedStep DEF HttpInv

----------------------------------------------------------------------------
(* The network, and the end of a connection.                                *)

\* A connection that rests keeps its invariant when only its socket and its counts change.
LEMMA SocketStep ==
    ASSUME HttpInv, IInv', pc = "idle",
           UNCHANGED <<Fixed, arrived, taken, pc, parser, headerConnection, finalizedHeaders, finalized,
                       suspended, dispatched, answered>>,
           sock # "connected" => sock' # "connected",
           processing' = processing
    PROVE  HttpInv'
<1>1. Busy' = Busy
  BY DEF Busy
<1>2. AnswerInv'
  BY <1>1, AnswerStays
<1>3. ReadInv'
  BY DEF HttpInv, ReadInv, parser, Fixed
<1>4. PhaseInv'
  <2>1. CASE finalized
    BY <1>1, <2>1 DEF HttpInv, PhaseInv, Done
  <2>2. CASE ~finalized /\ Busy
    <3>1. InApp'
      BY <2>2, BusyInApp DEF InApp, parser, Fixed
    <3>2. suspended
      BY <2>2 DEF Busy
    <3> QED BY <1>1, <2>2, <3>1, <3>2 DEF PhaseInv, Idle
  <2>3. CASE ~finalized /\ ~Busy
    <3>1. ~finalizedHeaders
      BY <2>3 DEF HttpInv, PhaseInv
    <3>2. ASSUME Idle', connState # "ContentBody" PROVE AtLine'
      <4>1. AtLine
        BY <3>2, <2>3 DEF HttpInv, PhaseInv, Idle
      <4> QED BY <4>1 DEF AtLine, AtHeader, Cursor, Current, Start, Fixed, parser
    <3>3. ASSUME Idle', connState = "ContentBody" PROVE InBody'
      <4>1. InBody
        BY <3>3, <2>3 DEF HttpInv, PhaseInv, Idle
      <4> QED BY <4>1 DEF InBody, HeadOf, Current, Start, Fixed, parser
    <3>4. connState' = connState
      BY DEF parser
    <3> QED BY <1>1, <2>3, <3>1, <3>2, <3>3, <3>4 DEF PhaseInv, Idle
  <2> QED BY <2>1, <2>2, <2>3
<1> QED BY <1>2, <1>3, <1>4, FixedStep DEF HttpInv

\* The client goes away.
LEMMA PeerClosesStep == ASSUME HttpInv, IInv', PeerCloses PROVE HttpInv'
<1>1. /\ pc = "idle" /\ sock' = "closed" /\ processing' = processing
      /\ UNCHANGED <<Fixed, arrived, taken, pc, parser, headerConnection, finalizedHeaders, finalized,
                     suspended, dispatched, answered>>
  BY DEF PeerCloses, Disconnected, Fixed, wire, status, hist
<1> QED BY <1>1, SocketStep

\* The connection is marked by the timeout, or closed.
LEMMA TimeoutStep == ASSUME HttpInv, IInv', TimeoutConnection PROVE HttpInv'
<1>1. /\ pc = "idle" /\ processing' = processing /\ sock = "connected"
      /\ UNCHANGED <<Fixed, arrived, taken, pc, parser, headerConnection, finalizedHeaders, finalized,
                     suspended, dispatched, answered>>
  BY DEF TimeoutConnection, Fixed, wire, status, hist
<1> QED BY <1>1, SocketStep

\* A shutdown closes the connection, or has the request in progress close it.
LEMMA ShutdownStep == ASSUME HttpInv, IInv', Shutdown PROVE HttpInv'
<1>1. /\ pc = "idle" /\ processing' = processing
      /\ UNCHANGED <<Fixed, arrived, taken, pc, parser, finalizedHeaders, finalized,
                     suspended, dispatched, answered>>
  BY DEF Shutdown, Fixed, wire, status, hist
<1>2. CASE processing = 0
  <2>1. headerConnection' = headerConnection /\ (sock # "connected" => sock' # "connected")
    BY <1>2 DEF Shutdown
  <2> QED BY <1>1, <2>1, SocketStep
<1>3. CASE processing # 0
  <2>1. ~finalized /\ suspended
    BY <1>1, <1>3 DEF HttpInv, PhaseInv, Done, IInv, CountInv, Busy
  <2>2. Busy /\ Busy'
    BY <1>1, <2>1 DEF Busy
  <2>3. InApp'
    BY <1>1, <2>2, BusyInApp DEF InApp, parser, Fixed
  <2>4. PhaseInv'
    BY <1>1, <2>1, <2>2, <2>3 DEF PhaseInv, Idle
  <2>5. ReadInv'
    BY <1>1 DEF HttpInv, ReadInv, parser, Fixed
  <2>6. AnswerInv'
    BY <1>1, <2>2, AnswerStays
  <2> QED BY <1>1, <2>4, <2>5, <2>6, FixedStep DEF HttpInv
<1> QED BY <1>2, <1>3

\* The phase of the parser depends on nothing else.
LEMMA PhaseStays ==
    ASSUME HttpInv,
           UNCHANGED <<Fixed, taken, pc, parser, headerConnection, finalizedHeaders, finalized, suspended,
                       processing, sock, dispatched>>
    PROVE  PhaseInv'
<1>1. Busy' = Busy
  BY DEF Busy
<1>2. CASE finalized
  BY <1>1, <1>2 DEF HttpInv, PhaseInv, Done, parser
<1>3. CASE ~finalized
  <2>1. InApp => InApp'
    BY DEF InApp, HeadOf, parser, Fixed
  <2>2. Complete => Complete'
    BY DEF Complete, HeadOf, Current, parser, Fixed
  <2>3. InBody => InBody'
    BY DEF InBody, HeadOf, Current, Start, parser, Fixed
  <2>4. AtLine => AtLine'
    BY DEF AtLine, AtHeader, Cursor, Current, Start, Fixed, parser
  <2>5. (Idle' <=> Idle) /\ connState' = connState
    BY DEF Idle, parser
  <2> QED BY <1>1, <1>3, <2>1, <2>2, <2>3, <2>4, <2>5 DEF HttpInv, PhaseInv
<1> QED BY <1>2, <1>3

\* What arrives ends a request where the client waits, and no line between CR and LF.
LEMMA SendStep == ASSUME HttpInv, IInv', Send PROVE HttpInv'
<1>1. PICK to \in arrived + 1 .. Len(text) :
          /\ "pipelines" \notin habits /\ answered < Len(stream) => to <= ends[answered + 1]
          /\ "splits" \notin habits => ~Splits(to)
          /\ arrived' = to
  BY DEF Send
<1>2. UNCHANGED <<Fixed, taken, pc, parser, headerConnection, finalizedHeaders, finalized, suspended,
                  processing, sock, dispatched, answered>>
  BY DEF Send, Fixed, status, socket, hist
<1>3. text[to] # "CR"
  BY <1>1 DEF Splits, HttpInv, Orderly
<1>4. to \in Nat /\ arrived <= to /\ to <= Len(text)
  BY Types DEF HttpInv, ReadInv
<1>5. ReadInv'
  BY <1>1, <1>2, <1>3, <1>4 DEF HttpInv, ReadInv, parser, Fixed
<1>6. Busy' = Busy
  BY <1>2 DEF Busy
<1>7. AnswerInv'
  <2>1. \A i : Sent(i)' = Sent(i)
    BY <1>2 DEF Fixed, Sent
  <2>2. SeenAsSent'
    BY <1>2, <2>1 DEF HttpInv, AnswerInv, SeenAsSent, Fixed
  <2> QED BY <1>1, <1>2, <1>6, <2>2 DEF HttpInv, AnswerInv, Fixed
<1>8. PhaseInv'
  BY <1>2, PhaseStays
<1> QED BY <1>2, <1>5, <1>7, <1>8, FixedStep DEF HttpInv

\* What is read into the buffer ends no line between CR and LF.
LEMMA ReadEndsWell ==
    ASSUME HttpInv, AtLine, ~Busy, ~finalized, NEW n, n = Smaller(Available, BufferSize - bufSize),
           taken + n > 0
    PROVE  text[taken + n] # "CR"
<1>1. /\ n \in Nat /\ taken + n <= arrived /\ arrived <= Len(text) /\ taken \in Nat /\ arrived \in Nat
      /\ taken + n = arrived \/ n = BufferSize - bufSize
  BY Types DEF Smaller, Available, HttpInv, ReadInv
<1>2. CASE taken + n = arrived
  BY <1>2 DEF HttpInv, ReadInv
<1>3. CASE n = BufferSize - bufSize
  <2>1. taken + n = Start(Current) + BufferSize
    BY <1>1, <1>3, Types DEF AtLine, HttpInv, ReadInv
  <2>2. BufferSize > 0
    BY SizesAssumption
  <2>3. Current \in 1 .. Len(stream)
    <3>1. Current # Len(stream) + 1
      BY <1>1, <2>1, <2>2, Behind, Types DEF HttpInv
    <3> QED BY <3>1, Types DEF AtLine
  <2>4. Start(Current) + BufferSize <= (IF "pipelines" \in habits THEN Len(text) ELSE ends[Current])
    <3>1. CASE "pipelines" \in habits
      BY <1>1, <2>1, <3>1, Types
    <3>2. CASE "pipelines" \notin habits
      <4>1. answered + 1 = Current /\ answered < Len(stream)
        BY <2>3, Types DEF HttpInv, AnswerInv, Current
      <4>2. arrived <= ends[Current] /\ ends[Current] \in Nat
        BY <2>3, <3>2, <4>1, Ends DEF HttpInv, AnswerInv
      <4> QED BY <1>1, <2>1, <3>2, <4>2
    <3> QED BY <3>1, <3>2
  <2> QED BY <2>1, <2>3, <2>4 DEF HttpInv, Orderly
<1> QED BY <1>1, <1>2, <1>3

\* More of the requests is read: into the buffer, or as the rest of a body.
LEMMA ReadyReadStep == ASSUME HttpInv, IInv', ReadyRead PROVE HttpInv'
<1>1. /\ pc = "idle" /\ sock = "connected"
      /\ UNCHANGED <<Fixed, arrived, last, beginLine, connState, contentLength, bodySize, method, http11,
                     headerConnection, finalizedHeaders, finalized, suspended, processing, sock,
                     dispatched, answered>>
  BY DEF ReadyRead, Fixed, wire, status, hist
<1>2. ~finalized
  BY <1>1 DEF HttpInv, IInv, CloseInv
<1>3. CASE UNCHANGED <<taken, bufSize, pc>>
  <2>1. UNCHANGED parser
    BY <1>1, <1>3 DEF parser
  <2> QED BY <1>1, <1>3, <2>1, SocketStep
<1>4. CASE ~async /\ connState = "ContentBody" /\ pc' = "body" /\ UNCHANGED <<taken, bufSize>>
  <2>1. ~suspended /\ ~Busy /\ ~Busy' /\ Busy' = Busy
    BY <1>1, <1>4 DEF HttpInv, IInv, SuspendInv, Busy
  <2>2. InBody /\ ~finalizedHeaders
    BY <1>1, <1>2, <1>4, <2>1 DEF HttpInv, PhaseInv, Idle
  <2>3. InBody'
    BY <1>1, <1>4, <2>2 DEF InBody, HeadOf, Current, Start, Fixed
  <2>4. PhaseInv'
    BY <1>1, <1>2, <1>4, <2>1, <2>2, <2>3 DEF PhaseInv, Idle
  <2>5. ReadInv'
    BY <1>1, <1>4 DEF HttpInv, ReadInv, Fixed
  <2>6. AnswerInv'
    BY <1>1, <2>1, AnswerStays
  <2> QED BY <1>1, <2>4, <2>5, <2>6, FixedStep DEF HttpInv
<1>5. CASE /\ ~async /\ connState # "ContentBody" /\ pc' = "loop"
           /\ LET n == Smaller(Available, BufferSize - bufSize)
              IN TakeFromSocket(n) /\ bufSize' = bufSize + n
  <2> DEFINE n == Smaller(Available, BufferSize - bufSize)
  <2>1. ~suspended /\ ~Busy /\ ~Busy' /\ Busy' = Busy
    BY <1>1, <1>5 DEF HttpInv, IInv, SuspendInv, Busy
  <2>2. AtLine /\ ~finalizedHeaders
    BY <1>1, <1>2, <1>5, <2>1 DEF HttpInv, PhaseInv, Idle
  <2>3. taken' = taken + n /\ bufSize' = bufSize + n
    BY <1>5 DEF TakeFromSocket
  <2>4. taken + n > 0 => text[taken + n] # "CR"
    BY <1>2, <2>1, <2>2, ReadEndsWell
  <2>5. n \in Nat /\ taken + n <= arrived /\ bufSize + n <= BufferSize
    BY Types DEF Smaller, Available, HttpInv, ReadInv
  <2> HIDE DEF n
  <2>6. ReadInv'
    BY <1>1, <2>3, <2>4, <2>5 DEF HttpInv, ReadInv, Fixed
  <2>7. taken' - bufSize' = taken - bufSize
    BY <2>3, <2>5 DEF HttpInv, ReadInv
  <2>8. AtLine'
    BY <1>1, <2>2, <2>7 DEF AtLine, AtHeader, Cursor, Current, Start, Fixed
  <2>9. PhaseInv'
    BY <1>1, <1>2, <1>5, <2>1, <2>2, <2>8 DEF PhaseInv, Idle
  <2>10. AnswerInv'
    BY <1>1, <2>1, AnswerStays
  <2> QED BY <1>1, <2>6, <2>9, <2>10, FixedStep DEF HttpInv
<1> QED BY <1>3, <1>4, <1>5 DEF ReadyRead

\* No step at all.
LEMMA StutterStep == ASSUME HttpInv, IInv', UNCHANGED vars PROVE HttpInv'
<1>1. /\ UNCHANGED <<Fixed, arrived, taken, pc, parser, headerConnection, finalizedHeaders, finalized,
                     suspended, dispatched, answered, processing, sock>>
  BY DEF vars, Fixed, wire, status, socket, hist
<1>2. Busy' = Busy
  BY <1>1 DEF Busy
<1>3. AnswerInv'
  BY <1>1, <1>2, AnswerStays
<1>4. ReadInv'
  BY <1>1 DEF HttpInv, ReadInv, parser, Fixed
<1>5. PhaseInv'
  BY <1>1, PhaseStays
<1> QED BY <1>1, <1>3, <1>4, <1>5, FixedStep DEF HttpInv

----------------------------------------------------------------------------
(* What is proved of the requests.                                          *)

\* A new connection.
LEMMA HttpInitInv == EitherInit /\ Orderly => HttpInv
<1> SUFFICES ASSUME EitherInit, Orderly PROVE HttpInv
  OBVIOUS
<1>1. Init
  BY DEF EitherInit, FcgiInit, Connected, Orderly, UsesFastCgi
<1>2. PICK s \in Scenarios : stream = s.stream /\ habits = s.habits
  BY <1>1 DEF Init, Connected
<1>3. /\ text = Text(HttpText, Len(stream))
      /\ ends = [i \in 1 .. Len(stream) |-> Len(Text(HttpText, i))]
  BY <1>1 DEF Init, Connected, HttpText
<1>4. stream \in Seq(Kinds) /\ Len(stream) > 0
  BY <1>2, ScenariosAssumption
<1>5. TextInv(HttpText)
  BY <1>3, <1>4, HttpEncoding, TextIsEncoded
<1>6. /\ arrived = 0 /\ taken = 0 /\ pc = "idle" /\ bufSize = 0 /\ last = 0 /\ beginLine = 0
      /\ connState = "MethodLine" /\ headerConnection = "NotSet" /\ finalizedHeaders = FALSE
      /\ finalized = FALSE /\ suspended = FALSE /\ sock = "connected"
      /\ dispatched = <<>> /\ answered = 0
  BY <1>1 DEF Init, Connected
<1>7. 1 \in 1 .. Len(stream) /\ Len(stream) \in Nat /\ Len(text) \in Nat /\ ends[1] \in Nat
  BY <1>4, <1>5, Ends DEF TextInv
<1>8. ReadInv
  BY <1>6, <1>7, SizesAssumption DEF ReadInv
<1>9. Len(dispatched) = 0 /\ dispatched \in Seq(Requests)
  BY <1>6
<1>10. AnswerInv
  BY <1>6, <1>7, <1>9 DEF AnswerInv, SeenAsSent, Busy
<1>11. AtLine
  BY <1>5, <1>6, <1>7, <1>9, Behind DEF AtLine, Current, Cursor
<1>12. PhaseInv
  BY <1>6, <1>11 DEF PhaseInv, Busy, Idle
<1>13. IInv
  BY InitInv
<1> QED BY <1>5, <1>8, <1>10, <1>12, <1>13 DEF HttpInv

\* The steps of a connection that speaks HTTP.
LEMMA HttpStep == HttpInv /\ IInv' /\ [Next]_vars => HttpInv'
<1> SUFFICES ASSUME HttpInv, IInv', [Next]_vars PROVE HttpInv'
  OBVIOUS
<1>1. CASE Parse
  BY <1>1, ReadBodyStep, LoopDoneStep, LineIncompleteStep, ParseMethodStep, ParseHeaderStep,
     HeadCompleteStep, BodyFailsStep, SkipLineStep, ProcessRequestStep DEF Parse
<1>2. CASE Application
  BY <1>2, AnswerStep, SuspendStep, WriteStep DEF Application
<1>3. CASE ReadyRead \/ LateAnswer
  BY <1>3, ReadyReadStep, LateAnswerStep
<1>4. CASE Send \/ PeerCloses \/ TimeoutConnection \/ Shutdown
  BY <1>4, SendStep, PeerClosesStep, TimeoutStep, ShutdownStep
<1>5. CASE Gone \/ UNCHANGED vars
  BY <1>5, StutterStep DEF Gone
<1> QED BY <1>1, <1>2, <1>3, <1>4, <1>5 DEF Next

\* No step changes what is chosen for the connection.
LEMMA FixedStays == [EitherNext]_cvars => UNCHANGED Fixed
<1> USE DEF Fixed, wire
<1>1. ASSUME Next PROVE UNCHANGED Fixed
  <2>1. CASE Parse
    BY <2>1 DEF Parse, ReadBody, LoopDone, LineIncomplete, ParseMethod, ParseHeader, HeadComplete,
                BodyFails, SkipLine, ProcessRequest
  <2>2. CASE Application
    BY <2>2 DEF Application, Answer, Suspend, Write
  <2>3. CASE ReadyRead \/ LateAnswer
    BY <2>3 DEF ReadyRead, LateAnswer
  <2>4. CASE Send \/ PeerCloses \/ TimeoutConnection \/ Shutdown \/ Gone
    BY <2>4 DEF Send, PeerCloses, TimeoutConnection, Shutdown, Gone, vars
  <2> QED BY <1>1, <2>1, <2>2, <2>3, <2>4 DEF Next
<1>2. ASSUME FcgiNext PROVE UNCHANGED Fixed
  <2>1. CASE FcgiParse
    BY <2>1 DEF FcgiParse, ReadRecords, ReadContent, ContentRead, RecordIncomplete, BeginRequest, Params,
                Stdin, StdinEnd, StdinFails
  <2>2. CASE FcgiAnswer \/ FcgiReadyRead \/ FcgiLateAnswer
    BY <2>2 DEF FcgiAnswer, FcgiReadyRead, FcgiLateAnswer
  <2>3. CASE Shared
    BY <2>3 DEF Shared, Send, PeerCloses, TimeoutConnection, Shutdown, Suspend, Gone, vars
  <2> QED BY <1>2, <2>1, <2>2, <2>3 DEF FcgiNext
<1>3. UNCHANGED cvars => UNCHANGED Fixed
  BY DEF cvars, vars
<1> QED BY <1>1, <1>2, <1>3 DEF EitherNext

\* A step of either protocol; an orderly client stays one.
LEMMA EitherHttpStep == IInv /\ (Orderly => HttpInv) /\ [EitherNext]_cvars => (Orderly => HttpInv)'
<1> SUFFICES ASSUME IInv, Orderly => HttpInv, [EitherNext]_cvars, Orderly' PROVE HttpInv'
  OBVIOUS
<1>1. habits' = habits /\ stream' = stream /\ text' = text /\ ends' = ends
  BY FixedStays DEF Fixed
<1>2. Orderly
  BY <1>1 DEF Orderly, Start, UsesFastCgi
<1>3. [Next]_vars
  BY <1>2 DEF EitherNext, cvars, Orderly
<1> QED BY <1>2, <1>3, EitherStepInv, HttpStep

\* With an orderly client the parser is always at the line, the body or the request that the
\* invariant says: ProtocolData agrees with what was read (protocolhttp.cpp:80-186).
THEOREM ParsedOrderly == EitherSpec => [](Orderly => HttpInv)
<1>1. EitherInit => (Orderly => HttpInv)
  BY HttpInitInv
<1> QED BY <1>1, AccountsKept, EitherHttpStep, PTL DEF EitherSpec

\* The application sees every request that an orderly client sends as it was sent, each
\* once and in order: for any number of requests, any segments, any size of the buffer
\* and of the bodies, pipelined or not, with answers at once, late or streamed, and
\* until the connection ends (protocolhttp.cpp:80-186,226-281,420-432).
THEOREM RequestsAsSent == EitherSpec => [](Orderly => SeenAsSent)
<1>1. (Orderly => HttpInv) => (Orderly => SeenAsSent)
  BY DEF HttpInv, AnswerInv
<1> QED BY <1>1, ParsedOrderly, PTL

\* With an orderly client the request in progress is counted exactly while its answer is
\* outstanding, also on a connection that an answer has closed, as no request is parsed
\* from what is left in the buffer (socket.cpp:43-64, protocolhttp.cpp:411-434).
THEOREM CountedExactly == EitherSpec => [](Orderly => ProcessingExact)
<1>1. (Orderly => HttpInv) => (Orderly => ProcessingExact)
  BY DEF HttpInv, IInv, CountTypes, SuspendInv, CountInv, ReleaseInv, PhaseInv, Done, Busy, ProcessingExact
<1> QED BY <1>1, ParsedOrderly, PTL
=============================================================================
