---------------------------- MODULE Http2_proofs ----------------------------
(***************************************************************************)
(* No stream sends beyond its window, and every request is dispatched as   *)
(* it was sent, for any number of streams, frames on their way and window  *)
(* sizes.                                                                  *)
(*                                                                         *)
(* What the client allows and what the server knows of it differ by the    *)
(* frames on their way.  Both proofs follow each stream along the wire: a  *)
(* view, or a stage, is what the server will know when it has read so many *)
(* frames, the first is what it knows now, the last is what the client     *)
(* knows.                                                                  *)
(***************************************************************************)
EXTENDS Http2Properties, FiniteSetTheorems, SequenceTheorems, TLAPS

\* What the theorem asks of the client and of the answers: it lowers no initial
\* window under open streams, segments end between frames, and an answer is
\* written by one call.
Steady == {"shrinks", "segment"} \cap Habits = {}
InOneWrite == \A writes \in Answers : Len(writes) <= 1
Assumed == Steady /\ InOneWrite

FrameTypes == {"headers", "continuation", "trailers", "data", "reset", "update", "settings"}
StreamFrames == {"headers", "continuation", "trailers", "data", "reset"}
FrameType  == [type : FrameTypes \cup {"preface", "other"}, s : Streams \cup {0}, end : BOOLEAN,
               whole : BOOLEAN, n : Int, size : Int, form : {"plain"} \cup Allowed]
StreamType == [state : {"open", "half", "closed"}, windowSize : Int, block : Seq(Int),
               consumedData : Int, contentLength : Int]
Phases == {"idle", "block", "open", "end", "reset"}
Runs   == {"none", "queued", "async", "writing", "waiting", "woken", "done"}

ClientTypes ==
    /\ wire \in Seq(FrameType) /\ phase \in [Streams -> Phases]
    /\ req \in [Streams -> RequestType] /\ left \in [Streams -> Nat]
    /\ streamCredit \in [Streams -> Int] /\ clientInitial \in Nat /\ connCredit \in Int
ServerTypes ==
    /\ stream \in [Streams -> StreamType \cup {NoStream}]
    /\ settingsInitialWindowSize \in Int /\ settingsMaxFrameSize \in Int /\ windowSize \in Int
    /\ headersBuffer \in Seq(Int)
ThreadTypes ==
    /\ run \in [Streams -> Runs] /\ todo \in [Streams -> Seq(Nat)]
    /\ queued \in Seq(Streams) /\ ended \subseteq Streams
TypesInv == ClientTypes /\ ServerTypes /\ ThreadTypes

\* The frames are whole, and after the preface there are those of the protocol.
WireInv ==
    \A i \in DOMAIN wire :
        /\ wire[i].form # "segment"
        /\ wire[i].type \in FrameTypes \/ (i = 1 /\ connState = "MethodLine")
        /\ wire[i].type \in StreamFrames => wire[i].s \in Streams

\* A stream is in the queue once, before it is answered.
QueuedInv ==
    /\ \A i \in DOMAIN queued : run[queued[i]] = "queued"
    /\ \A i, j \in DOMAIN queued : queued[i] = queued[j] => i = j

\* An answer belongs to a stream in the hash, and what is left of it was not ended.
RunInv(s) ==
    /\ Len(todo[s]) <= 1
    /\ todo[s] # <<>> => s \notin ended /\ run[s] \in {"writing", "waiting", "woken"}
    /\ run[s] \in {"none", "queued", "async"} => s \notin ended
    /\ run[s] \notin {"none", "done"} => stream[s] # NoStream
AnswersInv == \A s \in Streams : RunInv(s)

\* The windows of a stream matter while something may be sent on it.
Flowing(s) == s \notin ended /\ run[s] # "done"
Begun == {"block", "open", "end"}

\* What reading f makes of the view a of the stream s, of the request r.
View == [phase : Phases, initial : Int, window : Int]
Moves(f, r, a, b) ==
    \/ /\ f.type = "headers" /\ a.phase = "idle" /\ b.window = a.initial
       /\ f.end = EndsHeaders(r)
       /\ b.phase = IF f.whole THEN AfterBlock(r) ELSE "block"
    \/ /\ f.type = "continuation" /\ a.phase = "block" /\ b.window = a.window
       /\ f.whole /\ ~f.end /\ b.phase = AfterBlock(r)
    \/ /\ f.type = "data" /\ a.phase = "open" /\ b.window = a.window
       /\ b.phase = IF f.end THEN "end" ELSE "open"
    \/ /\ f.type = "trailers" /\ a.phase = "open" /\ b.window = a.window
       /\ f.whole /\ f.end /\ b.phase = "end"
    \/ /\ f.type = "reset" /\ a.phase \in {"open", "end"} /\ b.phase = "reset"
    \/ /\ f.type = "update" /\ a.phase \in {"open", "end"} /\ b.phase = a.phase
       /\ b.window = a.window + f.n
Reads(f, s, r, a, b) ==
    \/ /\ f.type = "settings" /\ b.phase = a.phase
       /\ b.initial = f.n /\ b.window = a.window + (f.n - a.initial)
    \/ f.type # "settings" /\ f.s # s /\ b = a
    \/ f.type # "settings" /\ f.s = s /\ b.initial = a.initial /\ Moves(f, r, a, b)

\* The first view, and the last.
ServerView(s, a) ==
    /\ a.initial = settingsInitialWindowSize
    /\ a.phase = "idle" => stream[s] = NoStream /\ run[s] = "none"
    /\ a.phase = "block" => /\ stream[s].state = IF EndsHeaders(req[s]) THEN "half" ELSE "open"
                            /\ run[s] = "none"
    /\ a.phase = "open" => stream[s].state = "open" /\ run[s] = "none"
    /\ a.phase = "end" => run[s] # "none"
    /\ a.phase = "reset" => stream[s] = NoStream \/ stream[s].state = "closed"
    /\ a.phase \in Begun /\ Flowing(s) => a.window = stream[s].windowSize
ClientView(s, z) ==
    /\ z.phase = phase[s] /\ z.initial = clientInitial
    /\ z.phase \in Begun /\ Flowing(s) => z.window = streamCredit[s]

Between(s, v) ==
    /\ \A i \in 1 .. Len(wire) : Reads(wire[i], s, req[s], v[i], v[i + 1])
    /\ \A i, j \in 1 .. Len(wire) + 1 :
          i <= j /\ v[j].phase = "idle" => v[i].phase = "idle"
    /\ \A i \in 1 .. Len(wire) + 1 :
          v[i].phase \in Begun /\ Flowing(s) => v[i].window <= streamCredit[s]
Views(s, v) ==
    /\ v \in [1 .. Len(wire) + 1 -> View]
    /\ ServerView(s, v[1]) /\ ClientView(s, v[Len(wire) + 1]) /\ Between(s, v)
Follows(s) == \E v : Views(s, v)

WindowInv ==
    /\ TypesInv /\ WireInv /\ QueuedInv /\ AnswersInv /\ ~spinning
    /\ StreamWindowRespected
    /\ connected => \A s \in Streams : Follows(s)

----------------------------------------------------------------------------
(* The views after a step.                                                  *)

\* A stream that the client did not open is idle in all views.
LEMMA IdleViews ==
    ASSUME NEW s \in Streams, wire \in Seq(FrameType), NEW v, Views(s, v), phase[s] = "idle",
           NEW i \in 1 .. Len(wire) + 1
    PROVE  v[i].phase = "idle"
<1>1. Len(wire) \in Nat /\ Len(wire) + 1 \in 1 .. Len(wire) + 1 /\ i <= Len(wire) + 1
  OBVIOUS
<1>2. v[Len(wire) + 1].phase = "idle"
  BY DEF Views, ClientView
<1> QED BY <1>1, <1>2 DEF Views, Between

\* A stream that the server knows is idle in none.
LEMMA KnownViews ==
    ASSUME NEW s \in Streams, wire \in Seq(FrameType), NEW v, Views(s, v), run[s] # "none",
           NEW i \in 1 .. Len(wire) + 1
    PROVE  v[i].phase # "idle"
<1>1. Len(wire) \in Nat /\ 1 \in 1 .. Len(wire) + 1 /\ 1 <= i
  OBVIOUS
<1>2. v[1].phase # "idle"
  BY DEF Views, ServerView
<1> QED BY <1>1, <1>2 DEF Views, Between

LEMMA NeverIdleAgain ==
    ASSUME NEW f \in FrameType, NEW s, NEW r, NEW a \in View, NEW b \in View,
           Reads(f, s, r, a, b), b.phase = "idle"
    PROVE  a.phase = "idle"
BY DEF Reads, Moves, AfterBlock

\* A frame that is sent adds a view.
LEMMA ViewsAppend ==
    ASSUME NEW s \in Streams, wire \in Seq(FrameType), NEW v, Views(s, v),
           NEW f \in FrameType, wire' = Append(wire, f),
           NEW b \in View, Reads(f, s, req'[s], v[Len(wire) + 1], b),
           ServerView(s, v[1])', ClientView(s, b)',
           \A g \in FrameType, c \in View, d \in View :
              Reads(g, s, req[s], c, d) /\ (phase[s] = "idle" => c.phase = "idle" /\ d.phase = "idle")
                 => Reads(g, s, req'[s], c, d),
           \A c \in View :
              /\ c.phase \in Begun /\ Flowing(s)' /\ (phase[s] = "idle" => c.phase = "idle")
              /\ Flowing(s) => c.window <= streamCredit[s]
              => c.window <= streamCredit'[s],
           b.phase \in Begun /\ Flowing(s)' => b.window <= streamCredit'[s]
    PROVE  Follows(s)'
<1>0. PICK n : n = Len(wire)
  OBVIOUS
<1>a. PICK w : w = [i \in 1 .. n + 2 |-> IF i <= n + 1 THEN v[i] ELSE b]
  OBVIOUS
<1>1. n \in Nat /\ Len(wire') = n + 1 /\ v \in [1 .. n + 1 -> View]
  BY <1>0 DEF Views
<1>2. wire'[n + 1] = f /\ \A i \in 1 .. n : wire'[i] = wire[i] /\ wire[i] \in FrameType
  BY <1>0, <1>1
<1>3. /\ w \in [1 .. n + 2 -> View] /\ w[n + 2] = b /\ w[1] = v[1]
      /\ \A i \in 1 .. n + 1 : w[i] = v[i]
  BY <1>1, <1>a
<1>4. ASSUME NEW i \in 1 .. n + 1 PROVE Reads(wire'[i], s, req'[s], w[i], w[i + 1])
  <2>1. CASE i = n + 1
    BY <1>0, <1>1, <1>2, <1>3, <2>1
  <2>2. CASE i # n + 1
    <3>1. i \in 1 .. n /\ i \in 1 .. n + 1 /\ i + 1 \in 1 .. n + 1
      BY <1>1, <2>2
    <3>2. Reads(wire[i], s, req[s], v[i], v[i + 1])
      BY <1>0, <3>1 DEF Views, Between
    <3>3. phase[s] = "idle" => v[i].phase = "idle" /\ v[i + 1].phase = "idle"
      BY <1>0, <3>1, IdleViews
    <3>4. v[i] \in View /\ v[i + 1] \in View
      BY <1>1, <3>1
    <3>5. wire[i] \in FrameType /\ wire'[i] = wire[i] /\ w[i] = v[i] /\ w[i + 1] = v[i + 1]
      BY <1>2, <1>3, <3>1
    <3> QED BY <3>2, <3>3, <3>4, <3>5
  <2> QED BY <2>1, <2>2
<1>5. ASSUME NEW i \in 1 .. n + 2, w[i].phase \in Begun, Flowing(s)'
      PROVE  w[i].window <= streamCredit'[s]
  <2>1. CASE i = n + 2
    BY <1>3, <1>5, <2>1
  <2>2. CASE i # n + 2
    <3>1. i \in 1 .. n + 1 /\ w[i] = v[i] /\ v[i] \in View
      BY <1>1, <1>3, <2>2
    <3>2. /\ phase[s] = "idle" => v[i].phase = "idle"
          /\ v[i].phase \in Begun /\ Flowing(s) => v[i].window <= streamCredit[s]
      BY <1>0, <3>1, IdleViews DEF Views, Between
    <3> QED BY <1>5, <3>1, <3>2
  <2> QED BY <2>1, <2>2
<1>6. ASSUME NEW i \in 1 .. n + 2, NEW j \in 1 .. n + 2, i <= j, w[j].phase = "idle"
      PROVE  w[i].phase = "idle"
  <2>0. \A k \in 1 .. n + 1 : v[n + 1].phase = "idle" => v[k].phase = "idle"
    BY <1>0, <1>1 DEF Views, Between
  <2>1. b.phase = "idle" => v[n + 1].phase = "idle"
    BY <1>0, <1>1, NeverIdleAgain
  <2>2. CASE j = n + 2
    <3>1. i = n + 2 \/ i \in 1 .. n + 1
      BY <1>1
    <3> QED BY <1>3, <1>6, <2>0, <2>1, <2>2, <3>1
  <2>3. CASE j # n + 2
    <3>1. i \in 1 .. n + 1 /\ j \in 1 .. n + 1
      BY <1>1, <1>6, <2>3
    <3> QED BY <1>0, <1>3, <1>6, <3>1 DEF Views, Between
  <2> QED BY <2>2, <2>3
<1>7. Len(wire') + 1 = n + 2
  BY <1>1
<1>8. Between(s, w)'
  BY <1>1, <1>4, <1>5, <1>6, <1>7 DEF Between
<1>9. Views(s, w)'
  BY <1>3, <1>7, <1>8 DEF Views
<1> QED BY <1>9 DEF Follows

\* A frame that is read is dropped with its view.
LEMMA ViewsTail ==
    ASSUME NEW s \in Streams, wire \in Seq(FrameType), NEW v, Views(s, v),
           wire # <<>>, wire' = Tail(wire), ServerView(s, v[2])',
           UNCHANGED <<req, phase, clientInitial, streamCredit>>, Flowing(s)' => Flowing(s)
    PROVE  Follows(s)'
<1>0. PICK n : n = Len(wire)
  OBVIOUS
<1>a. PICK w : w = [i \in 1 .. n |-> v[i + 1]]
  OBVIOUS
<1>1. n \in Nat \ {0} /\ Len(wire') = n - 1 /\ v \in [1 .. n + 1 -> View]
  BY <1>0 DEF Views
<1>2. \A i \in 1 .. n - 1 : wire'[i] = wire[i + 1]
  BY <1>0, <1>1
<1>3. /\ w \in [1 .. n -> View] /\ \A i \in 1 .. n : w[i] = v[i + 1] /\ i + 1 \in 1 .. n + 1
      /\ Len(wire') + 1 = n
  BY <1>1, <1>a
<1>4. ASSUME NEW i \in 1 .. n - 1 PROVE Reads(wire'[i], s, req'[s], w[i], w[i + 1])
  <2>1. i + 1 \in 1 .. n /\ i \in 1 .. n
    BY <1>1
  <2>2. Reads(wire[i + 1], s, req[s], v[i + 1], v[i + 1 + 1])
    BY <1>0, <2>1 DEF Views, Between
  <2>3. wire'[i] = wire[i + 1] /\ w[i] = v[i + 1] /\ w[i + 1] = v[i + 1 + 1]
    BY <1>2, <1>3, <2>1
  <2> QED BY <2>2, <2>3
<1>5. ASSUME NEW i \in 1 .. n, w[i].phase \in Begun, Flowing(s)'
      PROVE  w[i].window <= streamCredit'[s]
  <2>1. i + 1 \in 1 .. n + 1 /\ w[i] = v[i + 1]
    BY <1>3
  <2> QED BY <1>0, <1>5, <2>1 DEF Views, Between
<1>6. ASSUME NEW i \in 1 .. n, NEW j \in 1 .. n, i <= j, w[j].phase = "idle"
      PROVE  w[i].phase = "idle"
  <2>1. /\ i + 1 \in 1 .. n + 1 /\ j + 1 \in 1 .. n + 1 /\ i + 1 <= j + 1
        /\ w[i] = v[i + 1] /\ w[j] = v[j + 1]
    BY <1>1, <1>3, <1>6
  <2> QED BY <1>0, <1>6, <2>1 DEF Views, Between
<1>7. ClientView(s, w[n])'
  <2>1. w[n] = v[n + 1]
    BY <1>1, <1>3
  <2>2. ClientView(s, v[n + 1])
    BY <1>0 DEF Views
  <2> QED BY <2>1, <2>2 DEF ClientView
<1>8. Between(s, w)'
  BY <1>1, <1>3, <1>4, <1>5, <1>6 DEF Between
<1>9. w[1] = v[2]
  BY <1>1, <1>3
<1>10. Views(s, w)'
  BY <1>3, <1>7, <1>8, <1>9 DEF Views
<1> QED BY <1>10 DEF Follows

\* What is sent of an answer is taken from all of the windows.
Less(a, k) == [a EXCEPT !.window = @ - k]

LEMMA LessType ==
    ASSUME NEW a \in View, NEW k \in Int
    PROVE  /\ Less(a, k) \in View /\ Less(a, k).phase = a.phase
           /\ Less(a, k).initial = a.initial /\ Less(a, k).window = a.window - k
BY DEF View, Less

LEMMA LessReads ==
    ASSUME NEW f \in FrameType, NEW s, NEW r, NEW a \in View, NEW b \in View, NEW k \in Int,
           Reads(f, s, r, a, b), a.phase # "idle"
    PROVE  Reads(f, s, r, Less(a, k), Less(b, k))
<1> DEFINE c == Less(a, k)
           d == Less(b, k)
<1>1. /\ c.phase = a.phase /\ c.initial = a.initial /\ c.window = a.window - k
      /\ d.phase = b.phase /\ d.initial = b.initial /\ d.window = b.window - k
  BY LessType
<1>2. b = a => d = c
  OBVIOUS
<1>3. /\ a.window \in Int /\ a.initial \in Int /\ b.window \in Int /\ f.n \in Int
  BY DEF View, FrameType
<1> HIDE DEF c, d
<1>4. Moves(f, r, a, b) => Moves(f, r, c, d)
  BY <1>1, <1>3 DEF Moves
<1> QED BY <1>1, <1>2, <1>3, <1>4 DEF Reads, c, d

LEMMA ViewsLess ==
    ASSUME NEW s \in Streams, wire \in Seq(FrameType), NEW v, Views(s, v), run[s] # "none",
           NEW k \in Int, streamCredit[s] \in Int, streamCredit'[s] = streamCredit[s] - k,
           UNCHANGED <<wire, req, phase, clientInitial>>, Flowing(s)' => Flowing(s),
           ServerView(s, Less(v[1], k))'
    PROVE  Follows(s)'
<1>0. PICK n : n = Len(wire)
  OBVIOUS
<1>a. PICK w : w = [i \in 1 .. n + 1 |-> Less(v[i], k)]
  OBVIOUS
<1>1. n \in Nat /\ v \in [1 .. n + 1 -> View] /\ wire' = wire
  BY <1>0 DEF Views
<1>2. ASSUME NEW i \in 1 .. n + 1
      PROVE  /\ w[i] = Less(v[i], k) /\ w[i] \in View /\ v[i] \in View
             /\ w[i].phase = v[i].phase /\ w[i].initial = v[i].initial
             /\ w[i].window = v[i].window - k /\ v[i].window \in Int
  BY <1>1, <1>a, LessType DEF View
<1>3. w \in [1 .. n + 1 -> View]
  BY <1>2, <1>a
<1>4. ASSUME NEW i \in 1 .. n PROVE Reads(wire'[i], s, req'[s], w[i], w[i + 1])
  <2>1. i \in 1 .. n + 1 /\ i + 1 \in 1 .. n + 1 /\ wire[i] \in FrameType
    BY <1>0, <1>1
  <2>2. Reads(wire[i], s, req[s], v[i], v[i + 1])
    BY <1>0 DEF Views, Between
  <2>3. v[i].phase # "idle"
    BY <1>0, <2>1, KnownViews
  <2> QED BY <1>1, <1>2, <2>1, <2>2, <2>3, LessReads
<1>5. ASSUME NEW i \in 1 .. n + 1, w[i].phase \in Begun, Flowing(s)'
      PROVE  w[i].window <= streamCredit'[s]
  <2>1. v[i].window <= streamCredit[s]
    BY <1>0, <1>2, <1>5 DEF Views, Between
  <2> QED BY <1>2, <2>1
<1>6. ASSUME NEW i \in 1 .. n + 1, NEW j \in 1 .. n + 1, i <= j, w[j].phase = "idle"
      PROVE  w[i].phase = "idle"
  BY <1>0, <1>2, <1>6 DEF Views, Between
<1>7. ClientView(s, w[n + 1])'
  <2>1. n + 1 \in 1 .. n + 1
    BY <1>1
  <2>2. ClientView(s, v[n + 1])
    BY <1>0 DEF Views
  <2> QED BY <1>2, <2>1, <2>2 DEF ClientView
<1>8. Between(s, w)'
  BY <1>0, <1>1, <1>4, <1>5, <1>6 DEF Between
<1>9. w[1] = Less(v[1], k)
  BY <1>1, <1>2
<1>10. Views(s, w)'
  BY <1>0, <1>1, <1>3, <1>7, <1>8, <1>9 DEF Views
<1> QED BY <1>10 DEF Follows

\* A step of the server that sends nothing of the stream.
LEMMA ViewsKept ==
    ASSUME NEW s \in Streams, NEW v, Views(s, v), ServerView(s, v[1])',
           streamCredit'[s] = streamCredit[s],
           UNCHANGED <<wire, req, phase, clientInitial>>, Flowing(s)' => Flowing(s)
    PROVE  Follows(s)'
<1>1. Between(s, v)' /\ ClientView(s, v[Len(wire) + 1])'
  BY DEF Views, Between, ClientView
<1> QED BY <1>1 DEF Views, Follows

----------------------------------------------------------------------------
(* The client sends.                                                        *)

\* A frame may be padded or large, which matters neither to the windows nor here.
LEMMA WholeSegments ==
    ASSUME Assumed, NEW h \in FrameType, Sends(h)
    PROVE  \E f \in FrameType :
              /\ wire' = Append(wire, f) /\ f.form # "segment" /\ f.type = h.type /\ f.s = h.s
              /\ f.end = h.end /\ f.whole = h.whole /\ f.n = h.n
<1>1. PICK form \in Forms(h.type) : wire' = Append(wire, [h EXCEPT !.form = form])
  BY DEF Sends
<1>2. form \in {"plain"} \cup Allowed /\ form # "segment"
  BY Http2Assumption DEF Forms, Assumed, Steady
<1>3. PICK f : f = [h EXCEPT !.form = form]
  OBVIOUS
<1>4. /\ f \in FrameType /\ f.form = form /\ f.type = h.type /\ f.s = h.s
      /\ f.end = h.end /\ f.whole = h.whole /\ f.n = h.n
  BY <1>2, <1>3 DEF FrameType
<1> QED BY <1>1, <1>2, <1>3, <1>4

\* What a step of the client leaves alone, and what all of them keep.
ServerUnchanged == UNCHANGED <<ended, socket, parser, windowSize, stream, seen, thread>>

LEMMA ServerViewKept ==
    ASSUME NEW s \in Streams, NEW a, ServerView(s, a), ServerUnchanged,
           req'[s] = req[s] \/ a.phase # "block"
    PROVE  ServerView(s, a)' /\ (Flowing(s)' <=> Flowing(s))
BY DEF ServerView, ServerUnchanged, Flowing, thread, parser, settings

LEMMA Sent2Another ==
    ASSUME NEW s \in Streams, wire \in Seq(FrameType), Follows(s), ServerUnchanged,
           NEW f \in FrameType, wire' = Append(wire, f), f.type # "settings", f.s # s,
           req'[s] = req[s], phase'[s] = phase[s], streamCredit'[s] = streamCredit[s],
           clientInitial' = clientInitial
    PROVE  Follows(s)'
<1>1. PICK v : Views(s, v)
  BY DEF Follows
<1>2. PICK b : b = v[Len(wire) + 1]
  OBVIOUS
<1>3. Len(wire) + 1 \in 1 .. Len(wire) + 1
  OBVIOUS
<1>4. b \in View
  BY <1>1, <1>2, <1>3 DEF Views
<1>5. Reads(f, s, req'[s], b, b)
  BY DEF Reads
<1>6. ServerView(s, v[1])' /\ (Flowing(s)' <=> Flowing(s))
  BY <1>1, ServerViewKept DEF Views
<1>7. ClientView(s, b)'
  BY <1>1, <1>2, <1>6 DEF Views, ClientView
<1>8. b.phase \in Begun /\ Flowing(s) => b.window <= streamCredit[s]
  BY <1>1, <1>2, <1>3 DEF Views, Between
<1> QED BY <1>1, <1>2, <1>4, <1>5, <1>6, <1>7, <1>8, ViewsAppend

LEMMA ClientKeeps ==
    ASSUME WindowInv, ServerUnchanged, NEW f \in FrameType, f.type \in FrameTypes, f.form # "segment",
           f.type \in StreamFrames => f.s \in Streams,
           wire' = Append(wire, f), ClientTypes', StreamWindowRespected',
           \A s \in Streams : Follows(s)'
    PROVE  WindowInv'
<1>1. wire \in Seq(FrameType) /\ ~spinning' /\ ServerTypes' /\ ThreadTypes'
  BY DEF WindowInv, TypesInv, ClientTypes, ServerUnchanged, ServerTypes, ThreadTypes, socket, parser,
         settings, thread
<1>2. QueuedInv' /\ AnswersInv'
  BY DEF WindowInv, ServerUnchanged, QueuedInv, AnswersInv, RunInv, thread
<1>3. WireInv'
  <2>0. connState' = connState
    BY DEF ServerUnchanged, socket
  <2>1. ASSUME NEW i \in DOMAIN wire'
        PROVE  /\ wire'[i].form # "segment" /\ (wire'[i].type \in FrameTypes \/ (i = 1 /\ connState = "MethodLine"))
               /\ wire'[i].type \in StreamFrames => wire'[i].s \in Streams
    <3>1. CASE i \in DOMAIN wire
      BY <1>1, <3>1 DEF WindowInv, WireInv
    <3>2. CASE i = Len(wire) + 1
      BY <1>1, <3>2
    <3> QED BY <1>1, <3>1, <3>2
  <2> QED BY <2>0, <2>1 DEF WireInv
<1> QED BY <1>1, <1>2, <1>3 DEF WindowInv, TypesInv

\* A frame of one stream.
OnlyOf(s) == \A t \in Streams \ {s} :
                 /\ req'[t] = req[t] /\ phase'[t] = phase[t] /\ streamCredit'[t] = streamCredit[t]

LEMMA FrameSent ==
    ASSUME WindowInv, NEW s \in Streams, OnlyOf(s), ServerUnchanged, ClientTypes',
           NEW f \in FrameType, f.type \in FrameTypes \ {"settings"}, f.s = s, f.form # "segment",
           wire' = Append(wire, f), clientInitial' = clientInitial, connected,
           req'[s] = req[s] \/ phase[s] = "idle",
           streamCredit'[s] >= streamCredit[s] \/ phase[s] = "idle", streamCredit'[s] >= 0,
           \A a \in View : ClientView(s, a) =>
              \E b \in View : Moves(f, req'[s], a, b) /\ ClientView(s, b)'
    PROVE  WindowInv'
<1>0. /\ wire \in Seq(FrameType) /\ streamCredit \in [Streams -> Int] /\ req \in [Streams -> RequestType]
      /\ phase \in [Streams -> Phases] /\ \A t \in Streams : Follows(t)
  BY DEF WindowInv, TypesInv, ClientTypes
<1>1. streamCredit' \in [Streams -> Int]
  BY DEF ClientTypes
<1>2. ASSUME NEW t \in Streams PROVE Follows(t)' /\ streamCredit'[t] >= 0
  <2>1. CASE t # s
    BY <1>0, <2>1, Sent2Another DEF WindowInv, StreamWindowRespected, OnlyOf
  <2>2. CASE t = s
    <3>1. PICK v : Views(s, v)
      BY <1>0 DEF Follows
    <3>2. PICK a : a = v[Len(wire) + 1]
      OBVIOUS
    <3>3. a \in View /\ ClientView(s, a)
      <4>1. Len(wire) + 1 \in 1 .. Len(wire) + 1
        BY <1>0
      <4> QED BY <3>1, <3>2, <4>1 DEF Views
    <3>4. PICK b \in View : Moves(f, req'[s], a, b) /\ ClientView(s, b)'
      BY <3>3
    <3>5. Reads(f, s, req'[s], a, b)
      BY <3>3, <3>4 DEF Reads, ClientView
    <3>6. req'[s] = req[s] \/ v[1].phase # "block"
      <4>1. CASE phase[s] = "idle"
        <5>1. v[1].phase = "idle"
          BY <1>0, <3>1, <4>1, IdleViews
        <5> QED BY <5>1
      <4> QED BY <4>1
    <3>7. ServerView(s, v[1])' /\ (Flowing(s)' <=> Flowing(s))
      BY <3>1, <3>6, ServerViewKept DEF Views
    <3>8. ASSUME NEW g \in FrameType, NEW x \in View, NEW y \in View, Reads(g, s, req[s], x, y),
                 phase[s] = "idle" => x.phase = "idle" /\ y.phase = "idle"
          PROVE  Reads(g, s, req'[s], x, y)
      <4>1. CASE req'[s] = req[s]
        BY <3>8, <4>1
      <4>2. CASE phase[s] = "idle"
        BY <3>8, <4>2 DEF Reads, Moves, AfterBlock
      <4> QED BY <4>1, <4>2
    <3>9. ASSUME NEW x \in View, x.phase \in Begun, Flowing(s), phase[s] = "idle" => x.phase = "idle",
                 x.window <= streamCredit[s]
          PROVE  x.window <= streamCredit'[s]
      BY <1>0, <1>1, <3>9 DEF View, Begun
    <3>10. b.phase \in Begun /\ Flowing(s)' => b.window <= streamCredit'[s]
      BY <1>1, <3>4 DEF View, ClientView
    <3>11. Follows(s)'
      BY <1>0, <3>1, <3>2, <3>4, <3>5, <3>7, <3>8, <3>9, <3>10, ViewsAppend
    <3> QED BY <2>2, <3>11
  <2> QED BY <2>1, <2>2
<1> QED BY <1>2, ClientKeeps DEF StreamWindowRespected

LEMMA NewFrame ==
    ASSUME NEW type \in FrameTypes, NEW s \in Streams \cup {0}, NEW e \in BOOLEAN, NEW q \in BOOLEAN,
           NEW n \in Int, NEW z \in Int,
           NEW f, f = [type |-> type, s |-> s, end |-> e, whole |-> q, n |-> n, size |-> z, form |-> "plain"]
    PROVE  /\ f \in FrameType /\ f.type = type /\ f.s = s /\ f.form # "segment"
           /\ f.whole = q /\ f.end = e /\ f.n = n /\ f.size = z
BY DEF FrameType, FrameTypes

LEMMA HeadersSent ==
    ASSUME WindowInv, Assumed, NEW s \in Streams, SendHeaders(s)
    PROVE  WindowInv'
<1> PICK r \in Requests :
          /\ req' = [req EXCEPT ![s] = r]
          /\ left' = [left EXCEPT ![s] = r.body]
          /\ phase' = [phase EXCEPT ![s] = IF r.split THEN "block" ELSE AfterBlock(r)]
          /\ Sends([Frame("headers", s) EXCEPT !.whole = ~r.split, !.end = EndsHeaders(r),
                                               !.n = IF r.announced THEN r.body ELSE -1])
  BY DEF SendHeaders
<1>1. PICK h : h = [Frame("headers", s) EXCEPT !.whole = ~r.split, !.end = EndsHeaders(r),
                                               !.n = IF r.announced THEN r.body ELSE -1]
  OBVIOUS
<1>2. r \in RequestType
  BY Http2Assumption
<1>3. PICK f \in FrameType :
          /\ wire' = Append(wire, f) /\ f.type = "headers" /\ f.s = s /\ f.form # "segment"
          /\ f.whole = ~r.split /\ f.end = EndsHeaders(r)
  <2>1. r.split \in BOOLEAN /\ EndsHeaders(r) \in BOOLEAN
    BY <1>2 DEF RequestType, EndsHeaders
  <2>2. PICK n \in Int : n = IF r.announced THEN r.body ELSE -1
    BY <1>2 DEF RequestType
  <2>3. PICK e \in BOOLEAN : e = EndsHeaders(r)
    BY <2>1
  <2>4. PICK q \in BOOLEAN : q = ~r.split
    BY <2>1
  <2>5. h = [type |-> "headers", s |-> s, end |-> e, whole |-> q, n |-> n, size |-> 0, form |-> "plain"]
    BY <1>1, <2>2, <2>3, <2>4 DEF Frame
  <2>6. "headers" \in FrameTypes
    BY DEF FrameTypes
  <2>7. h \in FrameType /\ h.type = "headers" /\ h.s = s /\ h.whole = q /\ h.end = e
    BY <2>5, <2>6, NewFrame
  <2>8. Sends(h)
    BY <1>1
  <2> QED BY <2>3, <2>4, <2>7, <2>8, WholeSegments
<1>4. PICK p : p = IF r.split THEN "block" ELSE AfterBlock(r)
  OBVIOUS
<1>5. p \in Phases \ {"idle"} /\ p = IF f.whole THEN AfterBlock(r) ELSE "block"
  BY <1>2, <1>3, <1>4 DEF Phases, AfterBlock, RequestType
<1>6. wire' = Append(wire, f)
  BY <1>3
<1>7. clientInitial \in Nat /\ clientInitial' = clientInitial /\ connected /\ phase[s] = "idle"
  BY DEF WindowInv, TypesInv, ClientTypes, SendHeaders, asked, CanSend
<1>8. /\ streamCredit' = [streamCredit EXCEPT ![s] = clientInitial] /\ ServerUnchanged
      /\ connCredit' = connCredit
  BY DEF SendHeaders, ServerUnchanged
<1>9. ClientTypes' /\ OnlyOf(s) /\ req'[s] = r /\ phase'[s] = p /\ streamCredit'[s] = clientInitial
  BY <1>2, <1>3, <1>4, <1>5, <1>6, <1>7, <1>8
     DEF WindowInv, TypesInv, ClientTypes, OnlyOf, RequestType
<1>10. ASSUME NEW a \in View, ClientView(s, a)
       PROVE  \E b \in View : Moves(f, req'[s], a, b) /\ ClientView(s, b)'
  <2>1. PICK b : b = [phase |-> p, initial |-> clientInitial, window |-> clientInitial]
    OBVIOUS
  <2>2. b \in View /\ b.phase = p /\ b.initial = clientInitial /\ b.window = clientInitial
    BY <1>5, <1>7, <2>1 DEF View
  <2>3. Moves(f, r, a, b)
    BY <1>3, <1>5, <1>7, <1>10, <2>2 DEF Moves, ClientView
  <2>4. ClientView(s, b)'
    BY <1>7, <1>9, <2>2 DEF ClientView
  <2> QED BY <1>9, <2>2, <2>3, <2>4
<1>11. f.type \in FrameTypes \ {"settings"} /\ streamCredit'[s] >= 0
  BY <1>3, <1>7, <1>9 DEF FrameTypes
<1> QED BY <1>3, <1>6, <1>7, <1>8, <1>9, <1>10, <1>11, FrameSent

\* The other frames of a stream in progress.
LEMMA FrameFollows ==
    ASSUME WindowInv, NEW s \in Streams, OnlyOf(s), ServerUnchanged, connected, ClientTypes',
           NEW f \in FrameType, f.type \in FrameTypes \ {"settings", "headers"}, f.s = s, f.form # "segment",
           wire' = Append(wire, f), req' = req, clientInitial' = clientInitial,
           streamCredit'[s] >= streamCredit[s],
           \A a \in View, b \in View :
              /\ a.phase = phase[s] /\ b.phase = phase'[s]
              /\ b.window = a.window + (streamCredit'[s] - streamCredit[s])
              => Moves(f, req[s], a, b)
    PROVE  WindowInv'
<1>1. /\ streamCredit[s] \in Int /\ streamCredit[s] >= 0 /\ streamCredit'[s] \in Int
      /\ phase'[s] \in Phases
  BY DEF WindowInv, TypesInv, ClientTypes, StreamWindowRespected
<1>2. PICK p \in Phases, c \in Int : p = phase'[s] /\ c = streamCredit'[s]
  BY <1>1
<1>3. ASSUME NEW a \in View, ClientView(s, a)
      PROVE  \E b \in View : Moves(f, req'[s], a, b) /\ ClientView(s, b)'
  <2>0. a.window \in Int /\ a.initial \in Int /\ a.initial = clientInitial /\ a.phase = phase[s]
    BY <1>3 DEF View, ClientView
  <2>1. PICK b : b = [phase |-> p, initial |-> a.initial, window |-> a.window + (c - streamCredit[s])]
    OBVIOUS
  <2>2. /\ b \in View /\ b.phase = p /\ b.initial = clientInitial
        /\ b.window = a.window + (c - streamCredit[s])
    BY <1>1, <2>0, <2>1 DEF View
  <2>3. Moves(f, req[s], a, b)
    BY <1>2, <1>3, <2>0, <2>2
  <2>4. p \in Begun => a.phase \in Begun /\ p # "reset"
    BY <2>2, <2>3 DEF Moves, Begun
  <2>5. Flowing(s)' <=> Flowing(s)
    BY DEF Flowing, ServerUnchanged, thread
  <2>6. p \in Begun /\ Flowing(s) => b.window = c
    BY <1>1, <1>3, <2>0, <2>2, <2>4 DEF ClientView
  <2> QED BY <1>2, <2>2, <2>3, <2>5, <2>6 DEF ClientView
<1>4. streamCredit'[s] >= 0 /\ f.type \in FrameTypes \ {"settings"} /\ req'[s] = req[s]
  BY <1>1
<1> QED BY <1>3, <1>4, FrameSent

LEMMA ContinuationSent ==
    ASSUME WindowInv, Assumed, NEW s \in Streams, SendContinuation(s)
    PROVE  WindowInv'
<1>1. /\ req \in [Streams -> RequestType] /\ streamCredit \in [Streams -> Int] /\ left \in [Streams -> Nat]
      /\ clientInitial \in Nat /\ phase \in [Streams -> Phases] /\ wire \in Seq(FrameType)
      /\ connCredit \in Int
  BY DEF WindowInv, TypesInv, ClientTypes
<1>2. /\ phase[s] = "block" /\ connected /\ ServerUnchanged
      /\ UNCHANGED <<req, left, streamCredit, connCredit>> /\ clientInitial' = clientInitial
  BY DEF SendContinuation, ServerUnchanged, asked, CanSend
<1>3. PICK n \in Int : n = IF req[s].announced THEN req[s].body ELSE -1
  <2>1. req[s] \in RequestType
    BY <1>1
  <2> QED BY <2>1 DEF RequestType
<1>4. PICK h : h = [Frame("continuation", s) EXCEPT !.n = n]
  OBVIOUS
<1>5. h = [type |-> "continuation", s |-> s, end |-> FALSE, whole |-> TRUE, n |-> n,
          size |-> 0, form |-> "plain"]
  BY <1>4 DEF Frame
<1>6. PICK f \in FrameType : wire' = Append(wire, f) /\ f.type = "continuation" /\ f.s = s /\ f.form # "segment" /\ f.whole /\ ~f.end
  <2>1. h \in FrameType /\ h.type = "continuation" /\ h.s = s /\ h.whole /\ ~h.end
    BY <1>1, <1>5 DEF FrameType, FrameTypes
  <2>2. Sends(h)
    BY <1>4, <1>3 DEF SendContinuation
  <2> QED BY <2>1, <2>2, WholeSegments
<1>7. f \in FrameType /\ wire' = Append(wire, f)
  BY <1>6
<1>8. phase' = [phase EXCEPT ![s] = AfterBlock(req[s])] /\ AfterBlock(req[s]) \in Phases
  BY DEF SendContinuation, AfterBlock, Phases
<1>9. ClientTypes' /\ OnlyOf(s) /\ streamCredit'[s] >= streamCredit[s]
  BY <1>1, <1>2, <1>6, <1>7, <1>8 DEF ClientTypes, OnlyOf
<1>10. ASSUME NEW a \in View, NEW b \in View, a.phase = phase[s], b.phase = phase'[s],
             b.window = a.window + (streamCredit'[s] - streamCredit[s])
      PROVE  Moves(f, req[s], a, b)
  BY <1>1, <1>2, <1>6, <1>8, <1>10 DEF Moves, View
<1>11. f.type \in FrameTypes \ {"settings", "headers"} /\ req' = req
  BY <1>2, <1>6 DEF FrameTypes
<1> QED BY <1>2, <1>6, <1>7, <1>9, <1>10, <1>11, FrameFollows

LEMMA DataSent ==
    ASSUME WindowInv, Assumed, NEW s \in Streams, SendData(s)
    PROVE  WindowInv'
<1>1. /\ req \in [Streams -> RequestType] /\ streamCredit \in [Streams -> Int] /\ left \in [Streams -> Nat]
      /\ clientInitial \in Nat /\ phase \in [Streams -> Phases] /\ wire \in Seq(FrameType)
      /\ connCredit \in Int
  BY DEF WindowInv, TypesInv, ClientTypes
<1>2. /\ phase[s] = "open" /\ connected /\ ServerUnchanged
      /\ UNCHANGED <<req, streamCredit, connCredit>> /\ clientInitial' = clientInitial
  BY DEF SendData, ServerUnchanged, asked, CanSend
<1>3. PICK n \in 1 .. left[s], e \in BOOLEAN :
         /\ e = (n = left[s] /\ ~req[s].trailers) /\ left' = [left EXCEPT ![s] = @ - n]
         /\ Sends([Frame("data", s) EXCEPT !.n = n, !.end = e])
  BY DEF SendData
<1>4. PICK h : h = [Frame("data", s) EXCEPT !.n = n, !.end = e]
  OBVIOUS
<1>5. h = [type |-> "data", s |-> s, end |-> e, whole |-> TRUE, n |-> n, size |-> 0, form |-> "plain"]
  BY <1>4 DEF Frame
<1>6. PICK f \in FrameType : wire' = Append(wire, f) /\ f.type = "data" /\ f.s = s /\ f.form # "segment" /\ f.end = e
  <2>1. h \in FrameType /\ h.type = "data" /\ h.s = s /\ h.end = e
    BY <1>1, <1>5 DEF FrameType, FrameTypes
  <2>2. Sends(h)
    BY <1>4, <1>3
  <2> QED BY <2>1, <2>2, WholeSegments
<1>7. f \in FrameType /\ wire' = Append(wire, f)
  BY <1>6
<1>8. phase' = [phase EXCEPT ![s] = IF e THEN "end" ELSE "open"] /\ left' \in [Streams -> Nat]
      /\ {"end", "open"} \subseteq Phases
  <2>1. left' \in [Streams -> Nat] /\ (left'[s] = 0 <=> n = left[s])
    BY <1>1, <1>3
  <2> QED BY <1>1, <1>2, <1>3, <2>1 DEF SendData, Phases
<1>9. ClientTypes' /\ OnlyOf(s) /\ streamCredit'[s] >= streamCredit[s]
  BY <1>1, <1>2, <1>6, <1>7, <1>8 DEF ClientTypes, OnlyOf
<1>10. ASSUME NEW a \in View, NEW b \in View, a.phase = phase[s], b.phase = phase'[s],
             b.window = a.window + (streamCredit'[s] - streamCredit[s])
      PROVE  Moves(f, req[s], a, b)
  BY <1>1, <1>2, <1>6, <1>8, <1>10 DEF Moves, View
<1>11. f.type \in FrameTypes \ {"settings", "headers"} /\ req' = req
  BY <1>2, <1>6 DEF FrameTypes
<1> QED BY <1>2, <1>6, <1>7, <1>9, <1>10, <1>11, FrameFollows

LEMMA TrailersSent ==
    ASSUME WindowInv, Assumed, NEW s \in Streams, SendTrailers(s)
    PROVE  WindowInv'
<1>1. /\ req \in [Streams -> RequestType] /\ streamCredit \in [Streams -> Int] /\ left \in [Streams -> Nat]
      /\ clientInitial \in Nat /\ phase \in [Streams -> Phases] /\ wire \in Seq(FrameType)
      /\ connCredit \in Int
  BY DEF WindowInv, TypesInv, ClientTypes
<1>2. /\ phase[s] = "open" /\ connected /\ ServerUnchanged
      /\ UNCHANGED <<req, left, streamCredit, connCredit>> /\ clientInitial' = clientInitial
  BY DEF SendTrailers, ServerUnchanged, asked, CanSend
<1>4. PICK h : h = [Frame("trailers", s) EXCEPT !.end = TRUE]
  OBVIOUS
<1>5. h = [type |-> "trailers", s |-> s, end |-> TRUE, whole |-> TRUE, n |-> 0, size |-> 0,
          form |-> "plain"]
  BY <1>4 DEF Frame
<1>6. PICK f \in FrameType : wire' = Append(wire, f) /\ f.type = "trailers" /\ f.s = s /\ f.form # "segment" /\ f.whole /\ f.end
  <2>1. h \in FrameType /\ h.type = "trailers" /\ h.s = s /\ h.whole /\ h.end
    BY <1>1, <1>5 DEF FrameType, FrameTypes
  <2>2. Sends(h)
    BY <1>4 DEF SendTrailers
  <2> QED BY <2>1, <2>2, WholeSegments
<1>7. f \in FrameType /\ wire' = Append(wire, f)
  BY <1>6
<1>8. phase' = [phase EXCEPT ![s] = "end"] /\ "end" \in Phases
  BY DEF SendTrailers, Phases
<1>9. ClientTypes' /\ OnlyOf(s) /\ streamCredit'[s] >= streamCredit[s]
  BY <1>1, <1>2, <1>6, <1>7, <1>8 DEF ClientTypes, OnlyOf
<1>10. ASSUME NEW a \in View, NEW b \in View, a.phase = phase[s], b.phase = phase'[s],
             b.window = a.window + (streamCredit'[s] - streamCredit[s])
      PROVE  Moves(f, req[s], a, b)
  BY <1>1, <1>2, <1>6, <1>8, <1>10 DEF Moves, View
<1>11. f.type \in FrameTypes \ {"settings", "headers"} /\ req' = req
  BY <1>2, <1>6 DEF FrameTypes
<1> QED BY <1>2, <1>6, <1>7, <1>9, <1>10, <1>11, FrameFollows

LEMMA ResetSent ==
    ASSUME WindowInv, Assumed, NEW s \in Streams, SendReset(s)
    PROVE  WindowInv'
<1>1. /\ req \in [Streams -> RequestType] /\ streamCredit \in [Streams -> Int] /\ left \in [Streams -> Nat]
      /\ clientInitial \in Nat /\ phase \in [Streams -> Phases] /\ wire \in Seq(FrameType)
      /\ connCredit \in Int
  BY DEF WindowInv, TypesInv, ClientTypes
<1>2. /\ phase[s] \in {"open", "end"} /\ connected /\ ServerUnchanged
      /\ UNCHANGED <<req, left, streamCredit, connCredit>> /\ clientInitial' = clientInitial
  BY DEF SendReset, ServerUnchanged, asked, CanSend
<1>4. PICK h : h = Frame("reset", s)
  OBVIOUS
<1>5. h = [type |-> "reset", s |-> s, end |-> FALSE, whole |-> TRUE, n |-> 0, size |-> 0,
          form |-> "plain"]
  BY <1>4 DEF Frame
<1>6. PICK f \in FrameType : wire' = Append(wire, f) /\ f.type = "reset" /\ f.s = s /\ f.form # "segment"
  <2>1. h \in FrameType /\ h.type = "reset" /\ h.s = s
    BY <1>1, <1>5 DEF FrameType, FrameTypes
  <2>2. Sends(h)
    BY <1>4 DEF SendReset
  <2> QED BY <2>1, <2>2, WholeSegments
<1>7. f \in FrameType /\ wire' = Append(wire, f)
  BY <1>6
<1>8. phase' = [phase EXCEPT ![s] = "reset"] /\ "reset" \in Phases
  BY DEF SendReset, Phases
<1>9. ClientTypes' /\ OnlyOf(s) /\ streamCredit'[s] >= streamCredit[s]
  BY <1>1, <1>2, <1>6, <1>7, <1>8 DEF ClientTypes, OnlyOf
<1>10. ASSUME NEW a \in View, NEW b \in View, a.phase = phase[s], b.phase = phase'[s],
             b.window = a.window + (streamCredit'[s] - streamCredit[s])
      PROVE  Moves(f, req[s], a, b)
  BY <1>1, <1>2, <1>6, <1>8, <1>10 DEF Moves, View
<1>11. f.type \in FrameTypes \ {"settings", "headers"} /\ req' = req
  BY <1>2, <1>6 DEF FrameTypes
<1> QED BY <1>2, <1>6, <1>7, <1>9, <1>10, <1>11, FrameFollows

LEMMA UpdateSent ==
    ASSUME WindowInv, Assumed, NEW s \in Streams, SendUpdate(s)
    PROVE  WindowInv'
<1>1. /\ req \in [Streams -> RequestType] /\ streamCredit \in [Streams -> Int] /\ left \in [Streams -> Nat]
      /\ clientInitial \in Nat /\ phase \in [Streams -> Phases] /\ wire \in Seq(FrameType)
      /\ connCredit \in Int
  BY DEF WindowInv, TypesInv, ClientTypes
<1>2. /\ phase[s] \in {"open", "end"} /\ connected /\ ServerUnchanged
      /\ UNCHANGED <<req, left, phase, connCredit>> /\ clientInitial' = clientInitial
  BY DEF SendUpdate, ServerUnchanged, asked, CanSend
<1>3. PICK n \in Int : n = clientInitial - streamCredit[s]
  BY <1>1
<1>4. PICK h : h = [Frame("update", s) EXCEPT !.n = n]
  OBVIOUS
<1>5. h = [type |-> "update", s |-> s, end |-> FALSE, whole |-> TRUE, n |-> n, size |-> 0,
          form |-> "plain"]
  BY <1>4 DEF Frame
<1>6. PICK f \in FrameType : wire' = Append(wire, f) /\ f.type = "update" /\ f.s = s /\ f.form # "segment" /\ f.n = n
  <2>1. h \in FrameType /\ h.type = "update" /\ h.s = s /\ h.n = n
    BY <1>1, <1>5 DEF FrameType, FrameTypes
  <2>2. Sends(h)
    BY <1>4, <1>3 DEF SendUpdate
  <2> QED BY <2>1, <2>2, WholeSegments
<1>7. f \in FrameType /\ wire' = Append(wire, f)
  BY <1>6
<1>8. streamCredit' = [streamCredit EXCEPT ![s] = clientInitial] /\ streamCredit[s] <= clientInitial
  BY <1>1 DEF SendUpdate
<1>9. ClientTypes' /\ OnlyOf(s) /\ streamCredit'[s] >= streamCredit[s]
  BY <1>1, <1>2, <1>6, <1>7, <1>8 DEF ClientTypes, OnlyOf
<1>10. ASSUME NEW a \in View, NEW b \in View, a.phase = phase[s], b.phase = phase'[s],
             b.window = a.window + (streamCredit'[s] - streamCredit[s])
      PROVE  Moves(f, req[s], a, b)
  BY <1>1, <1>2, <1>6, <1>3, <1>8, <1>10 DEF Moves, View
<1>11. f.type \in FrameTypes \ {"settings", "headers"} /\ req' = req
  BY <1>2, <1>6 DEF FrameTypes
<1> QED BY <1>2, <1>6, <1>7, <1>9, <1>10, <1>11, FrameFollows

LEMMA ConnUpdateSent ==
    ASSUME WindowInv, Assumed, SendConnUpdate
    PROVE  WindowInv'
<1>1. /\ connected /\ ServerUnchanged /\ wire \in Seq(FrameType)
      /\ UNCHANGED <<req, phase, left, streamCredit, clientInitial>> /\ connCredit' = ConnWindow
      /\ \A s \in Streams : Follows(s)
  BY DEF SendConnUpdate, ServerUnchanged, asked, CanSend, WindowInv, TypesInv, ClientTypes
<1>2. ConnWindow \in Int /\ connCredit \in Int
  BY Http2Assumption DEF WindowInv, TypesInv, ClientTypes
<1>a. PICK n \in Int : n = ConnWindow - connCredit
  BY <1>2
<1>3. PICK h : h = [Frame("update", 0) EXCEPT !.n = n]
  OBVIOUS
<1>4. h = [type |-> "update", s |-> 0, end |-> FALSE, whole |-> TRUE, n |-> n, size |-> 0,
           form |-> "plain"]
  BY <1>3 DEF Frame
<1>5. PICK f \in FrameType : wire' = Append(wire, f) /\ f.type = "update" /\ f.s = 0 /\ f.form # "segment"
  <2>1. h \in FrameType /\ h.type = "update" /\ h.s = 0
    BY <1>4 DEF FrameType, FrameTypes
  <2>2. Sends(h)
    BY <1>a, <1>3 DEF SendConnUpdate
  <2> QED BY <2>1, <2>2, WholeSegments
<1>6. f \in FrameType /\ wire' = Append(wire, f)
  BY <1>5
<1>7. ASSUME NEW s \in Streams PROVE Follows(s)'
  <2>1. s # 0
    BY DEF Streams
  <2> QED BY <1>1, <1>5, <1>6, <2>1, Sent2Another
<1>8. ClientTypes' /\ StreamWindowRespected' /\ f.type \in FrameTypes
  BY <1>1, <1>2, <1>5, <1>6 DEF WindowInv, TypesInv, ClientTypes, StreamWindowRespected, FrameTypes
<1>9. f.type \notin StreamFrames
  BY <1>5 DEF StreamFrames
<1> QED BY <1>1, <1>5, <1>6, <1>7, <1>8, <1>9, ClientKeeps

LEMMA SettingsSent ==
    ASSUME WindowInv, Assumed, NEW w \in Windows, NEW size \in FrameSizes, SendSettings(w, size)
    PROVE  WindowInv'
<1>1. /\ connected /\ ServerUnchanged /\ wire \in Seq(FrameType) /\ clientInitial \in Nat
      /\ streamCredit \in [Streams -> Int] /\ phase \in [Streams -> Phases]
      /\ UNCHANGED <<req, phase, left, connCredit>> /\ \A s \in Streams : Follows(s)
  BY DEF SendSettings, ServerUnchanged, CanSend, WindowInv, TypesInv, ClientTypes
<1>2. w \in Nat /\ size \in Nat /\ clientInitial' = w
  BY Http2Assumption DEF SendSettings
<1>3. PICK h : h = [Frame("settings", 0) EXCEPT !.n = w, !.size = size]
  OBVIOUS
<1>4. h = [type |-> "settings", s |-> 0, end |-> FALSE, whole |-> TRUE, n |-> w, size |-> size,
           form |-> "plain"]
  BY <1>3 DEF Frame
<1>5. PICK f \in FrameType : wire' = Append(wire, f) /\ f.type = "settings" /\ f.s = 0 /\ f.form # "segment" /\ f.n = w
  <2>1. h \in FrameType /\ h.type = "settings" /\ h.s = 0 /\ h.n = w
    BY <1>2, <1>4 DEF FrameType, FrameTypes
  <2>2. Sends(h)
    BY <1>3 DEF SendSettings
  <2> QED BY <2>1, <2>2, WholeSegments
<1>6. f \in FrameType /\ wire' = Append(wire, f)
  BY <1>5
<1>7. ASSUME NEW s \in Streams
      PROVE  /\ streamCredit'[s] = IF InProgress(s) THEN streamCredit[s] + (w - clientInitial)
                                                    ELSE streamCredit[s]
             /\ InProgress(s) => w >= clientInitial
             /\ streamCredit[s] \in Int /\ streamCredit'[s] \in Int /\ streamCredit'[s] >= streamCredit[s]
             /\ streamCredit'[s] >= 0
  <2>1. streamCredit'[s] = streamCredit[s] + IF InProgress(s) THEN w - clientInitial ELSE 0
    BY DEF SendSettings
  <2>2. InProgress(s) => w >= clientInitial
    BY DEF SendSettings, Assumed, Steady
  <2>3. streamCredit[s] \in Int /\ streamCredit[s] >= 0
    BY <1>1 DEF WindowInv, StreamWindowRespected
  <2> QED BY <1>1, <1>2, <2>1, <2>2, <2>3
<1>8. ASSUME NEW s \in Streams PROVE Follows(s)'
  <2>1. PICK v : Views(s, v)
    BY <1>1 DEF Follows
  <2>2. PICK a : a = v[Len(wire) + 1]
    OBVIOUS
  <2>3. a \in View /\ ClientView(s, a)
    <3>1. Len(wire) + 1 \in 1 .. Len(wire) + 1
      BY <1>1
    <3> QED BY <2>1, <2>2, <3>1 DEF Views
  <2>4. a.window \in Int /\ a.initial = clientInitial /\ a.phase = phase[s] /\ a.phase \in Phases
    BY <2>3 DEF View, ClientView
  <2>5. PICK b : b = [phase |-> a.phase, initial |-> w, window |-> a.window + (w - a.initial)]
    OBVIOUS
  <2>6. /\ b \in View /\ b.phase = a.phase /\ b.initial = w /\ b.window = a.window + (w - a.initial)
        /\ b.window \in Int
    BY <1>1, <1>2, <2>4, <2>5 DEF View
  <2>7. Reads(f, s, req'[s], a, b)
    BY <1>5, <2>6 DEF Reads
  <2>8. ServerView(s, v[1])' /\ (Flowing(s)' <=> Flowing(s))
    BY <1>1, <2>1, ServerViewKept DEF Views
  <2>9. phase[s] \in Begun /\ Flowing(s) => InProgress(s)
    BY DEF SendSettings, CanSend, Begun, Flowing, InProgress
  <2>10. phase[s] \in Begun /\ Flowing(s) => a.window = streamCredit[s]
    BY <2>3 DEF ClientView
  <2>11. phase[s] \in Begun /\ Flowing(s) => b.window = streamCredit'[s]
    BY <1>1, <1>2, <1>7, <2>4, <2>6, <2>9, <2>10
  <2>12. ClientView(s, b)'
    BY <1>1, <1>2, <2>4, <2>6, <2>8, <2>11 DEF ClientView
  <2>13. ASSUME NEW c \in View, c.phase \in Begun, Flowing(s), c.window <= streamCredit[s]
         PROVE  c.window <= streamCredit'[s]
    BY <1>7, <2>13 DEF View
  <2>14. b.phase \in Begun /\ Flowing(s)' => b.window <= streamCredit'[s]
    BY <1>7, <2>4, <2>6, <2>8, <2>11
  <2> QED BY <1>1, <1>5, <1>6, <2>1, <2>2, <2>6, <2>7, <2>8, <2>12, <2>13, <2>14, ViewsAppend
<1>9. ClientTypes' /\ StreamWindowRespected' /\ f.type \in FrameTypes
  <2>1. streamCredit' \in [Streams -> Int]
    BY <1>7 DEF SendSettings
  <2>2. wire' \in Seq(FrameType)
    BY <1>1, <1>5, <1>6
  <2> QED BY <1>1, <1>2, <1>5, <1>7, <2>1, <2>2
         DEF WindowInv, TypesInv, ClientTypes, StreamWindowRespected, FrameTypes
<1>10. f.type \notin StreamFrames
  BY <1>5 DEF StreamFrames
<1> QED BY <1>1, <1>5, <1>6, <1>8, <1>9, <1>10, ClientKeeps

----------------------------------------------------------------------------
(* The frames are read.                                                     *)

ClientUnchanged == UNCHANGED <<req, phase, left, streamCredit, connCredit, asked, ended>>

\* What a handler has to establish of the streams, where the connection stays.
LEMMA FrameRead ==
    ASSUME WindowInv, wire # <<>>, wire' = Tail(wire), ClientUnchanged, ~spinning',
           ServerTypes', ThreadTypes', QueuedInv', AnswersInv', connected' => connected,
           connected' => \A s \in Streams, a \in View, b \in View :
              ServerView(s, a) /\ Reads(Head(wire), s, req[s], a, b)
                 => ServerView(s, b)' /\ (Flowing(s)' => Flowing(s))
    PROVE  WindowInv'
<1>1. wire \in Seq(FrameType) /\ Len(wire) \in Nat \ {0}
  BY DEF WindowInv, TypesInv, ClientTypes
<1>2. ClientTypes' /\ StreamWindowRespected'
  BY <1>1 DEF WindowInv, TypesInv, ClientTypes, ClientUnchanged, asked, StreamWindowRespected
<1>3. WireInv'
  <2>1. ASSUME NEW i \in DOMAIN wire'
        PROVE  /\ wire'[i].form # "segment" /\ wire'[i].type \in FrameTypes
               /\ wire'[i].type \in StreamFrames => wire'[i].s \in Streams
    <3>1. wire'[i] = wire[i + 1] /\ i + 1 \in DOMAIN wire /\ i + 1 # 1
      BY <1>1
    <3> QED BY <3>1 DEF WindowInv, WireInv
  <2> QED BY <2>1 DEF WireInv
<1>4. ASSUME connected', NEW s \in Streams PROVE Follows(s)'
  <2>1. PICK v : Views(s, v)
    BY <1>4 DEF WindowInv, Follows
  <2>2. /\ v[1] \in View /\ v[2] \in View /\ ServerView(s, v[1])
        /\ Reads(wire[1], s, req[s], v[1], v[1 + 1])
    <3>1. 1 \in 1 .. Len(wire) /\ 1 \in 1 .. Len(wire) + 1 /\ 2 \in 1 .. Len(wire) + 1
      BY <1>1
    <3> QED BY <2>1, <3>1 DEF Views, Between
  <2>3. wire[1] = Head(wire) /\ 1 + 1 = 2
    BY <1>1
  <2>4. ServerView(s, v[2])' /\ (Flowing(s)' => Flowing(s))
    BY <1>4, <2>2, <2>3
  <2>5. UNCHANGED <<req, phase, clientInitial, streamCredit>>
    BY DEF ClientUnchanged, asked
  <2> QED BY <1>1, <2>1, <2>4, <2>5, ViewsTail
<1> QED BY <1>2, <1>3, <1>4 DEF WindowInv, TypesInv

\* After GOAWAY nothing more is read.
LEMMA Dropped ==
    ASSUME WindowInv, wire # <<>>, wire' = Tail(wire), ClientUnchanged, Closes,
           UNCHANGED <<parser, windowSize, stream, thread>>
    PROVE  WindowInv'
<1>1. ~spinning' /\ ~connected'
  BY DEF Closes, WindowInv
<1>2. ServerTypes' /\ ThreadTypes' /\ QueuedInv' /\ AnswersInv'
  BY DEF WindowInv, TypesInv, ServerTypes, ThreadTypes, QueuedInv, AnswersInv, RunInv, ClientUnchanged,
         parser, settings, thread
<1> QED BY <1>1, <1>2, FrameRead

\* A request joins the queue.
LEMMA QueueGrows ==
    ASSUME TypesInv, QueuedInv, NEW s \in Streams, run[s] = "none", QueueStream(s), ended' = ended
    PROVE  /\ ThreadTypes' /\ QueuedInv' /\ UNCHANGED <<spinning, connected, todo>>
           /\ \A t \in Streams : run'[t] = IF t = s THEN "queued" ELSE run[t]
<1>1. /\ run \in [Streams -> Runs] /\ queued \in Seq(Streams) /\ ThreadTypes
  BY DEF TypesInv, ThreadTypes
<1>2. /\ queued' = Append(queued, s) /\ run' = [run EXCEPT ![s] = "queued"]
      /\ UNCHANGED <<spinning, connected, todo>>
  BY DEF QueueStream
<1>3. \A t \in Streams : run'[t] = IF t = s THEN "queued" ELSE run[t]
  BY <1>1, <1>2
<1>4. ThreadTypes'
  BY <1>1, <1>2 DEF ThreadTypes, Runs
<1>5. QueuedInv'
  <2>1. \A i \in DOMAIN queued : queued[i] \in Streams /\ run[queued[i]] = "queued" /\ queued[i] # s
    BY <1>1 DEF QueuedInv
  <2>2. ASSUME NEW i \in DOMAIN queued'
        PROVE  \/ i \in DOMAIN queued /\ queued'[i] = queued[i]
               \/ i = Len(queued) + 1 /\ queued'[i] = s
    BY <1>1, <1>2
  <2>3. Len(queued) + 1 \notin DOMAIN queued
    BY <1>1
  <2>4. \A i \in DOMAIN queued' : run'[queued'[i]] = "queued"
    BY <1>3, <2>1, <2>2
  <2>5. ASSUME NEW i \in DOMAIN queued', NEW j \in DOMAIN queued', queued'[i] = queued'[j]
        PROVE  i = j
    BY <2>1, <2>2, <2>5 DEF QueuedInv
  <2> QED BY <2>4, <2>5 DEF QueuedInv
<1> QED BY <1>2, <1>3, <1>4, <1>5

LEMMA Queueing ==
    ASSUME WindowInv, NEW s \in Streams, run[s] = "none", QueueStream(s), ended' = ended,
           stream'[s] # NoStream, \A t \in Streams \ {s} : stream'[t] = stream[t]
    PROVE  /\ ThreadTypes' /\ QueuedInv' /\ AnswersInv' /\ ~spinning' /\ connected' = connected
           /\ \A t \in Streams : run'[t] = IF t = s THEN "queued" ELSE run[t]
           /\ \A t \in Streams : Flowing(t)' => Flowing(t)
<1>1. /\ ThreadTypes' /\ QueuedInv' /\ UNCHANGED <<spinning, connected, todo>>
      /\ \A t \in Streams : run'[t] = IF t = s THEN "queued" ELSE run[t]
  BY QueueGrows DEF WindowInv
<1>2. AnswersInv'
  BY <1>1 DEF WindowInv, AnswersInv, RunInv
<1> QED BY <1>1, <1>2 DEF Flowing, WindowInv

LEMMA InHash == NoStream \notin StreamType
BY DEF NoStream, StreamType

\* A frame of one stream, which may end its request.
LEMMA StreamFrameRead ==
    ASSUME WindowInv, connected, wire # <<>>, wire' = Tail(wire), ClientUnchanged,
           NEW s \in Streams, Head(wire).s = s, Head(wire).type # "settings",
           stream'[s] \in StreamType, \A t \in Streams \ {s} : stream'[t] = stream[t],
           (run[s] = "none" /\ QueueStream(s)) \/ UNCHANGED <<socket, thread>>,
           ServerTypes', settingsInitialWindowSize' = settingsInitialWindowSize,
           \A a \in View, b \in View :
              ServerView(s, a) /\ Moves(Head(wire), req[s], a, b) /\ b.initial = a.initial
                 => ServerView(s, b)'
    PROVE  WindowInv'
<1>0. /\ stream'[s] # NoStream /\ ended' = ended /\ req' = req
      /\ run \in [Streams -> Runs]
  BY InHash DEF ClientUnchanged, WindowInv, TypesInv, ThreadTypes
<1>1. /\ ThreadTypes' /\ QueuedInv' /\ AnswersInv' /\ ~spinning' /\ connected' = connected
      /\ \A t \in Streams \ {s} : run'[t] = run[t]
      /\ \A t \in Streams : Flowing(t)' => Flowing(t)
  <2>1. CASE run[s] = "none" /\ QueueStream(s)
    BY <1>0, <2>1, Queueing
  <2>2. CASE UNCHANGED <<socket, thread>>
    BY <1>0, <2>2 DEF WindowInv, TypesInv, ThreadTypes, QueuedInv, AnswersInv, RunInv, Flowing,
                      socket, thread
  <2> QED BY <2>1, <2>2
<1>2. ASSUME NEW t \in Streams, NEW a \in View, NEW b \in View, ServerView(t, a),
             Reads(Head(wire), t, req[t], a, b)
      PROVE  ServerView(t, b)' /\ (Flowing(t)' => Flowing(t))
  <2>1. CASE t = s
    <3>1. Moves(Head(wire), req[s], a, b) /\ b.initial = a.initial
      BY <1>2, <2>1 DEF Reads
    <3> QED BY <1>1, <1>2, <2>1, <3>1
  <2>2. CASE t # s
    <3>1. b = a /\ stream'[t] = stream[t] /\ run'[t] = run[t] /\ req'[t] = req[t]
      BY <1>0, <1>1, <1>2, <2>2 DEF Reads
    <3> QED BY <1>1, <1>2, <3>1 DEF ServerView
  <2> QED BY <2>1, <2>2
<1> QED BY <1>1, <1>2, FrameRead

\* The head of the wire, and the views of its stream.
LEMMA HeadType ==
    ASSUME WindowInv, wire # <<>>, connState # "MethodLine"
    PROVE  /\ Head(wire) \in FrameType /\ Head(wire).form # "segment" /\ Head(wire).type \in FrameTypes
           /\ Head(wire).type \in StreamFrames => Head(wire).s \in Streams
<1>1. wire \in Seq(FrameType) /\ 1 \in DOMAIN wire /\ Head(wire) = wire[1]
  BY DEF WindowInv, TypesInv, ClientTypes
<1> QED BY <1>1 DEF WindowInv, WireInv

LEMMA HeadViews ==
    ASSUME WindowInv, connected, wire # <<>>, NEW s \in Streams, Head(wire).s = s,
           Head(wire).type # "settings"
    PROVE  \E a \in View, b \in View : ServerView(s, a) /\ Moves(Head(wire), req[s], a, b)
<1>1. PICK v : Views(s, v)
  BY DEF WindowInv, Follows
<1>2. wire \in Seq(FrameType) /\ Len(wire) \in Nat \ {0} /\ Head(wire) = wire[1]
  BY DEF WindowInv, TypesInv, ClientTypes
<1>3. 1 \in 1 .. Len(wire) /\ 1 \in 1 .. Len(wire) + 1 /\ 1 + 1 \in 1 .. Len(wire) + 1
  BY <1>2
<1>4. v[1] \in View /\ v[1 + 1] \in View /\ ServerView(s, v[1]) /\ Reads(wire[1], s, req[s], v[1], v[1 + 1])
  BY <1>1, <1>3 DEF Views, Between
<1> QED BY <1>2, <1>4 DEF Reads

LEMMA Opened ==
    ASSUME TypesInv, NEW f \in FrameType, f.s \in Streams
    PROVE  /\ OpenedBy(f) \in StreamType
           /\ OpenedBy(f).block = IF stream[f.s] = NoStream THEN <<>> ELSE stream[f.s].block
           /\ OpenedBy(f).consumedData = IF stream[f.s] = NoStream THEN 0 ELSE stream[f.s].consumedData
           /\ OpenedBy(f).windowSize = IF stream[f.s] = NoStream THEN settingsInitialWindowSize
                                       ELSE stream[f.s].windowSize
           /\ OpenedBy(f).state = IF f.end THEN "half" ELSE IF stream[f.s] = NoStream THEN "open"
                                  ELSE stream[f.s].state
<1>1. stream[f.s] \in StreamType \cup {NoStream} /\ settingsInitialWindowSize \in Int
  BY DEF TypesInv, ServerTypes
<1>2. PICK old : old = IF stream[f.s] # NoStream THEN stream[f.s]
                       ELSE [state |-> "open", windowSize |-> settingsInitialWindowSize, block |-> <<>>,
                             consumedData |-> 0, contentLength |-> -1]
  OBVIOUS
<1>3. /\ old \in StreamType
      /\ old.windowSize = IF stream[f.s] = NoStream THEN settingsInitialWindowSize
                          ELSE stream[f.s].windowSize
      /\ old.state = IF stream[f.s] = NoStream THEN "open" ELSE stream[f.s].state
      /\ old.block = IF stream[f.s] = NoStream THEN <<>> ELSE stream[f.s].block
      /\ old.consumedData = IF stream[f.s] = NoStream THEN 0 ELSE stream[f.s].consumedData
  <2>1. CASE stream[f.s] # NoStream
    BY <1>1, <1>2, <2>1
  <2>2. CASE stream[f.s] = NoStream
    <3>1. <<>> \in Seq(Int)
      OBVIOUS
    <3> QED BY <1>1, <1>2, <2>2, <3>1 DEF StreamType
  <2> QED BY <2>1, <2>2
<1>4. OpenedBy(f) = IF f.end THEN [old EXCEPT !.state = "half"] ELSE old
  BY <1>2 DEF OpenedBy
<1>5. [old EXCEPT !.state = "half"] \in StreamType
  BY <1>3 DEF StreamType
<1>6. f.end \in BOOLEAN
  BY DEF FrameType
<1>7. /\ [old EXCEPT !.state = "half"].state = "half"
      /\ [old EXCEPT !.state = "half"].windowSize = old.windowSize
      /\ [old EXCEPT !.state = "half"].block = old.block
      /\ [old EXCEPT !.state = "half"].consumedData = old.consumedData
  BY <1>3 DEF StreamType
<1> QED BY <1>3, <1>4, <1>5, <1>6, <1>7

\* What an accepted header frame makes of the block: the last frame of it decodes
\* what headersBuffer has, which is used again for the next block.
BlockResult(f, s, block) ==
    /\ f.type = "continuation" => streamForContinuation = s
    /\ IF f.whole
       THEN /\ stream'[s].block = OpenedBy(f).block \o block /\ Paths(stream'[s].block) = 1
            /\ streamForContinuation' = 0
            /\ headersBuffer' = IF headersBuffer = <<>> THEN <<>> ELSE block
       ELSE /\ stream'[s].block = OpenedBy(f).block
            /\ streamForContinuation' = s /\ headersBuffer' = block

\* A header frame that is accepted opens its stream or continues it, and the
\* last of a block ends the request with the stream.
HeaderResult(f, s) ==
    /\ stream'[s] \in StreamType /\ stream'[s].state = OpenedBy(f).state
    /\ stream'[s].windowSize = OpenedBy(f).windowSize
    /\ stream'[s].consumedData = OpenedBy(f).consumedData
    /\ \A t \in Streams \ {s} : stream'[t] = stream[t]
    /\ IF f.whole /\ OpenedBy(f).state = "half" THEN QueueStream(s) ELSE UNCHANGED <<socket, thread>>
    /\ ServerTypes' /\ settingsInitialWindowSize' = settingsInitialWindowSize
    /\ BlockResult(f, s, Append(headersBuffer, Piece(f)))

LEMMA HeadersResult ==
    ASSUME TypesInv, NEW f \in FrameType, f.s \in Streams, ParseHeaders(f)
    PROVE  /\ seen' = seen
           /\ \/ Closes /\ UNCHANGED <<parser, windowSize, stream, thread>>
              \/ HeaderResult(f, f.s)
<1>0. seen' = seen
  BY DEF ParseHeaders, Decode
<1>1. PICK h : h = OpenedBy(f)
  OBVIOUS
<1>2. h \in StreamType
  BY <1>1, Opened
<1>3. /\ stream \in [Streams -> StreamType \cup {NoStream}] /\ headersBuffer \in Seq(Int) /\ ServerTypes
      /\ f.n \in Int
  BY DEF TypesInv, ServerTypes, FrameType
<1>4. Piece(f) \in Int
  BY DEF Piece, Streams
<1>5. Append(headersBuffer, Piece(f)) \in Seq(Int)
  BY <1>3, <1>4
<1>6. CASE GoAway
  BY <1>0, <1>6 DEF GoAway
<1>7. CASE ~GoAway
  <2>0. f.type = "continuation" => streamForContinuation = f.s
    BY <1>7 DEF ParseHeaders
  <2>1. CASE f.whole
    <3>1. PICK block \in Seq(Int) : block = Append(headersBuffer, Piece(f))
      BY <1>5
    <3>2. Decode(f, h, block)
      BY <1>1, <1>7, <2>1, <3>1 DEF ParseHeaders
    <3>3. PICK g : g = [h EXCEPT !.block = @ \o block,
                                 !.contentLength = IF f.type = "trailers" THEN @ ELSE f.n]
      OBVIOUS
    <3>4. /\ stream' = [stream EXCEPT ![f.s] = g]
          /\ IF h.state = "half" THEN QueueStream(f.s) ELSE UNCHANGED <<socket, thread>>
          /\ headersBuffer' = IF headersBuffer = <<>> THEN <<>> ELSE block
          /\ UNCHANGED <<seen, windowSize, settings>>
          /\ Paths(h.block \o block) = 1 /\ streamForContinuation' = 0
      BY <1>7, <3>2, <3>3 DEF Decode
    <3>5. /\ g \in StreamType /\ g.state = h.state /\ g.windowSize = h.windowSize
          /\ g.block = h.block \o block /\ g.consumedData = h.consumedData
      <4>1. /\ h.block \o block \in Seq(Int)
            /\ (IF f.type = "trailers" THEN h.contentLength ELSE f.n) \in Int
        BY <1>2, <1>3 DEF StreamType
      <4> QED BY <1>2, <3>3, <4>1 DEF StreamType
    <3>6. stream'[f.s] = g /\ \A t \in Streams \ {f.s} : stream'[t] = stream[t]
      BY <1>3, <3>4
    <3>7. stream' \in [Streams -> StreamType \cup {NoStream}]
      BY <1>3, <3>4, <3>5
    <3>8. headersBuffer' \in Seq(Int)
      BY <3>4
    <3>9. ServerTypes' /\ settingsInitialWindowSize' = settingsInitialWindowSize
      BY <1>3, <3>4, <3>7, <3>8 DEF ServerTypes, settings
    <3>10. BlockResult(f, f.s, block)
      BY <1>1, <2>0, <2>1, <3>1, <3>4, <3>5, <3>6 DEF BlockResult
    <3> QED BY <1>0, <1>1, <2>1, <3>1, <3>4, <3>5, <3>6, <3>9, <3>10 DEF HeaderResult
  <2>2. CASE ~f.whole
    <3>1. /\ stream' = [stream EXCEPT ![f.s] = h] /\ headersBuffer' = Append(headersBuffer, Piece(f))
          /\ UNCHANGED <<socket, thread, seen, windowSize, settings>> /\ streamForContinuation' = f.s
      BY <1>1, <1>7, <2>2 DEF ParseHeaders
    <3>2. stream'[f.s] = h /\ \A t \in Streams \ {f.s} : stream'[t] = stream[t]
      BY <1>3, <3>1
    <3>3. stream' \in [Streams -> StreamType \cup {NoStream}]
      BY <1>2, <1>3, <3>1
    <3>4. ServerTypes' /\ settingsInitialWindowSize' = settingsInitialWindowSize
      BY <1>3, <1>5, <3>1, <3>3 DEF ServerTypes, settings
    <3>5. UNCHANGED <<socket, thread>>
      BY <3>1
    <3>6. BlockResult(f, f.s, Append(headersBuffer, Piece(f)))
      BY <1>1, <2>0, <2>2, <3>1, <3>2 DEF BlockResult
    <3> QED BY <1>0, <1>1, <1>2, <2>2, <3>2, <3>4, <3>5, <3>6 DEF HeaderResult
  <2> QED BY <2>1, <2>2
<1> QED BY <1>6, <1>7

LEMMA HeadersRead ==
    ASSUME WindowInv, connected, connState # "MethodLine", wire # <<>>, wire' = Tail(wire),
           ClientUnchanged, Head(wire).type \in {"headers", "continuation", "trailers"},
           ParseHeaders(Head(wire))
    PROVE  WindowInv'
<1>1. PICK f \in FrameType : f = Head(wire) /\ f.type \in {"headers", "continuation", "trailers"}
  BY HeadType
<1>2. f.s \in Streams
  BY <1>1, HeadType DEF StreamFrames
<1>3. PICK s \in Streams : s = f.s
  BY <1>2
<1>4. CASE HeaderResult(f, s)
  <2>1. \E a \in View, b \in View : ServerView(s, a) /\ Moves(f, req[s], a, b)
    BY <1>1, <1>3, HeadViews
  <2>2. run[s] = "none"
    BY <1>1, <2>1 DEF ServerView, Moves
  <2>3. run \in [Streams -> Runs] /\ ended' = ended /\ req' = req /\ f.whole \in BOOLEAN /\ f.end \in BOOLEAN
    BY DEF WindowInv, TypesInv, ThreadTypes, ClientUnchanged, FrameType
  <2>4. run'[s] = IF f.whole /\ OpenedBy(f).state = "half" THEN "queued" ELSE "none"
    BY <1>4, <2>2, <2>3 DEF HeaderResult, QueueStream, thread
  <2>5. /\ OpenedBy(f).windowSize = IF stream[s] = NoStream THEN settingsInitialWindowSize
                                    ELSE stream[s].windowSize
        /\ OpenedBy(f).state = IF f.end THEN "half" ELSE IF stream[s] = NoStream THEN "open"
                               ELSE stream[s].state
    BY <1>3, Opened DEF WindowInv
  <2>6. ASSUME NEW a \in View, NEW b \in View, ServerView(s, a), Moves(f, req[s], a, b),
               b.initial = a.initial
        PROVE  ServerView(s, b)'
    <3>1. /\ stream'[s].state = OpenedBy(f).state /\ stream'[s].windowSize = OpenedBy(f).windowSize
          /\ settingsInitialWindowSize' = settingsInitialWindowSize
          /\ stream'[s] # NoStream
      BY <1>4, InHash DEF HeaderResult
    <3>2. b.initial = settingsInitialWindowSize' /\ a.initial = settingsInitialWindowSize
      BY <2>6, <3>1 DEF ServerView
    <3>3. s \notin ended
      BY <2>2 DEF WindowInv, AnswersInv, RunInv
    <3>4. CASE f.type = "headers"
      <4>1. stream[s] = NoStream /\ b.window = a.initial /\ f.end = EndsHeaders(req[s])
            /\ b.phase = IF f.whole THEN AfterBlock(req[s]) ELSE "block"
        BY <1>1, <2>6, <3>4 DEF ServerView, Moves
      <4>2. OpenedBy(f).state = (IF EndsHeaders(req[s]) THEN "half" ELSE "open")
            /\ OpenedBy(f).windowSize = settingsInitialWindowSize
        BY <2>3, <2>5, <4>1
      <4> QED BY <2>3, <2>4, <3>1, <3>2, <4>1, <4>2 DEF ServerView, AfterBlock
    <3>5. CASE f.type = "continuation"
      <4>1. /\ stream[s].state = IF EndsHeaders(req[s]) THEN "half" ELSE "open"
            /\ b.window = a.window /\ f.whole /\ ~f.end /\ b.phase = AfterBlock(req[s]) /\ a.phase = "block"
        BY <1>1, <2>6, <3>5 DEF ServerView, Moves
      <4>2. stream[s] # NoStream
        BY <4>1 DEF NoStream
      <4>3. a.window = stream[s].windowSize
        BY <2>2, <2>6, <3>3, <4>1 DEF ServerView, Begun, Flowing
      <4> QED BY <2>3, <2>4, <2>5, <3>1, <3>2, <4>1, <4>2, <4>3 DEF ServerView, AfterBlock
    <3>6. CASE f.type = "trailers"
      <4>1. /\ stream[s].state = "open" /\ a.phase = "open"
            /\ b.window = a.window /\ f.whole /\ f.end /\ b.phase = "end"
        BY <1>1, <2>6, <3>6 DEF ServerView, Moves
      <4>2. stream[s] # NoStream
        BY <4>1 DEF NoStream
      <4>3. a.window = stream[s].windowSize
        BY <2>2, <2>6, <3>3, <4>1 DEF ServerView, Begun, Flowing
      <4> QED BY <2>3, <2>4, <2>5, <3>1, <3>2, <4>1, <4>2, <4>3 DEF ServerView
    <3> QED BY <1>1, <3>4, <3>5, <3>6
  <2>7. (run[s] = "none" /\ QueueStream(s)) \/ UNCHANGED <<socket, thread>>
    BY <1>4, <2>2 DEF HeaderResult
  <2>8. f.type # "settings"
    BY <1>1
  <2> QED BY <1>1, <1>3, <1>4, <2>6, <2>7, <2>8, StreamFrameRead DEF HeaderResult
<1>5. CASE Closes /\ UNCHANGED <<parser, windowSize, stream, thread>>
  BY <1>5, Dropped
<1> QED BY <1>1, <1>2, <1>3, <1>4, <1>5, HeadersResult DEF WindowInv

LEMMA DataRead ==
    ASSUME WindowInv, connected, connState # "MethodLine", wire # <<>>, wire' = Tail(wire),
           ClientUnchanged, Head(wire).type = "data", ParseData(Head(wire))
    PROVE  WindowInv'
<1>1. PICK f \in FrameType, s \in Streams : f = Head(wire) /\ s = f.s /\ f.type = "data"
  BY HeadType DEF StreamFrames
<1>2. CASE GoAway
  BY <1>2, Dropped DEF GoAway
<1>3. CASE ~GoAway
  <2>1. PICK h : h = [stream[s] EXCEPT !.consumedData = @ + Unpadded(f)]
    OBVIOUS
  <2>2. /\ stream[s] # NoStream /\ stream[s].state = "open" /\ stream' = [stream EXCEPT ![s] = h]
        /\ IF f.end THEN QueueStream(s) ELSE UNCHANGED <<socket, thread>>
        /\ UNCHANGED <<parser, windowSize, seen>>
    BY <1>1, <1>3, <2>1 DEF ParseData, EndsBody
  <2>3. /\ stream \in [Streams -> StreamType \cup {NoStream}] /\ Unpadded(f) \in Int /\ f.end \in BOOLEAN
        /\ run \in [Streams -> Runs] /\ ended' = ended /\ req' = req
    BY DEF WindowInv, TypesInv, ServerTypes, ThreadTypes, FrameType, ClientUnchanged, Unpadded
  <2>4. stream[s] \in StreamType
    BY <2>2, <2>3
  <2>5. h \in StreamType /\ h.state = "open" /\ h.windowSize = stream[s].windowSize
    BY <2>1, <2>2, <2>3, <2>4 DEF StreamType
  <2>6. /\ stream'[s] = h /\ \A t \in Streams \ {s} : stream'[t] = stream[t]
        /\ settingsInitialWindowSize' = settingsInitialWindowSize
    BY <2>2, <2>3 DEF parser, settings
  <2>7. ServerTypes'
    BY <2>2, <2>3, <2>5 DEF WindowInv, TypesInv, ServerTypes, parser, settings
  <2>8. \E a \in View, b \in View : ServerView(s, a) /\ Moves(f, req[s], a, b)
    BY <1>1, HeadViews
  <2>9. run[s] = "none"
    BY <1>1, <2>8 DEF ServerView, Moves
  <2>10. run'[s] = IF f.end THEN "queued" ELSE "none"
    BY <2>2, <2>3, <2>9 DEF QueueStream, thread
  <2>11. s \notin ended
    BY <2>9 DEF WindowInv, AnswersInv, RunInv
  <2>12. ASSUME NEW a \in View, NEW b \in View, ServerView(s, a), Moves(f, req[s], a, b),
                b.initial = a.initial
         PROVE  ServerView(s, b)'
    <3>1. /\ a.phase = "open" /\ b.window = a.window /\ b.phase = IF f.end THEN "end" ELSE "open"
          /\ a.initial = settingsInitialWindowSize
      BY <1>1, <2>12 DEF ServerView, Moves
    <3>2. a.window = stream[s].windowSize
      BY <2>9, <2>11, <2>12, <3>1 DEF ServerView, Begun, Flowing
    <3> QED BY <2>3, <2>5, <2>6, <2>10, <2>12, <3>1, <3>2 DEF ServerView
  <2>13. /\ (run[s] = "none" /\ QueueStream(s)) \/ UNCHANGED <<socket, thread>>
         /\ f.type # "settings" /\ stream'[s] \in StreamType
    BY <1>1, <2>2, <2>5, <2>6, <2>9
  <2> QED BY <1>1, <2>6, <2>7, <2>12, <2>13, StreamFrameRead
<1> QED BY <1>2, <1>3

LEMMA ResetRead ==
    ASSUME WindowInv, connected, connState # "MethodLine", wire # <<>>, wire' = Tail(wire),
           ClientUnchanged, Head(wire).type = "reset", ParseRstStream(Head(wire))
    PROVE  WindowInv'
<1>1. PICK f \in FrameType, s \in Streams : f = Head(wire) /\ s = f.s /\ f.type = "reset"
  BY HeadType DEF StreamFrames
<1>2. CASE GoAway
  BY <1>2, Dropped DEF GoAway
<1>3. CASE ~GoAway
  <2>1. PICK h : h = [stream[s] EXCEPT !.state = "closed"]
    OBVIOUS
  <2>2. /\ stream[s] # NoStream /\ stream' = [stream EXCEPT ![s] = h]
        /\ UNCHANGED <<socket, thread>> /\ UNCHANGED <<parser, windowSize, seen>>
    BY <1>1, <1>3, <2>1 DEF ParseRstStream
  <2>3. /\ stream \in [Streams -> StreamType \cup {NoStream}] /\ req' = req
    BY DEF WindowInv, TypesInv, ServerTypes, ClientUnchanged
  <2>4. stream[s] \in StreamType
    BY <2>2, <2>3
  <2>5. h \in StreamType /\ h.state = "closed"
    BY <2>1, <2>4 DEF StreamType
  <2>6. /\ stream'[s] = h /\ \A t \in Streams \ {s} : stream'[t] = stream[t]
        /\ settingsInitialWindowSize' = settingsInitialWindowSize
    BY <2>2, <2>3 DEF parser, settings
  <2>7. ServerTypes'
    BY <2>2, <2>3, <2>5 DEF WindowInv, TypesInv, ServerTypes, parser, settings
  <2>8. ASSUME NEW a \in View, NEW b \in View, ServerView(s, a), Moves(f, req[s], a, b),
               b.initial = a.initial
        PROVE  ServerView(s, b)'
    <3>1. b.phase = "reset" /\ a.initial = settingsInitialWindowSize
      BY <1>1, <2>8 DEF ServerView, Moves
    <3> QED BY <2>3, <2>5, <2>6, <2>8, <3>1 DEF ServerView, Begun
  <2>9. f.type # "settings" /\ stream'[s] \in StreamType /\ UNCHANGED <<socket, thread>>
    BY <1>1, <2>2, <2>5, <2>6
  <2> QED BY <1>1, <2>6, <2>7, <2>8, <2>9, StreamFrameRead
<1> QED BY <1>2, <1>3

\* The windows are opened, and some loops are told to quit.
LEMMA WindowsOpen ==
    ASSUME TypesInv, QueuedInv, NEW window \in Int, NEW streams \in [Streams -> StreamType \cup {NoStream}],
           Opens(window, streams), ClientUnchanged
    PROVE  /\ ThreadTypes' /\ QueuedInv' /\ stream' = streams /\ windowSize' = window
           /\ UNCHANGED <<connected, spinning, todo>>
           /\ \A t \in Streams : run'[t] = run[t] \/ (run[t] = "waiting" /\ run'[t] = "woken")
<1>1. /\ run \in [Streams -> Runs] /\ queued \in Seq(Streams) /\ ThreadTypes
  BY DEF TypesInv, ThreadTypes
<1>2. /\ stream' = streams /\ windowSize' = window /\ run' = WindowUpdated(window, streams)
      /\ UNCHANGED <<queued, todo, ended>> /\ connected' = connected /\ spinning' = spinning
  BY DEF Opens, ClientUnchanged, socket
<1>3. ASSUME NEW t \in Streams
      PROVE  run'[t] = run[t] \/ (run[t] = "waiting" /\ run'[t] = "woken")
  <2>1. run'[t] = IF /\ streams[t] # NoStream /\ run[t] = "waiting"
                     /\ window > 0 /\ streams[t].windowSize > 0
                  THEN "woken" ELSE run[t]
    BY <1>2 DEF WindowUpdated
  <2>2. CASE /\ streams[t] # NoStream /\ run[t] = "waiting"
             /\ window > 0 /\ streams[t].windowSize > 0
    BY <2>1, <2>2
  <2>3. CASE ~(/\ streams[t] # NoStream /\ run[t] = "waiting"
               /\ window > 0 /\ streams[t].windowSize > 0)
    <3>1. run'[t] = run[t]
      BY <2>1, <2>3
    <3> QED BY <3>1
  <2> QED BY <2>2, <2>3
<1>4. run' \in [Streams -> Runs]
  <2>1. ASSUME NEW t \in Streams
        PROVE  (IF streams[t] # NoStream /\ run[t] = "waiting" /\ window > 0 /\ streams[t].windowSize > 0
                THEN "woken" ELSE run[t]) \in Runs
    BY <1>1 DEF Runs
  <2> QED BY <1>2, <2>1 DEF WindowUpdated
<1>5. QueuedInv'
  <2>1. \A i \in DOMAIN queued : queued[i] \in Streams
    BY <1>1
  <2>2. \A i \in DOMAIN queued : run'[queued[i]] = "queued"
    BY <1>3, <2>1 DEF QueuedInv
  <2> QED BY <1>2, <2>2 DEF QueuedInv
<1>6. ThreadTypes'
  BY <1>1, <1>2, <1>4 DEF ThreadTypes
<1> QED BY <1>2, <1>3, <1>5, <1>6

LEMMA Opening ==
    ASSUME WindowInv, NEW window \in Int, NEW streams \in [Streams -> StreamType \cup {NoStream}],
           Opens(window, streams), ClientUnchanged,
           \A t \in Streams : streams[t] = NoStream <=> stream[t] = NoStream
    PROVE  /\ ThreadTypes' /\ QueuedInv' /\ AnswersInv' /\ ~spinning' /\ connected' = connected
           /\ stream' = streams /\ windowSize' = window
           /\ \A t \in Streams : /\ run'[t] = run[t] \/ (run[t] = "waiting" /\ run'[t] = "woken")
                                 /\ Flowing(t)' <=> Flowing(t)
<1>1. /\ ThreadTypes' /\ QueuedInv' /\ stream' = streams /\ windowSize' = window
      /\ UNCHANGED <<connected, spinning, todo, ended>>
      /\ \A t \in Streams : run'[t] = run[t] \/ (run[t] = "waiting" /\ run'[t] = "woken")
  BY WindowsOpen DEF WindowInv, ClientUnchanged
<1>2. ASSUME NEW t \in Streams PROVE RunInv(t)'
  <2>1. RunInv(t)
    BY DEF WindowInv, AnswersInv
  <2> QED BY <1>1, <2>1 DEF RunInv
<1>3. \A t \in Streams : Flowing(t)' <=> Flowing(t)
  BY <1>1 DEF Flowing
<1> QED BY <1>1, <1>2, <1>3 DEF AnswersInv, WindowInv

LEMMA UpdateRead ==
    ASSUME WindowInv, connected, connState # "MethodLine", wire # <<>>, wire' = Tail(wire),
           ClientUnchanged, Head(wire).type = "update", ParseWindowUpdate(Head(wire))
    PROVE  WindowInv'
<1>1. PICK f \in FrameType : f = Head(wire) /\ f.type = "update"
  BY HeadType
<1>2. /\ stream \in [Streams -> StreamType \cup {NoStream}] /\ f.n \in Int /\ f.s \in Streams \cup {0}
      /\ windowSize \in Int /\ ServerTypes /\ req' = req
  BY DEF WindowInv, TypesInv, ServerTypes, FrameType, ClientUnchanged
<1>3. CASE GoAway
  BY <1>3, Dropped DEF GoAway
<1>4. CASE f.s = 0 /\ Opens(windowSize + f.n, stream) /\ UNCHANGED parser
  <2>1. windowSize + f.n \in Int
    BY <1>2
  <2>2. /\ ThreadTypes' /\ QueuedInv' /\ AnswersInv' /\ ~spinning' /\ connected' = connected
        /\ stream' = stream /\ windowSize' = windowSize + f.n
        /\ \A t \in Streams : /\ run'[t] = run[t] \/ (run[t] = "waiting" /\ run'[t] = "woken")
                              /\ Flowing(t)' <=> Flowing(t)
    BY <1>2, <1>4, <2>1, Opening
  <2>3. ServerTypes'
    BY <1>2, <1>4, <2>1, <2>2 DEF ServerTypes, parser, settings
  <2>4. ASSUME NEW t \in Streams, NEW a \in View, NEW b \in View, ServerView(t, a),
               Reads(f, t, req[t], a, b)
        PROVE  ServerView(t, b)' /\ (Flowing(t)' => Flowing(t))
    <3>1. f.s # t
      BY <1>4 DEF Streams
    <3>2. b = a
      BY <1>1, <2>4, <3>1 DEF Reads
    <3>3. settingsInitialWindowSize' = settingsInitialWindowSize
      BY <1>4 DEF parser, settings
    <3> QED BY <1>2, <2>2, <2>4, <3>2, <3>3 DEF ServerView
  <2> QED BY <1>1, <2>2, <2>3, <2>4, FrameRead
<1>5. CASE /\ f.s \in Streams /\ stream[f.s] # NoStream
           /\ Closes /\ stream' = [stream EXCEPT ![f.s].state = "closed"]
           /\ UNCHANGED <<goaway, parser, windowSize, seen, thread>>
  <2>0. PICK s \in Streams : s = f.s
    BY <1>5
  <2>1. PICK h : h = [stream[s] EXCEPT !.state = "closed"]
    OBVIOUS
  <2>2. stream[s] \in StreamType /\ stream' = [stream EXCEPT ![s] = h]
    BY <1>2, <1>5, <2>0, <2>1
  <2>3. h \in StreamType
    BY <2>1, <2>2 DEF StreamType
  <2>4. ServerTypes' /\ ThreadTypes' /\ ~spinning' /\ ~connected'
    BY <1>2, <1>5, <2>2, <2>3 DEF WindowInv, TypesInv, ServerTypes, ThreadTypes, Closes, parser,
                                  settings, thread, ClientUnchanged
  <2>5. \A t \in Streams : stream'[t] = NoStream => stream[t] = NoStream
    BY <1>2, <2>2, <2>3, InHash
  <2>6. QueuedInv' /\ AnswersInv'
    BY <1>5, <2>5 DEF WindowInv, QueuedInv, AnswersInv, RunInv, thread, ClientUnchanged
  <2> QED BY <2>4, <2>6, FrameRead
<1>6. CASE /\ f.s \in Streams /\ stream[f.s] # NoStream
           /\ Opens(windowSize, [stream EXCEPT ![f.s].windowSize = @ + f.n]) /\ UNCHANGED parser
  <2>0. PICK s \in Streams : s = f.s
    BY <1>6
  <2>1. PICK h : h = [stream[s] EXCEPT !.windowSize = @ + f.n]
    OBVIOUS
  <2>2. stream[s] \in StreamType /\ Opens(windowSize, [stream EXCEPT ![s] = h])
    BY <1>2, <1>6, <2>0, <2>1
  <2>3. h \in StreamType /\ h.windowSize = stream[s].windowSize + f.n /\ h.state = stream[s].state
    <3>1. stream[s].windowSize + f.n \in Int
      BY <1>2, <2>2 DEF StreamType
    <3> QED BY <2>1, <2>2, <3>1 DEF StreamType
  <2>4. PICK streams : streams = [stream EXCEPT ![s] = h]
    OBVIOUS
  <2>5. /\ streams \in [Streams -> StreamType \cup {NoStream}]
        /\ \A t \in Streams : streams[t] = NoStream <=> stream[t] = NoStream
        /\ streams[s] = h /\ \A t \in Streams \ {s} : streams[t] = stream[t]
    BY <1>2, <2>2, <2>3, <2>4, InHash
  <2>6. /\ ThreadTypes' /\ QueuedInv' /\ AnswersInv' /\ ~spinning' /\ connected' = connected
        /\ stream' = streams /\ windowSize' = windowSize
        /\ \A t \in Streams : /\ run'[t] = run[t] \/ (run[t] = "waiting" /\ run'[t] = "woken")
                              /\ Flowing(t)' <=> Flowing(t)
    BY <1>2, <2>2, <2>4, <2>5, Opening
  <2>7. ServerTypes' /\ settingsInitialWindowSize' = settingsInitialWindowSize
    BY <1>2, <1>6, <2>5, <2>6 DEF ServerTypes, parser, settings
  <2>8. ASSUME NEW t \in Streams, NEW a \in View, NEW b \in View, ServerView(t, a),
               Reads(f, t, req[t], a, b)
        PROVE  ServerView(t, b)' /\ (Flowing(t)' => Flowing(t))
    <3>1. CASE t # s
      <4>1. b = a
        BY <1>1, <2>0, <2>8, <3>1 DEF Reads
      <4>2. stream'[t] = stream[t]
        BY <2>5, <2>6, <3>1
      <4> QED BY <1>2, <2>6, <2>7, <2>8, <4>1, <4>2 DEF ServerView
    <3>2. CASE t = s
      <4>1. /\ a.phase \in {"open", "end"} /\ b.phase = a.phase /\ b.window = a.window + f.n
            /\ b.initial = a.initial
        BY <1>1, <2>0, <2>8, <3>2 DEF Reads, Moves
      <4>2. stream'[s] = h
        BY <2>5, <2>6
      <4>3. /\ a.initial = settingsInitialWindowSize
            /\ a.phase = "open" => stream[s].state = "open" /\ run[s] = "none"
            /\ a.phase = "end" => run[s] # "none"
            /\ Flowing(s) => a.window = stream[s].windowSize
        BY <2>8, <3>2, <4>1 DEF ServerView, Begun
      <4> QED BY <2>3, <2>6, <2>7, <3>2, <4>1, <4>2, <4>3 DEF ServerView
    <3> QED BY <3>1, <3>2
  <2> QED BY <1>1, <2>6, <2>7, <2>8, FrameRead
<1>7. \/ f.s = 0 /\ (GoAway \/ (Opens(windowSize + f.n, stream) /\ UNCHANGED parser))
      \/ /\ f.s # 0
         /\ \/ GoAway
            \/ /\ stream[f.s] # NoStream
               /\ \/ /\ Closes /\ stream' = [stream EXCEPT ![f.s].state = "closed"]
                     /\ UNCHANGED <<goaway, parser, windowSize, seen, thread>>
                  \/ Opens(windowSize, [stream EXCEPT ![f.s].windowSize = @ + f.n]) /\ UNCHANGED parser
  <2>1. CASE f.s = 0
    <3>1. IF windowSize + f.n > MaxWindow THEN GoAway /\ UNCHANGED seen
          ELSE Opens(windowSize + f.n, stream) /\ UNCHANGED parser
      BY <1>1, <2>1 DEF ParseWindowUpdate
    <3> QED BY <2>1, <3>1
  <2>2. CASE f.s # 0 /\ stream[f.s] = NoStream
    BY <1>1, <2>2 DEF ParseWindowUpdate
  <2>3. CASE f.s # 0 /\ stream[f.s] # NoStream /\ stream[f.s].windowSize + f.n > MaxWindow
    BY <1>1, <2>3 DEF ParseWindowUpdate
  <2>4. CASE f.s # 0 /\ stream[f.s] # NoStream /\ ~(stream[f.s].windowSize + f.n > MaxWindow)
    BY <1>1, <2>4 DEF ParseWindowUpdate
  <2> QED BY <2>1, <2>2, <2>3, <2>4
<1> QED BY <1>2, <1>3, <1>4, <1>5, <1>6, <1>7

LEMMA SettingsRead ==
    ASSUME WindowInv, connected, connState # "MethodLine", wire # <<>>, wire' = Tail(wire),
           ClientUnchanged, Head(wire).type = "settings", ParseSettings(Head(wire))
    PROVE  WindowInv'
<1>1. PICK f \in FrameType : f = Head(wire) /\ f.type = "settings"
  BY HeadType
<1>2. /\ stream \in [Streams -> StreamType \cup {NoStream}] /\ f.n \in Int /\ f.size \in Int
      /\ windowSize \in Int /\ ServerTypes /\ req' = req /\ settingsInitialWindowSize \in Int
  BY DEF WindowInv, TypesInv, ServerTypes, FrameType, ClientUnchanged
<1>3. PICK d \in Int : d = f.n - settingsInitialWindowSize
  BY <1>2
<1>4. PICK streams : streams = [s \in Streams |->
                 IF stream[s] = NoStream THEN NoStream
                 ELSE [stream[s] EXCEPT !.windowSize = @ + f.n - settingsInitialWindowSize]]
  OBVIOUS
<1>5. /\ Opens(windowSize, streams)
      /\ settingsInitialWindowSize' = f.n /\ settingsMaxFrameSize' = f.size /\ headersBuffer' = headersBuffer
  BY <1>1, <1>4 DEF ParseSettings
<1>6. ASSUME NEW s \in Streams
      PROVE  /\ streams[s] \in StreamType \cup {NoStream}
             /\ streams[s] = NoStream <=> stream[s] = NoStream
             /\ stream[s] # NoStream => /\ streams[s].state = stream[s].state
                                        /\ streams[s].windowSize = stream[s].windowSize + d
  <2>1. CASE stream[s] = NoStream
    BY <1>4, <2>1
  <2>2. CASE stream[s] # NoStream
    <3>1. stream[s] \in StreamType
      BY <1>2, <2>2
    <3>2. PICK w \in Int : w = stream[s].windowSize + f.n - settingsInitialWindowSize
      BY <1>2, <3>1 DEF StreamType
    <3>3. w = stream[s].windowSize + d
      BY <1>2, <1>3, <3>1, <3>2 DEF StreamType
    <3>4. streams[s] = [stream[s] EXCEPT !.windowSize = w]
      BY <1>4, <2>2, <3>2
    <3>5. streams[s] \in StreamType /\ streams[s].state = stream[s].state /\ streams[s].windowSize = w
      BY <3>1, <3>4 DEF StreamType
    <3> QED BY <2>2, <3>3, <3>5, InHash
  <2> QED BY <2>1, <2>2
<1>7. streams \in [Streams -> StreamType \cup {NoStream}]
  <2>1. DOMAIN streams = Streams /\ streams = [s \in Streams |-> streams[s]]
    BY <1>4
  <2> QED BY <1>6, <2>1
<1>8. /\ ThreadTypes' /\ QueuedInv' /\ AnswersInv' /\ ~spinning' /\ connected' = connected
      /\ stream' = streams /\ windowSize' = windowSize
      /\ \A t \in Streams : /\ run'[t] = run[t] \/ (run[t] = "waiting" /\ run'[t] = "woken")
                            /\ Flowing(t)' <=> Flowing(t)
  BY <1>2, <1>5, <1>6, <1>7, Opening
<1>9. ServerTypes'
  BY <1>2, <1>5, <1>7, <1>8 DEF ServerTypes
<1>10. ASSUME NEW s \in Streams, NEW a \in View, NEW b \in View, ServerView(s, a),
              Reads(f, s, req[s], a, b)
       PROVE  ServerView(s, b)' /\ (Flowing(s)' => Flowing(s))
  <2>1. b.phase = a.phase /\ b.initial = f.n /\ b.window = a.window + (f.n - a.initial)
    BY <1>1, <1>10 DEF Reads
  <2>2. a.initial = settingsInitialWindowSize /\ b.window = a.window + d
    BY <1>3, <1>10, <2>1 DEF ServerView
  <2>3. a.phase \in Begun /\ Flowing(s) => stream[s] # NoStream
    <3>1. a.phase \in {"block", "open"} => stream[s] # NoStream
      BY <1>10 DEF ServerView, NoStream
    <3>2. a.phase = "end" /\ Flowing(s) => stream[s] # NoStream
      BY <1>10 DEF ServerView, Flowing, WindowInv, AnswersInv, RunInv
    <3> QED BY <3>1, <3>2 DEF Begun
  <2>4. /\ a.phase \in {"block", "open"} => stream[s] # NoStream
        /\ stream[s] = NoStream \/ stream'[s].state = stream[s].state
    BY <1>6, <1>8, <1>10 DEF ServerView, NoStream
  <2>5. a.phase \in Begun /\ Flowing(s) => b.window = stream'[s].windowSize
    BY <1>6, <1>8, <1>10, <2>2, <2>3 DEF ServerView
  <2> QED BY <1>2, <1>5, <1>6, <1>8, <1>10, <2>1, <2>4, <2>5 DEF ServerView
<1> QED BY <1>1, <1>8, <1>9, <1>10, FrameRead

LEMMA PrefaceRead ==
    ASSUME WindowInv, connected, connState = "MethodLine", wire # <<>>, wire' = Tail(wire),
           ClientUnchanged, ParsePreface(Head(wire))
    PROVE  WindowInv'
<1>1. UNCHANGED <<parser, windowSize, stream, thread>>
  BY DEF ParsePreface
<1>2. CASE Head(wire).type # "preface"
  <2>1. Closes
    BY <1>2 DEF ParsePreface
  <2> QED BY <1>1, <2>1, Dropped
<1>3. CASE Head(wire).type = "preface"
  <2>1. ~spinning' /\ connected' = connected /\ UNCHANGED <<stream, run, ended, req>>
        /\ settingsInitialWindowSize' = settingsInitialWindowSize
    BY <1>1, <1>3 DEF ParsePreface, WindowInv, parser, settings, thread, ClientUnchanged
  <2>2. ServerTypes' /\ ThreadTypes' /\ QueuedInv' /\ AnswersInv'
    BY <1>1, <2>1 DEF WindowInv, TypesInv, ServerTypes, ThreadTypes, QueuedInv, AnswersInv, RunInv,
                      parser, settings, thread
  <2>3. ASSUME NEW s \in Streams, NEW a \in View, NEW b \in View, ServerView(s, a),
               Reads(Head(wire), s, req[s], a, b)
        PROVE  ServerView(s, b)' /\ (Flowing(s)' => Flowing(s))
    <3>1. b = a
      BY <1>3, <2>3 DEF Reads, Moves
    <3> QED BY <2>1, <2>3, <3>1 DEF ServerView, Flowing
  <2> QED BY <2>1, <2>2, <2>3, FrameRead
<1> QED BY <1>2, <1>3

LEMMA ParseKeeps ==
    ASSUME WindowInv, Parse
    PROVE  WindowInv'
<1>1. connected /\ wire # <<>> /\ wire' = Tail(wire) /\ ClientUnchanged
  BY DEF Parse, ClientUnchanged
<1>2. CASE connState = "MethodLine"
  BY <1>1, <1>2, PrefaceRead DEF Parse
<1>3. CASE connState # "MethodLine"
  <2>1. PICK f \in FrameType : f = Head(wire) /\ f.type \in FrameTypes /\ f.form # "segment"
    BY <1>1, <1>3, HeadType
  <2>2. CASE f.type \in {"headers", "continuation", "trailers"}
    BY <1>1, <1>3, <2>1, <2>2, HeadersRead DEF Parse, HeaderFrames
  <2>3. CASE f.type = "data"
    BY <1>1, <1>3, <2>1, <2>3, DataRead DEF Parse, HeaderFrames
  <2>4. CASE f.type = "reset"
    BY <1>1, <1>3, <2>1, <2>4, ResetRead DEF Parse, HeaderFrames
  <2>5. CASE f.type = "update"
    BY <1>1, <1>3, <2>1, <2>5, UpdateRead DEF Parse, HeaderFrames
  <2>6. CASE f.type = "settings"
    BY <1>1, <1>3, <2>1, <2>6, SettingsRead DEF Parse, HeaderFrames
  <2> QED BY <2>1, <2>2, <2>3, <2>4, <2>5, <2>6 DEF FrameTypes
<1> QED BY <1>2, <1>3

----------------------------------------------------------------------------
(* The application and its answers.                                         *)

\* A step of the thread for the stream s.
StepOf(s) ==
    /\ UNCHANGED <<wire, req, phase, left, asked, connState, connected, spinning, settings, headersBuffer>>
    /\ \A t \in Streams \ {s} :
          /\ stream'[t] = stream[t] /\ run'[t] = run[t] /\ todo'[t] = todo[t]
          /\ streamCredit'[t] = streamCredit[t] /\ (t \in ended' <=> t \in ended)

LEMMA ThreadKeeps ==
    ASSUME WindowInv, NEW s \in Streams, StepOf(s), ServerTypes', ThreadTypes', QueuedInv', RunInv(s)',
           streamCredit' \in [Streams -> Int], connCredit' \in Int, streamCredit'[s] >= 0,
           connected => Follows(s)'
    PROVE  WindowInv'
<1>1. ClientTypes' /\ WireInv' /\ ~spinning'
  BY DEF WindowInv, TypesInv, ClientTypes, WireInv, StepOf, asked
<1>2. ASSUME NEW t \in Streams, t # s
      PROVE  RunInv(t)' /\ streamCredit'[t] >= 0 /\ (connected => Follows(t)')
  <2>1. RunInv(t)'
    BY <1>2 DEF WindowInv, AnswersInv, RunInv, StepOf
  <2>2. streamCredit'[t] >= 0
    BY <1>2 DEF WindowInv, StreamWindowRespected, StepOf
  <2>3. ASSUME connected PROVE Follows(t)'
    <3>1. PICK v : Views(t, v)
      BY <2>3 DEF WindowInv, Follows
    <3>2. ServerView(t, v[1])'
      BY <1>2, <3>1 DEF Views, ServerView, Flowing, StepOf, settings
    <3>3. /\ streamCredit'[t] = streamCredit[t] /\ UNCHANGED <<wire, req, phase, clientInitial>>
          /\ Flowing(t)' => Flowing(t)
      BY <1>2 DEF StepOf, Flowing, asked
    <3> QED BY <3>1, <3>2, <3>3, ViewsKept
  <2> QED BY <2>1, <2>2, <2>3
<1> QED BY <1>1, <1>2 DEF WindowInv, TypesInv, AnswersInv, StreamWindowRespected, StepOf

\* A step that sends nothing of a stream which the server has read to its end.
LEMMA QuietStep ==
    ASSUME WindowInv, NEW s \in Streams, StepOf(s), ServerTypes', ThreadTypes', QueuedInv', RunInv(s)',
           streamCredit' = streamCredit, connCredit' = connCredit, ended' = ended,
           run[s] # "none", run'[s] # "none",
           stream'[s] = stream[s] \/ (stream'[s] = NoStream /\ run'[s] = "done"),
           run[s] = "done" => run'[s] = "done"
    PROVE  WindowInv'
<1>1. /\ streamCredit' \in [Streams -> Int] /\ connCredit' \in Int /\ streamCredit'[s] >= 0
  BY DEF WindowInv, TypesInv, ClientTypes, StreamWindowRespected
<1>2. ASSUME connected PROVE Follows(s)'
  <2>1. PICK v : Views(s, v)
    BY <1>2 DEF WindowInv, Follows
  <2>2. ServerView(s, v[1])'
    BY <2>1 DEF Views, ServerView, Flowing, StepOf, settings
  <2>3. /\ streamCredit'[s] = streamCredit[s] /\ UNCHANGED <<wire, req, phase, clientInitial>>
        /\ Flowing(s)' => Flowing(s)
    BY DEF StepOf, Flowing, asked
  <2> QED BY <2>1, <2>2, <2>3, ViewsKept
<1> QED BY <1>1, <1>2, ThreadKeeps

LEMMA AnswerTypes ==
    ASSUME TypesInv, NEW s \in Streams, NEW writes \in Answers, Answer(s, writes)
    PROVE  /\ todo' \in [Streams -> Seq(Nat)] /\ run' \in [Streams -> Runs]
           /\ InOneWrite => Len(todo'[s]) <= 1
           /\ run'[s] = "writing"
           /\ \A t \in Streams \ {s} : run'[t] = run[t] /\ todo'[t] = todo[t]
<1>1. /\ todo \in [Streams -> Seq(Nat)] /\ run \in [Streams -> Runs]
  BY DEF TypesInv, ThreadTypes
<1>2. PICK rest : rest = IF connected THEN writes ELSE <<>>
  OBVIOUS
<1>3. rest \in Seq(Nat) /\ (InOneWrite => Len(rest) <= 1)
  <2>1. writes \in Seq(Nat \ {0}) /\ (InOneWrite => Len(writes) <= 1)
    BY Http2Assumption DEF InOneWrite
  <2>2. writes \in Seq(Nat)
    BY <2>1
  <2> QED BY <1>2, <2>1, <2>2
<1>4. todo' = [todo EXCEPT ![s] = rest] /\ run' = [run EXCEPT ![s] = "writing"]
  BY <1>2 DEF Answer
<1> QED BY <1>1, <1>3, <1>4 DEF Runs

\* The first of the queue is in it no more.
LEMMA Dequeued ==
    ASSUME TypesInv, QueuedInv, queued # <<>>, queued' = Tail(queued), NEW s \in Streams,
           s = Head(queued), \A t \in Streams \ {s} : run'[t] = run[t]
    PROVE  run[s] = "queued" /\ QueuedInv'
<1>1. queued \in Seq(Streams) /\ 1 \in DOMAIN queued /\ queued[1] = s
  BY DEF TypesInv, ThreadTypes
<1>2. \A i \in DOMAIN queued' : /\ i + 1 \in DOMAIN queued /\ queued'[i] = queued[i + 1] /\ i + 1 # 1
                                /\ i \in Int /\ queued[i + 1] \in Streams
  BY <1>1
<1>3. \A i \in DOMAIN queued' : queued'[i] # s /\ run[queued'[i]] = "queued"
  BY <1>1, <1>2 DEF QueuedInv
<1>4. \A i \in DOMAIN queued' : run'[queued'[i]] = "queued"
  BY <1>2, <1>3
<1>5. ASSUME NEW i \in DOMAIN queued', NEW j \in DOMAIN queued', queued'[i] = queued'[j]
      PROVE  i = j
  <2>1. i + 1 = j + 1
    BY <1>2, <1>5 DEF QueuedInv
  <2> QED BY <1>2, <2>1
<1> QED BY <1>1, <1>4, <1>5 DEF QueuedInv

LEMMA ProcessKeeps ==
    ASSUME WindowInv, Assumed, Process
    PROVE  WindowInv'
<1>1. /\ queued \in Seq(Streams) /\ queued # <<>> /\ queued' = Tail(queued)
      /\ run \in [Streams -> Runs] /\ todo \in [Streams -> Seq(Nat)]
  BY DEF WindowInv, TypesInv, ThreadTypes, Process
<1>2. PICK s \in Streams : s = Head(queued)
  BY <1>1
<1>3. /\ \/ \E writes \in Answers : Answer(s, writes)
         \/ run' = [run EXCEPT ![s] = "async"] /\ UNCHANGED <<todo, stack>>
      /\ UNCHANGED <<client, ended, socket, parser, windowSize, stream>>
  BY <1>2 DEF Process
<1>4. 1 \in DOMAIN queued /\ queued[1] = s
  BY <1>1, <1>2
<1>5. run[s] = "queued" /\ s \notin ended /\ stream[s] # NoStream /\ todo[s] = <<>>
  BY <1>1, <1>4 DEF WindowInv, QueuedInv, AnswersInv, RunInv
<1>6. /\ todo' \in [Streams -> Seq(Nat)] /\ run' \in [Streams -> Runs]
      /\ Len(todo'[s]) <= 1 /\ run'[s] \in {"writing", "async"}
      /\ todo'[s] # <<>> => run'[s] = "writing"
      /\ \A t \in Streams \ {s} : run'[t] = run[t] /\ todo'[t] = todo[t]
  <2>1. CASE \E writes \in Answers : Answer(s, writes)
    BY <2>1, AnswerTypes DEF WindowInv, Assumed
  <2>2. CASE run' = [run EXCEPT ![s] = "async"] /\ UNCHANGED <<todo, stack>>
    BY <1>1, <1>5, <2>2 DEF Runs
  <2> QED BY <1>3, <2>1, <2>2
<1>7. QueuedInv'
  BY <1>1, <1>2, <1>6, Dequeued DEF WindowInv
<1>8. /\ ended' = ended /\ stream' = stream /\ UNCHANGED <<streamCredit, connCredit>>
      /\ StepOf(s)
  BY <1>3, <1>6 DEF StepOf, client, socket, parser
<1>9. RunInv(s)'
  BY <1>5, <1>6, <1>8 DEF RunInv
<1>10. ServerTypes' /\ ThreadTypes'
  BY <1>1, <1>3, <1>6 DEF WindowInv, TypesInv, ServerTypes, ThreadTypes, parser, settings
<1> QED BY <1>5, <1>6, <1>7, <1>8, <1>9, <1>10, QuietStep

\* A stream that was dispatched is in the queue no more.
LEMMA QueueKept ==
    ASSUME TypesInv, QueuedInv, NEW s \in Streams, run[s] # "queued", queued' = queued,
           \A t \in Streams \ {s} : run'[t] = run[t]
    PROVE  QueuedInv'
<1>1. queued \in Seq(Streams)
  BY DEF TypesInv, ThreadTypes
<1>2. \A i \in DOMAIN queued : queued[i] \in Streams \ {s} /\ run[queued[i]] = "queued"
  BY <1>1 DEF QueuedInv
<1> QED BY <1>2 DEF QueuedInv

LEMMA CompleteKeeps ==
    ASSUME WindowInv, Assumed, NEW s \in Streams, Complete(s)
    PROVE  WindowInv'
<1>1. /\ UNCHANGED <<client, ended, socket, parser, windowSize, stream, seen, queued>>
      /\ run[s] = "async"
  BY DEF Complete
<1>2. s \notin ended /\ stream[s] # NoStream
  BY <1>1 DEF WindowInv, AnswersInv, RunInv
<1>3. /\ todo' \in [Streams -> Seq(Nat)] /\ run' \in [Streams -> Runs]
      /\ Len(todo'[s]) <= 1 /\ run'[s] = "writing"
      /\ \A t \in Streams \ {s} : run'[t] = run[t] /\ todo'[t] = todo[t]
  BY AnswerTypes DEF Complete, WindowInv, Assumed
<1>4. QueuedInv'
  BY <1>1, <1>3, QueueKept DEF WindowInv
<1>5. /\ ended' = ended /\ stream' = stream /\ UNCHANGED <<streamCredit, connCredit>>
      /\ StepOf(s)
  BY <1>1, <1>3 DEF StepOf, client, socket, parser
<1>6. RunInv(s)'
  BY <1>2, <1>3, <1>5 DEF RunInv
<1>7. ServerTypes' /\ ThreadTypes'
  BY <1>1, <1>3 DEF WindowInv, TypesInv, ServerTypes, ThreadTypes, parser, settings
<1> QED BY <1>1, <1>3, <1>4, <1>5, <1>6, <1>7, QuietStep

LEMMA WaitKeeps ==
    ASSUME WindowInv, NEW s \in Streams, WaitForWindow(s)
    PROVE  WindowInv'
<1>1. /\ UNCHANGED <<client, ended, socket, parser, windowSize, stream, seen, queued, todo, stack>>
      /\ run[s] \in {"writing", "woken"} /\ run' = [run EXCEPT ![s] = "waiting"]
  BY DEF WaitForWindow, Innermost
<1>2. run \in [Streams -> Runs] /\ RunInv(s)
  BY DEF WindowInv, TypesInv, ThreadTypes, AnswersInv
<1>3. /\ run' \in [Streams -> Runs] /\ run'[s] = "waiting"
      /\ \A t \in Streams \ {s} : run'[t] = run[t]
  BY <1>1, <1>2 DEF Runs
<1>4. QueuedInv'
  BY <1>1, <1>3, QueueKept DEF WindowInv
<1>5. /\ ended' = ended /\ stream' = stream /\ UNCHANGED <<streamCredit, connCredit>>
      /\ StepOf(s)
  BY <1>1, <1>3 DEF StepOf, client, socket, parser
<1>6. RunInv(s)'
  BY <1>1, <1>2, <1>3 DEF RunInv
<1>7. ServerTypes' /\ ThreadTypes'
  BY <1>1, <1>3 DEF WindowInv, TypesInv, ServerTypes, ThreadTypes, parser, settings
<1> QED BY <1>1, <1>3, <1>4, <1>5, <1>6, <1>7, QuietStep

LEMMA FinishKeeps ==
    ASSUME WindowInv, NEW s \in Streams, Finish(s)
    PROVE  WindowInv'
<1>1. /\ UNCHANGED <<client, ended, connState, connected, spinning, parser, windowSize, queued>>
      /\ run[s] \in {"writing", "woken"} /\ run' = [run EXCEPT ![s] = "done"]
      /\ todo' = [todo EXCEPT ![s] = <<>>] /\ stream' = [stream EXCEPT ![s] = NoStream]
  BY DEF Finish, Innermost
<1>2. /\ run \in [Streams -> Runs] /\ todo \in [Streams -> Seq(Nat)]
      /\ stream \in [Streams -> StreamType \cup {NoStream}]
  BY DEF WindowInv, TypesInv, ThreadTypes, ServerTypes
<1>3. /\ run' \in [Streams -> Runs] /\ run'[s] = "done" /\ todo'[s] = <<>> /\ stream'[s] = NoStream
      /\ todo' \in [Streams -> Seq(Nat)] /\ stream' \in [Streams -> StreamType \cup {NoStream}]
      /\ \A t \in Streams \ {s} : run'[t] = run[t] /\ todo'[t] = todo[t] /\ stream'[t] = stream[t]
  <2>1. <<>> \in Seq(Nat)
    OBVIOUS
  <2> QED BY <1>1, <1>2, <2>1 DEF Runs
<1>4. QueuedInv'
  BY <1>1, <1>3, QueueKept DEF WindowInv
<1>5. ended' = ended /\ UNCHANGED <<streamCredit, connCredit>> /\ StepOf(s)
  BY <1>1, <1>3 DEF StepOf, client, parser
<1>6. RunInv(s)'
  BY <1>3 DEF RunInv
<1>7. ServerTypes' /\ ThreadTypes'
  BY <1>1, <1>3 DEF WindowInv, TypesInv, ServerTypes, ThreadTypes, parser, settings
<1> QED BY <1>1, <1>3, <1>4, <1>5, <1>6, <1>7, QuietStep

\* The least of three numbers.
LEMMA LeastOfThree ==
    ASSUME NEW a \in Int, NEW b \in Int, NEW c \in Int
    PROVE  MinOf({a, b, c}) \in Int /\ MinOf({a, b, c}) <= a
<1>1. \E x \in {a, b, c} : \A y \in {a, b, c} : x <= y
  <2>1. CASE a <= b /\ a <= c
    BY <2>1
  <2>2. CASE b <= a /\ b <= c
    BY <2>2
  <2>3. CASE c <= a /\ c <= b
    BY <2>3
  <2> QED BY <2>1, <2>2, <2>3
<1>2. MinOf({a, b, c}) \in {a, b, c} /\ \A y \in {a, b, c} : MinOf({a, b, c}) <= y
  BY <1>1 DEF MinOf
<1> QED BY <1>2

\* While its answer is written, the window the server knows of a stream is at
\* most what the client allows.
LEMMA Writing ==
    ASSUME WindowInv, NEW s \in Streams, run[s] \in {"writing", "woken"}, todo[s] # <<>>,
           stream[s].state # "closed"
    PROVE  /\ stream[s] \in StreamType /\ Available(s) \in Int
           /\ Available(s) <= stream[s].windowSize
           /\ Head(todo[s]) \in Nat /\ Len(todo[s]) = 1 /\ Tail(todo[s]) = <<>> /\ s \notin ended
           /\ connected => /\ stream[s].windowSize <= streamCredit[s]
                           /\ \A v : Views(s, v) => v[1].phase = "end" /\ v[1] \in View
<1>1. /\ stream \in [Streams -> StreamType \cup {NoStream}] /\ windowSize \in Int
      /\ settingsMaxFrameSize \in Int /\ todo \in [Streams -> Seq(Nat)] /\ wire \in Seq(FrameType)
  BY DEF WindowInv, TypesInv, ServerTypes, ThreadTypes, ClientTypes
<1>2. RunInv(s)
  BY DEF WindowInv, AnswersInv
<1>3. stream[s] \in StreamType /\ s \notin ended
  BY <1>1, <1>2 DEF RunInv
<1>4. Head(todo[s]) \in Nat /\ Len(todo[s]) = 1 /\ Tail(todo[s]) = <<>>
  <2>1. todo[s] \in Seq(Nat) /\ Len(todo[s]) <= 1 /\ todo[s] # <<>>
    BY <1>1, <1>2 DEF RunInv
  <2>2. PICK q \in Seq(Nat) : q = todo[s]
    BY <2>1
  <2>3. /\ Len(q) \in Nat \ {0} /\ Len(q) <= 1 /\ Head(q) \in Nat /\ Tail(q) \in Seq(Nat)
        /\ Len(Tail(q)) = Len(q) - 1
    BY <2>1, <2>2, EmptySeq, HeadTailProperties
  <2>4. Len(q) = 1
    BY <2>3
  <2>5. Tail(q) = <<>> /\ Head(q) \in Nat
    <3>1. PICK r \in Seq(Nat) : r = Tail(q)
      BY <2>3
    <3>2. Len(r) = 0
      BY <2>3, <2>4, <3>1
    <3>3. r # <<>> => Len(r) \in Nat \ {0}
      BY <3>1, EmptySeq
    <3> QED BY <2>3, <3>1, <3>2, <3>3
  <2> QED BY <2>2, <2>4, <2>5
<1>5. Available(s) \in Int /\ Available(s) <= stream[s].windowSize
  <2>1. stream[s].windowSize \in Int
    BY <1>3 DEF StreamType
  <2> QED BY <1>1, <2>1, LeastOfThree DEF Available
<1>6. ASSUME NEW v, Views(s, v)
      PROVE  v[1].phase = "end" /\ v[1] \in View /\ v[1].window = stream[s].windowSize
             /\ v[1].window <= streamCredit[s]
  <2>1. 1 \in 1 .. Len(wire) + 1
    BY <1>1
  <2>2. v[1] \in View /\ ServerView(s, v[1])
    BY <1>6, <2>1 DEF Views
  <2>3. v[1].phase \notin {"idle", "block", "open"}
    BY <2>2 DEF ServerView
  <2>4. v[1].phase # "reset"
    BY <1>3, <2>2, InHash DEF ServerView
  <2>5. v[1].phase = "end"
    BY <2>2, <2>3, <2>4 DEF View, Phases
  <2>6. Flowing(s)
    BY <1>3 DEF Flowing
  <2>7. v[1].window = stream[s].windowSize
    BY <2>2, <2>5, <2>6 DEF ServerView, Begun
  <2>8. v[1].window <= streamCredit[s]
    BY <1>6, <2>1, <2>5, <2>6 DEF Views, Between, Begun
  <2> QED BY <2>2, <2>5, <2>7, <2>8
<1>7. connected => \E v : Views(s, v)
  BY DEF WindowInv, Follows
<1> QED BY <1>3, <1>4, <1>5, <1>6, <1>7

LEMMA WriteLastKeeps ==
    ASSUME WindowInv, NEW s \in Streams, WriteLast(s)
    PROVE  WindowInv'
<1>1. /\ run[s] \in {"writing", "woken"} /\ todo[s] # <<>> /\ stream[s].state # "closed"
      /\ Available(s) > Head(todo[s])
      /\ SendFrame(s, Head(todo[s]), TRUE)
      /\ todo' = [todo EXCEPT ![s] = AfterWrite(s)] /\ run' = [run EXCEPT ![s] = "writing"]
      /\ UNCHANGED <<wire, req, phase, left, asked, socket, parser, windowSize, stream, seen,
                     queued, stack>>
  BY DEF WriteLast, Innermost
<1>2. PICK k \in Nat : k = Head(todo[s])
  BY <1>1, Writing
<1>3. /\ stream[s] \in StreamType /\ Available(s) \in Int /\ Available(s) <= stream[s].windowSize
      /\ connected => stream[s].windowSize <= streamCredit[s]
  BY <1>1, Writing
<1>4. AfterWrite(s) = <<>>
  BY <1>1, Writing DEF AfterWrite
<1>5. /\ run \in [Streams -> Runs] /\ todo \in [Streams -> Seq(Nat)] /\ ended \subseteq Streams
      /\ streamCredit \in [Streams -> Int] /\ connCredit \in Int /\ streamCredit[s] >= 0
      /\ RunInv(s)
  BY DEF WindowInv, TypesInv, ThreadTypes, ClientTypes, StreamWindowRespected, AnswersInv
<1>6. /\ run' \in [Streams -> Runs] /\ run'[s] = "writing" /\ todo'[s] = <<>>
      /\ todo' \in [Streams -> Seq(Nat)]
      /\ \A t \in Streams \ {s} : run'[t] = run[t] /\ todo'[t] = todo[t]
  <2>1. <<>> \in Seq(Nat)
    OBVIOUS
  <2> QED BY <1>1, <1>4, <1>5, <2>1 DEF Runs
<1>7. stream[s].windowSize \in Int
  BY <1>3 DEF StreamType
<1>8. /\ streamCredit' \in [Streams -> Int] /\ connCredit' \in Int /\ streamCredit'[s] >= 0
      /\ ended' \subseteq Streams
      /\ \A t \in Streams \ {s} : streamCredit'[t] = streamCredit[t] /\ (t \in ended' <=> t \in ended)
      /\ connected => streamCredit'[s] = streamCredit[s] - k /\ s \in ended'
  <2>1. CASE connected
    <3>1. /\ streamCredit' = [streamCredit EXCEPT ![s] = @ - k] /\ connCredit' = connCredit - k
          /\ ended' = ended \cup {s}
      BY <1>1, <1>2, <2>1 DEF SendFrame
    <3>2. streamCredit[s] - k \in Int /\ streamCredit[s] - k >= 0
      BY <1>1, <1>2, <1>3, <1>5, <1>7, <2>1
    <3> QED BY <1>5, <3>1, <3>2
  <2>2. CASE ~connected
    BY <1>1, <1>5, <2>2 DEF SendFrame
  <2> QED BY <2>1, <2>2
<1>9. StepOf(s)
  BY <1>1, <1>6, <1>8 DEF StepOf, socket, parser
<1>10. QueuedInv'
  BY <1>1, <1>6, QueueKept DEF WindowInv
<1>11. RunInv(s)'
  BY <1>1, <1>3, <1>6, InHash DEF RunInv
<1>12. ServerTypes' /\ ThreadTypes'
  BY <1>1, <1>6, <1>8 DEF WindowInv, TypesInv, ServerTypes, ThreadTypes, parser, settings
<1>13. ASSUME connected PROVE Follows(s)'
  <2>1. PICK v : Views(s, v)
    BY <1>13 DEF WindowInv, Follows
  <2>2. v[1].phase = "end" /\ v[1] \in View
    BY <1>1, <1>13, <2>1, Writing
  <2>3. Less(v[1], k).phase = "end" /\ Less(v[1], k).initial = v[1].initial
    BY <2>2, LessType
  <2>4. ~Flowing(s)'
    BY <1>8, <1>13 DEF Flowing
  <2>5. ServerView(s, Less(v[1], k))'
    BY <1>6, <1>9, <2>1, <2>3, <2>4 DEF Views, ServerView, StepOf, settings
  <2>6. /\ wire \in Seq(FrameType) /\ streamCredit[s] \in Int /\ streamCredit'[s] = streamCredit[s] - k
        /\ UNCHANGED <<wire, req, phase, clientInitial>>
        /\ Flowing(s)' => Flowing(s)
        /\ run[s] # "none" /\ k \in Int
    BY <1>1, <1>5, <1>8, <1>13, <2>4 DEF asked, WindowInv, TypesInv, ClientTypes
  <2> QED BY <2>1, <2>5, <2>6, ViewsLess
<1> QED BY <1>8, <1>9, <1>10, <1>11, <1>12, <1>13, ThreadKeeps

LEMMA WriteKeeps ==
    ASSUME WindowInv, NEW s \in Streams, Write(s)
    PROVE  WindowInv'
<1>1. PICK k : k = Available(s)
  OBVIOUS
<1>2. /\ run[s] \in {"writing", "woken"} /\ todo[s] # <<>> /\ stream[s].state # "closed"
      /\ k <= Head(todo[s])
      /\ SendFrame(s, k, FALSE)
      /\ windowSize' = windowSize - k
      /\ stream' = [stream EXCEPT ![s].windowSize = @ - k]
      /\ todo' = [todo EXCEPT ![s] = IF Head(@) = k THEN AfterWrite(s) ELSE <<Head(@) - k>> \o Tail(@)]
      /\ run' = [run EXCEPT ![s] = "writing"]
      /\ UNCHANGED <<wire, req, phase, left, asked, socket, parser, seen, queued, stack>>
  BY <1>1 DEF Write, Innermost
<1>3. /\ stream[s] \in StreamType /\ k \in Int /\ k <= stream[s].windowSize /\ s \notin ended
      /\ connected => stream[s].windowSize <= streamCredit[s]
      /\ Head(todo[s]) \in Nat /\ Len(todo[s]) = 1
  BY <1>1, <1>2, Writing
<1>4. AfterWrite(s) = <<>> /\ Tail(todo[s]) = <<>>
  BY <1>2, Writing DEF AfterWrite
<1>5. /\ run \in [Streams -> Runs] /\ todo \in [Streams -> Seq(Nat)] /\ ended \subseteq Streams
      /\ streamCredit \in [Streams -> Int] /\ connCredit \in Int /\ streamCredit[s] >= 0
      /\ stream \in [Streams -> StreamType \cup {NoStream}] /\ windowSize \in Int
  BY DEF WindowInv, TypesInv, ThreadTypes, ClientTypes, ServerTypes, StreamWindowRespected
<1>6. PICK rest : rest = IF Head(todo[s]) = k THEN <<>> ELSE <<Head(todo[s]) - k>>
  OBVIOUS
<1>7. rest \in Seq(Nat) /\ Len(rest) <= 1
  <2>1. CASE Head(todo[s]) = k
    BY <1>6, <2>1
  <2>2. CASE Head(todo[s]) # k
    <3>1. Head(todo[s]) - k \in Nat
      BY <1>2, <1>3
    <3> QED BY <1>6, <2>2, <3>1
  <2> QED BY <2>1, <2>2
<1>8. /\ run' \in [Streams -> Runs] /\ run'[s] = "writing" /\ todo'[s] = rest
      /\ todo' \in [Streams -> Seq(Nat)]
      /\ \A t \in Streams \ {s} : run'[t] = run[t] /\ todo'[t] = todo[t]
  <2>1. todo' = [todo EXCEPT ![s] = rest]
    <3>1. CASE Head(todo[s]) = k
      BY <1>2, <1>4, <1>6, <3>1
    <3>2. CASE Head(todo[s]) # k
      <4>1. PICK d : d = Head(todo[s]) - k
        OBVIOUS
      <4>2. <<d>> \o Tail(todo[s]) = <<d>>
        <5>1. Head(todo[s]) - k \in Nat
          BY <1>2, <1>3
        <5>2. <<d>> \in Seq(Nat)
          BY <4>1, <5>1
        <5> QED BY <1>4, <5>2, ConcatEmptySeq
      <4> QED BY <1>2, <1>6, <3>2, <4>1, <4>2
    <3> QED BY <3>1, <3>2
  <2> QED BY <1>2, <1>5, <1>7, <2>1 DEF Runs
<1>9. PICK h : h = [stream[s] EXCEPT !.windowSize = @ - k]
  OBVIOUS
<1>10. h \in StreamType /\ h.windowSize = stream[s].windowSize - k
  <2>1. stream[s].windowSize \in Int /\ stream[s].windowSize - k \in Int
    BY <1>3 DEF StreamType
  <2> QED BY <1>3, <1>9, <2>1 DEF StreamType
<1>11. /\ stream' \in [Streams -> StreamType \cup {NoStream}] /\ stream'[s] = h
       /\ \A t \in Streams \ {s} : stream'[t] = stream[t]
  <2>1. stream' = [stream EXCEPT ![s] = h]
    BY <1>2, <1>9
  <2> QED BY <1>5, <1>10, <2>1
<1>12. stream[s].windowSize \in Int
  BY <1>3 DEF StreamType
<1>13. /\ streamCredit' \in [Streams -> Int] /\ connCredit' \in Int /\ streamCredit'[s] >= 0
       /\ ended' = ended
       /\ \A t \in Streams \ {s} : streamCredit'[t] = streamCredit[t]
       /\ connected => streamCredit'[s] = streamCredit[s] - k
  <2>1. CASE connected
    <3>1. /\ streamCredit' = [streamCredit EXCEPT ![s] = @ - k] /\ connCredit' = connCredit - k
          /\ ended' = ended
      BY <1>2, <2>1 DEF SendFrame
    <3>2. streamCredit[s] - k \in Int /\ streamCredit[s] - k >= 0
      BY <1>3, <1>5, <1>12, <2>1
    <3> QED BY <1>3, <1>5, <3>1, <3>2
  <2>2. CASE ~connected
    BY <1>2, <1>5, <2>2 DEF SendFrame
  <2> QED BY <2>1, <2>2
<1>14. StepOf(s)
  BY <1>2, <1>8, <1>11, <1>13 DEF StepOf, socket, parser
<1>15. QueuedInv'
  BY <1>2, <1>8, QueueKept DEF WindowInv
<1>16. RunInv(s)'
  BY <1>3, <1>7, <1>8, <1>10, <1>11, <1>13, InHash DEF RunInv
<1>17. ServerTypes' /\ ThreadTypes'
  <2>1. windowSize' \in Int
    BY <1>2, <1>3, <1>5
  <2> QED BY <1>2, <1>5, <1>8, <1>11, <1>13, <2>1
          DEF WindowInv, TypesInv, ServerTypes, ThreadTypes, parser, settings
<1>18. ASSUME connected PROVE Follows(s)'
  <2>1. PICK v : Views(s, v)
    BY <1>18 DEF WindowInv, Follows
  <2>2. v[1].phase = "end" /\ v[1] \in View /\ ServerView(s, v[1])
    BY <1>2, <1>18, <2>1, Writing DEF Views
  <2>3. /\ Less(v[1], k).phase = "end" /\ Less(v[1], k).initial = v[1].initial
        /\ Less(v[1], k).window = v[1].window - k
    BY <1>3, <2>2, LessType
  <2>4. Flowing(s) /\ Flowing(s)'
    BY <1>2, <1>3, <1>8, <1>13 DEF Flowing
  <2>5. Less(v[1], k).window = stream'[s].windowSize
    BY <1>10, <1>11, <2>2, <2>3, <2>4 DEF ServerView, Begun
  <2>6. ServerView(s, Less(v[1], k))'
    BY <1>8, <1>14, <2>2, <2>3, <2>5 DEF ServerView, StepOf, settings
  <2>7. /\ wire \in Seq(FrameType) /\ streamCredit[s] \in Int /\ streamCredit'[s] = streamCredit[s] - k
        /\ UNCHANGED <<wire, req, phase, clientInitial>>
        /\ Flowing(s)' => Flowing(s)
        /\ run[s] # "none"
    BY <1>2, <1>5, <1>13, <1>18, <2>4 DEF asked, WindowInv, TypesInv, ClientTypes
  <2> QED BY <1>3, <2>1, <2>6, <2>7, ViewsLess
<1> QED BY <1>13, <1>14, <1>15, <1>16, <1>17, <1>18, ThreadKeeps

----------------------------------------------------------------------------
LEMMA DisconnectKeeps ==
    ASSUME WindowInv, Disconnect
    PROVE  WindowInv'
<1>1. /\ ~connected' /\ ~spinning' /\ connState' = connState
      /\ UNCHANGED <<client, ended, parser, windowSize, stream, seen, thread>>
  BY DEF Disconnect, Closes, WindowInv
<1> QED BY <1>1 DEF WindowInv, TypesInv, ClientTypes, ServerTypes, ThreadTypes, WireInv, QueuedInv,
                    AnswersInv, RunInv, StreamWindowRespected, client, asked, parser, settings, thread

LEMMA InitWindow == Init => WindowInv
<1> SUFFICES ASSUME Init PROVE WindowInv
  OBVIOUS
<1> PICK upgraded \in BOOLEAN, start \in {"preface", "other"} :
        /\ connState = "MethodLine" /\ wire = <<Frame(start, 0)>>
        /\ clientInitial = DefaultWindow
        /\ req = [s \in Streams |-> NoRequest]
        /\ phase = [s \in Streams |-> IF upgraded /\ s = 1 THEN "end" ELSE "idle"]
        /\ left = [s \in Streams |-> 0]
        /\ streamCredit = [s \in Streams |-> DefaultWindow] /\ connCredit = ConnWindow
        /\ ended = {} /\ connected = TRUE /\ spinning = FALSE
        /\ headersBuffer = <<>> /\ windowSize = ConnWindow
        /\ settingsInitialWindowSize = DefaultWindow /\ settingsMaxFrameSize = DefaultFrame
        /\ stream = [s \in Streams |->
                        IF upgraded /\ s = 1
                        THEN [state |-> "half", windowSize |-> DefaultWindow, block |-> <<1>>,
                              consumedData |-> 0, contentLength |-> -1]
                        ELSE NoStream]
        /\ queued = IF upgraded THEN <<1>> ELSE <<>>
        /\ run = [s \in Streams |-> IF upgraded /\ s = 1 THEN "queued" ELSE "none"]
        /\ todo = [s \in Streams |-> <<>>]
  BY DEF Init
<1>1. /\ DefaultWindow \in Nat /\ ConnWindow \in Nat /\ DefaultFrame \in Nat
      /\ MaxStream \in Nat \ {0} /\ 1 \in Streams
  BY Http2Assumption DEF Streams
<1>2. PICK f : f = [type |-> start, s |-> 0, end |-> FALSE, whole |-> TRUE, n |-> 0, size |-> 0,
                    form |-> "plain"]
  OBVIOUS
<1>3. f \in FrameType /\ f.type = start /\ f.form # "segment"
  BY <1>2 DEF FrameType
<1>4. wire = <<f>>
  BY <1>2 DEF Frame
<1>5. wire \in Seq(FrameType) /\ Len(wire) = 1 /\ wire[1] = f
  BY <1>3, <1>4
<1>6. ClientTypes
  BY <1>1, <1>5 DEF ClientTypes, Phases, NoRequest, RequestType
<1>7. PICK h : h = [state |-> "half", windowSize |-> DefaultWindow, block |-> <<1>>,
                    consumedData |-> 0, contentLength |-> -1]
  OBVIOUS
<1>8. h \in StreamType /\ h.windowSize = DefaultWindow
  <2>1. <<1>> \in Seq(Int)
    OBVIOUS
  <2> QED BY <1>1, <1>7, <2>1 DEF StreamType
<1>9. stream = [s \in Streams |-> IF upgraded /\ s = 1 THEN h ELSE NoStream]
  BY <1>7
<1>10. ServerTypes
  BY <1>1, <1>8, <1>9 DEF ServerTypes
<1>11. queued \in Seq(Streams) /\ \A i \in DOMAIN queued : i = 1 /\ queued[i] = 1 /\ upgraded
  <2>1. CASE upgraded
    <3>1. queued = <<1>>
      BY <2>1
    <3> QED BY <1>1, <2>1, <3>1
  <2>2. CASE ~upgraded
    <3>1. queued = <<>>
      BY <2>2
    <3> QED BY <3>1
  <2> QED BY <2>1, <2>2
<1>12. ThreadTypes
  <2>1. <<>> \in Seq(Nat)
    OBVIOUS
  <2> QED BY <1>11, <2>1 DEF ThreadTypes, Runs
<1>13. WireInv
  <2>1. \A i \in DOMAIN wire : i = 1
    BY <1>5
  <2> QED BY <1>3, <1>5, <2>1 DEF WireInv, StreamFrames
<1>14. QueuedInv
  BY <1>1, <1>11 DEF QueuedInv
<1>15. AnswersInv
  BY <1>8, <1>9, InHash DEF AnswersInv, RunInv
<1>16. StreamWindowRespected
  BY <1>1 DEF StreamWindowRespected
<1>17. ASSUME NEW s \in Streams PROVE Follows(s)
  <2>1. PICK p \in Phases : p = IF upgraded /\ s = 1 THEN "end" ELSE "idle"
    BY DEF Phases
  <2>2. PICK a : a = [phase |-> p, initial |-> DefaultWindow, window |-> DefaultWindow]
    OBVIOUS
  <2>3. a \in View /\ a.phase = p /\ a.initial = DefaultWindow /\ a.window = DefaultWindow
    BY <1>1, <2>2 DEF View
  <2>4. PICK v : v = [i \in 1 .. 2 |-> a]
    OBVIOUS
  <2>5. v \in [1 .. 2 -> View] /\ \A i \in 1 .. 2 : v[i] = a
    BY <2>3, <2>4
  <2>6. ServerView(s, a)
    <3>1. CASE upgraded /\ s = 1
      <4>1. p = "end" /\ stream[s] = h /\ run[s] = "queued"
        BY <1>9, <2>1, <3>1
      <4> QED BY <1>8, <2>3, <4>1 DEF ServerView
    <3>2. CASE ~(upgraded /\ s = 1)
      <4>1. p = "idle" /\ stream[s] = NoStream /\ run[s] = "none"
        BY <1>9, <2>1, <3>2
      <4> QED BY <2>3, <4>1 DEF ServerView, Begun
    <3> QED BY <3>1, <3>2
  <2>7. ClientView(s, a)
    BY <2>1, <2>3 DEF ClientView
  <2>8. Reads(f, s, req[s], a, a)
    BY <1>3, <2>2, <1>2 DEF Reads, Streams
  <2>9. a.window <= streamCredit[s]
    BY <1>1, <2>3
  <2>10. Len(wire) + 1 = 2 /\ \A i \in 1 .. Len(wire) : wire[i] = f /\ i \in 1 .. 2 /\ i + 1 \in 1 .. 2
    BY <1>5
  <2>11. Between(s, v)
    BY <2>5, <2>8, <2>9, <2>10 DEF Between
  <2>12. Views(s, v)
    BY <2>5, <2>6, <2>7, <2>10, <2>11 DEF Views
  <2> QED BY <2>12 DEF Follows
<1> QED BY <1>6, <1>10, <1>12, <1>13, <1>14, <1>15, <1>16, <1>17 DEF WindowInv, TypesInv

LEMMA WindowStep ==
    ASSUME Assumed, WindowInv, [Next]_vars
    PROVE  WindowInv'
<1>1. ASSUME NEW s \in Streams,
             \/ SendHeaders(s) \/ SendContinuation(s) \/ SendData(s) \/ SendTrailers(s)
             \/ SendReset(s) \/ SendUpdate(s)
      PROVE  WindowInv'
  BY <1>1, HeadersSent, ContinuationSent, DataSent, TrailersSent, ResetSent, UpdateSent
<1>2. CASE SendConnUpdate
  BY <1>2, ConnUpdateSent
<1>3. ASSUME NEW w \in Windows, NEW size \in FrameSizes, SendSettings(w, size)
      PROVE  WindowInv'
  BY <1>3, SettingsSent
<1>4. CASE Disconnect
  BY <1>4, DisconnectKeeps
<1>5. CASE Parse
  BY <1>5, ParseKeeps
<1>6. CASE Process
  BY <1>6, ProcessKeeps
<1>7. ASSUME NEW s \in Streams,
             Complete(s) \/ WaitForWindow(s) \/ WriteLast(s) \/ Write(s) \/ Finish(s)
      PROVE  WindowInv'
  BY <1>7, CompleteKeeps, WaitKeeps, WriteLastKeeps, WriteKeeps, FinishKeeps
<1>8. CASE UNCHANGED vars
  <2>1. /\ UNCHANGED <<wire, phase, req, left, streamCredit, clientInitial, connCredit>>
        /\ UNCHANGED <<stream, settingsInitialWindowSize, settingsMaxFrameSize, windowSize>>
        /\ UNCHANGED <<headersBuffer, run, todo, queued, ended, connState, connected, spinning>>
    BY <1>8 DEF vars, client, asked, socket, parser, settings, thread
  <2>2. TypesInv' /\ WireInv' /\ QueuedInv' /\ AnswersInv' /\ ~spinning' /\ StreamWindowRespected'
    BY <2>1 DEF WindowInv, TypesInv, ClientTypes, ServerTypes, ThreadTypes, WireInv, QueuedInv,
                AnswersInv, RunInv, StreamWindowRespected
  <2>3. ASSUME NEW s \in Streams, Follows(s) PROVE Follows(s)'
    <3>1. PICK v : Views(s, v)
      BY <2>3 DEF Follows
    <3>2. ServerView(s, v[1])'
      BY <2>1, <3>1 DEF Views, ServerView, Flowing
    <3> QED BY <2>1, <3>1, <3>2, ViewsKept DEF Flowing
  <2> QED BY <2>1, <2>2, <2>3 DEF WindowInv
<1> QED BY <1>1, <1>2, <1>3, <1>4, <1>5, <1>6, <1>7, <1>8 DEF Next, Client

\* No stream sends more than the client allows for it, while answers wait for
\* their windows and the client opens them, resets streams, sets other initial
\* windows or leaves (protocolhttp2.cpp:513-577,869-926): for a client that lowers
\* no initial window under open streams, and answers written by one call.
THEOREM WindowsRespected ==
    ASSUME Assumed
    PROVE  Spec => []StreamWindowRespected
<1>1. WindowInv /\ [Next]_vars => WindowInv'
  BY WindowStep
<1>2. WindowInv => StreamWindowRespected
  BY DEF WindowInv
<1> QED BY <1>1, <1>2, InitWindow, PTL DEF Spec

----------------------------------------------------------------------------
(* What is dispatched is what was sent.                                     *)

\* What is asked of the client: a padded frame of data brings more than was sent.
NoPadding == "pads" \notin Habits

\* The frames on their way: only the first may be no frame, and none is padded.
KnownFrames ==
    \A i \in DOMAIN wire :
        /\ wire[i].form # "pads"
        /\ wire[i].type \in FrameTypes \/ (i = 1 /\ connState = "MethodLine")
        /\ wire[i].type \in StreamFrames => wire[i].s \in Streams

\* What was written to headersBuffer stays there once it was used.  It is of the
\* block in progress alone, or it has a path too many for the next block.
One(b) == \E i \in DOMAIN b : b[i] > 0
Two(b) == \E i, j \in DOMAIN b : i # j /\ b[i] > 0 /\ b[j] > 0
BufferInv ==
    \/ streamForContinuation = 0 /\ (headersBuffer = <<>> \/ One(headersBuffer))
    \/ streamForContinuation \in Streams /\ headersBuffer = <<streamForContinuation>>
    \/ Two(headersBuffer)

\* How far the request r of a stream is sent, and what a frame of it makes of that.
Stage == [phase : Phases, left : Int]
Now(s) == [phase |-> phase[s], left |-> left[s]]
Goes(f, r, a, b) ==
    \/ /\ f.type = "headers" /\ a.phase = "idle" /\ b.left = r.body
       /\ f.whole = ~r.split /\ f.end = EndsHeaders(r)
       /\ b.phase = IF r.split THEN "block" ELSE AfterBlock(r)
    \/ /\ f.type = "continuation" /\ a.phase = "block" /\ b.left = a.left
       /\ f.whole /\ ~f.end /\ b.phase = AfterBlock(r)
    \/ /\ f.type = "data" /\ a.phase = "open" /\ b.left = a.left - f.n
       /\ f.end => b.left = 0 /\ ~r.trailers
       /\ b.phase = IF f.end THEN "end" ELSE "open"
    \/ /\ f.type = "trailers" /\ a.phase = "open" /\ a.left = 0 /\ r.trailers
       /\ f.whole /\ f.end /\ b.phase = "end"
    \/ f.type = "reset" /\ a.phase \in {"open", "end"} /\ b.phase = "reset"
Advances(f, s, r, a, b) ==
    \/ (f.type \notin StreamFrames \/ f.s # s) /\ b = a
    \/ f.type \in StreamFrames /\ f.s = s /\ Goes(f, r, a, b)

\* What the server has of a stream that it read up to the stage a.
First(s) == IF req[s].split THEN <<s, -s>> ELSE <<s>>
AtServer(s, a) ==
    /\ a.phase = "idle" => stream[s] = NoStream
    /\ a.phase \in {"block", "open"} => stream[s] # NoStream
    /\ a.phase \in {"idle", "block", "open"} => run[s] = "none"
    /\ a.phase = "block" =>
          /\ req[s].split /\ stream[s].state = (IF EndsHeaders(req[s]) THEN "half" ELSE "open")
          /\ stream[s].block = <<>> /\ stream[s].consumedData = 0 /\ a.left = req[s].body
    /\ a.phase = "open" => /\ stream[s].block = First(s)
                           /\ stream[s].consumedData = req[s].body - a.left

Rank(p) == CASE p = "idle" -> 0 [] p = "block" -> 1 [] p = "open" -> 2 [] p = "end" -> 3 [] OTHER -> 4
Stages(s, v) ==
    /\ v \in [1 .. Len(wire) + 1 -> Stage]
    /\ AtServer(s, v[1]) /\ v[Len(wire) + 1] = Now(s)
    /\ \A i \in 1 .. Len(wire) : Advances(wire[i], s, req[s], v[i], v[i + 1])
    /\ \A i, j \in 1 .. Len(wire) + 1 : i <= j => Rank(v[i].phase) <= Rank(v[j].phase)
Arrives(s) == \E v : Stages(s, v)

\* A request in the queue has all that was sent, and what was dispatched had.
Sealed == {"end", "reset"}
HasAll(s) == /\ stream[s] # NoStream
             /\ stream[s].block = Sent(s).block /\ stream[s].consumedData = Sent(s).body
AskedInv(s) ==
    /\ run[s] # "none" => phase[s] \in Sealed
    /\ run[s] = "queued" => HasAll(s)
    /\ run[s] \notin {"none", "queued"} => seen[s] = Sent(s)
    /\ run[s] \notin {"none", "done"} => stream[s] # NoStream

DeliveryInv ==
    /\ TypesInv /\ KnownFrames /\ QueuedInv /\ BufferInv /\ DOMAIN seen = Streams
    /\ \A s \in Streams : AskedInv(s)
    /\ connected /\ ~spinning => \A s \in Streams : Arrives(s)

----------------------------------------------------------------------------
(* The paths of a block.                                                    *)

LEMMA OnePath ==
    ASSUME NEW b \in Seq(Int), Paths(b) = 1
    PROVE  ~Two(b)
<1>1. PICK S : S = {i \in DOMAIN b : b[i] > 0}
  OBVIOUS
<1>2. Len(b) \in Nat /\ S \subseteq 1 .. Len(b)
  BY <1>1
<1>3. IsFiniteSet(S)
  <2>1. IsFiniteSet(1 .. Len(b))
    BY <1>2, FS_Interval
  <2> QED BY <1>2, <2>1, FS_Subset
<1>4. \E x : S = {x}
  BY <1>1, <1>3, FS_Singleton DEF Paths
<1> QED BY <1>1, <1>4 DEF Two

LEMMA TwoAppend ==
    ASSUME NEW b \in Seq(Int), NEW p \in Int
    PROVE  /\ Two(b) => Two(Append(b, p))
           /\ One(b) /\ p > 0 => Two(Append(b, p))
           /\ One(b) => One(Append(b, p))
<1>1. Len(b) \in Nat /\ DOMAIN b = 1 .. Len(b) /\ DOMAIN Append(b, p) = 1 .. Len(b) + 1
  OBVIOUS
<1>2. Append(b, p)[Len(b) + 1] = p /\ \A i \in DOMAIN b : Append(b, p)[i] = b[i] /\ i \in DOMAIN Append(b, p)
  BY <1>1
<1>3. Len(b) + 1 \in DOMAIN Append(b, p) /\ Len(b) + 1 \notin DOMAIN b
  BY <1>1
<1> QED BY <1>2, <1>3 DEF One, Two

LEMMA TwoConcat ==
    ASSUME NEW a \in Seq(Int), NEW b \in Seq(Int)
    PROVE  Two(b) \/ (One(a) /\ One(b)) => Two(a \o b)
<1>1. /\ Len(a) \in Nat /\ DOMAIN a = 1 .. Len(a) /\ Len(b) \in Nat /\ DOMAIN b = 1 .. Len(b)
      /\ DOMAIN (a \o b) = 1 .. Len(a) + Len(b)
  OBVIOUS
<1>2. \A i \in DOMAIN a : (a \o b)[i] = a[i] /\ i \in DOMAIN (a \o b) /\ i <= Len(a)
  BY <1>1
<1>3. ASSUME NEW i \in DOMAIN b
      PROVE  /\ (a \o b)[Len(a) + i] = b[i] /\ Len(a) + i \in DOMAIN (a \o b)
             /\ Len(a) + i > Len(a) /\ i \in Int
  BY <1>1
<1>4. CASE Two(b)
  <2>1. PICK i \in DOMAIN b, j \in DOMAIN b : i # j /\ b[i] > 0 /\ b[j] > 0
    BY <1>4 DEF Two
  <2>2. Len(a) + i # Len(a) + j
    BY <1>1, <1>3, <2>1
  <2> QED BY <1>3, <2>1, <2>2 DEF Two
<1>5. CASE One(a) /\ One(b)
  <2>1. PICK i \in DOMAIN a, j \in DOMAIN b : a[i] > 0 /\ b[j] > 0
    BY <1>5 DEF One
  <2>2. i # Len(a) + j
    BY <1>1, <1>2, <1>3, <2>1
  <2> QED BY <1>2, <1>3, <2>1, <2>2 DEF Two
<1> QED BY <1>4, <1>5

----------------------------------------------------------------------------
(* The stages after a step.                                                 *)

LEMMA RankGrows ==
    ASSUME NEW f, NEW s, NEW r, NEW a, NEW b, Advances(f, s, r, a, b)
    PROVE  Rank(a.phase) \in Nat /\ Rank(b.phase) \in Nat /\ Rank(a.phase) <= Rank(b.phase)
BY DEF Advances, Goes, Rank, AfterBlock

LEMMA IdleStages ==
    ASSUME NEW s \in Streams, wire \in Seq(FrameType), NEW v, Stages(s, v), phase[s] = "idle",
           NEW i \in 1 .. Len(wire) + 1
    PROVE  v[i].phase = "idle"
<1>1. Len(wire) \in Nat /\ Len(wire) + 1 \in 1 .. Len(wire) + 1 /\ i <= Len(wire) + 1
  OBVIOUS
<1>2. v[Len(wire) + 1].phase = "idle"
  BY DEF Stages, Now
<1>3. Rank(v[i].phase) <= 0
  BY <1>1, <1>2 DEF Stages, Rank
<1> QED BY <1>3 DEF Rank

\* What was read as ended, or reset, was sent so.
LEMMA SealedStages ==
    ASSUME NEW s \in Streams, wire \in Seq(FrameType), NEW v, Stages(s, v),
           NEW i \in 1 .. Len(wire) + 1, v[i].phase \in Sealed
    PROVE  phase[s] \in Sealed
<1>1. Len(wire) \in Nat /\ Len(wire) + 1 \in 1 .. Len(wire) + 1 /\ i <= Len(wire) + 1
  OBVIOUS
<1>2. v[Len(wire) + 1].phase = phase[s] /\ phase[s] \in Phases
  BY <1>1 DEF Stages, Now, Stage
<1>3. Rank(phase[s]) >= 3
  BY <1>1, <1>2 DEF Stages, Rank, Sealed
<1> QED BY <1>2, <1>3 DEF Rank, Phases, Sealed

LEMMA StagesAppend ==
    ASSUME NEW s \in Streams, wire \in Seq(FrameType), NEW v, Stages(s, v),
           NEW f \in FrameType, wire' = Append(wire, f), Now(s)' \in Stage,
           Advances(f, s, req'[s], Now(s), Now(s)'), req'[s] = req[s] \/ phase[s] = "idle",
           AtServer(s, v[1])'
    PROVE  Arrives(s)'
<1>0. PICK n : n = Len(wire)
  OBVIOUS
<1>a. PICK b : b = Now(s)'
  OBVIOUS
<1>b. PICK w : w = [i \in 1 .. n + 2 |-> IF i <= n + 1 THEN v[i] ELSE b]
  OBVIOUS
<1>1. n \in Nat /\ Len(wire') = n + 1 /\ v \in [1 .. n + 1 -> Stage] /\ v[n + 1] = Now(s)
  BY <1>0 DEF Stages
<1>2. wire'[n + 1] = f /\ \A i \in 1 .. n : wire'[i] = wire[i]
  BY <1>0, <1>1
<1>3. /\ w \in [1 .. n + 2 -> Stage] /\ w[n + 2] = b /\ w[1] = v[1]
      /\ \A i \in 1 .. n + 1 : w[i] = v[i]
  BY <1>1, <1>a, <1>b
<1>4. ASSUME NEW i \in 1 .. n + 1 PROVE Advances(wire'[i], s, req'[s], w[i], w[i + 1])
  <2>1. CASE i = n + 1
    BY <1>1, <1>2, <1>3, <1>a, <2>1
  <2>2. CASE i # n + 1
    <3>1. i \in 1 .. n /\ i \in 1 .. n + 1 /\ i + 1 \in 1 .. n + 1
      BY <1>1, <2>2
    <3>2. Advances(wire[i], s, req[s], v[i], v[i + 1])
      BY <1>0, <3>1 DEF Stages
    <3>3. CASE phase[s] = "idle"
      <4>1. v[i].phase = "idle" /\ v[i + 1].phase = "idle"
        BY <1>0, <3>1, <3>3, IdleStages
      <4> QED BY <1>2, <1>3, <3>1, <3>2, <4>1 DEF Advances, Goes, AfterBlock
    <3> QED BY <1>2, <1>3, <3>1, <3>2, <3>3
  <2> QED BY <2>1, <2>2
<1>5. ASSUME NEW i \in 1 .. n + 2, NEW j \in 1 .. n + 2, i <= j
      PROVE  Rank(w[i].phase) <= Rank(w[j].phase)
  <2>1. /\ Rank(v[n + 1].phase) \in Nat /\ Rank(b.phase) \in Nat
        /\ Rank(v[n + 1].phase) <= Rank(b.phase)
    BY <1>1, <1>a, RankGrows
  <2>2. \A k, m \in 1 .. n + 1 : k <= m => Rank(v[k].phase) <= Rank(v[m].phase)
    BY <1>0 DEF Stages
  <2>3. CASE j = n + 2
    <3>1. CASE i = n + 2
      BY <1>3, <2>1, <2>3, <3>1
    <3>2. CASE i # n + 2
      <4>1. i \in 1 .. n + 1 /\ n + 1 \in 1 .. n + 1 /\ i <= n + 1
        BY <1>1, <3>2
      <4>2. Rank(v[i].phase) <= Rank(v[n + 1].phase) /\ Rank(v[i].phase) \in Nat
        BY <2>2, <4>1 DEF Rank
      <4> QED BY <1>3, <2>1, <2>3, <4>1, <4>2
    <3> QED BY <3>1, <3>2
  <2>4. CASE j # n + 2
    <3>1. i \in 1 .. n + 1 /\ j \in 1 .. n + 1
      BY <1>1, <1>5, <2>4
    <3> QED BY <1>3, <1>5, <2>2, <3>1
  <2> QED BY <2>3, <2>4
<1>6. Len(wire') + 1 = n + 2
  BY <1>1
<1>7. Stages(s, w)'
  BY <1>1, <1>3, <1>4, <1>5, <1>6, <1>a DEF Stages
<1> QED BY <1>7 DEF Arrives

LEMMA StagesTail ==
    ASSUME NEW s \in Streams, wire \in Seq(FrameType), NEW v, Stages(s, v),
           wire # <<>>, wire' = Tail(wire), AtServer(s, v[2])', UNCHANGED <<req, phase, left>>
    PROVE  Arrives(s)'
<1>0. PICK n : n = Len(wire)
  OBVIOUS
<1>a. PICK w : w = [i \in 1 .. n |-> v[i + 1]]
  OBVIOUS
<1>1. n \in Nat \ {0} /\ Len(wire') = n - 1 /\ v \in [1 .. n + 1 -> Stage]
  BY <1>0 DEF Stages
<1>2. \A i \in 1 .. n - 1 : wire'[i] = wire[i + 1]
  BY <1>0, <1>1
<1>3. /\ w \in [1 .. n -> Stage] /\ \A i \in 1 .. n : w[i] = v[i + 1] /\ i + 1 \in 1 .. n + 1
      /\ Len(wire') + 1 = n
  BY <1>1, <1>a
<1>4. ASSUME NEW i \in 1 .. n - 1 PROVE Advances(wire'[i], s, req'[s], w[i], w[i + 1])
  <2>1. i + 1 \in 1 .. n /\ i \in 1 .. n
    BY <1>1
  <2>2. Advances(wire[i + 1], s, req[s], v[i + 1], v[i + 1 + 1])
    BY <1>0, <2>1 DEF Stages
  <2>3. wire'[i] = wire[i + 1] /\ w[i] = v[i + 1] /\ w[i + 1] = v[i + 1 + 1]
    BY <1>2, <1>3, <2>1
  <2> QED BY <2>2, <2>3
<1>5. ASSUME NEW i \in 1 .. n, NEW j \in 1 .. n, i <= j
      PROVE  Rank(w[i].phase) <= Rank(w[j].phase)
  <2>1. i + 1 \in 1 .. n + 1 /\ j + 1 \in 1 .. n + 1 /\ i + 1 <= j + 1
    BY <1>1, <1>5
  <2> QED BY <1>0, <1>3, <2>1 DEF Stages
<1>6. w[1] = v[2] /\ w[n] = Now(s) /\ Now(s)' = Now(s)
  <2>1. 1 \in 1 .. n /\ n \in 1 .. n
    BY <1>1
  <2> QED BY <1>0, <1>3, <2>1 DEF Stages, Now
<1>7. Stages(s, w)'
  BY <1>1, <1>3, <1>4, <1>5, <1>6 DEF Stages
<1> QED BY <1>7 DEF Arrives

----------------------------------------------------------------------------
(* The client sends, whatever its habits are but for padding.               *)

LEMMA SentAs ==
    ASSUME NoPadding, NEW f \in FrameType, Sends(f)
    PROVE  \E g \in FrameType :
              /\ wire' = Append(wire, g) /\ g.type = f.type /\ g.s = f.s
              /\ g.end = f.end /\ g.whole = f.whole /\ g.n = f.n /\ g.form # "pads"
<1>1. PICK form \in Forms(f.type) : wire' = Append(wire, [f EXCEPT !.form = form])
  BY DEF Sends
<1>2. PICK g : g = [f EXCEPT !.form = form]
  OBVIOUS
<1>3. form \in {"plain"} \cup Allowed /\ form # "pads"
  BY Http2Assumption DEF Forms, NoPadding
<1>4. /\ g \in FrameType /\ g.type = f.type /\ g.s = f.s /\ g.form # "pads"
      /\ g.end = f.end /\ g.whole = f.whole /\ g.n = f.n
  BY <1>2, <1>3 DEF FrameType
<1> QED BY <1>1, <1>2, <1>4

\* A frame advances the stream it is of, and no other.
LEMMA ClientDelivers ==
    ASSUME NoPadding, DeliveryInv, ServerUnchanged, NEW f \in FrameType, f.type \in FrameTypes,
           f.type \in StreamFrames => f.s \in Streams, Sends(f),
           req' \in [Streams -> RequestType], phase' \in [Streams -> Phases],
           left' \in [Streams -> Nat], streamCredit' \in [Streams -> Int],
           clientInitial' \in Nat, connCredit' \in Int,
           \A t \in Streams : /\ req'[t] = req[t] \/ phase[t] = "idle"
                              /\ Advances(f, t, req'[t], Now(t), Now(t)')
    PROVE  DeliveryInv'
<1>1. PICK g \in FrameType : /\ wire' = Append(wire, g) /\ g.type = f.type /\ g.s = f.s
                             /\ g.end = f.end /\ g.whole = f.whole /\ g.n = f.n
                             /\ g.form # "pads"
  BY SentAs
<1>2. wire \in Seq(FrameType) /\ wire' \in Seq(FrameType) /\ Len(wire) \in Nat
  BY <1>1 DEF DeliveryInv, TypesInv, ClientTypes
<1>3. TypesInv'
  BY <1>2 DEF DeliveryInv, TypesInv, ClientTypes, ServerTypes, ThreadTypes, ServerUnchanged, parser,
              settings, thread
<1>4. KnownFrames'
  <2>1. connState' = connState
    BY DEF ServerUnchanged, socket
  <2>2. ASSUME NEW i \in DOMAIN wire'
        PROVE  /\ wire'[i].form # "pads"
               /\ wire'[i].type \in FrameTypes \/ (i = 1 /\ connState = "MethodLine")
               /\ wire'[i].type \in StreamFrames => wire'[i].s \in Streams
    <3>1. (i \in DOMAIN wire /\ wire'[i] = wire[i]) \/ wire'[i] = g
      BY <1>1, <1>2
    <3> QED BY <1>1, <3>1 DEF DeliveryInv, KnownFrames
  <2> QED BY <2>1, <2>2 DEF KnownFrames
<1>5. QueuedInv' /\ BufferInv' /\ DOMAIN seen' = Streams
  BY DEF DeliveryInv, QueuedInv, BufferInv, ServerUnchanged, thread, parser
<1>6. ASSUME NEW t \in Streams PROVE AskedInv(t)'
  <2>1. AskedInv(t) /\ UNCHANGED <<run, stream, seen>>
    BY DEF DeliveryInv, ServerUnchanged, thread
  <2>2. phase[t] \in Sealed => phase'[t] \in Sealed /\ req'[t] = req[t]
    BY DEF Advances, Goes, Now, Sealed
  <2>3. req'[t] = req[t] => Sent(t)' = Sent(t)
    BY DEF Sent
  <2> QED BY <2>1, <2>2, <2>3 DEF AskedInv, HasAll
<1>7. ASSUME connected', ~spinning', NEW t \in Streams PROVE Arrives(t)'
  <2>1. UNCHANGED <<connected, spinning, stream, run>>
    BY DEF ServerUnchanged, socket, thread
  <2>2. PICK v : Stages(t, v)
    BY <1>7, <2>1 DEF DeliveryInv, Arrives
  <2>3. phase[t] = "idle" => v[1].phase = "idle"
    BY <1>2, <2>2, IdleStages
  <2>4. AtServer(t, v[1])'
    BY <2>1, <2>2, <2>3 DEF Stages, AtServer, First
  <2>5. Now(t)' \in Stage
    BY DEF Now, Stage
  <2>6. Advances(g, t, req'[t], Now(t), Now(t)')
    BY <1>1 DEF Advances, Goes
  <2> QED BY <1>1, <1>2, <2>2, <2>4, <2>5, <2>6, StagesAppend
<1> QED BY <1>3, <1>4, <1>5, <1>6, <1>7 DEF DeliveryInv

\* The steps that send a frame of the stream s.
LEMMA StreamFrameSent ==
    ASSUME NoPadding, DeliveryInv, ServerUnchanged, NEW s \in Streams, NEW f \in FrameType,
           f.type \in StreamFrames, f.s = s, Sends(f), NEW r \in RequestType, NEW p \in Phases,
           NEW n \in Nat, req' = [req EXCEPT ![s] = r], phase' = [phase EXCEPT ![s] = p],
           left' = [left EXCEPT ![s] = n], r = req[s] \/ phase[s] = "idle",
           streamCredit' \in [Streams -> Int], clientInitial' \in Nat, connCredit' \in Int,
           Goes(f, r, Now(s), [phase |-> p, left |-> n])
    PROVE  DeliveryInv'
<1>1. req \in [Streams -> RequestType] /\ phase \in [Streams -> Phases] /\ left \in [Streams -> Nat]
  BY DEF DeliveryInv, TypesInv, ClientTypes
<1>2. /\ req' \in [Streams -> RequestType] /\ phase' \in [Streams -> Phases]
      /\ left' \in [Streams -> Nat] /\ req'[s] = r /\ phase'[s] = p /\ left'[s] = n
      /\ \A t \in Streams \ {s} : req'[t] = req[t] /\ phase'[t] = phase[t] /\ left'[t] = left[t]
  BY <1>1
<1>3. ASSUME NEW t \in Streams
      PROVE  /\ req'[t] = req[t] \/ phase[t] = "idle"
             /\ Advances(f, t, req'[t], Now(t), Now(t)')
  <2>1. CASE t = s
    BY <1>2, <2>1 DEF Advances, Now
  <2>2. CASE t # s
    BY <1>2, <2>2 DEF Advances, Now
  <2> QED BY <2>1, <2>2
<1>4. f.type \in FrameTypes
  BY DEF FrameTypes, StreamFrames
<1> QED BY <1>2, <1>3, <1>4, ClientDelivers

LEMMA HeadersDelivered ==
    ASSUME NoPadding, DeliveryInv, NEW s \in Streams, SendHeaders(s)
    PROVE  DeliveryInv'
<1> PICK r \in Requests :
          /\ req' = [req EXCEPT ![s] = r]
          /\ left' = [left EXCEPT ![s] = r.body]
          /\ phase' = [phase EXCEPT ![s] = IF r.split THEN "block" ELSE AfterBlock(r)]
          /\ Sends([Frame("headers", s) EXCEPT !.whole = ~r.split, !.end = EndsHeaders(r),
                                               !.n = IF r.announced THEN r.body ELSE -1])
  BY DEF SendHeaders
<1>1. r \in RequestType /\ r.split \in BOOLEAN /\ EndsHeaders(r) \in BOOLEAN /\ r.body \in Nat
  BY Http2Assumption DEF RequestType, EndsHeaders
<1>2. PICK n \in Int : n = IF r.announced THEN r.body ELSE -1
  BY <1>1
<1>3. PICK e \in BOOLEAN, q \in BOOLEAN : e = EndsHeaders(r) /\ q = ~r.split
  BY <1>1
<1>4. PICK f : f = [Frame("headers", s) EXCEPT !.whole = ~r.split, !.end = EndsHeaders(r),
                                               !.n = IF r.announced THEN r.body ELSE -1]
  OBVIOUS
<1>5. f = [type |-> "headers", s |-> s, end |-> e, whole |-> q, n |-> n, size |-> 0, form |-> "plain"]
  BY <1>2, <1>3, <1>4 DEF Frame
<1>6. /\ f \in FrameType /\ f.type = "headers" /\ f.s = s /\ f.whole = q /\ f.end = e
  <2>1. "headers" \in FrameTypes
    BY DEF FrameTypes
  <2> QED BY <1>5, <2>1, NewFrame
<1>7. PICK p \in Phases : p = IF r.split THEN "block" ELSE AfterBlock(r)
  BY DEF Phases, AfterBlock
<1>8. phase[s] = "idle" /\ ServerUnchanged
  BY DEF SendHeaders, ServerUnchanged
<1>9. streamCredit' \in [Streams -> Int] /\ clientInitial' \in Nat /\ connCredit' \in Int
  BY DEF SendHeaders, asked, DeliveryInv, TypesInv, ClientTypes
<1>10. Goes(f, r, Now(s), [phase |-> p, left |-> r.body])
  BY <1>3, <1>6, <1>7, <1>8 DEF Goes, Now
<1>11. Sends(f) /\ f.type \in StreamFrames
  BY <1>4, <1>6 DEF StreamFrames
<1> QED BY <1>1, <1>6, <1>7, <1>8, <1>9, <1>10, <1>11, StreamFrameSent

\* The other frames of a stream leave its request alone.
LEMMA LaterFrameSent ==
    ASSUME NoPadding, DeliveryInv, ServerUnchanged, NEW s \in Streams, NEW f \in FrameType,
           f.type \in StreamFrames, f.s = s, Sends(f), NEW p \in Phases, NEW n \in Nat,
           phase' = [phase EXCEPT ![s] = p], left' = [left EXCEPT ![s] = n],
           UNCHANGED <<req, streamCredit, connCredit, asked>>,
           Goes(f, req[s], Now(s), [phase |-> p, left |-> n])
    PROVE  DeliveryInv'
<1>1. /\ req \in [Streams -> RequestType] /\ req[s] \in RequestType
      /\ streamCredit' \in [Streams -> Int] /\ clientInitial' \in Nat /\ connCredit' \in Int
  BY DEF DeliveryInv, TypesInv, ClientTypes, asked
<1>2. req' = [req EXCEPT ![s] = req[s]]
  BY <1>1
<1> QED BY <1>1, <1>2, StreamFrameSent

LEMMA ContinuationDelivered ==
    ASSUME NoPadding, DeliveryInv, NEW s \in Streams, SendContinuation(s)
    PROVE  DeliveryInv'
<1>1. /\ ServerUnchanged /\ phase[s] = "block" /\ UNCHANGED <<req, left, streamCredit, connCredit, asked>>
      /\ phase' = [phase EXCEPT ![s] = AfterBlock(req[s])]
  BY DEF SendContinuation, ServerUnchanged
<1>2. /\ req[s] \in RequestType /\ left \in [Streams -> Nat]
  BY DEF DeliveryInv, TypesInv, ClientTypes
<1>3. PICK n \in Int : n = IF req[s].announced THEN req[s].body ELSE -1
  BY <1>2 DEF RequestType
<1>4. PICK f : f = [Frame("continuation", s) EXCEPT !.n = n]
  OBVIOUS
<1>5. f = [type |-> "continuation", s |-> s, end |-> FALSE, whole |-> TRUE, n |-> n, size |-> 0,
           form |-> "plain"]
  BY <1>4 DEF Frame
<1>6. /\ f \in FrameType /\ f.type = "continuation" /\ f.s = s /\ f.whole /\ ~f.end
  BY <1>5 DEF FrameType, FrameTypes
<1>7. Sends(f) /\ f.type \in StreamFrames
  BY <1>3, <1>4, <1>6 DEF SendContinuation, StreamFrames
<1>8. PICK p \in Phases : p = AfterBlock(req[s])
  BY DEF Phases, AfterBlock
<1>9. left' = [left EXCEPT ![s] = left[s]] /\ left[s] \in Nat
  BY <1>1, <1>2
<1>10. Goes(f, req[s], Now(s), [phase |-> p, left |-> left[s]])
  BY <1>1, <1>6, <1>8 DEF Goes, Now
<1> QED BY <1>1, <1>6, <1>7, <1>8, <1>9, <1>10, LaterFrameSent

LEMMA DataDelivered ==
    ASSUME NoPadding, DeliveryInv, NEW s \in Streams, SendData(s)
    PROVE  DeliveryInv'
<1>1. /\ ServerUnchanged /\ phase[s] = "open" /\ UNCHANGED <<req, streamCredit, connCredit, asked>>
  BY DEF SendData, ServerUnchanged
<1>2. /\ req[s] \in RequestType /\ left \in [Streams -> Nat] /\ phase \in [Streams -> Phases]
  BY DEF DeliveryInv, TypesInv, ClientTypes
<1>3. PICK n \in 1 .. left[s] :
          /\ left' = [left EXCEPT ![s] = @ - n]
          /\ Sends([Frame("data", s) EXCEPT !.n = n, !.end = (n = left[s] /\ ~req[s].trailers)])
  BY DEF SendData
<1>4. PICK m \in Nat : m = left[s] - n
  BY <1>2
<1>5. left' = [left EXCEPT ![s] = m] /\ left'[s] = m /\ n \in Int
  BY <1>2, <1>3, <1>4
<1>6. PICK e \in BOOLEAN : e = (n = left[s] /\ ~req[s].trailers)
  BY <1>2 DEF RequestType
<1>7. PICK p \in Phases : p = IF m = 0 /\ ~req[s].trailers THEN "end" ELSE "open"
  BY DEF Phases
<1>8. phase' = [phase EXCEPT ![s] = p]
  BY <1>1, <1>2, <1>5, <1>7 DEF SendData
<1>9. PICK f : f = [Frame("data", s) EXCEPT !.n = n, !.end = e]
  OBVIOUS
<1>10. f = [type |-> "data", s |-> s, end |-> e, whole |-> TRUE, n |-> n, size |-> 0, form |-> "plain"]
  BY <1>9 DEF Frame
<1>11. /\ f \in FrameType /\ f.type = "data" /\ f.s = s /\ f.end = e /\ f.n = n
  BY <1>5, <1>10 DEF FrameType, FrameTypes
<1>12. Sends(f) /\ f.type \in StreamFrames
  BY <1>3, <1>6, <1>9, <1>11 DEF StreamFrames
<1>13. e = (m = 0 /\ ~req[s].trailers)
  BY <1>2, <1>4, <1>5, <1>6
<1>14. Goes(f, req[s], Now(s), [phase |-> p, left |-> m])
  BY <1>1, <1>4, <1>7, <1>11, <1>13 DEF Goes, Now
<1> QED BY <1>1, <1>5, <1>8, <1>11, <1>12, <1>14, LaterFrameSent

LEMMA TrailersDelivered ==
    ASSUME NoPadding, DeliveryInv, NEW s \in Streams, SendTrailers(s)
    PROVE  DeliveryInv'
<1>1. /\ ServerUnchanged /\ phase[s] = "open" /\ left[s] = 0 /\ req[s].trailers
      /\ phase' = [phase EXCEPT ![s] = "end"]
      /\ UNCHANGED <<req, left, streamCredit, connCredit, asked>>
  BY DEF SendTrailers, ServerUnchanged
<1>2. PICK f : f = [Frame("trailers", s) EXCEPT !.end = TRUE]
  OBVIOUS
<1>3. f = [type |-> "trailers", s |-> s, end |-> TRUE, whole |-> TRUE, n |-> 0, size |-> 0, form |-> "plain"]
  BY <1>2 DEF Frame
<1>4. /\ f \in FrameType /\ f.type = "trailers" /\ f.s = s /\ f.end /\ f.whole
  BY <1>3 DEF FrameType, FrameTypes
<1>5. Sends(f) /\ f.type \in StreamFrames
  BY <1>2, <1>4 DEF SendTrailers, StreamFrames
<1>6. left' = [left EXCEPT ![s] = left[s]] /\ left[s] \in Nat /\ "end" \in Phases
  BY <1>1 DEF DeliveryInv, TypesInv, ClientTypes, Phases
<1>7. Goes(f, req[s], Now(s), [phase |-> "end", left |-> left[s]])
  BY <1>1, <1>4 DEF Goes, Now
<1> QED BY <1>1, <1>4, <1>5, <1>6, <1>7, LaterFrameSent

LEMMA ResetDelivered ==
    ASSUME NoPadding, DeliveryInv, NEW s \in Streams, SendReset(s)
    PROVE  DeliveryInv'
<1>1. /\ ServerUnchanged /\ phase[s] \in {"open", "end"} /\ phase' = [phase EXCEPT ![s] = "reset"]
      /\ UNCHANGED <<req, left, streamCredit, connCredit, asked>>
  BY DEF SendReset, ServerUnchanged
<1>2. PICK f : f = Frame("reset", s)
  OBVIOUS
<1>3. f = [type |-> "reset", s |-> s, end |-> FALSE, whole |-> TRUE, n |-> 0, size |-> 0, form |-> "plain"]
  BY <1>2 DEF Frame
<1>4. /\ f \in FrameType /\ f.type = "reset" /\ f.s = s
  BY <1>3 DEF FrameType, FrameTypes
<1>5. Sends(f) /\ f.type \in StreamFrames
  BY <1>2, <1>4 DEF SendReset, StreamFrames
<1>6. left' = [left EXCEPT ![s] = left[s]] /\ left[s] \in Nat /\ "reset" \in Phases
  BY <1>1 DEF DeliveryInv, TypesInv, ClientTypes, Phases
<1>7. Goes(f, req[s], Now(s), [phase |-> "reset", left |-> left[s]])
  BY <1>1, <1>4 DEF Goes, Now
<1> QED BY <1>1, <1>4, <1>5, <1>6, <1>7, LaterFrameSent

\* The frames that open windows are of no request.
LEMMA WindowFrameSent ==
    ASSUME NoPadding, DeliveryInv, ServerUnchanged, NEW type \in {"update", "settings"}, NEW s \in Streams \cup {0},
           NEW n \in Int, NEW z \in Int,
           Sends([type |-> type, s |-> s, end |-> FALSE, whole |-> TRUE, n |-> n, size |-> z,
                  form |-> "plain"]),
           UNCHANGED <<req, phase, left>>, streamCredit' \in [Streams -> Int], clientInitial' \in Nat,
           connCredit' \in Int
    PROVE  DeliveryInv'
<1>1. PICK f : f = [type |-> type, s |-> s, end |-> FALSE, whole |-> TRUE, n |-> n, size |-> z,
                    form |-> "plain"]
  OBVIOUS
<1>2. type \in FrameTypes /\ type \notin StreamFrames
  BY DEF FrameTypes, StreamFrames
<1>3. f \in FrameType /\ f.type = type
  BY <1>1, <1>2 DEF FrameType
<1>4. \A t \in Streams : req'[t] = req[t] /\ Advances(f, t, req'[t], Now(t), Now(t)')
  BY <1>2, <1>3 DEF Advances, Now
<1>5. req' \in [Streams -> RequestType] /\ phase' \in [Streams -> Phases] /\ left' \in [Streams -> Nat]
  BY DEF DeliveryInv, TypesInv, ClientTypes
<1> QED BY <1>1, <1>2, <1>3, <1>4, <1>5, ClientDelivers

LEMMA WindowsDelivered ==
    ASSUME NoPadding, DeliveryInv,
           \/ \E s \in Streams : SendUpdate(s)
           \/ SendConnUpdate
           \/ \E w \in Windows, size \in FrameSizes : SendSettings(w, size)
    PROVE  DeliveryInv'
<1>1. /\ clientInitial \in Nat /\ streamCredit \in [Streams -> Int] /\ connCredit \in Int
      /\ ConnWindow \in Int /\ Windows \subseteq Nat /\ FrameSizes \subseteq Nat
  BY Http2Assumption DEF DeliveryInv, TypesInv, ClientTypes
<1>2. ASSUME NEW s \in Streams, SendUpdate(s) PROVE DeliveryInv'
  <2>1. PICK n \in Int : n = clientInitial - streamCredit[s]
    BY <1>1
  <2>2. PICK f : f = [Frame("update", s) EXCEPT !.n = n]
    OBVIOUS
  <2>3. f = [type |-> "update", s |-> s, end |-> FALSE, whole |-> TRUE, n |-> n, size |-> 0, form |-> "plain"]
    BY <2>2 DEF Frame
  <2>4. /\ ServerUnchanged /\ UNCHANGED <<req, phase, left, connCredit, asked>>
        /\ streamCredit' \in [Streams -> Int] /\ Sends([Frame("update", s) EXCEPT !.n = n])
    BY <1>1, <1>2, <2>1 DEF SendUpdate, ServerUnchanged
  <2> QED BY <1>1, <2>2, <2>3, <2>4, WindowFrameSent DEF asked
<1>3. CASE SendConnUpdate
  <2>1. PICK n \in Int : n = ConnWindow - connCredit
    BY <1>1
  <2>2. PICK f : f = [Frame("update", 0) EXCEPT !.n = n]
    OBVIOUS
  <2>3. f = [type |-> "update", s |-> 0, end |-> FALSE, whole |-> TRUE, n |-> n, size |-> 0, form |-> "plain"]
    BY <2>2 DEF Frame
  <2>4. /\ ServerUnchanged /\ UNCHANGED <<req, phase, left, streamCredit, asked>>
        /\ connCredit' = ConnWindow /\ Sends([Frame("update", 0) EXCEPT !.n = n])
    BY <1>3, <2>1 DEF SendConnUpdate, ServerUnchanged
  <2> QED BY <1>1, <2>2, <2>3, <2>4, WindowFrameSent DEF asked
<1>4. ASSUME NEW w \in Windows, NEW size \in FrameSizes, SendSettings(w, size) PROVE DeliveryInv'
  <2>1. PICK f : f = [Frame("settings", 0) EXCEPT !.n = w, !.size = size]
    OBVIOUS
  <2>2. f = [type |-> "settings", s |-> 0, end |-> FALSE, whole |-> TRUE, n |-> w, size |-> size,
             form |-> "plain"]
    BY <2>1 DEF Frame
  <2>3. /\ ServerUnchanged /\ UNCHANGED <<req, phase, left, connCredit>> /\ clientInitial' = w
        /\ Sends([Frame("settings", 0) EXCEPT !.n = w, !.size = size])
        /\ streamCredit' = [s \in Streams |-> streamCredit[s] + IF InProgress(s) THEN w - clientInitial
                                                                                 ELSE 0]
    BY <1>4 DEF SendSettings, ServerUnchanged
  <2>4. streamCredit' \in [Streams -> Int] /\ w \in Int /\ size \in Int /\ w \in Nat
    BY <1>1, <2>3
  <2>5. /\ Sends([type |-> "settings", s |-> 0, end |-> FALSE, whole |-> TRUE, n |-> w, size |-> size,
                  form |-> "plain"])
        /\ clientInitial' \in Nat /\ connCredit' \in Int
    BY <1>1, <2>1, <2>2, <2>3, <2>4
  <2> QED BY <2>3, <2>4, <2>5, WindowFrameSent
<1> QED BY <1>2, <1>3, <1>4

----------------------------------------------------------------------------
(* What the frames add to the requests.                                     *)

LEMMA HeadKnown ==
    ASSUME DeliveryInv, wire # <<>>, connState # "MethodLine"
    PROVE  /\ Head(wire) \in FrameType /\ Head(wire).type \in FrameTypes /\ Head(wire).form # "pads"
           /\ Head(wire).type \in StreamFrames => Head(wire).s \in Streams
<1>1. wire \in Seq(FrameType) /\ 1 \in DOMAIN wire /\ Head(wire) = wire[1]
  BY DEF DeliveryInv, TypesInv, ClientTypes
<1> QED BY <1>1 DEF DeliveryInv, KnownFrames

\* Where a stream is, and where its frame at the head of the wire takes it.
LEMMA HeadStages ==
    ASSUME DeliveryInv, connected, ~spinning, wire # <<>>, NEW s \in Streams,
           Head(wire).s = s, Head(wire).type \in StreamFrames
    PROVE  \E a \in Stage, b \in Stage :
              /\ AtServer(s, a) /\ Goes(Head(wire), req[s], a, b)
              /\ b.phase \in Sealed => phase[s] \in Sealed
<1>1. PICK v : Stages(s, v)
  BY DEF DeliveryInv, Arrives
<1>2. wire \in Seq(FrameType) /\ Len(wire) \in Nat \ {0} /\ Head(wire) = wire[1]
  BY DEF DeliveryInv, TypesInv, ClientTypes
<1>3. 1 \in 1 .. Len(wire) /\ 1 \in 1 .. Len(wire) + 1 /\ 1 + 1 \in 1 .. Len(wire) + 1
  BY <1>2
<1>4. /\ v[1] \in Stage /\ v[1 + 1] \in Stage /\ AtServer(s, v[1])
      /\ Advances(wire[1], s, req[s], v[1], v[1 + 1])
  BY <1>1, <1>3 DEF Stages
<1>5. v[1 + 1].phase \in Sealed => phase[s] \in Sealed
  BY <1>1, <1>2, <1>3, SealedStages
<1> QED BY <1>2, <1>4, <1>5 DEF Advances

\* What a handler has to establish.
LEMMA ReadDelivers ==
    ASSUME DeliveryInv, connected, ~spinning, wire # <<>>, wire' = Tail(wire), ClientUnchanged,
           ServerTypes', ThreadTypes', QueuedInv', BufferInv', DOMAIN seen' = Streams,
           \A t \in Streams : AskedInv(t)',
           connected' /\ ~spinning' =>
              \A t \in Streams, a \in Stage, b \in Stage :
                 AtServer(t, a) /\ Advances(Head(wire), t, req[t], a, b) => AtServer(t, b)'
    PROVE  DeliveryInv'
<1>1. /\ wire \in Seq(FrameType) /\ Len(wire) \in Nat \ {0} /\ Head(wire) = wire[1]
      /\ wire' \in Seq(FrameType)
      /\ \A i \in DOMAIN wire' : wire'[i] = wire[i + 1] /\ i + 1 \in DOMAIN wire /\ i + 1 # 1
  BY DEF DeliveryInv, TypesInv, ClientTypes
<1>2. TypesInv'
  BY <1>1 DEF DeliveryInv, TypesInv, ClientTypes, ClientUnchanged, asked
<1>3. KnownFrames'
  BY <1>1 DEF DeliveryInv, KnownFrames
<1>4. ASSUME connected', ~spinning', NEW t \in Streams PROVE Arrives(t)'
  <2>1. PICK v : Stages(t, v)
    BY DEF DeliveryInv, Arrives
  <2>2. 1 \in 1 .. Len(wire) /\ 1 \in 1 .. Len(wire) + 1 /\ 1 + 1 \in 1 .. Len(wire) + 1
    BY <1>1
  <2>3. v[1] \in Stage /\ v[1 + 1] \in Stage /\ AtServer(t, v[1])
        /\ Advances(wire[1], t, req[t], v[1], v[1 + 1])
    BY <2>1, <2>2 DEF Stages
  <2>4. AtServer(t, v[1 + 1])'
    BY <1>1, <1>4, <2>3
  <2>5. UNCHANGED <<req, phase, left>>
    BY DEF ClientUnchanged
  <2> QED BY <1>1, <2>1, <2>4, <2>5, StagesTail
<1> QED BY <1>2, <1>3, <1>4 DEF DeliveryInv

\* The handler keeps what the stream got.
Keeps(t) ==
    /\ run'[t] = run[t] \/ (run[t] = "waiting" /\ run'[t] = "woken")
    /\ stream'[t] # NoStream <=> stream[t] # NoStream
    /\ stream[t] # NoStream => /\ stream'[t].block = stream[t].block
                               /\ stream'[t].consumedData = stream[t].consumedData

LEMMA KeptAsked ==
    ASSUME NEW t \in Streams, AskedInv(t), Keeps(t), UNCHANGED <<req, phase, seen>>
    PROVE  AskedInv(t)'
<1>1. Sent(t)' = Sent(t)
  BY DEF Sent
<1> QED BY <1>1 DEF AskedInv, HasAll, Keeps

LEMMA KeptAtServer ==
    ASSUME NEW t \in Streams, NEW a, AtServer(t, a), Keeps(t), req' = req,
           stream[t] # NoStream => stream'[t].state = stream[t].state
    PROVE  AtServer(t, a)'
BY DEF AtServer, Keeps, First

\* A handler that adds to no request.
LEMMA QuietRead ==
    ASSUME DeliveryInv, connected, ~spinning, wire # <<>>, wire' = Tail(wire), ClientUnchanged,
           ServerTypes', ThreadTypes', QueuedInv',
           UNCHANGED <<seen, streamForContinuation, headersBuffer>>, \A t \in Streams : Keeps(t),
           connected' /\ ~spinning' =>
              \A t \in Streams :
                 \/ Head(wire).type = "reset" /\ Head(wire).s = t
                 \/ /\ Head(wire).type \notin StreamFrames \/ Head(wire).s # t
                    /\ stream[t] # NoStream => stream'[t].state = stream[t].state
    PROVE  DeliveryInv'
<1>1. BufferInv' /\ DOMAIN seen' = Streams
  BY DEF DeliveryInv, BufferInv
<1>2. UNCHANGED <<req, phase, left>>
  BY DEF ClientUnchanged
<1>3. \A t \in Streams : AskedInv(t)'
  BY <1>2, KeptAsked DEF DeliveryInv
<1>4. ASSUME connected', ~spinning', NEW t \in Streams, NEW a \in Stage, NEW b \in Stage,
             AtServer(t, a), Advances(Head(wire), t, req[t], a, b)
      PROVE  AtServer(t, b)'
  <2>1. CASE Head(wire).type = "reset" /\ Head(wire).s = t
    <3>1. b.phase = "reset"
      BY <1>4, <2>1 DEF Advances, Goes, StreamFrames
    <3> QED BY <3>1 DEF AtServer
  <2>2. CASE /\ Head(wire).type \notin StreamFrames \/ Head(wire).s # t
             /\ stream[t] # NoStream => stream'[t].state = stream[t].state
    <3>1. b = a
      BY <1>4, <2>2 DEF Advances
    <3> QED BY <1>2, <1>4, <2>2, <3>1, KeptAtServer
  <2> QED BY <1>4, <2>1, <2>2
<1> QED BY <1>1, <1>3, <1>4, ReadDelivers

\* A frame that ends the connection or stops the thread.
LEMMA DeadRead ==
    ASSUME DeliveryInv, connected, ~spinning, wire # <<>>, wire' = Tail(wire), ClientUnchanged,
           ~connected' \/ spinning', UNCHANGED <<parser, windowSize, stream, seen, thread>>
    PROVE  DeliveryInv'
<1>1. ServerTypes' /\ ThreadTypes' /\ QueuedInv'
  BY DEF DeliveryInv, TypesInv, ServerTypes, ThreadTypes, QueuedInv, ClientUnchanged, parser, settings, thread
<1>2. UNCHANGED <<seen, streamForContinuation, headersBuffer>> /\ \A t \in Streams : Keeps(t)
  BY DEF Keeps, parser, thread
<1> QED BY <1>1, <1>2, QuietRead

\* A frame that adds to the request of its stream, and may end it.
LEMMA RequestRead ==
    ASSUME DeliveryInv, connected, ~spinning, wire # <<>>, wire' = Tail(wire), ClientUnchanged,
           NEW s \in Streams, Head(wire).s = s, Head(wire).type \in StreamFrames, run[s] = "none",
           stream'[s] # NoStream, \A t \in Streams \ {s} : stream'[t] = stream[t],
           ServerTypes', BufferInv', seen' = seen,
           (QueueStream(s) /\ HasAll(s)' /\ phase[s] \in Sealed) \/ UNCHANGED <<socket, thread>>,
           \A a \in Stage, b \in Stage :
              AtServer(s, a) /\ Goes(Head(wire), req[s], a, b) => AtServer(s, b)'
    PROVE  DeliveryInv'
<1>1. /\ UNCHANGED <<req, phase, left, ended>> /\ TypesInv /\ QueuedInv
      /\ \A t \in Streams : AskedInv(t)
  BY DEF ClientUnchanged, DeliveryInv
<1>2. /\ ThreadTypes' /\ QueuedInv' /\ \A t \in Streams \ {s} : run'[t] = run[t]
      /\ run'[s] = "none" \/ (run'[s] = "queued" /\ HasAll(s)' /\ phase[s] \in Sealed)
  <2>1. CASE QueueStream(s) /\ HasAll(s)' /\ phase[s] \in Sealed
    BY <1>1, <2>1, QueueGrows
  <2>2. CASE UNCHANGED <<socket, thread>>
    BY <1>1, <2>2 DEF TypesInv, ThreadTypes, QueuedInv, thread
  <2> QED BY <2>1, <2>2
<1>3. \A t \in Streams \ {s} : Keeps(t)
  BY <1>2 DEF Keeps
<1>4. ASSUME NEW t \in Streams PROVE AskedInv(t)'
  <2>1. CASE t = s
    BY <1>1, <1>2, <2>1 DEF AskedInv
  <2>2. CASE t # s
    BY <1>1, <1>3, <2>2, KeptAsked
  <2> QED BY <2>1, <2>2
<1>5. ASSUME NEW t \in Streams, NEW a \in Stage, NEW b \in Stage,
             AtServer(t, a), Advances(Head(wire), t, req[t], a, b)
      PROVE  AtServer(t, b)'
  <2>1. CASE t = s
    BY <1>5, <2>1 DEF Advances
  <2>2. CASE t # s
    <3>1. b = a
      BY <1>5, <2>2 DEF Advances
    <3> QED BY <1>1, <1>3, <1>5, <2>2, <3>1, KeptAtServer
  <2> QED BY <2>1, <2>2
<1>6. DOMAIN seen' = Streams
  BY DEF DeliveryInv
<1> QED BY <1>2, <1>4, <1>5, <1>6, ReadDelivers

LEMMA DataArrives ==
    ASSUME DeliveryInv, connected, ~spinning, connState # "MethodLine", wire # <<>>, wire' = Tail(wire),
           ClientUnchanged, Head(wire).type = "data", ParseData(Head(wire))
    PROVE  DeliveryInv'
<1>1. PICK f \in FrameType, s \in Streams : f = Head(wire) /\ s = f.s /\ f.type = "data"
                                             /\ f.form # "pads"
  BY HeadKnown DEF StreamFrames
<1>2. CASE GoAway /\ UNCHANGED seen
  BY <1>2, DeadRead DEF GoAway, Closes
<1>3. CASE ~(GoAway /\ UNCHANGED seen)
  <2>1. PICK h : h = [stream[s] EXCEPT !.consumedData = @ + f.n]
    OBVIOUS
  <2>2. /\ stream[s] # NoStream /\ stream' = [stream EXCEPT ![s] = h]
        /\ IF f.end THEN QueueStream(s) ELSE UNCHANGED <<socket, thread>>
        /\ UNCHANGED <<parser, windowSize, seen>>
    BY <1>1, <1>3, <2>1 DEF ParseData, EndsBody, Unpadded
  <2>3. /\ stream \in [Streams -> StreamType \cup {NoStream}] /\ req[s] \in RequestType /\ req' = req
        /\ f.n \in Int /\ f.end \in BOOLEAN /\ run \in [Streams -> Runs]
    BY DEF DeliveryInv, TypesInv, ClientTypes, ServerTypes, ThreadTypes, ClientUnchanged, FrameType
  <2>4. stream[s] \in StreamType
    BY <2>2, <2>3
  <2>5. /\ h \in StreamType /\ h.block = stream[s].block
        /\ h.consumedData = stream[s].consumedData + f.n
    <3>1. stream[s].consumedData + f.n \in Int
      BY <2>3, <2>4 DEF StreamType
    <3> QED BY <2>1, <2>4, <3>1 DEF StreamType
  <2>6. /\ stream'[s] = h /\ h # NoStream /\ \A t \in Streams \ {s} : stream'[t] = stream[t]
    BY <2>2, <2>3, <2>5, InHash
  <2>7. ServerTypes' /\ BufferInv'
    BY <2>2, <2>3, <2>5 DEF DeliveryInv, TypesInv, ServerTypes, BufferInv, parser, settings
  <2>8. PICK a \in Stage, b \in Stage : /\ AtServer(s, a) /\ Goes(f, req[s], a, b)
                                        /\ b.phase \in Sealed => phase[s] \in Sealed
    BY <1>1, HeadStages DEF StreamFrames
  <2>9. run[s] = "none"
    BY <1>1, <2>8 DEF AtServer, Goes
  <2>10. ASSUME NEW c \in Stage, NEW d \in Stage, AtServer(s, c), Goes(f, req[s], c, d)
         PROVE  /\ h.block = First(s) /\ h.consumedData = req[s].body - d.left
                /\ f.end => d.left = 0 /\ ~req[s].trailers /\ d.phase = "end"
                /\ ~f.end => d.phase = "open"
    <3>1. /\ c.phase = "open" /\ d.left = c.left - f.n
          /\ stream[s].block = First(s) /\ stream[s].consumedData = req[s].body - c.left
      BY <1>1, <2>10 DEF AtServer, Goes
    <3>2. req[s].body \in Int /\ c.left \in Int
      BY <2>3 DEF RequestType, Stage
    <3>3. h.consumedData = req[s].body - d.left
      BY <2>3, <2>5, <3>1, <3>2
    <3> QED BY <1>1, <2>3, <2>5, <2>10, <3>1, <3>3 DEF Goes
  <2>11. f.end => HasAll(s)' /\ phase[s] \in Sealed
    <3>1. SUFFICES ASSUME f.end PROVE HasAll(s)' /\ phase[s] \in Sealed
      OBVIOUS
    <3>2. h.block = First(s) /\ h.consumedData = req[s].body - b.left /\ b.left = 0 /\ b.phase = "end"
          /\ ~req[s].trailers
      BY <2>8, <2>10, <3>1
    <3>3. First(s) \in Seq(Int) /\ First(s) \o <<>> = First(s)
      <4>1. First(s) \in Seq(Int)
        BY DEF First, Streams
      <4> QED BY <4>1, ConcatEmptySeq
    <3>4. Sent(s)'.block = First(s) /\ Sent(s)'.body = req[s].body
      BY <2>3, <3>2, <3>3 DEF Sent, First
    <3>5. req[s].body - 0 = req[s].body
      BY <2>3 DEF RequestType
    <3> QED BY <2>6, <2>8, <3>2, <3>4, <3>5 DEF HasAll, Sealed
  <2>12. ASSUME NEW c \in Stage, NEW d \in Stage, AtServer(s, c), Goes(f, req[s], c, d)
         PROVE  AtServer(s, d)'
    <3>1. CASE f.end
      BY <2>10, <2>12, <3>1 DEF AtServer
    <3>2. CASE ~f.end
      <4>1. d.phase = "open" /\ h.block = First(s) /\ h.consumedData = req[s].body - d.left
        BY <2>10, <2>12, <3>2
      <4>2. run'[s] = "none"
        BY <2>2, <2>9, <3>2 DEF thread
      <4> QED BY <2>3, <2>6, <4>1, <4>2 DEF AtServer, First
    <3> QED BY <3>1, <3>2
  <2>13. (QueueStream(s) /\ HasAll(s)' /\ phase[s] \in Sealed) \/ UNCHANGED <<socket, thread>>
    BY <2>2, <2>11
  <2> QED BY <1>1, <2>2, <2>6, <2>7, <2>9, <2>12, <2>13, RequestRead DEF StreamFrames
<1> QED BY <1>2, <1>3

\* The buffer has nothing of a path in it only if it is empty.
LEMMA NoPath ==
    ASSUME DeliveryInv, ~One(headersBuffer)
    PROVE  headersBuffer = <<>> /\ streamForContinuation = 0
<1>1. ~Two(headersBuffer)
  BY DEF One, Two
<1>2. \A s \in Streams : One(<<s>>)
  BY DEF One, Streams
<1> QED BY <1>1, <1>2 DEF DeliveryInv, BufferInv

\* A header frame that was accepted: what is decoded is the block of its stream.
LEMMA FirstFrame ==
    ASSUME DeliveryInv, NEW s \in Streams, NEW f \in FrameType, f.s = s, f.type = "headers",
           HeaderResult(f, s), stream[s] = NoStream
    PROVE  BufferInv' /\ stream'[s].block = IF f.whole THEN <<s>> ELSE <<>>
<1>1. headersBuffer \in Seq(Int) /\ Piece(f) = s /\ s \in Int /\ s > 0 /\ f.whole \in BOOLEAN
  BY DEF DeliveryInv, TypesInv, ServerTypes, Piece, Streams, FrameType
<1>2. OpenedBy(f).block = <<>>
  BY Opened DEF DeliveryInv
<1>a. Append(headersBuffer, s) \in Seq(Int)
  BY <1>1
<1>3. PICK block \in Seq(Int) : block = Append(headersBuffer, s)
  BY <1>a
<1>4. BlockResult(f, s, block)
  BY <1>1, <1>3 DEF HeaderResult
<1>5. One(headersBuffer) => Two(block)
  BY <1>1, <1>3, TwoAppend
<1>6. headersBuffer = <<>> => block = <<s>>
  BY <1>1, <1>3
<1>7. CASE f.whole
  <2>1. stream'[s].block = block /\ Paths(block) = 1
    BY <1>2, <1>3, <1>4, <1>7, ConcatEmptySeq DEF BlockResult
  <2>2. headersBuffer = <<>>
    BY <1>3, <1>5, <2>1, OnePath, NoPath
  <2>3. headersBuffer' = <<>> /\ streamForContinuation' = 0
    BY <1>4, <1>7, <2>2 DEF BlockResult
  <2> QED BY <1>6, <1>7, <2>1, <2>2, <2>3 DEF BufferInv
<1>8. CASE ~f.whole
  <2>1. stream'[s].block = <<>> /\ streamForContinuation' = s /\ headersBuffer' = block
    BY <1>2, <1>4, <1>8 DEF BlockResult
  <2>2. headersBuffer = <<>> \/ One(headersBuffer)
    BY NoPath
  <2> QED BY <1>5, <1>6, <1>8, <2>1, <2>2 DEF BufferInv
<1> QED BY <1>1, <1>7, <1>8

LEMMA SecondFrame ==
    ASSUME DeliveryInv, NEW s \in Streams, NEW f \in FrameType, f.s = s, f.type = "continuation",
           f.whole, HeaderResult(f, s), stream[s] # NoStream, stream[s].block = <<>>
    PROVE  BufferInv' /\ stream'[s].block = <<s, -s>>
<1>1. headersBuffer \in Seq(Int) /\ Piece(f) = -s /\ s \in Int /\ s > 0 /\ -s \in Int
  BY DEF DeliveryInv, TypesInv, ServerTypes, Piece, Streams
<1>2. OpenedBy(f).block = <<>>
  BY Opened DEF DeliveryInv
<1>a. PICK p \in Int : p = -s
  BY <1>1
<1>b. Append(headersBuffer, p) \in Seq(Int)
  BY <1>1
<1>3. PICK block \in Seq(Int) : block = Append(headersBuffer, p)
  BY <1>b
<1>4. BlockResult(f, s, block)
  BY <1>1, <1>a, <1>3 DEF HeaderResult
<1>5. stream'[s].block = block /\ Paths(block) = 1 /\ streamForContinuation = s
  BY <1>2, <1>3, <1>4, ConcatEmptySeq DEF BlockResult
<1>6. ~Two(headersBuffer)
  BY <1>1, <1>3, <1>5, OnePath, TwoAppend
<1>7. headersBuffer = <<s>>
  BY <1>1, <1>5, <1>6 DEF DeliveryInv, BufferInv
<1>8. block = <<s, -s>>
  <2>1. Append(<<s>>, p) = <<s, p>>
    <3>1. Len(<<s>>) = 1 /\ <<s>> \in Seq(Int) /\ <<s>>[1] = s
      BY <1>1
    <3>2. PICK q : q = Append(<<s>>, p)
      OBVIOUS
    <3>3. Len(q) = 2 /\ q[1] = s /\ q[2] = p /\ q \in Seq(Int)
      BY <1>1, <3>1, <3>2
    <3>4. q = <<s, p>>
      BY <1>1, <3>3
    <3> QED BY <3>2, <3>4
  <2> QED BY <1>a, <1>3, <1>7, <2>1
<1>9. headersBuffer' = block /\ streamForContinuation' = 0
  BY <1>4, <1>7 DEF BlockResult
<1>10. One(block)
  <2>1. 1 \in DOMAIN block /\ block[1] = s
    BY <1>1, <1>8
  <2> QED BY <1>1, <2>1 DEF One
<1> QED BY <1>5, <1>8, <1>9, <1>10 DEF BufferInv

LEMMA LastFrame ==
    ASSUME DeliveryInv, NEW s \in Streams, NEW f \in FrameType, f.s = s, f.type = "trailers",
           f.whole, HeaderResult(f, s), stream[s] # NoStream, stream[s].block = First(s)
    PROVE  BufferInv' /\ stream'[s].block = First(s) \o <<0>>
<1>1. headersBuffer \in Seq(Int) /\ Piece(f) = 0 /\ s \in Int /\ s > 0
  BY DEF DeliveryInv, TypesInv, ServerTypes, Piece, Streams
<1>2. OpenedBy(f).block = First(s)
  BY Opened DEF DeliveryInv
<1>a. Append(headersBuffer, 0) \in Seq(Int)
  BY <1>1
<1>3. PICK block \in Seq(Int) : block = Append(headersBuffer, 0)
  BY <1>a
<1>4. BlockResult(f, s, block)
  BY <1>1, <1>3 DEF HeaderResult
<1>5. stream'[s].block = First(s) \o block /\ Paths(First(s) \o block) = 1
  BY <1>2, <1>4 DEF BlockResult
<1>6. First(s) \in Seq(Int) /\ One(First(s))
  <2>1. 1 \in DOMAIN First(s) /\ First(s)[1] = s
    BY DEF First
  <2> QED BY <1>1, <2>1 DEF First, One
<1>7. ~Two(First(s) \o block)
  <2>1. First(s) \o block \in Seq(Int)
    BY <1>3, <1>6
  <2> QED BY <1>5, <2>1, OnePath
<1>8. ~One(headersBuffer)
  <2>1. ~One(block)
    BY <1>3, <1>6, <1>7, TwoConcat
  <2> QED BY <1>1, <1>3, <2>1, TwoAppend
<1>9. headersBuffer = <<>>
  BY <1>8, NoPath
<1>10. block = <<0>> /\ headersBuffer' = <<>> /\ streamForContinuation' = 0
  BY <1>1, <1>3, <1>4, <1>9 DEF BlockResult
<1> QED BY <1>5, <1>10 DEF BufferInv

LEMMA HeadersArrive ==
    ASSUME DeliveryInv, connected, ~spinning, connState # "MethodLine", wire # <<>>, wire' = Tail(wire),
           ClientUnchanged, Head(wire).type \in {"headers", "continuation", "trailers"},
           ParseHeaders(Head(wire))
    PROVE  DeliveryInv'
<1>1. PICK f \in FrameType, s \in Streams :
          f = Head(wire) /\ s = f.s /\ f.type \in {"headers", "continuation", "trailers"}
  BY HeadKnown DEF StreamFrames
<1>2. f.type \in StreamFrames
  BY <1>1 DEF StreamFrames
<1>3. CASE Closes /\ UNCHANGED <<parser, windowSize, stream, thread, seen>>
  BY <1>3, DeadRead DEF Closes
<1>4. CASE HeaderResult(f, s)
  <2>1. PICK a \in Stage, b \in Stage : /\ AtServer(s, a) /\ Goes(f, req[s], a, b)
                                        /\ b.phase \in Sealed => phase[s] \in Sealed
    BY <1>1, <1>2, HeadStages
  <2>2. run[s] = "none"
    BY <1>1, <2>1 DEF AtServer, Goes
  <2>3. /\ stream \in [Streams -> StreamType \cup {NoStream}] /\ req[s] \in RequestType /\ req' = req
        /\ f.whole \in BOOLEAN /\ f.end \in BOOLEAN /\ run \in [Streams -> Runs]
        /\ req[s].body \in Nat /\ req[s].split \in BOOLEAN /\ req[s].trailers \in BOOLEAN
    BY DEF DeliveryInv, TypesInv, ClientTypes, ServerTypes, ThreadTypes, ClientUnchanged, FrameType,
           RequestType
  <2>4. /\ OpenedBy(f).consumedData = IF stream[s] = NoStream THEN 0 ELSE stream[s].consumedData
        /\ OpenedBy(f).state = IF f.end THEN "half" ELSE IF stream[s] = NoStream THEN "open"
                               ELSE stream[s].state
    BY <1>1, Opened DEF DeliveryInv
  <2>5. /\ stream'[s] # NoStream /\ stream'[s].state = OpenedBy(f).state
        /\ stream'[s].consumedData = OpenedBy(f).consumedData
        /\ \A t \in Streams \ {s} : stream'[t] = stream[t]
        /\ IF f.whole /\ OpenedBy(f).state = "half" THEN QueueStream(s) ELSE UNCHANGED <<socket, thread>>
        /\ ServerTypes' /\ seen' = seen
    BY <1>1, <1>4, InHash, HeadersResult DEF HeaderResult, DeliveryInv
  <2>6. /\ First(s) \in Seq(Int) /\ First(s) \o <<>> = First(s) /\ First(s)' = First(s)
        /\ Sent(s)'.body = req[s].body
        /\ Sent(s)'.block = First(s) \o (IF req[s].trailers THEN <<0>> ELSE <<>>)
    <3>1. First(s) \in Seq(Int)
      BY DEF First, Streams
    <3> QED BY <2>3, <3>1, ConcatEmptySeq DEF First, Sent
  <2>7. ASSUME NEW c \in Stage, NEW d \in Stage, AtServer(s, c), Goes(f, req[s], c, d)
        PROVE  /\ BufferInv'
               /\ d.phase = "end" <=> f.whole /\ OpenedBy(f).state = "half"
               /\ d.phase = "end" => HasAll(s)'
               /\ run'[s] = "none" => AtServer(s, d)'
    <3>1. CASE f.type = "headers"
      <4>1. /\ stream[s] = NoStream /\ d.left = req[s].body
            /\ f.whole = ~req[s].split /\ f.end = EndsHeaders(req[s])
            /\ d.phase = IF req[s].split THEN "block" ELSE AfterBlock(req[s])
        BY <1>1, <2>7, <3>1 DEF AtServer, Goes
      <4>2. BufferInv' /\ stream'[s].block = IF f.whole THEN <<s>> ELSE <<>>
        BY <1>1, <1>4, <3>1, <4>1, FirstFrame
      <4>3. OpenedBy(f).state = (IF EndsHeaders(req[s]) THEN "half" ELSE "open")
            /\ OpenedBy(f).consumedData = 0
        BY <2>3, <2>4, <4>1
      <4>4. d.phase = "end" <=> f.whole /\ OpenedBy(f).state = "half"
        BY <2>3, <4>1, <4>3 DEF AfterBlock
      <4>5. d.phase = "end" => req[s].body = 0 /\ ~req[s].trailers /\ f.whole
        BY <2>3, <4>1 DEF AfterBlock, EndsHeaders
      <4>6. f.whole => stream'[s].block = First(s)
        BY <2>3, <4>1, <4>2 DEF First
      <4>7. d.phase = "end" => HasAll(s)'
        BY <2>5, <2>6, <4>3, <4>5, <4>6 DEF HasAll
      <4>8. run'[s] = "none" => AtServer(s, d)'
        <5>1. req[s].body - req[s].body = 0
          BY <2>3
        <5> QED BY <2>3, <2>5, <2>6, <4>1, <4>2, <4>3, <4>6, <5>1 DEF AtServer, AfterBlock
      <4> QED BY <4>2, <4>4, <4>7, <4>8
    <3>2. CASE f.type = "continuation"
      <4>1. /\ stream[s] # NoStream /\ d.left = req[s].body /\ req[s].split /\ f.whole /\ ~f.end
            /\ stream[s].block = <<>> /\ stream[s].consumedData = 0
            /\ stream[s].state = (IF EndsHeaders(req[s]) THEN "half" ELSE "open")
            /\ d.phase = AfterBlock(req[s])
        BY <1>1, <2>7, <3>2 DEF AtServer, Goes
      <4>2. BufferInv' /\ stream'[s].block = First(s)
        BY <1>1, <1>4, <3>2, <4>1, SecondFrame DEF First
      <4>3. OpenedBy(f).state = (IF EndsHeaders(req[s]) THEN "half" ELSE "open")
            /\ OpenedBy(f).consumedData = 0
        BY <2>3, <2>4, <4>1
      <4>4. d.phase = "end" <=> f.whole /\ OpenedBy(f).state = "half"
        BY <4>1, <4>3 DEF AfterBlock
      <4>5. d.phase = "end" => req[s].body = 0 /\ ~req[s].trailers
        BY <2>3, <4>1 DEF AfterBlock, EndsHeaders
      <4>6. d.phase = "end" => HasAll(s)'
        BY <2>5, <2>6, <4>2, <4>3, <4>5 DEF HasAll
      <4>7. run'[s] = "none" => AtServer(s, d)'
        <5>1. req[s].body - req[s].body = 0
          BY <2>3
        <5> QED BY <2>3, <2>5, <2>6, <4>1, <4>2, <4>3, <5>1 DEF AtServer, AfterBlock
      <4> QED BY <4>2, <4>4, <4>6, <4>7
    <3>3. CASE f.type = "trailers"
      <4>1. /\ stream[s] # NoStream /\ c.left = 0 /\ req[s].trailers /\ f.whole /\ f.end
            /\ stream[s].block = First(s) /\ stream[s].consumedData = req[s].body - c.left
            /\ d.phase = "end"
        BY <1>1, <2>7, <3>3 DEF AtServer, Goes
      <4>2. BufferInv' /\ stream'[s].block = First(s) \o <<0>>
        BY <1>1, <1>4, <3>3, <4>1, LastFrame
      <4>3. OpenedBy(f).state = "half" /\ OpenedBy(f).consumedData = req[s].body
        BY <2>3, <2>4, <4>1
      <4>4. HasAll(s)'
        BY <2>5, <2>6, <4>1, <4>2, <4>3 DEF HasAll
      <4> QED BY <4>1, <4>2, <4>3, <4>4 DEF AtServer
    <3> QED BY <1>1, <3>1, <3>2, <3>3
  <2>8. (QueueStream(s) /\ HasAll(s)' /\ phase[s] \in Sealed) \/ UNCHANGED <<socket, thread>>
    BY <2>1, <2>5, <2>7 DEF Sealed
  <2>9. ASSUME NEW c \in Stage, NEW d \in Stage, AtServer(s, c), Goes(f, req[s], c, d)
        PROVE  AtServer(s, d)'
    <3>1. CASE f.whole /\ OpenedBy(f).state = "half"
      BY <2>7, <2>9, <3>1 DEF AtServer
    <3>2. CASE ~(f.whole /\ OpenedBy(f).state = "half")
      <4>1. run'[s] = "none"
        BY <2>2, <2>5, <3>2 DEF thread
      <4> QED BY <2>7, <2>9, <4>1
    <3> QED BY <3>1, <3>2
  <2>10. BufferInv'
    BY <2>1, <2>7
  <2> QED BY <1>1, <1>2, <2>2, <2>5, <2>8, <2>9, <2>10, RequestRead
<1> QED BY <1>1, <1>3, <1>4, HeadersResult DEF DeliveryInv

LEMMA ResetArrives ==
    ASSUME DeliveryInv, connected, ~spinning, connState # "MethodLine", wire # <<>>, wire' = Tail(wire),
           ClientUnchanged, Head(wire).type = "reset", ParseRstStream(Head(wire))
    PROVE  DeliveryInv'
<1>1. PICK f \in FrameType, s \in Streams : f = Head(wire) /\ s = f.s /\ f.type = "reset"
  BY HeadKnown DEF StreamFrames
<1>2. CASE GoAway /\ UNCHANGED seen
  BY <1>2, DeadRead DEF GoAway, Closes
<1>3. CASE ~(GoAway /\ UNCHANGED seen)
  <2>1. PICK h : h = [stream[s] EXCEPT !.state = "closed"]
    OBVIOUS
  <2>2. /\ stream[s] # NoStream /\ stream' = [stream EXCEPT ![s] = h]
        /\ UNCHANGED <<socket, thread>> /\ UNCHANGED <<parser, windowSize, seen>>
    BY <1>1, <1>3, <2>1 DEF ParseRstStream
  <2>3. stream \in [Streams -> StreamType \cup {NoStream}]
    BY DEF DeliveryInv, TypesInv, ServerTypes
  <2>4. stream[s] \in StreamType
    BY <2>2, <2>3
  <2>5. /\ h \in StreamType /\ h.block = stream[s].block /\ h.consumedData = stream[s].consumedData
    BY <2>1, <2>4 DEF StreamType
  <2>6. /\ stream'[s] = h /\ h # NoStream /\ \A t \in Streams \ {s} : stream'[t] = stream[t]
    BY <2>2, <2>3, <2>5, InHash
  <2>7. ServerTypes' /\ ThreadTypes' /\ QueuedInv'
    BY <2>2, <2>3, <2>5 DEF DeliveryInv, TypesInv, ServerTypes, ThreadTypes, QueuedInv, ClientUnchanged,
                            parser, settings, thread
  <2>8. UNCHANGED <<seen, streamForContinuation, headersBuffer, run>>
    BY <2>2 DEF parser, thread
  <2>9. \A t \in Streams : Keeps(t)
    BY <2>2, <2>5, <2>6, <2>8 DEF Keeps
  <2> QED BY <1>1, <2>6, <2>7, <2>8, <2>9, QuietRead
<1> QED BY <1>2, <1>3

\* The windows are opened, and the requests keep what they have.
LEMMA OpensArrive ==
    ASSUME DeliveryInv, connected, ~spinning, wire # <<>>, wire' = Tail(wire), ClientUnchanged,
           Head(wire).type \notin StreamFrames, NEW window \in Int,
           NEW streams \in [Streams -> StreamType \cup {NoStream}], Opens(window, streams),
           UNCHANGED <<maxStreamId, streamForContinuation, headersBuffer>>,
           settingsInitialWindowSize' \in Int, settingsMaxFrameSize' \in Int,
           \A t \in Streams : /\ streams[t] # NoStream <=> stream[t] # NoStream
                              /\ stream[t] # NoStream => /\ streams[t].block = stream[t].block
                                                         /\ streams[t].consumedData = stream[t].consumedData
                                                         /\ streams[t].state = stream[t].state
    PROVE  DeliveryInv'
<1>1. /\ ThreadTypes' /\ QueuedInv' /\ stream' = streams /\ windowSize' = window
      /\ \A t \in Streams : run'[t] = run[t] \/ (run[t] = "waiting" /\ run'[t] = "woken")
  BY WindowsOpen DEF DeliveryInv
<1>2. ServerTypes' /\ seen' = seen
  BY <1>1 DEF DeliveryInv, TypesInv, ServerTypes, Opens
<1>3. \A t \in Streams : Keeps(t)
  BY <1>1 DEF Keeps
<1> QED BY <1>1, <1>2, <1>3, QuietRead

LEMMA UpdateArrives ==
    ASSUME DeliveryInv, connected, ~spinning, connState # "MethodLine", wire # <<>>, wire' = Tail(wire),
           ClientUnchanged, Head(wire).type = "update", ParseWindowUpdate(Head(wire))
    PROVE  DeliveryInv'
<1>1. PICK f \in FrameType : f = Head(wire) /\ f.type = "update" /\ f.type \notin StreamFrames
  BY HeadKnown DEF StreamFrames
<1>2. /\ stream \in [Streams -> StreamType \cup {NoStream}] /\ windowSize \in Int /\ f.n \in Int
      /\ f.s \in Streams \cup {0}
      /\ settingsInitialWindowSize \in Int /\ settingsMaxFrameSize \in Int
  BY DEF DeliveryInv, TypesInv, ServerTypes, FrameType
<1>3. CASE GoAway /\ UNCHANGED seen
  BY <1>3, DeadRead DEF GoAway, Closes
<1>4. CASE f.s = 0 /\ ~(GoAway /\ UNCHANGED seen)
  <2>1. Opens(windowSize + f.n, stream) /\ UNCHANGED parser
    BY <1>1, <1>4 DEF ParseWindowUpdate
  <2>2. PICK w \in Int : w = windowSize + f.n
    BY <1>2
  <2> QED BY <1>1, <1>2, <2>1, <2>2, OpensArrive DEF parser, settings
<1>5. CASE f.s # 0 /\ ~(GoAway /\ UNCHANGED seen)
  <2>1. PICK s \in Streams : s = f.s
    BY <1>2, <1>5
  <2>2. stream[s] # NoStream /\ stream[s] \in StreamType
    BY <1>1, <1>2, <1>5, <2>1 DEF ParseWindowUpdate
  <2>3. CASE stream[s].windowSize + f.n > MaxWindow
    <3>1. PICK h : h = [stream[s] EXCEPT !.state = "closed"]
      OBVIOUS
    <3>2. /\ stream' = [stream EXCEPT ![s] = h] /\ Closes
          /\ UNCHANGED <<goaway, parser, windowSize, seen, thread>>
      BY <1>1, <1>5, <2>1, <2>2, <2>3, <3>1 DEF ParseWindowUpdate
    <3>3. h \in StreamType /\ h.block = stream[s].block /\ h.consumedData = stream[s].consumedData
      BY <2>2, <3>1 DEF StreamType
    <3>4. stream'[s] = h /\ h # NoStream /\ \A t \in Streams \ {s} : stream'[t] = stream[t]
      BY <1>2, <3>2, <3>3, InHash
    <3>5. ServerTypes' /\ ThreadTypes' /\ QueuedInv'
      BY <1>2, <3>2, <3>3 DEF DeliveryInv, TypesInv, ServerTypes, ThreadTypes, QueuedInv,
                              ClientUnchanged, parser, settings, thread
    <3>6. UNCHANGED <<seen, streamForContinuation, headersBuffer, run>> /\ ~connected'
      BY <3>2 DEF parser, thread, Closes
    <3>7. \A t \in Streams : Keeps(t)
      BY <2>2, <3>3, <3>4, <3>6 DEF Keeps
    <3> QED BY <3>5, <3>6, <3>7, QuietRead
  <2>4. CASE ~(stream[s].windowSize + f.n > MaxWindow)
    <3>1. PICK w \in Int : w = stream[s].windowSize + f.n
      BY <1>2, <2>2 DEF StreamType
    <3>2. PICK h : h = [stream[s] EXCEPT !.windowSize = w]
      OBVIOUS
    <3>3. PICK streams : streams = [stream EXCEPT ![s] = h]
      OBVIOUS
    <3>4. Opens(windowSize, streams) /\ UNCHANGED parser
      BY <1>1, <1>5, <2>1, <2>2, <2>4, <3>1, <3>2, <3>3 DEF ParseWindowUpdate
    <3>5. /\ h \in StreamType /\ h.block = stream[s].block /\ h.consumedData = stream[s].consumedData
          /\ h.state = stream[s].state
      BY <2>2, <3>2 DEF StreamType
    <3>6. /\ streams \in [Streams -> StreamType \cup {NoStream}]
          /\ streams[s] = h /\ h # NoStream /\ \A t \in Streams \ {s} : streams[t] = stream[t]
      BY <1>2, <3>3, <3>5, InHash
    <3>7. ASSUME NEW t \in Streams
          PROVE  /\ streams[t] # NoStream <=> stream[t] # NoStream
                 /\ stream[t] # NoStream => /\ streams[t].block = stream[t].block
                                            /\ streams[t].consumedData = stream[t].consumedData
                                            /\ streams[t].state = stream[t].state
      BY <2>2, <3>5, <3>6
    <3> QED BY <1>1, <1>2, <3>4, <3>6, <3>7, OpensArrive DEF parser, settings
  <2> QED BY <2>3, <2>4
<1> QED BY <1>3, <1>4, <1>5

LEMMA SettingsArrive ==
    ASSUME DeliveryInv, connected, ~spinning, connState # "MethodLine", wire # <<>>, wire' = Tail(wire),
           ClientUnchanged, Head(wire).type = "settings", ParseSettings(Head(wire))
    PROVE  DeliveryInv'
<1>1. PICK f \in FrameType : f = Head(wire) /\ f.type = "settings" /\ f.type \notin StreamFrames
  BY HeadKnown DEF StreamFrames
<1>2. /\ stream \in [Streams -> StreamType \cup {NoStream}] /\ f.n \in Int /\ f.size \in Int
      /\ windowSize \in Int /\ settingsInitialWindowSize \in Int
  BY DEF DeliveryInv, TypesInv, ServerTypes, FrameType
<1>3. PICK streams : streams = [s \in Streams |->
                 IF stream[s] = NoStream THEN NoStream
                 ELSE [stream[s] EXCEPT !.windowSize = @ + f.n - settingsInitialWindowSize]]
  OBVIOUS
<1>4. /\ Opens(windowSize, streams) /\ settingsInitialWindowSize' = f.n /\ settingsMaxFrameSize' = f.size
      /\ UNCHANGED <<maxStreamId, streamForContinuation, headersBuffer>>
  BY <1>1, <1>3 DEF ParseSettings
<1>5. ASSUME NEW s \in Streams
      PROVE  /\ streams[s] \in StreamType \cup {NoStream}
             /\ streams[s] # NoStream <=> stream[s] # NoStream
             /\ stream[s] # NoStream => /\ streams[s].block = stream[s].block
                                        /\ streams[s].consumedData = stream[s].consumedData
                                        /\ streams[s].state = stream[s].state
  <2>1. CASE stream[s] = NoStream
    BY <1>3, <2>1
  <2>2. CASE stream[s] # NoStream
    <3>1. stream[s] \in StreamType
      BY <1>2, <2>2
    <3>2. PICK w \in Int : w = stream[s].windowSize + f.n - settingsInitialWindowSize
      BY <1>2, <3>1 DEF StreamType
    <3>3. streams[s] = [stream[s] EXCEPT !.windowSize = w]
      BY <1>3, <2>2, <3>2
    <3>4. /\ streams[s] \in StreamType /\ streams[s].state = stream[s].state
          /\ streams[s].block = stream[s].block /\ streams[s].consumedData = stream[s].consumedData
      BY <3>1, <3>3 DEF StreamType
    <3> QED BY <2>2, <3>4, InHash
  <2> QED BY <2>1, <2>2
<1>6. streams \in [Streams -> StreamType \cup {NoStream}]
  <2>1. DOMAIN streams = Streams /\ streams = [s \in Streams |-> streams[s]]
    BY <1>3
  <2> QED BY <1>5, <2>1
<1> QED BY <1>1, <1>2, <1>4, <1>5, <1>6, OpensArrive

LEMMA PrefaceArrives ==
    ASSUME DeliveryInv, connected, ~spinning, wire # <<>>, wire' = Tail(wire), ClientUnchanged,
           ParsePreface(Head(wire))
    PROVE  DeliveryInv'
<1>1. UNCHANGED <<parser, windowSize, stream, seen, thread>>
  BY DEF ParsePreface
<1>2. CASE Head(wire).type = "preface"
  <2>1. ServerTypes' /\ ThreadTypes' /\ QueuedInv'
    BY <1>1 DEF DeliveryInv, TypesInv, ServerTypes, ThreadTypes, QueuedInv, ClientUnchanged, parser,
                settings, thread
  <2>2. UNCHANGED <<seen, streamForContinuation, headersBuffer>> /\ \A t \in Streams : Keeps(t)
    BY <1>1 DEF Keeps, parser, thread
  <2>3. Head(wire).type \notin StreamFrames /\ stream' = stream
    BY <1>1, <1>2 DEF StreamFrames
  <2> QED BY <2>1, <2>2, <2>3, QuietRead
<1>3. CASE Head(wire).type # "preface"
  BY <1>1, <1>3, DeadRead DEF ParsePreface, Closes
<1> QED BY <1>2, <1>3

LEMMA ParseDelivers ==
    ASSUME DeliveryInv, Parse
    PROVE  DeliveryInv'
<1>1. connected /\ ~spinning /\ wire # <<>> /\ wire' = Tail(wire) /\ ClientUnchanged
  BY DEF Parse, InLoop, ClientUnchanged
<1>2. CASE connState = "MethodLine"
  BY <1>1, <1>2, PrefaceArrives DEF Parse
<1>3. CASE connState # "MethodLine"
  <2>1. PICK f \in FrameType : f = Head(wire) /\ f.type \in FrameTypes
    BY <1>1, <1>3, HeadKnown
  <2>2. CASE f.form = "segment"
    <3>1. spinning' /\ UNCHANGED <<parser, windowSize, stream, seen, thread>>
      BY <1>3, <2>1, <2>2 DEF Parse
    <3> QED BY <1>1, <3>1, DeadRead
  <2>3. CASE f.form # "segment" /\ f.type \in {"headers", "continuation", "trailers"}
    BY <1>1, <1>3, <2>1, <2>3, HeadersArrive DEF Parse, HeaderFrames
  <2>4. CASE f.form # "segment" /\ f.type = "data"
    BY <1>1, <1>3, <2>1, <2>4, DataArrives DEF Parse, HeaderFrames
  <2>5. CASE f.form # "segment" /\ f.type = "reset"
    BY <1>1, <1>3, <2>1, <2>5, ResetArrives DEF Parse, HeaderFrames
  <2>6. CASE f.form # "segment" /\ f.type = "update"
    BY <1>1, <1>3, <2>1, <2>6, UpdateArrives DEF Parse, HeaderFrames
  <2>7. CASE f.form # "segment" /\ f.type = "settings"
    BY <1>1, <1>3, <2>1, <2>7, SettingsArrive DEF Parse, HeaderFrames
  <2> QED BY <2>1, <2>2, <2>3, <2>4, <2>5, <2>6, <2>7 DEF FrameTypes
<1> QED BY <1>2, <1>3

----------------------------------------------------------------------------
(* The requests are dispatched and answered.                                *)

\* A step for a stream that is in the queue, or was.
LEMMA ThreadDelivers ==
    ASSUME DeliveryInv, NEW s \in Streams, run[s] # "none", run'[s] # "none",
           UNCHANGED <<wire, req, phase, left, asked, connState, connected, spinning, parser>>,
           \A t \in Streams \ {s} : stream'[t] = stream[t] /\ run'[t] = run[t] /\ seen'[t] = seen[t],
           stream' \in [Streams -> StreamType \cup {NoStream}], windowSize' \in Int,
           ThreadTypes', QueuedInv', AskedInv(s)', DOMAIN seen' = Streams,
           streamCredit' \in [Streams -> Int], connCredit' \in Int
    PROVE  DeliveryInv'
<1>1. TypesInv' /\ KnownFrames' /\ BufferInv'
  BY DEF DeliveryInv, TypesInv, ClientTypes, ServerTypes, KnownFrames, BufferInv, parser, settings, asked
<1>2. ASSUME NEW t \in Streams PROVE AskedInv(t)'
  <2>1. CASE t # s
    <3>1. Sent(t)' = Sent(t) /\ AskedInv(t)
      BY DEF Sent, DeliveryInv
    <3> QED BY <2>1, <3>1 DEF AskedInv, HasAll
  <2> QED BY <2>1
<1>3. ASSUME connected', ~spinning', NEW t \in Streams PROVE Arrives(t)'
  <2>1. PICK v : Stages(t, v)
    BY <1>3 DEF DeliveryInv, Arrives
  <2>2. AtServer(t, v[1])'
    BY <2>1 DEF Stages, AtServer, First
  <2>3. Stages(t, v)'
    BY <2>1, <2>2 DEF Stages, Now
  <2> QED BY <2>3 DEF Arrives
<1> QED BY <1>1, <1>2, <1>3 DEF DeliveryInv

LEMMA ProcessDelivers ==
    ASSUME DeliveryInv, Process
    PROVE  DeliveryInv'
<1>1. /\ queued \in Seq(Streams) /\ queued # <<>> /\ queued' = Tail(queued) /\ queued' \in Seq(Streams)
      /\ run \in [Streams -> Runs] /\ todo \in [Streams -> Seq(Nat)] /\ ended \subseteq Streams
      /\ TypesInv /\ QueuedInv
  BY DEF DeliveryInv, TypesInv, ThreadTypes, Process
<1>2. PICK s \in Streams : s = Head(queued)
  BY <1>1
<1>3. /\ seen' = [seen EXCEPT ![s] = [block |-> stream[s].block, body |-> stream[s].consumedData]]
      /\ \/ \E writes \in Answers : Answer(s, writes)
         \/ run' = [run EXCEPT ![s] = "async"] /\ UNCHANGED <<todo, stack>>
      /\ UNCHANGED <<client, ended, socket, parser, windowSize, stream>>
  BY <1>2 DEF Process
<1>4. /\ todo' \in [Streams -> Seq(Nat)] /\ run' \in [Streams -> Runs] /\ run'[s] \in {"writing", "async"}
      /\ \A t \in Streams \ {s} : run'[t] = run[t]
  <2>1. CASE \E writes \in Answers : Answer(s, writes)
    BY <1>1, <2>1, AnswerTypes
  <2>2. CASE run' = [run EXCEPT ![s] = "async"] /\ UNCHANGED <<todo, stack>>
    BY <1>1, <2>2 DEF Runs
  <2> QED BY <1>3, <2>1, <2>2
<1>5. run[s] = "queued" /\ QueuedInv'
  BY <1>1, <1>2, <1>4, Dequeued
<1>6. HasAll(s) /\ phase[s] \in Sealed
  BY <1>5 DEF DeliveryInv, AskedInv
<1>7. DOMAIN seen = Streams
  BY DEF DeliveryInv
<1>8. /\ DOMAIN seen' = Streams /\ seen'[s] = [block |-> Sent(s).block, body |-> Sent(s).body]
      /\ \A t \in Streams \ {s} : seen'[t] = seen[t]
  BY <1>3, <1>6, <1>7 DEF HasAll
<1>9. /\ UNCHANGED <<wire, req, phase, left, asked, connState, connected, spinning, parser, stream>>
      /\ UNCHANGED <<windowSize, streamCredit, connCredit>>
  BY <1>3 DEF client, socket
<1>10. AskedInv(s)'
  <2>1. seen'[s] = Sent(s) /\ Sent(s)' = Sent(s)
    BY <1>8, <1>9 DEF Sent
  <2> QED BY <1>4, <1>6, <1>9, <2>1 DEF AskedInv, HasAll
<1>11. ThreadTypes'
  BY <1>1, <1>3, <1>4 DEF ThreadTypes
<1>12. /\ stream \in [Streams -> StreamType \cup {NoStream}] /\ windowSize \in Int
       /\ streamCredit \in [Streams -> Int] /\ connCredit \in Int
  BY DEF DeliveryInv, TypesInv, ClientTypes, ServerTypes
<1> QED BY <1>4, <1>5, <1>8, <1>9, <1>10, <1>11, <1>12, ThreadDelivers

\* A step of an answer: its request was seen.
LEMMA AnswerDelivers ==
    ASSUME DeliveryInv, NEW s \in Streams, run[s] \notin {"none", "queued"},
           run' \in [Streams -> Runs], run'[s] \notin {"none", "queued"},
           run'[s] # "done" => stream'[s] # NoStream,
           UNCHANGED <<wire, req, phase, left, asked, connState, connected, spinning, parser, seen, queued>>,
           \A t \in Streams \ {s} : stream'[t] = stream[t] /\ run'[t] = run[t],
           stream' \in [Streams -> StreamType \cup {NoStream}], windowSize' \in Int,
           todo' \in [Streams -> Seq(Nat)], ended' \subseteq Streams,
           streamCredit' \in [Streams -> Int], connCredit' \in Int
    PROVE  DeliveryInv'
<1>1. TypesInv /\ QueuedInv /\ AskedInv(s) /\ queued \in Seq(Streams) /\ DOMAIN seen = Streams
  BY DEF DeliveryInv, TypesInv, ThreadTypes
<1>2. QueuedInv' /\ ThreadTypes'
  BY <1>1, QueueKept DEF ThreadTypes
<1>3. AskedInv(s)'
  <2>1. Sent(s)' = Sent(s)
    BY DEF Sent
  <2> QED BY <1>1, <2>1 DEF AskedInv
<1> QED BY <1>1, <1>2, <1>3, ThreadDelivers

LEMMA CompleteDelivers ==
    ASSUME DeliveryInv, NEW s \in Streams, Complete(s)
    PROVE  DeliveryInv'
<1>1. /\ UNCHANGED <<client, ended, socket, parser, windowSize, stream, seen, queued>>
      /\ run[s] = "async" /\ stream[s] # NoStream
  BY DEF Complete, DeliveryInv, AskedInv
<1>2. /\ todo' \in [Streams -> Seq(Nat)] /\ run' \in [Streams -> Runs] /\ run'[s] = "writing"
      /\ \A t \in Streams \ {s} : run'[t] = run[t]
  BY AnswerTypes DEF Complete, DeliveryInv
<1>3. /\ stream \in [Streams -> StreamType \cup {NoStream}] /\ windowSize \in Int
      /\ streamCredit \in [Streams -> Int] /\ connCredit \in Int /\ ended \subseteq Streams
  BY DEF DeliveryInv, TypesInv, ClientTypes, ServerTypes, ThreadTypes
<1>4. /\ UNCHANGED <<wire, req, phase, left, asked, connState, connected, spinning, parser, seen, queued>>
      /\ UNCHANGED <<stream, windowSize, streamCredit, connCredit, ended>>
  BY <1>1 DEF client, socket
<1> QED BY <1>1, <1>2, <1>3, <1>4, AnswerDelivers

LEMMA WaitDelivers ==
    ASSUME DeliveryInv, NEW s \in Streams, WaitForWindow(s)
    PROVE  DeliveryInv'
<1>1. /\ UNCHANGED <<client, ended, socket, parser, windowSize, stream, seen, queued, todo, stack>>
      /\ run[s] \in {"writing", "woken"} /\ run' = [run EXCEPT ![s] = "waiting"]
  BY DEF WaitForWindow, Innermost
<1>2. /\ stream \in [Streams -> StreamType \cup {NoStream}] /\ windowSize \in Int
      /\ streamCredit \in [Streams -> Int] /\ connCredit \in Int /\ ended \subseteq Streams
      /\ run \in [Streams -> Runs] /\ todo \in [Streams -> Seq(Nat)]
  BY DEF DeliveryInv, TypesInv, ClientTypes, ServerTypes, ThreadTypes
<1>3. stream[s] # NoStream
  BY <1>1 DEF DeliveryInv, AskedInv
<1>4. /\ run' \in [Streams -> Runs] /\ run'[s] = "waiting"
      /\ \A t \in Streams \ {s} : run'[t] = run[t]
  BY <1>1, <1>2 DEF Runs
<1>5. /\ UNCHANGED <<wire, req, phase, left, asked, connState, connected, spinning, parser, seen, queued>>
      /\ UNCHANGED <<stream, windowSize, streamCredit, connCredit, ended, todo>>
  BY <1>1 DEF client, socket
<1> QED BY <1>1, <1>2, <1>3, <1>4, <1>5, AnswerDelivers

\* What a frame of an answer changes of the client.
LEMMA FrameTaken ==
    ASSUME DeliveryInv, NEW s \in Streams, NEW n \in Int, NEW end \in BOOLEAN, SendFrame(s, n, end)
    PROVE  streamCredit' \in [Streams -> Int] /\ connCredit' \in Int /\ ended' \subseteq Streams
<1>1. streamCredit \in [Streams -> Int] /\ connCredit \in Int /\ ended \subseteq Streams
  BY DEF DeliveryInv, TypesInv, ClientTypes, ThreadTypes
<1> QED BY <1>1 DEF SendFrame

LEMMA WriteLastDelivers ==
    ASSUME DeliveryInv, NEW s \in Streams, WriteLast(s)
    PROVE  DeliveryInv'
<1>1. /\ UNCHANGED <<wire, req, phase, left, asked, socket, parser, windowSize, stream, seen, queued>>
      /\ run[s] \in {"writing", "woken"} /\ run' = [run EXCEPT ![s] = "writing"] /\ todo[s] # <<>>
      /\ todo' = [todo EXCEPT ![s] = AfterWrite(s)] /\ SendFrame(s, Head(todo[s]), TRUE)
  BY DEF WriteLast, Innermost
<1>2. /\ stream \in [Streams -> StreamType \cup {NoStream}] /\ windowSize \in Int
      /\ run \in [Streams -> Runs] /\ todo \in [Streams -> Seq(Nat)]
  BY DEF DeliveryInv, TypesInv, ServerTypes, ThreadTypes
<1>3. todo[s] \in Seq(Nat) /\ Head(todo[s]) \in Int /\ AfterWrite(s) \in Seq(Nat)
  <2>1. PICK q \in Seq(Nat) : q = todo[s]
    BY <1>2
  <2>2. Head(q) \in Nat /\ Tail(q) \in Seq(Nat)
    BY <1>1, <2>1
  <2>3. <<>> \in Seq(Nat)
    OBVIOUS
  <2> QED BY <2>1, <2>2, <2>3 DEF AfterWrite
<1>4. /\ run' \in [Streams -> Runs] /\ run'[s] = "writing" /\ todo' \in [Streams -> Seq(Nat)]
      /\ \A t \in Streams \ {s} : run'[t] = run[t]
  BY <1>1, <1>2, <1>3 DEF Runs
<1>5. streamCredit' \in [Streams -> Int] /\ connCredit' \in Int /\ ended' \subseteq Streams
  BY <1>1, <1>3, FrameTaken
<1>6. stream[s] # NoStream
  BY <1>1 DEF DeliveryInv, AskedInv
<1> QED BY <1>1, <1>2, <1>4, <1>5, <1>6, AnswerDelivers DEF socket

LEMMA WriteDelivers ==
    ASSUME DeliveryInv, NEW s \in Streams, Write(s)
    PROVE  DeliveryInv'
<1>1. PICK k : k = Available(s)
  OBVIOUS
<1>2. /\ UNCHANGED <<wire, req, phase, left, asked, socket, parser, seen, queued>>
      /\ run[s] \in {"writing", "woken"} /\ run' = [run EXCEPT ![s] = "writing"] /\ todo[s] # <<>>
      /\ k <= Head(todo[s]) /\ SendFrame(s, k, FALSE) /\ windowSize' = windowSize - k
      /\ stream' = [stream EXCEPT ![s].windowSize = @ - k]
      /\ todo' = [todo EXCEPT ![s] = IF Head(@) = k THEN AfterWrite(s) ELSE <<Head(@) - k>> \o Tail(@)]
  BY <1>1 DEF Write, Innermost
<1>3. /\ stream \in [Streams -> StreamType \cup {NoStream}] /\ windowSize \in Int
      /\ settingsMaxFrameSize \in Int /\ run \in [Streams -> Runs] /\ todo \in [Streams -> Seq(Nat)]
  BY DEF DeliveryInv, TypesInv, ServerTypes, ThreadTypes
<1>4. stream[s] \in StreamType /\ stream[s].windowSize \in Int
  BY <1>2, <1>3 DEF DeliveryInv, AskedInv, StreamType
<1>5. k \in Int
  BY <1>1, <1>3, <1>4, LeastOfThree DEF Available
<1>6. PICK q \in Seq(Nat) : q = todo[s]
  BY <1>3
<1>7. Head(q) \in Nat /\ Tail(q) \in Seq(Nat) /\ AfterWrite(s) \in Seq(Nat)
  <2>1. Head(q) \in Nat /\ Tail(q) \in Seq(Nat)
    BY <1>2, <1>6
  <2>2. <<>> \in Seq(Nat)
    OBVIOUS
  <2> QED BY <1>6, <2>1, <2>2 DEF AfterWrite
<1>8. PICK rest \in Seq(Nat) : rest = IF Head(q) = k THEN AfterWrite(s) ELSE <<Head(q) - k>> \o Tail(q)
  <2>1. CASE Head(q) = k
    BY <1>7, <2>1
  <2>2. CASE Head(q) # k
    <3>1. PICK d \in Nat : d = Head(q) - k
      BY <1>2, <1>5, <1>6, <1>7
    <3>2. <<d>> \o Tail(q) \in Seq(Nat)
      BY <1>7
    <3> QED BY <2>2, <3>1, <3>2
  <2> QED BY <2>1, <2>2
<1>9. /\ run' \in [Streams -> Runs] /\ run'[s] = "writing"
      /\ \A t \in Streams \ {s} : run'[t] = run[t]
  BY <1>2, <1>3 DEF Runs
<1>10. todo' \in [Streams -> Seq(Nat)]
  <2>1. todo' = [todo EXCEPT ![s] = rest]
    BY <1>2, <1>3, <1>6, <1>8
  <2> QED BY <1>3, <2>1
<1>11. PICK h : h = [stream[s] EXCEPT !.windowSize = @ - k]
  OBVIOUS
<1>12. h \in StreamType
  <2>1. stream[s].windowSize - k \in Int
    BY <1>4, <1>5
  <2> QED BY <1>4, <1>11, <2>1 DEF StreamType
<1>13. /\ stream' \in [Streams -> StreamType \cup {NoStream}] /\ stream'[s] # NoStream
       /\ \A t \in Streams \ {s} : stream'[t] = stream[t]
  <2>1. stream' = [stream EXCEPT ![s] = h]
    BY <1>2, <1>11
  <2> QED BY <1>3, <1>12, <2>1, InHash
<1>14. streamCredit' \in [Streams -> Int] /\ connCredit' \in Int /\ ended' \subseteq Streams
  BY <1>2, <1>5, FrameTaken
<1>15. windowSize' \in Int
  BY <1>2, <1>3, <1>5
<1> QED BY <1>2, <1>9, <1>10, <1>13, <1>14, <1>15, AnswerDelivers DEF socket

LEMMA FinishDelivers ==
    ASSUME DeliveryInv, NEW s \in Streams, Finish(s)
    PROVE  DeliveryInv'
<1>1. /\ UNCHANGED <<client, ended, connState, connected, spinning, goaway, parser, windowSize, seen, queued>>
      /\ run[s] \in {"writing", "woken"} /\ run' = [run EXCEPT ![s] = "done"]
      /\ todo' = [todo EXCEPT ![s] = <<>>] /\ stream' = [stream EXCEPT ![s] = NoStream]
  BY DEF Finish, Innermost
<1>2. /\ stream \in [Streams -> StreamType \cup {NoStream}] /\ windowSize \in Int
      /\ streamCredit \in [Streams -> Int] /\ connCredit \in Int /\ ended \subseteq Streams
      /\ run \in [Streams -> Runs] /\ todo \in [Streams -> Seq(Nat)] /\ <<>> \in Seq(Nat)
  BY DEF DeliveryInv, TypesInv, ClientTypes, ServerTypes, ThreadTypes
<1>3. /\ run' \in [Streams -> Runs] /\ run'[s] = "done" /\ todo' \in [Streams -> Seq(Nat)]
      /\ stream' \in [Streams -> StreamType \cup {NoStream}]
      /\ \A t \in Streams \ {s} : run'[t] = run[t] /\ stream'[t] = stream[t]
  BY <1>1, <1>2 DEF Runs
<1>4. /\ UNCHANGED <<wire, req, phase, left, asked, connState, connected, spinning, parser, seen, queued>>
      /\ UNCHANGED <<windowSize, streamCredit, connCredit, ended>>
  BY <1>1 DEF client
<1> QED BY <1>1, <1>2, <1>3, <1>4, AnswerDelivers

LEMMA DisconnectDelivers ==
    ASSUME DeliveryInv, Disconnect
    PROVE  DeliveryInv'
<1>1. /\ ~connected' /\ connState' = connState
      /\ UNCHANGED <<client, ended, parser, windowSize, stream, seen, thread>>
  BY DEF Disconnect, Closes
<1>2. TypesInv' /\ KnownFrames' /\ QueuedInv' /\ BufferInv' /\ DOMAIN seen' = Streams
  BY <1>1 DEF DeliveryInv, TypesInv, ClientTypes, ServerTypes, ThreadTypes, KnownFrames, QueuedInv,
              BufferInv, client, asked, parser, settings, thread
<1>3. \A s \in Streams : AskedInv(s)'
  BY <1>1 DEF DeliveryInv, AskedInv, HasAll, Sent, client, thread
<1> QED BY <1>1, <1>2, <1>3 DEF DeliveryInv

LEMMA StutterDelivers ==
    ASSUME DeliveryInv, UNCHANGED vars
    PROVE  DeliveryInv'
<1>1. /\ UNCHANGED <<wire, req, phase, left, streamCredit, clientInitial, connCredit>>
      /\ UNCHANGED <<stream, settingsInitialWindowSize, settingsMaxFrameSize, windowSize, seen>>
      /\ UNCHANGED <<headersBuffer, streamForContinuation, run, todo, queued, ended>>
      /\ UNCHANGED <<connState, connected, spinning>>
  BY DEF vars, client, asked, socket, parser, settings, thread
<1>2. TypesInv' /\ KnownFrames' /\ QueuedInv' /\ BufferInv' /\ DOMAIN seen' = Streams
  BY <1>1 DEF DeliveryInv, TypesInv, ClientTypes, ServerTypes, ThreadTypes, KnownFrames, QueuedInv,
              BufferInv
<1>3. \A s \in Streams : AskedInv(s)'
  BY <1>1 DEF DeliveryInv, AskedInv, HasAll, Sent
<1>4. ASSUME NEW s \in Streams, Arrives(s) PROVE Arrives(s)'
  <2>1. PICK v : Stages(s, v)
    BY <1>4 DEF Arrives
  <2>2. AtServer(s, v[1])'
    BY <1>1, <2>1 DEF Stages, AtServer, First
  <2>3. Stages(s, v)'
    BY <1>1, <2>1, <2>2 DEF Stages, Now
  <2> QED BY <2>3 DEF Arrives
<1> QED BY <1>1, <1>2, <1>3, <1>4 DEF DeliveryInv

----------------------------------------------------------------------------
LEMMA InitDelivery == Init => DeliveryInv
<1> SUFFICES ASSUME Init PROVE DeliveryInv
  OBVIOUS
<1>1. TypesInv /\ QueuedInv /\ KnownFrames
  <2>1. TypesInv /\ QueuedInv /\ WireInv
    BY InitWindow DEF WindowInv
  <2>2. wire \in Seq(FrameType) /\ \A i \in DOMAIN wire : wire[i].form # "pads"
    BY <2>1 DEF Init, Frame, TypesInv, ClientTypes
  <2> QED BY <2>1, <2>2 DEF WireInv, KnownFrames
<1>2. PICK upgraded \in BOOLEAN, start \in {"preface", "other"} :
        /\ wire = <<Frame(start, 0)>>
        /\ req = [s \in Streams |-> NoRequest]
        /\ phase = [s \in Streams |-> IF upgraded /\ s = 1 THEN "end" ELSE "idle"]
        /\ left = [s \in Streams |-> 0]
        /\ streamForContinuation = 0 /\ headersBuffer = <<>>
        /\ stream = [s \in Streams |->
                        IF upgraded /\ s = 1
                        THEN [state |-> "half", windowSize |-> DefaultWindow, block |-> <<1>>,
                              consumedData |-> 0, contentLength |-> -1]
                        ELSE NoStream]
        /\ seen = [s \in Streams |-> NotSeen]
        /\ run = [s \in Streams |-> IF upgraded /\ s = 1 THEN "queued" ELSE "none"]
  BY DEF Init
<1>3. BufferInv /\ DOMAIN seen = Streams
  BY <1>2 DEF BufferInv
<1>4. PICK h : h = [state |-> "half", windowSize |-> DefaultWindow, block |-> <<1>>,
                    consumedData |-> 0, contentLength |-> -1]
  OBVIOUS
<1>5. h # NoStream /\ h.block = <<1>> /\ h.consumedData = 0
  <2>1. h.windowSize = DefaultWindow /\ h.state = "half" /\ NoStream.state = "none"
    BY <1>4 DEF NoStream
  <2>2. h.state # NoStream.state
    BY <2>1
  <2> QED BY <1>4, <2>2
<1>6. stream = [s \in Streams |-> IF upgraded /\ s = 1 THEN h ELSE NoStream]
  BY <1>2, <1>4
<1>7. ASSUME NEW s \in Streams PROVE AskedInv(s)
  <2>1. Sent(s) = [block |-> <<s>>, body |-> 0]
    <3>1. <<s>> \o <<>> = <<s>>
      OBVIOUS
    <3> QED BY <1>2, <3>1 DEF Sent, NoRequest
  <2>2. CASE upgraded /\ s = 1
    <3>1. stream[s] = h /\ run[s] = "queued" /\ phase[s] = "end"
      BY <1>2, <1>6, <2>2
    <3> QED BY <1>5, <2>1, <2>2, <3>1 DEF AskedInv, HasAll, Sealed
  <2>3. CASE ~(upgraded /\ s = 1)
    BY <1>2, <2>3 DEF AskedInv
  <2> QED BY <2>2, <2>3
<1>8. ASSUME NEW s \in Streams PROVE Arrives(s)
  <2>1. PICK a : a = Now(s)
    OBVIOUS
  <2>2. PICK v : v = [i \in 1 .. 2 |-> a]
    OBVIOUS
  <2>3. a \in Stage /\ a.phase = IF upgraded /\ s = 1 THEN "end" ELSE "idle"
    BY <1>2, <2>1 DEF Stage, Now, Phases
  <2>4. v \in [1 .. 2 -> Stage] /\ v[1] = a /\ v[2] = a
    BY <2>2, <2>3
  <2>5. AtServer(s, a)
    BY <1>2, <1>6, <2>3 DEF AtServer
  <2>6. Len(wire) = 1 /\ wire[1].type \notin StreamFrames
    BY <1>2 DEF Frame, StreamFrames
  <2>7. Advances(wire[1], s, req[s], a, a)
    BY <2>6 DEF Advances
  <2>8. Rank(a.phase) <= Rank(a.phase)
    BY DEF Rank
  <2>9. \A i \in 1 .. 2 : v[i] = a
    BY <2>2
  <2>10. \A i \in 1 .. Len(wire) : Advances(wire[i], s, req[s], v[i], v[i + 1])
    BY <2>4, <2>6, <2>7
  <2>11. v[Len(wire) + 1] = Now(s) /\ v \in [1 .. Len(wire) + 1 -> Stage]
    BY <2>1, <2>4, <2>6
  <2>12. \A i, j \in 1 .. Len(wire) + 1 : i <= j => Rank(v[i].phase) <= Rank(v[j].phase)
    BY <2>6, <2>8, <2>9
  <2>13. Stages(s, v)
    BY <2>4, <2>5, <2>10, <2>11, <2>12 DEF Stages
  <2> QED BY <2>13 DEF Arrives
<1> QED BY <1>1, <1>3, <1>7, <1>8 DEF DeliveryInv

LEMMA DeliveryStep ==
    ASSUME NoPadding, DeliveryInv, [Next]_vars
    PROVE  DeliveryInv'
<1>1. ASSUME NEW s \in Streams,
             \/ SendHeaders(s) \/ SendContinuation(s) \/ SendData(s) \/ SendTrailers(s)
             \/ SendReset(s) \/ SendUpdate(s)
      PROVE  DeliveryInv'
  BY <1>1, HeadersDelivered, ContinuationDelivered, DataDelivered, TrailersDelivered,
     ResetDelivered, WindowsDelivered
<1>2. CASE SendConnUpdate \/ \E w \in Windows, size \in FrameSizes : SendSettings(w, size)
  BY <1>2, WindowsDelivered
<1>3. CASE Disconnect
  BY <1>3, DisconnectDelivers
<1>4. CASE Parse
  BY <1>4, ParseDelivers
<1>5. CASE Process
  BY <1>5, ProcessDelivers
<1>6. ASSUME NEW s \in Streams,
             Complete(s) \/ WaitForWindow(s) \/ WriteLast(s) \/ Write(s) \/ Finish(s)
      PROVE  DeliveryInv'
  BY <1>6, CompleteDelivers, WaitDelivers, WriteLastDelivers, WriteDelivers, FinishDelivers
<1>7. CASE UNCHANGED vars
  BY <1>7, StutterDelivers
<1> QED BY <1>1, <1>2, <1>3, <1>4, <1>5, <1>6, <1>7 DEF Next, Client

\* The application gets a request when its stream has ended, and not before, with
\* all of its headers and of its body, whatever was sent on other streams meanwhile
\* (protocolhttp2.cpp:376-384,463-508).  It is asked of the client that it pads no
\* data, as the byte before the padding would be taken for a part of the body
\* (:372-374).  A second block after one in two frames, a large frame of headers and
\* a segment that ends within a frame may stop the connection, but no request is
\* dispatched with less than was sent.
THEOREM DispatchesWhatWasSent ==
    ASSUME NoPadding
    PROVE  Spec => []DispatchedAsSent
<1>1. DeliveryInv /\ [Next]_vars => DeliveryInv'
  BY DeliveryStep
<1>2. DeliveryInv => DispatchedAsSent
  BY DEF DeliveryInv, AskedInv, DispatchedAsSent, Sealed
<1> QED BY <1>1, <1>2, InitDelivery, PTL DEF Spec
=============================================================================
