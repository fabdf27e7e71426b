--------------------------- MODULE Engines_proofs ---------------------------
(***************************************************************************)
(* For any engines, listeners and sockets: a server says it is ready once, *)
(* when all of its engines have started; the timer of idle connections     *)
(* runs while there are any; and a shutdown waits for all connections.     *)
(***************************************************************************)
EXTENDS EngineProperties, FiniteSetTheorems, SequenceTheorems, TLAPS

----------------------------------------------------------------------------
(* Queues of events.                                                        *)

WaitingIn(s) == {e \in EngineSet : \E i \in DOMAIN s : s[i] = <<"started", e>>}
UniqueIn(s)  == \A i, j \in DOMAIN s : s[i] = s[j] /\ s[i][1] = "started" => i = j
ForkFirst(s) == \A i \in DOMAIN s : s[i][1] = "postFork" => i = 1
HasFork(s)   == \E i \in DOMAIN s : s[i][1] = "postFork"

LEMMA EventTypes ==
    \A e \in EngineSet, n \in {"postFork", "shutdown", "started", "completed", "finished"} :
        <<n, e>> \in Event
BY DEF Event

LEMMA AppendEvent ==
    ASSUME NEW s \in Seq(Event), NEW x \in Event, x[1] \notin {"started", "postFork"}
    PROVE  /\ Append(s, x) \in Seq(Event)
           /\ WaitingIn(Append(s, x)) = WaitingIn(s)
           /\ UniqueIn(s) => UniqueIn(Append(s, x))
           /\ ForkFirst(s) => ForkFirst(Append(s, x))
           /\ HasFork(Append(s, x)) => HasFork(s)
<1> DEFINE t == Append(s, x)
<1>1. /\ t \in Seq(Event) /\ Len(t) = Len(s) + 1 /\ t[Len(s) + 1] = x
      /\ \A i \in 1 .. Len(s) : t[i] = s[i]
  OBVIOUS
<1>2. /\ DOMAIN s = 1 .. Len(s) /\ DOMAIN t = 1 .. Len(s) + 1 /\ Len(s) \in Nat
  BY <1>1
<1> HIDE DEF t
<1>3. \A i \in DOMAIN t : (i \in DOMAIN s /\ t[i] = s[i]) \/ (i = Len(s) + 1 /\ t[i] = x)
  BY <1>1, <1>2
<1>4. \A i \in DOMAIN s : i \in DOMAIN t /\ t[i] = s[i]
  BY <1>1, <1>2
<1>5. WaitingIn(t) = WaitingIn(s)
  BY <1>3, <1>4 DEF WaitingIn
<1>6. UniqueIn(s) => UniqueIn(t)
  BY <1>3 DEF UniqueIn
<1>7. ForkFirst(s) => ForkFirst(t)
  BY <1>3 DEF ForkFirst
<1>8. HasFork(t) => HasFork(s)
  BY <1>3 DEF HasFork
<1> QED BY <1>1, <1>5, <1>6, <1>7, <1>8 DEF t

LEMMA AppendStarted ==
    ASSUME NEW s \in Seq(Event), NEW e \in EngineSet, e \notin WaitingIn(s), UniqueIn(s), ForkFirst(s)
    PROVE  LET t == Append(s, <<"started", e>>) IN
           /\ t \in Seq(Event) /\ WaitingIn(t) = WaitingIn(s) \cup {e}
           /\ UniqueIn(t) /\ ForkFirst(t) /\ (HasFork(t) => HasFork(s))
<1> DEFINE x == <<"started", e>>
<1> DEFINE t == Append(s, x)
<1>0. x \in Event /\ x[1] = "started" /\ x[2] = e
  BY EventTypes
<1>1. /\ t \in Seq(Event) /\ Len(t) = Len(s) + 1 /\ t[Len(s) + 1] = x
      /\ \A i \in 1 .. Len(s) : t[i] = s[i]
  BY <1>0
<1>2. /\ DOMAIN s = 1 .. Len(s) /\ DOMAIN t = 1 .. Len(s) + 1 /\ Len(s) \in Nat
  BY <1>1
<1> HIDE DEF t
<1>3. \A i \in DOMAIN t : (i \in DOMAIN s /\ t[i] = s[i]) \/ (i = Len(s) + 1 /\ t[i] = x)
  BY <1>1, <1>2
<1>4. \A i \in DOMAIN s : i \in DOMAIN t /\ t[i] = s[i]
  BY <1>1, <1>2
<1>5. Len(s) + 1 \in DOMAIN t /\ t[Len(s) + 1] = <<"started", e>>
  BY <1>1, <1>2
<1>6. \A i \in DOMAIN s : s[i] # x
  BY DEF WaitingIn
<1>x. \A f \in EngineSet : <<"started", f>> = x => f = e
  OBVIOUS
<1>7. WaitingIn(t) = WaitingIn(s) \cup {e}
  BY <1>3, <1>4, <1>5, <1>x DEF WaitingIn
<1>8. UniqueIn(t)
  BY <1>3, <1>6 DEF UniqueIn
<1>9. ForkFirst(t)
  BY <1>0, <1>3 DEF ForkFirst
<1>y. HasFork(t) => HasFork(s)
  BY <1>0, <1>3 DEF HasFork
<1> QED BY <1>1, <1>7, <1>8, <1>9, <1>y DEF t

\* An event is taken off a queue.
LEMMA TailEvent ==
    ASSUME NEW s \in Seq(Event), s # <<>>, UniqueIn(s), ForkFirst(s)
    PROVE  /\ Tail(s) \in Seq(Event) /\ Head(s) \in Event
           /\ UniqueIn(Tail(s)) /\ ForkFirst(Tail(s)) /\ ~HasFork(Tail(s))
           /\ WaitingIn(Tail(s)) = {e \in WaitingIn(s) : <<"started", e>> # Head(s)}
<1> DEFINE t == Tail(s)
<1>1. /\ t \in Seq(Event) /\ Len(s) \in Nat \ {0} /\ DOMAIN s = 1 .. Len(s)
      /\ DOMAIN t = 1 .. Len(s) - 1 /\ Head(s) = s[1]
      /\ \A i \in 1 .. Len(s) - 1 : t[i] = s[i + 1]
  BY HeadTailProperties
<1> HIDE DEF t
<1>2. \A i \in DOMAIN t : i + 1 \in DOMAIN s /\ t[i] = s[i + 1] /\ i + 1 # 1 /\ i \in Nat
  BY <1>1
<1>3. \A i \in DOMAIN s : i = 1 \/ (i - 1 \in DOMAIN t /\ t[i - 1] = s[i])
  BY <1>1
<1>4. 1 \in DOMAIN s /\ s[1] \in Event /\ s[1] = Head(s)
  BY <1>1
<1>5. UniqueIn(t)
  BY <1>2 DEF UniqueIn
<1>6. ForkFirst(t) /\ ~HasFork(t)
  BY <1>2 DEF ForkFirst, HasFork
<1>7. \A e \in WaitingIn(t) : e \in WaitingIn(s) /\ <<"started", e>> # Head(s)
  <2> SUFFICES ASSUME NEW e \in WaitingIn(t) PROVE e \in WaitingIn(s) /\ <<"started", e>> # Head(s)
    OBVIOUS
  <2>1. PICK i \in DOMAIN t : t[i] = <<"started", e>>
    BY DEF WaitingIn
  <2>2. e \in EngineSet
    BY DEF WaitingIn
  <2>3. i + 1 \in DOMAIN s /\ s[i + 1] = <<"started", e>> /\ i + 1 # 1
    BY <1>2, <2>1
  <2>4. <<"started", e>>[1] = "started"
    OBVIOUS
  <2>5. s[1] # <<"started", e>>
    BY <1>4, <2>3, <2>4 DEF UniqueIn
  <2> QED BY <1>4, <2>2, <2>3, <2>5 DEF WaitingIn
<1>8. \A e \in WaitingIn(s) : <<"started", e>> # Head(s) => e \in WaitingIn(t)
  BY <1>3, <1>4 DEF WaitingIn
<1> QED BY <1>1, <1>4, <1>5, <1>6, <1>7, <1>8 DEF t

----------------------------------------------------------------------------
(* The queues Q of all threads, when the engines S have started.            *)

Kept(Q, S) ==
    /\ Q \in [EngineSet -> Seq(Event)]
    /\ \A e \in EngineSet : UniqueIn(Q[e]) /\ ForkFirst(Q[e]) /\ (HasFork(Q[e]) => e \notin S)
    /\ WaitingIn(Q[Main]) \subseteq S

\* An event of another kind is posted.
LEMMA PostedKept ==
    ASSUME NEW Q, NEW S, Kept(Q, S), NEW e \in EngineSet,
           NEW x \in Event, x[1] \notin {"started", "postFork"}
    PROVE  LET T == [Q EXCEPT ![e] = Append(@, x)] IN
           Kept(T, S) /\ WaitingIn(T[Main]) = WaitingIn(Q[Main])
<1> DEFINE T == [Q EXCEPT ![e] = Append(@, x)]
<1>1. Q[e] \in Seq(Event) /\ Main \in EngineSet
  BY EnginesAssumption DEF Kept
<1>2. /\ T \in [EngineSet -> Seq(Event)] /\ T[e] = Append(Q[e], x)
      /\ \A f \in EngineSet : f # e => T[f] = Q[f]
  BY <1>1, AppendEvent DEF Kept
<1>3. /\ WaitingIn(T[e]) = WaitingIn(Q[e]) /\ UniqueIn(T[e]) /\ ForkFirst(T[e])
      /\ HasFork(T[e]) => HasFork(Q[e])
  BY <1>1, <1>2, AppendEvent DEF Kept
<1> HIDE DEF T
<1>4. WaitingIn(T[Main]) = WaitingIn(Q[Main])
  BY <1>1, <1>2, <1>3
<1>5. Kept(T, S)
  BY <1>2, <1>3, <1>4 DEF Kept
<1> QED BY <1>4, <1>5 DEF T

\* A thread takes its next event.
LEMMA TakenKept ==
    ASSUME NEW Q, NEW S, Kept(Q, S), NEW e \in EngineSet, Q[e] # <<>>
    PROVE  LET T == [Q EXCEPT ![e] = Tail(@)] IN
           /\ Kept(T, S) /\ ~HasFork(T[e]) /\ Head(Q[e]) \in Event
           /\ WaitingIn(T[Main]) =
                IF e = Main THEN {f \in WaitingIn(Q[Main]) : <<"started", f>> # Head(Q[Main])}
                ELSE WaitingIn(Q[Main])
<1> DEFINE T == [Q EXCEPT ![e] = Tail(@)]
<1>1. Q[e] \in Seq(Event) /\ UniqueIn(Q[e]) /\ ForkFirst(Q[e]) /\ Main \in EngineSet
  BY EnginesAssumption DEF Kept
<1>2. Tail(Q[e]) \in Seq(Event) /\ Head(Q[e]) \in Event
  BY <1>1, TailEvent
<1>3. /\ T \in [EngineSet -> Seq(Event)] /\ T[e] = Tail(Q[e])
      /\ \A f \in EngineSet : f # e => T[f] = Q[f]
  BY <1>2 DEF Kept
<1>4. /\ UniqueIn(T[e]) /\ ForkFirst(T[e]) /\ ~HasFork(T[e])
      /\ WaitingIn(T[e]) = {f \in WaitingIn(Q[e]) : <<"started", f>> # Head(Q[e])}
  BY <1>1, <1>3, TailEvent
<1> HIDE DEF T
<1>5. WaitingIn(T[Main]) =
        IF e = Main THEN {f \in WaitingIn(Q[Main]) : <<"started", f>> # Head(Q[Main])}
        ELSE WaitingIn(Q[Main])
  BY <1>1, <1>3, <1>4
<1>6. WaitingIn(T[Main]) \subseteq S
  BY <1>5 DEF Kept
<1>7. Kept(T, S)
  BY <1>3, <1>4, <1>6 DEF Kept
<1> QED BY <1>2, <1>4, <1>5, <1>7 DEF T

\* An engine says to the main thread that it has started.
LEMMA StartedKept ==
    ASSUME NEW Q, NEW S, Kept(Q, S), NEW e \in EngineSet, e \notin S, ~HasFork(Q[e])
    PROVE  LET T == [Q EXCEPT ![Main] = Append(@, <<"started", e>>)] IN
           Kept(T, S \cup {e}) /\ WaitingIn(T[Main]) = WaitingIn(Q[Main]) \cup {e}
<1> DEFINE T == [Q EXCEPT ![Main] = Append(@, <<"started", e>>)]
<1>1. /\ Q[Main] \in Seq(Event) /\ UniqueIn(Q[Main]) /\ ForkFirst(Q[Main]) /\ Main \in EngineSet
      /\ e \notin WaitingIn(Q[Main])
  BY EnginesAssumption DEF Kept
<1>2. Append(Q[Main], <<"started", e>>) \in Seq(Event)
  BY <1>1, AppendStarted
<1>3. /\ T \in [EngineSet -> Seq(Event)] /\ T[Main] = Append(Q[Main], <<"started", e>>)
      /\ \A f \in EngineSet : f # Main => T[f] = Q[f]
  BY <1>1, <1>2 DEF Kept
<1>4. /\ UniqueIn(T[Main]) /\ ForkFirst(T[Main]) /\ (HasFork(T[Main]) => HasFork(Q[Main]))
      /\ WaitingIn(T[Main]) = WaitingIn(Q[Main]) \cup {e}
  BY <1>1, <1>3, AppendStarted
<1> HIDE DEF T
<1>5. \A f \in EngineSet : HasFork(T[f]) => HasFork(Q[f])
  BY <1>3, <1>4
<1>6. Kept(T, S \cup {e})
  BY <1>3, <1>4, <1>5 DEF Kept
<1> QED BY <1>4, <1>6 DEF T

\* A signal is emitted to all engines.
LEMMA SignalKept ==
    ASSUME NEW S, Kept(q, S)
    PROVE  Kept(ToAll("shutdown"), S) /\ WaitingIn(ToAll("shutdown")[Main]) = WaitingIn(q[Main])
<1> DEFINE T == ToAll("shutdown")
<1>1. \A e \in EngineSet : <<"shutdown", e>> \in Event /\ <<"shutdown", e>>[1] = "shutdown"
  BY EventTypes
<1>2. \A e \in EngineSet : T[e] = Append(q[e], <<"shutdown", e>>) /\ q[e] \in Seq(Event)
  BY DEF ToAll, Kept
<1>3. \A e \in EngineSet :
        /\ T[e] \in Seq(Event) /\ WaitingIn(T[e]) = WaitingIn(q[e])
        /\ UniqueIn(T[e]) /\ ForkFirst(T[e]) /\ (HasFork(T[e]) => HasFork(q[e]))
  <2> TAKE e \in EngineSet
  <2>1. UniqueIn(q[e]) /\ ForkFirst(q[e])
    BY DEF Kept
  <2> HIDE DEF T
  <2> QED BY <1>1, <1>2, <2>1, AppendEvent
<1>4. T \in [EngineSet -> Seq(Event)]
  <2>1. T = [e \in EngineSet |-> Append(q[e], <<"shutdown", e>>)]
    BY DEF ToAll
  <2> QED BY <1>2, <1>3, <2>1
<1>5. Main \in EngineSet
  BY EnginesAssumption
<1> HIDE DEF T
<1> QED BY <1>3, <1>4, <1>5 DEF Kept, T

----------------------------------------------------------------------------
(* The invariant.                                                           *)

\* The engines the main thread has not heard of.
NotReported == (EngineSet \ started) \cup WaitingIn(q[Main])

\* The count is of these, and the server was made ready when it reached zero.
CountInv ==
    /\ workersNotRunning = Cardinality(NotReported)
    /\ ready = IF workersNotRunning = 0 THEN 1 ELSE 0

ForkInv == pc = "forked" => started = {} /\ q = [e \in EngineSet |-> <<>>]

\* A socket belongs to an engine.
SockInv == sock \in [Sockets -> Socket \cup {NoSocket, Deleted}]

IInv == started \subseteq EngineSet /\ SockInv /\ Kept(q, started) /\ ForkInv /\ CountInv

LEMMA EmptyQueue == WaitingIn(<<>>) = {} /\ UniqueIn(<<>>) /\ ForkFirst(<<>>) /\ ~HasFork(<<>>)
BY DEF WaitingIn, UniqueIn, ForkFirst, HasFork

LEMMA InitInv == Init => IInv
<1> SUFFICES ASSUME Init PROVE IInv
  OBVIOUS
<1>1. Main \in EngineSet /\ IsFiniteSet(EngineSet)
  BY EnginesAssumption
<1>2. /\ q = [e \in EngineSet |-> <<>>] /\ started = {} /\ ready = 0
      /\ workersNotRunning = 1 + Cardinality(EngineSet \ {Main})
  BY DEF Init, NotRunning
<1>3. \A e \in EngineSet : q[e] = <<>>
  BY <1>2
<1>4. q \in [EngineSet -> Seq(Event)]
  BY <1>2
<1>5. Kept(q, started)
  BY <1>1, <1>2, <1>3, <1>4, EmptyQueue DEF Kept
<1>6. NotReported = EngineSet
  BY <1>1, <1>2, <1>3, EmptyQueue DEF NotReported
<1>7. Cardinality(EngineSet \ {Main}) = Cardinality(EngineSet) - 1 /\ Cardinality(EngineSet) \in Nat
  BY <1>1, FS_RemoveElement, FS_CardinalityType
<1>8. Cardinality(EngineSet \ {Main}) \in Nat
  BY <1>1, FS_RemoveElement, FS_CardinalityType
<1>9. CountInv
  BY <1>2, <1>6, <1>7, <1>8 DEF CountInv
<1>10. SockInv
  BY DEF Init, SockInv
<1> QED BY <1>2, <1>5, <1>9, <1>10 DEF IInv, ForkInv

LEMMA SocketsTyped == SockInv /\ [Next]_vars => SockInv'
<1> SUFFICES ASSUME SockInv, [Next]_vars PROVE SockInv'
  OBVIOUS
<1> USE DEF vars, server, counts
<1>1. ASSUME NEW r \in Sockets, sock[r].state \notin {"none", "deleted"}
      PROVE  sock[r] \in Socket
  BY <1>1 DEF SockInv, NoSocket, Deleted
<1>2. ASSUME NEW r \in Sockets, sock[r].state \notin {"none", "deleted"},
             sock' = [sock EXCEPT ![r].state = "busy"] \/ sock' = [sock EXCEPT ![r].state = "idle"]
             \/ sock' = [sock EXCEPT ![r].state = "closing"] \/ sock' = [sock EXCEPT ![r].state = "gone"]
      PROVE  SockInv'
  BY <1>1, <1>2 DEF SockInv, Socket, NoSocket, Deleted
<1>3. ASSUME NEW r \in Sockets, NEW e \in EngineSet, NEW l \in Listeners, NEW v \in {"idle", "queued"},
             sock' = [sock EXCEPT ![r] = [engine |-> e, listener |-> l, watch |-> 0, state |-> v]]
      PROVE  SockInv'
  BY <1>3 DEF SockInv, Socket
<1>4. ASSUME NEW r \in Sockets, NEW e, Finished(r, e) PROVE SockInv'
  BY <1>4 DEF SockInv, Finished
<1>5. ASSUME NEW e, NEW Q, Shutdown(e, Q) PROVE SockInv'
  <2>1. ASSUME NEW r \in Sockets, NEW l, r \in Open(e, l)
        PROVE  HandleSocketShutdown(r) \in Socket
    <3>1. sock[r] \in Socket
      BY <1>1, <2>1 DEF Open
    <3> DEFINE v == CASE sock[r].state = "idle" -> "closing" [] sock[r].state = "busy" -> "last"
                      [] OTHER -> sock[r].state
    <3>2. /\ sock[r].watch + 1 \in Nat
          /\ sock[r].state \in {"queued", "idle", "busy", "last", "gone", "closing"}
      BY <3>1 DEF Socket
    <3>3. v \in {"queued", "idle", "busy", "last", "gone", "closing"}
      BY <3>2
    <3>4. HandleSocketShutdown(r) = [sock[r] EXCEPT !.watch = sock[r].watch + 1, !.state = v]
      BY DEF HandleSocketShutdown
    <3> HIDE DEF v
    <3> QED BY <3>1, <3>2, <3>3, <3>4 DEF Socket
  <2>2. sock' = [r \in Sockets |-> IF \E l \in Listeners \ Ssl : r \in Open(e, l)
                                  THEN HandleSocketShutdown(r) ELSE sock[r]]
    BY <1>5 DEF Shutdown
  <2> QED BY <2>1, <2>2 DEF SockInv
<1>6. CASE sock' = sock
  BY <1>6 DEF SockInv, Sockets
<1>7. ASSUME NEW e \in EngineSet, EngineEvent(e) PROVE SockInv'
  BY <1>5, <1>6, <1>7 DEF EngineEvent
<1>8. ASSUME NEW s \in Sockets, NEW e \in EngineSet, NEW l \in Listeners,
             Accept(s, e, l) \/ Balance(s, e, l)
      PROVE  SockInv'
  BY <1>3, <1>8 DEF Accept, Balance, Connected
<1>9. ASSUME NEW s \in Sockets, Take(s) PROVE SockInv'
  <2>1. sock[s].engine \in EngineSet /\ sock[s].listener \in Listeners
    BY <1>1, <1>9 DEF Take, Socket
  <2> QED BY <1>3, <1>9, <2>1 DEF Take, Connected
<1>10. ASSUME NEW s \in Sockets, Answer(s) PROVE SockInv'
  <2>1. CASE Finished(s, sock[s].engine)
    BY <1>4, <2>1
  <2>2. CASE /\ sock[s].state \in {"busy", "last"}
             /\ sock' = [sock EXCEPT ![s].state = IF @ = "busy" THEN "idle" ELSE "closing"]
    BY <1>2, <2>2
  <2> QED BY <1>10, <2>1, <2>2 DEF Answer
<1>11. ASSUME NEW s \in Sockets, Request(s) \/ Closed(s) \/ PeerCloses(s) \/ Timeout(s)
       PROVE  SockInv'
  <2>1. CASE Request(s)
    BY <1>2, <2>1 DEF Request
  <2>2. CASE Closed(s)
    BY <1>4, <2>2 DEF Closed
  <2>3. CASE PeerCloses(s)
    BY <1>2, <1>4, <2>3 DEF PeerCloses
  <2>4. CASE Timeout(s)
    BY <1>2, <2>4 DEF Timeout
  <2> QED BY <1>11, <2>1, <2>2, <2>3, <2>4
<1>12. CASE Network
  BY <1>8, <1>9, <1>10, <1>11, <1>12 DEF Network
<1>13. CASE PostFork \/ Signal \/ MainEvent \/ Exit \/ \E e \in EngineSet : ThreadFinishes(e)
  BY <1>6, <1>13 DEF PostFork, Signal, MainEvent, Exit, ThreadFinishes
<1>14. CASE UNCHANGED vars
  BY <1>6, <1>14
<1> QED BY <1>7, <1>12, <1>13, <1>14 DEF Next

\* A step that tells the main thread nothing of a start.
LEMMA QuietStep ==
    ASSUME IInv, SockInv', started' = started, Kept(q', started), WaitingIn(q'[Main]) = WaitingIn(q[Main]),
           pc' # "forked", UNCHANGED <<workersNotRunning, ready>>
    PROVE  IInv'
BY DEF IInv, ForkInv, CountInv, NotReported

LEMMA NextInv == IInv /\ [Next]_vars => IInv'
<1> SUFFICES ASSUME IInv, [Next]_vars PROVE IInv'
  OBVIOUS
<1> USE DEF vars, server, counts
<1>0. SockInv'
  BY SocketsTyped DEF IInv
<1>1. /\ Main \in EngineSet /\ Kept(q, started) /\ q \in [EngineSet -> Seq(Event)]
  BY EnginesAssumption DEF IInv, Kept
<1>2. CASE PostFork
  <2>1. q = [e \in EngineSet |-> <<>>] /\ started = {} /\ q' = ToAll("postFork") /\ started' = {}
    BY <1>2 DEF PostFork, IInv, ForkInv
  <2>2. \A e \in EngineSet : q'[e] = <<<<"postFork", e>>>>
    BY <2>1 DEF ToAll
  <2>3. \A e \in EngineSet : /\ WaitingIn(q'[e]) = {} /\ UniqueIn(q'[e]) /\ ForkFirst(q'[e])
    <3> TAKE e \in EngineSet
    <3>1. /\ DOMAIN q'[e] = {1} /\ q'[e][1] = <<"postFork", e>>
          /\ <<"postFork", e>>[1] = "postFork"
          /\ \A f \in EngineSet : <<"postFork", e>> # <<"started", f>>
      BY <2>2
    <3> QED BY <3>1 DEF WaitingIn, UniqueIn, ForkFirst
  <2>4. q' \in [EngineSet -> Seq(Event)]
    <3>1. \A e \in EngineSet : Append(q[e], <<"postFork", e>>) \in Seq(Event)
      <4> TAKE e \in EngineSet
      <4>1. q[e] \in Seq(Event) /\ <<"postFork", e>> \in Event
        BY <1>1, EventTypes
      <4> QED BY <4>1, AppendProperties
    <3> QED BY <2>1, <3>1 DEF ToAll
  <2>5. Kept(q', started')
    BY <1>1, <2>1, <2>3, <2>4 DEF Kept
  <2>6. WaitingIn(q[Main]) = {}
    BY <1>1, <2>1, EmptyQueue
  <2>7. pc' # "forked" /\ UNCHANGED <<workersNotRunning, ready>> /\ WaitingIn(q'[Main]) = WaitingIn(q[Main])
    BY <1>1, <1>2, <2>3, <2>6 DEF PostFork
  <2> QED BY <1>0, <2>1, <2>5, <2>7, QuietStep
<1>3. CASE Signal
  <2>1. pc' # "forked" /\ UNCHANGED <<started, workersNotRunning, ready>> /\ q' = ToAll("shutdown")
    BY <1>3 DEF Signal
  <2> QED BY <1>0, <1>1, <2>1, SignalKept, QuietStep
<1>4. CASE MainEvent
  <2> DEFINE head == Head(q[Main])
  <2>1. /\ q[Main] # <<>> /\ q' = [q EXCEPT ![Main] = Tail(@)] /\ started' = started
        /\ pc = "exec" /\ pc' = pc
    BY <1>4 DEF MainEvent, Runs
  <2>2. /\ Kept(q', started) /\ head \in Event
        /\ WaitingIn(q'[Main]) = {f \in WaitingIn(q[Main]) : <<"started", f>> # head}
    BY <1>1, <2>1, TakenKept
  <2>3. CASE head[1] = "started"
    <3>1. PICK e \in EngineSet : head = <<"started", e>>
      BY <2>2, <2>3 DEF Event
    <3>2. e \in WaitingIn(q[Main])
      <4>1. 1 \in DOMAIN q[Main] /\ q[Main][1] = head
        BY <1>1, <2>1
      <4> QED BY <3>1, <4>1 DEF WaitingIn
    <3>3. \A f \in EngineSet : <<"started", f>> = head <=> f = e
      BY <3>1
    <3>4. WaitingIn(q'[Main]) = WaitingIn(q[Main]) \ {e}
      BY <2>2, <3>3 DEF WaitingIn
    <3>5. e \in started
      BY <1>1, <3>2 DEF Kept
    <3>6. e \in NotReported /\ NotReported' = NotReported \ {e}
      BY <2>1, <3>2, <3>4, <3>5 DEF NotReported
    <3>7. IsFiniteSet(NotReported)
      <4>1. NotReported \in SUBSET EngineSet
        BY DEF NotReported, WaitingIn
      <4> QED BY <4>1, EnginesAssumption, FS_Subset
    <3>8. /\ Cardinality(NotReported') = Cardinality(NotReported) - 1
          /\ Cardinality(NotReported') \in Nat /\ Cardinality(NotReported) \in Nat
      BY <3>6, <3>7, FS_RemoveElement, FS_CardinalityType
    <3>9. WorkerStarted
      BY <1>4, <2>3, <3>1 DEF MainEvent
    <3>10. CountInv'
      BY <3>8, <3>9 DEF WorkerStarted, CountInv, IInv
    <3> QED BY <1>0, <2>1, <2>2, <3>10 DEF IInv, ForkInv
  <2>4. CASE head[1] # "started"
    <3>1. UNCHANGED <<workersNotRunning, ready>>
      BY <1>4, <2>4 DEF MainEvent
    <3>2. \A f \in EngineSet : <<"started", f>> # head
      BY <2>4
    <3>3. WaitingIn(q'[Main]) = WaitingIn(q[Main])
      BY <2>2, <3>2 DEF WaitingIn
    <3> QED BY <1>0, <2>1, <2>2, <3>1, <3>3, QuietStep
  <2> QED BY <2>3, <2>4
<1>5. CASE Exit
  BY <1>0, <1>5, <1>1, QuietStep DEF Exit
<1>6. ASSUME NEW e \in EngineSet, ThreadFinishes(e) PROVE IInv'
  <2>1. /\ q' = [q EXCEPT ![Main] = Append(@, <<"finished", e>>)] /\ pc' # "forked"
        /\ UNCHANGED <<started, workersNotRunning, ready>>
    BY <1>6 DEF ThreadFinishes, Posted
  <2>2. <<"finished", e>> \in Event /\ <<"finished", e>>[1] = "finished"
    BY EventTypes
  <2>3. Kept(q', started) /\ WaitingIn(q'[Main]) = WaitingIn(q[Main])
    BY <1>1, <2>1, <2>2, PostedKept
  <2> QED BY <1>0, <2>1, <2>3, QuietStep
<1>7. ASSUME NEW Q, NEW e \in EngineSet, NEW n, Kept(Q, started), ServerShutdown(e, n, Q)
      PROVE  Kept(q', started) /\ WaitingIn(q'[Main]) = WaitingIn(Q[Main])
  <2>1. q' = Q \/ q' = [Q EXCEPT ![Main] = Append(@, <<"completed", e>>)]
    BY <1>7 DEF ServerShutdown
  <2>2. <<"completed", e>> \in Event /\ <<"completed", e>>[1] = "completed"
    BY EventTypes
  <2>3. CASE q' = Q
    BY <1>7, <2>3
  <2>4. CASE q' = [Q EXCEPT ![Main] = Append(@, <<"completed", e>>)]
    <3> DEFINE x == <<"completed", e>>
    <3>1. x \in Event /\ x[1] \notin {"started", "postFork"} /\ q' = [Q EXCEPT ![Main] = Append(@, x)]
      BY <2>2, <2>4
    <3> HIDE DEF x
    <3> QED BY <1>1, <1>7, <3>1, PostedKept
  <2> QED BY <2>1, <2>3, <2>4
<1>8. ASSUME NEW e \in EngineSet, EngineEvent(e) PROVE IInv'
  <2> DEFINE Q == [q EXCEPT ![e] = Tail(@)]
  <2>1. q[e] # <<>> /\ pc' = pc /\ pc = "exec" /\ UNCHANGED <<workersNotRunning, ready>>
    BY <1>8 DEF EngineEvent, Runs
  <2>2. Head(q[e]) = <<"postFork", e>> \/ Head(q[e]) = <<"shutdown", e>>
    BY <1>8 DEF EngineEvent
  <2>3. \A f \in EngineSet : <<"started", f>> # Head(q[e])
    BY <2>2
  <2>4. /\ Kept(Q, started) /\ ~HasFork(Q[e])
        /\ WaitingIn(Q[Main]) = IF e = Main
                                THEN {f \in WaitingIn(q[Main]) : <<"started", f>> # Head(q[Main])}
                                ELSE WaitingIn(q[Main])
    BY <1>1, <2>1, TakenKept
  <2> HIDE DEF Q
  <2>5. WaitingIn(Q[Main]) = WaitingIn(q[Main])
    BY <2>3, <2>4 DEF WaitingIn
  <2>6. CASE /\ Head(q[e]) = <<"postFork", e>> /\ started' = started \cup {e}
             /\ q' = [Q EXCEPT ![Main] = Append(@, <<"started", e>>)]
    <3>1. HasFork(q[e])
      <4>1. 1 \in DOMAIN q[e] /\ q[e][1] = Head(q[e]) /\ <<"postFork", e>>[1] = "postFork"
        BY <1>1, <2>1
      <4> QED BY <2>6, <4>1 DEF HasFork
    <3>2. e \notin started
      BY <1>1, <3>1 DEF Kept
    <3>3. Kept(q', started') /\ WaitingIn(q'[Main]) = WaitingIn(Q[Main]) \cup {e}
      BY <2>4, <2>6, <3>2, StartedKept
    <3>4. NotReported' = NotReported
      BY <2>5, <2>6, <3>2, <3>3 DEF NotReported
    <3>5. CountInv'
      BY <2>1, <3>4 DEF CountInv, IInv
    <3> QED BY <1>0, <2>1, <2>6, <3>3, <3>5 DEF IInv, ForkInv
  <2>7. CASE Shutdown(e, Q) /\ started' = started
    <3>1. PICK n : ServerShutdown(e, n, Q)
      BY <2>7 DEF Shutdown
    <3>2. Kept(q', started) /\ WaitingIn(q'[Main]) = WaitingIn(Q[Main])
      BY <1>7, <2>4, <3>1
    <3> QED BY <1>0, <2>1, <2>5, <2>7, <3>2, QuietStep
  <2> QED BY <1>8, <2>6, <2>7 DEF EngineEvent, Q
<1>9. CASE Network
  <2>1. PICK s \in Sockets :
            \/ \E e \in EngineSet, l \in Listeners : Accept(s, e, l) \/ Balance(s, e, l)
            \/ Take(s) \/ Request(s) \/ Answer(s) \/ Closed(s) \/ PeerCloses(s) \/ Timeout(s)
    BY <1>9 DEF Network
  <2>2. UNCHANGED <<started, workersNotRunning, ready>>
    BY <2>1 DEF Accept, Balance, Take, Request, Answer, Closed, PeerCloses, Timeout
  <2>3. pc' # "forked"
    BY <2>1 DEF Accept, Balance, Take, Request, Answer, Closed, PeerCloses, Timeout, Runs
  <2>4. q' = q \/ \E e \in EngineSet : ServerShutdown(e, Watchers(s), q)
    <3>1. sock[s] \in Socket \/ sock[s].state \in {"none", "deleted"}
      BY DEF IInv, SockInv, NoSocket, Deleted
    <3>2. sock[s].state \in {"busy", "last", "gone", "closing", "idle"} => sock[s].engine \in EngineSet
      BY <3>1 DEF Socket
    <3> QED BY <2>1, <3>2 DEF Accept, Balance, Take, Request, Answer, Closed, PeerCloses, Timeout, Finished
  <2>5. CASE q' = q
    BY <1>0, <1>1, <2>2, <2>3, <2>5, QuietStep
  <2>6. ASSUME NEW e \in EngineSet, ServerShutdown(e, Watchers(s), q) PROVE IInv'
    BY <1>0, <1>1, <1>7, <2>2, <2>3, <2>6, QuietStep
  <2> QED BY <2>4, <2>5, <2>6
<1>10. CASE UNCHANGED vars
  BY <1>0, <1>10 DEF IInv, Kept, ForkInv, CountInv, NotReported
<1> QED BY <1>2, <1>3, <1>4, <1>5, <1>6, <1>8, <1>9, <1>10 DEF Next

\* In every state reached: the queues, the count of the engines that the main
\* thread has not heard of, and the emission of ready agree.
THEOREM StartsCounted == Spec => []IInv
<1>1. Init => IInv
  BY InitInv
<1>2. IInv /\ [Next]_vars => IInv'
  BY NextInv
<1> QED BY <1>1, <1>2, PTL DEF Spec

LEMMA InvReady == IInv => ReadyWhenStarted
<1> SUFFICES ASSUME IInv PROVE ReadyWhenStarted
  OBVIOUS
<1>1. IsFiniteSet(NotReported)
  <2>1. NotReported \in SUBSET EngineSet
    BY DEF NotReported, WaitingIn
  <2> QED BY <2>1, EnginesAssumption, FS_Subset
<1>2. Cardinality(NotReported) = 0 <=> NotReported = {}
  BY <1>1, FS_EmptySet
<1>3. ready = 1 <=> NotReported = {}
  BY <1>2 DEF IInv, CountInv
<1>4. NotReported = {} => started = EngineSet
  BY DEF NotReported, IInv
<1>5. q[Main] = <<>> /\ started = EngineSet => NotReported = {}
  BY EmptyQueue DEF NotReported
<1>6. ready <= 1
  BY DEF IInv, CountInv
<1> QED BY <1>3, <1>4, <1>5, <1>6 DEF ReadyWhenStarted

\* The server says it is ready once, when every engine has started and the main
\* thread has heard of each, and never with one that failed (workerStarted).
THEOREM ReadyOnce == Spec => []ReadyWhenStarted
<1>1. IInv => ReadyWhenStarted
  BY InvReady
<1> QED BY <1>1, StartsCounted, PTL

----------------------------------------------------------------------------
(* The connections of an engine.                                            *)

Alive(r) == sock[r].state \notin {"none", "queued", "deleted"}

\* A step in which no connection comes or goes.
SameSockets ==
    \A r \in Sockets : /\ Alive(r)' <=> Alive(r)
                       /\ Alive(r) => /\ sock'[r].engine = sock[r].engine
                                      /\ sock'[r].listener = sock[r].listener

\* One that comes, and one that goes.
Comes(s, e, l) ==
    /\ s \notin Open(e, l) /\ Open(e, l)' = Open(e, l) \cup {s}
    /\ \A f \in EngineSet, m \in Listeners : <<f, m>> # <<e, l>> => Open(f, m)' = Open(f, m)
Goes(s, e, l) ==
    /\ s \in Open(e, l) /\ Open(e, l)' = Open(e, l) \ {s}
    /\ \A f \in EngineSet, m \in Listeners : <<f, m>> # <<e, l>> => Open(f, m)' = Open(f, m)

LEMMA SameOpen ==
    ASSUME SameSockets PROVE \A e \in EngineSet, l \in Listeners : Open(e, l)' = Open(e, l)
BY DEF SameSockets, Open, Alive

LEMMA SocketKnown ==
    ASSUME SockInv, NEW s \in Sockets, sock[s].state \notin {"none", "deleted"}
    PROVE  sock[s] \in Socket
BY DEF SockInv, NoSocket, Deleted

\* A socket changes its state and stays open.
LEMMA StateChanges ==
    ASSUME SockInv, NEW s \in Sockets, Alive(s),
           NEW v \in {"idle", "busy", "last", "gone", "closing"},
           sock' = [sock EXCEPT ![s].state = v]
    PROVE  /\ SameSockets
           /\ \A r \in Sockets : Alive(r) => sock'[r].watch = sock[r].watch
           /\ \A r \in Sockets : ~Alive(r) => sock'[r] = sock[r]
<1>1. sock[s] \in Socket
  BY SocketKnown DEF Alive
<1>2. sock'[s] = [sock[s] EXCEPT !.state = v] /\ \A r \in Sockets : r # s => sock'[r] = sock[r]
  BY DEF SockInv
<1>3. /\ sock'[s].engine = sock[s].engine /\ sock'[s].listener = sock[s].listener
      /\ sock'[s].watch = sock[s].watch /\ sock'[s].state = v
  BY <1>1, <1>2 DEF Socket
<1> QED BY <1>2, <1>3 DEF SameSockets, Alive

LEMMA ConnectedComes ==
    ASSUME SockInv, NEW s \in Sockets, ~Alive(s), NEW e \in EngineSet, NEW l \in Listeners,
           sock' = [sock EXCEPT ![s] = [engine |-> e, listener |-> l, watch |-> 0, state |-> "idle"]]
    PROVE  Comes(s, e, l)
<1>1. /\ sock'[s] = [engine |-> e, listener |-> l, watch |-> 0, state |-> "idle"]
      /\ \A r \in Sockets : r # s => sock'[r] = sock[r]
  BY DEF SockInv
<1>2. \A f \in EngineSet, m \in Listeners : s \notin Open(f, m)
  BY DEF Open, Alive
<1>3. \A f \in EngineSet, m \in Listeners :
         Open(f, m)' = Open(f, m) \cup IF f = e /\ m = l THEN {s} ELSE {}
  BY <1>1, <1>2 DEF Open
<1> QED BY <1>2, <1>3 DEF Comes

LEMMA FinishedGoes ==
    ASSUME SockInv, NEW s \in Sockets, Alive(s), sock' = [sock EXCEPT ![s] = Deleted],
           NEW e \in EngineSet, NEW l \in Listeners, sock[s].engine = e, sock[s].listener = l
    PROVE  Goes(s, e, l)
<1>1. sock'[s] = Deleted /\ \A r \in Sockets : r # s => sock'[r] = sock[r]
  BY DEF SockInv
<1>2. s \in Open(e, l)
  BY DEF Open, Alive
<1>3. \A f, m : s \in Open(f, m) => f = e /\ m = l
  BY DEF Open
<1>4. \A f \in EngineSet, m \in Listeners : Open(f, m)' = Open(f, m) \ {s}
  BY <1>1 DEF Open, Deleted
<1> QED BY <1>2, <1>3, <1>4 DEF Goes

\* A shutdown counts itself at the sockets it finds, and closes none of them.
LEMMA ShutdownKeeps ==
    ASSUME SockInv, NEW e, NEW Q, Shutdown(e, Q)
    PROVE  /\ SameSockets
           /\ \A r \in Sockets : sock'[r] = sock[r] \/
                \E l \in Listeners : /\ r \in Open(e, l) /\ sock'[r].watch = sock[r].watch + 1
           /\ Ssl = {} => \A r \in Sockets, l \in Listeners :
                 r \in Open(e, l) => sock'[r].watch = sock[r].watch + 1
<1> SUFFICES ASSUME NEW r \in Sockets
             PROVE  /\ Alive(r)' <=> Alive(r)
                    /\ Alive(r) => /\ sock'[r].engine = sock[r].engine
                                   /\ sock'[r].listener = sock[r].listener
                    /\ sock'[r] = sock[r] \/
                         \E l \in Listeners : r \in Open(e, l) /\ sock'[r].watch = sock[r].watch + 1
                    /\ Ssl = {} => \A l \in Listeners :
                         r \in Open(e, l) => sock'[r].watch = sock[r].watch + 1
  BY DEF SameSockets
<1>1. sock'[r] = IF \E l \in Listeners \ Ssl : r \in Open(e, l)
                 THEN HandleSocketShutdown(r) ELSE sock[r]
  BY DEF Shutdown
<1>2. CASE ~\E l \in Listeners \ Ssl : r \in Open(e, l)
  BY <1>1, <1>2 DEF Alive
<1>3. CASE \E l \in Listeners \ Ssl : r \in Open(e, l)
  <2>1. Alive(r) /\ sock[r] \in Socket
    BY <1>3, SocketKnown DEF Open, Alive
  <2> DEFINE v == CASE sock[r].state = "idle" -> "closing" [] sock[r].state = "busy" -> "last"
                    [] OTHER -> sock[r].state
  <2>2. v \notin {"none", "queued", "deleted"}
    BY <2>1 DEF Alive
  <2>3. sock'[r] = [sock[r] EXCEPT !.watch = sock[r].watch + 1, !.state = v]
    BY <1>1, <1>3 DEF HandleSocketShutdown
  <2> HIDE DEF v
  <2>4. /\ sock'[r].engine = sock[r].engine /\ sock'[r].listener = sock[r].listener
        /\ sock'[r].watch = sock[r].watch + 1 /\ sock'[r].state = v
    BY <2>1, <2>3 DEF Socket
  <2> QED BY <1>3, <2>1, <2>2, <2>4 DEF Alive
<1> QED BY <1>2, <1>3

\* What a step can do to the connections and the timers.
LEMMA ConnectionSteps ==
    ASSUME SockInv, [Next]_vars
    PROVE  \/ SameSockets /\ UNCHANGED <<serversTimeout, timer>>
           \/ \E s \in Sockets, e \in EngineSet, l \in Listeners :
                 Comes(s, e, l) /\ StartSocketTimeout(e, l)
           \/ \E s \in Sockets, e \in EngineSet, l \in Listeners :
                 /\ Alive(s) /\ sock[s].engine = e /\ sock[s].listener = l /\ Finished(s, e)
<1> USE DEF vars, server, counts
<1>1. CASE sock' = sock /\ UNCHANGED <<serversTimeout, timer>>
  BY <1>1 DEF SameSockets, Alive
<1>2. ASSUME NEW e \in EngineSet, EngineEvent(e) PROVE SameSockets /\ UNCHANGED <<serversTimeout, timer>>
  <2>1. UNCHANGED <<serversTimeout, timer>>
    BY <1>2 DEF EngineEvent
  <2>2. sock' = sock \/ \E Q : Shutdown(e, Q)
    BY <1>2 DEF EngineEvent
  <2> QED BY <2>1, <2>2, ShutdownKeeps DEF SameSockets, Alive
<1>3. ASSUME NEW s \in Sockets, NEW e \in EngineSet, NEW l \in Listeners, Accept(s, e, l)
      PROVE  Comes(s, e, l) /\ StartSocketTimeout(e, l)
  <2>1. sock[s] = NoSocket
    BY <1>3 DEF Accept, IsNext, Sockets
  <2>2. ~Alive(s)
    BY <2>1 DEF Alive, NoSocket
  <2> QED BY <1>3, <2>2, ConnectedComes DEF Accept, Connected
<1>4. ASSUME NEW s \in Sockets, NEW e \in EngineSet, NEW l \in Listeners, Balance(s, e, l)
      PROVE  SameSockets /\ UNCHANGED <<serversTimeout, timer>>
  <2>1. sock[s] = NoSocket
    BY <1>4 DEF Balance, IsNext, Sockets
  <2>2. /\ sock' = [sock EXCEPT ![s] = [engine |-> e, listener |-> l, watch |-> 0, state |-> "queued"]]
        /\ UNCHANGED <<serversTimeout, timer>>
    BY <1>4 DEF Balance
  <2> QED BY <2>1, <2>2 DEF SameSockets, Alive, NoSocket, SockInv
<1>5. ASSUME NEW s \in Sockets, Take(s)
      PROVE  \E e \in EngineSet, l \in Listeners : Comes(s, e, l) /\ StartSocketTimeout(e, l)
  <2>1. sock[s].engine \in EngineSet /\ sock[s].listener \in Listeners /\ ~Alive(s)
    BY <1>5, SocketKnown DEF Take, Socket, Alive
  <2>2. PICK e \in EngineSet, l \in Listeners : sock[s].engine = e /\ sock[s].listener = l
    BY <2>1
  <2>3. Connected(s, e, l)
    BY <1>5, <2>2 DEF Take, Connected, StartSocketTimeout
  <2> QED BY <2>1, <2>3, ConnectedComes DEF Connected
<1>6. ASSUME NEW s \in Sockets, Request(s) \/ Answer(s) \/ Closed(s) \/ PeerCloses(s) \/ Timeout(s)
      PROVE  /\ Alive(s)
             /\ \/ SameSockets /\ UNCHANGED <<serversTimeout, timer>>
                \/ \E e \in EngineSet, l \in Listeners :
                      sock[s].engine = e /\ sock[s].listener = l /\ Finished(s, e)
  <2>1. Alive(s)
    BY <1>6 DEF Request, Answer, Closed, PeerCloses, Timeout, Alive
  <2>3. sock[s].engine \in EngineSet /\ sock[s].listener \in Listeners
    BY <2>1, SocketKnown DEF Alive, Socket
  <2>2. \/ Finished(s, sock[s].engine)
        \/ /\ \/ sock' = [sock EXCEPT ![s].state = "busy"] \/ sock' = [sock EXCEPT ![s].state = "idle"]
              \/ sock' = [sock EXCEPT ![s].state = "closing"] \/ sock' = [sock EXCEPT ![s].state = "gone"]
           /\ UNCHANGED <<serversTimeout, timer>>
    BY <1>6 DEF Request, Answer, Closed, PeerCloses, Timeout
  <2> QED BY <2>1, <2>2, <2>3, StateChanges
<1>7. CASE Network
  BY <1>3, <1>4, <1>5, <1>6, <1>7 DEF Network
<1>8. CASE PostFork \/ Signal \/ MainEvent \/ Exit \/ \E e \in EngineSet : ThreadFinishes(e)
  BY <1>1, <1>8 DEF PostFork, Signal, MainEvent, Exit, ThreadFinishes
<1>9. CASE UNCHANGED vars
  BY <1>1, <1>9
<1> QED BY <1>2, <1>7, <1>8, <1>9 DEF Next

----------------------------------------------------------------------------
(* The timers of the idle connections.                                      *)

\* The listeners of an engine that have connections.
Serving(e) == {l \in Listeners : Open(e, l) # {}}

\* The count may be too high, for every socket adds to it and only the last one of
\* a listener takes from it, but never too low.
TimerInv ==
    /\ serversTimeout \in [EngineSet -> Nat] /\ timer \in [EngineSet -> BOOLEAN]
    /\ \A e \in EngineSet : /\ serversTimeout[e] >= Cardinality(Serving(e))
                            /\ serversTimeout[e] # 0 => timer[e]

LEMMA ServingFinite == \A e : IsFiniteSet(Serving(e)) /\ Cardinality(Serving(e)) \in Nat
<1>1. \A e : Serving(e) \in SUBSET Listeners
  BY DEF Serving
<1> QED BY <1>1, EnginesAssumption, FS_Subset, FS_CardinalityType

LEMMA ServingComes ==
    ASSUME NEW s \in Sockets, NEW e \in EngineSet, NEW l \in Listeners, Comes(s, e, l)
    PROVE  /\ Serving(e)' = Serving(e) \cup {l}
           /\ \A f \in EngineSet : f # e => Serving(f)' = Serving(f)
BY DEF Comes, Serving

LEMMA ServingGoes ==
    ASSUME NEW s \in Sockets, NEW e \in EngineSet, NEW l \in Listeners, Goes(s, e, l)
    PROVE  /\ l \in Serving(e)
           /\ Serving(e)' = IF Open(e, l) = {s} THEN Serving(e) \ {l} ELSE Serving(e)
           /\ \A f \in EngineSet : f # e => Serving(f)' = Serving(f)
BY DEF Goes, Serving

LEMMA TimerNext == SockInv /\ TimerInv /\ [Next]_vars => TimerInv'
<1> SUFFICES ASSUME SockInv, TimerInv, [Next]_vars PROVE TimerInv'
  OBVIOUS
<1> DEFINE n(e) == Cardinality(Serving(e))
<1>0. \A e \in EngineSet : n(e) \in Nat /\ serversTimeout[e] \in Nat /\ timer[e] \in BOOLEAN
  BY ServingFinite DEF TimerInv
<1>1. CASE SameSockets /\ UNCHANGED <<serversTimeout, timer>>
  <2>1. \A e \in EngineSet : Serving(e)' = Serving(e)
    BY <1>1, SameOpen DEF Serving
  <2> QED BY <1>1, <2>1 DEF TimerInv
<1>2. ASSUME NEW s \in Sockets, NEW e \in EngineSet, NEW l \in Listeners,
             Comes(s, e, l), StartSocketTimeout(e, l)
      PROVE  TimerInv'
  <2>1. /\ Serving(e)' = Serving(e) \cup {l}
        /\ \A f \in EngineSet : f # e => Serving(f)' = Serving(f)
    BY <1>2, ServingComes
  <2>2. n(e)' <= n(e) + 1
    <3>1. /\ IsFiniteSet(Serving(e))
          /\ Cardinality(Serving(e) \cup {l}) = IF l \in Serving(e) THEN n(e) ELSE n(e) + 1
      BY ServingFinite, FS_AddElement
    <3> QED BY <1>0, <2>1, <3>1
  <2>3. n(e)' \in Nat
    BY <2>1, ServingFinite, FS_AddElement, FS_CardinalityType
  <2>4. /\ serversTimeout' \in [EngineSet -> Nat] /\ serversTimeout'[e] = serversTimeout[e] + 1
        /\ \A f \in EngineSet : f # e => serversTimeout'[f] = serversTimeout[f]
    BY <1>0, <1>2 DEF StartSocketTimeout, TimerInv
  <2>5. /\ timer' \in [EngineSet -> BOOLEAN] /\ timer'[e] = (timer[e] \/ serversTimeout'[e] = 1)
        /\ \A f \in EngineSet : f # e => timer'[f] = timer[f]
    BY <1>0, <1>2 DEF StartSocketTimeout, TimerInv
  <2>6. timer'[e]
    BY <1>0, <2>4, <2>5 DEF TimerInv
  <2>7. \A f \in EngineSet : serversTimeout'[f] >= n(f)'
    BY <1>0, <2>1, <2>2, <2>3, <2>4 DEF TimerInv
  <2> QED BY <2>4, <2>5, <2>6, <2>7 DEF TimerInv
<1>3. ASSUME NEW s \in Sockets, NEW e \in EngineSet, NEW l \in Listeners,
             Alive(s), sock[s].engine = e, sock[s].listener = l, Finished(s, e)
      PROVE  TimerInv'
  <2>1. Goes(s, e, l)
    BY <1>3, FinishedGoes DEF Finished
  <2>2. CASE Open(e, l) = {s}
    <3>1. /\ l \in Serving(e) /\ Serving(e)' = Serving(e) \ {l}
          /\ \A f \in EngineSet : f # e => Serving(f)' = Serving(f)
      BY <2>1, <2>2, ServingGoes
    <3>2. n(e)' = n(e) - 1 /\ n(e)' \in Nat
      BY <3>1, <1>0, ServingFinite, FS_RemoveElement, FS_CardinalityType
    <3>3. /\ serversTimeout' = [serversTimeout EXCEPT ![e] = @ - 1]
          /\ timer' = [timer EXCEPT ![e] = @ /\ serversTimeout'[e] # 0]
      BY <1>3, <2>2 DEF Finished
    <3>4. serversTimeout[e] - 1 \in Nat
      BY <1>0, <2>1, <3>2 DEF TimerInv
    <3>5. /\ serversTimeout' \in [EngineSet -> Nat] /\ serversTimeout'[e] = serversTimeout[e] - 1
          /\ \A f \in EngineSet : f # e => serversTimeout'[f] = serversTimeout[f]
      BY <2>1, <3>3, <3>4 DEF TimerInv
    <3>6. /\ timer' \in [EngineSet -> BOOLEAN] /\ timer'[e] = (timer[e] /\ serversTimeout'[e] # 0)
          /\ \A f \in EngineSet : f # e => timer'[f] = timer[f]
      BY <1>0, <2>1, <3>3 DEF TimerInv
    <3>7. \A f \in EngineSet : serversTimeout'[f] >= n(f)'
      <4>1. \A f \in EngineSet : f # e => n(f)' = n(f)
        BY <3>1
      <4>2. \A f \in EngineSet : serversTimeout[f] >= n(f)
        BY DEF TimerInv
      <4> HIDE DEF n
      <4> QED BY <1>0, <3>2, <3>5, <4>1, <4>2
    <3>8. \A f \in EngineSet : serversTimeout'[f] # 0 => timer'[f]
      <4>1. serversTimeout'[e] # 0 => timer'[e]
        <5>1. serversTimeout[e] # 0
          BY <1>0, <2>1, <3>4
        <5> QED BY <5>1, <2>1, <3>6 DEF TimerInv
      <4> QED BY <4>1, <3>5, <3>6 DEF TimerInv
    <3> QED BY <3>5, <3>6, <3>7, <3>8 DEF TimerInv
  <2>3. CASE Open(e, l) # {s}
    <3>1. \A f \in EngineSet : Serving(f)' = Serving(f)
      BY <2>1, <2>3, ServingGoes
    <3>2. UNCHANGED <<serversTimeout, timer>>
      BY <1>3, <2>3 DEF Finished
    <3> QED BY <3>1, <3>2 DEF TimerInv
  <2> QED BY <2>2, <2>3
<1> QED BY <1>1, <1>2, <1>3, ConnectionSteps

LEMMA TimerInit == Init => TimerInv
<1> SUFFICES ASSUME Init PROVE TimerInv
  OBVIOUS
<1>1. \A e \in EngineSet : Serving(e) = {}
  BY DEF Init, Serving, Open, NoSocket
<1>2. Cardinality({}) = 0
  BY FS_EmptySet
<1>3. /\ serversTimeout = [e \in EngineSet |-> 0] /\ timer = [e \in EngineSet |-> FALSE]
  BY DEF Init
<1> QED BY <1>1, <1>2, <1>3 DEF TimerInv

\* A worker with connections closes the idle ones: the timer of an engine runs as
\* long as one of its listeners has a connection (startSocketTimeout,
\* stopSocketTimeout), for any number of signals, with a balancer or without.
THEOREM TimerWhileOpen == Spec => []TimeoutRuns
<1>1. Init => SockInv /\ TimerInv
  BY InitInv, TimerInit DEF IInv
<1>2. SockInv /\ TimerInv /\ [Next]_vars => (SockInv /\ TimerInv)'
  BY SocketsTyped, TimerNext
<1>3. TimerInv => TimeoutRuns
  <2> SUFFICES ASSUME TimerInv, NEW e \in EngineSet, Served(e) PROVE timer[e]
    BY DEF TimeoutRuns
  <2>1. Serving(e) # {}
    BY DEF Served, Serving
  <2>2. Cardinality(Serving(e)) # 0
    BY <2>1, ServingFinite, FS_EmptySet
  <2>3. serversTimeout[e] # 0
    BY <2>2, ServingFinite DEF TimerInv
  <2> QED BY <2>3 DEF TimerInv
<1> QED BY <1>1, <1>2, <1>3, PTL DEF Spec

----------------------------------------------------------------------------
(* What is in a queue.                                                      *)

In(s, x)     == \E i \in DOMAIN s : s[i] = x
OnceIn(s, x) == \A i, j \in DOMAIN s : s[i] = x /\ s[j] = x => i = j

LEMMA AppendIn ==
    ASSUME NEW s \in Seq(Event), NEW x \in Event
    PROVE  /\ \A y : In(Append(s, x), y) <=> In(s, y) \/ y = x
           /\ \A y : OnceIn(s, y) /\ (y = x => ~In(s, y)) => OnceIn(Append(s, x), y)
           /\ x[1] # "postFork" => (HasFork(Append(s, x)) => HasFork(s))
<1> DEFINE t == Append(s, x)
<1>1. /\ Len(t) = Len(s) + 1 /\ t[Len(s) + 1] = x /\ \A i \in 1 .. Len(s) : t[i] = s[i]
      /\ DOMAIN s = 1 .. Len(s) /\ DOMAIN t = 1 .. Len(s) + 1 /\ Len(s) \in Nat
  OBVIOUS
<1> HIDE DEF t
<1>2. \A i \in DOMAIN t : (i \in DOMAIN s /\ t[i] = s[i]) \/ (i = Len(s) + 1 /\ t[i] = x)
  BY <1>1
<1>3. \A i \in DOMAIN s : i \in DOMAIN t /\ t[i] = s[i]
  BY <1>1
<1>4. Len(s) + 1 \in DOMAIN t /\ t[Len(s) + 1] = x
  BY <1>1
<1>5. \A y : In(t, y) <=> In(s, y) \/ y = x
  BY <1>2, <1>3, <1>4 DEF In
<1>6. \A y : OnceIn(s, y) /\ (y = x => ~In(s, y)) => OnceIn(t, y)
  BY <1>2 DEF In, OnceIn
<1>7. x[1] # "postFork" => (HasFork(t) => HasFork(s))
  BY <1>2 DEF HasFork
<1> QED BY <1>5, <1>6, <1>7 DEF t

LEMMA TailIn ==
    ASSUME NEW s \in Seq(Event), s # <<>>
    PROVE  /\ In(s, Head(s)) /\ (Head(s)[1] = "postFork" => HasFork(s))
           /\ \A y : In(Tail(s), y) => In(s, y)
           /\ \A y : OnceIn(s, y) => OnceIn(Tail(s), y)
           /\ OnceIn(s, Head(s)) => ~In(Tail(s), Head(s))
           /\ HasFork(Tail(s)) => HasFork(s)
<1> DEFINE t == Tail(s)
<1>1. /\ Len(s) \in Nat \ {0} /\ DOMAIN s = 1 .. Len(s)
      /\ DOMAIN t = 1 .. Len(s) - 1 /\ Head(s) = s[1]
      /\ \A i \in 1 .. Len(s) - 1 : t[i] = s[i + 1]
  BY HeadTailProperties
<1> HIDE DEF t
<1>2. \A i \in DOMAIN t : i + 1 \in DOMAIN s /\ t[i] = s[i + 1] /\ i + 1 # 1 /\ i \in Nat
  BY <1>1
<1>3. 1 \in DOMAIN s /\ s[1] = Head(s)
  BY <1>1
<1>4. In(s, Head(s)) /\ (Head(s)[1] = "postFork" => HasFork(s))
  BY <1>3 DEF In, HasFork
<1>5. \A y : In(t, y) => In(s, y)
  BY <1>2 DEF In
<1>6. \A y : OnceIn(s, y) => OnceIn(t, y)
  <2> SUFFICES ASSUME NEW y, OnceIn(s, y), NEW i \in DOMAIN t, NEW j \in DOMAIN t, t[i] = y, t[j] = y
               PROVE  i = j
    BY DEF OnceIn
  <2>1. i + 1 = j + 1 /\ i \in Nat /\ j \in Nat
    BY <1>2 DEF OnceIn
  <2> QED BY <2>1
<1>7. OnceIn(s, Head(s)) => ~In(t, Head(s))
  BY <1>2, <1>3 DEF OnceIn, In
<1>8. HasFork(t) => HasFork(s)
  BY <1>2 DEF HasFork
<1> QED BY <1>4, <1>5, <1>6, <1>7, <1>8 DEF t

\* The engines are told nothing that they were not told in Q.
NothingNew(Q, R) ==
    \A e \in EngineSet : /\ In(R[e], <<"shutdown", e>>) => In(Q[e], <<"shutdown", e>>)
                         /\ OnceIn(Q[e], <<"shutdown", e>>) => OnceIn(R[e], <<"shutdown", e>>)
                         /\ HasFork(R[e]) => HasFork(Q[e])

LEMMA PostedIn ==
    ASSUME NEW Q \in [EngineSet -> Seq(Event)], NEW e \in EngineSet, NEW x \in Event,
           x[1] \notin {"shutdown", "postFork"}
    PROVE  LET T == [Q EXCEPT ![e] = Append(@, x)] IN
           /\ T \in [EngineSet -> Seq(Event)] /\ NothingNew(Q, T)
           /\ \A y : In(T[e], y) <=> In(Q[e], y) \/ y = x
           /\ \A f \in EngineSet : f # e => T[f] = Q[f]
<1> DEFINE T == [Q EXCEPT ![e] = Append(@, x)]
<1>1. /\ Append(Q[e], x) \in Seq(Event) /\ T[e] = Append(Q[e], x) /\ T \in [EngineSet -> Seq(Event)]
      /\ \A f \in EngineSet : f # e => T[f] = Q[f]
  BY AppendProperties
<1>2. /\ \A y : In(T[e], y) <=> In(Q[e], y) \/ y = x
      /\ \A y : OnceIn(Q[e], y) /\ (y = x => ~In(Q[e], y)) => OnceIn(T[e], y)
      /\ HasFork(T[e]) => HasFork(Q[e])
  <2>1. Q[e] \in Seq(Event) /\ x[1] # "postFork"
    OBVIOUS
  <2> HIDE DEF T
  <2> QED BY <1>1, <2>1, AppendIn
<1> HIDE DEF T
<1>3. <<"shutdown", e>> # x
  <2>1. <<"shutdown", e>>[1] = "shutdown"
    OBVIOUS
  <2> QED BY <2>1
<1>4. NothingNew(Q, T)
  BY <1>1, <1>2, <1>3 DEF NothingNew
<1> QED BY <1>1, <1>2, <1>4 DEF T

LEMMA PostedNew ==
    ASSUME NEW Q \in [EngineSet -> Seq(Event)], NEW e \in EngineSet, NEW x \in Event, NEW R,
           x[1] \notin {"shutdown", "postFork"}, R = [Q EXCEPT ![e] = Append(@, x)]
    PROVE  NothingNew(Q, R) /\ \A y : In(R[e], y) <=> In(Q[e], y) \/ y = x
BY PostedIn

LEMMA TakenIn ==
    ASSUME NEW Q \in [EngineSet -> Seq(Event)], NEW e \in EngineSet, Q[e] # <<>>
    PROVE  LET T == [Q EXCEPT ![e] = Tail(@)] IN
           /\ T \in [EngineSet -> Seq(Event)] /\ NothingNew(Q, T)
           /\ In(Q[e], Head(Q[e])) /\ (Head(Q[e])[1] = "postFork" => HasFork(Q[e]))
           /\ \A f \in EngineSet : \A y : In(T[f], y) => In(Q[f], y)
           /\ OnceIn(Q[e], Head(Q[e])) => ~In(T[e], Head(Q[e]))
<1> DEFINE T == [Q EXCEPT ![e] = Tail(@)]
<1>1. /\ Tail(Q[e]) \in Seq(Event) /\ T[e] = Tail(Q[e]) /\ T \in [EngineSet -> Seq(Event)]
      /\ \A f \in EngineSet : f # e => T[f] = Q[f]
  BY HeadTailProperties
<1> HIDE DEF T
<1>2. Q[e] \in Seq(Event)
  OBVIOUS
<1>3. /\ In(Q[e], Head(Q[e])) /\ (Head(Q[e])[1] = "postFork" => HasFork(Q[e]))
      /\ \A y : In(T[e], y) => In(Q[e], y)
      /\ \A y : OnceIn(Q[e], y) => OnceIn(T[e], y)
      /\ OnceIn(Q[e], Head(Q[e])) => ~In(T[e], Head(Q[e]))
      /\ HasFork(T[e]) => HasFork(Q[e])
  BY <1>1, <1>2, TailIn
<1>4. NothingNew(Q, T)
  BY <1>1, <1>3 DEF NothingNew
<1> QED BY <1>1, <1>3, <1>4 DEF T

----------------------------------------------------------------------------
(* The shutdown of the engines.                                             *)

\* A worker that is told once to stop, and whose listeners look for all of their
\* sockets; one that balances is not told.
ToldOnce == /\ Ssl = {}
            /\ \A m \in Modes : m.signals <= 1 /\ (m.balancer => m.signals = 0)

IsClosed(e) == \E l \in Listeners : <<e, l>> \in closed

ModeInv == /\ mode \in Modes /\ signals \in 0 .. mode.signals /\ (pc = "forked" => closed = {})
           /\ \A e \in EngineSet, l \in Listeners : IsClosed(e) => <<e, l>> \in closed

\* What an engine is told.
ToldInv ==
    \A e \in EngineSet :
        /\ signals = 0 => ~In(q[e], <<"shutdown", e>>) /\ (e \in started => ~IsClosed(e))
        /\ OnceIn(q[e], <<"shutdown", e>>)
        /\ e \in started /\ IsClosed(e) => ~In(q[e], <<"shutdown", e>>)
        /\ HasFork(q[e]) => ~IsClosed(e)

\* Sockets belong to engines that have started, and are watched once their engine
\* has shut down.  Only a balancer queues them.
SocketsInv ==
    \A s \in Sockets : sock[s].state \notin {"none", "deleted"} =>
        /\ sock[s].engine \in started /\ pc # "forked"
        /\ sock[s].state = "queued" => mode.balancer
        /\ sock[s].watch = IF IsClosed(sock[s].engine) THEN 1 ELSE 0

\* The listeners of an engine that still run, and after its shutdown those that wait
\* for a socket.
RunningInv ==
    /\ runningServers \in [EngineSet -> Int]
    /\ \A e \in EngineSet :
          /\ ~IsClosed(e) => runningServers[e] = Cardinality(Listeners)
          /\ IsClosed(e) => /\ Serving(e) # {} => runningServers[e] = Cardinality(Serving(e))
                            /\ Serving(e) = {} => runningServers[e] <= 0

\* An engine with running listeners is not told to end.
Lives(e) ==
    /\ ~In(q[Main], <<"completed", e>>) /\ ~In(q[Main], <<"finished", e>>)
    /\ thread[e] \notin {"quit", "done"} /\ e \in engines
LivesInv ==
    /\ thread \in [EngineSet -> {"off", "on", "quit", "done"}]
    /\ pc \in {"forked", "exec", "exited"} /\ (pc = "exited" => exiting) /\ (exiting => engines = {})
    /\ \A e \in EngineSet : /\ runningServers[e] > 0 => Lives(e)
                            /\ pc # "forked" => thread[e] # "off"

WaitInv == ModeInv /\ ToldInv /\ SocketsInv /\ RunningInv /\ LivesInv

LEMMA NothingNewOf ==
    ASSUME NEW Q, NEW R, NEW T, NothingNew(Q, R), NothingNew(R, T) PROVE NothingNew(Q, T)
BY DEF NothingNew

\* Steps that tell the engines nothing.
LEMMA ToldKept ==
    ASSUME ToldInv, NothingNew(q, q'), UNCHANGED <<signals, started, closed>> PROVE ToldInv'
BY DEF ToldInv, NothingNew, IsClosed

\* Steps of no socket.
LEMMA SocketsKept ==
    ASSUME SocketsInv, UNCHANGED <<sock, closed, mode>>, started \subseteq started', pc' # "forked"
    PROVE  SocketsInv'
BY DEF SocketsInv, IsClosed

LEMMA RunningKept ==
    ASSUME RunningInv, SameSockets, UNCHANGED <<closed, runningServers>> PROVE RunningInv'
<1>1. \A e \in EngineSet : Serving(e)' = Serving(e)
  BY SameOpen DEF Serving
<1> QED BY <1>1 DEF RunningInv, IsClosed

LEMMA ModeKept == ASSUME ModeInv, UNCHANGED <<mode, signals, closed>>, pc' # "forked" PROVE ModeInv'
BY DEF ModeInv, IsClosed

\* Steps in which no engine ends and none is told to.
LEMMA LivesKept ==
    ASSUME LivesInv, \A e \in EngineSet : runningServers'[e] > 0 => runningServers[e] > 0,
           \A e \in EngineSet : runningServers'[e] > 0 =>
              /\ In(q'[Main], <<"completed", e>>) => In(q[Main], <<"completed", e>>)
              /\ In(q'[Main], <<"finished", e>>) => In(q[Main], <<"finished", e>>),
           UNCHANGED <<pc, thread, engines, exiting>>
    PROVE  LivesInv'
BY DEF LivesInv, Lives

LEMMA Distinct ==
    ASSUME NEW e, NEW f
    PROVE  /\ <<"completed", e>> # <<"finished", f>> /\ <<"completed", e>> # <<"started", f>>
           /\ <<"completed", e>> # <<"shutdown", f>> /\ <<"finished", e>> # <<"started", f>>
           /\ <<"finished", e>> # <<"shutdown", f>> /\ <<"shutdown", e>> # <<"started", f>>
           /\ <<"postFork", e>> # <<"shutdown", f>> /\ <<"postFork", e>> # <<"completed", f>>
           /\ <<"postFork", e>> # <<"finished", f>>
OBVIOUS

LEMMA WaitPostFork == ASSUME IInv, WaitInv, PostFork PROVE WaitInv'
<1> USE DEF vars, server, counts
<1>1. /\ pc = "forked" /\ pc' = "exec" /\ q' = ToAll("postFork") /\ thread' = [e \in EngineSet |-> "on"]
      /\ UNCHANGED <<mode, server, signals, started, closed, counts, sock>>
  BY DEF PostFork
<1>2. started = {} /\ q = [e \in EngineSet |-> <<>>]
  BY <1>1 DEF IInv, ForkInv
<1>3. \A e \in EngineSet : q[e] = <<>> /\ q'[e] = <<<<"postFork", e>>>>
  BY <1>1, <1>2 DEF ToAll
<1>4. \A e \in EngineSet : \A y : In(q'[e], y) <=> y = <<"postFork", e>>
  <2> TAKE e \in EngineSet
  <2>1. DOMAIN q'[e] = {1} /\ q'[e][1] = <<"postFork", e>>
    BY <1>3
  <2> QED BY <2>1 DEF In
<1>5. \A e \in EngineSet : ~In(q'[e], <<"shutdown", e>>) /\ OnceIn(q'[e], <<"shutdown", e>>)
  <2> TAKE e \in EngineSet
  <2>1. ~In(q'[e], <<"shutdown", e>>)
    BY <1>4, Distinct
  <2> QED BY <2>1 DEF In, OnceIn
<1>6. \A e \in EngineSet : ~In(q'[Main], <<"completed", e>>) /\ ~In(q'[Main], <<"finished", e>>)
  BY <1>4, EnginesAssumption, Distinct
<1>7. \A e \in EngineSet : ~IsClosed(e) /\ ~IsClosed(e)'
  BY <1>1 DEF WaitInv, ModeInv, IsClosed
<1>8. ToldInv'
  BY <1>5, <1>7 DEF ToldInv
<1>9. ModeInv'
  BY <1>1, ModeKept DEF WaitInv
<1>10. SocketsInv'
  BY <1>1, SocketsKept DEF WaitInv
<1>11. RunningInv'
  <2>1. SameSockets
    BY <1>1 DEF SameSockets, Alive
  <2> QED BY <1>1, <2>1, RunningKept DEF WaitInv
<1>12. LivesInv'
  BY <1>1, <1>6 DEF WaitInv, LivesInv, Lives
<1> QED BY <1>8, <1>9, <1>10, <1>11, <1>12 DEF WaitInv

LEMMA WaitSignal == ASSUME ToldOnce, IInv, WaitInv, Signal PROVE WaitInv'
<1> USE DEF vars, server, counts
<1>1. /\ pc = "exec" /\ pc' = pc /\ signals < mode.signals /\ signals' = signals + 1
      /\ q' = ToAll("shutdown")
      /\ UNCHANGED <<mode, server, thread, started, closed, counts, sock>>
  BY DEF Signal
<1>2. mode.signals \in Nat /\ mode.signals <= 1 /\ signals \in Nat
  BY EnginesAssumption DEF ToldOnce, WaitInv, ModeInv
<1>3. signals = 0 /\ signals' = 1 /\ mode.signals = 1
  BY <1>1, <1>2
<1>4. /\ q \in [EngineSet -> Seq(Event)] /\ Main \in EngineSet
      /\ \A e \in EngineSet : <<"shutdown", e>> \in Event /\ <<"shutdown", e>>[1] = "shutdown"
  BY EnginesAssumption, EventTypes DEF IInv, Kept
<1>5. \A e \in EngineSet : q'[e] = Append(q[e], <<"shutdown", e>>) /\ q[e] \in Seq(Event)
  BY <1>1, <1>4 DEF ToAll
<1>6. \A e \in EngineSet : ~In(q[e], <<"shutdown", e>>) /\ OnceIn(q[e], <<"shutdown", e>>)
                           /\ (e \in started => ~IsClosed(e)) /\ (HasFork(q[e]) => ~IsClosed(e))
  BY <1>3 DEF WaitInv, ToldInv
<1>7. \A e \in EngineSet : OnceIn(q'[e], <<"shutdown", e>>) /\ (HasFork(q'[e]) => HasFork(q[e]))
  <2> TAKE e \in EngineSet
  <2>1. /\ q[e] \in Seq(Event) /\ <<"shutdown", e>> \in Event /\ <<"shutdown", e>>[1] # "postFork"
        /\ q'[e] = Append(q[e], <<"shutdown", e>>)
        /\ ~In(q[e], <<"shutdown", e>>) /\ OnceIn(q[e], <<"shutdown", e>>)
    BY <1>4, <1>5, <1>6
  <2> QED BY <2>1, AppendIn
<1>8. ToldInv'
  <2>1. signals' # 0 /\ UNCHANGED <<started, closed>>
    BY <1>1, <1>3
  <2> QED BY <1>6, <1>7, <2>1 DEF ToldInv, IsClosed
<1>9. ModeInv'
  BY <1>1, <1>3 DEF WaitInv, ModeInv, IsClosed
<1>10. SocketsInv'
  BY <1>1, SocketsKept DEF WaitInv
<1>11. RunningInv'
  <2>1. SameSockets
    BY <1>1 DEF SameSockets, Alive
  <2> QED BY <1>1, <2>1, RunningKept DEF WaitInv
<1>12. \A e \in EngineSet : /\ In(q'[Main], <<"completed", e>>) => In(q[Main], <<"completed", e>>)
                            /\ In(q'[Main], <<"finished", e>>) => In(q[Main], <<"finished", e>>)
  <2> TAKE e \in EngineSet
  <2>1. \A y : In(q'[Main], y) <=> In(q[Main], y) \/ y = <<"shutdown", Main>>
    <3>1. /\ q[Main] \in Seq(Event) /\ <<"shutdown", Main>> \in Event
          /\ q'[Main] = Append(q[Main], <<"shutdown", Main>>)
      BY <1>4, <1>5
    <3> QED BY <3>1, AppendIn
  <2> QED BY <2>1, Distinct
<1>13. LivesInv'
  BY <1>1, <1>12, LivesKept DEF WaitInv
<1> QED BY <1>8, <1>9, <1>10, <1>11, <1>13 DEF WaitInv

\* Steps of the main thread that change no socket, and end only engines whose
\* listeners have all ended.
LEMMA WaitMain ==
    ASSUME IInv, WaitInv, MainEvent \/ Exit \/ \E e \in EngineSet : ThreadFinishes(e) PROVE WaitInv'
<1> USE DEF vars, server, counts
<1>1. UNCHANGED <<mode, signals, started, closed, counts, sock>> /\ pc = "exec" /\ pc' # "forked"
  BY DEF MainEvent, Exit, ThreadFinishes, Runs
<1>2. q \in [EngineSet -> Seq(Event)] /\ Main \in EngineSet
  BY EnginesAssumption DEF IInv, Kept
<1>3. NothingNew(q, q') /\ LivesInv'
  <2>1. CASE MainEvent
    <3>1. /\ q[Main] # <<>> /\ q' = [q EXCEPT ![Main] = Tail(@)] /\ pc' = pc
      BY <2>1 DEF MainEvent
    <3>2. /\ NothingNew(q, q') /\ In(q[Main], Head(q[Main]))
          /\ \A y : In(q'[Main], y) => In(q[Main], y)
      BY <1>2, <3>1, TakenIn
    <3>3. CASE Head(q[Main])[1] = "started" /\ UNCHANGED <<engines, exiting, thread>>
      BY <1>1, <3>1, <3>2, <3>3, LivesKept DEF WaitInv
    <3>4. ASSUME NEW e \in EngineSet, Head(q[Main]) = <<"completed", e>>, EngineShutdown(e)
          PROVE  LivesInv'
      <4>1. ~(runningServers[e] > 0)
        BY <3>2, <3>4 DEF WaitInv, LivesInv, Lives
      <4>2. CASE e = Main /\ Erase(e) /\ UNCHANGED thread
        BY <1>1, <3>1, <3>2, <4>1, <4>2 DEF Erase, WaitInv, LivesInv, Lives
      <4>3. CASE thread' = [thread EXCEPT ![e] = "quit"] /\ UNCHANGED <<engines, exiting>>
        BY <1>1, <3>1, <3>2, <4>1, <4>3 DEF WaitInv, LivesInv, Lives
      <4> QED BY <3>4, <4>2, <4>3 DEF EngineShutdown
    <3>5. ASSUME NEW e \in EngineSet, Head(q[Main]) = <<"finished", e>>, Erase(e), UNCHANGED thread
          PROVE  LivesInv'
      <4>1. ~(runningServers[e] > 0)
        BY <3>2, <3>5 DEF WaitInv, LivesInv, Lives
      <4> QED BY <1>1, <3>1, <3>2, <3>5, <4>1 DEF Erase, WaitInv, LivesInv, Lives
    <3> QED BY <2>1, <3>2, <3>3, <3>4, <3>5 DEF MainEvent
  <2>2. CASE Exit
    <3>1. /\ exiting /\ pc' = "exited" /\ UNCHANGED <<q, server, thread>>
      BY <2>2 DEF Exit
    <3> QED BY <1>1, <3>1 DEF NothingNew, WaitInv, LivesInv, Lives
  <2>3. ASSUME NEW e \in EngineSet, ThreadFinishes(e) PROVE NothingNew(q, q') /\ LivesInv'
    <3>1. /\ thread[e] = "quit" /\ thread' = [thread EXCEPT ![e] = "done"] /\ UNCHANGED <<pc, server>>
          /\ q' = [q EXCEPT ![Main] = Append(@, <<"finished", e>>)]
      BY <2>3 DEF ThreadFinishes, Posted
    <3>2. <<"finished", e>> \in Event /\ <<"finished", e>>[1] = "finished"
      BY EventTypes
    <3> DEFINE x == <<"finished", e>>
    <3>3. /\ NothingNew(q, q')
          /\ \A y : In(q'[Main], y) <=> In(q[Main], y) \/ y = x
      <4>1. q' = [q EXCEPT ![Main] = Append(@, x)] /\ x \in Event /\ x[1] \notin {"shutdown", "postFork"}
        BY <3>1, <3>2
      <4> HIDE DEF x
      <4> QED BY <1>2, <4>1, PostedIn
    <3>4. ~(runningServers[e] > 0)
      BY <3>1 DEF WaitInv, LivesInv, Lives
    <3>5. \A f \in EngineSet : /\ In(q'[Main], <<"completed", f>>) => In(q[Main], <<"completed", f>>)
                               /\ In(q'[Main], <<"finished", f>>) => In(q[Main], <<"finished", f>>) \/ f = e
      BY <3>3, Distinct
    <3> QED BY <1>1, <3>1, <3>3, <3>4, <3>5 DEF WaitInv, LivesInv, Lives
  <2> QED BY <2>1, <2>2, <2>3
<1>4. SameSockets
  BY <1>1 DEF SameSockets, Alive
<1> QED BY <1>1, <1>3, <1>4, ModeKept, ToldKept, SocketsKept, RunningKept DEF WaitInv

\* An engine counts down n of its listeners: it is told to end only at zero.
LEMMA ServerShutdownLives ==
    ASSUME LivesInv, NEW e \in EngineSet, NEW n \in Nat, NEW Q \in [EngineSet -> Seq(Event)],
           runningServers \in [EngineSet -> Int], Main \in EngineSet, NothingNew(q, Q),
           \A y : In(Q[Main], y) => In(q[Main], y),
           ServerShutdown(e, n, Q), UNCHANGED <<pc, thread, engines, exiting>>
    PROVE  /\ LivesInv' /\ NothingNew(q, q') /\ runningServers' \in [EngineSet -> Int]
           /\ runningServers'[e] = runningServers[e] - n
           /\ \A f \in EngineSet : f # e => runningServers'[f] = runningServers[f]
<1>1. /\ runningServers' \in [EngineSet -> Int] /\ runningServers'[e] = runningServers[e] - n
      /\ \A f \in EngineSet : f # e => runningServers'[f] = runningServers[f]
  BY DEF ServerShutdown
<1>2. \A f \in EngineSet : runningServers'[f] > 0 => runningServers[f] > 0
  <2>1. runningServers[e] \in Int /\ (runningServers[e] - n > 0 => runningServers[e] > 0)
    OBVIOUS
  <2> QED BY <1>1, <2>1
<1>3. CASE q' = Q
  BY <1>1, <1>2, <1>3, LivesKept
<1>4. CASE /\ runningServers[e] <= n /\ q' = [Q EXCEPT ![Main] = Append(@, <<"completed", e>>)]
  <2> DEFINE x == <<"completed", e>>
  <2>1. x \in Event /\ x[1] \notin {"shutdown", "postFork"} /\ q' = [Q EXCEPT ![Main] = Append(@, x)]
    BY <1>4, EventTypes
  <2> HIDE DEF x
  <2>2. NothingNew(Q, q') /\ \A y : In(q'[Main], y) <=> In(Q[Main], y) \/ y = x
    BY <2>1, PostedIn
  <2>3. NothingNew(q, q')
    BY <2>2, NothingNewOf
  <2>4. ~(runningServers'[e] > 0)
    <3>1. runningServers[e] \in Int
      OBVIOUS
    <3> QED BY <1>1, <1>4, <3>1
  <2>5. \A f \in EngineSet :
           /\ In(q'[Main], <<"completed", f>>) => In(q[Main], <<"completed", f>>) \/ f = e
           /\ In(q'[Main], <<"finished", f>>) => In(q[Main], <<"finished", f>>)
    BY <2>2, Distinct DEF x
  <2> QED BY <1>1, <1>2, <2>3, <2>4, <2>5, LivesKept
<1> QED BY <1>3, <1>4 DEF ServerShutdown

LEMMA WaitStarts ==
    ASSUME IInv, WaitInv, NEW e \in EngineSet, EngineEvent(e), Head(q[e]) = <<"postFork", e>>,
           started' = started \cup {e},
           q' = [[q EXCEPT ![e] = Tail(@)] EXCEPT ![Main] = Append(@, <<"started", e>>)],
           UNCHANGED <<closed, runningServers, sock>>
    PROVE  WaitInv'
<1> USE DEF vars, server, counts
<1> DEFINE Q == [q EXCEPT ![e] = Tail(@)]
           x == <<"started", e>>
<1>1. /\ pc = "exec" /\ UNCHANGED <<mode, pc, server, signals, thread>> /\ q[e] # <<>>
  BY DEF EngineEvent, Runs
<1>2. q \in [EngineSet -> Seq(Event)] /\ Main \in EngineSet /\ x \in Event /\ x[1] = "started"
  BY EnginesAssumption, EventTypes DEF IInv, Kept
<1>3. /\ Q \in [EngineSet -> Seq(Event)] /\ NothingNew(q, Q) /\ HasFork(q[e])
      /\ \A y : In(Q[Main], y) => In(q[Main], y)
  <2>1. <<"postFork", e>>[1] = "postFork"
    OBVIOUS
  <2> HIDE DEF x
  <2> QED BY <1>1, <1>2, <2>1, TakenIn
<1>4. q' = [Q EXCEPT ![Main] = Append(@, x)]
  OBVIOUS
<1> HIDE DEF Q, x
<1>5. NothingNew(Q, q') /\ \A y : In(q'[Main], y) => In(Q[Main], y) \/ y = x
  <2>1. x[1] \notin {"shutdown", "postFork"} /\ x \in Event /\ Main \in EngineSet
    BY <1>2
  <2>2. Q \in [EngineSet -> Seq(Event)]
    BY <1>3
  <2> QED BY <1>4, <2>1, <2>2, PostedNew
<1>6. NothingNew(q, q')
  BY <1>3, <1>5, NothingNewOf
<1>7. ~IsClosed(e)
  BY <1>3 DEF WaitInv, ToldInv
<1>8. ToldInv'
  BY <1>1, <1>6, <1>7 DEF WaitInv, ToldInv, NothingNew, IsClosed
<1>9. \A f \in EngineSet : /\ In(q'[Main], <<"completed", f>>) => In(q[Main], <<"completed", f>>)
                           /\ In(q'[Main], <<"finished", f>>) => In(q[Main], <<"finished", f>>)
  BY <1>3, <1>5, Distinct DEF x
<1>10. LivesInv'
  BY <1>1, <1>9, LivesKept DEF WaitInv
<1>11. SameSockets
  BY DEF SameSockets, Alive
<1>12. ModeInv' /\ SocketsInv' /\ RunningInv'
  BY <1>1, <1>11, ModeKept, SocketsKept, RunningKept DEF WaitInv
<1> QED BY <1>8, <1>10, <1>12 DEF WaitInv

\* The listeners of an engine, with and without a connection.
LEMMA Waiting ==
    ASSUME NEW e
    PROVE  /\ Cardinality({l \in Listeners : Open(e, l) = {}}) \in Nat
           /\ Cardinality(Serving(e)) \in Nat /\ Cardinality(Listeners) \in Nat \ {0}
           /\ Cardinality(Listeners) - Cardinality({l \in Listeners : Open(e, l) = {}})
                = Cardinality(Serving(e))
<1> DEFINE N == {l \in Listeners : Open(e, l) = {}}
<1>1. N \in SUBSET Listeners /\ Listeners \ N = Serving(e)
  BY DEF Serving
<1>2. IsFiniteSet(Listeners) /\ Listeners # {}
  BY EnginesAssumption
<1>3. IsFiniteSet(N) /\ Cardinality(N) \in Nat /\ Cardinality(Listeners) \in Nat
  BY <1>1, <1>2, FS_Subset, FS_CardinalityType
<1>4. Cardinality(Listeners) # 0
  BY <1>2, FS_EmptySet
<1>5. Cardinality(Listeners \ N) = Cardinality(Listeners) - Cardinality(Listeners \cap N)
      /\ Listeners \cap N = N
  BY <1>1, <1>2, FS_Difference
<1> QED BY <1>1, <1>3, <1>4, <1>5, ServingFinite

\* An engine shuts down: because it is told to, or because it did not start.
LEMMA WaitShutdown ==
    ASSUME ToldOnce, IInv, WaitInv, NEW e \in EngineSet, EngineEvent(e),
           Head(q[e]) \in {<<"postFork", e>>, <<"shutdown", e>>},
           Shutdown(e, [q EXCEPT ![e] = Tail(@)]), started' = started
    PROVE  WaitInv'
<1> USE DEF vars, server, counts
<1> DEFINE Q == [q EXCEPT ![e] = Tail(@)]
           n == Cardinality({l \in Listeners : Open(e, l) = {}})
<1>1. /\ pc = "exec" /\ UNCHANGED <<mode, pc, server, signals, thread>> /\ q[e] # <<>>
  BY DEF EngineEvent, Runs
<1>2. q \in [EngineSet -> Seq(Event)] /\ Main \in EngineSet /\ SockInv /\ started \subseteq EngineSet
  BY EnginesAssumption DEF IInv, Kept
<1>3. /\ Q \in [EngineSet -> Seq(Event)] /\ NothingNew(q, Q) /\ In(q[e], Head(q[e]))
      /\ Head(q[e])[1] = "postFork" => HasFork(q[e])
      /\ OnceIn(q[e], Head(q[e])) => ~In(Q[e], Head(q[e]))
      /\ \A y : In(Q[Main], y) => In(q[Main], y)
  BY <1>1, <1>2, TakenIn
<1>4. ServerShutdown(e, n, Q) /\ closed' = closed \cup ({e} \X Listeners)
  BY DEF Shutdown
<1>5. /\ SameSockets
      /\ \A r \in Sockets : sock'[r] = sock[r] \/
           \E l \in Listeners : /\ r \in Open(e, l) /\ sock'[r].watch = sock[r].watch + 1
      /\ \A r \in Sockets, l \in Listeners : r \in Open(e, l) => sock'[r].watch = sock[r].watch + 1
  <2> HIDE DEF Q
  <2>1. Shutdown(e, Q)
    BY DEF Q
  <2> QED BY <1>2, <2>1, ShutdownKeeps DEF ToldOnce
<1>6. n \in Nat /\ Cardinality(Listeners) - n = Cardinality(Serving(e)) /\ Cardinality(Serving(e)) \in Nat
      /\ Cardinality(Listeners) \in Nat \ {0}
  BY Waiting
<1>7. ~HasFork(Q[e]) /\ (HasFork(q[e]) => e \notin started)
  BY <1>1, TakenKept DEF IInv, Kept
<1> HIDE DEF Q, n
<1>8. /\ LivesInv' /\ NothingNew(q, q') /\ runningServers' \in [EngineSet -> Int]
      /\ runningServers'[e] = runningServers[e] - n
      /\ \A f \in EngineSet : f # e => runningServers'[f] = runningServers[f]
  BY <1>1, <1>2, <1>3, <1>4, <1>6, ServerShutdownLives DEF WaitInv, RunningInv
\* What it is told, it is told no more.
<1>9. \A y : In(q'[e], y) => In(Q[e], y) \/ y = <<"completed", e>>
  <2>1. q' = Q \/ q' = [Q EXCEPT ![Main] = Append(@, <<"completed", e>>)]
    BY <1>4 DEF ServerShutdown
  <2>2. <<"completed", e>> \in Event /\ <<"completed", e>>[1] \notin {"shutdown", "postFork"}
    BY EventTypes
  <2>3. ASSUME NEW x \in Event, x[1] \notin {"shutdown", "postFork"},
               q' = [Q EXCEPT ![Main] = Append(@, x)]
        PROVE  \A y : In(q'[e], y) => In(Q[e], y) \/ y = x
    BY <1>2, <1>3, <2>3, PostedIn
  <2> QED BY <2>1, <2>2, <2>3
<1>10. \A f \in EngineSet : /\ IsClosed(f)' <=> IsClosed(f) \/ f = e
                            /\ f = e => \A l \in Listeners : <<f, l>> \in closed'
  <2>1. Listeners # {}
    BY EnginesAssumption
  <2> QED BY <1>4, <2>1 DEF IsClosed
<1>11. e \in started => /\ Head(q[e]) = <<"shutdown", e>> /\ signals # 0 /\ ~IsClosed(e)
                        /\ ~In(q'[e], <<"shutdown", e>>)
  <2> SUFFICES ASSUME e \in started
               PROVE  /\ Head(q[e]) = <<"shutdown", e>> /\ signals # 0 /\ ~IsClosed(e)
                      /\ ~In(q'[e], <<"shutdown", e>>)
    OBVIOUS
  <2>1. <<"postFork", e>>[1] = "postFork"
    OBVIOUS
  <2>2. Head(q[e]) = <<"shutdown", e>>
    BY <1>3, <1>7, <2>1
  <2>3. signals # 0 /\ ~IsClosed(e) /\ OnceIn(q[e], <<"shutdown", e>>)
    BY <1>3, <2>2 DEF WaitInv, ToldInv
  <2> QED BY <1>3, <1>9, <2>2, <2>3, Distinct
<1>12. e \notin started /\ Head(q[e]) = <<"postFork", e>> => ~IsClosed(e)
  <2>1. <<"postFork", e>>[1] = "postFork"
    OBVIOUS
  <2> QED BY <1>3, <2>1 DEF WaitInv, ToldInv
<1>13. ToldInv'
  <2> SUFFICES ASSUME NEW f \in EngineSet
               PROVE  /\ signals = 0 => ~In(q'[f], <<"shutdown", f>>) /\ (f \in started => ~IsClosed(f)')
                      /\ OnceIn(q'[f], <<"shutdown", f>>)
                      /\ f \in started /\ IsClosed(f)' => ~In(q'[f], <<"shutdown", f>>)
                      /\ HasFork(q'[f]) => ~IsClosed(f)'
    BY <1>1 DEF ToldInv, IsClosed
  <2>1. /\ In(q'[f], <<"shutdown", f>>) => In(q[f], <<"shutdown", f>>)
        /\ OnceIn(q[f], <<"shutdown", f>>) => OnceIn(q'[f], <<"shutdown", f>>)
        /\ HasFork(q'[f]) => HasFork(q[f])
    BY <1>8 DEF NothingNew
  <2>2. /\ signals = 0 => ~In(q[f], <<"shutdown", f>>) /\ (f \in started => ~IsClosed(f))
        /\ OnceIn(q[f], <<"shutdown", f>>)
        /\ f \in started /\ IsClosed(f) => ~In(q[f], <<"shutdown", f>>)
        /\ HasFork(q[f]) => ~IsClosed(f)
    BY DEF WaitInv, ToldInv
  <2>3. CASE f # e
    BY <1>10, <2>1, <2>2, <2>3
  <2>4. CASE f = e
    <3>1. ~HasFork(q'[e])
      <4>1. q' = Q \/ q' = [Q EXCEPT ![Main] = Append(@, <<"completed", e>>)]
        BY <1>4 DEF ServerShutdown
      <4>2. <<"completed", e>> \in Event /\ <<"completed", e>>[1] \notin {"shutdown", "postFork"}
        BY EventTypes
      <4>3. ASSUME NEW x \in Event, x[1] \notin {"shutdown", "postFork"},
                   q' = [Q EXCEPT ![Main] = Append(@, x)]
            PROVE  NothingNew(Q, q')
        BY <1>2, <1>3, <4>3, PostedIn
      <4>4. NothingNew(Q, q') \/ q' = Q
        BY <4>1, <4>2, <4>3
      <4> QED BY <1>7, <4>4 DEF NothingNew
    <3> QED BY <1>11, <2>1, <2>2, <2>4, <3>1
  <2> QED BY <2>3, <2>4
<1>14. ModeInv'
  BY <1>1, <1>4, <1>10 DEF WaitInv, ModeInv, IsClosed
\* The sockets of the engine are watched now, if it has any.
<1>15. SocketsInv'
  <2> SUFFICES ASSUME NEW r \in Sockets, sock'[r].state \notin {"none", "deleted"}
               PROVE  /\ sock'[r].engine \in started
                      /\ sock'[r].state = "queued" => mode.balancer
                      /\ \A f \in EngineSet : sock'[r].engine = f =>
                            sock'[r].watch = IF IsClosed(f)' THEN 1 ELSE 0
    <3>1. started' = started /\ pc' # "forked" /\ mode' = mode
      BY <1>1
    <3> QED BY <1>2, <3>1 DEF SocketsInv, IsClosed
  <2>1. CASE sock'[r] = sock[r] /\ ~(\E l \in Listeners : r \in Open(e, l))
    <3>1. /\ sock[r].engine \in started /\ (sock[r].state = "queued" => mode.balancer)
          /\ sock[r].watch = IF IsClosed(sock[r].engine) THEN 1 ELSE 0
          /\ sock[r] \in Socket
      BY <1>2, <2>1, SocketKnown DEF WaitInv, SocketsInv
    <3>2. sock[r].engine # e
      <4> SUFFICES ASSUME sock[r].engine = e PROVE FALSE
        OBVIOUS
      <4>1. sock[r].state = "queued"
        BY <2>1, <3>1 DEF Open, Socket
      <4>2. mode.balancer /\ signals # 0 /\ mode \in Modes /\ signals \in 0 .. mode.signals
        BY <1>11, <3>1, <4>1 DEF WaitInv, ModeInv
      <4>3. mode.signals = 0
        BY <4>2 DEF ToldOnce
      <4> QED BY <4>2, <4>3
    <3> QED BY <1>10, <2>1, <3>1, <3>2
  <2>2. CASE \E l \in Listeners : r \in Open(e, l)
    <3>1. Alive(r) /\ sock[r].engine = e /\ sock[r].watch = IF IsClosed(e) THEN 1 ELSE 0
      BY <2>2 DEF Open, Alive, WaitInv, SocketsInv
    <3>2. e \in started
      BY <3>1 DEF Alive, WaitInv, SocketsInv
    <3>3. sock'[r].engine = e /\ Alive(r)' /\ sock'[r].watch = 1
      BY <1>5, <1>11, <2>2, <3>1, <3>2 DEF SameSockets
    <3> QED BY <1>10, <3>2, <3>3 DEF Alive
  <2> QED BY <1>5, <2>1, <2>2
<1>16. RunningInv'
  <2>1. \A f \in EngineSet : Serving(f)' = Serving(f)
    BY <1>5, SameOpen DEF Serving
  <2>2. e \notin started => Serving(e) = {}
    BY DEF WaitInv, SocketsInv, Serving, Open
  <2>3. ~IsClosed(e) => runningServers'[e] = Cardinality(Serving(e))
    BY <1>6, <1>8 DEF WaitInv, RunningInv
  <2>4. IsClosed(e) => Serving(e) = {} /\ runningServers'[e] <= 0
    <3> SUFFICES ASSUME IsClosed(e) PROVE Serving(e) = {} /\ runningServers'[e] <= 0
      OBVIOUS
    <3>1. Serving(e) = {}
      BY <1>11, <2>2
    <3>2. runningServers[e] \in Int /\ runningServers[e] <= 0
      BY <3>1 DEF WaitInv, RunningInv
    <3> QED BY <1>6, <1>8, <3>1, <3>2
  <2>5. Serving(e) = {} => Cardinality(Serving(e)) <= 0
    BY FS_EmptySet
  <2>6. /\ Serving(e) # {} => runningServers'[e] = Cardinality(Serving(e))
        /\ Serving(e) = {} => runningServers'[e] <= 0
    BY <2>3, <2>4, <2>5
  <2> QED BY <1>8, <1>10, <2>1, <2>6 DEF RunningInv, WaitInv
<1> QED BY <1>8, <1>13, <1>14, <1>15, <1>16 DEF WaitInv

\* A connection comes, at an engine that has started and not shut down.
LEMMA WaitConnected ==
    ASSUME WaitInv, SockInv, NEW s \in Sockets, ~Alive(s), NEW e \in EngineSet, NEW l \in Listeners,
           e \in started, ~IsClosed(e), pc = "exec", Connected(s, e, l),
           UNCHANGED <<mode, pc, q, server, signals, thread, started, closed, runningServers>>
    PROVE  WaitInv'
<1> USE DEF server
<1>1. Comes(s, e, l)
  BY ConnectedComes DEF Connected
<1>2. \A f \in EngineSet : f # e => Serving(f)' = Serving(f)
  BY <1>1, ServingComes
<1>3. RunningInv'
  BY <1>2 DEF WaitInv, RunningInv, IsClosed
<1>4. SocketsInv'
  <2>1. /\ sock'[s] = [engine |-> e, listener |-> l, watch |-> 0, state |-> "idle"]
        /\ \A r \in Sockets : r # s => sock'[r] = sock[r]
    BY DEF Connected, SockInv
  <2>2. \A f : IsClosed(f)' <=> IsClosed(f)
    BY DEF IsClosed
  <2>3. SocketsInv /\ pc' # "forked" /\ started' = started /\ mode' = mode
    BY DEF WaitInv
  <2> QED BY <2>1, <2>2, <2>3 DEF SocketsInv
<1>5. ModeInv' /\ ToldInv' /\ LivesInv'
  <2>1. NothingNew(q, q')
    BY DEF NothingNew
  <2>2. ToldInv'
    BY <2>1, ToldKept DEF WaitInv
  <2> QED BY <2>2, ModeKept, LivesKept DEF WaitInv
<1> QED BY <1>3, <1>4, <1>5 DEF WaitInv

\* A connection ends: the last one of a listener that has shut down counts it down.
LEMMA WaitFinished ==
    ASSUME IInv, WaitInv, NEW s \in Sockets, NEW e \in EngineSet, NEW l \in Listeners,
           Alive(s), sock[s].engine = e, sock[s].listener = l, Finished(s, e), pc = "exec",
           UNCHANGED <<mode, pc, server, signals, thread, started, closed>>
    PROVE  WaitInv'
<1> USE DEF server
<1>1. SockInv /\ q \in [EngineSet -> Seq(Event)] /\ Main \in EngineSet
  BY EnginesAssumption DEF IInv, Kept
<1>2. sock' = [sock EXCEPT ![s] = Deleted] /\ ServerShutdown(e, Watchers(s), q)
  BY DEF Finished
<1>3. /\ l \in Serving(e)
      /\ Serving(e)' = IF Open(e, l) = {s} THEN Serving(e) \ {l} ELSE Serving(e)
      /\ \A f \in EngineSet : f # e => Serving(f)' = Serving(f)
  <2>1. Goes(s, e, l)
    BY <1>1, <1>2, FinishedGoes
  <2> QED BY <2>1, ServingGoes
<1>4. Watchers(s) = IF Open(e, l) = {s} /\ IsClosed(e) THEN 1 ELSE 0
  BY DEF Watchers, WaitInv, SocketsInv, Alive
<1>5. Watchers(s) \in Nat
  BY <1>4
<1>6. NothingNew(q, q)
  BY DEF NothingNew
<1>7. /\ LivesInv' /\ NothingNew(q, q') /\ runningServers' \in [EngineSet -> Int]
      /\ runningServers'[e] = runningServers[e] - Watchers(s)
      /\ \A f \in EngineSet : f # e => runningServers'[f] = runningServers[f]
  BY <1>1, <1>2, <1>5, <1>6, ServerShutdownLives DEF WaitInv, RunningInv
<1>8. runningServers[e] \in Int
  BY DEF WaitInv, RunningInv
<1>a. RunningInv /\ \A f : IsClosed(f)' <=> IsClosed(f)
  BY DEF WaitInv, IsClosed
<1>9. ASSUME ~IsClosed(e) PROVE RunningInv'
  <2>1. runningServers'[e] = runningServers[e]
    BY <1>4, <1>7, <1>8, <1>9
  <2> QED BY <1>a, <1>3, <1>7, <1>9, <2>1 DEF RunningInv
<1>10. ASSUME IsClosed(e) PROVE RunningInv'
  <2>1. runningServers[e] = Cardinality(Serving(e))
    BY <1>3, <1>10 DEF WaitInv, RunningInv
  <2>2. /\ Serving(e)' # {} => runningServers'[e] = Cardinality(Serving(e)')
        /\ Serving(e)' = {} => runningServers'[e] <= 0
    <3>1. CASE Open(e, l) = {s}
      <4>1. /\ Serving(e)' = Serving(e) \ {l} /\ runningServers'[e] = runningServers[e] - 1
            /\ Cardinality(Serving(e) \ {l}) = Cardinality(Serving(e)) - 1
        BY <1>3, <1>4, <1>7, <1>10, <3>1, ServingFinite, FS_RemoveElement
      <4>2. Cardinality({}) = 0
        BY FS_EmptySet
      <4> QED BY <2>1, <4>1, <4>2
    <3>2. CASE Open(e, l) # {s}
      <4>1. Serving(e)' = Serving(e) /\ Watchers(s) = 0
        BY <1>3, <1>4, <3>2
      <4> QED BY <1>3, <1>7, <1>8, <2>1, <4>1
    <3> QED BY <3>1, <3>2
  <2> QED BY <1>a, <1>3, <1>7, <1>10, <2>2 DEF RunningInv
<1>11. SocketsInv'
  <2>1. sock'[s] = Deleted /\ \A r \in Sockets : r # s => sock'[r] = sock[r]
    BY <1>1, <1>2 DEF SockInv
  <2>2. \A f : IsClosed(f)' <=> IsClosed(f)
    BY DEF IsClosed
  <2>3. SocketsInv /\ pc' # "forked" /\ started' = started /\ mode' = mode
    BY DEF WaitInv
  <2> QED BY <2>1, <2>2, <2>3 DEF SocketsInv, Deleted
<1> QED BY <1>7, <1>9, <1>10, <1>11, ModeKept, ToldKept DEF WaitInv

LEMMA WaitNetwork ==
    ASSUME ToldOnce, IInv, WaitInv, NEW s \in Sockets,
           \/ \E e \in EngineSet, l \in Listeners : Accept(s, e, l) \/ Balance(s, e, l)
           \/ Take(s) \/ Request(s) \/ Answer(s) \/ Closed(s) \/ PeerCloses(s) \/ Timeout(s)
    PROVE  WaitInv'
<1> USE DEF vars, server, counts
<1>1. SockInv
  BY DEF IInv
<1>2. mode.balancer => \A e \in EngineSet : e \in started => ~IsClosed(e)
  <2> SUFFICES ASSUME mode.balancer, NEW e \in EngineSet, e \in started PROVE ~IsClosed(e)
    OBVIOUS
  <2>1. mode \in Modes /\ signals \in 0 .. mode.signals
    BY DEF WaitInv, ModeInv
  <2>2. mode.signals = 0
    BY <2>1 DEF ToldOnce
  <2>3. signals = 0
    BY <2>1, <2>2
  <2> QED BY <2>3 DEF WaitInv, ToldInv
<1>3. ASSUME NEW e \in EngineSet, NEW l \in Listeners, Accept(s, e, l) PROVE WaitInv'
  <2>1. /\ pc = "exec" /\ e \in started /\ <<e, l>> \notin closed /\ sock[s] = NoSocket
        /\ Connected(s, e, l)
        /\ UNCHANGED <<mode, pc, q, server, signals, thread, started, closed, runningServers>>
    BY <1>3 DEF Accept, Runs, IsNext, Sockets
  <2>2. ~IsClosed(e) /\ ~Alive(s)
    BY <2>1 DEF WaitInv, ModeInv, Alive, NoSocket
  <2> QED BY <1>1, <2>1, <2>2, WaitConnected
<1>4. ASSUME NEW e \in EngineSet, NEW l \in Listeners, Balance(s, e, l) PROVE WaitInv'
  <2>1. /\ mode.balancer /\ e \in started /\ sock[s] = NoSocket /\ pc = "exec"
        /\ sock' = [sock EXCEPT ![s] = [engine |-> e, listener |-> l, watch |-> 0, state |-> "queued"]]
        /\ UNCHANGED <<mode, pc, q, server, signals, thread, started, closed, counts>>
    BY <1>4 DEF Balance, Runs, IsNext, Sockets
  <2>2. ~IsClosed(e)
    BY <1>2, <2>1
  <2>3. /\ sock'[s] = [engine |-> e, listener |-> l, watch |-> 0, state |-> "queued"]
        /\ \A r \in Sockets : r # s => sock'[r] = sock[r]
    BY <1>1, <2>1 DEF SockInv
  <2>4. SocketsInv'
    BY <2>1, <2>2, <2>3 DEF WaitInv, SocketsInv, IsClosed
  <2>5. SameSockets
    BY <2>1, <2>3 DEF SameSockets, Alive, NoSocket
  <2>6. NothingNew(q, q')
    BY <2>1 DEF NothingNew
  <2>7. ToldInv' /\ ModeInv' /\ RunningInv'
    BY <2>1, <2>5, <2>6, ToldKept, ModeKept, RunningKept DEF WaitInv
  <2>8. LivesInv'
    BY <2>1, LivesKept DEF WaitInv
  <2> QED BY <2>4, <2>7, <2>8 DEF WaitInv
<1>5. CASE Take(s)
  <2>1. /\ sock[s].state = "queued" /\ pc = "exec"
        /\ UNCHANGED <<mode, pc, q, server, signals, thread, started, closed, runningServers>>
    BY <1>5 DEF Take, Runs
  <2>2. sock[s] \in Socket /\ ~Alive(s)
    BY <1>1, <2>1, SocketKnown DEF Alive
  <2>3. PICK e \in EngineSet, l \in Listeners : sock[s].engine = e /\ sock[s].listener = l
    BY <2>2 DEF Socket
  <2>4. Connected(s, e, l)
    BY <1>5, <2>3 DEF Take, Connected, StartSocketTimeout
  <2>5. e \in started /\ mode.balancer
    BY <2>1, <2>3 DEF WaitInv, SocketsInv
  <2> QED BY <1>1, <1>2, <2>1, <2>2, <2>4, <2>5, WaitConnected
<1>6. CASE Request(s) \/ Answer(s) \/ Closed(s) \/ PeerCloses(s) \/ Timeout(s)
  <2>1. /\ Alive(s) /\ pc = "exec"
        /\ UNCHANGED <<mode, pc, server, signals, thread, started, closed>>
    BY <1>6 DEF Request, Answer, Closed, PeerCloses, Timeout, Alive, Runs
  <2>2. PICK e \in EngineSet, l \in Listeners : sock[s].engine = e /\ sock[s].listener = l
    BY <1>1, <2>1, SocketKnown DEF Alive, Socket
  <2>3. CASE Finished(s, e)
    BY <2>1, <2>2, <2>3, WaitFinished
  <2>4. ASSUME NEW v \in {"idle", "busy", "last", "gone", "closing"},
               sock' = [sock EXCEPT ![s].state = v], UNCHANGED <<q, counts>>
        PROVE  WaitInv'
    <3>1. /\ SameSockets /\ \A r \in Sockets : Alive(r) => sock'[r].watch = sock[r].watch
          /\ \A r \in Sockets : ~Alive(r) => sock'[r] = sock[r]
      BY <1>1, <2>1, <2>4, StateChanges
    <3>2. SocketsInv'
      <4> SUFFICES ASSUME NEW r \in Sockets, sock'[r].state \notin {"none", "deleted"}
                   PROVE  /\ sock'[r].engine \in started
                          /\ sock'[r].state = "queued" => mode.balancer
                          /\ sock'[r].watch = IF IsClosed(sock'[r].engine) THEN 1 ELSE 0
        BY <2>1 DEF SocketsInv, IsClosed
      <4>1. CASE Alive(r)
        <5>1. /\ sock'[r].engine = sock[r].engine /\ sock'[r].watch = sock[r].watch
              /\ sock'[r].state # "queued"
          BY <3>1, <4>1 DEF SameSockets, Alive
        <5> QED BY <4>1, <5>1 DEF WaitInv, SocketsInv, Alive
      <4>2. CASE ~Alive(r)
        BY <3>1, <4>2 DEF WaitInv, SocketsInv
      <4> QED BY <4>1, <4>2
    <3>3. NothingNew(q, q')
      BY <2>4 DEF NothingNew
    <3>4. ToldInv' /\ ModeInv' /\ RunningInv'
      BY <2>1, <2>4, <3>1, <3>3, ToldKept, ModeKept, RunningKept DEF WaitInv
    <3>5. LivesInv'
      BY <2>1, <2>4, LivesKept DEF WaitInv
    <3> QED BY <3>2, <3>4, <3>5 DEF WaitInv
  <2>5. \/ Finished(s, e)
        \/ /\ \/ sock' = [sock EXCEPT ![s].state = "busy"] \/ sock' = [sock EXCEPT ![s].state = "idle"]
              \/ sock' = [sock EXCEPT ![s].state = "closing"] \/ sock' = [sock EXCEPT ![s].state = "gone"]
           /\ UNCHANGED <<q, counts>>
    BY <1>6, <2>2 DEF Request, Answer, Closed, PeerCloses, Timeout
  <2> QED BY <2>3, <2>4, <2>5
<1> QED BY <1>3, <1>4, <1>5, <1>6

LEMMA WaitNext == ToldOnce /\ IInv /\ WaitInv /\ [Next]_vars => WaitInv'
<1> SUFFICES ASSUME ToldOnce, IInv, WaitInv, [Next]_vars PROVE WaitInv'
  OBVIOUS
<1>1. CASE PostFork
  BY <1>1, WaitPostFork
<1>2. CASE Signal
  BY <1>2, WaitSignal
<1>3. CASE MainEvent \/ Exit \/ \E e \in EngineSet : ThreadFinishes(e)
  BY <1>3, WaitMain
<1>4. ASSUME NEW e \in EngineSet, EngineEvent(e) PROVE WaitInv'
  <2>1. CASE /\ Head(q[e]) = <<"postFork", e>> /\ started' = started \cup {e}
             /\ q' = [[q EXCEPT ![e] = Tail(@)] EXCEPT ![Main] = Append(@, <<"started", e>>)]
             /\ UNCHANGED <<closed, runningServers, sock>>
    BY <1>4, <2>1, WaitStarts
  <2>2. CASE /\ Head(q[e]) \in {<<"postFork", e>>, <<"shutdown", e>>}
             /\ Shutdown(e, [q EXCEPT ![e] = Tail(@)]) /\ started' = started
    BY <1>4, <2>2, WaitShutdown
  <2> QED BY <1>4, <2>1, <2>2 DEF EngineEvent
<1>5. CASE Network
  BY <1>5, WaitNetwork DEF Network
<1>6. CASE UNCHANGED vars
  <2>1. /\ UNCHANGED <<mode, pc, q, engines, exiting, signals, thread, started, closed>>
        /\ UNCHANGED <<runningServers, sock>>
    BY <1>6 DEF vars, server, counts
  <2>2. \A e \in EngineSet : Serving(e)' = Serving(e)
    BY <2>1 DEF Serving, Open
  <2> QED BY <2>1, <2>2 DEF WaitInv, ModeInv, ToldInv, SocketsInv, RunningInv, LivesInv, Lives, IsClosed
<1> QED BY <1>1, <1>2, <1>3, <1>4, <1>5, <1>6 DEF Next

LEMMA WaitInit == Init => WaitInv
<1> SUFFICES ASSUME Init PROVE WaitInv
  OBVIOUS
<1>1. \A e \in EngineSet : ~IsClosed(e) /\ q[e] = <<>>
  BY DEF Init, IsClosed
<1>2. \A y : ~In(<<>>, y) /\ OnceIn(<<>>, y)
  BY DEF In, OnceIn
<1>3. ToldInv
  BY <1>1, <1>2, EmptyQueue DEF ToldInv
<1>4. ModeInv
  BY EnginesAssumption DEF Init, ModeInv, IsClosed
<1>5. SocketsInv
  BY DEF Init, SocketsInv, NoSocket
<1>6. RunningInv
  <2>1. Cardinality(Listeners) \in Nat
    BY Waiting
  <2>2. runningServers = [e \in EngineSet |-> Cardinality(Listeners)]
    BY DEF Init
  <2> QED BY <1>1, <2>1, <2>2 DEF RunningInv
<1>7. LivesInv
  <2>1. Main \in EngineSet
    BY EnginesAssumption
  <2> QED BY <1>1, <1>2, <2>1 DEF Init, LivesInv, Lives
<1> QED BY <1>3, <1>4, <1>5, <1>6, <1>7 DEF WaitInv

LEMMA InvWaits == IInv /\ WaitInv => WaitsForSockets
<1> SUFFICES ASSUME IInv, WaitInv, NEW e \in EngineSet, Served(e)
             PROVE  thread[e] = "on" /\ pc = "exec" /\ e \in engines
  BY DEF WaitsForSockets
<1>1. PICK l \in Listeners, s \in Sockets : s \in Open(e, l)
  BY DEF Served, Open
<1>2. e \in started /\ pc # "forked"
  BY <1>1 DEF WaitInv, SocketsInv, Open
<1>3. l \in Serving(e)
  BY <1>1 DEF Serving
<1>4. Cardinality(Serving(e)) \in Nat \ {0} /\ Cardinality(Listeners) \in Nat \ {0}
  BY <1>3, ServingFinite, FS_EmptySet, Waiting
<1>5. runningServers[e] = Cardinality(Serving(e)) \/ runningServers[e] = Cardinality(Listeners)
  BY <1>3 DEF WaitInv, RunningInv
<1>6. Lives(e)
  BY <1>4, <1>5 DEF WaitInv, LivesInv
<1> QED BY <1>2, <1>6 DEF WaitInv, LivesInv, Lives

\* A worker that is told once to stop waits for its connections: no thread quits and
\* the process does not exit while an engine has one, for any engines, listeners and
\* sockets, and any engines that fail to start (ServerEngine::shutdown,
\* TcpServer::shutdown, engineShutdown).
THEOREM ShutdownWaits ==
    ASSUME ToldOnce PROVE Spec => []WaitsForSockets
<1>1. Init => IInv /\ WaitInv
  BY InitInv, WaitInit
<1>2. (IInv /\ WaitInv) /\ [Next]_vars => (IInv /\ WaitInv)'
  BY NextInv, WaitNext
<1>3. IInv /\ WaitInv => WaitsForSockets
  BY InvWaits
<1> QED BY <1>1, <1>2, <1>3, PTL DEF Spec
=============================================================================
