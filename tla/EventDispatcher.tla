-------------------------- MODULE EventDispatcher --------------------------
(***************************************************************************)
(* EventDispatcherEPoll: one thread's event loop over epoll, with timers,  *)
(* zero timers, the notifiers of sockets and the eventfd another thread    *)
(* wakes it up with.  What a handler may do in the middle of a batch is    *)
(* the point: register, unregister, delete, and run a loop of its own.     *)
(*                                                                         *)
(* A source is registered once; that a number is used again for another    *)
(* file descriptor is not modelled, nor what epoll reports of a socket     *)
(* whatever its mask is (EPOLLERR, EPOLLHUP).                               *)
(***************************************************************************)
EXTENDS Integers, Sequences, FiniteSets

CONSTANTS Timers, Zeros, Sockets,
          Initial,              \* timers and notifiers registered before the loop
          Calls,                \* of processEvents by handlers: whether it waits, and
                                \* what it excludes
          MaxDepth,             \* of such calls
          MaxPosts              \* events of the other thread

Dirs  == {"r", "w"}
Infos == Timers \cup Zeros \cup Sockets \cup {"eventfd"}
Flags == {"sockets", "timers"}  \* ExcludeSocketNotifiers, X11ExcludeTimers

\* A call that excludes something does not wait.
ASSUME DispatcherAssumption ==
    /\ MaxDepth \in Nat \ {0} /\ MaxPosts \in Nat
    /\ Timers \cap Zeros = {} /\ Timers \cap Sockets = {} /\ Zeros \cap Sockets = {}
    /\ {"eventfd", "posted", "none"} \cap (Timers \cup Zeros \cup Sockets) = {}
    /\ Initial \subseteq Timers \cup Zeros \cup (Sockets \X Dirs)
    /\ Calls \subseteq [wait : BOOLEAN, ex : SUBSET Flags] /\ \A c \in Calls : c.wait => c.ex = {}

VARIABLES
    refs,                       \* of the EpollAbastractEvent of a source
    registered,                 \* m_timers and m_zero_timers
    on, dead,                   \* the notifiers of a socket; those that were deleted
    used,                       \* what was registered once
    timer, active,              \* of a timerfd, and ZeroTimer::active
    watched,                    \* the sockets whose mask in epoll is set
    stack,                      \* the calls of processEvents
    posted, wakeups, eventfd,   \* an event is posted; m_wakeups; the eventfd can be read
    other, posts                \* where the other thread is in postEvent; how often

sources == <<refs, registered, on, dead, used>>
kernel  == <<timer, watched>>
wake    == <<posted, wakeups, eventfd, other, posts>>
vars    == <<sources, kernel, active, stack, wake>>

\* A call of processEvents: the source or posted event whose handler runs, and for
\* which direction; what is left of the batch, and of the directions of a socket.
Frame == [stage : {"posted", "zero", "events"}, wait : BOOLEAN, ex : SUBSET Flags,
          result : BOOLEAN, todo : SUBSET Infos, events : [Sockets -> SUBSET Dirs],
          now : Infos \cup {"posted", "none"}, dir : Dirs \cup {""}, sends : SUBSET Dirs]

TypeOK ==
    /\ refs \in [Infos -> Nat] /\ registered \subseteq Timers \cup Zeros
    /\ on \in [Sockets -> SUBSET Dirs] /\ dead \subseteq Sockets \X Dirs
    /\ used \subseteq Timers \cup Zeros \cup (Sockets \X Dirs)
    /\ timer \in [Timers -> {"off", "armed", "expired"}] /\ active \in [Zeros -> BOOLEAN]
    /\ watched \subseteq Sockets
    /\ stack \in Seq(Frame)
    /\ posted \in BOOLEAN /\ wakeups \in {0, 1} /\ eventfd \in BOOLEAN
    /\ other \in {"idle", "posted", "swapped"} /\ posts \in 0 .. MaxPosts

Init ==
    /\ registered = Initial \cap (Timers \cup Zeros) /\ used = Initial /\ dead = {}
    /\ on = [s \in Sockets |-> {dir \in Dirs : <<s, dir>> \in Initial}]
    /\ refs = [i \in Infos |-> IF i \in Sockets THEN Cardinality(on[i])
                              ELSE IF i \in registered \cup {"eventfd"} THEN 1 ELSE 0]
    /\ timer = [t \in Timers |-> IF t \in registered THEN "armed" ELSE "off"]
    /\ active = [z \in Zeros |-> TRUE]
    /\ watched = {s \in Sockets : on[s] # {}}
    /\ stack = <<>> /\ posted = FALSE /\ wakeups = 0 /\ eventfd = FALSE /\ other = "idle"
    /\ posts = 0

----------------------------------------------------------------------------
Top == stack[Len(stack)]
TopBecomes(f) == stack' = [stack EXCEPT ![Len(stack)] = f]

Runs(stage) == stack # <<>> /\ Top.now = "none" /\ Top.stage = stage

\* The application runs in handlers.
AppRuns == stack # <<>> /\ Top.now # "none" /\ Top.now # "eventfd"

\* Wrong variant: what is alive can be processed.
CanProcessAlive(i) == refs[i] > 0

\* EpollAbastractEvent::canProcess, for what processEvents has referenced.
CanProcess(i) == refs[i] > 1

Ref(is)  == refs' = [i \in Infos |-> refs[i] + (IF i \in is THEN 1 ELSE 0)]
Deref(i) == refs' = [refs EXCEPT ![i] = @ - 1]

\* Done with a source of the batch.
Drop(i) ==
    /\ Deref(i)
    /\ TopBecomes([Top EXCEPT !.now = "none", !.dir = "", !.todo = @ \ {i}, !.sends = {},
                              !.events = [s \in Sockets |-> IF s = i THEN {} ELSE @[s]]])

Call(i) == TopBecomes([Top EXCEPT !.now = i])

----------------------------------------------------------------------------
(* What the application does.                                               *)

RegisterTimer(t) ==
    /\ AppRuns /\ t \notin used
    /\ used' = used \cup {t} /\ registered' = registered \cup {t}
    /\ refs' = [refs EXCEPT ![t] = 1]
    /\ timer' = IF t \in Timers THEN [timer EXCEPT ![t] = "armed"] ELSE timer
    /\ UNCHANGED <<on, dead, watched, active, stack, wake>>

UnregisterTimer(t) ==
    /\ AppRuns /\ t \in registered
    /\ registered' = registered \ {t} /\ Deref(t)
    /\ timer' = IF t \in Timers THEN [timer EXCEPT ![t] = "off"] ELSE timer
    /\ UNCHANGED <<on, dead, used, watched, active, stack, wake>>

NotifierRefs(s) == refs' = [refs EXCEPT ![s] = @ + 1]

\* The first notifier creates the info, the other one uses it.
RegisterNotifier(s, dir) ==
    /\ AppRuns /\ <<s, dir>> \notin used
    /\ on[s] # {} \/ used \cap ({s} \X Dirs) = {}
    /\ used' = used \cup {<<s, dir>>} /\ NotifierRefs(s)
    /\ on' = [on EXCEPT ![s] = @ \cup {dir}] /\ watched' = watched \cup {s}
    /\ UNCHANGED <<registered, dead, timer, active, stack, wake>>

\* setEnabled(false), and the destructor of QSocketNotifier.
UnregisterNotifier(s, dir, deletes) ==
    /\ AppRuns /\ dir \in on[s]
    /\ on' = [on EXCEPT ![s] = @ \ {dir}] /\ Deref(s)
    /\ watched' = IF on'[s] = {} THEN watched \ {s} ELSE watched \cup {s}
    /\ dead' = IF deletes THEN dead \cup {<<s, dir>>} ELSE dead
    /\ UNCHANGED <<registered, used, timer, active, stack, wake>>

\* A call of the event loop, or of a handler.
ProcessEvents(wait, ex) ==
    /\ Len(stack) < MaxDepth
    /\ watched' = IF "sockets" \in ex THEN {} ELSE watched
    /\ timer' = IF "timers" \in ex THEN [t \in Timers |-> "off"] ELSE timer
    /\ stack' = Append(stack, [stage |-> "posted", wait |-> wait, ex |-> ex, result |-> FALSE,
                               todo |-> {}, events |-> [s \in Sockets |-> {}], now |-> "none",
                               dir |-> "", sends |-> {}])
    /\ UNCHANGED <<sources, active, wake>>

----------------------------------------------------------------------------
(* processEvents.                                                           *)

\* What is posted meanwhile is sent too.
SendPostedEvents ==
    /\ Runs("posted") /\ posted /\ posted' = FALSE /\ Call("posted")
    /\ UNCHANGED <<sources, kernel, active, wakeups, eventfd, other, posts>>

\* All zero timers are referenced first.
RefZeroTimers ==
    /\ Runs("posted") /\ ~posted
    /\ \E zs \in {IF "timers" \in Top.ex THEN {} ELSE registered \cap Zeros} :
          Ref(zs) /\ TopBecomes([Top EXCEPT !.stage = "zero", !.todo = zs])
    /\ UNCHANGED <<registered, on, dead, used, kernel, active, wake>>

ZeroTimer(z) ==
    /\ Runs("zero") /\ z \in Top.todo
    /\ IF CanProcess(z) /\ active[z]
       THEN /\ active' = [active EXCEPT ![z] = FALSE]
            /\ TopBecomes([Top EXCEPT !.now = z, !.result = TRUE]) /\ UNCHANGED refs
       ELSE Drop(z) /\ UNCHANGED active
    /\ UNCHANGED <<registered, on, dead, used, kernel, wake>>

\* Only epoll_wait asks what has happened: it happens before it is asked.
Asked == Runs("zero") /\ Top.todo = {}

\* What epoll_wait may return.
Pending(events) ==
    {t \in registered \cap Timers : timer[t] = "expired"} \cup {s \in Sockets : events[s] # {}}
    \cup (IF eventfd THEN {"eventfd"} ELSE {})

\* epoll_wait, for ever when nothing was done; all that it returns is referenced.
\* A socket is ready for anything at any time.
EpollWait ==
    /\ Asked
    /\ \E events \in [Sockets -> SUBSET Dirs] :
          /\ \A s \in Sockets : events[s] \subseteq (IF s \in watched THEN on[s] ELSE {})
          /\ Pending(events) # {} \/ ~Top.wait \/ Top.result
          /\ Ref(Pending(events))
          /\ TopBecomes([Top EXCEPT !.stage = "events", !.todo = Pending(events),
                                    !.wait = FALSE, !.result = FALSE, !.events = events])
    /\ UNCHANGED <<registered, on, dead, used, kernel, active, wake>>

\* What was unregistered meanwhile.
SkipEvent(i) ==
    /\ Runs("events") /\ i \in Top.todo /\ ~CanProcess(i) /\ Drop(i)
    /\ UNCHANGED <<registered, on, dead, used, kernel, active, wake>>

Processes(i) == Runs("events") /\ i \in Top.todo /\ CanProcess(i)

\* wake_up_handler, up to testAndSetRelease.
ReadEventFd ==
    /\ Processes("eventfd") /\ eventfd' = FALSE /\ Call("eventfd")
    /\ UNCHANGED <<sources, kernel, active, posted, wakeups, other, posts>>

\* Wrong variant: m_wakeups stays set.
WakeupsKept == wakeups

WakeupsReset == 0

WokenUp ==
    /\ stack # <<>> /\ Top.now # "none" /\ Top.now = "eventfd"
    /\ wakeups' = WakeupsReset /\ Drop("eventfd")
    /\ UNCHANGED <<registered, on, dead, used, kernel, active, posted, eventfd, other, posts>>

\* TimerInfo::process: the handler is called whatever reading the timerfd returns.
TimerEvent(t) ==
    /\ Processes(t)
    /\ timer' = [timer EXCEPT ![t] = IF @ = "expired" THEN "off" ELSE @]
    /\ Call(t)
    /\ UNCHANGED <<sources, watched, active, wake>>

\* SocketNotifierInfo::process holds the notifiers by pointers that deletion clears.
Send(s, dirs) ==
    IF dirs = {} THEN Drop(s)
    ELSE \E dir \in {IF "r" \in dirs THEN "r" ELSE "w"} :
            TopBecomes([Top EXCEPT !.now = s, !.dir = dir, !.sends = dirs \ {dir}]) /\ UNCHANGED refs

SocketEvent(s) ==
    /\ Processes(s) /\ Send(s, on[s] \cap Top.events[s])
    /\ UNCHANGED <<registered, on, dead, used, timer, watched, active, wake>>

\* A handler returns.
ReturnPosted ==
    /\ Top.now = "posted" /\ TopBecomes([Top EXCEPT !.now = "none"])
    /\ UNCHANGED <<refs, timer, active>>
ReturnZero(z) ==
    /\ Top.now = z /\ active' = [active EXCEPT ![z] = TRUE] /\ Drop(z)
    /\ UNCHANGED timer
ReturnTimer(t) ==
    /\ Top.now = t /\ Drop(t)
    /\ timer' = IF CanProcess(t) /\ t \in registered THEN [timer EXCEPT ![t] = "armed"] ELSE timer
    /\ UNCHANGED active
ReturnSocket(s) ==
    /\ Top.now = s /\ Send(s, {dir \in Top.sends : <<s, dir>> \notin dead})
    /\ UNCHANGED <<timer, active>>

Return ==
    /\ stack # <<>> /\ Top.now # "none"
    /\ \/ ReturnPosted
       \/ \E z \in Zeros : ReturnZero(z)
       \/ \E t \in Timers : ReturnTimer(t)
       \/ \E s \in Sockets : ReturnSocket(s)
    /\ UNCHANGED <<registered, on, dead, used, watched, wake>>

\* Wrong variant: what was excluded stays so.
WatchedAfterNothing == watched

\* disableSocketNotifiers(false).
WatchedAfter == IF "sockets" \in Top.ex THEN {s \in Sockets : on[s] # {}} ELSE watched

EndProcessEvents ==
    /\ Runs("events") /\ Top.todo = {}
    /\ watched' = WatchedAfter
    /\ timer' = IF "timers" \in Top.ex
                THEN [t \in Timers |-> IF t \in registered THEN "armed" ELSE timer[t]] ELSE timer
    /\ stack' = SubSeq(stack, 1, Len(stack) - 1)
    /\ UNCHANGED <<sources, active, wake>>

----------------------------------------------------------------------------
(* The other thread, and the kernel.                                        *)

Post ==
    /\ other = "idle" /\ posts < MaxPosts /\ posts' = posts + 1 /\ posted' = TRUE /\ other' = "posted"
    /\ UNCHANGED <<sources, kernel, active, stack, wakeups, eventfd>>

WakeUp ==
    /\ other = "posted" /\ wakeups' = 1
    /\ other' = IF wakeups = 0 THEN "swapped" ELSE "idle"
    /\ UNCHANGED <<sources, kernel, active, stack, posted, eventfd, posts>>

WriteEventFd ==
    /\ other = "swapped" /\ eventfd' = TRUE /\ other' = "idle"
    /\ UNCHANGED <<sources, kernel, active, stack, posted, wakeups, posts>>

Expire(t) ==
    /\ Asked /\ timer[t] = "armed" /\ timer' = [timer EXCEPT ![t] = "expired"]
    /\ UNCHANGED <<sources, watched, active, stack, wake>>

----------------------------------------------------------------------------
Loop == stack = <<>> /\ ProcessEvents(TRUE, {})
Step == \/ SendPostedEvents \/ RefZeroTimers \/ EpollWait \/ ReadEventFd \/ WokenUp
        \/ EndProcessEvents \/ (\E z \in Zeros : ZeroTimer(z))
        \/ (\E i \in Infos : SkipEvent(i)) \/ (\E t \in Timers : TimerEvent(t))
        \/ (\E s \in Sockets : SocketEvent(s))
App  == \/ \E t \in Timers \cup Zeros : RegisterTimer(t) \/ UnregisterTimer(t)
        \/ \E s \in Sockets, dir \in Dirs :
              RegisterNotifier(s, dir) \/ \E deletes \in BOOLEAN : UnregisterNotifier(s, dir, deletes)
        \/ AppRuns /\ \E c \in Calls : ProcessEvents(c.wait, c.ex)
Wakes  == WakeUp \/ WriteEventFd
Kernel == \E t \in Timers : Expire(t)

Next == Loop \/ Step \/ Return \/ App \/ Post \/ Wakes \/ Kernel

Spec == Init /\ [][Next]_vars
=============================================================================
