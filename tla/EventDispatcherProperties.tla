--------------------- MODULE EventDispatcherProperties ---------------------
(***************************************************************************)
(* What must hold of the event loop in EventDispatcher.                    *)
(***************************************************************************)
EXTENDS EventDispatcher

\* The info of a source is shared by its registrations and by every call that has
\* it in its batch, and lives exactly as long as one of them: it is neither used
\* after it was freed nor leaked (eventdispatcher_epoll_p.h:25-32).
Holders(i) == {k \in DOMAIN stack : i \in stack[k].todo}
Registrations(i) ==
    CASE i = "eventfd" -> 1
      [] i \in Sockets -> Cardinality(on[i])
      [] OTHER -> IF i \in registered THEN 1 ELSE 0
RefsExact == \A i \in Infos : refs[i] = Cardinality(Holders(i)) + Registrations(i)

\* A handler that starts; what an outer call has in its batch.
Starts(i, dir) ==
    /\ stack # <<>> /\ Len(stack') = Len(stack)
    /\ Top'.now = i /\ Top'.dir = dir /\ <<Top.now, Top.dir>> # <<i, dir>>

InOuterBatch(i) == \E k \in 1 .. Len(stack) - 1 : i \in stack[k].todo
StartsAlive ==
    /\ \A t \in Timers \cup Zeros : Starts(t, "") => t \in registered \/ InOuterBatch(t)
    /\ \A s \in Sockets, dir \in Dirs : Starts(s, dir) => <<s, dir>> \notin dead

\* No handler is called for a timer that was stopped or for a notifier that was
\* deleted earlier in the same batch: the object may be gone
\* (eventdispatcher_epoll_p.cpp:89-130).  A timer that an outer call of
\* processEvents has in its batch as well is left out: the reference of that call
\* makes canProcess true for ever.
HandlersAlive == [][StartsAlive]_vars

\* The loop never sleeps on an event that another thread has posted: when epoll_wait
\* would block, that thread is about to write the eventfd, whatever it did between
\* the reading of the eventfd and the reset of m_wakeups
\* (eventdispatcher_epoll.cpp:123-139, _p.cpp:74,106-114,138-153).
Sleeps == Asked /\ Top.wait /\ ~Top.result
NoLostWakeUp ==
    Sleeps /\ posted /\ ~eventfd => other = "swapped" \/ (other = "posted" /\ wakeups = 0)

\* What is registered is waited for, unless a call on the stack excludes it or its
\* handler runs: no order of registering, excluding and nested calls leaves a
\* notifier or a timer behind (socknot_p.cpp:15-177, timers_p.cpp:364-395).
Excluded(what) == \E k \in DOMAIN stack : what \in stack[k].ex
NothingForgotten ==
    /\ \A s \in Sockets : on[s] # {} => s \in watched \/ Excluded("sockets")
    /\ \A t \in Timers \cap registered :
          timer[t] # "off" \/ Excluded("timers") \/ \E k \in DOMAIN stack : stack[k].now = t
=============================================================================
