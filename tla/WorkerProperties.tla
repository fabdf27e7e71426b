-------------------------- MODULE WorkerProperties --------------------------
(***************************************************************************)
(* What must hold of a master and its workers in WorkerPool.               *)
(***************************************************************************)
EXTENDS WorkerPool

\* Until the master terminates, every configured worker is either known to it
\* under one pid, or waits once to be forked again, or gave up by itself: deaths
\* that are reaped together, during a restart or during another respawn lose
\* none and double none.  And every process that is not reaped is known, so
\* that its death will be (unixfork.cpp:131-153,482-523).
Known(id)   == {p \in DOMAIN childs : childs[p].id = id}
Delayed(id) == {i \in DOMAIN recreate : recreate[i] = id}
WorkersAccounted ==
    respawn /\ pc # "exited" =>
        /\ DOMAIN childs = {p \in Pids : proc[p] # "none"}
        /\ \A id \in Ids : Cardinality(Known(id)) + Cardinality(Delayed(id)) <= 1
        /\ \A id \in Ids : \/ terminating \/ id \in gaveUp
                           \/ Known(id) # {} \/ Delayed(id) # {}

\* The master does not go while a worker runs that it never told to stop,
\* whatever was about to be forked when it was told itself, and it forks none
\* after that (unixfork.cpp:111-129,451-480).
NoOrphan ==
    /\ pc = "exited" => {p \in Pids : proc[p] \in Alive} \subseteq told
    /\ pc = "create" => ~terminating

\* A master that was told to stop does, although workers hang or missed their
\* signal because they had just been forked (unixfork.cpp:464-478,520).
TerminationEnds == terminating ~> pc = "exited"

\* Unless a signal from outside stops it, the master gets all the workers back
\* that did not give up, and restarts each that was to restart
\* (unixfork.cpp:482-541). The one reload that is excused is one that meets a
\* worker still starting: until it has made its own socket pair its SIGQUIT goes
\* to that of the master (unixfork.cpp:246,711,721), which then terminates as if
\* it had been told to, although nobody but the reload asked for anything.
Serving(id) == \E p \in Known(id) : proc[p] = "running" /\ childs[p].restart = 0
WorkersReturn ==
    <>[](signals > 0 \/ overheard \/ \A id \in Ids : Serving(id) \/ id \in gaveUp)
=============================================================================
