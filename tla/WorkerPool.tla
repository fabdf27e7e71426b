----------------------------- MODULE WorkerPool -----------------------------
(***************************************************************************)
(* The master process and its workers: UnixFork (and the touch reload of   *)
(* AbstractFork), with the processes, signals and timers it works with.    *)
(*                                                                         *)
(* The master forks the workers in createProcess and then runs an event    *)
(* loop until somebody calls quit; the loop of internalExec forks again    *)
(* what is to be recreated, or ends when the master is terminating.  The   *)
(* handler of a signal only writes a byte to a socket pair that the event  *)
(* loop reads.  A worker is a copy of the master: until it has made its    *)
(* own socket pair, a signal sent to it is written to the master's.        *)
(*                                                                         *)
(* A worker that died five times sleeps before it starts: the counter      *)
(* only decides how long a process stays "starting", and is left out.      *)
(***************************************************************************)
EXTENDS Integers, Sequences, SequencesExt, FiniteSets

CONSTANTS Processes,        \* m_processes
          KillAfter,        \* checks before a restarted worker is killed
          MaxSignals,       \* bound: SIGINTs the master gets from outside
          MaxTouches,       \* bound: changes of a watched file
          MaxDeaths         \* bound: workers that die or hang by themselves

ASSUME PoolAssumption ==
    /\ Processes \in Nat \ {0} /\ KillAfter \in Nat \ {0}
    /\ MaxSignals \in Nat /\ MaxTouches \in Nat /\ MaxDeaths \in Nat

VARIABLES
    proc,               \* the processes of the workers, by pid
    pc,                 \* where internalExec is
    respawn,            \* its local variable
    childs,             \* m_childs: the workers by pid
    recreate,           \* m_recreateWorker, of which only the id is used
    terminating,        \* m_terminating
    count,              \* the static count of handleSigInt
    quit,               \* qApp->quit() was called in this exec()
    pipe,               \* bytes in the socket pair of the signals
    posted,             \* handleSigChld is posted
    checkTimer,         \* m_checkChildRestart exists
    restartTimer,       \* m_restartTimer is active
    deadline,           \* what the timer of the first SIGINT does next
    lastCall,           \* the timer of the fourth one
    signals, touches, deaths,               \* counted for the bounds
    overheard,          \* a reload met a worker that still shared the master's socket pair
    gaveUp,             \* ids whose process ended by itself with status 15
    told                \* pids that were sent SIGQUIT or SIGKILL

os     == <<proc, told>>
fork   == <<childs, recreate, terminating, count, quit, gaveUp>>
loop   == <<pc, respawn>>
timers == <<checkTimer, restartTimer, deadline, lastCall>>
env    == <<signals, touches, deaths, overheard>>
vars   == <<os, fork, loop, pipe, posted, timers, env>>

\* Before it was reaped, no process gives its pid to another one.
Pids  == 1 .. Processes
Ids   == 1 .. Processes
Dead  == {"exited15", "died"}
Alive == {"starting", "running", "stopping", "hung"}
Worker == [id : Ids, restart : 0 .. KillAfter + 1]

TypeOK ==
    /\ proc \in [Pids -> {"none"} \cup Alive \cup Dead]
    /\ pc \in {"create", "exec", "exited"} /\ respawn \in BOOLEAN
    /\ DOMAIN childs \subseteq Pids /\ \A p \in DOMAIN childs : childs[p] \in Worker
    /\ recreate \in Seq(Ids)
    /\ {terminating, quit, posted, checkTimer, restartTimer, lastCall} \subseteq BOOLEAN
    /\ pipe \in Seq({"SIGCHLD", "SIGQUIT"})
    /\ deadline \in {"none", "kill", "quit"}
    /\ {count, touches, deaths} \subseteq Nat /\ signals \in 0 .. MaxSignals
    /\ overheard \in BOOLEAN
    /\ gaveUp \subseteq Ids /\ told \subseteq Pids

Init ==
    /\ proc = [p \in Pids |-> "none"] /\ told = {}
    /\ pc = "create" /\ respawn = FALSE
    /\ childs = <<>> /\ recreate = <<>> /\ terminating = FALSE /\ count = 0
    /\ quit = FALSE /\ gaveUp = {}
    /\ pipe = <<>> /\ posted = FALSE
    /\ checkTimer = FALSE /\ restartTimer = FALSE /\ deadline = "none" /\ lastCall = FALSE
    /\ signals = 0 /\ touches = 0 /\ deaths = 0 /\ overheard = FALSE

----------------------------------------------------------------------------
(* Processes and signals.                                                   *)

\* A second SIGCHLD before the first byte was read adds nothing: the handler
\* reaps all that died.
WithSigChld(bytes) ==
    IF Contains(bytes, "SIGCHLD") THEN bytes ELSE Append(bytes, "SIGCHLD")

\* terminateChild: a running worker starts to shut down, one that has not made
\* its own socket pair yet writes the byte to the master's.
Terminate(pids, bytes) ==
    LET late == {p \in pids : proc[p] = "starting"} IN
    /\ proc' = [p \in Pids |-> IF p \in pids /\ proc[p] = "running" THEN "stopping" ELSE proc[p]]
    /\ told' = told \cup pids
    /\ pipe' = bytes \o [i \in 1 .. Cardinality(late) |-> "SIGQUIT"]

\* killChild.
Kill(pids, bytes) ==
    LET hit == {p \in pids : proc[p] \in Alive} IN
    /\ proc' = [p \in Pids |-> IF p \in hit THEN "died" ELSE proc[p]]
    /\ told' = told \cup pids
    /\ pipe' = IF hit # {} THEN WithSigChld(bytes) ELSE bytes

\* A new worker makes its socket pair and enters its event loop.
WorkerStarts(p) ==
    /\ pc # "exited" /\ proc[p] = "starting"
    /\ proc' = [proc EXCEPT ![p] = "running"]
    /\ UNCHANGED <<told, fork, loop, pipe, posted, timers, env>>

Dies(p, how) ==
    /\ proc' = [proc EXCEPT ![p] = how]
    /\ pipe' = WithSigChld(pipe)
    /\ UNCHANGED <<told, childs, recreate, terminating, count, quit, loop, posted, timers>>

\* A worker whose last connection is gone ends its process with 15.
WorkerExits(p) ==
    /\ pc # "exited" /\ proc[p] = "stopping"
    /\ Dies(p, "exited15") /\ UNCHANGED <<gaveUp, env>>

\* A worker crashes, or gives up because it cannot listen.  (A crash while it
\* shuts down is no different from the end of its shutdown.)
WorkerFails(p) ==
    /\ pc # "exited" /\ deaths < MaxDeaths
    /\ \/ proc[p] \in {"starting", "running"} /\ Dies(p, "died") /\ UNCHANGED gaveUp
       \/ /\ proc[p] = "running" /\ Dies(p, "exited15")
          /\ gaveUp' = IF terminating THEN gaveUp ELSE gaveUp \cup {childs[p].id}
    /\ deaths' = deaths + 1
    /\ UNCHANGED <<signals, touches, overheard>>

\* A worker that shuts down waits for a request that is never answered.
WorkerHangs(p) ==
    /\ pc # "exited" /\ deaths < MaxDeaths /\ proc[p] = "stopping"
    /\ proc' = [proc EXCEPT ![p] = "hung"]
    /\ deaths' = deaths + 1
    /\ UNCHANGED <<told, fork, loop, pipe, posted, timers, signals, touches, overheard>>

\* The master is asked to stop.
SigInt ==
    /\ pc # "exited" /\ signals < MaxSignals
    /\ pipe' = Append(pipe, "SIGQUIT")
    /\ signals' = signals + 1
    /\ UNCHANGED <<os, fork, loop, posted, timers, touches, deaths, overheard>>

----------------------------------------------------------------------------
(* internalExec.                                                            *)

\* createChild for each of the ids, on pids that are free.
CreateChilds(ids, pids) ==
    /\ proc' = [p \in Pids |-> IF p \in ToSet(pids) THEN "starting" ELSE proc[p]]
    /\ told' = told \ ToSet(pids)
    /\ childs' = [p \in DOMAIN childs \cup ToSet(pids) |->
                     IF p \in DOMAIN childs THEN childs[p]
                     ELSE [id |-> ids[CHOOSE i \in DOMAIN ids : pids[i] = p], restart |-> 0]]

\* createProcess; without any worker internalExec returns.
CreateProcess ==
    /\ pc = "create"
    /\ \E ids \in {IF respawn THEN recreate ELSE [i \in Ids |-> i]} :
       \E free \in {SetToSeq({p \in Pids : proc[p] = "none"})} :
          /\ CreateChilds(ids, SubSeq(free, 1, Len(ids)))
          /\ pc' = IF ids = <<>> /\ DOMAIN childs = {} THEN "exited" ELSE "exec"
    /\ recreate' = <<>> /\ respawn' = TRUE
    /\ UNCHANGED <<terminating, count, quit, gaveUp, pipe, posted, timers, env>>

\* The event loop returns after quit: removeTouchReload drops a restart that
\* waits for its second, and the next exec() starts without the call of quit.
LeaveExec ==
    /\ pc = "exec" /\ quit /\ ~terminating
    /\ pc' = "create" /\ quit' = FALSE /\ restartTimer' = FALSE
    /\ UNCHANGED <<os, childs, recreate, terminating, count, gaveUp, respawn, pipe, posted,
                   checkTimer, deadline, lastCall, env>>

\* ... or internalExec does, and with the process all of its state goes.
Exit ==
    /\ pc = "exec" /\ quit /\ terminating
    /\ pc' = "exited" /\ quit' = FALSE
    /\ childs' = <<>> /\ recreate' = <<>> /\ pipe' = <<>> /\ posted' = FALSE /\ count' = 0
    /\ checkTimer' = FALSE /\ restartTimer' = FALSE /\ deadline' = "none" /\ lastCall' = FALSE
    /\ UNCHANGED <<os, terminating, gaveUp, respawn, env>>

----------------------------------------------------------------------------
(* Handlers of the event loop.  Those of the round in which quit was called *)
(* still run.                                                               *)

\* The count is only compared with 2.
Counted(n) == IF n > 2 THEN n ELSE n + 1

\* Wrong variant: no timer.
HandleSigIntWaits ==
    /\ terminating' = TRUE
    /\ IF DOMAIN childs = {}
       THEN pipe' = Tail(pipe) /\ UNCHANGED <<os, count, checkTimer, deadline, lastCall>>
       ELSE /\ checkTimer' = TRUE /\ count' = Counted(count)
            /\ IF count > 2 THEN Kill(DOMAIN childs, Tail(pipe)) ELSE Terminate(DOMAIN childs, Tail(pipe))
            /\ lastCall' = (lastCall \/ count > 2)
            /\ UNCHANGED deadline

\* Wrong variant: workers that had no time to start are left to the timer.
HandleSigIntSpares ==
    /\ terminating' = TRUE /\ pipe' = Tail(pipe)
    /\ checkTimer' = TRUE /\ deadline' = "kill"
    /\ UNCHANGED <<os, count, lastCall>>

\* handleSigInt in the master: the first call starts the timer that kills, the
\* fourth kills.
HandleSigInt ==
    /\ terminating' = TRUE
    /\ IF DOMAIN childs = {}
       THEN pipe' = Tail(pipe) /\ UNCHANGED <<os, count, checkTimer, deadline, lastCall>>
       ELSE /\ checkTimer' = TRUE /\ count' = Counted(count)
            /\ IF count > 2 THEN Kill(DOMAIN childs, Tail(pipe)) ELSE Terminate(DOMAIN childs, Tail(pipe))
            /\ lastCall' = (lastCall \/ count > 2)
            /\ deadline' = IF count = 0 THEN "kill" ELSE deadline

\* The notifier of the socket pair.
ReadSignal ==
    /\ pc = "exec" /\ pipe # <<>>
    /\ \/ /\ Head(pipe) = "SIGCHLD"
          /\ posted' = TRUE /\ pipe' = Tail(pipe)
          /\ UNCHANGED <<os, terminating, count, checkTimer, deadline, lastCall>>
       \/ Head(pipe) = "SIGQUIT" /\ HandleSigInt /\ UNCHANGED posted
    /\ UNCHANGED <<loop, childs, recreate, quit, gaveUp, restartTimer, env>>

\* Wrong variant: one worker for each signal.
ReapedOne ==
    {p \in DOMAIN childs : proc[p] \in Dead /\ \A q \in DOMAIN childs : proc[q] \in Dead => p <= q}

\* What the loop over waitpid in handleSigChld finds.
Reaped == {p \in DOMAIN childs : proc[p] \in Dead}

\* Wrong variant: a worker that is restarted counts as one that gave up.
CheapingRestarted(p) == proc[p] = "exited15"

\* The worker ended by itself with the status of a clean shutdown: it is null.
Cheaping(p) == proc[p] = "exited15" /\ childs[p].restart = 0

Again == {p \in Reaped : ~terminating /\ ~Cheaping(p)}

\* The others are counted up when they are to restart, and in the end killed.
Waiting == {p \in DOMAIN childs \ Reaped : childs[p].restart > 0}

Late == {p \in Waiting : childs[p].restart >= KillAfter}

\* handleSigChld: reaps, remembers whom to fork again, and checks restarts.
HandleSigChld ==
    /\ \E late \in {IF checkTimer THEN Late ELSE {}} :
          /\ proc' = [p \in Pids |-> IF p \in Reaped THEN "none"
                                     ELSE IF p \in late THEN "died" ELSE proc[p]]
          /\ told' = told \cup late
          /\ pipe' = IF late \cap {p \in Pids : proc[p] \in Alive} # {} THEN WithSigChld(pipe) ELSE pipe
    /\ childs' = [p \in DOMAIN childs \ Reaped |->
                     IF checkTimer /\ p \in Waiting THEN [childs[p] EXCEPT !.restart = @ + 1]
                     ELSE childs[p]]
    /\ \E again \in {SetToSeq(Again)} :
          recreate' = recreate \o [i \in DOMAIN again |-> childs[again[i]].id]
    /\ quit' = (quit \/ Again # {} \/ (Reaped # {} /\ Reaped = DOMAIN childs))
    /\ checkTimer' = (checkTimer /\ Waiting # {})
    /\ UNCHANGED <<loop, terminating, count, gaveUp, restartTimer, deadline, lastCall, env>>

SigChldPosted ==
    /\ pc = "exec" /\ posted
    /\ posted' = FALSE
    /\ HandleSigChld

CheckTimeout ==
    /\ pc = "exec" /\ checkTimer
    /\ HandleSigChld /\ UNCHANGED posted

\* fileChanged, only while the watcher of this exec() is installed.
FileChanged ==
    /\ pc = "exec" /\ touches < MaxTouches
    /\ touches' = touches + 1 /\ restartTimer' = TRUE
    /\ UNCHANGED <<os, fork, loop, pipe, posted, checkTimer, deadline, lastCall,
                   signals, deaths, overheard>>

\* restart, a second later. The SIGQUIT that a worker catches before it has made its
\* own socket pair stops the master instead of it.
Restart ==
    /\ pc = "exec" /\ restartTimer
    /\ restartTimer' = FALSE /\ checkTimer' = TRUE
    /\ childs' = [p \in DOMAIN childs |-> [childs[p] EXCEPT !.restart = 1]]
    /\ Terminate(DOMAIN childs, pipe)
    /\ overheard' = (overheard \/ \E p \in DOMAIN childs : proc[p] = "starting")
    /\ UNCHANGED <<loop, recreate, terminating, count, quit, gaveUp, posted, deadline, lastCall,
                   signals, touches, deaths>>

\* The timer of the first SIGINT: kill, and half a minute later quit.
DeadlineTimeout ==
    /\ pc = "exec"
    /\ \/ deadline = "kill" /\ deadline' = "quit" /\ Kill(DOMAIN childs, pipe) /\ UNCHANGED quit
       \/ deadline = "quit" /\ deadline' = "none" /\ quit' = TRUE /\ UNCHANGED <<os, pipe>>
    /\ UNCHANGED <<loop, childs, recreate, terminating, count, gaveUp, posted, checkTimer,
                   restartTimer, lastCall, env>>

\* The timer of the fourth.
LastCallTimeout ==
    /\ pc = "exec" /\ lastCall
    /\ lastCall' = FALSE /\ quit' = TRUE
    /\ UNCHANGED <<os, loop, childs, recreate, terminating, count, gaveUp, pipe, posted,
                   checkTimer, restartTimer, deadline, env>>

----------------------------------------------------------------------------
Master == \/ CreateProcess \/ LeaveExec \/ Exit \/ ReadSignal \/ SigChldPosted \/ CheckTimeout
          \/ Restart \/ DeadlineTimeout \/ LastCallTimeout

Workers == \E p \in Pids : \/ WorkerStarts(p) \/ WorkerExits(p)
                           \/ WorkerFails(p) \/ WorkerHangs(p)

\* When the master has gone nothing more is looked at.
Next == Master \/ Workers \/ SigInt \/ FileChanged

Spec == Init /\ [][Next]_vars

\* The event loop and its timers run, and so does a process; a worker that does
\* not hang finishes its shutdown.  Crashes, signals and changes are not fair.
FairSpec ==
    /\ Spec
    /\ WF_vars(CreateProcess) /\ WF_vars(LeaveExec \/ Exit) /\ WF_vars(ReadSignal)
    /\ WF_vars(SigChldPosted) /\ WF_vars(CheckTimeout) /\ WF_vars(Restart)
    /\ WF_vars(DeadlineTimeout) /\ WF_vars(LastCallTimeout)
    /\ \A p \in Pids : WF_vars(WorkerStarts(p)) /\ WF_vars(WorkerExits(p))
=============================================================================
