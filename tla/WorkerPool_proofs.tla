-------------------------- MODULE WorkerPool_proofs --------------------------
(***************************************************************************)
(* That a master leaves no worker behind which it did not tell to stop, and *)
(* loses and doubles none that it is to fork again, for any number of      *)
(* workers, signals, deaths and changed files.                             *)
(***************************************************************************)
EXTENDS WorkerProperties, FiniteSetTheorems, FunctionTheorems, SequenceTheorems, TLAPS

Running == {p \in Pids : proc[p] \in Alive}

\* Until it goes, the master knows every process that it did not reap.
KnownInv ==
    /\ proc \in [Pids -> {"none"} \cup Alive \cup Dead]
    /\ pc # "exited" => \A p \in Pids : proc[p] # "none" => p \in DOMAIN childs

\* A terminating master has told all of them, and forks none.
ToldInv ==
    /\ terminating \/ pc = "exited" => Running \subseteq told
    /\ pc = "create" => ~terminating

IInv == KnownInv /\ ToldInv

\* What terminateChild and killChild do to the processes: no process comes alive,
\* and those that were named are told.
Touched(pids) ==
    /\ proc' \in [Pids -> {"none"} \cup Alive \cup Dead]
    /\ \A p \in Pids : /\ proc'[p] \in Alive => proc[p] \in Alive
                       /\ proc'[p] # "none" => proc[p] # "none"
    /\ told' = told \cup pids

LEMMA TerminateTouches ==
    ASSUME KnownInv, NEW pids, NEW bytes, Terminate(pids, bytes) PROVE Touched(pids)
BY DEF Terminate, Touched, KnownInv, Alive, Dead

LEMMA KillTouches ==
    ASSUME KnownInv, NEW pids, NEW bytes, Kill(pids, bytes) PROVE Touched(pids)
BY DEF Kill, Touched, KnownInv, Alive, Dead

LEMMA TouchedInv ==
    ASSUME IInv, NEW pids, Touched(pids), UNCHANGED pc, DOMAIN childs' = DOMAIN childs,
           terminating' => terminating \/ DOMAIN childs \subseteq pids, pc # "create"
    PROVE  IInv'
BY DEF IInv, KnownInv, ToldInv, Touched, Running, Alive, Pids

\* Steps that take nothing but life.
LEMMA QuietStep ==
    ASSUME IInv, UNCHANGED <<told, terminating>>, DOMAIN childs' = DOMAIN childs,
           proc' \in [Pids -> {"none"} \cup Alive \cup Dead],
           \A p \in Pids : /\ proc'[p] \in Alive => proc[p] \in Alive
                           /\ proc'[p] # "none" => proc[p] # "none",
           pc' = pc \/ (pc = "exec" /\ pc' = "create" /\ ~terminating)
    PROVE  IInv'
BY DEF IInv, KnownInv, ToldInv, Running, Alive, Pids

LEMMA InitInv == Init => IInv
BY DEF Init, IInv, KnownInv, ToldInv, Running, Alive, Dead, Pids

LEMMA CreateProcessStep == IInv /\ CreateProcess => IInv'
<1> SUFFICES ASSUME IInv, CreateProcess PROVE IInv'
  OBVIOUS
<1>1. PICK ids, free :
          /\ CreateChilds(ids, SubSeq(free, 1, Len(ids)))
          /\ pc' = IF ids = <<>> /\ DOMAIN childs = {} THEN "exited" ELSE "exec"
  BY DEF CreateProcess
<1> DEFINE pids == ToSet(SubSeq(free, 1, Len(ids)))
<1>2. /\ proc' = [p \in Pids |-> IF p \in pids THEN "starting" ELSE proc[p]]
      /\ DOMAIN childs' = DOMAIN childs \cup pids
  BY <1>1 DEF CreateChilds
<1>3. pc = "create" /\ ~terminating /\ UNCHANGED terminating
  BY DEF CreateProcess, IInv, ToldInv
<1>4. pc' = "exited" => Running' = {}
  <2> SUFFICES ASSUME pc' = "exited" PROVE Running' = {}
    OBVIOUS
  <2>1. ids = <<>> /\ DOMAIN childs = {}
    BY <1>1
  <2>2. Len(ids) = 0
    BY <2>1
  <2>3. DOMAIN SubSeq(free, 1, Len(ids)) = 1 .. 0
    BY <2>2
  <2>4. pids = {}
    BY <2>3 DEF ToSet
  <2>5. \A p \in Pids : proc[p] = "none"
    BY <1>3, <2>1 DEF IInv, KnownInv
  <2> QED BY <1>2, <2>4, <2>5 DEF Running, Alive
<1> HIDE DEF pids
<1>5. KnownInv'
  BY <1>2, <1>3 DEF IInv, KnownInv, Alive, Dead
<1>6. ToldInv'
  BY <1>1, <1>3, <1>4 DEF ToldInv
<1> QED BY <1>5, <1>6 DEF IInv

LEMMA HandleSigIntStep == IInv /\ HandleSigInt /\ UNCHANGED <<pc, childs>> /\ pc = "exec" => IInv'
<1> SUFFICES ASSUME IInv, HandleSigInt, UNCHANGED <<pc, childs>>, pc = "exec" PROVE IInv'
  OBVIOUS
<1>1. CASE DOMAIN childs = {}
  <2>1. UNCHANGED <<proc, told>> /\ \A p \in Pids : proc[p] = "none"
    BY <1>1 DEF HandleSigInt, IInv, KnownInv, os
  <2> QED BY <2>1 DEF IInv, KnownInv, ToldInv, Running, Alive
<1>2. CASE DOMAIN childs # {}
  <2>1. Touched(DOMAIN childs)
    BY <1>2, KillTouches, TerminateTouches DEF HandleSigInt, IInv
  <2> QED BY <2>1, TouchedInv
<1> QED BY <1>1, <1>2

LEMMA HandleSigChldStep == IInv /\ HandleSigChld /\ pc = "exec" => IInv'
<1> SUFFICES ASSUME IInv, HandleSigChld, pc = "exec" PROVE IInv'
  OBVIOUS
<1>1. PICK late \in {IF checkTimer THEN Late ELSE {}} :
                  /\ proc' = [p \in Pids |-> IF p \in Reaped THEN "none"
                                             ELSE IF p \in late THEN "died" ELSE proc[p]]
                  /\ told' = told \cup late
  BY DEF HandleSigChld
<1>2. DOMAIN childs' = DOMAIN childs \ Reaped /\ UNCHANGED <<pc, terminating>>
  BY DEF HandleSigChld, loop
<1>3. KnownInv'
  <2>1. proc' \in [Pids -> {"none"} \cup Alive \cup Dead]
    BY <1>1 DEF IInv, KnownInv, Alive, Dead
  <2>2. \A p \in Pids : proc'[p] # "none" => p \notin Reaped /\ (p \in late \/ proc[p] # "none")
    BY <1>1
  <2>3. late \subseteq DOMAIN childs
    BY DEF Late, Waiting
  <2> QED BY <1>2, <2>1, <2>2, <2>3 DEF IInv, KnownInv
<1>4. ToldInv'
  BY <1>1, <1>2 DEF IInv, ToldInv, KnownInv, Running, Alive
<1> QED BY <1>3, <1>4 DEF IInv

LEMMA StepInv == IInv /\ [Next]_vars => IInv'
<1> SUFFICES ASSUME IInv, [Next]_vars PROVE IInv'
  OBVIOUS
<1> USE DEF os, fork, loop, timers, env
<1>1. CASE CreateProcess
  BY <1>1, CreateProcessStep
<1>2. CASE LeaveExec
  BY <1>2, QuietStep DEF LeaveExec, IInv, KnownInv
<1>3. CASE Exit
  BY <1>3 DEF Exit, IInv, KnownInv, ToldInv, Running
<1>4. CASE ReadSignal
  <2>1. pc = "exec" /\ UNCHANGED <<pc, childs>>
    BY <1>4 DEF ReadSignal
  <2>2. CASE HandleSigInt
    BY <2>1, <2>2, HandleSigIntStep
  <2>3. CASE UNCHANGED <<proc, told, terminating>>
    BY <2>1, <2>3, QuietStep DEF IInv, KnownInv
  <2> QED BY <1>4, <2>2, <2>3 DEF ReadSignal
<1>5. CASE SigChldPosted \/ CheckTimeout
  BY <1>5, HandleSigChldStep DEF SigChldPosted, CheckTimeout
<1>6. CASE Restart
  <2>1. Touched(DOMAIN childs)
    BY <1>6, TerminateTouches DEF Restart, IInv
  <2>2. /\ DOMAIN childs' = DOMAIN childs /\ UNCHANGED <<pc, terminating>> /\ pc # "create"
    BY <1>6 DEF Restart
  <2> QED BY <2>1, <2>2, TouchedInv
<1>7. CASE DeadlineTimeout
  <2>1. pc = "exec" /\ UNCHANGED <<pc, childs, terminating>>
    BY <1>7 DEF DeadlineTimeout
  <2>2. CASE Kill(DOMAIN childs, pipe)
    BY <2>1, <2>2, KillTouches, TouchedInv DEF IInv
  <2>3. CASE UNCHANGED <<proc, told>>
    BY <2>1, <2>3, QuietStep DEF IInv, KnownInv
  <2> QED BY <1>7, <2>2, <2>3 DEF DeadlineTimeout
<1>8. CASE Workers
  <2>1. PICK p \in Pids : WorkerStarts(p) \/ WorkerExits(p) \/ WorkerFails(p) \/ WorkerHangs(p)
    BY <1>8 DEF Workers
  <2>2. UNCHANGED <<told, terminating, pc, childs>>
    BY <2>1 DEF WorkerStarts, WorkerExits, WorkerFails, WorkerHangs, Dies
  <2>3. PICK how \in {"running", "hung", "died", "exited15"} :
            proc' = [proc EXCEPT ![p] = how] /\ proc[p] \in Alive
    BY <2>1 DEF WorkerStarts, WorkerExits, WorkerFails, WorkerHangs, Dies, Alive
  <2> QED BY <2>2, <2>3, QuietStep DEF IInv, KnownInv, Alive, Dead
<1>9. CASE SigInt \/ FileChanged \/ LastCallTimeout \/ UNCHANGED vars
  <2>1. UNCHANGED <<proc, told, terminating, pc, childs>>
    BY <1>9 DEF SigInt, FileChanged, LastCallTimeout, vars
  <2> QED BY <2>1, QuietStep DEF IInv, KnownInv
<1> QED BY <1>1, <1>2, <1>3, <1>4, <1>5, <1>6, <1>7, <1>8, <1>9 DEF Next, Master

\* The master knows every process it did not reap, and has told all that run when it
\* terminates (unixfork.cpp:131-153,451-541).
THEOREM ProcessesKnown == Spec => []IInv
BY InitInv, StepInv, PTL DEF Spec

\* A master that exits leaves no running worker that it did not tell to stop, and one
\* that terminates forks none, however many workers it has and whatever they do
\* (unixfork.cpp:111-129,451-480).
THEOREM LeavesNoOrphan == Spec => []NoOrphan
<1>1. IInv => NoOrphan
  BY DEF IInv, ToldInv, Running, NoOrphan
<1> QED BY <1>1, ProcessesKnown, PTL

----------------------------------------------------------------------------
(* Every worker is accounted for.                                           *)

\* Until it goes, m_childs has the processes that were not reaped, and no other.
TableInv ==
    pc # "exited" =>
        /\ DOMAIN childs = {p \in Pids : proc[p] # "none"}
        /\ \A p \in DOMAIN childs : childs[p] \in [id : Ids, restart : Nat]

\* No worker is known twice, or waits twice, or both.
UniqueInv ==
    pc # "exited" =>
        /\ \A p, q \in DOMAIN childs : childs[p].id = childs[q].id => p = q
        /\ recreate \in Seq(Ids)
        /\ \A i, j \in DOMAIN recreate : recreate[i] = recreate[j] => i = j
        /\ \A i \in DOMAIN recreate : \A p \in DOMAIN childs : childs[p].id # recreate[i]

FirstInv == ~respawn => pc = "create" /\ DOMAIN childs = {} /\ recreate = <<>>

\* A worker that is not to restart stops only when the master does, or because it
\* gave up: the status 15 of another one never stands for that.
StoppedInv ==
    pc # "exited" =>
        \A p \in DOMAIN childs : childs[p].restart = 0 =>
            /\ proc[p] \in {"stopping", "hung"} => terminating
            /\ proc[p] = "exited15" => terminating \/ childs[p].id \in gaveUp

KeptInv ==
    respawn /\ pc # "exited" =>
        \A id \in Ids : \/ terminating \/ id \in gaveUp
                        \/ \E p \in DOMAIN childs : childs[p].id = id
                        \/ \E i \in DOMAIN recreate : recreate[i] = id

AccInv == IInv /\ TableInv /\ UniqueInv /\ FirstInv /\ StoppedInv /\ KeptInv

\* A sequence made of a finite set has each of its elements, once.
LEMMA SeqOfSet ==
    ASSUME NEW S, IsFiniteSet(S)
    PROVE  /\ Cardinality(S) \in Nat
           /\ SetToSeq(S) \in [1 .. Cardinality(S) -> S]
           /\ \A i, j \in 1 .. Cardinality(S) : SetToSeq(S)[i] = SetToSeq(S)[j] => i = j
           /\ \A x \in S : \E i \in 1 .. Cardinality(S) : SetToSeq(S)[i] = x
<1> DEFINE n == Cardinality(S)
<1>1. n \in Nat /\ ExistsBijection(1 .. n, S)
  BY FS_CardinalityType
<1>2. PICK f : f \in Bijection(1 .. n, S)
  BY <1>1 DEF ExistsBijection
<1>3. f \in [1 .. n -> S] /\ \A a, b \in 1 .. n : f[a] = f[b] => a = b
  <2> HIDE DEF n
  <2>1. f \in Injection(1 .. n, S)
    BY <1>2, Fun_BijectionProperties
  <2> QED BY <2>1, Fun_InjectionProperties
<1>4. IsInjective(f)
  BY <1>3 DEF IsInjective
<1> DEFINE g == SetToSeq(S)
<1>5. g \in [1 .. n -> S] /\ IsInjective(g)
  BY <1>3, <1>4 DEF SetToSeq
<1>6. \A a, b \in 1 .. n : g[a] = g[b] => a = b
  BY <1>5 DEF IsInjective
<1> HIDE DEF g, n
<1>7. g \in Injection(1 .. n, S)
  BY <1>5, <1>6, Fun_IsInj
<1>8. IsFiniteSet(1 .. n) /\ Cardinality(1 .. n) = n
  BY <1>1, FS_Interval
<1>9. g \in Surjection(1 .. n, S)
  BY <1>7, <1>8, FS_Injection DEF n
<1>10. \A x \in S : \E i \in 1 .. n : g[i] = x
  BY <1>9 DEF Surjection
<1> QED BY <1>1, <1>5, <1>6, <1>10 DEF g, n

\* There are as many free pids as workers that are not running, so each id that waits
\* gets one.
LEMMA PidsSuffice ==
    ASSUME AccInv, pc # "exited", NEW ids \in Seq(Ids),
           \A i, j \in DOMAIN ids : ids[i] = ids[j] => i = j,
           \A i \in DOMAIN ids : \A p \in DOMAIN childs : childs[p].id # ids[i]
    PROVE  Len(ids) <= Cardinality({p \in Pids : proc[p] = "none"})
<1> DEFINE D == DOMAIN childs
           f == [p \in D |-> childs[p].id]
           T == Range(f)
           F == {p \in Pids : proc[p] = "none"}
<1>1. D = {p \in Pids : proc[p] # "none"} /\ \A p \in D : childs[p] \in [id : Ids, restart : Nat]
  BY DEF AccInv, TableInv
<1>2. f \in [D -> Ids] /\ \A p, q \in D : f[p] = f[q] => p = q
  BY <1>1 DEF AccInv, UniqueInv
<1>3. IsFiniteSet(Ids) /\ Cardinality(Ids) = Processes /\ Processes \in Nat /\ Pids = Ids
  BY PoolAssumption, FS_Interval DEF Ids, Pids
<1> DEFINE g == [i \in 1 .. Len(ids) |-> ids[i]]
<1>4. Len(ids) \in Nat /\ DOMAIN ids = 1 .. Len(ids) /\ \A i \in 1 .. Len(ids) : ids[i] \in Ids
  BY LenProperties, ElementOfSeq
<1>5. \A i \in 1 .. Len(ids) : ids[i] \notin {childs[p].id : p \in D}
  BY <1>4
<1>6. T = {childs[p].id : p \in D}
  BY DEF Range
<1> HIDE DEF f, T, D
<1>7. g \in [1 .. Len(ids) -> Ids \ T] /\ \A i, j \in 1 .. Len(ids) : g[i] = g[j] => i = j
  BY <1>4, <1>5, <1>6
<1> HIDE DEF g
<1>8. g \in Injection(1 .. Len(ids), Ids \ T)
  BY <1>7, Fun_IsInj
<1>9. D \subseteq Ids /\ IsFiniteSet(D)
  BY <1>1, <1>3, FS_Subset
<1>10. f \in Injection(D, Ids)
  BY <1>2, Fun_IsInj
<1>11. f \in Bijection(D, T)
  BY <1>10, Fun_InjMeansBijImage DEF T
<1>12. Cardinality(T) = Cardinality(D) /\ IsFiniteSet(T)
  BY <1>9, <1>11, FS_Bijection DEF ExistsBijection
<1>13. T \subseteq Ids
  BY <1>2, Fun_RangeProperties DEF T
<1>14. IsFiniteSet(Ids \ T) /\ Cardinality(Ids \ T) = Processes - Cardinality(T)
  <2>1. Ids \cap T = T
    BY <1>13
  <2> QED BY <2>1, <1>3, FS_Difference
<1>15. Cardinality(Ids \ D) = Processes - Cardinality(D)
  <2>1. Ids \cap D = D
    BY <1>9
  <2> QED BY <2>1, <1>3, FS_Difference
<1>16. F = Ids \ D
  BY <1>1, <1>3
<1>17. Cardinality(1 .. Len(ids)) <= Cardinality(Ids \ T)
  BY <1>8, <1>14, FS_Injection
<1>18. Cardinality(1 .. Len(ids)) = Len(ids)
  BY <1>4, FS_Interval
<1> QED BY <1>12, <1>14, <1>15, <1>16, <1>17, <1>18

LEMMA InitAcc == Init => AccInv
<1> SUFFICES ASSUME Init PROVE AccInv
  OBVIOUS
<1>1. DOMAIN childs = {} /\ recreate = <<>> /\ respawn = FALSE /\ DOMAIN recreate = {}
      /\ recreate \in Seq(Ids)
  BY DEF Init
<1>2. TableInv
  BY <1>1 DEF Init, TableInv
<1>3. UniqueInv /\ StoppedInv /\ KeptInv
  BY <1>1 DEF UniqueInv, StoppedInv, KeptInv
<1>4. FirstInv
  BY <1>1 DEF Init, FirstInv
<1> QED BY InitInv, <1>2, <1>3, <1>4 DEF AccInv

\* Steps that fork and reap nobody.
LEMMA QuietAcc ==
    ASSUME AccInv, IInv', pc # "exited", pc' # "exited", StoppedInv',
           DOMAIN childs' = DOMAIN childs,
           \A p \in DOMAIN childs : /\ childs'[p] \in [id : Ids, restart : Nat]
                                    /\ childs'[p].id = childs[p].id,
           \A p \in Pids : proc'[p] = "none" <=> proc[p] = "none",
           recreate' = recreate, respawn' = respawn, terminating => terminating',
           gaveUp \subseteq gaveUp', respawn \/ pc' = pc
    PROVE  AccInv'
<1>1. TableInv'
  BY DEF AccInv, TableInv
<1>2. UniqueInv'
  BY DEF AccInv, UniqueInv
<1>3. FirstInv'
  BY DEF AccInv, FirstInv
<1>4. KeptInv'
  BY DEF AccInv, KeptInv
<1> QED BY <1>1, <1>2, <1>3, <1>4 DEF AccInv

LEMMA CreateProcessAcc == AccInv /\ CreateProcess => AccInv'
<1> SUFFICES ASSUME AccInv, CreateProcess PROVE AccInv'
  OBVIOUS
<1> DEFINE ids == IF respawn THEN recreate ELSE [i \in Ids |-> i]
           F == {p \in Pids : proc[p] = "none"}
           free == SetToSeq(F)
           pids == SubSeq(free, 1, Len(ids))
           P == {free[i] : i \in 1 .. Len(ids)}
<1>1. /\ CreateChilds(ids, pids) /\ recreate' = <<>> /\ respawn' = TRUE
      /\ UNCHANGED <<terminating, gaveUp>> /\ pc = "create"
  BY DEF CreateProcess
<1>2. /\ ids \in Seq(Ids) /\ \A i, j \in DOMAIN ids : ids[i] = ids[j] => i = j
      /\ \A i \in DOMAIN ids : \A p \in DOMAIN childs : childs[p].id # ids[i]
  <2>1. CASE respawn
    BY <1>1, <2>1 DEF AccInv, UniqueInv
  <2>2. CASE ~respawn
    <3>1. ids = [i \in 1 .. Processes |-> i] /\ Processes \in Nat
      BY <2>2, PoolAssumption DEF Ids
    <3>2. ids \in Seq(1 .. Processes)
      BY <3>1, IsASeq
    <3>3. DOMAIN childs = {}
      BY <2>2 DEF AccInv, FirstInv
    <3> QED BY <3>1, <3>2, <3>3 DEF Ids
  <2> QED BY <2>1, <2>2
<1>3. IsFiniteSet(F) /\ F \subseteq Pids
  <2>1. IsFiniteSet(Pids)
    BY PoolAssumption, FS_Interval DEF Pids
  <2> QED BY <2>1, FS_Subset
<1> DEFINE c == Cardinality(F)
<1>4. c \in Nat /\ free \in [1 .. c -> F] /\ \A i, j \in 1 .. c : free[i] = free[j] => i = j
  BY <1>3, SeqOfSet
<1>5. Len(ids) \in Nat /\ DOMAIN ids = 1 .. Len(ids) /\ \A i \in 1 .. Len(ids) : ids[i] \in Ids
  <2> HIDE DEF ids
  <2> QED BY <1>2, LenProperties, ElementOfSeq
<1>6. Len(ids) <= c
  <2> HIDE DEF ids
  <2> QED BY <1>1, <1>2, PidsSuffice
<1> HIDE DEF ids, c, free
<1>7. pids = [i \in 1 .. Len(ids) |-> free[i]]
  <2>1. free \in Seq(F) /\ Len(free) = c
    BY <1>4, IsASeq, LenProperties
  <2>2. 1 \in 1 .. Len(free) + 1 /\ Len(ids) \in 0 .. Len(free)
    BY <1>4, <1>5, <1>6, <2>1
  <2>3. Len(pids) = Len(ids) /\ pids \in Seq(F) /\ \A i \in 1 .. Len(pids) : pids[i] = free[i]
    BY <2>1, <2>2, <1>5, SubSeqProperties
  <2> HIDE DEF pids
  <2>4. DOMAIN pids = 1 .. Len(ids) /\ pids \in [1 .. Len(ids) -> F]
    BY <2>3, LenProperties
  <2> QED BY <2>3, <2>4
<1>8. ToSet(pids) = P /\ P \subseteq F
  BY <1>4, <1>5, <1>6, <1>7 DEF ToSet
<1>9. DOMAIN childs' = DOMAIN childs \cup P /\ \A p \in DOMAIN childs : childs'[p] = childs[p]
  BY <1>1, <1>8 DEF CreateChilds
<1>10. proc' = [p \in Pids |-> IF p \in P THEN "starting" ELSE proc[p]]
  BY <1>1, <1>8 DEF CreateChilds
<1>11. DOMAIN childs = {p \in Pids : proc[p] # "none"}
  BY <1>1 DEF AccInv, TableInv
<1>12. ASSUME NEW i \in 1 .. Len(ids)
       PROVE  /\ free[i] \in DOMAIN childs' /\ childs'[free[i]] \in [id : Ids, restart : Nat]
              /\ childs'[free[i]].id = ids[i] /\ childs'[free[i]].restart = 0
  <2>1. free[i] \in P /\ free[i] \notin DOMAIN childs
    BY <1>8, <1>11
  <2>2. childs'[free[i]] = [id |-> ids[CHOOSE j \in DOMAIN ids : pids[j] = free[i]], restart |-> 0]
    BY <1>1, <1>8, <2>1 DEF CreateChilds
  <2>3. \A j \in DOMAIN ids : pids[j] = free[i] <=> j = i
    BY <1>4, <1>5, <1>6, <1>7
  <2>4. (CHOOSE j \in DOMAIN ids : pids[j] = free[i]) = i
    BY <1>5, <2>3
  <2>5. childs'[free[i]] = [id |-> ids[i], restart |-> 0] /\ ids[i] \in Ids
    BY <1>5, <2>2, <2>4
  <2> QED BY <1>9, <2>1, <2>5
<1>13. \A p \in DOMAIN childs' : p \in DOMAIN childs \/ \E i \in 1 .. Len(ids) : p = free[i]
  BY <1>9
<1> HIDE DEF pids, F, P
<1>14. TableInv'
  <2>1. \A p \in DOMAIN childs' : childs'[p] \in [id : Ids, restart : Nat]
    BY <1>1, <1>9, <1>12, <1>13 DEF AccInv, TableInv
  <2>2. DOMAIN childs' = {p \in Pids : proc'[p] # "none"}
    BY <1>8, <1>9, <1>10, <1>11 DEF F
  <2> QED BY <2>1, <2>2 DEF TableInv
<1>15. UniqueInv'
  <2>1. \A p, q \in DOMAIN childs : childs[p].id = childs[q].id => p = q
    BY <1>1 DEF AccInv, UniqueInv
  <2>2. \A p \in DOMAIN childs' : \/ p \in DOMAIN childs /\ childs'[p].id = childs[p].id
                                  \/ \E i \in 1 .. Len(ids) : p = free[i] /\ childs'[p].id = ids[i]
    BY <1>9, <1>12, <1>13
  <2>3. \A p, q \in DOMAIN childs' : childs'[p].id = childs'[q].id => p = q
    BY <1>2, <1>5, <2>1, <2>2
  <2>4. DOMAIN recreate' = {} /\ recreate' \in Seq(Ids)
    BY <1>1
  <2> QED BY <2>3, <2>4 DEF UniqueInv
<1>16. StoppedInv'
  <2>1. \A p \in DOMAIN childs : p \notin P
    BY <1>8, <1>11 DEF F
  <2>2. \A p \in P : proc'[p] = "starting"
    BY <1>8, <1>10 DEF F
  <2>3. \A p \in DOMAIN childs : proc'[p] = proc[p]
    BY <1>10, <1>11, <2>1
  <2> QED BY <1>1, <1>9, <2>2, <2>3 DEF StoppedInv, AccInv
<1>17. KeptInv'
  <2>1. ASSUME NEW id \in Ids, respawn, ~terminating, id \notin gaveUp
        PROVE  \E p \in DOMAIN childs' : childs'[p].id = id
    <3>1. \/ \E p \in DOMAIN childs : childs[p].id = id
          \/ \E i \in DOMAIN recreate : recreate[i] = id
      BY <1>1, <2>1 DEF AccInv, KeptInv
    <3>2. ids = recreate
      BY <2>1 DEF ids
    <3> QED BY <1>5, <1>9, <1>12, <3>1, <3>2
  <2>2. ASSUME NEW id \in Ids, ~respawn
        PROVE  \E p \in DOMAIN childs' : childs'[p].id = id
    <3>1. ids[id] = id /\ id \in DOMAIN ids
      BY <2>2 DEF ids
    <3> QED BY <1>5, <1>9, <1>12, <3>1
  <2> QED BY <1>1, <2>1, <2>2 DEF KeptInv
<1>18. FirstInv' /\ IInv'
  BY <1>1, CreateProcessStep DEF FirstInv, AccInv
<1> QED BY <1>14, <1>15, <1>16, <1>17, <1>18 DEF AccInv

LEMMA HandleSigChldAcc == AccInv /\ HandleSigChld /\ pc = "exec" => AccInv'
<1> SUFFICES ASSUME AccInv, HandleSigChld, pc = "exec" PROVE AccInv'
  OBVIOUS
<1> DEFINE again == SetToSeq(Again)
           m == Cardinality(Again)
           n == Len(recreate)
           more == [i \in DOMAIN again |-> childs[again[i]].id]
<1>1. PICK late \in {IF checkTimer THEN Late ELSE {}} :
          proc' = [p \in Pids |-> IF p \in Reaped THEN "none"
                                  ELSE IF p \in late THEN "died" ELSE proc[p]]
  BY DEF HandleSigChld
<1>2. /\ UNCHANGED <<pc, respawn, terminating, gaveUp>>
      /\ childs' = [p \in DOMAIN childs \ Reaped |->
                        IF checkTimer /\ p \in Waiting THEN [childs[p] EXCEPT !.restart = @ + 1]
                        ELSE childs[p]]
      /\ recreate' = recreate \o more
  BY DEF HandleSigChld, loop
<1>3. /\ DOMAIN childs = {p \in Pids : proc[p] # "none"}
      /\ \A p \in DOMAIN childs : childs[p] \in [id : Ids, restart : Nat]
      /\ \A p, q \in DOMAIN childs : childs[p].id = childs[q].id => p = q
      /\ recreate \in Seq(Ids)
      /\ \A i, j \in DOMAIN recreate : recreate[i] = recreate[j] => i = j
      /\ \A i \in DOMAIN recreate : \A p \in DOMAIN childs : childs[p].id # recreate[i]
  BY DEF AccInv, TableInv, UniqueInv
<1>4. Again \subseteq Reaped /\ Reaped \subseteq DOMAIN childs
  BY DEF Again, Reaped
<1>5. IsFiniteSet(Again)
  <2>1. IsFiniteSet(Pids) /\ Again \subseteq Pids
    BY <1>3, <1>4, PoolAssumption, FS_Interval DEF Pids
  <2> QED BY <2>1, FS_Subset
<1>6. /\ m \in Nat /\ again \in [1 .. m -> Again]
      /\ \A i, j \in 1 .. m : again[i] = again[j] => i = j
      /\ \A x \in Again : \E i \in 1 .. m : again[i] = x
  BY <1>5, SeqOfSet
<1> HIDE DEF again, m
<1>7. more \in Seq(Ids) /\ Len(more) = m /\ \A i \in 1 .. m : more[i] = childs[again[i]].id
  <2>1. more \in [1 .. m -> Ids]
    BY <1>3, <1>4, <1>6
  <2> QED BY <1>6, <2>1, IsASeq, LenProperties
<1> HIDE DEF more
<1>8. /\ recreate' \in Seq(Ids) /\ Len(recreate') = n + m /\ n \in Nat
      /\ \A i \in 1 .. n + m : recreate'[i] = IF i <= n THEN recreate[i] ELSE more[i - n]
  <2>1. recreate' = recreate \o more /\ recreate \in Seq(Ids) /\ more \in Seq(Ids) /\ Len(more) = m
    BY <1>2, <1>3, <1>7
  <2>2. Len(recreate) \in Nat
    BY <2>1, LenProperties
  <2> QED BY <2>1, <2>2, ConcatProperties
<1>9. DOMAIN recreate' = 1 .. n + m /\ DOMAIN recreate = 1 .. n
  BY <1>3, <1>8, LenProperties
<1> HIDE DEF n
<1>10. \A i \in DOMAIN recreate' :
          \/ i \in DOMAIN recreate /\ recreate'[i] = recreate[i]
          \/ i - n \in 1 .. m /\ again[i - n] \in Again /\ recreate'[i] = childs[again[i - n]].id
  BY <1>6, <1>7, <1>8, <1>9
<1>11. DOMAIN childs' = DOMAIN childs \ Reaped
  BY <1>2
<1>12. \A p \in DOMAIN childs' : /\ childs'[p] \in [id : Ids, restart : Nat]
                                 /\ childs'[p].id = childs[p].id
                                 /\ childs'[p].restart = 0 => childs[p].restart = 0
  <2> SUFFICES ASSUME NEW p \in DOMAIN childs \ Reaped
               PROVE  /\ childs'[p] \in [id : Ids, restart : Nat]
                      /\ childs'[p].id = childs[p].id
                      /\ childs'[p].restart = 0 => childs[p].restart = 0
    BY <1>11
  <2>1. childs[p] \in [id : Ids, restart : Nat]
    BY <1>3
  <2>2. CASE checkTimer /\ p \in Waiting
    <3>1. childs'[p] = [childs[p] EXCEPT !.restart = @ + 1]
      BY <1>2, <2>2
    <3>2. childs'[p].restart = childs[p].restart + 1 /\ childs[p].restart \in Nat
      BY <2>1, <3>1
    <3> QED BY <2>1, <3>1, <3>2
  <2>3. CASE ~(checkTimer /\ p \in Waiting)
    BY <1>2, <2>1, <2>3
  <2> QED BY <2>2, <2>3
<1>13. TableInv'
  <2>1. late \subseteq DOMAIN childs
    BY DEF Late, Waiting
  <2>2. DOMAIN childs' = {p \in Pids : proc'[p] # "none"}
    BY <1>1, <1>3, <1>11, <2>1
  <2> QED BY <1>12, <2>2 DEF TableInv
<1>14. UniqueInv'
  <2>1. \A p, q \in DOMAIN childs' : childs'[p].id = childs'[q].id => p = q
    BY <1>3, <1>11, <1>12
  <2>2. \A i, j \in DOMAIN recreate' : recreate'[i] = recreate'[j] => i = j
    <3> SUFFICES ASSUME NEW i \in DOMAIN recreate', NEW j \in DOMAIN recreate', i # j
                 PROVE  recreate'[i] # recreate'[j]
      OBVIOUS
    <3>1. i \in Int /\ j \in Int /\ n \in Int
      BY <1>8, <1>9
    <3>2. CASE i \in DOMAIN recreate /\ recreate'[i] = recreate[i]
      BY <1>3, <1>4, <1>10, <3>2
    <3>3. CASE j \in DOMAIN recreate /\ recreate'[j] = recreate[j]
      BY <1>3, <1>4, <1>10, <3>3
    <3>4. CASE /\ i - n \in 1 .. m /\ again[i - n] \in Again /\ recreate'[i] = childs[again[i - n]].id
               /\ j - n \in 1 .. m /\ again[j - n] \in Again /\ recreate'[j] = childs[again[j - n]].id
      <4>1. again[i - n] # again[j - n]
        BY <1>6, <3>1, <3>4
      <4> QED BY <1>3, <1>4, <3>4, <4>1
    <3> QED BY <1>10, <3>2, <3>3, <3>4
  <2>3. \A i \in DOMAIN recreate' : \A p \in DOMAIN childs' : childs'[p].id # recreate'[i]
    <3> SUFFICES ASSUME NEW i \in DOMAIN recreate', NEW p \in DOMAIN childs'
                 PROVE  childs[p].id # recreate'[i]
      BY <1>12
    <3>1. p \in DOMAIN childs /\ p \notin Reaped
      BY <1>11
    <3>2. CASE i \in DOMAIN recreate /\ recreate'[i] = recreate[i]
      BY <1>3, <3>1, <3>2
    <3>3. CASE again[i - n] \in Again /\ recreate'[i] = childs[again[i - n]].id
      BY <1>3, <1>4, <3>1, <3>3
    <3> QED BY <1>10, <3>2, <3>3
  <2> QED BY <1>8, <2>1, <2>2, <2>3 DEF UniqueInv
<1>15. StoppedInv'
  <2>1. \A p \in DOMAIN childs' : childs'[p].restart = 0 => p \notin late
    BY <1>3, <1>11, <1>12, PoolAssumption DEF Late, Waiting
  <2>2. \A p \in DOMAIN childs' : childs'[p].restart = 0 => proc'[p] = proc[p]
    BY <1>1, <1>3, <1>11, <2>1
  <2> QED BY <1>2, <1>11, <1>12, <2>2 DEF StoppedInv, AccInv
<1>16. KeptInv'
  <2> SUFFICES ASSUME NEW id \in Ids, ~terminating, id \notin gaveUp
               PROVE  \/ \E p \in DOMAIN childs' : childs'[p].id = id
                      \/ \E i \in DOMAIN recreate' : recreate'[i] = id
    BY <1>2 DEF KeptInv
  <2>1. respawn
    BY DEF AccInv, FirstInv
  <2>2. CASE \E i \in DOMAIN recreate : recreate[i] = id
    <3>1. PICK i \in 1 .. n : recreate[i] = id
      BY <1>9, <2>2
    <3>2. i \in DOMAIN recreate' /\ recreate'[i] = id
      BY <1>6, <1>8, <1>9, <3>1
    <3> QED BY <3>2
  <2>3. ASSUME NEW p \in DOMAIN childs, childs[p].id = id
        PROVE  \/ \E q \in DOMAIN childs' : childs'[q].id = id
               \/ \E i \in DOMAIN recreate' : recreate'[i] = id
    <3>1. CASE p \notin Reaped
      BY <1>11, <1>12, <2>3, <3>1
    <3>2. CASE p \in Reaped
      <4>1. ~Cheaping(p)
        BY <2>3 DEF Cheaping, AccInv, StoppedInv
      <4>2. p \in Again
        BY <3>2, <4>1 DEF Again
      <4>3. PICK i \in 1 .. m : again[i] = p
        BY <1>6, <4>2
      <4>4. n + i \in 1 .. n + m /\ ~(n + i <= n) /\ (n + i) - n = i
        BY <1>6, <1>8
      <4>5. recreate'[n + i] = more[i]
        BY <1>8, <4>4
      <4> QED BY <1>7, <1>9, <2>3, <4>3, <4>4, <4>5
    <3> QED BY <3>1, <3>2
  <2> QED BY <2>1, <2>2, <2>3 DEF AccInv, KeptInv
<1>17. FirstInv' /\ IInv'
  BY <1>2, HandleSigChldStep DEF FirstInv, AccInv
<1> QED BY <1>13, <1>14, <1>15, <1>16, <1>17 DEF AccInv

\* Steps that leave m_childs alone.
LEMMA SameChilds ==
    ASSUME AccInv, IInv', pc # "exited", pc' # "exited",
           UNCHANGED <<childs, recreate, respawn>>,
           \A p \in Pids : proc'[p] = "none" <=> proc[p] = "none",
           terminating => terminating', gaveUp \subseteq gaveUp', respawn \/ pc' = pc,
           \A p \in DOMAIN childs :
               \/ proc'[p] = proc[p] \/ proc'[p] \notin {"stopping", "hung", "exited15"}
               \/ proc[p] \in {"stopping", "hung"} \/ terminating'
               \/ proc'[p] = "exited15" /\ childs[p].id \in gaveUp'
    PROVE  AccInv'
<1>1. \A p \in DOMAIN childs : childs[p] \in [id : Ids, restart : Nat]
  BY DEF AccInv, TableInv
<1>2. StoppedInv'
  BY DEF AccInv, StoppedInv
<1> QED BY <1>1, <1>2, QuietAcc

LEMMA TerminateKeeps ==
    ASSUME NEW pids, NEW bytes, Terminate(pids, bytes)
    PROVE  \A p \in Pids : proc'[p] = "none" <=> proc[p] = "none"
BY DEF Terminate

LEMMA KillKeeps ==
    ASSUME NEW pids, NEW bytes, Kill(pids, bytes)
    PROVE  \A p \in Pids : /\ proc'[p] = "none" <=> proc[p] = "none"
                           /\ proc'[p] = proc[p] \/ proc'[p] = "died"
BY DEF Kill, Alive

LEMMA WorkersAcc == AccInv /\ IInv' /\ Workers => AccInv'
<1> SUFFICES ASSUME AccInv, IInv',
                    NEW p \in Pids, WorkerStarts(p) \/ WorkerExits(p) \/ WorkerFails(p) \/ WorkerHangs(p)
             PROVE  AccInv'
  BY DEF Workers
<1>1. /\ UNCHANGED <<childs, recreate, terminating, pc, respawn>> /\ pc # "exited"
      /\ gaveUp \subseteq gaveUp'
  BY DEF WorkerStarts, WorkerExits, WorkerFails, WorkerHangs, Dies, fork, loop
<1>2. PICK how \in {"running", "hung", "died", "exited15"} :
          proc' = [proc EXCEPT ![p] = how] /\ proc[p] \in Alive
  BY DEF WorkerStarts, WorkerExits, WorkerFails, WorkerHangs, Dies, Alive
<1>3. proc \in [Pids -> {"none"} \cup Alive \cup Dead]
  BY DEF AccInv, IInv, KnownInv
<1>4. \A q \in Pids : proc'[q] = IF q = p THEN how ELSE proc[q]
  BY <1>2, <1>3
<1>5. \/ proc[p] \in {"stopping", "hung"} \/ terminating
      \/ proc'[p] \notin {"stopping", "hung", "exited15"}
      \/ proc'[p] = "exited15" /\ childs[p].id \in gaveUp'
  BY <1>3 DEF WorkerStarts, WorkerExits, WorkerFails, WorkerHangs, Dies
<1>6. DOMAIN childs \subseteq Pids
  BY <1>1 DEF AccInv, TableInv
<1> QED BY <1>1, <1>2, <1>4, <1>5, <1>6, SameChilds DEF Alive

LEMMA RestartAcc == AccInv /\ IInv' /\ Restart => AccInv'
<1> SUFFICES ASSUME AccInv, IInv', Restart PROVE AccInv'
  OBVIOUS
<1>1. /\ pc = "exec" /\ UNCHANGED <<pc, respawn, recreate, terminating, gaveUp>>
      /\ childs' = [p \in DOMAIN childs |-> [childs[p] EXCEPT !.restart = 1]]
      /\ Terminate(DOMAIN childs, pipe)
  BY DEF Restart, loop
<1>2. \A p \in DOMAIN childs : /\ childs'[p] \in [id : Ids, restart : Nat]
                               /\ childs'[p].id = childs[p].id /\ childs'[p].restart = 1
  BY <1>1 DEF AccInv, TableInv
<1>3. StoppedInv'
  BY <1>1, <1>2 DEF StoppedInv
<1> QED BY <1>1, <1>2, <1>3, QuietAcc, TerminateKeeps

LEMMA StepAcc == AccInv /\ [Next]_vars => AccInv'
<1> SUFFICES ASSUME AccInv, [Next]_vars PROVE AccInv'
  OBVIOUS
<1>1. IInv'
  BY StepInv DEF AccInv
<1>2. DOMAIN childs \subseteq Pids \/ pc = "exited"
  BY DEF AccInv, TableInv
<1> USE DEF os, fork, loop, timers, env
<1>3. CASE CreateProcess
  BY <1>3, CreateProcessAcc
<1>4. CASE LeaveExec
  BY <1>1, <1>4, SameChilds DEF LeaveExec, AccInv, FirstInv
<1>5. CASE Exit
  BY <1>1, <1>5 DEF Exit, AccInv, TableInv, UniqueInv, FirstInv, StoppedInv, KeptInv
<1>6. CASE ReadSignal
  <2>1. pc = "exec" /\ UNCHANGED <<pc, childs, respawn, recreate, gaveUp>>
    BY <1>6 DEF ReadSignal
  <2>2. CASE HandleSigInt
    <3>1. terminating' = TRUE
      BY <2>2 DEF HandleSigInt
    <3>2. \A p \in Pids : proc'[p] = "none" <=> proc[p] = "none"
      BY <2>2, TerminateKeeps, KillKeeps DEF HandleSigInt
    <3> QED BY <1>1, <2>1, <3>1, <3>2, SameChilds
  <2>3. CASE UNCHANGED <<proc, terminating>>
    BY <1>1, <2>1, <2>3, SameChilds
  <2> QED BY <1>6, <2>2, <2>3 DEF ReadSignal
<1>7. CASE SigChldPosted \/ CheckTimeout
  BY <1>7, HandleSigChldAcc DEF SigChldPosted, CheckTimeout
<1>8. CASE Restart
  BY <1>1, <1>8, RestartAcc
<1>9. CASE DeadlineTimeout
  <2>1. pc = "exec" /\ UNCHANGED <<pc, childs, terminating, respawn, recreate, gaveUp>>
    BY <1>9 DEF DeadlineTimeout
  <2>2. CASE Kill(DOMAIN childs, pipe)
    BY <1>1, <1>2, <2>1, <2>2, SameChilds, KillKeeps
  <2>3. CASE UNCHANGED proc
    BY <1>1, <2>1, <2>3, SameChilds
  <2> QED BY <1>9, <2>2, <2>3 DEF DeadlineTimeout
<1>10. CASE Workers
  BY <1>1, <1>10, WorkersAcc
<1>11. CASE SigInt \/ FileChanged \/ LastCallTimeout
  <2>1. pc # "exited" /\ UNCHANGED <<pc, proc, childs, terminating, respawn, recreate, gaveUp>>
    BY <1>11 DEF SigInt, FileChanged, LastCallTimeout
  <2> QED BY <1>1, <2>1, SameChilds
<1>12. CASE UNCHANGED vars
  BY <1>1, <1>12 DEF vars, AccInv, TableInv, UniqueInv, FirstInv, StoppedInv, KeptInv
<1> QED BY <1>3, <1>4, <1>5, <1>6, <1>7, <1>8, <1>9, <1>10, <1>11, <1>12 DEF Next, Master

\* A set of numbers or pids with at most one element.
LEMMA AtMostOne ==
    ASSUME NEW S, \A x, y \in S : x = y
    PROVE  IsFiniteSet(S) /\ Cardinality(S) \in {0, 1} /\ (S = {} => Cardinality(S) = 0)
<1>1. CASE S = {}
  BY <1>1, FS_EmptySet
<1>2. CASE S # {}
  <2>1. PICK x : S = {x}
    BY <1>2
  <2> QED BY <2>1, FS_Singleton
<1> QED BY <1>1, <1>2

LEMMA AccountedOnce == AccInv => WorkersAccounted
<1> SUFFICES ASSUME AccInv, respawn, pc # "exited" PROVE WorkersAccounted
  BY DEF WorkersAccounted
<1>1. ASSUME NEW id \in Ids PROVE Cardinality(Known(id)) + Cardinality(Delayed(id)) <= 1
  <2>1. \A p, q \in Known(id) : p = q
    BY DEF Known, AccInv, UniqueInv
  <2>2. \A i, j \in Delayed(id) : i = j
    BY DEF Delayed, AccInv, UniqueInv
  <2>3. Known(id) = {} \/ Delayed(id) = {}
    BY DEF Known, Delayed, AccInv, UniqueInv
  <2> QED BY <2>1, <2>2, <2>3, AtMostOne
<1>2. \A id \in Ids : terminating \/ id \in gaveUp \/ Known(id) # {} \/ Delayed(id) # {}
  BY DEF AccInv, KeptInv, Known, Delayed
<1> QED BY <1>1, <1>2 DEF WorkersAccounted, AccInv, TableInv

\* Whatever dies, hangs, is reaped together or restarted while others are forked again:
\* every configured worker is known under one pid or waits once to be forked again,
\* unless the master terminates or the worker gave up, and every process that is not
\* reaped is known; for any number of workers (unixfork.cpp:131-153,482-541).
THEOREM EveryWorkerAccounted == Spec => []WorkersAccounted
BY InitAcc, StepAcc, AccountedOnce, PTL DEF Spec
=============================================================================
