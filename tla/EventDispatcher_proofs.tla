----------------------- MODULE EventDispatcher_proofs -----------------------
(***************************************************************************)
(* Proofs about EventDispatcher for any timers, sockets, depth of nested   *)
(* calls and number of posted events.                                      *)
(***************************************************************************)
EXTENDS EventDispatcherProperties, FiniteSetTheorems, TLAPS

\* What is known of a call by where it is; only the last one is not in a handler.
FrameOK(f) ==
    /\ f.stage = "posted" => f.todo = {}
    /\ f.now \in Infos => f.now \in f.todo
    /\ f.now = "posted" => f.stage = "posted"
    /\ f.now \in Zeros => f.stage = "zero" /\ f.result
    /\ f.now \in Infos \ Zeros => f.stage = "events"
FramesOK ==
    /\ \A k \in DOMAIN stack : FrameOK(stack[k])
    /\ \A k \in DOMAIN stack : k < Len(stack) => stack[k].now \notin {"none", "eventfd"}

\* What was never registered is in no batch, and what is deleted was registered.
UsedOK ==
    /\ \A t \in (Timers \cup Zeros) \ used : t \notin registered /\ Holders(t) = {}
    /\ \A s \in Sockets : \A dir \in on[s] : <<s, dir>> \in used \ dead
    /\ dead \subseteq used

\* What the other thread and the loop owe each other.
WakeOK ==
    /\ wakeups = 1 => \/ eventfd \/ other = "swapped"
                      \/ stack # <<>> /\ Top.now = "eventfd"
    /\ stack # <<>> /\ Top.stage = "zero" /\ ~Top.result /\ posted /\ ~eventfd
          => other = "swapped" \/ (other = "posted" /\ wakeups = 0)

IInv == TypeOK /\ RefsExact /\ FramesOK /\ UsedOK /\ WakeOK

----------------------------------------------------------------------------
(* The stack of calls.                                                      *)

LEMMA TopIsFrame ==
    ASSUME stack \in Seq(Frame), stack # <<>>
    PROVE  Len(stack) \in Nat \ {0} /\ Len(stack) \in DOMAIN stack /\ Top \in Frame
BY DEF Top

LEMMA TopStep ==
    ASSUME stack \in Seq(Frame), stack # <<>>, NEW f \in Frame, TopBecomes(f)
    PROVE  /\ stack' \in Seq(Frame) /\ stack' # <<>> /\ Len(stack') = Len(stack)
           /\ DOMAIN stack' = DOMAIN stack /\ Top' = f
           /\ \A k \in DOMAIN stack : k # Len(stack) => stack'[k] = stack[k]
BY TopIsFrame DEF TopBecomes, Top

LEMMA HoldersFinite ==
    ASSUME stack \in Seq(Frame), NEW i
    PROVE  IsFiniteSet(Holders(i)) /\ Cardinality(Holders(i)) \in Nat
<1>1. IsFiniteSet(1 .. Len(stack)) BY FS_Interval
<1>2. Holders(i) \subseteq 1 .. Len(stack) BY DEF Holders
<1> QED BY <1>1, <1>2, FS_Subset, FS_CardinalityType

\* What a step of the last call does to the batches a source is in.
LEMMA HoldersStep ==
    ASSUME stack \in Seq(Frame), stack # <<>>, NEW f \in Frame, TopBecomes(f), NEW i
    PROVE  Holders(i)' = IF i \in f.todo THEN Holders(i) \cup {Len(stack)}
                         ELSE Holders(i) \ {Len(stack)}
BY TopIsFrame, TopStep DEF Holders, Top

LEMMA HoldersOfTop ==
    ASSUME stack \in Seq(Frame), stack # <<>>, NEW i
    PROVE  Len(stack) \in Holders(i) <=> i \in Top.todo
BY TopIsFrame DEF Holders, Top

LEMMA HoldersCount ==
    ASSUME stack \in Seq(Frame), stack # <<>>, NEW f \in Frame, TopBecomes(f), NEW i
    PROVE  Cardinality(Holders(i)') = Cardinality(Holders(i))
                                      + (IF i \in f.todo THEN 1 ELSE 0)
                                      - (IF i \in Top.todo THEN 1 ELSE 0)
<1> DEFINE H == Holders(i)
           n == Len(stack)
<1>1. IsFiniteSet(H) /\ Cardinality(H) \in Nat
  BY HoldersFinite
<1>2. n \in H <=> i \in Top.todo
  BY HoldersOfTop
<1>3. Holders(i)' = IF i \in f.todo THEN H \cup {n} ELSE H \ {n}
  BY HoldersStep
<1>4. Cardinality(H \cup {n}) = IF n \in H THEN Cardinality(H) ELSE Cardinality(H) + 1
  BY <1>1, FS_AddElement
<1>5. Cardinality(H \ {n}) = IF n \in H THEN Cardinality(H) - 1 ELSE Cardinality(H)
  BY <1>1, FS_RemoveElement
<1> HIDE DEF H
<1>6. CASE i \in f.todo
  BY <1>1, <1>2, <1>3, <1>4, <1>6 DEF H
<1>7. CASE i \notin f.todo
  BY <1>1, <1>2, <1>3, <1>5, <1>7 DEF H
<1> QED BY <1>6, <1>7

LEMMA RegistrationsNat ==
    ASSUME TypeOK, NEW i \in Infos
    PROVE  Registrations(i) \in Nat
<1>1. ASSUME NEW s \in Sockets PROVE Cardinality(on[s]) \in Nat
  <2>1. IsFiniteSet(Dirs)
    <3>1. IsFiniteSet({"r"}) /\ Dirs = {"r"} \cup {"w"} BY FS_Singleton DEF Dirs
    <3> QED BY <3>1, FS_AddElement
  <2>2. on[s] \subseteq Dirs BY DEF TypeOK
  <2> QED BY <2>1, <2>2, FS_Subset, FS_CardinalityType
<1> QED BY <1>1 DEF Registrations

\* The numbers of references after a step of the last call that leaves f.
RefsAfter(f) == [i \in Infos |-> refs[i] + (IF i \in f.todo THEN 1 ELSE 0)
                                        - (IF i \in Top.todo THEN 1 ELSE 0)]

LEMMA StackStep ==
    ASSUME IInv, stack # <<>>, NEW f \in Frame, TopBecomes(f), FrameOK(f),
           refs' = RefsAfter(f),
           \A t \in Timers \cup Zeros : t \in f.todo => t \in Top.todo \/ t \in registered,
           UNCHANGED <<registered, on, dead, used>>
    PROVE  /\ stack' \in Seq(Frame) /\ stack' # <<>> /\ Top' = f
           /\ refs' \in [Infos -> Nat] /\ RefsExact' /\ FramesOK' /\ UsedOK'
<1>0. stack \in Seq(Frame) /\ TypeOK
  BY DEF IInv, TypeOK
<1>1. /\ stack' \in Seq(Frame) /\ stack' # <<>> /\ Len(stack') = Len(stack)
      /\ DOMAIN stack' = DOMAIN stack /\ Top' = f
      /\ \A k \in DOMAIN stack : k # Len(stack) => stack'[k] = stack[k]
  BY <1>0, TopStep
<1>2. ASSUME NEW i \in Infos
      PROVE  refs'[i] = Cardinality(Holders(i)') + Registrations(i)' /\ refs'[i] \in Nat
  <2>1. Cardinality(Holders(i)') = Cardinality(Holders(i))
                                   + (IF i \in f.todo THEN 1 ELSE 0)
                                   - (IF i \in Top.todo THEN 1 ELSE 0)
    BY <1>0, HoldersCount
  <2>2. Cardinality(Holders(i)) \in Nat
    BY <1>0, HoldersFinite
  <2>3. Cardinality(Holders(i)') \in Nat
    <3>1. Holders(i)' = IF i \in f.todo THEN Holders(i) \cup {Len(stack)}
                        ELSE Holders(i) \ {Len(stack)}
      BY <1>0, HoldersStep
    <3>2. IsFiniteSet(Holders(i))
      BY <1>0, HoldersFinite
    <3>3. IsFiniteSet(Holders(i) \cup {Len(stack)}) /\ IsFiniteSet(Holders(i) \ {Len(stack)})
      BY <3>2, FS_AddElement, FS_RemoveElement
    <3> QED BY <3>1, <3>3, FS_CardinalityType
  <2>4. Registrations(i)' = Registrations(i) /\ Registrations(i) \in Nat
    BY <1>0, RegistrationsNat DEF Registrations
  <2>5. refs[i] = Cardinality(Holders(i)) + Registrations(i)
    BY DEF IInv, RefsExact
  <2>6. refs'[i] = refs[i] + (IF i \in f.todo THEN 1 ELSE 0)
                           - (IF i \in Top.todo THEN 1 ELSE 0)
    BY DEF RefsAfter
  <2> HIDE DEF RefsAfter
  <2> QED BY <2>1, <2>2, <2>3, <2>4, <2>5, <2>6
<1>3. RefsExact' /\ refs' \in [Infos -> Nat]
  <2>1. refs' \in [Infos -> Nat]
    BY <1>2 DEF RefsAfter
  <2>2. RefsExact'
    BY <1>2 DEF RefsExact
  <2> QED BY <2>1, <2>2
<1>4. FramesOK'
  BY <1>0, <1>1, TopIsFrame DEF IInv, FramesOK, Top
<1>5. UsedOK'
  <2>1. ASSUME NEW t \in (Timers \cup Zeros) \ used PROVE Holders(t)' = {}
    <3>1. Holders(t) = {} /\ t \notin registered
      BY DEF IInv, UsedOK
    <3>2. t \notin Top.todo
      BY <1>0, <3>1, HoldersOfTop
    <3>3. t \notin f.todo
      BY <3>1, <3>2
    <3>4. Holders(t)' = Holders(t) \ {Len(stack)}
      BY <1>0, <3>3, HoldersStep
    <3> QED BY <3>1, <3>4
  <2>2. /\ registered' = registered /\ on' = on /\ dead' = dead /\ used' = used
    OBVIOUS
  <2> QED BY <2>1, <2>2 DEF IInv, UsedOK
<1> QED BY <1>1, <1>3, <1>4, <1>5

\* The call that is done with a source of its batch.
Dropped(i) == [Top EXCEPT !.now = "none", !.dir = "", !.todo = @ \ {i}, !.sends = {},
                          !.events = [s \in Sockets |-> IF s = i THEN {} ELSE @[s]]]

LEMMA NamesDiffer ==
    /\ {"none", "posted"} \cap Infos = {} /\ "eventfd" \in Infos
    /\ "eventfd" \notin Timers \cup Zeros \cup Sockets
    /\ Timers \cup Zeros \cup Sockets \subseteq Infos
BY DispatcherAssumption DEF Infos

LEMMA DroppedIsFrame ==
    ASSUME stack \in Seq(Frame), stack # <<>>, NEW i
    PROVE  /\ Dropped(i) \in Frame
           /\ Dropped(i).stage = Top.stage /\ Dropped(i).result = Top.result
           /\ Dropped(i).wait = Top.wait /\ Dropped(i).now = "none"
           /\ Dropped(i).todo = Top.todo \ {i}
<1> DEFINE ev == [s \in Sockets |-> IF s = i THEN {} ELSE Top.events[s]]
<1>1. Top \in Frame BY TopIsFrame
<1>2. ev \in [Sockets -> SUBSET Dirs] BY <1>1 DEF Frame
<1>3. Dropped(i) = [Top EXCEPT !.now = "none", !.dir = "", !.todo = Top.todo \ {i},
                               !.sends = {}, !.events = ev]
  BY <1>1 DEF Dropped, Frame
<1> HIDE DEF ev
<1> QED BY <1>1, <1>2, <1>3 DEF Frame

LEMMA DropStep ==
    ASSUME IInv, stack # <<>>, NEW i \in Infos, i \in Top.todo, Drop(i),
           UNCHANGED <<registered, on, dead, used>>
    PROVE  /\ stack' \in Seq(Frame) /\ stack' # <<>> /\ Top' = Dropped(i)
           /\ refs' \in [Infos -> Nat] /\ RefsExact' /\ FramesOK' /\ UsedOK'
<1> DEFINE f == Dropped(i)
<1>0. stack \in Seq(Frame) /\ refs \in [Infos -> Nat]
  BY DEF IInv, TypeOK
<1>1. f \in Frame /\ f.stage = Top.stage /\ f.now = "none" /\ f.todo = Top.todo \ {i}
  BY <1>0, DroppedIsFrame
<1>2. TopBecomes(f)
  BY DEF Drop, Dropped
<1>3. FrameOK(Top)
  BY <1>0, TopIsFrame DEF IInv, FramesOK, Top
<1>4. refs' = RefsAfter(f)
  <2>1. \A j \in Infos : refs'[j] = IF j = i THEN refs[j] - 1 ELSE refs[j]
    BY <1>0 DEF Drop, Deref
  <2>2. \A j \in Infos : RefsAfter(f)[j] = IF j = i THEN refs[j] - 1 ELSE refs[j]
    BY <1>0, <1>1 DEF RefsAfter
  <2>3. refs' = [j \in Infos |-> refs'[j]] /\ RefsAfter(f) = [j \in Infos |-> RefsAfter(f)[j]]
    BY <1>0 DEF Drop, Deref, RefsAfter
  <2> QED BY <2>1, <2>2, <2>3
<1> HIDE DEF f
<1>5. FrameOK(f)
  BY <1>1, <1>3, NamesDiffer DEF FrameOK
<1>6. \A t \in Timers \cup Zeros : t \in f.todo => t \in Top.todo \/ t \in registered
  BY <1>1
<1>7. /\ stack' \in Seq(Frame) /\ stack' # <<>> /\ Top' = f
      /\ refs' \in [Infos -> Nat] /\ RefsExact' /\ FramesOK' /\ UsedOK'
  BY <1>1, <1>2, <1>4, <1>5, <1>6, StackStep
<1> QED BY <1>7 DEF f

\* A step of the last call that keeps its batch.
LEMMA CallStep ==
    ASSUME IInv, stack # <<>>, NEW f \in Frame, TopBecomes(f), FrameOK(f),
           f.todo = Top.todo, UNCHANGED sources
    PROVE  /\ stack' \in Seq(Frame) /\ stack' # <<>> /\ Top' = f
           /\ refs' \in [Infos -> Nat] /\ RefsExact' /\ FramesOK' /\ UsedOK'
<1>1. refs \in [Infos -> Nat] BY DEF IInv, TypeOK
<1>2. refs' = refs /\ UNCHANGED <<registered, on, dead, used>> BY DEF sources
<1>3. refs' = RefsAfter(f) BY <1>1, <1>2 DEF RefsAfter
<1> QED BY <1>2, <1>3, StackStep
----------------------------------------------------------------------------
(* What the application does: the calls stay as they are.                  *)

\* A step after which one source has other registrations.
LEMMA RegistrationStep ==
    ASSUME IInv, UNCHANGED stack, NEW i \in Infos, NEW r, refs' = [refs EXCEPT ![i] = r],
           r = refs[i] + Registrations(i)' - Registrations(i), Registrations(i)' \in Nat,
           \A j \in Infos \ {i} : Registrations(j)' = Registrations(j)
    PROVE  refs' \in [Infos -> Nat] /\ RefsExact'
<1>0. refs \in [Infos -> Nat] /\ stack \in Seq(Frame) /\ TypeOK
  BY DEF IInv, TypeOK
<1>1. ASSUME NEW j \in Infos
      PROVE  refs'[j] = Cardinality(Holders(j)') + Registrations(j)' /\ refs'[j] \in Nat
  <2>1. Holders(j)' = Holders(j)
    BY DEF Holders
  <2>2. Cardinality(Holders(j)) \in Nat /\ Registrations(j) \in Nat
    BY <1>0, HoldersFinite, RegistrationsNat
  <2>3. refs[j] = Cardinality(Holders(j)) + Registrations(j)
    BY DEF IInv, RefsExact
  <2>4. refs'[j] = refs[j] + Registrations(j)' - Registrations(j)
    <3>1. CASE j = i
      BY <1>0, <3>1
    <3>2. CASE j # i
      BY <1>0, <2>2, <2>3, <3>2
    <3> QED BY <3>1, <3>2
  <2>5. Registrations(j)' \in Nat
    BY <2>2
  <2>6. Cardinality(Holders(j)') = Cardinality(Holders(j))
    BY <2>1
  <2> QED BY <2>2, <2>3, <2>4, <2>5, <2>6
<1>2. refs' \in [Infos -> Nat]
  BY <1>0, <1>1
<1> QED BY <1>1, <1>2 DEF RefsExact

LEMMA StackKept ==
    ASSUME IInv, UNCHANGED <<stack, wake>>
    PROVE  FramesOK' /\ WakeOK' /\ (\A i : Holders(i)' = Holders(i))
BY DEF IInv, FramesOK, WakeOK, wake, Top, Holders

LEMMA RegisterTimerStep ==
    ASSUME IInv, NEW t \in Timers \cup Zeros, RegisterTimer(t) PROVE IInv'
<1>0. TypeOK /\ refs \in [Infos -> Nat] /\ t \in Infos
  BY NamesDiffer DEF IInv, TypeOK
<1>1. FramesOK' /\ WakeOK' /\ (\A i : Holders(i)' = Holders(i))
  BY StackKept DEF RegisterTimer
<1>2. t \notin registered /\ Holders(t) = {} /\ t \notin Sockets /\ t # "eventfd"
  BY NamesDiffer, DispatcherAssumption DEF RegisterTimer, IInv, UsedOK
<1>3. refs[t] = 0
  BY <1>0, <1>2, FS_EmptySet DEF IInv, RefsExact, Registrations
<1>4. refs' \in [Infos -> Nat] /\ RefsExact'
  <2>1. refs' = [refs EXCEPT ![t] = 1] /\ UNCHANGED stack
    BY DEF RegisterTimer
  <2>2. Registrations(t) = 0 /\ Registrations(t)' = 1
    BY <1>2 DEF Registrations, RegisterTimer
  <2>3. \A j \in Infos \ {t} : Registrations(j)' = Registrations(j)
    BY DEF Registrations, RegisterTimer
  <2>4. 1 = refs[t] + Registrations(t)' - Registrations(t) /\ Registrations(t)' \in Nat
    BY <1>3, <2>2
  <2> QED BY <1>0, <2>1, <2>3, <2>4, RegistrationStep
<1>5. TypeOK'
  BY <1>0, <1>4 DEF TypeOK, RegisterTimer, wake
<1>6. UsedOK'
  BY <1>1 DEF IInv, UsedOK, RegisterTimer
<1> QED BY <1>1, <1>4, <1>5, <1>6 DEF IInv

LEMMA UnregisterTimerStep ==
    ASSUME IInv, NEW t \in Timers \cup Zeros, UnregisterTimer(t) PROVE IInv'
<1>0. TypeOK /\ refs \in [Infos -> Nat] /\ t \in Infos
  BY NamesDiffer DEF IInv, TypeOK
<1>1. FramesOK' /\ WakeOK' /\ (\A i : Holders(i)' = Holders(i))
  BY StackKept DEF UnregisterTimer
<1>2. t \in registered /\ t \notin Sockets /\ t # "eventfd"
  BY NamesDiffer, DispatcherAssumption DEF UnregisterTimer
<1>4. refs' \in [Infos -> Nat] /\ RefsExact'
  <2>1. refs' = [refs EXCEPT ![t] = refs[t] - 1] /\ UNCHANGED stack
    BY DEF UnregisterTimer, Deref
  <2>2. Registrations(t) = 1 /\ Registrations(t)' = 0
    BY <1>2 DEF Registrations, UnregisterTimer
  <2>3. \A j \in Infos \ {t} : Registrations(j)' = Registrations(j)
    BY DEF Registrations, UnregisterTimer
  <2>4. refs[t] - 1 = refs[t] + Registrations(t)' - Registrations(t) /\ Registrations(t)' \in Nat
    BY <1>0, <2>2
  <2> QED BY <1>0, <2>1, <2>3, <2>4, RegistrationStep
<1>5. TypeOK'
  BY <1>0, <1>4 DEF TypeOK, UnregisterTimer, wake
<1>6. UsedOK'
  BY <1>1 DEF IInv, UsedOK, UnregisterTimer
<1> QED BY <1>1, <1>4, <1>5, <1>6 DEF IInv

LEMMA NotifiersFinite ==
    ASSUME TypeOK, NEW s \in Sockets
    PROVE  on[s] \subseteq Dirs /\ IsFiniteSet(on[s]) /\ Cardinality(on[s]) \in Nat
<1>1. IsFiniteSet({"r"}) /\ Dirs = {"r"} \cup {"w"}
  BY FS_Singleton DEF Dirs
<1>2. IsFiniteSet(Dirs)
  BY <1>1, FS_AddElement
<1>3. on[s] \subseteq Dirs
  BY DEF TypeOK
<1> QED BY <1>2, <1>3, FS_Subset, FS_CardinalityType

LEMMA RegisterNotifierStep ==
    ASSUME IInv, NEW s \in Sockets, NEW dir \in Dirs, RegisterNotifier(s, dir) PROVE IInv'
<1>0. TypeOK /\ refs \in [Infos -> Nat] /\ s \in Infos /\ s # "eventfd"
      /\ on \in [Sockets -> SUBSET Dirs]
  BY NamesDiffer DEF IInv, TypeOK
<1>1. FramesOK' /\ WakeOK' /\ (\A i : Holders(i)' = Holders(i))
  BY StackKept DEF RegisterNotifier
<1>2. dir \notin on[s] /\ <<s, dir>> \notin dead
  BY DEF RegisterNotifier, IInv, UsedOK
<1>3. on'[s] = on[s] \cup {dir} /\ (\A x \in Sockets : x # s => on'[x] = on[x])
  BY <1>0 DEF RegisterNotifier
<1>4. refs' \in [Infos -> Nat] /\ RefsExact'
  <2>1. refs' = [refs EXCEPT ![s] = refs[s] + 1] /\ UNCHANGED stack
    BY DEF RegisterNotifier, NotifierRefs
  <2>2. Cardinality(on[s] \cup {dir}) = Cardinality(on[s]) + 1 /\ Cardinality(on[s]) \in Nat
    BY <1>0, <1>2, NotifiersFinite, FS_AddElement
  <2>3. Registrations(s) = Cardinality(on[s]) /\ Registrations(s)' = Cardinality(on[s] \cup {dir})
    BY <1>0, <1>3 DEF Registrations
  <2>4. \A j \in Infos \ {s} : Registrations(j)' = Registrations(j)
    BY <1>3 DEF Registrations, RegisterNotifier
  <2>5. refs[s] + 1 = refs[s] + Registrations(s)' - Registrations(s) /\ Registrations(s)' \in Nat
    BY <1>0, <2>2, <2>3
  <2> QED BY <1>0, <2>1, <2>4, <2>5, RegistrationStep
<1>5. TypeOK'
  BY <1>0, <1>4 DEF TypeOK, RegisterNotifier, wake
<1>6. UsedOK'
  <2>1. \A t \in (Timers \cup Zeros) \ used' : t \notin registered' /\ Holders(t)' = {}
    BY <1>1 DEF IInv, UsedOK, RegisterNotifier
  <2>2. dead' = dead /\ used' = used \cup {<<s, dir>>} /\ dead \subseteq used
    BY DEF IInv, UsedOK, RegisterNotifier
  <2>3. \A x \in Sockets : \A d \in on'[x] : <<x, d>> \in used' \ dead'
    BY <1>2, <1>3, <2>2 DEF IInv, UsedOK
  <2> QED BY <2>1, <2>2, <2>3 DEF UsedOK
<1> QED BY <1>1, <1>4, <1>5, <1>6 DEF IInv

LEMMA UnregisterNotifierStep ==
    ASSUME IInv, NEW s \in Sockets, NEW dir \in Dirs, NEW deletes \in BOOLEAN,
           UnregisterNotifier(s, dir, deletes) PROVE IInv'
<1>0. TypeOK /\ refs \in [Infos -> Nat] /\ s \in Infos /\ s # "eventfd"
      /\ on \in [Sockets -> SUBSET Dirs]
  BY NamesDiffer DEF IInv, TypeOK
<1>1. FramesOK' /\ WakeOK' /\ (\A i : Holders(i)' = Holders(i))
  BY StackKept DEF UnregisterNotifier
<1>2. dir \in on[s] /\ <<s, dir>> \in used \ dead
  BY DEF UnregisterNotifier, IInv, UsedOK
<1>3. on'[s] = on[s] \ {dir} /\ (\A x \in Sockets : x # s => on'[x] = on[x])
  BY <1>0 DEF UnregisterNotifier
<1>4. refs' \in [Infos -> Nat] /\ RefsExact'
  <2>1. refs' = [refs EXCEPT ![s] = refs[s] - 1] /\ UNCHANGED stack
    BY DEF UnregisterNotifier, Deref
  <2>2. Cardinality(on[s] \ {dir}) = Cardinality(on[s]) - 1 /\ Cardinality(on[s]) \in Nat
        /\ Cardinality(on[s] \ {dir}) \in Nat
    BY <1>0, <1>2, NotifiersFinite, FS_RemoveElement, FS_CardinalityType
  <2>3. Registrations(s) = Cardinality(on[s]) /\ Registrations(s)' = Cardinality(on[s] \ {dir})
    BY <1>0, <1>3 DEF Registrations
  <2>4. \A j \in Infos \ {s} : Registrations(j)' = Registrations(j)
    BY <1>3 DEF Registrations, UnregisterNotifier
  <2>5. refs[s] - 1 = refs[s] + Registrations(s)' - Registrations(s) /\ Registrations(s)' \in Nat
    BY <1>0, <2>2, <2>3
  <2> QED BY <1>0, <2>1, <2>4, <2>5, RegistrationStep
<1>5. TypeOK'
  <2>1. on' \in [Sockets -> SUBSET Dirs] /\ dead' \subseteq Sockets \X Dirs /\ watched' \subseteq Sockets
    BY <1>0 DEF TypeOK, UnregisterNotifier
  <2> QED BY <1>0, <1>4, <2>1 DEF TypeOK, UnregisterNotifier, wake
<1>6. UsedOK'
  <2>1. \A t \in (Timers \cup Zeros) \ used' : t \notin registered' /\ Holders(t)' = {}
    BY <1>1 DEF IInv, UsedOK, UnregisterNotifier
  <2>2. dead' \subseteq dead \cup {<<s, dir>>} /\ used' = used /\ dead \subseteq used
    BY DEF IInv, UsedOK, UnregisterNotifier
  <2>3. \A x \in Sockets : \A d \in on'[x] : d \in on[x] /\ <<x, d>> # <<s, dir>>
    BY <1>3
  <2>4. \A x \in Sockets : \A d \in on'[x] : <<x, d>> \in used' \ dead'
    BY <2>2, <2>3 DEF IInv, UsedOK
  <2> QED BY <1>2, <2>1, <2>2, <2>4 DEF UsedOK
<1> QED BY <1>1, <1>4, <1>5, <1>6 DEF IInv
----------------------------------------------------------------------------
(* processEvents.                                                           *)

\* What IInv says of the last call.
LEMMA TopOK ==
    ASSUME IInv, stack # <<>>
    PROVE  /\ stack \in Seq(Frame) /\ Top \in Frame /\ FrameOK(Top) /\ TypeOK
           /\ refs \in [Infos -> Nat]
BY TopIsFrame DEF IInv, TypeOK, FramesOK, Top

LEMMA SendPostedEventsStep ==
    ASSUME IInv, SendPostedEvents PROVE IInv'
<1> DEFINE f == [Top EXCEPT !.now = "posted"]
<1>0. stack # <<>> /\ Top.stage = "posted" /\ Top.now = "none"
  BY DEF SendPostedEvents, Runs
<1>1. Top \in Frame /\ FrameOK(Top) /\ TypeOK
  BY <1>0, TopOK
<1>2. /\ f \in Frame /\ f.todo = Top.todo /\ f.stage = "posted" /\ f.now = "posted"
  BY <1>0, <1>1 DEF Frame
<1>3. TopBecomes(f) /\ UNCHANGED sources
  BY DEF SendPostedEvents, Call
<1> HIDE DEF f
<1>4. FrameOK(f)
  BY <1>0, <1>1, <1>2, NamesDiffer DEF FrameOK
<1>5. /\ stack' \in Seq(Frame) /\ stack' # <<>> /\ Top' = f
      /\ refs' \in [Infos -> Nat] /\ RefsExact' /\ FramesOK' /\ UsedOK'
  BY <1>0, <1>2, <1>3, <1>4, CallStep
<1>6. TypeOK'
  BY <1>1, <1>3, <1>5 DEF TypeOK, sources, kernel, SendPostedEvents
<1>7. WakeOK'
  BY <1>0, <1>2, <1>5 DEF IInv, WakeOK, SendPostedEvents
<1> QED BY <1>5, <1>6, <1>7 DEF IInv

LEMMA RefZeroTimersStep ==
    ASSUME IInv, RefZeroTimers PROVE IInv'
<1>0. stack # <<>> /\ Top.stage = "posted" /\ Top.now = "none" /\ ~posted
  BY DEF RefZeroTimers, Runs
<1>1. Top \in Frame /\ FrameOK(Top) /\ TypeOK /\ refs \in [Infos -> Nat]
  BY <1>0, TopOK
<1>2. PICK zs \in {IF "timers" \in Top.ex THEN {} ELSE registered \cap Zeros} :
         Ref(zs) /\ TopBecomes([Top EXCEPT !.stage = "zero", !.todo = zs])
  BY DEF RefZeroTimers
<1> DEFINE f == [Top EXCEPT !.stage = "zero", !.todo = zs]
<1>3. zs \subseteq registered \cap Zeros
  BY <1>2
<1>4. Top.todo = {}
  BY <1>0, <1>1 DEF FrameOK
<1>5. /\ f \in Frame /\ f.todo = zs /\ f.stage = "zero" /\ f.now = "none"
  <2>1. zs \subseteq Infos
    BY <1>3, NamesDiffer
  <2> QED BY <1>0, <1>1, <2>1 DEF Frame
<1>6. TopBecomes(f)
  BY <1>2
<1> HIDE DEF f
<1>7. FrameOK(f)
  BY <1>5, NamesDiffer, DispatcherAssumption DEF FrameOK, Infos
<1>8. refs' = RefsAfter(f)
  BY <1>1, <1>2, <1>4, <1>5 DEF Ref, RefsAfter
<1>9. UNCHANGED <<registered, on, dead, used>>
  BY DEF RefZeroTimers
<1>10. /\ stack' \in Seq(Frame) /\ stack' # <<>> /\ Top' = f
       /\ refs' \in [Infos -> Nat] /\ RefsExact' /\ FramesOK' /\ UsedOK'
  BY <1>0, <1>3, <1>5, <1>6, <1>7, <1>8, <1>9, StackStep
<1>11. TypeOK'
  BY <1>1, <1>9, <1>10 DEF TypeOK, kernel, wake, RefZeroTimers
<1>12. WakeOK'
  BY <1>0, <1>5, <1>10 DEF IInv, WakeOK, RefZeroTimers, wake
<1> QED BY <1>10, <1>11, <1>12 DEF IInv

LEMMA ZeroTimerStep ==
    ASSUME IInv, NEW z \in Zeros, ZeroTimer(z) PROVE IInv'
<1>0. stack # <<>> /\ Top.stage = "zero" /\ Top.now = "none" /\ z \in Top.todo
  BY DEF ZeroTimer, Runs
<1>1. Top \in Frame /\ FrameOK(Top) /\ TypeOK /\ z \in Infos
  BY <1>0, TopOK, NamesDiffer
<1>2. UNCHANGED <<registered, on, dead, used, kernel, wake>>
  BY DEF ZeroTimer
<1>3. CASE CanProcess(z) /\ active[z]
  <2> DEFINE f == [Top EXCEPT !.now = z, !.result = TRUE]
  <2>1. /\ f \in Frame /\ f.todo = Top.todo /\ f.stage = "zero" /\ f.now = z /\ f.result
    BY <1>0, <1>1 DEF Frame
  <2>2. TopBecomes(f) /\ UNCHANGED sources /\ active' \in [Zeros -> BOOLEAN]
    BY <1>1, <1>2, <1>3 DEF ZeroTimer, sources, TypeOK
  <2> HIDE DEF f
  <2>3. FrameOK(f)
    BY <1>0, <2>1, NamesDiffer, DispatcherAssumption DEF FrameOK
  <2>4. /\ stack' \in Seq(Frame) /\ stack' # <<>> /\ Top' = f
        /\ refs' \in [Infos -> Nat] /\ RefsExact' /\ FramesOK' /\ UsedOK'
    BY <1>0, <2>1, <2>2, <2>3, CallStep
  <2>5. TypeOK'
    BY <1>1, <1>2, <2>2, <2>4 DEF TypeOK, kernel, wake
  <2>6. WakeOK'
    BY <1>0, <1>2, <2>1, <2>4 DEF IInv, WakeOK, wake
  <2> QED BY <2>4, <2>5, <2>6 DEF IInv
<1>4. CASE ~(CanProcess(z) /\ active[z])
  <2>1. Drop(z) /\ active' = active
    BY <1>4 DEF ZeroTimer
  <2>2. /\ stack' \in Seq(Frame) /\ stack' # <<>> /\ Top' = Dropped(z)
        /\ refs' \in [Infos -> Nat] /\ RefsExact' /\ FramesOK' /\ UsedOK'
    BY <1>0, <1>1, <1>2, <2>1, DropStep
  <2>3. TypeOK'
    BY <1>1, <1>2, <2>1, <2>2 DEF TypeOK, kernel, wake
  <2>4. Dropped(z).stage = Top.stage /\ Dropped(z).result = Top.result
    BY <1>0, DroppedIsFrame, TopOK
  <2>5. WakeOK'
    BY <1>0, <1>2, <2>2, <2>4 DEF IInv, WakeOK, wake
  <2> QED BY <2>2, <2>3, <2>5 DEF IInv
<1> QED BY <1>3, <1>4

LEMMA EpollWaitStep ==
    ASSUME IInv, EpollWait PROVE IInv'
<1>0. stack # <<>> /\ Top.stage = "zero" /\ Top.now = "none" /\ Top.todo = {}
  BY DEF EpollWait, Asked, Runs
<1>1. Top \in Frame /\ FrameOK(Top) /\ TypeOK /\ refs \in [Infos -> Nat]
  BY <1>0, TopOK
<1>2. PICK events \in [Sockets -> SUBSET Dirs] :
         /\ Ref(Pending(events))
         /\ TopBecomes([Top EXCEPT !.stage = "events", !.todo = Pending(events),
                                   !.wait = FALSE, !.result = FALSE, !.events = events])
  BY DEF EpollWait
<1> DEFINE f == [Top EXCEPT !.stage = "events", !.todo = Pending(events),
                            !.wait = FALSE, !.result = FALSE, !.events = events]
<1>3. Pending(events) \subseteq Infos
      /\ (\A t \in Timers \cup Zeros : t \in Pending(events) => t \in registered)
  BY NamesDiffer, DispatcherAssumption DEF Pending, Infos
<1>4. f \in Frame /\ f.todo = Pending(events) /\ f.stage = "events" /\ f.now = "none"
  BY <1>0, <1>1, <1>3 DEF Frame
<1>5. TopBecomes(f)
  BY <1>2
<1> HIDE DEF f
<1>6. FrameOK(f)
  BY <1>4, NamesDiffer, DispatcherAssumption DEF FrameOK, Infos
<1>7. refs' = RefsAfter(f)
  BY <1>0, <1>1, <1>2, <1>4 DEF Ref, RefsAfter
<1>8. UNCHANGED <<registered, on, dead, used>>
  BY DEF EpollWait
<1>9. /\ stack' \in Seq(Frame) /\ stack' # <<>> /\ Top' = f
      /\ refs' \in [Infos -> Nat] /\ RefsExact' /\ FramesOK' /\ UsedOK'
  BY <1>0, <1>3, <1>4, <1>5, <1>6, <1>7, <1>8, StackStep
<1>10. TypeOK'
  BY <1>1, <1>8, <1>9 DEF TypeOK, kernel, wake, EpollWait
<1>11. WakeOK'
  BY <1>0, <1>4, <1>9 DEF IInv, WakeOK, EpollWait, wake
<1> QED BY <1>9, <1>10, <1>11 DEF IInv

LEMMA SkipEventStep ==
    ASSUME IInv, NEW i \in Infos, SkipEvent(i) PROVE IInv'
<1>0. stack # <<>> /\ Top.stage = "events" /\ Top.now = "none" /\ i \in Top.todo /\ Drop(i)
      /\ UNCHANGED <<registered, on, dead, used, kernel, active, wake>>
  BY DEF SkipEvent, Runs
<1>1. TypeOK /\ Dropped(i).stage = "events"
  BY <1>0, TopOK, DroppedIsFrame
<1>2. /\ stack' \in Seq(Frame) /\ stack' # <<>> /\ Top' = Dropped(i)
      /\ refs' \in [Infos -> Nat] /\ RefsExact' /\ FramesOK' /\ UsedOK'
  BY <1>0, DropStep
<1>3. TypeOK'
  BY <1>0, <1>1, <1>2 DEF TypeOK, kernel, wake
<1>4. WakeOK'
  BY <1>0, <1>1, <1>2 DEF IInv, WakeOK, wake
<1> QED BY <1>2, <1>3, <1>4 DEF IInv
LEMMA ReadEventFdStep ==
    ASSUME IInv, ReadEventFd PROVE IInv'
<1> DEFINE f == [Top EXCEPT !.now = "eventfd"]
<1>0. stack # <<>> /\ Top.stage = "events" /\ "eventfd" \in Top.todo
  BY DEF ReadEventFd, Processes, Runs
<1>1. Top \in Frame /\ TypeOK
  BY <1>0, TopOK
<1>2. f \in Frame /\ f.todo = Top.todo /\ f.stage = "events" /\ f.now = "eventfd"
  BY <1>0, <1>1, NamesDiffer DEF Frame
<1>3. TopBecomes(f) /\ UNCHANGED sources
  BY DEF ReadEventFd, Call
<1> HIDE DEF f
<1>4. FrameOK(f)
  BY <1>0, <1>2, NamesDiffer, DispatcherAssumption DEF FrameOK
<1>5. /\ stack' \in Seq(Frame) /\ stack' # <<>> /\ Top' = f
      /\ refs' \in [Infos -> Nat] /\ RefsExact' /\ FramesOK' /\ UsedOK'
  BY <1>0, <1>2, <1>3, <1>4, CallStep
<1>6. TypeOK'
  BY <1>1, <1>3, <1>5 DEF TypeOK, sources, kernel, ReadEventFd
<1>7. WakeOK'
  BY <1>2, <1>5 DEF WakeOK
<1> QED BY <1>5, <1>6, <1>7 DEF IInv

LEMMA WokenUpStep ==
    ASSUME IInv, WokenUp PROVE IInv'
<1>0. /\ stack # <<>> /\ Top.now = "eventfd" /\ Drop("eventfd") /\ wakeups' = 0
      /\ UNCHANGED <<registered, on, dead, used, kernel, active, posted, eventfd, other, posts>>
  BY DEF WokenUp, WakeupsReset
<1>1. /\ TypeOK /\ FrameOK(Top) /\ "eventfd" \in Infos
      /\ Dropped("eventfd").stage = Top.stage
  BY <1>0, TopOK, DroppedIsFrame, NamesDiffer
<1>2. Top.stage = "events" /\ "eventfd" \in Top.todo
  BY <1>0, <1>1, NamesDiffer DEF FrameOK
<1>3. /\ stack' \in Seq(Frame) /\ stack' # <<>> /\ Top' = Dropped("eventfd")
      /\ refs' \in [Infos -> Nat] /\ RefsExact' /\ FramesOK' /\ UsedOK'
  BY <1>0, <1>1, <1>2, DropStep
<1>4. TypeOK'
  BY <1>0, <1>1, <1>3 DEF TypeOK, kernel
<1>5. WakeOK'
  BY <1>0, <1>1, <1>2, <1>3 DEF WakeOK
<1> QED BY <1>3, <1>4, <1>5 DEF IInv

LEMMA TimerEventStep ==
    ASSUME IInv, NEW t \in Timers, TimerEvent(t) PROVE IInv'
<1> DEFINE f == [Top EXCEPT !.now = t]
<1>0. stack # <<>> /\ Top.stage = "events" /\ Top.now = "none" /\ t \in Top.todo
  BY DEF TimerEvent, Processes, Runs
<1>1. Top \in Frame /\ TypeOK /\ t \in Infos /\ t \notin Zeros
  BY <1>0, TopOK, NamesDiffer, DispatcherAssumption
<1>2. f \in Frame /\ f.todo = Top.todo /\ f.stage = "events" /\ f.now = t
  BY <1>0, <1>1 DEF Frame
<1>3. TopBecomes(f) /\ UNCHANGED <<sources, watched, active, wake>>
  BY DEF TimerEvent, Call
<1> HIDE DEF f
<1>4. FrameOK(f)
  BY <1>0, <1>1, <1>2, NamesDiffer DEF FrameOK
<1>5. /\ stack' \in Seq(Frame) /\ stack' # <<>> /\ Top' = f
      /\ refs' \in [Infos -> Nat] /\ RefsExact' /\ FramesOK' /\ UsedOK'
  BY <1>0, <1>2, <1>3, <1>4, CallStep
<1>6. timer' \in [Timers -> {"off", "armed", "expired"}]
  BY <1>1 DEF TimerEvent, TypeOK
<1>7. TypeOK'
  BY <1>1, <1>3, <1>5, <1>6 DEF TypeOK, sources, wake
<1>8. WakeOK'
  BY <1>0, <1>2, <1>3, <1>5 DEF IInv, WakeOK, wake
<1> QED BY <1>5, <1>7, <1>8 DEF IInv

\* The next direction of a socket, or the end of it.
LEMMA SendStep ==
    ASSUME IInv, stack # <<>>, Top.stage = "events", Top.now # "eventfd", NEW s \in Sockets,
           s \in Top.todo, NEW dirs \in SUBSET Dirs, Send(s, dirs),
           UNCHANGED <<registered, on, dead, used, watched, active, wake>>,
           timer' \in [Timers -> {"off", "armed", "expired"}]
    PROVE  IInv'
<1>1. Top \in Frame /\ TypeOK /\ s \in Infos /\ s \notin Zeros /\ s # "eventfd"
  BY TopOK, NamesDiffer, DispatcherAssumption
<1>2. CASE dirs = {}
  <2>1. /\ stack' \in Seq(Frame) /\ stack' # <<>> /\ Top' = Dropped(s)
        /\ refs' \in [Infos -> Nat] /\ RefsExact' /\ FramesOK' /\ UsedOK'
    BY <1>1, <1>2, DropStep DEF Send
  <2>2. TypeOK'
    BY <1>1, <2>1 DEF TypeOK, wake
  <2>3. Dropped(s).stage = "events"
    BY <1>1, TopOK, DroppedIsFrame
  <2>4. WakeOK'
    BY <2>1, <2>3 DEF IInv, WakeOK, wake
  <2> QED BY <2>1, <2>2, <2>4 DEF IInv
<1>3. CASE dirs # {}
  <2>1. PICK dir \in {IF "r" \in dirs THEN "r" ELSE "w"} :
           /\ TopBecomes([Top EXCEPT !.now = s, !.dir = dir, !.sends = dirs \ {dir}])
           /\ UNCHANGED refs
    BY <1>3 DEF Send
  <2> DEFINE f == [Top EXCEPT !.now = s, !.dir = dir, !.sends = dirs \ {dir}]
  <2>2. dir \in Dirs
    BY DEF Dirs
  <2>3. f \in Frame /\ f.todo = Top.todo /\ f.stage = "events" /\ f.now = s
    BY <1>1, <2>2 DEF Frame
  <2>4. TopBecomes(f) /\ UNCHANGED sources
    BY <2>1 DEF sources
  <2> HIDE DEF f
  <2>5. FrameOK(f)
    BY <1>1, <2>3, NamesDiffer DEF FrameOK
  <2>6. /\ stack' \in Seq(Frame) /\ stack' # <<>> /\ Top' = f
        /\ refs' \in [Infos -> Nat] /\ RefsExact' /\ FramesOK' /\ UsedOK'
    BY <2>3, <2>4, <2>5, CallStep
  <2>7. TypeOK'
    BY <1>1, <2>4, <2>6 DEF TypeOK, sources, wake
  <2>8. WakeOK'
    BY <2>3, <2>6 DEF IInv, WakeOK, wake
  <2> QED BY <2>6, <2>7, <2>8 DEF IInv
<1> QED BY <1>2, <1>3

LEMMA SocketEventStep ==
    ASSUME IInv, NEW s \in Sockets, SocketEvent(s) PROVE IInv'
<1>0. stack # <<>> /\ Top.stage = "events" /\ Top.now = "none" /\ s \in Top.todo
  BY DEF SocketEvent, Processes, Runs
<1>1. Top \in Frame /\ TypeOK
  BY <1>0, TopOK
<1>2. on[s] \cap Top.events[s] \in SUBSET Dirs
  BY <1>1 DEF TypeOK
<1>3. timer' \in [Timers -> {"off", "armed", "expired"}]
  BY <1>1 DEF TypeOK, SocketEvent
<1> QED BY <1>0, <1>2, <1>3, SendStep DEF SocketEvent

LEMMA ReturnStep ==
    ASSUME IInv, Return PROVE IInv'
<1>0. stack # <<>> /\ Top.now # "none" /\ UNCHANGED <<registered, on, dead, used, watched, wake>>
  BY DEF Return
<1>1. Top \in Frame /\ FrameOK(Top) /\ TypeOK
  BY <1>0, TopOK
<1>2. CASE ReturnPosted
  <2> DEFINE f == [Top EXCEPT !.now = "none"]
  <2>1. Top.now = "posted" /\ TopBecomes(f) /\ UNCHANGED <<sources, timer, active>>
    BY <1>0, <1>2 DEF ReturnPosted, sources
  <2>2. f \in Frame /\ f.todo = Top.todo /\ f.stage = Top.stage /\ f.now = "none"
    BY <1>1 DEF Frame
  <2>3. Top.stage = "posted"
    BY <1>1, <2>1 DEF FrameOK
  <2> HIDE DEF f
  <2>4. FrameOK(f)
    BY <1>1, <2>2, NamesDiffer DEF FrameOK
  <2>5. /\ stack' \in Seq(Frame) /\ stack' # <<>> /\ Top' = f
        /\ refs' \in [Infos -> Nat] /\ RefsExact' /\ FramesOK' /\ UsedOK'
    BY <1>0, <2>1, <2>2, <2>4, CallStep
  <2>6. TypeOK'
    BY <1>0, <1>1, <2>1, <2>5 DEF TypeOK, sources, wake
  <2>7. WakeOK'
    BY <1>0, <2>1, <2>2, <2>3, <2>5 DEF IInv, WakeOK, wake
  <2> QED BY <2>5, <2>6, <2>7 DEF IInv
<1>3. ASSUME NEW z \in Zeros, ReturnZero(z) PROVE IInv'
  <2>0. z \in Infos /\ z # "eventfd"
    BY NamesDiffer
  <2>1. Top.now = z /\ z \in Top.todo /\ Top.result /\ Drop(z)
    BY <1>1, <1>3, <2>0 DEF ReturnZero, FrameOK
  <2>2. /\ stack' \in Seq(Frame) /\ stack' # <<>> /\ Top' = Dropped(z)
        /\ refs' \in [Infos -> Nat] /\ RefsExact' /\ FramesOK' /\ UsedOK'
    BY <1>0, <2>0, <2>1, DropStep
  <2>3. active' \in [Zeros -> BOOLEAN] /\ timer' = timer
    BY <1>1, <1>3 DEF ReturnZero, TypeOK
  <2>4. TypeOK'
    BY <1>0, <1>1, <2>2, <2>3 DEF TypeOK, wake
  <2>5. Dropped(z).result
    BY <1>0, <2>1, DroppedIsFrame, TopOK
  <2>6. WakeOK'
    BY <1>0, <2>0, <2>1, <2>2, <2>5 DEF IInv, WakeOK, wake
  <2> QED BY <2>2, <2>4, <2>6 DEF IInv
<1>4. ASSUME NEW t \in Timers, ReturnTimer(t) PROVE IInv'
  <2>0. t \in Infos /\ t # "eventfd" /\ t \notin Zeros
    BY NamesDiffer, DispatcherAssumption
  <2>1. Top.now = t /\ t \in Top.todo /\ Top.stage = "events" /\ Drop(t)
    BY <1>1, <1>4, <2>0 DEF ReturnTimer, FrameOK
  <2>2. /\ stack' \in Seq(Frame) /\ stack' # <<>> /\ Top' = Dropped(t)
        /\ refs' \in [Infos -> Nat] /\ RefsExact' /\ FramesOK' /\ UsedOK'
    BY <1>0, <2>0, <2>1, DropStep
  <2>3. timer' \in [Timers -> {"off", "armed", "expired"}] /\ active' = active
    BY <1>1, <1>4 DEF ReturnTimer, TypeOK
  <2>4. TypeOK'
    BY <1>0, <1>1, <2>2, <2>3 DEF TypeOK, wake
  <2>5. Dropped(t).stage = "events"
    BY <1>0, <2>1, DroppedIsFrame, TopOK
  <2>6. WakeOK'
    BY <1>0, <2>0, <2>1, <2>2, <2>5 DEF IInv, WakeOK, wake
  <2> QED BY <2>2, <2>4, <2>6 DEF IInv
<1>5. ASSUME NEW s \in Sockets, ReturnSocket(s) PROVE IInv'
  <2>0. s \in Infos /\ s # "eventfd" /\ s \notin Zeros
    BY NamesDiffer, DispatcherAssumption
  <2>1. Top.now = s /\ s \in Top.todo /\ Top.stage = "events"
    BY <1>1, <1>5, <2>0 DEF ReturnSocket, FrameOK
  <2>2. {dir \in Top.sends : <<s, dir>> \notin dead} \in SUBSET Dirs
    BY <1>1 DEF Frame
  <2>3. timer' \in [Timers -> {"off", "armed", "expired"}] /\ active' = active
    BY <1>1, <1>5 DEF ReturnSocket, TypeOK
  <2> QED BY <1>0, <1>5, <2>0, <2>1, <2>2, <2>3, SendStep DEF ReturnSocket
<1> QED BY <1>2, <1>3, <1>4, <1>5 DEF Return
\* A call of processEvents: the handlers that run stay as they are.
NewCall(wait, ex) == [stage |-> "posted", wait |-> wait, ex |-> ex, result |-> FALSE,
                      todo |-> {}, events |-> [s \in Sockets |-> {}], now |-> "none",
                      dir |-> "", sends |-> {}]

LEMMA ProcessEventsStep ==
    ASSUME IInv, stack # <<>> => Top.now \notin {"none", "eventfd"},
           NEW wait \in BOOLEAN, NEW ex \in SUBSET Flags, ProcessEvents(wait, ex)
    PROVE  IInv'
<1> DEFINE f == NewCall(wait, ex)
           n == Len(stack)
<1>0. stack \in Seq(Frame) /\ TypeOK
  BY DEF IInv, TypeOK
<1>1. f \in Frame /\ f.todo = {} /\ f.now = "none" /\ f.stage = "posted"
  BY DEF Frame, NewCall
<1>2. stack' = Append(stack, f) /\ UNCHANGED <<sources, active, wake>>
  BY DEF ProcessEvents, NewCall
<1> HIDE DEF f
<1>3. /\ stack' \in Seq(Frame) /\ stack' # <<>> /\ Len(stack') = n + 1 /\ Top' = f /\ n \in Nat
      /\ DOMAIN stack' = 1 .. n + 1 /\ DOMAIN stack = 1 .. n /\ stack'[n + 1] = f
      /\ \A k \in 1 .. n : stack'[k] = stack[k]
  BY <1>0, <1>1, <1>2 DEF Top
<1>4. FrameOK(f)
  BY <1>1, NamesDiffer DEF FrameOK
<1>5. FramesOK'
  <2>1. \A k \in DOMAIN stack' : FrameOK(stack'[k])
    <3> TAKE k \in DOMAIN stack'
    <3>1. CASE k = n + 1 BY <1>3, <1>4, <3>1
    <3>2. CASE k \in 1 .. n BY <1>3, <3>2 DEF IInv, FramesOK
    <3> QED BY <1>3, <3>1, <3>2
  <2>2. \A k \in 1 .. n : stack[k].now \notin {"none", "eventfd"}
    <3> TAKE k \in 1 .. n
    <3>1. CASE k = n
      <4>1. n # 0 BY <1>3, <3>1
      <4>2. stack # <<>> BY <1>0, <4>1
      <4> QED BY <3>1, <4>2 DEF Top
    <3>2. CASE k < n BY <1>3, <3>2 DEF IInv, FramesOK
    <3>3. n \in Nat BY <1>3
    <3> HIDE DEF n
    <3>4. k = n \/ k < n BY <3>3
    <3> QED BY <3>1, <3>2, <3>4
  <2>3. \A k \in DOMAIN stack' : k < Len(stack') => stack'[k].now \notin {"none", "eventfd"}
    BY <1>3, <2>2
  <2> QED BY <2>1, <2>3 DEF FramesOK
<1>6. \A i : Holders(i)' = Holders(i)
  BY <1>1, <1>3 DEF Holders
<1>7. RefsExact'
  BY <1>2, <1>6 DEF IInv, RefsExact, Registrations, sources
<1>8. UsedOK'
  BY <1>2, <1>6 DEF IInv, UsedOK, sources
<1>9. TypeOK'
  <2>1. watched' \subseteq Sockets /\ timer' \in [Timers -> {"off", "armed", "expired"}]
    BY <1>0 DEF TypeOK, ProcessEvents
  <2> QED BY <1>0, <1>2, <1>3, <2>1 DEF TypeOK, sources, wake
<1>10. WakeOK'
  BY <1>1, <1>2, <1>3 DEF IInv, WakeOK, wake
<1> QED BY <1>5, <1>7, <1>8, <1>9, <1>10 DEF IInv

LEMMA EndProcessEventsStep ==
    ASSUME IInv, EndProcessEvents PROVE IInv'
<1> DEFINE n == Len(stack)
<1>0. stack # <<>> /\ Top.stage = "events" /\ Top.now = "none" /\ Top.todo = {}
      /\ stack' = SubSeq(stack, 1, n - 1) /\ UNCHANGED <<sources, active, wake>>
  BY DEF EndProcessEvents, Runs
<1>1. stack \in Seq(Frame) /\ TypeOK /\ n \in Nat \ {0} /\ stack[n] = Top
  BY <1>0, TopOK, TopIsFrame DEF Top
<1>2. /\ stack' \in Seq(Frame) /\ Len(stack') = n - 1
      /\ DOMAIN stack' = 1 .. n - 1 /\ DOMAIN stack = 1 .. n
      /\ \A k \in 1 .. n - 1 : stack'[k] = stack[k]
  <2> HIDE DEF n
  <2>1. stack' = SubSeq(stack, 1, n - 1) /\ n \in Nat \ {0} /\ n = Len(stack)
    BY <1>0, <1>1 DEF n
  <2> QED BY <1>1, <2>1
<1>3. FramesOK'
  <2>1. \A k \in DOMAIN stack' : k \in DOMAIN stack /\ k < n /\ stack'[k] = stack[k]
    BY <1>1, <1>2
  <2> QED BY <2>1 DEF IInv, FramesOK
<1>4. \A i : Holders(i)' = Holders(i)
  <2> TAKE i
  <2>1. n \notin Holders(i)
    BY <1>0, <1>1 DEF Holders
  <2>2. \A k : k \in Holders(i)' <=> k \in Holders(i) /\ k # n
    BY <1>1, <1>2 DEF Holders
  <2>3. \A k : k \in Holders(i)' <=> k \in Holders(i)
    BY <2>1, <2>2
  <2> QED BY <2>3 DEF Holders
<1>5. RefsExact'
  BY <1>0, <1>4 DEF IInv, RefsExact, Registrations, sources
<1>6. UsedOK'
  BY <1>0, <1>4 DEF IInv, UsedOK, sources
<1>7. TypeOK'
  <2>1. watched' \subseteq Sockets /\ timer' \in [Timers -> {"off", "armed", "expired"}]
    BY <1>1 DEF TypeOK, EndProcessEvents, WatchedAfter
  <2> QED BY <1>0, <1>1, <1>2, <2>1 DEF TypeOK, sources, wake
<1>8. WakeOK'
  <2>1. wakeups = 1 => eventfd \/ other = "swapped"
    BY <1>0 DEF IInv, WakeOK
  <2>2. stack' # <<>> => ~(Top'.stage = "zero" /\ ~Top'.result)
    <3>1. SUFFICES ASSUME stack' # <<>> PROVE ~(Top'.stage = "zero" /\ ~Top'.result)
      OBVIOUS
    <3>2. n - 1 \in 1 .. n - 1 /\ Top' = stack[n - 1]
      BY <1>1, <1>2, <3>1 DEF Top
    <3>3. FrameOK(Top') /\ Top' \in Frame /\ Top'.now \notin {"none", "eventfd"}
      BY <1>1, <1>2, <3>2 DEF IInv, FramesOK
    <3> QED BY <3>3, NamesDiffer DEF FrameOK, Frame
  <2> QED BY <1>0, <2>1, <2>2 DEF WakeOK, wake
<1> QED BY <1>3, <1>5, <1>6, <1>7, <1>8 DEF IInv

----------------------------------------------------------------------------
(* The other thread, and the kernel.                                        *)

LEMMA SourcesKept ==
    ASSUME IInv, UNCHANGED <<stack, sources>>
    PROVE  FramesOK' /\ RefsExact' /\ UsedOK'
<1>1. \A i : Holders(i)' = Holders(i)
  BY DEF Holders
<1> QED BY <1>1 DEF IInv, FramesOK, RefsExact, Registrations, UsedOK, sources

LEMMA WakesStep ==
    ASSUME IInv, Post \/ WakeUp \/ WriteEventFd PROVE IInv'
<1>1. UNCHANGED <<stack, sources, kernel, active>>
  BY DEF Post, WakeUp, WriteEventFd
<1>2. TypeOK /\ WakeOK /\ (stack # <<>> => FrameOK(Top))
  BY TopOK DEF IInv
<1>3. TypeOK'
  <2>1. posted' \in BOOLEAN /\ eventfd' \in BOOLEAN
    BY <1>2 DEF TypeOK, Post, WakeUp, WriteEventFd
  <2>2. wakeups' \in {0, 1} /\ other' \in {"idle", "posted", "swapped"}
    BY <1>2 DEF TypeOK, Post, WakeUp, WriteEventFd
  <2>3. posts' \in 0 .. MaxPosts
    BY <1>2, DispatcherAssumption DEF TypeOK, Post, WakeUp, WriteEventFd
  <2> QED BY <1>1, <1>2, <2>1, <2>2, <2>3 DEF TypeOK, sources, kernel
<1>4. stack # <<>> /\ Top.now = "eventfd" => Top.stage = "events"
  BY <1>2, NamesDiffer DEF FrameOK
<1>5. Top' = Top
  BY <1>1 DEF Top
<1>6. WakeOK'
  BY <1>1, <1>2, <1>4, <1>5 DEF WakeOK, Post, WakeUp, WriteEventFd, TypeOK
<1> QED BY <1>1, <1>3, <1>6, SourcesKept DEF IInv

LEMMA ExpireStep ==
    ASSUME IInv, NEW t \in Timers, Expire(t) PROVE IInv'
<1>1. UNCHANGED <<stack, sources, watched, active, wake>>
  BY DEF Expire
<1>2. TypeOK'
  BY <1>1 DEF IInv, TypeOK, Expire, sources, wake
<1>3. WakeOK'
  BY <1>1, StackKept
<1> QED BY <1>1, <1>2, <1>3, SourcesKept DEF IInv
----------------------------------------------------------------------------
(* The theorems.                                                            *)

LEMMA InitIInv == ASSUME Init PROVE IInv
<1>1. stack = <<>> /\ stack \in Seq(Frame) /\ (\A i : Holders(i) = {})
  BY DEF Init, Holders
<1>2. on \in [Sockets -> SUBSET Dirs] /\ registered = Initial \cap (Timers \cup Zeros)
      /\ used = Initial /\ dead = {}
  BY DEF Init
<1>3. ASSUME NEW s \in Sockets PROVE Cardinality(on[s]) \in Nat
  <2>1. IsFiniteSet({"r"}) /\ Dirs = {"r"} \cup {"w"}
    BY FS_Singleton DEF Dirs
  <2>2. IsFiniteSet(Dirs)
    BY <2>1, FS_AddElement
  <2> QED BY <1>2, <2>2, FS_Subset, FS_CardinalityType
<1>4. ASSUME NEW i \in Infos
      PROVE  refs[i] = Cardinality(Holders(i)) + Registrations(i) /\ refs[i] \in Nat
  <2>0. Cardinality(Holders(i)) = 0
    BY <1>1, FS_EmptySet
  <2>1. refs[i] = IF i \in Sockets THEN Cardinality(on[i])
                  ELSE IF i \in registered \cup {"eventfd"} THEN 1 ELSE 0
    BY DEF Init
  <2>2. CASE i \in Sockets
    <3>1. i # "eventfd" BY <2>2, NamesDiffer
    <3>2. Registrations(i) = Cardinality(on[i]) BY <2>2, <3>1 DEF Registrations
    <3> QED BY <1>3, <2>0, <2>1, <2>2, <3>2
  <2>3. CASE i \notin Sockets
    <3>1. Registrations(i) = IF i \in registered \cup {"eventfd"} THEN 1 ELSE 0
      BY <2>3 DEF Registrations
    <3> QED BY <2>0, <2>1, <2>3, <3>1
  <2> QED BY <2>2, <2>3
<1>5. refs \in [Infos -> Nat]
  BY <1>4 DEF Init
<1>6. RefsExact
  BY <1>4 DEF RefsExact
<1>7. FramesOK /\ WakeOK
  BY <1>1 DEF FramesOK, WakeOK, Init
<1>8. UsedOK
  <2>1. \A s \in Sockets : \A dir \in on[s] : <<s, dir>> \in Initial
    BY DEF Init
  <2> QED BY <1>1, <1>2, <2>1 DEF UsedOK
<1>9. TypeOK
  <2>1. registered \subseteq Timers \cup Zeros /\ used \subseteq Timers \cup Zeros \cup (Sockets \X Dirs)
    BY <1>2, DispatcherAssumption
  <2>2. timer \in [Timers -> {"off", "armed", "expired"}] /\ active \in [Zeros -> BOOLEAN]
    BY DEF Init
  <2>3. watched \subseteq Sockets /\ dead \subseteq Sockets \X Dirs
    BY DEF Init
  <2>4. posted \in BOOLEAN /\ wakeups \in {0, 1} /\ eventfd \in BOOLEAN /\ other = "idle" /\ posts = 0
    BY DEF Init
  <2>5. posts \in 0 .. MaxPosts
    BY <2>4, DispatcherAssumption
  <2> QED BY <1>1, <1>2, <1>5, <2>1, <2>2, <2>3, <2>4, <2>5 DEF TypeOK
<1> QED BY <1>6, <1>7, <1>8, <1>9 DEF IInv

LEMMA NextIInv == ASSUME IInv, [Next]_vars PROVE IInv'
<1>1. CASE Loop
  BY <1>1, ProcessEventsStep DEF Loop, Flags
<1>2. CASE Step
  BY <1>2, SendPostedEventsStep, RefZeroTimersStep, EpollWaitStep, ReadEventFdStep, WokenUpStep,
     EndProcessEventsStep, ZeroTimerStep, SkipEventStep, TimerEventStep, SocketEventStep DEF Step
<1>3. CASE App
  <2>1. ASSUME NEW t \in Timers \cup Zeros, RegisterTimer(t) \/ UnregisterTimer(t) PROVE IInv'
    BY <2>1, RegisterTimerStep, UnregisterTimerStep
  <2>2. ASSUME NEW s \in Sockets, NEW dir \in Dirs,
               \/ RegisterNotifier(s, dir)
               \/ \E deletes \in BOOLEAN : UnregisterNotifier(s, dir, deletes)
        PROVE  IInv'
    BY <2>2, RegisterNotifierStep, UnregisterNotifierStep
  <2>3. ASSUME AppRuns, NEW c \in Calls, ProcessEvents(c.wait, c.ex) PROVE IInv'
    <3>1. c.wait \in BOOLEAN /\ c.ex \in SUBSET Flags
      BY DispatcherAssumption
    <3> QED BY <2>3, <3>1, ProcessEventsStep DEF AppRuns
  <2> QED BY <1>3, <2>1, <2>2, <2>3 DEF App
<1>4. CASE Kernel
  BY <1>4, ExpireStep DEF Kernel
<1>5. CASE UNCHANGED vars
  <2>1. UNCHANGED <<stack, sources, kernel, active, wake>>
    BY <1>5 DEF vars
  <2>2. TypeOK'
    BY <2>1 DEF IInv, TypeOK, sources, kernel, wake
  <2> QED BY <2>1, <2>2, SourcesKept, StackKept DEF IInv
<1> QED BY <1>1, <1>2, <1>3, <1>4, <1>5, ReturnStep, WakesStep DEF Next, Wakes

LEMMA Invariance == Spec => []IInv
BY InitIInv, NextIInv, PTL DEF Spec

\* The variables keep their types, whatever handlers do in the middle of a batch.
THEOREM TypesKept == Spec => []TypeOK
<1>1. IInv => TypeOK BY DEF IInv
<1> QED BY <1>1, Invariance, PTL

\* The info of a source has as many references as registrations and calls that have
\* it in their batch, so it is freed when the last of them is done and never before
\* (eventdispatcher_epoll_p.h:25-32).
THEOREM ReferencesExact == Spec => []RefsExact
<1>1. IInv => RefsExact BY DEF IInv
<1> QED BY <1>1, Invariance, PTL

\* No event that another thread posted is slept on, for any number of events and of
\* nested calls (eventdispatcher_epoll.cpp:123-139, _p.cpp:138-153).
THEOREM WakeUpsKept == Spec => []NoLostWakeUp
<1>1. ASSUME IInv PROVE NoLostWakeUp
  BY <1>1 DEF IInv, WakeOK, NoLostWakeUp, Sleeps, Asked, Runs
<1> QED BY <1>1, Invariance, PTL
----------------------------------------------------------------------------
(* No handler of what is gone.                                              *)

LEMMA NewTop ==
    ASSUME stack \in Seq(Frame), stack # <<>>, NEW f, TopBecomes(f)
    PROVE  Top' = f
BY TopIsFrame DEF TopBecomes, Top

\* Two references mean a registration or a second call that has the timer.
LEMMA AliveInBatch ==
    ASSUME IInv, stack # <<>>, NEW t \in Timers \cup Zeros, CanProcess(t)
    PROVE  t \in registered \/ InOuterBatch(t)
<1> DEFINE n == Len(stack)
<1>1. stack \in Seq(Frame) /\ n \in Nat \ {0} /\ t \in Infos /\ t \notin Sockets /\ t # "eventfd"
  BY TopOK, TopIsFrame, NamesDiffer, DispatcherAssumption
<1>2. SUFFICES ASSUME t \notin registered, ~InOuterBatch(t) PROVE FALSE
  OBVIOUS
<1>3. refs[t] = Cardinality(Holders(t)) + Registrations(t)
  BY <1>1 DEF IInv, RefsExact
<1>4. Registrations(t) = 0
  BY <1>1, <1>2 DEF Registrations
<1>5. Holders(t) \subseteq {n}
  BY <1>1, <1>2 DEF Holders, InOuterBatch
<1>6. Holders(t) = {} \/ Holders(t) = {n}
  BY <1>5
<1>7. Cardinality(Holders(t)) \in {0, 1}
  BY <1>6, FS_EmptySet, FS_Singleton
<1>8. refs[t] > 1
  BY DEF CanProcess
<1> QED BY <1>3, <1>4, <1>7, <1>8

\* A step that starts nothing.
LEMMA NothingStarts ==
    ASSUME \/ stack = <<>> \/ UNCHANGED stack \/ Len(stack') # Len(stack)
           \/ Top'.now \notin Timers \cup Zeros \cup Sockets
    PROVE  StartsAlive
BY DEF StartsAlive, Starts, Top

LEMMA DropStarts ==
    ASSUME IInv, stack # <<>>, NEW i, Drop(i) PROVE StartsAlive
<1>1. Top' = Dropped(i) /\ Dropped(i).now = "none"
  BY TopOK, NewTop, DroppedIsFrame DEF Drop, Dropped
<1> QED BY <1>1, NothingStarts, NamesDiffer

LEMMA SendStarts ==
    ASSUME IInv, stack # <<>>, NEW s \in Sockets, NEW dirs \in SUBSET Dirs, Send(s, dirs),
           \A dir \in dirs : <<s, dir>> \notin dead
    PROVE  StartsAlive
<1>1. CASE dirs = {}
  BY <1>1, DropStarts DEF Send
<1>2. CASE dirs # {}
  <2>1. PICK dir \in {IF "r" \in dirs THEN "r" ELSE "w"} :
           TopBecomes([Top EXCEPT !.now = s, !.dir = dir, !.sends = dirs \ {dir}])
    BY <1>2 DEF Send
  <2>2. dir \in dirs
    BY <1>2 DEF Dirs
  <2>3. Top' = [Top EXCEPT !.now = s, !.dir = dir, !.sends = dirs \ {dir}] /\ Top \in Frame
    BY <2>1, NewTop, TopOK
  <2>4. Top'.now = s /\ Top'.dir = dir
    BY <2>3 DEF Frame
  <2>5. s \notin Timers \cup Zeros /\ <<s, dir>> \notin dead
    BY <2>2, DispatcherAssumption
  <2> QED BY <2>4, <2>5 DEF StartsAlive, Starts
<1> QED BY <1>1, <1>2

LEMMA CallStarts ==
    ASSUME IInv, stack # <<>>, NEW i, Call(i), i \notin Timers \cup Zeros \cup Sockets
    PROVE  StartsAlive
<1>1. Top' = [Top EXCEPT !.now = i] /\ Top \in Frame
  BY NewTop, TopOK DEF Call
<1>2. Top'.now = i
  BY <1>1 DEF Frame
<1> QED BY <1>2, NothingStarts

LEMMA TimerStarts ==
    ASSUME IInv, stack # <<>>, NEW t \in Timers \cup Zeros, CanProcess(t), Top'.now = t
    PROVE  StartsAlive
BY AliveInBatch, DispatcherAssumption DEF StartsAlive, Starts

LEMMA StepStarts == ASSUME IInv, Step PROVE StartsAlive
<1>1. CASE SendPostedEvents
  BY <1>1, CallStarts, NamesDiffer DEF SendPostedEvents, Runs
<1>2. CASE RefZeroTimers
  <2>1. PICK zs : TopBecomes([Top EXCEPT !.stage = "zero", !.todo = zs])
    BY <1>2 DEF RefZeroTimers
  <2>2. stack # <<>> /\ Top.now = "none"
    BY <1>2 DEF RefZeroTimers, Runs
  <2>3. Top' = [Top EXCEPT !.stage = "zero", !.todo = zs] /\ Top \in Frame
    BY <2>1, <2>2, NewTop, TopOK
  <2>4. Top'.now = "none"
    BY <2>2, <2>3 DEF Frame
  <2> QED BY <2>4, NothingStarts, NamesDiffer
<1>3. CASE EpollWait
  <2>1. PICK events : TopBecomes([Top EXCEPT !.stage = "events", !.todo = Pending(events),
                                             !.wait = FALSE, !.result = FALSE, !.events = events])
    BY <1>3 DEF EpollWait
  <2>2. stack # <<>> /\ Top.now = "none"
    BY <1>3 DEF EpollWait, Asked, Runs
  <2>3. Top' = [Top EXCEPT !.stage = "events", !.todo = Pending(events),
                           !.wait = FALSE, !.result = FALSE, !.events = events] /\ Top \in Frame
    BY <2>1, <2>2, NewTop, TopOK
  <2>4. Top'.now = "none"
    BY <2>2, <2>3 DEF Frame
  <2> QED BY <2>4, NothingStarts, NamesDiffer
<1>4. CASE ReadEventFd
  BY <1>4, CallStarts, NamesDiffer DEF ReadEventFd, Processes, Runs
<1>5. CASE WokenUp
  BY <1>5, DropStarts DEF WokenUp
<1>6. CASE EndProcessEvents
  <2>1. stack \in Seq(Frame) /\ stack # <<>> /\ stack' = SubSeq(stack, 1, Len(stack) - 1)
    BY <1>6, TopOK DEF EndProcessEvents, Runs
  <2>2. Len(stack') # Len(stack)
    BY <2>1
  <2> QED BY <2>2, NothingStarts
<1>7. ASSUME NEW z \in Zeros, ZeroTimer(z) PROVE StartsAlive
  <2>1. stack # <<>>
    BY <1>7 DEF ZeroTimer, Runs
  <2>2. CASE CanProcess(z) /\ active[z]
    <3>1. Top' = [Top EXCEPT !.now = z, !.result = TRUE] /\ Top \in Frame
      BY <1>7, <2>1, <2>2, NewTop, TopOK DEF ZeroTimer
    <3>2. Top'.now = z
      BY <3>1 DEF Frame
    <3> QED BY <2>1, <2>2, <3>2, TimerStarts
  <2>3. CASE ~(CanProcess(z) /\ active[z])
    BY <1>7, <2>1, <2>3, DropStarts DEF ZeroTimer
  <2> QED BY <2>2, <2>3
<1>8. ASSUME NEW i \in Infos, SkipEvent(i) PROVE StartsAlive
  BY <1>8, DropStarts DEF SkipEvent, Runs
<1>9. ASSUME NEW t \in Timers, TimerEvent(t) PROVE StartsAlive
  <2>1. stack # <<>> /\ CanProcess(t) /\ Call(t)
    BY <1>9 DEF TimerEvent, Processes, Runs
  <2>2. Top' = [Top EXCEPT !.now = t] /\ Top \in Frame
    BY <2>1, NewTop, TopOK DEF Call
  <2>3. Top'.now = t
    BY <2>2 DEF Frame
  <2> QED BY <2>1, <2>3, TimerStarts
<1>10. ASSUME NEW s \in Sockets, SocketEvent(s) PROVE StartsAlive
  <2>1. stack # <<>> /\ Send(s, on[s] \cap Top.events[s]) /\ TypeOK
    BY <1>10, TopOK DEF SocketEvent, Processes, Runs
  <2>2. on[s] \cap Top.events[s] \in SUBSET Dirs
    BY <2>1 DEF TypeOK
  <2>3. \A dir \in on[s] \cap Top.events[s] : <<s, dir>> \notin dead
    BY DEF IInv, UsedOK
  <2> QED BY <2>1, <2>2, <2>3, SendStarts
<1> QED BY <1>1, <1>2, <1>3, <1>4, <1>5, <1>6, <1>7, <1>8, <1>9, <1>10 DEF Step

LEMMA ReturnStarts == ASSUME IInv, Return PROVE StartsAlive
<1>0. stack # <<>> /\ Top \in Frame
  BY TopOK DEF Return
<1>1. CASE ReturnPosted
  <2>1. Top' = [Top EXCEPT !.now = "none"]
    BY <1>0, <1>1, NewTop, TopOK DEF ReturnPosted
  <2>2. Top'.now = "none"
    BY <1>0, <2>1 DEF Frame
  <2> QED BY <2>2, NothingStarts, NamesDiffer
<1>2. ASSUME NEW z \in Zeros, ReturnZero(z) PROVE StartsAlive
  BY <1>0, <1>2, DropStarts DEF ReturnZero
<1>3. ASSUME NEW t \in Timers, ReturnTimer(t) PROVE StartsAlive
  BY <1>0, <1>3, DropStarts DEF ReturnTimer
<1>4. ASSUME NEW s \in Sockets, ReturnSocket(s) PROVE StartsAlive
  <2>1. {dir \in Top.sends : <<s, dir>> \notin dead} \in SUBSET Dirs
    BY <1>0 DEF Frame
  <2> QED BY <1>0, <1>4, <2>1, SendStarts DEF ReturnSocket
<1> QED BY <1>1, <1>2, <1>3, <1>4 DEF Return

LEMMA NextStarts == ASSUME IInv, [Next]_vars PROVE StartsAlive
<1>1. CASE Loop
  BY <1>1, NothingStarts DEF Loop
<1>2. CASE App
  <2>1. ASSUME UNCHANGED stack PROVE StartsAlive
    BY <2>1, NothingStarts
  <2>2. ASSUME NEW c \in Calls, ProcessEvents(c.wait, c.ex) PROVE StartsAlive
    <3> DEFINE f == NewCall(c.wait, c.ex)
    <3>1. stack \in Seq(Frame) /\ c.wait \in BOOLEAN /\ c.ex \in SUBSET Flags
      BY DispatcherAssumption DEF IInv, TypeOK
    <3>2. f \in Frame /\ stack' = Append(stack, f)
      BY <2>2, <3>1 DEF Frame, NewCall, ProcessEvents
    <3> HIDE DEF f
    <3>3. Len(stack') # Len(stack)
      BY <3>1, <3>2
    <3> QED BY <3>3, NothingStarts
  <2> QED BY <1>2, <2>1, <2>2
          DEF App, RegisterTimer, UnregisterTimer, RegisterNotifier, UnregisterNotifier
<1>3. CASE Post \/ Wakes \/ Kernel \/ UNCHANGED vars
  <2>1. UNCHANGED stack
    BY <1>3 DEF Post, Wakes, WakeUp, WriteEventFd, Kernel, Expire, vars
  <2> QED BY <2>1, NothingStarts
<1> QED BY <1>1, <1>2, <1>3, StepStarts, ReturnStarts DEF Next

\* No handler is called for a timer or a notifier that is gone, whatever the handlers
\* before it in the batch stopped and deleted (eventdispatcher_epoll_p.cpp:89-130); a
\* timer that an outer call has in its batch as well is left out.
THEOREM HandlersOfTheLiving == Spec => HandlersAlive
<1>1. IInv /\ [Next]_vars => [StartsAlive]_vars
  BY NextStarts
<1> QED BY <1>1, Invariance, PTL DEF Spec, HandlersAlive
----------------------------------------------------------------------------
(* Nothing that is registered is forgotten.                                 *)

\* A call is in the handler of the timer.
InHandler(t) == \E k \in DOMAIN stack : stack[k].now = t

\* A step of the last call excludes what was excluded, and is in no other handler.
LEMMA TopExcludes ==
    ASSUME stack \in Seq(Frame), stack # <<>>, NEW f, TopBecomes(f), f.ex = Top.ex
    PROVE  /\ \A what : Excluded(what)' <=> Excluded(what)
           /\ \A t : InHandler(t) => InHandler(t)' \/ Top.now = t
           /\ \A t : f.now = t => InHandler(t)'
<1>1. /\ DOMAIN stack' = DOMAIN stack /\ stack'[Len(stack)] = f
      /\ \A k \in DOMAIN stack : k # Len(stack) => stack'[k] = stack[k]
  BY TopIsFrame DEF TopBecomes
<1>2. Len(stack) \in DOMAIN stack /\ stack[Len(stack)] = Top
  BY TopIsFrame DEF Top
<1>3. \A what : Excluded(what)' <=> Excluded(what)
  BY <1>1, <1>2 DEF Excluded
<1>4. \A t : InHandler(t) => InHandler(t)' \/ Top.now = t
  BY <1>1, <1>2 DEF InHandler
<1>5. \A t : f.now = t => InHandler(t)'
  BY <1>1, <1>2 DEF InHandler
<1> QED BY <1>3, <1>4, <1>5

\* It forgets nothing if a timer that is off is the one whose handler runs.
LEMMA TopForgetsNothing ==
    ASSUME IInv, NothingForgotten, stack # <<>>, NEW f, TopBecomes(f), f.ex = Top.ex,
           UNCHANGED <<registered, on, watched>>,
           \A t \in Timers \cap registered :
              timer[t] # "off" \/ Top.now = t => timer'[t] # "off" \/ f.now = t
    PROVE  NothingForgotten'
<1>1. /\ \A what : Excluded(what)' <=> Excluded(what)
      /\ \A t : InHandler(t) => InHandler(t)' \/ Top.now = t
      /\ \A t : f.now = t => InHandler(t)'
  BY TopOK, TopExcludes
<1>2. \A s \in Sockets : on'[s] # {} => s \in watched' \/ Excluded("sockets")'
  BY <1>1 DEF NothingForgotten
<1>3. \A t \in Timers \cap registered : timer'[t] # "off" \/ Excluded("timers")' \/ InHandler(t)'
  BY <1>1 DEF NothingForgotten, InHandler
<1> QED BY <1>2, <1>3 DEF NothingForgotten, InHandler

LEMMA DropForgetsNothing ==
    ASSUME IInv, NothingForgotten, stack # <<>>, NEW i, Drop(i),
           UNCHANGED <<registered, on, watched>>,
           \A t \in Timers \cap registered : timer[t] # "off" \/ Top.now = t => timer'[t] # "off"
    PROVE  NothingForgotten'
<1>1. TopBecomes(Dropped(i)) /\ Top \in Frame
  BY TopOK DEF Drop, Dropped
<1>2. Dropped(i).ex = Top.ex
  BY <1>1 DEF Dropped, Frame
<1> QED BY <1>1, <1>2, TopForgetsNothing

LEMMA SendForgetsNothing ==
    ASSUME IInv, NothingForgotten, stack # <<>>, NEW s \in Sockets, NEW dirs, Send(s, dirs),
           Top.now \notin Timers, UNCHANGED <<registered, on, watched, timer>>
    PROVE  NothingForgotten'
<1>1. CASE dirs = {}
  BY <1>1, DropForgetsNothing DEF Send
<1>2. CASE dirs # {}
  <2>1. PICK dir : TopBecomes([Top EXCEPT !.now = s, !.dir = dir, !.sends = dirs \ {dir}])
    BY <1>2 DEF Send
  <2>2. [Top EXCEPT !.now = s, !.dir = dir, !.sends = dirs \ {dir}].ex = Top.ex
    BY TopOK DEF Frame
  <2> QED BY <2>1, <2>2, TopForgetsNothing
<1> QED BY <1>1, <1>2

\* A step that leaves the calls alone, and what may be off.
LEMMA StackForgetsNothing ==
    ASSUME NothingForgotten, UNCHANGED stack,
           \A s \in Sockets : on'[s] # {} => s \in watched' \/ (on[s] # {} /\ s \notin watched),
           \A t \in Timers \cap registered' :
              timer'[t] # "off" \/ (t \in registered /\ timer[t] = "off")
    PROVE  NothingForgotten'
BY DEF NothingForgotten, Excluded

LEMMA AppForgetsNothing ==
    ASSUME IInv, NothingForgotten,
           \/ \E t \in Timers \cup Zeros : RegisterTimer(t) \/ UnregisterTimer(t)
           \/ \E s \in Sockets, dir \in Dirs :
                 RegisterNotifier(s, dir) \/ \E deletes \in BOOLEAN : UnregisterNotifier(s, dir, deletes)
    PROVE  NothingForgotten'
<1>0. TypeOK
  BY DEF IInv
<1>1. ASSUME NEW t \in Timers \cup Zeros, RegisterTimer(t) \/ UnregisterTimer(t)
      PROVE  NothingForgotten'
  BY <1>0, <1>1, StackForgetsNothing DEF RegisterTimer, UnregisterTimer, TypeOK
<1>2. ASSUME NEW s \in Sockets, NEW dir \in Dirs, RegisterNotifier(s, dir)
      PROVE  NothingForgotten'
  BY <1>0, <1>2, StackForgetsNothing DEF RegisterNotifier, TypeOK
<1>3. ASSUME NEW s \in Sockets, NEW dir \in Dirs, NEW deletes, UnregisterNotifier(s, dir, deletes)
      PROVE  NothingForgotten'
  BY <1>0, <1>3, StackForgetsNothing DEF UnregisterNotifier, TypeOK
<1> QED BY <1>1, <1>2, <1>3

\* A new call excludes what it disables.
LEMMA ProcessEventsForgetsNothing ==
    ASSUME IInv, NothingForgotten, NEW wait, NEW ex, ProcessEvents(wait, ex)
    PROVE  NothingForgotten'
<1> DEFINE f == NewCall(wait, ex)
           n == Len(stack)
<1>1. stack \in Seq(Frame) /\ n \in Nat /\ stack' = Append(stack, f) /\ f.ex = ex
  <2>1. stack \in Seq(Frame)
    BY DEF IInv, TypeOK
  <2>2. stack' = Append(stack, f)
    BY DEF ProcessEvents, NewCall
  <2>3. f.ex = ex
    BY DEF NewCall
  <2> QED BY <2>1, <2>2, <2>3
<1> HIDE DEF f
<1>2. /\ DOMAIN stack = 1 .. n /\ DOMAIN stack' = 1 .. n + 1 /\ stack'[n + 1] = f
      /\ \A k \in 1 .. n : stack'[k] = stack[k]
  BY <1>1
<1> HIDE DEF n
<1>3. /\ DOMAIN stack \subseteq DOMAIN stack' /\ n + 1 \in DOMAIN stack'
      /\ \A k \in DOMAIN stack : stack'[k] = stack[k]
  BY <1>1, <1>2
<1>4. \A what : Excluded(what) \/ what \in ex => Excluded(what)'
  BY <1>1, <1>2, <1>3 DEF Excluded
<1>5. \A t : InHandler(t) => InHandler(t)'
  BY <1>3 DEF InHandler
<1>6. UNCHANGED <<registered, on>>
  BY DEF ProcessEvents, sources
<1>7. \A s \in Sockets : on'[s] # {} => s \in watched' \/ Excluded("sockets")'
  BY <1>4, <1>6 DEF ProcessEvents, NothingForgotten
<1>8. \A t \in Timers \cap registered' : timer'[t] # "off" \/ Excluded("timers")' \/ InHandler(t)'
  BY <1>4, <1>5, <1>6 DEF ProcessEvents, NothingForgotten, InHandler
<1> QED BY <1>7, <1>8 DEF NothingForgotten, InHandler

\* A call that returns enables what it excluded.
LEMMA EndForgetsNothing ==
    ASSUME IInv, NothingForgotten, EndProcessEvents
    PROVE  NothingForgotten'
<1> DEFINE n == Len(stack)
<1>1. /\ stack \in Seq(Frame) /\ n \in Nat \ {0} /\ stack[n] = Top /\ Top.now = "none"
      /\ stack' = SubSeq(stack, 1, n - 1) /\ UNCHANGED <<registered, on>> /\ TypeOK
  BY TopOK, TopIsFrame DEF EndProcessEvents, Runs, Top, sources
<1>2. /\ DOMAIN stack = 1 .. n /\ DOMAIN stack' = 1 .. n - 1
      /\ \A k \in 1 .. n - 1 : stack'[k] = stack[k]
  BY <1>1
<1> HIDE DEF n
<1>3. \A k \in DOMAIN stack : k = n \/ (k \in DOMAIN stack' /\ stack'[k] = stack[k])
  BY <1>1, <1>2
<1>4. \A what : Excluded(what) => Excluded(what)' \/ what \in Top.ex
  BY <1>1, <1>3 DEF Excluded
<1>5. \A t \in Timers : InHandler(t) => InHandler(t)'
  BY <1>1, <1>3, NamesDiffer DEF InHandler
<1>6. \A s \in Sockets : on'[s] # {} => s \in watched' \/ Excluded("sockets")'
  BY <1>1, <1>4 DEF EndProcessEvents, WatchedAfter, NothingForgotten
<1>7. \A t \in Timers \cap registered' : timer'[t] # "off" \/ Excluded("timers")' \/ InHandler(t)'
  BY <1>1, <1>4, <1>5 DEF EndProcessEvents, NothingForgotten, InHandler, TypeOK
<1> QED BY <1>6, <1>7 DEF NothingForgotten, InHandler

LEMMA StepForgetsNothing ==
    ASSUME IInv, NothingForgotten, Step
    PROVE  NothingForgotten'
<1>0. TypeOK
  BY DEF IInv
<1>1. CASE SendPostedEvents
  <2>1. [Top EXCEPT !.now = "posted"].ex = Top.ex /\ Top.now \notin Timers
    BY <1>1, TopOK, NamesDiffer DEF SendPostedEvents, Runs, Frame
  <2> QED BY <1>1, <2>1, TopForgetsNothing DEF SendPostedEvents, Runs, Call, sources, kernel
<1>2. CASE RefZeroTimers
  <2>1. PICK zs : TopBecomes([Top EXCEPT !.stage = "zero", !.todo = zs])
    BY <1>2 DEF RefZeroTimers
  <2>2. [Top EXCEPT !.stage = "zero", !.todo = zs].ex = Top.ex /\ Top.now \notin Timers
    BY <1>2, TopOK, NamesDiffer DEF RefZeroTimers, Runs, Frame
  <2> QED BY <1>2, <2>1, <2>2, TopForgetsNothing DEF RefZeroTimers, Runs, kernel
<1>3. CASE EpollWait
  <2>1. PICK events : TopBecomes([Top EXCEPT !.stage = "events", !.todo = Pending(events),
                                             !.wait = FALSE, !.result = FALSE, !.events = events])
    BY <1>3 DEF EpollWait
  <2>2. /\ [Top EXCEPT !.stage = "events", !.todo = Pending(events),
                       !.wait = FALSE, !.result = FALSE, !.events = events].ex = Top.ex
        /\ Top.now \notin Timers
    BY <1>3, TopOK, NamesDiffer DEF EpollWait, Asked, Runs, Frame
  <2> QED BY <1>3, <2>1, <2>2, TopForgetsNothing DEF EpollWait, Asked, Runs, kernel
<1>4. CASE ReadEventFd
  <2>1. [Top EXCEPT !.now = "eventfd"].ex = Top.ex /\ Top.now \notin Timers
    BY <1>4, TopOK, NamesDiffer DEF ReadEventFd, Processes, Runs, Frame
  <2> QED BY <1>4, <2>1, TopForgetsNothing DEF ReadEventFd, Processes, Runs, Call, sources, kernel
<1>5. CASE WokenUp
  BY <1>5, DropForgetsNothing, NamesDiffer DEF WokenUp, kernel
<1>6. CASE EndProcessEvents
  BY <1>6, EndForgetsNothing
<1>7. ASSUME NEW z \in Zeros, ZeroTimer(z) PROVE NothingForgotten'
  <2>0. stack # <<>> /\ Top.now \notin Timers /\ UNCHANGED <<registered, on, watched, timer>>
    BY <1>7, NamesDiffer DEF ZeroTimer, Runs, kernel
  <2>1. CASE CanProcess(z) /\ active[z]
    <3>1. [Top EXCEPT !.now = z, !.result = TRUE].ex = Top.ex
      BY <2>0, TopOK DEF Frame
    <3> QED BY <1>7, <2>0, <2>1, <3>1, TopForgetsNothing DEF ZeroTimer
  <2>2. CASE ~(CanProcess(z) /\ active[z])
    BY <1>7, <2>0, <2>2, DropForgetsNothing DEF ZeroTimer
  <2> QED BY <2>1, <2>2
<1>8. ASSUME NEW i \in Infos, SkipEvent(i) PROVE NothingForgotten'
  BY <1>8, DropForgetsNothing, NamesDiffer DEF SkipEvent, Runs, kernel
<1>9. ASSUME NEW t \in Timers, TimerEvent(t) PROVE NothingForgotten'
  <2>1. /\ stack # <<>> /\ Top.now = "none" /\ TopBecomes([Top EXCEPT !.now = t])
        /\ UNCHANGED <<registered, on, watched>>
        /\ \A u \in Timers : u # t => timer'[u] = timer[u]
    BY <1>0, <1>9 DEF TimerEvent, Processes, Runs, Call, sources, TypeOK
  <2>2. [Top EXCEPT !.now = t].ex = Top.ex /\ [Top EXCEPT !.now = t].now = t /\ "none" \notin Timers
    BY <2>1, TopOK, NamesDiffer DEF Frame
  <2> QED BY <2>1, <2>2, TopForgetsNothing
<1>10. ASSUME NEW s \in Sockets, SocketEvent(s) PROVE NothingForgotten'
  BY <1>10, SendForgetsNothing, NamesDiffer DEF SocketEvent, Processes, Runs
<1> QED BY <1>1, <1>2, <1>3, <1>4, <1>5, <1>6, <1>7, <1>8, <1>9, <1>10 DEF Step

\* A timer that is still registered has two references, and is armed again.
LEMMA RegisteredCanProcess ==
    ASSUME IInv, stack # <<>>, NEW t \in Timers \cap registered, t \in Top.todo
    PROVE  CanProcess(t)
<1>1. /\ stack \in Seq(Frame) /\ t \in Infos /\ t \notin Sockets /\ t # "eventfd"
      /\ Len(stack) \in Holders(t)
  BY TopOK, HoldersOfTop, NamesDiffer, DispatcherAssumption
<1>2. IsFiniteSet(Holders(t)) /\ Cardinality(Holders(t)) \in Nat /\ Holders(t) # {}
  BY <1>1, HoldersFinite
<1>3. Cardinality(Holders(t)) # 0
  BY <1>2, FS_EmptySet
<1>4. refs[t] = Cardinality(Holders(t)) + 1
  BY <1>1 DEF IInv, RefsExact, Registrations
<1> QED BY <1>2, <1>3, <1>4 DEF CanProcess

LEMMA ReturnForgetsNothing ==
    ASSUME IInv, NothingForgotten, Return
    PROVE  NothingForgotten'
<1>0. /\ stack # <<>> /\ UNCHANGED <<registered, on, watched>>
      /\ Top \in Frame /\ FrameOK(Top) /\ TypeOK
  BY TopOK DEF Return
<1>1. CASE ReturnPosted
  <2>1. [Top EXCEPT !.now = "none"].ex = Top.ex /\ Top.now \notin Timers
    BY <1>0, <1>1, NamesDiffer DEF ReturnPosted, Frame
  <2> QED BY <1>0, <1>1, <2>1, TopForgetsNothing DEF ReturnPosted
<1>2. ASSUME NEW z \in Zeros, ReturnZero(z) PROVE NothingForgotten'
  BY <1>0, <1>2, DropForgetsNothing, DispatcherAssumption DEF ReturnZero
<1>3. ASSUME NEW t \in Timers, ReturnTimer(t) PROVE NothingForgotten'
  <2>1. Top.now = t /\ t \in Top.todo
    BY <1>0, <1>3, NamesDiffer DEF ReturnTimer, FrameOK
  <2>2. t \in registered => timer' = [timer EXCEPT ![t] = "armed"]
    BY <1>0, <1>3, <2>1, RegisteredCanProcess DEF ReturnTimer
  <2>3. t \notin registered => timer' = timer
    BY <1>3 DEF ReturnTimer
  <2>4. \A u \in Timers \cap registered : timer[u] # "off" \/ Top.now = u => timer'[u] # "off"
    BY <1>0, <2>1, <2>2, <2>3 DEF TypeOK
  <2> QED BY <1>0, <1>3, <2>4, DropForgetsNothing DEF ReturnTimer
<1>4. ASSUME NEW s \in Sockets, ReturnSocket(s) PROVE NothingForgotten'
  BY <1>0, <1>4, SendForgetsNothing, DispatcherAssumption DEF ReturnSocket
<1> QED BY <1>1, <1>2, <1>3, <1>4 DEF Return

LEMMA NextForgetsNothing ==
    ASSUME IInv, NothingForgotten, [Next]_vars
    PROVE  NothingForgotten'
<1>0. TypeOK
  BY DEF IInv
<1>1. CASE Loop
  BY <1>1, ProcessEventsForgetsNothing DEF Loop
<1>2. CASE App
  BY <1>2, AppForgetsNothing, ProcessEventsForgetsNothing DEF App
<1>3. CASE Post \/ Wakes \/ UNCHANGED vars
  BY <1>3, StackForgetsNothing DEF Post, Wakes, WakeUp, WriteEventFd, vars, sources, kernel,
                                   NothingForgotten
<1>4. CASE Kernel
  BY <1>0, <1>4, StackForgetsNothing DEF Kernel, Expire, sources, TypeOK
<1> QED BY <1>1, <1>2, <1>3, <1>4, StepForgetsNothing, ReturnForgetsNothing DEF Next

\* What is registered is waited for, unless a call on the stack excludes it or its
\* handler runs, in whatever order handlers register, unregister and make calls of
\* their own (socknot_p.cpp:15-177, timers_p.cpp:364-395).
THEOREM AllWaitedFor == Spec => []NothingForgotten
<1>1. Init => NothingForgotten
  BY DEF Init, NothingForgotten
<1>2. IInv /\ NothingForgotten /\ [Next]_vars => NothingForgotten'
  BY NextForgetsNothing
<1> QED BY <1>1, <1>2, Invariance, PTL DEF Spec
=============================================================================
