------------------------ MODULE ContextDispatch_proofs ------------------------
(***************************************************************************)
(* Proofs about ContextDispatch for every value of its constants.          *)
(***************************************************************************)
EXTENDS ContextInv, FiniteSetTheorems, SequenceTheorems, TLAPS

USE DEF PCs, Callers, Hooks, OnStack

\* Only ASync's constructor and destructor touch the reference count.
LEMMA CountUnchanged ==
    ASSUME [Next]_vars,
           \A a \in ASyncs : ~HookDetach(a) /\ ~BodyDetach(a) /\ ~HandlerDetach(a),
           \A a \in ASyncs : ~HookRelease(a) /\ ~BodyRelease(a),
           ~HandlerDone
    PROVE  UNCHANGED <<refCount, held, unused>>
<1>1. CASE Program
  <2>1. CASE Application
    BY <1>1, <2>1 DEF Application, HandleRequest, BeforePrepareDone,
       BeforeDispatchDone, Dispatched, AfterDispatchDone, Finalize, asy
  <2>2. CASE Controller
    BY <1>1, <2>2 DEF Controller, AutoEnqueue, AutoDispatch, AutoReturned,
       AutoDone, MainEnqueue, MainDispatch, MainReturned, EndEnqueue,
       EndDispatch, EndReturned, LeaveDispatch, DispatchFrom, asy
  <2>3. CASE Chain
    BY <1>1, <2>3 DEF Chain, ChainDefer, ChainDispatch, ChainDone,
       ChainReturned, asy
  <2>4. CASE Body
    BY <1>1, <2>4 DEF Body, BodyForward, ForwardReturned, BodyEscape,
       BodyHandshake, BodyFinalize, BodyReturn, Forward, asy
  <2>5. CASE Attach
    BY <1>1, <2>5 DEF Attach, HandlerForward, HandlerForwardReturned,
       AttachNext, AttachReturned, AttachDone, Forward, asy
  <2> QED BY <1>1, <2>1, <2>2, <2>3, <2>4, <2>5 DEF Program
<1>2. CASE \E a \in ASyncs : Complete(a)
  BY <1>2 DEF Complete
<1>3. CASE DeleteContext
  BY <1>3 DEF DeleteContext, asy
<1>4. CASE Gone \/ UNCHANGED vars
  BY <1>4 DEF Gone, vars, asy
<1> QED BY <1>1, <1>2, <1>3, <1>4 DEF Next

\* Once the context is deleted it is never used again as if it existed, and
\* deletion only follows the answer.
LEMMA AliveStep ==
    ASSUME TypeOK, CountInv, [Next]_vars
    PROVE  /\ ~alive' => Finalized'
           /\ alive' => alive
<1> USE DEF CountInv, Finalized, TypeOK
<1>1. CASE Program
  <2>1. CASE Application
    BY <1>1, <2>1 DEF Application, HandleRequest, BeforePrepareDone,
       BeforeDispatchDone, Dispatched, AfterDispatchDone, Finalize,
       EngineFinalize, HookDetach, HookRelease, req
  <2>2. CASE Controller
    BY <1>1, <2>2 DEF Controller, AutoEnqueue, AutoDispatch, AutoReturned,
       AutoDone, MainEnqueue, MainDispatch, MainReturned, EndEnqueue,
       EndDispatch, EndReturned, LeaveDispatch, DispatchFrom, req
  <2>3. CASE Chain
    BY <1>1, <2>3 DEF Chain, ChainDefer, ChainDispatch, ChainDone,
       ChainReturned, Return, req
  <2>4. CASE Body
    BY <1>1, <2>4 DEF Body, BodyDetach, BodyRelease, BodyForward,
       ForwardReturned, BodyEscape, BodyHandshake, BodyFinalize, BodyReturn,
       Forward, EngineFinalize, req
  <2>5. CASE Attach
    BY <1>1, <2>5 DEF Attach, HandlerDetach, HandlerForward, HandlerDone,
       HandlerForwardReturned, AttachNext, AttachReturned, AttachDone,
       Forward, req
  <2> QED BY <1>1, <2>1, <2>2, <2>3, <2>4, <2>5 DEF Program
<1>2. CASE \E a \in ASyncs : Complete(a)
  BY <1>2 DEF Complete, req
<1>3. CASE DeleteContext
  BY <1>3 DEF DeleteContext
<1>4. CASE Gone \/ UNCHANGED vars
  BY <1>4 DEF Gone, vars, req
<1> QED BY <1>1, <1>2, <1>3, <1>4 DEF Next

LEMMA DetachCount ==
    ASSUME TypeOK, CountInv, NEW a \in ASyncs, Detach(a)
    PROVE  /\ refCount' \in Nat
           /\ held' \subseteq ASyncs
           /\ unused' \subseteq ASyncs
           /\ alive => refCount' = Cardinality(held')
<1>1. IsFiniteSet(held)
  BY ASyncAssumption, FS_Subset DEF TypeOK
<1>2. Cardinality(held \cup {a}) = Cardinality(held) + 1
  BY <1>1, FS_AddElement DEF CountInv, Detach
<1> QED BY <1>2 DEF TypeOK, CountInv, RefCountExact, Detach

LEMMA ReleaseCount ==
    ASSUME TypeOK, CountInv, NEW a \in held, Release(a)
    PROVE  /\ refCount' \in Nat
           /\ held' \subseteq ASyncs
           /\ alive => refCount' = Cardinality(held') /\ refCount' = refCount - 1
           /\ alive /\ refCount' = 0 => held' = {}
<1>1. IsFiniteSet(held)
  BY ASyncAssumption, FS_Subset DEF TypeOK
<1>2. /\ Cardinality(held \ {a}) = Cardinality(held) - 1
      /\ Cardinality(held) \in Nat
      /\ Cardinality(held \ {a}) \in Nat
  BY <1>1, FS_RemoveElement, FS_CardinalityType, FS_Subset
<1>3. Cardinality(held \ {a}) = 0 => held \ {a} = {}
  BY <1>1, FS_Subset, FS_EmptySet
<1> QED BY <1>2, <1>3 DEF TypeOK, CountInv, RefCountExact, Release

----------------------------------------------------------------------------
(* The numbers of the plan, the stack and the queue.                        *)

LEMMA PlanNumbers ==
    /\ Mains \in Nat \ {0}
    /\ EndAction = Autos + Mains + 1 /\ EndAction \in Nat
    /\ ActionChain = EndAction + 1 /\ ActionChain \in Nat
    /\ PlanLen \in Nat /\ PlanLen <= EndAction /\ PlanLen >= Autos + Mains
    /\ MainAction \in Nat
    /\ Chained = 0 => MainAction = Autos + 1
    /\ Chained # 0 => MainAction = ActionChain /\ Mains = Chained
BY PlanAssumption DEF Mains, EndAction, ActionChain, PlanLen, MainAction

LEMMA ExecuteEffect ==
    ASSUME TypeOK, NEW c \in Components, Execute(c)
    PROVE  /\ ret' \in BOOLEAN /\ error' \in BOOLEAN /\ failed' \in BOOLEAN
           /\ last' \in 0 .. PlanLen
           /\ stack' \in Seq(Components)
           /\ \/ pc' = "returned" /\ stack' = stack /\ last' = last
              \/ /\ pc' = IF c = ActionChain THEN "chain" ELSE "run"
                 /\ stack' = Append(stack, c)
                 /\ last' = IF c \in 1 .. PlanLen THEN c ELSE last
<1>1. failed' \in BOOLEAN
  BY DEF TypeOK, Execute
<1>2. CASE Len(stack) >= Recursion
  BY <1>1, <1>2 DEF TypeOK, Execute
<1>3. CASE ~(Len(stack) >= Recursion) /\ detached /\ c # ActionChain
  BY <1>1, <1>3 DEF TypeOK, Execute
<1>4. CASE ~(Len(stack) >= Recursion) /\ ~(detached /\ c # ActionChain)
  <2>1. Append(stack, c) \in Seq(Components)
    BY DEF TypeOK
  <2>2. /\ stack' = Append(stack, c)
        /\ pc' = IF c = ActionChain THEN "chain" ELSE "run"
        /\ last' = IF c \in 1 .. PlanLen THEN c ELSE last
        /\ ret' = ret /\ error' = error
    BY <1>4 DEF Execute, Plan
  <2>3. last' \in 0 .. PlanLen
    BY <2>2, PlanNumbers DEF TypeOK
  <2> QED BY <1>1, <2>1, <2>2, <2>3 DEF TypeOK
<1> QED BY <1>2, <1>3, <1>4

LEMMA PopEffect ==
    ASSUME TypeOK, stack # <<>>, stack' = Pop
    PROVE  /\ stack' \in Seq(Components)
           /\ Len(stack') = Len(stack) - 1
           /\ \A i \in 1 .. Len(stack') : stack'[i] = stack[i]
<1>1. Len(stack) \in Nat \ {0}
  BY EmptySeq DEF TypeOK
<1>2. \A i \in 1 .. Len(stack) - 1 : stack[i] \in Components
  BY <1>1, ElementOfSeq DEF TypeOK
<1>3. /\ Pop \in Seq(Components)
      /\ Len(Pop) = Len(stack) - 1
      /\ \A i \in 1 .. Len(stack) - 1 : Pop[i] = stack[i]
  <2>1. /\ SubSeq(stack, 1, Len(stack) - 1) \in Seq(Components)
        /\ Len(SubSeq(stack, 1, Len(stack) - 1))
               = IF 1 <= Len(stack) - 1 THEN (Len(stack) - 1) - 1 + 1 ELSE 0
        /\ \A i \in 1 .. (Len(stack) - 1) - 1 + 1 :
               SubSeq(stack, 1, Len(stack) - 1)[i] = stack[1 + i - 1]
    BY <1>1, <1>2, SubSeqProperties
  <2>2. Pop = SubSeq(stack, 1, Len(stack) - 1)
    BY DEF Pop
  <2>3. (Len(stack) - 1) - 1 + 1 = Len(stack) - 1
    BY <1>1
  <2>4. \A i \in 1 .. Len(stack) - 1 : 1 + i - 1 = i
    BY <1>1
  <2> QED BY <1>1, <2>1, <2>2, <2>3, <2>4
<1> QED BY <1>1, <1>3

LEMMA QueueTypes ==
    ASSUME TypeOK
    PROVE  /\ \A c \in 1 .. ActionChain : Append(pending, c) \in Seq(1 .. ActionChain)
           /\ <<ActionChain>> \o pending \in Seq(1 .. ActionChain)
           /\ pending # <<>> => /\ Tail(pending) \in Seq(1 .. ActionChain)
                                /\ Head(pending) \in 1 .. ActionChain
BY PlanNumbers DEF TypeOK

----------------------------------------------------------------------------
(* Type correctness.                                                        *)

\* What the steps that call Context::execute do to the types.
LEMMA ExecuteTypes ==
    ASSUME TypeOK, NEW c \in Components, Execute(c), caller' \in Callers,
           pending' \in Seq(1 .. ActionChain), forwards' \in 0 .. MaxForwards,
           UNCHANGED <<ix, asy, chainIx, detached, req, matched, afters>>
    PROVE  TypeOK'
<1>1. pc' \in {"returned", "run", "chain"}
  BY ExecuteEffect
<1>2. /\ ret' \in BOOLEAN /\ error' \in BOOLEAN /\ failed' \in BOOLEAN
      /\ last' \in 0 .. PlanLen
      /\ stack' \in Seq(Components)
  BY ExecuteEffect
<1> QED BY <1>1, <1>2 DEF TypeOK, asy, req

LEMMA TypeStep ==
    ASSUME TypeOK, CountInv, StackInv, DispatchInv, ChainInv, WaitInv, [Next]_vars
    PROVE  TypeOK'
<1> USE PlanNumbers, PlanAssumption
<1>1. ASSUME Application PROVE TypeOK'
  <2>1. CASE HandleRequest \/ BeforePrepareDone \/ BeforeDispatchDone \/ Dispatched \/ AfterDispatchDone
    <3>1. CASE HandleRequest
      BY <3>1 DEF HandleRequest, TypeOK, ctl, asy, ctx, req, hist, vars
    <3>2. CASE BeforePrepareDone
      BY <3>2 DEF BeforePrepareDone, TypeOK, ctl, asy, ctx, req, hist, vars
    <3>3. CASE BeforeDispatchDone
      <4>1. error' \in BOOLEAN /\ pc' \in PCs
        BY <3>3 DEF BeforeDispatchDone, TypeOK
      <4>2. UNCHANGED <<caller, ix, stack, ret, asy, pending, chainIx, detached, req, hist>>
        BY <3>3 DEF BeforeDispatchDone
      <4> QED BY <4>1, <4>2 DEF TypeOK, asy, req, hist
    <3>4. CASE Dispatched
      BY <3>4 DEF Dispatched, EmitAfterDispatch, TypeOK, ctl, asy, ctx, req, hist, vars
    <3>5. CASE AfterDispatchDone
      BY <3>5 DEF AfterDispatchDone, TypeOK, ctl, asy, ctx, req, hist, vars
    <3> QED BY <2>1, <3>1, <3>2, <3>3, <3>4, <3>5
  <2>2. CASE Finalize
    BY <2>2 DEF Finalize, LeaveAttach, EngineFinalize, TypeOK, ctx, hist
  <2>3. ASSUME NEW a \in ASyncs, HookDetach(a) PROVE TypeOK'
    <3>1. /\ refCount' \in Nat /\ held' \subseteq ASyncs /\ unused' \subseteq ASyncs
      BY <2>3, DetachCount DEF HookDetach
    <3> QED BY <2>3, <3>1 DEF HookDetach, TypeOK, ctl, ctx, req, hist
  <2>4. ASSUME NEW a \in ASyncs, HookRelease(a) PROVE TypeOK'
    <3>1. /\ refCount' \in Nat /\ held' \subseteq ASyncs
      BY <2>4, ReleaseCount DEF HookRelease, Release
    <3> QED BY <2>4, <3>1 DEF HookRelease, TypeOK, ctx, req, hist
  <2> QED BY <1>1, <2>1, <2>2, <2>3, <2>4 DEF Application
<1>2. ASSUME Controller PROVE TypeOK'
  <2>1. CASE AutoEnqueue
    <3>1. ix \in 1 .. ActionChain
      BY <2>1 DEF AutoEnqueue, TypeOK
    <3>2. Append(pending, ix) \in Seq(1 .. ActionChain)
      BY <3>1, QueueTypes
    <3> QED BY <2>1, <3>2 DEF AutoEnqueue, Enqueue, TypeOK, asy, req, hist
  <2>2. CASE AutoDispatch
    <3>1. ix \in Components
      BY <2>2 DEF AutoDispatch, TypeOK, Components
    <3> QED BY <2>2, <3>1, ExecuteTypes DEF AutoDispatch, DispatchFrom, TypeOK
  <2>3. CASE AutoReturned
    BY <2>3 DEF AutoReturned, AfterMain, DispatchInv, InCall, TypeOK, asy, ctx, req, hist
  <2>4. CASE AutoDone \/ MainReturned \/ EndReturned \/ LeaveDispatch
    <3>1. CASE AutoDone
      BY <3>1 DEF AutoDone, TypeOK, ctl, asy, ctx, req, hist, vars
    <3>2. CASE MainReturned
      BY <3>2 DEF MainReturned, AfterMain, TypeOK, ctl, asy, ctx, req, hist, vars
    <3>3. CASE EndReturned
      BY <3>3 DEF EndReturned, TypeOK, ctl, asy, ctx, req, hist, vars
    <3>4. CASE LeaveDispatch
      BY <3>4 DEF LeaveDispatch, Waiting, TypeOK, ctl, asy, ctx, req, hist, vars
    <3> QED BY <2>4, <3>1, <3>2, <3>3, <3>4
  <2>5. CASE MainEnqueue
    <3>1. MainAction \in 1 .. ActionChain
      BY PlanAssumption
    <3>2. Append(pending, MainAction) \in Seq(1 .. ActionChain)
      BY <3>1, QueueTypes
    <3> QED BY <2>5, <3>2 DEF MainEnqueue, Enqueue, AfterMain, TypeOK, asy, req, hist
  <2>6. CASE MainDispatch
    <3>1. MainAction \in Components
      BY PlanAssumption DEF Components
    <3> QED BY <2>6, <3>1, ExecuteTypes DEF MainDispatch, DispatchFrom, TypeOK
  <2>7. CASE EndEnqueue
    <3>1. EndAction \in 1 .. ActionChain
      BY PlanAssumption
    <3>2. Append(pending, EndAction) \in Seq(1 .. ActionChain)
      BY <3>1, QueueTypes
    <3> QED BY <2>7, <3>2 DEF EndEnqueue, Enqueue, TypeOK, asy, req, hist
  <2>8. CASE EndDispatch
    <3>1. EndAction \in Components
      BY DEF Components
    <3> QED BY <2>8, <3>1, ExecuteTypes DEF EndDispatch, DispatchFrom, TypeOK
  <2> QED BY <1>2, <2>1, <2>2, <2>3, <2>4, <2>5, <2>6, <2>7, <2>8 DEF Controller
<1>3. ASSUME Chain PROVE TypeOK'
  <2>1. CASE ChainDefer
    <3>1. pc = "chain" /\ stack' = Pop
      BY <2>1 DEF ChainDefer, Return
    <3>2. stack' \in Seq(Components)
      BY <3>1, PopEffect DEF StackInv
    <3> QED BY <2>1, <3>2, QueueTypes DEF ChainDefer, Return, TypeOK, asy, req, hist
  <2>2. CASE ChainDispatch
    <3>1. Autos + chainIx + 1 \in Components
      BY <2>2, PlanAssumption DEF ChainDispatch, Components, TypeOK
    <3> QED BY <2>2, <3>1, ExecuteTypes DEF ChainDispatch, TypeOK
  <2>3. CASE ChainDone
    <3>1. stack' \in Seq(Components) /\ pc' = "returned" /\ ret' = TRUE
      BY <2>3, PopEffect DEF ChainDone, Return, StackInv
    <3> QED BY <2>3, <3>1 DEF ChainDone, TypeOK, asy, ctx, req, hist
  <2>4. CASE ChainReturned
    <3>1. CASE ret
      <4>1. chainIx < Chained
        BY <2>4, <3>1 DEF ChainReturned, ChainInv, StackInv, Top, TypeOK
      <4> QED BY <2>4, <3>1, <4>1, PlanAssumption DEF ChainReturned, TypeOK, asy, req, hist
    <3>2. CASE ~ret
      <4>1. stack' \in Seq(Components) /\ pc' = "returned" /\ ret' \in BOOLEAN
            /\ chainIx' = chainIx
        BY <2>4, <3>2, PopEffect DEF ChainReturned, Return
      <4>2. UNCHANGED <<caller, ix, asy, pending, chainIx, detached, error, req, hist>>
        BY <2>4, <3>2 DEF ChainReturned
      <4> QED BY <4>1, <4>2 DEF TypeOK, asy, req, hist
    <3> QED BY <3>1, <3>2
  <2> QED BY <1>3, <2>1, <2>2, <2>3, <2>4 DEF Chain
<1>4. ASSUME Body PROVE TypeOK'
  <2>1. ASSUME NEW a \in ASyncs, BodyDetach(a) PROVE TypeOK'
    <3>1. /\ refCount' \in Nat /\ held' \subseteq ASyncs /\ unused' \subseteq ASyncs
      BY <2>1, DetachCount DEF BodyDetach
    <3> QED BY <2>1, <3>1 DEF BodyDetach, TypeOK, ctl, ctx, req, hist
  <2>2. ASSUME NEW a \in ASyncs, BodyRelease(a) PROVE TypeOK'
    <3>1. /\ refCount' \in Nat /\ held' \subseteq ASyncs
      BY <2>2, ReleaseCount DEF BodyRelease, Release
    <3> QED BY <2>2, <3>1 DEF BodyRelease, TypeOK, ctl, ctx, req, hist
  <2>3. CASE BodyForward
    <3>1. Forwarded \in Components
      BY DEF Forwarded, Components
    <3>2. forwards' \in 0 .. MaxForwards
      BY <2>3, LimitAssumption DEF BodyForward, Forward, TypeOK
    <3> QED BY <2>3, <3>1, <3>2, ExecuteTypes DEF BodyForward, Forward, TypeOK
  <2>4. CASE ForwardReturned \/ BodyEscape \/ BodyHandshake \/ BodyFinalize
    <3>1. CASE ForwardReturned
      BY <3>1 DEF ForwardReturned, TypeOK, ctl, asy, ctx, req, hist, vars
    <3>2. CASE BodyEscape
      BY <3>2 DEF BodyEscape, TypeOK, ctl, asy, ctx, req, hist, vars
    <3>3. CASE BodyHandshake
      BY <3>3 DEF BodyHandshake, TypeOK, ctl, asy, ctx, req, hist, vars
    <3>4. CASE BodyFinalize
      BY <3>4 DEF BodyFinalize, EngineFinalize, TypeOK, ctl, asy, ctx, req, hist, vars
    <3> QED BY <2>4, <3>1, <3>2, <3>3, <3>4
  <2>5. ASSUME NEW v \in BOOLEAN, BodyReturn(v) PROVE TypeOK'
    <3>1. stack' \in Seq(Components) /\ pc' = "returned" /\ ret' = v
      BY <2>5, PopEffect DEF BodyReturn, Return, StackInv
    <3>2. failed' \in BOOLEAN
      BY <2>5 DEF BodyReturn, TypeOK
    <3> QED BY <2>5, <3>1, <3>2 DEF BodyReturn, TypeOK, asy, ctx, req
  <2> QED BY <1>4, <2>1, <2>2, <2>3, <2>4, <2>5 DEF Body
<1>5. ASSUME Attach PROVE TypeOK'
  <2>1. ASSUME NEW a \in ASyncs, HandlerDetach(a) PROVE TypeOK'
    <3>1. /\ refCount' \in Nat /\ held' \subseteq ASyncs /\ unused' \subseteq ASyncs
      BY <2>1, DetachCount DEF HandlerDetach
    <3> QED BY <2>1, <3>1 DEF HandlerDetach, TypeOK, ctl, ctx, req, hist
  <2>2. CASE HandlerForward
    <3>1. Forwarded \in Components
      BY DEF Forwarded, Components
    <3>2. forwards' \in 0 .. MaxForwards
      BY <2>2, LimitAssumption DEF HandlerForward, Forward, TypeOK
    <3> QED BY <2>2, <3>1, <3>2, ExecuteTypes DEF HandlerForward, Forward, TypeOK
  <2>3. CASE HandlerForwardReturned \/ AttachReturned \/ AttachDone
    <3>1. CASE HandlerForwardReturned
      BY <3>1 DEF HandlerForwardReturned, TypeOK, ctl, asy, ctx, req, hist, vars
    <3>2. CASE AttachReturned
      BY <3>2 DEF AttachReturned, EmitAfterDispatch, LeaveAttach, TypeOK, ctl, asy, ctx, req, hist, vars
    <3>3. CASE AttachDone
      BY <3>3 DEF AttachDone, EmitAfterDispatch, TypeOK, ctl, asy, ctx, req, hist, vars
    <3> QED BY <2>3, <3>1, <3>2, <3>3
  <2>4. CASE HandlerDone
    <3>1. /\ refCount' \in Nat /\ held' \subseteq ASyncs
      BY <2>4, ReleaseCount DEF HandlerDone, Release
    <3> QED BY <2>4, <3>1 DEF HandlerDone, TypeOK, ctx, req, hist
  <2>5. CASE AttachNext
    <3>1. pending' \in Seq(1 .. ActionChain) /\ Head(pending) \in Components
      BY <2>5, QueueTypes DEF AttachNext, Components
    <3> QED BY <2>5, <3>1, ExecuteTypes DEF AttachNext, TypeOK
  <2> QED BY <1>5, <2>1, <2>2, <2>3, <2>4, <2>5 DEF Attach
<1>6. CASE \E a \in ASyncs : Complete(a)
  BY <1>6 DEF Complete, TypeOK, ctx, req, hist
<1>7. CASE DeleteContext \/ Gone \/ UNCHANGED vars
  <2>1. CASE DeleteContext
    <3>1. alive' \in BOOLEAN
      BY <2>1 DEF DeleteContext
    <3>2. UNCHANGED <<ctl, asy, ctx, async, answer, keeps, hist>>
      BY <2>1 DEF DeleteContext
    <3> QED BY <3>1, <3>2 DEF TypeOK, ctl, asy, ctx, hist
  <2>2. CASE Gone
    BY <2>2 DEF Gone, TypeOK, ctl, asy, ctx, req, hist, vars
  <2>3. CASE UNCHANGED vars
    BY <2>3 DEF vars, TypeOK, ctl, asy, ctx, req, hist, vars
  <2> QED BY <1>7, <2>1, <2>2, <2>3
<1> QED BY <1>1, <1>2, <1>3, <1>4, <1>5, <1>6, <1>7 DEF Next, Program

----------------------------------------------------------------------------
(* The reference count.                                                     *)

LEMMA CountStep ==
    ASSUME TypeOK, CountInv, [Next]_vars
    PROVE  CountInv'
<1>1. /\ ~alive' => Finalized'
      /\ alive' => alive
  BY AliveStep
<1>2. ASSUME NEW a \in ASyncs, Detach(a) PROVE CountInv'
  BY <1>1, <1>2, DetachCount DEF CountInv, RefCountExact, Detach
<1>3. ASSUME NEW a \in held, Release(a), unused' = unused PROVE CountInv'
  BY <1>1, <1>3, ReleaseCount DEF CountInv, RefCountExact, Release
<1>4. CASE UNCHANGED <<refCount, held, unused>>
  BY <1>1, <1>4 DEF CountInv, RefCountExact
<1>5. CASE \E a \in ASyncs : HookDetach(a) \/ BodyDetach(a) \/ HandlerDetach(a)
  BY <1>2, <1>5 DEF HookDetach, BodyDetach, HandlerDetach
<1>6. CASE \E a \in ASyncs : HookRelease(a) \/ BodyRelease(a)
  BY <1>3, <1>6 DEF HookRelease, BodyRelease, Release
<1>7. CASE HandlerDone
  BY <1>3, <1>7 DEF HandlerDone, Release
<1> QED BY <1>4, <1>5, <1>6, <1>7, CountUnchanged

----------------------------------------------------------------------------
(* The stack.                                                               *)

LEMMA ExecuteStack ==
    ASSUME TypeOK, StackInv, NEW c \in Components, Execute(c),
           c = ActionChain => stack = <<>>
    PROVE  StackInv'
<1>1. CASE pc' = "returned" /\ stack' = stack
  BY <1>1 DEF StackInv
<1>2. CASE pc' = (IF c = ActionChain THEN "chain" ELSE "run") /\ stack' = Append(stack, c)
  <2>1. /\ Len(stack') = Len(stack) + 1
        /\ stack'[Len(stack')] = c
        /\ \A i \in 1 .. Len(stack) : stack'[i] = stack[i]
    BY <1>2 DEF TypeOK
  <2>2. Len(stack) \in Nat /\ (c = ActionChain => Len(stack) = 0)
    BY DEF TypeOK
  <2>3. \A i \in 2 .. Len(stack') : stack'[i] # ActionChain
    BY <2>1, <2>2 DEF StackInv
  <2>4. stack' # <<>>
    BY <2>1, <2>2
  <2> QED BY <1>2, <2>1, <2>2, <2>3, <2>4 DEF StackInv
<1> QED BY <1>1, <1>2, ExecuteEffect

LEMMA PopStack ==
    ASSUME TypeOK, StackInv, stack # <<>>, stack' = Pop, pc' = "returned"
    PROVE  StackInv'
<1>1. /\ Len(stack') = Len(stack) - 1
      /\ \A i \in 1 .. Len(stack') : stack'[i] = stack[i]
  BY PopEffect
<1>2. Len(stack) \in Nat
  BY DEF TypeOK
<1> QED BY <1>1, <1>2 DEF StackInv

LEMMA ChainAtBottom ==
    ASSUME TypeOK, StackInv, stack # <<>>, Top = ActionChain
    PROVE  Len(stack) = 1 /\ stack[1] = ActionChain
<1>1. Len(stack) \in Nat \ {0} /\ stack[Len(stack)] = ActionChain
  BY DEF Top, TypeOK
<1>2. Len(stack) \notin 2 .. Len(stack)
  BY <1>1 DEF StackInv
<1>3. \A n \in Nat \ {0} : n \notin 2 .. n => n = 1
  OBVIOUS
<1> QED BY <1>1, <1>2, <1>3

LEMMA StackStep ==
    ASSUME TypeOK, StackInv, [Next]_vars
    PROVE  StackInv'
<1> USE PlanNumbers, PlanAssumption
<1>1. ASSUME Application PROVE StackInv'
  BY <1>1 DEF Application, HandleRequest, BeforePrepareDone, BeforeDispatchDone,
     Dispatched, AfterDispatchDone, EmitAfterDispatch, Finalize, LeaveAttach,
     HookDetach, HookRelease, HookMayUseASync, ctl, StackInv
<1>2. ASSUME Controller PROVE StackInv'
  <2>1. CASE AutoDispatch
    <3>1. ix \in Components /\ ix # ActionChain
      BY <2>1 DEF AutoDispatch, TypeOK, Components
    <3> QED BY <2>1, <3>1, ExecuteStack DEF AutoDispatch, DispatchFrom
  <2>2. CASE MainDispatch
    <3>1. MainAction \in Components /\ stack = <<>>
      BY <2>2 DEF MainDispatch, StackInv, Components
    <3> QED BY <2>2, <3>1, ExecuteStack DEF MainDispatch, DispatchFrom
  <2>3. CASE EndDispatch
    <3>1. EndAction \in Components /\ EndAction # ActionChain
      BY DEF Components
    <3> QED BY <2>3, <3>1, ExecuteStack DEF EndDispatch, DispatchFrom
  <2>4. CASE AutoEnqueue \/ AutoReturned \/ AutoDone \/ MainEnqueue \/ MainReturned
             \/ EndEnqueue \/ EndReturned \/ LeaveDispatch
    BY <2>4 DEF AutoEnqueue, AutoReturned, AutoDone, MainEnqueue, MainReturned,
       EndEnqueue, EndReturned, LeaveDispatch, AfterMain, StackInv
  <2> QED BY <1>2, <2>1, <2>2, <2>3, <2>4 DEF Controller
<1>3. ASSUME Chain PROVE StackInv'
  <2>1. CASE ChainDefer \/ ChainDone
    BY <2>1, PopStack DEF ChainDefer, ChainDone, Return, StackInv
  <2>2. CASE ChainDispatch
    <3>1. Autos + chainIx + 1 \in Components /\ Autos + chainIx + 1 # ActionChain
      BY <2>2 DEF ChainDispatch, Components, TypeOK
    <3> QED BY <2>2, <3>1, ExecuteStack DEF ChainDispatch
  <2>3. CASE ChainReturned /\ ret
    BY <2>3, ChainAtBottom DEF ChainReturned, StackInv
  <2>4. CASE ChainReturned /\ ~ret
    BY <2>4, PopStack DEF ChainReturned, Return
  <2> QED BY <1>3, <2>1, <2>2, <2>3, <2>4 DEF Chain
<1>4. ASSUME Body PROVE StackInv'
  <2>1. CASE BodyForward
    BY <2>1, ExecuteStack DEF BodyForward, Forward, Forwarded, Components
  <2>2. CASE ForwardReturned
    BY <2>2 DEF ForwardReturned, Top, StackInv
  <2>3. ASSUME NEW v \in BOOLEAN, BodyReturn(v) PROVE StackInv'
    BY <2>3, PopStack DEF BodyReturn, Return, StackInv
  <2>4. CASE \/ \E a \in ASyncs : BodyDetach(a) \/ BodyRelease(a)
             \/ BodyEscape \/ BodyHandshake \/ BodyFinalize
    BY <2>4 DEF BodyDetach, BodyRelease, BodyEscape, BodyHandshake, BodyFinalize,
       ctl, StackInv
  <2> QED BY <1>4, <2>1, <2>2, <2>3, <2>4 DEF Body
<1>5. ASSUME Attach PROVE StackInv'
  <2>1. CASE HandlerForward
    BY <2>1, ExecuteStack DEF HandlerForward, Forward, Forwarded, Components
  <2>2. CASE AttachNext
    <3>1. Head(pending) \in Components /\ stack = <<>>
      BY <2>2, QueueTypes DEF AttachNext, StackInv, Components
    <3> QED BY <2>2, <3>1, ExecuteStack DEF AttachNext
  <2>3. CASE \/ \E a \in ASyncs : HandlerDetach(a)
             \/ HandlerForwardReturned \/ HandlerDone \/ AttachReturned \/ AttachDone
    BY <2>3 DEF HandlerDetach, HandlerForwardReturned, HandlerDone, AttachReturned,
       AttachDone, LeaveAttach, EmitAfterDispatch, ctl, StackInv
  <2> QED BY <1>5, <2>1, <2>2, <2>3 DEF Attach
<1>6. CASE (\E a \in ASyncs : Complete(a)) \/ DeleteContext \/ Gone \/ UNCHANGED vars
  BY <1>6 DEF Complete, DeleteContext, Gone, vars, ctl, StackInv
<1> QED BY <1>1, <1>2, <1>3, <1>4, <1>5, <1>6 DEF Next, Program

----------------------------------------------------------------------------
(* The control of _DISPATCH: how far it is, and what it deferred.           *)

LEMMA DispatchStep ==
    ASSUME IInv, [Next]_vars
    PROVE  DispatchInv'
<1> USE PlanNumbers, PlanAssumption DEF IInv, InCall, Before, Finalized
<1>1. ASSUME Application PROVE DispatchInv'
  BY <1>1 DEF Application, HandleRequest, BeforePrepareDone, BeforeDispatchDone,
     Dispatched, AfterDispatchDone, EmitAfterDispatch, Finalize, LeaveAttach,
     HookDetach, HookRelease, HookMayUseASync, Resumes, WaitInv, ctl, ctx, hist,
     DispatchInv, TypeOK
<1>2. ASSUME Controller PROVE DispatchInv'
  <2>1. CASE AutoDispatch
    <3>1. ix \in Components /\ ix \in 1 .. PlanLen /\ ix # ActionChain
      BY <2>1 DEF AutoDispatch, TypeOK, Components
    <3>2. pc' \in {"returned", "run"} /\ last' \in {last, ix}
      BY <2>1, <3>1, ExecuteEffect DEF AutoDispatch, DispatchFrom
    <3> QED BY <2>1, <3>2 DEF AutoDispatch, DispatchFrom, DispatchInv, TypeOK
  <2>2. CASE MainDispatch
    <3>1. MainAction \in Components
      BY DEF Components
    <3>2. pc' \in {"returned", "run", "chain"} /\ last' < EndAction
      BY <2>2, <3>1, ExecuteEffect DEF MainDispatch, DispatchFrom, DispatchInv, TypeOK
    <3> QED BY <2>2, <3>2 DEF MainDispatch, DispatchFrom, DispatchInv
  <2>3. CASE EndDispatch
    <3>1. EndAction \in Components
      BY DEF Components
    <3>2. pc' \in {"returned", "run", "chain"}
      BY <2>3, <3>1, ExecuteEffect DEF EndDispatch, DispatchFrom
    <3> QED BY <2>3, <3>2 DEF EndDispatch, DispatchFrom, DispatchInv
  <2>4. CASE AutoEnqueue \/ AutoReturned \/ AutoDone \/ MainEnqueue \/ MainReturned
             \/ EndEnqueue \/ EndReturned \/ LeaveDispatch
    BY <2>4 DEF AutoEnqueue, AutoReturned, AutoDone, MainEnqueue, MainReturned,
       EndEnqueue, EndReturned, LeaveDispatch, AfterMain, DispatchInv, ctx, hist, TypeOK
  <2> QED BY <1>2, <2>1, <2>2, <2>3, <2>4 DEF Controller
<1>3. ASSUME Chain PROVE DispatchInv'
  <2>1. CASE ChainDefer \/ ChainDone
    BY <2>1 DEF ChainDefer, ChainDone, Return, DispatchInv, ctx, hist
  <2>2. CASE ChainDispatch
    <3>1. Autos + chainIx + 1 \in Components /\ Autos + chainIx + 1 \in 1 .. PlanLen
          /\ Autos + chainIx + 1 < EndAction
      BY <2>2 DEF ChainDispatch, Components, TypeOK
    <3>2. pc' \in {"returned", "run", "chain"} /\ last' \in {last, Autos + chainIx + 1}
      BY <2>2, <3>1, ExecuteEffect DEF ChainDispatch
    <3>3. ~InCall("auto")
      BY <2>2 DEF ChainDispatch, ChainInv, StackInv
    <3> QED BY <2>2, <3>1, <3>2, <3>3 DEF ChainDispatch, DispatchInv
  <2>3. CASE ChainReturned
    <3>1. ~InCall("auto")
      BY <2>3, ChainAtBottom DEF ChainReturned, ChainInv
    <3> QED BY <2>3, <3>1 DEF ChainReturned, Return, DispatchInv, hist
  <2> QED BY <1>3, <2>1, <2>2, <2>3 DEF Chain
<1>4. ASSUME Body PROVE DispatchInv'
  <2>1. CASE BodyForward
    <3>1. pc' \in {"returned", "run", "chain"} /\ last' = last
      BY <2>1, ExecuteEffect DEF BodyForward, Forward, Forwarded, Components
    <3> QED BY <2>1, <3>1 DEF BodyForward, Forward, DispatchInv
  <2>2. ASSUME NEW v \in BOOLEAN, BodyReturn(v) PROVE DispatchInv'
    BY <2>2 DEF BodyReturn, Return, DispatchInv, ctx
  <2>3. CASE \/ \E a \in ASyncs : BodyDetach(a) \/ BodyRelease(a)
             \/ ForwardReturned \/ BodyEscape \/ BodyHandshake \/ BodyFinalize
    BY <2>3 DEF BodyDetach, BodyRelease, ForwardReturned, BodyEscape, BodyHandshake,
       BodyFinalize, ctl, ctx, hist, DispatchInv
  <2> QED BY <1>4, <2>1, <2>2, <2>3 DEF Body
<1>5. ASSUME Attach PROVE DispatchInv'
  <2>1. CASE HandlerForward
    <3>1. pc' \in {"returned", "run", "chain"} /\ last' = last
      BY <2>1, ExecuteEffect DEF HandlerForward, Forward, Forwarded, Components
    <3> QED BY <2>1, <3>1 DEF HandlerForward, Forward, DispatchInv
  <2>2. CASE AttachNext
    <3>1. pc' \in {"returned", "run", "chain"}
      BY <2>2, QueueTypes, ExecuteEffect DEF AttachNext, Components
    <3> QED BY <2>2, <3>1 DEF AttachNext, DispatchInv
  <2>3. CASE \/ \E a \in ASyncs : HandlerDetach(a)
             \/ HandlerForwardReturned \/ HandlerDone \/ AttachReturned \/ AttachDone
    BY <2>3 DEF HandlerDetach, HandlerForwardReturned, HandlerDone, AttachReturned,
       AttachDone, LeaveAttach, EmitAfterDispatch, ctl, DispatchInv
  <2> QED BY <1>5, <2>1, <2>2, <2>3 DEF Attach
<1>6. CASE (\E a \in ASyncs : Complete(a)) \/ DeleteContext \/ Gone \/ UNCHANGED vars
  BY <1>6 DEF Complete, DeleteContext, Gone, vars, ctl, ctx, hist, DispatchInv
<1> QED BY <1>1, <1>2, <1>3, <1>4, <1>5, <1>6 DEF Next, Program

LEMMA DeferStep ==
    ASSUME IInv, [Next]_vars
    PROVE  DeferInv'
<1> USE DEF IInv, Dispatching, Sync, Waiting
<1>1. ASSUME Application PROVE DeferInv'
  BY <1>1 DEF Application, HandleRequest, BeforePrepareDone, BeforeDispatchDone,
     Dispatched, AfterDispatchDone, EmitAfterDispatch, Finalize, LeaveAttach,
     HookDetach, HookRelease, HookMayUseASync, ctl, ctx, DeferInv, DispatchInv, Before
<1>2. ASSUME Controller PROVE DeferInv'
  BY <1>2 DEF Controller, AutoEnqueue, AutoDispatch, AutoReturned, AutoDone,
     MainEnqueue, MainDispatch, MainReturned, EndEnqueue, EndDispatch, EndReturned,
     LeaveDispatch, DispatchFrom, AfterMain, asy, ctx, DeferInv
<1>3. ASSUME Chain PROVE DeferInv'
  <2>1. CASE ChainDefer
    <3>1. pc = "chain" /\ pc' = "returned" /\ stack' = Pop /\ UNCHANGED <<caller, refCount>>
          /\ refCount > 0
      BY <2>1 DEF ChainDefer, Return, asy
    <3>2. Len(stack) = 1 /\ stack # <<>>
      BY <3>1 DEF StackInv
    <3>3. Len(stack') = 0 /\ stack' \in Seq(Components)
      BY <3>1, <3>2, PopEffect
    <3>4. stack' = <<>>
      BY <3>3, EmptySeq
    <3> QED BY <3>1, <3>4 DEF DeferInv
  <2>2. CASE ChainDispatch
    <3>1. pc = "chain" /\ UNCHANGED <<caller, refCount, pending>>
      BY <2>2 DEF ChainDispatch, asy
    <3>2. pc' \in OnStack
      <4>1. Autos + chainIx + 1 \in Components
        BY <2>2, PlanNumbers, PlanAssumption DEF ChainDispatch, Components, TypeOK
      <4> QED BY <2>2, <4>1, ExecuteEffect DEF ChainDispatch
    <3> QED BY <3>1, <3>2 DEF DeferInv
  <2>3. CASE ChainDone
    BY <2>3 DEF ChainDone, Return, asy, ctx, DeferInv
  <2>4. CASE ChainReturned
    BY <2>4 DEF ChainReturned, Return, asy, DeferInv
  <2> QED BY <1>3, <2>1, <2>2, <2>3, <2>4 DEF Chain
<1>4. ASSUME Body PROVE DeferInv'
  <2>1. CASE BodyForward
    <3>1. pc = "run" /\ UNCHANGED <<caller, refCount, pending>>
      BY <2>1 DEF BodyForward, Forward, asy
    <3>2. pc' \in OnStack
      BY <2>1, ExecuteEffect, PlanNumbers DEF BodyForward, Forward, Forwarded, Components
    <3> QED BY <3>1, <3>2 DEF DeferInv
  <2>2. ASSUME NEW v \in BOOLEAN, BodyReturn(v) PROVE DeferInv'
    BY <2>2 DEF BodyReturn, Return, ctx, DeferInv
  <2>3. CASE \/ \E a \in ASyncs : BodyDetach(a) \/ BodyRelease(a)
             \/ ForwardReturned \/ BodyEscape \/ BodyHandshake \/ BodyFinalize
    BY <2>3 DEF BodyDetach, BodyRelease, ForwardReturned, BodyEscape, BodyHandshake,
       BodyFinalize, ctl, ctx, DeferInv
  <2> QED BY <1>4, <2>1, <2>2, <2>3 DEF Body
<1>5. ASSUME Attach PROVE DeferInv'
  BY <1>5, QueueTypes, ExecuteEffect DEF Attach, HandlerDetach, HandlerForward,
     HandlerForwardReturned, HandlerDone, AttachNext, AttachReturned, AttachDone,
     Forward, Forwarded, Components, LeaveAttach, EmitAfterDispatch, ctl, DeferInv
<1>6. CASE (\E a \in ASyncs : Complete(a)) \/ DeleteContext \/ Gone \/ UNCHANGED vars
  BY <1>6 DEF Complete, DeleteContext, Gone, vars, ctl, asy, ctx, DeferInv
<1> QED BY <1>1, <1>2, <1>3, <1>4, <1>5, <1>6 DEF Next, Program

----------------------------------------------------------------------------
(* The chain at the bottom of the stack.                                    *)

LEMMA ExecuteBottom ==
    ASSUME TypeOK, NEW c \in Components, Execute(c)
    PROVE  /\ stack # <<>> => stack' # <<>> /\ stack'[1] = stack[1]
           /\ stack = <<>> /\ stack' # <<>> => /\ stack'[1] = c
                                               /\ c = ActionChain => pc' = "chain"
                                               /\ c = ActionChain => last' = last
<1>1. CASE stack' = stack
  BY <1>1
<1>2. CASE /\ pc' = IF c = ActionChain THEN "chain" ELSE "run"
           /\ stack' = Append(stack, c)
           /\ last' = IF c \in 1 .. PlanLen THEN c ELSE last
  <2>1. stack' # <<>> /\ (stack # <<>> => stack'[1] = stack[1])
    BY <1>2 DEF TypeOK
  <2>2. stack = <<>> => stack'[1] = c
    BY <1>2
  <2>3. c = ActionChain => c \notin 1 .. PlanLen
    BY PlanNumbers
  <2> QED BY <1>2, <2>1, <2>2, <2>3
<1> QED BY <1>1, <1>2, ExecuteEffect

\* A chain that is resumed leaves only End in the queue.
LEMMA OnlyEndBehindChain ==
    ASSUME TypeOK, QueueInv, pending # <<>>, Head(pending) = ActionChain
    PROVE  /\ last <= Autos + chainIx
           /\ chainIx < Chained
           /\ \A i \in 1 .. Len(Tail(pending)) : Tail(pending)[i] = EndAction
<1> USE PlanNumbers, PlanAssumption
<1>1. /\ Len(pending) \in Nat \ {0}
      /\ pending[1] = ActionChain
      /\ Len(Tail(pending)) = Len(pending) - 1
      /\ \A i \in 1 .. Len(Tail(pending)) : Tail(pending)[i] = pending[i + 1]
  BY DEF TypeOK
<1>2. NextOf(pending[1]) = Autos + chainIx + 1
  BY <1>1 DEF NextOf
<1>3. 1 \in 1 .. Len(pending)
  BY <1>1
<1>4. NextOf(pending[1]) > last /\ chainIx < Chained
  BY <1>1, <1>3 DEF QueueInv, PendingInOrder
<1>5. ASSUME NEW i \in 1 .. Len(Tail(pending)) PROVE Tail(pending)[i] = EndAction
  <2>1. i + 1 \in 1 .. Len(pending) /\ 1 < i + 1
    BY <1>1
  <2>2. NextOf(pending[i + 1]) > Autos + chainIx + 1
    BY <1>2, <1>3, <2>1 DEF QueueInv, PendingInOrder
  <2>3. pending[i + 1] \in 1 .. Autos \cup {MainAction, EndAction}
    BY <2>1 DEF QueueInv
  <2>4. MainAction = ActionChain
    BY <1>4 DEF TypeOK
  <2> QED BY <1>1, <2>2, <2>3, <2>4 DEF NextOf, TypeOK
<1> QED BY <1>2, <1>4, <1>5 DEF TypeOK

LEMMA ChainStep ==
    ASSUME IInv, [Next]_vars
    PROVE  ChainInv'
<1> USE PlanNumbers, PlanAssumption DEF IInv
<1>1. ASSUME Application PROVE ChainInv'
  <2>1. stack = <<>> /\ stack' = stack
    BY <1>1 DEF Application, HandleRequest, BeforePrepareDone, BeforeDispatchDone,
       Dispatched, AfterDispatchDone, Finalize, HookDetach, HookRelease,
       HookMayUseASync, ctl, StackInv
  <2> QED BY <2>1 DEF ChainInv
<1>2. ASSUME Controller PROVE ChainInv'
  <2>1. CASE AutoDispatch
    <3>1. ix \in Components /\ ix # ActionChain /\ stack = <<>>
      BY <2>1 DEF AutoDispatch, TypeOK, Components, StackInv
    <3>2. stack' = <<>> \/ stack'[1] # ActionChain
      BY <2>1, <3>1, ExecuteBottom DEF AutoDispatch, DispatchFrom
    <3> QED BY <3>2 DEF ChainInv
  <2>2. CASE MainDispatch
    <3>1. MainAction \in Components /\ stack = <<>>
      BY <2>2 DEF MainDispatch, Components, StackInv
    <3>2. /\ last <= Autos /\ chainIx = 0 /\ pending = <<>>
          /\ caller' = "main" /\ chainIx' = chainIx /\ pending' = pending
      BY <2>2 DEF MainDispatch, DispatchFrom, DispatchInv, DeferInv, Dispatching
    <3>3. stack' # <<>> /\ stack'[1] = ActionChain => pc' = "chain" /\ last' = last
      BY <2>2, <3>1, ExecuteBottom DEF MainDispatch, DispatchFrom
    <3> QED BY <3>2, <3>3 DEF ChainInv, TypeOK
  <2>3. CASE EndDispatch
    <3>1. EndAction \in Components /\ EndAction # ActionChain /\ stack = <<>>
      BY <2>3 DEF EndDispatch, Components, StackInv
    <3>2. stack' = <<>> \/ stack'[1] # ActionChain
      BY <2>3, <3>1, ExecuteBottom DEF EndDispatch, DispatchFrom
    <3> QED BY <3>2 DEF ChainInv
  <2>4. CASE AutoEnqueue \/ AutoReturned \/ AutoDone \/ MainEnqueue \/ MainReturned
             \/ EndEnqueue \/ EndReturned \/ LeaveDispatch
    <3>1. stack = <<>> /\ stack' = stack
      BY <2>4 DEF AutoEnqueue, AutoReturned, AutoDone, MainEnqueue, MainReturned,
         EndEnqueue, EndReturned, LeaveDispatch, StackInv
    <3> QED BY <3>1 DEF ChainInv
  <2> QED BY <1>2, <2>1, <2>2, <2>3, <2>4 DEF Controller
<1>3. ASSUME Chain PROVE ChainInv'
  <2>1. ASSUME pc = "chain", stack' = Pop PROVE ChainInv'
    <3>1. Len(stack) = 1 /\ stack # <<>>
      BY <2>1 DEF StackInv
    <3>2. Len(stack') = 0 /\ stack' \in Seq(Components)
      BY <2>1, <3>1, PopEffect
    <3>3. stack' = <<>>
      BY <3>2, EmptySeq
    <3> QED BY <3>3 DEF ChainInv
  <2>2. CASE ChainDefer \/ ChainDone
    BY <2>1, <2>2 DEF ChainDefer, ChainDone, Return
  <2>3. CASE ChainDispatch
    <3>1. /\ Autos + chainIx + 1 \in Components /\ Autos + chainIx + 1 # ActionChain
          /\ pc = "chain" /\ chainIx < Chained
          /\ UNCHANGED <<caller, pending, chainIx>>
      BY <2>3 DEF ChainDispatch, Components, TypeOK
    <3>2. stack # <<>> /\ stack[1] = ActionChain
      <4>1. Len(stack) = 1 /\ stack[1] = ActionChain
        BY <3>1 DEF StackInv
      <4> QED BY <4>1
    <3>3. pc' # "chain" /\ last' \in {last, Autos + chainIx + 1}
      BY <2>3, <3>1, ExecuteEffect DEF ChainDispatch
    <3>4. last' <= Autos + chainIx + 1
      BY <3>1, <3>2, <3>3 DEF ChainInv, TypeOK
    <3>5. caller \in {"main", "attach"} /\ \A i \in 1 .. Len(pending) : pending[i] = EndAction
      BY <3>2 DEF ChainInv
    <3> QED BY <3>1, <3>3, <3>4, <3>5 DEF ChainInv
  <2>4. CASE ChainReturned
    <3>1. Len(stack) = 1 /\ stack[1] = ActionChain /\ stack # <<>> /\ pc = "returned"
      BY <2>4, ChainAtBottom DEF ChainReturned
    <3>2. CASE ret
      BY <2>4, <3>1, <3>2 DEF ChainReturned, hist, ChainInv, TypeOK
    <3>3. CASE ~ret
      <4>1. stack' = Pop
        BY <2>4, <3>3 DEF ChainReturned, Return
      <4>2. Len(stack') = 0 /\ stack' \in Seq(Components)
        BY <3>1, <4>1, PopEffect
      <4>3. stack' = <<>>
        BY <4>2, EmptySeq
      <4> QED BY <4>3 DEF ChainInv
    <3> QED BY <3>2, <3>3
  <2> QED BY <1>3, <2>2, <2>3, <2>4 DEF Chain
<1>4. ASSUME Body PROVE ChainInv'
  <2>1. CASE BodyForward
    <3>1. Forwarded \in Components /\ Forwarded # ActionChain
      BY DEF Forwarded, Components
    <3>2. pc = "run" /\ stack # <<>>
      BY <2>1 DEF BodyForward, StackInv
    <3>3. pc' # "chain" /\ last' = last /\ stack'[1] = stack[1]
      BY <2>1, <3>1, <3>2, ExecuteEffect, ExecuteBottom DEF BodyForward, Forward, Forwarded
    <3>4. UNCHANGED <<caller, chainIx, pending>>
      BY <2>1 DEF BodyForward, Forward
    <3> QED BY <3>2, <3>3, <3>4 DEF ChainInv
  <2>2. ASSUME NEW v \in BOOLEAN, BodyReturn(v) PROVE ChainInv'
    <3>1. /\ stack # <<>> /\ pc = "run" /\ pc' = "returned" /\ stack' = Pop
          /\ UNCHANGED <<caller, chainIx, pending, last>>
      BY <2>2 DEF BodyReturn, Return, StackInv, ctx
    <3>2. /\ Len(stack') = Len(stack) - 1 /\ stack' \in Seq(Components)
          /\ \A i \in 1 .. Len(stack') : stack'[i] = stack[i]
      BY <3>1, PopEffect
    <3>3. stack' # <<>> => stack'[1] = stack[1]
      <4>1. stack' # <<>> => Len(stack') \in Nat \ {0}
        BY <3>2, EmptySeq
      <4> QED BY <3>2, <4>1
    <3> QED BY <3>1, <3>3 DEF ChainInv
  <2>3. ASSUME NEW a \in ASyncs, BodyDetach(a) \/ BodyRelease(a) PROVE ChainInv'
    BY <2>3 DEF BodyDetach, BodyRelease, ctl, ctx, hist, ChainInv
  <2>4. CASE ForwardReturned
    BY <2>4 DEF ForwardReturned, ctx, hist, ChainInv
  <2>5. CASE BodyEscape \/ BodyHandshake \/ BodyFinalize
    <3>1. UNCHANGED <<pc, stack, caller, chainIx, pending, last>>
      BY <2>5 DEF BodyEscape, BodyHandshake, BodyFinalize, ctl, ctx, hist
    <3> QED BY <3>1 DEF ChainInv
  <2> QED BY <1>4, <2>1, <2>2, <2>3, <2>4, <2>5 DEF Body
<1>5. ASSUME Attach PROVE ChainInv'
  <2>1. CASE HandlerForward
    <3>1. Forwarded \in Components /\ Forwarded # ActionChain /\ stack = <<>>
      BY <2>1 DEF Forwarded, Components, HandlerForward, StackInv
    <3>2. stack' = <<>> \/ stack'[1] # ActionChain
      BY <2>1, <3>1, ExecuteBottom DEF HandlerForward, Forward
    <3> QED BY <3>2 DEF ChainInv
  <2>2. CASE AttachNext
    <3>1. /\ Head(pending) \in Components /\ stack = <<>> /\ pending # <<>>
          /\ caller' = "attach" /\ chainIx' = chainIx /\ pending' = Tail(pending)
      BY <2>2, QueueTypes DEF AttachNext, Components, StackInv
    <3>2. stack' # <<>> => /\ stack'[1] = Head(pending)
                           /\ Head(pending) = ActionChain => pc' = "chain" /\ last' = last
      BY <2>2, <3>1, ExecuteBottom DEF AttachNext
    <3> QED BY <3>1, <3>2, OnlyEndBehindChain DEF ChainInv
  <2>3. CASE \/ \E a \in ASyncs : HandlerDetach(a)
             \/ HandlerForwardReturned \/ HandlerDone \/ AttachReturned \/ AttachDone
    <3>1. stack = <<>> /\ stack' = stack
      BY <2>3 DEF HandlerDetach, HandlerForwardReturned, HandlerDone, AttachReturned,
         AttachDone, ctl, StackInv
    <3> QED BY <3>1 DEF ChainInv
  <2> QED BY <1>5, <2>1, <2>2, <2>3 DEF Attach
<1>6. CASE (\E a \in ASyncs : Complete(a)) \/ DeleteContext \/ Gone \/ UNCHANGED vars
  <2>1. stack' = stack /\ (stack = <<>> \/ UNCHANGED vars)
    BY <1>6 DEF Complete, DeleteContext, Gone, ctl, vars, StackInv
  <2> QED BY <2>1 DEF ChainInv, vars, ctl, ctx, hist
<1> QED BY <1>1, <1>2, <1>3, <1>4, <1>5, <1>6 DEF Next, Program

----------------------------------------------------------------------------
(* The queue.                                                               *)

\* An action queued behind a queue that is in order keeps it in order.
LEMMA AppendInOrder ==
    ASSUME TypeOK, PendingInOrder, NEW c \in 1 .. ActionChain,
           pending' = Append(pending, c), UNCHANGED <<last, chainIx>>,
           NextOf(c) > last,
           \A i \in 1 .. Len(pending) : NextOf(pending[i]) < NextOf(c)
    PROVE  PendingInOrder'
<1>1. /\ Len(pending) \in Nat
      /\ Len(pending') = Len(pending) + 1
      /\ pending'[Len(pending) + 1] = c
      /\ \A i \in 1 .. Len(pending) : pending'[i] = pending[i]
  BY DEF TypeOK
<1>2. ASSUME NEW i \in 1 .. Len(pending') PROVE NextOf(pending[i])' > last'
  BY <1>1 DEF PendingInOrder, NextOf
<1>3. ASSUME NEW i \in 1 .. Len(pending'), NEW j \in 1 .. Len(pending'), i < j
      PROVE  NextOf(pending[i])' < NextOf(pending[j])'
  <2>1. i \in 1 .. Len(pending)
    BY <1>1, <1>3
  <2>2. CASE j \in 1 .. Len(pending)
    BY <1>1, <1>3, <2>1, <2>2 DEF PendingInOrder, NextOf
  <2>3. CASE j = Len(pending) + 1
    BY <1>1, <2>1, <2>3 DEF NextOf
  <2> QED BY <1>1, <2>2, <2>3
<1> QED BY <1>2, <1>3 DEF PendingInOrder

\* A chain that is put in front of End is in order.
LEMMA PrependInOrder ==
    ASSUME TypeOK, PendingInOrder, pending' = <<ActionChain>> \o pending,
           UNCHANGED <<last, chainIx>>, chainIx < Chained, last <= Autos + chainIx,
           \A i \in 1 .. Len(pending) : pending[i] = EndAction
    PROVE  PendingInOrder'
<1> USE PlanNumbers, PlanAssumption
<1>1. /\ Len(pending) \in Nat
      /\ Len(pending') = Len(pending) + 1
      /\ pending'[1] = ActionChain
      /\ \A i \in 2 .. Len(pending') : pending'[i] = pending[i - 1]
  BY DEF TypeOK
<1>2. \A i \in 2 .. Len(pending') : i - 1 \in 1 .. Len(pending)
  BY <1>1
<1>3. NextOf(pending[1])' = Autos + chainIx + 1
  BY <1>1 DEF NextOf
<1>4. \A i \in 2 .. Len(pending') : pending'[i] = EndAction
  BY <1>1, <1>2
<1>5. \A i \in 2 .. Len(pending') : NextOf(pending[i])' = EndAction
  BY <1>4 DEF NextOf
<1>6. ASSUME NEW i \in 1 .. Len(pending') PROVE NextOf(pending[i])' > last'
  <2>1. i = 1 \/ i \in 2 .. Len(pending')
    BY <1>1
  <2> QED BY <1>3, <1>5, <2>1 DEF TypeOK
<1>7. ASSUME NEW i \in 1 .. Len(pending'), NEW j \in 1 .. Len(pending'), i < j
      PROVE  NextOf(pending[i])' < NextOf(pending[j])'
  <2>1. j \in 2 .. Len(pending')
    BY <1>1, <1>7
  <2>2. CASE i = 1
    BY <1>3, <1>5, <2>1, <2>2 DEF TypeOK
  <2>3. CASE i \in 2 .. Len(pending')
    <3>1. pending[i - 1] = EndAction /\ pending[j - 1] = EndAction
             /\ i - 1 \in 1 .. Len(pending) /\ j - 1 \in 1 .. Len(pending) /\ i - 1 < j - 1
      BY <1>2, <1>7, <2>1, <2>3
    <3>2. NextOf(pending[i - 1]) < NextOf(pending[j - 1])
      BY <3>1 DEF PendingInOrder
    <3> QED BY <3>1, <3>2 DEF NextOf
  <2> QED BY <1>1, <2>2, <2>3
<1> QED BY <1>6, <1>7 DEF PendingInOrder

\* Starting an action that comes before the whole queue keeps it in order.
LEMMA StartInOrder ==
    ASSUME TypeOK, PendingInOrder, UNCHANGED <<pending, chainIx>>,
           \A i \in 1 .. Len(pending) : NextOf(pending[i]) > last'
    PROVE  PendingInOrder'
BY DEF PendingInOrder, NextOf

\* Taking the head off the queue and starting it keeps the rest in order.
LEMMA TailInOrder ==
    ASSUME TypeOK, PendingInOrder, pending # <<>>, pending' = Tail(pending),
           chainIx' = chainIx,
           last' = last \/ (last' = Head(pending) /\ Head(pending) # ActionChain)
    PROVE  PendingInOrder'
<1>1. /\ Len(pending) \in Nat \ {0}
      /\ Len(pending') = Len(pending) - 1
      /\ Head(pending) = pending[1]
      /\ \A i \in 1 .. Len(pending') : pending'[i] = pending[i + 1]
  BY DEF TypeOK
<1>2. \A i \in 1 .. Len(pending') : i + 1 \in 1 .. Len(pending) /\ 1 < i + 1
  BY <1>1
<1>3. \A i \in 1 .. Len(pending') : NextOf(pending[i])' = NextOf(pending[i + 1])
  BY <1>1 DEF NextOf
<1>4. ASSUME NEW i \in 1 .. Len(pending') PROVE NextOf(pending[i])' > last'
  <2>1. NextOf(pending[i + 1]) > last
    BY <1>2 DEF PendingInOrder
  <2>2. Head(pending) # ActionChain => NextOf(pending[i + 1]) > Head(pending)
    <3>1. NextOf(pending[1]) < NextOf(pending[i + 1])
      BY <1>1, <1>2 DEF PendingInOrder
    <3>2. /\ Head(pending) # ActionChain => NextOf(pending[1]) = Head(pending)
          /\ Head(pending) \in Int
          /\ NextOf(pending[i + 1]) \in Int
      BY <1>1, <1>2, PlanNumbers, PlanAssumption DEF NextOf, TypeOK
    <3> QED BY <3>1, <3>2
  <2> QED BY <1>3, <2>1, <2>2
<1>5. ASSUME NEW i \in 1 .. Len(pending'), NEW j \in 1 .. Len(pending'), i < j
      PROVE  NextOf(pending[i])' < NextOf(pending[j])'
  <2>1. NextOf(pending[i + 1]) < NextOf(pending[j + 1])
    <3>1. i + 1 < j + 1
      BY <1>1, <1>5
    <3> QED BY <1>2, <3>1 DEF PendingInOrder
  <2> QED BY <1>3, <2>1
<1> QED BY <1>4, <1>5 DEF PendingInOrder

\* The steps that leave queue, chain and plan alone: only where the thread is
\* in _DISPATCH decides how far the queue may reach.
LEMMA QueueUnchanged ==
    ASSUME QueueInv, UNCHANGED <<pending, chainIx, last>>,
           pc' = "auto" \/ InCall("auto")' => (pc = "auto" \/ InCall("auto")) /\ ix' >= ix,
           ix \in Int, ix' \in Int, pending \in Seq(Int),
           pc' = "main" => pc = "main" \/ \A i \in 1 .. Len(pending) : pending[i] <= Autos,
           pc' = "end" \/ InCall("main")' =>
               \/ pc = "end" \/ InCall("main")
               \/ \A i \in 1 .. Len(pending) : pending[i] # EndAction
    PROVE  QueueInv'
<1>1. PendingInOrder'
  BY DEF QueueInv, PendingInOrder, NextOf
<1>2. ASSUME NEW i \in 1 .. Len(pending)
      PROVE  /\ pending[i] \in 1 .. Autos \cup {MainAction, EndAction}
             /\ pending[i] = ActionChain => chainIx < Chained
             /\ (pc = "auto" \/ InCall("auto"))' => pending[i] < ix'
             /\ pc' = "main" => pending[i] <= Autos
             /\ (pc = "end" \/ InCall("main"))' => pending[i] # EndAction
  <2>1. pending[i] \in Int
    OBVIOUS
  <2> QED BY <2>1 DEF QueueInv
<1> QED BY <1>1, <1>2 DEF QueueInv

LEMMA QueueStep ==
    ASSUME IInv, [Next]_vars
    PROVE  QueueInv'
<1> USE PlanNumbers, PlanAssumption DEF IInv
<1>t. ix \in Int /\ pending \in Seq(Int)
  BY DEF TypeOK
<1>1. ASSUME Application PROVE QueueInv'
  <2>1. UNCHANGED <<ix, pending, chainIx, last>>
    BY <1>1 DEF Application, HandleRequest, BeforePrepareDone, BeforeDispatchDone,
       Dispatched, AfterDispatchDone, Finalize, HookDetach, HookRelease,
       HookMayUseASync, ctl, ctx, hist
  <2>2. pc' \notin {"main", "end"} \cup OnStack
    BY <1>1 DEF Application, HandleRequest, BeforePrepareDone, BeforeDispatchDone,
       Dispatched, AfterDispatchDone, EmitAfterDispatch, Finalize, LeaveAttach,
       HookDetach, HookRelease, HookMayUseASync, ctl
  <2>3. pc' = "auto" => pending = <<>>
    BY <1>1 DEF Application, HandleRequest, BeforePrepareDone, BeforeDispatchDone,
       Dispatched, AfterDispatchDone, EmitAfterDispatch, Finalize, LeaveAttach,
       HookDetach, HookRelease, HookMayUseASync, ctl, Before, DispatchInv
  <2>4. CASE pending = <<>>
    BY <2>1, <2>4 DEF QueueInv, PendingInOrder
  <2>5. CASE pc' # "auto"
    BY <2>1, <2>2, <2>5, <1>t, QueueUnchanged DEF InCall
  <2> QED BY <2>3, <2>4, <2>5
<1>2. ASSUME Controller PROVE QueueInv'
  <2>1. CASE AutoEnqueue
    <3>1. /\ pc = "auto" /\ pc' = "auto" /\ ix \in 1 .. Autos /\ ix' = ix + 1
          /\ pending' = Append(pending, ix) /\ UNCHANGED <<last, chainIx, stack, caller>>
      BY <2>1 DEF AutoEnqueue, Enqueue, hist, TypeOK
    <3>2. ix \in 1 .. ActionChain /\ NextOf(ix) = ix /\ last < ix
      BY <3>1 DEF NextOf, DispatchInv
    <3>3. \A i \in 1 .. Len(pending) : pending[i] < ix /\ pending[i] \in 1 .. ActionChain
      BY <3>1 DEF QueueInv, TypeOK
    <3>4. \A i \in 1 .. Len(pending) : NextOf(pending[i]) < NextOf(ix)
      BY <3>1, <3>2, <3>3 DEF NextOf
    <3>5. PendingInOrder'
      BY <3>1, <3>2, <3>4, AppendInOrder DEF QueueInv
    <3>6. /\ Len(pending) \in Nat
          /\ Len(pending') = Len(pending) + 1
          /\ pending'[Len(pending) + 1] = ix
          /\ \A i \in 1 .. Len(pending) : pending'[i] = pending[i]
      BY <3>1 DEF TypeOK
    <3>7. \A i \in 1 .. Len(pending') : pending'[i] \in 1 .. Autos /\ pending'[i] < ix + 1
      BY <3>1, <3>3, <3>6
    <3>8. \A i \in 1 .. Len(pending') : pending'[i] # ActionChain
      BY <3>7
    <3> QED BY <3>1, <3>5, <3>7, <3>8 DEF QueueInv, InCall
  <2>2. CASE MainEnqueue
    <3>1. /\ pc = "main" /\ pc' \in {"end", "leave"} /\ chainIx = 0 /\ last <= Autos
          /\ pending' = Append(pending, MainAction) /\ UNCHANGED <<last, chainIx, stack, caller>>
      BY <2>2 DEF MainEnqueue, Enqueue, AfterMain, hist, DispatchInv
    <3>2. MainAction \in 1 .. ActionChain /\ NextOf(MainAction) = Autos + 1
      BY <3>1 DEF NextOf
    <3>3. \A i \in 1 .. Len(pending) : pending[i] <= Autos /\ pending[i] \in 1 .. ActionChain
      BY <3>1 DEF QueueInv, TypeOK
    <3>4. \A i \in 1 .. Len(pending) : NextOf(pending[i]) < NextOf(MainAction)
      BY <3>1, <3>2, <3>3 DEF NextOf
    <3>4a. NextOf(MainAction) > last
      BY <3>1, <3>2 DEF TypeOK
    <3>5. PendingInOrder'
      BY <3>1, <3>2, <3>4, <3>4a, AppendInOrder DEF QueueInv
    <3>6. /\ Len(pending) \in Nat
          /\ Len(pending') = Len(pending) + 1
          /\ pending'[Len(pending) + 1] = MainAction
          /\ \A i \in 1 .. Len(pending) : pending'[i] = pending[i]
      BY <3>1 DEF TypeOK
    <3>7. \A i \in 1 .. Len(pending') :
             pending'[i] = MainAction \/ (pending'[i] \in 1 .. Autos)
      BY <3>1, <3>3, <3>6
    <3>8. MainAction # EndAction /\ (MainAction = ActionChain => chainIx < Chained)
      BY <3>1
    <3>9. \A i \in 1 .. Len(pending') :
             /\ pending'[i] \in 1 .. Autos \cup {MainAction, EndAction}
             /\ pending'[i] # EndAction
             /\ pending'[i] = ActionChain => chainIx' < Chained
      BY <3>1, <3>7, <3>8
    <3> QED BY <3>1, <3>5, <3>9 DEF QueueInv, InCall
  <2>3. CASE EndEnqueue
    <3>1. /\ pc = "end" /\ pc' = "leave" /\ last < EndAction
          /\ pending' = Append(pending, EndAction) /\ UNCHANGED <<last, chainIx, stack, caller>>
      BY <2>3 DEF EndEnqueue, Enqueue, hist, DispatchInv
    <3>2. EndAction \in 1 .. ActionChain /\ NextOf(EndAction) = EndAction
      BY <3>1 DEF NextOf
    <3>3. \A i \in 1 .. Len(pending) : /\ pending[i] \in 1 .. Autos \cup {MainAction}
                                       /\ pending[i] = ActionChain => chainIx < Chained
      BY <3>1 DEF QueueInv
    <3>4. \A i \in 1 .. Len(pending) : NextOf(pending[i]) < NextOf(EndAction)
      <4>1. ASSUME NEW i \in 1 .. Len(pending), pending[i] = ActionChain
            PROVE  NextOf(pending[i]) < EndAction
        <5>1. chainIx < Chained /\ Chained = Mains
          BY <3>3, <4>1 DEF TypeOK
        <5> QED BY <4>1, <5>1 DEF NextOf, TypeOK
      <4>2. ASSUME NEW i \in 1 .. Len(pending), pending[i] # ActionChain
            PROVE  NextOf(pending[i]) < EndAction
        <5>1. pending[i] \in 1 .. Autos \/ pending[i] = Autos + 1
          BY <3>3, <4>2
        <5> QED BY <4>2, <5>1 DEF NextOf
      <4> QED BY <3>2, <4>1, <4>2
    <3>5. PendingInOrder'
      BY <3>1, <3>2, <3>4, AppendInOrder DEF QueueInv
    <3>6. /\ Len(pending) \in Nat
          /\ Len(pending') = Len(pending) + 1
          /\ pending'[Len(pending) + 1] = EndAction
          /\ \A i \in 1 .. Len(pending) : pending'[i] = pending[i]
      BY <3>1 DEF TypeOK
    <3>9. \A i \in 1 .. Len(pending') :
             /\ pending'[i] \in 1 .. Autos \cup {MainAction, EndAction}
             /\ pending'[i] = ActionChain => chainIx' < Chained
      BY <3>1, <3>3, <3>6
    <3> QED BY <3>1, <3>5, <3>9 DEF QueueInv, InCall
  <2>4. CASE AutoDispatch \/ MainDispatch \/ EndDispatch
    <3>1. pending = <<>> /\ pending' = pending
      BY <2>4 DEF AutoDispatch, MainDispatch, EndDispatch, DispatchFrom, DeferInv, Dispatching
    <3> QED BY <3>1 DEF QueueInv, PendingInOrder
  <2>5. CASE AutoReturned
    <3>1. /\ InCall("auto") /\ ix <= Autos /\ pc' \in {"auto", "end", "leave"}
          /\ UNCHANGED <<caller, pending, chainIx, last>> /\ ix' \in {ix, ix + 1}
      BY <2>5 DEF AutoReturned, AfterMain, DispatchInv, InCall, ctx, hist
    <3>2. \A i \in 1 .. Len(pending) : pending[i] < ix /\ pending[i] \in Int
      BY <3>1 DEF QueueInv, TypeOK
    <3>3. \A i \in 1 .. Len(pending) : pending[i] # EndAction
      BY <1>t, <3>1, <3>2
    <3> QED BY <1>t, <3>1, <3>3, QueueUnchanged DEF InCall
  <2>6. CASE AutoDone
    <3>1. /\ pc = "auto" /\ pc' = "main" /\ ix > Autos /\ ix \in 1 .. Autos + 1
          /\ UNCHANGED <<ix, caller, pending, chainIx, last>>
      BY <2>6 DEF AutoDone, TypeOK, ctx, hist
    <3>2. \A i \in 1 .. Len(pending) : pending[i] <= Autos
      BY <3>1 DEF QueueInv, TypeOK
    <3> QED BY <1>t, <3>1, <3>2, QueueUnchanged DEF InCall
  <2>7. CASE MainReturned \/ EndReturned \/ LeaveDispatch
    <3>1. /\ UNCHANGED <<ix, caller, pending, chainIx, last>>
          /\ pc' \in {"end", "leave", "dispatched"}
          /\ pc' = "end" => InCall("main")
      BY <2>7 DEF MainReturned, EndReturned, LeaveDispatch, AfterMain, InCall, ctx, hist
    <3> QED BY <1>t, <3>1, QueueUnchanged DEF InCall
  <2> QED BY <1>2, <2>1, <2>2, <2>3, <2>4, <2>5, <2>6, <2>7 DEF Controller
<1>3. ASSUME Chain PROVE QueueInv'
  <2>0. /\ stack # <<>> /\ stack[1] = ActionChain /\ caller \in {"main", "attach"}
        /\ \A i \in 1 .. Len(pending) : pending[i] = EndAction
        /\ caller' = caller /\ pc' \in OnStack /\ ix' = ix
    <3>1. stack # <<>> /\ stack[1] = ActionChain
      <4>1. Len(stack) = 1 /\ stack[1] = ActionChain
        BY <1>3, ChainAtBottom DEF Chain, ChainDefer, ChainDispatch, ChainDone,
           ChainReturned, StackInv
      <4> QED BY <4>1
    <3>2. caller' = caller /\ ix' = ix
      BY <1>3 DEF Chain, ChainDefer, ChainDispatch, ChainDone, ChainReturned
    <3>3. CASE ChainDispatch
      <4>1. Autos + chainIx + 1 \in Components
        BY <3>3 DEF ChainDispatch, Components, TypeOK
      <4>2. pc' \in OnStack
        BY <3>3, <4>1, ExecuteEffect DEF ChainDispatch
      <4> QED BY <3>1, <3>2, <4>2 DEF ChainInv
    <3>4. CASE ChainDefer \/ ChainDone \/ ChainReturned
      BY <3>1, <3>2, <3>4 DEF ChainDefer, ChainDone, ChainReturned, Return, ChainInv
    <3> QED BY <1>3, <3>3, <3>4 DEF Chain
  <2>1. CASE ChainDefer
    <3>1. /\ pc = "chain" /\ chainIx < Chained /\ pending' = <<ActionChain>> \o pending
          /\ UNCHANGED <<last, chainIx>>
      BY <2>1 DEF ChainDefer, hist
    <3>2. last <= Autos + chainIx
      BY <2>0, <3>1 DEF ChainInv
    <3>3. PendingInOrder'
      BY <2>0, <3>1, <3>2, PrependInOrder DEF QueueInv
    <3>4. /\ Len(pending) \in Nat
          /\ Len(pending') = Len(pending) + 1
          /\ pending'[1] = ActionChain
          /\ \A i \in 2 .. Len(pending') : pending'[i] = pending[i - 1]
      BY <3>1 DEF TypeOK
    <3>5. MainAction = ActionChain
      BY <3>1 DEF TypeOK
    <3>6. \A i \in 1 .. Len(pending') : pending'[i] \in {MainAction, EndAction}
      BY <2>0, <3>4, <3>5
    <3>7. caller = "main" => pending = <<>>
      <4>1. caller = "main" => \A i \in 1 .. Len(pending) : pending[i] # EndAction
        BY <3>1 DEF QueueInv, InCall
      <4>2. caller = "main" => Len(pending) = 0
        BY <2>0, <3>4, <4>1
      <4> QED BY <4>2, EmptySeq DEF TypeOK
    <3>8. caller = "main" => \A i \in 1 .. Len(pending') : pending'[i] # EndAction
      BY <3>1, <3>4, <3>7
    <3> QED BY <2>0, <3>1, <3>3, <3>6, <3>8 DEF QueueInv, InCall
  <2>2. CASE ChainDispatch
    <3>1. /\ Autos + chainIx + 1 \in Components /\ Autos + chainIx + 1 < EndAction
          /\ pc = "chain" /\ UNCHANGED <<pending, chainIx>>
      BY <2>2 DEF ChainDispatch, Components, TypeOK
    <3>2. last' \in {last, Autos + chainIx + 1}
      BY <2>2, <3>1, ExecuteEffect DEF ChainDispatch
    <3>3. \A i \in 1 .. Len(pending) : NextOf(pending[i]) > last'
      <4>1. \A i \in 1 .. Len(pending) : NextOf(pending[i]) = EndAction
        BY <2>0 DEF NextOf
      <4>2. \A i \in 1 .. Len(pending) : NextOf(pending[i]) > last
        BY DEF QueueInv, PendingInOrder
      <4> QED BY <3>1, <3>2, <4>1, <4>2
    <3>4. PendingInOrder'
      BY <3>1, <3>3, StartInOrder DEF QueueInv
    <3>5. \A i \in 1 .. Len(pending) : InCall("main") => pending[i] # EndAction
      BY DEF QueueInv
    <3> QED BY <2>0, <3>1, <3>4, <3>5 DEF QueueInv, InCall
  <2>3. CASE ChainDone
    BY <1>t, <2>0, <2>3, QueueUnchanged DEF ChainDone, Return, ctx, hist, InCall
  <2>4. CASE ChainReturned
    <3>1. pc = "returned" /\ UNCHANGED <<pending, last>>
      BY <2>4 DEF ChainReturned, hist
    <3>2. \A i \in 1 .. Len(pending) : NextOf(pending[i]) = EndAction /\ NextOf(pending[i])' = EndAction
      BY <2>0, <3>1 DEF NextOf
    <3>3. PendingInOrder'
      BY <3>1, <3>2 DEF QueueInv, PendingInOrder
    <3>5. \A i \in 1 .. Len(pending) : InCall("main") => pending[i] # EndAction
      BY DEF QueueInv
    <3> QED BY <2>0, <3>1, <3>3, <3>5 DEF QueueInv, InCall
  <2> QED BY <1>3, <2>1, <2>2, <2>3, <2>4 DEF Chain
<1>4. ASSUME Body PROVE QueueInv'
  <2>1. UNCHANGED <<ix, caller, pending, chainIx, last>> /\ pc \in OnStack /\ pc' \in OnStack
    <3>1. CASE BodyForward
      <4>1. last' = last /\ pc' \in OnStack
        BY <3>1, ExecuteEffect DEF BodyForward, Forward, Forwarded, Components
      <4> QED BY <3>1, <4>1 DEF BodyForward, Forward
    <3>2. CASE \E v \in BOOLEAN : BodyReturn(v)
      BY <3>2 DEF BodyReturn, Return, ctx
    <3>3. CASE \E a \in ASyncs : BodyDetach(a) \/ BodyRelease(a)
      BY <3>3 DEF BodyDetach, BodyRelease, ctl, ctx, hist
    <3>4. CASE ForwardReturned \/ BodyEscape \/ BodyHandshake \/ BodyFinalize
      BY <3>4 DEF ForwardReturned, BodyEscape, BodyHandshake, BodyFinalize, ctl, ctx, hist
    <3> QED BY <1>4, <3>1, <3>2, <3>3, <3>4 DEF Body
  <2> QED BY <1>t, <2>1, QueueUnchanged DEF InCall
<1>5. ASSUME Attach PROVE QueueInv'
  <2>1. CASE AttachNext
    <3>1. /\ pending # <<>> /\ pending' = Tail(pending) /\ chainIx' = chainIx
          /\ caller' = "attach" /\ Head(pending) \in Components
      BY <2>1, QueueTypes DEF AttachNext, Components
    <3>2. /\ pc' \in OnStack
          /\ last' = last \/ (last' = Head(pending) /\ Head(pending) # ActionChain)
      BY <2>1, <3>1, ExecuteEffect DEF AttachNext
    <3>3. PendingInOrder'
      BY <3>1, <3>2, TailInOrder DEF QueueInv
    <3>4. /\ Len(pending') = Len(pending) - 1 /\ Len(pending) \in Nat
          /\ \A i \in 1 .. Len(pending') : pending'[i] = pending[i + 1]
      BY <3>1 DEF TypeOK
    <3>5. \A i \in 1 .. Len(pending') : i + 1 \in 1 .. Len(pending)
      BY <3>4
    <3>6. \A i \in 1 .. Len(pending') :
             /\ pending'[i] \in 1 .. Autos \cup {MainAction, EndAction}
             /\ pending'[i] = ActionChain => chainIx < Chained
      BY <3>4, <3>5 DEF QueueInv
    <3> QED BY <3>1, <3>2, <3>3, <3>6 DEF QueueInv, InCall
  <2>2. CASE HandlerForward
    <3>1. last' = last /\ pc' \in OnStack /\ caller' = "handler" /\ UNCHANGED <<ix, pending, chainIx>>
      BY <2>2, ExecuteEffect DEF HandlerForward, Forward, Forwarded, Components
    <3> QED BY <1>t, <3>1, QueueUnchanged DEF InCall
  <2>3. CASE \/ \E a \in ASyncs : HandlerDetach(a)
             \/ HandlerForwardReturned \/ HandlerDone \/ AttachReturned \/ AttachDone
    <3>1. /\ UNCHANGED <<ix, pending, chainIx, last>>
          /\ pc' \notin {"auto", "main", "end"} \cup OnStack
      BY <2>3 DEF HandlerDetach, HandlerForwardReturned, HandlerDone, AttachReturned,
         AttachDone, LeaveAttach, EmitAfterDispatch, ctl, ctx, hist
    <3> QED BY <1>t, <3>1, QueueUnchanged DEF InCall
  <2> QED BY <1>5, <2>1, <2>2, <2>3 DEF Attach
<1>6. CASE (\E a \in ASyncs : Complete(a)) \/ DeleteContext \/ Gone
  <2>1. /\ UNCHANGED <<ix, pending, chainIx, last>>
        /\ pc' \notin {"auto", "main", "end"} \cup OnStack
    BY <1>6 DEF Complete, DeleteContext, Gone, ctl, ctx, hist, vars
  <2> QED BY <1>t, <2>1, QueueUnchanged DEF InCall
<1>7. CASE UNCHANGED vars
  BY <1>t, <1>7, QueueUnchanged DEF InCall, vars, ctl, ctx, hist
<1> QED BY <1>1, <1>2, <1>3, <1>4, <1>5, <1>6, <1>7 DEF Next, Program

----------------------------------------------------------------------------
(* Suspension and resumption.                                               *)

\* Releasing one of two outstanding ASync objects leaves the request waiting.
LEMMA ReleaseOther ==
    ASSUME TypeOK, CountInv, NEW a \in held, NEW b \in held, a # b, Release(a)
    PROVE  b \in held' /\ (alive => refCount' > 0)
<1>1. b \in held'
  BY DEF Release
<1>2. refCount' \in Nat /\ (alive /\ refCount' = 0 => held' = {})
  BY ReleaseCount
<1> QED BY <1>1, <1>2

\* While the context exists a positive count means an outstanding ASync.
LEMMA WaitingHeld ==
    ASSUME TypeOK, CountInv, alive, Waiting
    PROVE  held # {}
<1>1. refCount = Cardinality(held) /\ refCount > 0
  BY DEF CountInv, RefCountExact, Waiting
<1>2. Cardinality({}) = 0
  BY FS_EmptySet
<1> QED BY <1>1, <1>2

LEMMA WaitStep ==
    ASSUME IInv, [Next]_vars
    PROVE  WaitInv'
<1> USE DEF IInv, Before, Dispatching, Sync, InCall, InDispatch, InAttach, InHandler
<1> USE PlanNumbers
<1>t. refCount \in Nat /\ handler \in ASyncs \cup {NoASync}
  BY DEF TypeOK
<1>1. ASSUME Application PROVE WaitInv'
  <2>1. CASE HandleRequest \/ BeforePrepareDone \/ BeforeDispatchDone
    BY <2>1 DEF HandleRequest, BeforePrepareDone, BeforeDispatchDone, ctl, asy, req,
       WaitInv, Finalized, Waiting
  <2>2. CASE Dispatched
    <3>1. pc = "dispatched" /\ UNCHANGED <<async, answer, alive, refCount, held>>
      BY <2>2 DEF Dispatched, asy, req
    <3>2. async => Finalized \/ (Waiting /\ held # {})
      BY <3>1, WaitingHeld DEF WaitInv, CountInv
    <3>3. (pc' = "idle" /\ async) \/ pc' = "afterDispatch"
      BY <2>2 DEF Dispatched, EmitAfterDispatch
    <3> QED BY <3>1, <3>2, <3>3 DEF WaitInv, Finalized, Waiting
  <2>3. CASE AfterDispatchDone
    BY <2>3 DEF AfterDispatchDone, WaitInv
  <2>4. CASE Finalize
    <3>1. Finalized'
      BY <2>4 DEF Finalize, EngineFinalize, Finalized
    <3>2. pc' \in {"afterDispatch", "idle"}
      BY <2>4 DEF Finalize, LeaveAttach
    <3> QED BY <3>1, <3>2 DEF WaitInv
  <2>5. ASSUME NEW a \in ASyncs, HookDetach(a) PROVE WaitInv'
    BY <2>5 DEF HookDetach, HookMayUseASync, ctl, req, WaitInv
  <2>6. ASSUME NEW a \in ASyncs, HookRelease(a) PROVE WaitInv'
    <3>1. UNCHANGED <<async, answer>> /\ pc \in Hooks
      BY <2>6 DEF HookRelease, HookMayUseASync, req
    <3>2. CASE Resumes
      BY <1>t, <2>6, <3>1, <3>2 DEF HookRelease, Resumes, Release, WaitInv
    <3>3. CASE ~Resumes
      BY <2>6, <3>1, <3>3 DEF HookRelease, WaitInv
    <3> QED BY <3>2, <3>3
  <2> QED BY <1>1, <2>1, <2>2, <2>3, <2>4, <2>5, <2>6 DEF Application
<1>2. ASSUME Controller PROVE WaitInv'
  <2>1. CASE AutoDispatch \/ MainDispatch \/ EndDispatch
    <3>1. pc' \in OnStack
      <4>1. /\ AutoDispatch => ix \in Components
            /\ MainAction \in Components
            /\ EndAction \in Components
        BY PlanAssumption DEF AutoDispatch, TypeOK, Components
      <4> QED BY <2>1, <4>1, ExecuteEffect DEF AutoDispatch, MainDispatch, EndDispatch,
         DispatchFrom
    <3>2. caller' \in Sync /\ UNCHANGED <<async, answer>> /\ pc \in Dispatching
      BY <2>1 DEF AutoDispatch, MainDispatch, EndDispatch, DispatchFrom, req
    <3> QED BY <3>1, <3>2 DEF WaitInv, Finalized
  <2>2. CASE LeaveDispatch
    <3>1. /\ pc = "leave" /\ pc' = "dispatched" /\ async' = (async \/ Waiting)
          /\ UNCHANGED <<answer, refCount>>
      BY <2>2 DEF LeaveDispatch, asy
    <3>2. async => Finalized
      BY <3>1 DEF WaitInv
    <3> QED BY <3>1, <3>2 DEF WaitInv, Finalized, Waiting
  <2>3. CASE AutoEnqueue \/ AutoReturned \/ AutoDone \/ MainEnqueue \/ MainReturned
             \/ EndEnqueue \/ EndReturned
    <3>1. InDispatch /\ pc' \in {"auto", "main", "end", "leave"} /\ UNCHANGED <<async, answer>>
      BY <2>3 DEF AutoEnqueue, AutoReturned, AutoDone, MainEnqueue, MainReturned,
         EndEnqueue, EndReturned, AfterMain, req
    <3> QED BY <3>1 DEF WaitInv, Finalized
  <2> QED BY <1>2, <2>1, <2>2, <2>3 DEF Controller
\* A step on the stack stays with its caller.
<1>s. ASSUME pc \in OnStack, pc' \in OnStack, caller' = caller,
             UNCHANGED <<handler>>, answer' = answer \/ Finalized', async' = async \/ Finalized',
             async => async', Finalized => Finalized',
             handler \in held => handler \in held',
             caller = "handler" /\ ~Finalized => refCount' > 0
      PROVE  WaitInv'
  BY <1>s DEF WaitInv, Finalized, Waiting
<1>3. ASSUME Chain PROVE WaitInv'
  <2>1. pc' \in OnStack /\ pc \in OnStack
    <3>1. CASE ChainDispatch
      <4>1. Autos + chainIx + 1 \in Components
        BY <3>1, PlanAssumption DEF ChainDispatch, Components, TypeOK
      <4> QED BY <3>1, <4>1, ExecuteEffect DEF ChainDispatch
    <3> QED BY <1>3, <3>1 DEF Chain, ChainDefer, ChainDone, ChainReturned, Return
  <2>2. UNCHANGED <<caller, handler, held, refCount, async, answer>>
    BY <1>3 DEF Chain, ChainDefer, ChainDispatch, ChainDone, ChainReturned, asy, req
  <2>3. caller = "handler" /\ ~Finalized => refCount' > 0
    BY <2>1, <2>2 DEF WaitInv, Waiting
  <2> QED BY <1>s, <2>1, <2>2, <2>3 DEF Finalized
<1>4. ASSUME Body PROVE WaitInv'
  <2>1. CASE BodyForward
    <3>1. pc' \in OnStack /\ pc = "run"
      BY <2>1, ExecuteEffect DEF BodyForward, Forward, Forwarded, Components
    <3>2. UNCHANGED <<caller, handler, held, refCount, async, answer>>
      BY <2>1 DEF BodyForward, Forward, asy, req
    <3>3. caller = "handler" /\ ~Finalized => refCount' > 0
      BY <3>1, <3>2 DEF WaitInv, Waiting
    <3> QED BY <1>s, <3>1, <3>2, <3>3 DEF Finalized
  <2>2. CASE ForwardReturned \/ (\E v \in BOOLEAN : BodyReturn(v)) \/ BodyEscape
    <3>1. /\ pc \in OnStack /\ pc' \in OnStack
          /\ UNCHANGED <<caller, handler, held, refCount, async, answer>>
      BY <2>2 DEF ForwardReturned, BodyReturn, Return, BodyEscape, ctl, asy, req
    <3>2. caller = "handler" /\ ~Finalized => refCount' > 0
      BY <3>1 DEF WaitInv, Waiting
    <3> QED BY <1>s, <3>1, <3>2 DEF Finalized
  <2>3. CASE BodyHandshake \/ BodyFinalize
    <3>1. /\ pc \in OnStack /\ pc' \in OnStack
          /\ UNCHANGED <<caller, handler, held, refCount>>
      BY <2>3 DEF BodyHandshake, BodyFinalize, ctl, asy
    <3>2. Finalized' /\ ~Finalized
      BY <2>3 DEF BodyHandshake, BodyFinalize, EngineFinalize, Finalized
    <3>3. async => async'
      BY <2>3 DEF BodyHandshake, BodyFinalize
    <3>4. caller = "handler" /\ ~Finalized => refCount' > 0
      BY <3>1 DEF WaitInv, Waiting
    <3> QED BY <1>s, <3>1, <3>2, <3>3, <3>4
  <2>4. ASSUME NEW a \in ASyncs, BodyDetach(a) PROVE WaitInv'
    <3>1. /\ pc = "run" /\ pc' = pc /\ UNCHANGED <<caller, handler, async, answer>>
          /\ refCount' = refCount + 1 /\ held' = held \cup {a}
      BY <2>4 DEF BodyDetach, Detach, ctl, req
    <3> QED BY <1>s, <1>t, <3>1 DEF Finalized
  <2>5. ASSUME NEW a \in ASyncs, BodyRelease(a) PROVE WaitInv'
    <3>1. /\ pc = "run" /\ pc' = pc /\ UNCHANGED <<caller, handler, async, answer>>
          /\ a # handler /\ a \in held /\ Release(a)
      BY <2>5 DEF BodyRelease, Release, ctl, req
    <3>2. handler \in held => handler \in held' /\ (alive => refCount' > 0)
      BY <3>1, ReleaseOther
    <3>3. caller = "handler" => handler \in held
      BY <3>1 DEF WaitInv
    <3>4. caller = "handler" /\ ~Finalized => refCount' > 0
      BY <3>2, <3>3 DEF CountInv
    <3> QED BY <1>s, <3>1, <3>2, <3>4 DEF Finalized
  <2> QED BY <1>4, <2>1, <2>2, <2>3, <2>4, <2>5 DEF Body
<1>5. ASSUME Attach PROVE WaitInv'
  <2>1. ASSUME NEW a \in ASyncs, HandlerDetach(a) PROVE WaitInv'
    BY <1>t, <2>1 DEF HandlerDetach, Detach, ctl, req, WaitInv, Finalized, Waiting
  <2>2. CASE HandlerForward
    <3>1. pc' \in OnStack /\ caller' = "handler" /\ pc = "handler"
      BY <2>2, ExecuteEffect DEF HandlerForward, Forward, Forwarded, Components
    <3>2. UNCHANGED <<handler, held, refCount, async, answer>>
      BY <2>2 DEF HandlerForward, Forward, asy, req
    <3> QED BY <3>1, <3>2 DEF WaitInv, Finalized, Waiting
  <2>3. CASE HandlerForwardReturned
    BY <2>3 DEF HandlerForwardReturned, asy, req, WaitInv, Finalized, Waiting
  <2>4. CASE HandlerDone
    <3>1. /\ pc = "handler" /\ handler \in held /\ Release(handler)
          /\ pc' = IF Resumes THEN "attach" ELSE "idle"
          /\ UNCHANGED <<async, answer, alive>>
      BY <2>4 DEF HandlerDone, Release, req
    <3>2. Finalized \/ (async /\ Waiting /\ held # {})
      BY <3>1 DEF WaitInv
    <3>3. CASE Resumes
      BY <1>t, <3>1, <3>3 DEF Resumes, Release, WaitInv
    <3>4. CASE ~Resumes
      <4>1. CASE Finalized
        BY <3>1, <3>4, <4>1 DEF Finalized, WaitInv
      <4>2. CASE ~Finalized
        <5>1. alive /\ async /\ refCount > 0 /\ refCount # 1
          BY <3>2, <3>4, <4>2 DEF Resumes, Waiting, CountInv
        <5>2. refCount' = refCount - 1 /\ refCount' = Cardinality(held')
          BY <3>1, <5>1, ReleaseCount
        <5>3. refCount' > 0
          BY <1>t, <5>1, <5>2
        <5>4. held' # {}
          BY <5>2, <5>3, FS_EmptySet
        <5> QED BY <3>1, <3>4, <5>1, <5>3, <5>4 DEF WaitInv, Waiting
      <4> QED BY <4>1, <4>2
    <3> QED BY <3>3, <3>4
  <2>5. CASE AttachNext
    <3>1. Head(pending) \in Components
      BY <2>5, QueueTypes DEF AttachNext, Components
    <3>2. pc' \in OnStack /\ caller' = "attach" /\ pc = "attach"
      BY <2>5, <3>1, ExecuteEffect DEF AttachNext
    <3>3. UNCHANGED <<async, answer>>
      BY <2>5 DEF AttachNext, req
    <3> QED BY <3>2, <3>3 DEF WaitInv
  <2>6. CASE AttachReturned
    <3>1. /\ pc = "returned" /\ caller = "attach"
          /\ UNCHANGED <<async, answer, alive, refCount, held>>
          /\ IF Waiting THEN pc' \in {"afterDispatch", "idle"}
                        ELSE pc' \in {"attach", "afterDispatch"}
      BY <2>6 DEF AttachReturned, LeaveAttach, EmitAfterDispatch, req
    <3>2. Waiting => Finalized \/ held # {}
      BY WaitingHeld DEF CountInv
    <3>3. ~Waiting => refCount = 0
      BY <1>t DEF Waiting
    <3> QED BY <3>1, <3>2, <3>3 DEF WaitInv, Finalized, Waiting
  <2>7. CASE AttachDone
    BY <2>7 DEF AttachDone, EmitAfterDispatch, WaitInv
  <2> QED BY <1>5, <2>1, <2>2, <2>3, <2>4, <2>5, <2>6, <2>7 DEF Attach
<1>6. CASE \E a \in ASyncs : Complete(a)
  BY <1>6 DEF Complete, req, WaitInv, Finalized, Waiting
<1>7. CASE DeleteContext
  BY <1>7 DEF DeleteContext, ctl, asy, WaitInv, Finalized, Waiting
<1>8. CASE Gone \/ UNCHANGED vars
  BY <1>8 DEF Gone, vars, ctl, asy, req, WaitInv, Finalized, Waiting
<1> QED BY <1>1, <1>2, <1>3, <1>4, <1>5, <1>6, <1>7, <1>8 DEF Next, Program

LEMMA InitIInv == Init => IInv
<1> SUFFICES ASSUME Init PROVE IInv
  OBVIOUS
<1> USE PlanNumbers, PlanAssumption, LimitAssumption, ASyncAssumption DEF Init
<1>1. TypeOK
  <2>1. /\ pc \in PCs /\ caller \in Callers /\ ix \in 1 .. Autos + 1
        /\ stack \in Seq(Components) /\ pending \in Seq(1 .. ActionChain)
        /\ ret \in BOOLEAN /\ refCount \in Nat /\ depth \in Nat
    OBVIOUS
  <2>2. /\ held \subseteq ASyncs /\ unused \subseteq ASyncs
        /\ handler \in ASyncs \cup {NoASync}
        /\ chainIx \in 0 .. Chained /\ afters \in Nat /\ forwards \in 0 .. MaxForwards
        /\ last \in 0 .. PlanLen
    OBVIOUS
  <2>3. /\ detached \in BOOLEAN /\ error \in BOOLEAN /\ async \in BOOLEAN
        /\ answer \in {"none", "normal", "error", "early", "upgraded"}
        /\ alive \in BOOLEAN /\ keeps \in BOOLEAN /\ matched \in BOOLEAN
        /\ failed \in BOOLEAN
    OBVIOUS
  <2> QED BY <2>1, <2>2, <2>3 DEF TypeOK
<1>2. CountInv
  BY FS_EmptySet DEF CountInv, RefCountExact
<1>3. StackInv /\ DispatchInv /\ DeferInv /\ ChainInv
  BY DEF StackInv, DispatchInv, DeferInv, ChainInv, Before, Dispatching, InCall
<1>4. QueueInv
  BY DEF QueueInv, PendingInOrder
<1>5. WaitInv
  BY DEF WaitInv, Before, InDispatch, InAttach, InHandler, InCall, Dispatching
<1> QED BY <1>1, <1>2, <1>3, <1>4, <1>5 DEF IInv

----------------------------------------------------------------------------
(* The theorems.                                                            *)

\* Every state of every execution satisfies the inductive invariant: the
\* conjuncts are preserved together, each with the help of the others.
THEOREM InductiveInvariant == Spec => []IInv
<1>1. Init => IInv
  BY InitIInv
<1>2. IInv /\ [Next]_vars => IInv'
  BY TypeStep, CountStep, StackStep, DispatchStep, DeferStep, ChainStep, QueueStep,
     WaitStep DEF IInv
<1> QED BY <1>1, <1>2, PTL DEF Spec

\* Type correctness of the dispatcher.
THEOREM TypeCorrect == Spec => []TypeOK
BY InductiveInvariant, PTL DEF IInv

\* The reference count of a context is the number of its outstanding ASyncs,
\* for any number of ASync objects, nested forwards and callbacks
\* (context.cpp:348-365, async.cpp:21-43).
THEOREM CountsASyncs == Spec => []RefCountExact
BY InductiveInvariant, PTL DEF IInv, CountInv

\* Whenever the event loop has control, the request is answered or marked
\* Async with a completion outstanding (application.cpp:397-399,
\* controller.cpp:416-418).
THEOREM WakeupNotLost == Spec => []NoLostWakeup
<1>1. IInv => NoLostWakeup
  BY DEF IInv, WaitInv, NoLostWakeup, Waiting, InHandler
<1> QED BY <1>1, InductiveInvariant, PTL

\* Deferred actions stay in the order of the plan, whatever the length of the
\* chain and the number of Autos (controller.cpp:389-414, actionchain.cpp:64).
THEOREM QueueInOrder == Spec => []PendingInOrder
BY InductiveInvariant, PTL DEF IInv, QueueInv

\* The steps that may start an action of the plan.
Starters == AutoDispatch \/ MainDispatch \/ EndDispatch \/ ChainDispatch \/ AttachNext

LEMMA OnlyStarters ==
    ASSUME IInv, [Next]_vars, ~Starters
    PROVE  last' = last
<1> USE DEF IInv, Starters
<1>1. CASE BodyForward \/ HandlerForward
  BY <1>1, ExecuteEffect, PlanNumbers DEF BodyForward, HandlerForward, Forward,
     Forwarded, Components
<1>2. CASE Application
  BY <1>2 DEF Application, HandleRequest, BeforePrepareDone, BeforeDispatchDone,
     Dispatched, AfterDispatchDone, Finalize, HookDetach, HookRelease, hist
<1>3. CASE Controller
  BY <1>3 DEF Controller, AutoEnqueue, AutoReturned, AutoDone, MainEnqueue,
     MainReturned, EndEnqueue, EndReturned, LeaveDispatch, hist
<1>4. CASE Chain
  BY <1>4 DEF Chain, ChainDefer, ChainDone, ChainReturned, hist
<1>5. CASE Body
  BY <1>1, <1>5 DEF Body, BodyDetach, BodyRelease, ForwardReturned, BodyEscape,
     BodyHandshake, BodyFinalize, BodyReturn, hist
<1>6. CASE Attach
  BY <1>1, <1>6 DEF Attach, HandlerDetach, HandlerForwardReturned, HandlerDone,
     AttachReturned, AttachDone, hist
<1>7. CASE (\E a \in ASyncs : Complete(a)) \/ DeleteContext \/ Gone \/ UNCHANGED vars
  BY <1>7 DEF Complete, DeleteContext, Gone, vars, hist
<1> QED BY <1>2, <1>3, <1>4, <1>5, <1>6, <1>7 DEF Next, Program

\* A step that starts an action starts a later one, while nothing is outstanding.
LEMMA StartStep ==
    ASSUME IInv, [Next]_vars
    PROVE  last' # last => last' > last /\ refCount = 0
<1> USE PlanNumbers, PlanAssumption DEF IInv
<1>t. refCount \in Nat /\ last \in Int
  BY DEF TypeOK
<1>1. CASE AutoDispatch
  <2>1. ix \in Components /\ last < ix /\ refCount = 0
    BY <1>t, <1>1 DEF AutoDispatch, TypeOK, Components, DispatchInv, Waiting
  <2>2. last' \in {last, ix}
    BY <1>1, <2>1, ExecuteEffect DEF AutoDispatch, DispatchFrom
  <2> QED BY <2>1, <2>2
<1>2. CASE MainDispatch
  <2>1. MainAction \in Components /\ last <= Autos /\ refCount = 0
    BY <1>t, <1>2 DEF MainDispatch, Components, DispatchInv, Waiting
  <2>2. last' \in {last, MainAction}
    BY <1>2, <2>1, ExecuteEffect DEF MainDispatch, DispatchFrom
  <2>3. last < MainAction
    BY <1>t, <2>1
  <2> QED BY <2>1, <2>2, <2>3
<1>3. CASE EndDispatch
  <2>1. EndAction \in Components /\ last < EndAction /\ refCount = 0
    BY <1>t, <1>3 DEF EndDispatch, Components, DispatchInv, Waiting
  <2>2. last' \in {last, EndAction}
    BY <1>3, <2>1, ExecuteEffect DEF EndDispatch, DispatchFrom
  <2> QED BY <2>1, <2>2
<1>4. CASE ChainDispatch
  <2>1. Autos + chainIx + 1 \in Components /\ refCount = 0 /\ pc = "chain"
    BY <1>t, <1>4 DEF ChainDispatch, Components, TypeOK, Waiting
  <2>2. Len(stack) = 1 /\ stack[1] = ActionChain
    BY <2>1 DEF StackInv
  <2>3. stack # <<>>
    BY <2>2
  <2>4. last < Autos + chainIx + 1
    BY <1>t, <2>1, <2>2, <2>3 DEF ChainInv, TypeOK
  <2>5. last' \in {last, Autos + chainIx + 1}
    BY <1>4, <2>1, ExecuteEffect DEF ChainDispatch
  <2> QED BY <2>1, <2>4, <2>5
<1>5. CASE AttachNext
  <2>1. Head(pending) \in Components /\ refCount = 0
    BY <1>5, QueueTypes DEF AttachNext, Components, WaitInv, InAttach
  <2>2. last' # last => last' = Head(pending) /\ Head(pending) # ActionChain
    BY <1>5, <2>1, ExecuteEffect DEF AttachNext
  <2>3. pending # <<>> /\ Len(pending) \in Nat \ {0} /\ Head(pending) = pending[1]
    BY <1>5 DEF AttachNext, TypeOK
  <2>4. NextOf(Head(pending)) > last
    BY <2>3 DEF QueueInv, PendingInOrder
  <2> QED BY <2>1, <2>2, <2>4 DEF NextOf
<1> QED BY <1>1, <1>2, <1>3, <1>4, <1>5, OnlyStarters DEF Starters

\* Every step that starts an action of the plan starts a later one than any
\* before it, and none starts while an operation is outstanding, on the
\* synchronous path, inside a chain and after any number of suspensions
\* (controller.cpp:390-412, context.cpp:375-386, actionchain.cpp:62-81).
THEOREM ActionsStartInOrder == Spec => StartsInOrder
<1>1. IInv /\ [Next]_vars => [last' # last => last' > last /\ refCount = 0]_vars
  BY StartStep
<1> QED BY <1>1, InductiveInvariant, PTL DEF Spec, StartsInOrder

(***************************************************************************)
(* That the dispatcher implements the abstract plan, and never touches a   *)
(* context that the engine deleted, for every value of the constants with  *)
(* which no handler of afterDispatch uses an ASync.                        *)
(***************************************************************************)

\* Once answered by the dispatcher, the request is over but for its completions.
LEMMA InitAnswer == Init => AnswerInv
BY DEF Init, AnswerInv, Finalized, Waiting, InHandler, InCall

\* What of the inductive invariant the answer depends on.
LEMMA Situation ==
    ASSUME IInv
    PROVE  /\ refCount \in Nat /\ depth \in Nat /\ last \in Nat
           /\ pc \in Before => ~async /\ last = 0
           /\ pc = "attach" => refCount = 0
           /\ pc = "chain" => caller # "handler"
           /\ pc = "returned" /\ stack # <<>> /\ Top = ActionChain => caller # "handler"
<1>1. TypeOK /\ StackInv /\ ChainInv /\ WaitInv /\ DispatchInv
  BY DEF IInv
<1>2. refCount \in Nat /\ depth \in Nat /\ last \in Nat
  BY <1>1, PlanNumbers DEF TypeOK
<1>3. (pc \in Before => ~async /\ last = 0) /\ (pc = "attach" => refCount = 0)
  BY <1>1 DEF WaitInv, DispatchInv
<1>4. pc = "chain" => caller # "handler"
  <2>1. pc = "chain" => stack # <<>> /\ stack[1] = ActionChain
    BY <1>1 DEF StackInv
  <2> QED BY <1>1, <2>1 DEF ChainInv
<1>5. pc = "returned" /\ stack # <<>> /\ Top = ActionChain => caller # "handler"
  BY <1>1, ChainAtBottom DEF ChainInv
<1> QED BY <1>2, <1>3, <1>4, <1>5

\* With a depth of zero attachAsync returns to the event loop.
LEMMA DepthStep ==
    ASSUME ~AfterHookASync, IInv, depth = 0, [Next]_vars
    PROVE  depth' = 0
<1>1. pc \in Before => ~async
  BY Situation
<1>2. CASE \E a \in ASyncs : HookRelease(a)
  BY <1>1, <1>2 DEF HookRelease, HookMayUseASync, Resumes, Before
<1>3. CASE Finalize \/ AttachReturned
  BY <1>3 DEF Finalize, AttachReturned, LeaveAttach
<1>4. CASE Application
  BY <1>2, <1>3, <1>4 DEF Application, HandleRequest, BeforePrepareDone, BeforeDispatchDone,
     Dispatched, AfterDispatchDone, HookDetach, asy
<1>5. CASE Controller
  BY <1>5 DEF Controller, AutoEnqueue, AutoDispatch, AutoReturned, AutoDone, MainEnqueue,
     MainDispatch, MainReturned, EndEnqueue, EndDispatch, EndReturned, LeaveDispatch,
     DispatchFrom, asy
<1>6. CASE Chain \/ Body
  BY <1>6 DEF Chain, ChainDefer, ChainDispatch, ChainDone, ChainReturned, Body, BodyDetach,
     BodyRelease, BodyForward, ForwardReturned, BodyEscape, BodyHandshake, BodyFinalize,
     BodyReturn, Forward, asy
<1>7. CASE Attach
  BY <1>3, <1>7 DEF Attach, HandlerDetach, HandlerForward, HandlerForwardReturned, HandlerDone,
     AttachNext, AttachDone, Forward, asy
<1>8. CASE (\E a \in ASyncs : Complete(a)) \/ DeleteContext \/ Gone \/ UNCHANGED vars
  BY <1>8 DEF Complete, DeleteContext, Gone, vars, asy
<1> QED BY <1>4, <1>5, <1>6, <1>7, <1>8 DEF Next, Program

\* No step of the thread is left in between.
LEMMA AnswerStep ==
    ASSUME ~AfterHookASync, IInv, AnswerInv, [Next]_vars
    PROVE  AnswerInv'
<1>1. depth = 0 /\ depth' = 0
  BY DepthStep DEF AnswerInv
<1>2. /\ refCount \in Nat
      /\ pc \in Before => ~async /\ last = 0
      /\ pc = "attach" => refCount = 0
      /\ pc = "chain" => caller # "handler"
      /\ pc = "returned" /\ stack # <<>> /\ Top = ActionChain => caller # "handler"
  BY Situation
<1> HIDE DEF IInv
<1> USE <1>1 DEF AnswerInv, Finalized, Waiting, InHandler, InCall
<1>3. CASE Application
  <2>1. CASE HandleRequest
    <3>1. pc = "new" /\ pc' = "beforePrepare" /\ answer' = answer
      BY <2>1 DEF HandleRequest, req
    <3> QED BY <3>1
  <2>2. CASE BeforePrepareDone
    BY <1>2, <2>2 DEF BeforePrepareDone, Before, req, asy
  <2>3. CASE BeforeDispatchDone
    BY <1>2, <2>3 DEF BeforeDispatchDone, Before, req, asy, hist
  <2>4. CASE Dispatched
    BY <2>4 DEF Dispatched, EmitAfterDispatch, req, asy
  <2>5. CASE AfterDispatchDone
    BY <2>5 DEF AfterDispatchDone, req, asy, hist
  <2>6. CASE Finalize
    BY <2>6 DEF Finalize, LeaveAttach
  <2>7. ASSUME NEW a \in ASyncs, HookDetach(a) PROVE AnswerInv'
    BY <1>2, <2>7 DEF HookDetach, HookMayUseASync, Before, ctl, req, hist
  <2>8. ASSUME NEW a \in ASyncs, HookRelease(a) PROVE AnswerInv'
    BY <1>2, <2>8 DEF HookRelease, HookMayUseASync, Resumes, Before, req, hist
  <2> QED BY <1>3, <2>1, <2>2, <2>3, <2>4, <2>5, <2>6, <2>7, <2>8 DEF Application
<1>4. CASE Controller
  <2>1. CASE LeaveDispatch
    BY <2>1 DEF LeaveDispatch, asy, hist
  <2>2. CASE AutoDispatch \/ MainDispatch \/ EndDispatch
    <3>1. pc' \in {"run", "chain", "returned"} /\ caller' # "handler"
          /\ pc \in {"auto", "main", "end"} /\ answer' = answer
      BY <2>2 DEF AutoDispatch, MainDispatch, EndDispatch, DispatchFrom, Execute, req
    <3> QED BY <3>1
  <2>3. CASE AutoEnqueue \/ MainEnqueue \/ EndEnqueue \/ AutoDone
    <3>1. pc' \in {"auto", "main", "end", "leave"} /\ pc \in {"auto", "main", "end"}
          /\ answer' = answer
      BY <2>3 DEF AutoEnqueue, MainEnqueue, EndEnqueue, AutoDone, AfterMain, req
    <3> QED BY <3>1
  <2>4. CASE AutoReturned \/ MainReturned \/ EndReturned
    <3>1. pc' \in {"auto", "end", "leave"} /\ pc = "returned" /\ caller # "handler"
          /\ answer' = answer
      BY <2>4 DEF AutoReturned, MainReturned, EndReturned, AfterMain, req
    <3> QED BY <3>1
  <2> QED BY <1>4, <2>1, <2>2, <2>3, <2>4 DEF Controller
<1>5. CASE Chain
  <2>1. /\ pc \in {"chain", "returned"} /\ pc' \in {"run", "chain", "returned"}
        /\ caller' = caller /\ caller # "handler" /\ answer' = answer
    BY <1>2, <1>5 DEF Chain, ChainDefer, ChainDispatch, ChainDone, ChainReturned, Execute,
       Return, req
  <2> QED BY <2>1
<1>6. CASE Body
  <2>1. /\ pc \in {"run", "returned"} /\ pc' \in {"run", "chain", "returned"} /\ caller' = caller
        /\ answer' = answer \/ answer' \in {"early", "upgraded"}
    BY <1>6 DEF Body, BodyDetach, BodyRelease, BodyForward, ForwardReturned, BodyEscape,
       BodyHandshake, BodyFinalize, EngineFinalize, BodyReturn, Forward, Execute, Return, ctl, req
  <2> QED BY <2>1
<1>7. CASE Attach
  <2>1. CASE (\E a \in ASyncs : HandlerDetach(a)) \/ HandlerForward \/ HandlerForwardReturned
    <3>1. /\ pc' = "handler" \/ (pc' \in {"run", "chain", "returned"} /\ caller' = "handler")
          /\ answer' = answer
      BY <2>1 DEF HandlerDetach, HandlerForward, HandlerForwardReturned, Forward, Execute,
         ctl, req
    <3> QED BY <3>1
  <2>2. CASE HandlerDone
    <3>1. /\ pc' = "idle" \/ (pc' = "attach" /\ ~Finalized)
          /\ answer' = answer
      BY <2>2 DEF HandlerDone, Resumes, req
    <3> QED BY <3>1
  <2>3. CASE AttachNext
    <3>1. pc' \in {"run", "chain", "returned"} /\ pc = "attach" /\ answer' = answer
      BY <2>3 DEF AttachNext, Execute, req
    <3> QED BY <3>1
  <2>4. CASE AttachReturned
    <3>1. /\ pc = "returned" /\ caller = "attach"
          /\ pc' \in {"attach", "idle"} \/ (pc' = "afterDispatch" /\ ~Waiting)
          /\ answer' = answer /\ refCount' = refCount
      BY <2>4 DEF AttachReturned, LeaveAttach, EmitAfterDispatch, req
    <3> QED BY <3>1
  <2>5. CASE AttachDone
    BY <1>2, <2>5 DEF AttachDone, EmitAfterDispatch, req, asy
  <2> QED BY <1>7, <2>1, <2>2, <2>3, <2>4, <2>5 DEF Attach
<1>8. CASE (\E a \in ASyncs : Complete(a)) \/ DeleteContext \/ Gone \/ UNCHANGED vars
  <2>1. CASE UNCHANGED vars \/ Gone
    BY <2>1 DEF Gone, vars, ctl, asy, req, hist
  <2>2. CASE (\E a \in ASyncs : Complete(a)) \/ DeleteContext
    <3>1. pc' \in {"idle", "handler"} /\ answer' = answer
      BY <2>2 DEF Complete, DeleteContext, ctl, req
    <3> QED BY <3>1
  <2> QED BY <1>8, <2>1, <2>2
<1> QED BY <1>3, <1>4, <1>5, <1>6, <1>7, <1>8 DEF Next, Program

LEMMA Answers ==
    ASSUME ~AfterHookASync
    PROVE  Spec => [](IInv /\ AnswerInv)
<1>1. Init => AnswerInv
  BY InitAnswer
<1>2. IInv /\ AnswerInv /\ [Next]_vars => AnswerInv'
  BY AnswerStep
<1> QED BY <1>1, <1>2, InductiveInvariant, PTL DEF Spec

----------------------------------------------------------------------------
(* The refinement.                                                          *)

LEMMA InitPlan == Init => Abstract!Init
BY DEF Init, Abstract!Init

\* An action is started only for a request that is not answered.
LEMMA StarterOpen ==
    ASSUME IInv, AnswerInv, Starters
    PROVE  /\ answer \notin {"normal", "error"}
           /\ UNCHANGED <<refCount, answer>>
<1> USE DEF IInv
<1>1. pc = "chain" => caller # "handler"
  BY DEF StackInv, ChainInv
<1>2. pc \in {"auto", "main", "end", "chain", "attach"}
  BY DEF Starters, AutoDispatch, MainDispatch, EndDispatch, ChainDispatch, AttachNext
<1>3. UNCHANGED <<refCount, answer>>
  BY DEF Starters, AutoDispatch, MainDispatch, EndDispatch, ChainDispatch, AttachNext,
     DispatchFrom, asy, req
<1> QED BY <1>1, <1>2, <1>3 DEF AnswerInv, InHandler, InCall

\* Who answers: the end of the dispatch, when nothing is outstanding, or an action.
\* Only these answer a request.
LEMMA OnlyAnswers ==
    ASSUME [Next]_vars, answer' # answer
    PROVE  Finalize \/ BodyHandshake \/ BodyFinalize
<1>1. CASE Application
  BY <1>1 DEF Application, HandleRequest, BeforePrepareDone, BeforeDispatchDone, Dispatched,
     AfterDispatchDone, HookDetach, HookRelease, req
<1>2. CASE Controller
  BY <1>2 DEF Controller, AutoEnqueue, AutoDispatch, AutoReturned, AutoDone, MainEnqueue,
     MainDispatch, MainReturned, EndEnqueue, EndDispatch, EndReturned, LeaveDispatch,
     DispatchFrom, req
<1>3. CASE Chain \/ Body
  BY <1>3 DEF Chain, ChainDefer, ChainDispatch, ChainDone, ChainReturned, Body, BodyDetach,
     BodyRelease, BodyForward, ForwardReturned, BodyEscape, BodyReturn, Forward, req
<1>4. CASE Attach
  BY <1>4 DEF Attach, HandlerDetach, HandlerForward, HandlerForwardReturned, HandlerDone,
     AttachNext, AttachReturned, AttachDone, Forward, req
<1>5. CASE (\E a \in ASyncs : Complete(a)) \/ DeleteContext \/ Gone \/ UNCHANGED vars
  BY <1>5 DEF Complete, DeleteContext, Gone, vars, req
<1> QED BY <1>1, <1>2, <1>3, <1>4, <1>5 DEF Next, Program

LEMMA AnswerChanges ==
    ASSUME IInv, AnswerInv, [Next]_vars, answer' # answer
    PROVE  /\ answer = "none" /\ UNCHANGED <<refCount, last>>
           /\ \/ answer' \in {"early", "upgraded"}
              \/ answer' \in {"normal", "error"} /\ (last = 0 \/ ~Waiting)
<1>1. Finalize \/ BodyHandshake \/ BodyFinalize
  BY OnlyAnswers
<1>2. CASE Finalize
  BY <1>2 DEF Finalize, EngineFinalize, AnswerInv, Finalized, hist
<1>3. CASE BodyHandshake \/ BodyFinalize
  BY <1>3 DEF BodyHandshake, BodyFinalize, EngineFinalize, Finalized, asy, hist
<1> QED BY <1>1, <1>2, <1>3

LEMMA PlanStep ==
    ASSUME IInv, AnswerInv, [Next]_vars
    PROVE  [Abstract!Next]_(Abstract!vars)
<1> USE DEF Abstract!vars
<1>1. TypeOK /\ TypeOK' /\ refCount \in Nat /\ last \in Nat /\ PlanLen \in Nat /\ last' \in 0 .. PlanLen
  BY TypeStep, PlanNumbers, PlanAssumption DEF IInv, TypeOK, PlanLen
<1>2. CASE last' # last
  <2>1. Starters
    BY <1>2, OnlyStarters
  <2>2. last' > last /\ refCount = 0
    BY <1>2, StartStep
  <2>3. last' \in 1 .. PlanLen
    BY <1>1, <2>2
  <2>4. ~(refCount > 0) /\ answer \notin {"normal", "error"} /\ UNCHANGED <<refCount, answer>>
    BY <2>1, <2>2, StarterOpen
  <2>5. Abstract!Start(last')
    BY <2>2, <2>4 DEF Abstract!Start, Abstract!Answered
  <2> QED BY <2>3, <2>5 DEF Abstract!Next
<1>3. CASE last' = last /\ answer' # answer
  <2>1. /\ answer = "none" /\ UNCHANGED <<refCount, last>>
        /\ \/ answer' \in {"early", "upgraded"}
           \/ answer' \in {"normal", "error"} /\ (last = 0 \/ ~Waiting)
    BY <1>3, AnswerChanges
  <2>2. Abstract!Answer \/ Abstract!AnswerEarly
    BY <2>1 DEF Abstract!Answer, Abstract!AnswerEarly, Waiting
  <2> QED BY <2>2 DEF Abstract!Next
<1>4. CASE last' = last /\ answer' = answer
  <2>1. (refCount > 0)' = TRUE \/ (refCount > 0)' = FALSE
    OBVIOUS
  <2>2. Abstract!Suspend \/ Abstract!Resume
    BY <1>4, <2>1 DEF Abstract!Suspend, Abstract!Resume
  <2> QED BY <2>2 DEF Abstract!Next
<1> QED BY <1>2, <1>3, <1>4

\* The dispatcher implements the plan: its actions are started one at a time and
\* in order, none while an operation is outstanding, and the request is answered
\* once, not before what its actions started has completed, for any plan, any
\* number of ASyncs and whatever bodies, forwards and completion handlers do
\* (controller.cpp:385-418, context.cpp:348-391, application.cpp:364-405).
THEOREM ImplementsThePlan ==
    ASSUME ~AfterHookASync
    PROVE  Spec => ImplementsPlan
<1>1. Init => Abstract!Init
  BY InitPlan
<1>2. IInv /\ AnswerInv /\ [Next]_vars => [Abstract!Next]_(Abstract!vars)
  BY PlanStep
<1> QED BY <1>1, <1>2, Answers, PTL DEF Spec, ImplementsPlan, Abstract!Spec

----------------------------------------------------------------------------
(* The life of the context.                                                 *)

LEMMA LifeStep ==
    ASSUME ~AfterHookASync, ~FinalizeWhenFreed, IInv, AnswerInv, NoDanglingContext, [Next]_vars
    PROVE  NoDanglingContext'
<1> USE DEF NoDanglingContext
<1>1. CASE Application
  <2>1. CASE Finalize
    BY <2>1 DEF Finalize, LeaveAttach, AnswerInv
  <2> QED BY <1>1, <2>1 DEF Application, HandleRequest, BeforePrepareDone, BeforeDispatchDone,
      Dispatched, AfterDispatchDone, HookDetach, HookRelease, HookMayUseASync, req
<1>2. CASE Controller
  BY <1>2 DEF Controller, AutoEnqueue, AutoDispatch, AutoReturned, AutoDone, MainEnqueue,
     MainDispatch, MainReturned, EndEnqueue, EndDispatch, EndReturned, LeaveDispatch,
     DispatchFrom, req
<1>3. CASE Chain
  BY <1>3 DEF Chain, ChainDefer, ChainDispatch, ChainDone, ChainReturned, req
<1>4. CASE Body
  BY <1>4 DEF Body, BodyDetach, BodyRelease, BodyForward, ForwardReturned, BodyEscape,
     BodyHandshake, BodyFinalize, EngineFinalize, BodyReturn, Forward, req
<1>5. CASE Attach
  BY <1>5 DEF Attach, HandlerDetach, HandlerForward, HandlerForwardReturned, HandlerDone,
     Resumes, AttachNext, AttachReturned, AttachDone, Forward, req
<1>6. CASE (\E a \in ASyncs : Complete(a)) \/ DeleteContext \/ Gone \/ UNCHANGED vars
  BY <1>6 DEF Complete, DeleteContext, Gone, vars, ctl, req
<1> QED BY <1>1, <1>2, <1>3, <1>4, <1>5, <1>6 DEF Next, Program

\* The dispatcher never works on a deleted context, for an application whose
\* actions do not finalize a request whose context its engine deletes then
\* (application.cpp:364-405, context.cpp:388-390).
THEOREM ContextAlive ==
    ASSUME ~AfterHookASync, ~FinalizeWhenFreed
    PROVE  Spec => []NoDanglingContext
<1>1. Init => NoDanglingContext
  BY DEF Init, NoDanglingContext
<1>2. IInv /\ AnswerInv /\ NoDanglingContext /\ [Next]_vars => NoDanglingContext'
  BY LifeStep
<1> QED BY <1>1, <1>2, Answers, PTL DEF Spec

(***************************************************************************)
(* That nothing of the plan is left out, under the same condition.         *)
(***************************************************************************)

\* What a dispatch has handed out, by where the thread is.
LEMMA HandedOutIs ==
    /\ pc = "auto" => HandedOut = ix
    /\ pc = "main" => HandedOut = Autos + 1
    /\ pc = "end" => HandedOut = EndAction
    /\ pc \in OnStack => HandedOut = IF caller = "auto" THEN ix + 1
                                     ELSE IF caller = "main" THEN EndAction
                                     ELSE IF caller = "end" THEN EndAction + 1 ELSE PlanLen + 1
    /\ pc \notin OnStack \cup {"auto", "main", "end"} => HandedOut = PlanLen + 1
BY DEF HandedOut, InCall

LEMMA HandedOutNext ==
    /\ pc' = "auto" => HandedOut' = ix'
    /\ pc' = "main" => HandedOut' = Autos + 1
    /\ pc' = "end" => HandedOut' = EndAction
    /\ pc' \in OnStack => HandedOut' = IF caller' = "auto" THEN ix' + 1
                                       ELSE IF caller' = "main" THEN EndAction
                                       ELSE IF caller' = "end" THEN EndAction + 1 ELSE PlanLen + 1
    /\ pc' \notin OnStack \cup {"auto", "main", "end"} => HandedOut' = PlanLen + 1
BY DEF HandedOut, InCall

\* What Context::execute makes of the plan: it starts c or fails.
LEMMA ExecuteFails ==
    ASSUME TypeOK, NEW c \in Components, Execute(c)
    PROVE  \/ /\ pc' = "returned" /\ stack' = stack /\ last' = last /\ ret' = FALSE
              /\ failed' = (failed \/ c # Forwarded)
           \/ /\ pc' = IF c = ActionChain THEN "chain" ELSE "run"
              /\ stack' = Append(stack, c) /\ failed' = failed
              /\ last' = IF c \in 1 .. PlanLen THEN c ELSE last
BY DEF Execute, Plan

\* The queue covers more when something is appended or prepended, less when its
\* first is taken.
LEMMA AppendCovers ==
    ASSUME TypeOK, NEW m, NEW n, Covers(m, n), NEW c \in 1 .. ActionChain,
           NextOf(c) = n, pending' = Append(pending, c), chainIx' = chainIx
    PROVE  Covers(m, After(c))'
<1> DEFINE k == Len(pending)
<1>1. /\ pending \in Seq(1 .. ActionChain) /\ k \in Nat
      /\ pending' \in Seq(1 .. ActionChain) /\ pending' # <<>>
      /\ Len(pending') = k + 1 /\ pending'[k + 1] = c
      /\ \A i \in 1 .. k : pending'[i] = pending[i]
  BY DEF TypeOK
<1>2. \A x : NextOf(x)' = NextOf(x)
  BY DEF NextOf
<1>3. CASE pending = <<>>
  <2>1. k = 0 /\ Head(pending') = c /\ m = n
    BY <1>1, <1>3 DEF Covers
  <2> HIDE DEF k
  <2> QED BY <1>1, <1>2, <2>1 DEF Covers, After, NextOf
<1>4. CASE pending # <<>>
  <2>1. k >= 1 /\ Head(pending') = Head(pending) /\ Head(pending) = pending[1]
    BY <1>1, <1>4
  <2>2. NextOf(Head(pending')) = m /\ After(pending[k]) = n
    BY <1>4, <2>1 DEF Covers
  <2>3. ASSUME NEW i \in 1 .. k PROVE NextOf(pending'[i + 1]) = After(pending'[i])
    <3>1. CASE i = k
      BY <1>1, <2>2, <3>1
    <3>2. CASE i # k
      <4>1. i \in 1 .. k - 1 /\ i + 1 \in 1 .. k
        BY <1>1, <3>2
      <4> QED BY <1>1, <4>1 DEF Covers
    <3> QED BY <3>1, <3>2
  <2> HIDE DEF k
  <2>4. k + 1 - 1 = k
    BY <1>1
  <2> QED BY <1>1, <1>2, <2>2, <2>3, <2>4 DEF Covers, After, NextOf
<1> QED BY <1>3, <1>4

LEMMA PrependCovers ==
    ASSUME TypeOK, NEW n, Covers(EndAction, n),
           pending' = <<ActionChain>> \o pending, chainIx' = chainIx
    PROVE  Covers(Autos + chainIx + 1, n)'
<1> DEFINE k == Len(pending)
<1>1. /\ pending \in Seq(1 .. ActionChain) /\ k \in Nat
      /\ pending' \in Seq(1 .. ActionChain) /\ pending' # <<>>
      /\ Len(pending') = k + 1 /\ pending'[1] = ActionChain /\ Head(pending') = ActionChain
      /\ \A i \in 1 .. k : pending'[i + 1] = pending[i]
  BY QueueTypes DEF TypeOK
<1>2. NextOf(ActionChain) = Autos + chainIx + 1 /\ After(ActionChain) = EndAction
  BY DEF NextOf, After
<1>3. CASE pending = <<>>
  <2>1. k = 0 /\ EndAction = n
    BY <1>1, <1>3 DEF Covers
  <2> HIDE DEF k
  <2> QED BY <1>1, <1>2, <2>1 DEF Covers, After, NextOf
<1>4. CASE pending # <<>>
  <2>1. k >= 1 /\ Head(pending) = pending[1]
    BY <1>1, <1>4
  <2>2. NextOf(pending[1]) = EndAction /\ After(pending'[k + 1]) = n
    BY <1>1, <1>4, <2>1 DEF Covers
  <2>3. ASSUME NEW i \in 1 .. k PROVE NextOf(pending'[i + 1]) = After(pending'[i])
    <3>1. CASE i = 1
      BY <1>1, <1>2, <2>1, <2>2, <3>1
    <3>2. CASE i # 1
      <4> DEFINE j == i - 1
      <4>1. j \in 1 .. k - 1 /\ j + 1 \in 1 .. k /\ j + 1 = i /\ j \in 1 .. k
        BY <1>1, <3>2
      <4>2. NextOf(pending[j + 1]) = After(pending[j])
        BY <4>1 DEF Covers
      <4> HIDE DEF j
      <4> QED BY <1>1, <4>1, <4>2
    <3> QED BY <3>1, <3>2
  <2> HIDE DEF k
  <2>4. k + 1 - 1 = k
    BY <1>1
  <2> QED BY <1>1, <1>2, <2>2, <2>3, <2>4 DEF Covers, After, NextOf
<1> QED BY <1>3, <1>4

LEMMA TailCovers ==
    ASSUME TypeOK, NEW m, NEW n, Covers(m, n), pending # <<>>,
           NEW next, After(Head(pending)) = next,
           pending' = Tail(pending), chainIx' = chainIx
    PROVE  NextOf(Head(pending)) = m /\ Covers(next, n)'
<1> DEFINE k == Len(pending)
<1>1. /\ pending \in Seq(1 .. ActionChain) /\ k \in Nat \ {0} /\ Head(pending) = pending[1]
      /\ pending' \in Seq(1 .. ActionChain) /\ Len(pending') = k - 1
      /\ \A i \in 1 .. k - 1 : pending'[i] = pending[i + 1]
  BY DEF TypeOK
<1>2. NextOf(Head(pending)) = m /\ After(pending[k]) = n
  BY DEF Covers
<1>3. CASE k = 1
  <2>1. pending' = <<>>
    BY <1>1, <1>3
  <2>2. \A i : i \notin 1 .. Len(pending') - 1
    BY <1>1, <1>3
  <2>3. After(Head(pending)) = n
    BY <1>1, <1>2, <1>3
  <2> HIDE DEF k
  <2> QED BY <1>2, <2>1, <2>2, <2>3 DEF Covers, After, NextOf
<1>4. CASE k # 1
  <2>0. k - 1 \in Nat \ {0} /\ k - 1 + 1 = k
    BY <1>1, <1>4
  <2>6. pending' # <<>> /\ Head(pending') = pending'[1]
    <3>1. Len(<<>>) = 0
      OBVIOUS
    <3>2. pending' # <<>>
      BY <1>1, <2>0, <3>1
    <3> QED BY <1>1, <3>2
  <2>1. /\ k - 1 \in 1 .. k - 1 /\ pending' # <<>> /\ Head(pending') = pending'[1]
        /\ 1 \in 1 .. k - 1 /\ k - 1 + 1 = k
    BY <2>0, <2>6
  <2>2. pending'[1] = pending[2] /\ pending'[k - 1] = pending[k]
    BY <1>1, <2>1
  <2>3. NextOf(pending[2]) = After(pending[1])
    BY <2>1 DEF Covers
  <2>4. ASSUME NEW i \in 1 .. k - 2 PROVE NextOf(pending'[i + 1]) = After(pending'[i])
    <3>1. i \in 1 .. k - 1 /\ i + 1 \in 1 .. k - 1
      BY <1>1
    <3> QED BY <1>1, <3>1 DEF Covers
  <2> HIDE DEF k
  <2>5. Len(pending') - 1 = k - 2
    BY <1>1
  <2>7. NextOf(Head(pending')) = After(Head(pending)) /\ After(pending'[Len(pending')]) = n
    BY <1>1, <1>2, <2>1, <2>2, <2>3 DEF After
  <2>8. \A x : NextOf(x)' = NextOf(x)
    BY DEF NextOf
  <2> QED BY <2>1, <2>4, <2>5, <2>7, <2>8 DEF Covers, After, NextOf
<1> QED BY <1>2, <1>3, <1>4

----------------------------------------------------------------------------
(* The steps that move the thread.                                          *)

\* The thread goes on, and neither starts nor queues anything.
LEMMA GapSame ==
    ASSUME GapInv, UNCHANGED <<matched, failed, last, pending, chainIx, stack>>,
           pc \notin Before, HandedOut' = HandedOut,
           InChain => (pc' = "chain" <=> pc = "chain")
    PROVE  GapInv'
BY DEF GapInv, InChain, Covers, NextOf, After

LEMMA BaseSame ==
    ASSUME BaseInv, UNCHANGED <<stack, caller, failed>>,
           pc' # "returned" \/ UNCHANGED <<pc, ret>>,
           pc' = "end" \/ (pc' \in OnStack /\ caller' = "end") => HasEnd
    PROVE  BaseInv'
BY DEF BaseInv, InChain, InCall, Top

\* The facts of the other invariants that these need.
LEMMA Shape ==
    ASSUME IInv
    PROVE  /\ TypeOK /\ StackInv /\ ChainInv
           /\ ix \in 1 .. Autos + 1 /\ chainIx \in 0 .. Chained /\ last \in 0 .. PlanLen
           /\ pc \notin OnStack => stack = <<>> /\ ~InChain
           /\ pc = "run" => stack # <<>> /\ Top # ActionChain
           /\ InChain => caller \in {"main", "attach"}
           /\ pc = "chain" => InChain /\ Len(stack) = 1
           /\ pc \in Before => last = 0 /\ pending = <<>> /\ chainIx = 0 /\ ix = 1 /\ ~async
           /\ pc = "main" => chainIx = 0
           /\ pc \in {"auto", "main", "end"} /\ ~Waiting => pending = <<>>
           /\ pc \in OnStack /\ caller \in Sync /\ pending # <<>>
                  => Waiting /\ pc = "returned" /\ stack = <<>>
BY DEF IInv, TypeOK, StackInv, DispatchInv, DeferInv, ChainInv, WaitInv, InChain, Dispatching, Top

LEMMA ApplicationSkips ==
    ASSUME ~AfterHookASync, IInv, SkipInv, Application
    PROVE  GapInv' /\ BaseInv'
<1>0. GapInv /\ BaseInv /\ EmptyInv
  BY DEF SkipInv
<1>1. CASE HandleRequest
  <2>1. UNCHANGED <<stack, caller, failed>> /\ pc' = "beforePrepare"
    BY <1>1 DEF HandleRequest, hist
  <2> QED BY <1>0, <2>1, BaseSame DEF GapInv, Before
<1>2. CASE BeforePrepareDone
  <2>1. /\ UNCHANGED <<stack, caller, failed>> /\ pc' \in {"finalize", "beforeDispatch"}
        /\ pc' = "finalize" => ~matched'
    BY <1>0, <1>2 DEF BeforePrepareDone, EmptyInv
  <2> QED BY <1>0, <2>1, BaseSame DEF GapInv, Before
<1>3. CASE BeforeDispatchDone
  <2>1. /\ UNCHANGED <<stack, caller, failed, matched, pending, last, ix, chainIx>>
        /\ pc' = IF matched THEN "auto" ELSE "dispatched"
        /\ pc \in Before /\ stack = <<>>
    BY <1>3, Shape DEF BeforeDispatchDone, hist, Before
  <2>2. BaseInv'
    BY <1>0, <2>1, BaseSame
  <2>3. last = 0 /\ pending = <<>> /\ ix = 1
    BY <2>1, Shape
  <2>4. matched => HandedOut' = 1
    BY <2>1, <2>3, HandedOutNext
  <2>5. ~InChain' /\ pending' = <<>> /\ last' = 0
    BY <2>1, <2>3 DEF InChain
  <2> QED BY <2>1, <2>2, <2>4, <2>5 DEF GapInv, Covers
<1>4. CASE Dispatched \/ AfterDispatchDone \/ Finalize
  <2>1. /\ UNCHANGED <<stack, caller, failed, matched, pending, last, ix, chainIx>>
        /\ pc \in {"dispatched", "afterDispatch", "finalize"}
        /\ pc' \in {"idle", "afterDispatch", "finalize"}
    BY <1>4 DEF Dispatched, EmitAfterDispatch, AfterDispatchDone, Finalize, LeaveAttach, ctx, hist
  <2>2. HandedOut' = HandedOut
    BY <2>1, HandedOutIs, HandedOutNext
  <2>3. GapInv'
    BY <1>0, <2>1, <2>2, GapSame DEF Before
  <2> QED BY <1>0, <2>1, <2>3, BaseSame
<1>5. ASSUME NEW a \in ASyncs, HookDetach(a) \/ HookRelease(a) PROVE GapInv' /\ BaseInv'
  <2>1. /\ UNCHANGED <<stack, caller, failed, matched, pending, last, ix, chainIx>>
        /\ pc \in Before
    BY <1>5 DEF HookDetach, HookRelease, HookMayUseASync, ctl, ctx, hist, Before
  <2>2. pc' = pc
    BY <1>5, <2>1, Shape DEF HookDetach, HookRelease, Resumes, ctl
  <2> QED BY <1>0, <2>1, <2>2, BaseSame DEF GapInv, Before
<1> QED BY <1>1, <1>2, <1>3, <1>4, <1>5 DEF Application

LEMMA Enqueued ==
    ASSUME IInv, SkipInv, NEW c \in 1 .. ActionChain, NEW n,
           pc \in {"auto", "main", "end"}, pending' = Append(pending, c),
           UNCHANGED <<stack, caller, failed, matched, last, chainIx>>,
           NextOf(c) = HandedOut, After(c) = n, HandedOut' = n, pc' \notin OnStack,
           pc' = "end" => HasEnd
    PROVE  GapInv' /\ BaseInv'
<1>1. BaseInv'
  BY BaseSame DEF SkipInv
<1>2. stack = <<>> /\ ~InChain /\ ~InChain' /\ TypeOK
  BY Shape DEF InChain
<1>4. PICK m : m = last + 1
  OBVIOUS
<1>5. matched /\ ~failed => Covers(m, HandedOut)
  BY <1>2, <1>4 DEF SkipInv, GapInv, Before
<1>6. matched /\ ~failed => Covers(m, After(c))'
  BY <1>2, <1>5, AppendCovers
<1>7. matched' /\ ~failed' => Covers(last + 1, HandedOut)'
  BY <1>4, <1>6 DEF Covers, After
<1> QED BY <1>1, <1>2, <1>7 DEF GapInv

\* The next of the plan is taken from the dispatch or the queue.
LEMMA NextStarts ==
    ASSUME IInv, SkipInv, NEW c \in 1 .. ActionChain, NEW n, NEW next, Execute(c), stack = <<>>,
           pc \notin Before, caller' \in {"auto", "main", "end", "attach"},
           UNCHANGED <<matched, chainIx>>,
           matched /\ ~failed => NextOf(c) = last + 1 /\ Covers(next, n)'
                                /\ (c # ActionChain => c \in 1 .. PlanLen),
           After(c) = next, c = ActionChain => Chained > 0,
           caller' = "end" => HasEnd,
           pc' \in OnStack => HandedOut' = n
    PROVE  GapInv' /\ BaseInv'
<1>0. TypeOK /\ BaseInv /\ ActionChain = EndAction + 1 /\ PlanLen <= EndAction
      /\ PlanLen \in Nat /\ EndAction \in Nat
  BY Shape, PlanNumbers DEF SkipInv
<1>1. c \in Components /\ c # Forwarded
  BY <1>0 DEF Components, Forwarded
<1>2. CASE pc' = "returned" /\ stack' = stack /\ failed'
  BY <1>2 DEF GapInv, BaseInv, InChain, InCall
<1>3. CASE /\ pc' = (IF c = ActionChain THEN "chain" ELSE "run")
           /\ stack' = Append(stack, c) /\ failed' = failed
           /\ last' = IF c \in 1 .. PlanLen THEN c ELSE last
  <2>1. stack' = <<c>> /\ Len(stack') = 1 /\ stack'[1] = c /\ stack' # <<>>
    BY <1>3
  <2>2. BaseInv'
    BY <1>1, <1>3, <2>1 DEF BaseInv, InChain, InCall
  <2>3. HandedOut' = n
    BY <1>3
  <2>4. CASE c = ActionChain
    <3>1. InChain' /\ last' = last /\ next = EndAction /\ pc' = "chain"
      BY <1>0, <1>3, <2>1, <2>4 DEF InChain, After
    <3>2. matched /\ ~failed => last' = Autos + chainIx'
      BY <2>4, <3>1, Shape, PlanAssumption DEF NextOf
    <3> QED BY <1>3, <2>2, <2>3, <3>1, <3>2, Shape, PlanAssumption DEF GapInv, Covers
  <2>5. CASE c # ActionChain
    <3>1. ~InChain' /\ next = c + 1
      BY <2>1, <2>5 DEF InChain, After
    <3>2. matched /\ ~failed => last' = c
      BY <1>3, <2>5
    <3> QED BY <1>3, <2>2, <2>3, <3>1, <3>2 DEF GapInv, Covers
  <2> QED BY <2>4, <2>5
<1> QED BY <1>0, <1>1, <1>2, <1>3, ExecuteFails

LEMMA ControllerSkips ==
    ASSUME IInv, SkipInv, Controller
    PROVE  GapInv' /\ BaseInv'
<1>0. /\ GapInv /\ BaseInv /\ EmptyInv /\ TypeOK
      /\ ActionChain = EndAction + 1 /\ EndAction = Autos + Mains + 1 /\ Mains \in Nat \ {0}
      /\ Autos \in Nat /\ PlanLen = IF HasEnd THEN EndAction ELSE EndAction - 1
  BY Shape, PlanNumbers, PlanAssumption DEF SkipInv, PlanLen
<1>8. /\ Chained = 0 => MainAction = Autos + 1 /\ Mains = 1
      /\ Chained # 0 => MainAction = ActionChain
  BY <1>0, PlanNumbers DEF Mains
<1>1. CASE AutoEnqueue
  <2>1. ix \in 1 .. Autos /\ ix # ActionChain /\ ix \in 1 .. ActionChain
    BY <1>0, <1>1, Shape DEF AutoEnqueue
  <2>2. NextOf(ix) = HandedOut /\ After(ix) = ix + 1 /\ HandedOut' = ix + 1
    BY <1>1, <2>1, HandedOutIs, HandedOutNext DEF AutoEnqueue, NextOf, After
  <2> QED BY <1>1, <2>1, <2>2, Enqueued DEF AutoEnqueue, Enqueue, hist
<1>2. CASE AutoDispatch
  <2>1. ix \in 1 .. Autos /\ ix # ActionChain /\ ix \in 1 .. ActionChain /\ ix \in 1 .. PlanLen
    BY <1>0, <1>2, Shape DEF AutoDispatch
  <2>2. pending = <<>> /\ stack = <<>> /\ pending' = pending /\ ~InChain
    BY <1>2, Shape DEF AutoDispatch, DispatchFrom
  <2>3. matched /\ ~failed => last + 1 = ix
    BY <1>0, <1>2, <2>2, HandedOutIs DEF GapInv, Covers, AutoDispatch, Before
  <2>4. NextOf(ix) = ix /\ After(ix) = ix + 1
    BY <2>1 DEF NextOf, After
  <2>5. pc' \in OnStack => HandedOut' = ix + 1
    BY <1>2, HandedOutNext DEF AutoDispatch, DispatchFrom
  <2>6. PICK n : n = ix + 1
    OBVIOUS
  <2>7. Covers(n, n)'
    BY <2>2 DEF Covers
  <2> QED BY <1>2, <2>1, <2>2, <2>3, <2>4, <2>5, <2>6, <2>7, NextStarts
          DEF AutoDispatch, DispatchFrom, Before
<1>3. CASE AutoReturned
  <2>1. /\ UNCHANGED <<stack, caller, failed, matched, pending, last, chainIx>>
        /\ pc = "returned" /\ stack = <<>> /\ caller = "auto" /\ ~InChain
        /\ IF ret THEN pc' = "auto" /\ ix' = ix + 1 ELSE pc' = AfterMain
    BY <1>3 DEF AutoReturned, ctx, hist, InChain
  <2>2. BaseInv'
    BY <1>0, <2>1, BaseSame DEF AfterMain
  <2>3. ~ret => failed
    BY <1>0, <2>1 DEF BaseInv
  <2>4. ret => HandedOut' = HandedOut
    BY <2>1, HandedOutIs, HandedOutNext
  <2> QED BY <1>0, <2>1, <2>2, <2>3, <2>4, GapSame DEF Before, GapInv
<1>4. CASE AutoDone \/ MainReturned \/ EndReturned \/ LeaveDispatch
  <2>1. /\ UNCHANGED <<stack, caller, failed, matched, pending, last, chainIx, ix>>
        /\ pc \notin Before /\ stack = <<>> /\ ~InChain
        /\ pc' \in {"main", "end", "leave", "dispatched"} /\ (pc' = "end" => HasEnd)
    BY <1>4, Shape DEF AutoDone, MainReturned, EndReturned, LeaveDispatch, AfterMain, ctx, hist,
                       InChain, Before
  <2>2. HandedOut' = HandedOut
    <3>1. CASE AutoDone
      <4>1. ix = Autos + 1 /\ pc = "auto" /\ pc' = "main"
        BY <1>0, <3>1, Shape DEF AutoDone
      <4> QED BY <4>1, HandedOutIs, HandedOutNext
    <3>2. CASE MainReturned
      <4>1. /\ pc = "returned" /\ caller = "main"
            /\ pc' = (IF HasEnd THEN "end" ELSE "leave") /\ (~HasEnd => PlanLen + 1 = EndAction)
        BY <1>0, <3>2 DEF MainReturned, AfterMain
      <4> QED BY <4>1, HandedOutIs, HandedOutNext, PlanAssumption
    <3>3. CASE EndReturned
      <4>1. pc = "returned" /\ caller = "end" /\ pc' = "leave" /\ PlanLen = EndAction
        BY <1>0, <3>3 DEF EndReturned, BaseInv, InCall
      <4> QED BY <4>1, HandedOutIs, HandedOutNext
    <3>4. CASE LeaveDispatch
      BY <3>4, HandedOutIs, HandedOutNext DEF LeaveDispatch
    <3> QED BY <1>4, <3>1, <3>2, <3>3, <3>4
  <2> QED BY <1>0, <2>1, <2>2, GapSame, BaseSame
<1>5. CASE MainEnqueue
  <2>1. MainAction \in 1 .. ActionChain /\ chainIx = 0 /\ pc = "main"
    BY <1>0, <1>5, <1>8, Shape DEF MainEnqueue
  <2>2. NextOf(MainAction) = Autos + 1 /\ After(MainAction) = EndAction
    BY <1>0, <1>8, <2>1 DEF NextOf, After
  <2>3. HandedOut = Autos + 1
    BY <2>1, HandedOutIs
  <2>4. HandedOut' = EndAction /\ pc' \notin OnStack /\ (pc' = "end" => HasEnd)
    <3>1. pc' = (IF HasEnd THEN "end" ELSE "leave") /\ (~HasEnd => PlanLen + 1 = EndAction)
      BY <1>0, <1>5 DEF MainEnqueue, AfterMain
    <3> QED BY <3>1, HandedOutNext, PlanAssumption
  <2> QED BY <1>5, <2>1, <2>2, <2>3, <2>4, Enqueued DEF MainEnqueue, Enqueue, hist
<1>6. CASE MainDispatch
  <2>1. MainAction \in 1 .. ActionChain /\ chainIx = 0 /\ pc = "main"
    BY <1>0, <1>6, <1>8, Shape DEF MainDispatch
  <2>2. pending = <<>> /\ stack = <<>> /\ pending' = pending /\ ~InChain
    BY <1>6, Shape DEF MainDispatch, DispatchFrom
  <2>3. matched /\ ~failed => last + 1 = Autos + 1
    BY <1>0, <2>1, <2>2, HandedOutIs DEF GapInv, Covers, Before
  <2>4. NextOf(MainAction) = Autos + 1 /\ After(MainAction) = EndAction
    BY <1>0, <1>8, <2>1 DEF NextOf, After
  <2>5. /\ MainAction # ActionChain => MainAction \in 1 .. PlanLen
        /\ MainAction = ActionChain => Chained > 0
    <3>1. Chained = 0 => MainAction \in 1 .. PlanLen /\ MainAction # ActionChain
      BY <1>0, <1>8
    <3> QED BY <1>8, <3>1, PlanAssumption
  <2>6. pc' \in OnStack => HandedOut' = EndAction
    BY <1>6, HandedOutNext DEF MainDispatch, DispatchFrom
  <2>7. Covers(EndAction, EndAction)'
    BY <2>2 DEF Covers
  <2>8. Execute(MainAction) /\ caller' = "main" /\ UNCHANGED <<matched, chainIx>>
    BY <1>6 DEF MainDispatch, DispatchFrom
  <2>9. PICK n : n = EndAction
    OBVIOUS
  <2>10. Covers(n, n)'
    BY <2>7, <2>9 DEF Covers
  <2> QED BY <2>1, <2>2, <2>3, <2>4, <2>5, <2>6, <2>8, <2>9, <2>10, NextStarts DEF Before
<1>7. CASE EndEnqueue
  <2>1. EndAction \in 1 .. ActionChain /\ EndAction # ActionChain /\ HasEnd /\ PlanLen = EndAction
    BY <1>0, <1>7 DEF EndEnqueue, BaseInv
  <2>2. NextOf(EndAction) = HandedOut /\ After(EndAction) = EndAction + 1 /\ HandedOut' = EndAction + 1
    BY <1>7, <2>1, HandedOutIs, HandedOutNext DEF EndEnqueue, NextOf, After
  <2> QED BY <1>7, <2>1, <2>2, Enqueued DEF EndEnqueue, Enqueue, hist
<1>9. CASE EndDispatch
  <2>1. EndAction \in 1 .. ActionChain /\ EndAction # ActionChain /\ HasEnd /\ EndAction \in 1 .. PlanLen
    BY <1>0, <1>9 DEF EndDispatch, BaseInv
  <2>2. pending = <<>> /\ stack = <<>> /\ pending' = pending /\ ~InChain
    BY <1>9, Shape DEF EndDispatch, DispatchFrom
  <2>3. matched /\ ~failed => last + 1 = EndAction
    BY <1>0, <1>9, <2>2, HandedOutIs DEF GapInv, Covers, EndDispatch, Before
  <2>4. NextOf(EndAction) = EndAction /\ After(EndAction) = EndAction + 1
    BY <2>1 DEF NextOf, After
  <2>5. pc' \in OnStack => HandedOut' = EndAction + 1
    BY <1>9, HandedOutNext DEF EndDispatch, DispatchFrom
  <2>6. PICK n : n = EndAction + 1
    OBVIOUS
  <2>7. Covers(n, n)'
    BY <2>2 DEF Covers
  <2> QED BY <1>9, <2>1, <2>2, <2>3, <2>4, <2>5, <2>6, <2>7, NextStarts
          DEF EndDispatch, DispatchFrom, Before
<1> QED BY <1>1, <1>2, <1>3, <1>4, <1>5, <1>6, <1>7, <1>9 DEF Controller

LEMMA ChainSkips ==
    ASSUME IInv, SkipInv, Chain
    PROVE  GapInv' /\ BaseInv'
<1>0. /\ GapInv /\ BaseInv /\ EmptyInv /\ TypeOK /\ Autos \in Nat /\ Chained \in Nat
      /\ chainIx \in 0 .. Chained /\ last \in Nat
      /\ ActionChain = EndAction + 1 /\ EndAction = Autos + Mains + 1
      /\ PlanLen \in Nat /\ PlanLen >= Autos + Mains /\ (Chained # 0 => Mains = Chained)
  BY Shape, PlanNumbers, PlanAssumption DEF SkipInv
<1>p. ASSUME pc = "chain", stack' = Pop, pc' = "returned" PROVE stack' = <<>> /\ ~InChain'
  <2>0. stack # <<>> /\ Len(stack) = 1
    BY <1>p, Shape DEF InChain
  <2>1. Len(stack') = 0
    BY <1>p, <1>0, <2>0, PopEffect
  <2>2. stack' \in Seq(Components)
    BY <1>p, <1>0, <2>0, PopEffect
  <2> QED BY <2>1, <2>2 DEF InChain
<1>1. CASE ChainDefer \/ ChainDone
  <2>1. /\ pc = "chain" /\ stack' = Pop /\ ret' = TRUE /\ pc' = "returned"
        /\ UNCHANGED <<caller, failed, matched, last, chainIx, ix>>
    BY <1>1 DEF ChainDefer, ChainDone, Return, ctx, hist
  <2>2. stack' = <<>> /\ ~InChain' /\ InChain /\ Chained > 0
    BY <1>0, <1>p, <2>1, Shape DEF BaseInv
  <2>3. BaseInv'
    BY <1>0, <2>1, <2>2 DEF BaseInv, InChain, InCall
  <2>4. PICK n : n = HandedOut
    OBVIOUS
  <2>5. HandedOut' = n
    BY <2>1, <2>4, HandedOutIs, HandedOutNext
  <2>6. matched /\ ~failed => Covers(EndAction, n) /\ last = Autos + chainIx
    BY <1>0, <2>1, <2>2, <2>4 DEF GapInv, Before
  <2>7. matched /\ ~failed => Covers(last + 1, n)'
    <3>1. CASE ChainDefer
      <4>1. pending' = <<ActionChain>> \o pending
        BY <3>1 DEF ChainDefer
      <4>2. matched /\ ~failed => Covers(Autos + chainIx + 1, n)'
        BY <1>0, <2>1, <2>6, <4>1, PrependCovers
      <4> QED BY <2>1, <2>6, <4>2 DEF Covers
    <3>2. CASE ChainDone
      <4>1. pending' = pending /\ chainIx = Chained
        BY <3>2 DEF ChainDone, ctx
      <4>2. matched /\ ~failed => last + 1 = EndAction
        BY <1>0, <2>2, <2>6, <4>1
      <4> QED BY <2>1, <2>6, <4>1, <4>2 DEF Covers, NextOf
    <3> QED BY <1>1, <3>1, <3>2
  <2> QED BY <2>1, <2>2, <2>3, <2>5, <2>7 DEF GapInv, Covers
<1>2. CASE ChainDispatch
  <2> DEFINE c == Autos + chainIx + 1
  <2>1. /\ pc = "chain" /\ UNCHANGED <<caller, ix, pending, chainIx, matched>> /\ Execute(c)
        /\ chainIx < Chained
    BY <1>2 DEF ChainDispatch
  <2>2. InChain /\ Len(stack) = 1 /\ stack[1] = ActionChain /\ stack # <<>>
    BY <2>1, Shape DEF InChain
  <2>3. c \in Components /\ c # Forwarded /\ c # ActionChain /\ c \in 1 .. PlanLen
    BY <1>0, <2>1 DEF Components, Forwarded
  <2>4. CASE pc' = "returned" /\ stack' = stack /\ failed' = (failed \/ c # Forwarded)
    BY <1>0, <2>1, <2>2, <2>3, <2>4 DEF GapInv, BaseInv, InChain, InCall
  <2>5. CASE pc' = "run" /\ stack' = Append(stack, c) /\ failed' = failed /\ last' = c
    <3>1. stack' # <<>> /\ Len(stack') = 2 /\ stack'[1] = ActionChain /\ stack'[2] = c
      <4> HIDE DEF c
      <4>1. stack \in Seq(Components) /\ stack' = Append(stack, c)
        BY <1>0, <2>5 DEF TypeOK
      <4>2. Len(stack') = 2 /\ stack'[1] = stack[1] /\ stack'[2] = c
        <5>1. /\ Len(Append(stack, c)) = Len(stack) + 1
              /\ \A i \in 1 .. Len(stack) : Append(stack, c)[i] = stack[i]
              /\ Append(stack, c)[Len(stack) + 1] = c
          BY <2>3, <4>1
        <5>2. Len(stack) = 1 /\ 1 \in 1 .. Len(stack)
          BY <2>2
        <5> QED BY <4>1, <5>1, <5>2
      <4>3. Len(<<>>) = 0
        OBVIOUS
      <4> QED BY <2>2, <4>2, <4>3
    <3>2. BaseInv'
      BY <1>0, <2>1, <2>2, <2>3, <2>5, <3>1 DEF BaseInv, InChain, InCall
    <3>3. HandedOut' = HandedOut
      BY <2>1, <2>5, HandedOutIs, HandedOutNext
    <3>4. InChain'
      BY <3>1 DEF InChain
    <3> HIDE DEF c
    <3>5. last' = Autos + chainIx' + 1
      BY <2>1, <2>5 DEF c
    <3> QED BY <1>0, <2>1, <2>2, <2>5, <3>2, <3>3, <3>4, <3>5 DEF GapInv, Covers, NextOf, Before
  <2>6. \/ pc' = "returned" /\ stack' = stack /\ failed' = (failed \/ c # Forwarded)
        \/ pc' = "run" /\ stack' = Append(stack, c) /\ failed' = failed /\ last' = c
    <3> HIDE DEF c
    <3> QED BY <1>0, <2>1, <2>3, ExecuteFails
  <2> QED BY <2>4, <2>5, <2>6
<1>3. CASE ChainReturned
  <2>1. /\ pc = "returned" /\ stack # <<>> /\ Top = ActionChain
        /\ UNCHANGED <<caller, ix, pending, failed, matched, last>>
    BY <1>3 DEF ChainReturned, hist
  <2>2. Len(stack) = 1 /\ stack[1] = ActionChain /\ InChain
    BY <2>1, Shape, ChainAtBottom DEF InChain
  <2>3. ~failed => ret
    BY <1>0, <2>1, <2>2, Shape DEF BaseInv
  <2>4. CASE ret
    <3>1. pc' = "chain" /\ chainIx' = chainIx + 1 /\ UNCHANGED <<stack, ret>>
      BY <1>3, <2>4 DEF ChainReturned
    <3>2. BaseInv'
      BY <1>0, <2>1, <3>1, BaseSame DEF BaseInv, InCall
    <3>3. HandedOut' = HandedOut
      BY <2>1, <3>1, HandedOutIs, HandedOutNext
    <3>4. \A i \in 1 .. Len(pending) : pending[i] # ActionChain
      <4>1. \A i \in 1 .. Len(pending) : pending[i] = EndAction
        BY <2>1, <2>2, Shape DEF ChainInv
      <4> QED BY <1>0, <4>1, PlanNumbers
    <3>5. /\ \A i \in 1 .. Len(pending) : NextOf(pending[i])' = NextOf(pending[i])
          /\ pending # <<>> => Head(pending) = pending[1] /\ 1 \in 1 .. Len(pending)
                               /\ Len(pending) \in Nat
      BY <1>0, <2>1, <3>4 DEF NextOf, TypeOK
    <3>6. matched /\ ~failed => Covers(EndAction, HandedOut) /\ last = Autos + chainIx + 1
      BY <1>0, <2>1, <2>2 DEF GapInv, Before
    <3>7. matched /\ ~failed => Covers(EndAction, HandedOut)'
      <4>1. Len(pending) \in Nat /\ \A i \in 1 .. Len(pending) - 1 : i + 1 \in 1 .. Len(pending)
        BY <1>0 DEF TypeOK
      <4>2. pending' = pending
        BY <2>1
      <4>3. \A i \in 1 .. Len(pending) : (IF pending[i] = ActionChain THEN Autos + chainIx' + 1
                                           ELSE pending[i]) = NextOf(pending[i])
        BY <3>4 DEF NextOf
      <4> QED BY <3>3, <3>5, <3>6, <4>1, <4>2, <4>3 DEF Covers, After, NextOf
    <3>8. InChain'
      BY <2>2, <3>1 DEF InChain
    <3> QED BY <1>0, <2>1, <3>1, <3>2, <3>6, <3>7, <3>8 DEF GapInv
  <2>5. CASE ~ret
    <3>1. stack' = Pop /\ pc' = "returned"
      BY <1>3, <2>5 DEF ChainReturned, Return
    <3>2. stack' \in Seq(Components) /\ Len(stack') = 0
      BY <1>0, <2>1, <2>2, <3>1, PopEffect
    <3>3. stack' = <<>>
      BY <3>2
    <3> QED BY <1>0, <2>1, <2>3, <2>5, <3>1, <3>3 DEF GapInv, BaseInv, InChain, InCall
  <2> QED BY <2>4, <2>5
<1> QED BY <1>1, <1>2, <1>3 DEF Chain

\* A body forwards, or the handler of a completion does.
LEMMA ForwardSkips ==
    ASSUME IInv, SkipInv, Forward,
           (pc = "run" /\ caller' = caller) \/ (pc = "handler" /\ caller' = "handler")
    PROVE  GapInv' /\ BaseInv'
<1>0. /\ GapInv /\ BaseInv /\ TypeOK /\ Forwarded \in Components /\ Forwarded = 0
      /\ ActionChain \in Nat /\ ActionChain > 0 /\ 0 \notin 1 .. PlanLen
  BY Shape, PlanNumbers DEF SkipInv, Components, Forwarded
<1>1. Execute(Forwarded) /\ UNCHANGED <<ix, pending, chainIx, matched>>
  BY DEF Forward
<1>e. \/ /\ pc' = "returned" /\ stack' = stack /\ last' = last
         /\ failed' = (failed \/ Forwarded # Forwarded)
      \/ /\ pc' = IF Forwarded = ActionChain THEN "chain" ELSE "run"
         /\ stack' = Append(stack, Forwarded) /\ failed' = failed
         /\ last' = IF Forwarded \in 1 .. PlanLen THEN Forwarded ELSE last
  BY <1>0, <1>1, ExecuteFails
<1>2. failed' = failed /\ last' = last /\ pc' \in {"returned", "run"}
  BY <1>0, <1>e DEF TypeOK
<1>3. HandedOut' = HandedOut
  BY <1>1, <1>2, HandedOutIs, HandedOutNext
<1>4. stack' = stack \/ (stack' = Append(stack, Forwarded) /\ pc' = "run")
  BY <1>0, <1>e
<1>5. InChain' = InChain
  <2>1. CASE pc = "run"
    BY <1>0, <1>1, <2>1, ExecuteBottom, Shape DEF InChain
  <2>2. CASE pc = "handler"
    <3>1. stack = <<>>
      BY <2>2, Shape
    <3>2. stack' = <<>> \/ stack'[1] = Forwarded
      BY <1>4, <3>1
    <3> QED BY <1>0, <3>1, <3>2 DEF InChain
  <2> QED BY <2>1, <2>2
<1>6. GapInv'
  BY <1>0, <1>1, <1>2, <1>3, <1>5 DEF GapInv, Covers, NextOf, After, Before
<1>7. BaseInv'
  <2>1. CASE pc = "handler"
    <3>1. ~InChain /\ caller' = "handler"
      BY <2>1, Shape
    <3> QED BY <1>2, <1>5, <3>1 DEF BaseInv, InCall
  <2>2. CASE pc = "run"
    <3>1. /\ stack # <<>> /\ Top # ActionChain /\ caller' = caller
          /\ Len(stack) \in Nat \ {0} /\ stack \in Seq(Components)
      BY <1>0, <2>2, Shape, EmptySeq DEF TypeOK
    <3>2. InChain => Len(stack) > 1
      BY <3>1 DEF InChain, Top
    <3>3. stack' # <<>> /\ stack'[1] = stack[1] /\ (Len(stack) > 1 => stack'[2] = stack[2])
      BY <1>4, <3>1
    <3>4. pc' = "returned" => stack' = stack
      BY <1>4
    <3>5. pc' = "returned" => Top' = Top
      BY <3>4 DEF Top
    <3> QED BY <1>0, <1>2, <1>5, <2>2, <3>1, <3>2, <3>3, <3>4, <3>5 DEF BaseInv, InCall
  <2> QED BY <2>1, <2>2
<1> QED BY <1>6, <1>7

LEMMA BodySkips ==
    ASSUME IInv, SkipInv, Body
    PROVE  GapInv' /\ BaseInv'
<1>0. GapInv /\ BaseInv /\ TypeOK /\ StackInv
  BY Shape DEF SkipInv
<1>1. ASSUME NEW a \in ASyncs, BodyDetach(a) \/ BodyRelease(a) PROVE GapInv' /\ BaseInv'
  <2>1. /\ pc = "run" /\ UNCHANGED <<pc, caller, ix, stack, ret, matched, failed, last, pending, chainIx>>
    BY <1>1 DEF BodyDetach, BodyRelease, ctl, ctx, hist
  <2>2. HandedOut' = HandedOut
    BY <2>1, HandedOutIs, HandedOutNext
  <2> QED BY <1>0, <2>1, <2>2, GapSame, BaseSame DEF Before, BaseInv, InCall
<1>2. CASE BodyForward
  <2>1. Forward /\ pc = "run" /\ caller' = caller
    BY <1>2 DEF BodyForward
  <2> QED BY <2>1, ForwardSkips
<1>3. CASE ForwardReturned \/ BodyEscape \/ BodyHandshake \/ BodyFinalize
  <2>1. /\ pc \in {"run", "returned"} /\ pc' = "run"
        /\ UNCHANGED <<caller, ix, stack, ret, matched, failed, last, pending, chainIx>>
    BY <1>3 DEF ForwardReturned, BodyEscape, BodyHandshake, BodyFinalize, ctl, ctx, hist
  <2>2. HandedOut' = HandedOut
    BY <2>1, HandedOutIs, HandedOutNext
  <2> QED BY <1>0, <2>1, <2>2, GapSame, BaseSame DEF Before, BaseInv, InCall
<1>4. ASSUME NEW v \in BOOLEAN, BodyReturn(v) PROVE GapInv' /\ BaseInv'
  <2>1. /\ pc = "run" /\ stack' = Pop /\ ret' = v /\ pc' = "returned"
        /\ UNCHANGED <<caller, ix, matched, last, pending, chainIx>>
        /\ failed' = (failed \/ (~v /\ Top # Forwarded))
    BY <1>4 DEF BodyReturn, Return, ctx
  <2>2. /\ stack # <<>> /\ Top # ActionChain /\ stack \in Seq(Components)
        /\ Len(stack) \in Nat \ {0}
    BY <1>0, <2>1, Shape, EmptySeq DEF TypeOK
  <2>3. /\ stack' \in Seq(Components) /\ Len(stack') = Len(stack) - 1
        /\ \A i \in 1 .. Len(stack') : stack'[i] = stack[i]
    BY <1>0, <2>1, <2>2, PopEffect
  <2>4. HandedOut' = HandedOut
    BY <2>1, HandedOutIs, HandedOutNext
  <2>5. CASE Len(stack) = 1
    <3>1. stack' = <<>> /\ ~InChain' /\ ~InChain /\ Top = stack[1]
      BY <2>2, <2>3, <2>5 DEF InChain, Top
    <3>2. caller # "handler" => Top # Forwarded
      BY <1>0, <2>2, <3>1 DEF BaseInv
    <3>3. ~failed' => ~failed
      BY <2>1
    <3> QED BY <1>0, <2>1, <2>4, <3>1, <3>2, <3>3
            DEF GapInv, BaseInv, InCall, Covers, NextOf, After, Before
  <2>6. CASE Len(stack) > 1
    <3>1. stack' # <<>> /\ stack'[1] = stack[1] /\ Len(stack') \in Nat \ {0}
      <4>1. Len(<<>>) = 0 /\ 1 \in 1 .. Len(stack')
        BY <2>2, <2>3, <2>6
      <4> QED BY <2>2, <2>3, <2>6, <4>1
    <3>2. InChain' = InChain
      BY <2>2, <3>1 DEF InChain
    <3>3. Len(stack') > 1 => stack'[2] = stack[2]
      <4>1. Len(stack') > 1 => 2 \in 1 .. Len(stack')
        BY <2>2, <2>3
      <4> QED BY <2>3, <4>1
    <3>4. Top' = ActionChain => InChain /\ Top = stack[2]
      <4>1. Top' = stack[Len(stack) - 1]
        <5>1. Len(stack') \in 1 .. Len(stack')
          BY <3>1
        <5> QED BY <2>3, <5>1 DEF Top
      <4>2. Top' = ActionChain => Len(stack) - 1 \notin 2 .. Len(stack)
        BY <1>0, <4>1 DEF StackInv
      <4>3. Top' = ActionChain => Len(stack) = 2
        <5>1. PICK k \in Nat : k = Len(stack)
          BY <2>2
        <5>2. Top' = ActionChain => k - 1 \notin 2 .. k /\ k > 1
          BY <2>6, <4>2, <5>1
        <5>3. Top' = ActionChain => k = 2
          BY <5>2
        <5> QED BY <5>1, <5>3
      <4>4. Top' = ActionChain => stack[1] = ActionChain
        <5>1. 2 - 1 = 1
          OBVIOUS
        <5>2. Len(stack) = 2 => Top' = stack[1]
          BY <4>1, <5>1
        <5> QED BY <4>3, <5>2
      <4> QED BY <2>2, <4>3, <4>4 DEF InChain, Top
    <3>5. Top' = ActionChain => Top # Forwarded
      BY <1>0, <2>6, <3>4 DEF BaseInv
    <3>6. ~failed' => ~failed
      BY <2>1
    <3>7. BaseInv'
      BY <1>0, <2>1, <2>2, <2>6, <3>1, <3>2, <3>3, <3>5, <3>6, <2>3 DEF BaseInv, InCall
    <3> QED BY <1>0, <2>1, <2>4, <3>2, <3>6, <3>7 DEF GapInv, Covers, NextOf, After, Before
  <2>7. Len(stack) = 1 \/ Len(stack) > 1
    <3>1. PICK k \in Nat \ {0} : k = Len(stack)
      BY <2>2
    <3>2. k = 1 \/ k > 1
      OBVIOUS
    <3> QED BY <3>1, <3>2
  <2> QED BY <2>5, <2>6, <2>7
<1> QED BY <1>1, <1>2, <1>3, <1>4 DEF Body

\* Nothing behind the last of the plan is queued.
LEMMA QueuedInPlan ==
    ASSUME IInv, pending # <<>>, Covers(last + 1, PlanLen + 1), Head(pending) # ActionChain
    PROVE  Head(pending) \in 1 .. PlanLen
<1>1. /\ pending \in Seq(1 .. ActionChain) /\ Len(pending) \in Nat \ {0}
      /\ Head(pending) = pending[1] /\ QueueInv /\ chainIx \in 0 .. Chained
  BY Shape, EmptySeq DEF IInv, TypeOK
<1>2. /\ PlanLen \in Nat /\ EndAction \in Nat /\ PlanLen = IF HasEnd THEN EndAction ELSE EndAction - 1
      /\ EndAction = Autos + Mains + 1 /\ Autos \in Nat /\ Mains \in Nat \ {0}
      /\ ActionChain = EndAction + 1
      /\ (Chained = 0 => Mains = 1) /\ (Chained # 0 => Mains = Chained)
      /\ (Chained = 0 => MainAction = Autos + 1) /\ (Chained # 0 => MainAction = ActionChain)
  BY PlanNumbers, PlanAssumption DEF PlanLen, Mains
<1>3. \A i \in 1 .. Len(pending) : NextOf(pending[i]) <= EndAction /\ pending[i] \in 1 .. ActionChain
  <2>1. ASSUME NEW i \in 1 .. Len(pending)
           PROVE  NextOf(pending[i]) <= EndAction /\ pending[i] \in 1 .. ActionChain
    <3>1. pending[i] \in 1 .. Autos \cup {MainAction, EndAction} /\ pending[i] \in 1 .. ActionChain
      BY <1>1, ElementOfSeq DEF QueueInv
    <3>2. pending[i] = ActionChain => chainIx < Chained
      BY <1>1 DEF QueueInv
    <3> QED BY <1>1, <1>2, <3>1, <3>2, PlanAssumption DEF NextOf
  <2> QED BY <2>1
<1>4. CASE Len(pending) = 1
  BY <1>1, <1>2, <1>3, <1>4 DEF Covers, After
<1>5. CASE Len(pending) > 1
  <2>1. NextOf(pending[1]) < NextOf(pending[2])
    <3>1. 1 \in 1 .. Len(pending) /\ 2 \in 1 .. Len(pending) /\ 1 < 2
      BY <1>1, <1>5
    <3> QED BY <1>1, <3>1 DEF QueueInv, PendingInOrder
  <2>2. NextOf(pending[2]) \in Int /\ NextOf(pending[2]) <= EndAction
    <3>1. 2 \in 1 .. Len(pending)
      BY <1>1, <1>5
    <3> QED BY <1>1, <1>2, <1>3, <3>1, PlanAssumption DEF NextOf
  <2>3. pending[1] \in 1 .. ActionChain /\ NextOf(pending[1]) = pending[1]
    BY <1>1, <1>3 DEF NextOf
  <2> QED BY <1>1, <1>2, <2>1, <2>2, <2>3
<1>6. Len(pending) = 1 \/ Len(pending) > 1
  <2>1. PICK k \in Nat \ {0} : k = Len(pending)
    BY <1>1
  <2>2. k = 1 \/ k > 1
    OBVIOUS
  <2> QED BY <2>1, <2>2
<1> QED BY <1>4, <1>5, <1>6

LEMMA AttachSkips ==
    ASSUME IInv, SkipInv, Attach
    PROVE  GapInv' /\ BaseInv'
<1>0. GapInv /\ BaseInv /\ TypeOK
  BY Shape DEF SkipInv
<1>1. CASE \/ \E a \in ASyncs : HandlerDetach(a)
           \/ HandlerForwardReturned \/ HandlerDone \/ AttachReturned \/ AttachDone
  <2>1. /\ UNCHANGED <<stack, caller, failed, matched, pending, last, chainIx, ix>>
        /\ \/ pc \in {"handler", "attach"}
           \/ (pc = "returned" /\ stack = <<>> /\ caller \in {"handler", "attach"})
        /\ pc' \in {"handler", "attach", "idle", "afterDispatch"}
    BY <1>1 DEF HandlerDetach, HandlerForwardReturned, HandlerDone, AttachReturned, AttachDone,
                LeaveAttach, EmitAfterDispatch, ctl, ctx, hist
  <2>2. HandedOut' = HandedOut
    BY <2>1, HandedOutIs, HandedOutNext
  <2>3. ~InChain
    BY <2>1, Shape DEF InChain
  <2> QED BY <1>0, <2>1, <2>2, <2>3, GapSame, BaseSame DEF Before
<1>2. CASE HandlerForward
  BY <1>2, ForwardSkips DEF HandlerForward
<1>3. CASE AttachNext
  <2>1. /\ pc = "attach" /\ pending # <<>> /\ pending' = Tail(pending) /\ caller' = "attach"
        /\ Execute(Head(pending)) /\ UNCHANGED <<matched, chainIx>> /\ stack = <<>> /\ ~InChain
    BY <1>3, Shape DEF AttachNext
  <2>2. PICK c : c = Head(pending)
    OBVIOUS
  <2>3. c \in 1 .. ActionChain
    BY <1>0, <2>1, <2>2, QueueTypes
  <2>4. c = ActionChain => Chained > 0
    <3>1. c = ActionChain => chainIx < Chained
      BY <1>0, <2>1, <2>2, OnlyEndBehindChain DEF IInv
    <3> QED BY <3>1, Shape, PlanAssumption
  <2>5. PICK next : next = After(c)
    OBVIOUS
  <2>6. PICK n : n = PlanLen + 1
    OBVIOUS
  <2>7. PICK m : m = last + 1
    OBVIOUS
  <2>8. matched /\ ~failed => Covers(m, n)
    BY <1>0, <2>1, <2>6, <2>7, HandedOutIs DEF GapInv, Before
  <2>9. matched /\ ~failed => NextOf(c) = last + 1 /\ Covers(next, n)'
    BY <1>0, <2>1, <2>2, <2>5, <2>7, <2>8, TailCovers
  <2>10. matched /\ ~failed /\ c # ActionChain => c \in 1 .. PlanLen
    BY <2>1, <2>2, <2>6, <2>7, <2>8, QueuedInPlan
  <2>11. pc' \in OnStack => HandedOut' = n
    BY <2>1, <2>6, HandedOutNext
  <2>12. pc \notin Before
    BY <2>1 DEF Before
  <2> QED BY <2>1, <2>2, <2>3, <2>4, <2>5, <2>9, <2>10, <2>11, <2>12, NextStarts
<1> QED BY <1>1, <1>2, <1>3 DEF Attach

\* What was started is followed by what is queued, after every step.
LEMMA GapStep ==
    ASSUME ~AfterHookASync, IInv, SkipInv, [Next]_vars
    PROVE  GapInv' /\ BaseInv'
<1>1. ASSUME (\E a \in ASyncs : Complete(a)) \/ DeleteContext \/ UNCHANGED vars
      PROVE  GapInv' /\ BaseInv'
  <2>1. /\ UNCHANGED <<stack, caller, ret, failed, matched, pending, last, chainIx, ix>>
        /\ (pc = "idle" /\ pc' \in {"idle", "handler"}) \/ pc' = pc
    BY <1>1 DEF Complete, DeleteContext, vars, ctl, ctx, hist
  <2>2. HandedOut' = HandedOut
    BY <2>1, HandedOutIs, HandedOutNext
  <2>3. BaseInv'
    BY <2>1, BaseSame DEF SkipInv, BaseInv, InCall
  <2>4. CASE pc \in Before
    BY <1>1, <2>1, <2>3, <2>4 DEF GapInv, Before
  <2>5. CASE pc \notin Before
    <3>1. ~InChain \/ pc' = pc
      BY <2>1, Shape
    <3> QED BY <2>1, <2>2, <2>3, <2>5, <3>1, GapSame DEF SkipInv
  <2> QED BY <2>4, <2>5
<1> QED BY <1>1, ApplicationSkips, ControllerSkips, ChainSkips, BodySkips, AttachSkips
        DEF Next, Program, Gone

\* afterDispatch was not emitted before the dispatch and the queue have ended.
LEMMA NotYet ==
    ASSUME EmptyInv, pc \notin {"afterDispatch", "finalize", "idle"}, ~InHandler
    PROVE  afters = 0
BY DEF EmptyInv

\* The thread stays in the dispatch, the queue or a handler.
LEMMA EmptySame ==
    ASSUME EmptyInv, afters' = afters, answer' = answer \/ answer' # "none",
           pc' \notin {"new", "beforePrepare", "leave", "dispatched", "afterDispatch", "finalize"},
           afters = 0 \/ pc' = "idle" \/ InHandler', afters = 0 \/ Finalized'
    PROVE  EmptyInv'
BY DEF EmptyInv

LEMMA ApplicationEmpty ==
    ASSUME ~AfterHookASync, IInv, AnswerInv, SkipInv, Application
    PROVE  EmptyInv'
<1>0. EmptyInv /\ depth = 0 /\ TypeOK
  BY Shape DEF SkipInv, AnswerInv
<1>1. CASE HandleRequest \/ BeforePrepareDone \/ BeforeDispatchDone
  <2>1. /\ pc \in Before /\ pending' = pending /\ afters' = afters
        /\ pc' \in {"beforePrepare", "beforeDispatch", "finalize", "auto", "dispatched"}
        /\ pc' \in {"beforePrepare", "finalize"} => ~matched'
    BY <1>0, <1>1 DEF HandleRequest, BeforePrepareDone, BeforeDispatchDone, EmptyInv, Before, ctx, hist
  <2>2. pending = <<>> /\ afters = 0
    BY <1>0, <2>1, Shape, NotYet DEF Before, InHandler, InCall
  <2> QED BY <2>1, <2>2 DEF EmptyInv
<1>2. CASE Dispatched
  <2>1. afters = 0
    BY <1>0, <1>2, NotYet DEF Dispatched, InHandler, InCall
  <2>2. pc = "dispatched" /\ pending' = pending /\ pc' = IF async THEN "idle" ELSE "afterDispatch"
    BY <1>2 DEF Dispatched, EmitAfterDispatch, ctx
  <2>3. ~async => pending = <<>>
    BY <1>0, <2>2 DEF EmptyInv
  <2>4. async => afters' = afters
    BY <1>2 DEF Dispatched
  <2> QED BY <2>1, <2>2, <2>3, <2>4 DEF EmptyInv
<1>3. CASE AfterDispatchDone
  BY <1>0, <1>3 DEF AfterDispatchDone, EmptyInv, ctx, hist
<1>4. CASE Finalize
  <2>1. pc' = "idle" /\ afters' = afters
    BY <1>0, <1>4 DEF Finalize, LeaveAttach, hist
  <2>2. Finalized'
    BY <1>4 DEF Finalize, Finalized, EngineFinalize
  <2> QED BY <1>0, <2>1, <2>2, EmptySame DEF Finalized
<1>5. ASSUME NEW a \in ASyncs, HookDetach(a) \/ HookRelease(a) PROVE EmptyInv'
  <2>1. UNCHANGED <<matched, pending, afters, answer>> /\ pc \in Before
    BY <1>5 DEF HookDetach, HookRelease, HookMayUseASync, ctx, hist, req, Before
  <2>2. pc' = pc
    BY <1>5, <2>1, Shape DEF HookDetach, HookRelease, Resumes, ctl
  <2>3. afters = 0
    BY <1>0, <2>1, NotYet DEF Before, InHandler, InCall
  <2> QED BY <1>0, <2>1, <2>2, <2>3 DEF EmptyInv, Before
<1> QED BY <1>1, <1>2, <1>3, <1>4, <1>5 DEF Application

LEMMA ControllerEmpty ==
    ASSUME IInv, SkipInv, Controller
    PROVE  EmptyInv'
<1>0. EmptyInv /\ TypeOK
  BY Shape DEF SkipInv
<1>1. /\ pc \in {"auto", "main", "end", "leave"} \/ (pc = "returned" /\ stack = <<>> /\ caller \in Sync)
      /\ afters' = afters
  BY DEF Controller, AutoEnqueue, AutoDispatch, AutoReturned, AutoDone, MainEnqueue, MainDispatch,
         MainReturned, EndEnqueue, EndDispatch, EndReturned, LeaveDispatch, DispatchFrom, Sync, hist
<1>2. afters = 0
  BY <1>0, <1>1, NotYet DEF InHandler, InCall, Sync
<1>3. CASE AutoDispatch \/ MainDispatch \/ EndDispatch
  <2>1. PICK c \in {ix, MainAction, EndAction} : Execute(c)
    BY <1>3 DEF AutoDispatch, MainDispatch, EndDispatch, DispatchFrom
  <2>2. pc' \in {"returned", "run", "chain"}
    BY <2>1 DEF Execute
  <2> QED BY <1>1, <1>2, <2>2 DEF EmptyInv
<1>4. CASE LeaveDispatch
  <2>1. /\ pc = "leave" /\ pc' = "dispatched" /\ async' = (async \/ Waiting) /\ pending' = pending
    BY <1>4 DEF LeaveDispatch, ctx
  <2> QED BY <1>0, <1>1, <1>2, <2>1 DEF EmptyInv
<1>5. CASE MainEnqueue \/ EndEnqueue
  <2>1. Waiting /\ refCount' = refCount /\ pc' \in {"end", "leave"}
    BY <1>5 DEF MainEnqueue, EndEnqueue, AfterMain, asy
  <2> QED BY <1>1, <1>2, <2>1 DEF EmptyInv, Waiting
<1>6. CASE AutoReturned \/ MainReturned \/ EndReturned
  <2>1. /\ pending' = pending /\ refCount' = refCount /\ pc' \in {"auto", "end", "leave"}
        /\ pc \in OnStack /\ caller \in Sync
    BY <1>6 DEF AutoReturned, MainReturned, EndReturned, AfterMain, asy, ctx, Sync
  <2>2. pending # <<>> => Waiting
    BY <2>1, Shape
  <2> QED BY <1>1, <1>2, <2>1, <2>2 DEF EmptyInv, Waiting
<1>7. CASE AutoEnqueue \/ AutoDone
  <2>1. pc' \in {"auto", "main"}
    BY <1>7 DEF AutoEnqueue, AutoDone
  <2> QED BY <1>1, <1>2, <2>1 DEF EmptyInv
<1> QED BY <1>3, <1>4, <1>5, <1>6, <1>7 DEF Controller

LEMMA StackEmpty ==
    ASSUME IInv, SkipInv, Chain \/ Body
    PROVE  EmptyInv'
<1>0. EmptyInv /\ TypeOK
  BY Shape DEF SkipInv
<1>1. pc \in OnStack /\ pc' \in OnStack /\ caller' = caller /\ afters' = afters
  BY DEF Chain, Body, ChainDefer, ChainDispatch, ChainDone, ChainReturned, Return, Execute,
         BodyDetach, BodyRelease, BodyForward, Forward, ForwardReturned, BodyEscape, BodyHandshake,
         BodyFinalize, BodyReturn, ctl, hist
<1>2. answer' = answer \/ answer' # "none"
  BY DEF Chain, Body, ChainDefer, ChainDispatch, ChainDone, ChainReturned, BodyDetach, BodyRelease,
         BodyForward, Forward, ForwardReturned, BodyEscape, BodyHandshake, BodyFinalize, BodyReturn,
         EngineFinalize, req
<1>3. InHandler' = InHandler
  BY <1>1 DEF InHandler, InCall
<1>4. afters = 0 \/ (InHandler /\ Finalized)
  BY <1>0, <1>1 DEF EmptyInv
<1> QED BY <1>0, <1>1, <1>2, <1>3, <1>4, EmptySame DEF Finalized

LEMMA AttachEmpty ==
    ASSUME ~AfterHookASync, IInv, AnswerInv, SkipInv, Attach
    PROVE  EmptyInv'
<1>0. EmptyInv /\ BaseInv /\ depth = 0 /\ TypeOK
  BY Shape DEF SkipInv, AnswerInv
<1>1. CASE (\E a \in ASyncs : HandlerDetach(a)) \/ HandlerForward \/ HandlerForwardReturned
  <2>1. /\ InHandler /\ InHandler' /\ afters' = afters /\ answer' = answer
        /\ pc \in {"handler", "returned"} /\ pc' \in {"handler", "run", "chain", "returned"}
    BY <1>1 DEF HandlerDetach, HandlerForward, HandlerForwardReturned, Forward, Execute, InHandler,
                InCall, ctl, req, hist
  <2>2. afters = 0 \/ Finalized
    BY <1>0, <2>1 DEF EmptyInv
  <2> QED BY <1>0, <2>1, <2>2, EmptySame DEF Finalized
<1>2. CASE HandlerDone
  <2>1. /\ pc = "handler" /\ afters' = afters /\ answer' = answer
        /\ pc' = "idle" \/ (pc' = "attach" /\ ~Finalized)
    BY <1>2 DEF HandlerDone, Resumes, req, hist
  <2>2. afters = 0 \/ Finalized
    BY <1>0, <2>1 DEF EmptyInv
  <2> QED BY <1>0, <2>1, <2>2, EmptySame DEF Finalized
<1>3. CASE AttachNext \/ AttachReturned \/ AttachDone
  <2>1. pc \in {"attach", "returned"} /\ (pc = "returned" => caller = "attach" /\ stack = <<>>)
    BY <1>3 DEF AttachNext, AttachReturned, AttachDone
  <2>2. afters = 0
    BY <1>0, <2>1, NotYet DEF InHandler, InCall
  <2>3. CASE AttachNext
    <3>1. pc' \in {"returned", "run", "chain"} /\ afters' = afters
      BY <2>3 DEF AttachNext, Execute
    <3> QED BY <2>2, <3>1 DEF EmptyInv
  <2>4. CASE AttachDone
    BY <2>2, <2>4 DEF AttachDone, EmitAfterDispatch, EmptyInv, ctx
  <2>5. CASE AttachReturned
    <3>1. \/ pc' \in {"idle", "attach"} /\ afters' = afters
          \/ pc' = "afterDispatch" /\ ~ret /\ UNCHANGED <<matched, failed>>
      BY <1>0, <2>5 DEF AttachReturned, LeaveAttach, EmitAfterDispatch
    <3>2. ~ret => failed
      BY <1>0, <2>1, <2>5 DEF AttachReturned, BaseInv
    <3> QED BY <2>2, <3>1, <3>2 DEF EmptyInv
  <2> QED BY <1>3, <2>3, <2>4, <2>5
<1> QED BY <1>1, <1>2, <1>3 DEF Attach

LEMMA UnmatchedStep ==
    ASSUME ~AfterHookASync, IInv, SkipInv, [Next]_vars
    PROVE  UnmatchedInv'
<1>0. UnmatchedInv
  BY DEF SkipInv
<1>1. CASE matched
  <2>1. matched' \/ BeforePrepareDone
    BY <1>1 DEF Next, Program, Application, Controller, Chain, Body, Attach, Gone, HandleRequest,
       BeforeDispatchDone, Dispatched, AfterDispatchDone, Finalize, HookDetach, HookRelease,
       AutoEnqueue, AutoDispatch, AutoReturned, AutoDone, MainEnqueue, MainDispatch, MainReturned,
       EndEnqueue, EndDispatch, EndReturned, LeaveDispatch, DispatchFrom, ChainDefer, ChainDispatch,
       ChainDone, ChainReturned, BodyDetach, BodyRelease, BodyForward, ForwardReturned, BodyEscape,
       BodyHandshake, BodyFinalize, BodyReturn, Forward, HandlerDetach, HandlerForward,
       HandlerForwardReturned, HandlerDone, AttachNext, AttachReturned, AttachDone, Complete,
       DeleteContext, vars, hist
  <2>2. CASE BeforePrepareDone
    BY <1>1, <2>2 DEF BeforePrepareDone, SkipInv, EmptyInv
  <2> QED BY <2>1, <2>2 DEF UnmatchedInv
<1>2. CASE ~matched
  <2>1. /\ pending = <<>> /\ pc \notin Dispatching /\ (pc \in OnStack => caller = "handler")
        /\ ~InChain /\ pc # "chain"
    BY <1>0, <1>2, Shape DEF UnmatchedInv
  <2>2. CASE Application
    BY <1>2, <2>1, <2>2 DEF Application, HandleRequest, BeforePrepareDone, BeforeDispatchDone,
       Dispatched, EmitAfterDispatch, AfterDispatchDone, Finalize, LeaveAttach, HookDetach, HookRelease,
       HookMayUseASync, Dispatching, UnmatchedInv, ctl, ctx, hist
  <2>3. CASE Controller
    BY <1>2, <2>1, <2>3 DEF Controller, AutoEnqueue, AutoDispatch, AutoReturned, AutoDone,
       MainEnqueue, MainDispatch, MainReturned, EndEnqueue, EndDispatch, EndReturned, LeaveDispatch,
       Dispatching, UnmatchedInv, ctx, hist
  <2>4. CASE Chain
    BY <2>1, <2>4, Shape, ChainAtBottom DEF Chain, ChainDefer, ChainDispatch, ChainDone, ChainReturned,
       InChain
  <2>5. CASE Body
    <3>1. pc \in OnStack /\ pc' \in OnStack /\ UNCHANGED <<caller, matched, pending>>
      BY <2>5 DEF Body, Return, Execute, BodyDetach, BodyRelease, BodyForward, Forward,
         ForwardReturned, BodyEscape, BodyHandshake, BodyFinalize, BodyReturn, ctl, ctx, hist
    <3> QED BY <2>1, <3>1 DEF UnmatchedInv, Dispatching
  <2>6. CASE Attach
    <3>1. CASE HandlerForward
      BY <1>2, <2>1, <3>1 DEF HandlerForward, Forward, Execute, UnmatchedInv, Dispatching
    <3>2. CASE \/ (\E a \in ASyncs : HandlerDetach(a)) \/ HandlerForwardReturned \/ HandlerDone
               \/ AttachReturned \/ AttachDone
      <4>1. /\ UNCHANGED <<matched, pending>>
            /\ pc' \in {"handler", "idle", "attach", "afterDispatch"}
        BY <3>2 DEF HandlerDetach, HandlerForwardReturned, HandlerDone, AttachReturned, AttachDone,
                    EmitAfterDispatch, LeaveAttach, ctl, ctx, hist
      <4> QED BY <2>1, <4>1 DEF UnmatchedInv, Dispatching
    <3> QED BY <2>1, <2>6, <3>1, <3>2 DEF Attach, AttachNext
  <2>7. CASE (\E a \in ASyncs : Complete(a)) \/ DeleteContext \/ Gone \/ UNCHANGED vars
    <3>1. UNCHANGED <<matched, pending, caller>> /\ (pc' = pc \/ pc' = "handler")
      BY <2>7 DEF Complete, DeleteContext, Gone, vars, ctl, ctx, hist
    <3> QED BY <2>1, <3>1 DEF UnmatchedInv, Dispatching
  <2> QED BY <2>2, <2>3, <2>4, <2>5, <2>6, <2>7 DEF Next, Program
<1> QED BY <1>1, <1>2

LEMMA SkipStep ==
    ASSUME ~AfterHookASync, IInv, AnswerInv, SkipInv, [Next]_vars
    PROVE  SkipInv'
<1>1. ASSUME (\E a \in ASyncs : Complete(a)) \/ DeleteContext \/ UNCHANGED vars
      PROVE  EmptyInv'
  <2>1. /\ UNCHANGED <<matched, failed, pending, afters, answer, refCount, async, caller>>
        /\ (pc = "idle" /\ pc' \in {"idle", "handler"}) \/ pc' = pc
    BY <1>1 DEF Complete, DeleteContext, vars, ctl, asy, ctx, req, hist
  <2> QED BY <2>1 DEF SkipInv, EmptyInv, Finalized, Waiting, InHandler, InCall
<1>2. EmptyInv'
  BY <1>1, ApplicationEmpty, ControllerEmpty, StackEmpty, AttachEmpty DEF Next, Program, Gone
<1> QED BY <1>2, GapStep, UnmatchedStep DEF SkipInv

LEMMA InitSkip == Init => SkipInv
BY DEF Init, SkipInv, GapInv, BaseInv, EmptyInv, UnmatchedInv, Before, Dispatching, InChain, InCall

\* A step that starts, answers or emits finds nothing before it left out.
LEMMA NothingSkippedStep ==
    ASSUME ~AfterHookASync, IInv, AnswerInv, SkipInv, [Next]_vars
    PROVE  /\ last' # last /\ ~failed => last' = last + 1
           /\ answer = "none" /\ answer' = "normal" /\ matched /\ ~failed => last = PlanLen
           /\ afters' # afters => afters = 0
<1>0. GapInv /\ BaseInv /\ EmptyInv /\ TypeOK /\ last \in Nat /\ PlanLen \in Nat
  BY Shape, PlanNumbers DEF SkipInv
<1>1. ASSUME last' # last, ~failed PROVE last' = last + 1
  <2>1. Starters
    BY <1>1, OnlyStarters
  <2>2. matched
    BY <2>1, Shape DEF Starters, AutoDispatch, MainDispatch, EndDispatch, ChainDispatch, AttachNext,
                       SkipInv, UnmatchedInv, Dispatching
  <2>3. CASE AutoDispatch \/ MainDispatch \/ EndDispatch
    <3>1. /\ pc \in Dispatching /\ ~Waiting /\ pending = <<>> /\ ~InChain
      BY <2>3, Shape DEF AutoDispatch, MainDispatch, EndDispatch, DispatchFrom, Dispatching
    <3>2. last + 1 = HandedOut
      BY <1>0, <1>1, <2>2, <3>1 DEF GapInv, Covers, Before, Dispatching
    <3>3. CASE AutoDispatch
      <4>1. ix \in Components /\ ix # ActionChain
        BY <1>0, Shape, PlanNumbers, PlanAssumption DEF Components
      <4>2. last' \in {last, ix}
        BY <1>0, <3>3, <4>1, ExecuteEffect DEF AutoDispatch, DispatchFrom
      <4> QED BY <1>1, <3>2, <3>3, <4>2, HandedOutIs DEF AutoDispatch
    <3>4. CASE MainDispatch
      <4>1. MainAction \in Components /\ (MainAction \in 1 .. PlanLen => MainAction = Autos + 1)
        BY PlanNumbers, PlanAssumption DEF Components
      <4>2. last' \in {last, Autos + 1}
        BY <1>0, <3>4, <4>1, ExecuteEffect DEF MainDispatch, DispatchFrom
      <4> QED BY <1>1, <3>2, <3>4, <4>2, HandedOutIs DEF MainDispatch
    <3>5. CASE EndDispatch
      <4>1. EndAction \in Components
        BY PlanNumbers DEF Components
      <4>2. last' \in {last, EndAction}
        BY <1>0, <3>5, <4>1, ExecuteEffect DEF EndDispatch, DispatchFrom
      <4> QED BY <1>1, <3>2, <3>5, <4>2, HandedOutIs DEF EndDispatch
    <3> QED BY <2>3, <3>3, <3>4, <3>5
  <2>4. CASE ChainDispatch
    <3>1. pc = "chain" /\ InChain /\ chainIx \in Nat
      BY <2>4, Shape DEF ChainDispatch
    <3>2. last = Autos + chainIx
      BY <1>0, <1>1, <2>2, <3>1, PlanAssumption DEF GapInv, Before
    <3>3. Autos + chainIx + 1 \in Components
      BY <2>4, Shape, PlanNumbers, PlanAssumption DEF ChainDispatch, Components
    <3>4. last' \in {last, Autos + chainIx + 1}
      BY <1>0, <2>4, <3>3, ExecuteEffect DEF ChainDispatch
    <3> QED BY <1>1, <3>2, <3>4
  <2>5. CASE AttachNext
    <3>1. pc = "attach" /\ pending # <<>> /\ ~InChain /\ HandedOut = PlanLen + 1 /\ Execute(Head(pending))
      BY <2>5, Shape, HandedOutIs DEF AttachNext
    <3>2. NextOf(Head(pending)) = last + 1
      BY <1>0, <1>1, <2>2, <3>1 DEF GapInv, Covers, Before
    <3>3. Head(pending) \in Components
      BY <1>0, <3>1, QueueTypes DEF Components
    <3>4. last' # last => last' = Head(pending) /\ Head(pending) # ActionChain
      BY <1>0, <3>1, <3>3, ExecuteEffect, PlanNumbers
    <3> QED BY <1>1, <3>2, <3>4 DEF NextOf
  <2> QED BY <2>1, <2>3, <2>4, <2>5 DEF Starters
<1>2. ASSUME answer = "none", answer' = "normal", matched, ~failed PROVE last = PlanLen
  <2>1. pc = "finalize"
    <3>1. Finalize \/ BodyHandshake \/ BodyFinalize
      BY <1>2, OnlyAnswers
    <3> QED BY <1>2, <3>1 DEF Finalize, BodyHandshake, BodyFinalize, EngineFinalize
  <2>2. pending = <<>> /\ ~InChain /\ HandedOut = PlanLen + 1
    BY <1>0, <1>2, <2>1, Shape, HandedOutIs DEF EmptyInv
  <2>3. last + 1 = PlanLen + 1
    BY <1>0, <1>2, <2>1, <2>2 DEF GapInv, Covers, Before
  <2> QED BY <1>0, <2>3
<1>3. ASSUME afters' # afters PROVE afters = 0
  <2>1. Dispatched \/ AttachReturned \/ AttachDone
    BY <1>3 DEF Next, Program, Application, Controller, Chain, Body, Attach, Gone, HandleRequest,
       BeforePrepareDone, BeforeDispatchDone, AfterDispatchDone, Finalize, HookDetach, HookRelease,
       AutoEnqueue, AutoDispatch, AutoReturned, AutoDone, MainEnqueue, MainDispatch, MainReturned,
       EndEnqueue, EndDispatch, EndReturned, LeaveDispatch, DispatchFrom, ChainDefer, ChainDispatch,
       ChainDone, ChainReturned, BodyDetach, BodyRelease, BodyForward, ForwardReturned, BodyEscape,
       BodyHandshake, BodyFinalize, BodyReturn, Forward, HandlerDetach, HandlerForward,
       HandlerForwardReturned, HandlerDone, AttachNext, Complete, DeleteContext, vars, hist
  <2>2. pc \notin {"afterDispatch", "finalize", "idle"} /\ ~InHandler
    BY <2>1 DEF Dispatched, AttachReturned, AttachDone, InHandler, InCall
  <2> QED BY <1>0, <2>2, NotYet
<1> QED BY <1>1, <1>2, <1>3

\* Nothing of the plan is left out, whatever is suspended where and completes in which
\* order, and afterDispatch is emitted once at most: for every plan, and every limit
\* on the stack (controller.cpp:389-414, context.cpp:375-388, actionchain.cpp:62-81).
THEOREM NothingLeftOut ==
    ASSUME ~AfterHookASync
    PROVE  Spec => NothingSkipped
<1>1. IInv /\ AnswerInv /\ SkipInv /\ [Next]_vars => SkipInv'
  BY SkipStep
<1>2. IInv /\ AnswerInv /\ SkipInv /\ [Next]_vars =>
        [/\ last' # last /\ ~failed => last' = last + 1
         /\ answer = "none" /\ answer' = "normal" /\ matched /\ ~failed => last = PlanLen
         /\ afters' # afters => afters = 0]_vars
  BY NothingSkippedStep
<1> QED BY <1>1, <1>2, InitSkip, Answers, PTL DEF Spec, NothingSkipped
=============================================================================
