--------------------------- MODULE ContextDispatch ---------------------------
(***************************************************************************)
(* One request inside the framework, from Application::handleRequest to    *)
(* EngineRequest::finalize, with the asynchronous suspension that ASync,   *)
(* Context::detachAsync and Context::attachAsync add to it.                *)
(*                                                                         *)
(* Everything runs on the thread of one Application: a "program" step is   *)
(* code that is running (pc # "idle"), and the only environment step is    *)
(* the event loop delivering the completion of a pending operation, whose  *)
(* handler holds the last copy of an ASync object.                         *)
(*                                                                         *)
(* The actions the controller dispatches for a matched request form a      *)
(* plan, numbered in the order the documentation gives: Begin and the      *)
(* Autos (1 .. Autos), the action itself or, for a chained action, its     *)
(* chain (the next Mains numbers), then End.  A component on the stack or  *)
(* in the pending queue is named by its number in the plan; ActionChain is *)
(* the internal component that runs a chain, and Forwarded stands for any  *)
(* component executed by Context::forward.                                 *)
(***************************************************************************)
EXTENDS Integers, Sequences, FiniteSets

CONSTANTS Autos,            \* how many Begin and Auto actions the controller has
          Chained,          \* length of the action chain, 0 for a plain action
          HasEnd,           \* whether an End action was found
          ASyncs,           \* the ASync objects the application may create
          NoASync,          \* not an ASync object
          Recursion,        \* limit of the RECURSION environment variable
          MaxForwards,      \* bound on the calls of Context::forward
          BodyOps,          \* what action bodies call on the context
          FinalizeWhenKept, \* whether they finalize it themselves, when the
                            \* engine keeps a finalized context,
          FinalizeWhenFreed,\* and when the engine deletes it
          AfterHookASync    \* whether afterDispatch handlers use an ASync

BodyOpNames == {"escape", "handshake"}

ASSUME PlanAssumption ==
    /\ Autos \in Nat
    /\ Chained \in Nat
    /\ HasEnd \in BOOLEAN
ASSUME ASyncAssumption ==
    /\ IsFiniteSet(ASyncs)
    /\ NoASync \notin ASyncs
ASSUME LimitAssumption ==
    /\ Recursion \in Nat
    /\ MaxForwards \in Nat
ASSUME EnvAssumption ==
    /\ BodyOps \subseteq BodyOpNames
    /\ FinalizeWhenKept \in BOOLEAN
    /\ FinalizeWhenFreed \in BOOLEAN
    /\ AfterHookASync \in BOOLEAN

VARIABLES
    pc,         \* what the thread is executing on behalf of this request
    caller,     \* who called the bottom frame of the stack
    ix,         \* the loop variable of Controller::_DISPATCH
    stack,      \* ContextPrivate::stack, top at the right
    ret,        \* what the last execute() returned
    refCount,   \* ContextPrivate::actionRefCount
    held,       \* ASync objects some pending operation still references
    unused,     \* ASync objects not created yet
    handler,    \* the ASync owned by the completion handler that is running
    depth,      \* activations of attachAsync below an afterDispatch handler
    pending,    \* ContextPrivate::pendingAsync
    chainIx,    \* ContextPrivate::chainedIx
    detached,   \* ContextPrivate::detached
    error,      \* Context::error(): an error was appended
    async,      \* EngineRequest::Async is set in status
    answer,     \* EngineRequest::Finalized, and with which kind of response
    alive,      \* the Context object exists
    keeps,      \* processingFinished leaves the context alone (the default of
                \* EngineRequest, which the test engine uses)
    matched,    \* the dispatcher found an action
    last,       \* number in the plan of the last action that was started
    failed,     \* a component of the plan returned false
    afters,     \* how often afterDispatch was emitted
    forwards    \* calls of Context::forward so far

ctl   == <<pc, caller, ix, stack, ret>>
asy   == <<refCount, held, unused, handler, depth>>
ctx   == <<pending, chainIx, detached, error>>
req   == <<async, answer, alive, keeps>>
hist  == <<matched, last, failed, afters, forwards>>
vars  == <<ctl, asy, ctx, req, hist>>

----------------------------------------------------------------------------
(* The plan: Controller::setupFinished and ActionChain::ActionChain.        *)

Mains       == IF Chained = 0 THEN 1 ELSE Chained
EndAction   == Autos + Mains + 1
ActionChain == Autos + Mains + 2
Forwarded   == 0
PlanLen     == IF HasEnd THEN EndAction ELSE Autos + Mains
MainAction  == IF Chained = 0 THEN Autos + 1 ELSE ActionChain

Plan        == 1 .. PlanLen
Components  == 0 .. ActionChain
Top         == stack[Len(stack)]
Pop         == SubSeq(stack, 1, Len(stack) - 1)

Hooks       == {"beforePrepare", "beforeDispatch", "afterDispatch"}
OnStack     == {"run", "chain", "returned"}
PCs         == Hooks \cup OnStack \cup
               {"new", "auto", "main", "end", "leave", "dispatched",
                "attach", "finalize", "handler", "idle"}
Callers     == {"auto", "main", "end", "attach", "handler"}

TypeOK ==
    /\ pc \in PCs
    /\ caller \in Callers
    /\ ix \in 1 .. Autos + 1
    /\ stack \in Seq(Components)
    /\ ret \in BOOLEAN
    /\ refCount \in Nat
    /\ held \subseteq ASyncs
    /\ unused \subseteq ASyncs
    /\ handler \in ASyncs \cup {NoASync}
    /\ depth \in Nat
    /\ pending \in Seq(1 .. ActionChain)
    /\ chainIx \in 0 .. Chained
    /\ detached \in BOOLEAN
    /\ error \in BOOLEAN
    /\ async \in BOOLEAN
    /\ answer \in {"none", "normal", "error", "early", "upgraded"}
    /\ alive \in BOOLEAN
    /\ keeps \in BOOLEAN
    /\ matched \in BOOLEAN
    /\ last \in 0 .. PlanLen
    /\ failed \in BOOLEAN
    /\ afters \in Nat
    /\ forwards \in 0 .. MaxForwards

Init ==
    /\ pc = "new" /\ caller = "auto" /\ ix = 1
    /\ stack = <<>> /\ ret = TRUE
    /\ refCount = 0 /\ held = {} /\ unused = ASyncs
    /\ handler = NoASync /\ depth = 0
    /\ pending = <<>> /\ chainIx = 0 /\ detached = FALSE /\ error = FALSE
    /\ async = FALSE /\ answer = "none" /\ alive = TRUE
    /\ keeps \in BOOLEAN
    /\ matched = FALSE /\ last = 0 /\ failed = FALSE /\ afters = 0 /\ forwards = 0

Finalized == answer # "none"
Waiting   == refCount > 0

----------------------------------------------------------------------------
(* Helpers the handlers share.                                              *)

\* ASyncPrivate's constructor: Context::detachAsync.
Detach(a) ==
    /\ a \in unused
    /\ unused' = unused \ {a}
    /\ held' = held \cup {a}
    /\ refCount' = refCount + 1

\* ~ASyncPrivate up to the test at the top of Context::attachAsync: the
\* early return of a release that is not the last one or happens while an
\* action is on the stack.  A release through a null QPointer does nothing.
Release(a) ==
    /\ a \in held
    /\ held' = held \ {a}
    /\ refCount' = IF alive THEN refCount - 1 ELSE refCount

\* Wrong variant: the count is tested before it is decremented.
ResumesPostDecrement ==
    /\ alive
    /\ refCount = 0
    /\ async
    /\ ~Finalized

\* A release resumes the request, given that it is not called from
\* inside an action (the second and third test of Context::attachAsync).
Resumes ==
    /\ alive
    /\ refCount = 1
    /\ async
    /\ ~Finalized

\* Context::execute, with Component::execute and the detached() test of
\* Action::doExecute.
Execute(c) ==
    IF Len(stack) >= Recursion
    THEN /\ error' = TRUE
         /\ ret' = FALSE
         /\ pc' = "returned"
         /\ failed' = (failed \/ c # Forwarded)
         /\ UNCHANGED <<stack, last>>
    ELSE IF detached /\ c # ActionChain
    THEN /\ ret' = FALSE
         /\ pc' = "returned"
         /\ failed' = (failed \/ c # Forwarded)
         /\ UNCHANGED <<stack, last, error>>
    ELSE /\ stack' = Append(stack, c)
         /\ pc' = IF c = ActionChain THEN "chain" ELSE "run"
         /\ last' = IF c \in Plan THEN c ELSE last
         /\ UNCHANGED <<ret, error, failed>>

\* A component returns v to whoever executed it.
Return(v) ==
    /\ stack' = Pop
    /\ ret' = v
    /\ pc' = "returned"

EmitAfterDispatch ==
    /\ pc' = "afterDispatch"
    /\ afters' = afters + 1

\* attachAsync returns: to the event loop, or into the afterDispatch handler
\* whose ASync was released inside it.
LeaveAttach ==
    IF depth > 0
    THEN /\ pc' = "afterDispatch"
         /\ depth' = depth - 1
    ELSE /\ pc' = "idle"
         /\ UNCHANGED depth

\* EngineRequest::finalize.  What processingFinished does with the context
\* depends on the engine: it is deleted at once, or kept until the
\* connection goes away.
EngineFinalize(kind) ==
    /\ answer' = kind
    /\ alive' \in BOOLEAN
    /\ keeps => alive'
    /\ UNCHANGED keeps

----------------------------------------------------------------------------
(* Application::handleRequest and its signals.                              *)

HandleRequest ==
    /\ pc = "new"
    /\ pc' = "beforePrepare"
    /\ UNCHANGED <<caller, ix, stack, ret, asy, ctx, req, hist>>

HookMayUseASync == pc \in Hooks /\ (pc = "afterDispatch" => AfterHookASync)

HookDetach(a) ==
    /\ HookMayUseASync
    /\ alive
    /\ Detach(a)
    /\ UNCHANGED <<ctl, handler, depth, ctx, req, hist>>

HookRelease(a) ==
    /\ HookMayUseASync
    /\ a # handler
    /\ Release(a)
    /\ IF Resumes
       THEN pc' = "attach" /\ depth' = depth + 1
       ELSE UNCHANGED <<pc, depth>>
    /\ UNCHANGED <<caller, ix, stack, ret, unused, handler, ctx, req, hist>>

BeforePrepareDone ==
    /\ pc = "beforePrepare"
    /\ \/ /\ pc' = "finalize"               \* *skipMethod was set
          /\ UNCHANGED matched
       \/ /\ pc' = "beforeDispatch"         \* Dispatcher::prepareAction
          /\ matched' \in BOOLEAN
    /\ UNCHANGED <<caller, ix, stack, ret, asy, ctx, req, last, failed, afters, forwards>>

\* Dispatcher::dispatch: without an action the request is an error.
BeforeDispatchDone ==
    /\ pc = "beforeDispatch"
    /\ IF matched THEN pc' = "auto" /\ UNCHANGED error
                  ELSE pc' = "dispatched" /\ error' = TRUE
    /\ UNCHANGED <<caller, ix, stack, ret, asy, pending, chainIx, detached, req, hist>>

Dispatched ==
    /\ pc = "dispatched"
    /\ IF async THEN pc' = "idle" /\ UNCHANGED afters
                ELSE EmitAfterDispatch
    /\ UNCHANGED <<caller, ix, stack, ret, asy, ctx, req, matched, last, failed, forwards>>

AfterDispatchDone ==
    /\ pc = "afterDispatch"
    /\ pc' = "finalize"
    /\ UNCHANGED <<caller, ix, stack, ret, asy, ctx, req, hist>>

\* Wrong variant: the signal is emitted after the request is finalized.
FinalizeThenSignal ==
    /\ pc = "finalize"
    /\ IF Finalized THEN UNCHANGED <<answer, alive, keeps>> /\ LeaveAttach
                    ELSE /\ EngineFinalize(IF error THEN "error" ELSE "normal")
                         /\ pc' = "afterDispatch"
                         /\ UNCHANGED depth
    /\ UNCHANGED <<caller, ix, stack, ret, refCount, held, unused, handler,
                   ctx, async, hist>>

\* Context::finalize, the last thing handleRequest and attachAsync do.
Finalize ==
    /\ pc = "finalize"
    /\ IF Finalized THEN UNCHANGED <<answer, alive, keeps>>
                    ELSE EngineFinalize(IF error THEN "error" ELSE "normal")
    /\ LeaveAttach
    /\ UNCHANGED <<caller, ix, stack, ret, refCount, held, unused, handler,
                   ctx, async, hist>>

----------------------------------------------------------------------------
(* Controller::_DISPATCH.                                                   *)

DispatchFrom(who, c) ==
    /\ caller' = who
    /\ Execute(c)
    /\ UNCHANGED <<ix, asy, pending, chainIx, detached, req, matched, afters, forwards>>

AfterMain == IF HasEnd THEN "end" ELSE "leave"

Enqueue(c) == pending' = Append(pending, c)

AutoEnqueue ==
    /\ pc = "auto" /\ ix <= Autos /\ Waiting
    /\ Enqueue(ix)
    /\ ix' = ix + 1
    /\ UNCHANGED <<pc, caller, stack, ret, asy, chainIx, detached, error, req, hist>>

AutoDispatch ==
    /\ pc = "auto" /\ ix <= Autos /\ ~Waiting
    /\ DispatchFrom("auto", ix)

AutoReturned ==
    /\ pc = "returned" /\ stack = <<>> /\ caller = "auto"
    /\ IF ret THEN pc' = "auto" /\ ix' = ix + 1
              ELSE pc' = AfterMain /\ UNCHANGED ix
    /\ UNCHANGED <<caller, stack, ret, asy, ctx, req, hist>>

AutoDone ==
    /\ pc = "auto" /\ ix > Autos
    /\ pc' = "main"
    /\ UNCHANGED <<caller, ix, stack, ret, asy, ctx, req, hist>>

MainEnqueue ==
    /\ pc = "main" /\ Waiting
    /\ Enqueue(MainAction)
    /\ pc' = AfterMain
    /\ UNCHANGED <<caller, ix, stack, ret, asy, chainIx, detached, error, req, hist>>

MainDispatch ==
    /\ pc = "main" /\ ~Waiting
    /\ DispatchFrom("main", MainAction)

MainReturned ==
    /\ pc = "returned" /\ stack = <<>> /\ caller = "main"
    /\ pc' = AfterMain
    /\ UNCHANGED <<caller, ix, stack, ret, asy, ctx, req, hist>>

EndEnqueue ==
    /\ pc = "end" /\ Waiting
    /\ Enqueue(EndAction)
    /\ pc' = "leave"
    /\ UNCHANGED <<caller, ix, stack, ret, asy, chainIx, detached, error, req, hist>>

EndDispatch ==
    /\ pc = "end" /\ ~Waiting
    /\ DispatchFrom("end", EndAction)

EndReturned ==
    /\ pc = "returned" /\ stack = <<>> /\ caller = "end"
    /\ pc' = "leave"
    /\ UNCHANGED <<caller, ix, stack, ret, asy, ctx, req, hist>>
\* Wrong variant: the request is not marked as asynchronous.
LeaveDispatchUnmarked ==
    /\ pc = "leave"
    /\ pc' = "dispatched"
    /\ UNCHANGED <<caller, ix, stack, ret, asy, ctx, req, hist>>

LeaveDispatch ==
    /\ pc = "leave"
    /\ async' = (async \/ Waiting)
    /\ pc' = "dispatched"
    /\ UNCHANGED <<caller, ix, stack, ret, asy, ctx, answer, alive, keeps, hist>>

----------------------------------------------------------------------------
(* ActionChain::doExecute.                                                  *)
\* Wrong variant: the loop variable is advanced although the action was not run.
ChainDeferAdvanced ==
    /\ pc = "chain" /\ chainIx < Chained /\ Waiting
    /\ pending' = <<ActionChain>> \o pending
    /\ chainIx' = chainIx + 1
    /\ Return(TRUE)
    /\ UNCHANGED <<caller, ix, asy, detached, error, req, hist>>

ChainDefer ==
    /\ pc = "chain" /\ chainIx < Chained /\ Waiting
    /\ pending' = <<ActionChain>> \o pending
    /\ Return(TRUE)
    /\ UNCHANGED <<caller, ix, asy, chainIx, detached, error, req, hist>>

ChainDispatch ==
    /\ pc = "chain" /\ chainIx < Chained /\ ~Waiting
    /\ Execute(Autos + chainIx + 1)
    /\ UNCHANGED <<caller, ix, asy, pending, chainIx, detached, req, matched, afters, forwards>>

ChainDone ==
    /\ pc = "chain" /\ chainIx = Chained
    /\ Return(TRUE)
    /\ UNCHANGED <<caller, ix, asy, ctx, req, hist>>

ChainReturned ==
    /\ pc = "returned" /\ stack # <<>> /\ Top = ActionChain
    /\ IF ret THEN pc' = "chain" /\ chainIx' = chainIx + 1 /\ UNCHANGED <<stack, ret>>
              ELSE Return(FALSE) /\ UNCHANGED chainIx
    /\ UNCHANGED <<caller, ix, asy, pending, detached, error, req, hist>>

----------------------------------------------------------------------------
(* What the body of an action does with its Context.                        *)

BodyDetach(a) ==
    /\ pc = "run"
    /\ Detach(a)
    /\ UNCHANGED <<ctl, handler, depth, ctx, req, hist>>

BodyRelease(a) ==
    /\ pc = "run"
    /\ a # handler
    /\ Release(a)
    /\ UNCHANGED <<ctl, unused, handler, depth, ctx, req, hist>>

Forward ==
    /\ forwards < MaxForwards
    /\ forwards' = forwards + 1
    /\ Execute(Forwarded)
    /\ UNCHANGED <<ix, asy, pending, chainIx, detached, req, matched, afters>>

BodyForward ==
    /\ pc = "run"
    /\ Forward
    /\ UNCHANGED caller

ForwardReturned ==
    /\ pc = "returned" /\ stack # <<>> /\ Top # ActionChain
    /\ pc' = "run"
    /\ UNCHANGED <<caller, ix, stack, ret, asy, ctx, req, hist>>

\* Context::detach() without an action.
BodyEscape ==
    /\ pc = "run" /\ "escape" \in BodyOps /\ ~detached
    /\ detached' = TRUE
    /\ UNCHANGED <<ctl, asy, pending, chainIx, error, req, hist>>

\* Response::webSocketHandshake: a handshake is refused once the headers are
\* finalized; otherwise the context is finalized from inside the action, and
\* the engine keeps it for the life of the WebSocket.
BodyHandshake ==
    /\ pc = "run" /\ "handshake" \in BodyOps /\ ~Finalized
    /\ async' = TRUE
    /\ answer' = "upgraded"
    /\ UNCHANGED <<ctl, asy, ctx, alive, keeps, hist>>

\* Context::finalize called by the action.
BodyFinalize ==
    /\ pc = "run" /\ ~Finalized
    /\ IF keeps THEN FinalizeWhenKept ELSE FinalizeWhenFreed
    /\ EngineFinalize("early")
    /\ UNCHANGED <<ctl, asy, ctx, async, hist>>

BodyReturn(v) ==
    /\ pc = "run"
    /\ Return(v)
    /\ failed' = (failed \/ (~v /\ Top # Forwarded))
    /\ UNCHANGED <<caller, ix, asy, ctx, req, matched, last, afters, forwards>>

----------------------------------------------------------------------------
(* The event loop: an operation completes and its handler, which owns the   *)
(* ASync a, runs.                                                           *)

Complete(a) ==
    /\ pc = "idle" /\ a \in held
    /\ pc' = "handler"
    /\ handler' = a
    /\ UNCHANGED <<caller, ix, stack, ret, refCount, held, unused, depth, ctx, req, hist>>

HandlerDetach(a) ==
    /\ pc = "handler" /\ alive
    /\ Detach(a)
    /\ UNCHANGED <<ctl, handler, depth, ctx, req, hist>>

HandlerForward ==
    /\ pc = "handler" /\ alive
    /\ caller' = "handler"
    /\ Forward

HandlerForwardReturned ==
    /\ pc = "returned" /\ stack = <<>> /\ caller = "handler"
    /\ pc' = "handler"
    /\ UNCHANGED <<caller, ix, stack, ret, asy, ctx, req, hist>>

\* The handler ends, the ASync is destroyed and Context::attachAsync called.
HandlerDone ==
    /\ pc = "handler"
    /\ Release(handler)
    /\ handler' = NoASync
    /\ pc' = IF Resumes THEN "attach" ELSE "idle"
    /\ UNCHANGED <<caller, ix, stack, ret, unused, depth, ctx, req, hist>>

(* The loop of Context::attachAsync.                                        *)

AttachNext ==
    /\ pc = "attach" /\ pending # <<>>
    /\ pending' = Tail(pending)
    /\ caller' = "attach"
    /\ Execute(Head(pending))
    /\ UNCHANGED <<ix, asy, chainIx, detached, req, matched, afters, forwards>>
AttachReturned ==
    /\ pc = "returned" /\ stack = <<>> /\ caller = "attach"
    /\ IF Waiting THEN LeaveAttach /\ UNCHANGED afters
       ELSE /\ IF ret THEN pc' = "attach" /\ UNCHANGED afters
                      ELSE EmitAfterDispatch
            /\ UNCHANGED depth
    /\ UNCHANGED <<caller, ix, stack, ret, refCount, held, unused, handler,
                   ctx, req, matched, last, failed, forwards>>

AttachDone ==
    /\ pc = "attach" /\ pending = <<>>
    /\ EmitAfterDispatch
    /\ UNCHANGED <<caller, ix, stack, ret, asy, ctx, req, matched, last, failed, forwards>>

\* The engine deletes the context of a finalized request.
DeleteContext ==
    /\ pc = "idle" /\ Finalized /\ alive
    /\ alive' = FALSE
    /\ UNCHANGED <<ctl, asy, ctx, async, answer, keeps, hist>>

\* Nothing of the request is left: the model stutters instead of stopping,
\* so that any other state without a step is reported as a deadlock.
Gone ==
    /\ pc = "idle" /\ ~alive /\ held = {}
    /\ UNCHANGED vars

----------------------------------------------------------------------------

Application ==
    \/ HandleRequest \/ BeforePrepareDone \/ BeforeDispatchDone
    \/ Dispatched \/ AfterDispatchDone \/ Finalize
    \/ \E a \in ASyncs : HookDetach(a) \/ HookRelease(a)

Controller ==
    \/ AutoEnqueue \/ AutoDispatch \/ AutoReturned \/ AutoDone
    \/ MainEnqueue \/ MainDispatch \/ MainReturned
    \/ EndEnqueue \/ EndDispatch \/ EndReturned \/ LeaveDispatch

Chain == ChainDefer \/ ChainDispatch \/ ChainDone \/ ChainReturned

Body ==
    \/ \E a \in ASyncs : BodyDetach(a) \/ BodyRelease(a)
    \/ BodyForward \/ ForwardReturned
    \/ BodyEscape \/ BodyHandshake \/ BodyFinalize
    \/ \E v \in BOOLEAN : BodyReturn(v)

Attach ==
    \/ \E a \in ASyncs : HandlerDetach(a)
    \/ HandlerForward \/ HandlerForwardReturned \/ HandlerDone
    \/ AttachNext \/ AttachReturned \/ AttachDone

\* What the thread executes once it has been entered.
Program == Application \/ Controller \/ Chain \/ Body \/ Attach

Next ==
    \/ Program
    \/ \E a \in ASyncs : Complete(a)
    \/ DeleteContext
    \/ Gone

Spec == Init /\ [][Next]_vars

\* Code that was entered goes on (no body blocks the event loop), and every
\* operation that holds an ASync completes.
Fairness ==
    /\ WF_vars(Program)
    /\ \A a \in ASyncs : WF_vars(Complete(a))

FairSpec == Spec /\ Fairness
=============================================================================
