-------------------------- MODULE ContextProperties --------------------------
(***************************************************************************)
(* What must hold of a request in ContextDispatch.                         *)
(***************************************************************************)
EXTENDS ContextDispatch

\* The reference count is the number of ASync objects still alive, through
\* every interleaving of the constructions and destructions that hooks,
\* bodies, nested forwards and completion handlers make (context.cpp:348-365,
\* async.cpp:21-43).
RefCountExact == alive => refCount = Cardinality(held)

\* No lost wake-up: when the thread is back in the event loop the request is
\* finalized, or it is marked Async and some operation is still pending whose
\* completion will call attachAsync (context.cpp:363-391,
\* controller.cpp:416-418, application.cpp:397-399).
NoLostWakeup ==
    pc = "idle" => \/ Finalized
                   \/ async /\ refCount > 0 /\ held # {}

\* The deferred actions are queued in the order of the plan, after everything
\* that was already started: prepending a suspended chain must not let it
\* overtake an action or be overtaken (controller.cpp:391,401,410 and
\* actionchain.cpp:64).  It is proved, as a part of the inductive invariant.
NextOf(c) == IF c = ActionChain THEN Autos + chainIx + 1 ELSE c
PendingInOrder ==
    /\ \A i \in 1 .. Len(pending) : NextOf(pending[i]) > last
    /\ \A i, j \in 1 .. Len(pending) :
           i < j => NextOf(pending[i]) < NextOf(pending[j])

\* Every call that runs on behalf of the request finds its Context alive
\* (application.cpp:364-405 uses c after each callback, context.cpp:388-390
\* after each handler).
NoDanglingContext == pc \notin {"idle", "handler"} => alive

\* A step that starts an action of the plan starts a later one than before,
\* and never while an operation of an earlier action is outstanding
\* (controller.cpp:390-412, context.cpp:375-386).
StartsInOrder == [][last' # last => last' > last /\ refCount = 0]_vars

\* Nothing of the plan is lost: as long as no component of the plan returned
\* false, each action that starts is the successor of the one before it, and
\* the request is not answered before the last one.  The deferred rest of the
\* plan, the position inside a suspended chain and the choice between calling
\* and queueing all have to agree for this (controller.cpp:389-414,
\* context.cpp:375-386, actionchain.cpp:62-81).  And afterDispatch, whose
\* handlers save the session, is emitted once at most: at the end of the dispatch
\* or of the resumed rest of it (application.cpp:397-401, context.cpp:388).
NothingSkipped ==
    [][/\ last' # last /\ ~failed => last' = last + 1
       /\ answer = "none" /\ answer' = "normal" /\ matched /\ ~failed
             => last = PlanLen
       /\ afters' # afters => afters = 0]_vars

\* If every operation that holds an ASync completes, every request is
\* answered.
EventuallyAnswered == <>Finalized

\* The dispatcher implements the abstract plan.
Abstract == INSTANCE ActionPlan WITH waiting <- refCount > 0
ImplementsPlan == Abstract!Spec
=============================================================================
