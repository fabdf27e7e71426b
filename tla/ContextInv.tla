------------------------------ MODULE ContextInv ------------------------------
(***************************************************************************)
(* The inductive invariant of ContextDispatch: what holds between any two  *)
(* steps and, together, implies the safety properties.                     *)
(***************************************************************************)
EXTENDS ContextProperties

Before      == {"new", "beforePrepare", "beforeDispatch"}
Dispatching == {"auto", "main", "end"}
Sync        == {"auto", "main", "end"}

\* Which of the activities the thread is in.
InCall(who)  == pc \in OnStack /\ caller = who
InDispatch   == pc \in Dispatching \cup {"leave"} \/ (pc \in OnStack /\ caller \in Sync)
InAttach     == pc = "attach" \/ InCall("attach")
InHandler    == pc = "handler" \/ InCall("handler")

\* The reference count, and who may still touch a deleted context.
CountInv ==
    /\ RefCountExact
    /\ held \cap unused = {}
    /\ ~alive => Finalized

\* The shape of the stack: empty outside the actions, an ActionChain only at
\* its bottom.
StackInv ==
    /\ pc \notin OnStack => stack = <<>>
    /\ pc = "run" => stack # <<>> /\ stack[Len(stack)] # ActionChain
    /\ pc = "chain" => Len(stack) = 1 /\ stack[1] = ActionChain
    /\ \A i \in 2 .. Len(stack) : stack[i] # ActionChain

\* Where a dispatch stands, and what it has handed out so far.
DispatchInv ==
    /\ pc \in Before => last = 0 /\ pending = <<>> /\ chainIx = 0 /\ ix = 1
    /\ pc = "auto" => last < ix /\ chainIx = 0
    /\ InCall("auto") => last <= ix /\ ix <= Autos /\ chainIx = 0
    /\ pc = "main" => last <= Autos /\ chainIx = 0
    /\ InCall("main") => last < EndAction
    /\ pc = "end" => last < EndAction

\* While _DISPATCH runs, actions are deferred only when the request waits, and
\* then everything after them is deferred too.
DeferInv ==
    /\ pc \in Dispatching /\ ~Waiting => pending = <<>>
    /\ pc \in OnStack /\ caller \in Sync /\ pending # <<>>
           => Waiting /\ pc = "returned" /\ stack = <<>>

\* A running chain is not queued, and only End is queued behind it.
ChainInv ==
    stack # <<>> /\ stack[1] = ActionChain =>
        /\ caller \in {"main", "attach"}
        /\ pc # "chain" => chainIx < Chained /\ last <= Autos + chainIx + 1
        /\ pc = "chain" => last <= Autos + chainIx
        /\ \A i \in 1 .. Len(pending) : pending[i] = EndAction

\* What can be queued, in which order, and how far the queue reaches.
QueueInv ==
    /\ PendingInOrder
    /\ \A i \in 1 .. Len(pending) :
           /\ pending[i] \in 1 .. Autos \cup {MainAction, EndAction}
           /\ pending[i] = ActionChain => chainIx < Chained
           /\ pc = "auto" \/ InCall("auto") => pending[i] < ix
           /\ pc = "main" => pending[i] <= Autos
           /\ pc = "end" \/ InCall("main") => pending[i] # EndAction

\* When the request is suspended and when it is resumed.
WaitInv ==
    /\ pc \in Before => ~async
    /\ InDispatch => (async => Finalized)
    /\ pc = "dispatched" => (async => Finalized \/ Waiting)
    /\ InAttach => async
    /\ pc = "attach" => refCount = 0
    /\ InHandler => handler \in held
    /\ InHandler \/ pc = "idle" => Finalized \/ (async /\ Waiting /\ held # {})

IInv == TypeOK /\ CountInv /\ StackInv /\ DispatchInv /\ DeferInv
               /\ ChainInv /\ QueueInv /\ WaitInv

\* In addition, when no handler of afterDispatch uses an ASync: an answer is
\* only given when nothing is outstanding.
AnswerInv ==
    /\ depth = 0
    /\ pc \in {"afterDispatch", "finalize"} /\ ~Finalized => last = 0 \/ ~Waiting
    /\ pc = "dispatched" /\ ~async => last = 0 \/ ~Waiting
    /\ answer \in {"normal", "error"} => pc = "idle" \/ InHandler

\* The plan up to which all is started or queued, and what the queue covers: m is
\* the next of it, n the first that is not in it.
After(c) == IF c = ActionChain THEN EndAction ELSE c + 1
Covers(m, n) ==
    /\ pending = <<>> => m = n
    /\ pending # <<>> => NextOf(Head(pending)) = m /\ After(pending[Len(pending)]) = n
    /\ \A i \in 1 .. Len(pending) - 1 : NextOf(pending[i + 1]) = After(pending[i])
HandedOut ==
    CASE pc = "auto" -> ix
      [] pc = "main" -> Autos + 1
      [] pc = "end" -> EndAction
      [] InCall("auto") -> ix + 1
      [] InCall("main") -> EndAction
      [] InCall("end") -> EndAction + 1
      [] OTHER -> PlanLen + 1
InChain == stack # <<>> /\ stack[1] = ActionChain

\* As long as nothing failed, what was started is followed by what is queued, without
\* a gap, up to what the dispatch has handed out. A running chain stands between.
GapInv ==
    matched /\ ~failed /\ pc \notin Before =>
        /\ ~InChain => Covers(last + 1, HandedOut)
        /\ InChain => /\ Covers(EndAction, HandedOut)
                      /\ last = Autos + chainIx + (IF pc = "chain" THEN 0 ELSE 1)

\* Below a body is what was dispatched; only a handler forwards by itself. What
\* returns FALSE to the dispatch has failed, and there is an End to be dispatched.
BaseInv ==
    /\ stack # <<>> /\ caller # "handler" => stack[1] # Forwarded
    /\ InChain => Chained > 0
    /\ pc = "end" \/ InCall("end") => HasEnd
    /\ InChain /\ Len(stack) > 1 => stack[2] # Forwarded
    /\ pc = "returned" /\ (stack = <<>> \/ Top = ActionChain) /\ caller # "handler" /\ ~failed => ret

\* afterDispatch comes when the queue is empty, and once.
EmptyInv ==
    /\ pc \in {"new", "beforePrepare"} => ~matched
    /\ pc = "leave" /\ pending # <<>> => Waiting
    /\ pc = "dispatched" /\ pending # <<>> => async
    /\ pc \in {"afterDispatch", "finalize"} /\ matched /\ ~failed => pending = <<>>
    /\ afters # 0 => \/ pc \in {"afterDispatch", "finalize"}
                     \/ Finalized /\ (pc = "idle" \/ InHandler)

\* For a request without an action nothing is queued, and only handlers forward.
UnmatchedInv ==
    ~matched => /\ pending = <<>> /\ pc \notin Dispatching
                /\ pc \in OnStack => caller = "handler"

SkipInv == GapInv /\ BaseInv /\ EmptyInv /\ UnmatchedInv
=============================================================================
