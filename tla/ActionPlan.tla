------------------------------ MODULE ActionPlan ------------------------------
(***************************************************************************)
(* What the dispatcher promises about one request, whatever its actions    *)
(* suspend: the actions of the plan are started one at a time in the       *)
(* order of the plan, none of them while the request waits for an          *)
(* asynchronous operation, and the request is answered once, not before    *)
(* the operations its actions started have completed.                      *)
(***************************************************************************)
EXTENDS Naturals

CONSTANT PlanLen            \* the actions of the plan are 1 .. PlanLen

VARIABLES last,             \* the last action that was started, 0 for none
          waiting,          \* an asynchronous operation is outstanding
          answer            \* how the request was answered

vars == <<last, waiting, answer>>

Init ==
    /\ last = 0
    /\ waiting = FALSE
    /\ answer = "none"

Answered == answer \in {"normal", "error"}

\* Actions may be skipped: an Auto that returns false ends the plan early.
\* The rest of the plan still runs after an action answered the request itself.
Start(p) ==
    /\ ~waiting
    /\ ~Answered
    /\ p > last
    /\ last' = p
    /\ UNCHANGED <<waiting, answer>>

Suspend ==
    /\ waiting' = TRUE
    /\ UNCHANGED <<last, answer>>

Resume ==
    /\ waiting' = FALSE
    /\ UNCHANGED <<last, answer>>

\* A request no action was started for need not wait: a handler of
\* beforePrepareAction answered it, or no action matched.
Answer ==
    /\ answer = "none"
    /\ waiting => last = 0
    /\ answer' \in {"normal", "error"}
    /\ UNCHANGED <<last, waiting>>

\* An action may answer the request itself, with a WebSocket handshake or by
\* finalizing it.
AnswerEarly ==
    /\ answer = "none"
    /\ answer' \in {"early", "upgraded"}
    /\ UNCHANGED <<last, waiting>>

Next ==
    \/ \E p \in 1 .. PlanLen : Start(p)
    \/ Suspend \/ Resume
    \/ Answer \/ AnswerEarly

Spec == Init /\ [][Next]_vars
===============================================================================
