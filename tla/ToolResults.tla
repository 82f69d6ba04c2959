---------------------------- MODULE ToolResults ----------------------------
(***************************************************************************)
(* What executeToolCalls() of packages/core/agent-loop/src/tool-calls.ts   *)
(* promises about the session log of one assistant step: the calls of the  *)
(* message are recorded in model order, each is answered once, in the same *)
(* order and after it was recorded, and the step goes on only when every   *)
(* call has its answer.  An internal failure leaves the tail unanswered.   *)
(***************************************************************************)
EXTENDS Naturals

CONSTANT NCalls

VARIABLES
    recorded,   \* tool/call events: the calls 1..recorded
    answered,   \* tool/result events: the calls 1..answered
    outcome     \* "running", "done" or "failed"

resultVars == <<recorded, answered, outcome>>

Init == recorded = 0 /\ answered = 0 /\ outcome = "running"

Record ==
    /\ outcome = "running" /\ recorded < NCalls
    /\ recorded' = recorded + 1
    /\ UNCHANGED <<answered, outcome>>

Answer ==
    /\ outcome = "running" /\ answered < recorded
    /\ answered' = answered + 1
    /\ UNCHANGED <<recorded, outcome>>

(* A call that is never dispatched is recorded and answered together. *)
Skip ==
    /\ outcome = "running" /\ answered = recorded /\ recorded < NCalls
    /\ recorded' = recorded + 1 /\ answered' = answered + 1
    /\ UNCHANGED outcome

Finish ==
    /\ outcome = "running" /\ answered = NCalls
    /\ outcome' = "done"
    /\ UNCHANGED <<recorded, answered>>

Fail ==
    /\ outcome = "running"
    /\ outcome' = "failed"
    /\ UNCHANGED <<recorded, answered>>

Next == Record \/ Answer \/ Skip \/ Finish \/ Fail

Spec == Init /\ [][Next]_resultVars

=============================================================================
