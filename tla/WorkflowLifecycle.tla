-------------------------- MODULE WorkflowLifecycle --------------------------
(***************************************************************************)
(* What the workflow state machine promises to a host that looks at stored *)
(* workflows through get_workflow: a workflow appears as CREATED, its      *)
(* status moves along the edges of ALLOWED_TRANSITIONS one at a time, a    *)
(* terminal status is final, and only terminal workflows ever disappear.   *)
(***************************************************************************)
EXTENDS WorkflowState

CONSTANT Workflows

VARIABLE status    \* workflow id -> stored status, "absent" if there is none

Init == status = [w \in Workflows |-> "absent"]

Appear(w) ==
  /\ status[w] = "absent"
  /\ status' = [status EXCEPT ![w] = "created"]

Move(w) ==
  /\ status[w] # "absent"
  /\ \E target \in ALLOWED_TRANSITIONS[status[w]] :
       status' = [status EXCEPT ![w] = target]

\* Retention removes any number of terminal workflows at once.
Expire ==
  \E W \in SUBSET {w \in Workflows : status[w] \in TERMINAL_STATUSES} :
    status' = [w \in Workflows |-> IF w \in W THEN "absent" ELSE status[w]]

Next == (\E w \in Workflows : Appear(w) \/ Move(w)) \/ Expire

Spec == Init /\ [][Next]_status
=============================================================================
