---------------------------- MODULE WorkflowState ----------------------------
(***************************************************************************)
(* The immutable workflow snapshot of nl2data_core.workflow.models and the *)
(* two pure functions of nl2data_core.workflow.transitions that derive a   *)
(* new snapshot from an old one.  A snapshot is a record                   *)
(*                                                                         *)
(*   request, status, stage, attempts, events, retry_count, cancelled,     *)
(*   deadline_at, compat, ir                                               *)
(*                                                                         *)
(* `events' is the LENGTH of the event log: the code never reads an event  *)
(* back except for the IR identity that the checkpoint metadata carries,   *)
(* which is the field `ir'.  `compat' is the configuration the snapshot    *)
(* was produced under (the compatibility fingerprints without the IR one). *)
(***************************************************************************)
EXTENDS Naturals, FiniteSets

CONSTANTS MaxAttempts,   \* WorkflowBudget.max_attempts
          MaxEvents,     \* WorkflowBudget.max_events
          MaxRetries     \* WorkflowBudget.max_retries

ASSUME BudgetAssumption ==
  /\ MaxAttempts \in Nat \ {0}
  /\ MaxEvents \in Nat \ {0}
  /\ MaxRetries \in Nat \ {0}

WorkflowStatus ==
  {"created", "queued", "running", "succeeded", "failed", "closed"}

TERMINAL_STATUSES == {"succeeded", "failed", "closed"}

\* The stages in execution order; NoStage is current_stage = None.
WorkflowStage ==
  {"initialize", "memory", "intent", "plan", "validate", "compile", "guard",
   "govern", "authorize", "execute", "protect", "persist", "complete"}

NoStage == "none"

\* No IR identity has been recorded on the snapshot yet.
NoIR == "no_ir"

ALLOWED_TRANSITIONS ==
  [ created   |-> {"queued", "failed", "closed"},
    queued    |-> {"running", "failed", "closed"},
    running   |-> {"queued", "succeeded", "failed", "closed"},
    succeeded |-> {},
    failed    |-> {},
    closed    |-> {} ]

\* What validate_transition and the two budgets answer for a move of the
\* snapshot to `target': "ok" or the error class that is raised.
TransitionCheck(state, target) ==
  IF target \notin ALLOWED_TRANSITIONS[state.status]
    THEN "transition_error"
  ELSE IF target = "running" /\ state.attempts + 1 > MaxAttempts
    THEN "budget_error"
  ELSE IF state.events + 1 > MaxEvents
    THEN "budget_error"
  ELSE "ok"

\* transition(): the status moves, RUNNING consumes one attempt, one event is
\* appended; the stage, the cancellation flag and the deadline are kept.
Transition(state, target, retry) ==
  [state EXCEPT !.status = target,
                !.attempts = IF target = "running" THEN @ + 1 ELSE @,
                !.events = @ + 1,
                !.retry_count = retry]

CheckpointCheck(state) ==
  IF state.status \in TERMINAL_STATUSES THEN "transition_error"
  ELSE IF state.events + 1 > MaxEvents THEN "budget_error"
  ELSE "ok"

\* checkpoint() with a stage and the IR identity carried by the metadata.
\* NoIR leaves the recorded identity alone: the last event that names an IR
\* stays the last one.
Checkpoint(state, stage, ir) ==
  [state EXCEPT !.stage = stage,
                !.events = @ + 1,
                !.ir = IF ir = NoIR THEN @ ELSE ir]

\* checkpoint() as mark_cancelled() calls it: the stage is re-recorded
\* (INITIALIZE when there was none) and the flag is set.
MarkCancelled(state) ==
  [state EXCEPT !.stage = IF @ = NoStage THEN "initialize" ELSE @,
                !.events = @ + 1,
                !.cancelled = TRUE]

\* The snapshot _execute_durable creates for a new request.
NewState(request, compat, deadline) ==
  [ request |-> request, status |-> "created", stage |-> NoStage,
    attempts |-> 0, events |-> 0, retry_count |-> 0, cancelled |-> FALSE,
    deadline_at |-> deadline, compat |-> compat, ir |-> NoIR ]
=============================================================================
