----------------------------- MODULE StageGraph -----------------------------
(***************************************************************************)
(* The linear 13-stage graph of nl2data_core.workflow.contract and the     *)
(* thirteen nodes of nl2data_core.workflow.runtime, as tables.             *)
(*                                                                         *)
(* One execution carries a channel, a Python dict.  A node indexes some    *)
(* keys (a missing key raises KeyError), adds some keys on success, and    *)
(* records gate evidence.  The values are abstracted: a key or a gate is   *)
(* present or absent.  What a node decides from values that are not        *)
(* modelled (a policy decision, a model answer, a parser's verdict) is a   *)
(* choice between the node's success and the branches listed for it.       *)
(***************************************************************************)
EXTENDS WorkflowState

WorkflowGate ==
  {"tenant_scope", "deadline", "plan_validation", "compilation",
   "artifact_guard", "artifact_validation", "governance", "authorization"}

NextStage ==
  [ initialize |-> "memory",   memory    |-> "intent",   intent   |-> "plan",
    plan       |-> "validate", validate  |-> "compile",  compile  |-> "guard",
    guard      |-> "govern",   govern    |-> "authorize",
    authorize  |-> "execute",  execute   |-> "protect",
    protect    |-> "persist",  persist   |-> "complete", complete |-> NoStage ]

REQUIRED_GATES ==
  [ initialize |-> {},
    memory     |-> {},
    intent     |-> {},
    plan       |-> {},
    validate   |-> {},
    compile    |-> {"plan_validation"},
    guard      |-> {"compilation"},
    govern     |-> {},
    authorize  |-> {},
    execute    |-> WorkflowGate,
    protect    |-> {"artifact_validation"},
    persist    |-> {"authorization"},
    complete   |-> {} ]

\* The two gates _execute_graph seeds before the first stage of a run,
\* whichever stage that is, and the only channel entry it seeds.
BaseEvidence == {"tenant_scope", "deadline"}

BaseChannel == {"turn"}

ChannelKey ==
  {"turn", "resolution", "intent_outcome", "ir", "compilation_context",
   "compiler_result", "validated", "validation_context", "artifact_guard",
   "authorization", "execution", "result", "outcome"}

(***************************************************************************)
(* A node: the keys it indexes with channel[...] (keys read with           *)
(* channel.get(...) or under contextlib.suppress are no requirements), the *)
(* keys it adds, the gates it records evidence for, and the ways it can    *)
(* end the run other than by success.  "rejected", "failed" and            *)
(* "clarification" are StageResults that carry the final public outcome;   *)
(* "approval" is ApprovalRequiredError.                                    *)
(***************************************************************************)
Node(reads, writes, gates, branches) ==
  [reads |-> reads, writes |-> writes, gates |-> gates, branches |-> branches]

InitializeNode == Node({}, {}, {}, {"rejected"})

MemoryNode == Node({"turn"}, {"resolution"}, {}, {"clarification"})

\* Its own not-configured answer cannot be reached: execute() has refused an
\* unconfigured runtime before the graph starts.
IntentNode == Node({}, {"intent_outcome"}, {}, {"failed", "clarification", "rejected"})

PlanNode == Node({"intent_outcome"}, {"ir"}, {}, {"rejected", "failed"})

ValidateNode == Node({"ir"}, {}, {"plan_validation"}, {"rejected"})

CompileNode ==
  Node({"ir"}, {"compilation_context", "compiler_result"}, {"compilation"}, {"rejected"})

\* Fault: only one of the two gates is recorded.
GuardNodeOneGate ==
  Node({"ir", "compiler_result"}, {"validated", "validation_context", "artifact_guard"},
       {"artifact_guard"}, {"rejected"})

GuardNode ==
  Node({"ir", "compiler_result"}, {"validated", "validation_context", "artifact_guard"},
       {"artifact_guard", "artifact_validation"}, {"rejected"})

GovernNode == Node({"ir", "validated"}, {}, {"governance"}, {"rejected"})

AuthorizeNode ==
  Node({"ir", "validated"}, {"authorization"}, {"authorization"}, {"approval", "rejected"})

\* It suspends on the adapter: its endings are actions of their own.
ExecuteStageNode ==
  Node({"validated", "validation_context", "authorization", "compilation_context",
        "compiler_result", "artifact_guard"}, {"execution"}, {}, {})

ProtectNode ==
  Node({"ir", "execution", "authorization", "artifact_guard", "compiler_result"},
       {"result", "outcome"}, {}, {"failed"})

PersistNode == Node({}, {}, {}, {})

CompleteNode == Node({"outcome"}, {}, {}, {})

NODES ==
  [ initialize |-> InitializeNode, memory    |-> MemoryNode,
    intent     |-> IntentNode,     plan      |-> PlanNode,
    validate   |-> ValidateNode,   compile   |-> CompileNode,
    guard      |-> GuardNode,      govern    |-> GovernNode,
    authorize  |-> AuthorizeNode,  execute   |-> ExecuteStageNode,
    protect    |-> ProtectNode,    persist   |-> PersistNode,
    complete   |-> CompleteNode ]

\* Stages whose node suspends on external work under asyncio.wait_for, and so
\* can be cut off by the workflow deadline while they run.
AwaitingStages == {"intent", "execute"}

\* validate_stage_entry: gates first, then the deadline, then cancellation.
StageEntry(stage, evidence, deadline, cancelled, now) ==
  IF ~(REQUIRED_GATES[stage] \subseteq evidence) THEN "gate_error"
  ELSE IF deadline <= now THEN "timeout"
  ELSE IF cancelled THEN "cancelled"
  ELSE "ok"

\* The public OutcomeStatus of a branch (RuntimeOutcomeStatus, and the except
\* clauses of _execute_graph).  "raised" is an exception that is not an
\* NL2DataError and leaves the runtime.
PublicStatus(branch) ==
  CASE branch \in {"rejected", "timeout", "cancelled", "retry_exhausted",
                   "approval", "stale", "fenced", "busy"} -> "REJECTED"
    [] branch \in {"failed", "gate_error", "state_error", "recoverable"} -> "FAILED"
    [] branch = "clarification" -> "CLARIFICATION"
    [] branch = "succeeded" -> "SUCCEEDED"
    [] OTHER -> "RAISED"
=============================================================================
