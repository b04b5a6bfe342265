---------------------------- MODULE WorkflowRun ----------------------------
(***************************************************************************)
(* One non-durable execution of the deterministic graph:                   *)
(* DeterministicWorkflowRuntime._execute_plain, _execute_graph, _run_stage *)
(* and _run_with_retries, with the thirteen nodes of StageGraph.           *)
(*                                                                         *)
(* A run alternates between entering a stage (validate_stage_entry) and    *)
(* running its node.  The clock advances independently of the run, because *)
(* the code reads it again at every check and the adapter and the model    *)
(* provider are awaited.  pc is                                            *)
(*   "enter"    at the head of the while loop of _execute_graph            *)
(*   "node"     inside _run_with_retries, about to call node.run           *)
(*   "adapter"  suspended in adapter.execute                               *)
(*   "done"     the public outcome has been returned                       *)
(***************************************************************************)
EXTENDS StageGraph

CONSTANTS Duration,       \* WorkflowBudget.max_duration_seconds, in ticks
          AuthTTL,        \* QueryExecutionComponents.ttl_seconds, in ticks
          MaxExecution,   \* EffectiveLimits.max_execution_seconds, in ticks
          MaxTime         \* bound on the modelled clock

ASSUME TimeAssumption ==
  /\ Duration \in Nat \ {0}
  /\ AuthTTL \in Nat \ {0}
  /\ MaxExecution \in Nat \ {0}
  /\ MaxTime \in Nat

VARIABLES pc, stage, channel, evidence, tries, auth_expires, called_at,
          calls, cancelled, result, now

vars == <<pc, stage, channel, evidence, tries, auth_expires, called_at,
          calls, cancelled, result, now>>

\* No authorization has been issued / no adapter call is in flight.
Never == 0

\* WorkflowDeadline.from_budget at the start of the run (now = 0).
deadline == Duration

Branch == {"rejected", "failed", "clarification", "approval", "timeout",
           "cancelled", "retry_exhausted", "gate_error", "raised", "succeeded"}

NoResult == "pending"

TypeOK ==
  /\ pc \in {"enter", "node", "adapter", "done"}
  /\ stage \in WorkflowStage
  /\ channel \in SUBSET ChannelKey
  /\ evidence \in SUBSET WorkflowGate
  /\ tries \in 0..MaxRetries
  /\ auth_expires \in Nat
  /\ called_at \in Nat
  /\ calls \in Nat
  /\ cancelled \in BOOLEAN
  /\ result \in Branch \cup {NoResult}
  /\ now \in Nat

\* _execute_plain: the WorkflowCancellation is a frozen value, so whether the
\* run is cancelled is settled when it starts.
Init ==
  /\ pc = "enter"
  /\ stage = "initialize"
  /\ channel = BaseChannel
  /\ evidence = BaseEvidence
  /\ tries = 0
  /\ auth_expires = Never
  /\ called_at = Never
  /\ calls = 0
  /\ cancelled \in BOOLEAN
  /\ result = NoResult
  /\ now = 0

\* _branch_outcome / _with_identity: the run returns.
Return(branch) ==
  /\ pc' = "done"
  /\ result' = branch

\* _run_stage up to the node call.  The second look at the remaining time
\* takes the same branch as an expired deadline.
EnterStage ==
  /\ pc = "enter"
  /\ LET entry == StageEntry(stage, evidence, deadline, cancelled, now)
     IN \/ /\ entry = "ok"
           /\ pc' = "node"
           /\ tries' = 1
           /\ UNCHANGED result
        \/ /\ entry # "ok"
           /\ Return(entry)
           /\ UNCHANGED tries
  /\ UNCHANGED <<stage, channel, evidence, auth_expires, called_at, calls,
                 cancelled, now>>

\* Fault: the loop runs the stage that has just succeeded once more.
AdvanceSameStage ==
  /\ channel' = channel \cup NODES[stage].writes
  /\ evidence' = evidence \cup NODES[stage].gates
  /\ IF NextStage[stage] = NoStage
       THEN Return("succeeded") /\ UNCHANGED stage
       ELSE pc' = "enter" /\ UNCHANGED <<stage, result>>

\* StageResult(SUCCEEDED): the node's keys and evidence are recorded and the
\* loop moves to next_stage; the complete node returns the outcome instead.
Advance ==
  /\ channel' = channel \cup NODES[stage].writes
  /\ evidence' = evidence \cup NODES[stage].gates
  /\ IF NextStage[stage] = NoStage
       THEN Return("succeeded") /\ UNCHANGED stage
       ELSE /\ pc' = "enter"
            /\ stage' = NextStage[stage]
            /\ UNCHANGED result

\* node.run of every stage but execute, on its success path.  The authorize
\* node issues an authorization that expires AuthTTL after this moment.
NodeSucceeds ==
  /\ pc = "node"
  /\ stage # "execute"
  /\ NODES[stage].reads \subseteq channel
  /\ Advance
  /\ auth_expires' = IF stage = "authorize" THEN now + AuthTTL ELSE auth_expires
  /\ UNCHANGED <<tries, called_at, calls, cancelled, now>>

\* The ways node.run ends the run.  A node that indexes a channel key nobody
\* wrote raises KeyError, which no except clause of the runtime catches.
Endings ==
  IF NODES[stage].reads \subseteq channel THEN NODES[stage].branches ELSE {"raised"}

NodeEnds ==
  /\ pc = "node"
  /\ \E branch \in Endings : Return(branch)
  /\ UNCHANGED <<stage, channel, evidence, tries, auth_expires, called_at,
                 calls, cancelled, now>>

\* asyncio.wait_for(timeout=remaining) around a node that awaits the provider.
NodeTimesOut ==
  /\ pc = "node"
  /\ stage \in AwaitingStages \ {"execute"}
  /\ deadline <= now
  /\ Return("timeout")
  /\ UNCHANGED <<stage, channel, evidence, tries, auth_expires, called_at,
                 calls, cancelled, now>>

\* Fault: the pre-execution guard trusts the authorize stage and does not look
\* at the authorization's expiry again.
ExecuteNodeStaleAuthorization ==
  /\ pc = "node"
  /\ stage = "execute"
  /\ NODES[stage].reads \subseteq channel
  /\ deadline > now
  /\ pc' = "adapter"
  /\ called_at' = now
  /\ calls' = calls + 1
  /\ UNCHANGED <<result, stage, channel, evidence, tries, auth_expires,
                 cancelled, now>>

\* _ExecuteNode.run up to the await: verify_pre_execution_guard (of its
\* checks, the one that time can change: the authorization's expiry), then
\* the remaining time, then adapter.execute.
ExecuteNode ==
  /\ pc = "node"
  /\ stage = "execute"
  /\ NODES[stage].reads \subseteq channel
  /\ \/ /\ auth_expires <= now
        /\ Return("rejected")
        /\ UNCHANGED <<called_at, calls>>
     \/ /\ auth_expires > now
        /\ deadline <= now
        /\ Return("timeout")
        /\ UNCHANGED <<called_at, calls>>
     \/ /\ auth_expires > now
        /\ deadline > now
        /\ pc' = "adapter"
        /\ called_at' = now
        /\ calls' = calls + 1
        /\ UNCHANGED result
  /\ UNCHANGED <<stage, channel, evidence, tries, auth_expires, cancelled, now>>

AdapterSucceeds ==
  /\ pc = "adapter"
  /\ Advance
  /\ UNCHANGED <<tries, auth_expires, called_at, calls, cancelled, now>>

\* An adapter error that is not retryable.
AdapterFails ==
  /\ pc = "adapter"
  /\ Return("failed")
  /\ UNCHANGED <<stage, channel, evidence, tries, auth_expires, called_at,
                 calls, cancelled, now>>

\* wait_for(timeout=min(remaining, max_execution_seconds)) fires.
AdapterTimesOut ==
  /\ pc = "adapter"
  /\ now >= deadline \/ now >= called_at + MaxExecution
  /\ Return("timeout")
  /\ UNCHANGED <<stage, channel, evidence, tries, auth_expires, called_at,
                 calls, cancelled, now>>

\* Fault: the retry loop forgets to count.
AdapterRetriesUncounted ==
  /\ pc = "adapter"
  /\ pc' = "node"
  /\ UNCHANGED <<stage, channel, evidence, tries, auth_expires, called_at,
                 calls, cancelled, result, now>>

\* A retryable NL2DataError: _run_with_retries gives up after MaxRetries
\* tries, and re-validates the stage entry before another one.
AdapterRetries ==
  /\ pc = "adapter"
  /\ IF tries >= MaxRetries
       THEN Return("retry_exhausted") /\ UNCHANGED tries
       ELSE LET entry == StageEntry(stage, evidence, deadline, cancelled, now)
            IN \/ /\ entry = "ok"
                  /\ pc' = "node"
                  /\ tries' = tries + 1
                  /\ UNCHANGED result
               \/ /\ entry # "ok"
                  /\ Return(entry)
                  /\ UNCHANGED tries
  /\ UNCHANGED <<stage, channel, evidence, auth_expires, called_at, calls,
                 cancelled, now>>

Tick ==
  /\ pc # "done"
  /\ now < MaxTime
  /\ now' = now + 1
  /\ UNCHANGED <<pc, stage, channel, evidence, tries, auth_expires, called_at,
                 calls, cancelled, result>>

Done == pc = "done" /\ UNCHANGED vars

Step ==
  \/ EnterStage \/ NodeSucceeds \/ NodeEnds \/ NodeTimesOut
  \/ ExecuteNode \/ AdapterSucceeds \/ AdapterFails \/ AdapterTimesOut
  \/ AdapterRetries

Next == Step \/ Tick \/ Done

Spec == Init /\ [][Next]_vars

\* The event loop keeps running the coroutine and the awaited adapter answers,
\* fails, or is cut off by wait_for.
FairSpec == Spec /\ WF_vars(Step)

-----------------------------------------------------------------------------
(* Properties *)

\* The graph is wired completely: in a run that starts at INITIALIZE every
\* gate validate_stage_entry demands and every channel key a node indexes has
\* been produced by an earlier stage, so neither RuntimeGateError nor KeyError
\* is ever the end of a run.
GraphIsWired == result \notin {"gate_error", "raised"}

\* However many retryable failures the adapter reports, one run reaches it at
\* most max_retries times (_run_with_retries counts the first try).
AdapterCallsBounded == calls <= MaxRetries

\* The branches that end a run "before any adapter invocation" (clarification,
\* approval required, cancellation) really are free of external work.
EarlyBranchesTouchNothing ==
  result \in {"clarification", "approval", "cancelled"} => calls = 0

\* The adapter is reached, on the first try and on every retry, only with the
\* evidence of all eight gates, an authorization that is still valid at that
\* moment, time left before the deadline and no cancellation: checks made at
\* different times by validate_stage_entry, by the authorize node and by the
\* execute node.
AdapterWithinAuthority ==
  [][calls' # calls => /\ evidence = WorkflowGate
                       /\ "authorization" \in channel
                       /\ now < auth_expires
                       /\ now < deadline
                       /\ ~cancelled]_vars

\* Every run returns an outcome: retries are counted, waits are cut off.
RunReturns == <>(pc = "done")
=============================================================================
