--------------------------- MODULE DurableRuntime ---------------------------
(***************************************************************************)
(* DeterministicWorkflowRuntime over the shared store: several attempts at *)
(* one request (its client's retries, a second worker's recovery), each    *)
(* going through _execute_durable, and callers of cancel().                *)
(*                                                                         *)
(* Attempts run on different workers and interleave at every call they     *)
(* make to the store, to the model provider and to the adapter.  One step  *)
(* is one such call with the local computation up to the next one: the     *)
(* computation takes no time, the calls do.  Two calls share a step only   *)
(* when a stage renews its lease and then reads the revision: they touch   *)
(* different tables, and while the lease has just been renewed nobody else *)
(* can acquire it.                                                         *)
(*                                                                         *)
(* An attempt is a record:                                                 *)
(*   pc         the call it makes next                                     *)
(*   w          workflow_id                                                *)
(*   state      its own copy of the snapshot (_DurableBinding._state)      *)
(*   next       the snapshot it is about to write, with                    *)
(*   revision   the revision it has read for it                            *)
(*   fence      owner and token of its lease, with                         *)
(*   expires    the expiry of its copy of the lease                        *)
(*   recovering whether it takes the RUNNING -> QUEUED retry edge          *)
(*   stage, channel, evidence, tries   as in WorkflowRun                   *)
(*   outcome    the public outcome it returns                              *)
(***************************************************************************)
EXTENDS SharedStateStore, StageGraph

CONSTANTS Attempts,
          WorkerOf,         \* attempt -> worker_id of its runtime
          RequestedId,      \* attempt -> explicit workflow id, or a fresh one
          CompatOf,         \* attempt -> configuration it runs under
          CancelledAtStart, \* attempts submitted with a requested cancellation
          Cancels,          \* calls of cancel()
          Request,          \* the request id, which is its idempotency key
          Duration, LeaseTTL, RenewalMargin, KeyTTL,
          Retention,        \* how long the operator keeps finished rows
          MaxTime           \* bound on the modelled clock

ASSUME AttemptAssumption ==
  /\ RequestedId \in [Attempts -> Workflows]
  /\ \A e \in Attempts : WorkerOf[e] # "nobody"
  /\ CancelledAtStart \subseteq Attempts
  /\ Request \in Keys
  /\ Duration \in Nat \ {0}
  /\ LeaseTTL \in Nat \ {0}
  /\ RenewalMargin \in 1..LeaseTTL - 1
  /\ KeyTTL \in Nat \ {0}
  /\ Retention \in Nat
  /\ MaxTime \in Nat

VARIABLES att,              \* attempt -> record
          cancels           \* call of cancel() -> record

vars == <<states, keys, leases, now, att, cancels>>

NoId == "no_id"

Idle ==
  [ pc |-> "get_idempotency", w |-> NoId, state |-> NoState, next |-> NoState,
    revision |-> NoVersion, fence |-> NoFence, expires |-> 0,
    recovering |-> FALSE, stage |-> NoStage, channel |-> {}, evidence |-> {},
    tries |-> 0, outcome |-> "pending" ]

IdleCancel ==
  [ pc |-> "get", w |-> NoId, state |-> NoState, revision |-> NoVersion,
    result |-> "pending" ]

Init ==
  /\ StoreInit
  /\ att = [e \in Attempts |-> Idle]
  /\ cancels = [c \in Cancels |-> IdleCancel]

-----------------------------------------------------------------------------
(* Records an attempt can turn into *)

\* execute() has returned.
Returned(a, outcome) ==
  [Idle EXCEPT !.pc = "done", !.w = a.w, !.outcome = outcome]

\* The attempt leaves the try block; the finally clause releases the lease.
Leaving(a, outcome) ==
  [a EXCEPT !.pc = "release", !.next = NoState, !.revision = NoVersion,
            !.outcome = outcome]

\* _execute_graph has returned the outcome of `branch', or raised: what
\* _execute_durable does next depends on the public status.
Ended(a, branch) ==
  LET out == PublicStatus(branch)
  IN [Leaving(a, out) EXCEPT
        !.pc = IF branch = "cancelled" THEN "mark_revision"
               ELSE IF out \in {"SUCCEEDED", "FAILED"} THEN "commit_revision"
               ELSE "release"]

\* What an error of update or renew_lease is to the caller: FENCING_REJECTED
\* is publicly rejected, the NL2DataErrors are failures.
ErrorBranch(result) == IF result = "fenced" THEN "fenced" ELSE "state_error"

\* A node succeeded: its keys and gates are recorded and the checkpoint of the
\* next stage is prepared; get_revision is the call made in this step.
Recorded(a) ==
  LET channel == a.channel \cup NODES[a.stage].writes
      stage == IF NextStage[a.stage] = NoStage THEN a.stage ELSE NextStage[a.stage]
      ir == IF "ir" \in channel THEN "ir" ELSE NoIR
  IN IF CheckpointCheck(a.state) # "ok" THEN Ended(a, "state_error")
     ELSE [a EXCEPT !.pc = "checkpoint",
                    !.channel = channel,
                    !.evidence = @ \cup NODES[a.stage].gates,
                    !.next = Checkpoint(a.state, stage, ir),
                    !.revision = states[a.w].revision,
                    !.tries = 0]

\* node.run: a missing channel key raises KeyError, otherwise the node's
\* branches and its success are possible.
NodeResults(a) ==
  IF ~(NODES[a.stage].reads \subseteq a.channel) THEN {Ended(a, "raised")}
  ELSE {Ended(a, branch) : branch \in NODES[a.stage].branches} \cup {Recorded(a)}

\* The execute node up to adapter.execute: verify_pre_execution_guard rejects,
\* or the call is made.
Calls(a) ==
  IF ~(NODES[a.stage].reads \subseteq a.channel) THEN {Ended(a, "raised")}
  ELSE {Ended(a, "rejected"), [a EXCEPT !.pc = "adapter", !.tries = @ + 1]}

\* What a stage does after its lease has been seen to: the intent stage asks
\* the model provider, the execute stage the adapter, the others run through.
FirstCall(a) ==
  IF a.stage = "intent" THEN {[a EXCEPT !.pc = "provider"]}
  ELSE IF a.stage = "execute" THEN Calls(a)
  ELSE NodeResults(a)

Becomes(e, a) == att' = [att EXCEPT ![e] = a]

-----------------------------------------------------------------------------
(* _execute_durable up to the lease *)

GetIdempotency(e) ==
  /\ att[e].pc = "get_idempotency"
  /\ Becomes(e, [att[e] EXCEPT
                   !.pc = "reserve",
                   !.w = IF keys[Request] = NoKey THEN RequestedId[e]
                         ELSE keys[Request].workflow_id])
  /\ UNCHANGED <<states, keys, leases, now, cancels>>

ReserveKey(e) ==
  LET a == att[e]
      result == ReserveResult(Request, Request, a.w, now)
  IN /\ a.pc = "reserve"
     /\ Reserve(Request, Request, a.w, now, now + KeyTTL)
     /\ Becomes(e, IF result = "conflict" THEN Returned(a, "REJECTED")
                   ELSE IF result = "completed" THEN Returned(a, "DUPLICATE")
                   ELSE [a EXCEPT !.pc = "get_checkpoint"])
     /\ UNCHANGED <<states, leases, now, cancels>>

\* The stages after which external work may already have happened.
AMBIGUOUS_STAGES == {"execute", "protect", "persist", "complete"}

\* _validate_resume, in the order of its checks.
ValidateResume(state, compat) ==
  IF state.compat # compat THEN "stale"
  ELSE IF state.deadline_at <= now THEN "timeout"
  ELSE IF state.cancelled THEN "cancelled"
  ELSE IF state.stage \in AMBIGUOUS_STAGES THEN "recoverable"
  ELSE IF state.retry_count >= MaxRetries THEN "retry_exhausted"
  ELSE "ok"

GetCheckpoint(e) ==
  LET a == att[e]
      row == states[a.w]
      resume == ValidateResume(row.state, CompatOf[e])
  IN /\ a.pc = "get_checkpoint"
     /\ \/ /\ row = NoRow
           /\ Becomes(e, [a EXCEPT !.pc = "create"])
        \/ /\ row # NoRow
           /\ row.state.status \in TERMINAL_STATUSES
           /\ Becomes(e, Returned(a, "DUPLICATE"))
        \/ /\ row # NoRow
           /\ row.state.status \notin TERMINAL_STATUSES
           /\ Becomes(e, IF resume = "ok"
                           THEN [a EXCEPT !.pc = "acquire", !.state = row.state]
                           ELSE Returned(a, PublicStatus(resume)))
     /\ UNCHANGED <<states, keys, leases, now, cancels>>

CreateState(e) ==
  LET a == att[e]
      created == NewState(Request, CompatOf[e], now + Duration)
  IN /\ a.pc = "create"
     /\ Create(a.w, created)
     /\ Becomes(e, IF CreateResult(a.w) = "ok"
                     THEN [a EXCEPT !.pc = "acquire", !.state = created]
                     ELSE Returned(a, "FAILED"))
     /\ UNCHANGED <<keys, leases, now, cancels>>

AcquireLease(e) ==
  LET a == att[e]
  IN /\ a.pc = "acquire"
     /\ Acquire(a.w, WorkerOf[e], now + LeaseTTL)
     /\ Becomes(e, IF AcquireResult(a.w) = "ok"
                     THEN [a EXCEPT
                             !.pc = "advance_revision",
                             !.fence = [owner_id |-> WorkerOf[e],
                                        fencing_token |-> leases'[a.w].fencing_token],
                             !.expires = now + LeaseTTL,
                             !.recovering = a.state.status = "running"]
                     ELSE Returned(a, PublicStatus("busy")))
     /\ UNCHANGED <<states, keys, now, cancels>>

-----------------------------------------------------------------------------
(* _advance_to_running: one or two calls of _step *)

AdvanceRevision(e) ==
  LET a == att[e]
      target == IF a.state.status = "queued" THEN "running" ELSE "queued"
      retry == IF target = "running" /\ a.recovering
                 THEN a.state.retry_count + 1 ELSE a.state.retry_count
  IN /\ a.pc = "advance_revision"
     /\ Becomes(e, IF TransitionCheck(a.state, target) = "ok"
                     THEN [a EXCEPT !.pc = "advance",
                                    !.next = Transition(a.state, target, retry),
                                    !.revision = states[a.w].revision]
                     ELSE Leaving(a, "FAILED"))
     /\ UNCHANGED <<states, keys, leases, now, cancels>>

\* The in-memory state after update() succeeded.
Persisted(a) ==
  [a EXCEPT !.state = a.next, !.next = NoState, !.revision = NoVersion]

\* Fault: a transition that is refused is tried again with a new revision.
AdvanceWriteRetries(e) ==
  LET a == att[e]
      result == UpdateResult(a.w, a.state.status, a.next, a.revision, a.fence)
  IN /\ a.pc = "advance"
     /\ Update(a.w, a.state.status, a.next, a.revision, a.fence)
     /\ Becomes(e, IF result = "ok" THEN Leaving(Persisted(a), "REJECTED")
                   ELSE [a EXCEPT !.pc = "advance_revision"])
     /\ UNCHANGED <<keys, leases, now, cancels>>

\* Once RUNNING, the graph starts at the stored stage with an empty channel.
AdvanceWrite(e) ==
  LET a == att[e]
      result == UpdateResult(a.w, a.state.status, a.next, a.revision, a.fence)
  IN /\ a.pc = "advance"
     /\ Update(a.w, a.state.status, a.next, a.revision, a.fence)
     /\ Becomes(e, IF result # "ok"
                     THEN Leaving(a, PublicStatus(ErrorBranch(result)))
                   ELSE IF a.next.status = "queued"
                     THEN [Persisted(a) EXCEPT !.pc = "advance_revision"]
                   ELSE [Persisted(a) EXCEPT
                           !.pc = "stage",
                           !.stage = IF a.state.stage = NoStage THEN "initialize"
                                     ELSE a.state.stage,
                           !.channel = BaseChannel,
                           !.evidence = BaseEvidence])
     /\ UNCHANGED <<keys, leases, now, cancels>>

-----------------------------------------------------------------------------
(* _execute_graph *)

\* Fault: the execute stage goes to the adapter without a look at the lease.
RenewalDueBetweenStages(a) == a.stage # "execute" /\ a.expires - now <= RenewalMargin

RenewalDue(a) == a.stage = "execute" \/ a.expires - now <= RenewalMargin

\* _run_stage up to the first call of the node.  The lease is renewed when it
\* is about to expire, and always before the execute stage.
EnterStage(e) ==
  LET a == att[e]
      entry == StageEntry(a.stage, a.evidence, a.state.deadline_at,
                          e \in CancelledAtStart, now)
      due == RenewalDue(a)
      renewed == IF due THEN [a EXCEPT !.expires = now + LeaseTTL] ELSE a
  IN /\ a.pc = "stage"
     /\ \/ /\ entry # "ok"
           /\ Becomes(e, Ended(a, entry))
           /\ UNCHANGED leases
        \/ /\ entry = "ok"
           /\ due
           /\ RenewResult(a.w, a.fence) = "fenced"
           /\ Becomes(e, Ended(a, "fenced"))
           /\ UNCHANGED leases
        \/ /\ entry = "ok"
           /\ due => RenewResult(a.w, a.fence) = "ok"
           /\ IF due THEN Renew(a.w, a.fence, now + LeaseTTL) ELSE UNCHANGED leases
           /\ \E r \in FirstCall(renewed) : Becomes(e, r)
     /\ UNCHANGED <<states, keys, now, cancels>>

\* The model provider answers, or wait_for cuts it off at the deadline.
ProviderAnswers(e) ==
  LET a == att[e]
  IN /\ a.pc = "provider"
     /\ \/ \E r \in NodeResults(a) : Becomes(e, r)
        \/ /\ a.state.deadline_at <= now
           /\ Becomes(e, Ended(a, "timeout"))
     /\ UNCHANGED <<states, keys, leases, now, cancels>>

\* The adapter answers, fails for good, or is cut off by the execution limit
\* or the deadline.
AdapterAnswers(e) ==
  LET a == att[e]
  IN /\ a.pc = "adapter"
     /\ \E r \in {Recorded(a), Ended(a, "failed"), Ended(a, "timeout")} : Becomes(e, r)
     /\ UNCHANGED <<states, keys, leases, now, cancels>>

\* A retryable failure.  _run_with_retries looks at the gates, the deadline
\* and the cancellation again, but not at the lease.
AdapterRetries(e) ==
  LET a == att[e]
      entry == StageEntry(a.stage, a.evidence, a.state.deadline_at,
                          e \in CancelledAtStart, now)
  IN /\ a.pc = "adapter"
     /\ IF a.tries >= MaxRetries THEN Becomes(e, Ended(a, "retry_exhausted"))
        ELSE IF entry # "ok" THEN Becomes(e, Ended(a, entry))
        ELSE \E r \in Calls(a) : Becomes(e, r)
     /\ UNCHANGED <<states, keys, leases, now, cancels>>

\* The update of checkpoint(): the run moves to the next stage, or returns the
\* outcome of the complete stage.
CheckpointWrite(e) ==
  LET a == att[e]
      result == UpdateResult(a.w, a.state.status, a.next, a.revision, a.fence)
  IN /\ a.pc = "checkpoint"
     /\ Update(a.w, a.state.status, a.next, a.revision, a.fence)
     /\ Becomes(e, IF result # "ok" THEN Ended(a, ErrorBranch(result))
                   ELSE IF NextStage[a.stage] = NoStage
                     THEN Ended(Persisted(a), "succeeded")
                   ELSE [Persisted(a) EXCEPT !.pc = "stage",
                                             !.stage = NextStage[a.stage]])
     /\ UNCHANGED <<keys, leases, now, cancels>>

-----------------------------------------------------------------------------
(* _execute_durable after the graph *)

\* mark_cancelled: errors are suppressed, the public outcome stands.
MarkRevision(e) ==
  LET a == att[e]
  IN /\ a.pc = "mark_revision"
     /\ Becomes(e, IF CheckpointCheck(a.state) = "ok"
                     THEN [a EXCEPT !.pc = "mark",
                                    !.next = MarkCancelled(a.state),
                                    !.revision = states[a.w].revision]
                     ELSE Leaving(a, a.outcome))
     /\ UNCHANGED <<states, keys, leases, now, cancels>>

MarkWrite(e) ==
  LET a == att[e]
  IN /\ a.pc = "mark"
     /\ Update(a.w, a.state.status, a.next, a.revision, a.fence)
     /\ Becomes(e, Leaving(a, a.outcome))
     /\ UNCHANGED <<keys, leases, now, cancels>>

\* binding.step(target): an NL2DataError is suppressed and the outcome stands.
CommitRevision(e) ==
  LET a == att[e]
      target == IF a.outcome = "SUCCEEDED" THEN "succeeded" ELSE "failed"
  IN /\ a.pc = "commit_revision"
     /\ Becomes(e, IF TransitionCheck(a.state, target) = "ok"
                     THEN [a EXCEPT !.pc = "commit",
                                    !.next = Transition(a.state, target, a.state.retry_count),
                                    !.revision = states[a.w].revision]
                     ELSE Leaving(a, a.outcome))
     /\ UNCHANGED <<states, keys, leases, now, cancels>>

\* Fault: the key is completed although the terminal commit failed.
CommitWriteIgnoresErrors(e) ==
  LET a == att[e]
  IN /\ a.pc = "commit"
     /\ Update(a.w, a.state.status, a.next, a.revision, a.fence)
     /\ Becomes(e, IF a.outcome = "SUCCEEDED" THEN [Persisted(a) EXCEPT !.pc = "complete"]
                   ELSE Leaving(a, a.outcome))
     /\ UNCHANGED <<keys, leases, now, cancels>>

\* Only a SharedStoreError (the fence) replaces the outcome.
CommitWrite(e) ==
  LET a == att[e]
      result == UpdateResult(a.w, a.state.status, a.next, a.revision, a.fence)
  IN /\ a.pc = "commit"
     /\ Update(a.w, a.state.status, a.next, a.revision, a.fence)
     /\ Becomes(e, IF result = "fenced" THEN Leaving(a, "REJECTED")
                   ELSE IF result \in {"ok", "noop"} /\ a.outcome = "SUCCEEDED"
                     THEN [Persisted(a) EXCEPT !.pc = "complete"]
                   ELSE Leaving(a, a.outcome))
     /\ UNCHANGED <<keys, leases, now, cancels>>

CompleteKey(e) ==
  LET a == att[e]
  IN /\ a.pc = "complete"
     /\ Complete(Request, a.w, e, a.fence)
     /\ Becomes(e, Leaving(a, IF CompleteResult(Request, a.w, a.fence) = "fenced"
                                THEN "REJECTED" ELSE a.outcome))
     /\ UNCHANGED <<states, leases, now, cancels>>

ReleaseLease(e) ==
  LET a == att[e]
  IN /\ a.pc = "release"
     /\ Release(a.w, a.fence)
     /\ Becomes(e, Returned(a, a.outcome))
     /\ UNCHANGED <<states, keys, now, cancels>>

\* The worker process dies; its rows stay as they are.
Crash(e) ==
  /\ att[e].pc \notin {"get_idempotency", "done", "crashed"}
  /\ Becomes(e, [Idle EXCEPT !.pc = "crashed", !.w = att[e].w])
  /\ UNCHANGED <<states, keys, leases, now, cancels>>

-----------------------------------------------------------------------------
(* DeterministicWorkflowRuntime.cancel *)

BecomesCancel(c, r) == cancels' = [cancels EXCEPT ![c] = r]

\* The result of a cancel() that has returned or raised.
Answered(result) == [IdleCancel EXCEPT !.pc = "done", !.result = result]

CancelGet(c) ==
  /\ cancels[c].pc = "get"
  /\ \E w \in Workflows :
       LET state == states[w].state
       IN BecomesCancel(c,
            IF states[w] = NoRow THEN Answered("NOT_FOUND")
            ELSE IF state.status \in TERMINAL_STATUSES THEN Answered("ALREADY_TERMINAL")
            ELSE IF CheckpointCheck(state) # "ok" THEN Answered("RAISED")
            ELSE [cancels[c] EXCEPT !.pc = "revision", !.w = w, !.state = state])
  /\ UNCHANGED <<states, keys, leases, now, att>>

CancelRevision(c) ==
  /\ cancels[c].pc = "revision"
  /\ BecomesCancel(c, [cancels[c] EXCEPT !.pc = "update",
                                         !.revision = states[cancels[c].w].revision])
  /\ UNCHANGED <<states, keys, leases, now, att>>

\* The update carries no owner and no token.
CancelWrite(c) ==
  LET r == cancels[c]
      next == MarkCancelled(r.state)
      result == UpdateResult(r.w, r.state.status, next, r.revision, NoFence)
  IN /\ r.pc = "update"
     /\ Update(r.w, r.state.status, next, r.revision, NoFence)
     /\ BecomesCancel(c, Answered(IF result = "ok" THEN "CANCELLED" ELSE "RAISED"))
     /\ UNCHANGED <<keys, leases, now, att>>

-----------------------------------------------------------------------------

\* The operator's cleanup, which keeps rows for the retention period.
OperatorCleanup ==
  /\ Cleanup(now - Retention, now - Retention)
  /\ <<states, keys, leases>>' # <<states, keys, leases>>
  /\ UNCHANGED <<now, att, cancels>>

Tick ==
  /\ now < MaxTime
  /\ now' = now + 1
  /\ UNCHANGED <<states, keys, leases, att, cancels>>

AttemptStep(e) ==
  \/ GetIdempotency(e) \/ ReserveKey(e) \/ GetCheckpoint(e) \/ CreateState(e)
  \/ AcquireLease(e) \/ AdvanceRevision(e) \/ AdvanceWrite(e)
  \/ EnterStage(e) \/ ProviderAnswers(e) \/ AdapterAnswers(e) \/ AdapterRetries(e)
  \/ CheckpointWrite(e) \/ MarkRevision(e) \/ MarkWrite(e)
  \/ CommitRevision(e) \/ CommitWrite(e) \/ CompleteKey(e) \/ ReleaseLease(e)

CancelStep(c) == CancelGet(c) \/ CancelRevision(c) \/ CancelWrite(c)

Next ==
  \/ \E e \in Attempts : AttemptStep(e) \/ Crash(e)
  \/ \E c \in Cancels : CancelStep(c)
  \/ OperatorCleanup
  \/ Tick

Spec == Init /\ [][Next]_vars

\* A worker that has started an attempt keeps running it (or crashes): the
\* event loop schedules it, the store answers, wait_for bounds the rest.
FairSpec ==
  Spec /\ \A e \in Attempts : WF_vars(att[e].pc # "get_idempotency" /\ AttemptStep(e))

-----------------------------------------------------------------------------
(* Properties *)

Pc == {"get_idempotency", "reserve", "get_checkpoint", "create", "acquire",
       "advance_revision", "advance", "stage", "provider", "adapter",
       "checkpoint", "mark_revision", "mark", "commit_revision", "commit",
       "complete", "release", "done", "crashed"}

Outcome == {"pending", "SUCCEEDED", "FAILED", "REJECTED", "CLARIFICATION",
            "DUPLICATE", "RAISED"}

Snapshot ==
  [ request : {Request}, status : WorkflowStatus, stage : WorkflowStage \cup {NoStage},
    attempts : 0..MaxAttempts, events : 0..MaxEvents, retry_count : 0..MaxRetries,
    cancelled : BOOLEAN, deadline_at : Nat, compat : {CompatOf[e] : e \in Attempts},
    ir : {"ir", NoIR} ]

Row == [state : Snapshot, revision : Nat \ {0}, updated_at : Nat]

Key ==
  [ request_id : {Request}, workflow_id : Workflows, status : {"reserved", "completed"},
    outcome : Attempts \cup {"none"}, expires_at : Nat ]

Fence == [owner_id : {WorkerOf[e] : e \in Attempts} \cup {"nobody"}, fencing_token : Nat]

Lease ==
  [ owner_id : {WorkerOf[e] : e \in Attempts} \cup {"nobody"}, fencing_token : Nat,
    expires_at : Nat ]

Attempt ==
  [ pc : Pc, w : Workflows \cup {NoId}, state : Snapshot \cup {NoState},
    next : Snapshot \cup {NoState}, revision : Nat, fence : Fence, expires : Nat,
    recovering : BOOLEAN, stage : WorkflowStage \cup {NoStage},
    channel : SUBSET ChannelKey, evidence : SUBSET WorkflowGate,
    tries : 0..MaxRetries, outcome : Outcome ]

Cancel ==
  [ pc : {"get", "revision", "update", "done"}, w : Workflows \cup {NoId},
    state : Snapshot \cup {NoState}, revision : Nat,
    result : {"pending", "CANCELLED", "NOT_FOUND", "ALREADY_TERMINAL", "RAISED"} ]

\* The budgets are part of the type: the attempts, events and resumes of every
\* stored or proposed snapshot, and the tries of a node, stay within
\* WorkflowBudget.
TypeOK ==
  /\ states \in [Workflows -> Row \cup {NoRow}]
  /\ keys \in [Keys -> Key \cup {NoKey}]
  /\ leases \in [Workflows -> Lease]
  /\ now \in Nat
  /\ att \in [Attempts -> Attempt]
  /\ cancels \in [Cancels -> Cancel]

\* The stored statuses, as the abstract state machine sees them.
Lifecycle == INSTANCE WorkflowLifecycle
               WITH status <- [w \in Workflows |-> states[w].state.status]

\* Whatever stale copies attempts and cancellations write from, the stored
\* status only ever moves along the edges of ALLOWED_TRANSITIONS.
StatusFollowsLifecycle == Lifecycle!Spec

\* Between the first write after acquisition and the release of its lease.
InGraph(e) ==
  att[e].pc \in {"stage", "provider", "adapter", "checkpoint", "mark_revision",
                 "mark", "commit_revision", "commit"}

\* The attempt's lease is valid.
Owns(e) == FenceHolds(att[e].w, att[e].fence)

\* As long as its lease is valid and no cancel() has written, an attempt in the
\* graph works on the snapshot that is stored: the lease, and not the
\* compare-and-set (whose revision is read immediately before each write), is
\* what protects the copy in _DurableBinding against other attempts.  cancel()
\* holds no lease, so nothing protects the copy against it: NoLostUpdate.
OwnerHasCurrentState ==
  (\A c \in Cancels : cancels[c].result # "CANCELLED")
    => \A e \in Attempts :
         InGraph(e) /\ Owns(e) => states[att[e].w].state = att[e].state

\* An attempt calls the adapter in this step.
CallsAdapter(e) == att'[e].pc = "adapter" /\ att'[e].tries > att[e].tries

\* An attempt makes its first call of the execute stage in this step.  A retry
\* inside the stage is CallsAdapter too, but not a start.
StartsAdapterWork(e) == CallsAdapter(e) /\ att[e].pc = "stage"

\* Adapter work is started only by the attempt that holds the valid lease
\* (reverify_ownership before the execute stage).  This is not so for the
\* retries that _run_with_retries makes: see AdapterExclusive.
OwnerStartsAdapterWork ==
  [][\A e \in Attempts : StartsAdapterWork(e) => Owns(e)']_vars

\* The adapter is never called by one attempt while another holds the lease.
AdapterExclusive ==
  [][\A e, f \in Attempts :
       e # f /\ CallsAdapter(e) /\ att[e].w = att[f].w => ~Owns(f)']_vars

\* Once a workflow is terminal, or the request's key is completed for it, no
\* attempt starts adapter work on it any more, however early it had read the
\* key and the checkpoint.  An attempt that had started before may still retry,
\* and an expired key lets another workflow serve the request again.
NoNewWorkAfterCompletion ==
  [][\A e \in Attempts :
       StartsAdapterWork(e)
         => /\ ~(keys[Request].status = "completed" /\ keys[Request].workflow_id = att[e].w)
            /\ states[att[e].w].state.status \notin TERMINAL_STATUSES]_vars

\* A completed key vouches for a committed success.
CompletedMeansSucceeded ==
  keys[Request].status = "completed"
    => states[keys[Request].workflow_id].state.status \in {"succeeded", "absent"}

\* Submissions of one request that race each other, each with a workflow id
\* of its own, never start two workflows before the first key can expire.  An
\* expired key is reserved anew, for whatever workflow asks.
OneWorkflowPerRequest ==
  now < KeyTTL =>
    \A v, w \in Workflows : states[v] # NoRow /\ states[w] # NoRow => v = w

\* Every attempt that is started returns, or its worker crashes.
AttemptsEnd ==
  \A e \in Attempts :
    att[e].pc = "reserve" ~> att[e].pc \in {"done", "crashed"}

\* No write is lost: the event log and the attempt counter of a stored
\* workflow only grow.
NoLostUpdate ==
  [][\A w \in Workflows :
       states[w] # NoRow /\ states'[w] # NoRow
         => /\ states'[w].state.events >= states[w].state.events
            /\ states'[w].state.attempts >= states[w].state.attempts]_vars

\* A recorded cancellation stays recorded.
CancellationSticks ==
  [][\A w \in Workflows :
       states[w] # NoRow /\ states'[w] # NoRow /\ states[w].state.cancelled
         => states'[w].state.cancelled]_vars

\* Success is only reported for a workflow that is stored as succeeded.
SuccessIsCommitted ==
  \A e \in Attempts :
    att[e].pc = "done" /\ att[e].outcome = "SUCCEEDED"
      => states[att[e].w].state.status \in {"succeeded", "absent"}

\* An attempt that resumes a checkpoint finds what the stages it skips had
\* produced: no node raises for want of a channel entry.
ResumeHasInputs == \A e \in Attempts : att[e].outcome # "RAISED"
=============================================================================
