------------------------ MODULE DurableRuntimeProofs ------------------------
(***************************************************************************)
(* Proofs about the durable runtime, for any number of attempts, workers,  *)
(* cancellations, crashes and workflows: every behaviour is one of the     *)
(* abstract workflow state machine and keeps the budgets of WorkflowBudget *)
(* (Inv).  An attempt or a cancellation proposes a snapshot whose status   *)
(* its own copy may move to (Placed, PlacedCancel), and the store accepts  *)
(* it only if its copy and the stored row agree on the status.             *)
(***************************************************************************)
EXTENDS DurableRuntime, TLAPS

\* What holds of an attempt at each of its calls, beyond its type.
Placed(a) ==
  /\ a.pc \notin {"get_idempotency", "done", "crashed"} => a.w \in Workflows
  /\ a.pc \notin {"get_idempotency", "reserve", "get_checkpoint", "create", "done",
                  "crashed"} => a.state \in Snapshot
  /\ a.pc \in {"acquire", "advance_revision"} => a.state.retry_count < MaxRetries
  /\ a.pc \in {"advance", "checkpoint", "mark", "commit"} => a.next \in Snapshot
  /\ a.pc \in {"advance", "commit"} => a.next.status \in ALLOWED_TRANSITIONS[a.state.status]
  /\ a.pc \in {"checkpoint", "mark"} => a.next.status = a.state.status
  /\ a.pc = "advance" /\ a.next.status = "queued" => a.next.retry_count < MaxRetries
  /\ a.pc \in {"stage", "provider", "adapter", "checkpoint"} => a.stage \in WorkflowStage
  /\ a.pc \in {"get_idempotency", "reserve", "get_checkpoint", "create", "acquire",
               "advance_revision", "advance", "stage", "provider", "checkpoint"}
       => a.tries = 0

PlacedCancel(r) ==
  r.pc \in {"revision", "update"} =>
    /\ r.w \in Workflows
    /\ r.state \in Snapshot
    /\ CheckpointCheck(r.state) = "ok"

\* The inductive invariant.
Inv ==
  /\ TypeOK
  /\ \A e \in Attempts : Placed(att[e])
  /\ \A c \in Cancels : PlacedCancel(cancels[c])

\* An attempt in good order.
Good(a) == a \in Attempt /\ Placed(a)

-----------------------------------------------------------------------------
(* The operators on snapshots *)

\* transition() within its budgets yields a snapshot with the target status.
LEMMA TransitionTyped ==
  ASSUME NEW s \in Snapshot, NEW t \in WorkflowStatus, NEW r \in 0..MaxRetries,
         TransitionCheck(s, t) = "ok"
  PROVE  /\ Transition(s, t, r) \in Snapshot
         /\ Transition(s, t, r).status = t
         /\ Transition(s, t, r).retry_count = r
         /\ t \in ALLOWED_TRANSITIONS[s.status]
<1> DEFINE n == IF t = "running" THEN s.attempts + 1 ELSE s.attempts
<1>1. n \in 0..MaxAttempts
  BY BudgetAssumption DEF TransitionCheck, Snapshot
<1>2. s.events + 1 \in 0..MaxEvents
  BY BudgetAssumption DEF TransitionCheck, Snapshot
<1>3. t \in ALLOWED_TRANSITIONS[s.status]
  BY Zenon DEF TransitionCheck
<1>4. Transition(s, t, r) =
        [s EXCEPT !.status = t, !.attempts = n, !.events = s.events + 1, !.retry_count = r]
  BY Zenon DEF Transition, Snapshot
<1> HIDE DEF n
<1> QED  BY <1>1, <1>2, <1>3, <1>4, ZenonT(30) DEF Snapshot

\* checkpoint() within its budget yields a snapshot and keeps the status.
LEMMA CheckpointTyped ==
  ASSUME NEW s \in Snapshot, NEW g \in WorkflowStage, NEW i \in {"ir", NoIR},
         CheckpointCheck(s) = "ok"
  PROVE  /\ Checkpoint(s, g, i) \in Snapshot
         /\ Checkpoint(s, g, i).status = s.status
<1> DEFINE j == IF i = NoIR THEN s.ir ELSE i
<1>1. j \in {"ir", NoIR}
  BY Zenon DEF Snapshot
<1>2. s.events + 1 \in 0..MaxEvents
  BY BudgetAssumption DEF CheckpointCheck, Snapshot
<1>3. Checkpoint(s, g, i) = [s EXCEPT !.stage = g, !.events = s.events + 1, !.ir = j]
  BY Zenon DEF Checkpoint, Snapshot
<1> HIDE DEF j
<1> QED  BY <1>1, <1>2, <1>3, ZenonT(30) DEF Snapshot

\* mark_cancelled() within the event budget yields a snapshot and keeps the status.
LEMMA MarkTyped ==
  ASSUME NEW s \in Snapshot, CheckpointCheck(s) = "ok"
  PROVE  /\ MarkCancelled(s) \in Snapshot
         /\ MarkCancelled(s).status = s.status
<1> DEFINE g == IF s.stage = NoStage THEN "initialize" ELSE s.stage
<1>1. g \in WorkflowStage
  BY Zenon DEF Snapshot, WorkflowStage
<1>2. s.events + 1 \in 0..MaxEvents
  BY BudgetAssumption DEF CheckpointCheck, Snapshot
<1>3. MarkCancelled(s) = [s EXCEPT !.stage = g, !.events = s.events + 1, !.cancelled = TRUE]
  BY Zenon DEF MarkCancelled, Snapshot
<1> HIDE DEF g
<1> QED  BY <1>1, <1>2, <1>3, ZenonT(30) DEF Snapshot

\* The snapshot of a new request is well formed and may still be resumed.
LEMMA NewStateTyped ==
  ASSUME NEW e \in Attempts, NEW d \in Nat
  PROVE  /\ NewState(Request, CompatOf[e], d) \in Snapshot
         /\ NewState(Request, CompatOf[e], d).status = "created"
         /\ NewState(Request, CompatOf[e], d).retry_count < MaxRetries
  BY BudgetAssumption DEF NewState, Snapshot, WorkflowStatus, NoStage, NoIR

\* Every branch of the graph has one of five public results.
LEMMA PublicStatusTyped ==
  ASSUME NEW b
  PROVE  PublicStatus(b) \in {"SUCCEEDED", "FAILED", "REJECTED", "CLARIFICATION", "RAISED"}
  BY Zenon DEF PublicStatus

-----------------------------------------------------------------------------
(* The records an attempt turns into *)

\* An attempt that has not started is in good order.
LEMMA IdleGood == Good(Idle)
<1>1. NoFence \in Fence
  BY Zenon DEF NoFence, Fence
<1>2. 0 \in 0..MaxRetries
  BY BudgetAssumption
<1>3. Idle \in Attempt
  BY <1>1, <1>2, Zenon DEF Attempt, Idle, Pc, Outcome, NoVersion
<1>4. Placed(Idle)
  BY Zenon DEF Placed, Idle
<1> QED  BY <1>3, <1>4, Zenon DEF Good

\* So is one that has returned,
LEMMA ReturnedGood ==
  ASSUME NEW a \in Attempt, NEW o \in Outcome
  PROVE  Good(Returned(a, o))
<1>1. Idle \in Attempt
  BY IdleGood, Zenon DEF Good
<1>2. Returned(a, o) \in Attempt /\ Returned(a, o).pc = "done"
  BY <1>1, ZenonT(30) DEF Returned, Attempt, Pc
<1> QED  BY <1>2, Zenon DEF Good, Placed

\* one that is about to release its lease,
LEMMA LeavingGood ==
  ASSUME NEW a, Good(a), a.w \in Workflows, a.state \in Snapshot, NEW o \in Outcome
  PROVE  Good(Leaving(a, o))
<1>1. Leaving(a, o) \in Attempt
  BY Zenon DEF Good, Attempt, Leaving, Pc, NoVersion
<1>2. /\ Leaving(a, o).pc = "release"
      /\ Leaving(a, o).w = a.w
      /\ Leaving(a, o).state = a.state
  BY Zenon DEF Good, Attempt, Leaving
<1> QED  BY <1>1, <1>2, Zenon DEF Good, Placed

\* and one whose graph execution has ended in any branch.
LEMMA EndedGood ==
  ASSUME NEW a, Good(a), a.w \in Workflows, a.state \in Snapshot, NEW b
  PROVE  Good(Ended(a, b))
<1> DEFINE o == PublicStatus(b)
<1>1. o \in Outcome
  BY PublicStatusTyped, Zenon DEF Outcome
<1> HIDE DEF o
<1>2. a \in Attempt
  BY Zenon DEF Good
<1>3. ASSUME NEW p \in {"mark_revision", "commit_revision", "release"}
      PROVE  Good([Leaving(a, o) EXCEPT !.pc = p])
  BY <1>1, <1>2, <1>3, ZenonT(30) DEF Good, Attempt, Placed, Leaving, Pc, NoVersion
<1>4. \E p \in {"mark_revision", "commit_revision", "release"} :
         Ended(a, b) = [Leaving(a, o) EXCEPT !.pc = p]
  BY Zenon DEF Ended, o
<1> QED  BY <1>3, <1>4, Zenon

\* The revision get_revision returns for a workflow.
LEMMA RevisionTyped ==
  ASSUME TypeOK, NEW w \in Workflows
  PROVE  states[w].revision \in Nat
  BY DEF TypeOK, Row, NoRow

\* An attempt that is inside a stage.
InStage(a) ==
  Good(a) /\ a.w \in Workflows /\ a.state \in Snapshot /\ a.stage \in WorkflowStage

\* The tables of the stage graph stay within stages, channel keys and gates.
LEMMA StageTables ==
  ASSUME NEW g \in WorkflowStage
  PROVE  /\ NextStage[g] \in WorkflowStage \cup {NoStage}
         /\ NODES[g].writes \subseteq ChannelKey
         /\ NODES[g].gates \subseteq WorkflowGate
  BY DEF WorkflowStage, NextStage, NoStage, ChannelKey, WorkflowGate, NODES, Node, InitializeNode, MemoryNode, IntentNode, PlanNode,
         ValidateNode, CompileNode, GuardNode, GovernNode, AuthorizeNode, ExecuteStageNode,
         ProtectNode, PersistNode, CompleteNode

\* A node's success prepares a checkpoint within the budget.
LEMMA RecordedGood ==
  ASSUME TypeOK, NEW a, InStage(a)
  PROVE  Good(Recorded(a))
<1> USE DEF InStage
<1>1. CASE CheckpointCheck(a.state) # "ok"
  BY <1>1, EndedGood, Zenon DEF Recorded
<1>2. CASE CheckpointCheck(a.state) = "ok"
  <2> DEFINE channel == a.channel \cup NODES[a.stage].writes
             evidence == a.evidence \cup NODES[a.stage].gates
             g == IF NextStage[a.stage] = NoStage THEN a.stage ELSE NextStage[a.stage]
             i == IF "ir" \in channel THEN "ir" ELSE NoIR
             n == Checkpoint(a.state, g, i)
             v == states[a.w].revision
  <2>1. g \in WorkflowStage /\ i \in {"ir", NoIR}
    BY StageTables, Zenon
  <2>2. n \in Snapshot /\ n.status = a.state.status
    BY <1>2, <2>1, CheckpointTyped, Zenon
  <2>3. v \in Nat
    BY RevisionTyped, Zenon
  <2>4. channel \subseteq ChannelKey /\ evidence \subseteq WorkflowGate
    BY StageTables, Zenon DEF Good, Attempt
  <2>5. 0 \in 0..MaxRetries
    BY BudgetAssumption
  <2>6. Recorded(a) = [a EXCEPT !.pc = "checkpoint", !.channel = channel,
                                !.evidence = evidence, !.next = n, !.revision = v,
                                !.tries = 0]
    BY <1>2, Zenon DEF Recorded, Good, Attempt
  <2> HIDE DEF channel, evidence, g, i, n, v
  <2>7. Recorded(a) \in Attempt
    <3>1. a \in Attempt /\ "checkpoint" \in Pc
      BY Zenon DEF Good, Pc
    <3>2. channel \in SUBSET ChannelKey /\ evidence \in SUBSET WorkflowGate
      BY <2>4, Zenon
    <3> QED  BY <2>2, <2>3, <2>5, <2>6, <3>1, <3>2, ZenonT(30) DEF Attempt
  <2>8. LET r == Recorded(a)
        IN /\ r.pc = "checkpoint" /\ r.w = a.w /\ r.state = a.state
           /\ r.next = n /\ r.stage = a.stage /\ r.tries = 0
    BY <2>6, Zenon DEF Good, Attempt
  <2> QED  BY <2>2, <2>7, <2>8, Zenon DEF Good, Placed
<1> QED  BY <1>1, <1>2, Zenon

\* Whatever node.run answers, the attempt is in good order.
LEMMA NodeResultsGood ==
  ASSUME TypeOK, NEW a, InStage(a), NEW r \in NodeResults(a)
  PROVE  Good(r)
  BY RecordedGood, EndedGood, Zenon DEF NodeResults, InStage

\* The execute node starts no try beyond the retry budget.
LEMMA CallsGood ==
  ASSUME NEW a, InStage(a), a.tries < MaxRetries, NEW r \in Calls(a)
  PROVE  Good(r)
<1> DEFINE c == [a EXCEPT !.pc = "adapter", !.tries = a.tries + 1]
<1>1. c \in Attempt
  <2>1. a.tries + 1 \in 0..MaxRetries
    BY BudgetAssumption DEF InStage, Good, Attempt
  <2> QED  BY <2>1, Zenon DEF InStage, Good, Attempt, Pc
<1>2. c.pc = "adapter" /\ c.w = a.w /\ c.state = a.state /\ c.stage = a.stage
  BY Zenon DEF InStage, Good, Attempt
<1>3. Good(c)
  BY <1>1, <1>2, Zenon DEF Good, Placed, InStage
<1>4. r = c \/ \E b \in {"raised", "rejected"} : r = Ended(a, b)
  BY Zenon DEF Calls, InStage, Good, Attempt
<1> QED  BY <1>3, <1>4, EndedGood, Zenon DEF InStage

\* The same for the first call of any stage.
LEMMA FirstCallGood ==
  ASSUME TypeOK, NEW a, InStage(a), a.pc = "stage", NEW r \in FirstCall(a)
  PROVE  Good(r)
<1>1. a.tries = 0
  BY Zenon DEF InStage, Good, Placed
<1>2. CASE a.stage = "intent"
  <2>1. r = [a EXCEPT !.pc = "provider"]
    BY <1>2, Zenon DEF FirstCall
  <2>2. r \in Attempt
    BY <2>1, Zenon DEF InStage, Good, Attempt, Pc
  <2>3. r.pc = "provider" /\ r.w = a.w /\ r.state = a.state /\ r.stage = a.stage /\ r.tries = 0
    BY <1>1, <2>1, Zenon DEF InStage, Good, Attempt
  <2> QED  BY <2>2, <2>3, Zenon DEF Good, Placed, InStage
<1>3. CASE a.stage = "execute"
  BY <1>1, <1>3, CallsGood, BudgetAssumption DEF FirstCall
<1>4. CASE a.stage \notin {"intent", "execute"}
  BY <1>4, NodeResultsGood, Zenon DEF FirstCall
<1> QED  BY <1>2, <1>3, <1>4, Zenon

\* The attempt's copy is the snapshot it has just written.
LEMMA PersistedTyped ==
  ASSUME NEW a \in Attempt, a.next \in Snapshot
  PROVE  /\ Persisted(a) \in Attempt
         /\ Persisted(a).state = a.next
         /\ Persisted(a).pc = a.pc
         /\ Persisted(a).w = a.w
         /\ Persisted(a).stage = a.stage
         /\ Persisted(a).tries = a.tries
  BY Zenon DEF Attempt, Persisted, NoVersion

-----------------------------------------------------------------------------
(* Attempts stay in good order, one step per action *)

\* What the invariant says of one attempt.
LEMMA InvAttempt ==
  ASSUME Inv, NEW e \in Attempts
  PROVE  Good(att[e]) /\ TypeOK
  BY Zenon DEF Inv, Good, TypeOK

\* An attempt that only moves to another call.
LEMMA MovesTyped ==
  ASSUME NEW a \in Attempt, NEW p \in Pc
  PROVE  LET r == [a EXCEPT !.pc = p]
         IN /\ r \in Attempt /\ r.pc = p /\ r.w = a.w /\ r.state = a.state
            /\ r.next = a.next /\ r.stage = a.stage /\ r.tries = a.tries
  BY Zenon DEF Attempt

\* The steps of an attempt, one lemma each: each leaves it in good order.
LEMMA GetIdempotencyGood ==
  ASSUME Inv, NEW e \in Attempts, GetIdempotency(e)
  PROVE  \E r : Good(r) /\ Becomes(e, r)
<1> DEFINE a == att[e]
           w == IF keys[Request] = NoKey THEN RequestedId[e] ELSE keys[Request].workflow_id
           r == [a EXCEPT !.pc = "reserve", !.w = w]
<1>1. w \in Workflows
  BY AttemptAssumption, Zenon DEF Inv, TypeOK, Key
<1>2. a \in Attempt /\ a.tries = 0
  BY InvAttempt, Zenon DEF Good, Placed, GetIdempotency
<1>3. Becomes(e, r)
  BY Zenon DEF GetIdempotency
<1> HIDE DEF w
<1>4. r \in Attempt /\ r.pc = "reserve" /\ r.w = w /\ r.tries = 0
  BY <1>1, <1>2, Zenon DEF Attempt, Pc
<1> QED  BY <1>1, <1>3, <1>4, Zenon DEF Good, Placed

\* reserve_idempotency.
LEMMA ReserveKeyGood ==
  ASSUME Inv, NEW e \in Attempts, ReserveKey(e)
  PROVE  \E r : Good(r) /\ Becomes(e, r)
<1> DEFINE a == att[e]
           r == [a EXCEPT !.pc = "get_checkpoint"]
<1>1. a \in Attempt /\ a.w \in Workflows /\ a.tries = 0
  BY InvAttempt, Zenon DEF Good, Placed, ReserveKey
<1>2. "get_checkpoint" \in Pc
  BY Zenon DEF Pc
<1>3. Good(r)
  BY <1>1, <1>2, MovesTyped DEF Good, Placed
<1>4. \A o \in Outcome : Good(Returned(a, o))
  BY <1>1, ReturnedGood, Zenon
<1>5. \E q \in {Returned(a, "REJECTED"), Returned(a, "DUPLICATE"), r} : Becomes(e, q)
  BY Zenon DEF ReserveKey
<1> QED  BY <1>3, <1>4, <1>5, Zenon DEF Outcome

\* get_checkpoint: _validate_resume lets no workflow with spent retries pass.
LEMMA GetCheckpointGood ==
  ASSUME Inv, NEW e \in Attempts, GetCheckpoint(e)
  PROVE  \E r : Good(r) /\ Becomes(e, r)
<1> DEFINE a == att[e]
           row == states[a.w]
           resume == ValidateResume(row.state, CompatOf[e])
           fresh == [a EXCEPT !.pc = "create"]
           found == [a EXCEPT !.pc = "acquire", !.state = row.state]
<1>1. a \in Attempt /\ a.w \in Workflows /\ a.tries = 0
  BY InvAttempt, Zenon DEF Good, Placed, GetCheckpoint
<1>2. \A o \in Outcome : Good(Returned(a, o))
  BY <1>1, ReturnedGood, Zenon
<1>3. PublicStatus(resume) \in Outcome
  BY PublicStatusTyped, Zenon DEF Outcome
<1>4. "create" \in Pc /\ "acquire" \in Pc
  BY Zenon DEF Pc
<1>5. Good(fresh)
  BY <1>1, <1>4, MovesTyped DEF Good, Placed
<1>6. ASSUME row # NoRow, resume = "ok"
      PROVE  Good(found)
  <2>1. row.state \in Snapshot
    BY <1>1, <1>6, Zenon DEF Inv, TypeOK, Row
  <2>2. row.state.retry_count < MaxRetries
    <3>1. ~(row.state.retry_count >= MaxRetries)
      BY <1>6, Zenon DEF ValidateResume
    <3> QED  BY <2>1, <3>1, BudgetAssumption DEF Snapshot
  <2>3. found \in Attempt
    BY <1>1, <1>4, <2>1, Zenon DEF Attempt
  <2>4. found.pc = "acquire" /\ found.w = a.w /\ found.state = row.state /\ found.tries = 0
    BY <1>1, Zenon DEF Attempt
  <2> QED  BY <1>1, <2>1, <2>2, <2>3, <2>4, Zenon DEF Good, Placed
<1>7. \/ Becomes(e, fresh)
      \/ Becomes(e, Returned(a, "DUPLICATE"))
      \/ row # NoRow /\ resume = "ok" /\ Becomes(e, found)
      \/ Becomes(e, Returned(a, PublicStatus(resume)))
  BY Zenon DEF GetCheckpoint
<1> QED  BY <1>2, <1>3, <1>5, <1>6, <1>7, Zenon DEF Outcome

\* store.create.
LEMMA CreateStateGood ==
  ASSUME Inv, NEW e \in Attempts, CreateState(e)
  PROVE  \E r : Good(r) /\ Becomes(e, r)
<1> DEFINE a == att[e]
           created == NewState(Request, CompatOf[e], now + Duration)
           r == [a EXCEPT !.pc = "acquire", !.state = created]
<1>1. a \in Attempt /\ a.w \in Workflows /\ a.tries = 0
  BY InvAttempt, Zenon DEF Good, Placed, CreateState
<1>2. created \in Snapshot /\ created.retry_count < MaxRetries
  BY AttemptAssumption, NewStateTyped DEF Inv, TypeOK
<1>3. Good(Returned(a, "FAILED"))
  BY <1>1, ReturnedGood, Zenon DEF Outcome
<1>4. Becomes(e, r) \/ Becomes(e, Returned(a, "FAILED"))
  BY Zenon DEF CreateState
<1> HIDE DEF created
<1>5. r \in Attempt /\ r.pc = "acquire" /\ r.w = a.w /\ r.state = created /\ r.tries = 0
  BY <1>1, <1>2, ZenonT(30) DEF Attempt, Pc
<1> QED  BY <1>1, <1>2, <1>3, <1>4, <1>5, Zenon DEF Good, Placed

\* acquire_lease.
LEMMA AcquireLeaseGood ==
  ASSUME Inv, NEW e \in Attempts, AcquireLease(e)
  PROVE  \E r : Good(r) /\ Becomes(e, r)
<1> DEFINE a == att[e]
           fence == [owner_id |-> WorkerOf[e], fencing_token |-> leases'[a.w].fencing_token]
           recovering == a.state.status = "running"
           expires == now + LeaseTTL
           r == [a EXCEPT !.pc = "advance_revision", !.fence = fence, !.expires = expires,
                          !.recovering = recovering]
<1>1. /\ a \in Attempt /\ a.w \in Workflows /\ a.tries = 0
      /\ a.state \in Snapshot /\ a.state.retry_count < MaxRetries
  BY InvAttempt, Zenon DEF Good, Placed, AcquireLease
<1>2. Good(Returned(a, PublicStatus("busy")))
  BY <1>1, ReturnedGood, PublicStatusTyped, Zenon DEF Outcome
<1>3. \/ AcquireResult(a.w) = "ok" /\ Becomes(e, r)
      \/ Becomes(e, Returned(a, PublicStatus("busy")))
  BY Zenon DEF AcquireLease
<1>4. ASSUME AcquireResult(a.w) = "ok"
      PROVE  fence \in Fence
  <2>1. leases \in [Workflows -> Lease]
    BY Zenon DEF Inv, TypeOK
  <2>2. leases' = [leases EXCEPT ![a.w] = [owner_id |-> WorkerOf[e],
                     fencing_token |-> leases[a.w].fencing_token + 1,
                     expires_at |-> now + LeaseTTL]]
    BY <1>4, Zenon DEF AcquireLease, Acquire
  <2>3. leases'[a.w].fencing_token \in Nat
    BY <1>1, <2>1, <2>2 DEF Lease
  <2> QED  BY <2>3, Zenon DEF Fence
<1>5. expires \in Nat /\ recovering \in BOOLEAN /\ "advance_revision" \in Pc
  BY AttemptAssumption DEF Inv, TypeOK, Pc
<1> HIDE DEF fence, recovering, expires
<1>6. ASSUME fence \in Fence
      PROVE  r \in Attempt
  BY <1>1, <1>5, <1>6, Zenon DEF Attempt
<1>7. r.pc = "advance_revision" /\ r.w = a.w /\ r.state = a.state /\ r.tries = 0
  BY <1>1, Zenon DEF Attempt
<1> QED  BY <1>1, <1>2, <1>3, <1>4, <1>6, <1>7, Zenon DEF Good, Placed

\* _step prepares a legal transition.
LEMMA AdvanceRevisionGood ==
  ASSUME Inv, NEW e \in Attempts, AdvanceRevision(e)
  PROVE  \E r : Good(r) /\ Becomes(e, r)
<1> DEFINE a == att[e]
           target == IF a.state.status = "queued" THEN "running" ELSE "queued"
           retry == IF target = "running" /\ a.recovering
                      THEN a.state.retry_count + 1 ELSE a.state.retry_count
           n == Transition(a.state, target, retry)
           v == states[a.w].revision
           r == [a EXCEPT !.pc = "advance", !.next = n, !.revision = v]
<1>1. /\ Good(a) /\ a \in Attempt /\ a.w \in Workflows /\ a.tries = 0
      /\ a.state \in Snapshot /\ a.state.retry_count < MaxRetries
  BY InvAttempt, Zenon DEF Good, Placed, AdvanceRevision
<1>2. Good(Leaving(a, "FAILED"))
  BY <1>1, LeavingGood, Zenon DEF Outcome
<1>3. \/ TransitionCheck(a.state, target) = "ok" /\ Becomes(e, r)
      \/ Becomes(e, Leaving(a, "FAILED"))
  BY Zenon DEF AdvanceRevision
<1>4. target \in WorkflowStatus /\ retry \in 0..MaxRetries
  BY <1>1, BudgetAssumption DEF WorkflowStatus, Snapshot
<1>5. target = "queued" => retry < MaxRetries
  BY <1>1, Zenon
<1>6. v \in Nat
  BY <1>1, RevisionTyped, Zenon DEF Inv
<1>7. ASSUME TransitionCheck(a.state, target) = "ok"
      PROVE  /\ n \in Snapshot /\ n.status = target /\ n.retry_count = retry
             /\ target \in ALLOWED_TRANSITIONS[a.state.status]
  <2> HIDE DEF target, retry
  <2> QED  BY <1>1, <1>4, <1>7, TransitionTyped
<1> HIDE DEF target, retry, n, v
<1>8. ASSUME n \in Snapshot
      PROVE  /\ r \in Attempt /\ r.pc = "advance" /\ r.w = a.w /\ r.state = a.state
             /\ r.next = n /\ r.tries = 0
  BY <1>1, <1>6, <1>8, ZenonT(30) DEF Attempt, Pc
<1>9. ASSUME TransitionCheck(a.state, target) = "ok"
      PROVE  Good(r)
  BY <1>1, <1>5, <1>7, <1>8, <1>9, Zenon DEF Good, Placed
<1> QED  BY <1>2, <1>3, <1>9, Zenon

\* _step writes it, and the graph starts once RUNNING.
LEMMA AdvanceWriteGood ==
  ASSUME Inv, NEW e \in Attempts, AdvanceWrite(e)
  PROVE  \E r : Good(r) /\ Becomes(e, r)
<1> DEFINE a == att[e]
           result == UpdateResult(a.w, a.state.status, a.next, a.revision, a.fence)
           o == PublicStatus(ErrorBranch(result))
           b == Persisted(a)
           again == [b EXCEPT !.pc = "advance_revision"]
           g == IF a.state.stage = NoStage THEN "initialize" ELSE a.state.stage
           starts == [b EXCEPT !.pc = "stage", !.stage = g, !.channel = BaseChannel,
                               !.evidence = BaseEvidence]
<1>1. /\ Good(a) /\ a \in Attempt /\ a.w \in Workflows /\ a.tries = 0
      /\ a.state \in Snapshot /\ a.next \in Snapshot
      /\ a.next.status = "queued" => a.next.retry_count < MaxRetries
  BY InvAttempt, Zenon DEF Good, Placed, AdvanceWrite
<1>2. Good(Leaving(a, o))
  BY <1>1, LeavingGood, PublicStatusTyped, Zenon DEF Outcome
<1>3. \/ Becomes(e, Leaving(a, o))
      \/ a.next.status = "queued" /\ Becomes(e, again)
      \/ Becomes(e, starts)
  BY Zenon DEF AdvanceWrite
<1>4. b \in Attempt /\ b.state = a.next /\ b.w = a.w /\ b.tries = 0
  BY <1>1, PersistedTyped, Zenon
<1>5. g \in WorkflowStage
  BY <1>1, Zenon DEF Snapshot, WorkflowStage
<1>6. BaseChannel \in SUBSET ChannelKey /\ BaseEvidence \in SUBSET WorkflowGate
  BY Zenon DEF BaseChannel, ChannelKey, BaseEvidence, WorkflowGate
<1> HIDE DEF b, g
<1>7. /\ again \in Attempt /\ again.pc = "advance_revision" /\ again.w = a.w
      /\ again.state = a.next /\ again.tries = 0
  BY <1>1, <1>4 DEF Attempt, Pc
<1>8. starts \in Attempt
  <2>1. "stage" \in Pc
    BY Zenon DEF Pc
  <2> QED  BY <1>4, <1>5, <1>6, <2>1, Zenon DEF Attempt
<1>9. /\ starts.pc = "stage" /\ starts.w = a.w /\ starts.state = a.next
      /\ starts.stage = g /\ starts.tries = 0
  BY <1>4, Zenon DEF Attempt
<1>10. a.next.status = "queued" => Good(again)
  BY <1>1, <1>7, Zenon DEF Good, Placed
<1>11. Good(starts)
  BY <1>1, <1>5, <1>8, <1>9, Zenon DEF Good, Placed
<1> QED  BY <1>2, <1>3, <1>10, <1>11, Zenon

\* _run_stage up to the first call of the node.
LEMMA EnterStageGood ==
  ASSUME Inv, NEW e \in Attempts, EnterStage(e)
  PROVE  \E r : Good(r) /\ Becomes(e, r)
<1> DEFINE a == att[e]
           entry == StageEntry(a.stage, a.evidence, a.state.deadline_at,
                               e \in CancelledAtStart, now)
           longer == [a EXCEPT !.expires = now + LeaseTTL]
           renewed == IF RenewalDue(a) THEN longer ELSE a
<1>1. /\ TypeOK /\ Good(a) /\ a \in Attempt /\ a.pc = "stage" /\ a.w \in Workflows
      /\ a.state \in Snapshot /\ a.stage \in WorkflowStage /\ a.tries = 0
  BY InvAttempt, Zenon DEF Good, Placed, EnterStage
<1>2. \A br : Good(Ended(a, br))
  BY <1>1, EndedGood, Zenon
<1>3. \/ Becomes(e, Ended(a, entry))
      \/ Becomes(e, Ended(a, "fenced"))
      \/ \E r \in FirstCall(renewed) : Becomes(e, r)
  BY Zenon DEF EnterStage
<1>4. /\ longer \in Attempt /\ longer.pc = "stage" /\ longer.w = a.w
      /\ longer.state = a.state /\ longer.stage = a.stage /\ longer.tries = 0
  <2>1. now + LeaseTTL \in Nat
    BY <1>1, AttemptAssumption DEF TypeOK
  <2> QED  BY <1>1, <2>1, Zenon DEF Attempt
<1>5. InStage(longer) /\ InStage(a)
  BY <1>1, <1>4, Zenon DEF InStage, Good, Placed
<1>6. InStage(renewed) /\ renewed.pc = "stage"
  BY <1>1, <1>4, <1>5, Zenon
<1> HIDE DEF renewed
<1>7. \A r \in FirstCall(renewed) : Good(r)
  BY <1>1, <1>6, FirstCallGood, Zenon
<1> QED  BY <1>2, <1>3, <1>7, Zenon

\* The provider or the adapter answers, or the node is retried.
LEMMA AnswersGood ==
  ASSUME Inv, NEW e \in Attempts,
         ProviderAnswers(e) \/ AdapterAnswers(e) \/ AdapterRetries(e)
  PROVE  \E r : Good(r) /\ Becomes(e, r)
<1> DEFINE a == att[e]
           entry == StageEntry(a.stage, a.evidence, a.state.deadline_at,
                               e \in CancelledAtStart, now)
<1>1. TypeOK /\ InStage(a) /\ a \in Attempt
  BY InvAttempt, Zenon DEF InStage, Good, Placed, ProviderAnswers, AdapterAnswers, AdapterRetries
<1>2. \A br : Good(Ended(a, br))
  BY <1>1, EndedGood, Zenon DEF InStage
<1>3. CASE ProviderAnswers(e)
  BY <1>1, <1>2, <1>3, NodeResultsGood, Zenon DEF ProviderAnswers
<1>4. CASE AdapterAnswers(e)
  BY <1>1, <1>2, <1>4, RecordedGood, Zenon DEF AdapterAnswers
<1>5. CASE AdapterRetries(e)
  <2>1. CASE ~(a.tries >= MaxRetries) /\ \E r \in Calls(a) : Becomes(e, r)
    <3>1. a.tries < MaxRetries
      BY <1>1, <2>1, BudgetAssumption DEF Attempt
    <3> QED  BY <1>1, <2>1, <3>1, CallsGood, Zenon
  <2>2. CASE \E br \in {"retry_exhausted", entry} : Becomes(e, Ended(a, br))
    BY <1>2, <2>2, Zenon
  <2> QED  BY <1>5, <2>1, <2>2, Zenon DEF AdapterRetries
<1> QED  BY <1>3, <1>4, <1>5, Zenon

\* The write of a checkpoint.
LEMMA CheckpointWriteGood ==
  ASSUME Inv, NEW e \in Attempts, CheckpointWrite(e)
  PROVE  \E r : Good(r) /\ Becomes(e, r)
<1> DEFINE a == att[e]
           result == UpdateResult(a.w, a.state.status, a.next, a.revision, a.fence)
           br == ErrorBranch(result)
           b == Persisted(a)
           g == NextStage[a.stage]
           on == [b EXCEPT !.pc = "stage", !.stage = g]
<1>1. /\ Good(a) /\ a \in Attempt /\ a.w \in Workflows /\ a.state \in Snapshot
      /\ a.next \in Snapshot /\ a.stage \in WorkflowStage /\ a.tries = 0
      /\ a.pc = "checkpoint" /\ a.next.status = a.state.status
  BY InvAttempt, Zenon DEF Good, Placed, CheckpointWrite
<1>2. \/ Becomes(e, Ended(a, br))
      \/ Becomes(e, Ended(b, "succeeded"))
      \/ g # NoStage /\ Becomes(e, on)
  BY Zenon DEF CheckpointWrite
<1>3. Good(Ended(a, br))
  BY <1>1, EndedGood, Zenon
<1>4. g \in WorkflowStage \cup {NoStage}
  BY <1>1, StageTables, Zenon
<1>5. /\ b \in Attempt /\ b.state = a.next /\ b.w = a.w /\ b.tries = 0
      /\ b.pc = "checkpoint"
  BY <1>1, PersistedTyped, Zenon
<1> HIDE DEF b, g, br
<1>6. ASSUME g # NoStage
      PROVE  Good(on)
  <2>1. "stage" \in Pc /\ g \in WorkflowStage
    BY <1>4, <1>6, Zenon DEF Pc
  <2>2. on \in Attempt
    BY <1>5, <2>1, Zenon DEF Attempt
  <2>3. on.pc = "stage" /\ on.w = a.w /\ on.state = a.next /\ on.stage = g /\ on.tries = 0
    BY <1>5, Zenon DEF Attempt
  <2> QED  BY <1>1, <2>1, <2>2, <2>3, Zenon DEF Good, Placed
<1>7. Good(Ended(b, "succeeded"))
  <2> DEFINE c == [b EXCEPT !.pc = "release"]
  <2>1. /\ c \in Attempt /\ c.pc = "release" /\ c.w = a.w /\ c.state = a.next
    BY <1>5 DEF Attempt, Pc
  <2>2. Good(c)
    BY <1>1, <2>1, Zenon DEF Good, Placed
  <2>3. Good(Ended(c, "succeeded"))
    BY <1>1, <2>1, <2>2, EndedGood, Zenon
  <2>4. \A o : Leaving(c, o) = Leaving(b, o)
    BY <1>5, Zenon DEF Leaving, Attempt
  <2>5. Ended(c, "succeeded") = Ended(b, "succeeded")
    BY <2>4, Zenon DEF Ended
  <2> QED  BY <2>3, <2>5, Zenon
<1> QED  BY <1>2, <1>3, <1>6, <1>7, Zenon

\* mark_cancelled of the binding.
LEMMA MarkRevisionGood ==
  ASSUME Inv, NEW e \in Attempts, MarkRevision(e)
  PROVE  \E r : Good(r) /\ Becomes(e, r)
<1> DEFINE a == att[e]
           n == MarkCancelled(a.state)
           v == states[a.w].revision
           r == [a EXCEPT !.pc = "mark", !.next = n, !.revision = v]
<1>1. Good(a) /\ a \in Attempt /\ a.w \in Workflows /\ a.state \in Snapshot
  BY InvAttempt, Zenon DEF Good, Placed, MarkRevision
<1>2. a.outcome \in Outcome
  BY <1>1, Zenon DEF Attempt
<1>3. Good(Leaving(a, a.outcome))
  BY <1>1, <1>2, LeavingGood, Zenon
<1>4. \/ CheckpointCheck(a.state) = "ok" /\ Becomes(e, r)
      \/ Becomes(e, Leaving(a, a.outcome))
  BY Zenon DEF MarkRevision
<1>5. v \in Nat
  BY <1>1, RevisionTyped, Zenon DEF Inv
<1>6. CheckpointCheck(a.state) = "ok" => n \in Snapshot /\ n.status = a.state.status
  BY <1>1, MarkTyped, Zenon
<1> HIDE DEF n, v
<1>7. ASSUME CheckpointCheck(a.state) = "ok"
      PROVE  Good(r)
  <2>1. /\ r \in Attempt /\ r.pc = "mark" /\ r.w = a.w /\ r.state = a.state /\ r.next = n
    BY <1>1, <1>5, <1>6, <1>7, Zenon DEF Attempt, Pc
  <2> QED  BY <1>1, <1>6, <1>7, <2>1, Zenon DEF Good, Placed
<1> QED  BY <1>3, <1>4, <1>7, Zenon

\* The terminal step prepares a legal transition.
LEMMA CommitRevisionGood ==
  ASSUME Inv, NEW e \in Attempts, CommitRevision(e)
  PROVE  \E r : Good(r) /\ Becomes(e, r)
<1> DEFINE a == att[e]
           target == IF a.outcome = "SUCCEEDED" THEN "succeeded" ELSE "failed"
           n == Transition(a.state, target, a.state.retry_count)
           v == states[a.w].revision
           r == [a EXCEPT !.pc = "commit", !.next = n, !.revision = v]
<1>1. Good(a) /\ a \in Attempt /\ a.w \in Workflows /\ a.state \in Snapshot
  BY InvAttempt, Zenon DEF Good, Placed, CommitRevision
<1>2. a.outcome \in Outcome /\ a.state.retry_count \in 0..MaxRetries
  BY <1>1, Zenon DEF Attempt, Snapshot
<1>3. Good(Leaving(a, a.outcome))
  BY <1>1, <1>2, LeavingGood, Zenon
<1>4. \/ TransitionCheck(a.state, target) = "ok" /\ Becomes(e, r)
      \/ Becomes(e, Leaving(a, a.outcome))
  BY Zenon DEF CommitRevision
<1>5. v \in Nat
  BY <1>1, RevisionTyped, Zenon DEF Inv
<1>6. target \in WorkflowStatus
  BY Zenon DEF WorkflowStatus
<1> HIDE DEF target
<1>7. TransitionCheck(a.state, target) = "ok"
        => n \in Snapshot /\ n.status \in ALLOWED_TRANSITIONS[a.state.status]
  BY <1>1, <1>2, <1>6, TransitionTyped
<1> HIDE DEF n, v
<1>8. ASSUME TransitionCheck(a.state, target) = "ok"
      PROVE  Good(r)
  <2>1. /\ r \in Attempt /\ r.pc = "commit" /\ r.w = a.w /\ r.state = a.state /\ r.next = n
    BY <1>1, <1>5, <1>7, <1>8, Zenon DEF Attempt, Pc
  <2> QED  BY <1>1, <1>7, <1>8, <2>1, Zenon DEF Good, Placed
<1> QED  BY <1>3, <1>4, <1>8, Zenon

\* The terminal commit.
LEMMA CommitWriteGood ==
  ASSUME Inv, NEW e \in Attempts, CommitWrite(e)
  PROVE  \E r : Good(r) /\ Becomes(e, r)
<1> DEFINE a == att[e]
           b == Persisted(a)
           r == [b EXCEPT !.pc = "complete"]
<1>1. /\ Good(a) /\ a \in Attempt /\ a.w \in Workflows /\ a.state \in Snapshot
      /\ a.next \in Snapshot
  BY InvAttempt, Zenon DEF Good, Placed, CommitWrite
<1>2. a.outcome \in Outcome
  BY <1>1, Zenon DEF Attempt
<1>3. \A o \in Outcome : Good(Leaving(a, o))
  BY <1>1, LeavingGood, Zenon
<1>4. \/ Becomes(e, Leaving(a, "REJECTED"))
      \/ Becomes(e, Leaving(a, a.outcome))
      \/ Becomes(e, r)
  BY Zenon DEF CommitWrite
<1>5. b \in Attempt /\ b.state = a.next /\ b.w = a.w
  BY <1>1, PersistedTyped, Zenon
<1> HIDE DEF b
<1>6. r \in Attempt /\ r.pc = "complete" /\ r.w = a.w /\ r.state = a.next
  BY <1>5, Zenon DEF Attempt, Pc
<1>7. Good(r)
  BY <1>1, <1>6, Zenon DEF Good, Placed
<1> QED  BY <1>2, <1>3, <1>4, <1>7, Zenon DEF Outcome

\* The steps after which the attempt only has to leave, and the crash.
LEMMA LeavesGood ==
  ASSUME Inv, NEW e \in Attempts,
         MarkWrite(e) \/ CompleteKey(e) \/ ReleaseLease(e) \/ Crash(e)
  PROVE  \E r : Good(r) /\ Becomes(e, r)
<1> DEFINE a == att[e]
           dead == [Idle EXCEPT !.pc = "crashed", !.w = a.w]
<1>1. a \in Attempt
  BY InvAttempt, Zenon DEF Good
<1>2. a.outcome \in Outcome
  BY <1>1, Zenon DEF Attempt
<1>3. CASE MarkWrite(e)
  <2>1. Good(a) /\ a.w \in Workflows /\ a.state \in Snapshot
    BY <1>3, InvAttempt, Zenon DEF Good, Placed, MarkWrite
  <2> QED  BY <1>2, <1>3, <2>1, LeavingGood, Zenon DEF MarkWrite
<1>4. CASE CompleteKey(e)
  <2>1. Good(a) /\ a.w \in Workflows /\ a.state \in Snapshot
    BY <1>4, InvAttempt, Zenon DEF Good, Placed, CompleteKey
  <2>2. \A o \in Outcome : Good(Leaving(a, o))
    BY <2>1, LeavingGood, Zenon
  <2>3. Becomes(e, Leaving(a, "REJECTED")) \/ Becomes(e, Leaving(a, a.outcome))
    BY <1>4, Zenon DEF CompleteKey
  <2> QED  BY <1>2, <2>2, <2>3, Zenon DEF Outcome
<1>5. CASE ReleaseLease(e)
  BY <1>1, <1>2, <1>5, ReturnedGood, Zenon DEF ReleaseLease
<1>6. CASE Crash(e)
  <2>1. Idle \in Attempt
    BY IdleGood, Zenon DEF Good
  <2>2. dead \in Attempt /\ dead.pc = "crashed"
    BY <1>1, <2>1, ZenonT(30) DEF Attempt, Pc
  <2>3. Good(dead)
    BY <2>2, Zenon DEF Good, Placed
  <2> QED  BY <1>6, <2>3, Zenon DEF Crash
<1> QED  BY <1>3, <1>4, <1>5, <1>6, Zenon

\* Every step of an attempt leaves it in good order.
LEMMA AttemptGood ==
  ASSUME Inv, NEW e \in Attempts, AttemptStep(e) \/ Crash(e)
  PROVE  \E r : Good(r) /\ Becomes(e, r)
  BY Zenon, GetIdempotencyGood, ReserveKeyGood, GetCheckpointGood, CreateStateGood,
     AcquireLeaseGood, AdvanceRevisionGood, AdvanceWriteGood, EnterStageGood,
     AnswersGood, CheckpointWriteGood, MarkRevisionGood, CommitRevisionGood,
     CommitWriteGood, LeavesGood DEF AttemptStep

\* Every step of cancel() keeps a non-terminal snapshot in hand.
LEMMA CancelGood ==
  ASSUME Inv, NEW c \in Cancels, CancelStep(c)
  PROVE  \E r : r \in Cancel /\ PlacedCancel(r) /\ BecomesCancel(c, r)
<1> DEFINE r == cancels[c]
<1>1. r \in Cancel /\ PlacedCancel(r) /\ TypeOK
  BY Zenon DEF Inv, TypeOK
<1>2. ASSUME NEW x \in {"CANCELLED", "NOT_FOUND", "ALREADY_TERMINAL", "RAISED"}
      PROVE  Answered(x) \in Cancel /\ PlacedCancel(Answered(x))
  BY Zenon DEF Answered, IdleCancel, Cancel, PlacedCancel, NoVersion
<1>3. CASE CancelGet(c)
  <2>1. PICK w \in Workflows :
          LET state == states[w].state
          IN BecomesCancel(c,
               IF states[w] = NoRow THEN Answered("NOT_FOUND")
               ELSE IF state.status \in TERMINAL_STATUSES THEN Answered("ALREADY_TERMINAL")
               ELSE IF CheckpointCheck(state) # "ok" THEN Answered("RAISED")
               ELSE [r EXCEPT !.pc = "revision", !.w = w, !.state = state])
    BY <1>3, Zenon DEF CancelGet
  <2> DEFINE s == states[w].state
             q == [r EXCEPT !.pc = "revision", !.w = w, !.state = s]
  <2>2. ASSUME states[w] # NoRow, CheckpointCheck(s) = "ok"
        PROVE  q \in Cancel /\ PlacedCancel(q)
    <3>1. s \in Snapshot
      BY <1>1, <2>2, Zenon DEF TypeOK, Row
    <3> HIDE DEF s
    <3>2. q \in Cancel /\ q.w = w /\ q.state = s
      BY <1>1, <3>1, Zenon DEF Cancel
    <3> QED  BY <2>2, <3>1, <3>2, Zenon DEF PlacedCancel
  <2>3. \/ \E x \in {"NOT_FOUND", "ALREADY_TERMINAL", "RAISED"} : BecomesCancel(c, Answered(x))
        \/ states[w] # NoRow /\ CheckpointCheck(s) = "ok" /\ BecomesCancel(c, q)
    BY <2>1, Zenon
  <2> QED  BY <1>2, <2>2, <2>3, Zenon
<1>4. CASE CancelRevision(c)
  <2> DEFINE v == states[r.w].revision
             q == [r EXCEPT !.pc = "update", !.revision = v]
  <2>1. r.w \in Workflows /\ r.state \in Snapshot /\ CheckpointCheck(r.state) = "ok"
    BY <1>1, <1>4, Zenon DEF CancelRevision, PlacedCancel
  <2>2. v \in Nat
    BY <1>1, <2>1, RevisionTyped, Zenon
  <2>3. BecomesCancel(c, q)
    BY <1>4, Zenon DEF CancelRevision
  <2> HIDE DEF v
  <2>4. q \in Cancel /\ q.w = r.w /\ q.state = r.state
    BY <1>1, <2>2, Zenon DEF Cancel
  <2> QED  BY <2>1, <2>3, <2>4, Zenon DEF PlacedCancel
<1>5. CASE CancelWrite(c)
  <2>1. \E x \in {"CANCELLED", "RAISED"} : BecomesCancel(c, Answered(x))
    BY <1>5, Zenon DEF CancelWrite
  <2> QED  BY <1>2, <2>1, Zenon
<1> QED  BY <1>3, <1>4, <1>5, Zenon DEF CancelStep

-----------------------------------------------------------------------------
(* What a step does to the tables *)

\* The four things that can happen to the stored snapshots in a step.
RowAppears ==
  \E w \in Workflows, row \in Row :
    /\ states[w] = NoRow
    /\ row.state.status = "created"
    /\ states' = [states EXCEPT ![w] = row]

RowMoves ==
  \E w \in Workflows, row \in Row :
    /\ states[w] # NoRow
    /\ \/ row.state.status = states[w].state.status
       \/ row.state.status \in ALLOWED_TRANSITIONS[states[w].state.status]
    /\ states' = [states EXCEPT ![w] = row]

RowsExpire ==
  \E W \in SUBSET {w \in Workflows : states[w].state.status \in TERMINAL_STATUSES} :
    states' = [w \in Workflows |-> IF w \in W THEN NoRow ELSE states[w]]

\* An update whose proposal is a legal successor of the status it names moves the
\* stored row legally, because the store compares that status.
LEMMA UpdateMoves ==
  ASSUME TypeOK, NEW w \in Workflows, NEW s, NEW n \in Snapshot, NEW v, NEW f,
         n.status = s \/ n.status \in ALLOWED_TRANSITIONS[s],
         Update(w, s, n, v, f)
  PROVE  RowMoves \/ states' = states
<1>1. CASE UpdateResult(w, s, n, v, f) = "ok"
  <2> DEFINE row == [state |-> n, revision |-> states[w].revision + 1, updated_at |-> now]
  <2>1. states[w] # NoRow /\ UpdateMatches(w, s, v, f)
    BY <1>1, Zenon DEF UpdateResult
  <2>2. states[w].state.status = s
    BY <2>1, Zenon DEF UpdateMatches
  <2>3. states' = [states EXCEPT ![w] = row]
    BY <1>1, Zenon DEF Update
  <2>4. row \in Row /\ row.state = n
    <3>1. states[w].revision + 1 \in Nat \ {0} /\ now \in Nat
      BY RevisionTyped DEF TypeOK
    <3> QED  BY <3>1, Zenon DEF Row
  <2> HIDE DEF row
  <2> QED  BY <2>1, <2>2, <2>3, <2>4, Zenon DEF RowMoves
<1>2. CASE UpdateResult(w, s, n, v, f) # "ok"
  BY <1>2, Zenon DEF Update
<1> QED  BY <1>1, <1>2, Zenon

\* A step of an attempt creates a row, moves one legally, or leaves the rows alone.
LEMMA AttemptStates ==
  ASSUME Inv, NEW e \in Attempts, AttemptStep(e) \/ Crash(e)
  PROVE  RowAppears \/ RowMoves \/ states' = states
<1> DEFINE a == att[e]
<1>1. TypeOK /\ Placed(a)
  BY Zenon DEF Inv
<1>2. CASE CreateState(e)
  <2> DEFINE created == NewState(Request, CompatOf[e], now + Duration)
             row == [state |-> created, revision |-> 1, updated_at |-> now]
  <2>1. created \in Snapshot /\ created.status = "created"
    <3>1. now + Duration \in Nat
      BY <1>1, AttemptAssumption DEF TypeOK
    <3> QED  BY <3>1, NewStateTyped, Zenon
  <2>2. a.w \in Workflows /\ Create(a.w, created)
    BY <1>1, <1>2, Zenon DEF CreateState, Placed
  <2> HIDE DEF created
  <2>3. row \in Row /\ row.state = created
    <3>1. 1 \in Nat \ {0} /\ now \in Nat
      BY <1>1 DEF TypeOK
    <3> QED  BY <2>1, <3>1, Zenon DEF Row
  <2>4. \/ states[a.w] = NoRow /\ states' = [states EXCEPT ![a.w] = row]
        \/ states' = states
    BY <2>2, Zenon DEF Create, CreateResult
  <2> HIDE DEF row
  <2> QED  BY <2>1, <2>2, <2>3, <2>4, Zenon DEF RowAppears
<1>3. CASE AdvanceWrite(e) \/ CheckpointWrite(e) \/ MarkWrite(e) \/ CommitWrite(e)
  <2>1. Update(a.w, a.state.status, a.next, a.revision, a.fence)
    BY <1>3, Zenon DEF AdvanceWrite, CheckpointWrite, MarkWrite, CommitWrite
  <2>2. a.pc \in {"advance", "checkpoint", "mark", "commit"}
    BY <1>3, Zenon DEF AdvanceWrite, CheckpointWrite, MarkWrite, CommitWrite
  <2>3. a.w \in Workflows /\ a.next \in Snapshot
    BY <1>1, <2>2, Zenon DEF Placed
  <2>4. \/ a.next.status = a.state.status
        \/ a.next.status \in ALLOWED_TRANSITIONS[a.state.status]
    BY <1>1, <2>2, Zenon DEF Placed
  <2> QED  BY <1>1, <2>1, <2>3, <2>4, UpdateMoves, Zenon
<1>4. CASE \/ GetIdempotency(e) \/ ReserveKey(e) \/ GetCheckpoint(e) \/ AcquireLease(e)
           \/ AdvanceRevision(e) \/ EnterStage(e) \/ ProviderAnswers(e)
           \/ AdapterAnswers(e) \/ AdapterRetries(e) \/ MarkRevision(e)
           \/ CommitRevision(e) \/ CompleteKey(e) \/ ReleaseLease(e) \/ Crash(e)
  BY <1>4, Zenon DEF GetIdempotency, ReserveKey, GetCheckpoint, AcquireLease, AdvanceRevision,
              EnterStage, ProviderAnswers, AdapterAnswers, AdapterRetries, MarkRevision,
              CommitRevision, CompleteKey, ReleaseLease, Crash
<1> QED  BY <1>2, <1>3, <1>4, Zenon DEF AttemptStep

\* A step of cancel() moves a row legally or leaves the rows alone.
LEMMA CancelStates ==
  ASSUME Inv, NEW c \in Cancels, CancelStep(c)
  PROVE  RowMoves \/ states' = states
<1> DEFINE r == cancels[c]
<1>1. CASE CancelWrite(c)
  <2>1. r.w \in Workflows /\ r.state \in Snapshot /\ CheckpointCheck(r.state) = "ok"
    BY <1>1, Zenon DEF Inv, PlacedCancel, CancelWrite
  <2>2. MarkCancelled(r.state) \in Snapshot /\ MarkCancelled(r.state).status = r.state.status
    BY <2>1, MarkTyped, Zenon
  <2>3. Update(r.w, r.state.status, MarkCancelled(r.state), r.revision, NoFence)
    BY <1>1, Zenon DEF CancelWrite
  <2> QED  BY <2>1, <2>2, <2>3, UpdateMoves, Zenon DEF Inv
<1>2. CASE CancelGet(c) \/ CancelRevision(c)
  BY <1>2, Zenon DEF CancelGet, CancelRevision
<1> QED  BY <1>1, <1>2, Zenon DEF CancelStep

\* cleanup() removes terminal rows, keys and leases and changes none.
LEMMA CleanupStates ==
  ASSUME NEW t, NEW u, Cleanup(t, u)
  PROVE  /\ RowsExpire
         /\ \E K \in SUBSET Keys :
              keys' = [k \in Keys |-> IF k \in K THEN NoKey ELSE keys[k]]
         /\ \E L \in SUBSET Workflows :
              leases' = [w \in Workflows |-> IF w \in L THEN NoLease ELSE leases[w]]
<1> DEFINE TW == { w \in Workflows : /\ states[w].state.status \in TERMINAL
                                     /\ states[w].updated_at <= t }
           TK == { k \in Keys : /\ keys[k] # NoKey
                                /\ keys[k].expires_at <= u }
           TL == { w \in Workflows : /\ leases[w] # NoLease
                                     /\ leases[w].expires_at <= u - Tolerance }
<1>1. ASSUME NEW eligible, NEW age
      PROVE  Batches(eligible, age) \subseteq SUBSET eligible
  BY Zenon DEF Batches
<1>2. PICK W \in SUBSET TW, K \in SUBSET TK, L \in SUBSET TL :
        /\ states' = [w \in Workflows |-> IF w \in W THEN NoRow ELSE states[w]]
        /\ keys' = [k \in Keys |-> IF k \in K THEN NoKey ELSE keys[k]]
        /\ leases' = [w \in Workflows |-> IF w \in L THEN NoLease ELSE leases[w]]
  <2>1. PICK W \in Batches(TW, [w \in Workflows |-> states[w].updated_at]),
             K \in Batches(TK, [k \in Keys |-> keys[k].expires_at]),
             L \in Batches(TL, [w \in Workflows |-> leases[w].expires_at]) :
          /\ states' = [w \in Workflows |-> IF w \in W THEN NoRow ELSE states[w]]
          /\ keys' = [k \in Keys |-> IF k \in K THEN NoKey ELSE keys[k]]
          /\ leases' = [w \in Workflows |-> IF w \in L THEN NoLease ELSE leases[w]]
    BY Zenon DEF Cleanup
  <2>2. W \in SUBSET TW /\ K \in SUBSET TK /\ L \in SUBSET TL
    BY <1>1, Zenon
  <2> QED  BY <2>1, <2>2, Zenon
<1>3. W \in SUBSET {w \in Workflows : states[w].state.status \in TERMINAL_STATUSES}
  BY Zenon DEF TERMINAL, TERMINAL_STATUSES
<1>4. K \in SUBSET Keys /\ L \in SUBSET Workflows
  BY Zenon
<1> QED  BY <1>2, <1>3, <1>4, Zenon DEF RowsExpire

\* All that a step can do to the stored rows.
LEMMA StatesStep ==
  ASSUME Inv, [Next]_vars
  PROVE  RowAppears \/ RowMoves \/ RowsExpire \/ states' = states
  BY Zenon, AttemptStates, CancelStates, CleanupStates
     DEF Next, OperatorCleanup, Tick, vars

\* Stored rows stay well formed.
LEMMA StatesTyped ==
  ASSUME Inv, [Next]_vars
  PROVE  states' \in [Workflows -> Row \cup {NoRow}]
<1>1. states \in [Workflows -> Row \cup {NoRow}]
  BY Zenon DEF Inv, TypeOK
<1>2. CASE \E w \in Workflows, row \in Row : states' = [states EXCEPT ![w] = row]
  BY <1>1, <1>2, Zenon
<1>3. CASE RowsExpire
  BY <1>1, <1>3, Zenon DEF RowsExpire
<1> QED  BY <1>1, <1>2, <1>3, StatesStep, Zenon DEF RowAppears, RowMoves

\* A step of an attempt leaves the clock and the callers of cancel() alone; the
\* keys and the leases change only in the steps named here.
LEMMA AttemptFrame ==
  ASSUME NEW e \in Attempts, AttemptStep(e) \/ Crash(e)
  PROVE  /\ now' = now /\ cancels' = cancels
         /\ keys' = keys \/ ReserveKey(e) \/ CompleteKey(e)
         /\ leases' = leases \/ AcquireLease(e) \/ EnterStage(e) \/ ReleaseLease(e)
<1>1. CASE GetIdempotency(e) \/ ReserveKey(e) \/ GetCheckpoint(e) \/ CreateState(e)
  BY <1>1, Zenon DEF GetIdempotency, ReserveKey, GetCheckpoint, CreateState
<1>2. CASE AcquireLease(e) \/ AdvanceRevision(e) \/ AdvanceWrite(e)
  BY <1>2, Zenon DEF AcquireLease, AdvanceRevision, AdvanceWrite
<1>3. CASE EnterStage(e) \/ ProviderAnswers(e)
  BY <1>3, Zenon DEF EnterStage, ProviderAnswers
<1>4. CASE AdapterAnswers(e) \/ AdapterRetries(e)
  BY <1>4, Zenon DEF AdapterAnswers, AdapterRetries
<1>5. CASE CheckpointWrite(e) \/ MarkRevision(e) \/ MarkWrite(e)
  BY <1>5, Zenon DEF CheckpointWrite, MarkRevision, MarkWrite
<1>6. CASE CommitRevision(e) \/ CommitWrite(e) \/ CompleteKey(e)
  BY <1>6, Zenon DEF CommitRevision, CommitWrite, CompleteKey
<1>7. CASE ReleaseLease(e) \/ Crash(e)
  BY <1>7, Zenon DEF ReleaseLease, Crash
<1> QED  BY <1>1, <1>2, <1>3, <1>4, <1>5, <1>6, <1>7, Zenon DEF AttemptStep

\* A call of cancel() touches neither the clock nor the keys nor the leases.
LEMMA CancelFrame ==
  ASSUME NEW c \in Cancels, CancelStep(c)
  PROVE  now' = now /\ keys' = keys /\ leases' = leases
  BY Zenon DEF CancelStep, CancelGet, CancelRevision, CancelWrite

\* Idempotency records stay well formed.
LEMMA KeysTyped ==
  ASSUME Inv, [Next]_vars
  PROVE  keys' \in [Keys -> Key \cup {NoKey}]
<1>1. keys \in [Keys -> Key \cup {NoKey}] /\ now \in Nat
  BY Zenon DEF Inv, TypeOK
<1>2. CASE keys' = keys
  BY <1>1, <1>2, Zenon
<1>3. ASSUME NEW e \in Attempts, ReserveKey(e)
      PROVE  keys' \in [Keys -> Key \cup {NoKey}]
  <2> DEFINE r == [request_id |-> Request, workflow_id |-> att[e].w, status |-> "reserved",
                   outcome |-> "none", expires_at |-> now + KeyTTL]
  <2>1. att[e].w \in Workflows
    BY <1>3, Zenon DEF Inv, Placed, ReserveKey
  <2>2. r \in Key
    BY <1>1, <2>1, AttemptAssumption DEF Key
  <2>3. keys' = keys \/ keys' = [keys EXCEPT ![Request] = r]
    BY <1>3, Zenon DEF ReserveKey, Reserve
  <2> HIDE DEF r
  <2> QED  BY <1>1, <2>2, <2>3, Zenon
<1>4. ASSUME NEW e \in Attempts, CompleteKey(e)
      PROVE  keys' \in [Keys -> Key \cup {NoKey}]
  <2> DEFINE r == [keys[Request] EXCEPT !.workflow_id = att[e].w, !.status = "completed",
                                        !.outcome = e]
  <2>1. att[e].w \in Workflows
    BY <1>4, Zenon DEF Inv, Placed, CompleteKey
  <2>2. keys[Request] # NoKey => r \in Key
    BY <1>1, <2>1, AttemptAssumption, Zenon DEF Key
  <2>3. \/ keys' = keys
        \/ keys[Request] # NoKey /\ keys' = [keys EXCEPT ![Request] = r]
    BY <1>4, Zenon DEF CompleteKey, Complete, CompleteResult
  <2> HIDE DEF r
  <2> QED  BY <1>1, <2>2, <2>3, Zenon
<1>5. CASE OperatorCleanup
  BY <1>1, <1>5, CleanupStates, Zenon DEF OperatorCleanup
<1>6. \/ keys' = keys
      \/ \E e \in Attempts : ReserveKey(e) \/ CompleteKey(e)
      \/ OperatorCleanup
  BY AttemptFrame, CancelFrame, Zenon DEF Next, vars, Tick
<1> QED  BY <1>2, <1>3, <1>4, <1>5, <1>6, Zenon

\* Lease rows stay well formed.
LEMMA LeasesTyped ==
  ASSUME Inv, [Next]_vars
  PROVE  leases' \in [Workflows -> Lease]
<1>1. leases \in [Workflows -> Lease] /\ now \in Nat
  BY Zenon DEF Inv, TypeOK
<1>2. NoLease \in Lease
  BY Zenon DEF NoLease, Lease
<1>3. now + LeaseTTL \in Nat
  BY <1>1, AttemptAssumption
<1>4. CASE leases' = leases
  BY <1>1, <1>4, Zenon
<1>5. ASSUME NEW e \in Attempts, AcquireLease(e)
      PROVE  leases' \in [Workflows -> Lease]
  <2> DEFINE w == att[e].w
             r == [owner_id |-> WorkerOf[e], fencing_token |-> leases[w].fencing_token + 1,
                   expires_at |-> now + LeaseTTL]
  <2>1. w \in Workflows
    BY <1>5, Zenon DEF Inv, Placed, AcquireLease
  <2>2. r \in Lease
    BY <1>1, <1>3, <2>1 DEF Lease
  <2>3. leases' = leases \/ leases' = [leases EXCEPT ![w] = r]
    BY <1>5, Zenon DEF AcquireLease, Acquire
  <2> HIDE DEF r
  <2> QED  BY <1>1, <2>2, <2>3, Zenon
<1>6. ASSUME NEW e \in Attempts, EnterStage(e)
      PROVE  leases' \in [Workflows -> Lease]
  <2> DEFINE w == att[e].w
             r == [leases[w] EXCEPT !.expires_at = now + LeaseTTL]
  <2>1. w \in Workflows
    BY <1>6, Zenon DEF Inv, Placed, EnterStage
  <2>2. r \in Lease
    BY <1>1, <1>3, <2>1, Zenon DEF Lease
  <2>3. leases' = leases \/ leases' = [leases EXCEPT ![w] = r]
    BY <1>6, Zenon DEF EnterStage, Renew
  <2> HIDE DEF r
  <2> QED  BY <1>1, <2>2, <2>3, Zenon
<1>7. ASSUME NEW e \in Attempts, ReleaseLease(e)
      PROVE  leases' \in [Workflows -> Lease]
  BY <1>1, <1>2, <1>7, Zenon DEF ReleaseLease, Release
<1>8. CASE OperatorCleanup
  BY <1>1, <1>2, <1>8, CleanupStates, Zenon DEF OperatorCleanup
<1>9. \/ leases' = leases
      \/ \E e \in Attempts : AcquireLease(e) \/ EnterStage(e) \/ ReleaseLease(e)
      \/ OperatorCleanup
  BY AttemptFrame, CancelFrame, Zenon DEF Next, vars, Tick
<1> QED  BY <1>4, <1>5, <1>6, <1>7, <1>8, <1>9, Zenon

-----------------------------------------------------------------------------
(* The inductive invariant *)

\* The invariant holds initially,
LEMMA InvInit == Init => Inv
<1> SUFFICES ASSUME Init PROVE Inv
  BY Zenon
<1>1. Idle \in Attempt /\ Placed(Idle)
  BY IdleGood, Zenon DEF Good
<1>2. IdleCancel \in Cancel /\ PlacedCancel(IdleCancel)
  BY Zenon DEF IdleCancel, Cancel, PlacedCancel, NoVersion
<1>3. NoLease \in Lease
  BY Zenon DEF NoLease, Lease
<1> QED  BY <1>1, <1>2, <1>3, Zenon DEF Init, StoreInit, Inv, TypeOK

\* is preserved by every step,
LEMMA InvNext == Inv /\ [Next]_vars => Inv'
<1> SUFFICES ASSUME Inv, [Next]_vars PROVE Inv'
  BY Zenon
<1> DEFINE AttOK == att' \in [Attempts -> Attempt] /\ \A e \in Attempts : Placed(att'[e])
           CancelsOK == cancels' \in [Cancels -> Cancel] /\ \A c \in Cancels : PlacedCancel(cancels'[c])
<1>1. now' \in Nat
  <2>1. now \in Nat
    BY Zenon DEF Inv, TypeOK
  <2>2. CASE Tick
    BY <2>1, <2>2 DEF Tick
  <2>3. now' = now \/ Tick
    <3>1. CASE OperatorCleanup
      BY <3>1, Zenon DEF OperatorCleanup
    <3> QED  BY AttemptFrame, CancelFrame, <3>1, Zenon DEF Next, vars
  <2> QED  BY <2>1, <2>2, <2>3, Zenon
<1>2. AttOK
  <2>1. att \in [Attempts -> Attempt] /\ \A e \in Attempts : Placed(att[e])
    BY Zenon DEF Inv, TypeOK
  <2>2. ASSUME NEW e \in Attempts, AttemptStep(e) \/ Crash(e)
        PROVE  AttOK
    <3>1. PICK r : Good(r) /\ Becomes(e, r)
      BY <2>2, AttemptGood, Zenon
    <3> QED  BY <2>1, <3>1, Zenon DEF Good, Becomes
  <2>3. CASE att' = att
    BY <2>1, <2>3, Zenon
  <2>4. \/ att' = att
        \/ \E e \in Attempts : AttemptStep(e) \/ Crash(e)
    BY Zenon DEF Next, CancelStep, vars, CancelGet, CancelRevision, CancelWrite, OperatorCleanup, Tick
  <2> QED  BY <2>2, <2>3, <2>4, Zenon
<1>3. CancelsOK
  <2>1. cancels \in [Cancels -> Cancel] /\ \A c \in Cancels : PlacedCancel(cancels[c])
    BY Zenon DEF Inv, TypeOK
  <2>2. ASSUME NEW c \in Cancels, CancelStep(c)
        PROVE  CancelsOK
    <3>1. PICK r : r \in Cancel /\ PlacedCancel(r) /\ BecomesCancel(c, r)
      BY <2>2, CancelGood, Zenon
    <3> QED  BY <2>1, <3>1, Zenon DEF BecomesCancel
  <2>3. CASE cancels' = cancels
    BY <2>1, <2>3, Zenon
  <2>4. \/ cancels' = cancels
        \/ \E c \in Cancels : CancelStep(c)
    <3>1. CASE OperatorCleanup \/ Tick
      BY <3>1, Zenon DEF OperatorCleanup, Tick
    <3> QED  BY AttemptFrame, <3>1, Zenon DEF Next, vars
  <2> QED  BY <2>2, <2>3, <2>4, Zenon
<1>4. TypeOK'
  BY <1>1, <1>2, <1>3, StatesTyped, KeysTyped, LeasesTyped, Zenon DEF TypeOK
<1>5. (\A e \in Attempts : Placed(att[e]))' /\ (\A c \in Cancels : PlacedCancel(cancels[c]))'
  BY <1>2, <1>3, Zenon
<1> QED  BY <1>4, <1>5, Zenon DEF Inv

\* and so holds throughout.
LEMMA InvHolds == Spec => []Inv
  BY InvInit, InvNext, PTL DEF Spec

\* Every stored or proposed snapshot of the durable runtime stays within the
\* attempt, event and retry budgets of WorkflowBudget, and a node is tried at
\* most MaxRetries times, for any number of attempts, cancellations and crashes.
THEOREM DurableTypeOK == Spec => []TypeOK
<1>1. Inv => TypeOK
  BY Zenon DEF Inv
<1> QED  BY <1>1, InvHolds, PTL

-----------------------------------------------------------------------------
(* Refinement of the abstract workflow state machine *)

\* The durable runtime implements WorkflowLifecycle: under any interleaving of
\* attempts, cancellations, crashes and cleanups the stored status of a
\* workflow appears as created, moves along ALLOWED_TRANSITIONS only, and
\* disappears only when terminal.
THEOREM DurableRefinesLifecycle == Spec => StatusFollowsLifecycle
<1> DEFINE st == [w \in Workflows |-> states[w].state.status]
<1>1. Init => Lifecycle!Init
  BY DEF Init, StoreInit, Lifecycle!Init, NoRow, NoState
<1>2. Inv /\ [Next]_vars => [Lifecycle!Next]_st
  <2> SUFFICES ASSUME Inv, [Next]_vars PROVE [Lifecycle!Next]_st
    BY Zenon
  <2>1. states \in [Workflows -> Row \cup {NoRow}]
    BY Zenon DEF Inv, TypeOK
  <2>2. ASSUME NEW w \in Workflows, NEW row \in Row, states' = [states EXCEPT ![w] = row]
        PROVE  st' = [st EXCEPT ![w] = row.state.status]
    BY <2>1, <2>2, Zenon
  <2>3. CASE RowAppears
    <3>1. PICK w \in Workflows, row \in Row :
            /\ states[w] = NoRow
            /\ row.state.status = "created"
            /\ states' = [states EXCEPT ![w] = row]
      BY <2>3, Zenon DEF RowAppears
    <3>2. st[w] = "absent"
      BY <3>1 DEF NoRow, NoState
    <3>3. Lifecycle!Appear(w)
      BY <2>2, <3>1, <3>2, Zenon DEF Lifecycle!Appear
    <3> QED  BY <3>3, Zenon DEF Lifecycle!Next
  <2>4. CASE RowMoves
    <3>1. PICK w \in Workflows, row \in Row :
            /\ states[w] # NoRow
            /\ \/ row.state.status = states[w].state.status
               \/ row.state.status \in ALLOWED_TRANSITIONS[states[w].state.status]
            /\ states' = [states EXCEPT ![w] = row]
      BY <2>4, Zenon DEF RowMoves
    <3>2. st[w] = states[w].state.status /\ st[w] # "absent"
      BY <2>1, <3>1, Zenon DEF Row, Snapshot, WorkflowStatus
    <3>3. st' = [st EXCEPT ![w] = row.state.status]
      BY <2>2, <3>1, Zenon
    <3>4. CASE row.state.status = st[w]
      BY <3>3, <3>4, Zenon
    <3>5. CASE row.state.status \in ALLOWED_TRANSITIONS[st[w]]
      <4>1. Lifecycle!Move(w)
        BY <3>2, <3>3, <3>5, Zenon DEF Lifecycle!Move, Lifecycle!ALLOWED_TRANSITIONS,
                                ALLOWED_TRANSITIONS
      <4> QED  BY <4>1, Zenon DEF Lifecycle!Next
    <3> QED  BY <3>1, <3>2, <3>4, <3>5, Zenon
  <2>5. CASE RowsExpire
    <3>1. PICK W \in SUBSET {w \in Workflows : states[w].state.status \in TERMINAL_STATUSES} :
            states' = [w \in Workflows |-> IF w \in W THEN NoRow ELSE states[w]]
      BY <2>5, Zenon DEF RowsExpire
    <3>2. st' = [w \in Workflows |-> IF w \in W THEN "absent" ELSE st[w]]
      BY <3>1, Zenon DEF NoRow, NoState
    <3>3. W \in SUBSET {w \in Workflows : st[w] \in TERMINAL_STATUSES}
      BY Zenon
    <3>4. Lifecycle!Expire
      BY <3>2, <3>3, Zenon DEF Lifecycle!Expire, Lifecycle!TERMINAL_STATUSES, TERMINAL_STATUSES
    <3> QED  BY <3>4, Zenon DEF Lifecycle!Next
  <2>6. CASE states' = states
    BY <2>6, Zenon
  <2> QED  BY <2>3, <2>4, <2>5, <2>6, StatesStep, Zenon
<1> QED  BY <1>1, <1>2, InvHolds, PTL DEF Spec, StatusFollowsLifecycle, Lifecycle!Spec

=============================================================================
