----------------------- MODULE DurableOwnershipProofs -----------------------
(***************************************************************************)
(* What ownership of a workflow is worth, for any number of attempts,      *)
(* workers, cancellations, crashes and workflows.                          *)
(*                                                                         *)
(* 1. The owner of a lease works on the stored snapshot (OwnerInv): its    *)
(*    own writes keep copy and row together, and the fence keeps out every *)
(*    other attempt, which has another worker id.                          *)
(* 2. Only the owner starts adapter work (StartRenews).                    *)
(* 3. A completed key stands for a success (CompletionInv), and no work is *)
(*    started after it.                                                    *)
(* 4. One request has one workflow before its key can expire (BindingInv). *)
(*                                                                         *)
(* They share the classification of what a step makes of an attempt        *)
(* (Turns) and what an attempt holds at each of its calls (AllOrdered).    *)
(***************************************************************************)
EXTENDS DurableRuntimeProofs
-----------------------------------------------------------------------------
(* What a step makes of an attempt                                         *)

\* The calls of an attempt that is in the graph, and of one that has acquired
\* its lease and not yet given it back.
GraphPc == {"stage", "provider", "adapter", "checkpoint", "mark_revision", "mark",
            "commit_revision", "commit"}

HoldingPc == GraphPc \cup {"advance_revision", "advance", "complete", "release"}

\* Workflow, copy of the snapshot and fence stay.
Keeps(a, r) == r.w = a.w /\ r.state = a.state /\ r.fence = a.fence

\* The terminal status an outcome is committed with.
Verdict(outcome) == IF outcome = "SUCCEEDED" THEN "succeeded" ELSE "failed"

\* What a prepared snapshot is for.
Prepared(r) ==
  /\ r.pc = "advance" => r.next.status \in {"queued", "running"}
  /\ r.pc = "commit" => r.next.status = Verdict(r.outcome)

\* A step of attempt e turns its record a into r in one of six ways: it holds no
\* lease afterwards,
Unleased(a, r) ==
  /\ r.pc \notin HoldingPc
  /\ r.pc \in {"get_checkpoint", "create", "acquire"} =>
       a.pc \in {"reserve", "get_checkpoint", "create"} /\ r.w = a.w

\* it has just acquired one,
Acquires(e, a, r) ==
  /\ a.pc = "acquire" /\ r.pc = "advance_revision" /\ r.w = a.w
  /\ r.fence.owner_id = WorkerOf[e]

\* it goes on with what it has, and no row changes,
Stays(a, r) ==
  /\ Keeps(a, r) /\ a.pc \in HoldingPc /\ r.pc \in HoldingPc \ {"complete"}
  /\ r.pc \in GraphPc => a.pc \in GraphPc
  /\ Prepared(r)
  /\ states' = states

\* it is about to leave,
Leaves(a, r) == Keeps(a, r) /\ a.pc \in HoldingPc /\ r.pc = "release"

\* it has written the snapshot that is now its copy,
Writes(a, r) ==
  /\ a.pc \in {"advance", "checkpoint"} /\ states'[a.w].state = a.next
  /\ r.pc \in {"advance_revision", "stage", "commit_revision"}
  /\ r.pc # "advance_revision" => a.pc = "checkpoint" \/ a.next.status # "queued"
  /\ r.w = a.w /\ r.fence = a.fence /\ r.state = a.next

\* or it has committed its success.
Commits(a, r) ==
  /\ a.pc = "commit" /\ a.outcome = "SUCCEEDED"
  /\ states'[a.w].state.status = a.next.status
  /\ r.pc = "complete" /\ r.w = a.w /\ r.fence = a.fence

Turns(e, a, r) ==
  Unleased(a, r) \/ Acquires(e, a, r) \/ Stays(a, r) \/ Leaves(a, r) \/ Writes(a, r) \/ Commits(a, r)

\* An update that is accepted stores the proposed snapshot, one that finds its own
\* terminal status leaves it, and any other changes nothing.
LEMMA UpdateStores ==
  ASSUME TypeOK, NEW w \in Workflows, NEW s, NEW n, NEW v, NEW f, Update(w, s, n, v, f)
  PROVE  LET result == UpdateResult(w, s, n, v, f)
         IN /\ result = "ok" => /\ states'[w].state = n
                               /\ states[w] # NoRow /\ UpdateMatches(w, s, v, f)
            /\ result = "noop" => states'[w].state.status = n.status
            /\ result # "ok" => states' = states
            /\ \A u \in Workflows : u # w => states'[u] = states[u]
<1> DEFINE row == [state |-> n, revision |-> states[w].revision + 1, updated_at |-> now]
<1>1. states \in [Workflows -> Row \cup {NoRow}]
  BY Zenon DEF TypeOK
<1>2. CASE UpdateResult(w, s, n, v, f) = "ok"
  <2>1. states' = [states EXCEPT ![w] = row]
    BY <1>2, Zenon DEF Update
  <2>2. row.state = n
    BY Zenon
  <2> HIDE DEF row
  <2>3. states'[w] = row /\ \A u \in Workflows : u # w => states'[u] = states[u]
    BY <1>1, <2>1, Zenon
  <2>4. states[w] # NoRow /\ UpdateMatches(w, s, v, f)
    BY <1>2, Zenon DEF UpdateResult
  <2> QED  BY <1>2, <2>2, <2>3, <2>4, Zenon
<1>3. CASE UpdateResult(w, s, n, v, f) # "ok"
  <2>1. states' = states
    BY <1>3, Zenon DEF Update
  <2>2. UpdateResult(w, s, n, v, f) = "noop" => states[w].state.status = n.status
    BY Zenon DEF UpdateResult
  <2> QED  BY <1>3, <2>1, <2>2, Zenon
<1> QED  BY <1>2, <1>3, Zenon

\* What ends a graph execution keeps the workflow, the copy and the fence.
LEMMA LeavingKeeps ==
  ASSUME NEW a \in Attempt, NEW o
  PROVE  Keeps(a, Leaving(a, o)) /\ Leaving(a, o).pc = "release"
  BY Zenon DEF Attempt, Leaving, Keeps

\* The end of a graph run leaves workflow, copy and fence.
LEMMA EndedKeeps ==
  ASSUME NEW a \in Attempt, NEW b
  PROVE  /\ Keeps(a, Ended(a, b))
         /\ Ended(a, b).pc \in {"mark_revision", "commit_revision", "release"}
<1> DEFINE o == PublicStatus(b)
           l == Leaving(a, o)
<1>1. Keeps(a, l) /\ l = [a EXCEPT !.pc = "release", !.next = NoState, !.revision = NoVersion,
                                   !.outcome = o]
  BY LeavingKeeps, Zenon DEF Leaving
<1>2. \E p \in {"mark_revision", "commit_revision", "release"} :
         Ended(a, b) = [l EXCEPT !.pc = p]
  BY Zenon DEF Ended
<1> HIDE DEF o
<1> QED  BY <1>1, <1>2, Zenon DEF Keeps, Attempt

\* So does the record of a node's success.
LEMMA RecordedKeeps ==
  ASSUME NEW a \in Attempt
  PROVE  /\ Keeps(a, Recorded(a))
         /\ Recorded(a).pc \in {"checkpoint", "mark_revision", "commit_revision", "release"}
<1>1. CASE CheckpointCheck(a.state) # "ok"
  <2>1. Recorded(a) = Ended(a, "state_error")
    BY <1>1, Zenon DEF Recorded
  <2> QED  BY <2>1, EndedKeeps, Zenon
<1>2. CASE CheckpointCheck(a.state) = "ok"
  BY <1>2, Zenon DEF Recorded, Attempt, Keeps
<1> QED  BY <1>1, <1>2, Zenon

\* The calls a stage can be at after its node has run, or has been called.
RanPc == {"checkpoint", "mark_revision", "commit_revision", "release"}

CalledPc == {"provider", "adapter"} \cup RanPc

\* So does every result of a node.
LEMMA NodeResultsKeep ==
  ASSUME NEW a \in Attempt, NEW r \in NodeResults(a)
  PROVE  Keeps(a, r) /\ r.pc \in RanPc
  BY EndedKeeps, RecordedKeeps, Zenon DEF NodeResults, RanPc

\* So does a call of the adapter.
LEMMA CallsKeep ==
  ASSUME NEW a \in Attempt, NEW r \in Calls(a)
  PROVE  Keeps(a, r) /\ r.pc \in CalledPc
<1> DEFINE c == [a EXCEPT !.pc = "adapter", !.tries = a.tries + 1]
<1>1. Keeps(a, c) /\ c.pc = "adapter"
  BY Zenon DEF Keeps, Attempt
<1>2. r = c \/ \E b \in {"raised", "rejected"} : r = Ended(a, b)
  BY Zenon DEF Calls, Attempt
<1> HIDE DEF c
<1> QED  BY <1>1, <1>2, EndedKeeps, Zenon DEF CalledPc, RanPc

\* So does the first call of a stage.
LEMMA FirstCallKeeps ==
  ASSUME NEW a \in Attempt, NEW r \in FirstCall(a)
  PROVE  Keeps(a, r) /\ r.pc \in CalledPc
<1>1. CASE a.stage = "intent"
  BY <1>1, Zenon DEF FirstCall, Attempt, Keeps, CalledPc
<1>2. CASE a.stage = "execute"
  BY <1>2, CallsKeep, Zenon DEF FirstCall
<1>3. CASE a.stage \notin {"intent", "execute"}
  BY <1>3, NodeResultsKeep, Zenon DEF FirstCall, CalledPc
<1> QED  BY <1>1, <1>2, <1>3, Zenon

\* Inside a stage the attempt stays in the graph or leaves.
LEMMA StageTurns ==
  ASSUME Inv, NEW e \in Attempts,
         EnterStage(e) \/ ProviderAnswers(e) \/ AdapterAnswers(e) \/ AdapterRetries(e)
  PROVE  \E r : Becomes(e, r) /\ Stays(att[e], r)
<1> DEFINE a == att[e]
           entry == StageEntry(a.stage, a.evidence, a.state.deadline_at,
                               e \in CancelledAtStart, now)
           longer == [a EXCEPT !.expires = now + LeaseTTL]
           renewed == IF RenewalDue(a) THEN longer ELSE a
<1>1. a \in Attempt
  BY InvAttempt, Zenon DEF Good
<1>2. a.pc \in {"stage", "provider", "adapter"} /\ states' = states
  BY Zenon DEF EnterStage, ProviderAnswers, AdapterAnswers, AdapterRetries
<1>3. longer \in Attempt /\ Keeps(a, longer)
  <2>1. now + LeaseTTL \in Nat
    BY AttemptAssumption DEF Inv, TypeOK
  <2> QED  BY <1>1, <2>1, Zenon DEF Attempt, Keeps
<1>4. renewed \in Attempt /\ Keeps(a, renewed)
  BY <1>1, <1>3, Zenon DEF Keeps
<1>5. ASSUME NEW r, Keeps(a, r), r.pc \in CalledPc
      PROVE  Stays(a, r)
  BY <1>2, <1>5, Zenon DEF Stays, CalledPc, RanPc, HoldingPc, GraphPc, Prepared
<1>6. \A b : Stays(a, Ended(a, b))
  BY <1>1, <1>5, EndedKeeps, Zenon DEF CalledPc, RanPc
<1>7. CASE EnterStage(e)
  <2>1. \/ Becomes(e, Ended(a, entry))
        \/ Becomes(e, Ended(a, "fenced"))
        \/ \E r \in FirstCall(renewed) : Becomes(e, r)
    BY <1>7, Zenon DEF EnterStage
  <2> HIDE DEF renewed
  <2>2. ASSUME NEW r \in FirstCall(renewed)
        PROVE  Keeps(a, r) /\ r.pc \in CalledPc
    <3>1. Keeps(renewed, r) /\ r.pc \in CalledPc
      BY <1>4, FirstCallKeeps, Zenon
    <3> QED  BY <1>4, <3>1, Zenon DEF Keeps
  <2> QED  BY <1>5, <1>6, <2>1, <2>2, Zenon
<1>8. CASE ProviderAnswers(e)
  <2>1. (\E r \in NodeResults(a) : Becomes(e, r)) \/ Becomes(e, Ended(a, "timeout"))
    BY <1>8, Zenon DEF ProviderAnswers
  <2> QED  BY <1>1, <1>5, <1>6, <2>1, NodeResultsKeep, Zenon DEF CalledPc
<1>9. CASE AdapterAnswers(e)
  <2>1. Becomes(e, Recorded(a)) \/ \E b : Becomes(e, Ended(a, b))
    BY <1>9, Zenon DEF AdapterAnswers
  <2>2. Stays(a, Recorded(a))
    BY <1>1, <1>5, RecordedKeeps, Zenon DEF CalledPc, RanPc
  <2> QED  BY <1>6, <2>1, <2>2, Zenon
<1>10. CASE AdapterRetries(e)
  <2>1. (\E b : Becomes(e, Ended(a, b))) \/ \E r \in Calls(a) : Becomes(e, r)
    BY <1>10, Zenon DEF AdapterRetries
  <2> QED  BY <1>1, <1>5, <1>6, <2>1, CallsKeep, Zenon
<1> QED  BY <1>7, <1>8, <1>9, <1>10, Zenon

\* The calls up to the lease.
LEMMA EarlyTurns ==
  ASSUME Inv, NEW e \in Attempts,
         GetIdempotency(e) \/ ReserveKey(e) \/ GetCheckpoint(e) \/ CreateState(e)
           \/ ReleaseLease(e) \/ Crash(e)
  PROVE  \E r : Becomes(e, r) /\ Unleased(att[e], r)
<1> DEFINE a == att[e]
<1>1. a \in Attempt
  BY InvAttempt, Zenon DEF Good
<1>2. Idle \in Attempt
  BY IdleGood, Zenon DEF Good
<1>3. \A o : Unleased(a, Returned(a, o))
  BY <1>2, Zenon DEF Unleased, Returned, Attempt, HoldingPc, GraphPc
<1>4. CASE GetIdempotency(e)
  <2> DEFINE w == IF keys[Request] = NoKey THEN RequestedId[e] ELSE keys[Request].workflow_id
             r == [a EXCEPT !.pc = "reserve", !.w = w]
  <2>1. Becomes(e, r)
    BY <1>4, Zenon DEF GetIdempotency
  <2>2. r.pc = "reserve"
    BY <1>1, Zenon DEF Attempt
  <2> HIDE DEF r
  <2> QED  BY <2>1, <2>2, Zenon DEF Unleased, HoldingPc, GraphPc
<1>5. CASE ReserveKey(e)
  <2> DEFINE r == [a EXCEPT !.pc = "get_checkpoint"]
  <2>1. (\E o : Becomes(e, Returned(a, o))) \/ Becomes(e, r)
    BY <1>5, Zenon DEF ReserveKey
  <2>2. r.pc = "get_checkpoint" /\ r.w = a.w /\ a.pc = "reserve"
    BY <1>1, <1>5, Zenon DEF Attempt, ReserveKey
  <2> HIDE DEF r
  <2> QED  BY <1>3, <2>1, <2>2 DEF Unleased, HoldingPc, GraphPc
<1>6. CASE GetCheckpoint(e)
  <2> DEFINE q == [a EXCEPT !.pc = "create"]
             r == [a EXCEPT !.pc = "acquire", !.state = states[a.w].state]
  <2>1. (\E o : Becomes(e, Returned(a, o))) \/ Becomes(e, q) \/ Becomes(e, r)
    BY <1>6, Zenon DEF GetCheckpoint
  <2>2. /\ q.pc = "create" /\ r.pc = "acquire" /\ q.w = a.w /\ r.w = a.w
        /\ a.pc = "get_checkpoint"
    BY <1>1, <1>6, Zenon DEF Attempt, GetCheckpoint
  <2> HIDE DEF q, r
  <2> QED  BY <1>3, <2>1, <2>2, ZenonT(30) DEF Unleased, HoldingPc, GraphPc
<1>7. CASE CreateState(e)
  <2> DEFINE s == NewState(Request, CompatOf[e], now + Duration)
             r == [a EXCEPT !.pc = "acquire", !.state = s]
  <2>1. (\E o : Becomes(e, Returned(a, o))) \/ Becomes(e, r)
    BY <1>7, Zenon DEF CreateState
  <2> HIDE DEF s
  <2>2. r.pc = "acquire" /\ r.w = a.w /\ a.pc = "create"
    BY <1>1, <1>7, Zenon DEF Attempt, CreateState
  <2> HIDE DEF r
  <2> QED  BY <1>3, <2>1, <2>2 DEF Unleased, HoldingPc, GraphPc
<1>8. CASE ReleaseLease(e)
  BY <1>3, <1>8, Zenon DEF ReleaseLease
<1>9. CASE Crash(e)
  <2> DEFINE r == [Idle EXCEPT !.pc = "crashed", !.w = a.w]
  <2>1. Becomes(e, r)
    BY <1>9, Zenon DEF Crash
  <2>2. r.pc = "crashed"
    BY <1>2, Zenon DEF Attempt
  <2> HIDE DEF r
  <2> QED  BY <2>1, <2>2, Zenon DEF Unleased, HoldingPc, GraphPc
<1> QED  BY <1>4, <1>5, <1>6, <1>7, <1>8, <1>9, Zenon

\* acquire_lease.
LEMMA AcquireTurns ==
  ASSUME Inv, NEW e \in Attempts, AcquireLease(e)
  PROVE  \E r : Becomes(e, r) /\ (Unleased(att[e], r) \/ Acquires(e, att[e], r))
<1> DEFINE a == att[e]
           fence == [owner_id |-> WorkerOf[e], fencing_token |-> leases'[a.w].fencing_token]
           recovering == a.state.status = "running"
           r == [a EXCEPT !.pc = "advance_revision", !.fence = fence,
                          !.expires = now + LeaseTTL, !.recovering = recovering]
           q == Returned(a, PublicStatus("busy"))
<1>1. a \in Attempt /\ Idle \in Attempt
  BY InvAttempt, IdleGood, Zenon DEF Good
<1>2. a.pc = "acquire" /\ (Becomes(e, r) \/ Becomes(e, q))
  BY Zenon DEF AcquireLease
<1>3. Unleased(a, q)
  BY <1>1, Zenon DEF Unleased, Returned, Attempt, HoldingPc, GraphPc
<1>4. fence.owner_id = WorkerOf[e]
  BY Zenon
<1> HIDE DEF fence, recovering, q
<1>5. r.pc = "advance_revision" /\ r.fence = fence /\ r.w = a.w
  BY <1>1, Zenon DEF Attempt
<1> HIDE DEF r
<1> QED  BY <1>2, <1>3, <1>4, <1>5, Zenon DEF Acquires

\* The reads before a write: the prepared snapshot fits the call.
LEMMA RevisionTurns ==
  ASSUME Inv, NEW e \in Attempts, AdvanceRevision(e) \/ MarkRevision(e) \/ CommitRevision(e)
  PROVE  \E r : Becomes(e, r) /\ Stays(att[e], r)
<1> DEFINE a == att[e]
           v == states[a.w].revision
<1>1. a \in Attempt /\ Placed(a)
  BY InvAttempt, Zenon DEF Good
<1>2. a.pc \in {"advance_revision", "mark_revision", "commit_revision"} /\ states' = states
  BY Zenon DEF AdvanceRevision, MarkRevision, CommitRevision
<1>3. a.state \in Snapshot
  BY <1>1, <1>2, Zenon DEF Placed
<1>4. \A o : Stays(a, Leaving(a, o))
  BY <1>1, <1>2, LeavingKeeps, Zenon DEF Stays, HoldingPc, GraphPc, Prepared
<1>5. ASSUME NEW p, NEW n
      PROVE  LET r == [a EXCEPT !.pc = p, !.next = n, !.revision = v]
             IN Keeps(a, r) /\ r.pc = p /\ r.next = n /\ r.outcome = a.outcome
  BY <1>1, Zenon DEF Attempt, Keeps
<1>6. CASE AdvanceRevision(e)
  <2> DEFINE target == IF a.state.status = "queued" THEN "running" ELSE "queued"
             retry == IF target = "running" /\ a.recovering
                        THEN a.state.retry_count + 1 ELSE a.state.retry_count
             n == Transition(a.state, target, retry)
             r == [a EXCEPT !.pc = "advance", !.next = n, !.revision = v]
  <2>1. Becomes(e, Leaving(a, "FAILED")) \/ Becomes(e, r)
    BY <1>6, Zenon DEF AdvanceRevision
  <2>2. a.pc = "advance_revision"
    BY <1>6, Zenon DEF AdvanceRevision
  <2>3. n.status \in {"queued", "running"}
    BY <1>3, Zenon DEF Transition, Snapshot
  <2> HIDE DEF n
  <2>4. Keeps(a, r) /\ r.pc = "advance" /\ r.next = n
    BY <1>5, Zenon
  <2> HIDE DEF r
  <2>5. Stays(a, r)
    BY <1>2, <2>2, <2>3, <2>4, Zenon DEF Stays, HoldingPc, GraphPc, Prepared
  <2> QED  BY <1>4, <2>1, <2>5, Zenon
<1>7. CASE MarkRevision(e)
  <2> DEFINE n == MarkCancelled(a.state)
             r == [a EXCEPT !.pc = "mark", !.next = n, !.revision = v]
  <2>1. Becomes(e, Leaving(a, a.outcome)) \/ Becomes(e, r)
    BY <1>7, Zenon DEF MarkRevision
  <2>2. a.pc = "mark_revision"
    BY <1>7, Zenon DEF MarkRevision
  <2> HIDE DEF n
  <2>3. Keeps(a, r) /\ r.pc = "mark"
    BY <1>5, Zenon
  <2> HIDE DEF r
  <2>4. Stays(a, r)
    BY <1>2, <2>2, <2>3, Zenon DEF Stays, HoldingPc, GraphPc, Prepared
  <2> QED  BY <1>4, <2>1, <2>4, Zenon
<1>8. CASE CommitRevision(e)
  <2> DEFINE target == IF a.outcome = "SUCCEEDED" THEN "succeeded" ELSE "failed"
             n == Transition(a.state, target, a.state.retry_count)
             r == [a EXCEPT !.pc = "commit", !.next = n, !.revision = v]
  <2>1. Becomes(e, Leaving(a, a.outcome)) \/ Becomes(e, r)
    BY <1>8, Zenon DEF CommitRevision
  <2>2. a.pc = "commit_revision"
    BY <1>8, Zenon DEF CommitRevision
  <2>3. n.status = Verdict(a.outcome)
    BY <1>3, Zenon DEF Transition, Snapshot, Verdict
  <2> HIDE DEF n
  <2>4. Keeps(a, r) /\ r.pc = "commit" /\ r.next = n /\ r.outcome = a.outcome
    BY <1>5, ZenonT(30)
  <2> HIDE DEF r
  <2>5. Stays(a, r)
    BY <1>2, <2>2, <2>3, <2>4, Zenon DEF Stays, HoldingPc, GraphPc, Prepared
  <2> QED  BY <1>4, <2>1, <2>5, Zenon
<1> QED  BY <1>6, <1>7, <1>8, Zenon

\* The writes: a refused one changes no row.
LEMMA WriteTurns ==
  ASSUME Inv, NEW e \in Attempts, AdvanceWrite(e) \/ CheckpointWrite(e)
  PROVE  \E r : Becomes(e, r) /\ (Stays(att[e], r) \/ Writes(att[e], r))
<1> DEFINE a == att[e]
           result == UpdateResult(a.w, a.state.status, a.next, a.revision, a.fence)
           b == Persisted(a)
<1>1. a \in Attempt /\ Placed(a)
  BY InvAttempt, Zenon DEF Good
<1>2. a.pc \in {"advance", "checkpoint"}
  BY Zenon DEF AdvanceWrite, CheckpointWrite
<1>3. a.next \in Snapshot
  BY <1>1, <1>2, Zenon DEF Placed
<1>4. b \in Attempt /\ b.state = a.next /\ b.w = a.w /\ b.fence = a.fence
  <2>1. b.fence = a.fence
    BY <1>1, Zenon DEF Persisted, Attempt
  <2> QED  BY <1>1, <1>3, <2>1, PersistedTyped, Zenon
<1>5. (result # "ok" => states' = states) /\ (result = "ok" => states'[a.w].state = a.next)
  <2>1. TypeOK /\ a.w \in Workflows
    BY <1>1, <1>2, Zenon DEF Inv, Placed
  <2>2. Update(a.w, a.state.status, a.next, a.revision, a.fence)
    BY Zenon DEF AdvanceWrite, CheckpointWrite
  <2> QED  BY <2>1, <2>2, UpdateStores
<1> HIDE DEF b
<1>6. CASE AdvanceWrite(e)
  <2> DEFINE o == PublicStatus(ErrorBranch(result))
             again == [b EXCEPT !.pc = "advance_revision"]
             g == IF a.state.stage = NoStage THEN "initialize" ELSE a.state.stage
             starts == [b EXCEPT !.pc = "stage", !.stage = g, !.channel = BaseChannel,
                                 !.evidence = BaseEvidence]
  <2>1. a.pc = "advance"
    BY <1>6, Zenon DEF AdvanceWrite
  <2>2. \/ result # "ok" /\ Becomes(e, Leaving(a, o))
        \/ result = "ok" /\ Becomes(e, again)
        \/ result = "ok" /\ a.next.status # "queued" /\ Becomes(e, starts)
    BY <1>6, Zenon DEF AdvanceWrite, b
  <2>3. result # "ok" => Stays(a, Leaving(a, o))
    BY <1>1, <1>5, <2>1, LeavingKeeps, Zenon DEF Stays, HoldingPc, GraphPc, Prepared
  <2> HIDE DEF g, o
  <2>4. /\ again.pc = "advance_revision" /\ again.w = a.w /\ again.fence = a.fence
        /\ again.state = a.next
    BY <1>4, Zenon DEF Attempt
  <2>5. /\ starts.pc = "stage" /\ starts.w = a.w /\ starts.fence = a.fence
        /\ starts.state = a.next
    BY <1>4, Zenon DEF Attempt
  <2> HIDE DEF again, starts, result
  <2> QED  BY <1>5, <2>1, <2>2, <2>3, <2>4, <2>5, Zenon DEF Writes
<1>7. CASE CheckpointWrite(e)
  <2> DEFINE br == ErrorBranch(result)
             on == [b EXCEPT !.pc = "stage", !.stage = NextStage[a.stage]]
             over == Ended(b, "succeeded")
  <2>1. a.pc = "checkpoint"
    BY <1>7, Zenon DEF CheckpointWrite
  <2>2. \/ result # "ok" /\ Becomes(e, Ended(a, br))
        \/ result = "ok" /\ Becomes(e, over)
        \/ result = "ok" /\ Becomes(e, on)
    BY <1>7, Zenon DEF CheckpointWrite, b
  <2>3. result # "ok" => Stays(a, Ended(a, br))
    BY <1>1, <1>5, <2>1, EndedKeeps, Zenon DEF Stays, HoldingPc, GraphPc, Prepared
  <2> HIDE DEF br
  <2>4. on.pc = "stage" /\ on.w = a.w /\ on.fence = a.fence /\ on.state = a.next
    BY <1>4, Zenon DEF Attempt
  <2>5. /\ over.pc = "commit_revision" /\ over.w = a.w /\ over.fence = a.fence
        /\ over.state = a.next
    <3>1. Keeps(b, over)
      BY <1>4, EndedKeeps, Zenon
    <3>2. over.pc = "commit_revision"
      BY <1>4, Zenon DEF Ended, PublicStatus, Leaving, Attempt
    <3> HIDE DEF over
    <3> QED  BY <1>4, <3>1, <3>2, Zenon DEF Keeps
  <2> HIDE DEF on, over, result
  <2> QED  BY <1>5, <2>1, <2>2, <2>3, <2>4, <2>5, Zenon DEF Writes
<1> QED  BY <1>6, <1>7, Zenon

\* mark_cancelled, the terminal commit and the completion of the key.
LEMMA EndTurns ==
  ASSUME Inv, NEW e \in Attempts, MarkWrite(e) \/ CommitWrite(e) \/ CompleteKey(e)
  PROVE  \E r : Becomes(e, r) /\ (Leaves(att[e], r) \/ Commits(att[e], r))
<1> DEFINE a == att[e]
           result == UpdateResult(a.w, a.state.status, a.next, a.revision, a.fence)
           b == Persisted(a)
           r == [b EXCEPT !.pc = "complete"]
<1>1. a \in Attempt /\ Placed(a)
  BY InvAttempt, Zenon DEF Good
<1>2. a.pc \in {"mark", "commit", "complete"}
  BY Zenon DEF MarkWrite, CommitWrite, CompleteKey
<1>3. \A o : Leaves(a, Leaving(a, o))
  BY <1>1, <1>2, LeavingKeeps, Zenon DEF Leaves, HoldingPc, GraphPc
<1>4. CASE MarkWrite(e) \/ CompleteKey(e)
  BY <1>3, <1>4, Zenon DEF MarkWrite, CompleteKey
<1>5. CASE CommitWrite(e)
  <2>1. /\ a.pc = "commit"
        /\ \/ \E o : Becomes(e, Leaving(a, o))
           \/ result \in {"ok", "noop"} /\ a.outcome = "SUCCEEDED" /\ Becomes(e, r)
    BY <1>5, Zenon DEF CommitWrite
  <2>2. a.next \in Snapshot
    BY <1>1, <2>1, Zenon DEF Placed
  <2>3. b \in Attempt /\ b.w = a.w /\ b.fence = a.fence
    <3>1. b.fence = a.fence
      BY <1>1, Zenon DEF Persisted, Attempt
    <3> QED  BY <1>1, <2>2, <3>1, PersistedTyped, Zenon
  <2> HIDE DEF b
  <2>4. r.pc = "complete" /\ r.w = a.w /\ r.fence = a.fence
    BY <2>3, Zenon DEF Attempt
  <2>5. result \in {"ok", "noop"} => states'[a.w].state.status = a.next.status
    <3>1. TypeOK /\ a.w \in Workflows
      BY <1>1, <2>1, Zenon DEF Inv, Placed
    <3>2. Update(a.w, a.state.status, a.next, a.revision, a.fence)
      BY <1>5, Zenon DEF CommitWrite
    <3> QED  BY <3>1, <3>2, UpdateStores
  <2> HIDE DEF r, result
  <2> QED  BY <1>3, <2>1, <2>4, <2>5, Zenon DEF Commits
<1> QED  BY <1>4, <1>5, Zenon

\* Every step of an attempt is of one of the six kinds, and touches no other attempt.
LEMMA AttemptTurns ==
  ASSUME Inv, NEW e \in Attempts, AttemptStep(e) \/ Crash(e)
  PROVE  /\ Turns(e, att[e], att'[e])
         /\ \A d \in Attempts : d # e => att'[d] = att[d]
<1>1. PICK r : Becomes(e, r) /\ Turns(e, att[e], r)
  BY Zenon, StageTurns, EarlyTurns, AcquireTurns, RevisionTurns, WriteTurns, EndTurns
     DEF AttemptStep, Turns
<1>2. att \in [Attempts -> Attempt]
  BY Zenon DEF Inv, TypeOK
<1>3. att'[e] = r /\ \A d \in Attempts : d # e => att'[d] = att[d]
  BY <1>1, <1>2, Zenon DEF Becomes
<1> QED  BY <1>1, <1>3, Zenon

-----------------------------------------------------------------------------
(* The fence an attempt holds                                              *)

\* An attempt that holds a lease presents its own worker id, is RUNNING while it is
\* in the graph, and has prepared a snapshot for the write it is about to make.
Ordered(e, a) ==
  /\ a.pc \in HoldingPc => a.fence.owner_id = WorkerOf[e]
  /\ a.pc \in GraphPc => a.state.status = "running"
  /\ Prepared(a)

AllOrdered == \A e \in Attempts : Ordered(e, att[e])

\* No attempt holds anything initially.
LEMMA OrderedInit == Init => AllOrdered
  BY SMTT(30) DEF Init, AllOrdered, Ordered, Idle, HoldingPc, GraphPc, Prepared

\* Each of the six turns keeps the order.
LEMMA OrderedTurn ==
  ASSUME NEW e \in Attempts, NEW a \in Attempt, NEW r, Placed(a), Ordered(e, a), Turns(e, a, r)
  PROVE  Ordered(e, r)
<1> USE DEF GraphPc, HoldingPc
<1>1. CASE Unleased(a, r)
  BY <1>1, Zenon DEF Unleased, Ordered, Prepared
<1>2. CASE Acquires(e, a, r)
  BY <1>2, Zenon DEF Acquires, Ordered, Prepared
<1>3. CASE Stays(a, r)
  BY <1>3, Zenon DEF Stays, Keeps, Ordered
<1>4. CASE Leaves(a, r)
  BY <1>4, Zenon DEF Leaves, Keeps, Ordered, Prepared
<1>5. CASE Writes(a, r)
  <2>1. r.pc # "advance_revision" => a.next.status = "running"
    BY <1>5, Zenon DEF Writes, Ordered, Prepared, Placed
  <2> QED  BY <1>5, <2>1, Zenon DEF Writes, Ordered, Prepared
<1>6. CASE Commits(a, r)
  BY <1>6, Zenon DEF Commits, Ordered, Prepared
<1> QED  BY <1>1, <1>2, <1>3, <1>4, <1>5, <1>6, Zenon DEF Turns

\* Steps that are no attempt's leave the attempts alone.
LEMMA OtherSteps ==
  ASSUME [Next]_vars
  PROVE  att' = att \/ \E e \in Attempts : AttemptStep(e) \/ Crash(e)
  BY Zenon DEF Next, CancelStep, vars, CancelGet, CancelRevision, CancelWrite, OperatorCleanup, Tick

\* Every step keeps every attempt in order.
LEMMA OrderedNext == Inv /\ AllOrdered /\ [Next]_vars => AllOrdered'
<1> SUFFICES ASSUME Inv, AllOrdered, [Next]_vars PROVE AllOrdered'
  BY Zenon
<1>1. CASE att' = att
  BY <1>1, Zenon DEF AllOrdered
<1>2. ASSUME NEW e \in Attempts, AttemptStep(e) \/ Crash(e)
      PROVE  AllOrdered'
  <2>1. Turns(e, att[e], att'[e]) /\ \A d \in Attempts : d # e => att'[d] = att[d]
    BY <1>2, AttemptTurns, Zenon
  <2>2. att[e] \in Attempt /\ Placed(att[e])
    BY InvAttempt, Zenon DEF Good
  <2>3. Ordered(e, att[e])
    BY Zenon DEF AllOrdered
  <2>4. Ordered(e, att'[e])
    BY <2>1, <2>2, <2>3, OrderedTurn, Zenon
  <2> QED  BY <2>1, <2>4, Zenon DEF AllOrdered
<1> QED  BY <1>1, <1>2, OtherSteps, Zenon

-----------------------------------------------------------------------------
(* The owner of a lease works on the stored snapshot                       *)

\* Every attempt runs on a runtime with a worker id of its own.
DistinctWorkers == \A e, f \in Attempts : e # f => WorkerOf[e] # WorkerOf[f]

NoneCancelled == \A c \in Cancels : cancels[c].result # "CANCELLED"

\* A call of cancel() that has not returned has no result yet.
PendingCancels == \A c \in Cancels : cancels[c].pc # "done" => cancels[c].result = "pending"

\* The stored workflow of an owner in the graph is RUNNING, and unless a cancel() has
\* written, it is the owner's copy.
Owned(e) ==
  InGraph(e) /\ Owns(e) =>
    /\ states[att[e].w].state.status = "running"
    /\ NoneCancelled => states[att[e].w].state = att[e].state

OwnerInv == AllOrdered /\ PendingCancels /\ \A e \in Attempts : Owned(e)

\* The clock only advances, and leases change in four ways.
LEMMA ClockStep ==
  ASSUME Inv, [Next]_vars
  PROVE  now \in Nat /\ (now' = now \/ now' = now + 1)
<1>1. now \in Nat
  BY Zenon DEF Inv, TypeOK
<1>2. CASE OperatorCleanup \/ Tick
  BY <1>1, <1>2, Zenon DEF OperatorCleanup, Tick
<1> QED  BY <1>1, <1>2, AttemptFrame, CancelFrame, Zenon DEF Next, vars

\* The steps that can change a lease.
LEMMA LeasesStep ==
  ASSUME [Next]_vars
  PROVE  \/ leases' = leases
         \/ \E e \in Attempts : AcquireLease(e) \/ EnterStage(e) \/ ReleaseLease(e)
         \/ OperatorCleanup
  BY AttemptFrame, CancelFrame, Zenon DEF Next, vars, Tick

\* A lease that is valid after a step was valid before it, for an attempt that had
\* one: nobody else can give an attempt its lease back.
LEMMA OwnershipLasts ==
  ASSUME DistinctWorkers, Inv, AllOrdered, [Next]_vars, NEW d \in Attempts,
         att[d].pc \in HoldingPc, att'[d].w = att[d].w, att'[d].fence = att[d].fence,
         Owns(d)'
  PROVE  Owns(d)
<1> DEFINE w == att[d].w
           f == att[d].fence
<1>1. /\ leases \in [Workflows -> Lease] /\ now \in Nat /\ Tolerance \in Nat
      /\ att \in [Attempts -> Attempt]
  BY StoreAssumption, Zenon DEF Inv, TypeOK
<1>2. w \in Workflows /\ f.owner_id = WorkerOf[d]
  BY Zenon DEF Inv, Placed, AllOrdered, Ordered, HoldingPc, GraphPc
<1>3. /\ leases'[w].owner_id = f.owner_id
      /\ leases'[w].fencing_token = f.fencing_token
      /\ leases'[w].expires_at > now' + Tolerance
  BY Zenon DEF Owns, FenceHolds
<1> HIDE DEF w, f
<1>4. CASE leases'[w] = leases[w]
  <2>1. leases[w].expires_at \in Nat
    BY <1>1, <1>2, Zenon DEF Lease
  <2>2. leases[w].expires_at > now + Tolerance
    BY <1>1, <1>3, <1>4, <2>1, ClockStep
  <2> QED  BY <1>3, <1>4, <2>2, Zenon DEF Owns, FenceHolds, w, f
<1>5. ASSUME NEW e \in Attempts, AcquireLease(e)
      PROVE  leases'[w] = leases[w]
  <2>1. e # d
    BY <1>5, Zenon DEF AcquireLease, HoldingPc, GraphPc
  <2>2. att[e].w \in Workflows
    BY <1>5, Zenon DEF Inv, Placed, AcquireLease
  <2>3. \/ leases' = leases
        \/ leases' = [leases EXCEPT ![att[e].w] =
                        [owner_id |-> WorkerOf[e],
                         fencing_token |-> leases[att[e].w].fencing_token + 1,
                         expires_at |-> now + LeaseTTL]]
    BY <1>5, Zenon DEF AcquireLease, Acquire
  <2>4. WorkerOf[e] # WorkerOf[d]
    BY <2>1, Zenon DEF DistinctWorkers
  <2> QED  BY <1>1, <1>2, <1>3, <2>2, <2>3, <2>4
<1>6. ASSUME NEW e \in Attempts, EnterStage(e), leases' # leases
      PROVE  leases'[w] = leases[w] \/ Owns(d)
  <2>1. att[e].w \in Workflows /\ att[e].fence.owner_id = WorkerOf[e]
    BY <1>6, Zenon DEF Inv, Placed, AllOrdered, Ordered, EnterStage, HoldingPc, GraphPc
  <2>2. /\ FenceHolds(att[e].w, att[e].fence)
        /\ leases' = [leases EXCEPT ![att[e].w] =
                        [leases[att[e].w] EXCEPT !.expires_at = now + LeaseTTL]]
    BY <1>6, Zenon DEF EnterStage, Renew, RenewResult
  <2>3. CASE att[e].w # w
    BY <1>1, <1>2, <2>1, <2>2, <2>3, Zenon
  <2>4. CASE att[e].w = w
    <3>1. leases'[w] = [leases[w] EXCEPT !.expires_at = now + LeaseTTL]
      BY <1>1, <1>2, <2>2, <2>4, Zenon
    <3>2. leases'[w].owner_id = leases[w].owner_id
      BY <1>1, <1>2, <3>1, Zenon DEF Lease
    <3>3. WorkerOf[e] = WorkerOf[d]
      BY <1>2, <1>3, <2>1, <2>2, <2>4, <3>2, Zenon DEF FenceHolds
    <3>4. e = d
      BY <3>3, Zenon DEF DistinctWorkers
    <3> QED  BY <2>2, <3>4, Zenon DEF Owns
  <2> QED  BY <2>3, <2>4, Zenon
<1>7. WorkerOf[d] # "nobody"
  BY AttemptAssumption, Zenon
<1>8. ASSUME NEW e \in Attempts, ReleaseLease(e)
      PROVE  leases'[w] = leases[w]
  <2>1. leases' = leases \/ leases' = [leases EXCEPT ![att[e].w] = NoLease]
    BY <1>8, Zenon DEF ReleaseLease, Release
  <2>2. NoLease.owner_id = "nobody"
    BY Zenon DEF NoLease
  <2> QED  BY <1>1, <1>2, <1>3, <1>7, <2>1, <2>2, Zenon
<1>9. CASE OperatorCleanup
  <2>1. PICK L \in SUBSET Workflows :
          leases' = [x \in Workflows |-> IF x \in L THEN NoLease ELSE leases[x]]
    BY <1>9, CleanupStates, Zenon DEF OperatorCleanup
  <2>2. NoLease.owner_id = "nobody"
    BY Zenon DEF NoLease
  <2> QED  BY <1>1, <1>2, <1>3, <1>4, <1>7, <2>1, <2>2, Zenon
<1> QED  BY <1>4, <1>5, <1>6, <1>8, <1>9, LeasesStep, Zenon

\* No other attempt gets past the fence of an owner.
LEMMA OthersKeepOut ==
  ASSUME DistinctWorkers, Inv, AllOrdered, NEW d \in Attempts, NEW e \in Attempts, e # d,
         InGraph(d), Owns(d), states[att[d].w].state.status = "running",
         AttemptStep(e) \/ Crash(e)
  PROVE  states'[att[d].w] = states[att[d].w]
<1> DEFINE a == att[e]
           w == att[d].w
<1>1. TypeOK /\ Placed(a) /\ states \in [Workflows -> Row \cup {NoRow}]
  BY Zenon DEF Inv, TypeOK
<1>2. w \in Workflows /\ leases[w].owner_id = WorkerOf[d]
  <2>1. att[d].pc \in GraphPc
    BY Zenon DEF InGraph, GraphPc
  <2>2. w \in Workflows /\ att[d].fence.owner_id = WorkerOf[d]
    BY <2>1, Zenon DEF Inv, Placed, AllOrdered, Ordered, HoldingPc, GraphPc
  <2> QED  BY <2>2, Zenon DEF Owns, FenceHolds
<1>3. CASE CreateState(e)
  <2> DEFINE created == NewState(Request, CompatOf[e], now + Duration)
  <2>1. a.w \in Workflows /\ Create(a.w, created)
    BY <1>1, <1>3, Zenon DEF CreateState, Placed
  <2>2. states[w] # NoRow
    BY DEF NoRow, NoState
  <2> HIDE DEF created
  <2> QED  BY <1>1, <1>2, <2>1, <2>2, Zenon DEF Create, CreateResult
<1>4. CASE AdvanceWrite(e) \/ CheckpointWrite(e) \/ MarkWrite(e) \/ CommitWrite(e)
  <2>1. Update(a.w, a.state.status, a.next, a.revision, a.fence)
    BY <1>4, Zenon DEF AdvanceWrite, CheckpointWrite, MarkWrite, CommitWrite
  <2>2. a.pc \in {"advance", "checkpoint", "mark", "commit"}
    BY <1>4, Zenon DEF AdvanceWrite, CheckpointWrite, MarkWrite, CommitWrite
  <2>3. a.w \in Workflows /\ a.fence.owner_id = WorkerOf[e]
    BY <1>1, <2>2, Zenon DEF Placed, AllOrdered, Ordered, HoldingPc, GraphPc
  <2>4. CASE UpdateResult(a.w, a.state.status, a.next, a.revision, a.fence) = "ok"
    <3>1. UpdateMatches(a.w, a.state.status, a.revision, a.fence)
      BY <1>1, <2>1, <2>3, <2>4, UpdateStores
    <3>2. a.fence # NoFence
      BY <2>3, AttemptAssumption DEF NoFence
    <3>3. leases[a.w].owner_id = WorkerOf[e]
      BY <2>3, <3>1, <3>2, Zenon DEF UpdateMatches, FenceHolds
    <3>4. a.w # w
      BY <1>2, <3>3, Zenon DEF DistinctWorkers
    <3> QED  BY <1>1, <1>2, <2>1, <2>3, <3>4, UpdateStores
  <2>5. CASE UpdateResult(a.w, a.state.status, a.next, a.revision, a.fence) # "ok"
    BY <1>1, <2>1, <2>3, <2>5, UpdateStores
  <2> QED  BY <2>4, <2>5, Zenon
<1>5. CASE \/ GetIdempotency(e) \/ ReserveKey(e) \/ GetCheckpoint(e) \/ AcquireLease(e)
           \/ AdvanceRevision(e) \/ EnterStage(e) \/ ProviderAnswers(e)
           \/ AdapterAnswers(e) \/ AdapterRetries(e) \/ MarkRevision(e)
           \/ CommitRevision(e) \/ CompleteKey(e) \/ ReleaseLease(e) \/ Crash(e)
  BY <1>5, Zenon DEF GetIdempotency, ReserveKey, GetCheckpoint, AcquireLease, AdvanceRevision,
              EnterStage, ProviderAnswers, AdapterAnswers, AdapterRetries, MarkRevision,
              CommitRevision, CompleteKey, ReleaseLease, Crash
<1> QED  BY <1>3, <1>4, <1>5, Zenon DEF AttemptStep

\* cancel() rewrites a row under the status it has, and says so.
LEMMA CancelKeepsStatus ==
  ASSUME Inv, NEW c \in Cancels, CancelStep(c), NEW w \in Workflows
  PROVE  /\ states'[w].state.status = states[w].state.status
         /\ states'[w] = states[w] \/ ~NoneCancelled'
<1> DEFINE r == cancels[c]
           n == MarkCancelled(r.state)
           result == UpdateResult(r.w, r.state.status, n, r.revision, NoFence)
<1>1. TypeOK /\ cancels \in [Cancels -> Cancel]
  BY Zenon DEF Inv, TypeOK
<1>2. CASE CancelWrite(c)
  <2>1. r.w \in Workflows /\ r.state \in Snapshot /\ CheckpointCheck(r.state) = "ok"
    BY <1>2, Zenon DEF Inv, PlacedCancel, CancelWrite
  <2>2. n.status = r.state.status
    BY <2>1, MarkTyped, Zenon
  <2>3. Update(r.w, r.state.status, n, r.revision, NoFence)
    BY <1>2, Zenon DEF CancelWrite
  <2>4. cancels' = [cancels EXCEPT ![c] = Answered(IF result = "ok" THEN "CANCELLED" ELSE "RAISED")]
    BY <1>2, Zenon DEF CancelWrite, BecomesCancel
  <2> HIDE DEF n
  <2>5. CASE result = "ok"
    <3>1. /\ states'[r.w].state = n /\ UpdateMatches(r.w, r.state.status, r.revision, NoFence)
          /\ \A u \in Workflows : u # r.w => states'[u] = states[u]
      BY <1>1, <2>1, <2>3, <2>5, UpdateStores
    <3>2. cancels'[c] = Answered("CANCELLED")
      BY <1>1, <2>4, <2>5, Zenon
    <3>3. cancels'[c].result = "CANCELLED"
      BY <3>2, Zenon DEF Answered, IdleCancel
    <3>4. states'[r.w].state.status = states[r.w].state.status
      BY <2>2, <3>1, Zenon DEF UpdateMatches
    <3> QED  BY <3>1, <3>3, <3>4, Zenon DEF NoneCancelled
  <2>6. CASE result # "ok"
    BY <1>1, <2>1, <2>3, <2>6, UpdateStores
  <2> QED  BY <2>5, <2>6, Zenon
<1>3. CASE CancelGet(c) \/ CancelRevision(c)
  BY <1>3, Zenon DEF CancelGet, CancelRevision
<1> QED  BY <1>2, <1>3, Zenon DEF CancelStep

\* What is stored for an owner in the graph that does not move itself.
LEMMA StoredForOwner ==
  ASSUME DistinctWorkers, Inv, AllOrdered, [Next]_vars, NEW d \in Attempts,
         InGraph(d), Owns(d), states[att[d].w].state.status = "running",
         ~(AttemptStep(d) \/ Crash(d))
  PROVE  /\ states'[att[d].w].state.status = "running"
         /\ states'[att[d].w] = states[att[d].w] \/ ~NoneCancelled'
<1>1. att[d].w \in Workflows
  BY Zenon DEF Inv, Placed, InGraph
<1>2. ASSUME NEW e \in Attempts, AttemptStep(e) \/ Crash(e)
      PROVE  states'[att[d].w] = states[att[d].w]
  BY <1>2, OthersKeepOut, Zenon
<1>3. ASSUME NEW c \in Cancels, CancelStep(c)
      PROVE  /\ states'[att[d].w].state.status = "running"
             /\ states'[att[d].w] = states[att[d].w] \/ ~NoneCancelled'
  BY <1>1, <1>3, CancelKeepsStatus, Zenon
<1>4. CASE OperatorCleanup
  <2>1. PICK W \in SUBSET {w \in Workflows : states[w].state.status \in TERMINAL_STATUSES} :
          states' = [w \in Workflows |-> IF w \in W THEN NoRow ELSE states[w]]
    BY <1>4, CleanupStates, Zenon DEF OperatorCleanup, RowsExpire
  <2>2. att[d].w \notin W
    BY <2>1, Zenon DEF TERMINAL_STATUSES
  <2> QED  BY <1>1, <2>1, <2>2, Zenon
<1>5. CASE Tick \/ UNCHANGED vars
  BY <1>5, Zenon DEF Tick, vars
<1> QED  BY <1>2, <1>3, <1>4, <1>5, Zenon DEF Next

\* A result of cancel() is final.
LEMMA CancelsStep ==
  ASSUME Inv, PendingCancels, [Next]_vars
  PROVE  PendingCancels' /\ (NoneCancelled' => NoneCancelled)
<1>1. cancels \in [Cancels -> Cancel]
  BY Zenon DEF Inv, TypeOK
<1>2. CASE cancels' = cancels
  BY <1>2, Zenon DEF PendingCancels, NoneCancelled
<1>3. ASSUME NEW c \in Cancels, CancelStep(c)
      PROVE  PendingCancels' /\ (NoneCancelled' => NoneCancelled)
  <2>1. cancels[c].pc # "done"
    BY <1>3, Zenon DEF CancelStep, CancelGet, CancelRevision, CancelWrite
  <2>2. cancels[c].result = "pending"
    BY <2>1, Zenon DEF PendingCancels
  <2>3. \E r : BecomesCancel(c, r) /\ (r.pc # "done" => r.result = "pending")
    <3>1. ASSUME NEW x
          PROVE  Answered(x).pc = "done"
      BY Zenon DEF Answered, IdleCancel
    <3>2. cancels[c] \in Cancel
      BY <1>1, Zenon
    <3>3. CASE CancelGet(c)
      <4>1. PICK w \in Workflows :
              \/ \E x : BecomesCancel(c, Answered(x))
              \/ BecomesCancel(c, [cancels[c] EXCEPT !.pc = "revision", !.w = w,
                                                     !.state = states[w].state])
        BY <3>3, Zenon DEF CancelGet
      <4>2. [cancels[c] EXCEPT !.pc = "revision", !.w = w,
                               !.state = states[w].state].result = "pending"
        BY <2>2, <3>2, Zenon DEF Cancel
      <4> QED  BY <3>1, <4>1, <4>2, Zenon
    <3>4. CASE CancelRevision(c)
      <4> DEFINE q == [cancels[c] EXCEPT !.pc = "update",
                                         !.revision = states[cancels[c].w].revision]
      <4>1. BecomesCancel(c, q)
        BY <3>4, Zenon DEF CancelRevision
      <4>2. q.result = "pending"
        BY <2>2, <3>2, Zenon DEF Cancel
      <4> HIDE DEF q
      <4> QED  BY <4>1, <4>2, Zenon
    <3>5. CASE CancelWrite(c)
      <4>1. \E x : BecomesCancel(c, Answered(x))
        BY <3>5, Zenon DEF CancelWrite
      <4> QED  BY <3>1, <4>1, Zenon
    <3> QED  BY <1>3, <3>3, <3>4, <3>5, Zenon DEF CancelStep
  <2>4. PICK r : BecomesCancel(c, r) /\ (r.pc # "done" => r.result = "pending")
    BY <2>3, Zenon
  <2>5. cancels'[c] = r /\ \A x \in Cancels : x # c => cancels'[x] = cancels[x]
    BY <1>1, <2>4, Zenon DEF BecomesCancel
  <2>6. PendingCancels'
    BY <2>4, <2>5, Zenon DEF PendingCancels
  <2>7. NoneCancelled' => NoneCancelled
    BY <2>2, <2>5, Zenon DEF NoneCancelled
  <2> QED  BY <2>6, <2>7, Zenon
<1>4. \/ cancels' = cancels
      \/ \E c \in Cancels : CancelStep(c)
  <2>1. CASE OperatorCleanup \/ Tick
    BY <2>1, Zenon DEF OperatorCleanup, Tick
  <2> QED  BY AttemptFrame, <2>1, Zenon DEF Next, vars
<1> QED  BY <1>2, <1>3, <1>4, Zenon

\* The owner's own steps keep its copy and the row together.
LEMMA OwnedNext ==
  ASSUME DistinctWorkers, Inv, OwnerInv, [Next]_vars
  PROVE  OwnerInv'
<1>1. AllOrdered /\ PendingCancels /\ AllOrdered' /\ PendingCancels'
  BY OrderedNext, CancelsStep, Zenon DEF OwnerInv
<1>2. ASSUME NEW d \in Attempts, InGraph(d)', Owns(d)'
      PROVE  /\ states'[att'[d].w].state.status = "running"
             /\ NoneCancelled' => states'[att'[d].w].state = att'[d].state
  <2>0. Owned(d)
    BY Zenon DEF OwnerInv
  <2>1. Ordered(d, att[d])'
    BY <1>1, Zenon DEF AllOrdered
  <2>2. att'[d].pc \in GraphPc
    BY <1>2, Zenon DEF InGraph, GraphPc
  <2>3. CASE AttemptStep(d) \/ Crash(d)
    <3>1. Turns(d, att[d], att'[d]) /\ cancels' = cancels
      BY <2>3, AttemptTurns, AttemptFrame, Zenon
    <3>2. CASE Stays(att[d], att'[d])
      <4>1. /\ att[d].pc \in GraphPc /\ att[d].pc \in HoldingPc /\ Keeps(att[d], att'[d])
            /\ states' = states
        BY <2>2, <3>2, Zenon DEF Stays, HoldingPc
      <4>2. Owns(d) /\ InGraph(d)
        BY <1>1, <1>2, <4>1, OwnershipLasts, Zenon DEF Keeps, InGraph, GraphPc
      <4> QED  BY <2>0, <3>1, <4>1, <4>2, Zenon DEF Owned, Keeps, NoneCancelled
    <3>3. CASE Writes(att[d], att'[d])
      <4>1. states'[att'[d].w].state = att'[d].state
        BY <3>3, Zenon DEF Writes
      <4>2. att'[d].state.status = "running"
        BY <2>1, <2>2, Zenon DEF Ordered
      <4> QED  BY <4>1, <4>2, Zenon
    <3>4. ~(Unleased(att[d], att'[d]) \/ Acquires(d, att[d], att'[d]) \/ Leaves(att[d], att'[d])
              \/ Commits(att[d], att'[d]))
      BY <2>2, Zenon DEF Unleased, Acquires, Leaves, Commits, GraphPc, HoldingPc
    <3> QED  BY <3>1, <3>2, <3>3, <3>4, Zenon DEF Turns
  <2>4. CASE ~(AttemptStep(d) \/ Crash(d))
    <3>1. att'[d] = att[d]
      <4>1. ASSUME NEW e \in Attempts, AttemptStep(e) \/ Crash(e)
            PROVE  att'[d] = att[d]
        <5>1. e # d
          BY <2>4, <4>1, Zenon
        <5>2. \A x \in Attempts : x # e => att'[x] = att[x]
          BY <4>1, AttemptTurns, Zenon
        <5> QED  BY <5>1, <5>2, Zenon
      <4>2. att' = att \/ \E e \in Attempts : AttemptStep(e) \/ Crash(e)
        BY OtherSteps, Zenon
      <4> QED  BY <4>1, <4>2, Zenon
    <3>2. InGraph(d) /\ att[d].pc \in HoldingPc
      BY <2>2, <3>1, Zenon DEF InGraph, GraphPc, HoldingPc
    <3>3. Owns(d)
      BY <1>1, <1>2, <3>1, <3>2, OwnershipLasts, Zenon
    <3>4. /\ states[att[d].w].state.status = "running"
          /\ NoneCancelled => states[att[d].w].state = att[d].state
      BY <2>0, <3>2, <3>3, Zenon DEF Owned
    <3>5. /\ states'[att[d].w].state.status = "running"
          /\ states'[att[d].w] = states[att[d].w] \/ ~NoneCancelled'
      BY <1>1, <2>4, <3>2, <3>3, <3>4, StoredForOwner, Zenon
    <3>6. NoneCancelled' => NoneCancelled
      BY <1>1, CancelsStep, Zenon
    <3> QED  BY <3>1, <3>4, <3>5, <3>6, Zenon
  <2> QED  BY <2>3, <2>4, Zenon
<1> QED  BY <1>1, <1>2, Zenon DEF OwnerInv, Owned

\* Initially no attempt is in the graph.
LEMMA OwnedInit == Init => OwnerInv
<1> SUFFICES ASSUME Init PROVE OwnerInv
  BY Zenon
<1>1. PendingCancels
  BY Zenon DEF Init, PendingCancels, IdleCancel
<1>2. \A e \in Attempts : ~InGraph(e)
  BY Zenon DEF Init, InGraph, Idle
<1> QED  BY <1>1, <1>2, OrderedInit, Zenon DEF OwnerInv, Owned

\* For any number of attempts on runtimes of their own, with crashes, lease expiry,
\* takeovers and cleanups: as long as no cancel() has written, an attempt whose lease is
\* valid works on the snapshot that is stored.
THEOREM DurableOwnerHasCurrentState ==
  ASSUME DistinctWorkers
  PROVE  Spec => []OwnerHasCurrentState
<1>1. Inv /\ OwnerInv /\ [Next]_vars => OwnerInv'
  BY OwnedNext, Zenon
<1>2. OwnerInv => OwnerHasCurrentState
  BY Zenon DEF OwnerInv, Owned, OwnerHasCurrentState, NoneCancelled
<1> QED  BY <1>1, <1>2, OwnedInit, InvHolds, PTL DEF Spec

-----------------------------------------------------------------------------
(* Adapter work                                                            *)

\* Only a step of the attempt itself changes its record.
LEMMA OwnStep ==
  ASSUME Inv, [Next]_vars, NEW e \in Attempts, att'[e] # att[e]
  PROVE  AttemptStep(e) \/ Crash(e)
<1>1. PICK f \in Attempts : AttemptStep(f) \/ Crash(f)
  BY OtherSteps, Zenon
<1>2. \A d \in Attempts : d # f => att'[d] = att[d]
  BY <1>1, AttemptTurns, Zenon
<1> QED  BY <1>1, <1>2, Zenon

\* The first adapter call of an attempt is preceded, in the same step, by a renewal
\* that the store has accepted.
LEMMA StartRenews ==
  ASSUME Inv, [Next]_vars, NEW e \in Attempts, StartsAdapterWork(e)
  PROVE  /\ Keeps(att[e], att'[e]) /\ Owns(e)
         /\ leases'[att[e].w] = [leases[att[e].w] EXCEPT !.expires_at = now + LeaseTTL]
         /\ now' = now
<1> DEFINE a == att[e]
           longer == [a EXCEPT !.expires = now + LeaseTTL]
           renewed == IF RenewalDue(a) THEN longer ELSE a
<1>1. a.pc = "stage" /\ att'[e].pc = "adapter"
  BY Zenon DEF StartsAdapterWork, CallsAdapter
<1>2. AttemptStep(e) \/ Crash(e)
  BY <1>1, OwnStep, Zenon
<1>3. a \in Attempt /\ a.w \in Workflows /\ att \in [Attempts -> Attempt]
      /\ leases \in [Workflows -> Lease]
  BY <1>1, InvAttempt, Zenon DEF Good, Placed, TypeOK
<1>4. EnterStage(e)
  <2>1. ~Crash(e)
    <3>1. SUFFICES ASSUME Crash(e) PROVE FALSE
      BY Zenon
    <3>2. att'[e] = [Idle EXCEPT !.pc = "crashed", !.w = a.w]
      BY <1>3, <3>1, Zenon DEF Crash, Becomes
    <3> QED  BY <1>1, <3>2, Zenon DEF Idle
  <2> QED  BY <1>1, <1>2, <2>1 DEF AttemptStep, GetIdempotency, ReserveKey, GetCheckpoint,
              CreateState, AcquireLease, AdvanceRevision, AdvanceWrite, ProviderAnswers,
              AdapterAnswers, AdapterRetries, CheckpointWrite, MarkRevision, MarkWrite,
              CommitRevision, CommitWrite, CompleteKey, ReleaseLease
<1>5. \A r : Becomes(e, r) => att'[e] = r
  BY <1>3, Zenon DEF Becomes
<1>6. \A b : Ended(a, b).pc # "adapter"
  BY <1>3, EndedKeeps, Zenon
<1>7. /\ att'[e] \in FirstCall(renewed)
      /\ RenewalDue(a) => RenewResult(a.w, a.fence) = "ok" /\ Renew(a.w, a.fence, now + LeaseTTL)
  BY <1>1, <1>4, <1>5, <1>6, Zenon DEF EnterStage
<1>8. renewed \in Attempt /\ Keeps(a, renewed) /\ renewed.stage = a.stage
  <2>1. now + LeaseTTL \in Nat
    BY AttemptAssumption DEF Inv, TypeOK
  <2>2. longer \in Attempt /\ Keeps(a, longer) /\ longer.stage = a.stage
    BY <1>3, <2>1, Zenon DEF Attempt, Keeps
  <2> QED  BY <1>3, <2>2, Zenon DEF Keeps
<1> HIDE DEF renewed
<1>9. Keeps(a, att'[e])
  <2>1. Keeps(renewed, att'[e])
    BY <1>7, <1>8, FirstCallKeeps, Zenon
  <2> QED  BY <1>8, <2>1, Zenon DEF Keeps
<1>10. a.stage = "execute"
  <2>1. SUFFICES ASSUME renewed.stage # "execute" PROVE FALSE
    BY <1>8, Zenon
  <2>2. CASE renewed.stage = "intent"
    <3>1. att'[e] = [renewed EXCEPT !.pc = "provider"]
      BY <1>7, <2>2, Zenon DEF FirstCall
    <3> QED  BY <1>1, <1>8, <3>1, Zenon DEF Attempt
  <2>3. CASE renewed.stage # "intent"
    <3>1. att'[e] \in NodeResults(renewed)
      BY <1>7, <2>1, <2>3, Zenon DEF FirstCall
    <3>2. att'[e].pc \in RanPc
      BY <1>8, <3>1, NodeResultsKeep, Zenon
    <3> QED  BY <1>1, <3>2, Zenon DEF RanPc
  <2> QED  BY <2>2, <2>3, Zenon
<1>11. RenewalDue(a)
  BY <1>10, Zenon DEF RenewalDue
<1>12. Owns(e)
  BY <1>7, <1>11, Zenon DEF RenewResult, Owns
<1>13. leases' = [leases EXCEPT ![a.w] = [leases[a.w] EXCEPT !.expires_at = now + LeaseTTL]]
  BY <1>7, <1>11, Zenon DEF Renew
<1>14. now' = now
  BY <1>4, Zenon DEF EnterStage
<1> QED  BY <1>3, <1>9, <1>12, <1>13, <1>14, Zenon

\* Whatever takeovers, expiries and crashes interleave, the first adapter call of an
\* attempt is made under a valid lease, provided that a lease outlives the clock
\* tolerance (a lease of no more than the tolerance is never valid).
THEOREM DurableOwnerStartsAdapterWork ==
  ASSUME Tolerance < LeaseTTL
  PROVE  Spec => OwnerStartsAdapterWork
<1>1. ASSUME Inv, [Next]_vars, NEW e \in Attempts, StartsAdapterWork(e)
      PROVE  Owns(e)'
  <2>1. /\ Keeps(att[e], att'[e]) /\ Owns(e) /\ now' = now
        /\ leases'[att[e].w] = [leases[att[e].w] EXCEPT !.expires_at = now + LeaseTTL]
    BY <1>1, StartRenews, Zenon
  <2>2. leases \in [Workflows -> Lease] /\ now \in Nat
    BY <1>1, Zenon DEF Inv, TypeOK
  <2>3. att[e].w \in Workflows
    BY <1>1, Zenon DEF Inv, Placed, StartsAdapterWork
  <2>4. leases[att[e].w] \in Lease
    BY <2>2, <2>3, Zenon
  <2>5. /\ leases'[att[e].w].owner_id = leases[att[e].w].owner_id
        /\ leases'[att[e].w].fencing_token = leases[att[e].w].fencing_token
        /\ leases'[att[e].w].expires_at = now + LeaseTTL
    BY <2>1, <2>4, Zenon DEF Lease
  <2>6. now + LeaseTTL > now + Tolerance
    BY <2>2, AttemptAssumption, StoreAssumption
  <2> QED  BY <2>1, <2>5, <2>6, Zenon DEF Owns, FenceHolds, Keeps
<1>2. Inv /\ [Next]_vars
        => [\A e \in Attempts : StartsAdapterWork(e) => Owns(e)']_vars
  BY <1>1, Zenon
<1> QED  BY <1>2, InvHolds, PTL DEF Spec, OwnerStartsAdapterWork

-----------------------------------------------------------------------------
(* Completion                                                              *)

\* An attempt that has reserved the key and not yet returned.
InFlight(e) == att[e].pc \notin {"get_idempotency", "reserve", "done", "crashed"}

\* The operator keeps the row of a workflow for as long as an attempt at it is in
\* flight.
RowsOutliveAttempts ==
  \A e \in Attempts : InFlight(e) /\ states[att[e].w] # NoRow => states'[att[e].w] # NoRow

\* Only create() makes a row out of none.
LEMMA RowCreated ==
  ASSUME Inv, [Next]_vars, NEW w \in Workflows, states[w] = NoRow, states'[w] # NoRow
  PROVE  \E e \in Attempts : CreateState(e) /\ att[e].w = w
<1>1. TypeOK /\ states \in [Workflows -> Row \cup {NoRow}]
  BY Zenon DEF Inv, TypeOK
<1>2. ASSUME NEW u \in Workflows, NEW s, NEW n, NEW v, NEW f, Update(u, s, n, v, f)
      PROVE  FALSE
  <2>1. UpdateResult(u, s, n, v, f) = "ok" /\ states[u] # NoRow /\ states'[w] = states[w]
    BY <1>1, <1>2, UpdateStores, Zenon
  <2> QED  BY <2>1, Zenon
<1>3. ASSUME NEW e \in Attempts, AttemptStep(e) \/ Crash(e)
      PROVE  CreateState(e) /\ att[e].w = w
  <2>1. CASE CreateState(e)
    <3>1. att[e].w \in Workflows
      BY <2>1, Zenon DEF Inv, Placed, CreateState
    <3>2. \/ states' = states
          \/ \E row : states' = [states EXCEPT ![att[e].w] = row]
      BY <2>1, Zenon DEF CreateState, Create
    <3> QED  BY <1>1, <2>1, <3>1, <3>2
  <2>2. CASE AdvanceWrite(e) \/ CheckpointWrite(e) \/ MarkWrite(e) \/ CommitWrite(e)
    <3>1. att[e].w \in Workflows
      BY <2>2, Zenon DEF Inv, Placed, AdvanceWrite, CheckpointWrite, MarkWrite, CommitWrite
    <3>2. Update(att[e].w, att[e].state.status, att[e].next, att[e].revision, att[e].fence)
      BY <2>2, Zenon DEF AdvanceWrite, CheckpointWrite, MarkWrite, CommitWrite
    <3> QED  BY <1>2, <3>1, <3>2, Zenon
  <2>3. CASE \/ GetIdempotency(e) \/ ReserveKey(e) \/ GetCheckpoint(e) \/ AcquireLease(e)
             \/ AdvanceRevision(e) \/ EnterStage(e) \/ ProviderAnswers(e)
             \/ AdapterAnswers(e) \/ AdapterRetries(e) \/ MarkRevision(e)
             \/ CommitRevision(e) \/ CompleteKey(e) \/ ReleaseLease(e) \/ Crash(e)
    <3>1. states' = states
      BY <2>3, Zenon DEF GetIdempotency, ReserveKey, GetCheckpoint, AcquireLease, AdvanceRevision,
              EnterStage, ProviderAnswers, AdapterAnswers, AdapterRetries, MarkRevision,
              CommitRevision, CompleteKey, ReleaseLease, Crash
    <3> QED  BY <3>1, Zenon
  <2> QED  BY <1>3, <2>1, <2>2, <2>3, Zenon DEF AttemptStep
<1>4. ASSUME NEW c \in Cancels, CancelStep(c) PROVE FALSE
  <2>1. CASE CancelWrite(c)
    <3>1. cancels[c].w \in Workflows
      BY <2>1, Zenon DEF Inv, PlacedCancel, CancelWrite
    <3>2. Update(cancels[c].w, cancels[c].state.status, MarkCancelled(cancels[c].state),
                 cancels[c].revision, NoFence)
      BY <2>1, Zenon DEF CancelWrite
    <3> QED  BY <1>2, <3>1, <3>2, Zenon
  <2>2. CASE CancelGet(c) \/ CancelRevision(c)
    BY <2>2, Zenon DEF CancelGet, CancelRevision
  <2> QED  BY <1>4, <2>1, <2>2, Zenon DEF CancelStep
<1>5. ASSUME OperatorCleanup PROVE FALSE
  BY <1>5, CleanupStates, Zenon DEF OperatorCleanup, RowsExpire
<1> QED  BY <1>3, <1>4, <1>5, Zenon DEF Next, Tick, vars

\* A row that is stored as succeeded stays so, or is cleaned up.
LEMMA SuccessStays ==
  ASSUME Inv, [Next]_vars, NEW w \in Workflows, states[w].state.status = "succeeded"
  PROVE  states'[w].state.status = "succeeded" \/ states'[w] = NoRow
<1>1. states \in [Workflows -> Row \cup {NoRow}]
  BY Zenon DEF Inv, TypeOK
<1>2. states[w] # NoRow
  BY DEF NoRow, NoState
<1>3. CASE RowAppears
  BY <1>1, <1>2, <1>3, Zenon DEF RowAppears
<1>4. CASE RowMoves
  <2>1. PICK u \in Workflows, row \in Row :
          /\ \/ row.state.status = states[u].state.status
             \/ row.state.status \in ALLOWED_TRANSITIONS[states[u].state.status]
          /\ states' = [states EXCEPT ![u] = row]
    BY <1>4, Zenon DEF RowMoves
  <2>2. CASE u = w
    <3>1. row.state.status = "succeeded"
      BY <2>1, <2>2 DEF ALLOWED_TRANSITIONS
    <3> QED  BY <1>1, <2>1, <2>2, <3>1, Zenon
  <2>3. CASE u # w
    BY <1>1, <2>1, <2>3, Zenon
  <2> QED  BY <2>2, <2>3, Zenon
<1>5. CASE RowsExpire
  BY <1>5, Zenon DEF RowsExpire
<1> QED  BY <1>3, <1>4, <1>5, StatesStep, Zenon

\* A key that is completed after a step was completed before, or is completed by an
\* attempt that has committed its success.
LEMMA KeyCompletes ==
  ASSUME Inv, [Next]_vars, keys'[Request].status = "completed"
  PROVE  \/ keys'[Request] = keys[Request]
         \/ \E e \in Attempts : /\ CompleteKey(e)
                                /\ keys'[Request].workflow_id = att[e].w
<1>1. keys \in [Keys -> Key \cup {NoKey}] /\ Request \in Keys
  BY AttemptAssumption, Zenon DEF Inv, TypeOK
<1>2. ASSUME NEW e \in Attempts, ReserveKey(e)
      PROVE  keys' = keys
  <2> DEFINE r == [request_id |-> Request, workflow_id |-> att[e].w, status |-> "reserved",
                   outcome |-> "none", expires_at |-> now + KeyTTL]
  <2>1. keys' = keys \/ keys' = [keys EXCEPT ![Request] = r]
    BY <1>2, Zenon DEF ReserveKey, Reserve
  <2>2. r.status # "completed"
    BY Zenon
  <2> HIDE DEF r
  <2> QED  BY <1>1, <2>1, <2>2, Zenon
<1>3. ASSUME NEW e \in Attempts, CompleteKey(e)
      PROVE  keys' = keys \/ keys'[Request].workflow_id = att[e].w
  <2> DEFINE r == [keys[Request] EXCEPT !.workflow_id = att[e].w, !.status = "completed",
                                        !.outcome = e]
  <2>1. \/ keys' = keys
        \/ keys[Request] # NoKey /\ keys' = [keys EXCEPT ![Request] = r]
    BY <1>3, Zenon DEF CompleteKey, Complete, CompleteResult
  <2>2. keys[Request] # NoKey => r.workflow_id = att[e].w
    BY <1>1, Zenon DEF Key
  <2> HIDE DEF r
  <2> QED  BY <1>1, <2>1, <2>2, Zenon
<1>4. CASE OperatorCleanup
  <2>1. PICK K \in SUBSET Keys : keys' = [k \in Keys |-> IF k \in K THEN NoKey ELSE keys[k]]
    BY <1>4, CleanupStates, Zenon DEF OperatorCleanup
  <2>2. NoKey.status # "completed"
    BY Zenon DEF NoKey
  <2> QED  BY <1>1, <2>1, <2>2, Zenon
<1>5. \/ keys' = keys
      \/ \E e \in Attempts : ReserveKey(e) \/ CompleteKey(e)
      \/ OperatorCleanup
  BY AttemptFrame, CancelFrame, Zenon DEF Next, vars, Tick
<1> QED  BY <1>2, <1>3, <1>4, <1>5, Zenon

\* What a completed key stands for: its workflow is stored as succeeded, or its row is
\* gone and no attempt is left that could create it again.
Vouched(w) ==
  \/ states[w].state.status = "succeeded"
  \/ /\ states[w] = NoRow
     /\ \A e \in Attempts : att[e].w = w => att[e].pc \notin {"get_checkpoint", "create"}

CompletionInv ==
  /\ AllOrdered
  /\ keys[Request].status = "completed" => Vouched(keys[Request].workflow_id)
  /\ \A e \in Attempts : att[e].pc = "complete" => states[att[e].w].state.status = "succeeded"

\* An attempt gets to the calls before create() only from there, or by a reservation
\* that finds the key not completed.
LEMMA CreatorsKnown ==
  ASSUME Inv, [Next]_vars, NEW e \in Attempts,
         att'[e].pc \in {"get_checkpoint", "create"}
  PROVE  /\ att'[e].w = att[e].w
         /\ att[e].pc \in {"get_checkpoint", "create"} \/ ReserveKey(e)
<1>1. CASE att'[e] = att[e]
  BY <1>1, Zenon
<1>2. CASE att'[e] # att[e]
  <2>1. AttemptStep(e) \/ Crash(e)
    BY <1>2, OwnStep, Zenon
  <2>2. Turns(e, att[e], att'[e])
    BY <2>1, AttemptTurns, Zenon
  <2>3. Unleased(att[e], att'[e])
    BY <2>2, Zenon DEF Turns, Acquires, Stays, Leaves, Writes, Commits, HoldingPc, GraphPc
  <2>4. att[e].pc \in {"reserve", "get_checkpoint", "create"} /\ att'[e].w = att[e].w
    BY <2>3 DEF Unleased
  <2>5. CASE att[e].pc = "reserve"
    <3>1. ~Crash(e)
      <4>1. SUFFICES ASSUME Crash(e) PROVE FALSE
        BY Zenon
      <4>2. att'[e] = [Idle EXCEPT !.pc = "crashed", !.w = att[e].w]
        BY <4>1, Zenon DEF Crash, Becomes, Inv, TypeOK
      <4> QED  BY <4>2, Zenon DEF Idle
    <3> QED  BY <2>1, <2>4, <2>5, <3>1, Zenon DEF AttemptStep, GetIdempotency, GetCheckpoint,
              CreateState, AcquireLease, AdvanceRevision, AdvanceWrite, EnterStage,
              ProviderAnswers, AdapterAnswers, AdapterRetries, CheckpointWrite, MarkRevision,
              MarkWrite, CommitRevision, CommitWrite, CompleteKey, ReleaseLease
  <2> QED  BY <2>4, <2>5, Zenon
<1> QED  BY <1>1, <1>2, Zenon

\* A reservation is followed by the read of the checkpoint, or by the answer.
LEMMA ReserveEnds ==
  ASSUME Inv, NEW e \in Attempts, ReserveKey(e)
  PROVE  att'[e].pc \in {"done", "get_checkpoint"}
<1>1. \E r : /\ Becomes(e, r)
             /\ r \in {Returned(att[e], "REJECTED"), Returned(att[e], "DUPLICATE"),
                       [att[e] EXCEPT !.pc = "get_checkpoint"]}
  BY Zenon DEF ReserveKey
<1>2. att \in [Attempts -> Attempt]
  BY Zenon DEF Inv, TypeOK
<1>3. att'[e] \in {Returned(att[e], "REJECTED"), Returned(att[e], "DUPLICATE"),
                   [att[e] EXCEPT !.pc = "get_checkpoint"]}
  BY <1>1, <1>2, Zenon DEF Becomes
<1>4. \A o : Returned(att[e], o).pc = "done"
  BY Zenon DEF Returned, Idle
<1>5. [att[e] EXCEPT !.pc = "get_checkpoint"].pc = "get_checkpoint"
  BY <1>2, Zenon DEF Attempt
<1> QED  BY <1>3, <1>4, <1>5, Zenon

\* A reservation that goes on to the checkpoint leaves a key that is not completed.
LEMMA ReservedIsOpen ==
  ASSUME Inv, NEW e \in Attempts, ReserveKey(e), att'[e].pc = "get_checkpoint"
  PROVE  /\ keys'[Request].status # "completed"
         /\ keys'[Request].workflow_id = att[e].w
         /\ keys'[Request] # NoKey
         /\ keys' = keys \/ keys[Request] = NoKey \/ keys[Request].expires_at <= now
<1> DEFINE a == att[e]
           result == ReserveResult(Request, Request, a.w, now)
           r == [request_id |-> Request, workflow_id |-> a.w, status |-> "reserved",
                 outcome |-> "none", expires_at |-> now + KeyTTL]
<1>1. keys \in [Keys -> Key \cup {NoKey}] /\ Request \in Keys /\ att \in [Attempts -> Attempt]
  BY AttemptAssumption, Zenon DEF Inv, TypeOK
<1>2. att' = [att EXCEPT ![e] = IF result = "conflict" THEN Returned(a, "REJECTED")
                                ELSE IF result = "completed" THEN Returned(a, "DUPLICATE")
                                ELSE [a EXCEPT !.pc = "get_checkpoint"]]
  BY Zenon DEF ReserveKey, Becomes
<1>3. \A o : Returned(a, o).pc = "done"
  BY Zenon DEF Returned, Idle
<1>4. result \notin {"conflict", "completed"}
  <2> HIDE DEF result
  <2> QED  BY <1>1, <1>2, <1>3, Zenon
<1>5. CASE keys[Request] = NoKey \/ KeyExpired(Request, now)
  <2>1. keys' = [keys EXCEPT ![Request] = r]
    BY <1>5, Zenon DEF ReserveKey, Reserve
  <2>2. r.status = "reserved" /\ r.workflow_id = a.w /\ r # NoKey
    BY Zenon DEF NoKey
  <2> HIDE DEF r
  <2> QED  BY <1>1, <1>5, <2>1, <2>2, Zenon DEF KeyExpired
<1>6. CASE ~(keys[Request] = NoKey \/ KeyExpired(Request, now))
  <2>1. keys' = keys
    BY <1>6, Zenon DEF ReserveKey, Reserve
  <2>2. keys[Request].workflow_id = a.w /\ keys[Request].status # "completed"
    BY <1>4, <1>6, Zenon DEF ReserveResult
  <2> QED  BY <1>6, <2>1, <2>2, Zenon
<1> QED  BY <1>5, <1>6, Zenon

\* An attempt at the completion of the key has just committed its success.
LEMMA CommittedNext ==
  ASSUME Inv, AllOrdered, [Next]_vars, RowsOutliveAttempts \/ states' = states,
         \A e \in Attempts : att[e].pc = "complete" => states[att[e].w].state.status = "succeeded",
         NEW e \in Attempts, att'[e].pc = "complete"
  PROVE  states'[att'[e].w].state.status = "succeeded"
<1>1. CASE att'[e] = att[e]
  <2>1. att[e].w \in Workflows /\ InFlight(e) /\ states[att[e].w].state.status = "succeeded"
    BY <1>1, Zenon DEF Inv, Placed, InFlight
  <2>2. states[att[e].w] # NoRow
    BY <2>1 DEF NoRow, NoState
  <2>3. states'[att[e].w] # NoRow
    BY <2>1, <2>2, Zenon DEF RowsOutliveAttempts
  <2> QED  BY <1>1, <2>1, <2>3, SuccessStays, Zenon
<1>2. CASE att'[e] # att[e]
  <2>1. Turns(e, att[e], att'[e])
    BY <1>2, OwnStep, AttemptTurns, Zenon
  <2>2. Commits(att[e], att'[e])
    BY <2>1, Zenon DEF Turns, Unleased, Acquires, Stays, Leaves, Writes, HoldingPc, GraphPc
  <2>3. Prepared(att[e])
    BY Zenon DEF AllOrdered, Ordered
  <2> QED  BY <2>2, <2>3, Zenon DEF Commits, Prepared, Verdict
<1> QED  BY <1>1, <1>2, Zenon

\* A completed key stays vouched for.
LEMMA VouchedNext ==
  ASSUME Inv, CompletionInv, [Next]_vars, RowsOutliveAttempts \/ states' = states,
         keys'[Request].status = "completed"
  PROVE  Vouched(keys[Request].workflow_id)'
<1> DEFINE w == keys'[Request].workflow_id
<1>1. CASE \E e \in Attempts : CompleteKey(e) /\ w = att[e].w
  <2>1. PICK e \in Attempts : CompleteKey(e) /\ w = att[e].w
    BY <1>1, Zenon
  <2>2. states[att[e].w].state.status = "succeeded" /\ states' = states
    BY <2>1, Zenon DEF CompletionInv, CompleteKey
  <2> QED  BY <2>1, <2>2, Zenon DEF Vouched
<1>2. CASE keys'[Request] = keys[Request]
  <2>1. Vouched(keys[Request].workflow_id) /\ keys[Request].workflow_id = w
    BY <1>2, Zenon DEF CompletionInv
  <2>2. w \in Workflows
    BY <1>2, AttemptAssumption DEF Inv, TypeOK, Key, NoKey
  <2>3. ASSUME NEW e \in Attempts, att'[e].w = w, att'[e].pc \in {"get_checkpoint", "create"}
        PROVE  att[e].w = w /\ att[e].pc \in {"get_checkpoint", "create"}
    <3>1. att[e].w = w /\ (att[e].pc \in {"get_checkpoint", "create"} \/ ReserveKey(e))
      BY <2>3, CreatorsKnown, Zenon
    <3>2. CASE ReserveKey(e)
      <4>1. att'[e].pc = "get_checkpoint" => FALSE
        BY <3>2, ReservedIsOpen, Zenon
      <4>2. att'[e].pc # "create"
        BY <3>2, ReserveEnds, Zenon
      <4> QED  BY <2>3, <4>1, <4>2, Zenon
    <3> QED  BY <3>1, <3>2, Zenon
  <2>4. CASE states[w].state.status = "succeeded"
    <3>1. CASE states'[w].state.status = "succeeded"
      BY <3>1, Zenon DEF Vouched
    <3>2. CASE states'[w] = NoRow
      <4>1. states[w] # NoRow
        BY <2>4 DEF NoRow, NoState
      <4>2. ASSUME NEW e \in Attempts, att'[e].w = w
            PROVE  att'[e].pc \notin {"get_checkpoint", "create"}
        <5>1. SUFFICES ASSUME att'[e].pc \in {"get_checkpoint", "create"} PROVE FALSE
          BY Zenon
        <5>2. att[e].w = w /\ InFlight(e)
          BY <2>3, <4>2, <5>1, Zenon DEF InFlight
        <5> QED  BY <3>2, <4>1, <5>2 DEF RowsOutliveAttempts
      <4> QED  BY <3>2, <4>2, Zenon DEF Vouched
    <3> QED  BY <2>2, <2>4, <3>1, <3>2, SuccessStays, Zenon
  <2>5. CASE /\ states[w] = NoRow
             /\ \A e \in Attempts : att[e].w = w => att[e].pc \notin {"get_checkpoint", "create"}
    <3>1. states'[w] = NoRow
      BY <2>2, <2>5, RowCreated, Zenon DEF CreateState
    <3>2. \A e \in Attempts : att'[e].w = w => att'[e].pc \notin {"get_checkpoint", "create"}
      BY <2>3, <2>5, Zenon
    <3> QED  BY <3>1, <3>2, Zenon DEF Vouched
  <2> QED  BY <2>1, <2>4, <2>5, Zenon DEF Vouched
<1> QED  BY <1>1, <1>2, KeyCompletes, Zenon

\* The three conjuncts together.
LEMMA CompletionNext ==
  ASSUME Inv, CompletionInv, [Next]_vars, [RowsOutliveAttempts]_vars
  PROVE  CompletionInv'
<1>1. RowsOutliveAttempts \/ states' = states
  BY Zenon DEF vars
<1>2. AllOrdered'
  BY OrderedNext, Zenon DEF CompletionInv
<1>3. ASSUME keys'[Request].status = "completed"
      PROVE  Vouched(keys[Request].workflow_id)'
  BY <1>1, <1>3, VouchedNext, Zenon
<1>4. \A e \in Attempts : att'[e].pc = "complete" => states'[att'[e].w].state.status = "succeeded"
  BY <1>1, CommittedNext, Zenon DEF CompletionInv
<1> QED  BY <1>2, <1>3, <1>4, Zenon DEF CompletionInv

\* It holds initially: no key, no attempt.
LEMMA CompletionInit == Init => CompletionInv
<1> SUFFICES ASSUME Init PROVE CompletionInv
  BY Zenon
<1>1. keys[Request] = NoKey
  BY AttemptAssumption, Zenon DEF Init, StoreInit
<1>2. keys[Request].status # "completed"
  BY <1>1 DEF NoKey
<1>3. \A e \in Attempts : att[e].pc # "complete"
  BY Zenon DEF Init, Idle
<1> QED  BY <1>2, <1>3, OrderedInit, Zenon DEF CompletionInv

\* As long as no row is cleaned up under an attempt in flight, a completed key vouches
\* for a success that is stored, or was stored until it was cleaned up: whatever worker
\* completes it, and whatever has happened since its commit.
THEOREM DurableCompletedMeansSucceeded ==
  Spec /\ [][RowsOutliveAttempts]_vars => []CompletedMeansSucceeded
<1>1. Inv /\ CompletionInv /\ [Next]_vars /\ [RowsOutliveAttempts]_vars => CompletionInv'
  BY CompletionNext, Zenon
<1>2. CompletionInv => CompletedMeansSucceeded
  BY DEF CompletionInv, Vouched, CompletedMeansSucceeded, NoRow, NoState
<1> QED  BY <1>1, <1>2, CompletionInit, InvHolds, PTL DEF Spec

\* With runtimes of their own, and rows that outlive the attempts at them, no attempt
\* starts adapter work for a request that is completed or on a workflow that is
\* terminal, however early it had read the key and the checkpoint.
THEOREM DurableNoNewWork ==
  ASSUME DistinctWorkers
  PROVE  Spec /\ [][RowsOutliveAttempts]_vars => NoNewWorkAfterCompletion
<1>1. ASSUME Inv, OwnerInv, CompletionInv, [Next]_vars, NEW e \in Attempts, StartsAdapterWork(e)
      PROVE  /\ ~(keys[Request].status = "completed" /\ keys[Request].workflow_id = att[e].w)
             /\ states[att[e].w].state.status \notin TERMINAL_STATUSES
  <2>1. Owns(e)
    BY <1>1, StartRenews, Zenon
  <2>2. InGraph(e)
    BY <1>1, Zenon DEF StartsAdapterWork, InGraph
  <2>3. states[att[e].w].state.status = "running"
    BY <1>1, <2>1, <2>2, Zenon DEF OwnerInv, Owned
  <2>4. keys[Request].status = "completed" => Vouched(keys[Request].workflow_id)
    BY <1>1, Zenon DEF CompletionInv
  <2> QED  BY <2>3, <2>4 DEF Vouched, NoRow, NoState, TERMINAL_STATUSES
<1>2. Inv /\ OwnerInv /\ CompletionInv /\ [Next]_vars
        => [\A e \in Attempts :
              StartsAdapterWork(e)
                => /\ ~(keys[Request].status = "completed" /\ keys[Request].workflow_id = att[e].w)
                   /\ states[att[e].w].state.status \notin TERMINAL_STATUSES]_vars
  BY <1>1, Zenon
<1>3. Inv /\ OwnerInv /\ [Next]_vars => OwnerInv'
  BY OwnedNext, Zenon
<1>4. Inv /\ CompletionInv /\ [Next]_vars /\ [RowsOutliveAttempts]_vars => CompletionInv'
  BY CompletionNext, Zenon
<1> QED  BY <1>2, <1>3, <1>4, CompletionInit, OwnedInit, InvHolds, PTL
         DEF Spec, NoNewWorkAfterCompletion

-----------------------------------------------------------------------------
(* One workflow per request                                                *)

\* Before a key can expire it stays bound to the workflow of its first reservation,
\* every attempt in flight works on that workflow, and no other has a row.
Bound(w) == keys[Request] # NoKey /\ keys[Request].workflow_id = w

BindingInv ==
  now < KeyTTL =>
    /\ keys[Request] # NoKey => keys[Request].expires_at >= KeyTTL
    /\ \A e \in Attempts : InFlight(e) => Bound(att[e].w)
    /\ \A w \in Workflows : states[w] # NoRow => Bound(w)

\* cleanup() removes only keys that have expired.
LEMMA CleanupKeys ==
  ASSUME Inv, OperatorCleanup
  PROVE  keys'[Request] = keys[Request] \/ keys[Request].expires_at <= now - Retention
<1> DEFINE u == now - Retention
           TW == { w \in Workflows : /\ states[w].state.status \in TERMINAL
                                     /\ states[w].updated_at <= u }
           TK == { k \in Keys : /\ keys[k] # NoKey
                                /\ keys[k].expires_at <= u }
           TL == { w \in Workflows : /\ leases[w] # NoLease
                                     /\ leases[w].expires_at <= u - Tolerance }
<1>1. PICK W \in Batches(TW, [w \in Workflows |-> states[w].updated_at]),
           K \in Batches(TK, [k \in Keys |-> keys[k].expires_at]),
           L \in Batches(TL, [w \in Workflows |-> leases[w].expires_at]) :
        keys' = [k \in Keys |-> IF k \in K THEN NoKey ELSE keys[k]]
  BY Zenon DEF OperatorCleanup, Cleanup
<1>2. K \subseteq TK
  BY <1>1, Zenon DEF Batches
<1>3. Request \in Keys
  BY AttemptAssumption, Zenon
<1> QED  BY <1>1, <1>2, <1>3, Zenon

\* An attempt in flight works on the workflow it has reserved the key for.
LEMMA FlightKeeps ==
  ASSUME Inv, [Next]_vars, NEW e \in Attempts, InFlight(e)'
  PROVE  \/ InFlight(e) /\ att'[e].w = att[e].w
         \/ ReserveKey(e) /\ att'[e].pc = "get_checkpoint" /\ att'[e].w = att[e].w
<1>1. CASE att'[e] = att[e]
  BY <1>1, Zenon DEF InFlight
<1>2. CASE att'[e] # att[e]
  <2>1. AttemptStep(e) \/ Crash(e)
    BY <1>2, OwnStep, Zenon
  <2>2. Turns(e, att[e], att'[e]) /\ att[e] \in Attempt /\ att'[e].pc \in Pc
    <3>1. att'[e].pc \in Pc
      BY InvNext, Zenon DEF Inv, TypeOK, Attempt
    <3> QED  BY <2>1, <3>1, AttemptTurns, InvAttempt, Zenon DEF Good
  <2>3. CASE Unleased(att[e], att'[e])
    <3>1. att'[e].pc \in {"get_checkpoint", "create", "acquire"}
      BY <2>2, <2>3, Zenon DEF Unleased, InFlight, Pc, HoldingPc, GraphPc
    <3>2. att[e].pc \in {"reserve", "get_checkpoint", "create"} /\ att'[e].w = att[e].w
      BY <2>3, <3>1 DEF Unleased
    <3>3. CASE att[e].pc = "reserve"
      <4>1. ~Crash(e)
        <5>1. SUFFICES ASSUME Crash(e) PROVE FALSE
          BY Zenon
        <5>2. att'[e] = [Idle EXCEPT !.pc = "crashed", !.w = att[e].w]
          BY <5>1 DEF Crash, Becomes, Inv, TypeOK
        <5> QED  BY <3>1, <5>2, Zenon DEF Idle
      <4>2. ReserveKey(e)
        BY <2>1, <3>3, <4>1, Zenon DEF AttemptStep, GetIdempotency, GetCheckpoint,
              CreateState, AcquireLease, AdvanceRevision, AdvanceWrite, EnterStage,
              ProviderAnswers, AdapterAnswers, AdapterRetries, CheckpointWrite, MarkRevision,
              MarkWrite, CommitRevision, CommitWrite, CompleteKey, ReleaseLease
      <4>3. att'[e].pc \in {"done", "get_checkpoint"}
        BY <4>2, ReserveEnds, Zenon
      <4> QED  BY <3>1, <3>2, <4>2, <4>3, Zenon
    <3> QED  BY <3>2, <3>3, Zenon DEF InFlight
  <2>4. CASE Acquires(e, att[e], att'[e]) \/ Stays(att[e], att'[e]) \/ Leaves(att[e], att'[e])
             \/ Writes(att[e], att'[e]) \/ Commits(att[e], att'[e])
    BY <2>4, Zenon DEF Acquires, Stays, Leaves, Writes, Commits, Keeps, InFlight, HoldingPc, GraphPc
  <2> QED  BY <2>2, <2>3, <2>4, Zenon DEF Turns
<1> QED  BY <1>1, <1>2, Zenon

\* Before it can expire, a key that is there is there to stay.
LEMMA BindingStays ==
  ASSUME Inv, BindingInv, [Next]_vars, now' < KeyTTL
  PROVE  /\ now < KeyTTL
         /\ keys[Request] # NoKey =>
              /\ keys'[Request] # NoKey
              /\ keys'[Request].workflow_id = keys[Request].workflow_id
         /\ keys'[Request] # NoKey => keys'[Request].expires_at >= KeyTTL
<1>1. /\ keys \in [Keys -> Key \cup {NoKey}] /\ Request \in Keys /\ now \in Nat
      /\ KeyTTL \in Nat /\ Retention \in Nat
  BY AttemptAssumption, Zenon DEF Inv, TypeOK
<1>2. now < KeyTTL
  <2>1. now' \in Nat /\ (now' = now \/ now' = now + 1)
    BY <1>1, AttemptFrame, CancelFrame DEF Next, vars, Tick, OperatorCleanup
  <2> QED  BY <1>1, <2>1
<1>3. keys[Request] # NoKey => keys[Request] \in Key /\ keys[Request].expires_at >= KeyTTL
  BY <1>1, <1>2, Zenon DEF BindingInv
<1>4. CASE keys'[Request] = keys[Request]
  BY <1>2, <1>3, <1>4, Zenon
<1>5. ASSUME NEW e \in Attempts, ReserveKey(e)
      PROVE  \/ keys'[Request] = keys[Request]
             \/ /\ keys[Request] = NoKey
                /\ keys'[Request].expires_at >= KeyTTL
  <2> DEFINE r == [request_id |-> Request, workflow_id |-> att[e].w, status |-> "reserved",
                   outcome |-> "none", expires_at |-> now + KeyTTL]
  <2>1. ~KeyExpired(Request, now)
    <3>1. keys[Request] # NoKey => keys[Request].expires_at \in Nat
      BY <1>3, Zenon DEF Key
    <3> QED  BY <1>1, <1>2, <1>3, <3>1 DEF KeyExpired
  <2>2. \/ keys' = keys
        \/ keys[Request] = NoKey /\ keys' = [keys EXCEPT ![Request] = r]
    <3>1. Reserve(Request, Request, att[e].w, now, now + KeyTTL)
      BY <1>5, Zenon DEF ReserveKey
    <3>2. keys' = keys \/ keys' = [keys EXCEPT ![Request] = r]
      BY <3>1, Zenon DEF Reserve
    <3>3. keys[Request] # NoKey => keys' = keys
      BY <2>1, <3>1, Zenon DEF Reserve, KeyExpired
    <3> HIDE DEF r
    <3> QED  BY <3>2, <3>3, Zenon
  <2>3. r.expires_at >= KeyTTL
    BY <1>1
  <2> HIDE DEF r
  <2> QED  BY <1>1, <2>2, <2>3
<1>6. ASSUME NEW e \in Attempts, CompleteKey(e)
      PROVE  \/ keys'[Request] = keys[Request]
             \/ /\ keys[Request] # NoKey
                /\ keys'[Request] # NoKey
                /\ keys'[Request].workflow_id = keys[Request].workflow_id
                /\ keys'[Request].expires_at = keys[Request].expires_at
  <2> DEFINE r == [keys[Request] EXCEPT !.workflow_id = att[e].w, !.status = "completed",
                                        !.outcome = e]
  <2>1. \/ keys' = keys
        \/ keys[Request] # NoKey /\ keys' = [keys EXCEPT ![Request] = r]
    BY <1>6, Zenon DEF CompleteKey, Complete, CompleteResult
  <2>2. keys[Request].workflow_id = att[e].w
    <3>1. InFlight(e)
      BY <1>6, Zenon DEF InFlight, CompleteKey
    <3> QED  BY <1>2, <3>1, Zenon DEF BindingInv, Bound
  <2>3. keys[Request] # NoKey => /\ r.workflow_id = att[e].w /\ r.status = "completed"
                                 /\ r.expires_at = keys[Request].expires_at
    BY <1>3, Zenon DEF Key
  <2>4. keys[Request] # NoKey => r # NoKey
    BY <2>3, Zenon DEF NoKey
  <2> HIDE DEF r
  <2> QED  BY <1>1, <2>1, <2>2, <2>3, <2>4, Zenon
<1>7. CASE OperatorCleanup
  <2>1. keys'[Request] = keys[Request] \/ keys[Request].expires_at <= now - Retention
    BY <1>7, CleanupKeys, Zenon
  <2>2. keys[Request] = NoKey => keys'[Request] = NoKey
    BY <1>1, <1>7, CleanupStates, Zenon DEF OperatorCleanup
  <2>3. keys[Request] # NoKey => ~(keys[Request].expires_at <= now - Retention)
    <3>1. keys[Request] # NoKey => keys[Request].expires_at \in Nat
      BY <1>3, Zenon DEF Key
    <3> QED  BY <1>1, <1>2, <1>3, <3>1
  <2> QED  BY <1>2, <1>3, <2>1, <2>2, <2>3
<1>8. \/ keys' = keys
      \/ \E e \in Attempts : ReserveKey(e) \/ CompleteKey(e)
      \/ OperatorCleanup
  BY AttemptFrame, CancelFrame, Zenon DEF Next, vars, Tick
<1> QED  BY <1>2, <1>3, <1>4, <1>5, <1>6, <1>7, <1>8, Zenon

\* The binding is inductive.
LEMMA BindingNext ==
  ASSUME Inv, BindingInv, [Next]_vars
  PROVE  BindingInv'
<1>1. SUFFICES ASSUME now' < KeyTTL
               PROVE  /\ keys'[Request] # NoKey => keys'[Request].expires_at >= KeyTTL
                      /\ \A e \in Attempts : InFlight(e)' => Bound(att[e].w)'
                      /\ \A w \in Workflows : states'[w] # NoRow => Bound(w)'
  BY Zenon DEF BindingInv
<1>2. /\ now < KeyTTL
      /\ keys[Request] # NoKey => /\ keys'[Request] # NoKey
                                  /\ keys'[Request].workflow_id = keys[Request].workflow_id
      /\ keys'[Request] # NoKey => keys'[Request].expires_at >= KeyTTL
  BY <1>1, BindingStays, Zenon
<1>3. \A w : Bound(w) => Bound(w)'
  BY <1>2, Zenon DEF Bound
<1>4. ASSUME NEW e \in Attempts, InFlight(e)'
      PROVE  Bound(att[e].w)'
  <2>1. CASE InFlight(e) /\ att'[e].w = att[e].w
    <3>1. Bound(att[e].w)
      BY <1>2, <2>1, Zenon DEF BindingInv
    <3> QED  BY <1>2, <2>1, <3>1, Zenon DEF Bound
  <2>2. CASE ReserveKey(e) /\ att'[e].pc = "get_checkpoint" /\ att'[e].w = att[e].w
    BY <2>2, ReservedIsOpen, Zenon DEF Bound
  <2> QED  BY <1>4, <2>1, <2>2, FlightKeeps, Zenon
<1>5. ASSUME NEW w \in Workflows, states'[w] # NoRow
      PROVE  Bound(w)'
  <2>1. CASE states[w] # NoRow
    BY <1>2, <1>3, <2>1, Zenon DEF BindingInv
  <2>2. CASE states[w] = NoRow
    <3>1. PICK e \in Attempts : CreateState(e) /\ att[e].w = w
      BY <1>5, <2>2, RowCreated, Zenon
    <3>2. InFlight(e)
      BY <3>1, Zenon DEF CreateState, InFlight
    <3> QED  BY <1>2, <1>3, <3>1, <3>2, Zenon DEF BindingInv
  <2> QED  BY <2>1, <2>2, Zenon
<1> QED  BY <1>2, <1>4, <1>5, Zenon

\* However many submissions of one request race each other, each with a workflow id of
\* its own, at most one workflow is ever stored before the first key can expire.
THEOREM DurableOneWorkflowPerRequest == Spec => []OneWorkflowPerRequest
<1>1. Init => BindingInv
  <2> SUFFICES ASSUME Init PROVE BindingInv
    BY Zenon
  <2>1. keys[Request] = NoKey /\ \A w \in Workflows : states[w] = NoRow
    BY AttemptAssumption, Zenon DEF Init, StoreInit
  <2>2. \A e \in Attempts : ~InFlight(e)
    BY Zenon DEF Init, Idle, InFlight
  <2> QED  BY <2>1, <2>2, Zenon DEF BindingInv
<1>2. Inv /\ BindingInv /\ [Next]_vars => BindingInv'
  BY BindingNext, Zenon
<1>3. BindingInv => OneWorkflowPerRequest
  BY Zenon DEF BindingInv, Bound, OneWorkflowPerRequest
<1> QED  BY <1>1, <1>2, <1>3, InvHolds, PTL DEF Spec
=============================================================================
