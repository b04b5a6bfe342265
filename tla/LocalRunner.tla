----------------------------- MODULE LocalRunner -----------------------------
(***************************************************************************)
(* QueryExecutionRunner over a local state store: executions of one or     *)
(* more requests go through _execute_durable, without leases.  The store   *)
(* is an SQLite file, which several processes may open, or one in-memory   *)
(* store, which has the same compare-and-set but no idempotency keys.      *)
(*                                                                         *)
(* A step is one call of the store or of the adapter.  Every store call    *)
(* is one BEGIN IMMEDIATE transaction, or runs under the store's lock.     *)
(* A run is a record: pc, its request and workflow, its copy of the        *)
(* snapshot, the snapshot it is about to write with the revision read for  *)
(* it, its public outcome, whether its request had already been finished   *)
(* when the run began (late), and until when a completed key says so.      *)
(***************************************************************************)
EXTENDS WorkflowState, Integers

CONSTANTS Runs, Requests, LocalIds,
          LocalKeyTTL,    \* idempotency_ttl_seconds
          LocalRetention, \* age at which the operator cleans up
          LocalBatch,     \* max_records of a cleanup
          LocalMaxTime    \* bound on the modelled clock

ASSUME LocalAssumption ==
  /\ LocalKeyTTL \in Nat \ {0}
  /\ LocalRetention \in Nat
  /\ LocalBatch \in Nat \ {0}
  /\ LocalMaxTime \in Nat

VARIABLES backend,    \* "sqlite" or "memory"
          rows,       \* workflow_states: workflow id -> row
          bindings,   \* idempotency_records: request id -> record
          clock,
          runs,
          called,     \* workflow id -> adapter calls since its row was created
          swept,      \* workflows whose row a cleanup has removed
          overlapped  \* workflows that two live runs have worked on

localVars == <<backend, rows, bindings, clock, runs, called, swept, overlapped>>

NoLocalRow == [state |-> [status |-> "absent"], revision |-> 0, updated_at |-> 0]

Unbound == [workflow_id |-> "none", status |-> "absent", expires_at |-> 0]

NoCopy == [status |-> "absent"]

NewRun == [pc |-> "begin", q |-> "none", w |-> "none", copy |-> NoCopy, next |-> NoCopy,
           revision |-> 0, outcome |-> "pending", late |-> FALSE, until |-> 0]

LocalInit ==
  /\ backend \in {"sqlite", "memory"}
  /\ rows = [w \in LocalIds |-> NoLocalRow]
  /\ bindings = [q \in Requests |-> Unbound]
  /\ clock = 0
  /\ runs = [r \in Runs |-> NewRun]
  /\ called = [w \in LocalIds |-> 0]
  /\ swept = {}
  /\ overlapped = {}

RunBecomes(r, record) == runs' = [runs EXCEPT ![r] = record]

\* execute_ir has returned.
Answers(record, outcome) ==
  [NewRun EXCEPT !.pc = "returned", !.q = record.q, !.w = record.w, !.outcome = outcome]

-----------------------------------------------------------------------------
(* The stores *)

\* Fault: update does not compare the stored status with the expected one.
LocalUpdateResultAnyStatus(w, expected_status, state, expected_version) ==
  IF rows[w] = NoLocalRow THEN "state_error"
  ELSE IF rows[w].state.status \in TERMINAL_STATUSES THEN "transition_error"
  ELSE IF rows[w].revision # expected_version THEN "state_error"
  ELSE "ok"

\* update() of both stores; expected_version 0 is None.
LocalUpdateResult(w, expected_status, state, expected_version) ==
  LET current == rows[w].state.status
  IN IF rows[w] = NoLocalRow THEN "state_error"
     ELSE IF current \in TERMINAL_STATUSES /\ state.status # current
       THEN "transition_error"
     ELSE IF current # expected_status THEN "state_error"
     ELSE IF expected_version \notin {0, rows[w].revision} THEN "state_error"
     ELSE "ok"

LocalUpdate(w, expected_status, state, expected_version) ==
  rows' = IF LocalUpdateResult(w, expected_status, state, expected_version) = "ok"
            THEN [rows EXCEPT ![w] = [state |-> state, revision |-> @.revision + 1,
                                      updated_at |-> clock]]
            ELSE rows

\* reserve_idempotency: an expired record is replaced, a record of another workflow is
\* a conflict, otherwise the record's own status is returned.  The runner uses the
\* request id as the key, so a key is never bound to another request.
LocalReserveResult(q, w) ==
  IF bindings[q] = Unbound \/ bindings[q].expires_at <= clock THEN "new"
  ELSE IF bindings[q].workflow_id # w THEN "conflict"
  ELSE bindings[q].status

\* complete_idempotency refuses a missing key, another workflow's and a completed one.
LocalCompleteResult(q, w) ==
  IF bindings[q] = Unbound THEN "state_error"
  ELSE IF bindings[q].workflow_id # w THEN "conflict"
  ELSE IF bindings[q].status # "reserved" THEN "conflict"
  ELSE "ok"

\* The sets a bounded batch of `all' may be: SQLite's SELECT ... LIMIT has no ORDER BY.
LocalBatches(all) ==
  {B \in SUBSET all : Cardinality(B) = IF Cardinality(all) < LocalBatch
                                         THEN Cardinality(all) ELSE LocalBatch}

\* cleanup(): terminal rows past the retention and, in SQLite, expired keys.
LocalCleanup ==
  LET old == {w \in LocalIds : /\ rows[w].state.status \in TERMINAL_STATUSES
                               /\ rows[w].updated_at <= clock - LocalRetention}
      expired == {q \in Requests : /\ bindings[q] # Unbound
                                   /\ bindings[q].expires_at <= clock - LocalRetention}
  IN /\ old \cup expired # {}
     /\ \E W \in LocalBatches(old), Q \in LocalBatches(expired) :
          /\ rows' = [w \in LocalIds |-> IF w \in W THEN NoLocalRow ELSE rows[w]]
          /\ bindings' = [q \in Requests |-> IF q \in Q THEN Unbound ELSE bindings[q]]
          /\ swept' = swept \cup W
     /\ UNCHANGED <<backend, clock, runs, called, overlapped>>

-----------------------------------------------------------------------------
(* _execute_durable *)

\* The id is the one of the key, the one in the request's context, or a fresh one.
LookUpKey(r) ==
  /\ runs[r].pc = "begin"
  /\ \E q \in Requests, id \in LocalIds :
       LET key == bindings[q]
           w == IF key = Unbound THEN id ELSE key.workflow_id
           completed == key.status = "completed" /\ key.expires_at > clock
           ended == rows[w].state.status \in TERMINAL_STATUSES /\ rows[w].state.request = q
       IN RunBecomes(r, [NewRun EXCEPT
                           !.pc = IF backend = "sqlite" THEN "reserve" ELSE "load",
                           !.q = q, !.w = w, !.late = completed \/ ended,
                           !.until = IF completed THEN key.expires_at ELSE 0])
  /\ UNCHANGED <<backend, rows, bindings, clock, called, swept, overlapped>>

\* Fault: a completed record is treated like a reserved one.
BindKeyAnyStatus(r) ==
  LET q == runs[r].q
      w == runs[r].w
      result == LocalReserveResult(q, w)
  IN /\ runs[r].pc = "reserve"
     /\ bindings' = IF result # "new" THEN bindings
                    ELSE [bindings EXCEPT ![q] = [workflow_id |-> w, status |-> "reserved",
                                                  expires_at |-> clock + LocalKeyTTL]]
     /\ RunBecomes(r, IF result = "conflict" THEN Answers(runs[r], "REJECTED")
                      ELSE [runs[r] EXCEPT !.pc = "load"])
     /\ UNCHANGED <<backend, rows, clock, called, swept, overlapped>>

BindKey(r) ==
  LET q == runs[r].q
      w == runs[r].w
      result == LocalReserveResult(q, w)
  IN /\ runs[r].pc = "reserve"
     /\ bindings' = IF result # "new" THEN bindings
                    ELSE [bindings EXCEPT ![q] = [workflow_id |-> w, status |-> "reserved",
                                                  expires_at |-> clock + LocalKeyTTL]]
     /\ RunBecomes(r, IF result = "conflict" THEN Answers(runs[r], "REJECTED")
                      ELSE IF result = "completed" THEN Answers(runs[r], "DUPLICATE")
                      ELSE [runs[r] EXCEPT !.pc = "load"])
     /\ UNCHANGED <<backend, rows, clock, called, swept, overlapped>>

\* The runs that hold a snapshot of the workflow, or are about to create it.
Live(w) == {r \in Runs : runs[r].w = w /\ runs[r].pc \notin
                           {"begin", "reserve", "load", "returned", "crashed"}}

\* Fault: a RUNNING checkpoint is executed as it is, without the retry edge.
LoadCheckpointRunning(r) ==
  LET w == runs[r].w
      state == rows[w].state
      found == rows[w] # NoLocalRow /\ state.request = runs[r].q
  IN /\ runs[r].pc = "load"
     /\ RunBecomes(r, IF ~found THEN [runs[r] EXCEPT !.pc = "create"]
                      ELSE IF state.status \in TERMINAL_STATUSES
                        THEN Answers(runs[r], "DUPLICATE")
                      ELSE IF state.status = "running"
                        THEN [runs[r] EXCEPT !.pc = "govern", !.copy = state]
                      ELSE [runs[r] EXCEPT !.pc = "revision", !.copy = state])
     /\ overlapped' = IF Live(w) = {} THEN overlapped ELSE overlapped \cup {w}
     /\ UNCHANGED <<backend, rows, bindings, clock, called, swept>>

\* get_checkpoint, which looks for the workflow under this request.
LoadCheckpoint(r) ==
  LET w == runs[r].w
      state == rows[w].state
      found == rows[w] # NoLocalRow /\ state.request = runs[r].q
  IN /\ runs[r].pc = "load"
     /\ RunBecomes(r, IF ~found THEN [runs[r] EXCEPT !.pc = "create"]
                      ELSE IF state.status \in TERMINAL_STATUSES
                        THEN Answers(runs[r], "DUPLICATE")
                      ELSE [runs[r] EXCEPT !.pc = "revision", !.copy = state])
     /\ overlapped' = IF Live(w) = {} THEN overlapped ELSE overlapped \cup {w}
     /\ UNCHANGED <<backend, rows, bindings, clock, called, swept>>

CreateRow(r) ==
  LET w == runs[r].w
      created == [request |-> runs[r].q, status |-> "created", attempts |-> 0,
                  events |-> 0, retry_count |-> 0]
  IN /\ runs[r].pc = "create"
     /\ \/ /\ rows[w] = NoLocalRow
           /\ rows' = [rows EXCEPT ![w] = [state |-> created, revision |-> 1,
                                           updated_at |-> clock]]
           /\ called' = [called EXCEPT ![w] = 0]
           /\ RunBecomes(r, [runs[r] EXCEPT !.pc = "revision", !.copy = created])
        \/ /\ rows[w] # NoLocalRow
           /\ RunBecomes(r, Answers(runs[r], "FAILED"))
           /\ UNCHANGED <<rows, called>>
     /\ UNCHANGED <<backend, bindings, clock, swept, overlapped>>

\* Where _step takes the workflow: _advance_to_running before the query has run, the
\* terminal status of the outcome after it.
StepTarget(record) ==
  IF record.outcome = "SUCCEEDED" THEN "succeeded"
  ELSE IF record.outcome = "FAILED" THEN "failed"
  ELSE IF record.copy.status = "queued" THEN "running"
  ELSE "queued"

\* An NL2DataError in _step: before the query it is the outcome, after it the outcome
\* stands and the error is suppressed.
StepFails(record) ==
  Answers(record, IF record.outcome = "pending" THEN "FAILED" ELSE record.outcome)

\* _step up to the write: the revision is read now, the snapshot is derived from the copy.
StepRevision(r) ==
  LET record == runs[r]
      target == StepTarget(record)
  IN /\ record.pc = "revision"
     /\ RunBecomes(r, IF TransitionCheck(record.copy, target) = "ok"
                        THEN [record EXCEPT
                                !.pc = "write",
                                !.next = Transition(record.copy, target, 0),
                                !.revision = rows[record.w].revision]
                        ELSE StepFails(record))
     /\ UNCHANGED <<backend, rows, bindings, clock, called, swept, overlapped>>

StepWrite(r) ==
  LET record == runs[r]
      status == record.next.status
      written == [record EXCEPT !.copy = record.next, !.next = NoCopy, !.revision = 0]
  IN /\ record.pc = "write"
     /\ LocalUpdate(record.w, record.copy.status, record.next, record.revision)
     /\ RunBecomes(r,
          IF LocalUpdateResult(record.w, record.copy.status, record.next,
                               record.revision) # "ok" THEN StepFails(record)
          ELSE IF status = "queued" THEN [written EXCEPT !.pc = "revision"]
          ELSE IF status = "running" THEN [written EXCEPT !.pc = "govern"]
          ELSE IF status = "succeeded" /\ backend = "sqlite"
            THEN [written EXCEPT !.pc = "complete"]
          ELSE Answers(record, record.outcome))
     /\ UNCHANGED <<backend, bindings, clock, called, swept, overlapped>>

\* _execute_governed: the view, the policy, the adapter's validation and the
\* authorization reject the query, which leaves the workflow RUNNING, or the adapter is
\* called.
Govern(r) ==
  /\ runs[r].pc = "govern"
  /\ \/ /\ RunBecomes(r, Answers(runs[r], "REJECTED"))
        /\ UNCHANGED called
     \/ /\ RunBecomes(r, [runs[r] EXCEPT !.pc = "adapter"])
        /\ called' = [called EXCEPT ![runs[r].w] = @ + 1]
  /\ UNCHANGED <<backend, rows, bindings, clock, swept, overlapped>>

\* The adapter answers and the result is protected, or one of the two fails.
AdapterAnswersRun(r) ==
  /\ runs[r].pc = "adapter"
  /\ \E outcome \in {"SUCCEEDED", "FAILED"} :
       RunBecomes(r, [runs[r] EXCEPT !.pc = "revision", !.outcome = outcome])
  /\ UNCHANGED <<backend, rows, bindings, clock, called, swept, overlapped>>

CompleteBinding(r) ==
  LET q == runs[r].q
      w == runs[r].w
  IN /\ runs[r].pc = "complete"
     /\ bindings' = IF LocalCompleteResult(q, w) = "ok"
                      THEN [bindings EXCEPT ![q].status = "completed"] ELSE bindings
     /\ RunBecomes(r, Answers(runs[r], "SUCCEEDED"))
     /\ UNCHANGED <<backend, rows, clock, called, swept, overlapped>>

\* A process on the SQLite file dies, or the task is cancelled while it awaits the
\* adapter.  (The end of the process ends the in-memory store with it.)
StopRun(r) ==
  /\ runs[r].pc \notin {"begin", "returned", "crashed"}
  /\ backend = "memory" => runs[r].pc = "adapter"
  /\ RunBecomes(r, [NewRun EXCEPT !.pc = "crashed", !.w = runs[r].w])
  /\ UNCHANGED <<backend, rows, bindings, clock, called, swept, overlapped>>

LocalTick ==
  /\ clock < LocalMaxTime
  /\ clock' = clock + 1
  /\ UNCHANGED <<backend, rows, bindings, runs, called, swept, overlapped>>

RunStep(r) ==
  \/ LookUpKey(r) \/ BindKey(r) \/ LoadCheckpoint(r) \/ CreateRow(r)
  \/ StepRevision(r) \/ StepWrite(r) \/ Govern(r) \/ AdapterAnswersRun(r)
  \/ CompleteBinding(r)

LocalNext == (\E r \in Runs : RunStep(r) \/ StopRun(r)) \/ LocalCleanup \/ LocalTick

LocalSpec == LocalInit /\ [][LocalNext]_localVars

-----------------------------------------------------------------------------
(* Properties *)

\* A run calls the adapter in this step.
CallsAdapterNow(r) == runs[r].pc = "govern" /\ runs'[r].pc = "adapter"

\* "The attempt budget still bounds re-execution": as long as one run at a time works on
\* a workflow, crashes and resubmissions in any number make at most MaxAttempts calls of
\* the adapter for it, because every recovery passes the RUNNING -> QUEUED -> RUNNING
\* edge and writes the count before it executes.  Runs that overlap derive the count
\* from stale copies (ExecutionsWithinBudget).
RecoveriesBounded == \A w \in LocalIds \ overlapped : called[w] <= MaxAttempts

\* A run that begins when its request has been completed, or its workflow has ended,
\* does not execute it again, whichever runs it races; only a cleanup that removed the
\* row, after the completed key had expired as well, lets it.
FinishedIsNotRerun ==
  [][\A r \in Runs : CallsAdapterNow(r) /\ runs[r].late
                        => runs[r].w \in swept /\ runs[r].until <= clock]_localVars

\* The stored status as the abstract state machine sees it.
LocalLifecycle == INSTANCE WorkflowLifecycle
                    WITH Workflows <- LocalIds,
                         status <- [w \in LocalIds |-> rows[w].state.status]

\* Without leases, two runs on one workflow write from stale copies, but the status
\* moves along ALLOWED_TRANSITIONS only and an ended workflow stays as it is.
LocalFollowsLifecycle == LocalLifecycle!Spec

\* The budget stated for runs that overlap as well; it does not hold.
ExecutionsWithinBudget == \A w \in LocalIds : called[w] <= MaxAttempts
=============================================================================
