-------------------------- MODULE SharedStateStore --------------------------
(***************************************************************************)
(* PostgreSQLStateStore of nl2data-workflow-postgres: workflow snapshots   *)
(* under compare-and-set, idempotency keys, and execution leases with      *)
(* fencing tokens, in three tables of one schema.                          *)
(*                                                                         *)
(* Every public method runs in one transaction and is one atomic           *)
(* operation here.  An operation is a result (what it returns or raises)   *)
(* and an effect (what it leaves in the tables).  All rows belong to one   *)
(* scope namespace: the code puts the namespace into every primary key.    *)
(*                                                                         *)
(* now is the database clock, NOW().  Clients compute expiry times from    *)
(* their own clocks, so an operation that stores a time takes it as an     *)
(* argument.                                                               *)
(***************************************************************************)
EXTENDS Integers, FiniteSets

CONSTANTS Workflows,      \* workflow ids
          Keys,           \* idempotency keys; the runtime uses the request id
          Tolerance,      \* clock_tolerance_seconds
          CleanupBatch    \* min(max_records, cleanup_batch_size)

ASSUME StoreAssumption ==
  /\ Tolerance \in Nat
  /\ CleanupBatch \in Nat \ {0}

VARIABLES states,         \* workflow_states: workflow id -> row
          keys,           \* idempotency_records: key -> row
          leases,         \* workflow_leases: workflow id -> row
          now             \* NOW()

TERMINAL == {"succeeded", "failed", "closed"}

\* A row that is not there.
NoState == [status |-> "absent"]

NoRow == [state |-> NoState, revision |-> 0, updated_at |-> 0]

NoLease == [owner_id |-> "nobody", fencing_token |-> 0, expires_at |-> 0]

NoKey == [request_id |-> "none", workflow_id |-> "none", status |-> "absent",
          outcome |-> "none", expires_at |-> 0]

StoreInit ==
  /\ states = [w \in Workflows |-> NoRow]
  /\ keys = [k \in Keys |-> NoKey]
  /\ leases = [w \in Workflows |-> NoLease]
  /\ now = 0

-----------------------------------------------------------------------------
(* Snapshots *)

\* create: INSERT ... ON CONFLICT DO NOTHING; a conflict is WorkflowStateError.
CreateResult(w) == IF states[w] = NoRow THEN "ok" ELSE "state_error"

Create(w, state) ==
  states' = IF CreateResult(w) = "ok"
              THEN [states EXCEPT ![w] = [state |-> state, revision |-> 1,
                                          updated_at |-> now]]
              ELSE states

\* Fault: the fence compares the token but not the owner.
FenceHoldsByToken(w, fence) ==
  /\ leases[w].fencing_token = fence.fencing_token
  /\ leases[w].expires_at > now + Tolerance

\* The EXISTS clause of the fenced statements: the lease row carries this
\* owner and token and is valid beyond the clock tolerance.
FenceHolds(w, fence) ==
  /\ leases[w].owner_id = fence.owner_id
  /\ leases[w].fencing_token = fence.fencing_token
  /\ leases[w].expires_at > now + Tolerance

\* The caller passed no owner and token.
NoFence == [owner_id |-> "nobody", fencing_token |-> 0]

\* get_revision found no row (None): the statement's revision clause is void.
NoVersion == 0

\* Fault: the WHERE clause forgets that terminal rows are final.
UpdateMatchesTerminal(w, expected_status, expected_version, fence) ==
  /\ states[w].state.status = expected_status
  /\ expected_version \in {NoVersion, states[w].revision}
  /\ fence = NoFence \/ FenceHolds(w, fence)

\* Fault: the WHERE clause compares nothing but the revision and the fence.
UpdateMatchesRevisionOnly(w, expected_status, expected_version, fence) ==
  /\ expected_version \in {NoVersion, states[w].revision}
  /\ fence = NoFence \/ FenceHolds(w, fence)

\* Fault: the fenced statement is never used.
UpdateMatchesUnfenced(w, expected_status, expected_version, fence) ==
  /\ states[w].state.status = expected_status
  /\ expected_version \in {NoVersion, states[w].revision}
  /\ states[w].state.status \notin TERMINAL

\* The WHERE clause of update_state and update_state_fenced.
UpdateMatches(w, expected_status, expected_version, fence) ==
  /\ states[w].state.status = expected_status
  /\ expected_version \in {NoVersion, states[w].revision}
  /\ states[w].state.status \notin TERMINAL
  /\ fence = NoFence \/ FenceHolds(w, fence)

\* update: when no row matched, the row is read back to name the reason.  A
\* terminal row rewritten with its own status is reported as success.
UpdateResult(w, expected_status, state, expected_version, fence) ==
  LET row == states[w]
  IN IF row = NoRow THEN "state_error"
     ELSE IF UpdateMatches(w, expected_status, expected_version, fence) THEN "ok"
     ELSE IF row.state.status \in TERMINAL
       THEN IF state.status = row.state.status THEN "noop" ELSE "transition_error"
     ELSE IF row.state.status # expected_status THEN "state_error"
     ELSE IF expected_version \notin {NoVersion, row.revision} THEN "state_error"
     ELSE "fenced"

Update(w, expected_status, state, expected_version, fence) ==
  states' =
    IF UpdateResult(w, expected_status, state, expected_version, fence) = "ok"
      THEN [states EXCEPT ![w] = [state |-> state, revision |-> @.revision + 1,
                                  updated_at |-> now]]
      ELSE states

-----------------------------------------------------------------------------
(* Idempotency keys *)

KeyExpired(k, client_now) == keys[k] # NoKey /\ keys[k].expires_at <= client_now

\* Fault: a reserved key is handed to a request with another workflow id.
ReserveResultAnyWorkflow(k, request, w, client_now) ==
  IF keys[k] = NoKey \/ KeyExpired(k, client_now) THEN "reserved"
  ELSE IF keys[k].request_id # request THEN "conflict"
  ELSE keys[k].status

\* reserve_idempotency: a free or expired key is bound; otherwise the stored
\* record is returned, or refused when it is bound to something else.
ReserveResult(k, request, w, client_now) ==
  IF keys[k] = NoKey \/ KeyExpired(k, client_now) THEN "reserved"
  ELSE IF keys[k].request_id # request \/ keys[k].workflow_id # w THEN "conflict"
  ELSE keys[k].status

Reserve(k, request, w, client_now, expires) ==
  keys' = IF keys[k] = NoKey \/ KeyExpired(k, client_now)
            THEN [keys EXCEPT ![k] = [request_id |-> request, workflow_id |-> w,
                                      status |-> "reserved", outcome |-> "none",
                                      expires_at |-> expires]]
            ELSE keys

\* Fault: a completed key may be completed again.
CompleteResultAnyStatus(k, w, fence) ==
  IF keys[k] = NoKey THEN "state_error"
  ELSE IF fence = NoFence \/ FenceHolds(w, fence) THEN "ok"
  ELSE "fenced"

\* complete_idempotency: the UPDATE matches on the key and the reserved status
\* (and the fence), not on the workflow; only when it matches nothing is the
\* row compared with the caller's workflow.
CompleteResult(k, w, fence) ==
  IF keys[k] = NoKey THEN "state_error"
  ELSE IF keys[k].status = "reserved" /\ (fence = NoFence \/ FenceHolds(w, fence))
    THEN "ok"
  ELSE IF keys[k].workflow_id # w \/ keys[k].status # "reserved" THEN "conflict"
  ELSE "fenced"

Complete(k, w, outcome, fence) ==
  keys' = IF CompleteResult(k, w, fence) = "ok"
            THEN [keys EXCEPT ![k] = [@ EXCEPT !.workflow_id = w,
                                               !.status = "completed",
                                               !.outcome = outcome]]
            ELSE keys

-----------------------------------------------------------------------------
(* Leases *)

\* Fault: takeover as soon as the row has expired on the database clock, with
\* no allowance for a holder whose clock lags.
AcquireResultWithoutTolerance(w) ==
  IF leases[w] = NoLease \/ leases[w].expires_at <= now THEN "ok" ELSE "busy"

\* acquire_lease: INSERT with token 1, or take over a row that expired more
\* than the tolerance ago and increment its token.
AcquireResult(w) ==
  IF leases[w] = NoLease \/ leases[w].expires_at <= now - Tolerance
    THEN "ok" ELSE "busy"

Acquire(w, owner, expires) ==
  leases' = IF AcquireResult(w) = "ok"
              THEN [leases EXCEPT ![w] = [owner_id |-> owner,
                                          fencing_token |-> @.fencing_token + 1,
                                          expires_at |-> expires]]
              ELSE leases

RenewResult(w, fence) == IF FenceHolds(w, fence) THEN "ok" ELSE "fenced"

Renew(w, fence, expires) ==
  leases' = IF RenewResult(w, fence) = "ok"
              THEN [leases EXCEPT ![w] = [@ EXCEPT !.expires_at = expires]]
              ELSE leases

\* release_lease: DELETE for this owner and token, expired or not.
Release(w, fence) ==
  leases' = IF /\ leases[w].owner_id = fence.owner_id
               /\ leases[w].fencing_token = fence.fencing_token
              THEN [leases EXCEPT ![w] = NoLease]
              ELSE leases

-----------------------------------------------------------------------------
(* Cleanup *)

\* A DELETE of at most CleanupBatch of the eligible rows, oldest first; ties
\* (broken by id in the code) are a free choice.
Batches(eligible, age) ==
  { S \in SUBSET eligible :
      /\ Cardinality(S) <= CleanupBatch
      /\ S # eligible => Cardinality(S) = CleanupBatch
      /\ \A x \in S, y \in eligible \ S : age[x] <= age[y] }

\* cleanup: terminal snapshots not updated since terminal_before, keys expired
\* before expired_before, leases expired the tolerance before that.
Cleanup(terminal_before, expired_before) ==
  \E W \in Batches({ w \in Workflows : /\ states[w].state.status \in TERMINAL
                                       /\ states[w].updated_at <= terminal_before },
                   [w \in Workflows |-> states[w].updated_at]),
     K \in Batches({ k \in Keys : /\ keys[k] # NoKey
                                  /\ keys[k].expires_at <= expired_before },
                   [k \in Keys |-> keys[k].expires_at]),
     L \in Batches({ w \in Workflows :
                       /\ leases[w] # NoLease
                       /\ leases[w].expires_at <= expired_before - Tolerance },
                   [w \in Workflows |-> leases[w].expires_at]) :
    /\ states' = [w \in Workflows |-> IF w \in W THEN NoRow ELSE states[w]]
    /\ keys' = [k \in Keys |-> IF k \in K THEN NoKey ELSE keys[k]]
    /\ leases' = [w \in Workflows |-> IF w \in L THEN NoLease ELSE leases[w]]
=============================================================================
