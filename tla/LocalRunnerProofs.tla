-------------------------- MODULE LocalRunnerProofs --------------------------
(***************************************************************************)
(* What the linear runner guarantees over a local store, for any number of *)
(* runs, requests and workflows, any lifetimes and any budget.             *)
(*                                                                         *)
(* None of the properties is inductive.  RunOK says what a run knows by    *)
(* itself, from what it has checked on the way to its pc.  Finished says   *)
(* what its copies of shared data are still worth: that the workflow of a  *)
(* late run has ended or was swept, and that a completed key is frozen     *)
(* until it expires.  Budget says that the copy of a run that works alone  *)
(* is the stored snapshot, and that the stored count covers the calls.     *)
(***************************************************************************)
EXTENDS LocalRunner, TLAPS

Holding == {"revision", "write", "govern", "adapter"}

Working == Holding \cup {"create", "complete"}

Open == {"created", "queued", "running"}

Snapshot == [request : Requests, status : WorkflowStatus, attempts : 0..MaxAttempts,
             events : Nat, retry_count : Nat]

LocalRow == [state : Snapshot, revision : Nat, updated_at : Nat]

Binding == [workflow_id : LocalIds, status : {"reserved", "completed"}, expires_at : Nat]

RunRecord == [pc : Working \cup {"begin", "reserve", "load", "returned", "crashed"},
              q : Requests \cup {"none"}, w : LocalIds \cup {"none"},
              copy : Snapshot \cup {NoCopy}, next : Snapshot \cup {NoCopy},
              revision : Nat,
              outcome : {"pending", "SUCCEEDED", "FAILED", "REJECTED", "DUPLICATE"},
              late : BOOLEAN, until : Nat]

LocalTyped ==
  /\ backend \in {"sqlite", "memory"}
  /\ rows \in [LocalIds -> LocalRow \cup {NoLocalRow}]
  /\ bindings \in [Requests -> Binding \cup {Unbound}]
  /\ clock \in Nat
  /\ runs \in [Runs -> RunRecord]
  /\ called \in [LocalIds -> Nat]

\* What a run knows whatever the others do.
RunOK(x) ==
  /\ x.pc \in {"reserve", "load"} \cup Working => x.q \in Requests /\ x.w \in LocalIds
  /\ x.pc \in Holding =>
       x.copy \in Snapshot /\ x.copy.request = x.q /\ x.copy.status \in Open
  /\ x.pc = "write" =>
       /\ x.next \in Snapshot /\ x.next.request = x.q
       /\ x.next.status \in ALLOWED_TRANSITIONS[x.copy.status]
       /\ x.next.attempts = IF x.next.status = "running" THEN x.copy.attempts + 1
                                                         ELSE x.copy.attempts

RunsOK == \A r \in Runs : RunOK(runs[r])

\* The workflow has ended for the request, or its row has been removed since.
Ended(w, q) ==
  \/ w \in swept
  \/ /\ rows[w] # NoLocalRow
     /\ rows[w].state.status \in TERMINAL_STATUSES
     /\ rows[w].state.request = q

RunFinished(x) ==
  /\ x.late => x.pc \in {"reserve", "load"} \cup Working /\ Ended(x.w, x.q)
  /\ x.late /\ x.pc = "reserve" /\ x.until > clock =>
       bindings[x.q] = [workflow_id |-> x.w, status |-> "completed", expires_at |-> x.until]
  /\ x.late /\ x.pc # "reserve" => x.until <= clock
  /\ x.late /\ x.pc \in Working => x.w \in swept
  /\ x.pc = "complete" => Ended(x.w, x.q)

Finished ==
  /\ backend = "memory" => /\ \A q \in Requests : bindings[q] = Unbound
                           /\ \A r \in Runs : runs[r].pc # "reserve"
  /\ \A q \in Requests : bindings[q].status = "completed" => Ended(bindings[q].workflow_id, q)
  /\ \A r \in Runs : RunFinished(runs[r])

\* One run at a time has worked on w.
BudgetOf(w) ==
  /\ \A r, s \in Live(w) : r = s
  /\ called[w] <= MaxAttempts
  /\ rows[w] # NoLocalRow => called[w] <= rows[w].state.attempts
  /\ \A r \in Live(w) : runs[r].pc \in Holding =>
       rows[w] # NoLocalRow /\ runs[r].copy = rows[w].state
  /\ \A r \in Live(w) : runs[r].pc = "govern" => called[w] < rows[w].state.attempts

Budget == \A w \in LocalIds \ overlapped : BudgetOf(w)

LocalInv == LocalTyped /\ RunsOK /\ Finished /\ Budget

-----------------------------------------------------------------------------
(* Records *)

\* A run's record, field by field.
LEMMA RunFields ==
  ASSUME NEW x \in RunRecord
  PROVE  /\ x.pc \in Working \cup {"begin", "reserve", "load", "returned", "crashed"}
         /\ x.q \in Requests \cup {"none"} /\ x.w \in LocalIds \cup {"none"}
         /\ x.copy \in Snapshot \cup {NoCopy} /\ x.next \in Snapshot \cup {NoCopy}
         /\ x.revision \in Nat
         /\ x.outcome \in {"pending", "SUCCEEDED", "FAILED", "REJECTED", "DUPLICATE"}
         /\ x.late \in BOOLEAN /\ x.until \in Nat
  BY Zenon DEF RunRecord

\* Moving a run to another pc keeps the rest of its record.
LEMMA MoveRun ==
  ASSUME NEW x \in RunRecord, NEW p \in Working \cup {"load"}
  PROVE  /\ [x EXCEPT !.pc = p] \in RunRecord
         /\ [x EXCEPT !.pc = p].pc = p
         /\ [x EXCEPT !.pc = p].q = x.q /\ [x EXCEPT !.pc = p].w = x.w
         /\ [x EXCEPT !.pc = p].copy = x.copy /\ [x EXCEPT !.pc = p].next = x.next
         /\ [x EXCEPT !.pc = p].late = x.late /\ [x EXCEPT !.pc = p].until = x.until
  BY Zenon DEF RunRecord

\* A run that has returned holds nothing.
LEMMA AnswersRun ==
  ASSUME NEW x \in RunRecord,
         NEW o \in {"SUCCEEDED", "FAILED", "REJECTED", "DUPLICATE"}
  PROVE  /\ Answers(x, o) \in RunRecord
         /\ Answers(x, o).pc = "returned"
         /\ Answers(x, o).w = x.w
         /\ ~Answers(x, o).late
  BY Zenon DEF RunRecord, Answers, NewRun, NoCopy

\* An open status is a status, and not a terminal one.
LEMMA OpenIsNotTerminal == \A s : s \in Open => s \notin TERMINAL_STATUSES /\ s \in WorkflowStatus
  BY Zenon DEF Open, TERMINAL_STATUSES, WorkflowStatus

\* Only an open status has outgoing transitions.
LEMMA TransitionsLeaveOpen ==
  ASSUME NEW s \in WorkflowStatus, NEW t \in ALLOWED_TRANSITIONS[s]
  PROVE  s \in Open /\ t \in WorkflowStatus
  BY DEF WorkflowStatus, ALLOWED_TRANSITIONS, Open

\* transition() within its budget.
LEMMA TransitionOK ==
  ASSUME NEW x \in Snapshot, NEW t, TransitionCheck(x, t) = "ok"
  PROVE  /\ Transition(x, t, 0) \in Snapshot
         /\ Transition(x, t, 0).request = x.request
         /\ Transition(x, t, 0).status = t
         /\ t \in ALLOWED_TRANSITIONS[x.status]
         /\ Transition(x, t, 0).attempts = IF t = "running" THEN x.attempts + 1 ELSE x.attempts
<1>1. t \in ALLOWED_TRANSITIONS[x.status]
  BY Zenon DEF TransitionCheck
<1>2. x.status \in WorkflowStatus /\ t \in WorkflowStatus
  BY <1>1, TransitionsLeaveOpen, Zenon DEF Snapshot
<1>3. t = "running" => x.attempts + 1 <= MaxAttempts
  BY BudgetAssumption, <1>1 DEF TransitionCheck, Snapshot
<1> DEFINE a == IF t = "running" THEN x.attempts + 1 ELSE x.attempts
<1>4. a \in 0..MaxAttempts /\ x.events + 1 \in Nat
  BY <1>3, BudgetAssumption DEF Snapshot
<1>5. Transition(x, t, 0) = [x EXCEPT !.status = t, !.attempts = a, !.events = x.events + 1,
                                      !.retry_count = 0]
  BY Zenon DEF Transition
<1> HIDE DEF a
<1>6. \A e \in Nat : LET y == [x EXCEPT !.status = t, !.attempts = a, !.events = e, !.retry_count = 0]
                      IN  y \in Snapshot /\ y.request = x.request /\ y.status = t /\ y.attempts = a
  BY <1>2, <1>4, Zenon DEF Snapshot
<1> QED
  BY <1>1, <1>4, <1>5, <1>6, Zenon DEF a

-----------------------------------------------------------------------------
(* Types, and what a run knows by itself *)

\* The empty store and runs that have not begun satisfy the invariant.
LEMMA LocalInitInv == LocalInit => LocalInv
<1> SUFFICES ASSUME LocalInit PROVE LocalInv
  BY Zenon
<1>1. NewRun \in RunRecord /\ NewRun.pc = "begin" /\ ~NewRun.late
  BY Zenon DEF NewRun, RunRecord, NoCopy
<1>2. LocalTyped
  BY <1>1, Zenon DEF LocalInit, LocalTyped
<1>3. \A r \in Runs : runs[r] = NewRun
  BY Zenon DEF LocalInit
<1>4. RunsOK
  BY <1>1, <1>3, Zenon DEF RunsOK, RunOK, Working, Holding
<1>5. Finished
  <2>1. \A q \in Requests : bindings[q] = Unbound /\ bindings[q].status = "absent"
    BY Zenon DEF LocalInit, Unbound
  <2>2. \A r \in Runs : RunFinished(runs[r]) /\ runs[r].pc # "reserve"
    BY <1>1, <1>3, Zenon DEF RunFinished
  <2> QED  BY <2>1, <2>2, Zenon DEF Finished
<1>6. Budget
  <2>1. \A w \in LocalIds : Live(w) = {}
    BY <1>1, <1>3, Zenon DEF Live
  <2>2. \A w \in LocalIds : called[w] = 0 /\ rows[w] = NoLocalRow
    BY Zenon DEF LocalInit
  <2> QED  BY <2>1, <2>2, BudgetAssumption DEF Budget, BudgetOf
<1> QED  BY <1>2, <1>4, <1>5, <1>6, Zenon DEF LocalInv

\* If one run's record is replaced by another good one, all are good.
LEMMA OneRunChanges ==
  ASSUME LocalTyped, RunsOK, NEW r \in Runs, NEW x \in RunRecord, RunOK(x), RunBecomes(r, x)
  PROVE  /\ runs' \in [Runs -> RunRecord]
         /\ runs'[r] = x
         /\ \A s \in Runs \ {r} : runs'[s] = runs[s]
         /\ RunsOK'
<1>1. /\ runs' \in [Runs -> RunRecord]
      /\ runs'[r] = x
      /\ \A s \in Runs \ {r} : runs'[s] = runs[s]
  BY Zenon DEF LocalTyped, RunBecomes
<1> QED  BY <1>1, Zenon DEF RunsOK

\* The next record of a run that returns, and of one that moves on.
Returns(x, y) == y.pc = "returned" /\ y.w = x.w /\ ~y.late

MovesTo(x, y, p) ==
  y.pc = p /\ y.q = x.q /\ y.w = x.w /\ y.late = x.late /\ y.until = x.until

\* A run that has returned or crashed knows nothing that could be wrong.
LEMMA ReturnedIsOK == \A y : y.pc \in {"returned", "crashed"} => RunOK(y)
  BY Zenon DEF RunOK, Working, Holding

\* What a run has after get_idempotency: its key's workflow and whether it is late.
LEMMA LookUpRun ==
  ASSUME LocalTyped, NEW r \in Runs, LookUpKey(r)
  PROVE  \E y \in RunRecord, q \in Requests :
           /\ RunBecomes(r, y) /\ RunOK(y)
           /\ y.pc = IF backend = "sqlite" THEN "reserve" ELSE "load"
           /\ y.q = q
           /\ bindings[q] # Unbound => y.w = bindings[q].workflow_id
           /\ y.late <=> \/ bindings[q].status = "completed" /\ bindings[q].expires_at > clock
                        \/ /\ rows[y.w].state.status \in TERMINAL_STATUSES
                           /\ rows[y.w].state.request = q
           /\ y.until = IF bindings[q].status = "completed" /\ bindings[q].expires_at > clock
                          THEN bindings[q].expires_at ELSE 0
<1>1. PICK q \in Requests, id \in LocalIds :
        LET key == bindings[q]
            w == IF key = Unbound THEN id ELSE key.workflow_id
            completed == key.status = "completed" /\ key.expires_at > clock
            ended == rows[w].state.status \in TERMINAL_STATUSES /\ rows[w].state.request = q
        IN RunBecomes(r, [NewRun EXCEPT
                           !.pc = IF backend = "sqlite" THEN "reserve" ELSE "load",
                           !.q = q, !.w = w, !.late = completed \/ ended,
                           !.until = IF completed THEN key.expires_at ELSE 0])
  BY Zenon DEF LookUpKey
<1> DEFINE w == IF bindings[q] = Unbound THEN id ELSE bindings[q].workflow_id
           completed == bindings[q].status = "completed" /\ bindings[q].expires_at > clock
           ended == rows[w].state.status \in TERMINAL_STATUSES /\ rows[w].state.request = q
           p == IF backend = "sqlite" THEN "reserve" ELSE "load"
           u == IF completed THEN bindings[q].expires_at ELSE 0
           y == [NewRun EXCEPT !.pc = p, !.q = q, !.w = w, !.late = completed \/ ended,
                               !.until = u]
<1>2. w \in LocalIds /\ u \in Nat /\ p \in {"reserve", "load"}
  BY DEF LocalTyped, Binding, Unbound
<1>3. (completed \/ ended) \in BOOLEAN
  BY Zenon
<1>4. RunBecomes(r, y)
  BY <1>1, Zenon
<1> HIDE DEF completed, ended, w, p, u
<1>5. /\ y \in RunRecord /\ y.pc = p /\ y.q = q /\ y.w = w
      /\ y.late = (completed \/ ended) /\ y.until = u
  BY <1>2, <1>3, Zenon DEF NewRun, RunRecord, NoCopy
<1>6. RunOK(y)
  BY <1>2, <1>5, Zenon DEF RunOK, Working, Holding
<1> HIDE DEF y
<1> QED  BY <1>4, <1>5, <1>6, Zenon DEF completed, ended, w, p, u

\* A conflict or a completed key ends the run, any other answer lets it load.
LEMMA BindRun ==
  ASSUME LocalTyped, RunsOK, NEW r \in Runs, BindKey(r)
  PROVE  \E y \in RunRecord :
           /\ RunBecomes(r, y) /\ RunOK(y)
           /\ IF LocalReserveResult(runs[r].q, runs[r].w) \in {"conflict", "completed"}
                THEN Returns(runs[r], y) ELSE MovesTo(runs[r], y, "load")
<1> DEFINE x == runs[r]
           result == LocalReserveResult(x.q, x.w)
<1>1. x \in RunRecord /\ RunOK(x) /\ x.pc = "reserve"
  BY Zenon DEF LocalTyped, RunsOK, BindKey
<1>2. CASE result \in {"conflict", "completed"}
  <2>1. PICK o \in {"REJECTED", "DUPLICATE"} : RunBecomes(r, Answers(x, o))
    BY <1>2, Zenon DEF BindKey
  <2>2. Returns(x, Answers(x, o)) /\ Answers(x, o) \in RunRecord
    BY <1>1, AnswersRun DEF Returns
  <2> QED  BY <1>2, <2>1, <2>2, ReturnedIsOK DEF Returns
<1>3. CASE result \notin {"conflict", "completed"}
  <2>1. RunBecomes(r, [x EXCEPT !.pc = "load"])
    BY <1>3, Zenon DEF BindKey
  <2> DEFINE y == [x EXCEPT !.pc = "load"]
  <2>2. y \in RunRecord /\ MovesTo(x, y, "load")
    BY <1>1, MoveRun, Zenon DEF MovesTo
  <2>3. RunOK(y)
    BY <1>1, <2>2, Zenon DEF RunOK, MovesTo, Working, Holding
  <2> QED  BY <1>3, <2>1, <2>2, <2>3, Zenon
<1> QED  BY <1>2, <1>3, Zenon

\* A run that finds its workflow ended returns; the others create or go on from the
\* stored snapshot.
LEMMA LoadRun ==
  ASSUME LocalTyped, RunsOK, NEW r \in Runs, LoadCheckpoint(r)
  PROVE  \E y \in RunRecord :
           /\ RunBecomes(r, y) /\ RunOK(y)
           /\ \/ Returns(runs[r], y)
              \/ /\ ~(/\ rows[runs[r].w] # NoLocalRow
                      /\ rows[runs[r].w].state.status \in TERMINAL_STATUSES
                      /\ rows[runs[r].w].state.request = runs[r].q)
                 /\ \/ MovesTo(runs[r], y, "create")
                    \/ /\ MovesTo(runs[r], y, "revision")
                       /\ rows[runs[r].w] # NoLocalRow
                       /\ y.copy = rows[runs[r].w].state
<1> DEFINE x == runs[r]
           row == rows[x.w]
           found == row # NoLocalRow /\ row.state.request = x.q
<1>1. x \in RunRecord /\ RunOK(x) /\ x.pc = "load" /\ x.w \in LocalIds
  BY Zenon DEF LocalTyped, RunsOK, RunOK, LoadCheckpoint
<1>2. row \in LocalRow \cup {NoLocalRow}
  BY <1>1, Zenon DEF LocalTyped
<1>3. CASE ~found
  <2> DEFINE y == [x EXCEPT !.pc = "create"]
  <2>1. RunBecomes(r, y)
    BY <1>3, Zenon DEF LoadCheckpoint
  <2>2. y \in RunRecord /\ MovesTo(x, y, "create")
    BY <1>1, MoveRun, Zenon DEF MovesTo, Working
  <2>3. RunOK(y)
    BY <1>1, <2>2, Zenon DEF RunOK, MovesTo, Working, Holding
  <2> QED  BY <1>3, <2>1, <2>2, <2>3, Zenon
<1>4. CASE found /\ row.state.status \in TERMINAL_STATUSES
  <2>1. RunBecomes(r, Answers(x, "DUPLICATE"))
    BY <1>4, Zenon DEF LoadCheckpoint
  <2> QED  BY <1>1, <2>1, AnswersRun, ReturnedIsOK DEF Returns
<1>5. CASE found /\ row.state.status \notin TERMINAL_STATUSES
  <2> DEFINE y == [x EXCEPT !.pc = "revision", !.copy = row.state]
  <2>1. RunBecomes(r, y)
    BY <1>5, Zenon DEF LoadCheckpoint
  <2>2. row.state \in Snapshot /\ row.state.status \in Open
    <3>1. row \in LocalRow
      BY <1>2, <1>5, Zenon
    <3> QED  BY <1>5, <3>1, Zenon DEF LocalRow, Snapshot, Open, WorkflowStatus, TERMINAL_STATUSES
  <2> HIDE DEF row
  <2>3. y \in RunRecord /\ MovesTo(x, y, "revision") /\ y.copy = row.state
    BY <1>1, <2>2, Zenon DEF MovesTo, RunRecord, Working, Holding
  <2>4. RunOK(y)
    BY <1>1, <1>5, <2>2, <2>3, Zenon DEF RunOK, MovesTo, Working, Holding
  <2> QED  BY <1>5, <2>1, <2>3, <2>4, Zenon DEF row
<1> QED  BY <1>3, <1>4, <1>5, Zenon

\* The row is created unchanged by anyone else, or the run fails.
LEMMA CreateRun ==
  ASSUME LocalTyped, RunsOK, NEW r \in Runs, CreateRow(r)
  PROVE  \E y \in RunRecord :
           /\ RunBecomes(r, y) /\ RunOK(y)
           /\ \/ Returns(runs[r], y) /\ UNCHANGED <<rows, called>>
              \/ /\ MovesTo(runs[r], y, "revision")
                 /\ rows[runs[r].w] = NoLocalRow
                 /\ y.copy.status = "created" /\ y.copy.attempts = 0
                 /\ rows' = [rows EXCEPT ![runs[r].w] =
                               [state |-> y.copy, revision |-> 1, updated_at |-> clock]]
                 /\ called' = [called EXCEPT ![runs[r].w] = 0]
<1> DEFINE x == runs[r]
           created == [request |-> x.q, status |-> "created", attempts |-> 0,
                       events |-> 0, retry_count |-> 0]
<1>1. x \in RunRecord /\ RunOK(x) /\ x.pc = "create" /\ x.w \in LocalIds /\ x.q \in Requests
  BY Zenon DEF LocalTyped, RunsOK, RunOK, CreateRow, Working
<1>2. CASE rows[x.w] = NoLocalRow
  <2> DEFINE y == [x EXCEPT !.pc = "revision", !.copy = created]
  <2>1. /\ RunBecomes(r, y)
        /\ rows' = [rows EXCEPT ![x.w] = [state |-> created, revision |-> 1,
                                          updated_at |-> clock]]
        /\ called' = [called EXCEPT ![x.w] = 0]
    BY <1>2, Zenon DEF CreateRow
  <2>2. created \in Snapshot /\ created.request = x.q /\ created.status = "created"
          /\ created.attempts = 0 /\ created.status \in Open
    BY <1>1, BudgetAssumption DEF Snapshot, WorkflowStatus, Open
  <2> HIDE DEF created
  <2>3. y \in RunRecord /\ MovesTo(x, y, "revision") /\ y.copy = created
    BY <1>1, <2>2, Zenon DEF MovesTo, RunRecord, Working, Holding
  <2>4. RunOK(y)
    BY <1>1, <2>2, <2>3, Zenon DEF RunOK, MovesTo, Working, Holding
  <2> HIDE DEF y
  <2> QED  BY <1>2, <2>1, <2>2, <2>3, <2>4, Zenon
<1>3. CASE rows[x.w] # NoLocalRow
  <2>1. RunBecomes(r, Answers(x, "FAILED")) /\ UNCHANGED <<rows, called>>
    BY <1>3, Zenon DEF CreateRow
  <2> QED  BY <1>1, <2>1, AnswersRun, ReturnedIsOK DEF Returns
<1> QED  BY <1>2, <1>3, Zenon

\* A run whose _step raised has returned.
LEMMA FailedStepReturns ==
  ASSUME NEW x \in RunRecord
  PROVE  StepFails(x) \in RunRecord /\ Returns(x, StepFails(x)) /\ RunOK(StepFails(x))
<1>1. PICK o \in {"SUCCEEDED", "FAILED", "REJECTED", "DUPLICATE"} : StepFails(x) = Answers(x, o)
  BY RunFields, Zenon DEF StepFails
<1> QED  BY <1>1, AnswersRun, ReturnedIsOK DEF Returns

\* The run prepares a write from its copy, or returns.
LEMMA RevisionRun ==
  ASSUME LocalTyped, RunsOK, NEW r \in Runs, StepRevision(r)
  PROVE  \E y \in RunRecord :
           /\ RunBecomes(r, y) /\ RunOK(y)
           /\ \/ Returns(runs[r], y)
              \/ MovesTo(runs[r], y, "write") /\ y.copy = runs[r].copy
<1> DEFINE x == runs[r]
           t == StepTarget(x)
<1>1. /\ x \in RunRecord /\ RunOK(x) /\ x.pc = "revision" /\ x.w \in LocalIds
      /\ x.copy \in Snapshot /\ x.copy.request = x.q /\ x.copy.status \in Open
      /\ x.q \in Requests
  BY Zenon DEF LocalTyped, RunsOK, RunOK, StepRevision, Working, Holding
<1>2. CASE TransitionCheck(x.copy, t) = "ok"
  <2> DEFINE n == Transition(x.copy, t, 0)
             v == rows[x.w].revision
             y == [x EXCEPT !.pc = "write", !.next = n, !.revision = v]
  <2>1. RunBecomes(r, y)
    BY <1>2, Zenon DEF StepRevision
  <2>2. /\ n \in Snapshot /\ n.request = x.q /\ n.status = t
        /\ t \in ALLOWED_TRANSITIONS[x.copy.status]
        /\ n.attempts = IF t = "running" THEN x.copy.attempts + 1 ELSE x.copy.attempts
    BY <1>1, <1>2, TransitionOK
  <2>3. v \in Nat
    BY <1>1 DEF LocalTyped, LocalRow, NoLocalRow
  <2> HIDE DEF n, v, t
  <2>4. y \in RunRecord /\ MovesTo(x, y, "write") /\ y.copy = x.copy /\ y.next = n
    BY <1>1, <2>2, <2>3, Zenon DEF MovesTo, RunRecord, Working, Holding
  <2> HIDE DEF y
  <2>5. RunOK(y)
    BY <1>1, <2>2, <2>4, Zenon DEF RunOK, MovesTo, Working, Holding
  <2> QED  BY <2>1, <2>4, <2>5, Zenon
<1>3. CASE TransitionCheck(x.copy, t) # "ok"
  <2>1. RunBecomes(r, StepFails(x))
    BY <1>3, Zenon DEF StepRevision
  <2> QED  BY <1>1, <2>1, FailedStepReturns, Zenon
<1> QED  BY <1>2, <1>3, Zenon

\* The write is refused and the run returns, or the row was in the status of the copy
\* and the next snapshot takes its place.
LEMMA WriteRun ==
  ASSUME LocalTyped, RunsOK, NEW r \in Runs, StepWrite(r)
  PROVE  \E y \in RunRecord :
           /\ RunBecomes(r, y) /\ RunOK(y)
           /\ \/ Returns(runs[r], y) /\ rows' = rows
              \/ /\ rows[runs[r].w] # NoLocalRow
                 /\ rows[runs[r].w].state.status = runs[r].copy.status
                 /\ rows' = [rows EXCEPT ![runs[r].w] =
                               [state |-> runs[r].next, revision |-> rows[runs[r].w].revision + 1,
                                updated_at |-> clock]]
                 /\ \/ Returns(runs[r], y)
                    \/ /\ MovesTo(runs[r], y, "revision") \/ MovesTo(runs[r], y, "govern")
                       /\ y.copy = runs[r].next
                       /\ y.pc = "govern" => runs[r].next.status = "running"
                    \/ /\ MovesTo(runs[r], y, "complete")
                       /\ runs[r].next.status \in TERMINAL_STATUSES
<1> DEFINE x == runs[r]
           result == LocalUpdateResult(x.w, x.copy.status, x.next, x.revision)
<1>1. /\ x \in RunRecord /\ RunOK(x) /\ x.pc = "write" /\ x.w \in LocalIds
      /\ x.copy \in Snapshot /\ x.copy.status \in Open
      /\ x.next \in Snapshot /\ x.next.request = x.q
      /\ x.q \in Requests
  BY Zenon DEF LocalTyped, RunsOK, RunOK, StepWrite, Working, Holding
<1>2. CASE result # "ok"
  <2>1. RunBecomes(r, StepFails(x)) /\ rows' = rows
    BY <1>2, Zenon DEF StepWrite, LocalUpdate
  <2> QED  BY <1>1, <2>1, FailedStepReturns, Zenon
<1>3. CASE result = "ok"
  <2>1. /\ rows[x.w] # NoLocalRow
        /\ rows[x.w].state.status = x.copy.status
    BY <1>3, Zenon DEF LocalUpdateResult
  <2>2. rows' = [rows EXCEPT ![x.w] = [state |-> x.next, revision |-> rows[x.w].revision + 1,
                                       updated_at |-> clock]]
    BY <1>3, Zenon DEF StepWrite, LocalUpdate
  <2> DEFINE written == [x EXCEPT !.copy = x.next, !.next = NoCopy, !.revision = 0]
             On(p) == [written EXCEPT !.pc = p]
  <2>3. ASSUME NEW p \in {"revision", "govern", "complete"}
        PROVE  On(p) \in RunRecord /\ MovesTo(x, On(p), p) /\ On(p).copy = x.next
    BY <1>1, Zenon DEF MovesTo, RunRecord, Working, Holding
  <2>4. \/ x.next.status \in {"queued", "running"}
           /\ RunBecomes(r, On(IF x.next.status = "queued" THEN "revision" ELSE "govern"))
        \/ x.next.status = "succeeded" /\ RunBecomes(r, On("complete"))
        \/ RunBecomes(r, Answers(x, x.outcome))
    BY <1>3, Zenon DEF StepWrite
  <2> HIDE DEF On, written
  <2>5. CASE /\ x.next.status \in {"queued", "running"}
             /\ RunBecomes(r, On(IF x.next.status = "queued" THEN "revision" ELSE "govern"))
    <3>1. PICK p \in {"revision", "govern"} :
            RunBecomes(r, On(p)) /\ (p = "govern" => x.next.status = "running")
      BY <2>5, Zenon
    <3>2. RunOK(On(p))
      BY <1>1, <2>3, <2>5 DEF RunOK, MovesTo, Working, Holding, Open
    <3>3. On(p).pc = p
      BY <2>3, Zenon DEF MovesTo
    <3> QED  BY <2>1, <2>2, <2>3, <3>1, <3>2, <3>3, Zenon
  <2>6. CASE x.next.status = "succeeded" /\ RunBecomes(r, On("complete"))
    <3>1. RunOK(On("complete"))
      BY <1>1, <2>3, Zenon DEF RunOK, MovesTo, Working, Holding
    <3>2. x.next.status \in TERMINAL_STATUSES
      BY <2>6, Zenon DEF TERMINAL_STATUSES
    <3> QED  BY <2>1, <2>2, <2>3, <2>6, <3>1, <3>2, Zenon
  <2>7. CASE RunBecomes(r, Answers(x, x.outcome))
    <3>1. Answers(x, x.outcome) \in RunRecord /\ Returns(x, Answers(x, x.outcome))
      BY <1>1, RunFields, Zenon DEF RunRecord, Answers, NewRun, NoCopy, Returns
    <3> QED  BY <2>1, <2>2, <2>7, <3>1, ReturnedIsOK DEF Returns
  <2> QED  BY <2>4, <2>5, <2>6, <2>7, Zenon
<1> QED  BY <1>2, <1>3, Zenon

\* The run is rejected, or calls the adapter with its copy as it was.
LEMMA GovernRun ==
  ASSUME LocalTyped, RunsOK, NEW r \in Runs, Govern(r)
  PROVE  \E y \in RunRecord :
           /\ RunBecomes(r, y) /\ RunOK(y)
           /\ \/ Returns(runs[r], y) /\ called' = called
              \/ /\ MovesTo(runs[r], y, "adapter") /\ y.copy = runs[r].copy
                 /\ called' = [called EXCEPT ![runs[r].w] = @ + 1]
<1> DEFINE x == runs[r]
           y == [x EXCEPT !.pc = "adapter"]
<1>1. x \in RunRecord /\ RunOK(x) /\ x.pc = "govern"
  BY Zenon DEF LocalTyped, RunsOK, Govern
<1>2. \/ RunBecomes(r, Answers(x, "REJECTED")) /\ called' = called
      \/ RunBecomes(r, y) /\ called' = [called EXCEPT ![x.w] = @ + 1]
  BY Zenon DEF Govern
<1>3. Answers(x, "REJECTED") \in RunRecord /\ Returns(x, Answers(x, "REJECTED"))
        /\ RunOK(Answers(x, "REJECTED"))
  BY <1>1, AnswersRun, ReturnedIsOK DEF Returns
<1>4. y \in RunRecord /\ MovesTo(x, y, "adapter") /\ y.copy = x.copy
  BY <1>1, MoveRun, Zenon DEF MovesTo, Working, Holding
<1>5. RunOK(y)
  BY <1>1, <1>4, Zenon DEF RunOK, MovesTo, Working, Holding
<1> HIDE DEF y
<1> QED  BY <1>2, <1>3, <1>4, <1>5, Zenon

\* An adapter's answer changes the outcome and nothing else.
LEMMA AdapterRun ==
  ASSUME LocalTyped, RunsOK, NEW r \in Runs, AdapterAnswersRun(r)
  PROVE  \E y \in RunRecord :
           /\ RunBecomes(r, y) /\ RunOK(y)
           /\ MovesTo(runs[r], y, "revision") /\ y.copy = runs[r].copy
<1> DEFINE x == runs[r]
<1>1. x \in RunRecord /\ RunOK(x) /\ x.pc = "adapter"
  BY Zenon DEF LocalTyped, RunsOK, AdapterAnswersRun
<1>2. PICK o \in {"SUCCEEDED", "FAILED"} :
        RunBecomes(r, [x EXCEPT !.pc = "revision", !.outcome = o])
  BY Zenon DEF AdapterAnswersRun
<1> DEFINE y == [x EXCEPT !.pc = "revision", !.outcome = o]
<1>3. y \in RunRecord /\ MovesTo(x, y, "revision") /\ y.copy = x.copy
  BY <1>1, Zenon DEF MovesTo, RunRecord, Working, Holding
<1>4. RunOK(y)
  BY <1>1, <1>3, Zenon DEF RunOK, MovesTo, Working, Holding
<1> HIDE DEF y
<1>5. RunBecomes(r, y)
  BY <1>2, Zenon DEF y
<1> QED  BY <1>3, <1>4, <1>5, Zenon

\* After complete_idempotency the run has returned.
LEMMA CompleteRun ==
  ASSUME LocalTyped, RunsOK, NEW r \in Runs, CompleteBinding(r)
  PROVE  \E y \in RunRecord : RunBecomes(r, y) /\ RunOK(y) /\ Returns(runs[r], y)
<1>1. RunBecomes(r, Answers(runs[r], "SUCCEEDED")) /\ runs[r] \in RunRecord
  BY Zenon DEF CompleteBinding, LocalTyped
<1> QED  BY <1>1, AnswersRun, ReturnedIsOK DEF Returns

\* A stopped run holds nothing.
LEMMA StoppedRun ==
  ASSUME LocalTyped, RunsOK, NEW r \in Runs, StopRun(r)
  PROVE  \E y \in RunRecord :
           RunBecomes(r, y) /\ RunOK(y) /\ y.pc = "crashed" /\ y.w = runs[r].w /\ ~y.late
<1> DEFINE y == [NewRun EXCEPT !.pc = "crashed", !.w = runs[r].w]
<1>1. RunBecomes(r, y) /\ runs[r] \in RunRecord
  BY Zenon DEF StopRun, LocalTyped
<1>2. y \in RunRecord /\ y.pc = "crashed" /\ y.w = runs[r].w /\ ~y.late
  BY <1>1, RunFields, Zenon DEF RunRecord, NewRun, NoCopy
<1> HIDE DEF y
<1>3. RunOK(y)
  BY <1>2, ReturnedIsOK
<1> QED  BY <1>1, <1>2, <1>3, Zenon

\* Cleanup removes ended workflows and expired keys.
LEMMA CleanupRemovesEnded ==
  ASSUME LocalCleanup
  PROVE  \E W \in SUBSET LocalIds, Q \in SUBSET Requests :
           /\ \A w \in W : rows[w].state.status \in TERMINAL_STATUSES
           /\ \A q \in Q : bindings[q] # Unbound /\ bindings[q].expires_at <= clock - LocalRetention
           /\ rows' = [w \in LocalIds |-> IF w \in W THEN NoLocalRow ELSE rows[w]]
           /\ bindings' = [q \in Requests |-> IF q \in Q THEN Unbound ELSE bindings[q]]
           /\ swept' = swept \cup W
           /\ UNCHANGED <<backend, clock, runs, called, overlapped>>
<1> DEFINE old == {w \in LocalIds : /\ rows[w].state.status \in TERMINAL_STATUSES
                                    /\ rows[w].updated_at <= clock - LocalRetention}
           expired == {q \in Requests : /\ bindings[q] # Unbound
                                        /\ bindings[q].expires_at <= clock - LocalRetention}
<1>1. PICK W \in LocalBatches(old), Q \in LocalBatches(expired) :
        /\ rows' = [w \in LocalIds |-> IF w \in W THEN NoLocalRow ELSE rows[w]]
        /\ bindings' = [q \in Requests |-> IF q \in Q THEN Unbound ELSE bindings[q]]
        /\ swept' = swept \cup W
  BY Zenon DEF LocalCleanup
<1>2. W \in SUBSET old /\ Q \in SUBSET expired
  BY Zenon DEF LocalBatches
<1>3. UNCHANGED <<backend, clock, runs, called, overlapped>>
  BY Zenon DEF LocalCleanup
<1>4. /\ W \in SUBSET LocalIds /\ \A w \in W : rows[w].state.status \in TERMINAL_STATUSES
  BY <1>2, Zenon
<1>5. /\ Q \in SUBSET Requests
      /\ \A q \in Q : bindings[q] # Unbound /\ bindings[q].expires_at <= clock - LocalRetention
  BY <1>2, Zenon
<1> QED  BY <1>1, <1>3, <1>4, <1>5, Zenon

\* A step of one run keeps the types of the runs and of the tables.
LEMMA TypedStep ==
  ASSUME LocalTyped, RunsOK, [LocalNext]_localVars
  PROVE  LocalTyped' /\ RunsOK'
<1> USE LocalAssumption
<1>1. ASSUME NEW r \in Runs, NEW y \in RunRecord, RunBecomes(r, y), RunOK(y),
             backend' = backend, clock' = clock,
             rows' \in [LocalIds -> LocalRow \cup {NoLocalRow}],
             bindings' \in [Requests -> Binding \cup {Unbound}],
             called' \in [LocalIds -> Nat]
      PROVE  LocalTyped' /\ RunsOK'
  BY <1>1, OneRunChanges, Zenon DEF LocalTyped
<1>2. ASSUME NEW r \in Runs, LookUpKey(r) PROVE LocalTyped' /\ RunsOK'
  <2>1. PICK y \in RunRecord : RunBecomes(r, y) /\ RunOK(y)
    BY <1>2, LookUpRun, Zenon
  <2> QED  BY <1>1, <1>2, <2>1, Zenon DEF LookUpKey, LocalTyped
<1>3. ASSUME NEW r \in Runs, BindKey(r) PROVE LocalTyped' /\ RunsOK'
  <2>1. PICK y \in RunRecord : RunBecomes(r, y) /\ RunOK(y)
    BY <1>3, BindRun, Zenon
  <2>2. runs[r].q \in Requests /\ runs[r].w \in LocalIds
    BY <1>3, Zenon DEF BindKey, RunsOK, RunOK
  <2>3. [workflow_id |-> runs[r].w, status |-> "reserved", expires_at |-> clock + LocalKeyTTL]
          \in Binding
    BY <2>2 DEF Binding, LocalTyped
  <2>4. bindings' \in [Requests -> Binding \cup {Unbound}]
    BY <1>3, <2>2, <2>3, Zenon DEF BindKey, LocalTyped
  <2>5. UNCHANGED <<backend, rows, clock, called>>
    BY <1>3, Zenon DEF BindKey
  <2> QED  BY <1>1, <2>1, <2>4, <2>5, Zenon DEF LocalTyped
<1>4. ASSUME NEW r \in Runs, LoadCheckpoint(r) PROVE LocalTyped' /\ RunsOK'
  <2>1. PICK y \in RunRecord : RunBecomes(r, y) /\ RunOK(y)
    BY <1>4, LoadRun, Zenon
  <2>2. UNCHANGED <<backend, rows, bindings, clock, called>>
    BY <1>4, Zenon DEF LoadCheckpoint
  <2> QED  BY <1>1, <2>1, <2>2, Zenon DEF LocalTyped
<1>5. ASSUME NEW r \in Runs, CreateRow(r) PROVE LocalTyped' /\ RunsOK'
  <2>1. PICK y \in RunRecord :
           /\ RunBecomes(r, y) /\ RunOK(y)
           /\ \/ UNCHANGED <<rows, called>>
              \/ /\ y.pc = "revision"
                 /\ rows' = [rows EXCEPT ![runs[r].w] =
                               [state |-> y.copy, revision |-> 1, updated_at |-> clock]]
                 /\ called' = [called EXCEPT ![runs[r].w] = 0]
    BY <1>5, CreateRun, Zenon DEF MovesTo
  <2>2. y.pc = "revision" =>
          [state |-> y.copy, revision |-> 1, updated_at |-> clock] \in LocalRow
    BY <2>1, Zenon DEF RunOK, Holding, LocalRow, LocalTyped
  <2>3. rows' \in [LocalIds -> LocalRow \cup {NoLocalRow}] /\ called' \in [LocalIds -> Nat]
    BY <2>1, <2>2 DEF LocalTyped
  <2>4. UNCHANGED <<backend, bindings, clock>>
    BY <1>5, Zenon DEF CreateRow
  <2> QED  BY <1>1, <2>1, <2>3, <2>4, Zenon DEF LocalTyped
<1>6. ASSUME NEW r \in Runs, StepRevision(r) \/ AdapterAnswersRun(r) \/ StopRun(r)
      PROVE  LocalTyped' /\ RunsOK'
  <2>1. PICK y \in RunRecord : RunBecomes(r, y) /\ RunOK(y)
    BY <1>6, RevisionRun, AdapterRun, StoppedRun, Zenon
  <2>2. UNCHANGED <<backend, rows, bindings, clock, called>>
    BY <1>6, Zenon DEF StepRevision, AdapterAnswersRun, StopRun
  <2> QED  BY <1>1, <2>1, <2>2, Zenon DEF LocalTyped
<1>7. ASSUME NEW r \in Runs, StepWrite(r) PROVE LocalTyped' /\ RunsOK'
  <2>1. PICK y \in RunRecord :
           /\ RunBecomes(r, y) /\ RunOK(y)
           /\ \/ rows' = rows
              \/ rows' = [rows EXCEPT ![runs[r].w] =
                            [state |-> runs[r].next, revision |-> rows[runs[r].w].revision + 1,
                             updated_at |-> clock]]
    BY <1>7, WriteRun, Zenon
  <2>2. runs[r].next \in Snapshot /\ runs[r].w \in LocalIds
    BY <1>7, Zenon DEF StepWrite, RunsOK, RunOK, Working, Holding
  <2>3. rows[runs[r].w].revision \in Nat
    BY <2>2 DEF LocalTyped, LocalRow, NoLocalRow
  <2>4. [state |-> runs[r].next, revision |-> rows[runs[r].w].revision + 1,
         updated_at |-> clock] \in LocalRow
    BY <2>2, <2>3 DEF LocalRow, LocalTyped
  <2>5. rows' \in [LocalIds -> LocalRow \cup {NoLocalRow}]
    BY <2>1, <2>4, Zenon DEF LocalTyped
  <2>6. UNCHANGED <<backend, bindings, clock, called>>
    BY <1>7, Zenon DEF StepWrite
  <2> QED  BY <1>1, <2>1, <2>5, <2>6, Zenon DEF LocalTyped
<1>8. ASSUME NEW r \in Runs, Govern(r) PROVE LocalTyped' /\ RunsOK'
  <2>1. PICK y \in RunRecord :
           /\ RunBecomes(r, y) /\ RunOK(y)
           /\ called' = called \/ called' = [called EXCEPT ![runs[r].w] = @ + 1]
    BY <1>8, GovernRun, Zenon
  <2>2. called' \in [LocalIds -> Nat]
    BY <2>1 DEF LocalTyped
  <2>3. UNCHANGED <<backend, rows, bindings, clock>>
    BY <1>8, Zenon DEF Govern
  <2> QED  BY <1>1, <2>1, <2>2, <2>3, Zenon DEF LocalTyped
<1>9. ASSUME NEW r \in Runs, CompleteBinding(r) PROVE LocalTyped' /\ RunsOK'
  <2>1. PICK y \in RunRecord : RunBecomes(r, y) /\ RunOK(y)
    BY <1>9, CompleteRun, Zenon
  <2>2. ASSUME NEW q \in Requests, bindings[q] # Unbound
        PROVE  [bindings[q] EXCEPT !.status = "completed"] \in Binding
    BY <2>2, Zenon DEF LocalTyped, Binding
  <2>3. bindings' \in [Requests -> Binding \cup {Unbound}]
    <3>1. CASE LocalCompleteResult(runs[r].q, runs[r].w) = "ok"
      <4>1. bindings[runs[r].q] # Unbound
        BY <3>1, Zenon DEF LocalCompleteResult
      <4>2. bindings' = [bindings EXCEPT ![runs[r].q] =
                           [bindings[runs[r].q] EXCEPT !.status = "completed"]]
        BY <1>9, <3>1, Zenon DEF CompleteBinding
      <4> QED  BY <2>2, <4>1, <4>2, Zenon DEF LocalTyped
    <3>2. CASE LocalCompleteResult(runs[r].q, runs[r].w) # "ok"
      BY <1>9, <3>2, Zenon DEF CompleteBinding, LocalTyped
    <3> QED  BY <3>1, <3>2, Zenon
  <2>4. UNCHANGED <<backend, rows, clock, called>>
    BY <1>9, Zenon DEF CompleteBinding
  <2> QED  BY <1>1, <2>1, <2>3, <2>4, Zenon DEF LocalTyped
<1>10. CASE LocalCleanup
  <2>1. /\ rows' \in [LocalIds -> LocalRow \cup {NoLocalRow}]
        /\ bindings' \in [Requests -> Binding \cup {Unbound}]
        /\ UNCHANGED <<backend, clock, runs, called>>
    BY <1>10, CleanupRemovesEnded, Zenon DEF LocalTyped
  <2> QED  BY <2>1, Zenon DEF LocalTyped, RunsOK
<1>11. CASE LocalTick
  BY <1>11 DEF LocalTick, LocalTyped, RunsOK
<1>12. CASE UNCHANGED localVars
  BY <1>12, Zenon DEF localVars, LocalTyped, RunsOK
<1> QED
  BY <1>2, <1>3, <1>4, <1>5, <1>6, <1>7, <1>8, <1>9, <1>10, <1>11, <1>12, Zenon DEF LocalNext, RunStep

-----------------------------------------------------------------------------
(* The lifecycle of the stored status *)

\* Every change of a row is an edge of the lifecycle, a creation or a removal.
LEMMA RowsFollowLifecycle ==
  ASSUME LocalTyped, RunsOK, [LocalNext]_localVars
  PROVE  \/ UNCHANGED [w \in LocalIds |-> rows[w].state.status]
         \/ \E w \in LocalIds :
              /\ rows[w].state.status = "absent"
              /\ [v \in LocalIds |-> rows[v].state.status]'
                   = [[v \in LocalIds |-> rows[v].state.status] EXCEPT ![w] = "created"]
         \/ \E w \in LocalIds :
              /\ rows[w].state.status # "absent"
              /\ \E t \in ALLOWED_TRANSITIONS[rows[w].state.status] :
                   [v \in LocalIds |-> rows[v].state.status]'
                     = [[v \in LocalIds |-> rows[v].state.status] EXCEPT ![w] = t]
         \/ \E W \in SUBSET {w \in LocalIds : rows[w].state.status \in TERMINAL_STATUSES} :
              [v \in LocalIds |-> rows[v].state.status]'
                = [v \in LocalIds |-> IF v \in W THEN "absent" ELSE rows[v].state.status]
<1> DEFINE status == [v \in LocalIds |-> rows[v].state.status]
<1>1. CASE UNCHANGED rows
  BY <1>1, Zenon
<1>2. ASSUME NEW r \in Runs, CreateRow(r), rows' # rows
      PROVE  \E w \in LocalIds : rows[w].state.status = "absent"
                                 /\ status' = [status EXCEPT ![w] = "created"]
  <2>1. PICK y \in RunRecord :
           /\ rows[runs[r].w] = NoLocalRow
           /\ y.copy.status = "created"
           /\ rows' = [rows EXCEPT ![runs[r].w] =
                         [state |-> y.copy, revision |-> 1, updated_at |-> clock]]
    BY <1>2, CreateRun, Zenon
  <2>2. runs[r].w \in LocalIds
    BY <1>2, Zenon DEF CreateRow, RunsOK, RunOK, Working
  <2>3. status' = [status EXCEPT ![runs[r].w] = "created"]
    BY <2>1, <2>2, Zenon DEF LocalTyped
  <2>4. rows[runs[r].w].state.status = "absent"
    BY <2>1 DEF NoLocalRow
  <2> HIDE DEF status
  <2> QED  BY <2>2, <2>3, <2>4, Zenon
<1>3. ASSUME NEW r \in Runs, StepWrite(r), rows' # rows
      PROVE  \E w \in LocalIds :
               /\ rows[w].state.status # "absent"
               /\ \E t \in ALLOWED_TRANSITIONS[rows[w].state.status] :
                    status' = [status EXCEPT ![w] = t]
  <2>1. /\ rows[runs[r].w].state.status = runs[r].copy.status
        /\ rows' = [rows EXCEPT ![runs[r].w] =
                      [state |-> runs[r].next, revision |-> rows[runs[r].w].revision + 1,
                       updated_at |-> clock]]
    BY <1>3, WriteRun, Zenon
  <2>2. /\ runs[r].w \in LocalIds /\ runs[r].copy.status \in Open
        /\ runs[r].next.status \in ALLOWED_TRANSITIONS[runs[r].copy.status]
    BY <1>3, Zenon DEF StepWrite, RunsOK, RunOK, Working, Holding
  <2>3. status' = [status EXCEPT ![runs[r].w] = runs[r].next.status]
    BY <2>1, <2>2, Zenon DEF LocalTyped
  <2> QED  BY <2>1, <2>2, <2>3, Zenon DEF Open
<1>4. ASSUME LocalCleanup
      PROVE  \E W \in SUBSET {w \in LocalIds : rows[w].state.status \in TERMINAL_STATUSES} :
               status' = [v \in LocalIds |-> IF v \in W THEN "absent" ELSE rows[v].state.status]
  <2>1. PICK W \in SUBSET LocalIds :
           /\ \A w \in W : rows[w].state.status \in TERMINAL_STATUSES
           /\ rows' = [w \in LocalIds |-> IF w \in W THEN NoLocalRow ELSE rows[w]]
    BY <1>4, CleanupRemovesEnded, Zenon
  <2>2. status' = [v \in LocalIds |-> IF v \in W THEN "absent" ELSE rows[v].state.status]
    BY <2>1, Zenon DEF NoLocalRow
  <2> QED  BY <2>1, <2>2, Zenon
<1>5. ASSUME rows' # rows
      PROVE  (\E r \in Runs : CreateRow(r) \/ StepWrite(r)) \/ LocalCleanup
  BY <1>5, Zenon DEF LocalNext, RunStep, localVars, LookUpKey, BindKey, LoadCheckpoint, StepRevision,
              Govern, AdapterAnswersRun, CompleteBinding, StopRun, LocalTick
<1> QED
  BY <1>1, <1>2, <1>3, <1>4, <1>5, Zenon

\* Types and what runs know by themselves hold in every state.
LEMMA LocalTypedHolds == LocalSpec => [](LocalTyped /\ RunsOK)
<1>1. LocalInit => LocalTyped /\ RunsOK
  BY LocalInitInv, Zenon DEF LocalInv
<1>2. LocalTyped /\ RunsOK /\ [LocalNext]_localVars => (LocalTyped /\ RunsOK)'
  BY TypedStep, Zenon
<1> QED  BY <1>1, <1>2, PTL DEF LocalSpec

\* Runs that race over one workflow without leases, crash and are submitted again move
\* its stored status along ALLOWED_TRANSITIONS only, and an ended workflow stays ended
\* until a cleanup removes it.
THEOREM LocalRefinesLifecycle == LocalSpec => LocalFollowsLifecycle
<1> DEFINE status == [w \in LocalIds |-> rows[w].state.status]
<1>1. LocalInit => LocalLifecycle!Init
  BY SMTT(30) DEF LocalInit, LocalLifecycle!Init, NoLocalRow
<1>2. LocalTyped /\ RunsOK /\ [LocalNext]_localVars => [LocalLifecycle!Next]_status
  <2> SUFFICES ASSUME LocalTyped, RunsOK, [LocalNext]_localVars
               PROVE  [LocalLifecycle!Next]_status
    BY Zenon
  <2>1. \A w \in LocalIds : status[w] = rows[w].state.status
    BY Zenon
  <2> QED
    BY RowsFollowLifecycle, <2>1, Zenon DEF LocalLifecycle!Next, LocalLifecycle!Appear,
       LocalLifecycle!Move, LocalLifecycle!Expire, LocalLifecycle!ALLOWED_TRANSITIONS,
       LocalLifecycle!TERMINAL_STATUSES, ALLOWED_TRANSITIONS, TERMINAL_STATUSES
<1> QED
  BY <1>1, <1>2, LocalTypedHolds, PTL DEF LocalSpec, LocalFollowsLifecycle, LocalLifecycle!Spec

-----------------------------------------------------------------------------
(* A finished request is not executed again *)

\* What a run remembers stays true: time and the sweeps only grow, an ended workflow
\* stays ended or is swept, and a completed key is frozen until it expires.
LEMMA Stability ==
  ASSUME LocalTyped, RunsOK, [LocalNext]_localVars
  PROVE  /\ clock <= clock'
         /\ swept \subseteq swept'
         /\ \A w \in LocalIds : \A q : Ended(w, q) => Ended(w, q)'
         /\ \A q \in Requests : bindings[q].status = "completed" /\ bindings[q].expires_at > clock
                                   => bindings'[q] = bindings[q]
<1> USE LocalAssumption
<1>1. clock <= clock'
  <2>1. clock' = clock \/ clock' = clock + 1
    <3>1. CASE LocalTick
      BY <3>1, Zenon DEF LocalTick
    <3>2. CASE LocalCleanup
      BY <3>2, CleanupRemovesEnded, Zenon
    <3> QED
      BY <3>1, <3>2, Zenon DEF LocalNext, RunStep, localVars, LookUpKey, BindKey, LoadCheckpoint,
         CreateRow, StepRevision, StepWrite, Govern, AdapterAnswersRun, CompleteBinding, StopRun
  <2> QED  BY <2>1 DEF LocalTyped
<1>2. swept \subseteq swept'
  BY Zenon DEF LocalNext, RunStep, localVars, LookUpKey, BindKey, LoadCheckpoint, CreateRow,
         StepRevision, StepWrite, Govern, AdapterAnswersRun, CompleteBinding, StopRun, LocalTick,
         LocalCleanup
<1>3. ASSUME NEW w \in LocalIds, NEW q, Ended(w, q), w \notin swept'
      PROVE  Ended(w, q)'
  <2>1. /\ rows[w] # NoLocalRow /\ rows[w].state.status \in TERMINAL_STATUSES
        /\ rows[w].state.request = q
    BY <1>2, <1>3, Zenon DEF Ended
  <2>2. SUFFICES rows'[w] = rows[w]
    BY <2>1, Zenon DEF Ended
  <2>3. ASSUME NEW r \in Runs, CreateRow(r) PROVE rows'[w] = rows[w]
    BY <2>1, <2>3, CreateRun, Zenon DEF LocalTyped
  <2>4. ASSUME NEW r \in Runs, StepWrite(r) PROVE rows'[w] = rows[w]
    <3>1. runs[r].copy.status \in Open
      BY <2>4, Zenon DEF StepWrite, RunsOK, RunOK, Holding
    <3>2. \/ rows' = rows
          \/ /\ rows[runs[r].w].state.status = runs[r].copy.status
             /\ rows' = [rows EXCEPT ![runs[r].w] =
                           [state |-> runs[r].next, revision |-> rows[runs[r].w].revision + 1,
                            updated_at |-> clock]]
      BY <2>4, WriteRun, Zenon
    <3> QED  BY <2>1, <3>1, <3>2, OpenIsNotTerminal, Zenon DEF LocalTyped
  <2>5. CASE LocalCleanup
    BY <1>3, <2>5, CleanupRemovesEnded, Zenon
  <2>6. CASE UNCHANGED rows
    BY <2>6, Zenon
  <2> QED
    BY <2>3, <2>4, <2>5, <2>6, Zenon DEF LocalNext, RunStep, localVars, LookUpKey, BindKey,
       LoadCheckpoint, StepRevision, Govern, AdapterAnswersRun, CompleteBinding, StopRun, LocalTick
<1>4. ASSUME NEW q \in Requests, bindings[q].status = "completed", bindings[q].expires_at > clock
      PROVE  bindings'[q] = bindings[q]
  <2>1. bindings[q] # Unbound /\ bindings[q].expires_at \in Nat /\ clock \in Nat
    BY <1>4 DEF LocalTyped, Binding, Unbound
  <2>2. ASSUME NEW r \in Runs, BindKey(r) PROVE bindings'[q] = bindings[q]
    <3>1. CASE runs[r].q = q
      <4>1. LocalReserveResult(q, runs[r].w) # "new"
        BY <1>4, <2>1 DEF LocalReserveResult
      <4> QED  BY <2>2, <3>1, <4>1, Zenon DEF BindKey
    <3>2. CASE runs[r].q # q
      BY <2>2, <3>2, Zenon DEF BindKey, LocalTyped
    <3> QED  BY <3>1, <3>2, Zenon
  <2>3. ASSUME NEW r \in Runs, CompleteBinding(r) PROVE bindings'[q] = bindings[q]
    <3>1. CASE runs[r].q = q
      <4>1. LocalCompleteResult(q, runs[r].w) # "ok"
        BY <1>4, Zenon DEF LocalCompleteResult
      <4> QED  BY <2>3, <3>1, <4>1, Zenon DEF CompleteBinding
    <3>2. CASE runs[r].q # q
      BY <2>3, <3>2, Zenon DEF CompleteBinding, LocalTyped
    <3> QED  BY <3>1, <3>2, Zenon
  <2>4. CASE LocalCleanup
    <3>1. ~(bindings[q].expires_at <= clock - LocalRetention)
      BY <1>4, <2>1
    <3> QED  BY <2>4, <3>1, CleanupRemovesEnded, Zenon
  <2>5. CASE UNCHANGED bindings
    BY <2>5, Zenon
  <2> QED
    BY <2>2, <2>3, <2>4, <2>5, Zenon DEF LocalNext, RunStep, localVars, LookUpKey,
       LoadCheckpoint, CreateRow, StepRevision, StepWrite, Govern, AdapterAnswersRun, StopRun,
       LocalTick
<1> QED
  <2>1. \A w \in LocalIds : \A q : Ended(w, q) => Ended(w, q)'
    BY <1>3, Zenon DEF Ended
  <2> QED  BY <1>1, <1>2, <1>4, <2>1, Zenon

\* Keys are bound in SQLite only, and a completed one names an ended workflow.
LEMMA KeysStep ==
  ASSUME LocalTyped, RunsOK, Finished, [LocalNext]_localVars
  PROVE  /\ backend' = "memory" => \A q \in Requests : bindings'[q] = Unbound
         /\ \A q \in Requests :
              bindings'[q].status = "completed" => Ended(bindings[q].workflow_id, q)'
<1>1. ASSUME NEW q \in Requests
      PROVE  \/ bindings'[q] = bindings[q]
             \/ bindings'[q] = Unbound
             \/ bindings'[q].status = "reserved" /\ backend = "sqlite"
             \/ /\ bindings[q] # Unbound
                /\ bindings'[q].workflow_id = bindings[q].workflow_id
                /\ Ended(bindings[q].workflow_id, q)
  <2>1. ASSUME NEW r \in Runs, BindKey(r)
        PROVE  \/ bindings'[q] = bindings[q]
               \/ bindings'[q].status = "reserved" /\ backend = "sqlite"
    <3>1. backend = "sqlite"
      BY <2>1, Zenon DEF BindKey, Finished, LocalTyped
    <3> QED  BY <2>1, <3>1, Zenon DEF BindKey, LocalTyped
  <2>2. ASSUME NEW r \in Runs, CompleteBinding(r), bindings'[q] # bindings[q]
        PROVE  /\ bindings[q] # Unbound
               /\ bindings'[q].workflow_id = bindings[q].workflow_id
               /\ Ended(bindings[q].workflow_id, q)
    <3>1. runs[r].q = q /\ LocalCompleteResult(q, runs[r].w) = "ok"
      BY <2>2, Zenon DEF CompleteBinding, LocalTyped
    <3>2. bindings[q] # Unbound /\ bindings[q].workflow_id = runs[r].w
      BY <3>1, Zenon DEF LocalCompleteResult
    <3>3. bindings'[q] = [bindings[q] EXCEPT !.status = "completed"]
      BY <2>2, <3>1, Zenon DEF CompleteBinding, LocalTyped
    <3>4. Ended(runs[r].w, q)
      BY <2>2, <3>1, Zenon DEF CompleteBinding, Finished, RunFinished
    <3>5. bindings[q] \in Binding
      BY <3>2, Zenon DEF LocalTyped
    <3> QED  BY <3>2, <3>3, <3>4, <3>5, Zenon DEF Binding
  <2>3. CASE LocalCleanup
    BY <2>3, CleanupRemovesEnded, Zenon
  <2>4. CASE UNCHANGED bindings
    BY <2>4, Zenon
  <2> QED
    BY <2>1, <2>2, <2>3, <2>4, Zenon DEF LocalNext, RunStep, localVars, LookUpKey,
       LoadCheckpoint, CreateRow, StepRevision, StepWrite, Govern, AdapterAnswersRun, StopRun,
       LocalTick
<1>2. backend' = backend
  BY CleanupRemovesEnded, Zenon DEF LocalNext, RunStep, localVars, LookUpKey, BindKey, LoadCheckpoint,
     CreateRow, StepRevision, StepWrite, Govern, AdapterAnswersRun, CompleteBinding, StopRun,
     LocalTick
<1>3. ASSUME NEW q \in Requests, backend' = "memory" PROVE bindings'[q] = Unbound
  BY <1>1, <1>2, <1>3, Zenon DEF Finished
<1>4. ASSUME NEW q \in Requests, bindings'[q].status = "completed"
      PROVE  Ended(bindings[q].workflow_id, q)'
  <2>1. /\ bindings'[q].workflow_id = bindings[q].workflow_id
        /\ Ended(bindings[q].workflow_id, q) /\ bindings[q] # Unbound
    BY <1>1, <1>4 DEF Unbound, Finished
  <2>2. PICK w \in LocalIds : w = bindings[q].workflow_id
    BY <2>1, Zenon DEF LocalTyped, Binding
  <2>3. Ended(w, q)'
    BY <2>1, <2>2, Stability, Zenon
  <2> QED  BY <2>1, <2>2, <2>3, Zenon DEF Ended
<1> QED  BY <1>3, <1>4, Zenon

\* What a run remembers is worth as much after another run's step.
LEMMA RememberedIsStable ==
  ASSUME LocalTyped, RunsOK, [LocalNext]_localVars, NEW x \in RunRecord, RunOK(x), RunFinished(x)
  PROVE  RunFinished(x)'
<1>1. x.late \/ x.pc = "complete" => Ended(x.w, x.q) /\ x.w \in LocalIds /\ x.q \in Requests
  BY Zenon DEF RunFinished, RunOK, Working
<1>2. clock <= clock' /\ clock \in Nat /\ clock' \in Nat /\ x.until \in Nat
  BY Stability, TypedStep, RunFields, Zenon DEF LocalTyped
<1>3. x.late \/ x.pc = "complete" => Ended(x.w, x.q)'
  BY <1>1, Stability, Zenon
<1>4. ASSUME x.late, x.pc = "reserve", x.until > clock'
      PROVE  bindings'[x.q] = [workflow_id |-> x.w, status |-> "completed", expires_at |-> x.until]
  <2>1. bindings[x.q] = [workflow_id |-> x.w, status |-> "completed", expires_at |-> x.until]
    BY <1>2, <1>4 DEF RunFinished
  <2> QED  BY <1>1, <1>2, <1>4, <2>1, Stability
<1>5. x.late /\ x.pc # "reserve" => x.until <= clock'
  BY <1>2 DEF RunFinished
<1>6. x.late /\ x.pc \in Working => x.w \in swept'
  BY Stability, Zenon DEF RunFinished
<1>7. x.late => x.pc \in {"reserve", "load"} \cup Working
  BY Zenon DEF RunFinished
<1> QED  BY <1>3, <1>4, <1>5, <1>6, <1>7, Zenon DEF RunFinished

\* A run that has returned, or was not late, has nothing to remember.
LEMMA NothingToRemember ==
  ASSUME NEW y, ~y.late, y.pc # "complete"
  PROVE  RunFinished(y)'
  BY Zenon DEF RunFinished

\* A run that moves on while it works remembers what it did.
LEMMA WorkerRemembers ==
  ASSUME NEW x, NEW y, NEW p \in Working \ {"complete"}, MovesTo(x, y, p),
         RunFinished(x)', x.late => x.w \in swept' /\ x.until <= clock'
  PROVE  RunFinished(y)'
<1>1. p # "reserve" /\ p # "complete" /\ p \in Working
  BY Zenon DEF Working, Holding
<1>2. x.late => Ended(x.w, x.q)'
  BY Zenon DEF RunFinished
<1>3. Ended(y.w, y.q)' <=> Ended(x.w, x.q)'
  BY Zenon DEF MovesTo, Ended
<1> QED  BY <1>1, <1>2, <1>3, Zenon DEF RunFinished, MovesTo

\* The record an acting run gets is worth what the others rely on.
LEMMA ActingRun ==
  ASSUME LocalTyped, RunsOK, Finished, [LocalNext]_localVars,
         NEW r \in Runs, RunStep(r) \/ StopRun(r)
  PROVE  \E y \in RunRecord :
           /\ RunBecomes(r, y) /\ RunOK(y) /\ RunFinished(y)'
           /\ y.pc = "reserve" => backend = "sqlite"
<1> DEFINE x == runs[r]
<1>1. x \in RunRecord /\ RunOK(x) /\ RunFinished(x)
  BY Zenon DEF LocalTyped, RunsOK, Finished
<1>2. PICK z \in RunRecord : z = x
  BY <1>1, Zenon
<1>3. RunOK(z) /\ RunFinished(z) /\ RunFinished(z)'
  BY <1>1, <1>2, RememberedIsStable, Zenon
<1>4. clock <= clock' /\ clock \in Nat /\ clock' \in Nat /\ z.until \in Nat
  BY Stability, TypedStep, RunFields, Zenon DEF LocalTyped
<1>5. z.late /\ z.pc \in Working => z.w \in swept' /\ z.until <= clock'
  BY <1>3, Zenon DEF RunFinished, Working, Holding
<1>6. ASSUME NEW y \in RunRecord, RunBecomes(r, y), RunOK(y), y.pc # "reserve",
             \/ Returns(z, y)
             \/ y.pc = "crashed" /\ ~y.late
             \/ z.pc \in Working /\ \E p \in Working \ {"complete"} : MovesTo(z, y, p)
      PROVE  \E v \in RunRecord :
               /\ RunBecomes(r, v) /\ RunOK(v) /\ RunFinished(v)'
               /\ v.pc = "reserve" => backend = "sqlite"
  <2>1. RunFinished(y)'
    <3>1. CASE Returns(z, y) \/ (y.pc = "crashed" /\ ~y.late)
      BY <3>1, NothingToRemember, Zenon DEF Returns
    <3>2. CASE z.pc \in Working /\ \E p \in Working \ {"complete"} : MovesTo(z, y, p)
      BY <1>3, <1>5, <3>2, WorkerRemembers, Zenon
    <3> QED  BY <1>6, <3>1, <3>2, Zenon
  <2> QED  BY <1>6, <2>1, Zenon
<1>7. CASE LookUpKey(r)
  <2>1. PICK y \in RunRecord, q \in Requests :
           /\ RunBecomes(r, y) /\ RunOK(y)
           /\ y.pc = IF backend = "sqlite" THEN "reserve" ELSE "load"
           /\ y.q = q
           /\ bindings[q] # Unbound => y.w = bindings[q].workflow_id
           /\ y.late <=> \/ bindings[q].status = "completed" /\ bindings[q].expires_at > clock
                        \/ /\ rows[y.w].state.status \in TERMINAL_STATUSES
                           /\ rows[y.w].state.request = q
           /\ y.until = IF bindings[q].status = "completed" /\ bindings[q].expires_at > clock
                          THEN bindings[q].expires_at ELSE 0
    BY <1>7, LookUpRun, Zenon
  <2>2. y.w \in LocalIds
    BY <2>1, Zenon DEF RunOK
  <2>3. y.late => Ended(y.w, y.q)
    <3>1. ASSUME bindings[q].status = "completed" PROVE Ended(y.w, y.q)
      <4>1. bindings[q] # Unbound
        BY <3>1, SMTT(30) DEF Unbound
      <4> QED  BY <2>1, <3>1, <4>1, Zenon DEF Finished
    <3>2. ASSUME rows[y.w].state.status \in TERMINAL_STATUSES, rows[y.w].state.request = q
          PROVE  Ended(y.w, y.q)
      <4>1. rows[y.w] # NoLocalRow
        BY <3>2, SMTT(30) DEF NoLocalRow, TERMINAL_STATUSES
      <4> QED  BY <2>1, <3>2, <4>1, Zenon DEF Ended
    <3> QED  BY <2>1, <3>1, <3>2, Zenon
  <2>4. y.until > clock => y.pc = "reserve"
    <3>1. ASSUME y.until > clock PROVE bindings[q] # Unbound
      BY <1>4, <2>1, <3>1 DEF Unbound
    <3>2. backend = "memory" => bindings[q] = Unbound
      BY Zenon DEF Finished
    <3> QED  BY <2>1, <3>1, <3>2, Zenon DEF LocalTyped
  <2>5. y.until > clock =>
          bindings[q] = [workflow_id |-> y.w, status |-> "completed", expires_at |-> y.until]
    <3>1. ASSUME y.until > clock
          PROVE  bindings[q] = [workflow_id |-> y.w, status |-> "completed",
                                expires_at |-> y.until]
      <4>1. bindings[q].status = "completed" /\ bindings[q].expires_at = y.until
        BY <1>4, <2>1, <3>1, SMTT(30)
      <4>2. bindings[q] \in Binding /\ bindings[q].workflow_id = y.w
        BY <2>1, <4>1, SMTT(30) DEF Unbound, LocalTyped
      <4> QED  BY <4>1, <4>2, Zenon DEF Binding
    <3> QED  BY <3>1, Zenon
  <2>6. RunFinished(y)
    <3>1. y.pc \in {"reserve", "load"} /\ y.pc \notin Working /\ y.pc # "complete"
      BY <2>1, Zenon DEF Working, Holding
    <3>2. ~(y.until > clock) => y.until <= clock
      BY <1>4, RunFields
    <3>3. y.pc # "reserve" => y.until <= clock
      BY <2>4, <3>2, Zenon
    <3> HIDE DEF x
    <3> QED  BY <2>1, <2>3, <2>5, <3>1, <3>3, Zenon DEF RunFinished
  <2>7. RunFinished(y)'
    BY <2>1, <2>6, RememberedIsStable, Zenon
  <2> QED  BY <2>1, <2>7, Zenon
<1>8. CASE BindKey(r)
  <2>1. PICK y \in RunRecord :
           /\ RunBecomes(r, y) /\ RunOK(y)
           /\ IF LocalReserveResult(z.q, z.w) \in {"conflict", "completed"}
                THEN Returns(z, y) ELSE MovesTo(z, y, "load")
    BY <1>2, <1>8, BindRun, Zenon
  <2>2. z.pc = "reserve"
    BY <1>2, <1>8, Zenon DEF BindKey
  <2>3. CASE Returns(z, y)
    BY <1>6, <2>1, <2>3, Zenon DEF Returns
  <2>4. CASE MovesTo(z, y, "load") /\ LocalReserveResult(z.q, z.w) # "completed"
    <3>1. z.late => z.until <= clock
      <4>1. ASSUME z.late, z.until > clock PROVE FALSE
        <5>1. bindings[z.q] = [workflow_id |-> z.w, status |-> "completed", expires_at |-> z.until]
          BY <1>3, <2>2, <4>1, Zenon DEF RunFinished
        <5>2. bindings[z.q] # Unbound /\ ~(bindings[z.q].expires_at <= clock)
          BY <1>4, <4>1, <5>1 DEF Unbound
        <5> QED  BY <2>4, <5>1, <5>2, SMTT(30) DEF LocalReserveResult
      <4> QED  BY <1>4, <4>1
    <3>2. z.late => z.until <= clock'
      BY <1>4, <3>1, SMTT(30)
    <3>3. z.late => Ended(z.w, z.q)'
      BY <1>3, Zenon DEF RunFinished
    <3>4. Ended(y.w, y.q)' <=> Ended(z.w, z.q)'
      BY <2>4, Zenon DEF MovesTo, Ended
    <3>5. RunFinished(y)'
      BY <2>4, <3>2, <3>3, <3>4, Zenon DEF RunFinished, MovesTo, Working, Holding
    <3> QED  BY <2>1, <2>4, <3>5, Zenon DEF MovesTo
  <2> QED  BY <2>1, <2>3, <2>4, Zenon
<1>9. CASE LoadCheckpoint(r)
  <2>1. PICK y \in RunRecord :
           /\ RunBecomes(r, y) /\ RunOK(y)
           /\ \/ Returns(z, y)
              \/ /\ ~(/\ rows[z.w] # NoLocalRow
                      /\ rows[z.w].state.status \in TERMINAL_STATUSES
                      /\ rows[z.w].state.request = z.q)
                 /\ MovesTo(z, y, "create") \/ MovesTo(z, y, "revision")
    BY <1>2, <1>9, LoadRun, Zenon
  <2>2. z.pc = "load"
    BY <1>2, <1>9, Zenon DEF LoadCheckpoint
  <2>3. CASE Returns(z, y)
    BY <1>6, <2>1, <2>3, Zenon DEF Returns
  <2>4. CASE ~Returns(z, y)
    <3>1. z.late => z.w \in swept'
      BY <1>3, <2>1, <2>4, Stability, Zenon DEF RunFinished, Ended
    <3>2. z.late => z.until <= clock'
      BY <1>3, <2>2, Zenon DEF RunFinished
    <3>3. PICK p \in {"create", "revision"} : MovesTo(z, y, p)
      BY <2>1, <2>4, Zenon
    <3>4. RunFinished(y)'
      BY <1>3, <3>1, <3>2, <3>3, WorkerRemembers, Zenon DEF Working, Holding
    <3> QED  BY <2>1, <3>3, <3>4, Zenon DEF MovesTo
  <2> QED  BY <2>3, <2>4, Zenon
<1>10. CASE CreateRow(r)
  <2>1. PICK y \in RunRecord :
           RunBecomes(r, y) /\ RunOK(y) /\ (Returns(z, y) \/ MovesTo(z, y, "revision"))
    BY <1>2, <1>10, CreateRun, Zenon
  <2>2. z.pc \in Working
    BY <1>2, <1>10, Zenon DEF CreateRow, Working
  <2> QED  BY <1>6, <2>1, <2>2, Zenon DEF Returns, MovesTo, Working, Holding
<1>11. CASE StepRevision(r) \/ AdapterAnswersRun(r) \/ Govern(r)
  <2>1. PICK y \in RunRecord, p \in {"write", "revision", "adapter"} :
           RunBecomes(r, y) /\ RunOK(y) /\ (Returns(z, y) \/ MovesTo(z, y, p))
    BY <1>2, <1>11, RevisionRun, AdapterRun, GovernRun, Zenon
  <2>2. z.pc \in Working
    BY <1>2, <1>11, Zenon DEF StepRevision, AdapterAnswersRun, Govern, Working, Holding
  <2>3. y.pc # "reserve" /\ p \in Working \ {"complete"}
    BY <2>1, Zenon DEF Returns, MovesTo, Working, Holding
  <2> QED  BY <1>6, <2>1, <2>2, <2>3, Zenon
<1>12. CASE StepWrite(r)
  <2>1. PICK y \in RunRecord :
           /\ RunBecomes(r, y) /\ RunOK(y)
           /\ \/ Returns(z, y)
              \/ MovesTo(z, y, "revision") \/ MovesTo(z, y, "govern")
              \/ /\ MovesTo(z, y, "complete")
                 /\ z.next.status \in TERMINAL_STATUSES
                 /\ rows' = [rows EXCEPT ![z.w] =
                               [state |-> z.next, revision |-> rows[z.w].revision + 1,
                                updated_at |-> clock]]
    BY <1>2, <1>12, WriteRun, Zenon
  <2>2. z.pc = "write" /\ z.pc \in Working
    BY <1>2, <1>12, Zenon DEF StepWrite, Working, Holding
  <2>3. CASE Returns(z, y) \/ MovesTo(z, y, "revision") \/ MovesTo(z, y, "govern")
    <3>1. y.pc # "reserve"
      BY <2>3, Zenon DEF Returns, MovesTo
    <3> QED  BY <1>6, <2>1, <2>2, <2>3, <3>1, Zenon DEF Working, Holding
  <2>4. CASE /\ MovesTo(z, y, "complete")
             /\ z.next.status \in TERMINAL_STATUSES
             /\ rows' = [rows EXCEPT ![z.w] =
                           [state |-> z.next, revision |-> rows[z.w].revision + 1,
                            updated_at |-> clock]]
    <3>1. z.w \in LocalIds /\ z.next.request = z.q
      BY <1>3, <2>2, Zenon DEF RunOK
    <3>2. rows'[z.w] # NoLocalRow /\ rows'[z.w].state = z.next
      BY <2>4, <3>1, SMTT(30) DEF LocalTyped, NoLocalRow, TERMINAL_STATUSES
    <3>3. Ended(y.w, y.q)'
      BY <2>4, <3>1, <3>2, Zenon DEF Ended, MovesTo
    <3>4. z.late => z.w \in swept' /\ z.until <= clock'
      BY <1>5, <2>2, Zenon
    <3>5. RunFinished(y)'
      BY <2>4, <3>3, <3>4, Zenon DEF RunFinished, MovesTo, Working
    <3> QED  BY <2>1, <2>4, <3>5, Zenon DEF MovesTo
  <2> QED  BY <2>1, <2>3, <2>4, Zenon
<1>13. CASE CompleteBinding(r)
  <2>1. PICK y \in RunRecord : RunBecomes(r, y) /\ RunOK(y) /\ Returns(z, y)
    BY <1>2, <1>13, CompleteRun, Zenon
  <2> QED  BY <1>6, <2>1, Zenon DEF Returns
<1>14. CASE StopRun(r)
  <2>1. PICK y \in RunRecord : RunBecomes(r, y) /\ RunOK(y) /\ y.pc = "crashed" /\ ~y.late
    BY <1>14, StoppedRun, Zenon
  <2> QED  BY <1>6, <2>1, Zenon
<1> QED
  BY <1>7, <1>8, <1>9, <1>10, <1>11, <1>12, <1>13, <1>14, Zenon DEF RunStep

\* Every step keeps what late runs and completed keys stand for.
LEMMA FinishedStep ==
  ASSUME LocalTyped, RunsOK, Finished, [LocalNext]_localVars
  PROVE  Finished'
<1>1. backend' = backend
  BY CleanupRemovesEnded, Zenon DEF LocalNext, RunStep, localVars, LookUpKey, BindKey, LoadCheckpoint,
     CreateRow, StepRevision, StepWrite, Govern, AdapterAnswersRun, CompleteBinding, StopRun,
     LocalTick
<1>2. ASSUME NEW s \in Runs, runs'[s] = runs[s]
      PROVE  RunFinished(runs[s])' /\ (backend = "memory" => runs'[s].pc # "reserve")
  <2>1. PICK x \in RunRecord : x = runs[s]
    BY Zenon DEF LocalTyped
  <2>2. RunOK(x) /\ RunFinished(x)
    BY <2>1, Zenon DEF RunsOK, Finished
  <2>3. RunFinished(x)'
    BY <2>2, RememberedIsStable, Zenon
  <2>4. backend = "memory" => runs[s].pc # "reserve"
    BY Zenon DEF Finished
  <2> QED  BY <1>2, <2>1, <2>3, <2>4, Zenon DEF RunFinished, Ended
<1>3. ASSUME NEW r \in Runs, RunStep(r) \/ StopRun(r), NEW s \in Runs
      PROVE  RunFinished(runs[s])' /\ (backend = "memory" => runs'[s].pc # "reserve")
  <2>1. PICK y \in RunRecord :
           /\ RunBecomes(r, y) /\ RunOK(y) /\ RunFinished(y)'
           /\ y.pc = "reserve" => backend = "sqlite"
    BY <1>3, ActingRun, Zenon
  <2>2. runs'[r] = y /\ \A t \in Runs \ {r} : runs'[t] = runs[t]
    BY <2>1, OneRunChanges, Zenon
  <2>3. CASE s = r
    BY <2>1, <2>2, <2>3, Zenon DEF RunFinished, Ended
  <2>4. CASE s # r
    BY <1>2, <2>2, <2>4, Zenon
  <2> QED  BY <2>3, <2>4, Zenon
<1>4. ASSUME UNCHANGED runs, NEW s \in Runs
      PROVE  RunFinished(runs[s])' /\ (backend = "memory" => runs'[s].pc # "reserve")
  BY <1>2, <1>4, Zenon
<1>5. \A s \in Runs : RunFinished(runs[s])' /\ (backend = "memory" => runs'[s].pc # "reserve")
  <2>1. (\E r \in Runs : RunStep(r) \/ StopRun(r)) \/ UNCHANGED runs
    BY CleanupRemovesEnded, Zenon DEF LocalNext, LocalTick, localVars
  <2> QED  BY <1>3, <1>4, <2>1, Zenon
<1>6. \A q \in Requests : bindings'[q].status = "completed" => Ended(bindings[q].workflow_id, q)'
  BY KeysStep, Zenon
<1> QED  BY <1>1, <1>5, <1>6, KeysStep, Zenon DEF Finished

-----------------------------------------------------------------------------
(* The attempt budget *)

\* Replacing one value of a function.
LEMMA OneValueChanges ==
  ASSUME NEW S, NEW T, NEW f \in [S -> T], NEW k \in S, NEW v
  PROVE  /\ [f EXCEPT ![k] = v][k] = v
         /\ \A j \in S \ {k} : [f EXCEPT ![k] = v][j] = f[j]
  BY Zenon

\* The runs that Live counts are the ones at a working pc.
LEMMA LiveIsWorking ==
  ASSUME LocalTyped, NEW w, NEW s \in Runs
  PROVE  s \in Live(w) <=> runs[s].w = w /\ runs[s].pc \in Working
<1>1. runs[s].pc \in Working \cup {"begin", "reserve", "load", "returned", "crashed"}
  BY RunFields, Zenon DEF LocalTyped
<1> QED  BY <1>1, Zenon DEF Live, Working, Holding

\* The runs at work after one of them has moved.
LEMMA LiveAfter ==
  ASSUME LocalTyped, NEW r \in Runs, NEW y \in RunRecord, RunBecomes(r, y), NEW w
  PROVE  /\ \A s \in Runs \ {r} : (s \in Live(w)' <=> s \in Live(w)) /\ runs'[s] = runs[s]
         /\ r \in Live(w)' <=> y.w = w /\ y.pc \in Working
         /\ runs'[r] = y
<1>1. runs'[r] = y /\ \A s \in Runs \ {r} : runs'[s] = runs[s]
  BY Zenon DEF RunBecomes, LocalTyped
<1>2. y.pc \in Working \cup {"begin", "reserve", "load", "returned", "crashed"}
  BY RunFields, Zenon
<1> QED  BY <1>1, <1>2, Zenon DEF Live, Working, Holding

\* A workflow stays within its budget when the acting run does not work on it afterwards
\* and its row and its calls are left alone.
LEMMA BudgetElsewhere ==
  ASSUME LocalTyped, NEW w \in LocalIds, BudgetOf(w), NEW r \in Runs, NEW y \in RunRecord,
         RunBecomes(r, y), ~(y.w = w /\ y.pc \in Working),
         rows'[w] = rows[w], called'[w] = called[w]
  PROVE  BudgetOf(w)'
<1>1. \A s \in Live(w)' : s \in Live(w) /\ runs'[s] = runs[s]
  BY LiveAfter, SMTT(30) DEF Live
<1> QED  BY <1>1, Zenon DEF BudgetOf

\* The run that works on w alone has moved: what has to hold of its record.
LEMMA BudgetAlone ==
  ASSUME LocalTyped, NEW w \in LocalIds, NEW r \in Runs, NEW y \in RunRecord,
         RunBecomes(r, y), Live(w) \subseteq {r},
         called'[w] <= MaxAttempts,
         rows'[w] # NoLocalRow => called'[w] <= rows'[w].state.attempts,
         y.w = w /\ y.pc \in Holding => rows'[w] # NoLocalRow /\ y.copy = rows'[w].state,
         y.w = w /\ y.pc = "govern" => called'[w] < rows'[w].state.attempts
  PROVE  BudgetOf(w)'
<1>1. \A s \in Live(w)' : s = r
  BY LiveAfter, SMTT(30) DEF Live
<1>2. r \in Live(w)' => y.w = w
  BY LiveAfter, Zenon
<1>3. runs'[r] = y
  BY LiveAfter
<1> QED  BY <1>1, <1>2, <1>3, Zenon DEF BudgetOf

\* Every step keeps the budget of each workflow that no two runs have worked on.
LEMMA BudgetStep ==
  ASSUME LocalTyped, RunsOK, Budget, [LocalNext]_localVars
  PROVE  Budget'
<1> SUFFICES ASSUME NEW w \in LocalIds, w \notin overlapped'
             PROVE  BudgetOf(w)'
  BY Zenon DEF Budget
<1>1. overlapped \subseteq overlapped'
  BY CleanupRemovesEnded, Zenon DEF LocalNext, RunStep, localVars, LookUpKey, BindKey, LoadCheckpoint,
     CreateRow, StepRevision, StepWrite, Govern, AdapterAnswersRun, CompleteBinding, StopRun,
     LocalTick
<1>2. BudgetOf(w)
  BY <1>1, Zenon DEF Budget
<1>0. rows \in [LocalIds -> LocalRow \cup {NoLocalRow}] /\ called \in [LocalIds -> Nat]
  BY Zenon DEF LocalTyped
<1>3. called[w] \in Nat /\ rows[w] \in LocalRow \cup {NoLocalRow} /\ MaxAttempts \in Nat
  BY BudgetAssumption, Zenon DEF LocalTyped
<1>4. ASSUME NEW r \in Runs, NEW y \in RunRecord, RunBecomes(r, y), y.pc \notin Working,
             rows'[w] = rows[w], called'[w] = called[w]
      PROVE  BudgetOf(w)'
  BY <1>2, <1>4, BudgetElsewhere, Zenon
<1>5. ASSUME NEW r \in Runs, runs[r].w = w, runs[r].pc \in Working
      PROVE  /\ Live(w) = {r}
             /\ runs[r].pc \in Holding => rows[w] # NoLocalRow /\ runs[r].copy = rows[w].state
             /\ runs[r].pc = "govern" => called[w] < rows[w].state.attempts
             /\ called[w] <= MaxAttempts
             /\ rows[w] # NoLocalRow => called[w] <= rows[w].state.attempts
  <2>1. r \in Live(w)
    BY <1>5, LiveIsWorking, Zenon
  <2>2. Live(w) = {r}
    BY <1>2, <2>1, Zenon DEF BudgetOf
  <2> QED  BY <1>2, <2>1, <2>2, Zenon DEF BudgetOf
<1>6. ASSUME NEW r \in Runs, LookUpKey(r) PROVE BudgetOf(w)'
  <2>1. PICK y \in RunRecord : RunBecomes(r, y) /\ y.pc \in {"reserve", "load"}
    BY <1>6, LookUpRun, Zenon
  <2> QED  BY <1>4, <1>6, <2>1, Zenon DEF LookUpKey, Working, Holding
<1>7. ASSUME NEW r \in Runs, BindKey(r) PROVE BudgetOf(w)'
  <2>1. PICK y \in RunRecord : RunBecomes(r, y) /\ y.pc \in {"returned", "load"}
    BY <1>7, BindRun, Zenon DEF Returns, MovesTo
  <2> QED  BY <1>4, <1>7, <2>1, Zenon DEF BindKey, Working, Holding
<1>8. ASSUME NEW r \in Runs, LoadCheckpoint(r) PROVE BudgetOf(w)'
  <2>1. PICK y \in RunRecord :
           /\ RunBecomes(r, y)
           /\ \/ y.pc = "returned"
              \/ y.w = runs[r].w /\ y.pc = "create"
              \/ /\ y.w = runs[r].w /\ y.pc = "revision"
                 /\ rows[runs[r].w] # NoLocalRow /\ y.copy = rows[runs[r].w].state
    BY <1>8, LoadRun, Zenon DEF Returns, MovesTo
  <2>2. UNCHANGED <<rows, called>>
    BY <1>8, Zenon DEF LoadCheckpoint
  <2>3. CASE y.w = w /\ y.pc \in Working
    <3>1. runs[r].w = w
      BY <2>1, <2>3, Zenon DEF Working, Holding
    <3>2. Live(w) = {}
      BY <1>8, <3>1, Zenon DEF LoadCheckpoint
    <3>3. called[w] <= MaxAttempts /\ (rows[w] # NoLocalRow => called[w] <= rows[w].state.attempts)
      BY <1>2, Zenon DEF BudgetOf
    <3>4. y.pc \in Holding => rows[w] # NoLocalRow /\ y.copy = rows[w].state
      BY <2>1, <3>1, Zenon DEF Holding
    <3>5. y.pc # "govern"
      BY <2>1, Zenon
    <3> QED  BY <2>1, <2>2, <3>2, <3>3, <3>4, <3>5, BudgetAlone, Zenon
  <2>4. CASE ~(y.w = w /\ y.pc \in Working)
    BY <1>2, <2>1, <2>2, <2>4, BudgetElsewhere, Zenon
  <2> QED  BY <2>3, <2>4, Zenon
<1>9. ASSUME NEW r \in Runs, CreateRow(r) PROVE BudgetOf(w)'
  <2>1. runs[r].pc \in Working /\ runs[r].w \in LocalIds
    BY <1>9, Zenon DEF CreateRow, RunsOK, RunOK, Working
  <2>2. PICK y \in RunRecord :
           /\ RunBecomes(r, y)
           /\ \/ y.pc = "returned" /\ UNCHANGED <<rows, called>>
              \/ /\ y.w = runs[r].w /\ y.pc = "revision" /\ y.copy.attempts = 0
                 /\ rows' = [rows EXCEPT ![runs[r].w] =
                               [state |-> y.copy, revision |-> 1, updated_at |-> clock]]
                 /\ called' = [called EXCEPT ![runs[r].w] = 0]
                 /\ RunOK(y)
    BY <1>9, CreateRun, Zenon DEF Returns, MovesTo
  <2>3. CASE y.pc = "returned"
    BY <1>4, <2>2, <2>3, Zenon DEF Working, Holding
  <2>4. CASE y.pc # "returned" /\ runs[r].w # w
    <3>1. rows'[w] = rows[w] /\ called'[w] = called[w] /\ y.w # w
      BY <2>2, <2>4, Zenon DEF LocalTyped
    <3> QED  BY <1>2, <2>2, <3>1, BudgetElsewhere, Zenon
  <2>5. CASE y.pc # "returned" /\ runs[r].w = w
    <3> DEFINE new == [state |-> y.copy, revision |-> 1, updated_at |-> clock]
    <3>0. rows' = [rows EXCEPT ![w] = new] /\ called' = [called EXCEPT ![w] = 0]
      BY <2>2, <2>5, Zenon
    <3>1. rows'[w].state = y.copy /\ called'[w] = 0
      <4>1. rows'[w] = new /\ called'[w] = 0
        BY <1>0, <3>0, OneValueChanges, Zenon
      <4> QED  BY <4>1
    <3> HIDE DEF new
    <3>2. y.copy.status \in Open
      BY <2>2, <2>5, Zenon DEF RunOK, Holding
    <3>3. rows'[w] # NoLocalRow
      BY <3>1, <3>2, SMTT(30) DEF Open, NoLocalRow
    <3>4. y.pc # "govern" /\ called'[w] <= MaxAttempts /\ called'[w] <= rows'[w].state.attempts
      BY <1>3, <2>2, <2>5, <3>1
    <3> QED  BY <1>5, <2>1, <2>2, <2>5, <3>1, <3>3, <3>4, BudgetAlone, Zenon
  <2> QED  BY <2>3, <2>4, <2>5, Zenon
<1>10. ASSUME NEW r \in Runs, StepRevision(r) \/ AdapterAnswersRun(r) PROVE BudgetOf(w)'
  <2>1. runs[r].pc \in Working /\ runs[r].pc \in Holding
    BY <1>10, Zenon DEF StepRevision, AdapterAnswersRun, Working, Holding
  <2>2. PICK y \in RunRecord :
           /\ RunBecomes(r, y)
           /\ \/ y.pc = "returned"
              \/ y.pc \in {"write", "revision"} /\ y.w = runs[r].w /\ y.copy = runs[r].copy
    BY <1>10, RevisionRun, AdapterRun, Zenon DEF Returns, MovesTo
  <2>3. UNCHANGED <<rows, called>>
    BY <1>10, Zenon DEF StepRevision, AdapterAnswersRun
  <2>4. CASE y.pc = "returned"
    BY <1>4, <2>2, <2>3, <2>4, Zenon DEF Working, Holding
  <2>5. CASE y.pc # "returned" /\ runs[r].w # w
    BY <1>2, <2>2, <2>3, <2>5, BudgetElsewhere, Zenon
  <2>6. CASE y.pc # "returned" /\ runs[r].w = w
    <3>1. /\ Live(w) = {r} /\ called[w] <= MaxAttempts /\ rows[w] # NoLocalRow
          /\ runs[r].copy = rows[w].state /\ called[w] <= rows[w].state.attempts
      BY <1>5, <2>1, <2>6, Zenon
    <3>2. y.pc # "govern" /\ y.copy = rows[w].state
      BY <2>2, <2>6, <3>1, Zenon
    <3> QED  BY <2>2, <2>3, <3>1, <3>2, BudgetAlone, Zenon
  <2> QED  BY <2>4, <2>5, <2>6, Zenon
<1>11. ASSUME NEW r \in Runs, StepWrite(r) PROVE BudgetOf(w)'
  <2>1. /\ runs[r].pc = "write" /\ runs[r].pc \in Working /\ runs[r].pc \in Holding
        /\ runs[r].w \in LocalIds
        /\ runs[r].next \in Snapshot /\ runs[r].copy \in Snapshot
        /\ runs[r].next.attempts = IF runs[r].next.status = "running"
                                     THEN runs[r].copy.attempts + 1 ELSE runs[r].copy.attempts
    BY <1>11, Zenon DEF StepWrite, RunsOK, RunOK, Working, Holding
  <2>2. called' = called
    BY <1>11, Zenon DEF StepWrite
  <2>3. PICK y \in RunRecord :
           /\ RunBecomes(r, y)
           /\ \/ Returns(runs[r], y) /\ rows' = rows
              \/ /\ rows' = [rows EXCEPT ![runs[r].w] =
                               [state |-> runs[r].next, revision |-> rows[runs[r].w].revision + 1,
                                updated_at |-> clock]]
                 /\ y.w = runs[r].w
                 /\ \/ y.pc \in {"returned", "complete"}
                    \/ /\ y.pc \in {"revision", "govern"} /\ y.copy = runs[r].next
                       /\ y.pc = "govern" => runs[r].next.status = "running"
    BY <1>11, WriteRun, Zenon DEF Returns, MovesTo
  <2>4. CASE Returns(runs[r], y) /\ rows' = rows
    BY <1>4, <2>2, <2>3, <2>4, Zenon DEF Returns, Working, Holding
  <2>5. CASE rows' # rows /\ runs[r].w # w
    <3>1. rows'[w] = rows[w] /\ y.w # w
      BY <2>3, <2>5, Zenon DEF LocalTyped
    <3> QED  BY <1>2, <2>2, <2>3, <3>1, BudgetElsewhere, Zenon
  <2>6. CASE rows' # rows /\ runs[r].w = w
    <3>1. /\ Live(w) = {r} /\ called[w] <= MaxAttempts /\ rows[w] # NoLocalRow
          /\ runs[r].copy = rows[w].state /\ called[w] <= rows[w].state.attempts
      BY <1>5, <2>1, <2>6, Zenon
    <3>2. rows'[w].state = runs[r].next
      BY <2>3, <2>6, SMTT(30) DEF LocalTyped
    <3>3. rows'[w] # NoLocalRow
      BY <2>1, <3>2, SMTT(30) DEF Snapshot, WorkflowStatus, NoLocalRow
    <3>4. runs[r].copy.attempts \in Nat /\ runs[r].next.attempts \in Nat
      BY <1>3, <2>1, SMTT(30) DEF Snapshot
    <3>5. called'[w] <= rows'[w].state.attempts
      BY <1>3, <2>1, <2>2, <3>1, <3>2, <3>4, SMTT(30)
    <3>6. y.pc = "govern" => called'[w] < rows'[w].state.attempts
      <4>1. y.pc = "govern" => runs[r].next.status = "running"
        BY <2>3, <2>6, Zenon DEF Returns
      <4>2. runs[r].next.status = "running" => runs[r].next.attempts = runs[r].copy.attempts + 1
        BY <2>1, Zenon
      <4>3. called[w] <= runs[r].copy.attempts
        BY <3>1, Zenon
      <4> QED  BY <1>3, <2>2, <3>2, <3>4, <4>1, <4>2, <4>3, SMTT(30)
    <3>7. y.pc \in Holding => y.copy = rows'[w].state
      BY <2>3, <2>6, <3>2, Zenon DEF Returns, Holding
    <3> QED  BY <2>2, <2>3, <3>1, <3>3, <3>5, <3>6, <3>7, BudgetAlone, Zenon
  <2>7. CASE rows' = rows /\ ~Returns(runs[r], y)
    <3>1. PICK row : rows[runs[r].w] = row /\ row.revision \in Nat
      BY <2>1 DEF LocalTyped, LocalRow, NoLocalRow
    <3>2. PICK v \in LocalIds : v = runs[r].w
      BY <2>1, Zenon
    <3> DEFINE new == [state |-> runs[r].next, revision |-> row.revision + 1, updated_at |-> clock]
    <3>3. rows' = [rows EXCEPT ![v] = new]
      BY <2>3, <2>7, <3>1, <3>2, Zenon
    <3>4. rows'[v] = new
      BY <1>0, <3>3, OneValueChanges, Zenon
    <3>5. rows'[v].revision = row.revision + 1
      BY <3>4
    <3> QED  BY <2>7, <3>1, <3>2, <3>5, SMTT(30)
  <2> QED  BY <2>3, <2>4, <2>5, <2>6, <2>7, Zenon
<1>12. ASSUME NEW r \in Runs, Govern(r) PROVE BudgetOf(w)'
  <2>1. runs[r].pc = "govern" /\ runs[r].pc \in Working /\ runs[r].pc \in Holding
    BY <1>12, Zenon DEF Govern, Working, Holding
  <2>2. rows' = rows
    BY <1>12, Zenon DEF Govern
  <2>3. PICK y \in RunRecord :
           /\ RunBecomes(r, y)
           /\ \/ y.pc = "returned" /\ called' = called
              \/ /\ y.pc = "adapter" /\ y.w = runs[r].w /\ y.copy = runs[r].copy
                 /\ called' = [called EXCEPT ![runs[r].w] = @ + 1]
    BY <1>12, GovernRun, Zenon DEF Returns, MovesTo
  <2>4. CASE y.pc = "returned"
    BY <1>4, <2>2, <2>3, <2>4, Zenon DEF Working, Holding
  <2>5. CASE y.pc # "returned" /\ runs[r].w # w
    <3>1. called'[w] = called[w]
      BY <2>3, <2>5, Zenon DEF LocalTyped
    <3> QED  BY <1>2, <2>2, <2>3, <2>5, <3>1, BudgetElsewhere, Zenon
  <2>6. CASE y.pc # "returned" /\ runs[r].w = w
    <3>1. /\ Live(w) = {r} /\ rows[w] # NoLocalRow /\ runs[r].copy = rows[w].state
          /\ called[w] < rows[w].state.attempts
      BY <1>5, <2>1, <2>6, Zenon
    <3>2. called'[w] = called[w] + 1
      BY <2>3, <2>6, Zenon DEF LocalTyped
    <3>3. rows[w].state.attempts \in 0..MaxAttempts
      BY <1>3, <3>1, Zenon DEF LocalRow, Snapshot
    <3>4. called'[w] <= rows[w].state.attempts /\ called'[w] <= MaxAttempts
      BY <1>3, <3>1, <3>2, <3>3, SMTT(30)
    <3>5. y.pc # "govern" /\ y.copy = rows[w].state
      BY <2>3, <2>6, <3>1, Zenon
    <3> QED  BY <2>2, <2>3, <3>1, <3>4, <3>5, BudgetAlone, Zenon
  <2> QED  BY <2>4, <2>5, <2>6, Zenon
<1>13. ASSUME NEW r \in Runs, CompleteBinding(r) \/ StopRun(r) PROVE BudgetOf(w)'
  <2>1. PICK y \in RunRecord : RunBecomes(r, y) /\ y.pc \in {"returned", "crashed"}
    BY <1>13, CompleteRun, StoppedRun, Zenon DEF Returns
  <2>2. UNCHANGED <<rows, called>>
    BY <1>13, Zenon DEF CompleteBinding, StopRun
  <2> QED  BY <1>4, <2>1, <2>2, Zenon DEF Working, Holding
<1>14. CASE LocalCleanup
  <2>1. PICK W \in SUBSET LocalIds :
           /\ \A v \in W : rows[v].state.status \in TERMINAL_STATUSES
           /\ rows' = [v \in LocalIds |-> IF v \in W THEN NoLocalRow ELSE rows[v]]
           /\ UNCHANGED <<runs, called>>
    BY <1>14, CleanupRemovesEnded, Zenon
  <2>2. Live(w)' = Live(w)
    BY <2>1, Zenon DEF Live
  <2>3. CASE w \notin W
    BY <1>2, <2>1, <2>2, <2>3, Zenon DEF BudgetOf
  <2>4. CASE w \in W
    <3>1. ASSUME NEW r \in Live(w), runs[r].pc \in Holding PROVE FALSE
      <4>1. runs[r].copy = rows[w].state /\ runs[r].copy.status \in Open
        BY <1>2, <3>1, Zenon DEF BudgetOf, RunsOK, RunOK, Live
      <4> QED  BY <2>1, <2>4, <4>1, OpenIsNotTerminal, Zenon
    <3>2. rows'[w] = NoLocalRow
      BY <2>1, <2>4, Zenon
    <3> QED  BY <1>2, <2>1, <2>2, <3>1, <3>2, Zenon DEF BudgetOf, Holding
  <2> QED  BY <2>3, <2>4, Zenon
<1>15. CASE UNCHANGED <<rows, runs, called>>
  <2>1. Live(w)' = Live(w)
    BY <1>15, Zenon DEF Live
  <2> QED  BY <1>2, <1>15, <2>1, Zenon DEF BudgetOf
<1> QED
  BY Zenon, <1>6, <1>7, <1>8, <1>9, <1>10, <1>11, <1>12, <1>13, <1>14, <1>15
     DEF LocalNext, RunStep, LocalTick, localVars

-----------------------------------------------------------------------------
(* The theorems *)

\* The inductive invariant: what runs know by themselves, what their copies of shared data
\* are worth, and the calls a workflow's stored count covers.
THEOREM LocalInvariant == LocalSpec => []LocalInv
<1>1. LocalInv /\ [LocalNext]_localVars => LocalInv'
  BY TypedStep, FinishedStep, BudgetStep, Zenon DEF LocalInv
<1> QED  BY <1>1, LocalInitInv, PTL DEF LocalSpec

\* However often a workflow that one run at a time works on crashes and is submitted
\* again, the adapter is called for it at most MaxAttempts times.
THEOREM LocalRecoveriesBounded == LocalSpec => []RecoveriesBounded
<1>1. LocalInv => RecoveriesBounded
  BY Zenon DEF LocalInv, Budget, BudgetOf, RecoveriesBounded
<1> QED  BY <1>1, LocalInvariant, PTL

\* A run that begins after its request was completed, or its workflow had ended, calls
\* the adapter only if a cleanup has removed the row and the completed key has expired.
THEOREM LocalFinishedIsNotRerun == LocalSpec => FinishedIsNotRerun
<1>1. LocalInv => \A r \in Runs : runs[r].pc = "govern" /\ runs[r].late
                                    => runs[r].w \in swept /\ runs[r].until <= clock
  BY Zenon DEF LocalInv, Finished, RunFinished, Working, Holding
<1>2. LocalInv /\ [LocalNext]_localVars =>
        [\A r \in Runs : CallsAdapterNow(r) /\ runs[r].late
                           => runs[r].w \in swept /\ runs[r].until <= clock]_localVars
  BY <1>1, Zenon DEF CallsAdapterNow
<1> QED  BY <1>2, LocalInvariant, PTL DEF LocalSpec, FinishedIsNotRerun
=============================================================================
