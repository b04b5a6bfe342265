--------------------------- MODULE RunMemoryProofs ---------------------------
(***************************************************************************)
(* Proofs about the plain graph execution, for every retry budget and      *)
(* every choice of the durations, and about the Redis provider that keeps  *)
(* a conversation between executions, for any number of sessions, ids and  *)
(* calls, any TTL and any clock.  The two share no state.                  *)
(*                                                                         *)
(* GraphIsWired is not inductive: it says nothing of a run that is still   *)
(* under way.  The strengthening Wired states what a run has accumulated   *)
(* by the time it reaches a stage, and the three table lemmas show that    *)
(* the tables of StageGraph keep it true along NextStage.                  *)
(*                                                                         *)
(* OneRecordPerId is not inductive: when the clock advances, it must be    *)
(* known that the registry entry of an id lives as long as its record.     *)
(* Lifetimes is that strengthening.  Reachable is the one for the second   *)
(* theorem: a record that lives for every client is recalled unless a      *)
(* compaction has taken it out of its index, and the id of an expired      *)
(* record stays reserved.                                                  *)
(***************************************************************************)
EXTENDS WorkflowRun, RedisMemory, TLAPS
-----------------------------------------------------------------------------
(* The graph execution *)

\* What the channel holds, at least, when a run reaches a stage.
ChannelBefore ==
  [ initialize |-> {"turn"},
    memory     |-> {"turn"},
    intent     |-> {},
    plan       |-> {"intent_outcome"},
    validate   |-> {"ir"},
    compile    |-> {"ir"},
    guard      |-> {"ir", "compilation_context", "compiler_result"},
    govern     |-> {"ir", "compilation_context", "compiler_result", "validated",
                    "validation_context", "artifact_guard"},
    authorize  |-> {"ir", "compilation_context", "compiler_result", "validated",
                    "validation_context", "artifact_guard"},
    execute    |-> {"ir", "compilation_context", "compiler_result", "validated",
                    "validation_context", "artifact_guard", "authorization"},
    protect    |-> {"ir", "compiler_result", "artifact_guard", "authorization",
                    "execution"},
    persist    |-> {"outcome"},
    complete   |-> {"outcome"} ]

\* Which gates have evidence, at least, when a run reaches a stage.
EvidenceBefore ==
  [ initialize |-> BaseEvidence,
    memory     |-> BaseEvidence,
    intent     |-> BaseEvidence,
    plan       |-> BaseEvidence,
    validate   |-> BaseEvidence,
    compile    |-> BaseEvidence \cup {"plan_validation"},
    guard      |-> BaseEvidence \cup {"plan_validation", "compilation"},
    govern     |-> WorkflowGate \ {"governance", "authorization"},
    authorize  |-> WorkflowGate \ {"authorization"},
    execute    |-> WorkflowGate,
    protect    |-> WorkflowGate,
    persist    |-> WorkflowGate,
    complete   |-> WorkflowGate ]

\* The inductive invariant: the accumulated inputs, and no bad ending yet.
Wired ==
  /\ TypeOK
  /\ ChannelBefore[stage] \subseteq channel
  /\ EvidenceBefore[stage] \subseteq evidence
  /\ pc = "adapter" => stage = "execute"
  /\ GraphIsWired

\* Every key a node indexes is among those accumulated before its stage.
LEMMA InputsAvailable ==
  \A s \in WorkflowStage : NODES[s].reads \subseteq ChannelBefore[s]
<1>1. \A s \in {"initialize", "memory", "intent", "plan", "validate", "compile"} :
        NODES[s].reads \subseteq ChannelBefore[s]
  BY DEF ChannelBefore, NODES, Node, InitializeNode, MemoryNode, IntentNode, PlanNode, ValidateNode,
         CompileNode
<1>2. \A s \in {"guard", "govern", "authorize", "execute"} : NODES[s].reads \subseteq ChannelBefore[s]
  BY DEF ChannelBefore, NODES, Node, GuardNode, GovernNode, AuthorizeNode, ExecuteStageNode
<1>3. \A s \in {"protect", "persist", "complete"} : NODES[s].reads \subseteq ChannelBefore[s]
  BY DEF ChannelBefore, NODES, Node, ProtectNode, PersistNode, CompleteNode
<1> QED  BY <1>1, <1>2, <1>3, Zenon DEF WorkflowStage

\* Every gate a stage requires is among those accumulated before it.
LEMMA GatesAvailable ==
  \A s \in WorkflowStage : REQUIRED_GATES[s] \subseteq EvidenceBefore[s]
BY DEF WorkflowStage, REQUIRED_GATES, EvidenceBefore, BaseEvidence, WorkflowGate

\* A successful node leaves behind what its successor stage counts on.
LEMMA SuccessorSupplied ==
  \A s \in WorkflowStage \ {"complete"} :
     /\ NextStage[s] \in WorkflowStage
     /\ ChannelBefore[NextStage[s]] \subseteq ChannelBefore[s] \cup NODES[s].writes
     /\ EvidenceBefore[NextStage[s]] \subseteq EvidenceBefore[s] \cup NODES[s].gates
<1>1. \A s \in {"initialize", "memory", "intent", "plan", "validate", "compile"} :
        /\ ChannelBefore[NextStage[s]] \subseteq ChannelBefore[s] \cup NODES[s].writes
        /\ EvidenceBefore[NextStage[s]] \subseteq EvidenceBefore[s] \cup NODES[s].gates
  BY DEF NextStage, ChannelBefore, EvidenceBefore, BaseEvidence, WorkflowGate, NODES, Node, InitializeNode, MemoryNode, IntentNode, PlanNode, ValidateNode,
         CompileNode
<1>2. \A s \in {"guard", "govern", "authorize", "execute"} :
        /\ ChannelBefore[NextStage[s]] \subseteq ChannelBefore[s] \cup NODES[s].writes
        /\ EvidenceBefore[NextStage[s]] \subseteq EvidenceBefore[s] \cup NODES[s].gates
  BY DEF NextStage, ChannelBefore, EvidenceBefore, BaseEvidence, WorkflowGate, NODES, Node, GuardNode, GovernNode, AuthorizeNode, ExecuteStageNode
<1>3. \A s \in {"protect", "persist"} :
        /\ ChannelBefore[NextStage[s]] \subseteq ChannelBefore[s] \cup NODES[s].writes
        /\ EvidenceBefore[NextStage[s]] \subseteq EvidenceBefore[s] \cup NODES[s].gates
  BY DEF NextStage, ChannelBefore, EvidenceBefore, BaseEvidence, WorkflowGate, NODES, Node, ProtectNode, PersistNode, CompleteNode
<1>4. \A s \in WorkflowStage \ {"complete"} : NextStage[s] \in WorkflowStage
  BY DEF WorkflowStage, NextStage
<1> QED  BY <1>1, <1>2, <1>3, <1>4 DEF WorkflowStage

\* The stages before the first adapter call.
PreExecute ==
  {"initialize", "memory", "intent", "plan", "validate", "compile", "guard",
   "govern", "authorize"}

\* How the number of adapter calls follows the retry counter, and where a
\* cancelled run can be.
Counted ==
  /\ stage \in PreExecute => calls = 0
  /\ stage = "execute" /\ pc = "enter" => calls = 0
  /\ stage = "execute" /\ pc = "node" => calls < tries
  /\ pc = "adapter" => calls <= tries
  /\ calls <= MaxRetries
  /\ cancelled => stage = "initialize" /\ pc \in {"enter", "done"}
  /\ pc # "done" => result = NoResult
  /\ result = "cancelled" => cancelled
  /\ result \in {"clarification", "approval"} => stage \in PreExecute

\* The initial state is wired: the seeded channel and evidence suffice for
\* the first stage.
LEMMA WiredInit == Init => Wired
BY BudgetAssumption
   DEF Init, Wired, TypeOK, GraphIsWired, ChannelBefore, EvidenceBefore,
       BaseChannel, BaseEvidence, ChannelKey, WorkflowGate, WorkflowStage,
       NoResult, Never

\* The branches a node or a stage entry can end with are all results.
LEMMA EndingsTyped ==
  /\ \A s \in WorkflowStage : NODES[s].branches \subseteq Branch \ {"gate_error", "raised"}
  /\ \A s, e, d, c, t : StageEntry(s, e, d, c, t) # "ok"
        => StageEntry(s, e, d, c, t) \in {"gate_error", "timeout", "cancelled"}
BY DEF WorkflowStage, Branch, StageEntry, NODES, Node, InitializeNode, MemoryNode, IntentNode, PlanNode,
       ValidateNode, CompileNode, GuardNode, GovernNode, AuthorizeNode, ExecuteStageNode,
       ProtectNode, PersistNode, CompleteNode

\* validate_stage_entry never reports a missing gate to a wired run.
LEMMA NoGateError ==
  ASSUME Wired
  PROVE  StageEntry(stage, evidence, deadline, cancelled, now) # "gate_error"
<1>1. REQUIRED_GATES[stage] \subseteq evidence
  BY GatesAvailable, Zenon DEF Wired, TypeOK
<1> QED
  BY <1>1, Zenon DEF StageEntry

\* The node tables stay within the channel keys and the gates.
LEMMA NodesTyped ==
  \A s \in WorkflowStage : NODES[s].writes \subseteq ChannelKey /\ NODES[s].gates \subseteq WorkflowGate
<1>1. \A s \in {"initialize", "memory", "intent", "plan", "validate", "compile"} :
        NODES[s].writes \subseteq ChannelKey /\ NODES[s].gates \subseteq WorkflowGate
  BY DEF ChannelKey, WorkflowGate, NODES, Node, InitializeNode, MemoryNode, IntentNode, PlanNode, ValidateNode,
         CompileNode
<1>2. \A s \in {"guard", "govern", "authorize", "execute"} :
        NODES[s].writes \subseteq ChannelKey /\ NODES[s].gates \subseteq WorkflowGate
  BY DEF ChannelKey, WorkflowGate, NODES, Node, GuardNode, GovernNode, AuthorizeNode, ExecuteStageNode
<1>3. \A s \in {"protect", "persist", "complete"} :
        NODES[s].writes \subseteq ChannelKey /\ NODES[s].gates \subseteq WorkflowGate
  BY DEF ChannelKey, WorkflowGate, NODES, Node, ProtectNode, PersistNode, CompleteNode
<1> QED  BY <1>1, <1>2, <1>3, Zenon DEF WorkflowStage

\* Advance keeps the accumulated inputs.
LEMMA AdvanceWired ==
  ASSUME Wired, Advance
  PROVE  /\ stage' \in WorkflowStage
         /\ channel' \in SUBSET ChannelKey
         /\ evidence' \in SUBSET WorkflowGate
         /\ ChannelBefore[stage'] \subseteq channel'
         /\ EvidenceBefore[stage'] \subseteq evidence'
         /\ \/ pc' = "enter" /\ result' = result
            \/ pc' = "done" /\ result' = "succeeded"
<1>1. NODES[stage].writes \subseteq ChannelKey /\ NODES[stage].gates \subseteq WorkflowGate
  BY NodesTyped, Zenon DEF Wired, TypeOK
<1>2. CASE stage = "complete"
  <2>1. NextStage[stage] = NoStage
    BY <1>2, Zenon DEF NextStage
  <2> QED
    BY <1>1, <2>1, Zenon DEF Advance, Return, Wired, TypeOK
<1>3. CASE stage # "complete"
  <2>1. stage \in WorkflowStage \ {"complete"}
    BY <1>3, Zenon DEF Wired, TypeOK
  <2>2. NextStage[stage] # NoStage
    BY <2>1, SuccessorSupplied, Zenon DEF NoStage, WorkflowStage
  <2>3. stage' = NextStage[stage] /\ pc' = "enter" /\ result' = result
    BY <2>2, Zenon DEF Advance
  <2>4. ChannelBefore[stage'] \subseteq channel'
    BY <2>1, <2>3, SuccessorSupplied, Zenon DEF Advance, Wired
  <2>5. EvidenceBefore[stage'] \subseteq evidence'
    BY <2>1, <2>3, SuccessorSupplied, Zenon DEF Advance, Wired
  <2> QED
    BY <1>1, <2>1, <2>3, <2>4, <2>5, SuccessorSupplied, Zenon DEF Advance, Wired, TypeOK
<1> QED
  BY <1>2, <1>3, Zenon

\* Every step of a run keeps the accumulated inputs and ends no run badly.
LEMMA WiredNext == Wired /\ [Next]_vars => Wired'
<1> SUFFICES ASSUME Wired, [Next]_vars
             PROVE  Wired'
  BY Zenon
<1> USE BudgetAssumption DEF Wired, TypeOK, GraphIsWired
<1>1. CASE EnterStage
  <2>1. StageEntry(stage, evidence, deadline, cancelled, now)
          \in {"ok", "timeout", "cancelled"}
    BY NoGateError, EndingsTyped, Zenon
  <2> QED
    BY <1>1, <2>1 DEF EnterStage, Return, Branch
<1>2. CASE NodeSucceeds
  BY <1>2, AdvanceWired, TimeAssumption DEF NodeSucceeds, Branch
<1>3. CASE NodeEnds
  <2>1. Endings = NODES[stage].branches
    BY InputsAvailable, Zenon DEF Endings
  <2> QED
    BY <1>3, <2>1, EndingsTyped, Zenon DEF NodeEnds, Return
<1>4. CASE NodeTimesOut
  BY <1>4, Zenon DEF NodeTimesOut, Return, Branch
<1>5. CASE ExecuteNode
  BY <1>5 DEF ExecuteNode, Return, Branch
<1>6. CASE AdapterSucceeds
  BY <1>6, AdvanceWired, Zenon DEF AdapterSucceeds, Branch
<1>7. CASE AdapterFails
  BY <1>7, Zenon DEF AdapterFails, Return, Branch
<1>8. CASE AdapterTimesOut
  BY <1>8, Zenon DEF AdapterTimesOut, Return, Branch
<1>9. CASE AdapterRetries
  <2>1. StageEntry(stage, evidence, deadline, cancelled, now)
          \in {"ok", "timeout", "cancelled"}
    BY NoGateError, EndingsTyped, Zenon
  <2> QED
    BY <1>9, <2>1 DEF AdapterRetries, Return, Branch
<1>10. CASE Tick
  BY <1>10 DEF Tick
<1>11. CASE Done \/ UNCHANGED vars
  BY <1>11, Zenon DEF Done, vars
<1> QED
  BY Zenon, <1>1, <1>2, <1>3, <1>4, <1>5, <1>6, <1>7, <1>8, <1>9, <1>10, <1>11
     DEF Next, Step

\* The type invariant of the plain execution.
THEOREM RunTypeOK == Spec => []TypeOK
<1>1. Spec => []Wired
  BY WiredInit, WiredNext, PTL DEF Spec
<1>2. Wired => TypeOK
  BY Zenon DEF Wired
<1> QED
  BY <1>1, <1>2, PTL

\* Whatever the budgets and durations, a run that starts at INITIALIZE never
\* ends in RuntimeGateError or in a KeyError: GraphIsWired.
THEOREM RunIsWired == Spec => []GraphIsWired
<1>1. Spec => []Wired
  BY WiredInit, WiredNext, PTL DEF Spec
<1>2. Wired => GraphIsWired
  BY Zenon DEF Wired
<1> QED
  BY <1>1, <1>2, PTL

\* The call counter starts at zero.
LEMMA CountedInit == Init => Counted
BY BudgetAssumption DEF Init, Counted, PreExecute, NoResult

\* Where the linear order puts the successor of a stage before EXECUTE.
LEMMA SuccessorOfPreExecute ==
  /\ \A s \in PreExecute : NextStage[s] \in PreExecute \cup {"execute"}
  /\ \A s \in WorkflowStage : s \notin PreExecute =>
        NextStage[s] \notin PreExecute \cup {"execute"}
  /\ \A s \in WorkflowStage : NextStage[s] = NoStage => s = "complete"
BY DEF PreExecute, NextStage, WorkflowStage, NoStage

\* The branches of the nodes after EXECUTE are neither clarification nor
\* approval, and no node reports a cancellation.
LEMMA BranchPlaces ==
  \A s \in WorkflowStage :
     /\ "cancelled" \notin NODES[s].branches
     /\ s \notin PreExecute => NODES[s].branches \cap {"clarification", "approval"} = {}
<1>1. \A s \in {"initialize", "memory", "intent", "plan", "validate", "compile"} :
        /\ "cancelled" \notin NODES[s].branches
        /\ s \notin PreExecute => NODES[s].branches \cap {"clarification", "approval"} = {}
  BY DEF PreExecute, NODES, Node, InitializeNode, MemoryNode, IntentNode, PlanNode, ValidateNode,
         CompileNode
<1>2. \A s \in {"guard", "govern", "authorize", "execute"} :
        /\ "cancelled" \notin NODES[s].branches
        /\ s \notin PreExecute => NODES[s].branches \cap {"clarification", "approval"} = {}
  BY DEF PreExecute, NODES, Node, GuardNode, GovernNode, AuthorizeNode, ExecuteStageNode
<1>3. \A s \in {"protect", "persist", "complete"} :
        /\ "cancelled" \notin NODES[s].branches
        /\ s \notin PreExecute => NODES[s].branches \cap {"clarification", "approval"} = {}
  BY DEF PreExecute, NODES, Node, ProtectNode, PersistNode, CompleteNode
<1> QED  BY <1>1, <1>2, <1>3, Zenon DEF WorkflowStage

\* Every step keeps the call counter within the retry counter.
LEMMA CountedNext == Wired /\ Counted /\ [Next]_vars => Counted'
<1> SUFFICES ASSUME Wired, Counted, [Next]_vars
             PROVE  Counted'
  BY Zenon
<1> USE BudgetAssumption DEF Wired, TypeOK, Counted, NoResult
<1>a. StageEntry(stage, evidence, deadline, cancelled, now) = "cancelled" => cancelled
  BY Zenon DEF StageEntry
<1>b. StageEntry(stage, evidence, deadline, cancelled, now) = "ok" => ~cancelled
  BY Zenon DEF StageEntry
<1>c. StageEntry(stage, evidence, deadline, cancelled, now) \in
        {"ok", "timeout", "cancelled"}
  BY NoGateError, EndingsTyped
<1>d. "execute" \notin PreExecute
  BY Zenon DEF PreExecute
<1>1. CASE EnterStage
  BY <1>1, <1>a, <1>b, <1>c DEF EnterStage, Return
<1>2. CASE NodeSucceeds
  <2>1. ~cancelled
    BY <1>2, Zenon DEF NodeSucceeds
  <2>2. CASE NextStage[stage] = NoStage
    <3>1. stage = "complete"
      BY <2>2, SuccessorOfPreExecute, Zenon
    <3> QED
      BY <1>2, <2>1, <2>2, <3>1, Zenon DEF NodeSucceeds, Advance, Return, PreExecute
  <2>3. CASE NextStage[stage] # NoStage
    <3>1. stage' = NextStage[stage] /\ pc' = "enter"
      BY <1>2, <2>3, Zenon DEF NodeSucceeds, Advance
    <3>2. stage' \in PreExecute \cup {"execute"} => calls = 0
      BY <1>2, <3>1, SuccessorOfPreExecute, Zenon DEF NodeSucceeds
    <3>3. result' = NoResult /\ calls' = calls /\ cancelled' = cancelled
      BY <1>2, <2>3, Zenon DEF NodeSucceeds, Advance
    <3> QED
      BY <1>d, <2>1, <3>1, <3>2, <3>3, Zenon
  <2> QED
    BY <2>2, <2>3, Zenon
<1>3. CASE NodeEnds
  <2>1. Endings = NODES[stage].branches
    BY InputsAvailable, Zenon DEF Endings
  <2> QED
    BY <1>3, <2>1, BranchPlaces, Zenon DEF NodeEnds, Return
<1>4. CASE NodeTimesOut
  BY <1>4, Zenon DEF NodeTimesOut, Return
<1>5. CASE ExecuteNode
  BY <1>5, <1>d DEF ExecuteNode, Return
<1>6. CASE AdapterSucceeds
  BY <1>6, <1>d, SuccessorOfPreExecute, Zenon DEF AdapterSucceeds, Advance, Return
<1>7. CASE AdapterFails
  BY <1>7, Zenon DEF AdapterFails, Return
<1>8. CASE AdapterTimesOut
  BY <1>8, Zenon DEF AdapterTimesOut, Return
<1>9. CASE AdapterRetries
  BY <1>9, <1>a, <1>b, <1>c, <1>d DEF AdapterRetries, Return
<1>10. CASE Tick
  BY <1>10, Zenon DEF Tick
<1>11. CASE Done \/ UNCHANGED vars
  BY <1>11 DEF Done, vars
<1> QED
  BY Zenon, <1>1, <1>2, <1>3, <1>4, <1>5, <1>6, <1>7, <1>8, <1>9, <1>10, <1>11
     DEF Next, Step

\* One run reaches the adapter at most max_retries times, for every budget.
THEOREM RunCallsBounded == Spec => []AdapterCallsBounded
<1>1. Spec => [](Wired /\ Counted)
  BY WiredInit, WiredNext, CountedInit, CountedNext, PTL DEF Spec
<1>2. Counted => AdapterCallsBounded
  BY Zenon DEF Counted, AdapterCallsBounded
<1> QED
  BY <1>1, <1>2, PTL

\* Clarification, approval-required and cancelled runs did no external work.
THEOREM RunEarlyBranches == Spec => []EarlyBranchesTouchNothing
<1>1. Spec => [](Wired /\ Counted)
  BY WiredInit, WiredNext, CountedInit, CountedNext, PTL DEF Spec
<1>2. Counted => EarlyBranchesTouchNothing
  BY Zenon DEF Counted, EarlyBranchesTouchNothing, PreExecute
<1> QED
  BY <1>1, <1>2, PTL

\* Every adapter call of every run, retries included, is made with complete
\* evidence, a valid authorization, time left, and no cancellation.
THEOREM RunWithinAuthority == Spec => AdapterWithinAuthority
<1>1. Spec => [](Wired /\ Counted)
  BY WiredInit, WiredNext, CountedInit, CountedNext, PTL DEF Spec
<1>2. ASSUME Wired, Counted, [Next]_vars, calls' # calls
      PROVE  /\ evidence = WorkflowGate
             /\ "authorization" \in channel
             /\ now < auth_expires
             /\ now < deadline
             /\ ~cancelled
  <2>1. ExecuteNode
    BY <1>2, Zenon DEF Next, Step, vars, EnterStage, NodeSucceeds, NodeEnds, NodeTimesOut,
       AdapterSucceeds, AdapterFails, AdapterTimesOut, AdapterRetries, Tick, Done
  <2>2. stage = "execute" /\ pc = "node" /\ now < auth_expires /\ now < deadline
    BY <1>2, <2>1, TimeAssumption, Zenon DEF ExecuteNode, Wired, TypeOK, deadline
  <2>3. evidence = WorkflowGate /\ "authorization" \in channel
    BY <1>2, <2>2, Zenon DEF Wired, TypeOK, ChannelBefore, EvidenceBefore
  <2> QED
    BY <1>2, <2>2, <2>3, Zenon DEF Counted
<1>3. Spec => [][Wired /\ Counted]_vars
  BY <1>1, PTL
<1> QED
  BY <1>1, <1>2, PTL DEF Spec, AdapterWithinAuthority

-----------------------------------------------------------------------------
(* The Redis provider *)

Entry == [session : Sessions \cup {"none"}, until : Nat]

StoredValue == [kind : {"absent", "record", "tombstone"}, expires : Nat, until : Nat]

SweepState ==
    [step : {"idle", "index", "delete"}, key : Keys \cup {<<"none", "none">>},
     kind : {"absent", "record", "tombstone"}]

Typed ==
    /\ registry \in [RedisIds -> Entry]
    /\ stored \in [Keys -> StoredValue]
    /\ sweep \in SweepState
    /\ sweep.step # "idle" => sweep.key \in Keys
    /\ time \in Nat

\* What is stored under an id belongs to the session its registry entry names and
\* does not outlive the entry.
Covered(i) ==
    \A s \in Sessions : Value(<<s, i>>).kind # "absent" =>
        registry[i].session = s /\ stored[<<s, i>>].until <= registry[i].until

Lifetimes ==
    /\ \A i \in RedisIds : Here(registry[i]) => registry[i].session \in Sessions
    /\ \A i \in RedisIds : i \notin outlived => Covered(i)

RedisInv == Typed /\ Lifetimes

\* A value that is read has not expired.
LEMMA ValueLives ==
    ASSUME Typed, NEW s \in Sessions, NEW i \in RedisIds, Value(<<s, i>>).kind # "absent"
    PROVE  stored[<<s, i>>].until > time
BY Zenon DEF Value, Here, Absent, Typed, Keys

\* A stored record is a stored value.
LEMMA RecordTyped ==
    ASSUME NEW e \in Nat
    PROVE  Record(e) \in StoredValue
BY Zenon DEF Record, StoredValue

\* So is an absent one.
LEMMA AbsentTyped == Absent \in StoredValue
BY Zenon DEF Absent, StoredValue

\* The server starts empty.
LEMMA RedisInitInv == RedisInit => RedisInv
<1>1. SUFFICES ASSUME RedisInit PROVE RedisInv
  BY Zenon
<1>2. registry \in [RedisIds -> Entry]
  BY <1>1, Zenon DEF RedisInit, Entry
<1>3. stored \in [Keys -> StoredValue]
  BY <1>1, AbsentTyped, Zenon DEF RedisInit
<1>4. sweep \in SweepState /\ sweep.step = "idle" /\ time = 0
  BY <1>1, Zenon DEF RedisInit, NoSweep, SweepState
<1>5. \A i \in RedisIds : ~Here(registry[i])
  BY <1>1 DEF RedisInit, Here
<1>6. \A i \in RedisIds, s \in Sessions : Value(<<s, i>>).kind = "absent"
  BY <1>1, Zenon DEF RedisInit, Value, Absent, Keys
<1> QED
  BY <1>2, <1>3, <1>4, <1>5, <1>6, Zenon DEF RedisInv, Typed, Lifetimes, Covered

\* append writes the entry and the record with one lifetime.
LEMMA AppendInv ==
    ASSUME RedisMaxTtl \in Nat, RedisInv, NEW s \in Sessions, NEW i \in RedisIds,
           NEW ttl \in 1..RedisMaxTtl, RedisAppend(s, i, ttl)
    PROVE  RedisInv'
<1> DEFINE k == <<s, i>>
<1>1. time + ttl \in Nat /\ time + ttl > time
  BY DEF RedisInv, Typed
<1>2. /\ registry' = [registry EXCEPT ![i] = [session |-> s, until |-> time + ttl]]
      /\ stored' = [stored EXCEPT ![k] = Record(time + ttl)]
      /\ time' = time /\ sweep' = sweep /\ outlived' = outlived
  BY Zenon DEF RedisAppend
<1>3. Record(time + ttl) \in StoredValue
  BY <1>1, RecordTyped, Zenon
<1>4. [session |-> s, until |-> time + ttl] \in Entry
  BY <1>1, Zenon DEF Entry
<1>5. Typed'
  <2>1. registry' \in [RedisIds -> Entry]
    BY <1>2, <1>4, Zenon DEF RedisInv, Typed
  <2>2. stored' \in [Keys -> StoredValue]
    BY <1>2, <1>3, Zenon DEF RedisInv, Typed
  <2> QED
    BY <1>2, <2>1, <2>2, Zenon DEF RedisInv, Typed
<1>6. \A j \in RedisIds : Here(registry[j])' => registry'[j].session \in Sessions
  BY <1>2, Zenon DEF RedisInv, Typed, Lifetimes, Here
<1>7. ASSUME NEW j \in RedisIds, j \notin outlived'
      PROVE  Covered(j)'
  <2>1. CASE j # i
    <3>1. registry'[j] = registry[j] /\ \A t \in Sessions : stored'[<<t, j>>] = stored[<<t, j>>]
      BY <1>2, <2>1, Zenon DEF RedisInv, Typed, Keys
    <3> QED
      BY <1>2, <1>7, <3>1 DEF RedisInv, Lifetimes, Covered, Value, Here
  <2>2. CASE j = i
    <3>1. registry'[i] = [session |-> s, until |-> time + ttl]
      BY <1>2, Zenon DEF RedisInv, Typed
    <3>2. stored'[k].until = time + ttl
      BY <1>2, Zenon DEF RedisInv, Typed, Keys, Record
    <3>3. ASSUME NEW t \in Sessions, t # s
          PROVE  Value(<<t, i>>)'.kind = "absent"
      <4>1. stored'[<<t, i>>] = stored[<<t, i>>]
        BY <1>2, <3>3, Zenon DEF RedisInv, Typed, Keys
      <4>2. Value(<<t, i>>)' = Value(<<t, i>>)
        BY <1>2, <4>1, Zenon DEF Value, Here
      <4>3. Value(<<t, i>>).kind = "absent"
        <5>1. SUFFICES ASSUME Value(<<t, i>>).kind # "absent" PROVE FALSE
          BY Zenon
        <5>2. stored[<<t, i>>].until > time
          BY <5>1, ValueLives, Zenon DEF RedisInv
        <5>3. stored[<<t, i>>].until <= registry[i].until
          BY <1>2, <1>7, <2>2, <5>1, Zenon DEF RedisInv, Lifetimes, Covered
        <5>4. stored[<<t, i>>].until \in Nat /\ registry[i].until \in Nat /\ time \in Nat
          BY Zenon DEF RedisInv, Typed, Keys, StoredValue, Entry
        <5> QED
          BY <5>2, <5>3, <5>4 DEF RedisAppend, Appendable, Here
      <4> QED
        BY <4>2, <4>3, Zenon
    <3> QED
      BY <1>1, <2>2, <3>1, <3>2, <3>3 DEF Covered
  <2> QED
    BY <2>1, <2>2, Zenon
<1> QED
  BY <1>5, <1>6, <1>7, Zenon DEF RedisInv, Lifetimes

\* replace renews the entry for no less than the record.
LEMMA ReplaceInv ==
    ASSUME RedisMaxTtl \in Nat, RedisInv, NEW s \in Sessions, NEW i \in RedisIds,
           NEW ttl \in 1..RedisMaxTtl, RedisReplace(s, i, ttl)
    PROVE  RedisInv'
<1> DEFINE k == <<s, i>>
<1>1. time + ttl \in Nat
  BY DEF RedisInv, Typed
<1>2. /\ stored' = [stored EXCEPT ![k] = Record(time + ttl)]
      /\ outlived' = IF time + ttl > registry[i].until THEN outlived \cup {i} ELSE outlived
      /\ registry' = registry /\ time' = time /\ sweep' = sweep
      /\ Value(k).kind # "absent"
  BY Zenon DEF RedisReplace
<1>3. Typed'
  <2>1. stored' \in [Keys -> StoredValue]
    BY <1>1, <1>2, RecordTyped, Zenon DEF RedisInv, Typed
  <2> QED
    BY <1>2, <2>1, Zenon DEF RedisInv, Typed
<1>4. ASSUME NEW j \in RedisIds, j \notin outlived'
      PROVE  Covered(j)'
  <2>1. j \notin outlived /\ Covered(j)
    BY <1>2, <1>4, Zenon DEF RedisInv, Lifetimes
  <2>2. ASSUME NEW t \in Sessions, <<t, j>> # k, Value(<<t, j>>)'.kind # "absent"
        PROVE  registry'[j].session = t /\ stored'[<<t, j>>].until <= registry'[j].until
    <3>1. stored'[<<t, j>>] = stored[<<t, j>>]
      BY <1>2, <2>2, Zenon DEF RedisInv, Typed, Keys
    <3> QED
      BY <1>2, <2>1, <2>2, <3>1, Zenon DEF Covered, Value, Here
  <2>3. ASSUME j = i
        PROVE  registry'[i].session = s /\ stored'[k].until <= registry'[i].until
    <3>1. stored'[k].until = time + ttl
      BY <1>2, Zenon DEF RedisInv, Typed, Keys, Record
    <3>2. ~(time + ttl > registry[i].until)
      BY <1>2, <1>4, <2>3, Zenon
    <3>3. registry[i].until \in Nat
      BY Zenon DEF RedisInv, Typed, Entry
    <3> QED
      BY <1>1, <1>2, <2>1, <2>3, <3>1, <3>2, <3>3 DEF Covered
  <2> QED
    BY <2>2, <2>3, Zenon DEF Covered
<1> QED
  BY <1>2, <1>3, <1>4, Zenon DEF RedisInv, Lifetimes, Here

\* expire and delete both write the entry of an id and the key it leads to.
LEMMA WriteBothInv ==
    ASSUME RedisInv, NEW i \in RedisIds, Here(registry[i]), NEW v \in StoredValue,
           registry' = [registry EXCEPT ![i].until = v.until],
           stored' = [stored EXCEPT ![KeyOf(i)] = v],
           time' = time, sweep' = sweep, outlived' = outlived
    PROVE  RedisInv'
<1>1. registry[i].session \in Sessions /\ KeyOf(i) \in Keys /\ v.until \in Nat
  BY Zenon DEF RedisInv, Lifetimes, KeyOf, Keys, StoredValue
<1>2. /\ registry'[i] = [registry[i] EXCEPT !.until = v.until]
      /\ \A j \in RedisIds : j # i => registry'[j] = registry[j]
  BY Zenon DEF RedisInv, Typed
<1>3. registry'[i] \in Entry /\ registry'[i].session = registry[i].session
      /\ registry'[i].until = v.until
  <2>1. registry[i] \in Entry
    BY Zenon DEF RedisInv, Typed
  <2> QED
    BY <1>1, <1>2, <2>1 DEF Entry
<1>4. Typed'
  <2>1. registry' \in [RedisIds -> Entry]
    BY <1>3, Zenon DEF RedisInv, Typed
  <2>2. stored' \in [Keys -> StoredValue]
    BY Zenon DEF RedisInv, Typed
  <2> QED
    BY <2>1, <2>2, Zenon DEF RedisInv, Typed
<1>5. \A j \in RedisIds : Here(registry[j])' => registry'[j].session \in Sessions
  BY <1>1, <1>2, <1>3, Zenon DEF RedisInv, Lifetimes, Here
<1>6. ASSUME NEW j \in RedisIds, j \notin outlived'
      PROVE  Covered(j)'
  <2>1. Covered(j)
    BY <1>6, Zenon DEF RedisInv, Lifetimes
  <2>2. ASSUME NEW t \in Sessions, <<t, j>> # KeyOf(i), Value(<<t, j>>)'.kind # "absent"
        PROVE  registry'[j].session = t /\ stored'[<<t, j>>].until <= registry'[j].until
    <3>1. stored'[<<t, j>>] = stored[<<t, j>>]
      BY <2>2, Zenon DEF RedisInv, Typed, Keys
    <3>2. registry[j].session = t /\ stored[<<t, j>>].until <= registry[j].until
      BY <2>1, <2>2, <3>1, Zenon DEF Covered, Value, Here
    <3>3. j # i
      BY <2>2, <3>2, Zenon DEF KeyOf
    <3> QED
      BY <1>2, <3>1, <3>2, <3>3, Zenon
  <2>3. ASSUME NEW t \in Sessions, <<t, j>> = KeyOf(i)
        PROVE  registry'[j].session = t /\ stored'[<<t, j>>].until <= registry'[j].until
    <3>1. j = i /\ t = registry[i].session
      BY <2>3, Zenon DEF KeyOf
    <3>2. stored'[KeyOf(i)] = v
      BY <1>1, Zenon DEF RedisInv, Typed
    <3> QED
      BY <1>1, <1>3, <2>3, <3>1, <3>2
  <2> QED
    BY <2>2, <2>3, Zenon DEF Covered
<1> QED
  BY <1>4, <1>5, <1>6, Zenon DEF RedisInv, Lifetimes

\* expire_record leaves a tombstone that lives as long as the entry.
LEMMA ExpireInv ==
    ASSUME Retention \in Nat, RedisInv, NEW i \in RedisIds, RedisExpire(i)
    PROVE  RedisInv'
<1> DEFINE v == [kind |-> "tombstone", expires |-> 0, until |-> time + Retention]
<1>1. v \in StoredValue /\ v.until = time + Retention
  BY DEF RedisInv, Typed, StoredValue
<1> HIDE DEF v
<1>2. registry' = [registry EXCEPT ![i].until = v.until]
  BY <1>1, Zenon DEF RedisExpire
<1>3. stored' = [stored EXCEPT ![KeyOf(i)] = v]
  BY Zenon DEF RedisExpire, v
<1> QED
  BY <1>1, <1>2, <1>3, WriteBothInv, Zenon DEF RedisExpire

\* delete_record leaves nothing but the entry.
LEMMA DeleteInv ==
    ASSUME RedisInv, NEW i \in RedisIds, RedisDelete(i)
    PROVE  RedisInv'
<1>1. Absent.until = 0
  BY Zenon DEF Absent
<1>2. registry' = [registry EXCEPT ![i].until = Absent.until]
  BY <1>1, Zenon DEF RedisDelete
<1> QED
  BY <1>2, AbsentTyped, WriteBothInv, Zenon DEF RedisDelete

\* The reads of a compaction and its index statement leave the values alone.
LEMMA SweepInv ==
    ASSUME RedisInv,
           \/ \E s \in Sessions, i \in RedisIds, ahead \in 0..MaxSkew : SweepRead(s, i, ahead)
           \/ SweepIndex
    PROVE  RedisInv'
<1>1. UNCHANGED <<registry, stored, time, outlived>>
  BY Zenon DEF SweepRead, SweepIndex
<1>2. sweep' \in SweepState /\ (sweep'.step # "idle" => sweep'.key \in Keys)
  <2>1. CASE SweepIndex
    BY <2>1, Zenon DEF SweepIndex, RedisInv, Typed, SweepState, NoSweep
  <2>2. ASSUME NEW s \in Sessions, NEW i \in RedisIds, NEW ahead \in 0..MaxSkew, SweepRead(s, i, ahead)
        PROVE  sweep' \in SweepState /\ sweep'.key \in Keys
    <3>1. Value(<<s, i>>).kind \in {"absent", "record", "tombstone"}
      BY Zenon DEF RedisInv, Typed, Value, Absent, StoredValue, Keys
    <3>2. <<s, i>> \in Keys
      BY Zenon DEF Keys
    <3>3. sweep' = [step |-> "index", key |-> <<s, i>>, kind |-> Value(<<s, i>>).kind]
      BY <2>2, Zenon DEF SweepRead
    <3> QED
      BY <3>1, <3>2, <3>3, Zenon DEF SweepState
  <2> QED
    BY <2>1, <2>2, Zenon
<1>3. Typed'
  BY <1>1, <1>2, Zenon DEF RedisInv, Typed
<1> QED
  BY <1>1, <1>3, Zenon DEF RedisInv, Lifetimes, Covered, Value, Here

\* The delete statement of a compaction removes one value.
LEMMA SweepDeleteInv ==
    ASSUME RedisInv, SweepDelete
    PROVE  RedisInv'
<1>1. /\ stored' = [stored EXCEPT ![sweep.key] = Absent]
      /\ sweep' = NoSweep /\ UNCHANGED <<registry, time, outlived>>
      /\ sweep.key \in Keys
  BY Zenon DEF SweepDelete, RedisInv, Typed
<1>2. Typed'
  <2>1. stored' \in [Keys -> StoredValue]
    BY <1>1, AbsentTyped, Zenon DEF RedisInv, Typed
  <2>2. sweep' \in SweepState /\ sweep'.step = "idle"
    BY <1>1, Zenon DEF NoSweep, SweepState
  <2> QED
    BY <1>1, <2>1, <2>2, Zenon DEF RedisInv, Typed
<1>3. ASSUME NEW j \in RedisIds, j \notin outlived'
      PROVE  Covered(j)'
  <2>1. Covered(j)
    BY <1>1, <1>3, Zenon DEF RedisInv, Lifetimes
  <2>2. ASSUME NEW t \in Sessions, Value(<<t, j>>)'.kind # "absent"
        PROVE  registry'[j].session = t /\ stored'[<<t, j>>].until <= registry'[j].until
    <3>1. <<t, j>> # sweep.key
      BY <1>1, <2>2, Zenon DEF RedisInv, Typed, Value, Absent, Keys
    <3>2. stored'[<<t, j>>] = stored[<<t, j>>]
      BY <1>1, <3>1, Zenon DEF RedisInv, Typed, Keys
    <3> QED
      BY <1>1, <2>1, <2>2, <3>2, Zenon DEF Covered, Value, Here
  <2> QED
    BY <2>2, Zenon DEF Covered
<1> QED
  BY <1>1, <1>2, <1>3, Zenon DEF RedisInv, Lifetimes, Here

\* When the clock advances, an entry expires no earlier than its record.
LEMMA TickInv ==
    ASSUME RedisInv, RedisTick
    PROVE  RedisInv'
<1>1. /\ time' = time + 1 /\ UNCHANGED <<sweep, outlived>>
      /\ registry' = [i \in RedisIds |-> IF registry[i].until > time + 1 THEN registry[i]
                                   ELSE [registry[i] EXCEPT !.until = 0]]
      /\ stored' = [k \in Keys |-> IF stored[k].until > time + 1 THEN stored[k] ELSE Absent]
  BY Zenon DEF RedisTick
<1>2. time \in Nat /\ time' \in Nat
  BY <1>1 DEF RedisInv, Typed
<1>3. ASSUME NEW i \in RedisIds
      PROVE  registry[i] \in Entry /\ registry'[i] \in Entry
             /\ registry'[i].session = registry[i].session
             /\ (registry[i].until > time + 1 => registry'[i].until = registry[i].until)
             /\ (Here(registry[i])' => Here(registry[i]))
  <2>1. registry[i] \in Entry
    BY Zenon DEF RedisInv, Typed
  <2>2. registry'[i] = IF registry[i].until > time + 1 THEN registry[i]
                       ELSE [registry[i] EXCEPT !.until = 0]
    BY <1>1, Zenon
  <2>3. CASE registry[i].until > time + 1
    BY <1>1, <1>2, <2>1, <2>2, <2>3 DEF Entry, Here
  <2>4. CASE ~(registry[i].until > time + 1)
    <3>1. registry'[i] \in Entry /\ registry'[i].session = registry[i].session
          /\ registry'[i].until = 0
      BY <2>1, <2>2, <2>4 DEF Entry
    <3> QED
      BY <1>1, <1>2, <2>1, <2>4, <3>1 DEF Here
  <2> QED
    BY <2>3, <2>4, Zenon
<1>4. Typed'
  <2>1. registry' \in [RedisIds -> Entry]
    BY <1>1, <1>3, Zenon
  <2>2. stored' \in [Keys -> StoredValue]
    BY <1>1, AbsentTyped, Zenon DEF RedisInv, Typed
  <2> QED
    BY <1>1, <1>2, <2>1, <2>2, Zenon DEF RedisInv, Typed
<1>5. ASSUME NEW j \in RedisIds, j \notin outlived', NEW t \in Sessions,
             Value(<<t, j>>)'.kind # "absent"
      PROVE  registry'[j].session = t /\ stored'[<<t, j>>].until <= registry'[j].until
  <2>1. <<t, j>> \in Keys /\ stored[<<t, j>>].until \in Nat /\ registry[j].until \in Nat
    BY Zenon DEF RedisInv, Typed, Keys, StoredValue, Entry
  <2>2. /\ stored[<<t, j>>].until > time + 1 /\ stored'[<<t, j>>] = stored[<<t, j>>]
        /\ stored[<<t, j>>].kind # "absent"
    BY <1>1, <1>5, <2>1, Zenon DEF Value, Here, Absent
  <2>3. Value(<<t, j>>).kind # "absent"
    BY <1>2, <1>5, <2>1, <2>2 DEF Value, Here
  <2>4. registry[j].session = t /\ stored[<<t, j>>].until <= registry[j].until
    BY <1>1, <1>5, <2>3, Zenon DEF RedisInv, Lifetimes, Covered
  <2> QED
    BY <1>2, <1>3, <2>1, <2>2, <2>4
<1> QED
  BY <1>1, <1>3, <1>4, <1>5, Zenon DEF RedisInv, Lifetimes, Covered

\* Every step keeps the invariant.
LEMMA RedisStep ==
    ASSUME RedisMaxTtl \in Nat, Retention \in Nat, RedisInv, [RedisNext]_redisVars
    PROVE  RedisInv'
<1>1. CASE \E s \in Sessions, i \in RedisIds, ttl \in 1..RedisMaxTtl : RedisAppend(s, i, ttl)
  BY <1>1, AppendInv, Zenon
<1>2. CASE \E s \in Sessions, i \in RedisIds, ttl \in 1..RedisMaxTtl : RedisReplace(s, i, ttl)
  BY <1>2, ReplaceInv, Zenon
<1>3. CASE \/ \E s \in Sessions, i \in RedisIds, ahead \in 0..MaxSkew : SweepRead(s, i, ahead)
           \/ SweepIndex
  BY <1>3, SweepInv, Zenon
<1>4. CASE \E i \in RedisIds : RedisExpire(i) \/ RedisDelete(i)
  BY <1>4, ExpireInv, DeleteInv, Zenon
<1>5. CASE SweepDelete
  BY <1>5, SweepDeleteInv, Zenon
<1>6. CASE RedisTick
  BY <1>6, TickInv, Zenon
<1>7. CASE UNCHANGED redisVars
  BY <1>7, Zenon DEF redisVars, RedisInv, Typed, Lifetimes, Covered, Value, Here
<1> QED
  BY <1>1, <1>2, <1>3, <1>4, <1>5, <1>6, <1>7, Zenon DEF RedisNext

\* The invariant implies the property.
LEMMA RedisInvSuffices == RedisInv => OneRecordPerId
<1>1. SUFFICES ASSUME RedisInv, NEW i \in RedisIds, i \notin outlived, NEW s \in Sessions,
                      Value(<<s, i>>).kind # "absent"
               PROVE  Here(registry[i]) /\ registry[i].session = s
  BY Zenon DEF OneRecordPerId
<1>2. stored[<<s, i>>].until > time
  BY <1>1, ValueLives, Zenon DEF RedisInv
<1>3. registry[i].session = s /\ stored[<<s, i>>].until <= registry[i].until
  BY <1>1, Zenon DEF RedisInv, Lifetimes, Covered
<1>4. stored[<<s, i>>].until \in Nat /\ registry[i].until \in Nat /\ time \in Nat
  BY <1>1, Zenon DEF RedisInv, Typed, Keys, StoredValue, Entry
<1> QED
  BY <1>2, <1>3, <1>4 DEF Here

\* Whatever sessions append, replace, expire and delete, and whatever a compaction
\* removes in between, an id has a record in one session only, the one its registry
\* entry names, unless compare_and_set gave a record a longer life than the entry.
THEOREM RedisOneRecord == RedisSpec => []OneRecordPerId
<1>1. RedisInit => RedisInv
  BY RedisInitInv, Zenon
<1>2. RedisInv /\ [RedisNext]_redisVars => RedisInv'
  BY RedisStep, RedisAssumption, Zenon
<1>3. RedisInv => OneRecordPerId
  BY RedisInvSuffices, Zenon
<1> QED
  BY <1>1, <1>2, <1>3, PTL DEF RedisSpec

-----------------------------------------------------------------------------
(* Records stay recallable, expired ids stay reserved                      *)

\* A record nobody swept is a member of its index, and the registry entry of an
\* expired id lives at least as long as expire() promised.
Reachable ==
    /\ index \in [Sessions -> SUBSET RedisIds]
    /\ kept \in [RedisIds -> Nat]
    /\ \A s \in Sessions, i \in RedisIds :
          Value(<<s, i>>).kind = "record" /\ <<s, i>> \notin swept => i \in index[s]
    /\ \A i \in RedisIds : kept[i] > time => registry[i].until >= kept[i]

\* At the start nothing is stored and nothing is reserved.
LEMMA InitReachable == RedisInit => Reachable
<1>1. SUFFICES ASSUME RedisInit PROVE Reachable
  BY Zenon
<1>2. \A s \in Sessions, i \in RedisIds : Value(<<s, i>>).kind = "absent"
  BY <1>1, Zenon DEF RedisInit, Value, Absent, Keys
<1>3. index \in [Sessions -> SUBSET RedisIds] /\ kept \in [RedisIds -> Nat]
  BY <1>1, Zenon DEF RedisInit
<1>4. \A i \in RedisIds : ~(kept[i] > time)
  BY <1>1 DEF RedisInit
<1> QED
  BY <1>2, <1>3, <1>4, Zenon DEF Reachable

\* A key that is not written holds what it held.
LEMMA ValueKept ==
    ASSUME NEW k \in Keys, stored'[k] = stored[k], time' = time
    PROVE  Value(k)' = Value(k)
BY Zenon DEF Value, Here

\* append puts the id into its index and takes back what a compaction had noted.
LEMMA AppendReachable ==
    ASSUME RedisInv, Reachable, NEW s \in Sessions, NEW i \in RedisIds,
           NEW ttl \in 1..RedisMaxTtl, RedisAppend(s, i, ttl)
    PROVE  Reachable'
<1>1. /\ registry' = [registry EXCEPT ![i] = [session |-> s, until |-> time + ttl]]
      /\ stored' = [stored EXCEPT ![<<s, i>>] = Record(time + ttl)]
      /\ index' = [index EXCEPT ![s] = @ \cup {i}]
      /\ swept' = swept \ {<<s, i>>}
      /\ kept' = [kept EXCEPT ![i] = 0]
      /\ time' = time
  BY Zenon DEF RedisAppend
<1>2. index' \in [Sessions -> SUBSET RedisIds] /\ kept' \in [RedisIds -> Nat]
  BY <1>1, Zenon DEF Reachable
<1>3. ASSUME NEW t \in Sessions, NEW j \in RedisIds,
             Value(<<t, j>>)'.kind = "record", <<t, j>> \notin swept'
      PROVE  j \in index'[t]
  <2>1. CASE t = s /\ j = i
    BY <1>1, <2>1, Zenon DEF Reachable
  <2>2. CASE ~(t = s /\ j = i)
    <3>1. <<t, j>> \in Keys /\ <<t, j>> # <<s, i>>
      BY <2>2, Zenon DEF Keys
    <3>2. stored'[<<t, j>>] = stored[<<t, j>>]
      BY <1>1, <3>1, Zenon DEF RedisInv, Typed
    <3>3. Value(<<t, j>>).kind = "record" /\ <<t, j>> \notin swept
      BY <1>1, <1>3, <3>1, <3>2, ValueKept, Zenon
    <3>4. j \in index[t]
      BY <3>3, Zenon DEF Reachable
    <3> QED
      BY <1>1, <3>4, Zenon DEF Reachable
  <2> QED
    BY <2>1, <2>2, Zenon
<1>4. ASSUME NEW j \in RedisIds, kept'[j] > time'
      PROVE  registry'[j].until >= kept'[j]
  <2>1. time \in Nat
    BY Zenon DEF RedisInv, Typed
  <2>2. j # i
    BY <1>1, <1>4, <2>1 DEF Reachable
  <2>3. registry'[j] = registry[j] /\ kept'[j] = kept[j]
    BY <1>1, <2>2, Zenon DEF RedisInv, Typed, Reachable
  <2> QED
    BY <1>1, <1>4, <2>3, Zenon DEF Reachable
<1> QED
  BY <1>2, <1>3, <1>4, Zenon DEF Reachable

\* compare_and_set only renews what was a record before.
LEMMA ReplaceReachable ==
    ASSUME RedisInv, Reachable, NEW s \in Sessions, NEW i \in RedisIds,
           NEW ttl \in 1..RedisMaxTtl, RedisReplace(s, i, ttl)
    PROVE  Reachable'
<1>1. /\ stored' = [stored EXCEPT ![<<s, i>>] = Record(time + ttl)]
      /\ UNCHANGED <<registry, index, time, swept, kept>>
      /\ Value(<<s, i>>).kind = "record"
  BY Zenon DEF RedisReplace
<1>2. ASSUME NEW t \in Sessions, NEW j \in RedisIds,
             Value(<<t, j>>)'.kind = "record", <<t, j>> \notin swept'
      PROVE  j \in index'[t]
  <2>1. Value(<<t, j>>).kind = "record"
    <3>1. CASE <<t, j>> = <<s, i>>
      BY <1>1, <3>1, Zenon
    <3>2. CASE <<t, j>> # <<s, i>>
      <4>1. <<t, j>> \in Keys
        BY Zenon DEF Keys
      <4>2. stored'[<<t, j>>] = stored[<<t, j>>]
        BY <1>1, <3>2, <4>1, Zenon DEF RedisInv, Typed
      <4> QED
        BY <1>1, <1>2, <4>1, <4>2, ValueKept, Zenon
    <3> QED
      BY <3>1, <3>2, Zenon
  <2> QED
    BY <1>1, <1>2, <2>1, Zenon DEF Reachable
<1> QED
  BY <1>1, <1>2, Zenon DEF Reachable

\* expire and delete leave no record under the id, and hold it as long as they note.
LEMMA WriteBothReachable ==
    ASSUME RedisInv, Reachable, NEW i \in RedisIds, Here(registry[i]), NEW v \in StoredValue,
           v.kind # "record", NEW u \in Nat,
           registry' = [registry EXCEPT ![i].until = u],
           kept' = [kept EXCEPT ![i] = u],
           stored' = [stored EXCEPT ![KeyOf(i)] = v],
           UNCHANGED <<index, time, swept>>
    PROVE  Reachable'
<1>1. KeyOf(i) \in Keys
  BY Zenon DEF RedisInv, Lifetimes, KeyOf, Keys
<1>2. ASSUME NEW t \in Sessions, NEW j \in RedisIds,
             Value(<<t, j>>)'.kind = "record", <<t, j>> \notin swept'
      PROVE  j \in index'[t]
  <2>1. <<t, j>> \in Keys
    BY Zenon DEF Keys
  <2>2. <<t, j>> # KeyOf(i)
    <3>1. SUFFICES ASSUME <<t, j>> = KeyOf(i) PROVE FALSE
      BY Zenon
    <3>2. stored'[<<t, j>>] = v
      BY <1>1, <3>1, Zenon DEF RedisInv, Typed
    <3> QED
      BY <1>2, <3>2, Zenon DEF Value, Absent
  <2>3. stored'[<<t, j>>] = stored[<<t, j>>]
    BY <2>1, <2>2, Zenon DEF RedisInv, Typed
  <2>4. Value(<<t, j>>).kind = "record"
    BY <1>2, <2>1, <2>3, ValueKept, Zenon
  <2> QED
    BY <1>2, <2>4, Zenon DEF Reachable
<1>3. ASSUME NEW j \in RedisIds, kept'[j] > time'
      PROVE  registry'[j].until >= kept'[j]
  <2>1. CASE j # i
    <3>1. registry'[j] = registry[j] /\ kept'[j] = kept[j]
      BY <2>1, Zenon DEF RedisInv, Typed, Reachable
    <3> QED
      BY <1>3, <3>1, Zenon DEF Reachable
  <2>2. CASE j = i
    <3>1. kept'[i] = u
      BY Zenon DEF Reachable
    <3>2. registry[i] \in Entry /\ registry'[i] = [registry[i] EXCEPT !.until = u]
      BY Zenon DEF RedisInv, Typed
    <3>3. registry'[i].until = u
      BY <3>2, Zenon DEF Entry
    <3> QED
      BY <2>2, <3>1, <3>3
  <2> QED
    BY <2>1, <2>2, Zenon
<1>4. kept' \in [RedisIds -> Nat]
  BY Zenon DEF Reachable
<1> QED
  BY <1>2, <1>3, <1>4, Zenon DEF Reachable

\* The two calls as instances of it.
LEMMA ExpireReachable ==
    ASSUME Retention \in Nat, RedisInv, Reachable, NEW i \in RedisIds,
           RedisExpire(i) \/ RedisDelete(i)
    PROVE  Reachable'
<1>1. CASE RedisExpire(i)
  <2> DEFINE v == [kind |-> "tombstone", expires |-> 0, until |-> time + Retention]
  <2>1. v \in StoredValue /\ v.kind # "record" /\ time + Retention \in Nat
    BY DEF RedisInv, Typed, StoredValue
  <2>2. stored' = [stored EXCEPT ![KeyOf(i)] = v]
    BY <1>1, Zenon DEF RedisExpire
  <2> HIDE DEF v
  <2> QED
    BY <1>1, <2>1, <2>2, WriteBothReachable, Zenon DEF RedisExpire
<1>2. CASE RedisDelete(i)
  <2>1. Absent.kind # "record" /\ 0 \in Nat
    BY Zenon DEF Absent
  <2> QED
    BY <1>2, <2>1, AbsentTyped, WriteBothReachable, Zenon DEF RedisDelete
<1> QED
  BY <1>1, <1>2, Zenon

\* What a compaction takes from an index although it is a record by now, it notes.
LEMMA SweepReachable ==
    ASSUME RedisInv, Reachable, SweepIndex
    PROVE  Reachable'
<1> DEFINE k == sweep.key
<1>1. /\ index' = [index EXCEPT ![k[1]] = @ \ {k[2]}]
      /\ swept' = IF Value(k).kind = "record" THEN swept \cup {k} ELSE swept
      /\ UNCHANGED <<registry, stored, time, kept>>
      /\ k \in Keys
  BY Zenon DEF SweepIndex, RedisInv, Typed
<1>2. PICK s \in Sessions, i \in RedisIds : k = <<s, i>>
  BY <1>1 DEF Keys
<1>3. index' = [index EXCEPT ![s] = @ \ {i}]
  BY <1>1, <1>2
<1> HIDE DEF k
<1>4. index' \in [Sessions -> SUBSET RedisIds]
  BY <1>3, Zenon DEF Reachable
<1>5. ASSUME NEW t \in Sessions, NEW j \in RedisIds,
             Value(<<t, j>>)'.kind = "record", <<t, j>> \notin swept'
      PROVE  j \in index'[t]
  <2>1. Value(<<t, j>>)' = Value(<<t, j>>)
    BY <1>1, Zenon DEF Value, Here
  <2>2. <<t, j>> \notin swept /\ <<t, j>> # <<s, i>>
    BY <1>1, <1>2, <1>5, <2>1, Zenon
  <2>3. j \in index[t]
    BY <1>5, <2>1, <2>2, Zenon DEF Reachable
  <2> QED
    BY <1>3, <2>2, <2>3, Zenon DEF Reachable
<1> QED
  BY <1>1, <1>4, <1>5, Zenon DEF Reachable

\* The second statement of a compaction only removes.
LEMMA SweepDeleteReachable ==
    ASSUME RedisInv, Reachable, SweepDelete
    PROVE  Reachable'
<1>1. /\ stored' = [stored EXCEPT ![sweep.key] = Absent]
      /\ UNCHANGED <<registry, index, time, swept, kept>>
  BY Zenon DEF SweepDelete
<1>2. ASSUME NEW t \in Sessions, NEW j \in RedisIds, Value(<<t, j>>)'.kind = "record"
      PROVE  Value(<<t, j>>).kind = "record"
  <2>1. <<t, j>> \in Keys
    BY Zenon DEF Keys
  <2>2. <<t, j>> # sweep.key
    BY <1>1, <1>2, <2>1, Zenon DEF RedisInv, Typed, Value, Absent
  <2>3. stored'[<<t, j>>] = stored[<<t, j>>]
    BY <1>1, <2>1, <2>2, Zenon DEF RedisInv, Typed
  <2> QED
    BY <1>1, <1>2, <2>1, <2>3, ValueKept, Zenon
<1> QED
  BY <1>1, <1>2, Zenon DEF Reachable

\* Time only takes records away, and no reservation before its end.
LEMMA TickReachable ==
    ASSUME RedisInv, Reachable, RedisTick
    PROVE  Reachable'
<1>1. /\ time' = time + 1 /\ UNCHANGED <<index, swept, kept>> /\ time \in Nat
      /\ registry' = [i \in RedisIds |-> IF registry[i].until > time + 1 THEN registry[i]
                                   ELSE [registry[i] EXCEPT !.until = 0]]
      /\ stored' = [k \in Keys |-> IF stored[k].until > time + 1 THEN stored[k] ELSE Absent]
  BY Zenon DEF RedisTick, RedisInv, Typed
<1>2. ASSUME NEW t \in Sessions, NEW j \in RedisIds, Value(<<t, j>>)'.kind = "record"
      PROVE  Value(<<t, j>>).kind = "record"
  <2>1. <<t, j>> \in Keys /\ stored[<<t, j>>].until \in Nat
    BY Zenon DEF RedisInv, Typed, Keys, StoredValue
  <2>2. stored[<<t, j>>].until > time + 1 /\ stored[<<t, j>>].kind = "record"
    BY <1>1, <1>2, <2>1, Zenon DEF Value, Here, Absent
  <2> QED
    BY <1>1, <2>1, <2>2 DEF Value, Here
<1>3. ASSUME NEW j \in RedisIds, kept'[j] > time'
      PROVE  registry'[j].until >= kept'[j]
  <2>1. kept[j] \in Nat /\ registry[j].until \in Nat /\ kept'[j] = kept[j]
    BY <1>1, Zenon DEF RedisInv, Typed, Entry, Reachable
  <2>2. registry[j].until >= kept[j] /\ registry[j].until > time + 1
    BY <1>1, <1>3, <2>1 DEF Reachable
  <2>3. registry'[j] = registry[j]
    BY <1>1, <2>2, Zenon
  <2> QED
    BY <2>1, <2>2, <2>3, Zenon
<1> QED
  BY <1>1, <1>2, <1>3, Zenon DEF Reachable

\* One case per action.
LEMMA ReachableStep ==
    ASSUME Retention \in Nat, RedisInv, Reachable, [RedisNext]_redisVars
    PROVE  Reachable'
<1>1. CASE \E s \in Sessions, i \in RedisIds, ttl \in 1..RedisMaxTtl : RedisAppend(s, i, ttl)
  BY <1>1, AppendReachable, Zenon
<1>2. CASE \E s \in Sessions, i \in RedisIds, ttl \in 1..RedisMaxTtl : RedisReplace(s, i, ttl)
  BY <1>2, ReplaceReachable, Zenon
<1>3. CASE \E s \in Sessions, i \in RedisIds, ahead \in 0..MaxSkew : SweepRead(s, i, ahead)
  <2>1. UNCHANGED <<registry, stored, index, time, swept, kept>>
    BY <1>3, Zenon DEF SweepRead
  <2> QED
    BY <2>1, Zenon DEF Reachable, Value, Here
<1>4. CASE \E i \in RedisIds : RedisExpire(i) \/ RedisDelete(i)
  BY <1>4, ExpireReachable, Zenon
<1>5. CASE SweepIndex
  BY <1>5, SweepReachable, Zenon
<1>6. CASE SweepDelete
  BY <1>6, SweepDeleteReachable, Zenon
<1>7. CASE RedisTick
  BY <1>7, TickReachable, Zenon
<1>8. CASE UNCHANGED redisVars
  BY <1>8, Zenon DEF redisVars, Reachable, Value, Here
<1> QED
  BY <1>1, <1>2, <1>3, <1>4, <1>5, <1>6, <1>7, <1>8, Zenon DEF RedisNext

\* What recall and append see follows from the two facts about index and registry.
LEMMA ReachableSuffices == RedisInv /\ Reachable => SharedServerKeepsRecords
<1>1. SUFFICES ASSUME RedisInv, Reachable PROVE LiveIsIndexed /\ ExpiredIdIsReserved
  BY Zenon DEF SharedServerKeepsRecords
<1>2. ASSUME NEW k \in Keys, Fresh(k), k \notin swept
      PROVE  k[2] \in RedisRecall(k[1], MaxSkew)
  <2>1. PICK s \in Sessions, i \in RedisIds : k = <<s, i>>
    BY <1>2 DEF Keys
  <2>2. k[1] = s /\ k[2] = i
    BY <2>1, Zenon
  <2>3. i \in index[s]
    BY <1>1, <1>2, <2>1, Zenon DEF Reachable, Fresh
  <2> QED
    BY <1>2, <2>1, <2>2, <2>3, Zenon DEF RedisRecall, Fresh
<1>3. ASSUME NEW i \in RedisIds, kept[i] > time, NEW s \in Sessions
      PROVE  ~Appendable(s, i)
  <2>1. registry[i].until >= kept[i] /\ kept[i] \in Nat /\ registry[i].until \in Nat /\ time \in Nat
    BY <1>1, <1>3, Zenon DEF Reachable, RedisInv, Typed, Entry
  <2> QED
    BY <1>3, <2>1 DEF Appendable, Here
<1> QED
  BY <1>2, <1>3, Zenon DEF LiveIsIndexed, ExpiredIdIsReserved

\* For any number of sessions and ids, any TTL, retention, clock skew and index capacity:
\* a record that is alive for every client is recalled unless a compaction took it out,
\* and the id of an expired record cannot be appended again before its retention ends.
THEOREM RedisKeepsRecords == RedisSpec => []SharedServerKeepsRecords
<1>1. RedisInit => RedisInv /\ Reachable
  BY RedisInitInv, InitReachable, Zenon
<1>2. RedisInv /\ Reachable /\ [RedisNext]_redisVars => (RedisInv /\ Reachable)'
  BY RedisStep, ReachableStep, RedisAssumption, Zenon
<1>3. RedisInv /\ Reachable => SharedServerKeepsRecords
  BY ReachableSuffices, Zenon
<1> QED
  BY <1>1, <1>2, <1>3, PTL DEF RedisSpec

=============================================================================
