-------------------------- MODULE VerificationSuite --------------------------
(***************************************************************************)
(* One run of the verification suite over a frozen candidate bundle.       *)
(*                                                                         *)
(* The suite takes three layers in order: structural evidence it is given, *)
(* smoke cases, semantic cases.  A case runs its query on a fixture unless *)
(* an earlier case with the same execution key already did; the observation*)
(* is shared, or the future that will never deliver one.  Layer deadlines  *)
(* cancel whatever is awaited, case deadlines end a query, and a caller    *)
(* may request cooperative cancellation.  A step is the code between two   *)
(* suspensions of the coroutine; timers can only fire at a suspension.     *)
(***************************************************************************)
EXTENDS Integers, Sequences, FiniteSets

CONSTANTS Keys,          \* execution keys: a query on a fixture profile
          Plans,         \* the plans a draft may carry, NoPlan among them
          Policies,      \* the policies a caller may select
          LayerTime,     \* deadlines.layer_ms
          SuiteTime,     \* context.deadline_at
          MaxTime        \* bound of the instance

NoPlan == [profile |-> "none", smoke |-> <<>>, semantic |-> <<>>]

STRUCTURAL == "layer_1"
SMOKE == "layer_2"
SEMANTIC == "layer_3"
Layers == {STRUCTURAL, SMOKE, SEMANTIC}

VerificationStatus ==
  {"passed", "failed", "skipped", "unavailable", "timed_out", "not_run"}

ObservationStatus == {"succeeded", "error", "unavailable", "timed_out", "cancelled"}

(* Policies *)

COMPATIBILITY_POLICY ==
  [id |-> "compatibility-v1", required |-> {STRUCTURAL},
   min_smoke |-> 0, min_semantic |-> 0, all_enabled |-> TRUE]

PRODUCTION_POLICY ==
  [id |-> "production-v1", required |-> Layers,
   min_smoke |-> 1, min_semantic |-> 1, all_enabled |-> TRUE]

\* A policy always requires the structural layer, and a minimum of cases only
\* of a layer it requires.  The built-in ids stand for the built-in policies.
VerificationPolicy ==
  {p \in [id : {"compatibility-v1", "production-v1", "host"},
          required : SUBSET Layers, min_smoke : Nat, min_semantic : Nat,
          all_enabled : BOOLEAN] :
     /\ STRUCTURAL \in p.required
     /\ p.min_smoke > 0 => SMOKE \in p.required
     /\ p.min_semantic > 0 => SEMANTIC \in p.required
     /\ p.id = "compatibility-v1" => p = COMPATIBILITY_POLICY
     /\ p.id = "production-v1" => p = PRODUCTION_POLICY}

(* Plans and cases *)

\* preflight is the issue _preflight_issue finds, a fact of the case and the
\* candidate; checks are the case's assertions or contracts.
CaseType ==
  [key : Keys, enabled : BOOLEAN, preflight : {"none", "invalid_semantic_ir"},
   checks : SUBSET {"success", "no success", "data", "error", "unavailable",
                    "timed_out", "cancelled"}, deadline : Nat]

PlanType == [profile : STRING, smoke : Seq(CaseType), semantic : Seq(CaseType)]

ASSUME SuiteAssumption ==
  /\ Plans \subseteq PlanType
  /\ Policies \subseteq VerificationPolicy
  /\ LayerTime \in Nat \ {0}
  /\ SuiteTime \in Nat
  /\ MaxTime \in Nat

PreflightPasses(case) == case.preflight = "none"

Enabled(cases) == {i \in DOMAIN cases : cases[i].enabled}

(* Observations *)

\* data says whether the rows are those the case's data assertions expect.
Observation ==
  [status : ObservationStatus, data : BOOLEAN, cleanup_issue : BOOLEAN]

Empty(status) == [status |-> status, data |-> FALSE, cleanup_issue |-> FALSE]

\* Both closed sets know contracts about the rows and about the error code of
\* an observation that did not succeed, which follows from its status.
ContractPasses(check, observation) ==
  IF check = "data"
    THEN observation.status = "succeeded" /\ observation.data
    ELSE observation.status # "succeeded" /\ observation.status = check

\* Smoke assertions also know the bare outcome.
AssertionPasses(check, observation) ==
  CASE check = "success" -> observation.status = "succeeded"
    [] check = "no success" -> observation.status # "succeeded"
    [] OTHER -> ContractPasses(check, observation)

NonpassStatus(observation) ==
  IF observation.status \in {"unavailable", "timed_out"}
    THEN observation.status
    ELSE "failed"

\* ContractPasses is AssertionPasses on the contracts a semantic case can have.
ReducedCaseStatus(case, observation) ==
  IF \A c \in case.checks : AssertionPasses(c, observation)
    THEN "passed"
    ELSE NonpassStatus(observation)

\* Fault: disabled cases do not count.
LayerStatusEnabledOnly(statuses) ==
  CASE statuses \subseteq {"passed", "skipped"} -> "passed"
    [] "timed_out" \in statuses -> "timed_out"
    [] OTHER -> "failed"

LayerStatus(statuses) ==
  CASE statuses = {"passed"} -> "passed"
    [] "timed_out" \in statuses -> "timed_out"
    [] "unavailable" \in statuses -> "unavailable"
    [] statuses = {"skipped"} -> "skipped"
    [] OTHER -> "failed"

(* Evidence *)

LayerEvidence == [status : VerificationStatus, cases : Seq(VerificationStatus)]

NotRun == [status |-> "not_run", cases |-> <<>>]

Deadline == [status |-> "timed_out", cases |-> <<>>]

Statuses(cases) == {cases[i] : i \in DOMAIN cases}

AggregateLayerEvidence(statuses) ==
  [status |-> LayerStatus(Statuses(statuses)), cases |-> statuses]

NoEvidence ==
  [status |-> "none", planned |-> FALSE, executor |-> FALSE, layers |-> [l \in Layers |-> NotRun]]

\* _plan_policy_issues and the comparison of the context's policy.
PlanPolicyIssues(plan, policy, bound) ==
  {i \in {"plan_required"} : plan = NoPlan /\ policy.id # "compatibility-v1"}
  \cup {i \in {"policy_plan_mismatch"} : plan # NoPlan /\ plan.profile # policy.id}
  \cup {i \in {"smoke_case_minimum_not_met"} :
          plan # NoPlan /\ Cardinality(Enabled(plan.smoke)) < policy.min_smoke}
  \cup {i \in {"semantic_case_minimum_not_met"} :
          plan # NoPlan /\ Cardinality(Enabled(plan.semantic)) < policy.min_semantic}
  \cup {i \in {"context_policy_mismatch"} : ~bound}

\* _satisfies_policy, with the plan at hand or from stored evidence alone.
SatisfiesPolicy(e, plan, policy) ==
  LET cases == [l \in {SMOKE, SEMANTIC} |-> IF l = SMOKE THEN plan.smoke ELSE plan.semantic]
      minimum == [l \in {SMOKE, SEMANTIC} |->
                    IF l = SMOKE THEN policy.min_smoke ELSE policy.min_semantic]
  IN /\ \A l \in policy.required : e.layers[l].status = "passed"
     /\ IF plan = NoPlan
          THEN \/ policy.required = {STRUCTURAL}
               \/ /\ e.planned
                  /\ \A l \in policy.required \ {STRUCTURAL} :
                       /\ e.layers[l].cases # <<>>
                       /\ Statuses(e.layers[l].cases) = {"passed"}
          ELSE \A l \in policy.required \ {STRUCTURAL} :
                 /\ ~(Cardinality(Enabled(cases[l])) < minimum[l])
                 /\ Enabled(cases[l]) \subseteq DOMAIN e.layers[l].cases
                 /\ policy.all_enabled =>
                      \A i \in Enabled(cases[l]) : e.layers[l].cases[i] = "passed"

\* validate_bound_evidence, where the plan, the policy and the context are the
\* ones the evidence was made from: what is left is the executor.
ValidateBoundEvidence(e, plan, policy, executor) ==
  /\ e.status = "passed"
  /\ SatisfiesPolicy(e, plan, policy)
  /\ e.planned = (plan # NoPlan)
  /\ e.executor = executor

\* evidence_satisfies_policy, on which activation relies.
EvidenceSatisfiesPolicy(e, policy) ==
  e.status = "passed" /\ SatisfiesPolicy(e, NoPlan, policy)
------------------------------------------------------------------------------
VARIABLES plan, policy, structural, bound,   \* the inputs of the run
          stage,         \* "begin", a layer, "finish", or how run() ended
          pc,            \* where the layer is suspended
          results,       \* case evidence of the current layer so far
          layers,        \* layer -> evidence
          issues,
          cache,         \* execution key -> what its future holds
          caseEnd,       \* deadline of the running query
          layerEnd,      \* deadline of the current layer
          open,          \* fixtures set up and not yet cleaned up
          runs,          \* execution key -> how often it was executed
          cancelled,     \* cooperative cancellation was requested
          now,
          evidence

inputs == <<plan, policy, structural, bound>>
vars == <<plan, policy, structural, bound, stage, pc, results, layers, issues,
          cache, caseEnd, layerEnd, open, runs, cancelled, now, evidence>>

\* run() returned evidence, or an exception of a fixture or the cancellation of
\* a shared execution left it.
Ended == {"done", "raised", "aborted"}

\* A future that is not there, still running or cancelled, or an observation.
CacheType ==
  {Empty(status) : status \in {"absent", "pending", "interrupted"}} \cup Observation

EvidenceType ==
  [status : {"passed", "failed"}, planned : BOOLEAN, executor : BOOLEAN,
   layers : [Layers -> LayerEvidence]]

TypeOK ==
  /\ plan \in Plans
  /\ policy \in Policies
  /\ structural \in {"passed", "failed"} /\ bound \in BOOLEAN
  /\ stage \in {"begin", SMOKE, SEMANTIC, "finish"} \cup Ended
  /\ pc \in {"case", "expired", "scheduled", "executing", "observed"}
  /\ results \in Seq(VerificationStatus)
  /\ layers \in [Layers -> LayerEvidence]
  /\ cache \in [Keys -> CacheType]
  /\ open \subseteq Keys
  /\ runs \in [Keys -> Nat]
  /\ now \in 0..MaxTime
  /\ evidence \in EvidenceType \cup {NoEvidence}

Min2(a, b) == IF a < b THEN a ELSE b

Init ==
  /\ plan \in Plans
  /\ policy \in Policies
  /\ structural \in {"passed", "failed"}
  /\ bound \in BOOLEAN
  /\ stage = "begin" /\ pc = "case"
  /\ results = <<>>
  /\ layers = [l \in Layers |->
                 IF l = STRUCTURAL THEN [status |-> structural, cases |-> <<>>] ELSE NotRun]
  /\ issues = {}
  /\ cache = [k \in Keys |-> Empty("absent")]
  /\ caseEnd = 0 /\ layerEnd = 0
  /\ open = {}
  /\ runs = [k \in Keys |-> 0]
  /\ cancelled = FALSE
  /\ now = 0
  /\ evidence = NoEvidence

MakeEvidence(status, executor_used) ==
  [status |-> status, planned |-> plan # NoPlan, executor |-> executor_used,
   layers |-> layers]

Cases(l) == IF l = SMOKE THEN plan.smoke ELSE plan.semantic

InLayer == stage \in {SMOKE, SEMANTIC}

Case == Cases(stage)[Len(results) + 1]

\* bounded_case_context: the case's own deadline within the suite's.
CaseDeadline(case) == Min2(SuiteTime, now + case.deadline)

(* The suite: run and _run_layer *)

\* wait_for with no time left cancels the layer before it starts.
EnterLayer(l) ==
  /\ stage' = l
  /\ pc' = IF SuiteTime > now THEN "case" ELSE "expired"
  /\ results' = <<>>
  /\ layerEnd' = Min2(now + LayerTime, SuiteTime)

\* Structural evidence that did not pass, an issue or the lack of a plan end
\* the run before any fixture is touched.
Begin ==
  /\ stage = "begin"
  /\ LET found == PlanPolicyIssues(plan, policy, bound)
     IN IF structural # "passed" \/ found # {} \/ plan = NoPlan
          THEN /\ issues' = found \cup {i \in {"layer_1_failed"} : structural # "passed"}
               /\ evidence' = MakeEvidence(IF issues' = {} THEN "passed" ELSE "failed", FALSE)
               /\ stage' = "done"
               /\ UNCHANGED <<pc, results, layerEnd>>
          ELSE EnterLayer(SMOKE) /\ UNCHANGED <<issues, evidence>>
  /\ UNCHANGED <<inputs, layers, cache, caseEnd, open, runs, cancelled, now>>

\* Fault: a smoke layer that timed out is run again.
AfterLayerAgain(l, ev) ==
  /\ layers' = [layers EXCEPT ![l] = ev]
  /\ IF l = SMOKE /\ ev.status = "timed_out"
       THEN EnterLayer(SMOKE) /\ UNCHANGED issues
       ELSE /\ stage' = "finish"
            /\ UNCHANGED <<issues, pc, results, layerEnd>>

\* A layer's evidence is recorded and the next layer is entered, unless a
\* required one did not pass.
AfterLayer(l, ev) ==
  LET failed == l \in policy.required /\ ev.status # "passed"
  IN /\ layers' = [layers EXCEPT ![l] = ev]
     /\ issues' = IF failed THEN issues \cup {<<l, "failed">>} ELSE issues
     /\ IF l = SMOKE /\ ~failed
          THEN EnterLayer(SEMANTIC)
          ELSE /\ stage' = "finish"
               /\ UNCHANGED <<pc, results, layerEnd>>

EndLayer ==
  /\ InLayer
  /\ \/ pc = "expired" /\ AfterLayer(stage, Deadline)
     \/ /\ pc = "case" /\ Len(results) = Len(Cases(stage))
        /\ AfterLayer(stage, AggregateLayerEvidence(results))
  /\ UNCHANGED <<inputs, cache, caseEnd, open, runs, cancelled, now, evidence>>

\* The layer's deadline cancels the evaluation where it is suspended, and with
\* it the shared execution if that is still under way.
LayerTimeout ==
  /\ InLayer
  /\ pc \in {"scheduled", "executing", "observed"}
  /\ now >= layerEnd
  /\ AfterLayer(stage, Deadline)
  /\ cache' = [cache EXCEPT ![Case.key] = IF @.status = "pending" THEN Empty("interrupted") ELSE @]
  /\ UNCHANGED <<inputs, caseEnd, open, runs, cancelled, now, evidence>>

Finish ==
  /\ stage = "finish"
  /\ LET passed == issues = {} /\ \A l \in policy.required : layers[l].status = "passed"
     IN evidence' = MakeEvidence(IF passed THEN "passed" ELSE "failed",
                                 plan.smoke # <<>> \/ plan.semantic # <<>>)
  /\ stage' = "done"
  /\ UNCHANGED <<inputs, pc, results, layers, issues, cache, caseEnd, layerEnd,
                 open, runs, cancelled, now>>

(* A case: evaluate_case *)

CaseDone(status) ==
  /\ results' = Append(results, status)
  /\ pc' = "case"
  /\ UNCHANGED <<stage, cache, caseEnd>>

\* Fault: the cache holds completed observations only.
FutureOfCompletedOnly(key) ==
  IF cache[key].status = "interrupted" THEN Empty("absent") ELSE cache[key]

\* What execute_once finds under the key.
FutureOf(key) == cache[key]

StartCase ==
  /\ InLayer /\ pc = "case" /\ Len(results) < Len(Cases(stage))
  /\ \/ ~Case.enabled /\ CaseDone("skipped")
     \/ Case.enabled /\ ~PreflightPasses(Case) /\ CaseDone("failed")
     \/ /\ Case.enabled /\ PreflightPasses(Case)
        /\ \/ /\ FutureOf(Case.key).status = "absent"
              /\ cache' = [cache EXCEPT ![Case.key] = Empty("pending")]
              /\ caseEnd' = CaseDeadline(Case)
              /\ pc' = "scheduled"
              /\ UNCHANGED <<stage, results>>
           \/ /\ FutureOf(Case.key) \in Observation
              /\ CaseDone(ReducedCaseStatus(Case, FutureOf(Case.key)))
           \/ \* awaiting a cancelled future raises CancelledError
              /\ FutureOf(Case.key).status = "interrupted"
              /\ stage' = "aborted"
              /\ UNCHANGED <<results, pc, cache, caseEnd>>
  /\ UNCHANGED <<inputs, layers, issues, layerEnd, open, runs, cancelled, now, evidence>>

EvaluateCase ==
  /\ InLayer /\ pc = "observed"
  /\ CaseDone(ReducedCaseStatus(Case, cache[Case.key]))
  /\ UNCHANGED <<inputs, layers, issues, layerEnd, open, runs, cancelled, now, evidence>>

(* An execution: SQLiteReferenceVerificationExecutor.run_case *)

\* The fixture database exists until dispose removes it.
Provision == open' = open \cup {Case.key}

Dispose == open' = open \ {Case.key}

Observed(observation) ==
  /\ cache' = [cache EXCEPT ![Case.key] = observation]
  /\ pc' = "observed"
  /\ UNCHANGED stage

\* Fault: a fixture that cannot be reset is not disposed of.
CleanUpInOneTry(observation) ==
  \E issue \in BOOLEAN :
    /\ Observed([observation EXCEPT !.cleanup_issue = issue])
    /\ IF issue THEN Provision ELSE Dispose

\* Reset and disposal are each tried; an OSError or ValueError of either is an
\* issue of the observation.  Any other exception, such as the fixture's own
\* FixtureVerificationError, leaves run_case, the cache and the suite.
CleanUp(observation) ==
  \/ \E issue \in BOOLEAN :
       /\ Observed([observation EXCEPT !.cleanup_issue = issue])
       /\ Dispose
  \/ /\ stage' = "raised"
     /\ Provision
     /\ UNCHANGED <<cache, pc>>

\* From the start of run_case to its first suspension.
StartExecution ==
  /\ InLayer /\ pc = "scheduled"
  /\ \/ \* open_session fails
        Observed(Empty("unavailable")) /\ UNCHANGED <<open, runs>>
     \/ \* setup fails
        CleanUp(Empty("unavailable")) /\ UNCHANGED runs
     \/ cancelled /\ CleanUp(Empty("cancelled")) /\ UNCHANGED runs
     \/ /\ ~cancelled /\ now >= caseEnd
        /\ CleanUp(Empty("timed_out")) /\ UNCHANGED runs
     \/ /\ ~cancelled /\ now < caseEnd
        /\ Provision
        /\ runs' = [runs EXCEPT ![Case.key] = @ + 1]
        /\ pc' = "executing"
        /\ UNCHANGED <<stage, cache>>
  /\ UNCHANGED <<inputs, results, layers, issues, caseEnd, layerEnd, cancelled, now, evidence>>

\* The governed query answers, with rows, an error or an exception.
QueryAnswers ==
  /\ InLayer /\ pc = "executing"
  /\ \/ \E data \in BOOLEAN : CleanUp([Empty("succeeded") EXCEPT !.data = data])
     \/ CleanUp(Empty("error"))
     \/ CleanUp(Empty("unavailable"))
  /\ UNCHANGED <<inputs, results, layers, issues, caseEnd, layerEnd, runs, cancelled, now,
                 evidence>>

QueryTimesOut ==
  /\ InLayer /\ pc = "executing" /\ now >= caseEnd
  /\ CleanUp(Empty("timed_out"))
  /\ UNCHANGED <<inputs, results, layers, issues, caseEnd, layerEnd, runs, cancelled, now,
                 evidence>>

(* The environment *)

RequestCancellation ==
  /\ ~cancelled /\ stage \notin Ended
  /\ cancelled' = TRUE
  /\ UNCHANGED <<inputs, stage, pc, results, layers, issues, cache, caseEnd, layerEnd,
                 open, runs, now, evidence>>

Tick ==
  /\ now < MaxTime /\ stage \notin Ended
  /\ now' = now + 1
  /\ UNCHANGED <<inputs, stage, pc, results, layers, issues, cache, caseEnd, layerEnd,
                 open, runs, cancelled, evidence>>

SuiteStep ==
  \/ Begin \/ EndLayer \/ LayerTimeout \/ Finish
  \/ StartCase \/ EvaluateCase \/ StartExecution \/ QueryTimesOut

Next == SuiteStep \/ QueryAnswers \/ RequestCancellation \/ Tick

Spec == Init /\ [][Next]_vars

\* The event loop runs the suite and its timers, and time passes.  Whether the
\* database answers is not assumed.
FairSpec == Spec /\ WF_vars(SuiteStep) /\ WF_vars(Tick)
------------------------------------------------------------------------------
\* execute_once coalesces: however many cases share a query and a fixture, the
\* query reaches the database at most once in a suite.
ExecutedOnce == \A k \in Keys : runs[k] <= 1

\* What run() calls passed, the publication gate and the activation policy
\* accept: both of them re-derive the verdict from the case evidence, one with
\* the plan and one from the stored evidence alone.
PassedIsReusable ==
  (evidence.status = "passed") =>
     /\ ValidateBoundEvidence(evidence, plan, policy, evidence.executor)
     /\ EvidenceSatisfiesPolicy(evidence, policy)

\* A suite that passes with every layer required has cleaned up every fixture
\* it set up, in spite of failing resets and executions that were cut off.
PassedCleansUp ==
  (evidence.status = "passed" /\ policy.required = Layers)
     => open = {}

\* run() ends, even when the database never answers.
SuiteEnds == <>(stage \in Ended)

\* run_case: "Execute one case with guaranteed reset and disposal."
CleanupAlwaysAttempted == stage \in Ended => open = {}

\* "skipped, unavailable, timeout, exception, cancellation ... SHALL fail
\* required verification": no required case passes on an observation that says
\* nothing about the candidate.
UnavailableIsNotAPass ==
  (evidence.status = "passed") =>
     \A l \in policy.required \ {STRUCTURAL} :
       \A i \in DOMAIN Cases(l) :
         LET o == cache[Cases(l)[i].key]
         IN o \in Observation => o.status \in {"succeeded", "error"}
==============================================================================
