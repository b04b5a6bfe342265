-------------------------- MODULE VerificationProofs --------------------------
(***************************************************************************)
(* What a run of the verification suite guarantees for every set of plans,  *)
(* policies, keys and deadlines.                                            *)
(*                                                                          *)
(* SuiteInv is inductive.  Its parts say where the coroutine can be         *)
(* (Positioned), what the cache knows of the executions (Executions), what  *)
(* a recorded layer stands for (Recorded), which fixtures can still be open *)
(* (Fixtures) and that evidence is made last (Verdict).                     *)
(*                                                                          *)
(* The process-local catalog that the evidence is for.  Sound(t) is          *)
(* inductive for a single client t: the copies it works with are copies of   *)
(* records (KnownRecord, MoveOK), only the record Holder names can be marked *)
(* active at each step of a pointer operation, and retention keeps what      *)
(* concerns a version that was never retired (Audited, Explained).           *)
(***************************************************************************)
EXTENDS VerificationSuite, BundleCatalog, TLAPS

InCase == InLayer /\ pc \in {"scheduled", "executing", "observed"}

Admitted ==
  /\ plan # NoPlan
  /\ PlanPolicyIssues(plan, policy, bound) = {}
  /\ layers[STRUCTURAL].status = "passed"

Positioned ==
  /\ stage = "begin" => /\ issues = {} /\ open = {}
                        /\ layers = [l \in Layers |->
                             IF l = STRUCTURAL
                               THEN [status |-> structural, cases |-> <<>>] ELSE NotRun]
  /\ InLayer \/ stage = "finish" => Admitted
  /\ InLayer => issues = {} /\ Len(results) <= Len(Cases(stage))
  /\ InCase => Len(results) < Len(Cases(stage))

Executions ==
  /\ \A k \in Keys : runs[k] <= 1 /\ (cache[k].status = "absent" => runs[k] = 0)
  /\ InLayer /\ pc = "scheduled" =>
       runs[Case.key] = 0 /\ cache[Case.key].status = "pending"
  /\ InLayer /\ pc = "executing" => cache[Case.key].status = "pending"
  /\ InLayer /\ pc = "observed" => cache[Case.key] \in Observation

Recorded ==
  \A l \in {SMOKE, SEMANTIC} :
    layers[l].status = "passed" =>
      /\ Statuses(layers[l].cases) = {"passed"}
      /\ Len(layers[l].cases) = Len(Cases(l))

Fixtures ==
  policy.required = Layers =>
    \/ open = {}
    \/ InLayer /\ pc = "executing" /\ open = {Case.key}
    \/ stage = "raised"
    \/ stage \in {"finish", "done"} /\ issues # {}

Verdict ==
  /\ evidence # NoEvidence => stage = "done"
  /\ evidence.status = "passed" => issues = {}
  /\ PassedIsReusable

SuiteInv == TypeOK /\ Positioned /\ Executions /\ Recorded /\ Fixtures /\ Verdict

USE DEF STRUCTURAL, SMOKE, SEMANTIC, Layers
-------------------------------------------------------------------------------
(* Facts about the operators *)

\* A plan's cases are case records (VerificationPlan).
LEMMA CasesTyped ==
  ASSUME TypeOK, NEW l \in {SMOKE, SEMANTIC}
  PROVE  /\ Cases(l) \in Seq(CaseType)
         /\ \A i \in 1..Len(Cases(l)) : Cases(l)[i] \in CaseType /\ Cases(l)[i].key \in Keys
<1>1. plan \in PlanType
  BY SuiteAssumption, Zenon DEF TypeOK
<1>2. plan.smoke \in Seq(CaseType) /\ plan.semantic \in Seq(CaseType)
  BY <1>1, Zenon DEF PlanType
<1>3. Cases(l) \in Seq(CaseType)
  BY <1>2, Zenon DEF Cases
<1>4. \A i \in 1..Len(Cases(l)) : Cases(l)[i] \in CaseType
  BY <1>3
<1>5. \A c \in CaseType : c.key \in Keys
  BY Zenon DEF CaseType
<1> QED
  BY <1>3, <1>4, <1>5, Zenon

\* The case in hand is one of the layer's (the loop of _run_layer).
LEMMA CaseInHand ==
  ASSUME TypeOK, InLayer, Len(results) < Len(Cases(stage))
  PROVE  Case \in CaseType /\ Case.key \in Keys
<1>1. stage \in {SMOKE, SEMANTIC}
  BY Zenon DEF InLayer
<1>2. Len(results) + 1 \in 1..Len(Cases(stage))
  BY <1>1, CasesTyped DEF TypeOK
<1> QED
  BY <1>1, <1>2, CasesTyped, Zenon DEF Case

\* evaluate_case reports a status of the closed set.
LEMMA ReducedTyped ==
  ASSUME NEW case, NEW observation
  PROVE  ReducedCaseStatus(case, observation) \in VerificationStatus
BY Zenon DEF ReducedCaseStatus, NonpassStatus, VerificationStatus

\* A layer passes when it has cases and all of them passed (aggregate_layer_evidence).
LEMMA LayerStatusPassed ==
  ASSUME NEW statuses
  PROVE  /\ LayerStatus(statuses) \in VerificationStatus
         /\ LayerStatus(statuses) = "passed" <=> statuses = {"passed"}
BY Zenon DEF LayerStatus, VerificationStatus

\* Without an issue the plan has the cases the policy asks for (_plan_policy_issues).
LEMMA NoIssues ==
  ASSUME TypeOK, PlanPolicyIssues(plan, policy, bound) = {}
  PROVE  /\ plan = NoPlan => policy.required = {STRUCTURAL}
         /\ plan # NoPlan => /\ ~(Cardinality(Enabled(plan.smoke)) < policy.min_smoke)
                             /\ ~(Cardinality(Enabled(plan.semantic)) < policy.min_semantic)
<1>1. policy \in VerificationPolicy
  BY SuiteAssumption, Zenon DEF TypeOK
<1>2. CASE plan = NoPlan
  <2>1. policy.id = "compatibility-v1"
    BY <1>2, Zenon DEF PlanPolicyIssues
  <2> QED
    BY <1>1, <1>2, <2>1 DEF VerificationPolicy, COMPATIBILITY_POLICY
<1>3. CASE plan # NoPlan
  BY <1>3, Zenon DEF PlanPolicyIssues
<1> QED
  BY <1>2, <1>3, Zenon

-------------------------------------------------------------------------------
(* Steps *)

\* Until run() returns there is no verdict to be wrong about.
LEMMA Unjudged ==
  ASSUME evidence' = NoEvidence
  PROVE  Verdict'
BY Zenon DEF Verdict, PassedIsReusable, NoEvidence

\* The suite starts in a state of the invariant.
LEMMA SuiteInit == Init => SuiteInv
<1> SUFFICES ASSUME Init PROVE SuiteInv
  BY Zenon
<1>1. layers \in [Layers -> LayerEvidence]
  <2>1. NotRun \in LayerEvidence
    BY DEF NotRun, LayerEvidence, VerificationStatus
  <2>2. [status |-> structural, cases |-> <<>>] \in LayerEvidence
    BY DEF Init, LayerEvidence, VerificationStatus
  <2> QED
    BY <2>1, <2>2, Zenon DEF Init
<1>2. cache \in [Keys -> CacheType]
  BY Zenon DEF Init, CacheType
<1>3. TypeOK
  BY <1>1, <1>2, SuiteAssumption DEF Init, TypeOK
<1>4. Positioned
  BY Zenon DEF Init, Positioned, InLayer, InCase
<1>5. Executions
  BY DEF Init, Executions, InLayer
<1>6. Recorded
  BY Zenon DEF Init, Recorded, NotRun
<1>7. Fixtures /\ Verdict
  BY Zenon DEF Init, Fixtures, Verdict, PassedIsReusable, NoEvidence
<1> QED
  BY <1>3, <1>4, <1>5, <1>6, <1>7, Zenon DEF SuiteInv

\* In a layer nothing has been judged.
LEMMA InLayerUnjudged ==
  ASSUME SuiteInv, InLayer
  PROVE  /\ evidence = NoEvidence /\ issues = {} /\ Admitted
         /\ stage \in {SMOKE, SEMANTIC} /\ Len(results) <= Len(Cases(stage))
BY Zenon DEF SuiteInv, Verdict, InLayer, Positioned

\* Recording a layer's evidence, whatever ended the layer (run).
LEMMA AfterLayerStep ==
  ASSUME SuiteInv, InLayer, NEW ev \in LayerEvidence, AfterLayer(stage, ev),
         ev.status = "passed" => /\ Statuses(ev.cases) = {"passed"}
                                 /\ Len(ev.cases) = Len(Cases(stage)),
         pc = "executing" => ev.status # "passed",
         cache' \in [Keys -> CacheType],
         \A k \in Keys : cache'[k].status = "absent" => cache[k].status = "absent",
         UNCHANGED <<inputs, open, runs, cancelled, now, evidence>>
  PROVE  SuiteInv'
<1>0. /\ evidence = NoEvidence /\ issues = {} /\ Admitted
      /\ stage \in {SMOKE, SEMANTIC}
  BY InLayerUnjudged, Zenon
<1>1. Verdict'
  BY <1>0, Unjudged, Zenon
<1>2. /\ plan' = plan /\ policy' = policy /\ structural' = structural /\ bound' = bound
      /\ open' = open /\ runs' = runs /\ now' = now /\ evidence' = evidence
  BY Zenon DEF inputs
<1>3. /\ layers' = [layers EXCEPT ![stage] = ev]
      /\ layers' \in [Layers -> LayerEvidence]
  BY <1>0, Zenon DEF AfterLayer, SuiteInv, TypeOK
<1>4. \/ /\ stage' = SEMANTIC /\ stage = SMOKE /\ pc' \in {"case", "expired"}
         /\ results' = <<>> /\ issues' = issues
         /\ stage \in policy.required => ev.status = "passed"
      \/ /\ stage' = "finish" /\ pc' = pc /\ results' = results
         /\ stage \in policy.required /\ ev.status # "passed" => issues' # {}
  BY <1>0, Zenon DEF AfterLayer, EnterLayer
<1>5. TypeOK'
  <2>1. TypeOK
    BY Zenon DEF SuiteInv
  <2>2. /\ results' \in Seq(VerificationStatus)
        /\ stage' \in {"begin", SMOKE, SEMANTIC, "finish"} \cup Ended
        /\ pc' \in {"case", "expired", "scheduled", "executing", "observed"}
    <3>1. <<>> \in Seq(VerificationStatus)
      OBVIOUS
    <3>2. CASE stage' = SEMANTIC /\ pc' \in {"case", "expired"} /\ results' = <<>>
      BY <3>1, <3>2, Zenon
    <3>3. CASE stage' = "finish" /\ pc' = pc /\ results' = results
      BY <2>1, <3>3, Zenon DEF TypeOK
    <3> QED
      BY <1>4, <3>2, <3>3, Zenon
  <2> QED
    BY <2>1, <2>2, <1>2, <1>3, Zenon DEF TypeOK
<1>6. Positioned'
  <2>1. Admitted'
    BY <1>0, <1>2, <1>3, Zenon DEF Admitted, SuiteInv, TypeOK
  <2>2. Cases(SEMANTIC)' \in Seq(CaseType)
    BY <1>5, CasesTyped, <1>2, Zenon DEF SuiteInv, Cases
  <2> QED
    BY <1>0, <1>4, <2>1, <2>2 DEF Positioned, InLayer, InCase
<1>7. Executions'
  BY <1>2, <1>4, Zenon DEF SuiteInv, Executions, InLayer
<1>8. Recorded'
  BY <1>0, <1>2, <1>3, Zenon DEF SuiteInv, Recorded, TypeOK, Cases
<1>9. Fixtures'
  <2> SUFFICES ASSUME policy.required = Layers, open # {} PROVE Fixtures'
    BY <1>2, Zenon DEF Fixtures
  <2>1. pc = "executing"
    BY <1>0, Zenon DEF SuiteInv, Fixtures
  <2>2. ev.status # "passed" /\ stage \in policy.required
    BY <1>0, <2>1, Zenon
  <2> QED
    BY <1>4, <2>2, Zenon DEF Fixtures
<1> QED
  BY <1>1, <1>5, <1>6, <1>7, <1>8, <1>9, Zenon DEF SuiteInv

\* A layer that ran all its cases, or none because its time was up.
LEMMA EndLayerStep ==
  ASSUME SuiteInv, EndLayer
  PROVE  SuiteInv'
<1>0. InLayer /\ stage \in {SMOKE, SEMANTIC} /\ results \in Seq(VerificationStatus)
  BY Zenon DEF EndLayer, InLayer, SuiteInv, TypeOK
<1>1. /\ cache' = cache /\ cache \in [Keys -> CacheType]
      /\ UNCHANGED <<inputs, open, runs, cancelled, now, evidence>>
  BY Zenon DEF EndLayer, SuiteInv, TypeOK
<1>2. CASE pc = "expired" /\ AfterLayer(stage, Deadline)
  <2>1. Deadline \in LayerEvidence /\ Deadline.status # "passed"
    BY DEF Deadline, LayerEvidence, VerificationStatus
  <2> QED
    BY <1>0, <1>1, <1>2, <2>1, AfterLayerStep, Zenon
<1>3. CASE /\ pc = "case" /\ Len(results) = Len(Cases(stage))
           /\ AfterLayer(stage, AggregateLayerEvidence(results))
  <2> DEFINE ev == AggregateLayerEvidence(results)
  <2>1. /\ ev.status = LayerStatus(Statuses(results)) /\ ev.cases = results
        /\ ev = [status |-> LayerStatus(Statuses(results)), cases |-> results]
    BY Zenon DEF AggregateLayerEvidence
  <2>2. ev \in LayerEvidence
    BY <1>0, <2>1, LayerStatusPassed, Zenon DEF LayerEvidence
  <2>3. ev.status = "passed" => /\ Statuses(ev.cases) = {"passed"}
                                /\ Len(ev.cases) = Len(Cases(stage))
    BY <1>3, <2>1, LayerStatusPassed, Zenon
  <2>4. pc # "executing" /\ AfterLayer(stage, ev)
    BY <1>3, Zenon
  <2> HIDE DEF ev
  <2> QED
    BY <1>0, <1>1, <2>2, <2>3, <2>4, AfterLayerStep, Zenon
<1> QED
  BY <1>2, <1>3, Zenon DEF EndLayer

\* The layer's deadline cancels it, and with it the execution it awaits.
LEMMA LayerTimeoutStep ==
  ASSUME SuiteInv, LayerTimeout
  PROVE  SuiteInv'
<1>0. InLayer /\ AfterLayer(stage, Deadline)
  BY Zenon DEF LayerTimeout
<1>1. Deadline \in LayerEvidence /\ Deadline.status # "passed"
  BY DEF Deadline, LayerEvidence, VerificationStatus
<1>2. Case.key \in Keys
  BY CaseInHand, Zenon DEF LayerTimeout, SuiteInv, Positioned, InCase
<1>3. UNCHANGED <<inputs, open, runs, cancelled, now, evidence>>
  BY Zenon DEF LayerTimeout
<1>4. /\ cache' \in [Keys -> CacheType]
      /\ \A k \in Keys : cache'[k].status = "absent" => cache[k].status = "absent"
  <2>1. /\ Empty("interrupted") \in CacheType
        /\ Empty("interrupted").status = "interrupted"
    BY Zenon DEF CacheType, Empty
  <2>2. cache \in [Keys -> CacheType]
    BY Zenon DEF SuiteInv, TypeOK
  <2>3. cache' = [cache EXCEPT ![Case.key] =
                    IF @.status = "pending" THEN Empty("interrupted") ELSE @]
    BY Zenon DEF LayerTimeout
  <2> QED
    BY <1>2, <2>1, <2>2, <2>3, Zenon
<1> QED
  BY <1>0, <1>1, <1>3, <1>4, AfterLayerStep, Zenon

\* A verdict of run() stands when it is derived again from the evidence, with
\* the plan (validate_bound_evidence) and without (evidence_satisfies_policy).
LEMMA PassedSatisfies ==
  ASSUME TypeOK, Admitted, Recorded, NEW x \in BOOLEAN,
         \A l \in policy.required : layers[l].status = "passed"
  PROVE  /\ ValidateBoundEvidence(MakeEvidence("passed", x), plan, policy, x)
         /\ EvidenceSatisfiesPolicy(MakeEvidence("passed", x), policy)
<1> DEFINE e == MakeEvidence("passed", x)
<1>1. /\ e.status = "passed" /\ e.planned = (plan # NoPlan) /\ e.executor = x
      /\ e.layers = layers /\ plan # NoPlan
  BY Zenon DEF MakeEvidence, Admitted
<1>2. /\ layers \in [Layers -> LayerEvidence]
      /\ policy.required \subseteq Layers
  BY SuiteAssumption, Zenon DEF TypeOK, VerificationPolicy
<1>3. ASSUME NEW l \in policy.required \ {STRUCTURAL}
      PROVE  /\ l \in {SMOKE, SEMANTIC} /\ layers[l].cases \in Seq(VerificationStatus)
             /\ Statuses(layers[l].cases) = {"passed"} /\ layers[l].cases # <<>>
             /\ DOMAIN layers[l].cases = DOMAIN Cases(l)
             /\ \A i \in DOMAIN layers[l].cases : layers[l].cases[i] = "passed"
  <2>1. l \in {SMOKE, SEMANTIC} /\ l \in Layers
    BY <1>2, Zenon
  <2>2. layers[l].cases \in Seq(VerificationStatus)
    BY <1>2, <2>1, Zenon DEF LayerEvidence
  <2>3. /\ Statuses(layers[l].cases) = {"passed"}
        /\ Len(layers[l].cases) = Len(Cases(l))
    BY <2>1, Zenon DEF Recorded
  <2>4. Cases(l) \in Seq(CaseType)
    BY <2>1, CasesTyped, Zenon
  <2>5. \A i \in DOMAIN layers[l].cases : layers[l].cases[i] = "passed"
    BY <2>3, Zenon DEF Statuses
  <2>6. layers[l].cases # <<>>
    <3>1. PICK i \in DOMAIN layers[l].cases : layers[l].cases[i] = "passed"
      BY <2>3, Zenon DEF Statuses
    <3> QED
      BY <3>1
  <2>7. DOMAIN layers[l].cases = DOMAIN Cases(l)
    BY <2>2, <2>3, <2>4
  <2> QED
    BY <2>1, <2>2, <2>3, <2>5, <2>6, <2>7, Zenon
<1>4. /\ ~(Cardinality(Enabled(plan.smoke)) < policy.min_smoke)
      /\ ~(Cardinality(Enabled(plan.semantic)) < policy.min_semantic)
  BY NoIssues, Zenon DEF Admitted
<1> HIDE DEF e
<1>5. SatisfiesPolicy(e, plan, policy)
  <2>1. \A l \in policy.required : e.layers[l].status = "passed"
    BY <1>1, Zenon
  <2>2. ASSUME NEW l \in policy.required \ {STRUCTURAL}
        PROVE  /\ Enabled(Cases(l)) \subseteq DOMAIN e.layers[l].cases
               /\ \A i \in Enabled(Cases(l)) : e.layers[l].cases[i] = "passed"
    BY <1>1, <1>3 DEF Enabled
  <2>3. \A l \in policy.required \ {STRUCTURAL} : l \in {SMOKE, SEMANTIC}
    BY <1>3, Zenon
  <2> QED
    BY <1>1, <1>4, <2>1, <2>2, <2>3, Zenon DEF SatisfiesPolicy, Cases
<1>6. SatisfiesPolicy(e, NoPlan, policy)
  BY <1>1, <1>3, Zenon DEF SatisfiesPolicy
<1> QED
  BY <1>1, <1>5, <1>6, Zenon DEF ValidateBoundEvidence, EvidenceSatisfiesPolicy, e

\* A run that ends before any fixture is touched, or enters the smoke layer.
LEMMA BeginStep ==
  ASSUME SuiteInv, Begin
  PROVE  SuiteInv'
<1> DEFINE found == PlanPolicyIssues(plan, policy, bound)
<1>0. /\ TypeOK /\ stage = "begin" /\ issues = {} /\ open = {}
      /\ evidence = NoEvidence /\ Executions /\ Recorded
      /\ layers = [l \in Layers |->
                     IF l = STRUCTURAL THEN [status |-> structural, cases |-> <<>>] ELSE NotRun]
  BY Zenon DEF SuiteInv, Begin, Positioned, Verdict
<1>1. /\ plan' = plan /\ policy' = policy /\ structural' = structural /\ bound' = bound
      /\ layers' = layers /\ cache' = cache /\ open' = open /\ runs' = runs /\ now' = now
  BY Zenon DEF Begin, inputs
<1>2. Recorded'
  BY <1>0, <1>1, Zenon DEF Recorded, Cases
<1>3. CASE structural # "passed" \/ found # {} \/ plan = NoPlan
  <2>1. /\ issues' = found \cup {i \in {"layer_1_failed"} : structural # "passed"}
        /\ evidence' = MakeEvidence(IF issues' = {} THEN "passed" ELSE "failed", FALSE)
        /\ stage' = "done" /\ pc' = pc /\ results' = results
    BY <1>3, Zenon DEF Begin
  <2>2. evidence' \in EvidenceType
    BY <1>0, <2>1, Zenon DEF MakeEvidence, EvidenceType, TypeOK
  <2>3. TypeOK'
    BY <1>0, <1>1, <2>1, <2>2, Zenon DEF TypeOK, Ended
  <2>4. ASSUME evidence'.status = "passed"
        PROVE  issues' = {} /\ PassedIsReusable'
    <3>1. issues' = {}
      BY <2>1, <2>4, Zenon DEF MakeEvidence
    <3>2. found = {} /\ structural = "passed" /\ plan = NoPlan
      BY <1>3, <2>1, <3>1, Zenon
    <3>3. policy.required = {STRUCTURAL}
      BY <1>0, <3>2, NoIssues, Zenon
    <3>4. /\ evidence'.status = "passed" /\ evidence'.planned = FALSE
          /\ evidence'.executor = FALSE /\ evidence'.layers = layers
      BY <2>1, <3>1, <3>2, Zenon DEF MakeEvidence
    <3>5. layers[STRUCTURAL].status = "passed"
      BY <1>0, <3>2, Zenon
    <3>6. SatisfiesPolicy(evidence', NoPlan, policy)
      BY <3>3, <3>4, <3>5, Zenon DEF SatisfiesPolicy
    <3> QED
      BY Zenon, <1>1, <3>1, <3>2, <3>4, <3>6
      DEF PassedIsReusable, ValidateBoundEvidence, EvidenceSatisfiesPolicy
  <2>5. Verdict'
    BY <2>1, <2>4, Zenon DEF Verdict, PassedIsReusable
  <2>6. Positioned' /\ Executions' /\ Fixtures'
    BY <1>0, <1>1, <2>1, Zenon DEF Positioned, Executions, Fixtures, InLayer, InCase
  <2> QED
    BY <1>2, <2>3, <2>5, <2>6, Zenon DEF SuiteInv
<1>4. CASE ~(structural # "passed" \/ found # {} \/ plan = NoPlan)
  <2>1. /\ stage' = SMOKE /\ pc' \in {"case", "expired"} /\ results' = <<>>
        /\ issues' = issues /\ evidence' = evidence
    BY <1>4, Zenon DEF Begin, EnterLayer
  <2>2. TypeOK'
    <3>1. results' \in Seq(VerificationStatus)
      BY <2>1
    <3> QED
      BY <1>0, <1>1, <2>1, <3>1, Zenon DEF TypeOK
  <2>3. Verdict'
    BY <1>0, <2>1, Unjudged, Zenon
  <2>4. Admitted'
    BY <1>0, <1>1, <1>4, Zenon DEF Admitted
  <2>5. Cases(SMOKE)' \in Seq(CaseType)
    BY <1>0, <1>1, CasesTyped, Zenon DEF Cases
  <2>6. Positioned'
    BY <1>0, <2>1, <2>4, <2>5 DEF Positioned, InLayer, InCase
  <2>7. Executions' /\ Fixtures'
    BY <1>0, <1>1, <2>1, Zenon DEF Executions, Fixtures, InLayer
  <2> QED
    BY <1>2, <2>2, <2>3, <2>6, <2>7, Zenon DEF SuiteInv
<1> QED
  BY <1>3, <1>4, Zenon

\* The verdict over the layers that were run.
LEMMA FinishStep ==
  ASSUME SuiteInv, Finish
  PROVE  SuiteInv'
<1> DEFINE passed == issues = {} /\ \A l \in policy.required : layers[l].status = "passed"
           x == plan.smoke # <<>> \/ plan.semantic # <<>>
<1>0. /\ TypeOK /\ stage = "finish" /\ Admitted /\ Executions /\ Recorded /\ Fixtures
  BY Zenon DEF SuiteInv, Finish, Positioned
<1>1. /\ plan' = plan /\ policy' = policy /\ structural' = structural /\ bound' = bound
      /\ layers' = layers /\ cache' = cache /\ open' = open /\ runs' = runs /\ now' = now
      /\ issues' = issues /\ stage' = "done" /\ pc' = pc /\ results' = results
      /\ evidence' = MakeEvidence(IF passed THEN "passed" ELSE "failed", x)
  BY Zenon DEF Finish, inputs
<1>2. evidence' \in EvidenceType
  BY <1>0, <1>1, Zenon DEF MakeEvidence, EvidenceType, TypeOK
<1>3. TypeOK'
  BY <1>0, <1>1, <1>2, Zenon DEF TypeOK, Ended
<1>4. ASSUME evidence'.status = "passed"
      PROVE  issues' = {} /\ PassedIsReusable'
  <2>1. passed
    BY <1>1, <1>4, Zenon DEF MakeEvidence
  <2>2. evidence' = MakeEvidence("passed", x) /\ evidence'.executor = x /\ x \in BOOLEAN
    BY <1>1, <2>1, Zenon DEF MakeEvidence
  <2>3. /\ ValidateBoundEvidence(evidence', plan, policy, x)
        /\ EvidenceSatisfiesPolicy(evidence', policy)
    <3> HIDE DEF x
    <3> QED
      BY <1>0, <2>1, <2>2, PassedSatisfies, Zenon
  <2> QED
    BY <1>1, <2>1, <2>2, <2>3, Zenon DEF PassedIsReusable
<1>5. Verdict'
  BY <1>1, <1>4, Zenon DEF Verdict, PassedIsReusable
<1>6. Recorded'
  BY <1>0, <1>1, Zenon DEF Recorded, Cases
<1>7. Positioned' /\ Executions' /\ Fixtures'
  BY <1>0, <1>1, Zenon DEF Positioned, Executions, Fixtures, InLayer, InCase
<1> QED
  BY <1>3, <1>5, <1>6, <1>7, Zenon DEF SuiteInv

\* A case that is settled without an execution of its own, or after it.
LEMMA CaseDoneStep ==
  ASSUME SuiteInv, InLayer, Len(results) < Len(Cases(stage)), pc # "executing",
         NEW status \in VerificationStatus, CaseDone(status),
         UNCHANGED <<inputs, layers, issues, layerEnd, open, runs, cancelled, now, evidence>>
  PROVE  SuiteInv'
<1>0. /\ TypeOK /\ evidence = NoEvidence /\ issues = {} /\ Admitted
      /\ stage \in {SMOKE, SEMANTIC}
  BY InLayerUnjudged, Zenon DEF SuiteInv
<1>1. /\ plan' = plan /\ policy' = policy /\ structural' = structural /\ bound' = bound
      /\ layers' = layers /\ cache' = cache /\ open' = open /\ runs' = runs /\ now' = now
      /\ issues' = issues /\ stage' = stage /\ pc' = "case" /\ evidence' = evidence
      /\ results' = Append(results, status)
  BY Zenon DEF CaseDone, inputs
<1>2. /\ results' \in Seq(VerificationStatus) /\ Len(results') = Len(results) + 1
      /\ Len(results) \in Nat
  BY <1>0, <1>1 DEF TypeOK
<1>3. TypeOK'
  BY <1>0, <1>1, <1>2, Zenon DEF TypeOK
<1>4. Verdict'
  BY <1>0, <1>1, Unjudged, Zenon
<1>5. Admitted'
  BY <1>0, <1>1, Zenon DEF Admitted
<1>6. Cases(stage)' = Cases(stage) /\ Len(Cases(stage)) \in Nat
  BY <1>0, <1>1, CasesTyped DEF Cases
<1>7. Positioned'
  BY <1>0, <1>1, <1>2, <1>5, <1>6 DEF Positioned, InLayer, InCase
<1>8. Executions'
  BY <1>1, Zenon DEF SuiteInv, Executions, InLayer
<1>9. Recorded'
  BY <1>1, Zenon DEF SuiteInv, Recorded, Cases
<1>10. Fixtures'
  BY <1>0, <1>1, Zenon DEF SuiteInv, Fixtures
<1> QED
  BY <1>3, <1>4, <1>7, <1>8, <1>9, <1>10, Zenon DEF SuiteInv

\* A case is skipped, refused, answered from the cache, executed, or awaits a
\* future that was cancelled (evaluate_case, execute_once).
LEMMA StartCaseStep ==
  ASSUME SuiteInv, StartCase
  PROVE  SuiteInv'
<1>0. /\ TypeOK /\ InLayer /\ pc = "case" /\ Len(results) < Len(Cases(stage))
      /\ evidence = NoEvidence /\ issues = {} /\ Admitted /\ stage \in {SMOKE, SEMANTIC}
      /\ UNCHANGED <<inputs, layers, issues, layerEnd, open, runs, cancelled, now, evidence>>
  BY InLayerUnjudged, Zenon DEF SuiteInv, StartCase
<1>1. Case.key \in Keys
  BY <1>0, CaseInHand, Zenon
<1>2. /\ plan' = plan /\ policy' = policy /\ structural' = structural /\ bound' = bound
      /\ layers' = layers /\ open' = open /\ runs' = runs /\ now' = now
      /\ issues' = issues /\ evidence' = evidence
  BY <1>0, Zenon DEF inputs
<1>3. ASSUME NEW status \in VerificationStatus, CaseDone(status)
      PROVE  SuiteInv'
  BY <1>0, <1>3, CaseDoneStep, Zenon
<1>4. open = {} \/ policy.required # Layers
  BY <1>0, Zenon DEF SuiteInv, Fixtures
<1>5. CASE ~Case.enabled /\ CaseDone("skipped")
  BY <1>3, <1>5, Zenon DEF VerificationStatus
<1>6. CASE Case.enabled /\ ~PreflightPasses(Case) /\ CaseDone("failed")
  BY <1>3, <1>6, Zenon DEF VerificationStatus
<1>7. CASE CaseDone(ReducedCaseStatus(Case, FutureOf(Case.key)))
  BY <1>3, <1>7, ReducedTyped, Zenon
<1>8. CASE /\ FutureOf(Case.key).status = "absent"
           /\ cache' = [cache EXCEPT ![Case.key] = Empty("pending")]
           /\ pc' = "scheduled"
           /\ UNCHANGED <<stage, results>>
  <2>1. cache' \in [Keys -> CacheType]
    BY <1>0, <1>8, Zenon DEF TypeOK, CacheType
  <2>2. TypeOK'
    BY <1>0, <1>2, <1>8, <2>1, Zenon DEF TypeOK
  <2>3. Verdict'
    BY <1>0, <1>2, Unjudged, Zenon
  <2>4. Admitted' /\ Cases(stage)' = Cases(stage) /\ Case' = Case /\ InLayer'
    BY <1>0, <1>2, <1>8, Zenon DEF Admitted, Cases, Case, InLayer
  <2>5. Positioned'
    BY <1>0, <1>2, <1>8, <2>4, Zenon DEF SuiteInv, Positioned, InLayer, InCase
  <2>6. Executions'
    <3>1. runs[Case.key] = 0
      BY <1>1, <1>8, Zenon DEF SuiteInv, Executions, FutureOf
    <3>2. cache'[Case.key].status = "pending"
      BY <1>0, <1>1, <1>8, Zenon DEF TypeOK, Empty
    <3>3. \A k \in Keys : cache'[k].status = "absent" => runs[k] = 0
      BY <1>0, <1>1, <1>8, <3>2, Zenon DEF SuiteInv, Executions, TypeOK
    <3> QED
      BY <1>2, <1>8, <2>4, <3>1, <3>2, <3>3, Zenon DEF SuiteInv, Executions
  <2>7. Recorded' /\ Fixtures'
    BY <1>2, <1>4, Zenon DEF SuiteInv, Recorded, Cases, Fixtures
  <2> QED
    BY <2>2, <2>3, <2>5, <2>6, <2>7, Zenon DEF SuiteInv
<1>9. CASE stage' = "aborted" /\ UNCHANGED <<results, pc, cache, caseEnd>>
  <2>1. TypeOK'
    BY <1>0, <1>2, <1>9, Zenon DEF TypeOK, Ended
  <2>2. Verdict'
    BY <1>0, <1>2, Unjudged, Zenon
  <2>3. Positioned' /\ Executions' /\ Recorded' /\ Fixtures'
    BY Zenon, <1>2, <1>4, <1>9
    DEF SuiteInv, Positioned, Executions, Recorded, Cases, Fixtures, InLayer, InCase
  <2> QED
    BY <2>1, <2>2, <2>3, Zenon DEF SuiteInv
<1> QED
  BY <1>5, <1>6, <1>7, <1>8, <1>9, Zenon DEF StartCase

\* The case is settled from the observation it waited for.
LEMMA EvaluateCaseStep ==
  ASSUME SuiteInv, EvaluateCase
  PROVE  SuiteInv'
<1>1. Len(results) < Len(Cases(stage)) /\ InLayer /\ pc = "observed"
  BY Zenon DEF EvaluateCase, SuiteInv, Positioned, InCase
<1> QED
  BY <1>1, ReducedTyped, CaseDoneStep, Zenon DEF EvaluateCase

\* An execution delivers its observation to the future that waits for it, with
\* its fixture disposed of or never set up.
LEMMA ObservedStep ==
  ASSUME SuiteInv, InLayer, pc \in {"scheduled", "executing"},
         NEW o \in Observation, Observed(o),
         \/ open' = open \ {Case.key}
         \/ open' = open /\ pc = "scheduled",
         UNCHANGED <<inputs, results, layers, issues, caseEnd, layerEnd, runs, cancelled, now,
                     evidence>>
  PROVE  SuiteInv'
<1>0. /\ TypeOK /\ evidence = NoEvidence /\ issues = {} /\ Admitted
      /\ stage \in {SMOKE, SEMANTIC} /\ Len(results) < Len(Cases(stage))
  BY InLayerUnjudged, Zenon DEF SuiteInv, Positioned, InCase
<1>1. Case.key \in Keys
  BY <1>0, CaseInHand, Zenon
<1>2. /\ plan' = plan /\ policy' = policy /\ structural' = structural /\ bound' = bound
      /\ layers' = layers /\ runs' = runs /\ now' = now /\ results' = results
      /\ issues' = issues /\ evidence' = evidence /\ stage' = stage /\ pc' = "observed"
      /\ cache' = [cache EXCEPT ![Case.key] = o]
  BY Zenon DEF inputs, Observed
<1>3. TypeOK'
  <2>1. cache' \in [Keys -> CacheType]
    BY <1>0, <1>2, Zenon DEF TypeOK, CacheType
  <2>2. open' \subseteq Keys
    BY <1>0, Zenon DEF TypeOK
  <2> QED
    BY <1>0, <1>2, <2>1, <2>2, Zenon DEF TypeOK
<1>4. Verdict'
  BY <1>0, <1>2, Unjudged, Zenon
<1>5. Admitted' /\ Cases(stage)' = Cases(stage) /\ Case' = Case /\ InLayer'
  BY <1>0, <1>2, Zenon DEF Admitted, Cases, Case, InLayer
<1>6. Positioned'
  BY <1>0, <1>2, <1>5, Zenon DEF SuiteInv, Positioned, InLayer, InCase
<1>7. Executions'
  <2>1. cache'[Case.key] = o /\ o.status # "absent"
    BY <1>0, <1>1, <1>2, Zenon DEF TypeOK, Observation, ObservationStatus
  <2>2. \A k \in Keys : cache'[k].status = "absent" => runs[k] = 0
    BY <1>0, <1>1, <1>2, <2>1, Zenon DEF SuiteInv, Executions, TypeOK
  <2> QED
    BY <1>2, <1>5, <2>1, <2>2, Zenon DEF SuiteInv, Executions
<1>8. Recorded'
  BY <1>2, Zenon DEF SuiteInv, Recorded, Cases
<1>9. Fixtures'
  BY <1>0, <1>2, Zenon DEF SuiteInv, Fixtures
<1> QED
  BY <1>3, <1>4, <1>6, <1>7, <1>8, <1>9, Zenon DEF SuiteInv

\* Clean-up reports an observation, or raises and ends the run.
LEMMA CleanUpStep ==
  ASSUME SuiteInv, InLayer, pc \in {"scheduled", "executing"},
         NEW o \in Observation, CleanUp(o),
         UNCHANGED <<inputs, results, layers, issues, caseEnd, layerEnd, runs, cancelled, now,
                     evidence>>
  PROVE  SuiteInv'
<1>1. ASSUME NEW issue \in BOOLEAN,
             Observed([o EXCEPT !.cleanup_issue = issue]), Dispose
      PROVE  SuiteInv'
  <2>1. [o EXCEPT !.cleanup_issue = issue] \in Observation
    BY Zenon DEF Observation
  <2> QED
    BY <1>1, <2>1, ObservedStep, Zenon DEF Dispose
<1>2. CASE stage' = "raised" /\ Provision /\ UNCHANGED <<cache, pc>>
  <2>0. /\ TypeOK /\ evidence = NoEvidence /\ Len(results) < Len(Cases(stage))
    BY InLayerUnjudged, Zenon DEF SuiteInv, Positioned, InCase
  <2>1. Case.key \in Keys
    BY <2>0, CaseInHand, Zenon
  <2>2. /\ plan' = plan /\ policy' = policy /\ structural' = structural /\ bound' = bound
        /\ layers' = layers /\ runs' = runs /\ now' = now /\ results' = results
        /\ issues' = issues /\ evidence' = evidence /\ pc' = pc /\ cache' = cache
    BY <1>2, Zenon DEF inputs
  <2>3. TypeOK'
    <3>1. open' \subseteq Keys
      BY <1>2, <2>0, <2>1, Zenon DEF TypeOK, Provision
    <3> QED
      BY <1>2, <2>0, <2>2, <3>1, Zenon DEF TypeOK, Ended
  <2>4. Verdict'
    BY <2>0, <2>2, Unjudged, Zenon
  <2>5. Positioned' /\ Executions' /\ Recorded' /\ Fixtures'
    BY Zenon, <1>2, <2>2
    DEF SuiteInv, Positioned, Executions, Recorded, Cases, Fixtures, InLayer, InCase
  <2> QED
    BY <2>3, <2>4, <2>5, Zenon DEF SuiteInv
<1> QED
  BY <1>1, <1>2, Zenon DEF CleanUp

\* What an execution may report is an observation.
LEMMA EmptyObservation ==
  /\ \A s \in ObservationStatus : Empty(s) \in Observation
  /\ \A d \in BOOLEAN : [Empty("succeeded") EXCEPT !.data = d] \in Observation
BY Zenon DEF Empty, Observation, ObservationStatus

\* run_case up to its first suspension: only here is a query executed.
LEMMA StartExecutionStep ==
  ASSUME SuiteInv, StartExecution
  PROVE  SuiteInv'
<1>0. /\ TypeOK /\ InLayer /\ pc = "scheduled"
      /\ evidence = NoEvidence /\ issues = {} /\ Admitted /\ stage \in {SMOKE, SEMANTIC}
      /\ Len(results) < Len(Cases(stage))
      /\ UNCHANGED <<inputs, results, layers, issues, caseEnd, layerEnd, cancelled, now, evidence>>
  BY InLayerUnjudged, Zenon DEF SuiteInv, StartExecution, Positioned, InCase
<1>1. ASSUME NEW s \in ObservationStatus, CleanUp(Empty(s)), UNCHANGED runs
      PROVE  SuiteInv'
  BY <1>0, <1>1, EmptyObservation, CleanUpStep, Zenon
<1>2. {"unavailable", "cancelled", "timed_out"} \subseteq ObservationStatus
  BY Zenon DEF ObservationStatus
<1>3. CASE Observed(Empty("unavailable")) /\ UNCHANGED <<open, runs>>
  BY <1>0, <1>2, <1>3, EmptyObservation, ObservedStep, Zenon
<1>4. CASE /\ Provision /\ runs' = [runs EXCEPT ![Case.key] = @ + 1]
           /\ pc' = "executing" /\ UNCHANGED <<stage, cache>>
  <2>1. Case.key \in Keys
    BY <1>0, CaseInHand, Zenon
  <2>2. /\ plan' = plan /\ policy' = policy /\ structural' = structural /\ bound' = bound
        /\ layers' = layers /\ now' = now /\ results' = results
        /\ issues' = issues /\ evidence' = evidence /\ stage' = stage /\ cache' = cache
    BY <1>0, <1>4, Zenon DEF inputs
  <2>3. /\ runs[Case.key] = 0 /\ cache[Case.key].status = "pending"
        /\ runs'[Case.key] = 1 /\ runs' \in [Keys -> Nat]
        /\ \A k \in Keys \ {Case.key} : runs'[k] = runs[k]
    BY <1>0, <1>4, <2>1 DEF SuiteInv, Executions, TypeOK
  <2>4. TypeOK'
    <3>1. open' \subseteq Keys
      BY <1>0, <1>4, <2>1, Zenon DEF TypeOK, Provision
    <3> QED
      BY <1>0, <1>4, <2>2, <2>3, <3>1, Zenon DEF TypeOK
  <2>5. Verdict'
    BY <1>0, <2>2, Unjudged, Zenon
  <2>6. Admitted' /\ Cases(stage)' = Cases(stage) /\ Case' = Case /\ InLayer'
    BY <1>0, <2>2, Zenon DEF Admitted, Cases, Case, InLayer
  <2>7. Positioned'
    BY <1>0, <1>4, <2>2, <2>6, Zenon DEF SuiteInv, Positioned, InLayer, InCase
  <2>8. Executions'
    <3>1. \A k \in Keys : runs[k] <= 1 /\ (cache[k].status = "absent" => runs[k] = 0)
      BY Zenon DEF SuiteInv, Executions
    <3>2. \A k \in Keys : runs'[k] <= 1 /\ (cache[k].status = "absent" => runs'[k] = 0)
      BY <2>3, <3>1
    <3> QED
      BY <1>4, <2>2, <2>3, <2>6, <3>2, Zenon DEF Executions
  <2>9. Recorded'
    BY <2>2, Zenon DEF SuiteInv, Recorded, Cases
  <2>10. Fixtures'
    BY <1>0, <1>4, <2>2, <2>6, Zenon DEF SuiteInv, Fixtures, Provision
  <2> QED
    BY <2>4, <2>5, <2>7, <2>8, <2>9, <2>10, Zenon DEF SuiteInv
<1> QED
  BY <1>1, <1>2, <1>3, <1>4, Zenon DEF StartExecution

\* The query answers or its deadline passes.
LEMMA QueryStep ==
  ASSUME SuiteInv, QueryAnswers \/ QueryTimesOut
  PROVE  SuiteInv'
<1>1. /\ InLayer /\ pc = "executing"
      /\ UNCHANGED <<inputs, results, layers, issues, caseEnd, layerEnd, runs, cancelled, now,
                     evidence>>
  BY Zenon DEF QueryAnswers, QueryTimesOut
<1>2. {"error", "unavailable", "timed_out"} \subseteq ObservationStatus
  BY Zenon DEF ObservationStatus
<1>3. PICK o \in Observation : CleanUp(o)
  BY <1>2, EmptyObservation, Zenon DEF QueryAnswers, QueryTimesOut
<1> QED
  BY <1>1, <1>3, CleanUpStep, Zenon

\* Time and a request for cancellation change nothing the invariant mentions.
LEMMA EnvironmentStep ==
  ASSUME SuiteInv,
         now' \in 0..MaxTime,
         UNCHANGED <<inputs, stage, pc, results, layers, issues, cache, open, runs, evidence>>
  PROVE  SuiteInv'
<1>1. /\ plan' = plan /\ policy' = policy /\ structural' = structural /\ bound' = bound
      /\ layers' = layers /\ results' = results /\ runs' = runs /\ cache' = cache
      /\ issues' = issues /\ evidence' = evidence /\ stage' = stage /\ pc' = pc /\ open' = open
  BY Zenon DEF inputs
<1>2. TypeOK'
  BY <1>1, Zenon DEF SuiteInv, TypeOK
<1>3. Positioned'
  BY <1>1, Zenon DEF SuiteInv, Positioned, Admitted, InLayer, InCase, Cases
<1>4. Executions'
  BY <1>1, Zenon DEF SuiteInv, Executions, InLayer, Case, Cases
<1>5. Recorded'
  BY <1>1, Zenon DEF SuiteInv, Recorded, Cases
<1>6. Fixtures'
  BY <1>1, Zenon DEF SuiteInv, Fixtures, InLayer, Case, Cases
<1>7. Verdict'
  BY <1>1, Zenon DEF SuiteInv, Verdict, PassedIsReusable
<1> QED
  BY <1>2, <1>3, <1>4, <1>5, <1>6, <1>7, Zenon DEF SuiteInv

\* The invariant holds in every state of every run of the suite.
THEOREM SuiteInvariant == Spec => []SuiteInv
<1>1. SuiteInv /\ [Next]_vars => SuiteInv'
  <2> SUFFICES ASSUME SuiteInv, [Next]_vars PROVE SuiteInv'
    BY Zenon
  <2>0. now \in 0..MaxTime /\ MaxTime \in Nat
    BY SuiteAssumption, Zenon DEF SuiteInv, TypeOK
  <2>1. CASE Begin
    BY <2>1, BeginStep, Zenon
  <2>2. CASE EndLayer
    BY <2>2, EndLayerStep, Zenon
  <2>3. CASE LayerTimeout
    BY <2>3, LayerTimeoutStep, Zenon
  <2>4. CASE Finish
    BY <2>4, FinishStep, Zenon
  <2>5. CASE StartCase
    BY <2>5, StartCaseStep, Zenon
  <2>6. CASE EvaluateCase
    BY <2>6, EvaluateCaseStep, Zenon
  <2>7. CASE StartExecution
    BY <2>7, StartExecutionStep, Zenon
  <2>8. CASE QueryAnswers \/ QueryTimesOut
    BY <2>8, QueryStep, Zenon
  <2>9. CASE RequestCancellation
    <3>1. now' \in 0..MaxTime
      BY <2>0, <2>9, Zenon DEF RequestCancellation
    <3> QED
      BY <2>9, <3>1, EnvironmentStep, Zenon DEF RequestCancellation
  <2>10. CASE Tick
    <3>1. now' \in 0..MaxTime
      BY <2>0, <2>10 DEF Tick
    <3> QED
      BY <2>10, <3>1, EnvironmentStep, Zenon DEF Tick
  <2>11. CASE UNCHANGED vars
    <3>1. now' \in 0..MaxTime
      BY <2>0, <2>11, Zenon DEF vars
    <3>2. UNCHANGED <<inputs, stage, pc, results, layers, issues, cache, open, runs, evidence>>
      BY <2>11, Zenon DEF vars, inputs
    <3> QED
      BY <3>1, <3>2, EnvironmentStep, Zenon
  <2> QED
    BY Zenon, <2>1, <2>2, <2>3, <2>4, <2>5, <2>6, <2>7, <2>8, <2>9, <2>10, <2>11
    DEF Next, SuiteStep
<1> QED
  BY SuiteInit, <1>1, PTL DEF Spec

\* execute_once: however many cases of however many layers share an execution
\* key, the query reaches the database at most once in a run.
THEOREM SuiteExecutesOnce == Spec => []ExecutedOnce
<1>1. SuiteInv => ExecutedOnce
  BY Zenon DEF SuiteInv, Executions, ExecutedOnce
<1> QED
  BY <1>1, SuiteInvariant, PTL

\* What run() calls passed, validate_bound_evidence and evidence_satisfies_policy
\* accept, for every plan and every policy the validators admit.
THEOREM SuitePassIsReusable == Spec => []PassedIsReusable
<1>1. SuiteInv => PassedIsReusable
  BY Zenon DEF SuiteInv, Verdict
<1> QED
  BY <1>1, SuiteInvariant, PTL

\* A run that passes with every layer required leaves no fixture behind, although
\* run_case as such does not guarantee it: a clean-up that raises and an execution
\* that is cut off both cost the verdict.
THEOREM SuitePassCleansUp == Spec => []PassedCleansUp
<1>1. SuiteInv => PassedCleansUp
  <2> SUFFICES ASSUME SuiteInv, evidence.status = "passed", policy.required = Layers
               PROVE  open = {}
    BY Zenon DEF PassedCleansUp
  <2>1. evidence # NoEvidence
    BY DEF NoEvidence
  <2>2. stage = "done" /\ issues = {}
    BY <2>1, Zenon DEF SuiteInv, Verdict
  <2> QED
    BY <2>2, Zenon DEF SuiteInv, Fixtures, InLayer
<1> QED
  BY <1>1, SuiteInvariant, PTL
-----------------------------------------------------------------------------
(* The process-local catalog: records and audit entries *)


\* Rebuilding the records with one of them replaced changes that one only.
LEMMA ReplacedRecords ==
    ASSUME NEW recs \in Seq(Record), NEW r \in Record
    PROVE  /\ Replaced(recs, r) \in Seq(Record)
           /\ DOMAIN Replaced(recs, r) = DOMAIN recs
           /\ \A i \in DOMAIN recs : Replaced(recs, r)[i] = IF recs[i].fp = r.fp THEN r ELSE recs[i]
<1> DEFINE M == Replaced(recs, r)
<1>1. DOMAIN M = DOMAIN recs /\ \A i \in DOMAIN recs : M[i] = IF recs[i].fp = r.fp THEN r ELSE recs[i]
  BY Zenon DEF Replaced
<1>2. DOMAIN recs = 1..Len(recs) /\ Len(recs) \in Nat /\ \A i \in 1..Len(recs) : recs[i] \in Record
  OBVIOUS
<1>3. M = [i \in 1..Len(recs) |-> M[i]] /\ \A i \in 1..Len(recs) : M[i] \in Record
  BY <1>1, <1>2, Zenon DEF Replaced
<1>4. M \in Seq(Record)
  <2> HIDE DEF M
  <2> QED  BY <1>2, <1>3
<1> QED  BY <1>1, <1>4, Zenon

\* What a lookup finds is a record.
LEMMA FoundRecord ==
    ASSUME NEW recs \in Seq(Record), NEW f
    PROVE  /\ RecordOf(recs, f) \in Record
           /\ Has(recs, f) => \E i \in DOMAIN recs : RecordOf(recs, f) = recs[i] /\ recs[i].fp = f
<1>1. NoRecord \in Record
  BY Zenon DEF NoRecord, Record, MaybeContent, Evidence, PublicationStates
<1>2. CASE Has(recs, f)
  <2>1. PICK i \in DOMAIN recs : recs[i].fp = f
    BY <1>2, Zenon DEF Has
  <2> DEFINE k == CHOOSE j \in DOMAIN recs : recs[j].fp = f
  <2>2. k \in DOMAIN recs /\ recs[k].fp = f
    BY <2>1, Zenon
  <2>3. RecordOf(recs, f) = recs[k]
    BY <1>2, Zenon DEF RecordOf
  <2>4. recs[k] \in Record
    BY <2>2
  <2> QED  BY <2>2, <2>3, <2>4, Zenon
<1>3. CASE ~Has(recs, f)
  BY <1>1, <1>3, Zenon DEF RecordOf
<1> QED  BY <1>2, <1>3, Zenon

\* The shape of the store.
StoreShape(s) == /\ s = [entries |-> s.entries, older |-> s.older]
                 /\ s.older \subseteq Ids(s) \X Ids(s)
                 /\ \A i \in Ids(s) : s.entries[i].id = i

\* Retention keeps what concerns a version in use and what that links to.
LEMMA TrimKeeps ==
    ASSUME NEW store, NEW recs
    PROVE  LET kept == Trim(store, recs)
           IN  /\ kept = [entries |-> kept.entries, older |-> kept.older]
               /\ Ids(kept) \subseteq Ids(store)
               /\ kept.older \subseteq store.older
               /\ \A p \in kept.older : p[1] \in Ids(kept) /\ p[2] \in Ids(kept)
               /\ \A i \in Ids(kept) : kept.entries[i] = store.entries[i]
               /\ \A i \in Ids(store) : store.entries[i].fp \in Live(recs) =>
                     /\ i \in Ids(kept)
                     /\ store.entries[i].preds \cap Ids(store) \subseteq Ids(kept)
<1> DEFINE removable == Removable(store.entries, Live(recs))
           overflow == Cardinality(Ids(store)) - AuditLimit
           UpTo(i) == {j \in removable : j = i \/ <<j, i>> \in store.older}
           keeps == {i \in Ids(store) : i \in removable => Cardinality(UpTo(i)) > overflow}
           kept == Trim(store, recs)
<1>1. kept = [entries |-> [i \in keeps |-> store.entries[i]],
              older |-> {p \in store.older : p[1] \in keeps /\ p[2] \in keeps}]
  BY Zenon DEF Trim
<1>2. \A i \in Ids(store) : i \notin removable => i \in keeps
  BY Zenon
<1>3. keeps \subseteq Ids(store)
  BY Zenon
<1> HIDE DEF keeps, kept
<1>4. \A i \in Ids(store) : store.entries[i].fp \in Live(recs) =>
         i \notin removable /\ \A j \in store.entries[i].preds : j \notin removable
  <2> SUFFICES ASSUME NEW i \in Ids(store), store.entries[i].fp \in Live(recs)
               PROVE  i \notin removable /\ \A j \in store.entries[i].preds : j \notin removable
    BY Zenon
  <2>1. {i} \cup store.entries[i].preds \subseteq Protected(store.entries, Live(recs))
    BY Zenon DEF Protected, Ids
  <2> QED  BY <2>1, Zenon DEF Removable
<1>5. Ids(kept) = keeps /\ kept.entries = [i \in keeps |-> store.entries[i]]
      /\ kept.older = {p \in store.older : p[1] \in keeps /\ p[2] \in keeps}
  BY <1>1, Zenon DEF Ids
<1>6. kept = [entries |-> kept.entries, older |-> kept.older]
  BY <1>1, <1>5, Zenon
<1>7. \A i \in keeps : kept.entries[i] = store.entries[i]
  BY <1>5, Zenon
<1> QED  BY <1>2, <1>3, <1>4, <1>5, <1>6, <1>7, Zenon DEF kept

-----------------------------------------------------------------------------

\* The entries are about contents that are published; publication and pointer
\* entries are about the content their id ends with; and what an entry about a
\* version that was never retired links to is stored.
AuditOK(store, recs, gone) ==
    \A i \in Ids(store) :
        /\ i.kind # "host" => store.entries[i].fp = i.to
        /\ store.entries[i].fp \in Contents => Has(recs, store.entries[i].fp)
        /\ store.entries[i].fp \in Contents \ gone => store.entries[i].preds \subseteq Ids(store)

RetiredKnown(recs, gone) == \A i \in DOMAIN recs : recs[i].state = "retired" => recs[i].fp \in gone

\* The entry e can be appended.
EntryFits(e, store, recs) ==
    /\ e.id.kind # "host" => e.fp = e.id.to
    /\ e.fp \in Contents => Has(recs, e.fp)
    /\ e.preds \subseteq Ids(store)

\* A published content that was never retired is in use.
LEMMA NeverRetiredIsLive ==
    ASSUME NEW recs, NEW gone, RetiredKnown(recs, gone), NEW f, Has(recs, f), f \notin gone
    PROVE  f \in Live(recs)
<1>1. PICK i \in DOMAIN recs : recs[i].fp = f
  BY Zenon DEF Has
<1>2. recs[i].state # "retired"
  BY <1>1, Zenon DEF RetiredKnown
<1> QED  BY <1>1, <1>2, Zenon DEF Live

\* Appending keeps the store in order, and keeps every entry about a version that
\* was never retired, the new one included.
LEMMA AppendedSound ==
    ASSUME NEW store, NEW recs, NEW gone, NEW e,
           StoreShape(store), AuditOK(store, recs, gone), RetiredKnown(recs, gone),
           EntryFits(e, store, recs)
    PROVE  LET new == Appended(store, e, recs)
           IN  /\ StoreShape(new) /\ AuditOK(new, recs, gone)
               /\ \A i \in Ids(store) : store.entries[i].fp \in Contents \ gone =>
                     i \in Ids(new) /\ new.entries[i] = store.entries[i]
               /\ e.fp \in Contents \ gone => e.id \in Ids(new)
               /\ e.id \notin Ids(store) /\ e.id \in Ids(new) => new.entries[e.id] = e
<1> DEFINE more == Added(store, e)
           new == Trim(more, recs)
<1>1. CASE e.id \in Ids(store)
  <2>1. Appended(store, e, recs) = store
    BY <1>1, Zenon DEF Appended
  <2> QED  BY <1>1, <2>1, Zenon
<1>2. CASE e.id \notin Ids(store)
  <2>1. Appended(store, e, recs) = new
    BY <1>2, Zenon DEF Appended
  <2>2. /\ Ids(more) = Ids(store) \cup {e.id}
        /\ more.entries[e.id] = e
        /\ \A i \in Ids(store) : more.entries[i] = store.entries[i]
        /\ more.older \subseteq Ids(more) \X Ids(more)
    BY <1>2 DEF Added, Ids, StoreShape
  <2> HIDE DEF more
  <2>3. /\ new = [entries |-> new.entries, older |-> new.older]
        /\ Ids(new) \subseteq Ids(more)
        /\ new.older \subseteq more.older
        /\ \A p \in new.older : p[1] \in Ids(new) /\ p[2] \in Ids(new)
        /\ \A i \in Ids(new) : new.entries[i] = more.entries[i]
        /\ \A i \in Ids(more) : more.entries[i].fp \in Live(recs) =>
              i \in Ids(new) /\ more.entries[i].preds \cap Ids(more) \subseteq Ids(new)
    BY TrimKeeps, Zenon
  <2> HIDE DEF new
  <2>4. \A i \in Ids(more) : /\ more.entries[i].id = i
                             /\ i.kind # "host" => more.entries[i].fp = i.to
                             /\ more.entries[i].fp \in Contents => Has(recs, more.entries[i].fp)
                             /\ more.entries[i].fp \in Contents \ gone =>
                                   more.entries[i].preds \subseteq Ids(more)
    <3> TAKE i \in Ids(more)
    <3>1. CASE i = e.id
      BY <2>2, <3>1, Zenon DEF EntryFits
    <3>2. CASE i # e.id
      BY <2>2, <3>2, Zenon DEF AuditOK, StoreShape
    <3> QED  BY <3>1, <3>2, Zenon
  <2>5. \A i \in Ids(more) : more.entries[i].fp \in Contents \ gone =>
           /\ i \in Ids(new)
           /\ more.entries[i].preds \subseteq Ids(new)
    <3> SUFFICES ASSUME NEW i \in Ids(more), more.entries[i].fp \in Contents \ gone
                 PROVE  i \in Ids(new) /\ more.entries[i].preds \subseteq Ids(new)
      BY Zenon
    <3>1. Has(recs, more.entries[i].fp) /\ more.entries[i].preds \subseteq Ids(more)
      BY <2>4, Zenon
    <3>2. more.entries[i].fp \in Live(recs)
      BY <3>1, NeverRetiredIsLive, Zenon
    <3> QED  BY <2>3, <3>1, <3>2, Zenon
  <2>6. StoreShape(new)
    BY <2>2, <2>3, <2>4 DEF StoreShape
  <2>7. AuditOK(new, recs, gone)
    BY <2>3, <2>4, <2>5, Zenon DEF AuditOK
  <2> QED  BY <1>2, <2>1, <2>2, <2>3, <2>5, <2>6, <2>7, Zenon
<1> QED  BY <1>1, <1>2, Zenon

-----------------------------------------------------------------------------
(* Types *)

\* The values that stand for nothing have the types of what they stand for.
LEMMA NoWorkTyped == NoWork \in Work /\ NoRecord \in Record
<1>1. NoRecord \in Record
  BY Zenon DEF NoRecord, Record, MaybeContent, Evidence, PublicationStates
<1>2. Entry(HostId(NoContent), NoContent, NoContent, {}) \in PointerEntries
  BY Zenon DEF Entry, HostId, EntryId, PointerEntries, MaybeContent
<1>3. "none" \in Steps
  BY Zenon DEF Steps
<1> QED  BY <1>1, <1>2, <1>3 DEF NoWork, Work

RecordsTyped ==
    /\ records \in Seq(Record) /\ formerly \in Seq(Record) /\ active \in Record
    /\ available \subseteq Dependencies /\ retiredOnce \subseteq Contents
    /\ work \in [Clients -> Work]
    /\ outcome \in [Clients -> {"running", "returned", "raised"}]
    /\ changes \in 0..MaxChanges

\* The types hold at the start.
LEMMA TypedStart == LocalCatalogInit => RecordsTyped
<1> SUFFICES ASSUME LocalCatalogInit PROVE RecordsTyped
  BY Zenon
<1>1. records \in Seq(Record) /\ formerly \in Seq(Record) /\ changes \in 0..MaxChanges
  BY LocalCatalogAssumption DEF LocalCatalogInit
<1>2. work \in [Clients -> Work] /\ active \in Record
  BY NoWorkTyped, Zenon DEF LocalCatalogInit
<1> QED  BY <1>1, <1>2, Zenon DEF LocalCatalogInit, RecordsTyped

\* A publication appends a record.
LEMMA PublishTyped ==
    ASSUME RecordsTyped, NEW t \in Clients, NEW fp \in Contents, NEW in \in PublishInputs, NEW prod,
           PublishBundle(t, fp, in, prod)
    PROVE  RecordsTyped'
<1> DEFINE n == Len(records)
           pred == IF n = 0 THEN NoContent ELSE records[n].fp
           older == [i \in DOMAIN records |-> IF i = n THEN WithSuccessor(records[i], fp) ELSE records[i]]
           record == [fp |-> fp, evidence |-> in.evidence, audited |-> in.audited,
                      state |-> "available", pred |-> pred, succ |-> NoContent]
<1>1. in.evidence \in Evidence /\ in.audited \in BOOLEAN
  BY LocalCatalogAssumption, Zenon DEF Input
<1>2. DOMAIN records = 1..n /\ n \in Nat /\ \A i \in 1..n : records[i] \in Record
  BY DEF RecordsTyped
<1>3. pred \in MaybeContent
  BY <1>2 DEF Record, MaybeContent
<1>4. \A r \in Record : WithSuccessor(r, fp) \in Record
  BY Zenon DEF WithSuccessor, Record, MaybeContent, PublicationStates
<1>5. older \in Seq(Record)
  <2>1. older = [i \in 1..n |-> older[i]] /\ \A i \in 1..n : older[i] \in Record
    BY <1>2, <1>4, Zenon
  <2> HIDE DEF older
  <2> QED  BY <1>2, <2>1
<1>6. record \in Record
  BY <1>1, <1>3, Zenon DEF Record, MaybeContent, PublicationStates
<1>7. records' = Append(older, record) \/ records' = records
  BY Zenon DEF PublishBundle
<1>8. records' \in Seq(Record)
  <2>1. \A s \in Seq(Record), r \in Record : Append(s, r) \in Seq(Record)
    OBVIOUS
  <2>2. Append(older, record) \in Seq(Record)
    BY <1>5, <1>6, <2>1, Zenon
  <2> QED  BY <1>7, <2>2, Zenon DEF RecordsTyped
<1>9. outcome' \in [Clients -> {"running", "returned", "raised"}]
  BY Zenon DEF PublishBundle, RecordsTyped
<1>10. UNCHANGED <<active, formerly, available, work, retiredOnce, changes>>
  BY Zenon DEF PublishBundle
<1> QED  BY <1>8, <1>9, <1>10, Zenon DEF RecordsTyped

\* A pointer operation notes its target, its predecessor and its entry.
LEMMA BeginTyped ==
    ASSUME RecordsTyped, NEW t \in Clients, NEW issue, NEW kind \in {"activation", "rollback"},
           NEW r \in Record, NEW operator \in AuditOperators, NEW pops \in BOOLEAN,
           NEW first \in Steps, pops => formerly # <<>>, changes < MaxChanges,
           BeginMove(t, issue, kind, r, operator, pops, first)
    PROVE  RecordsTyped'
<1> DEFINE rest == IF pops THEN Tail(formerly) ELSE <<>>
           entry == PointerEntry(kind, r, operator)
           w == [at |-> first, pops |-> pops, target |-> r, previous |-> active,
                 rest |-> rest, entry |-> entry, copy |-> <<>>]
<1>1. rest \in Seq(Record) /\ <<>> \in Seq(Record)
  BY DEF RecordsTyped
<1>2. r.fp \in MaybeContent /\ active.fp \in MaybeContent
  BY Zenon DEF RecordsTyped, Record
<1>3. entry \in PointerEntries
  BY <1>2, Zenon DEF PointerEntry, PointerEvidence, Entry, EntryId, PointerEntries, PublicationEntryOf
<1>4. w \in Work
  <2> HIDE DEF rest, entry
  <2> QED  BY <1>1, <1>3, Zenon DEF Work, RecordsTyped
<1>5. \/ work' = [work EXCEPT ![t] = w] /\ outcome' = [outcome EXCEPT ![t] = "running"]
         /\ changes' = changes + 1
      \/ outcome' = [outcome EXCEPT ![t] = "returned"] /\ UNCHANGED <<work, changes>>
  BY Zenon DEF BeginMove
<1> HIDE DEF w
<1>6. work' \in [Clients -> Work] /\ changes' \in 0..MaxChanges
  BY <1>4, <1>5, LocalCatalogAssumption DEF RecordsTyped
<1>7. outcome' \in [Clients -> {"running", "returned", "raised"}]
  BY <1>5, Zenon DEF RecordsTyped
<1>8. UNCHANGED <<records, active, formerly, audit, available, retiredOnce>>
  BY Zenon DEF BeginMove
<1> QED  BY <1>6, <1>7, <1>8, Zenon DEF RecordsTyped

\* The steps of a pointer operation.
LEMMA PointerTyped ==
    ASSUME RecordsTyped, NEW t \in Clients, PointerStep(t)
    PROVE  RecordsTyped'
<1>1. \A w \in Work : Following(w) \in Steps
  BY Zenon DEF Following, Steps
<1>2. \A w \in Work, s \in Steps, c \in Seq(Record) :
         [w EXCEPT !.at = s] \in Work /\ [w EXCEPT !.at = s, !.copy = c] \in Work
  BY Zenon DEF Work
<1>3. work[t] \in Work
  BY Zenon DEF RecordsTyped
<1>4. ASSUME Proceed(t) PROVE work' \in [Clients -> Work]
  BY <1>1, <1>2, <1>3, <1>4, Zenon DEF Proceed, RecordsTyped
<1>5. \A r \in Record : Demoted(r) \in Record /\ Promoted(r) \in Record
  BY Zenon DEF Demoted, Promoted, Record, PublicationStates
<1>6. work[t].target \in Record /\ work[t].previous \in Record /\ work[t].rest \in Seq(Record)
      /\ work[t].copy \in Seq(Record)
  BY <1>3, Zenon DEF Work
<1>7. CASE PushHistory(t)
  <2>1. formerly' \in Seq(Record)
    <3>1. \A s \in Seq(Record), r \in Record : <<r>> \o s \in Seq(Record)
      OBVIOUS
    <3>2. formerly' = <<work[t].previous>> \o formerly
      BY <1>7, Zenon DEF PushHistory
    <3> QED  BY <1>6, <3>1, <3>2, Zenon DEF RecordsTyped
  <2> QED  BY <1>4, <1>7, <2>1, Zenon DEF PushHistory, RecordsTyped
<1>8. CASE ReadRecords(t)
  <2> DEFINE r == IF work[t].at = "read previous" THEN Demoted(work[t].previous)
                                                  ELSE Promoted(work[t].target)
             c == Replaced(records, r)
  <2>1. work' = [work EXCEPT ![t].at = Following(work[t]), ![t].copy = c]
    BY <1>8, Zenon DEF ReadRecords
  <2>2. c \in Seq(Record)
    BY <1>5, <1>6, ReplacedRecords, Zenon DEF RecordsTyped
  <2> HIDE DEF c
  <2>3. work' \in [Clients -> Work]
    BY <1>1, <1>2, <1>3, <2>1, <2>2, Zenon DEF RecordsTyped
  <2> QED  BY <1>8, <2>3, Zenon DEF ReadRecords, RecordsTyped
<1>9. CASE WriteRecords(t)
  BY <1>4, <1>6, <1>9, Zenon DEF WriteRecords, RecordsTyped
<1>10. CASE SetPointer(t)
  BY <1>4, <1>5, <1>6, <1>10, Zenon DEF SetPointer, RecordsTyped
<1>11. CASE PopHistory(t)
  BY <1>4, <1>6, <1>11, Zenon DEF PopHistory, RecordsTyped
<1>12. CASE AppendEntry(t)
  <2>1. work' \in [Clients -> Work]
    BY <1>12, NoWorkTyped, Zenon DEF AppendEntry, RecordsTyped
  <2>2. outcome' \in [Clients -> {"running", "returned", "raised"}]
    BY <1>12, Zenon DEF AppendEntry, RecordsTyped
  <2>3. UNCHANGED <<records, active, formerly, available, retiredOnce, changes>>
    BY <1>12, Zenon DEF AppendEntry
  <2> QED  BY <2>1, <2>2, <2>3, Zenon DEF RecordsTyped
<1> QED  BY <1>7, <1>8, <1>9, <1>10, <1>11, <1>12, Zenon DEF PointerStep

\* Every step keeps the types.
LEMMA TypedStep ==
    ASSUME RecordsTyped, [LocalCatalogNext]_localVars
    PROVE  RecordsTyped'
<1>1. ASSUME NEW d \in Dependencies, PublishDependency(d) PROVE RecordsTyped'
  BY <1>1, Zenon DEF PublishDependency, RecordsTyped
<1>2. ASSUME NEW t \in Clients, NEW fp \in Contents, NEW prod, NEW o \in AuditOperators,
             Activate(t, fp, prod, o) \/ RollbackTo(t, fp, prod, o)
      PROVE  RecordsTyped'
  <2>1. RecordOf(records, fp) \in Record /\ ActivationStep \in Steps
    BY FoundRecord, Zenon DEF RecordsTyped, ActivationStep, Steps
  <2>2. CASE Activate(t, fp, prod, o)
    BY <2>1, <2>2, BeginTyped, Zenon DEF Activate
  <2>3. CASE RollbackTo(t, fp, prod, o) /\ fp = active.fp
    BY <2>3, Zenon DEF RollbackTo, RecordsTyped
  <2>4. CASE RollbackTo(t, fp, prod, o) /\ fp # active.fp
    BY <2>1, <2>4, BeginTyped, Zenon DEF RollbackTo
  <2> QED  BY <1>2, <2>2, <2>3, <2>4, Zenon
<1>3. ASSUME NEW t \in Clients, NEW prod, NEW o \in AuditOperators, RollbackActive(t, prod, o)
      PROVE  RecordsTyped'
  <2>1. formerly # <<>> /\ Head(formerly) \in Record /\ "read previous" \in Steps
    <3>1. \A s \in Seq(Record) : s # <<>> => Head(s) \in Record
      OBVIOUS
    <3>2. formerly # <<>> /\ "read previous" \in Steps
      BY <1>3, Zenon DEF RollbackActive, Steps
    <3> QED  BY <3>1, <3>2, Zenon DEF RecordsTyped
  <2> QED  BY <1>3, <2>1, BeginTyped, Zenon DEF RollbackActive
<1>4. ASSUME NEW t \in Clients, NEW fp \in Contents, NEW s \in {"deprecated", "retired"},
             SetVersionState(t, fp, s)
      PROVE  RecordsTyped'
  <2> DEFINE r == [RecordOf(records, fp) EXCEPT !.state = s]
  <2>1. r \in Record
    <3>1. RecordOf(records, fp) \in Record
      BY FoundRecord, Zenon DEF RecordsTyped
    <3> QED  BY <3>1, Zenon DEF Record, PublicationStates
  <2>2. Replaced(records, r) \in Seq(Record)
    BY <2>1, ReplacedRecords, Zenon DEF RecordsTyped
  <2>3. records' = Replaced(records, r) \/ records' = records
    BY <1>4, Zenon DEF SetVersionState
  <2>4. records' \in Seq(Record)
    BY <2>2, <2>3, Zenon DEF RecordsTyped
  <2>5. retiredOnce' \subseteq Contents /\ changes' \in 0..MaxChanges
    BY <1>4, LocalCatalogAssumption DEF SetVersionState, RecordsTyped
  <2>6. outcome' \in [Clients -> {"running", "returned", "raised"}]
    BY <1>4, Zenon DEF SetVersionState, RecordsTyped
  <2> QED  BY <1>4, <2>4, <2>5, <2>6, Zenon DEF SetVersionState, RecordsTyped
<1>5. ASSUME NEW t \in Clients, NEW e, NEW f, RecordAuditEntries(t, e, f)
      PROVE  RecordsTyped'
  <2>1. outcome' \in [Clients -> {"running", "returned", "raised"}]
    BY <1>5, Zenon DEF RecordAuditEntries, RecordsTyped
  <2>2. UNCHANGED <<records, active, formerly, available, work, retiredOnce, changes>>
    BY <1>5, Zenon DEF RecordAuditEntries
  <2> QED  BY <2>1, <2>2, Zenon DEF RecordsTyped
<1>6. CASE UNCHANGED localVars
  BY <1>6, Zenon DEF localVars, RecordsTyped
<1> QED
  BY <1>1, <1>2, <1>3, <1>4, <1>5, <1>6, PublishTyped, PointerTyped, Zenon DEF LocalCatalogNext

-----------------------------------------------------------------------------
(* The records, the pointer and the audit store of a single client *)

\* r is a copy of one of the records, or of none.
KnownRecord(r, recs) ==
    r.fp # NoContent => /\ Has(recs, r.fp)
                        /\ \A i \in DOMAIN recs : recs[i].fp = r.fp => recs[i].audited = r.audited

RecordsOK(recs, gone) ==
    /\ \A i \in DOMAIN recs : recs[i].fp \in Contents
    /\ \A i, j \in DOMAIN recs : recs[i].fp = recs[j].fp => i = j
    /\ RetiredKnown(recs, gone)

\* The content whose record may be ACTIVE while w is in progress.
Holder(w, ptr) ==
    CASE w.at \in {"read target", "write target"} -> NoContent
      [] w.at = "pointer" -> w.target.fp
      [] OTHER -> ptr.fp

ActiveIs(recs, f) == \A i \in DOMAIN recs : recs[i].state = "active" => recs[i].fp = f

InUse(recs, f) == \E i \in DOMAIN recs : recs[i].fp = f /\ recs[i].state # "retired"

\* What a pointer operation holds at each of its steps.
MoveOK(w, recs, ptr, store) ==
    /\ KnownRecord(w.target, recs) /\ KnownRecord(w.previous, recs)
    /\ \A i \in DOMAIN w.rest : KnownRecord(w.rest[i], recs)
    /\ w.at # "none" => /\ w.target.fp # NoContent
                        /\ w.entry.fp = w.target.fp /\ w.entry.id.to = w.target.fp
                        /\ w.entry.id.kind \in {"activation", "rollback"}
                        /\ w.entry.preds \subseteq Ids(store)
    /\ w.at \in {"push history", "read previous", "write previous"} => w.previous = ptr
    /\ w.at = "write previous" => w.copy = Replaced(recs, Demoted(w.previous))
    /\ w.at = "write target" => w.copy = Replaced(recs, Promoted(w.target))
    /\ w.at = "pointer" => InUse(recs, w.target.fp)
    /\ w.at \in {"pop history", "audit"} => ptr.fp = w.target.fp

PublicationsAudited(store, recs, gone) ==
    \A i \in DOMAIN recs : recs[i].audited /\ recs[i].fp \notin gone => PublicationId(recs[i].fp) \in Ids(store)

\* An entry explains how f became active.
Explained(store, f, gone) ==
    f \in Contents \ gone => \E i \in Ids(store) : store.entries[i].fp = f /\ i.kind # "publication"

WellRecorded(recs, ptr, past, gone) ==
    /\ RecordsOK(recs, gone)
    /\ ptr = NoRecord \/ InUse(recs, ptr.fp)
    /\ KnownRecord(ptr, recs)
    /\ \A i \in DOMAIN past : KnownRecord(past[i], recs)

Audited(store, recs, gone) ==
    StoreShape(store) /\ AuditOK(store, recs, gone) /\ PublicationsAudited(store, recs, gone)

Sound(t) ==
    /\ WellRecorded(records, active, formerly, retiredOnce)
    /\ Audited(audit, records, retiredOnce)
    /\ MoveOK(work[t], records, active, audit)
    /\ ActiveIs(records, Holder(work[t], active))
    /\ work[t].at \notin {"pop history", "audit"} => Explained(audit, active.fp, retiredOnce)

LocalCatalogInv == RecordsTyped /\ \A t \in Clients : Clients = {t} => Sound(t)

\* new has the records of old, possibly in other states, and possibly one of a
\* content that old does not have.
Continues(old, new) ==
    /\ DOMAIN old \subseteq DOMAIN new
    /\ \A i \in DOMAIN old : new[i].fp = old[i].fp /\ new[i].audited = old[i].audited
    /\ \A i \in DOMAIN new \ DOMAIN old : ~Has(old, new[i].fp)

\* Copies of records remain copies.
LEMMA KnownContinues ==
    ASSUME NEW old, NEW new, Continues(old, new)
    PROVE  /\ \A f : Has(old, f) => Has(new, f)
           /\ \A r : KnownRecord(r, old) => KnownRecord(r, new)
<1>1. \A f : Has(old, f) => Has(new, f)
  BY Zenon DEF Has, Continues
<1>2. ASSUME NEW r, KnownRecord(r, old), r.fp # NoContent, NEW i \in DOMAIN new, new[i].fp = r.fp
      PROVE  new[i].audited = r.audited
  <2>1. Has(old, new[i].fp)
    BY <1>2, Zenon DEF KnownRecord
  <2>2. i \in DOMAIN old
    BY <1>2, <2>1, Zenon DEF Continues
  <2> QED  BY <1>2, <2>2, Zenon DEF KnownRecord, Continues
<1> QED  BY <1>1, <1>2, Zenon DEF KnownRecord

\* The store stays in order when records change their states and more are retired.
LEMMA AuditContinues ==
    ASSUME NEW store, NEW old, NEW new, NEW gone, NEW more, Continues(old, new), gone \subseteq more,
           AuditOK(store, old, gone)
    PROVE  AuditOK(store, new, more)
<1>1. \A f : Has(old, f) => Has(new, f)
  BY KnownContinues, Zenon
<1>2. \A f : f \in Contents \ more => f \in Contents \ gone
  BY Zenon
<1> QED  BY <1>1, <1>2, Zenon DEF AuditOK

\* Replacing a record by a copy of it in another state.
LEMMA ReplacedContinues ==
    ASSUME NEW recs \in Seq(Record), NEW r \in Record, KnownRecord(r, recs), NEW gone, NEW more,
           gone \subseteq more, RecordsOK(recs, gone), r.state = "retired" => r.fp \in more
    PROVE  /\ Continues(recs, Replaced(recs, r)) /\ DOMAIN Replaced(recs, r) = DOMAIN recs
           /\ RecordsOK(Replaced(recs, r), more)
<1> DEFINE new == Replaced(recs, r)
<1>1. DOMAIN new = DOMAIN recs
      /\ \A i \in DOMAIN recs : new[i] = IF recs[i].fp = r.fp THEN r ELSE recs[i]
  BY ReplacedRecords, Zenon
<1> HIDE DEF new
<1>2. \A i \in DOMAIN recs : recs[i].fp \in Contents /\ recs[i].fp # NoContent
  BY LocalCatalogAssumption, Zenon DEF RecordsOK
<1>3. \A i \in DOMAIN recs : new[i].fp = recs[i].fp /\ new[i].audited = recs[i].audited
  BY <1>1, <1>2, Zenon DEF KnownRecord
<1>4. Continues(recs, new)
  BY <1>1, <1>3, Zenon DEF Continues
<1>5. \A i \in DOMAIN recs : new[i].state = "retired" => new[i].fp \in more
  BY <1>1 DEF RecordsOK, RetiredKnown
<1>6. RecordsOK(new, more)
  BY <1>1, <1>2, <1>3, <1>5, Zenon DEF RecordsOK, RetiredKnown
<1> QED  BY <1>1, <1>4, <1>6, Zenon DEF new

\* What holds of the records, the pointer and the store when one record is
\* replaced by a copy that is not retired, unless the pointer names another.
LEMMA RecordedReplaced ==
    ASSUME NEW recs \in Seq(Record), NEW r \in Record, KnownRecord(r, recs),
           NEW ptr, NEW past, NEW store, NEW gone, NEW more, gone \subseteq more,
           WellRecorded(recs, ptr, past, gone), Audited(store, recs, gone),
           r.state = "retired" => r.fp \in more /\ r.fp # ptr.fp
    PROVE  /\ WellRecorded(Replaced(recs, r), ptr, past, more)
           /\ Audited(store, Replaced(recs, r), more)
           /\ \A q : KnownRecord(q, recs) => KnownRecord(q, Replaced(recs, r))
<1> DEFINE new == Replaced(recs, r)
<1>1. /\ Continues(recs, new) /\ DOMAIN new = DOMAIN recs /\ RecordsOK(new, more)
  BY ReplacedContinues, Zenon DEF WellRecorded
<1>2. \A i \in DOMAIN recs : new[i] = IF recs[i].fp = r.fp THEN r ELSE recs[i]
  BY ReplacedRecords, Zenon
<1> HIDE DEF new
<1>3. \A q : KnownRecord(q, recs) => KnownRecord(q, new)
  BY <1>1, KnownContinues, Zenon
<1>4. InUse(recs, ptr.fp) => InUse(new, ptr.fp)
  BY <1>1, <1>2, Zenon DEF InUse
<1>5. WellRecorded(new, ptr, past, more)
  BY <1>1, <1>3, <1>4, Zenon DEF WellRecorded
<1>6. AuditOK(store, new, more)
  BY <1>1, AuditContinues, Zenon DEF Audited
<1>7. PublicationsAudited(store, new, more)
  <2>1. \A f : f \notin more => f \notin gone
    BY Zenon
  <2> QED  BY <1>1, <2>1, Zenon DEF PublicationsAudited, Audited, Continues
<1> QED  BY <1>3, <1>5, <1>6, <1>7, Zenon DEF Audited, new

\* Nothing has happened yet.
LEMMA SoundStart ==
    ASSUME LocalCatalogInit, NEW t \in Clients
    PROVE  Sound(t)
<1>1. /\ DOMAIN records = {} /\ DOMAIN formerly = {} /\ Ids(audit) = {}
      /\ audit = [entries |-> audit.entries, older |-> audit.older] /\ audit.older = {}
  BY DEF LocalCatalogInit, Ids
<1>2. active = NoRecord /\ work[t] = NoWork
  BY Zenon DEF LocalCatalogInit
<1>3. NoRecord.fp = NoContent /\ NoWork.target = NoRecord /\ NoWork.previous = NoRecord
      /\ NoWork.at = "none" /\ DOMAIN NoWork.rest = {}
  BY DEF NoRecord, NoWork
<1>4. WellRecorded(records, active, formerly, retiredOnce)
  BY <1>1, <1>2, <1>3, Zenon DEF WellRecorded, RecordsOK, RetiredKnown, KnownRecord
<1>5. Audited(audit, records, retiredOnce)
  BY <1>1, Zenon DEF Audited, StoreShape, AuditOK, PublicationsAudited
<1>6. MoveOK(work[t], records, active, audit)
  BY <1>2, <1>3, Zenon DEF MoveOK, KnownRecord
<1>7. ActiveIs(records, Holder(work[t], active)) /\ Explained(audit, active.fp, retiredOnce)
  BY <1>1, <1>2, <1>3, LocalCatalogAssumption, Zenon DEF ActiveIs, Explained
<1> QED  BY <1>4, <1>5, <1>6, <1>7, Zenon DEF Sound

\* Steps that touch nothing Sound is about.
LEMMA SoundUnchanged ==
    ASSUME NEW t \in Clients, Sound(t), UNCHANGED <<records, active, formerly, audit, work, retiredOnce>>
    PROVE  Sound(t)'
BY Zenon DEF Sound

\* The outside of a pointer operation.
LEMMA RestingHolder ==
    ASSUME NEW w, NEW ptr, w.at \notin {"read target", "write target", "pointer"}
    PROVE  Holder(w, ptr) = ptr.fp
BY Zenon DEF Holder

\* An empty history has no positions.
LEMMA EmptyDomain == DOMAIN <<>> = {}
  OBVIOUS

\* What follows the head of the history was in it.
LEMMA TailElements ==
    ASSUME NEW R, NEW s \in Seq(R), s # <<>>, NEW i \in DOMAIN Tail(s)
    PROVE  i + 1 \in DOMAIN s /\ Tail(s)[i] = s[i + 1]
<1>1. Len(s) >= 1
  OBVIOUS
<1> QED  BY <1>1

\* A pointer operation begins with copies of records and an entry that fits.
LEMMA BeginSound ==
    ASSUME RecordsTyped, NEW t \in Clients, Sound(t), Resting(t),
           NEW issue, NEW kind \in {"activation", "rollback"}, NEW r \in Record,
           KnownRecord(r, records), issue = "ok" => r.fp # NoContent,
           NEW operator, NEW pops \in BOOLEAN, NEW first,
           \/ first = "read target" /\ active = NoRecord
           \/ first \in {"push history", "read previous"},
           pops => formerly # <<>>,
           BeginMove(t, issue, kind, r, operator, pops, first)
    PROVE  Sound(t)'
<1> DEFINE rest == IF pops THEN Tail(formerly) ELSE <<>>
           entry == PointerEntry(kind, r, operator)
           w == [at |-> first, pops |-> pops, target |-> r, previous |-> active,
                 rest |-> rest, entry |-> entry, copy |-> <<>>]
<1>1. UNCHANGED <<records, active, formerly, audit, retiredOnce>>
  BY Zenon DEF BeginMove
<1>2. CASE issue # "ok"
  <2>1. work' = work
    BY <1>2, Zenon DEF BeginMove
  <2> QED  BY <1>1, <2>1, SoundUnchanged, Zenon
<1>3. CASE issue = "ok"
  <2>1. work'[t] = w
    BY <1>3, Zenon DEF BeginMove, RecordsTyped
  <2>2. \A i \in DOMAIN rest : KnownRecord(rest[i], records)
    <3>1. \A i \in DOMAIN formerly : KnownRecord(formerly[i], records)
      BY Zenon DEF Sound, WellRecorded
    <3>2. \A i \in DOMAIN rest : \E j \in DOMAIN formerly : rest[i] = formerly[j]
      <4>1. CASE pops
        <5>1. rest = Tail(formerly) /\ formerly \in Seq(Record) /\ formerly # <<>>
          BY <4>1, Zenon DEF RecordsTyped
        <5> HIDE DEF rest
        <5> QED  BY <5>1, TailElements, Zenon
      <4>2. CASE ~pops
        <5>1. rest = <<>>
          BY <4>2, Zenon
        <5> HIDE DEF rest
        <5> QED  BY <5>1, EmptyDomain, Zenon
      <4> QED  BY <4>1, <4>2, Zenon
    <3> QED  BY <3>1, <3>2, Zenon
  <2>3. /\ entry.fp = r.fp /\ entry.id.to = r.fp /\ entry.id.kind = kind
        /\ entry.preds \subseteq Ids(audit)
    BY Zenon DEF PointerEntry, PointerEvidence, Entry, EntryId, PublicationEntryOf
  <2> HIDE DEF rest, entry
  <2>4. /\ w.at = first /\ w.target = r /\ w.previous = active /\ w.rest = rest /\ w.entry = entry
    BY Zenon
  <2> HIDE DEF w
  <2>5. MoveOK(w, records, active, audit)
    BY <1>3, <2>2, <2>3, <2>4, Zenon DEF MoveOK, Sound, WellRecorded
  <2>6. work[t].at = "none"
    BY Zenon DEF Resting
  <2>7. ActiveIs(records, active.fp) /\ Explained(audit, active.fp, retiredOnce)
    BY <2>6, RestingHolder, Zenon DEF Sound
  <2>8. Holder(w, active) = active.fp
    <3>1. NoRecord.fp = NoContent
      BY Zenon DEF NoRecord
    <3> QED  BY <2>4, <3>1, Zenon DEF Holder
  <2>9. WellRecorded(records, active, formerly, retiredOnce) /\ Audited(audit, records, retiredOnce)
    BY Zenon DEF Sound
  <2>10. ActiveIs(records, Holder(w, active))
    BY <2>7, <2>8, Zenon
  <2> QED  BY <1>1, <2>1, <2>5, <2>7, <2>9, <2>10, Zenon DEF Sound
<1> QED  BY <1>2, <1>3, Zenon

\* Demoting and promoting change the state of a copy only.
LEMMA CopyFields ==
    ASSUME NEW r \in Record
    PROVE  /\ Demoted(r) \in Record /\ Demoted(r).fp = r.fp /\ Demoted(r).audited = r.audited
           /\ Demoted(r).state = "superseded"
           /\ Promoted(r) \in Record /\ Promoted(r).fp = r.fp /\ Promoted(r).audited = r.audited
           /\ Promoted(r).state = "active"
BY Zenon DEF Demoted, Promoted, Record, PublicationStates

\* Proceeding changes only the place of the client's work.
LEMMA ProceedFields ==
    ASSUME RecordsTyped, NEW t \in Clients, Proceed(t)
    PROVE  /\ work'[t].at = Following(work[t]) /\ work'[t].target = work[t].target
           /\ work'[t].previous = work[t].previous /\ work'[t].rest = work[t].rest
           /\ work'[t].entry = work[t].entry /\ work'[t].copy = work[t].copy
BY Zenon DEF Proceed, RecordsTyped, Work

\* What a step knows of its client's work.
LEMMA WorkFields ==
    ASSUME RecordsTyped, NEW t \in Clients
    PROVE  /\ work[t].target \in Record /\ work[t].previous \in Record
           /\ work[t].rest \in Seq(Record) /\ work[t].at \in Steps /\ records \in Seq(Record)
<1>1. work[t] \in Work /\ records \in Seq(Record)
  BY Zenon DEF RecordsTyped
<1> QED  BY <1>1, Zenon DEF Work

\* The copy of the active version that enters the history is one of a record.
LEMMA PushSound ==
    ASSUME RecordsTyped, NEW t \in Clients, Sound(t), PushHistory(t)
    PROVE  Sound(t)'
<1>1. /\ work[t].at = "push history" /\ formerly' = <<work[t].previous>> \o formerly /\ Proceed(t)
      /\ UNCHANGED <<records, active, audit, retiredOnce>>
  BY Zenon DEF PushHistory
<1>2. Following(work[t]) = "read previous"
  BY <1>1, Zenon DEF Following
<1>3. \A i \in DOMAIN formerly' : formerly'[i] = work[t].previous
                                 \/ \E j \in DOMAIN formerly : formerly'[i] = formerly[j]
  <2>1. ASSUME NEW r \in Record, NEW s \in Seq(Record), NEW i \in DOMAIN (<<r>> \o s)
        PROVE  (<<r>> \o s)[i] = r \/ \E j \in DOMAIN s : (<<r>> \o s)[i] = s[j]
    <3>1. CASE i = 1
      BY <3>1
    <3>2. CASE i # 1
      <4>1. i - 1 \in DOMAIN s /\ (<<r>> \o s)[i] = s[i - 1]
        BY <3>2
      <4> QED  BY <4>1, Zenon
    <3> QED  BY <3>1, <3>2, Zenon
  <2>2. work[t].previous \in Record /\ formerly \in Seq(Record)
    BY WorkFields, Zenon DEF RecordsTyped
  <2> QED  BY <1>1, <2>1, <2>2, Zenon
<1>4. WellRecorded(records, active, formerly', retiredOnce)
  BY <1>3, Zenon DEF Sound, WellRecorded, MoveOK
<1>5. MoveOK(work'[t], records, active, audit)
  BY <1>1, <1>2, ProceedFields, Zenon DEF MoveOK, Sound
<1>6. Holder(work'[t], active) = Holder(work[t], active) /\ work'[t].at \notin {"pop history", "audit"}
  BY <1>1, <1>2, ProceedFields, Zenon DEF Holder
<1>7. Explained(audit, active.fp, retiredOnce)
  BY <1>1, Zenon DEF Sound
<1> QED  BY <1>1, <1>4, <1>5, <1>6, <1>7, Zenon DEF Sound

\* Nobody else changes the records between reading and writing them.
LEMMA ReadSound ==
    ASSUME RecordsTyped, NEW t \in Clients, Sound(t), ReadRecords(t)
    PROVE  Sound(t)'
<1> DEFINE r == IF work[t].at = "read previous" THEN Demoted(work[t].previous)
                                                ELSE Promoted(work[t].target)
           c == Replaced(records, r)
<1>1. /\ work[t].at \in {"read previous", "read target"}
      /\ work' = [work EXCEPT ![t].at = Following(work[t]), ![t].copy = c]
      /\ UNCHANGED <<records, active, formerly, audit, retiredOnce>>
  BY Zenon DEF ReadRecords
<1> HIDE DEF c
<1>2. /\ work'[t].at = Following(work[t]) /\ work'[t].target = work[t].target
      /\ work'[t].previous = work[t].previous /\ work'[t].rest = work[t].rest
      /\ work'[t].entry = work[t].entry /\ work'[t].copy = c
  BY <1>1, Zenon DEF RecordsTyped, Work
<1>3. /\ work[t].at = "read previous" => /\ c = Replaced(records, Demoted(work[t].previous))
                                         /\ Following(work[t]) = "write previous"
      /\ work[t].at = "read target" => /\ c = Replaced(records, Promoted(work[t].target))
                                       /\ Following(work[t]) = "write target"
  BY Zenon DEF c, Following
<1>4. MoveOK(work'[t], records, active, audit)
  BY <1>1, <1>2, <1>3, Zenon DEF MoveOK, Sound
<1>5. Holder(work'[t], active) = Holder(work[t], active) /\ work'[t].at \notin {"pop history", "audit"}
  BY <1>1, <1>2, <1>3, Zenon DEF Holder
<1>6. Explained(audit, active.fp, retiredOnce)
  BY <1>1, Zenon DEF Sound
<1> QED  BY <1>1, <1>4, <1>5, <1>6, Zenon DEF Sound

\* After the target is written comes the pointer.
LEMMA WrittenTarget ==
    ASSUME NEW w, w.at = "write target"
    PROVE  Following(w) = "pointer"
BY Zenon DEF Following

\* The active version is demoted, then the target promoted.
LEMMA WriteSound ==
    ASSUME RecordsTyped, NEW t \in Clients, Sound(t), WriteRecords(t)
    PROVE  Sound(t)'
<1> DEFINE w == work[t]
<1>1. /\ w.at \in {"write previous", "write target"} /\ records' = w.copy /\ Proceed(t)
      /\ UNCHANGED <<active, formerly, audit, retiredOnce>>
  BY Zenon DEF WriteRecords
<1>2. /\ w.target \in Record /\ w.previous \in Record /\ records \in Seq(Record)
  BY WorkFields, Zenon
<1>3. /\ KnownRecord(w.target, records) /\ KnownRecord(w.previous, records)
      /\ \A i \in DOMAIN w.rest : KnownRecord(w.rest[i], records)
      /\ WellRecorded(records, active, formerly, retiredOnce) /\ Audited(audit, records, retiredOnce)
  BY Zenon DEF Sound, MoveOK
<1>4. \A i \in DOMAIN records : records[i].fp # NoContent
  BY <1>3, LocalCatalogAssumption, Zenon DEF WellRecorded, RecordsOK
<1>5. /\ work'[t].at = Following(w) /\ work'[t].target = w.target
      /\ work'[t].previous = w.previous /\ work'[t].rest = w.rest /\ work'[t].entry = w.entry
  BY <1>1, ProceedFields, Zenon
<1>6. /\ w.target.fp # NoContent /\ w.entry.fp = w.target.fp /\ w.entry.id.to = w.target.fp
      /\ w.entry.id.kind \in {"activation", "rollback"} /\ w.entry.preds \subseteq Ids(audit)
  BY <1>1, Zenon DEF Sound, MoveOK
<1>7. Explained(audit, active.fp, retiredOnce)
  BY <1>1, Zenon DEF Sound
<1>8. ASSUME NEW r \in Record, KnownRecord(r, records), r.state # "retired",
             records' = Replaced(records, r)
      PROVE  /\ WellRecorded(records', active, formerly, retiredOnce)
             /\ Audited(audit, records', retiredOnce)
             /\ \A q : KnownRecord(q, records) => KnownRecord(q, records')
             /\ DOMAIN records' = DOMAIN records
             /\ \A i \in DOMAIN records : records'[i] = IF records[i].fp = r.fp THEN r ELSE records[i]
  <2> DEFINE new == Replaced(records, r)
  <2>1. DOMAIN new = DOMAIN records
        /\ \A i \in DOMAIN records : new[i] = IF records[i].fp = r.fp THEN r ELSE records[i]
    BY <1>2, <1>8, ReplacedRecords, Zenon
  <2>2. /\ WellRecorded(new, active, formerly, retiredOnce) /\ Audited(audit, new, retiredOnce)
        /\ \A q : KnownRecord(q, records) => KnownRecord(q, new)
    <3>1. retiredOnce \subseteq retiredOnce
      BY Zenon
    <3> QED  BY <1>2, <1>3, <1>8, <3>1, RecordedReplaced, Zenon
  <2> HIDE DEF new
  <2>3. records' = new
    BY <1>8, Zenon DEF new
  <2> QED  BY <2>1, <2>2, <2>3, Zenon
<1>9. CASE w.at = "write previous"
  <2> DEFINE r == Demoted(w.previous)
  <2>1. r \in Record /\ r.fp = w.previous.fp /\ r.audited = w.previous.audited /\ r.state = "superseded"
    BY <1>2, CopyFields, Zenon
  <2>2. records' = Replaced(records, r) /\ w.previous = active /\ ActiveIs(records, active.fp)
    BY <1>1, <1>9, RestingHolder, Zenon DEF Sound, MoveOK
  <2> HIDE DEF r
  <2>3. KnownRecord(r, records)
    BY <1>3, <2>1, Zenon DEF KnownRecord
  <2>4. /\ WellRecorded(records', active, formerly, retiredOnce)
        /\ Audited(audit, records', retiredOnce)
        /\ \A q : KnownRecord(q, records) => KnownRecord(q, records')
        /\ DOMAIN records' = DOMAIN records
        /\ \A i \in DOMAIN records : records'[i] = IF records[i].fp = r.fp THEN r ELSE records[i]
    BY <1>8, <2>1, <2>2, <2>3, Zenon
  <2>5. ActiveIs(records', NoContent)
    BY <2>1, <2>2, <2>4 DEF ActiveIs
  <2>6. work'[t].at = "read target"
    BY <1>5, <1>9, Zenon DEF Following
  <2>7. MoveOK(work'[t], records', active, audit)
    BY <1>3, <1>5, <1>6, <2>4, <2>6, Zenon DEF MoveOK
  <2>8. Holder(work'[t], active) = NoContent /\ work'[t].at \notin {"pop history", "audit"}
    BY <2>6, Zenon DEF Holder
  <2> QED  BY <1>1, <1>7, <2>4, <2>5, <2>7, <2>8, Zenon DEF Sound
<1>10. CASE w.at = "write target"
  <2> DEFINE r == Promoted(w.target)
  <2>1. r \in Record /\ r.fp = w.target.fp /\ r.audited = w.target.audited /\ r.state = "active"
    BY <1>2, CopyFields, Zenon
  <2>2. records' = Replaced(records, r) /\ ActiveIs(records, NoContent)
    BY <1>1, <1>10, Zenon DEF Sound, MoveOK, Holder
  <2> HIDE DEF r
  <2>3. KnownRecord(r, records)
    BY <1>3, <2>1, Zenon DEF KnownRecord
  <2>4. /\ WellRecorded(records', active, formerly, retiredOnce)
        /\ Audited(audit, records', retiredOnce)
        /\ \A q : KnownRecord(q, records) => KnownRecord(q, records')
        /\ DOMAIN records' = DOMAIN records
        /\ \A i \in DOMAIN records : records'[i] = IF records[i].fp = r.fp THEN r ELSE records[i]
    BY <1>8, <2>1, <2>2, <2>3, Zenon
  <2>5. ActiveIs(records', w.target.fp)
    BY <1>4, <2>1, <2>2, <2>4, Zenon DEF ActiveIs
  <2>6. work'[t].at = "pointer"
    <3> HIDE DEF w
    <3>1. Following(w) = "pointer"
      BY <1>10, WrittenTarget, ZenonT(30)
    <3> QED  BY <1>5, <3>1, Zenon
  <2>7. InUse(records', w.target.fp)
    <3>1. PICK i \in DOMAIN records : records[i].fp = w.target.fp
      BY <1>3, <1>6, Zenon DEF KnownRecord, Has
    <3>2. i \in DOMAIN records' /\ records'[i] = r
      BY <2>1, <2>4, <3>1, Zenon
    <3>3. records'[i].fp = w.target.fp /\ records'[i].state # "retired"
      <4>1. "active" # "retired"
        OBVIOUS
      <4> QED  BY <2>1, <3>2, <4>1, Zenon
    <3> QED  BY <3>2, <3>3, Zenon DEF InUse
  <2>8. MoveOK(work'[t], records', active, audit)
    BY <1>3, <1>5, <1>6, <2>4, <2>6, <2>7, Zenon DEF MoveOK
  <2>9. Holder(work'[t], active) = w.target.fp /\ work'[t].at \notin {"pop history", "audit"}
    BY <1>5, <2>6, Zenon DEF Holder
  <2> QED  BY <1>1, <1>7, <2>4, <2>5, <2>8, <2>9, Zenon DEF Sound
<1> QED  BY <1>1, <1>9, <1>10, Zenon

\* The pointer is set to the version that was promoted.
LEMMA PointerSound ==
    ASSUME RecordsTyped, NEW t \in Clients, Sound(t), SetPointer(t) \/ PopHistory(t)
    PROVE  Sound(t)'
<1> DEFINE w == work[t]
<1>1. /\ KnownRecord(w.target, records) /\ KnownRecord(w.previous, records)
      /\ \A i \in DOMAIN w.rest : KnownRecord(w.rest[i], records)
      /\ WellRecorded(records, active, formerly, retiredOnce) /\ Audited(audit, records, retiredOnce)
  BY Zenon DEF Sound, MoveOK
<1>2. Proceed(t) /\ UNCHANGED <<records, audit, retiredOnce>>
  BY Zenon DEF SetPointer, PopHistory
<1>3. /\ work'[t].at = Following(w) /\ work'[t].target = w.target
      /\ work'[t].previous = w.previous /\ work'[t].rest = w.rest /\ work'[t].entry = w.entry
  BY <1>2, ProceedFields, Zenon
<1>4. w.at \in {"pointer", "pop history"}
  BY Zenon DEF SetPointer, PopHistory
<1>5. /\ w.target.fp # NoContent /\ w.entry.fp = w.target.fp /\ w.entry.id.to = w.target.fp
      /\ w.entry.id.kind \in {"activation", "rollback"} /\ w.entry.preds \subseteq Ids(audit)
  BY <1>4, Zenon DEF Sound, MoveOK
<1>6. work'[t].at \in {"pop history", "audit"}
  BY <1>3, <1>4, Zenon DEF Following
<1>7. active'.fp = w.target.fp /\ KnownRecord(active', records) /\ ActiveIs(records, w.target.fp)
      /\ (active' = NoRecord \/ InUse(records, active'.fp))
  <2>1. CASE SetPointer(t)
    <3>1. active' = Promoted(w.target) /\ w.at = "pointer"
      BY <2>1, Zenon DEF SetPointer
    <3>2. w.target \in Record
      BY WorkFields, Zenon
    <3>3. active'.fp = w.target.fp /\ active'.audited = w.target.audited
      BY <3>1, <3>2, CopyFields, Zenon
    <3>4. KnownRecord(active', records)
      BY <1>1, <3>3, Zenon DEF KnownRecord
    <3>5. InUse(records, w.target.fp)
      BY <3>1, Zenon DEF Sound, MoveOK
    <3>6. ActiveIs(records, w.target.fp)
      BY <3>1, Zenon DEF Sound, Holder
    <3> QED  BY <3>3, <3>4, <3>5, <3>6, Zenon
  <2>2. CASE PopHistory(t)
    <3>1. active' = active /\ w.at = "pop history"
      BY <2>2, Zenon DEF PopHistory
    <3>2. active.fp = w.target.fp
      BY <3>1, Zenon DEF Sound, MoveOK
    <3>3. ActiveIs(records, active.fp)
      BY <3>1, Zenon DEF Sound, Holder
    <3> QED  BY <1>1, <3>1, <3>2, <3>3, Zenon DEF WellRecorded
  <2> QED  BY <2>1, <2>2, Zenon
<1>8. \A i \in DOMAIN formerly' : KnownRecord(formerly'[i], records)
  BY <1>1, Zenon DEF SetPointer, PopHistory, WellRecorded
<1>9. WellRecorded(records, active', formerly', retiredOnce)
  BY <1>1, <1>7, <1>8, Zenon DEF WellRecorded
<1>10. MoveOK(work'[t], records, active', audit)
  BY <1>1, <1>3, <1>5, <1>6, <1>7, Zenon DEF MoveOK
<1>11. Holder(work'[t], active') = w.target.fp
  BY <1>6, <1>7, Zenon DEF Holder
<1> QED  BY <1>1, <1>2, <1>6, <1>7, <1>9, <1>10, <1>11, Zenon DEF Sound

\* Appending keeps the entries of the publications and the one of the active version.
LEMMA AppendedAudits ==
    ASSUME NEW store, NEW recs, NEW gone, NEW e, NEW f, RecordsOK(recs, gone),
           StoreShape(store), AuditOK(store, recs, gone), EntryFits(e, store, recs),
           \A i \in DOMAIN recs : recs[i].audited /\ recs[i].fp \notin gone =>
              PublicationId(recs[i].fp) \in Ids(store) \/ PublicationId(recs[i].fp) = e.id
    PROVE  LET new == Appended(store, e, recs)
           IN  /\ Audited(new, recs, gone)
               /\ Explained(store, f, gone) => Explained(new, f, gone)
               /\ ~Conflicts(store, e) /\ e.fp = f /\ e.id.kind # "publication" => Explained(new, f, gone)
<1> DEFINE new == Appended(store, e, recs)
<1>1. /\ StoreShape(new) /\ AuditOK(new, recs, gone)
      /\ \A i \in Ids(store) : store.entries[i].fp \in Contents \ gone =>
            i \in Ids(new) /\ new.entries[i] = store.entries[i]
      /\ e.fp \in Contents \ gone => e.id \in Ids(new)
      /\ e.id \notin Ids(store) /\ e.id \in Ids(new) => new.entries[e.id] = e
  BY AppendedSound, Zenon DEF RecordsOK
<1> HIDE DEF new
<1>2. ASSUME NEW i \in DOMAIN recs, recs[i].audited, recs[i].fp \notin gone
      PROVE  PublicationId(recs[i].fp) \in Ids(new)
  <2> DEFINE id == PublicationId(recs[i].fp)
  <2>1. (id \in Ids(store) \/ id = e.id) /\ recs[i].fp \in Contents
    BY <1>2, Zenon DEF RecordsOK
  <2>2. id.kind = "publication" /\ id.to = recs[i].fp
    BY Zenon DEF PublicationId, EntryId
  <2>3. id.kind # "host"
    BY <2>2, Zenon
  <2> HIDE DEF id
  <2>4. /\ id \in Ids(store) => store.entries[id].fp = recs[i].fp
        /\ id = e.id => e.fp = recs[i].fp
    BY <2>2, <2>3, Zenon DEF AuditOK, EntryFits
  <2>5. recs[i].fp \in Contents \ gone
    BY <1>2, <2>1, Zenon
  <2> QED  BY <1>1, <2>1, <2>4, <2>5, Zenon DEF id
<1>3. Audited(new, recs, gone)
  BY <1>1, <1>2, Zenon DEF Audited, PublicationsAudited
<1>4. Explained(store, f, gone) => Explained(new, f, gone)
  BY <1>1, Zenon DEF Explained
<1>5. ASSUME ~Conflicts(store, e), e.fp = f, e.id.kind # "publication", f \in Contents \ gone
      PROVE  \E i \in Ids(new) : new.entries[i].fp = f /\ i.kind # "publication"
  <2>1. e.id \in Ids(new)
    BY <1>1, <1>5, Zenon
  <2>2. CASE e.id \notin Ids(store)
    BY <1>1, <1>5, <2>1, <2>2, Zenon
  <2>3. CASE e.id \in Ids(store)
    <3>1. store.entries[e.id] = e
      BY <1>5, <2>3, Zenon DEF Conflicts
    <3> QED  BY <1>1, <1>5, <2>1, <2>3, <3>1, Zenon
  <2> QED  BY <2>2, <2>3, Zenon
<1> QED  BY <1>3, <1>4, <1>5, Zenon DEF Explained, new

\* A client at rest holds nothing.
LEMMA NoWorkOK ==
    ASSUME NEW recs, NEW ptr, NEW store
    PROVE  MoveOK(NoWork, recs, ptr, store) /\ NoWork.at = "none" /\ Holder(NoWork, ptr) = ptr.fp
<1>1. /\ NoRecord.fp = NoContent /\ NoWork.target = NoRecord /\ NoWork.previous = NoRecord
      /\ NoWork.at = "none" /\ DOMAIN NoWork.rest = {}
  BY DEF NoRecord, NoWork
<1>2. MoveOK(NoWork, recs, ptr, store)
  BY <1>1, Zenon DEF MoveOK, KnownRecord
<1> QED  BY <1>1, <1>2, RestingHolder, Zenon

\* A conflicting entry is about the same content and stays.
LEMMA AppendSound ==
    ASSUME RecordsTyped, NEW t \in Clients, Sound(t), AppendEntry(t)
    PROVE  Sound(t)'
<1> DEFINE w == work[t]
           e == w.entry
<1>1. w.at = "audit" /\ UNCHANGED <<records, active, formerly, retiredOnce>>
      /\ work' = [work EXCEPT ![t] = NoWork]
  BY Zenon DEF AppendEntry
<1>2. work'[t] = NoWork
  BY <1>1, Zenon DEF RecordsTyped
<1>3. WellRecorded(records, active, formerly, retiredOnce) /\ Audited(audit, records, retiredOnce)
      /\ KnownRecord(w.target, records)
  BY Zenon DEF Sound, MoveOK
<1>4. /\ w.target.fp # NoContent /\ e.fp = w.target.fp /\ e.id.to = w.target.fp
      /\ e.id.kind \in {"activation", "rollback"} /\ e.preds \subseteq Ids(audit)
      /\ active.fp = w.target.fp
  BY <1>1, Zenon DEF Sound, MoveOK
<1>5. ActiveIs(records, active.fp)
  BY <1>1, Zenon DEF Sound, Holder
<1>6. e.id.kind # "host" /\ e.id.kind # "publication"
  BY <1>4, Zenon
<1>7. Has(records, e.fp)
  BY <1>3, <1>4, Zenon DEF KnownRecord
<1>8. EntryFits(e, audit, records)
  BY <1>4, <1>7, Zenon DEF EntryFits
<1>9. Audited(audit', records, retiredOnce) /\ Explained(audit', active.fp, retiredOnce)
  <2>1. CASE Conflicts(audit, e)
    <3>1. audit' = audit
      BY <2>1, Zenon DEF AppendEntry
    <3>2. e.id \in Ids(audit)
      BY <2>1, Zenon DEF Conflicts
    <3>3. audit.entries[e.id].fp = active.fp
      BY <1>3, <1>4, <1>6, <3>2, Zenon DEF Audited, AuditOK
    <3> QED  BY <1>3, <1>6, <3>1, <3>2, <3>3, Zenon DEF Explained
  <2>2. CASE ~Conflicts(audit, e)
    <3>1. audit' = Appended(audit, e, records)
      BY <2>2, Zenon DEF AppendEntry
    <3>2. RecordsOK(records, retiredOnce) /\ e.fp = active.fp
      BY <1>3, <1>4, Zenon DEF WellRecorded
    <3> QED  BY <1>3, <1>6, <1>8, <2>2, <3>1, <3>2, AppendedAudits, Zenon DEF Audited, PublicationsAudited
  <2> QED  BY <2>1, <2>2, Zenon
<1> QED  BY <1>1, <1>2, <1>3, <1>5, <1>9, NoWorkOK, Zenon DEF Sound

\* An entry of the host fits in any store: it concerns no bundle and links to nothing.
LEMMA HostEntryFits ==
    ASSUME NEW h \in HostEntries, NEW store, NEW recs
    PROVE  EntryFits(h, store, recs)
<1>1. PICK e \in HostEvents, o \in AuditOperators : h = Entry(HostId(e), NoContent, o, {})
  BY SMT DEF HostEntries
<1>2. h.fp = NoContent /\ h.preds = {} /\ h.id.kind = "host"
  BY <1>1, Zenon DEF Entry, HostId, EntryId
<1>3. NoContent \notin Contents
  BY LocalCatalogAssumption, Zenon
<1> QED  BY <1>2, <1>3, Zenon DEF EntryFits

\* Entries of the host concern no content.
LEMMA RecordSound ==
    ASSUME RecordsTyped, NEW t \in Clients, Sound(t), NEW e \in HostEntries, NEW f \in HostEntries,
           RecordAuditEntries(t, e, f)
    PROVE  Sound(t)'
<1> DEFINE one == Appended(audit, e, records)
           two == Appended(one, f, records)
<1>1. UNCHANGED <<records, active, formerly, work, retiredOnce>> /\ work[t].at = "none"
  BY Zenon DEF RecordAuditEntries, Resting
<1>2. \A store, h : h \in HostEntries => EntryFits(h, store, records)
  BY HostEntryFits, Zenon
<1>3. RecordsOK(records, retiredOnce) /\ Audited(audit, records, retiredOnce)
      /\ Explained(audit, active.fp, retiredOnce)
  BY <1>1, Zenon DEF Sound, WellRecorded
<1>4. Audited(one, records, retiredOnce) /\ Explained(one, active.fp, retiredOnce)
  BY <1>2, <1>3, AppendedAudits, Zenon DEF Audited, PublicationsAudited
<1> HIDE DEF one
<1>5. Audited(two, records, retiredOnce) /\ Explained(two, active.fp, retiredOnce)
  BY <1>2, <1>3, <1>4, AppendedAudits, Zenon DEF Audited, PublicationsAudited
<1>6. audit' \in {audit, one, two}
  BY Zenon DEF RecordAuditEntries, one
<1>7. Audited(audit', records, retiredOnce) /\ Explained(audit', active.fp, retiredOnce)
  BY <1>3, <1>4, <1>5, <1>6, Zenon
<1>8. MoveOK(work[t], records, active, audit')
  BY <1>1, Zenon DEF Sound, MoveOK
<1> QED  BY <1>1, <1>7, <1>8, Zenon DEF Sound

\* An operator retires only what is not active.
LEMMA StateSound ==
    ASSUME RecordsTyped, NEW t \in Clients, Sound(t), NEW fp \in Contents,
           NEW s \in {"deprecated", "retired"}, SetVersionState(t, fp, s)
    PROVE  Sound(t)'
<1> DEFINE r == [RecordOf(records, fp) EXCEPT !.state = s]
<1>1. work[t].at = "none" /\ UNCHANGED <<active, formerly, audit, work>> /\ Has(records, fp)
  BY Zenon DEF SetVersionState, Resting
<1>2. CASE ~StateChangeAllowed(fp, s)
  <2>1. UNCHANGED <<records, retiredOnce>>
    BY <1>2, Zenon DEF SetVersionState
  <2> QED  BY <1>1, <2>1, SoundUnchanged, Zenon
<1>3. CASE StateChangeAllowed(fp, s)
  <2>1. /\ records' = Replaced(records, r)
        /\ retiredOnce' = IF s = "retired" THEN retiredOnce \cup {fp} ELSE retiredOnce
    BY <1>3, Zenon DEF SetVersionState
  <2>2. PICK k \in DOMAIN records : RecordOf(records, fp) = records[k] /\ records[k].fp = fp
    <3>1. records \in Seq(Record)
      BY Zenon DEF RecordsTyped
    <3> QED  BY <1>1, <3>1, FoundRecord, Zenon
  <2>3. records \in Seq(Record) /\ records[k] \in Record
    BY DEF RecordsTyped
  <2>4. r \in Record /\ r.fp = fp /\ r.audited = records[k].audited /\ r.state = s
    BY <2>2, <2>3, Zenon DEF Record, PublicationStates
  <2> HIDE DEF r
  <2>5. WellRecorded(records, active, formerly, retiredOnce) /\ Audited(audit, records, retiredOnce)
        /\ RecordsOK(records, retiredOnce) /\ ActiveIs(records, active.fp)
        /\ Explained(audit, active.fp, retiredOnce)
    BY <1>1, RestingHolder, Zenon DEF Sound, WellRecorded
  <2>6. KnownRecord(r, records)
    BY <1>1, <2>2, <2>4, <2>5, Zenon DEF KnownRecord, RecordsOK
  <2>7. retiredOnce \subseteq retiredOnce' /\ (r.state = "retired" => r.fp \in retiredOnce' /\ r.fp # active.fp)
    BY <1>3, <2>1, <2>4, Zenon DEF StateChangeAllowed
  <2>8. /\ WellRecorded(records', active, formerly, retiredOnce')
        /\ Audited(audit, records', retiredOnce')
        /\ \A q : KnownRecord(q, records) => KnownRecord(q, records')
    BY <2>1, <2>3, <2>4, <2>5, <2>6, <2>7, RecordedReplaced, Zenon
  <2>9. DOMAIN records' = DOMAIN records
        /\ \A i \in DOMAIN records : records'[i] = IF records[i].fp = r.fp THEN r ELSE records[i]
    <3>1. DOMAIN Replaced(records, r) = DOMAIN records
          /\ \A i \in DOMAIN records :
                Replaced(records, r)[i] = IF records[i].fp = r.fp THEN r ELSE records[i]
      BY <2>3, <2>4, ReplacedRecords, Zenon
    <3> QED  BY <2>1, <3>1, Zenon
  <2>10. ActiveIs(records', active.fp)
    BY <2>4, <2>5, <2>9, Zenon DEF ActiveIs
  <2>11. Explained(audit, active.fp, retiredOnce')
    BY <2>5, <2>7, Zenon DEF Explained
  <2>12. MoveOK(work[t], records', active, audit)
    BY <1>1, <2>8, Zenon DEF Sound, MoveOK
  <2>13. Holder(work[t], active) = active.fp
    BY <1>1, RestingHolder, Zenon
  <2> QED  BY <1>1, <2>8, <2>10, <2>11, <2>12, <2>13, Zenon DEF Sound
<1> QED  BY <1>2, <1>3, Zenon

\* Where the members of a longer sequence come from.
LEMMA AppendLaws ==
    ASSUME NEW S, NEW q \in Seq(S), NEW x
    PROVE  /\ DOMAIN Append(q, x) = 1..(Len(q) + 1) /\ Append(q, x)[Len(q) + 1] = x
           /\ \A i \in 1..Len(q) : Append(q, x)[i] = q[i]
OBVIOUS

\* What is published is new.
LEMMA PublishedIsNew ==
    ASSUME NEW fp, NEW in, NEW prod, PublishResult(fp, in, prod) = "published"
    PROVE  ~Has(records, fp)
BY Zenon DEF PublishResult

\* A publication adds a record and its entry; the predecessor is not retired by it.
LEMMA PublishSound ==
    ASSUME RecordsTyped, NEW t \in Clients, Sound(t), NEW fp \in Contents, NEW in \in PublishInputs,
           NEW prod, PublishBundle(t, fp, in, prod)
    PROVE  Sound(t)'
<1> DEFINE n == Len(records)
           pred == IF n = 0 THEN NoContent ELSE records[n].fp
           older == [i \in DOMAIN records |-> IF i = n THEN WithSuccessor(records[i], fp) ELSE records[i]]
           record == [fp |-> fp, evidence |-> in.evidence, audited |-> in.audited,
                      state |-> "available", pred |-> pred, succ |-> NoContent]
           e == PublicationEntry(fp, pred)
<1>1. work[t].at = "none" /\ UNCHANGED <<active, formerly, work, retiredOnce>>
  BY Zenon DEF PublishBundle, Resting
<1>2. CASE PublishResult(fp, in, prod) # "published"
  <2>1. UNCHANGED <<records, audit>>
    BY <1>2, Zenon DEF PublishBundle
  <2> QED  BY <1>1, <2>1, SoundUnchanged, Zenon
<1>3. CASE PublishResult(fp, in, prod) = "published"
  <2>1. /\ records' = Append(older, record)
        /\ audit' = IF in.audited THEN Appended(audit, e, records') ELSE audit
    BY <1>3, Zenon DEF PublishBundle
  <2>2. ~Has(records, fp)
    BY <1>3, PublishedIsNew, Zenon
  <2>3. DOMAIN records = 1..n /\ n \in Nat /\ \A i \in 1..n : records[i] \in Record
    BY DEF RecordsTyped
  <2>4. \A r \in Record : /\ WithSuccessor(r, fp).fp = r.fp /\ WithSuccessor(r, fp).audited = r.audited
                          /\ WithSuccessor(r, fp).state = IF r.state = "active" THEN "active" ELSE "superseded"
    BY Zenon DEF WithSuccessor, Record
  <2>5. /\ DOMAIN older = 1..n /\ older \in Seq({older[i] : i \in 1..n})
        /\ \A i \in 1..n : /\ older[i].fp = records[i].fp /\ older[i].audited = records[i].audited
                            /\ older[i].state \in {records[i].state, "superseded"}
    <3>1. DOMAIN older = 1..n /\ older = [i \in 1..n |-> older[i]]
      BY <2>3, Zenon
    <3>2. \A i \in 1..n : older[i] = IF i = n THEN WithSuccessor(records[i], fp) ELSE records[i]
      BY <2>3, Zenon
    <3> HIDE DEF older
    <3>3. older \in Seq({older[i] : i \in 1..n})
      BY <2>3, <3>1
    <3> QED  BY <2>3, <2>4, <3>1, <3>2, <3>3
  <2> HIDE DEF older
  <2>6. record.fp = fp /\ record.audited = in.audited /\ record.state = "available"
    BY Zenon
  <2> HIDE DEF record
  <2>7. /\ DOMAIN records' = 1..(n + 1) /\ records'[n + 1] = record
        /\ \A i \in 1..n : records'[i] = older[i]
    <3>1. Len(older) = n
      BY <2>3, <2>5
    <3> QED  BY <2>1, <2>5, <3>1, AppendLaws
  <2>8. \A i \in 1..n : ~(records[i].fp = fp)
    BY <2>2, <2>3, Zenon DEF Has
  <2>9. Continues(records, records')
    BY <2>2, <2>3, <2>5, <2>6, <2>7 DEF Continues
  <2>10. /\ WellRecorded(records, active, formerly, retiredOnce) /\ Audited(audit, records, retiredOnce)
         /\ RecordsOK(records, retiredOnce) /\ ActiveIs(records, active.fp)
         /\ Explained(audit, active.fp, retiredOnce)
    BY <1>1, RestingHolder, Zenon DEF Sound, WellRecorded
  <2>11. \A q : KnownRecord(q, records) => KnownRecord(q, records')
    BY <2>9, KnownContinues, Zenon
  <2>12. RecordsOK(records', retiredOnce)
    <3>1. \A i \in DOMAIN records' : i \in 1..n \/ (i = n + 1 /\ records'[i] = record)
      BY <2>3, <2>7
    <3>2. \A i \in 1..n : /\ records'[i].fp = records[i].fp /\ records'[i].fp # fp
                          /\ records'[i].state = "retired" => records[i].state = "retired"
      BY <2>5, <2>7, <2>8, Zenon
    <3>3. record.state # "retired"
      BY <2>6, Zenon
    <3> QED  BY <2>3, <2>6, <2>10, <3>1, <3>2, <3>3, Zenon DEF RecordsOK, RetiredKnown
  <2>13. ActiveIs(records', active.fp)
    BY <2>3, <2>5, <2>6, <2>7, <2>10 DEF ActiveIs
  <2>14. InUse(records, active.fp) => InUse(records', active.fp)
    BY <2>3, <2>5, <2>7 DEF InUse
  <2>15. WellRecorded(records', active, formerly, retiredOnce)
    BY <2>10, <2>11, <2>12, <2>14, Zenon DEF WellRecorded
  <2>16. AuditOK(audit, records', retiredOnce) /\ StoreShape(audit)
    BY <2>9, <2>10, AuditContinues, Zenon DEF Audited
  <2>17. Audited(audit', records', retiredOnce) /\ Explained(audit', active.fp, retiredOnce)
    <3>1. /\ e.fp = fp /\ e.id = PublicationId(fp) /\ e.id.to = fp /\ e.preds \subseteq Ids(audit)
      BY Zenon DEF PublicationEntry, PublicationEntryOf, Entry, PublicationId, EntryId
    <3> HIDE DEF e
    <3>2. Has(records', fp)
      BY <2>3, <2>6, <2>7 DEF Has
    <3>3. EntryFits(e, audit, records')
      BY <3>1, <3>2, Zenon DEF EntryFits
    <3>4. \A i \in 1..n : records'[i].audited /\ records'[i].fp \notin retiredOnce =>
             PublicationId(records'[i].fp) \in Ids(audit)
      BY <2>3, <2>5, <2>7, <2>10, Zenon DEF Audited, PublicationsAudited
    <3>5. \A i \in DOMAIN records' : i \in 1..n \/ (i = n + 1 /\ records'[i].fp = fp /\ records'[i].audited = in.audited)
      BY <2>3, <2>6, <2>7
    <3>6. CASE in.audited
      <4>1. audit' = Appended(audit, e, records')
        BY <2>1, <3>6, Zenon
      <4>2. \A i \in DOMAIN records' : records'[i].audited /\ records'[i].fp \notin retiredOnce =>
              PublicationId(records'[i].fp) \in Ids(audit) \/ PublicationId(records'[i].fp) = e.id
        BY <3>1, <3>4, <3>5, Zenon
      <4> QED  BY <2>10, <2>12, <2>16, <3>3, <4>1, <4>2, AppendedAudits, Zenon
    <3>7. CASE ~in.audited
      <4>1. audit' = audit
        BY <2>1, <3>7, Zenon
      <4>2. PublicationsAudited(audit, records', retiredOnce)
        BY <3>4, <3>5, <3>7, Zenon DEF PublicationsAudited
      <4> QED  BY <2>10, <2>16, <4>1, <4>2, Zenon DEF Audited
    <3> QED  BY <3>6, <3>7, Zenon
  <2>18. MoveOK(work[t], records', active, audit')
    BY <1>1, <2>11, Zenon DEF Sound, MoveOK
  <2>19. Holder(work[t], active) = active.fp
    BY <1>1, RestingHolder, Zenon
  <2> QED  BY <1>1, <2>13, <2>15, <2>17, <2>18, <2>19, Zenon DEF Sound
<1> QED  BY <1>2, <1>3, Zenon

\* A single client's operations begin.
LEMMA MoveSound ==
    ASSUME RecordsTyped, NEW t \in Clients, Sound(t), NEW prod, NEW o,
           \/ \E fp \in Contents : Activate(t, fp, prod, o) \/ RollbackTo(t, fp, prod, o)
           \/ RollbackActive(t, prod, o)
    PROVE  Sound(t)'
<1>1. RecordsOK(records, retiredOnce) /\ records \in Seq(Record)
      /\ \A i \in DOMAIN formerly : KnownRecord(formerly[i], records)
  BY Zenon DEF Sound, WellRecorded, RecordsTyped
<1>2. ASSUME NEW fp \in Contents, Has(records, fp)
      PROVE  /\ RecordOf(records, fp) \in Record /\ RecordOf(records, fp).fp # NoContent
             /\ KnownRecord(RecordOf(records, fp), records)
  <2>1. PICK k \in DOMAIN records : RecordOf(records, fp) = records[k] /\ records[k].fp = fp
    BY <1>1, <1>2, FoundRecord, Zenon
  <2>2. RecordOf(records, fp) \in Record
    BY <1>1, FoundRecord, Zenon
  <2> QED  BY <1>1, <1>2, <2>1, <2>2, LocalCatalogAssumption, Zenon DEF KnownRecord, RecordsOK
<1>3. (ActivationStep = "read target" /\ active = NoRecord) \/ ActivationStep \in {"push history", "read previous"}
  BY Zenon DEF ActivationStep
<1>4. ASSUME NEW fp \in Contents, Activate(t, fp, prod, o)
      PROVE  Sound(t)'
  BY <1>2, <1>3, <1>4, BeginSound, Zenon DEF Activate
<1>5. ASSUME NEW fp \in Contents, RollbackTo(t, fp, prod, o)
      PROVE  Sound(t)'
  <2>1. CASE fp = active.fp
    BY <1>5, <2>1, SoundUnchanged, Zenon DEF RollbackTo
  <2>2. CASE fp # active.fp
    BY <1>2, <1>3, <1>5, <2>2, BeginSound, Zenon DEF RollbackTo
  <2> QED  BY <2>1, <2>2, Zenon
<1>6. CASE RollbackActive(t, prod, o)
  <2> DEFINE r == Head(formerly)
             issue == RollbackIssue(r, prod)
  <2>1. /\ Resting(t) /\ formerly # <<>>
        /\ BeginMove(t, issue, "rollback", r, o, TRUE, "read previous")
    BY <1>6, Zenon DEF RollbackActive
  <2>2. formerly \in Seq(Record) /\ r = formerly[1] /\ 1 \in DOMAIN formerly /\ r \in Record
    <3>1. \A q \in Seq(Record) : q # <<>> => Head(q) = q[1] /\ 1 \in DOMAIN q /\ q[1] \in Record
      OBVIOUS
    <3> QED  BY <2>1, <3>1, Zenon DEF RecordsTyped
  <2> HIDE DEF r
  <2>3. KnownRecord(r, records)
    BY <1>1, <2>2, Zenon
  <2>4. issue = "ok" => Has(records, r.fp)
    BY Zenon DEF RollbackIssue
  <2>5. issue = "ok" => r.fp # NoContent
    BY <1>1, <2>4, LocalCatalogAssumption, Zenon DEF Has, RecordsOK
  <2> HIDE DEF issue
  <2> QED  BY <2>1, <2>2, <2>3, <2>5, BeginSound, Zenon
<1> QED  BY <1>4, <1>5, <1>6, Zenon

\* Every step of the catalog keeps its only client's view sound.
LEMMA LocalCatalogStep ==
    ASSUME LocalCatalogInv, [LocalCatalogNext]_localVars
    PROVE  LocalCatalogInv'
<1>1. RecordsTyped /\ RecordsTyped'
  BY TypedStep, Zenon DEF LocalCatalogInv
<1>2. ASSUME NEW t \in Clients, Clients = {t}
      PROVE  Sound(t)'
  <2>1. Sound(t) /\ \A u \in Clients : u = t
    BY <1>2, Zenon DEF LocalCatalogInv
  <2>2. ASSUME NEW d, PublishDependency(d) PROVE Sound(t)'
    BY <2>1, <2>2, SoundUnchanged, Zenon DEF PublishDependency
  <2>3. ASSUME PointerStep(t) PROVE Sound(t)'
    BY <1>1, <2>1, <2>3, PushSound, ReadSound, WriteSound, PointerSound, AppendSound, Zenon DEF PointerStep
  <2>4. CASE UNCHANGED localVars
    <3>1. UNCHANGED <<records, active, formerly, audit, work, retiredOnce>>
      BY <2>4, Zenon DEF localVars
    <3> QED  BY <2>1, <3>1, SoundUnchanged, Zenon
  <2>5. ASSUME NEW u \in Clients, NEW fp \in Contents, NEW in \in PublishInputs, NEW prod,
               PublishBundle(u, fp, in, prod)
        PROVE  Sound(t)'
    BY <1>1, <2>1, <2>5, PublishSound, Zenon
  <2>6. ASSUME NEW u \in Clients, NEW prod, NEW o,
               \/ \E fp \in Contents : Activate(u, fp, prod, o) \/ RollbackTo(u, fp, prod, o)
               \/ RollbackActive(u, prod, o)
        PROVE  Sound(t)'
    BY <1>1, <2>1, <2>6, MoveSound, Zenon
  <2>7. ASSUME NEW u \in Clients, NEW fp \in Contents, NEW s \in {"deprecated", "retired"},
               SetVersionState(u, fp, s)
        PROVE  Sound(t)'
    BY <1>1, <2>1, <2>7, StateSound, Zenon
  <2>8. ASSUME NEW u \in Clients, NEW e \in HostEntries, NEW f \in HostEntries,
               RecordAuditEntries(u, e, f)
        PROVE  Sound(t)'
    BY <1>1, <2>1, <2>8, RecordSound, Zenon
  <2> QED  BY <2>1, <2>2, <2>3, <2>4, <2>5, <2>6, <2>7, <2>8, Zenon DEF LocalCatalogNext
<1> QED  BY <1>1, <1>2, Zenon DEF LocalCatalogInv

\* What the invariant says between two operations.
LEMMA LocalCatalogSays == LocalCatalogInv => PointerMatchesRecords /\ LiveAuditIsComplete
<1> SUFFICES ASSUME LocalCatalogInv, BetweenCalls
             PROVE  /\ \A i \in DOMAIN records : records[i].state = "active" => records[i].fp = active.fp
                    /\ active # NoRecord => \E i \in DOMAIN records :
                                               records[i].fp = active.fp /\ records[i].state # "retired"
                    /\ \A i \in DOMAIN records :
                          records[i].audited /\ records[i].fp \notin retiredOnce
                              => PublicationId(records[i].fp) \in Ids(audit)
                    /\ \A i \in DOMAIN audit.entries :
                          audit.entries[i].fp \in Contents \ retiredOnce
                              => audit.entries[i].preds \subseteq Ids(audit)
                    /\ active # NoRecord /\ active.fp \notin retiredOnce
                          => \E i \in DOMAIN audit.entries : /\ audit.entries[i].fp = active.fp
                                                             /\ audit.entries[i].id.kind # "publication"
  BY Zenon DEF PointerMatchesRecords, LiveAuditIsComplete
<1>1. PICK t \in Clients : Clients = {t} /\ work[t].at = "none"
  BY LocalCatalogAssumption, Zenon DEF BetweenCalls, Resting
<1>2. Sound(t)
  BY <1>1, Zenon DEF LocalCatalogInv
<1>3. ActiveIs(records, active.fp) /\ Explained(audit, active.fp, retiredOnce)
  BY <1>1, <1>2, RestingHolder, Zenon DEF Sound
<1>4. WellRecorded(records, active, formerly, retiredOnce) /\ Audited(audit, records, retiredOnce)
  BY <1>2, Zenon DEF Sound
<1>5. active # NoRecord => active.fp \in Contents
  BY <1>4, Zenon DEF WellRecorded, InUse, RecordsOK
<1>6. active # NoRecord /\ active.fp \notin retiredOnce =>
         \E i \in DOMAIN audit.entries : audit.entries[i].fp = active.fp /\ audit.entries[i].id.kind # "publication"
  BY <1>3, <1>4, <1>5, Zenon DEF Explained, Audited, StoreShape, Ids
<1> QED  BY <1>3, <1>4, <1>6, Zenon DEF ActiveIs, WellRecorded, InUse, Audited, PublicationsAudited, AuditOK, Ids

\* The invariant of the process-local catalog, for any number of contents, inputs,
\* entries and pointer moves.
THEOREM LocalCatalogInvariant == LocalCatalogSpec => []LocalCatalogInv
<1>1. LocalCatalogInit => LocalCatalogInv
  BY TypedStart, SoundStart, Zenon DEF LocalCatalogInv
<1>2. LocalCatalogInv /\ [LocalCatalogNext]_localVars => LocalCatalogInv'
  BY LocalCatalogStep, Zenon
<1> QED  BY <1>1, <1>2, PTL DEF LocalCatalogSpec

\* Between operations of a single client the pointer of the process-local catalog
\* and the states of its records agree, and the pointer names no retired record.
THEOREM LocalPointerMatchesRecords == LocalCatalogSpec => []PointerMatchesRecords
<1>1. LocalCatalogInv => PointerMatchesRecords
  BY LocalCatalogSays, Zenon
<1> QED  BY <1>1, LocalCatalogInvariant, PTL

\* Between operations of a single client retention has kept the audit entries of every
\* version that was never retired, whatever the limit and the host's own entries.
THEOREM LocalAuditIsComplete == LocalCatalogSpec => []LiveAuditIsComplete
<1>1. LocalCatalogInv => LiveAuditIsComplete
  BY LocalCatalogSays, Zenon
<1> QED  BY <1>1, LocalCatalogInvariant, PTL

=============================================================================
