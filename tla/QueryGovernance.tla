--------------------------- MODULE QueryGovernance ---------------------------
(***************************************************************************)
(* Policy decisions (governance/decisions.py), execution authorizations    *)
(* (governance/authorization.py) and the last check before an adapter is   *)
(* called (compilation/contract.py).  A fingerprint is the thing it is     *)
(* computed from; an optional one is a set of at most one element.         *)
(* Refusals answer a set of reasons, empty when nothing is wrong.          *)
(***************************************************************************)
EXTENDS Integers, FiniteSets

Absent == {}

SupportedOperations == {"select"}

Reason(cond, text) == IF cond THEN {text} ELSE {}

(* PolicyEvaluator.evaluate: everything the facts name is in the scope, and   *)
(* nothing may be left unnamed.                                               *)
ScopeReasons(facts, scope) ==
    Reason(facts.source \notin scope.sources, "source")
    \cup Reason(facts.resources = {} \/ ~(facts.resources \subseteq scope.resources), "resource")
    \cup Reason(facts.fields = {} \/ ~(facts.fields \subseteq scope.fields), "field")
    \cup Reason(facts.op \notin scope.operations, "operation")
    \cup Reason(scope.tenant # Absent /\ (facts.tenant # scope.tenant \/ scope.isolation = Absent), "tenant")
    \cup Reason(scope.isolation # Absent /\ facts.isolation # scope.isolation, "isolation")

Evaluate(facts, scope) ==
    CASE facts.op \notin SupportedOperations -> "unsupported"
      [] ScopeReasons(facts, scope) # {} -> "deny"
      [] OTHER -> "allow"

(* AuthorizationIssuer.issue, and ExecutionAuthorization's own validation. *)
IssueAuthorization(scope, bound, limits, now, ttl) ==
    [policy |-> {scope.policy}, adapter |-> bound.adapter, source |-> bound.source, op |-> "select",
     artifact |-> bound.artifact, ir |-> bound.ir, view |-> bound.view, bundle |-> bound.bundle,
     caps |-> bound.caps, tenant |-> bound.tenant, isolation |-> bound.isolation,
     filters |-> bound.filters, limits |-> limits, issued |-> now, expires |-> now + ttl]

ValidAuthorization(auth) ==
    /\ auth.expires > auth.issued
    /\ (auth.tenant = Absent) = (auth.isolation = Absent)

IsExpired(auth, now) == auth.expires <= now

(* AuthorizationVerifier.verify. *)
VerifyReasons(auth, bound, present, now) ==
    Reason(IsExpired(auth, now), "expired")
    \cup Reason(auth.artifact # bound.artifact, "artifact")
    \cup Reason(auth.adapter # bound.adapter, "adapter")
    \cup Reason(auth.source # bound.source, "source")
    \cup Reason(auth.op # "select", "operation")
    \cup Reason(auth.ir # Absent /\ auth.ir # bound.ir, "ir")
    \cup Reason(auth.view # Absent /\ auth.view # bound.view, "view")
    \cup Reason(auth.bundle # Absent /\ auth.bundle # bound.bundle, "bundle")
    \cup Reason(~(auth.caps \subseteq bound.caps), "capability")
    \cup Reason(auth.tenant # bound.tenant, "tenant")
    \cup Reason(auth.isolation # bound.isolation, "isolation")
    \cup Reason(~(auth.filters \subseteq present), "filter")

(* missing_obligations. *)
MissingObligations(obligations, present) == obligations \ present

(* An identity that only one side declares cannot be compared, and fails. *)
IdentityDrift(declared, evidenced) == declared # evidenced

(* The evidence still describes the context it was compiled in. *)
StaleReasons(ctx, ev) ==
    Reason(ev.ir # ctx.ir, "ir")
    \cup Reason(ev.view # ctx.view, "view")
    \cup Reason(ev.bundle # ctx.bundle, "bundle")
    \cup Reason(ev.policy # ctx.policy, "policy")
    \cup Reason(ev.tenant # ctx.tenant, "tenant")
    \cup Reason(ev.purpose # ctx.purpose, "purpose")
    \cup Reason(IdentityDrift(ctx.planner, ev.planner), "planner")
    \cup Reason(IdentityDrift(ctx.expansion, ev.expansion), "expansion")
    \cup Reason(ev.adapter # ctx.adapter, "adapter")
    \cup Reason(ev.caps # ctx.caps, "capabilities")
    \cup Reason(ev.limits # ctx.limits, "limits")

(* The guard has accepted this artifact, with its obligations and bounds. *)
GuardReasons(ctx, ev, guard) ==
    Reason(~guard.accepted, "guard_rejected")
    \cup Reason(guard.artifact # ev.artifact, "guard_artifact")
    \cup Reason(~(ctx.required \subseteq ctx.caps), "missing_capability")
    \cup Reason(MissingObligations(ctx.mandatory, guard.verified) # {}, "obligation")
    \cup Reason(guard.rows > ctx.limits.rows, "rows")

(* The authorization is for that artifact in this context. *)
AuthorityReasons(ctx, ev, guard, auth, now) ==
    Reason(IsExpired(auth, now), "auth_expired")
    \cup Reason(auth.artifact # guard.fingerprint, "auth_artifact")
    \cup Reason(auth.ir # Absent /\ auth.ir # ev.ir, "auth_ir")
    \cup Reason(auth.adapter # ev.adapter, "auth_adapter")
    \cup Reason(ctx.policy # Absent /\ auth.policy # ctx.policy, "auth_policy")
    \cup Reason(ctx.view # Absent /\ auth.view # ctx.view, "auth_view")
    \cup Reason(ctx.bundle # Absent /\ auth.bundle # ctx.bundle, "auth_bundle")
    \cup Reason(ctx.tenant # Absent /\ auth.tenant # ctx.tenant, "auth_tenant")
    \cup Reason(auth.caps # {} /\ auth.caps # ctx.caps, "auth_capabilities")
    \cup Reason(auth.limits # ctx.limits, "auth_limits")

(* verify_pre_execution_guard. *)
PreExecutionReasons(ctx, ev, guard, auth, now) ==
    StaleReasons(ctx, ev) \cup GuardReasons(ctx, ev, guard) \cup AuthorityReasons(ctx, ev, guard, auth, now)
==============================================================================
