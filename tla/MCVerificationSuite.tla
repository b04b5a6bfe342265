------------------------- MODULE MCVerificationSuite -------------------------
(* Plans and policies for VerificationSuite. *)
EXTENDS VerificationSuite

CONSTANTS k1, k2

Case1(key, checks, deadline) ==
  [key |-> key, enabled |-> TRUE, preflight |-> "none", checks |-> checks,
   deadline |-> deadline]

Disabled(c) == [c EXCEPT !.enabled = FALSE]

Invalid(c) == [c EXCEPT !.preflight = "invalid_semantic_ir"]

Plan(profile, smoke, semantic) ==
  [profile |-> profile, smoke |-> smoke, semantic |-> semantic]

\* Smoke and semantic cases that share a query, with deadlines shorter and
\* longer than the layer's, expect success, data or an error; some are
\* disabled, invalid or missing.
MCPlans ==
  {NoPlan, Plan("host", <<>>, <<>>)}
  \cup {Plan("host", <<Case1(k1, {"success"}, d)>>, <<Case1(k1, c, 3)>>) :
          d \in {1, 3}, c \in {{"data"}, {"error"}}}
  \cup {Plan("host", <<Case1(k1, {"no success"}, 3)>>, <<Case1(k2, {"data"}, 3)>>)}
  \cup {Plan("production-v1", <<Case1(k1, {"success"}, 1)>>, <<Case1(k2, c, 3)>>) :
          c \in {{"data"}, {"timed_out"}}}
  \cup {Plan("host", <<Case1(k1, {"success"}, 1), Disabled(Case1(k2, {"data"}, 1))>>,
             <<Case1(k2, {"data"}, 1)>>),
        Plan("host", <<Disabled(Case1(k1, {"success"}, 1))>>,
             <<Case1(k2, {"data"}, 3), Invalid(Case1(k1, {"data"}, 1))>>),
        Plan("production-v1", <<Case1(k1, {"success"}, 2), Case1(k2, {"success"}, 1)>>,
             <<Case1(k1, {"data"}, 1)>>)}

\* Host policies: smoke optional, nothing but structure, failures tolerated.
MCPolicies ==
  {COMPATIBILITY_POLICY, PRODUCTION_POLICY,
   [PRODUCTION_POLICY EXCEPT !.id = "host"],
   [PRODUCTION_POLICY EXCEPT !.id = "host", !.required = {STRUCTURAL, SEMANTIC},
                             !.min_smoke = 0],
   [PRODUCTION_POLICY EXCEPT !.id = "host", !.all_enabled = FALSE],
   [COMPATIBILITY_POLICY EXCEPT !.id = "host"]}
==============================================================================
