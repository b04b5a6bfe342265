---------------------------- MODULE AssemblyDraft ----------------------------
(***************************************************************************)
(* An assembly draft as a value, and the functions that derive a new one:    *)
(* assembly/models.py, lifecycle.py, separation.py, manifest.py.  A draft is *)
(* immutable; every change is a record with the next revision or a refusal,  *)
(* which is written NoDraft.                                                 *)
(***************************************************************************)
EXTENDS Naturals, FiniteSets

CONSTANTS
    People,        \* operator references
    RolesOf,       \* [People -> SUBSET lifecycle roles] granted by the host
    AssertionIds,  \* identities of the draft's assertions
    Payloads,      \* semantic contents an assertion can have
    Plans,         \* verification plans
    Mode           \* SeparationOfDutiesMode

Nobody == "nobody"

NoPlan == "no plan"

Roles == {"author", "reviewer", "approver", "publisher"}

ASSUME RolesAssumption ==
    /\ RolesOf \in [People -> SUBSET Roles]
    /\ Mode \in {"strict", "review_approval_split", "solo_with_waiver"}

DraftStates == {"draft", "review", "approved"}

\* A review binding records the payload that was reviewed and by whom.  The
\* provenance says whether the snapshot it was discovered in is the draft's.
Assertion == [payload : Payloads, provenance : {"manual", "current", "stale"},
              review : {"pending", "approved", "rejected"},
              bound : Payloads \cup {Nobody}, reviewer : People \cup {Nobody}]

\* Collections of things keyed by the identity of an assertion, as the assertions
\* of a draft are.
Collections(S) == UNION {[T -> S] : T \in SUBSET AssertionIds}

Draft == [rev : Nat, state : DraftStates,
          assertions : Collections(Assertion),
          plan : Plans \cup {NoPlan}, approvedPlan : Plans \cup {NoPlan},
          author : People \cup {Nobody}, submittedBy : People \cup {Nobody},
          approvedBy : People \cup {Nobody}]

\* SemanticAssertion.create
Pending(payload, provenance) ==
    [payload |-> payload, provenance |-> provenance, review |-> "pending",
     bound |-> Nobody, reviewer |-> Nobody]

\* create_draft: revision 0, nothing reviewed, the caller is the author.
NewDraft(assertions, plan, author) ==
    [rev |-> 0, state |-> "draft", assertions |-> assertions, plan |-> plan,
     approvedPlan |-> NoPlan, author |-> author, submittedBy |-> Nobody, approvedBy |-> Nobody]

NoDraft == NewDraft(<<>>, NoPlan, Nobody)

\* The validators of SemanticAssertion and AssemblyDraft.  The functions below do
\* not apply them: that none is ever broken is part of the type invariant.
Valid(d) ==
    /\ \A a \in DOMAIN d.assertions :
          LET x == d.assertions[a]
          IN  IF x.review = "pending" THEN x.bound = Nobody /\ x.reviewer = Nobody
              ELSE x.bound = x.payload /\ x.reviewer # Nobody
    /\ d.approvedPlan = IF d.state = "approved" THEN d.plan ELSE NoPlan

\* require_lifecycle_authorization with a host that grants what the roles say
Authorized(person, role) == role \in RolesOf[person]

-----------------------------------------------------------------------------
(* models.py *)

HasValidReview(x) == x.review # "pending" /\ x.bound = x.payload

AllReviewed(d) == \A a \in DOMAIN d.assertions : HasValidReview(d.assertions[a])

\* mutate with no change at all: the revision advances, whatever the state.
MutateNothing(d) == [d EXCEPT !.rev = @ + 1]

\* mutate with assertions among its changes: refused on an approved draft.
MutateAssertions(d, assertions) ==
    IF d.state = "approved" THEN NoDraft
    ELSE [d EXCEPT !.assertions = assertions, !.rev = @ + 1]

\* Fault: an approved draft stays approved when its plan is replaced.
MutatePlanKeepsApproval(d, plan) ==
    IF plan = d.plan THEN d
    ELSE [d EXCEPT !.plan = plan, !.rev = @ + 1]

\* mutate with the plan as its only change: it takes an approved draft back to
\* review; the same plan again is no change at all.
MutatePlan(d, plan) ==
    IF plan = d.plan THEN d
    ELSE [d EXCEPT !.plan = plan, !.rev = @ + 1,
                   !.state = IF @ = "approved" THEN "review" ELSE @,
                   !.approvedBy = Nobody, !.approvedPlan = NoPlan]

AllowedTransitions == [draft |-> {"review"}, review |-> {"draft", "approved"}, approved |-> {"review"}]

\* transition
Transition(d, state) ==
    IF \/ state \notin AllowedTransitions[d.state]
       \/ state = "approved" /\ ~AllReviewed(d)
    THEN NoDraft
    ELSE [d EXCEPT !.state = state, !.rev = @ + 1,
                   !.approvedBy = IF state = "approved" THEN @ ELSE Nobody,
                   !.approvedPlan = IF state = "approved" THEN d.plan ELSE NoPlan]

-----------------------------------------------------------------------------
(* lifecycle.py; each operator returns NoDraft when the code raises *)

\* decide_assertion: only in review, and not for a stale discovery.
DecideAssertion(d, a, decision, person) ==
    IF \/ ~Authorized(person, "reviewer")
       \/ d.state # "review" \/ a \notin DOMAIN d.assertions
       \/ d.assertions[a].provenance = "stale"
    THEN NoDraft
    ELSE MutateAssertions(d, [d.assertions EXCEPT ![a] =
             [@ EXCEPT !.review = decision, !.bound = d.assertions[a].payload, !.reviewer = person]])

\* edit_assertion: a human edit is pending again and has manual provenance.
EditAssertion(d, a, payload, person) ==
    IF \/ ~Authorized(person, "reviewer")
       \/ d.state # "review" \/ a \notin DOMAIN d.assertions
    THEN NoDraft
    ELSE MutateAssertions(d, [d.assertions EXCEPT ![a] = Pending(payload, "manual")])

SubmitForReview(d, person) ==
    LET t == Transition(d, "review")
    IN  IF ~Authorized(person, "author") \/ t = NoDraft THEN NoDraft
        ELSE [t EXCEPT !.submittedBy = person]

ApproveDraft(d, person) ==
    LET t == Transition(d, "approved")
    IN  IF ~Authorized(person, "approver") \/ t = NoDraft THEN NoDraft
        ELSE [t EXCEPT !.approvedBy = person]

\* assembly_admin.edit_draft with the assertions the caller submits: one that has
\* the payload and the provenance of the stored one is that one, any other is a
\* new manual assertion.
EditDraft(d, submitted, person) ==
    LET unchanged(a) == /\ a \in DOMAIN d.assertions
                        /\ d.assertions[a].payload = submitted[a].payload
                        /\ submitted[a].sameOrigin
    IN  IF ~Authorized(person, "author") THEN NoDraft
        ELSE MutateAssertions(d, [a \in DOMAIN submitted |->
                 IF unchanged(a) THEN d.assertions[a] ELSE Pending(submitted[a].payload, "manual")])

-----------------------------------------------------------------------------
(* manifest.py, separation.py *)

\* AcceptedAssertionManifest.from_draft: identities and payloads approved.
Accepted(d) == {<<a, d.assertions[a].payload>> :
                   a \in {x \in DOMAIN d.assertions : d.assertions[x].review = "approved"}}

ReviewersOf(d) == {d.assertions[a].reviewer : a \in DOMAIN d.assertions} \ {Nobody}

\* _overlapping_references: a reference that holds two of the roles.
Overlaps(author, reviewers, approver, publisher) ==
    {p \in People :
        Cardinality({r \in {<<"author", author>>, <<"approver", approver>>,
                            <<"publisher", publisher>>} : r[2] = p})
            + (IF p \in reviewers THEN 1 ELSE 0) > 1}

\* evaluate_separation_of_duties as publish_draft calls it: in solo mode the
\* host always supplies the waiver.
SeparationAllowed(d, publisher) ==
    LET reviewers == ReviewersOf(d)
    IN  /\ reviewers # {}
        /\ Mode = "strict" => Overlaps(d.author, reviewers, d.approvedBy, publisher) = {}
        /\ Mode = "review_approval_split" => d.approvedBy \notin reviewers

=============================================================================
