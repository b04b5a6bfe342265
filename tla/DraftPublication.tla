-------------------------- MODULE DraftPublication --------------------------
(***************************************************************************)
(* Admin calls that work on one stored draft, and its publication.           *)
(*                                                                           *)
(* A call loads the draft, derives a new one and stores it if the revision   *)
(* it loaded is still current (compare-and-swap).  Publication works on the  *)
(* draft it loaded through freeze, materialize, verify and persist; between   *)
(* loading and the catalog's append other calls may replace the stored       *)
(* draft.  The bundle is emitted by the host, and so is the last word of      *)
(* the manifest verifier: both are choices.                                  *)
(***************************************************************************)
EXTENDS AssemblyDraft, TLC

CONSTANTS
    Callers,        \* concurrent admin calls
    MaxRevision     \* bound on the revisions of the draft

VARIABLES
    stored,     \* the draft in the draft store, NoDraft before it is created
    call,       \* per caller: what it has read and how far it is
    evidence,   \* verification evidence handed out by verify_draft
    published,  \* the catalog's records for this draft's bundle version
    approvals,  \* history: the drafts that were stored as approved
    decisions   \* history: <<assertion, payload, reviewer>> decided and stored

vars == <<stored, call, evidence, published, approvals, decisions>>

Idle == [step |-> "idle", draft |-> NoDraft, by |-> Nobody, bundle |-> {}]

Init ==
    /\ stored = NoDraft
    /\ call = [c \in Callers |-> Idle]
    /\ evidence = {}
    /\ published = {}
    /\ approvals = {}
    /\ decisions = {}

Exists == stored.author # Nobody

Put(d) ==
    /\ stored' = d
    /\ approvals' = IF d.state = "approved" THEN approvals \cup {d} ELSE approvals

-----------------------------------------------------------------------------
(* assembly_admin.py *)

\* create_draft; assertions from discovery carry the snapshot they came from.
CreateDraft(assertions, plan, person) ==
    /\ ~Exists
    /\ Authorized(person, "author")
    /\ Put(NewDraft(assertions, plan, person))
    /\ UNCHANGED <<call, evidence, published, decisions>>

\* load_draft
LoadDraft(c) ==
    /\ Exists
    /\ call[c] = Idle
    /\ call' = [call EXCEPT ![c] = [Idle EXCEPT !.step = "loaded", !.draft = stored]]
    /\ UNCHANGED <<stored, evidence, published, approvals, decisions>>

\* store_draft: InMemoryAssemblyDraftStore.replace, for the revision the call
\* was told to expect, which mutate and transition compare with the draft loaded.
StoreDraft(c, d) ==
    /\ IF /\ d # NoDraft
          /\ stored.rev = call[c].draft.rev
          /\ d.rev = call[c].draft.rev + 1
       THEN Put(d)
       ELSE UNCHANGED <<stored, approvals>>
    /\ call' = [call EXCEPT ![c] = Idle]
    /\ UNCHANGED <<evidence, published>>

Loaded(c) == call[c].step = "loaded" /\ call[c].draft.rev < MaxRevision

EditDraftCall(c, submitted, person) ==
    /\ Loaded(c)
    /\ StoreDraft(c, EditDraft(call[c].draft, submitted, person))
    /\ UNCHANGED decisions

\* edit_draft without assertions and without deployment bindings
EditNothingCall(c, person) ==
    /\ Loaded(c)
    /\ Authorized(person, "author")
    /\ StoreDraft(c, MutateNothing(call[c].draft))
    /\ UNCHANGED decisions

ChangePlanCall(c, plan) ==
    /\ Loaded(c)
    /\ StoreDraft(c, MutatePlan(call[c].draft, plan))
    /\ UNCHANGED decisions

SubmitCall(c, person) ==
    /\ Loaded(c)
    /\ StoreDraft(c, SubmitForReview(call[c].draft, person))
    /\ UNCHANGED decisions

DecideCall(c, a, decision, person) ==
    /\ Loaded(c)
    /\ StoreDraft(c, DecideAssertion(call[c].draft, a, decision, person))
    /\ decisions' = IF stored' = stored THEN decisions
                    ELSE decisions \cup {<<a, stored.assertions[a].payload, person>>}

EditAssertionCall(c, a, payload, person) ==
    /\ Loaded(c)
    /\ StoreDraft(c, EditAssertion(call[c].draft, a, payload, person))
    /\ UNCHANGED decisions

ApproveCall(c, person) ==
    /\ Loaded(c)
    /\ StoreDraft(c, ApproveDraft(call[c].draft, person))
    /\ UNCHANGED decisions

-----------------------------------------------------------------------------
(* verification_admin.py *)

\* The host's emitter may leave an accepted assertion out of the bundle.
Emissions(d) == {Accepted(d), {}}

\* manifest_matches_bundle
Represents(bundle, d) == Accepted(d) \subseteq bundle

\* CoreStructuralVerificationRunner.run, the checks about the draft itself
StructurallyValid(d, bundle) ==
    /\ d.state = "approved"
    /\ AllReviewed(d)
    /\ d.approvedPlan = d.plan
    /\ Represents(bundle, d)

\* verify_draft on the draft that was loaded; evidence binds revision, plan and
\* bundle.  Only passing evidence can ever be used.
VerifyDraft(c) ==
    \E bundle \in Emissions(call[c].draft) :
        /\ call[c].step = "loaded"
        /\ StructurallyValid(call[c].draft, bundle)
        /\ evidence' = evidence \cup {[rev |-> call[c].draft.rev, plan |-> call[c].draft.plan,
                                       bundle |-> bundle]}
        /\ call' = [call EXCEPT ![c] = Idle]
        /\ UNCHANGED <<stored, published, approvals, decisions>>

\* freeze_stage up to its preflight, on the loaded draft.
FreezeAllowed(d, person) ==
    /\ Authorized(person, "publisher")
    /\ d.state = "approved"
    /\ d.approvedPlan = d.plan

\* publish_draft enters the coordinator; the preflight asks the catalog whether
\* the stored draft is still the one that was loaded.
Freeze(c, person) ==
    /\ call[c].step = "loaded"
    /\ call' = [call EXCEPT ![c] =
                   IF /\ FreezeAllowed(call[c].draft, person)
                      /\ stored = call[c].draft
                      /\ AllReviewed(call[c].draft)
                      /\ SeparationAllowed(call[c].draft, person)
                   THEN [@ EXCEPT !.step = "frozen", !.by = person]
                   ELSE Idle]
    /\ UNCHANGED <<stored, evidence, published, approvals, decisions>>

\* Fault: evidence is accepted for whatever revision it was produced.
EvidenceAnyRevision(d, bundle) ==
    IF d.plan = NoPlan THEN {[rev |-> d.rev, plan |-> NoPlan, bundle |-> bundle]}
    ELSE {e \in evidence : e.plan = d.plan /\ e.bundle = bundle}

\* verify_stage: structural evidence made on the spot without a plan, supplied
\* evidence bound to revision, plan and bundle with one.
EvidenceFor(d, bundle) ==
    IF d.plan = NoPlan THEN {[rev |-> d.rev, plan |-> NoPlan, bundle |-> bundle]}
    ELSE {e \in evidence : e.rev = d.rev /\ e.plan = d.plan /\ e.bundle = bundle}

\* materialize_stage, verify_stage and aggregate_stage
MaterializeAndVerify(c) ==
    /\ call[c].step = "frozen"
    /\ \E bundle \in Emissions(call[c].draft) :
          call' = [call EXCEPT ![c] =
                      IF /\ StructurallyValid(call[c].draft, bundle)
                         /\ EvidenceFor(call[c].draft, bundle) # {}
                      THEN [@ EXCEPT !.step = "verified", !.bundle = bundle]
                      ELSE Idle]
    /\ UNCHANGED <<stored, evidence, published, approvals, decisions>>

\* catalog.publish compares the stored draft with the binding...
CheckBinding(c) ==
    /\ call[c].step = "verified"
    /\ call' = [call EXCEPT ![c] =
                   IF stored = call[c].draft THEN [@ EXCEPT !.step = "checked"] ELSE Idle]
    /\ UNCHANGED <<stored, evidence, published, approvals, decisions>>

\* ...and then appends under its lock.  The same content is reused, other content
\* under the same version is refused.
AppendRecord(c) ==
    /\ call[c].step = "checked"
    /\ IF published = {}
       THEN published' = {[rev |-> call[c].draft.rev, bundle |-> call[c].bundle,
                           publisher |-> call[c].by,
                           evidence |-> CHOOSE e \in EvidenceFor(call[c].draft, call[c].bundle) :
                                            TRUE]}
       ELSE UNCHANGED published
    /\ call' = [call EXCEPT ![c] = Idle]
    /\ UNCHANGED <<stored, evidence, approvals, decisions>>

\* A call fails or is lost before it reaches the store or the catalog.
Abandon(c) ==
    /\ call[c] # Idle
    /\ call' = [call EXCEPT ![c] = Idle]
    /\ UNCHANGED <<stored, evidence, published, approvals, decisions>>

-----------------------------------------------------------------------------

NewAssertions == Collections({Pending(p, v) : p \in Payloads, v \in {"manual", "current", "stale"}})

Submissions == Collections([payload : Payloads, sameOrigin : BOOLEAN])

Next ==
    \/ \E x \in NewAssertions, plan \in Plans \cup {NoPlan}, p \in People : CreateDraft(x, plan, p)
    \/ \E c \in Callers :
          \/ LoadDraft(c)
          \/ \E x \in Submissions, p \in People : EditDraftCall(c, x, p)
          \/ \E a \in AssertionIds, x \in Payloads, p \in People : EditAssertionCall(c, a, x, p)
          \/ \E plan \in Plans \cup {NoPlan} : ChangePlanCall(c, plan)
          \/ \E p \in People : \/ SubmitCall(c, p) \/ ApproveCall(c, p)
                               \/ EditNothingCall(c, p) \/ Freeze(c, p)
          \/ \E a \in AssertionIds, s \in {"approved", "rejected"}, p \in People :
                DecideCall(c, a, s, p)
          \/ VerifyDraft(c)
          \/ MaterializeAndVerify(c)
          \/ CheckBinding(c)
          \/ AppendRecord(c)
          \/ Abandon(c)

Spec == Init /\ [][Next]_vars

-----------------------------------------------------------------------------
(* Properties *)

\* Types, and every draft that is stored passes the validators of its classes.
TypeOK ==
    /\ stored \in Draft /\ Valid(stored)
    /\ \A c \in Callers : call[c].draft \in Draft /\ call[c].by \in People \cup {Nobody}
    /\ decisions \subseteq AssertionIds \X Payloads \X People

\* Whoever stores a draft, revisions form one line: a stored draft is only ever
\* followed by one derived from it, under the next number.
RevisionsAreLinear == [][Exists => stored'.rev = stored.rev + 1]_stored

\* A review that counts was made by the person named in it, about the payload
\* the assertion has now.
ReviewsAreGenuine ==
    \A a \in DOMAIN stored.assertions :
        LET x == stored.assertions[a]
        IN  x.review # "pending" => /\ <<a, x.payload, x.reviewer>> \in decisions
                                    /\ "reviewer" \in RolesOf[x.reviewer]

\* An approval is an approval of what is stored: the content and the plan are
\* those that stood in review, all reviewed, none of them changes while the
\* approval stands.
ApprovalIsCurrent ==
    [][stored'.state = "approved" =>
           /\ \/ stored.state = "review" \/ stored'.approvedBy = stored.approvedBy
           /\ stored'.assertions = stored.assertions /\ AllReviewed(stored)
           /\ stored'.plan = stored.plan /\ stored'.approvedPlan = stored.plan
           /\ Authorized(stored'.approvedBy, "approver")]_stored

\* What is published was approved under the revision it names, contains every
\* accepted assertion of that revision, was verified as that revision and that
\* bundle, and satisfies the separation of duties of that revision.
PublishedWasApproved ==
    \A r \in published :
        \E d \in approvals :
            /\ d.rev = r.rev
            /\ Accepted(d) \subseteq r.bundle
            /\ r.evidence = [rev |-> r.rev, plan |-> d.plan, bundle |-> r.bundle]
            /\ SeparationAllowed(d, r.publisher)

=============================================================================
