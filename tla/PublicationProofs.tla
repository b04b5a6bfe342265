-------------------------- MODULE PublicationProofs --------------------------
(***************************************************************************)
(* Drafts.  For any number of callers, people, assertions and revisions: a  *)
(* stored draft is followed only by one derived from it, an approval is an  *)
(* approval of what is stored, and what is published was approved and       *)
(* verified.  The argument: a call that still holds the stored revision     *)
(* holds the stored draft (Current).  So a draft that passes the            *)
(* compare-and-swap was derived from the stored one, and one that passes    *)
(* the preflight of a publication is a stored approval.                     *)
(*                                                                          *)
(* The PostgreSQL catalog.  For any number of workers, bundles and history  *)
(* entries: what the pointer and the history name is stored, at most one    *)
(* version is active, and the history leads back through the versions that  *)
(* were served.  The argument (CatalogInv): the statements that look before *)
(* they write remember only what stays true (CallsKnow), cleanup spares     *)
(* what is referenced (Referenced), the version marked active is the one    *)
(* served (Marked), and each entry of the history names the one below it    *)
(* (Linked).                                                                *)
(***************************************************************************)
EXTENDS DraftPublication, DurableCatalog, TLAPS

Steps == {"idle", "loaded", "frozen", "verified", "checked"}

DraftCalls == [step : Steps, draft : Draft, by : People \cup {Nobody},
               bundle : SUBSET (AssertionIds \X Payloads)]

\* What approve_draft establishes holds of every approved draft.
Approval(d) ==
    d.state = "approved" =>
        /\ AllReviewed(d) /\ d.approvedPlan = d.plan
        /\ Authorized(d.approvedBy, "approver")

Genuine(d, made) ==
    \A a \in DOMAIN d.assertions :
        d.assertions[a].review # "pending" =>
            /\ <<a, d.assertions[a].payload, d.assertions[a].reviewer>> \in made
            /\ "reviewer" \in RolesOf[d.assertions[a].reviewer]

Sound(d, made) == d \in Draft /\ Approval(d) /\ Genuine(d, made)

\* An approved successor is an approval of what its predecessor contains.
Carried(old, new) ==
    new.state = "approved" =>
        /\ \/ old.state = "review" \/ new.approvedBy = old.approvedBy
        /\ new.assertions = old.assertions /\ AllReviewed(old)
        /\ new.plan = old.plan /\ new.approvedPlan = old.plan
        /\ Authorized(new.approvedBy, "approver")

\* What an operation returns: a refusal, the draft itself, or a successor.
Derived(old, new) ==
    \/ new = NoDraft
    \/ new = old
    \/ /\ new \in Draft /\ Approval(new) /\ Carried(old, new)
       /\ new.author = old.author /\ new.rev = old.rev + 1

Current(c) ==
    call[c].step # "idle" =>
        /\ Exists
        /\ Sound(call[c].draft, decisions)
        /\ call[c].draft.author = stored.author
        /\ call[c].draft.rev <= stored.rev
        /\ call[c].draft.rev = stored.rev => call[c].draft = stored

Publishing(c) ==
    /\ call[c].step \in {"frozen", "verified", "checked"} =>
          call[c].draft \in approvals /\ SeparationAllowed(call[c].draft, call[c].by)
    /\ call[c].step \in {"verified", "checked"} =>
          /\ Represents(call[c].bundle, call[c].draft)
          /\ EvidenceFor(call[c].draft, call[c].bundle) # {}

IInv ==
    /\ Sound(stored, decisions)
    /\ stored.state = "approved" => stored \in approvals
    /\ call \in [Callers -> DraftCalls]
    /\ \A c \in Callers : Current(c) /\ Publishing(c)
    /\ \A e \in evidence : e = [rev |-> e.rev, plan |-> e.plan, bundle |-> e.bundle]
    /\ PublishedWasApproved

-----------------------------------------------------------------------------
(* The operations on drafts. *)

\* A draft that does not exist is sound.
LEMMA NoDraftSound == Sound(NoDraft, decisions)
<1>1. <<>> \in [{} -> Assertion]
  OBVIOUS
<1>2. NoDraft \in Draft
  <2>1. <<>> \in Collections(Assertion)
    BY <1>1, Zenon DEF Collections
  <2> QED
    BY <2>1, Zenon DEF NoDraft, NewDraft, Draft, DraftStates
<1>3. Approval(NoDraft) /\ Genuine(NoDraft, decisions)
  BY DEF NoDraft, NewDraft, Approval, Genuine
<1> QED
  BY <1>2, <1>3, Zenon DEF Sound

\* The assertions of a draft are a function over some of the ids.
LEMMA AssertionsType ==
  ASSUME NEW d \in Draft
  PROVE  /\ DOMAIN d.assertions \subseteq AssertionIds
         /\ d.assertions \in [DOMAIN d.assertions -> Assertion]
BY Zenon DEF Draft, Collections

\* Any such function can be the assertions of a draft.
LEMMA AssertionsIntro ==
  ASSUME NEW S \in SUBSET AssertionIds, NEW f \in [S -> Assertion]
  PROVE  f \in Collections(Assertion)
BY Zenon DEF Collections

\* _mutate without a change takes the next revision and keeps reviews genuine.
LEMMA MutateNothingDerived ==
  ASSUME NEW d, Sound(d, decisions)
  PROVE  /\ Derived(d, MutateNothing(d)) /\ Genuine(MutateNothing(d), decisions)
<1> DEFINE n == MutateNothing(d)
<1>1. n \in Draft /\ n = [d EXCEPT !.rev = d.rev + 1]
  BY DEF Sound, Draft, MutateNothing
<1>2. /\ n.rev = d.rev + 1 /\ n.state = d.state /\ n.assertions = d.assertions /\ n.plan = d.plan
      /\ n.approvedPlan = d.approvedPlan /\ n.approvedBy = d.approvedBy /\ n.author = d.author
  BY Zenon DEF Sound, Draft, MutateNothing
<1> HIDE DEF n
<1>3. Approval(n) /\ Carried(d, n) /\ Genuine(n, decisions)
  BY <1>2, Zenon DEF Sound, Approval, Carried, Genuine, AllReviewed
<1> QED
  BY <1>1, <1>2, <1>3, Zenon DEF Derived, n

\* _mutate with another plan does so too.
LEMMA MutatePlanDerived ==
  ASSUME NEW d, Sound(d, decisions), NEW plan \in Plans \cup {NoPlan}
  PROVE  Derived(d, MutatePlan(d, plan)) /\ Genuine(MutatePlan(d, plan), decisions)
<1> DEFINE n == MutatePlan(d, plan)
<1>1. CASE plan = d.plan
  BY <1>1, Zenon DEF Sound, Derived, MutatePlan
<1>2. CASE plan # d.plan
  <2>1. n = [d EXCEPT !.plan = plan, !.rev = d.rev + 1,
                      !.state = IF d.state = "approved" THEN "review" ELSE d.state,
                      !.approvedBy = Nobody, !.approvedPlan = NoPlan]
    BY <1>2, Zenon DEF MutatePlan, Sound, Draft
  <2> HIDE DEF n
  <2>2. d \in Draft /\ d.rev + 1 \in Nat
    BY DEF Sound, Draft
  <2>3. n \in Draft
    BY <2>1, <2>2, ZenonT(30) DEF Draft, DraftStates
  <2>4. n.rev = d.rev + 1 /\ n.state # "approved" /\ n.assertions = d.assertions /\ n.author = d.author
    BY <2>1, <2>2, Zenon DEF Draft, DraftStates
  <2> QED
    BY <2>3, <2>4, Zenon DEF Derived, Approval, Carried, Genuine, Sound, n
<1> QED
  BY <1>1, <1>2, Zenon

\* _mutate with other assertions takes the next revision, unless the draft is approved.
LEMMA MutateAssertionsDerived ==
  ASSUME NEW d, Sound(d, decisions), NEW S \in SUBSET AssertionIds, NEW f \in [S -> Assertion]
  PROVE  LET n == MutateAssertions(d, f)
         IN  /\ Derived(d, n)
             /\ n # NoDraft => n.assertions = f /\ d.state # "approved"
<1> DEFINE n == MutateAssertions(d, f)
<1>1. CASE d.state = "approved"
  BY <1>1, Zenon DEF Derived, MutateAssertions
<1>2. CASE d.state # "approved"
  <2>1. n = [d EXCEPT !.assertions = f, !.rev = d.rev + 1]
    BY <1>2, Zenon DEF MutateAssertions, Sound, Draft
  <2>2. f \in Collections(Assertion)
    BY AssertionsIntro, Zenon
  <2>3. d \in Draft /\ d.rev + 1 \in Nat
    BY DEF Sound, Draft
  <2> HIDE DEF n
  <2>4. n \in Draft
    BY <2>1, <2>2, <2>3, Zenon DEF Draft
  <2>5. n.rev = d.rev + 1 /\ n.state = d.state /\ n.assertions = f /\ n.author = d.author
    BY <2>1, <2>3, Zenon DEF Draft
  <2> QED
    BY <1>2, <2>4, <2>5, Zenon DEF Derived, Approval, Carried, n
<1> QED
  BY <1>1, <1>2, Zenon

\* edit_draft keeps only reviews of payloads it has not changed.
LEMMA EditDraftDerived ==
  ASSUME NEW d, Sound(d, decisions), NEW submitted \in Submissions, NEW person
  PROVE  LET n == EditDraft(d, submitted, person)
         IN  Derived(d, n) /\ (n # NoDraft => Genuine(n, decisions))
<1> DEFINE n == EditDraft(d, submitted, person)
           unchanged(a) == /\ a \in DOMAIN d.assertions
                           /\ d.assertions[a].payload = submitted[a].payload
                           /\ submitted[a].sameOrigin
           f == [a \in DOMAIN submitted |->
                    IF unchanged(a) THEN d.assertions[a] ELSE Pending(submitted[a].payload, "manual")]
<1>1. CASE ~Authorized(person, "author")
  BY <1>1, Zenon DEF EditDraft, Derived
<1>2. CASE Authorized(person, "author")
  <2>1. DOMAIN submitted \in SUBSET AssertionIds /\ \A a \in DOMAIN submitted : submitted[a].payload \in Payloads
    BY Zenon DEF Submissions, Collections
  <2>2. \A a \in DOMAIN submitted : Pending(submitted[a].payload, "manual") \in Assertion
    BY <2>1, Zenon DEF Pending, Assertion
  <2>3. d.assertions \in [DOMAIN d.assertions -> Assertion]
    BY AssertionsType, Zenon DEF Sound
  <2>4. f \in [DOMAIN submitted -> Assertion]
    BY <2>2, <2>3, Zenon
  <2>5. n = MutateAssertions(d, f)
    BY <1>2, Zenon DEF EditDraft
  <2>6. Derived(d, n) /\ (n # NoDraft => n.assertions = f)
    BY <2>1, <2>4, <2>5, MutateAssertionsDerived
  <2>7. \A a \in DOMAIN f : f[a].review # "pending" => a \in DOMAIN d.assertions /\ f[a] = d.assertions[a]
    BY Zenon DEF Pending
  <2> HIDE DEF n, f
  <2>8. n # NoDraft => Genuine(n, decisions)
    BY <2>6, <2>7, Zenon DEF Genuine, Sound
  <2> QED
    BY <2>6, <2>8, Zenon DEF n
<1> QED
  BY <1>1, <1>2, Zenon

\* edit_assertion resets the review of the assertion it changes.
LEMMA EditAssertionDerived ==
  ASSUME NEW d, Sound(d, decisions), NEW b \in AssertionIds, NEW payload \in Payloads, NEW person
  PROVE  LET n == EditAssertion(d, b, payload, person)
         IN  Derived(d, n) /\ (n # NoDraft => Genuine(n, decisions))
<1> DEFINE n == EditAssertion(d, b, payload, person)
           f == [d.assertions EXCEPT ![b] = Pending(payload, "manual")]
<1>1. CASE n = NoDraft
  BY <1>1, Zenon DEF Derived
<1>2. CASE n # NoDraft
  <2>1. n = MutateAssertions(d, f) /\ b \in DOMAIN d.assertions
    BY <1>2, Zenon DEF EditAssertion
  <2>2. d.assertions \in [DOMAIN d.assertions -> Assertion] /\ DOMAIN d.assertions \in SUBSET AssertionIds
    BY AssertionsType, Zenon DEF Sound
  <2>3. Pending(payload, "manual") \in Assertion /\ Pending(payload, "manual").review = "pending"
    BY Zenon DEF Pending, Assertion
  <2>4. f \in [DOMAIN d.assertions -> Assertion]
    BY <2>2, <2>3, Zenon
  <2>5. Derived(d, n) /\ n.assertions = f
    BY <1>2, <2>1, <2>2, <2>4, MutateAssertionsDerived
  <2>6. \A a \in DOMAIN f : f[a].review # "pending" => a \in DOMAIN d.assertions /\ f[a] = d.assertions[a]
    BY <2>2, <2>3, Zenon
  <2> HIDE DEF n, f
  <2>7. Genuine(n, decisions)
    BY <2>5, <2>6, Zenon DEF Genuine, Sound
  <2> QED
    BY <2>5, <2>7, Zenon DEF n
<1> QED
  BY <1>1, <1>2, Zenon

\* decide_assertion records the reviewer and the payload under review.
LEMMA DecideAssertionDerived ==
  ASSUME NEW d, Sound(d, decisions), NEW b \in AssertionIds,
         NEW decision \in {"approved", "rejected"}, NEW person \in People
  PROVE  LET n == DecideAssertion(d, b, decision, person)
         IN  /\ Derived(d, n)
             /\ n # NoDraft =>
                   Genuine(n, decisions \cup {<<b, d.assertions[b].payload, person>>})
<1> DEFINE n == DecideAssertion(d, b, decision, person)
           x == [d.assertions[b] EXCEPT !.review = decision, !.bound = d.assertions[b].payload,
                                        !.reviewer = person]
           f == [d.assertions EXCEPT ![b] = x]
           made == decisions \cup {<<b, d.assertions[b].payload, person>>}
<1>1. CASE n = NoDraft
  BY <1>1, Zenon DEF Derived
<1>2. CASE n # NoDraft
  <2>1. n = MutateAssertions(d, f) /\ b \in DOMAIN d.assertions /\ "reviewer" \in RolesOf[person]
    BY <1>2, Zenon DEF DecideAssertion, Authorized
  <2>2. d.assertions \in [DOMAIN d.assertions -> Assertion] /\ DOMAIN d.assertions \in SUBSET AssertionIds
    BY AssertionsType, Zenon DEF Sound
  <2>3. d.assertions[b] \in Assertion
    BY <2>1, <2>2, Zenon
  <2>4. x \in Assertion /\ x.payload = d.assertions[b].payload /\ x.reviewer = person
    BY <2>3, Zenon DEF Assertion
  <2> HIDE DEF x
  <2>5. f \in [DOMAIN d.assertions -> Assertion]
    BY <2>2, <2>4, Zenon
  <2>6. Derived(d, n) /\ n.assertions = f
    BY <1>2, <2>1, <2>2, <2>5, MutateAssertionsDerived
  <2>7. \A a \in DOMAIN f : a \in DOMAIN d.assertions /\ f[a] = IF a = b THEN x ELSE d.assertions[a]
    BY <2>2, Zenon
  <2> HIDE DEF n, f
  <2>8. Genuine(n, made)
    BY <2>1, <2>4, <2>6, <2>7 DEF Genuine, Sound
  <2> QED
    BY <2>6, <2>8, Zenon DEF n
<1> QED
  BY <1>1, <1>2, Zenon

\* submit_for_review moves the state and nothing else.
LEMMA SubmitForReviewDerived ==
  ASSUME NEW d, Sound(d, decisions), NEW person \in People
  PROVE  LET n == SubmitForReview(d, person)
         IN  Derived(d, n) /\ (n # NoDraft => Genuine(n, decisions))
<1> DEFINE n == SubmitForReview(d, person)
           t == Transition(d, "review")
<1>1. CASE n = NoDraft
  BY <1>1, Zenon DEF Derived
<1>2. CASE n # NoDraft
  <2>1. n = [t EXCEPT !.submittedBy = person] /\ t # NoDraft
    BY <1>2, Zenon DEF SubmitForReview
  <2>2. d \in Draft /\ d.rev + 1 \in Nat
    BY DEF Sound, Draft
  <2>3. t = [d EXCEPT !.state = "review", !.rev = d.rev + 1, !.approvedBy = Nobody, !.approvedPlan = NoPlan]
    BY <2>1, <2>2, Zenon DEF Transition, Draft
  <2> HIDE DEF t, n
  <2>4. t \in Draft /\ t.rev = d.rev + 1 /\ t.state = "review" /\ t.assertions = d.assertions /\ t.author = d.author
    BY <2>2, <2>3, Zenon DEF Draft, DraftStates
  <2>5. n \in Draft /\ n.rev = d.rev + 1 /\ n.state = "review" /\ n.assertions = d.assertions /\ n.author = d.author
    BY <2>1, <2>4, Zenon DEF Draft
  <2> QED
    BY <2>5, Zenon DEF Derived, Approval, Carried, Genuine, Sound, n
<1> QED
  BY <1>1, <1>2, Zenon

\* approve_draft needs a review of every assertion and derives the approval.
LEMMA ApproveDraftDerived ==
  ASSUME NEW d, Sound(d, decisions), NEW person \in People
  PROVE  LET n == ApproveDraft(d, person)
         IN  Derived(d, n) /\ (n # NoDraft => Genuine(n, decisions))
<1> DEFINE n == ApproveDraft(d, person)
           t == Transition(d, "approved")
<1>1. CASE n = NoDraft
  BY <1>1, Zenon DEF Derived
<1>2. CASE n # NoDraft
  <2>1. n = [t EXCEPT !.approvedBy = person] /\ t # NoDraft /\ Authorized(person, "approver")
    BY <1>2, Zenon DEF ApproveDraft
  <2>2. d \in Draft /\ d.rev + 1 \in Nat
    BY DEF Sound, Draft
  <2>3. AllReviewed(d) /\ d.state = "review"
    BY <2>1, <2>2 DEF Transition, AllowedTransitions, Draft, DraftStates
  <2>4. t = [d EXCEPT !.state = "approved", !.rev = d.rev + 1, !.approvedBy = d.approvedBy,
                      !.approvedPlan = d.plan]
    BY <2>1, <2>2, Zenon DEF Transition, Draft
  <2> HIDE DEF t, n
  <2>5. /\ t \in Draft /\ t.rev = d.rev + 1 /\ t.state = "approved" /\ t.assertions = d.assertions
        /\ t.author = d.author /\ t.plan = d.plan /\ t.approvedPlan = d.plan
    BY <2>2, <2>4, Zenon DEF Draft, DraftStates
  <2>6. /\ n \in Draft /\ n.rev = d.rev + 1 /\ n.state = "approved" /\ n.assertions = d.assertions
        /\ n.author = d.author /\ n.plan = d.plan /\ n.approvedPlan = d.plan /\ n.approvedBy = person
    BY <2>1, <2>5, Zenon DEF Draft
  <2>7. Approval(n) /\ Carried(d, n) /\ Genuine(n, decisions)
    BY <2>1, <2>3, <2>6, Zenon DEF Approval, Carried, Genuine, Sound, AllReviewed
  <2> QED
    BY <2>6, <2>7, Zenon DEF Derived, n
<1> QED
  BY <1>1, <1>2, Zenon

-----------------------------------------------------------------------------
(* Steps of the system. *)

\* The invariant of one call, when only the call of another changes or nothing
\* it depends on shrinks.
LEMMA GenuineGrows ==
  ASSUME NEW d, NEW more, Genuine(d, decisions), decisions \subseteq more
  PROVE  Genuine(d, more)
BY Zenon DEF Genuine

\* What a publishing call relies on is never withdrawn.
LEMMA SeparationUnchanged ==
  ASSUME NEW c \in Callers, Publishing(c), call'[c] = call[c],
         approvals \subseteq approvals', evidence \subseteq evidence'
  PROVE  Publishing(c)'
BY Zenon DEF Publishing, SeparationAllowed, Represents, EvidenceFor

\* An idle call is well typed.
LEMMA IdleCall == Idle \in DraftCalls /\ Idle.step = "idle"
<1>1. NoDraft \in Draft
  BY NoDraftSound, Zenon DEF Sound
<1>2. Idle = [step |-> "idle", draft |-> NoDraft, by |-> Nobody, bundle |-> {}]
  BY Zenon DEF Idle
<1> QED
  BY <1>1, <1>2, Zenon DEF DraftCalls, Steps

\* What the compare-and-swap lets through was derived from the stored draft.
LEMMA StoredOrSame ==
  ASSUME IInv, NEW c \in Callers, Loaded(c), NEW d, StoreDraft(c, d), Derived(call[c].draft, d)
  PROVE  \/ stored' = stored /\ approvals' = approvals
         \/ /\ stored' = d /\ call[c].draft = stored
            /\ d \in Draft /\ Approval(d) /\ Carried(stored, d)
            /\ d.author = stored.author /\ d.rev = stored.rev + 1
            /\ approvals' = IF d.state = "approved" THEN approvals \cup {d} ELSE approvals
<1>1. stored \in Draft /\ call[c].draft \in Draft
  BY Zenon DEF IInv, Sound, DraftCalls
<1>2. stored.rev \in Nat /\ call[c].draft.rev \in Nat
  BY <1>1, Zenon DEF Draft
<1>3. call[c].draft.rev = stored.rev => call[c].draft = stored
  BY Zenon DEF IInv, Current, Loaded
<1>4. CASE d # NoDraft /\ stored.rev = call[c].draft.rev /\ d.rev = call[c].draft.rev + 1
  <2>1. d # call[c].draft
    BY <1>2, <1>4
  <2>2. call[c].draft = stored
    BY <1>3, <1>4, Zenon
  <2> QED
    BY <1>4, <2>1, <2>2, Zenon DEF Derived, StoreDraft, Put
<1>5. CASE ~(d # NoDraft /\ stored.rev = call[c].draft.rev /\ d.rev = call[c].draft.rev + 1)
  BY <1>5, Zenon DEF StoreDraft
<1> QED
  BY <1>4, <1>5, Zenon

\* A compare-and-swap of a derived draft keeps the invariant.
LEMMA StoreStep ==
  ASSUME IInv, NEW c \in Callers, Loaded(c), NEW d, StoreDraft(c, d), Derived(call[c].draft, d),
         stored' # stored => Genuine(d, decisions'), decisions \subseteq decisions'
  PROVE  IInv'
<1>1. /\ call' = [call EXCEPT ![c] = Idle] /\ evidence' = evidence /\ published' = published
      /\ call \in [Callers -> DraftCalls]
  BY Zenon DEF StoreDraft, IInv
<1>2. call' \in [Callers -> DraftCalls] /\ call'[c].step = "idle"
  BY <1>1, IdleCall, Zenon
<1>3. Exists /\ stored \in Draft /\ stored.rev \in Nat
  BY Zenon DEF IInv, Current, Loaded, Sound, Draft
<1>4. \/ stored' = stored /\ approvals' = approvals
      \/ /\ stored' = d /\ d \in Draft /\ Approval(d)
         /\ d.author = stored.author /\ d.rev = stored.rev + 1
         /\ approvals' = IF d.state = "approved" THEN approvals \cup {d} ELSE approvals
  BY StoredOrSame
<1>5. approvals \subseteq approvals' /\ stored'.author = stored.author /\ Exists'
  BY <1>3, <1>4, Zenon DEF Exists
<1>6. Sound(stored, decisions)' /\ (stored.state = "approved" => stored \in approvals)'
  <2>1. CASE stored' = stored /\ approvals' = approvals
    BY <2>1, GenuineGrows, Zenon DEF IInv, Sound, Approval, AllReviewed
  <2>2. CASE stored' = d /\ stored' # stored
    BY <1>4, <2>2, Zenon DEF Sound
  <2> QED
    BY <1>3, <1>4, <2>1, <2>2
<1>7. ASSUME NEW b \in Callers
      PROVE  Current(b)' /\ Publishing(b)'
  <2>1. CASE b = c
    BY <1>2, <2>1, Zenon DEF Current, Publishing
  <2>2. CASE b # c
    <3>1. call'[b] = call[b] /\ call[b].draft \in Draft
      BY <1>1, <2>2, Zenon DEF DraftCalls
    <3>2. Publishing(b)'
      BY <1>1, <1>5, <3>1, SeparationUnchanged DEF IInv
    <3>3. Current(b)'
      <4>1. SUFFICES ASSUME call[b].step # "idle"
                     PROVE  /\ Sound(call[b].draft, decisions')
                            /\ call[b].draft.author = stored'.author
                            /\ call[b].draft.rev <= stored'.rev
                            /\ call[b].draft.rev = stored'.rev => call[b].draft = stored'
        BY <1>5, <3>1, Zenon DEF Current, Sound, Genuine, Approval, AllReviewed, Exists
      <4>2. /\ Sound(call[b].draft, decisions) /\ call[b].draft.author = stored.author
            /\ call[b].draft.rev <= stored.rev
            /\ call[b].draft.rev = stored.rev => call[b].draft = stored
        BY <4>1, Zenon DEF IInv, Current
      <4>3. Sound(call[b].draft, decisions')
        BY <4>2, GenuineGrows, Zenon DEF Sound
      <4>4. call[b].draft.rev \in Nat
        BY <3>1, Zenon DEF Draft
      <4> QED
        BY <1>3, <1>4, <1>5, <4>2, <4>3, <4>4
    <3> QED
      BY <3>2, <3>3, Zenon
  <2> QED
    BY <2>1, <2>2, Zenon
<1>8. PublishedWasApproved'
  BY <1>1, <1>5, Zenon DEF IInv, PublishedWasApproved
<1> QED
  BY <1>1, <1>2, <1>6, <1>7, <1>8, Zenon DEF IInv

\* A step of one call that leaves the draft store alone.
LEMMA CallStep ==
  ASSUME IInv, NEW c \in Callers, NEW x \in DraftCalls, call' = [call EXCEPT ![c] = x],
         UNCHANGED <<stored, approvals, decisions>>, evidence \subseteq evidence',
         Current(c)', Publishing(c)', PublishedWasApproved',
         \A e \in evidence' : e = [rev |-> e.rev, plan |-> e.plan, bundle |-> e.bundle]
  PROVE  IInv'
<1>1. call \in [Callers -> DraftCalls] /\ call' \in [Callers -> DraftCalls]
  BY Zenon DEF IInv
<1>2. ASSUME NEW b \in Callers
      PROVE  Current(b)' /\ Publishing(b)'
  <2>1. CASE b # c
    <3>1. call'[b] = call[b]
      BY <1>1, <2>1
    <3>2. Current(b)'
      BY <3>1, SMTT(30) DEF IInv, Current, Exists, Sound, Genuine, Approval, AllReviewed
    <3>3. Publishing(b)'
      BY <3>1, SeparationUnchanged, Zenon DEF IInv
    <3> QED
      BY <3>2, <3>3, Zenon
  <2> QED
    BY <2>1, Zenon
<1>3. Sound(stored, decisions)' /\ (stored.state = "approved" => stored \in approvals)'
  BY Zenon DEF IInv, Sound, Genuine, Approval, AllReviewed
<1> QED
  BY <1>1, <1>2, <1>3, Zenon DEF IInv

\* The call returns, or fails.
LEMMA EndStep ==
  ASSUME IInv, NEW c \in Callers, call' = [call EXCEPT ![c] = Idle],
         UNCHANGED <<stored, approvals, decisions>>, evidence \subseteq evidence',
         PublishedWasApproved',
         \A e \in evidence' : e = [rev |-> e.rev, plan |-> e.plan, bundle |-> e.bundle]
  PROVE  IInv'
<1>1. call'[c] = Idle
  BY Zenon DEF IInv
<1>2. Current(c)' /\ Publishing(c)'
  BY <1>1, IdleCall, Zenon DEF Current, Publishing
<1> QED
  BY <1>2, IdleCall, CallStep, Zenon

\* A publication goes on with the draft it has loaded.
LEMMA ProceedStep ==
  ASSUME IInv, NEW c \in Callers, NEW x \in DraftCalls, call[c].step # "idle", x.draft = call[c].draft,
         call' = [call EXCEPT ![c] = x],
         UNCHANGED <<stored, evidence, published, approvals, decisions>>,
         x.step \in {"frozen", "verified", "checked"} =>
             x.draft \in approvals /\ SeparationAllowed(x.draft, x.by),
         x.step \in {"verified", "checked"} =>
             Represents(x.bundle, x.draft) /\ EvidenceFor(x.draft, x.bundle) # {}
  PROVE  IInv'
<1>1. call'[c] = x
  BY Zenon DEF IInv
<1>2. Current(c)'
  BY <1>1, SMTT(30) DEF IInv, Current, Exists, Sound, Genuine, Approval, AllReviewed
<1>3. Publishing(c)'
  BY <1>1, SMTT(30) DEF Publishing, SeparationAllowed, Represents, EvidenceFor
<1>4. PublishedWasApproved' /\ \A e \in evidence' : e = [rev |-> e.rev, plan |-> e.plan, bundle |-> e.bundle]
  BY Zenon DEF IInv, PublishedWasApproved
<1> QED
  BY <1>2, <1>3, <1>4, CallStep, Zenon

\* What is emitted for a draft pairs its assertions with payloads.
LEMMA EmissionsType ==
  ASSUME NEW d \in Draft, NEW bundle \in Emissions(d)
  PROVE  bundle \in SUBSET (AssertionIds \X Payloads)
<1>1. \A a \in DOMAIN d.assertions : a \in AssertionIds /\ d.assertions[a].payload \in Payloads
  BY AssertionsType, Zenon DEF Assertion
<1>2. Accepted(d) \subseteq AssertionIds \X Payloads
  BY <1>1 DEF Accepted
<1> QED
  BY <1>2, Zenon DEF Emissions

\* freeze() lets a call proceed only with an approved draft and separated people.
LEMMA FreezeStep ==
  ASSUME IInv, NEW c \in Callers, NEW person \in People, Freeze(c, person)
  PROVE  IInv'
<1> DEFINE granted == /\ FreezeAllowed(call[c].draft, person)
                      /\ stored = call[c].draft
                      /\ AllReviewed(call[c].draft)
                      /\ SeparationAllowed(call[c].draft, person)
<1>1. call[c] \in DraftCalls /\ call[c].step = "loaded" /\ UNCHANGED <<stored, evidence, published, approvals, decisions>>
  BY Zenon DEF Freeze, IInv
<1>2. CASE granted
  <2> DEFINE x == [call[c] EXCEPT !.step = "frozen", !.by = person]
  <2>1. x \in DraftCalls /\ x.step = "frozen" /\ x.by = person /\ x.draft = call[c].draft
    BY <1>1, Zenon DEF DraftCalls, Steps
  <2>2. call' = [call EXCEPT ![c] = x]
    BY <1>2, Zenon DEF Freeze
  <2>3. call[c].draft \in approvals /\ SeparationAllowed(call[c].draft, person)
    BY <1>2, Zenon DEF FreezeAllowed, IInv
  <2> HIDE DEF x
  <2> QED
    BY <1>1, <2>1, <2>2, <2>3, ProceedStep, Zenon
<1>3. CASE ~granted
  <2>1. call' = [call EXCEPT ![c] = Idle]
    BY <1>3, Zenon DEF Freeze
  <2> QED
    BY <1>1, <2>1, EndStep, Zenon DEF IInv, PublishedWasApproved
<1> QED
  BY <1>2, <1>3, Zenon

\* Materialization and verification bind the bundle to the frozen draft.
LEMMA MaterializeStep ==
  ASSUME IInv, NEW c \in Callers, MaterializeAndVerify(c)
  PROVE  IInv'
<1>1. call[c] \in DraftCalls /\ call[c].step = "frozen" /\ UNCHANGED <<stored, evidence, published, approvals, decisions>>
  BY Zenon DEF MaterializeAndVerify, IInv
<1>2. PICK bundle \in Emissions(call[c].draft) :
          call' = [call EXCEPT ![c] =
                      IF /\ StructurallyValid(call[c].draft, bundle)
                         /\ EvidenceFor(call[c].draft, bundle) # {}
                      THEN [@ EXCEPT !.step = "verified", !.bundle = bundle]
                      ELSE Idle]
  BY Zenon DEF MaterializeAndVerify
<1>3. CASE StructurallyValid(call[c].draft, bundle) /\ EvidenceFor(call[c].draft, bundle) # {}
  <2> DEFINE x == [call[c] EXCEPT !.step = "verified", !.bundle = bundle]
  <2>1. bundle \in SUBSET (AssertionIds \X Payloads)
    BY <1>1, EmissionsType, Zenon DEF DraftCalls
  <2>2. /\ x \in DraftCalls /\ x.step = "verified" /\ x.by = call[c].by /\ x.bundle = bundle
        /\ x.draft = call[c].draft
    BY <1>1, <2>1, Zenon DEF DraftCalls, Steps
  <2>3. call' = [call EXCEPT ![c] = x]
    BY <1>2, <1>3, Zenon
  <2>4. call[c].draft \in approvals /\ SeparationAllowed(call[c].draft, call[c].by)
    BY <1>1, Zenon DEF IInv, Publishing
  <2>5. Represents(bundle, call[c].draft)
    BY <1>3, Zenon DEF StructurallyValid
  <2> HIDE DEF x
  <2> QED
    BY <1>1, <1>3, <2>2, <2>3, <2>4, <2>5, ProceedStep, Zenon
<1>4. CASE ~(StructurallyValid(call[c].draft, bundle) /\ EvidenceFor(call[c].draft, bundle) # {})
  <2>1. call' = [call EXCEPT ![c] = Idle]
    BY <1>2, <1>4, Zenon
  <2> QED
    BY <1>1, <2>1, EndStep, Zenon DEF IInv, PublishedWasApproved
<1> QED
  BY <1>3, <1>4, Zenon

\* The binding check compares bundle and evidence with the frozen draft.
LEMMA CheckBindingStep ==
  ASSUME IInv, NEW c \in Callers, CheckBinding(c)
  PROVE  IInv'
<1>1. call[c] \in DraftCalls /\ call[c].step = "verified" /\ UNCHANGED <<stored, evidence, published, approvals, decisions>>
  BY Zenon DEF CheckBinding, IInv
<1>2. CASE stored = call[c].draft
  <2> DEFINE x == [call[c] EXCEPT !.step = "checked"]
  <2>1. /\ x \in DraftCalls /\ x.step = "checked" /\ x.by = call[c].by /\ x.bundle = call[c].bundle
        /\ x.draft = call[c].draft
    BY <1>1, Zenon DEF DraftCalls, Steps
  <2>2. call' = [call EXCEPT ![c] = x]
    BY <1>2, Zenon DEF CheckBinding
  <2>3. /\ call[c].draft \in approvals /\ SeparationAllowed(call[c].draft, call[c].by)
        /\ Represents(call[c].bundle, call[c].draft) /\ EvidenceFor(call[c].draft, call[c].bundle) # {}
    BY <1>1, Zenon DEF IInv, Publishing
  <2> HIDE DEF x
  <2> QED
    BY <1>1, <2>1, <2>2, <2>3, ProceedStep, Zenon
<1>3. CASE stored # call[c].draft
  <2>1. call' = [call EXCEPT ![c] = Idle]
    BY <1>3, Zenon DEF CheckBinding
  <2> QED
    BY <1>1, <2>1, EndStep, Zenon DEF IInv, PublishedWasApproved
<1> QED
  BY <1>2, <1>3, Zenon

\* The publication record is appended for a draft that was approved.
LEMMA AppendStep ==
  ASSUME IInv, NEW c \in Callers, AppendRecord(c)
  PROVE  IInv'
<1> DEFINE d == call[c].draft
           e == CHOOSE x \in EvidenceFor(call[c].draft, call[c].bundle) : TRUE
           r == [rev |-> d.rev, bundle |-> call[c].bundle, publisher |-> call[c].by, evidence |-> e]
<1>1. /\ UNCHANGED <<stored, evidence, approvals, decisions>> /\ call[c].step = "checked"
      /\ call' = [call EXCEPT ![c] = Idle]
  BY Zenon DEF AppendRecord
<1>2. /\ d \in approvals /\ SeparationAllowed(d, call[c].by) /\ Accepted(d) \subseteq call[c].bundle
      /\ EvidenceFor(d, call[c].bundle) # {}
  BY <1>1, Zenon DEF IInv, Publishing, Represents
<1>3. e \in EvidenceFor(d, call[c].bundle)
  BY <1>2, Zenon
<1> HIDE DEF e
<1>4. e = [rev |-> d.rev, plan |-> d.plan, bundle |-> call[c].bundle]
  <2>1. CASE d.plan = NoPlan
    BY <1>3, <2>1, Zenon DEF EvidenceFor
  <2>2. CASE d.plan # NoPlan
    <3>1. e \in evidence /\ e.rev = d.rev /\ e.plan = d.plan /\ e.bundle = call[c].bundle
      BY <1>3, <2>2, Zenon DEF EvidenceFor
    <3>2. e = [rev |-> e.rev, plan |-> e.plan, bundle |-> e.bundle]
      BY <3>1, Zenon DEF IInv
    <3> QED
      BY <3>1, <3>2, Zenon
  <2> QED
    BY <2>1, <2>2, Zenon
<1>5. published' = {r} \/ published' = published
  BY Zenon DEF AppendRecord, e
<1>6. /\ r.rev = d.rev /\ r.bundle = call[c].bundle /\ r.publisher = call[c].by /\ r.evidence = e
  BY Zenon
<1> HIDE DEF r, d
<1>7. PublishedWasApproved'
  <2>1. CASE published' = published
    BY <1>1, <2>1, Zenon DEF IInv, PublishedWasApproved
  <2>2. CASE published' = {r}
    <3>1. /\ d \in approvals' /\ d.rev = r.rev /\ Accepted(d) \subseteq r.bundle
          /\ r.evidence = [rev |-> r.rev, plan |-> d.plan, bundle |-> r.bundle]
          /\ SeparationAllowed(d, r.publisher)
      BY <1>1, <1>2, <1>4, <1>6, Zenon
    <3> QED
      BY <2>2, <3>1, Zenon DEF PublishedWasApproved
  <2> QED
    BY <1>5, <2>1, <2>2, Zenon
<1> QED
  BY <1>1, <1>7, EndStep, Zenon DEF IInv

\* The calls that try to store a draft.
Edits(c) ==
    \/ \E x \in Submissions, p \in People : EditDraftCall(c, x, p)
    \/ \E a \in AssertionIds, x \in Payloads, p \in People : EditAssertionCall(c, a, x, p)
    \/ \E plan \in Plans \cup {NoPlan} : ChangePlanCall(c, plan)
    \/ \E p \in People : SubmitCall(c, p) \/ ApproveCall(c, p) \/ EditNothingCall(c, p)
    \/ \E a \in AssertionIds, s \in {"approved", "rejected"}, p \in People : DecideCall(c, a, s, p)

\* Every edit is a compare-and-swap of a draft derived from the one that was loaded.
LEMMA EditsStore ==
  ASSUME IInv, NEW c \in Callers, Edits(c)
  PROVE  \E d : /\ Loaded(c) /\ StoreDraft(c, d) /\ Derived(call[c].draft, d)
                /\ stored' # stored => Genuine(d, decisions')
                /\ decisions \subseteq decisions'
<1> DEFINE o == call[c].draft
           Goal(d) == /\ Loaded(c) /\ StoreDraft(c, d) /\ Derived(o, d)
                      /\ stored' # stored => Genuine(d, decisions')
                      /\ decisions \subseteq decisions'
<1>0. ASSUME Loaded(c) PROVE Sound(o, decisions)
  BY <1>0, Zenon DEF IInv, Current, Loaded
<1>a. ASSUME NEW d, Loaded(c), StoreDraft(c, d), Derived(o, d)
      PROVE  stored' # stored => d # NoDraft /\ call[c].draft = stored
  BY <1>a, StoredOrSame, Zenon DEF StoreDraft
<1>1. ASSUME NEW x \in Submissions, NEW p \in People, EditDraftCall(c, x, p)
      PROVE  \E d : Goal(d)
  <2>1. Goal(EditDraft(o, x, p))
    BY <1>0, <1>1, <1>a, EditDraftDerived, Zenon DEF EditDraftCall
  <2> QED
    BY <2>1, Zenon
<1>2. ASSUME NEW a \in AssertionIds, NEW x \in Payloads, NEW p \in People, EditAssertionCall(c, a, x, p)
      PROVE  \E d : Goal(d)
  <2>1. Goal(EditAssertion(o, a, x, p))
    BY <1>0, <1>2, <1>a, EditAssertionDerived, Zenon DEF EditAssertionCall
  <2> QED
    BY <2>1, Zenon
<1>3. ASSUME NEW plan \in Plans \cup {NoPlan}, ChangePlanCall(c, plan)
      PROVE  \E d : Goal(d)
  <2>1. Goal(MutatePlan(o, plan))
    BY <1>0, <1>3, <1>a, MutatePlanDerived, Zenon DEF ChangePlanCall
  <2> QED
    BY <2>1, Zenon
<1>4. ASSUME NEW p \in People, SubmitCall(c, p)
      PROVE  \E d : Goal(d)
  <2>1. Goal(SubmitForReview(o, p))
    BY <1>0, <1>4, <1>a, SubmitForReviewDerived, Zenon DEF SubmitCall
  <2> QED
    BY <2>1, Zenon
<1>5. ASSUME NEW p \in People, ApproveCall(c, p)
      PROVE  \E d : Goal(d)
  <2>1. Goal(ApproveDraft(o, p))
    BY <1>0, <1>5, <1>a, ApproveDraftDerived, Zenon DEF ApproveCall
  <2> QED
    BY <2>1, Zenon
<1>6. ASSUME NEW p \in People, EditNothingCall(c, p)
      PROVE  \E d : Goal(d)
  <2>1. Goal(MutateNothing(o))
    BY <1>0, <1>6, <1>a, MutateNothingDerived, Zenon DEF EditNothingCall
  <2> QED
    BY <2>1, Zenon
<1>7. ASSUME NEW a \in AssertionIds, NEW s \in {"approved", "rejected"}, NEW p \in People, DecideCall(c, a, s, p)
      PROVE  \E d : Goal(d)
  <2> DEFINE n == DecideAssertion(o, a, s, p)
  <2>1. Loaded(c) /\ StoreDraft(c, n)
    BY <1>7, Zenon DEF DecideCall
  <2>2. Derived(o, n) /\ (n # NoDraft => Genuine(n, decisions \cup {<<a, o.assertions[a].payload, p>>}))
    BY <1>0, <2>1, DecideAssertionDerived, Zenon
  <2>3. stored' # stored => /\ n # NoDraft /\ o = stored
                            /\ decisions' = decisions \cup {<<a, stored.assertions[a].payload, p>>}
    BY <1>7, <1>a, <2>1, <2>2, Zenon DEF DecideCall
  <2>4. decisions \subseteq decisions'
    BY <1>7, Zenon DEF DecideCall
  <2> HIDE DEF n
  <2>5. Goal(n)
    BY <2>1, <2>2, <2>3, <2>4, Zenon
  <2> QED
    BY <2>5, Zenon
<1> QED
  BY <1>1, <1>2, <1>3, <1>4, <1>5, <1>6, <1>7, Zenon DEF Edits

\* create_draft stores a draft without reviews.
LEMMA CreateStep ==
  ASSUME IInv, NEW x \in NewAssertions, NEW plan \in Plans \cup {NoPlan}, NEW p \in People,
         CreateDraft(x, plan, p)
  PROVE  IInv'
<1>1. /\ stored' = NewDraft(x, plan, p) /\ UNCHANGED <<call, evidence, published, approvals, decisions>>
      /\ ~Exists
  BY Zenon DEF CreateDraft, Put, NewDraft
<1>2. \A y \in {Pending(q, v) : q \in Payloads, v \in {"manual", "current", "stale"}} :
          y \in Assertion /\ y.review = "pending"
  BY SMTT(30) DEF Pending, Assertion
<1>3. x \in Collections(Assertion) /\ \A a \in DOMAIN x : x[a].review = "pending"
  BY <1>2 DEF NewAssertions, Collections
<1>4. Sound(stored, decisions)' /\ stored'.state = "draft"
  BY <1>1, <1>3, Zenon DEF NewDraft, Sound, Draft, DraftStates, Approval, Genuine
<1>5. ASSUME NEW b \in Callers
      PROVE  Current(b)' /\ Publishing(b)'
  <2>1. call[b].step = "idle"
    BY <1>1, Zenon DEF IInv, Current
  <2> QED
    BY <1>1, <2>1, Zenon DEF Current, Publishing
<1>6. PublishedWasApproved'
  BY <1>1, Zenon DEF IInv, PublishedWasApproved
<1> QED
  BY <1>1, <1>4, <1>5, <1>6, Zenon DEF IInv

\* A call that loads has the stored draft.
LEMMA LoadStep ==
  ASSUME IInv, NEW c \in Callers, LoadDraft(c)
  PROVE  IInv'
<1> DEFINE x == [Idle EXCEPT !.step = "loaded", !.draft = stored]
<1>1. /\ Exists /\ call' = [call EXCEPT ![c] = x]
      /\ UNCHANGED <<stored, evidence, published, approvals, decisions>>
  BY Zenon DEF LoadDraft
<1>2. stored \in Draft /\ stored.rev \in Nat
  BY Zenon DEF IInv, Sound, Draft
<1>3. x \in DraftCalls /\ x.step = "loaded" /\ x.draft = stored
  BY <1>2, IdleCall, Zenon DEF DraftCalls, Steps
<1>4. call'[c] = x
  BY <1>1 DEF IInv
<1> HIDE DEF x
<1>5. Current(c)' /\ Publishing(c)'
  BY <1>1, <1>2, <1>3, <1>4, SMTT(30) DEF Current, Publishing, IInv, Exists, Sound, Genuine, Approval, AllReviewed
<1>6. PublishedWasApproved' /\ \A e \in evidence' : e = [rev |-> e.rev, plan |-> e.plan, bundle |-> e.bundle]
  BY <1>1, Zenon DEF IInv, PublishedWasApproved
<1> QED
  BY <1>1, <1>3, <1>5, <1>6, CallStep, Zenon

\* Recorded evidence is never removed.
LEMMA VerifyStep ==
  ASSUME IInv, NEW c \in Callers, VerifyDraft(c)
  PROVE  IInv'
<1>1. PICK bundle : /\ evidence' = evidence \cup {[rev |-> call[c].draft.rev, plan |-> call[c].draft.plan,
                                                   bundle |-> bundle]}
                    /\ call' = [call EXCEPT ![c] = Idle]
                    /\ UNCHANGED <<stored, published, approvals, decisions>>
  BY Zenon DEF VerifyDraft
<1>2. \A e \in evidence' : e = [rev |-> e.rev, plan |-> e.plan, bundle |-> e.bundle]
  BY <1>1 DEF IInv
<1>3. PublishedWasApproved'
  BY <1>1, Zenon DEF IInv, PublishedWasApproved
<1> QED
  BY <1>1, <1>2, <1>3, EndStep, Zenon

\* A call that ends leaves nothing behind.
LEMMA AbandonStep ==
  ASSUME IInv, NEW c \in Callers, Abandon(c)
  PROVE  IInv'
<1>1. PublishedWasApproved' /\ \A e \in evidence' : e = [rev |-> e.rev, plan |-> e.plan, bundle |-> e.bundle]
  BY Zenon DEF Abandon, IInv, PublishedWasApproved
<1> QED
  BY <1>1, EndStep, Zenon DEF Abandon

\* The invariant holds before the first draft.
LEMMA Initially == Init => IInv
<1> SUFFICES ASSUME Init PROVE IInv
  BY Zenon
<1>1. stored = NoDraft /\ Sound(stored, decisions)
  BY NoDraftSound, Zenon DEF Init
<1>2. stored.state # "approved"
  BY <1>1, Zenon DEF NoDraft, NewDraft
<1>3. call \in [Callers -> DraftCalls] /\ \A c \in Callers : call[c].step = "idle"
  BY IdleCall, Zenon DEF Init
<1>4. \A c \in Callers : Current(c) /\ Publishing(c)
  BY <1>3, Zenon DEF Current, Publishing
<1> QED
  BY <1>1, <1>2, <1>3, <1>4, Zenon DEF Init, IInv, PublishedWasApproved

\* Every step keeps it.
LEMMA Inductive == IInv /\ [Next]_vars => IInv'
<1> SUFFICES ASSUME IInv, [Next]_vars PROVE IInv'
  BY Zenon
<1>1. ASSUME NEW x \in NewAssertions, NEW plan \in Plans \cup {NoPlan}, NEW p \in People,
             CreateDraft(x, plan, p)
      PROVE  IInv'
  BY <1>1, CreateStep, Zenon
<1>2. ASSUME NEW c \in Callers, Edits(c)
      PROVE  IInv'
  BY <1>2, EditsStore, StoreStep, Zenon
<1>3. ASSUME NEW c \in Callers, NEW p \in People, Freeze(c, p)
      PROVE  IInv'
  BY <1>3, FreezeStep, Zenon
<1>4. ASSUME NEW c \in Callers,
             \/ LoadDraft(c) \/ VerifyDraft(c) \/ MaterializeAndVerify(c)
             \/ CheckBinding(c) \/ AppendRecord(c) \/ Abandon(c)
      PROVE  IInv'
  BY <1>4, LoadStep, VerifyStep, MaterializeStep, CheckBindingStep, AppendStep, AbandonStep, Zenon
<1>5. CASE UNCHANGED vars
  <2>1. UNCHANGED <<stored, call, evidence, published, approvals, decisions>>
    BY <1>5, Zenon DEF vars
  <2>2. Sound(stored, decisions)' /\ PublishedWasApproved'
    BY <2>1, Zenon DEF IInv, Sound, Genuine, Approval, AllReviewed, PublishedWasApproved
  <2>3. ASSUME NEW b \in Callers
        PROVE  Current(b)' /\ Publishing(b)'
    <3>1. Publishing(b)'
      BY <2>1, SeparationUnchanged, Zenon DEF IInv
    <3>2. Current(b)'
      BY <2>1, Zenon DEF IInv, Current, Exists, Sound, Genuine, Approval, AllReviewed
    <3> QED
      BY <3>1, <3>2, Zenon
  <2> QED
    BY <2>1, <2>2, <2>3, Zenon DEF IInv
<1>6. CASE Next
  BY <1>1, <1>2, <1>3, <1>4, <1>6, Zenon DEF Next, Edits
<1> QED
  BY <1>5, <1>6, Zenon

\* A step that changes the stored draft creates the first one or stores a
\* successor of the one that was there.
LEMMA StoredChanges ==
  ASSUME IInv, Next, stored' # stored
  PROVE  \/ ~Exists /\ stored'.state = "draft"
         \/ Carried(stored, stored') /\ stored'.rev = stored.rev + 1
<1>1. ASSUME NEW x \in NewAssertions, NEW plan \in Plans \cup {NoPlan}, NEW p \in People,
             CreateDraft(x, plan, p)
      PROVE  ~Exists /\ stored'.state = "draft"
  BY <1>1, Zenon DEF CreateDraft, Put, NewDraft
<1>2. ASSUME NEW c \in Callers, Edits(c)
      PROVE  Carried(stored, stored') /\ stored'.rev = stored.rev + 1
  BY <1>2, EditsStore, StoredOrSame, Zenon
<1>3. ASSUME NEW c \in Callers,
             \/ LoadDraft(c) \/ VerifyDraft(c) \/ MaterializeAndVerify(c)
             \/ CheckBinding(c) \/ AppendRecord(c) \/ Abandon(c)
             \/ \E p \in People : Freeze(c, p)
      PROVE  FALSE
  BY <1>3, Zenon DEF LoadDraft, VerifyDraft, MaterializeAndVerify, CheckBinding, AppendRecord, Abandon, Freeze
<1> QED
  BY <1>1, <1>2, <1>3, Zenon DEF Next, Edits

\* Every step of the admin calls and of a publication, lost calls included, preserves the
\* inductive invariant that the theorems below are read off from.
THEOREM DraftInvariant == Spec => []IInv
<1> QED
  BY Initially, Inductive, PTL DEF Spec

\* publish_draft: what reaches the catalog was approved under the revision it
\* names, is verified as that revision and bundle, and its publisher satisfies the
\* separation of duties, whatever other calls do in between.
THEOREM PublicationApproved == Spec => []PublishedWasApproved
<1>1. IInv => PublishedWasApproved
  BY Zenon DEF IInv
<1> QED
  BY <1>1, DraftInvariant, PTL

\* A review that counts was made by an authorized reviewer about the payload the
\* stored assertion has: edits never carry a review over to another payload.
THEOREM ReviewsGenuine == Spec => []ReviewsAreGenuine
<1>1. IInv => ReviewsAreGenuine
  BY Zenon DEF IInv, Sound, Genuine, ReviewsAreGenuine
<1> QED
  BY <1>1, DraftInvariant, PTL

\* InMemoryAssemblyDraftStore.replace: no stored draft is overwritten by one that
\* was derived from an older revision.
THEOREM RevisionLine == Spec => RevisionsAreLinear
<1>1. IInv /\ [Next]_vars => [Exists => stored'.rev = stored.rev + 1]_stored
  BY StoredChanges, Zenon DEF vars
<1> QED
  BY <1>1, DraftInvariant, PTL DEF Spec, RevisionsAreLinear

\* transition and mutate: a draft becomes or stays approved only with the content
\* and the plan that stood in review, all of it reviewed.
THEOREM ApprovalsCurrent == Spec => ApprovalIsCurrent
<1>1. IInv /\ [Next]_vars =>
        [stored'.state = "approved" =>
           /\ \/ stored.state = "review" \/ stored'.approvedBy = stored.approvedBy
           /\ stored'.assertions = stored.assertions /\ AllReviewed(stored)
           /\ stored'.plan = stored.plan /\ stored'.approvedPlan = stored.plan
           /\ Authorized(stored'.approvedBy, "approver")]_stored
  BY StoredChanges, Zenon DEF vars, Carried
<1> QED
  BY <1>1, DraftInvariant, PTL DEF Spec, ApprovalIsCurrent

-----------------------------------------------------------------------------
(* The PostgreSQL catalog *)

\* What a call knows of its bundle: a publication has read the clock, every other
\* call has found the version it is about.
CallsKnow ==
  \A w \in Workers :
    /\ job[w].op = "publish" => job[w].fp \in Fingerprints /\ job[w].at \in 1..MaxCalls
    /\ job[w].op \notin {"none", "publish"} => job[w].fp \in DOMAIN versions

\* One content per version, artifacts for whatever is referred to, and no history,
\* race or withdrawal without a pointer.
Referenced ==
  /\ \A f, g \in DOMAIN versions : VersionOf[f] = VersionOf[g] => f = g
  /\ PointerHasArtifact
  /\ pointer.fp = NoFp => pointer = NoPointer
  /\ pointer = NoPointer => Positions = {} /\ ~raced /\ ~withdrawn

\* The version rows agree with the pointer.
Marked ==
  /\ OneActiveVersion
  /\ pointer # NoPointer /\ ~withdrawn => versions[pointer.fp].state = "active"

\* The retained positions have no gap, and without a race they lead from the pointer
\* down the stack of activations.
Linked ==
  /\ \E low \in Nat \ {0}, high \in Nat : Positions = low..high
  /\ ~raced /\ pointer # NoPointer =>
       /\ Len(stack) >= 1 /\ pointer.fp = stack[Len(stack)]
       /\ \E low \in Nat \ {0} : Positions = low..pointer.seq
       /\ \A p \in Positions : /\ pointer.seq - p < Len(stack) - 1
                               /\ history[p] = stack[Len(stack) - 1 - (pointer.seq - p)]

CatalogInv == CatalogTypeOK /\ CallsKnow /\ Referenced /\ Marked /\ Linked

\* The newest position of an interval is its upper end.
LEMMA Ends ==
  ASSUME NEW low \in Nat, NEW high \in Nat, low <= high, Positions = low..high
  PROVE  Top = high
<1>1. \A p \in low..high : (\A q \in low..high : q <= p) <=> p = high
  OBVIOUS
<1>2. high \in low..high
  OBVIOUS
<1> QED  BY <1>1, <1>2, Zenon DEF Top

\* update_version_state changes the state of one row.
LEMMA StateSet ==
  ASSUME NEW v, v \in [DOMAIN v -> VersionRow], NEW fp, NEW s \in States
  PROVE  /\ DOMAIN SetState(v, fp, s) = DOMAIN v
         /\ SetState(v, fp, s) \in [DOMAIN v -> VersionRow]
         /\ \A f \in DOMAIN v : SetState(v, fp, s)[f].state = IF f = fp THEN s ELSE v[f].state
<1>1. CASE fp \in DOMAIN v
  <2>1. SetState(v, fp, s) = [v EXCEPT ![fp].state = s]
    BY <1>1, Zenon DEF SetState
  <2>2. [v[fp] EXCEPT !.state = s] \in VersionRow /\ [v[fp] EXCEPT !.state = s].state = s
    BY <1>1, Zenon DEF VersionRow
  <2> QED  BY <1>1, <2>1, <2>2, Zenon
<1>2. CASE fp \notin DOMAIN v
  BY <1>2, Zenon DEF SetState
<1> QED  BY <1>1, <1>2, Zenon

\* Replacing the active version by another leaves that one marked active, and the
\* pointer's superseded.
LEMMA SwappedStates ==
  ASSUME CatalogTypeOK, NEW to \in DOMAIN versions
  PROVE  /\ DOMAIN Swapped(to) = DOMAIN versions
         /\ Swapped(to) \in [DOMAIN versions -> VersionRow]
         /\ \A f \in DOMAIN versions :
              Swapped(to)[f].state = IF f = to THEN "active"
                                     ELSE IF f = pointer.fp THEN "superseded"
                                     ELSE versions[f].state
<1> DEFINE v == SetState(versions, pointer.fp, "superseded")
<1>1. versions \in [DOMAIN versions -> VersionRow] /\ "superseded" \in States /\ "active" \in States
  BY Zenon DEF CatalogTypeOK, States
<1>2. /\ DOMAIN v = DOMAIN versions /\ v \in [DOMAIN v -> VersionRow]
      /\ \A f \in DOMAIN v : v[f].state = IF f = pointer.fp THEN "superseded" ELSE versions[f].state
  BY <1>1, StateSet
<1>3. Swapped(to) = SetState(v, to, "active")
  BY Zenon DEF Swapped
<1> HIDE DEF v
<1>4. /\ DOMAIN SetState(v, to, "active") = DOMAIN v
      /\ SetState(v, to, "active") \in [DOMAIN v -> VersionRow]
      /\ \A f \in DOMAIN v : SetState(v, to, "active")[f].state = IF f = to THEN "active" ELSE v[f].state
  BY <1>1, <1>2, StateSet
<1> QED  BY <1>2, <1>3, <1>4, Zenon

\* Nothing is stored at the start.
LEMMA CatalogStart == CatalogInit => CatalogInv
<1> SUFFICES ASSUME CatalogInit PROVE CatalogInv
  BY Zenon
<1> USE CatalogAssumption
<1>1. DOMAIN versions = {} /\ Positions = {} /\ Positions = 1..0
  BY DEF CatalogInit, Positions
<1>2. CatalogTypeOK
  <2>1. versions \in [DOMAIN versions -> VersionRow] /\ history \in [Positions -> Fingerprints]
    BY <1>1 DEF CatalogInit, Positions
  <2>2. NoJob \in Job
    BY DEF NoJob, Job, Calls, NoFp
  <2>3. pointer \in [fp : Fingerprints \cup {NoFp}, seq : Nat] /\ clock \in 0..MaxCalls
    BY DEF CatalogInit, NoPointer
  <2>4. stack \in Seq(Fingerprints)
    BY DEF CatalogInit
  <2>5. job \in [Workers -> Job]
    BY <2>2, Zenon DEF CatalogInit
  <2>6. pubs = {} /\ raced = FALSE /\ withdrawn = FALSE
    BY Zenon DEF CatalogInit
  <2> QED  BY <1>1, <2>1, <2>3, <2>4, <2>5, <2>6, Zenon DEF CatalogTypeOK
<1>3. CallsKnow
  BY Zenon DEF CatalogInit, CallsKnow, NoJob
<1>4. Referenced
  BY <1>1, Zenon DEF CatalogInit, Referenced, PointerHasArtifact
<1>5. Marked
  BY <1>1, Zenon DEF CatalogInit, Marked, OneActiveVersion
<1>6. Linked
  <2>1. 1 \in Nat \ {0} /\ 0 \in Nat
    OBVIOUS
  <2> QED  BY <1>1, <2>1, Zenon DEF CatalogInit, Linked
<1> QED  BY <1>2, <1>3, <1>4, <1>5, <1>6, Zenon DEF CatalogInv

\* What leaves pointer, history and stack alone leaves them linked.
LEMMA LinkedStands ==
  ASSUME Linked, UNCHANGED <<pointer, history, stack, raced>>
  PROVE  Linked'
  BY Zenon DEF Linked, Positions

\* A step that changes no table keeps the invariant if the calls still know what they
\* are about.
LEMMA TablesStand ==
  ASSUME CatalogInv, Nothing, CallsKnow', clock' \in 0..MaxCalls,
         job' \in [Workers -> Job]
  PROVE  CatalogInv'
<1>1. CatalogTypeOK'
  BY Zenon DEF CatalogInv, CatalogTypeOK, Nothing, Positions
<1>2. Referenced'
  BY Zenon DEF CatalogInv, Referenced, PointerHasArtifact, Nothing, Positions
<1>3. Marked'
  BY Zenon DEF CatalogInv, Marked, OneActiveVersion, Nothing
<1>4. Linked'
  BY Zenon DEF CatalogInv, Linked, Nothing, Positions
<1> QED  BY <1>1, <1>2, <1>3, <1>4, Zenon DEF CatalogInv

\* A call that ends leaves the others as they are.
LEMMA DoneKnows ==
  ASSUME CatalogInv, NEW w \in Workers, Done(w), DOMAIN versions \subseteq DOMAIN versions'
  PROVE  /\ CallsKnow'
         /\ job' \in [Workers -> Job]
<1>1. job \in [Workers -> Job] /\ CallsKnow
  BY Zenon DEF CatalogInv, CatalogTypeOK
<1>2. NoJob \in Job
  BY CatalogAssumption DEF NoJob, Job, Calls, NoFp
<1>3. job' = [job EXCEPT ![w] = NoJob]
  BY Zenon DEF Done
<1>4. \A x \in Workers : job'[x] = IF x = w THEN NoJob ELSE job[x]
  BY <1>1, <1>3, Zenon
<1>5. NoJob.op = "none"
  BY Zenon DEF NoJob
<1>6. CallsKnow'
  BY <1>1, <1>4, <1>5, Zenon DEF CallsKnow
<1>7. job' \in [Workers -> Job]
  BY <1>1, <1>2, <1>3, Zenon
<1> QED  BY <1>6, <1>7, Zenon

\* A call begins by reading the clock, and what it is about.
LEMMA BeginStep ==
  ASSUME CatalogInv, NEW w \in Workers, NEW j \in Job, Begin(w, j),
         j.op = "publish" => j.fp \in Fingerprints,
         j.op \notin {"none", "publish"} => j.fp \in DOMAIN versions
  PROVE  CatalogInv'
<1>1. job \in [Workers -> Job] /\ CallsKnow /\ clock \in 0..MaxCalls /\ clock < MaxCalls
  BY Zenon DEF CatalogInv, CatalogTypeOK, Begin
<1> DEFINE k == [j EXCEPT !.at = clock + 1]
<1>2. clock + 1 \in 1..MaxCalls /\ clock + 1 \in 0..MaxCalls
  BY <1>1, CatalogAssumption
<1>3. k \in Job /\ k.op = j.op /\ k.fp = j.fp /\ k.at = clock + 1
  BY <1>2, Zenon DEF Job
<1>4. job' = [job EXCEPT ![w] = k] /\ clock' = clock + 1 /\ Nothing
  BY Zenon DEF Begin
<1> HIDE DEF k
<1>5. job' \in [Workers -> Job] /\ \A x \in Workers : job'[x] = IF x = w THEN k ELSE job[x]
  BY <1>1, <1>3, <1>4, Zenon
<1>6. versions' = versions
  BY <1>4, Zenon DEF Nothing
<1>7. CallsKnow'
  BY <1>1, <1>2, <1>3, <1>5, <1>6, Zenon DEF CallsKnow
<1> QED  BY <1>2, <1>4, <1>5, <1>7, TablesStand, Zenon

\* The four calls that begin with something to remember.
LEMMA CallBegins ==
  ASSUME CatalogInv, NEW w \in Workers, NEW fp \in Fingerprints,
         \/ BeginPublish(w, fp)
         \/ \E o \in Operators : BeginActivate(w, fp, "activate", o) \/ BeginRollbackTo(w, fp, o)
         \/ \E s \in {"deprecated", "retired"} : BeginSetState(w, fp, s)
  PROVE  CatalogInv'
<1>1. pubs \subseteq DOMAIN versions /\ 0 \in 0..MaxCalls
  BY CatalogAssumption DEF CatalogInv, CatalogTypeOK
<1>2. CASE BeginPublish(w, fp)
  <2> DEFINE j == [NoJob EXCEPT !.op = "publish", !.fp = fp]
  <2>1. j \in Job /\ j.op = "publish" /\ j.fp = fp
    BY <1>1, Zenon DEF NoJob, Job, Calls
  <2>2. Begin(w, j)
    BY <1>2, Zenon DEF BeginPublish
  <2> HIDE DEF j
  <2> QED  BY <2>1, <2>2, BeginStep, Zenon
<1>3. ASSUME NEW o \in Operators, NEW kind \in {"activate", "rollback"}, BeginActivate(w, fp, kind, o)
      PROVE  CatalogInv'
  <2> DEFINE j == [op |-> kind, fp |-> fp, at |-> 0, by |-> o]
  <2>1. j \in Job /\ j.op = kind /\ j.fp = fp
    BY <1>1, Zenon DEF Job, Calls
  <2>2. Begin(w, j) /\ fp \in DOMAIN versions
    BY <1>1, <1>3, Zenon DEF BeginActivate, Activatable
  <2> HIDE DEF j
  <2> QED  BY <2>1, <2>2, BeginStep, Zenon
<1>4. ASSUME NEW s \in {"deprecated", "retired"}, BeginSetState(w, fp, s)
      PROVE  CatalogInv'
  <2> DEFINE j == [NoJob EXCEPT !.op = s, !.fp = fp]
  <2>1. j \in Job /\ j.op = s /\ j.fp = fp
    BY <1>1, Zenon DEF NoJob, Job, Calls
  <2>2. Begin(w, j) /\ fp \in DOMAIN versions
    BY <1>1, <1>4, Zenon DEF BeginSetState
  <2> HIDE DEF j
  <2> QED  BY <2>1, <2>2, BeginStep, Zenon
<1> QED  BY <1>2, <1>3, <1>4, Zenon DEF BeginRollbackTo

\* A call that looks at the pointer goes on, or ends, about the same version.
LEMMA CallLooks ==
  ASSUME CatalogInv, NEW w \in Workers, SeeNoPointer(w) \/ CheckNotActive(w) \/ DropCall(w)
  PROVE  CatalogInv'
<1>1. job \in [Workers -> Job] /\ CallsKnow /\ clock \in 0..MaxCalls
  BY Zenon DEF CatalogInv, CatalogTypeOK
<1>2. Nothing /\ clock' = clock /\ versions' = versions
  BY Zenon DEF SeeNoPointer, CheckNotActive, DropCall, Nothing
<1>3. CASE job' = [job EXCEPT ![w] = NoJob]
  BY <1>1, <1>2, <1>3, DoneKnows, TablesStand, Zenon DEF Done
<1>4. ASSUME NEW op \in {"first", "retire"}, job' = [job EXCEPT ![w] = [@ EXCEPT !.op = op]],
             job[w].op \in {"activate", "rollback", "retired"}
      PROVE  CatalogInv'
  <2> DEFINE k == [job[w] EXCEPT !.op = op]
  <2>1. k \in Job /\ k.op = op /\ k.fp = job[w].fp
    BY <1>1, Zenon DEF Job, Calls
  <2>2. job' = [job EXCEPT ![w] = k]
    BY <1>4, Zenon
  <2>3. job[w].fp \in DOMAIN versions
    BY <1>1, <1>4, Zenon DEF CallsKnow
  <2> HIDE DEF k
  <2>4. job' \in [Workers -> Job] /\ \A x \in Workers : job'[x] = IF x = w THEN k ELSE job[x]
    BY <1>1, <2>1, <2>2, Zenon
  <2>5. CallsKnow'
    BY <1>1, <1>2, <2>1, <2>3, <2>4, Zenon DEF CallsKnow
  <2> QED  BY <1>1, <1>2, <2>4, <2>5, TablesStand, Zenon
<1>5. CASE SeeNoPointer(w)
  BY <1>3, <1>4, <1>5, Zenon DEF SeeNoPointer
<1>6. CASE CheckNotActive(w)
  BY <1>3, <1>4, <1>6, Zenon DEF CheckNotActive
<1>7. CASE DropCall(w)
  BY <1>3, <1>7, Zenon DEF DropCall, Done
<1> QED  BY <1>5, <1>6, <1>7, Zenon

\* A publication adds an available version under a version of its own and marks no row
\* active that was not.
LEMMA PublishStep ==
  ASSUME CatalogInv, NEW w \in Workers, Publish(w)
  PROVE  CatalogInv'
<1> DEFINE fp == job[w].fp
           pre == Predecessor
<1>1. /\ CatalogTypeOK /\ CallsKnow /\ Referenced /\ Marked /\ Linked
      /\ job[w].op = "publish" /\ Done(w)
      /\ UNCHANGED <<pointer, history, trail, clock, stack, raced, withdrawn>>
  BY Zenon DEF CatalogInv, Publish
<1>2. CASE ~PublishAllowed(fp)
  <2>1. Nothing
    BY <1>1, <1>2, Zenon DEF Publish, Nothing
  <2>2. DOMAIN versions \subseteq DOMAIN versions' /\ clock' \in 0..MaxCalls
    BY <1>1, <2>1, Zenon DEF Nothing, CatalogTypeOK
  <2> QED  BY <1>1, <2>1, <2>2, DoneKnows, TablesStand, Zenon
<1>3. CASE PublishAllowed(fp)
  <2>1. /\ pubs' = pubs \cup {fp}
        /\ versions' = [f \in DOMAIN versions \cup {fp} |->
                          IF f = fp THEN [state |-> "available", at |-> job[w].at]
                          ELSE IF f = pre THEN Succeeded(versions[f])
                          ELSE versions[f]]
    BY <1>3, Zenon DEF Publish
  <2>2. /\ fp \in Fingerprints /\ job[w].at \in 1..MaxCalls /\ fp \notin DOMAIN versions
        /\ \A g \in DOMAIN versions : VersionOf[g] # VersionOf[fp]
    BY <1>1, <1>3, Zenon DEF CallsKnow, PublishAllowed
  <2> HIDE DEF fp, pre
  <2>3. \A f \in DOMAIN versions :
          /\ Succeeded(versions[f]) \in VersionRow
          /\ Succeeded(versions[f]).state = "active" <=> versions[f].state = "active"
    <3>1. \A r \in VersionRow : /\ Succeeded(r) \in VersionRow
                                /\ Succeeded(r).state = "active" <=> r.state = "active"
      BY Zenon DEF Succeeded, VersionRow, States
    <3> QED  BY <1>1, <3>1, Zenon DEF CatalogTypeOK
  <2>4. [state |-> "available", at |-> job[w].at] \in VersionRow
    BY <2>2, Zenon DEF VersionRow, States
  <2>5. /\ DOMAIN versions' = DOMAIN versions \cup {fp}
        /\ versions' \in [DOMAIN versions' -> VersionRow]
        /\ versions'[fp].state # "active"
        /\ \A f \in DOMAIN versions : versions'[f].state = "active" <=> versions[f].state = "active"
    BY <1>1, <2>1, <2>2, <2>3, <2>4, Zenon DEF CatalogTypeOK
  <2>6. CallsKnow' /\ job' \in [Workers -> Job]
    BY <1>1, <2>5, DoneKnows, Zenon
  <2>7. CatalogTypeOK'
    BY <1>1, <2>1, <2>2, <2>5, <2>6, Zenon DEF CatalogTypeOK, Positions
  <2>8. Referenced'
    <3>1. (\A f, g \in DOMAIN versions : VersionOf[f] = VersionOf[g] => f = g)'
      BY <1>1, <2>2, <2>5, Zenon DEF Referenced
    <3>2. PointerHasArtifact'
      BY <1>1, <2>1, Zenon DEF Referenced, PointerHasArtifact, Positions
    <3> QED  BY <1>1, <3>1, <3>2, Zenon DEF Referenced, Positions
  <2>9. Marked'
    <3>1. OneActiveVersion'
      BY <1>1, <2>5, Zenon DEF Marked, OneActiveVersion
    <3>2. pointer # NoPointer => pointer.fp \in DOMAIN versions
      BY <1>1, Zenon DEF Referenced, PointerHasArtifact, CatalogTypeOK
    <3> QED  BY <1>1, <2>5, <3>1, <3>2, Zenon DEF Marked
  <2>10. Linked'
    BY <1>1, LinkedStands, Zenon
  <2> QED  BY <2>6, <2>7, <2>8, <2>9, <2>10, Zenon DEF CatalogInv
<1> QED  BY <1>2, <1>3, Zenon

\* A change of state marks nothing active and is remembered when the pointer's version
\* is concerned.
LEMMA WriteStateStep ==
  ASSUME CatalogInv, NEW w \in Workers, WriteState(w)
  PROVE  CatalogInv'
<1> DEFINE s == IF job[w].op = "retire" THEN "retired" ELSE "deprecated"
<1>1. /\ CatalogTypeOK /\ CallsKnow /\ Referenced /\ Marked /\ Linked
      /\ Done(w) /\ UNCHANGED <<pubs, edges, pointer, history, trail, clock, stack, raced>>
      /\ versions' = SetState(versions, job[w].fp, s)
      /\ withdrawn' = (withdrawn \/ pointer.fp = job[w].fp)
      /\ job[w].op \in {"retire", "deprecated"}
  BY Zenon DEF CatalogInv, WriteState
<1>2. s \in States /\ s # "active"
  BY Zenon DEF States
<1>3. job[w].fp \in DOMAIN versions
  BY <1>1, Zenon DEF CallsKnow
<1> HIDE DEF s
<1>4. versions \in [DOMAIN versions -> VersionRow]
  BY <1>1, Zenon DEF CatalogTypeOK
<1>5. /\ DOMAIN versions' = DOMAIN versions /\ versions' \in [DOMAIN versions -> VersionRow]
      /\ \A f \in DOMAIN versions :
           versions'[f].state = IF f = job[w].fp THEN s ELSE versions[f].state
  BY <1>1, <1>2, <1>4, StateSet
<1>6. CallsKnow' /\ job' \in [Workers -> Job]
  BY <1>1, <1>5, DoneKnows, Zenon
<1>7. CatalogTypeOK'
  BY <1>1, <1>5, <1>6, Zenon DEF CatalogTypeOK, Positions
<1>8. pointer = NoPointer => ~withdrawn'
  <2>1. pointer = NoPointer => pointer.fp \notin Fingerprints
    BY CatalogAssumption DEF NoPointer
  <2> QED  BY <1>1, <1>3, <2>1, Zenon DEF Referenced, CatalogTypeOK
<1>9. Referenced'
  <2>1. (\A f, g \in DOMAIN versions : VersionOf[f] = VersionOf[g] => f = g)'
    BY <1>1, <1>5, Zenon DEF Referenced
  <2>2. PointerHasArtifact' /\ (pointer.fp = NoFp => pointer = NoPointer)'
    BY <1>1, Zenon DEF Referenced, PointerHasArtifact, Positions
  <2>3. pointer' = NoPointer => Positions' = {} /\ ~raced' /\ ~withdrawn'
    BY <1>1, <1>8, Zenon DEF Referenced, Positions
  <2> QED  BY <2>1, <2>2, <2>3, Zenon DEF Referenced
<1>10. Marked'
  <2>1. OneActiveVersion'
    BY <1>1, <1>2, <1>5, Zenon DEF Marked, OneActiveVersion
  <2>2. pointer # NoPointer => pointer.fp \in DOMAIN versions
    BY <1>1, Zenon DEF Referenced, PointerHasArtifact, CatalogTypeOK
  <2> QED  BY <1>1, <1>5, <2>1, <2>2, Zenon DEF Marked
<1>11. Linked'
  BY <1>1, LinkedStands, Zenon
<1> QED  BY <1>6, <1>7, <1>9, <1>10, <1>11, Zenon DEF CatalogInv

\* cleanup removes no artifact that the pointer or the history names.
LEMMA CleanupStep ==
  ASSUME CatalogInv, Cleanup
  PROVE  CatalogInv'
<1>1. PICK S \in SUBSET Expired :
        /\ pubs' = pubs \ S /\ clock < MaxCalls /\ clock' = clock + 1
        /\ UNCHANGED <<versions, edges, pointer, history, job, stack, raced, withdrawn>>
  BY Zenon DEF Cleanup
<1>2. CatalogTypeOK /\ CallsKnow /\ Referenced /\ Marked /\ Linked
  BY Zenon DEF CatalogInv
<1>3. CatalogTypeOK'
  BY <1>1, <1>2, CatalogAssumption DEF CatalogTypeOK, Positions
<1>4. pointer.fp \notin S /\ \A p \in Positions : history[p] \notin S
  BY <1>1, Zenon DEF Expired
<1>5. Referenced'
  BY <1>1, <1>2, <1>4, Zenon DEF Referenced, PointerHasArtifact, Positions
<1>6. CallsKnow' /\ Marked' /\ Linked'
  BY <1>1, <1>2, Zenon DEF CallsKnow, Marked, OneActiveVersion, Linked, Positions
<1> QED  BY <1>3, <1>5, <1>6, Zenon DEF CatalogInv

\* The history with the pointer's version pushed and its tail trimmed.
Pushed == Trimmed([p \in Positions \cup {NextPosition} |->
                     IF p = NextPosition THEN pointer.fp ELSE history[p]], NextPosition)

\* Pushing leaves an interval that ends at the new position and keeps what is below.
LEMMA PushedHistory ==
  ASSUME CatalogInv, pointer # NoPointer
  PROVE  /\ NextPosition \in Nat \ {0}
         /\ \E low \in Nat \ {0} : low <= NextPosition /\ DOMAIN Pushed = low..NextPosition
         /\ Pushed[NextPosition] = pointer.fp
         /\ \A p \in DOMAIN Pushed : p # NextPosition => p \in Positions /\ Pushed[p] = history[p]
         /\ ~raced /\ Positions # {} => NextPosition = pointer.seq + 1
<1> DEFINE next == NextPosition
           h == [p \in Positions \cup {next} |-> IF p = next THEN pointer.fp ELSE history[p]]
<1>1. PICK low \in Nat \ {0}, high \in Nat : Positions = low..high
  BY Zenon DEF CatalogInv, Linked
<1>2. /\ Positions # {} => low <= high /\ next = high + 1
      /\ Positions = {} => next = 1
  BY <1>1, Ends DEF NextPosition
<1>3. next \in Nat \ {0} /\ next \notin Positions
  BY <1>1, <1>2
<1>4. \E a \in Nat \ {0} : a <= next /\ Positions \cup {next} = a..next
  <2>1. CASE Positions = {}
    BY <1>2, <2>1
  <2>2. CASE Positions # {}
    BY <1>1, <1>2, <2>2, SMTT(30)
  <2> QED  BY <2>1, <2>2, Zenon
<1>5. PICK a \in Nat \ {0} : a <= next /\ Positions \cup {next} = a..next
  BY <1>4, Zenon
<1>6. ~raced /\ Positions # {} => next = pointer.seq + 1
  <2> SUFFICES ASSUME ~raced, Positions # {} PROVE high = pointer.seq
    BY <1>2, Zenon
  <2>1. PICK l \in Nat \ {0} : Positions = l..pointer.seq
    BY Zenon DEF CatalogInv, Linked
  <2>2. pointer.seq \in Nat
    BY Zenon DEF CatalogInv, CatalogTypeOK
  <2> QED  BY <1>1, <2>1, <2>2
<1>7. Pushed = Trimmed(h, next)
  BY Zenon DEF Pushed
<1> HIDE DEF next
<1>8. CASE next + 1 <= MaxBundleHistory \/ next + 1 - MaxBundleHistory <= 1
  <2>1. Pushed = h
    BY <1>7, <1>8, Zenon DEF Trimmed
  <2> QED  BY <1>3, <1>5, <1>6, <2>1, Zenon DEF next
<1>9. CASE ~(next + 1 <= MaxBundleHistory \/ next + 1 - MaxBundleHistory <= 1)
  <2> DEFINE b == next + 1 - MaxBundleHistory
  <2>1. Pushed = [p \in {q \in DOMAIN h : q >= b} |-> h[p]]
    BY <1>7, <1>9, Zenon DEF Trimmed
  <2>2. b \in Nat \ {0} /\ b <= next
    BY <1>3, <1>9, CatalogAssumption
  <2> HIDE DEF b
  <2>3. \E c \in Nat \ {0} : c <= next /\ {q \in DOMAIN h : q >= b} = c..next
    <3>1. CASE a <= b
      <4>1. {q \in a..next : q >= b} = b..next
        BY <1>3, <2>2, <3>1
      <4> QED  BY <1>5, <2>2, <4>1, Zenon
    <3>2. CASE ~(a <= b)
      <4>1. {q \in a..next : q >= b} = a..next
        BY <1>3, <2>2, <3>2
      <4> QED  BY <1>5, <4>1, Zenon
    <3> QED  BY <3>1, <3>2, Zenon
  <2> QED  BY <1>3, <1>5, <1>6, <2>1, <2>2, <2>3, Zenon DEF next
<1> QED  BY <1>8, <1>9, Zenon

\* Activating another version pushes the pointer's onto the history and the new one
\* onto the stack.
LEMMA PointerMoves ==
  ASSUME CatalogInv, pointer # NoPointer, NEW fp \in pubs,
         history' = Pushed, versions' = Swapped(fp),
         pointer' = [fp |-> fp, seq |-> NextPosition],
         stack' = Append(stack, fp), withdrawn' = FALSE,
         UNCHANGED <<pubs, raced, clock>>, CallsKnow', job' \in [Workers -> Job]
  PROVE  CatalogInv'
<1>1. CatalogTypeOK /\ Referenced /\ Marked /\ Linked
  BY Zenon DEF CatalogInv
<1>2. /\ NextPosition \in Nat \ {0}
      /\ \A p \in DOMAIN Pushed : p # NextPosition => p \in Positions /\ Pushed[p] = history[p]
      /\ Pushed[NextPosition] = pointer.fp
      /\ ~raced /\ Positions # {} => NextPosition = pointer.seq + 1
  BY PushedHistory, Zenon
<1>2a. NextPosition \in Nat \ {0}
  BY <1>2, Zenon
<1>3. PICK low \in Nat \ {0} : low <= NextPosition /\ DOMAIN Pushed = low..NextPosition
  BY PushedHistory, Zenon
<1>4. fp \in DOMAIN versions /\ fp \in Fingerprints /\ pointer.fp \in pubs /\ pointer.fp \in Fingerprints
  BY <1>1, Zenon DEF CatalogTypeOK, Referenced, PointerHasArtifact
<1>5. /\ DOMAIN versions' = DOMAIN versions /\ versions' \in [DOMAIN versions -> VersionRow]
      /\ \A f \in DOMAIN versions :
           versions'[f].state = IF f = fp THEN "active"
                                ELSE IF f = pointer.fp THEN "superseded" ELSE versions[f].state
  BY <1>1, <1>4, SwappedStates, Zenon
<1>6. /\ pointer'.fp = fp /\ pointer'.seq = NextPosition /\ pointer' # NoPointer /\ fp # NoFp
      /\ Positions' = low..NextPosition
  BY <1>3, <1>4, CatalogAssumption, Zenon DEF NoPointer, Positions
<1>7. \A p \in Positions' : history'[p] \in pubs /\ history'[p] \in Fingerprints
  BY <1>1, <1>2, <1>3, <1>4, <1>6, Zenon DEF Referenced, PointerHasArtifact, CatalogTypeOK
<1>8. CatalogTypeOK'
  <2>1. history' = [p \in Positions' |-> history'[p]]
    <3>1. Pushed = [p \in DOMAIN Pushed |-> Pushed[p]]
      BY Zenon DEF Pushed, Trimmed
    <3> QED  BY <1>3, <1>6, <3>1, Zenon
  <2>2. history' \in [Positions' -> Fingerprints]
    BY <1>7, <2>1, Zenon
  <2>3. Positions' \subseteq Nat \ {0}
    BY <1>6, <1>2a
  <2>4. pointer' \in [fp : Fingerprints \cup {NoFp}, seq : Nat]
    BY <1>4, <1>2a, Zenon
  <2>5. stack' \in Seq(Fingerprints)
    BY <1>1, <1>4 DEF CatalogTypeOK
  <2> QED  BY <1>1, <1>5, <2>2, <2>3, <2>4, <2>5, Zenon DEF CatalogTypeOK
<1>9. Referenced'
  <2>1. (\A f, g \in DOMAIN versions : VersionOf[f] = VersionOf[g] => f = g)'
    BY <1>1, <1>5, Zenon DEF Referenced
  <2>2. PointerHasArtifact'
    BY <1>6, <1>7, Zenon DEF PointerHasArtifact
  <2>3. pointer'.fp # NoFp
    BY <1>6, Zenon
  <2> QED  BY <1>6, <2>1, <2>2, <2>3, Zenon DEF Referenced
<1>10. Marked'
  <2>1. OneActiveVersion'
    <3>1. SUFFICES ASSUME ~raced', NEW f \in DOMAIN versions, versions'[f].state = "active", f # fp
                   PROVE  FALSE
      BY <1>5, <1>6, Zenon DEF OneActiveVersion
    <3>2. f # pointer.fp /\ versions[f].state = "active"
      BY <1>5, <3>1, Zenon
    <3>3. ~raced
      BY <3>1, Zenon
    <3> QED  BY <1>1, <3>1, <3>2, <3>3, Zenon DEF Marked, OneActiveVersion
  <2>2. versions'[pointer'.fp].state = "active"
    BY <1>4, <1>5, <1>6, Zenon
  <2> QED  BY <2>1, <2>2, Zenon DEF Marked
<1>11. Linked'
  <2> DEFINE n == Len(stack)
             k == NextPosition
  <2>1. \E a \in Nat \ {0}, b \in Nat : Positions' = a..b
    BY <1>2, <1>6, Zenon
  <2>2. ASSUME ~raced'
        PROVE  /\ Len(stack') >= 1 /\ pointer'.fp = stack'[Len(stack')]
               /\ \A p \in Positions' :
                    /\ pointer'.seq - p < Len(stack') - 1
                    /\ history'[p] = stack'[Len(stack') - 1 - (pointer'.seq - p)]
    <3>1. ~raced
      BY <2>2, Zenon
    <3>2. /\ n \in Nat /\ n >= 1 /\ pointer.fp = stack[n] /\ pointer.seq \in Nat
          /\ \A p \in Positions : /\ pointer.seq - p < n - 1
                                  /\ history[p] = stack[n - 1 - (pointer.seq - p)]
      BY <1>1, <3>1 DEF Linked, CatalogTypeOK
    <3>3. Len(stack') = n + 1 /\ stack'[n + 1] = fp /\ \A i \in 1..n : stack'[i] = stack[i]
      BY <1>1, <1>4 DEF CatalogTypeOK
    <3> HIDE DEF n
    <3>4. ASSUME NEW p \in Positions'
          PROVE  k - p < n /\ history'[p] = stack'[n - (k - p)]
      <4>1. CASE p = k
        <5>1. n - (k - p) = n /\ k - p = 0
          BY <1>2, <3>2, <4>1
        <5>2. history'[p] = pointer.fp /\ n \in 1..n
          BY <1>2, <3>2, <4>1
        <5>3. stack'[n] = pointer.fp /\ 0 < n
          BY <3>2, <3>3, <5>2
        <5> QED  BY <5>1, <5>2, <5>3, Zenon
      <4>2. CASE p # k
        <5>1. p \in Positions /\ history'[p] = history[p]
          BY <1>2, <1>3, <1>6, <3>4, <4>2, Zenon
        <5>2. k = pointer.seq + 1 /\ p \in Nat /\ p <= k
          BY <1>2, <1>3, <1>6, <3>1, <3>4, <5>1
        <5>3. pointer.seq - p < n - 1 /\ history[p] = stack[n - 1 - (pointer.seq - p)]
          BY <3>2, <5>1, Zenon
        <5> DEFINE q == pointer.seq
        <5>4. q \in Nat /\ q - p < n - 1 /\ p <= q /\ n \in Nat /\ k = q + 1
          BY <3>2, <4>2, <5>2, <5>3
        <5> HIDE DEF q
        <5>5. n - (k - p) = n - 1 - (q - p) /\ n - (k - p) \in 1..n /\ k - p < n
          BY <5>2, <5>4
        <5>6. stack'[n - (k - p)] = stack[n - (k - p)]
          BY <3>3, <5>5, Zenon
        <5> QED  BY <5>1, <5>3, <5>5, <5>6, Zenon DEF q
      <4> QED  BY <4>1, <4>2, Zenon
    <3>5. pointer'.seq = k /\ Len(stack') - 1 = n
      BY <1>6, <3>2, <3>3
    <3>6. Len(stack') >= 1 /\ pointer'.fp = stack'[Len(stack')]
      BY <1>6, <3>2, <3>3
    <3> QED  BY <3>4, <3>5, <3>6, Zenon
  <2>3. \E a \in Nat \ {0} : Positions' = a..pointer'.seq
    BY <1>6, Zenon
  <2> QED  BY <2>1, <2>2, <2>3, Zenon DEF Linked
<1> QED  BY <1>8, <1>9, <1>10, <1>11, Zenon DEF CatalogInv

\* With a pointer to lock, an activation restores its version's mark, moves the pointer
\* or changes nothing.
LEMMA MovePointerStep ==
  ASSUME CatalogInv, NEW w \in Workers, MovePointer(w)
  PROVE  CatalogInv'
<1> DEFINE fp == job[w].fp
<1>1. /\ CatalogTypeOK /\ CallsKnow /\ Referenced /\ Marked /\ Linked
      /\ job[w].op \in {"activate", "rollback"} /\ pointer # NoPointer /\ Done(w)
      /\ UNCHANGED <<pubs, edges, clock, raced>>
  BY Zenon DEF CatalogInv, MovePointer
<1>2. fp \in DOMAIN versions /\ pointer.fp \in DOMAIN versions
  BY <1>1, Zenon DEF CallsKnow, Referenced, PointerHasArtifact, CatalogTypeOK
<1>3. CASE VersionOf[pointer.fp] = VersionOf[fp]
  <2>1. fp = pointer.fp
    BY <1>1, <1>2, <1>3, Zenon DEF Referenced
  <2>2. /\ versions' = SetState(versions, fp, "active") /\ withdrawn' = FALSE
        /\ UNCHANGED <<pointer, history, trail, stack>>
    BY <1>3, <2>1, Zenon DEF MovePointer
  <2> HIDE DEF fp
  <2>3. versions \in [DOMAIN versions -> VersionRow] /\ "active" \in States
    BY <1>1, Zenon DEF CatalogTypeOK, States
  <2>4. /\ DOMAIN versions' = DOMAIN versions /\ versions' \in [DOMAIN versions -> VersionRow]
        /\ \A f \in DOMAIN versions :
             versions'[f].state = IF f = fp THEN "active" ELSE versions[f].state
    BY <2>2, <2>3, StateSet
  <2>5. CallsKnow' /\ job' \in [Workers -> Job]
    BY <1>1, <2>4, DoneKnows, Zenon
  <2>6. CatalogTypeOK'
    BY <1>1, <2>2, <2>4, <2>5, Zenon DEF CatalogTypeOK, Positions
  <2>7. Referenced'
    BY <1>1, <2>2, <2>4, Zenon DEF Referenced, PointerHasArtifact, Positions
  <2>8. Marked'
    BY <1>1, <1>2, <2>1, <2>2, <2>4, Zenon DEF Marked, OneActiveVersion
  <2>9. Linked'
    BY <1>1, <2>2, LinkedStands, Zenon
  <2> QED  BY <2>5, <2>6, <2>7, <2>8, <2>9, Zenon DEF CatalogInv
<1>4. CASE /\ VersionOf[pointer.fp] # VersionOf[fp]
           /\ fp \in pubs /\ TrailAccepts(EventOf(w, job[w].op, fp))
  <2>1. /\ history' = Pushed /\ versions' = Swapped(fp)
        /\ pointer' = [fp |-> fp, seq |-> NextPosition]
        /\ stack' = Append(stack, fp) /\ withdrawn' = FALSE
    BY <1>4, Zenon DEF MovePointer, Pushed
  <2>2. DOMAIN versions' = DOMAIN versions
    BY <1>1, <1>2, <2>1, SwappedStates, Zenon
  <2>3. CallsKnow' /\ job' \in [Workers -> Job]
    BY <1>1, <2>2, DoneKnows, Zenon
  <2> QED  BY <1>1, <1>4, <2>1, <2>3, PointerMoves, Zenon
<1>5. CASE /\ VersionOf[pointer.fp] # VersionOf[fp]
           /\ ~(fp \in pubs /\ TrailAccepts(EventOf(w, job[w].op, fp)))
  <2>1. Nothing
    BY <1>1, <1>5, Zenon DEF MovePointer, Nothing
  <2>2. DOMAIN versions \subseteq DOMAIN versions' /\ clock' \in 0..MaxCalls
    BY <1>1, <2>1, Zenon DEF Nothing, CatalogTypeOK
  <2> QED  BY <1>1, <2>1, <2>2, DoneKnows, TablesStand, Zenon
<1> QED  BY <1>3, <1>4, <1>5, Zenon

\* A first activation finds no pointer and starts the stack, or overwrites one and is
\* recorded as a race.
LEMMA FirstActivationStep ==
  ASSUME CatalogInv, NEW w \in Workers, FirstActivation(w)
  PROVE  CatalogInv'
<1> DEFINE fp == job[w].fp
           e == [kind |-> "activate", prior |-> NoFp, to |-> fp, operator |-> job[w].by]
<1>1. /\ CatalogTypeOK /\ CallsKnow /\ Referenced /\ Marked /\ Linked
      /\ job[w].op = "first" /\ Done(w)
      /\ UNCHANGED <<pubs, edges, history, clock>>
  BY Zenon DEF CatalogInv, FirstActivation
<1>2. fp \in DOMAIN versions
  BY <1>1, Zenon DEF CallsKnow
<1>3. CASE ~(fp \in pubs /\ TrailAccepts(e))
  <2>1. Nothing
    BY <1>1, <1>3, Zenon DEF FirstActivation, Nothing
  <2>2. DOMAIN versions \subseteq DOMAIN versions' /\ clock' \in 0..MaxCalls
    BY <1>1, <2>1, Zenon DEF Nothing, CatalogTypeOK
  <2> QED  BY <1>1, <2>1, <2>2, DoneKnows, TablesStand, Zenon
<1>4. CASE fp \in pubs /\ TrailAccepts(e)
  <2>1. /\ pointer' = [fp |-> fp, seq |-> 0] /\ versions' = SetState(versions, fp, "active")
        /\ stack' = <<fp>> /\ raced' = (raced \/ pointer # NoPointer) /\ withdrawn' = FALSE
    BY <1>4, Zenon DEF FirstActivation
  <2>2. fp \in Fingerprints /\ fp \in pubs
    BY <1>1, <1>2, <1>4, Zenon DEF CatalogTypeOK
  <2> HIDE DEF fp
  <2>3. versions \in [DOMAIN versions -> VersionRow] /\ "active" \in States
    BY <1>1, Zenon DEF CatalogTypeOK, States
  <2>4. /\ DOMAIN versions' = DOMAIN versions /\ versions' \in [DOMAIN versions -> VersionRow]
        /\ \A f \in DOMAIN versions :
             versions'[f].state = IF f = fp THEN "active" ELSE versions[f].state
    BY <2>1, <2>3, StateSet
  <2>5. CallsKnow' /\ job' \in [Workers -> Job]
    BY <1>1, <2>4, DoneKnows, Zenon
  <2>6. pointer'.fp = fp /\ pointer'.seq = 0 /\ pointer' # NoPointer /\ fp # NoFp
    BY <2>1, <2>2, CatalogAssumption, Zenon DEF NoPointer
  <2>7. CatalogTypeOK'
    <3>1. stack' \in Seq(Fingerprints)
      BY <2>1, <2>2
    <3>2. pointer' \in [fp : Fingerprints \cup {NoFp}, seq : Nat]
      BY <2>1, <2>2, Zenon
    <3> QED  BY <1>1, <2>1, <2>4, <2>5, <3>1, <3>2, Zenon DEF CatalogTypeOK, Positions
  <2>8. Referenced'
    BY <1>1, <2>2, <2>4, <2>6, Zenon DEF Referenced, PointerHasArtifact, Positions
  <2>9. Marked'
    <3>1. ASSUME ~raced', NEW f \in DOMAIN versions, versions'[f].state = "active"
          PROVE  f = fp
      <4>1. pointer = NoPointer /\ ~raced
        BY <2>1, <3>1, Zenon
      <4>2. f # NoFp /\ pointer.fp = NoFp
        BY <1>1, <4>1, CatalogAssumption, Zenon DEF CatalogTypeOK, NoPointer
      <4>3. versions[f].state # "active"
        BY <1>1, <4>1, <4>2, Zenon DEF Marked, OneActiveVersion
      <4> QED  BY <2>4, <3>1, <4>3, Zenon
    <3> QED  BY <1>2, <2>4, <2>6, <3>1, Zenon DEF Marked, OneActiveVersion, fp
  <2>10. Linked'
    <3>1. Len(stack') = 1 /\ stack'[1] = fp
      BY <2>1, Zenon
    <3>2. ~raced' => Positions' = {}
      BY <1>1, <2>1, Zenon DEF Referenced, Positions
    <3>3. 1 \in Nat \ {0} /\ 1..0 = {}
      OBVIOUS
    <3>4. \E low \in Nat \ {0}, high \in Nat : Positions' = low..high
      BY <1>1, Zenon DEF Linked, Positions
    <3> QED  BY <2>6, <3>1, <3>2, <3>3, <3>4 DEF Linked
  <2> QED  BY <2>5, <2>7, <2>8, <2>9, <2>10, Zenon DEF CatalogInv
<1> QED  BY <1>3, <1>4, Zenon


\* A rollback restores the newest retained version: the history loses its last position
\* and the stack its last activation.
LEMMA RollbackStep ==
  ASSUME CatalogInv, NEW w \in Workers, NEW o \in Operators, Rollback(w, o)
  PROVE  CatalogInv'
<1> DEFINE to == history[Top]
<1>1. CatalogTypeOK /\ CallsKnow /\ Referenced /\ Marked /\ Linked
  BY Zenon DEF CatalogInv
<1>2. /\ clock < MaxCalls /\ clock' = clock + 1 /\ RollbackAllowed
      /\ pointer' = [fp |-> to, seq |-> Top - 1] /\ versions' = Swapped(to)
      /\ history' = [p \in Positions \ {Top} |-> history[p]]
      /\ stack' = SubSeq(stack, 1, Len(stack) - 1) /\ withdrawn' = FALSE
      /\ UNCHANGED <<pubs, edges, job, raced>>
  BY Zenon DEF Rollback, Restored
<1>3. pointer # NoPointer /\ Positions # {} /\ to \in pubs /\ Top = pointer.seq
  BY <1>2, Zenon DEF RollbackAllowed
<1>4. PICK low \in Nat \ {0}, high \in Nat : Positions = low..high
  BY <1>1, Zenon DEF Linked
<1>5. low <= high /\ Top = high /\ Top \in Positions /\ Top - 1 \in Nat /\ Top \in Nat
  BY <1>3, <1>4, Ends DEF Top
<1>6. to \in DOMAIN versions /\ to \in Fingerprints
  BY <1>1, <1>3, Zenon DEF CatalogTypeOK
<1>7. /\ DOMAIN versions' = DOMAIN versions /\ versions' \in [DOMAIN versions -> VersionRow]
      /\ \A f \in DOMAIN versions :
           versions'[f].state = IF f = to THEN "active"
                                ELSE IF f = pointer.fp THEN "superseded" ELSE versions[f].state
  BY <1>1, <1>2, <1>6, SwappedStates, Zenon
<1> HIDE DEF to
<1>8. pointer'.fp = to /\ pointer'.seq = Top - 1 /\ pointer' # NoPointer /\ to # NoFp
  BY <1>2, <1>6, CatalogAssumption, Zenon DEF NoPointer
<1>9. /\ Positions' = Positions \ {Top} /\ Positions' = low..(Top - 1)
      /\ \A p \in Positions' : p \in Positions /\ history'[p] = history[p]
  BY <1>2, <1>4, <1>5 DEF Positions
<1>10. stack' \in Seq(Fingerprints)
  <2>1. stack \in Seq(Fingerprints)
    BY <1>1, Zenon DEF CatalogTypeOK
  <2> QED  BY <1>2, <2>1
<1>11. CatalogTypeOK'
  <2>1. history' \in [Positions' -> Fingerprints] /\ Positions' \subseteq Nat \ {0}
    BY <1>1, <1>2, <1>9, Zenon DEF CatalogTypeOK, Positions
  <2>2. pointer' \in [fp : Fingerprints \cup {NoFp}, seq : Nat]
    BY <1>2, <1>5, <1>6, Zenon
  <2>3. clock' \in 0..MaxCalls
    BY <1>1, <1>2, CatalogAssumption DEF CatalogTypeOK
  <2> QED  BY <1>1, <1>2, <1>7, <1>10, <2>1, <2>2, <2>3, Zenon DEF CatalogTypeOK
<1>12. CallsKnow'
  BY <1>1, <1>2, <1>7, Zenon DEF CallsKnow
<1>13. Referenced'
  <2>1. (\A f, g \in DOMAIN versions : VersionOf[f] = VersionOf[g] => f = g)'
    BY <1>1, <1>7, Zenon DEF Referenced
  <2>2. PointerHasArtifact'
    BY <1>1, <1>2, <1>3, <1>8, <1>9, Zenon DEF Referenced, PointerHasArtifact
  <2> QED  BY <1>8, <2>1, <2>2, Zenon DEF Referenced
<1>14. Marked'
  BY <1>1, <1>2, <1>6, <1>7, <1>8, Zenon DEF Marked, OneActiveVersion
<1>15. Linked'
  <2> DEFINE n == Len(stack)
  <2>1. \E a \in Nat \ {0}, b \in Nat : Positions' = a..b
    BY <1>5, <1>9, Zenon
  <2>2. ASSUME ~raced
        PROVE  /\ Len(stack') >= 1 /\ pointer'.fp = stack'[Len(stack')]
               /\ \A p \in Positions' :
                    /\ pointer'.seq - p < Len(stack') - 1
                    /\ history'[p] = stack'[Len(stack') - 1 - (pointer'.seq - p)]
    <3>1. /\ n \in Nat /\ n >= 1
          /\ \A p \in Positions : /\ Top - p < n - 1
                                  /\ history[p] = stack[n - 1 - (Top - p)]
      BY <1>1, <1>3, <2>2 DEF Linked, CatalogTypeOK
    <3>2. n >= 2 /\ to = stack[n - 1]
      <4>1. Top - Top < n - 1 /\ history[Top] = stack[n - 1 - (Top - Top)]
        BY <1>5, <3>1, Zenon
      <4>2. Top - Top = 0 /\ n - 1 - 0 = n - 1
        BY <1>5, <3>1
      <4> QED  BY <3>1, <4>1, <4>2 DEF to
    <3>3. Len(stack') = n - 1 /\ \A i \in 1..(n - 1) : stack'[i] = stack[i]
      <4>1. stack \in Seq(Fingerprints)
        BY <1>1, Zenon DEF CatalogTypeOK
      <4> QED  BY <1>2, <3>1, <3>2, <4>1
    <3> HIDE DEF n
    <3>4. ASSUME NEW p \in Positions'
          PROVE  Top - 1 - p < n - 2 /\ history'[p] = stack'[n - 2 - (Top - 1 - p)]
      <4>1. p \in Positions /\ history'[p] = history[p] /\ p \in Nat /\ p <= Top - 1
        BY <1>4, <1>5, <1>9
      <4>2. Top - p < n - 1 /\ history[p] = stack[n - 1 - (Top - p)]
        BY <3>1, <4>1, Zenon
      <4>3. n - 2 - (Top - 1 - p) = n - 1 - (Top - p) /\ n - 1 - (Top - p) \in 1..(n - 1)
        BY <1>5, <3>1, <4>1, <4>2
      <4>4. stack'[n - 1 - (Top - p)] = stack[n - 1 - (Top - p)]
        BY <3>3, <4>3, Zenon
      <4>5. Top - 1 - p < n - 2
        BY <1>5, <3>1, <4>1, <4>2
      <4> QED  BY <4>1, <4>2, <4>3, <4>4, <4>5, Zenon
    <3>5. pointer'.seq = Top - 1 /\ Len(stack') - 1 = n - 2
      BY <1>8, <3>1, <3>3
    <3> QED  BY <1>8, <3>1, <3>2, <3>3, <3>4, <3>5
  <2> QED  BY <1>2, <1>8, <1>9, <2>1, <2>2, Zenon DEF Linked
<1> QED  BY <1>11, <1>12, <1>13, <1>14, <1>15, Zenon DEF CatalogInv

\* Every step of every worker, and every cleanup, keeps the catalog's invariant.
LEMMA CatalogStep == CatalogInv /\ [CatalogNext]_catalogVars => CatalogInv'
<1> SUFFICES ASSUME CatalogInv, [CatalogNext]_catalogVars PROVE CatalogInv'
  BY Zenon
<1>1. CASE UNCHANGED catalogVars
  <2>1. Nothing /\ job' = job /\ clock' = clock /\ versions' = versions
    BY <1>1, Zenon DEF catalogVars, Nothing
  <2>2. CallsKnow' /\ job' \in [Workers -> Job] /\ clock' \in 0..MaxCalls
    BY <2>1, Zenon DEF CatalogInv, CatalogTypeOK, CallsKnow
  <2> QED  BY <2>1, <2>2, TablesStand, Zenon
<1>2. CASE Cleanup
  BY <1>2, CleanupStep, Zenon
<1>3. ASSUME NEW w \in Workers, NEW fp \in Fingerprints,
             \/ BeginPublish(w, fp)
             \/ \E o \in Operators : BeginActivate(w, fp, "activate", o) \/ BeginRollbackTo(w, fp, o)
             \/ \E s \in {"deprecated", "retired"} : BeginSetState(w, fp, s)
      PROVE  CatalogInv'
  BY <1>3, CallBegins, Zenon
<1>4. ASSUME NEW w \in Workers,
             Publish(w) \/ MovePointer(w) \/ SeeNoPointer(w) \/ FirstActivation(w)
      PROVE  CatalogInv'
  BY <1>4, PublishStep, MovePointerStep, CallLooks, FirstActivationStep, Zenon
<1>5. ASSUME NEW w \in Workers,
             (\E o \in Operators : Rollback(w, o)) \/ CheckNotActive(w) \/ WriteState(w) \/ DropCall(w)
      PROVE  CatalogInv'
  BY <1>5, RollbackStep, CallLooks, WriteStateStep, Zenon
<1> QED  BY <1>1, <1>2, <1>3, <1>4, <1>5, Zenon DEF CatalogNext

\* The catalog's inductive invariant holds for any number of workers, contents and calls.
THEOREM CatalogInvariant == CatalogSpec => []CatalogInv
  BY CatalogStart, CatalogStep, PTL DEF CatalogSpec

\* Unless two first activations overlapped, the pointer is the version activated last, and
\* the retained history leads from it back without a gap, for any limit on the history:
\* rollback restores the predecessor or refuses.
THEOREM CatalogHistoryLeadsBack == CatalogSpec => []HistoryLeadsBack
<1>1. CatalogInv => HistoryLeadsBack
  <2> SUFFICES ASSUME CatalogInv, ~raced, pointer # NoPointer
               PROVE  /\ pointer.fp = stack[Len(stack)]
                      /\ Positions # {} => Top = pointer.seq
                      /\ \A p \in Positions : /\ Top - p < Len(stack) - 1
                                              /\ history[p] = stack[Len(stack) - 1 - (Top - p)]
                      /\ \A p \in Positions : p..Top \subseteq Positions
    BY Zenon DEF HistoryLeadsBack
  <2>1. Linked /\ pointer.seq \in Nat
    BY Zenon DEF CatalogInv, CatalogTypeOK
  <2>2. PICK low \in Nat \ {0} : Positions = low..pointer.seq
    BY <2>1, Zenon DEF Linked
  <2>3. Positions # {} => low <= pointer.seq
    BY <2>1, <2>2
  <2>4. Positions # {} => Top = pointer.seq
    BY <2>1, <2>2, <2>3, Ends, Zenon
  <2>5. \A p \in Positions : p..Top \subseteq Positions
    BY <2>1, <2>2, <2>4
  <2> QED  BY <2>1, <2>4, <2>5, Zenon DEF Linked
<1> QED  BY <1>1, CatalogInvariant, PTL

\* Whenever the process stops, reload_active accepts what it finds, unless an operator has
\* withdrawn the active version.
THEOREM CatalogRestartServes == CatalogSpec => []RestartServes
<1>1. CatalogInv => RestartServes
  <2> SUFFICES ASSUME CatalogInv, ~withdrawn PROVE ReloadAccepts
    BY Zenon DEF RestartServes
  <2>1. CASE pointer = NoPointer
    <3>1. pointer.fp \notin DOMAIN versions
      BY <2>1, CatalogAssumption, Zenon DEF CatalogInv, CatalogTypeOK, NoPointer
    <3> QED  BY <2>1, <3>1, Zenon DEF CatalogInv, Referenced, Marked, OneActiveVersion, ReloadAccepts
  <2>2. CASE pointer # NoPointer
    BY <2>2, Zenon DEF CatalogInv, Marked, Referenced, PointerHasArtifact, ReloadAccepts, Serves
  <2> QED  BY <2>1, <2>2, Zenon
<1> QED  BY <1>1, CatalogInvariant, PTL

\* Whatever cleanup removes and whenever, the pointer and every version a rollback could
\* restore have their artifact; and unless first activations overlapped, only the
\* pointer's version is marked active.
THEOREM CatalogKeepsReferenced == CatalogSpec => [](PointerHasArtifact /\ OneActiveVersion)
<1>1. CatalogInv => PointerHasArtifact /\ OneActiveVersion
  BY Zenon DEF CatalogInv, Referenced, Marked
<1> QED  BY <1>1, CatalogInvariant, PTL
=============================================================================
