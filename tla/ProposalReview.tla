--------------------------- MODULE ProposalReview ---------------------------
(***************************************************************************)
(* Proposals inferred from a snapshot, what approved ones become           *)
(* (metadata/inference.py, proposals.py, conversion.py,                    *)
(* assembly/adapters.py), and their review through the admin service       *)
(* (metadata_admin.py, assembly_admin.py) over the durable repository.     *)
(*                                                                         *)
(* The members of a fact are kept uniformly: an entity, a field and a set  *)
(* of further values (type, role, fields, aggregation, alias or class); a  *)
(* relationship has target fields as well.                                 *)
(* What the name patterns recognise is given by constants.  A target and a *)
(* proposal id are tuples of the parts the code joins.  Labels, evidence   *)
(* and confidence are left out.                                            *)
(*                                                                         *)
(* A reviewer looks at a set and sends a command with its fingerprint.     *)
(* review_proposals reads the set, compares the fingerprint and saves the  *)
(* new set; reading and saving are transactions of their own.  A set is    *)
(* identified by its content, times of inference and revision included.    *)
(* Creating a draft reads the set, then the snapshot.                      *)
(***************************************************************************)
EXTENDS SnapshotStores

CONSTANTS
    IdentifierNames,   \* names _IDENTIFIER_RE matches
    ReferenceNames,    \* [name -> object], names _REFERENCE_RE matches
    AliasNames,        \* names whose readable form differs
    ClassifiedNames    \* [name -> class], names a classification pattern matches

Nothing == ""

Fact(entity, field, values) ==
    [entity |-> entity, field |-> field, values |-> values, to |-> {}]

(* A relationship's fact: field is the target entity. *)
RelationFact(source, target, sourceFields, targetFields) ==
    [entity |-> source, field |-> target, values |-> sourceFields, to |-> targetFields]

(* _normalized_type. *)
NormalizedType(type) ==
    CASE type \in {"INTEGER", "BIGINT", "SERIAL"} -> "integer"
      [] type \in {"NUMERIC", "DECIMAL", "REAL"} -> "float"
      [] type \in {"VARCHAR", "TEXT"} -> "text"
      [] type \in {"document", "JSON"} -> "document"
      [] OTHER -> "unknown"

Aggregations == <<"sum", "avg", "min", "max">>

Observation(kind, target, fact) == [kind |-> kind, target |-> target, fact |-> fact]

------------------------------------------------------------------------------
(* infer_proposals: the sections in order.  A loop over the objects is the   *)
(* concatenation of what it emits for each.                                 *)

OverObjects(s, Emit(_)) == Joined([i \in DOMAIN s.objects |-> Emit(s.objects[i])])

OverFields(o, Emit(_)) == Joined([i \in DOMAIN o.fields |-> Emit(o.fields[i])])

InferStructure(s) ==
    LET OfField(f) == <<Observation("field", <<f.id>>,
                            Fact(f.object, f.id, {NormalizedType(f.type)}))>>
        OfObject(o) == <<Observation("entity", <<o.id>>, Fact(o.id, Nothing, {}))>>
                       \o OverFields(o, OfField)
    IN OverObjects(s, OfObject)

InferIdentifiers(s) ==
    LET Role(f, role) == <<Observation("identifier", <<f.id>>, Fact(Nothing, f.id, {role}))>>
        OfField(f) == IF f.id \in IdentifierNames THEN Role(f, "primary")
                      ELSE IF f.id \in DOMAIN ReferenceNames THEN Role(f, "reference")
                      ELSE <<>>
        OfObject(o) == OverFields(o, OfField)
    IN OverObjects(s, OfObject)

InferRelationships(s) ==
    [i \in DOMAIN s.relationships |->
        LET r == s.relationships[i]
        IN Observation("relationship", r.id,
                       RelationFact(r.source, r.target, r.sourceFields, r.targetFields))]

InferNamedRelationships(s) ==
    LET OfField(f) ==
            IF f.id \in DOMAIN ReferenceNames /\ ReferenceNames[f.id] \in Ids(s.objects)
            THEN LET to == ReferenceNames[f.id]
                 IN <<Observation("relationship", <<f.object, to, f.id>>,
                                  RelationFact(f.object, to, {f.id}, {}))>>
            ELSE <<>>
        OfObject(o) == OverFields(o, OfField)
    IN OverObjects(s, OfObject)

InferGrainsAndMeasures(s) ==
    LET keys(o) == Ids(o.fields) \cap (IdentifierNames \cup DOMAIN ReferenceNames)
        Grain(o) == IF keys(o) = {} THEN <<>>
                    ELSE <<Observation("grain", <<o.id, "grain">>, Fact(o.id, Nothing, keys(o)))>>
        OfField(f) ==
            IF NormalizedType(f.type) \notin {"integer", "float"} THEN <<>>
            ELSE [i \in DOMAIN Aggregations |->
                    Observation("measure", <<f.id, Aggregations[i]>>,
                                Fact(Nothing, f.id, {Aggregations[i]}))]
        OfObject(o) == Grain(o) \o OverFields(o, OfField)
    IN OverObjects(s, OfObject)

InferAliasesAndClasses(s) ==
    LET Alias(f) == IF f.id \notin AliasNames THEN <<>>
                    ELSE <<Observation("alias", <<f.id>>, Fact(Nothing, f.id, {"readable"}))>>
        Class(f) == IF f.id \notin DOMAIN ClassifiedNames THEN <<>>
                    ELSE <<Observation("classification", <<f.id>>,
                                       Fact(Nothing, f.id, {ClassifiedNames[f.id]}))>>
        OfField(f) == Alias(f) \o Class(f)
        OfObject(o) == OverFields(o, OfField)
    IN OverObjects(s, OfObject)

(* SemanticProposal; from is the id it was revised from, or <<>>. *)
SemanticProposal(id, kind, target, fact, status, from, at) ==
    [id |-> id, kind |-> kind, target |-> target, fact |-> fact, status |-> status,
     from |-> from, at |-> at]

(* _emit refuses once the builder is full: the first max observations. *)
InferProposals(s, max, at) ==
    LET all == InferStructure(s) \o InferIdentifiers(s) \o InferRelationships(s)
               \o InferNamedRelationships(s) \o InferGrainsAndMeasures(s)
               \o InferAliasesAndClasses(s)
        kept == SubSeq(all, 1, IF Len(all) < max THEN Len(all) ELSE max)
    IN {SemanticProposal(<<i>>, kept[i].kind, kept[i].target, kept[i].fact, "pending",
                         <<>>, at) : i \in DOMAIN kept}

------------------------------------------------------------------------------
(* Review.  The order of the proposals of a set is left out: nothing reads it. *)

(* SemanticProposalSet: ids are unique, else the constructor raises. *)
ValidProposalSet(ps) == \A p, q \in ps : p.id = q.id => p = q

ProposalIds(ps) == {p.id : p \in ps}

(* _select accepts known ids only, and at least one. *)
Selectable(ps, ids) == ids # {} /\ ids \subseteq ProposalIds(ps)

WithStatus(ps, ids, status) ==
    {IF p.id \in ids THEN [p EXCEPT !.status = status] ELSE p : p \in ps}

Approve(ps, ids) == WithStatus(ps, ids, "approved")

Reject(ps, ids) == WithStatus(ps, ids, "rejected")

(* How many proposals name this one as their origin, itself included once it *)
(* has been revised.                                                        *)
RevisionsOf(ps, id) == Cardinality({p \in ps : p.from = id})

Origin(ps, id) == CHOOSE p \in ps : p.id = id

(* The origin is marked and stays in the set. *)
Superseded(ps, id) ==
    {IF p.id = id THEN [p EXCEPT !.status = "revised", !.from = id] ELSE p : p \in ps}

(* Fault: the revision inherits the status of its origin. *)
ReviseInPlace(ps, id, fact, at) ==
    LET origin == Origin(ps, id)
    IN Superseded(ps, id)
       \cup {SemanticProposal(Append(id, RevisionsOf(ps, id) + 1), origin.kind, origin.target,
                              fact, origin.status, id, at)}

Revise(ps, id, fact, at) ==
    LET origin == Origin(ps, id)
    IN Superseded(ps, id)
       \cup {SemanticProposal(Append(id, RevisionsOf(ps, id) + 1), origin.kind, origin.target,
                              fact, "pending", id, at)}

ByStatus(ps, status) == {p \in ps : p.status = status}

------------------------------------------------------------------------------
(* Conversion to bundle inputs.                                             *)

ApprovedOf(ps, kind) == {p \in ByStatus(ps, "approved") : p.kind = kind}

EntityIds(ps) == {p.fact.entity : p \in ApprovedOf(ps, "entity")}

(* The descriptor's fields: approved fields of approved entities. *)
DescriptorFields(ps) ==
    {p \in ApprovedOf(ps, "field") : p.fact.entity \in EntityIds(ps)}

FieldIds(ps) == {p.fact.field : p \in DescriptorFields(ps)}

(* SemanticDescriptor: entity ids and, across entities, field ids are unique. *)
ConvertedDescriptorValid(ps) ==
    /\ Cardinality(EntityIds(ps)) = Cardinality(ApprovedOf(ps, "entity"))
    /\ Cardinality(FieldIds(ps)) = Cardinality(DescriptorFields(ps))

ConvertedMeasures(ps) == {p \in ApprovedOf(ps, "measure") : p.fact.field \in FieldIds(ps)}

ConvertedGrains(ps) ==
    {[grain |-> p.target, entity |-> p.fact.entity, attributes |-> p.fact.values \cap FieldIds(ps)] :
        p \in {p \in ApprovedOf(ps, "grain") : p.fact.entity \in EntityIds(ps)
                                               /\ p.fact.values # {}}}

(* The descriptor is built without relationships: those collected before it  *)
(* are dropped, and no marker refers to one.                                *)
ConvertedMarkers(ps) ==
    {p.target : p \in {p \in ByStatus(ps, "approved") :
                          p.target \in {<<f>> : f \in FieldIds(ps)}}}

ConvertApproved(ps) ==
    [entities |-> EntityIds(ps), fields |-> {p.fact : p \in DescriptorFields(ps)},
     measures |-> {p.fact : p \in ConvertedMeasures(ps)}, grains |-> ConvertedGrains(ps),
     markers |-> ConvertedMarkers(ps), references |-> ProposalIds(ByStatus(ps, "approved"))]

------------------------------------------------------------------------------
(* Conversion to assertions of a draft.                                     *)

FieldProposals(ps) == {p \in ps : p.kind = "field"}

(* _field_scopes looks at every proposal, whatever its status. *)
ScopesUnambiguous(ps) ==
    \A p, q \in FieldProposals(ps) : p.fact.field = q.fact.field => p.fact.entity = q.fact.entity

FieldScopes(ps) ==
    [f \in {p.fact.field : p \in FieldProposals(ps)} |->
        (CHOOSE p \in FieldProposals(ps) : p.fact.field = f).fact.entity]

AssertionType(kind) ==
    CASE kind = "alias" -> "mapping"
      [] kind \in {"classification", "identifier"} -> "policy"
      [] OTHER -> kind

(* _assertion_payload, as far as the identity of the assertion needs it. *)
AssertionPayload(p, scopes) ==
    IF p.kind = "alias" THEN [p.fact EXCEPT !.entity = scopes[p.fact.field]] ELSE p.fact

(* derive_assertion_id: the identity members of the payload's type. *)
AssertionIdentity(p, scopes) ==
    LET payload == AssertionPayload(p, scopes)
        type == AssertionType(p.kind)
    IN CASE type = "entity" -> <<type, payload.entity>>
         [] type \in {"field", "mapping"} -> <<type, payload.entity, payload.field>>
         [] type = "relationship" ->
                <<type, payload.entity, payload.field, p.target, payload.values, payload.to>>
         [] type = "policy" -> <<type, p.kind, p.target, {}>>
         [] OTHER -> <<type, Nothing, p.target, {}>>

Adaptable(ps) ==
    /\ ScopesUnambiguous(ps)
    /\ \A p \in ApprovedOf(ps, "alias") : p.fact.field \in DOMAIN FieldScopes(ps)
    /\ LET approved == ByStatus(ps, "approved")
       IN Cardinality({AssertionIdentity(p, FieldScopes(ps)) : p \in approved})
          = Cardinality(approved)

(* adapt_approved_proposals: pending assertions. *)
AdaptApproved(ps) ==
    {[type |-> AssertionType(p.kind), target |-> p.target, fact |-> p.fact,
      payload |-> AssertionPayload(p, FieldScopes(ps)), proposal |-> p.id] :
        p \in ByStatus(ps, "approved")}

-----------------------------------------------------------------------------
(* Reviewing a set of proposals *)

CONSTANTS
    Reviewers,
    Reviewed,        \* the snapshots proposals may be inferred from
    RevisedValues,   \* what a reviewer may change a fact's values to
    MaxProposals, MaxStamp

VARIABLES
    snap,            \* the snapshot under review
    catalog,         \* the repository
    seen,            \* [Reviewers -> what the reviewer's call holds]
    stamp,           \* time, advanced by every inference and review
    last,            \* the last decision saved on each form of a proposal
    crossed,         \* a save has replaced another set than the one checked
    drafted          \* the drafts created

reviewVars == <<snap, catalog, seen, stamp, last, crossed, drafted>>

ReviewTenant == "acme"

Fp == Fingerprint(snap)

NoCall == [stage |-> "none", set |-> {}]

Stored == ProposalSet(catalog, Fp, ReviewTenant)

ReviewInit ==
    /\ snap \in Reviewed
    /\ catalog = RepositoryRegister(RepositoryInit, snap, ReviewTenant, 1)
    /\ seen = [c \in Reviewers |-> NoCall]
    /\ stamp = 0 /\ last = <<>> /\ crossed = FALSE /\ drafted = {}

(* Inference is run on a registered snapshot and its result saved. *)
SaveInferred ==
    /\ stamp < MaxStamp /\ CanSaveProposals(catalog, Fp, ReviewTenant)
    /\ catalog' = SaveProposalSet(catalog, Fp, ReviewTenant,
                                  InferProposals(snap, MaxProposals, stamp + 1))
    /\ stamp' = stamp + 1
    /\ last' = <<>>
    /\ UNCHANGED <<snap, seen, crossed, drafted>>

(* get_proposal_set: the reviewer sees the stored set. *)
SeeProposals(c) ==
    /\ seen[c].stage = "none"
    /\ RepositorySnapshot(catalog, Fp, ReviewTenant) # {}
    /\ \E ps \in Stored : seen' = [seen EXCEPT ![c] = [stage |-> "seen", set |-> ps]]
    /\ UNCHANGED <<snap, catalog, stamp, last, crossed, drafted>>

(* review_proposals up to the fingerprint check; a conflict ends the call. *)
CheckExpectedSet(c) ==
    /\ seen[c].stage = "seen"
    /\ seen' = [seen EXCEPT ![c] =
            IF Stored = {seen[c].set} /\ RepositorySnapshot(catalog, Fp, ReviewTenant) # {}
            THEN [@ EXCEPT !.stage = "checked"] ELSE NoCall]
    /\ UNCHANGED <<snap, catalog, stamp, last, crossed, drafted>>

(* What a review decides on: one proposal, in the form it then has. *)
Decision(p) == <<p.id, p.kind, p.target, p.fact>>

Decisions(ps, ids, what) ==
    LET reviewed == {p \in ps : p.id \in ids}
    IN [d \in DOMAIN last \cup {Decision(p) : p \in reviewed} |->
            IF d \in {Decision(p) : p \in reviewed} THEN what ELSE last[d]]

(* The new set is saved, if the snapshot's row is still there. *)
SaveReview(c, ps, decisions) ==
    /\ seen[c].stage = "checked" /\ stamp < MaxStamp
    /\ seen' = [seen EXCEPT ![c] = NoCall]
    /\ stamp' = stamp + 1
    /\ IF ValidProposalSet(ps) /\ CanSaveProposals(catalog, Fp, ReviewTenant)
       THEN /\ catalog' = SaveProposalSet(catalog, Fp, ReviewTenant, ps)
            /\ crossed' = (crossed \/ Stored # {seen[c].set})
            /\ last' = decisions
       ELSE UNCHANGED <<catalog, crossed, last>>
    /\ UNCHANGED <<snap, drafted>>

ApproveProposals(c, ids) ==
    /\ Selectable(seen[c].set, ids)
    /\ SaveReview(c, Approve(seen[c].set, ids), Decisions(seen[c].set, ids, "approved"))

RejectProposals(c, ids) ==
    /\ Selectable(seen[c].set, ids)
    /\ SaveReview(c, Reject(seen[c].set, ids), Decisions(seen[c].set, ids, "rejected"))

ReviseProposal(c, id, values) ==
    /\ id \in ProposalIds(seen[c].set)
    /\ LET fact == [Origin(seen[c].set, id).fact EXCEPT !.values = values]
       IN SaveReview(c, Revise(seen[c].set, id, fact, stamp + 1),
                     Decisions(seen[c].set, {id}, "revised"))

(* create_draft_from_proposals: the set was read, now the snapshot is; a set  *)
(* that cannot be adapted raises.  The bundle input of the same set is kept  *)
(* beside the draft.                                                        *)
CreateDraftFrom(c) ==
    /\ seen[c].stage = "seen"
    /\ seen' = [seen EXCEPT ![c] = NoCall]
    /\ LET ps == seen[c].set
           current == Stored = {ps}
       IN IF RepositorySnapshot(catalog, Fp, ReviewTenant) = {} \/ ~Adaptable(ps)
          THEN UNCHANGED drafted
          ELSE drafted' = {[assertions |-> AdaptApproved(ps), current |-> current,
                            inputs |-> IF ConvertedDescriptorValid(ps)
                                       THEN {ConvertApproved(ps)} ELSE {}]}
    /\ UNCHANGED <<snap, catalog, stamp, last, crossed>>

(* Retention ends and the snapshot goes, with its proposals. *)
ExpireSnapshot ==
    /\ catalog' = RepositoryCleanup(catalog, [snapshots |-> {}, catalogs |-> {}], 2)
    /\ catalog' # catalog
    /\ UNCHANGED <<snap, seen, stamp, last, crossed, drafted>>

ReviewStep(c) ==
    \/ SeeProposals(c) \/ CheckExpectedSet(c) \/ CreateDraftFrom(c)
    \/ \E id \in ProposalIds(seen[c].set) :
          \/ ApproveProposals(c, {id}) \/ RejectProposals(c, {id})
          \/ \E v \in RevisedValues : ReviseProposal(c, id, v)
    \/ ApproveProposals(c, ProposalIds(seen[c].set))

ReviewNext == SaveInferred \/ ExpireSnapshot \/ \E c \in Reviewers : ReviewStep(c)

ReviewSpec == ReviewInit /\ [][ReviewNext]_reviewVars

------------------------------------------------------------------------------
(* Every assertion of a draft made from the current set comes from a proposal *)
(* whose last saved review approved it with exactly that target and fact,    *)
(* unless two reviews crossed between check and save.                       *)
DraftedWasApproved ==
    [][drafted' # drafted /\ ~crossed =>
         \A d \in drafted' : d.current => \A a \in d.assertions :
            \E f \in DOMAIN last : /\ f[1] = a.proposal /\ AssertionType(f[2]) = a.type
                                   /\ f[3] = a.target /\ f[4] = a.fact
                                   /\ last[f] = "approved"]_reviewVars

(* What is converted refers only to what is converted with it: measures and  *)
(* grains name fields and entities of the same descriptor.                  *)
ConvertedIsClosed ==
    \A d \in drafted : \A x \in d.inputs :
        LET fields == {f.field : f \in x.fields}
        IN /\ \A f \in x.fields : f.entity \in x.entities
           /\ \A m \in x.measures : m.field \in fields
           /\ \A g \in x.grains : g.entity \in x.entities /\ g.attributes \subseteq fields
==============================================================================
