-------------------------- MODULE MetadataSnapshots --------------------------
(***************************************************************************)
(* Metadata snapshots, their comparison, drift and the activation policy   *)
(* (metadata/models.py, compare.py, drift.py, policy.py).                  *)
(*                                                                         *)
(* A snapshot keeps what comparison, drift and activation read: source,    *)
(* catalog fingerprint, objects with typed fields and constraints,         *)
(* relationships, which bounds discovery hit and when it ran.  Trust       *)
(* levels, confidence, statistics and descriptions are left out.  Tuples   *)
(* are sequences, in the order of the backend.  An optional value that is  *)
(* absent is NoName, NoAge or NoDecision.                                  *)
(***************************************************************************)
EXTENDS Integers, Sequences, FiniteSets

NoName == ""

NoAge == 0

------------------------------------------------------------------------------
(* Members of a snapshot.                                                   *)

MetadataField(object, id, type, nullable) ==
    [object |-> object, id |-> id, type |-> type, nullable |-> nullable]

MetadataConstraint(id, kind, fields) == [id |-> id, kind |-> kind, fields |-> fields]

MetadataRelationship(id, source, target, sourceFields, targetFields) ==
    [id |-> id, source |-> source, target |-> target,
     sourceFields |-> sourceFields, targetFields |-> targetFields]

MetadataObject(id, kind, fields, constraints, incomplete) ==
    [id |-> id, kind |-> kind, fields |-> fields, constraints |-> constraints,
     incomplete |-> incomplete]

(* bounded: which of "objects", "fields" and "samples" were cut at a limit. *)
MetadataFreshness(at, bounded) == [at |-> at, bounded |-> bounded]

MetadataSourceReference(id, catalog) == [id |-> id, catalog |-> catalog]

MetadataSnapshot(source, objects, relationships, freshness) ==
    [source |-> source, objects |-> objects, relationships |-> relationships,
     freshness |-> freshness]

Members(seq) == {seq[i] : i \in DOMAIN seq}

(* What a loop that extends a list appends: the parts, one after the other. *)
Joined(parts) ==
    LET upTo[n \in 0..Len(parts)] == IF n = 0 THEN <<>> ELSE upTo[n - 1] \o parts[n]
    IN upTo[Len(parts)]

Ids(seq) == {seq[i].id : i \in DOMAIN seq}

UniqueIds(seq) == \A i, j \in DOMAIN seq : seq[i].id = seq[j].id => i = j

(* The validators of an object and of a snapshot: ids are unique. *)
ValidObject(o) == UniqueIds(o.fields) /\ UniqueIds(o.constraints)

ValidSnapshot(s) ==
    /\ \A i \in DOMAIN s.objects : ValidObject(s.objects[i])
    /\ UniqueIds(s.objects) /\ UniqueIds(s.relationships)

ObjectPayload(o) ==
    [id |-> o.id, kind |-> o.kind, fields |-> Members(o.fields),
     constraints |-> Members(o.constraints), incomplete |-> o.incomplete]

(* Fingerprint: members are sorted by id, the time of discovery is left out. *)
Fingerprint(s) ==
    [source |-> s.source,
     objects |-> {ObjectPayload(s.objects[i]) : i \in DOMAIN s.objects},
     relationships |-> Members(s.relationships),
     bounded |-> s.freshness.bounded]

(* What no policy and an explicit policy both call a partial snapshot. *)
Partial(s) ==
    \/ s.freshness.bounded # {}
    \/ \E i \in DOMAIN s.objects : s.objects[i].incomplete

------------------------------------------------------------------------------
(* Comparison.                                                              *)

ById(seq) ==
    [id \in Ids(seq) |-> CHOOSE x \in Members(seq) : x.id = id]

ObjectChange(object, fields) == [object |-> object, fields |-> fields]

FieldTypeChange(object, field, before, after) ==
    [object |-> object, field |-> field, before |-> before, after |-> after]

ConstraintSignature(c) == <<c.kind, c.fields>>

RelationshipSignature(r) == <<r.source, r.target, r.sourceFields, r.targetFields>>

AllConstraints(s) ==
    UNION {Members(s.objects[i].constraints) : i \in DOMAIN s.objects}

(* Constraint ids are unique within an object only; the later object wins in *)
(* the code's dictionary.                                                   *)
ConstraintsById(s) ==
    [id \in {c.id : c \in AllConstraints(s)} |->
        LET last == CHOOSE i \in DOMAIN s.objects :
                        /\ id \in Ids(s.objects[i].constraints)
                        /\ \A j \in DOMAIN s.objects :
                              id \in Ids(s.objects[j].constraints) => j <= i
        IN ById(s.objects[last].constraints)[id]]

(* Fault: a field whose type differs counts as unchanged. *)
SameNameSameType(object, b, a) == {}

(* changed_field_types of one object. *)
RetypedFields(object, b, a) ==
    {FieldTypeChange(object, f, b[f].type, a[f].type) :
        f \in {f \in DOMAIN b \cap DOMAIN a : b[f].type # a[f].type}}

CompareSnapshots(before, after) ==
    LET bo == ById(before.objects)
        ao == ById(after.objects)
        both == DOMAIN bo \cap DOMAIN ao
        bf == [o \in both |-> ById(bo[o].fields)]
        af == [o \in both |-> ById(ao[o].fields)]
        bc == ConstraintsById(before)
        ac == ConstraintsById(after)
        br == ById(before.relationships)
        ar == ById(after.relationships)
    IN [addedObjects |-> DOMAIN ao \ DOMAIN bo,
        removedObjects |-> DOMAIN bo \ DOMAIN ao,
        addedFields |-> {ObjectChange(o, DOMAIN af[o] \ DOMAIN bf[o]) :
            o \in {o \in both : ~ (DOMAIN af[o] \subseteq DOMAIN bf[o])}},
        removedFields |-> {ObjectChange(o, DOMAIN bf[o] \ DOMAIN af[o]) :
            o \in {o \in both : ~ (DOMAIN bf[o] \subseteq DOMAIN af[o])}},
        retypedFields |-> UNION {RetypedFields(o, bf[o], af[o]) : o \in both},
        addedConstraints |-> DOMAIN ac \ DOMAIN bc,
        removedConstraints |-> DOMAIN bc \ DOMAIN ac,
        changedConstraints |-> {c \in DOMAIN bc \cap DOMAIN ac :
            ConstraintSignature(bc[c]) # ConstraintSignature(ac[c])},
        addedRelationships |-> DOMAIN ar \ DOMAIN br,
        removedRelationships |-> DOMAIN br \ DOMAIN ar,
        changedRelationships |-> {r \in DOMAIN br \cap DOMAIN ar :
            RelationshipSignature(br[r]) # RelationshipSignature(ar[r])}]

------------------------------------------------------------------------------
(* Drift.  refs names what an active bundle depends on: objects, fields and *)
(* relationships.                                                           *)

Expired(s, maxAge, now) == now - s.freshness.at > maxAge

DriftReason(code, member) == <<code, member>>

ReasonsIf(cond, code, member) == IF cond THEN {DriftReason(code, member)} ELSE {}

BlockingReasons(before, after, cmp, refs, maxAge, now) ==
    ReasonsIf(before.source.id # after.source.id, "source_identity_changed", after.source.id)
    \cup ReasonsIf(before.source.catalog # after.source.catalog, "catalog_changed",
                   after.source.id)
    \cup ReasonsIf(maxAge # NoAge /\ Expired(after, maxAge, now), "freshness_expired", NoName)
    \cup {DriftReason("referenced_object_removed", o) :
            o \in cmp.removedObjects \cap refs.objects}
    \cup {DriftReason("referenced_field_removed", c.object) :
            c \in {c \in cmp.removedFields : c.fields \cap refs.fields # {}}}
    \cup {DriftReason("referenced_type_changed", c.field) :
            c \in {c \in cmp.retypedFields : c.field \in refs.fields}}
    \cup {DriftReason("constraint_removed", c) : c \in cmp.removedConstraints}
    \cup {DriftReason("constraint_changed", c) :
            c \in {c \in cmp.changedConstraints :
                     ConstraintsById(before)[c].fields \cap refs.fields # {}}}
    \cup {DriftReason("referenced_relationship_removed", r) :
            r \in cmp.removedRelationships \cap refs.relationships}
    \cup {DriftReason("referenced_relationship_changed", r) :
            r \in cmp.changedRelationships \cap refs.relationships}

WarningChanges(before, cmp, refs) ==
    {DriftReason("object_removed", o) : o \in cmp.removedObjects \ refs.objects}
    \cup {DriftReason("field_type_changed", c.field) :
            c \in {c \in cmp.retypedFields : c.field \notin refs.fields}}
    \cup {DriftReason("constraint_changed", c) :
            c \in {c \in cmp.changedConstraints :
                     ConstraintsById(before)[c].fields \cap refs.fields = {}}}
    \cup {DriftReason("relationship_removed", r) :
            r \in cmp.removedRelationships \ refs.relationships}
    \cup {DriftReason("relationship_changed", r) :
            r \in cmp.changedRelationships \ refs.relationships}

(* DriftDecision; its fingerprint covers the comparison, so that the        *)
(* decision is its own identity.                                            *)
DriftDecision(severity, blocking, warnings, comparison) ==
    [severity |-> severity, blocking |-> blocking, warnings |-> warnings,
     comparison |-> {comparison}]

NoDecision == [severity |-> NoName, blocking |-> {}, warnings |-> {}, comparison |-> {}]

ClassifyDrift(before, after, refs, maxAge, now) ==
    LET cmp == CompareSnapshots(before, after)
        blocking == BlockingReasons(before, after, cmp, refs, maxAge, now)
        warnings == WarningChanges(before, cmp, refs)
        severity == IF blocking # {} THEN "blocking"
                    ELSE IF warnings # {} THEN "warning" ELSE "informational"
    IN DriftDecision(severity, blocking, warnings, cmp)

(* An override names one decision, one tenant and one source, and may expire. *)
DriftOverride(tenant, source, decision, expires) ==
    [tenant |-> tenant, source |-> source, decision |-> decision, expires |-> expires]

(* DriftOverride.permits. *)
Permits(o, decision, now) == o.decision = decision /\ now <= o.expires

------------------------------------------------------------------------------
(* Activation policy.                                                       *)

(* given tells a policy from none; tenant and source may be NoName, catalogs *)
(* empty and maxAge NoAge, each of which accepts anything.                  *)
SnapshotActivationPolicy(maxAge, allowPartial, catalogs, tenant, source) ==
    [given |-> TRUE, maxAge |-> maxAge, allowPartial |-> allowPartial,
     catalogs |-> catalogs, tenant |-> tenant, source |-> source]

NoPolicy == [given |-> FALSE, maxAge |-> NoAge, allowPartial |-> FALSE,
             catalogs |-> {}, tenant |-> NoName, source |-> NoName]

Overridden(s, policy, decision, overrides, now) ==
    \E o \in overrides :
        /\ Permits(o, decision, now)
        /\ policy.tenant \in {NoName, o.tenant}
        /\ o.source = s.source.id

IssueIf(cond, code) == IF cond THEN {code} ELSE {}

(* check_snapshot_activation: the issues; none allows the activation. *)
CheckSnapshotActivation(s, policy, decision, overrides, tenant, now) ==
    IssueIf(policy.tenant # NoName /\ tenant # policy.tenant, "snapshot_unauthorized")
    \cup IssueIf(policy.source # NoName /\ s.source.id # policy.source, "source_changed")
    \cup IssueIf(policy.catalogs # {} /\ s.source.catalog \notin policy.catalogs,
                 "catalog_incompatible")
    \cup IssueIf(Partial(s) /\ ~policy.allowPartial, "snapshot_partial")
    \cup IssueIf(policy.maxAge # NoAge /\ Expired(s, policy.maxAge, now), "snapshot_stale")
    \cup IssueIf(decision.severity = "blocking"
                 /\ ~Overridden(s, policy, decision, overrides, now), "blocking_drift")
==============================================================================
