------------------------- MODULE SemanticDescriptors -------------------------
(***************************************************************************)
(* What a semantic descriptor may contain (views/models.py): entities with *)
(* fields, relationships and calculated fields.  The descriptor's parts    *)
(* are sets of records; labels, descriptions and identifier patterns are   *)
(* left out.  A field without value semantics has an empty mapping, since  *)
(* the code lets a mapping be set only when it is non-empty.               *)
(* A fingerprint is modelled by the content it is computed from.           *)
(*                                                                         *)
(* The second part is the resolution of a governed view (views/registry.py,*)
(* projection.py) and the authorized view that planning sees               *)
(* (planning/validation.py).  An outcome is the projection, or the code of *)
(* the check that failed.  Member ids in issues and the order of issues    *)
(* are left out.                                                           *)
(***************************************************************************)
EXTENDS Integers, FiniteSets, Sequences, FiniteSetsExt, SequencesExt

CONSTANTS MaxCfDepth,   \* _MAX_CF_DEPTH
          MaxCfNodes    \* _MAX_CF_NODES

AggregationKinds == {"none", "count", "sum", "avg", "min", "max"}

LeafTypes == {"int", "float"}

None == "none"

(* No two members of S share an identifier. *)
Unique(S, id(_)) == Cardinality({id(x) : x \in S}) = Cardinality(S)

FieldId(f) == f.id

RelationshipId(r) == r.id

CalculatedName(c) == c.name

EntityId(e) == e.id

(* ValueSemantics: the terms shown in order are distinct; what is set is not empty. *)
HasValueSemantics(f) == DOMAIN f.mapping # {}

ValidValueSemantics(f) ==
    /\ f.policy \in {"reject", "warn"}
    /\ Cardinality({f.order[i] : i \in DOMAIN f.order}) = Len(f.order)
    /\ ~HasValueSemantics(f) => f.order = <<>> /\ ~f.pii

(* SemanticFieldDescriptor. *)
ValidField(f) ==
    /\ f.aggs \subseteq AggregationKinds
    /\ ValidValueSemantics(f)

------------------------------------------------------------------------------
(* Expression trees.  A node has exactly the members its operator takes.    *)

IsLeaf(n) == n.op \in {"field", "const"}

RECURSIVE Measure(_)
Measure(n) ==
    IF IsLeaf(n) THEN [depth |-> 1, nodes |-> 1]
    ELSE LET l == Measure(n.left)
             r == Measure(n.right)
         IN [depth |-> 1 + Max({l.depth, r.depth}), nodes |-> 1 + l.nodes + r.nodes]

RECURSIVE FieldLeaves(_)
FieldLeaves(n) ==
    CASE n.op = "field" -> {n.field_id}
      [] n.op = "const" -> {}
      [] OTHER -> FieldLeaves(n.left) \cup FieldLeaves(n.right)

RECURSIVE ValidNode(_)
ValidNode(n) ==
    /\ \/ n.op = "field" /\ DOMAIN n = {"op", "field_id"}
       \/ n.op = "const" /\ DOMAIN n = {"op", "const"}
       \/ /\ n.op \in {"add", "sub", "mul", "div"}
          /\ DOMAIN n = {"op", "left", "right"}
          /\ ValidNode(n.left)
          /\ ValidNode(n.right)
    /\ Measure(n).depth <= MaxCfDepth
    /\ Measure(n).nodes <= MaxCfNodes

(* _infer_calculated_output: a type, or the code of the first error met. *)
InferredLeaf(f, fields, names) ==
    LET known == {x \in fields : x.id = f}
        field == CHOOSE x \in known : TRUE
    IN CASE f \in names -> "CF_002"
         [] known = {} -> "CF_002"
         [] HasValueSemantics(field) /\ field.pii -> "CF_004"
         [] field.type \notin LeafTypes -> "CF_001"
         [] OTHER -> field.type

RECURSIVE InferOutput(_, _, _)
InferOutput(n, fields, names) ==
    IF n.op = "const" THEN "int"
    ELSE IF n.op = "field" THEN InferredLeaf(n.field_id, fields, names)
    ELSE LET l == InferOutput(n.left, fields, names)
             r == InferOutput(n.right, fields, names)
         IN CASE l \notin LeafTypes -> l
              [] r \notin LeafTypes -> r
              [] n.op = "div" -> "float"
              [] OTHER -> IF l = "int" /\ r = "int" THEN "int" ELSE "float"

(* CalculatedField: what it says it requires are the leaves of its tree. *)
ValidCalculated(c) ==
    /\ ValidNode(c.expression)
    /\ c.requires = FieldLeaves(c.expression)
    /\ c.zero \in {"null", "error"}

------------------------------------------------------------------------------
ValidRelationship(r) ==
    /\ (r.sourceFields = <<>>) = (r.targetFields = <<>>)
    /\ Len(r.sourceFields) = Len(r.targetFields)
    /\ \A s \in {r.sourceFields, r.targetFields} :
          Cardinality({s[i] : i \in DOMAIN s}) = Len(s)

(* SemanticEntityDescriptor._validate_calculated_fields. *)
ValidCalculatedFields(e) ==
    LET names == {c.name : c \in e.calcs}
    IN /\ Unique(e.calcs, CalculatedName)
       /\ names \cap {f.id : f \in e.fields} = {}
       /\ \A c \in e.calcs :
             /\ ValidCalculated(c)
             /\ c.output = InferOutput(c.expression, e.fields, names)

ValidEntity(e) ==
    /\ Unique(e.fields, FieldId)
    /\ Unique(e.rels, RelationshipId)
    /\ \A f \in e.fields : ValidField(f)
    /\ \A r \in e.rels : ValidRelationship(r)
    /\ ValidCalculatedFields(e)

(* Lookups of SemanticDescriptor. *)
AllFields(d) == UNION {e.fields : e \in d.entities}

AllFieldIds(d) == {f.id : f \in AllFields(d)}

FieldOf(d, id) == CHOOSE f \in AllFields(d) : f.id = id

AllRelationshipIds(d) == UNION {{r.id : r \in e.rels} : e \in d.entities}

AllCalculated(d) == UNION {e.calcs : e \in d.entities}

AllCalculatedIds(d) == {c.name : c \in AllCalculated(d)}

(* SemanticDescriptor._unique_entities: identifiers are unique across the  *)
(* entities, and both ends of a relationship exist.                        *)
OncePerEntity(d, idsOf(_)) ==
    \A e1, e2 \in d.entities : e1 # e2 => idsOf(e1) \cap idsOf(e2) = {}

EntityFieldIds(e) == {f.id : f \in e.fields}

EntityRelationshipIds(e) == {r.id : r \in e.rels}

EntityCalculatedIds(e) == {c.name : c \in e.calcs}

ValidDescriptor(d) ==
    /\ Unique(d.entities, EntityId)
    /\ OncePerEntity(d, EntityFieldIds)
    /\ OncePerEntity(d, EntityRelationshipIds)
    /\ OncePerEntity(d, EntityCalculatedIds)
    /\ AllCalculatedIds(d) \cap AllFieldIds(d) = {}
    /\ \A e \in d.entities :
          /\ ValidEntity(e)
          /\ \A r \in e.rels : {r.source, r.target} \subseteq {x.id : x \in d.entities}

(* ViewMemberRestrictions: only the shapes an IR can have. *)
ValidRestrictions(r) == r.shapes \subseteq {"rows", "grouped_rows", "scalar"}

-----------------------------------------------------------------------------
(* Resolution of a view *)

NoBundle == [id |-> None, version |-> None, fingerprint |-> None, descriptor |-> [id |-> None]]

NoProjection == [view |-> None]

(* ViewRegistry.__init__ refuses a registry that is not closed. *)
ValidRegistry(reg) ==
    LET known == {d.id : d \in reg.descriptors}
    IN /\ Unique(reg.descriptors, LAMBDA d : d.id)
       /\ Unique(reg.views, LAMBDA v : v.id)
       /\ \A v \in reg.views :
             /\ v.descriptor \in known
             /\ v.r.ops # {} => "select" \in v.r.ops
       /\ reg.bundle # NoBundle => reg.bundle.descriptor.id \in known

(* A bundle replaces the registered descriptor of the same id. *)
BundleFor(reg, v) == IF reg.bundle.descriptor.id = v.descriptor THEN reg.bundle ELSE NoBundle

DescriptorFor(reg, v) ==
    IF BundleFor(reg, v) # NoBundle THEN reg.bundle.descriptor
    ELSE CHOOSE d \in reg.descriptors : d.id = v.descriptor

Denied(code) == [kind |-> "denied", code |-> code, projection |-> NoProjection]

Unavailable(code) == [kind |-> "unavailable", code |-> code, projection |-> NoProjection]

Resolved(p) == [kind |-> "resolved", code |-> None, projection |-> p]

Check(fails, outcome) == [fails |-> fails, outcome |-> outcome]

(* The checks of resolve(), in the order in which they are made. *)
BundleChecks(b, ctx) ==
    IF b = NoBundle THEN <<>>
    ELSE << Check(ctx.bundle = None, Unavailable("bundle_scope_missing")),
            Check(ctx.bundle # b.fingerprint, Unavailable("bundle_stale")),
            Check(ctx.snapshot # None /\ ctx.snapshot # b.descriptor.catalog,
                  Unavailable("snapshot_stale")) >>

ScopeChecks(v, ctx) ==
    << Check(ctx.tenant = None, Denied("tenant_scope_missing")),
       Check(~ctx.active, Denied("tenant_scope_inactive")),
       Check(v.tenant # None /\ ctx.tenant # v.tenant, Denied("tenant_scope_mismatch")),
       Check(v.principals # {} /\ ctx.principal \notin v.principals, Denied("principal_denied")),
       Check(v.purposes # {} /\ ctx.purpose \notin v.purposes, Denied("purpose_denied")),
       Check(v.policy # None /\ ctx.policy # v.policy, Denied("policy_mismatch")) >>

VersionChecks(v, d, ctx) ==
    << Check(v.model # None /\ ctx.model # v.model, Unavailable("model_stale")),
       Check(d.catalog # None /\ ctx.catalog # d.catalog, Unavailable("catalog_stale")),
       Check(~(v.caps \subseteq ctx.caps), Unavailable("capability_unsupported")),
       Check(~(v.flags \subseteq ctx.flags), Unavailable("feature_flag_disabled")) >>

------------------------------------------------------------------------------
(* _project: what is left of the descriptor under the view's restrictions.  *)

MissingMember(d, r) ==
    \/ ~((r.incE \cup r.excE) \subseteq {e.id : e \in d.entities})
    \/ ~((r.incF \cup r.excF \cup DOMAIN r.aliases \cup DOMAIN r.aggs) \subseteq AllFieldIds(d))
    \/ ~(r.rels \subseteq AllRelationshipIds(d))

IncludedEntities(d, r) ==
    (IF r.incE # {} THEN r.incE ELSE {e.id : e \in d.entities}) \ r.excE

(* Fault: when every included field is excluded, all of them are back. *)
SelectedOrAll(e, r) ==
    (IF r.incF \ r.excF # {} THEN r.incF \cap EntityFieldIds(e) ELSE EntityFieldIds(e)) \ r.excF

SelectedFields(e, r) ==
    (IF r.incF # {} THEN r.incF \cap EntityFieldIds(e) ELSE EntityFieldIds(e)) \ r.excF

RestrictedAggregations(f, r) == IF f.id \in DOMAIN r.aggs THEN f.aggs \cap r.aggs[f.id] ELSE f.aggs

ProjectedEntities(d, r) ==
    {e \in d.entities : e.id \in IncludedEntities(d, r) /\ SelectedFields(e, r) # {}}

(* Fault: one visible operand is enough. *)
CalculatedOverSome(d, r) ==
    UNION {{c \in e.calcs : c.requires \cap SelectedFields(e, r) # {}} : e \in ProjectedEntities(d, r)}

ProjectedCalculated(d, r) ==
    UNION {{c \in e.calcs : c.requires \subseteq SelectedFields(e, r)} : e \in ProjectedEntities(d, r)}

Projection(v, d, b, ctx) ==
    LET entities == ProjectedEntities(d, v.r)
        fields == UNION {SelectedFields(e, v.r) : e \in entities}
    IN [view |-> v.id, version |-> v.version, descriptor |-> d.id, source |-> d.source,
        entities |-> {e.id : e \in entities},
        fields |-> fields,
        calcs |-> ProjectedCalculated(d, v.r),
        aggs |-> [f \in fields |-> RestrictedAggregations(FieldOf(d, f), v.r)],
        ops |-> IF v.r.ops # {} THEN v.r.ops ELSE {"select"},
        rels |-> v.r.rels,
        shapes |-> v.r.shapes,
        catalog |-> d.catalog,
        bundle |-> b.fingerprint,
        policy |-> ctx.policy, tenant |-> ctx.tenant, principal |-> ctx.principal,
        purpose |-> ctx.purpose, model |-> ctx.model]

(* ResolvedViewProjection's own consistency. *)
ConsistentProjection(p) == {c.name : c \in p.calcs} \cap p.fields = {}

Project(v, d, b, ctx) ==
    LET p == Projection(v, d, b, ctx)
    IN CASE MissingMember(d, v.r) -> Unavailable("missing_member")
         [] IncludedEntities(d, v.r) = {} -> Unavailable("view_bounds_exceeded")
         [] p.fields = {} -> Unavailable("view_bounds_exceeded")
         [] OTHER -> Resolved(p)

(* ViewRegistry.resolve. *)
Resolve(reg, viewId, ctx) ==
    IF \A v \in reg.views : v.id # viewId THEN Unavailable("view_not_found")
    ELSE LET v == CHOOSE w \in reg.views : w.id = viewId
             b == BundleFor(reg, v)
             d == DescriptorFor(reg, v)
             failed == SelectSeq(BundleChecks(b, ctx) \o ScopeChecks(v, ctx) \o VersionChecks(v, d, ctx),
                                 LAMBDA c : c.fails)
         IN IF failed # <<>> THEN Head(failed).outcome ELSE Project(v, d, b, ctx)

------------------------------------------------------------------------------
(* AuthorizedView.from_projection and to_unbound.  A view is bound when it  *)
(* carries the projection's identity.                                       *)

FromProjection(p) ==
    [source |-> p.source, entities |-> p.entities, fields |-> p.fields,
     calcs |-> {c.name : c \in p.calcs}, ops |-> p.ops, rels |-> p.rels, aggs |-> p.aggs,
     shapes |-> p.shapes, catalog |-> p.catalog, bound |-> TRUE, ref |-> p]

==============================================================================
