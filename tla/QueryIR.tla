------------------------------- MODULE QueryIR -------------------------------
(***************************************************************************)
(* The semantic query IR (planning/ir/models.py), its computed expressions *)
(* (expressions.py) and its validation (validation.py).  An IR is a record *)
(* of sequences; validation answers the set of issue codes it would append *)
(* (paths and messages are left out).  A literal is a type and a number, a *)
(* filter value is one literal or a list of them.                          *)
(***************************************************************************)
EXTENDS Integers, FiniteSets, Sequences, FiniteSetsExt, SequencesExt

CONSTANTS MaxExprDepth,   \* MAX_EXPRESSION_DEPTH
          MaxExprNodes,   \* MAX_EXPRESSION_NODES
          MaxLimit,       \* validate_ir's max_limit
          TimeFields      \* the fields _is_time_field recognises by name

NoExpr == [kind |-> "absent"]

NoView == [bound |-> FALSE, absent |-> TRUE]

Unlimited == 0

ListOperators == {"in", "not_in"}

Elems(s) == {s[i] : i \in DOMAIN s}

Literal(type, n) == [type |-> type, n |-> n]

One(lit) == [many |-> FALSE, items |-> <<lit>>]

Many(lits) == [many |-> TRUE, items |-> lits]

------------------------------------------------------------------------------
(* Expressions.  A field, predicate or aggregate operand is a field id.     *)

IRFieldExpr(field) == [kind |-> "field", field |-> field]

IRLiteralExpr(lit) == [kind |-> "literal", value |-> lit]

IRPredicateExpr(op, field, value) == [kind |-> "predicate", op |-> op, field |-> field, value |-> value]

IRBinaryExpr(op, left, right, zero) == [kind |-> "binary", op |-> op, left |-> left, right |-> right, zero |-> zero]

IRRoundExpr(operand, scale) == [kind |-> "round", operand |-> operand, scale |-> scale]

IRCoalesceExpr(operands) == [kind |-> "coalesce", operands |-> operands]

IRNullIfExpr(left, right) == [kind |-> "nullif", left |-> left, right |-> right]

IRCaseWhen(condition, result) == [condition |-> condition, result |-> result]

IRCaseExpr(whens, default) == [kind |-> "case", whens |-> whens, default |-> default]

IRDateTruncExpr(bucket, field) == [kind |-> "date_trunc", bucket |-> bucket, field |-> field]

IRAggregateExpr(func, field, filter) == [kind |-> "aggregate", func |-> func, field |-> field, filter |-> filter]

IRPriorPeriodExpr(aggregate, bucket, field, filter) ==
    [kind |-> "prior_period", aggregate |-> aggregate, bucket |-> bucket, field |-> field, filter |-> filter]

SubExprs(e) ==
    CASE e.kind \in {"binary", "nullif"} -> <<e.left, e.right>>
      [] e.kind = "round" -> <<e.operand>>
      [] e.kind = "coalesce" -> e.operands
      [] e.kind = "case" -> [i \in DOMAIN e.whens |-> e.whens[i].result]
                            \o (IF e.default = NoExpr THEN <<>> ELSE <<e.default>>)
      [] OTHER -> <<>>

(* expression_depth. *)
RECURSIVE ExprDepth(_)
ExprDepth(e) ==
    CASE e.kind \in {"field", "literal", "predicate"} -> 1
      [] e.kind \in {"date_trunc", "aggregate", "prior_period"} -> 2
      [] OTHER -> 1 + Max({ExprDepth(x) : x \in Elems(SubExprs(e))})

(* expression_node_count: a branch of a case counts once more than its result. *)
RECURSIVE ExprNodes(_)
ExprNodes(e) ==
    LET subs == SubExprs(e)
        below == FoldSeq(LAMBDA x, n : n + ExprNodes(x), 0, subs)
    IN CASE e.kind \in {"field", "literal", "predicate"} -> 1
         [] e.kind = "date_trunc" -> 2
         [] e.kind \in {"aggregate", "prior_period"} -> IF e.filter = NoExpr THEN 2 ELSE 3
         [] e.kind = "case" -> 1 + below + Len(subs)
         [] OTHER -> 1 + below

(* _iter_nodes. *)
RECURSIVE ExprAll(_)
ExprAll(e) == {e} \cup UNION {ExprAll(x) : x \in Elems(SubExprs(e))}

(* expression_field_ids. *)
OwnFields(e) ==
    CASE e.kind \in {"field", "predicate", "date_trunc"} -> {e.field}
      [] e.kind \in {"aggregate", "prior_period"} ->
            {e.field} \cup IF e.filter = NoExpr THEN {} ELSE {e.filter.field}
      [] e.kind = "case" -> {w.condition.field : w \in Elems(e.whens)}
      [] OTHER -> {}

ExprFieldIds(e) == UNION {OwnFields(x) : x \in ExprAll(e)}

AggregateNodes(e) == {x \in ExprAll(e) : x.kind = "aggregate"}

PriorPeriodNodes(e) == {x \in ExprAll(e) : x.kind = "prior_period"}

ExprCapabilities(e) ==
    {"computed_expressions"} \cup (IF PriorPeriodNodes(e) = {} THEN {} ELSE {"prior_period"})

(* Bounds of the expression language: _MAX_COALESCE_OPERANDS, _MAX_CASE_WHENS. *)
MaxCoalesceOperands == 4

MaxCaseWhens == 8

(* The validators of the node classes, and _check_bounds on the composites. *)
ValidExprNode(e) ==
    /\ e.kind = "predicate" /\ e.op = "in" => e.value.many /\ e.value.items # <<>>
    /\ e.kind = "binary" /\ e.op # "div" => e.zero = "error"
    /\ e.kind = "coalesce" => Len(e.operands) \in 1..MaxCoalesceOperands
    /\ e.kind = "case" => Len(e.whens) \in 1..MaxCaseWhens
    /\ e.kind = "round" => e.scale \in 0..6
    /\ SubExprs(e) # <<>> => ExprDepth(e) <= MaxExprDepth /\ ExprNodes(e) <= MaxExprNodes

ValidExpr(e) == \A x \in ExprAll(e) : ValidExprNode(x)

------------------------------------------------------------------------------
(* SemanticQueryIR's parts and its own validators.                          *)

IRSelection(field, agg, expr, alias) == [field |-> field, agg |-> agg, expr |-> expr, alias |-> alias]

IRFilter(field, op, value) == [field |-> field, op |-> op, value |-> value]

IRGrouping(field, expr) == [field |-> field, expr |-> expr]

IROrdering(field, dir) == [field |-> field, dir |-> dir]

IRProvenance(source, root, ref, plan) == [source |-> source, root |-> root, ref |-> ref, plan |-> plan]

Expressions(ir) ==
    {x.expr : x \in {y \in Elems(ir.sels) \cup Elems(ir.groups) : y.expr # NoExpr}}

ComputedFor(ir, field) == {s.expr : s \in {t \in Elems(ir.sels) : t.field = field /\ t.expr # NoExpr}}

(* _validate_expressions: capabilities are declared, and a computed grouping *)
(* repeats the expression selected for its field (the last one, if several). *)
ValidComputed(ir) ==
    LET last(field) == ir.sels[Max({i \in DOMAIN ir.sels :
                                       ir.sels[i].field = field /\ ir.sels[i].expr # NoExpr})].expr
    IN /\ UNION {ExprCapabilities(e) : e \in Expressions(ir)} \subseteq ir.caps
       /\ \A g \in Elems(ir.groups) :
             IF ComputedFor(ir, g.field) = {} THEN g.expr = NoExpr
             ELSE g.expr = last(g.field)

ValidIR(ir) ==
    /\ ir.sels # <<>>
    /\ \A s \in Elems(ir.sels) : s.expr # NoExpr => s.agg = "none"
    /\ \A e \in Expressions(ir) : ValidExpr(e)
    /\ ValidComputed(ir)

(* field_ids and filter_fingerprints. *)
IRFieldIds(ir) ==
    {x.field : x \in Elems(ir.sels) \cup Elems(ir.filters) \cup Elems(ir.groups) \cup Elems(ir.orders)}
    \cup UNION {ExprFieldIds(e) : e \in Expressions(ir)}

FilterFingerprint(f) == [field |-> f.field, op |-> f.op, value |-> f.value]

FilterFingerprints(ir) == {FilterFingerprint(f) : f \in Elems(ir.filters)}

------------------------------------------------------------------------------
(* validate_ir.  Each operator is one part of it and answers issue codes.   *)

Issue(cond, code) == IF cond THEN {code} ELSE {}

FilterValueIssues(ir) ==
    UNION {CASE f.op \in ListOperators -> Issue(~f.value.many \/ f.value.items = <<>>, "invalid_filter_value")
             [] f.op = "contains" -> Issue(f.value.many \/ f.value.items[1].type # "str", "invalid_filter_value")
             [] OTHER -> Issue(f.value.many, "invalid_filter_value")
           : f \in Elems(ir.filters)}

Aggregated(ir) == {s \in Elems(ir.sels) : s.agg # "none"}

GroupedFields(ir) == {g.field : g \in Elems(ir.groups)}

(* selection_by_field keeps the last selection of a field. *)
LastSelection(ir, field) == ir.sels[Max({i \in DOMAIN ir.sels : ir.sels[i].field = field})]

GroupingIssues(ir) ==
    Issue(\E f \in GroupedFields(ir) :
             \/ f \notin {s.field : s \in Elems(ir.sels)}
             \/ LastSelection(ir, f).agg # "none", "invalid_grouping")
    \cup Issue(\E s \in Aggregated(ir) : s.field \in GroupedFields(ir), "invalid_grouping")
    \cup Issue(Aggregated(ir) # {} /\ GroupedFields(ir) = {} /\ \E s \in Elems(ir.sels) : s.agg = "none",
               "ungrouped_selection")

ShapeIssues(ir) ==
    LET grouped == ir.groups # <<>>
        agg == Aggregated(ir) # {}
    IN Issue(\/ ir.kind = "rows" /\ (agg \/ grouped)
             \/ ir.kind = "grouped_rows" /\ ~agg /\ ~grouped
             \/ ir.kind = "scalar" /\ (Len(ir.sels) # 1 \/ ~agg \/ grouped), "result_shape_mismatch")

BoundIssues(ir) ==
    Issue(ir.limit = Unlimited, "unbounded_limit") \cup Issue(ir.limit > MaxLimit, "limit_exceeds_max")

ProvenanceIssues(ir) ==
    Issue(ir.prov.source # ir.source, "source_mismatch")
    \cup Issue(ir.prov.root # ir.root, "root_entity_mismatch")

(* _validate_expression_semantics: a prior period needs its bucket grouped   *)
(* over exactly one time field.                                              *)
BucketFields(ir, bucket) ==
    {g.expr.field : g \in {h \in Elems(ir.groups) : h.expr.kind = "date_trunc" /\ h.expr.bucket = bucket}}

PriorPeriodIssues(ir) ==
    UNION {UNION {Issue(BucketFields(ir, n.bucket) = {}, "prior_period_bucket_ungrouped")
                  \cup Issue(Cardinality(BucketFields(ir, n.bucket)) > 1, "prior_period_bucket_ambiguous")
                  : n \in PriorPeriodNodes(e)} : e \in Expressions(ir)}

(* Fault: the operands of expressions are not looked up in the view. *)
UnscopedExpressions(ir, view) == {}

(* _check_expression_fields. *)
ExpressionScope(ir, view) ==
    Issue(\E e \in Expressions(ir) : \E f \in ExprFieldIds(e) : f \notin view.fields, "field_out_of_scope")

(* _validate_view_scope. *)
ScopeIssues(ir, view, calcs) ==
    LET outside(f) == f \notin view.fields
        plain == {s \in Elems(ir.sels) : s.expr = NoExpr /\ s.field \notin calcs}
        others == {f.field : f \in Elems(ir.filters)}
                  \cup {g.field : g \in {h \in Elems(ir.groups) : h.expr = NoExpr}}
        computed == {s.field : s \in {t \in Elems(ir.sels) : t.expr # NoExpr}}
        ordered == {o.field : o \in Elems(ir.orders)} \ computed
    IN Issue(ir.source # view.source, "source_out_of_scope")
       \cup Issue(view.entities # {} /\ ir.root \notin view.entities, "entity_out_of_scope")
       \cup Issue(\E s \in plain : outside(s.field),
                  IF calcs # {} THEN "CF_003" ELSE "field_out_of_scope")
       \cup Issue(\E f \in (others \cup ordered) \ calcs : outside(f), "field_out_of_scope")
       \cup ExpressionScope(ir, view)

CapabilityOperation ==
    [c \in {"aggregation", "grouping", "ordering", "contains", "list_ops"} |->
        CASE c = "aggregation" -> "aggregate"
          [] c = "grouping" -> "group"
          [] c = "ordering" -> "order"
          [] OTHER -> "filter"]

(* _validate_view_binding. *)
AggregationAllowed(view, field, agg) == field \in DOMAIN view.aggs => agg \in view.aggs[field]

BindingIssues(ir, view) ==
    IF ir.prov.ref.view = "none" THEN {"missing_view_reference"}
    ELSE Issue(ir.prov.ref # view.ref, "view_reference_mismatch")
         \cup Issue(\E c \in ir.caps \cap DOMAIN CapabilityOperation : CapabilityOperation[c] \notin view.ops,
                    "operation_out_of_scope")
         \cup Issue(\/ \E s \in Aggregated(ir) : ~AggregationAllowed(view, s.field, s.agg)
                    \/ \E e \in Expressions(ir) : \E n \in AggregateNodes(e) :
                          ~AggregationAllowed(view, n.field, n.func), "aggregation_out_of_scope")
         \cup Issue(view.shapes # {} /\ ir.kind \notin view.shapes, "result_shape_out_of_scope")

(* A time filter needs a concrete boundary. *)
ConcreteBoundary(f) ==
    /\ f.op \in {"eq", "gt", "gte", "lt", "lte", "in", "not_in"}
    /\ \A l \in Elems(f.value.items) : l.type # "null"

TimeIssues(ir) ==
    Issue(\E f \in Elems(ir.filters) : f.field \in TimeFields /\ ~ConcreteBoundary(f),
          "unresolved_time_boundary")

ExtensionIssues(ir) ==
    LET needs(x) == IF x = "named_query_placeholder" THEN "named-query-placeholders" ELSE x
    IN Issue(\E x \in ir.exts : needs(x) \notin ir.caps, "unsupported_extension")

(* _validate_calculated_references: only selections may name one. *)
CalculatedIssues(ir, calcs) ==
    Issue("calculated-fields" \notin ir.caps /\ \E s \in Elems(ir.sels) : s.field \in calcs,
          "calculated_fields_capability_missing")
    \cup Issue(\E x \in Elems(ir.filters) \cup Elems(ir.groups) \cup Elems(ir.orders) : x.field \in calcs,
               "CF_003")

(* The calculated fields known to a validation: the caller's and the view's. *)
KnownCalculated(view, declared) == declared \cup (IF view = NoView THEN {} ELSE view.calcs)

ValidateIR(ir, view, declared) ==
    LET calcs == KnownCalculated(view, declared)
    IN FilterValueIssues(ir) \cup GroupingIssues(ir) \cup ShapeIssues(ir) \cup BoundIssues(ir)
       \cup ProvenanceIssues(ir) \cup PriorPeriodIssues(ir) \cup TimeIssues(ir) \cup ExtensionIssues(ir)
       \cup CalculatedIssues(ir, calcs)
       \cup (IF view = NoView THEN {} ELSE ScopeIssues(ir, view, calcs))
       \cup (IF view # NoView /\ view.bound THEN BindingIssues(ir, view) ELSE {})
==============================================================================
