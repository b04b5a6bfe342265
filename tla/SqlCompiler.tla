----------------------------- MODULE SqlCompiler -----------------------------
(***************************************************************************)
(* Lowering an IR to a SELECT statement (adapters/sql/compile.py) and a    *)
(* calculated field to an expression (compilation/expansion.py).  A        *)
(* statement is its syntax tree; a column is an entity and a name, with    *)
(* entity 0 for an unqualified one.  An output name is a pair of a prefix  *)
(* and a name, "" standing for no prefix.  Quoting is left out.            *)
(***************************************************************************)
EXTENDS QueryIR, SemanticDescriptors

NoPlan == [root |-> 0, steps |-> <<>>]

Unqualified == 0

(* PhysicalBinding: the first binding of a field or an entity counts. *)
BindingsOf(b, field) == SelectSeq(b.cols, LAMBDA c : c.field = field)

Bound(b, field) == BindingsOf(b, field) # <<>>

PhysicalName(b, field) == BindingsOf(b, field)[1].name

EntityFor(b, field) == BindingsOf(b, field)[1].entity

ObjectsOf(b, entity) == SelectSeq(b.objects, LAMBDA o : o.entity = entity)

PhysicalObject(b, entity) == ObjectsOf(b, entity)[1].name

(* The entities named by the steps of the join plan. *)
PlanEntities(plan) == UNION {{s.left, s.right} : s \in Elems(plan.steps)}

(* What rendering needs: the binding, the join plan, and the rendered date    *)
(* buckets of the groupings, by bucket.                                       *)
Env(b, plan, buckets) == [b |-> b, plan |-> plan, buckets |-> buckets]

(* _qualified_column: columns are qualified as soon as anything is joined. *)
QualifiedColumn(env, field) ==
    [entity |-> IF env.plan.steps # <<>> THEN EntityFor(env.b, field) ELSE Unqualified,
     name |-> PhysicalName(env.b, field)]

Resolvable(b, plan, field) ==
    Bound(b, field) /\ (plan.steps # <<>> => EntityFor(b, field) \in PlanEntities(plan))

------------------------------------------------------------------------------
(* render_literal: sqlite has no booleans. *)
RenderLiteral(lit, dialect) == IF lit.type = "bool" /\ dialect = "sqlite" THEN Literal("int", lit.n) ELSE lit

RenderValue(value, dialect) ==
    [value EXCEPT !.items = [i \in DOMAIN @ |-> RenderLiteral(@[i], dialect)]]

(* _render_filter and _render_predicate: one comparison of a column with literals. *)
RenderFilter(f, col, dialect) == [col |-> col, op |-> f.op, value |-> RenderValue(f.value, dialect)]

RenderPredicate(p, env) ==
    [col |-> QualifiedColumn(env, p.field), op |-> p.op, value |-> RenderValue(p.value, env.b.dialect)]

(* Fault: a distinct count loses its distinctness when it is filtered. *)
FilteredCountsAll(func, field, filter, env) ==
    LET col == [kind |-> "col", col |-> QualifiedColumn(env, field)]
    IN [kind |-> "agg",
        func |-> IF func = "count_distinct" THEN "count" ELSE func,
        distinct |-> func = "count_distinct" /\ filter = NoExpr,
        arg |-> IF filter = NoExpr THEN col
                ELSE [kind |-> "when", cond |-> RenderPredicate(filter, env), then |-> col]]

(* _render_aggregate: a filter makes the operand null where it does not hold. *)
RenderAggregate(func, field, filter, env) ==
    LET col == [kind |-> "col", col |-> QualifiedColumn(env, field)]
    IN [kind |-> "agg",
        func |-> IF func = "count_distinct" THEN "count" ELSE func,
        distinct |-> func = "count_distinct",
        arg |-> IF filter = NoExpr THEN col
                ELSE [kind |-> "when", cond |-> RenderPredicate(filter, env), then |-> col]]

(* render_ir_expression.  A division under the null policy divides by        *)
(* NULLIF(right, 0); a prior period is a LAG over the bucket's expression.   *)
NullIfZero(x) == [kind |-> "nullif", left |-> x, right |-> [kind |-> "lit", value |-> Literal("int", 0)]]

RECURSIVE RenderExpr(_, _)
RenderExpr(e, env) ==
    CASE e.kind = "field" -> [kind |-> "col", col |-> QualifiedColumn(env, e.field)]
      [] e.kind = "literal" -> [kind |-> "lit", value |-> RenderLiteral(e.value, env.b.dialect)]
      [] e.kind = "predicate" -> [kind |-> "pred", pred |-> RenderPredicate(e, env)]
      [] e.kind = "binary" ->
            [kind |-> "bin", op |-> e.op, left |-> RenderExpr(e.left, env),
             right |-> IF e.op = "div" /\ e.zero = "null" THEN NullIfZero(RenderExpr(e.right, env))
                       ELSE RenderExpr(e.right, env)]
      [] e.kind = "round" -> [kind |-> "round", arg |-> RenderExpr(e.operand, env), scale |-> e.scale]
      [] e.kind = "coalesce" ->
            [kind |-> "coalesce", args |-> [i \in DOMAIN e.operands |-> RenderExpr(e.operands[i], env)]]
      [] e.kind = "nullif" ->
            [kind |-> "nullif", left |-> RenderExpr(e.left, env), right |-> RenderExpr(e.right, env)]
      [] e.kind = "case" ->
            [kind |-> "case",
             whens |-> [i \in DOMAIN e.whens |-> [cond |-> RenderPredicate(e.whens[i].condition, env),
                                                  then |-> RenderExpr(e.whens[i].result, env)]],
             else |-> IF e.default = NoExpr THEN [kind |-> "lit", value |-> Literal("null", 0)]
                      ELSE RenderExpr(e.default, env)]
      [] e.kind = "date_trunc" ->
            [kind |-> "bucket", bucket |-> e.bucket, col |-> QualifiedColumn(env, e.field)]
      [] e.kind = "aggregate" -> RenderAggregate(e.func, e.field, e.filter, env)
      [] e.kind = "prior_period" ->
            [kind |-> "lag", arg |-> RenderAggregate(e.aggregate, e.field, e.filter, env),
             over |-> env.buckets[e.bucket]]

------------------------------------------------------------------------------
(* Calculated fields.                                                       *)

(* zero_division_supported and contains_division. *)
ZeroDivisionSupported(policy, backend) == policy = "null" \/ backend \in {"postgres", "postgresql", "mongodb"}

RECURSIVE ContainsDivision(_)
ContainsDivision(n) == ~IsLeaf(n) /\ (n.op = "div" \/ ContainsDivision(n.left) \/ ContainsDivision(n.right))

(* resolve_calculated_fields: the declared fields that the IR selects. *)
SelectedCalculated(ir, declared) == {c \in declared : \E s \in Elems(ir.sels) : s.field = c.name}

CalculatedBy(declared, name) == CHOOSE c \in declared : c.name = name

(* expand_sql: both sides of a division are reals; the whole has the output type. *)
RECURSIVE ExpandSqlNode(_, _, _)
ExpandSqlNode(n, zero, env) ==
    IF n.op = "field" THEN [kind |-> "col", col |-> QualifiedColumn(env, n.field_id)]
    ELSE IF n.op = "const" THEN [kind |-> "lit", value |-> Literal("int", n.const)]
    ELSE LET l == ExpandSqlNode(n.left, zero, env)
             r == ExpandSqlNode(n.right, zero, env)
         IN IF n.op = "div" THEN [kind |-> "quotient", left |-> l, right |-> r, zero |-> zero]
            ELSE [kind |-> "bin", op |-> n.op, left |-> l, right |-> r]

(* Fault: the cast is to the type of whole numbers. *)
ExpandSqlAsInt(c, env) ==
    [kind |-> "cast", type |-> "int", arg |-> ExpandSqlNode(c.expression, c.zero, env)]

ExpandSql(c, env) ==
    [kind |-> "cast", type |-> c.output, arg |-> ExpandSqlNode(c.expression, c.zero, env)]

------------------------------------------------------------------------------
(* The clauses of _compile.                                                 *)

BucketGroupings(ir) == {g \in Elems(ir.groups) : g.expr.kind = "date_trunc"}

BucketExpressions(ir, env) ==
    [bucket \in {g.expr.bucket : g \in BucketGroupings(ir)} |->
        RenderExpr((CHOOSE g \in BucketGroupings(ir) : g.expr.bucket = bucket).expr, env)]

OutputName(s, b, calcs) ==
    CASE s.alias # None -> <<"", s.alias>>
      [] s.field \in {c.name : c \in calcs} -> <<"", s.field>>
      [] s.expr # NoExpr -> <<"", s.field>>
      [] s.agg # "none" -> <<s.agg, PhysicalName(b, s.field)>>
      [] OTHER -> <<"", PhysicalName(b, s.field)>>

(* Fault: COUNT( * ), which counts nulls as well. *)
CountRows(agg, arg) ==
    [kind |-> "agg", func |-> agg, distinct |-> FALSE,
     arg |-> IF agg = "count" THEN [kind |-> "lit", value |-> Literal("int", 1)] ELSE arg]

Aggregate(agg, arg) == [kind |-> "agg", func |-> agg, distinct |-> FALSE, arg |-> arg]

SelectItem(s, env, calcs) ==
    LET plain == IF s.field \in {c.name : c \in calcs} THEN ExpandSql(CalculatedBy(calcs, s.field), env)
                 ELSE [kind |-> "col", col |-> QualifiedColumn(env, s.field)]
    IN [name |-> OutputName(s, env.b, calcs),
        expr |-> CASE s.expr # NoExpr /\ s.field \notin {c.name : c \in calcs} -> RenderExpr(s.expr, env)
                   [] s.agg # "none" -> Aggregate(s.agg, plain)
                   [] OTHER -> plain]

(* Without groupings, every plain selection is grouped by. *)
GroupBy(ir, env, calcs) ==
    LET plain == SelectSeq(ir.sels, LAMBDA s : /\ s.agg = "none" /\ s.expr = NoExpr
                                              /\ s.field \notin {c.name : c \in calcs})
    IN IF ir.groups # <<>>
       THEN [i \in DOMAIN ir.groups |->
               IF ir.groups[i].expr # NoExpr THEN RenderExpr(ir.groups[i].expr, env)
               ELSE [kind |-> "col", col |-> QualifiedColumn(env, ir.groups[i].field)]]
       ELSE [i \in DOMAIN plain |-> [kind |-> "col", col |-> QualifiedColumn(env, plain[i].field)]]

Where(ir, env) ==
    [i \in DOMAIN ir.filters |->
        RenderFilter(ir.filters[i], QualifiedColumn(env, ir.filters[i].field), env.b.dialect)]

(* An ordering by a computed output names the output, any other the column. *)
OrderBy(ir, env) ==
    [i \in DOMAIN ir.orders |->
        LET o == ir.orders[i]
            computed == SelectSeq(ir.sels, LAMBDA s : s.field = o.field /\ s.expr # NoExpr)
        IN [dir |-> o.dir,
            by |-> IF computed # <<>>
                   THEN [kind |-> "output", name |-> OutputName(computed[Len(computed)], env.b, {})]
                   ELSE [kind |-> "col", col |-> QualifiedColumn(env, o.field)]]]

JoinClause(step, b) ==
    [object |-> PhysicalObject(b, step.right), entity |-> step.right,
     left |-> [entity |-> step.left, name |-> PhysicalName(b, step.leftField)],
     right |-> [entity |-> step.right, name |-> PhysicalName(b, step.rightField)]]

RootObject(ir, b) == IF ObjectsOf(b, ir.root) # <<>> THEN PhysicalObject(b, ir.root) ELSE b.object

Statement(ir, b, plan, calcs) ==
    LET env == Env(b, plan, BucketExpressions(ir, Env(b, plan, <<>>)))
    IN [from |-> [object |-> RootObject(ir, b), entity |-> ir.root],
        joins |-> [i \in DOMAIN plan.steps |-> JoinClause(plan.steps[i], b)],
        select |-> [i \in DOMAIN ir.sels |-> SelectItem(ir.sels[i], env, calcs)],
        where |-> Where(ir, env), group |-> GroupBy(ir, env, calcs), order |-> OrderBy(ir, env),
        limit |-> ir.limit, dialect |-> b.dialect]

------------------------------------------------------------------------------
(* What makes the compiler refuse.                                          *)

(* validate_join_plan. *)
JoinPlanProblems(ir, plan, b, view) ==
    LET entities == {ir.root} \cup PlanEntities(plan)
        fields == UNION {{s.leftField, s.rightField} : s \in Elems(plan.steps)}
    IN Issue(plan.root # ir.root, "plan_root")
       \cup Issue(ir.prov.plan # NoPlan /\ ir.prov.plan # plan, "plan_fingerprint")
       \cup Issue(\E s \in Elems(plan.steps) : s.rel \notin view.rels, "relationship_scope")
       \cup Issue(~(PlanEntities(plan) \subseteq view.entities), "endpoint_scope")
       \cup Issue(~(fields \subseteq view.fields), "join_field_scope")
       \cup Issue(Cardinality({o.entity : o \in Elems(b.objects)}) # Len(b.objects), "duplicate_object")
       \cup Issue(\E e \in entities \ {ir.root} : ObjectsOf(b, e) = <<>>, "unbound_object")
       \cup Issue(Cardinality({c.field : c \in Elems(b.cols)}) # Len(b.cols), "duplicate_column")
       \cup Issue(\E c \in Elems(b.cols) : c.entity # 0 /\ c.entity \notin entities, "column_outside_plan")
       \cup Issue(\E f \in fields : ~Bound(b, f), "unbound_join_field")

(* _reject_unenforceable_zero_division. *)
UnenforceableDivision(calcs, dialect) ==
    \E c \in calcs : ContainsDivision(c.expression) /\ ~ZeroDivisionSupported(c.zero, dialect)

(* A step joins to an entity that was introduced before it. *)
IntroducedInOrder(ir, plan) ==
    \A i \in DOMAIN plan.steps :
        plan.steps[i].left \in {ir.root} \cup {plan.steps[j].right : j \in 1..(i - 1)}

(* The columns _compile resolves: plain selections, filters, groupings,      *)
(* orderings, and the leaves of expressions and calculated fields.           *)
ResolvedFields(ir, calcs) ==
    LET computed == {s.field : s \in {t \in Elems(ir.sels) : t.expr # NoExpr}}
    IN ({s.field : s \in {t \in Elems(ir.sels) : t.expr = NoExpr}} \ {c.name : c \in calcs})
       \cup UNION {FieldLeaves(c.expression) : c \in calcs}
       \cup UNION {ExprFieldIds(e) : e \in Expressions(ir)}
       \cup {f.field : f \in Elems(ir.filters)}
       \cup {g.field : g \in {h \in Elems(ir.groups) : h.expr = NoExpr}}
       \cup ({o.field : o \in Elems(ir.orders)} \ computed)

ExpressionProblems(ir, dialect) ==
    LET nodes == UNION {ExprAll(e) : e \in Expressions(ir)}
    IN Issue(\E g, h \in BucketGroupings(ir) : g.expr.bucket = h.expr.bucket /\ g.expr.field # h.expr.field,
             "ambiguous_bucket")
       \cup Issue(\E n \in nodes : n.kind = "binary" /\ n.op = "div" /\ ~ZeroDivisionSupported(n.zero, dialect),
                  "zero_division")
       \cup Issue(\E n \in nodes : n.kind = "prior_period" /\ BucketFields(ir, n.bucket) = {}, "no_bucket")

CompileProblems(ir, b, plan, calcs) ==
    Issue(ir.limit = Unlimited, "unbounded")
    \cup Issue(\E f \in ResolvedFields(ir, calcs) : ~Resolvable(b, plan, f), "unbound_field")
    \cup Issue(~IntroducedInOrder(ir, plan), "step_order")
    \cup ExpressionProblems(ir, b.dialect)

(* compile_sql: the problems found, and the statement if there are none. *)
CompileSql(ir, view, b, plan, declared) ==
    LET calcs == SelectedCalculated(ir, declared)
        problems == ValidateIR(ir, view, {c.name : c \in declared})
                    \cup (IF plan = NoPlan THEN {} ELSE JoinPlanProblems(ir, plan, b, view))
                    \cup Issue(\E c \in calcs : ~ValidCalculated(c), "CF_001")
                    \cup Issue(UnenforceableDivision(calcs, b.dialect), "zero_division")
                    \cup CompileProblems(ir, b, plan, calcs)
    IN IF problems # {} THEN [problems |-> problems]
       ELSE [problems |-> {}, statement |-> Statement(ir, b, plan, calcs)]
==============================================================================
