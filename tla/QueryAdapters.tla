---------------------------- MODULE QueryAdapters ----------------------------
(***************************************************************************)
(* Lowering an IR to a structured MQL specification (nl2data_mongodb       *)
(* compile.py) and a calculated field to an aggregation expression         *)
(* (compilation/expansion.py); a mapping is a function on its paths, a     *)
(* path a pair of a prefix and a name, like an output name of the SQL      *)
(* compiler.  Then what the SQL adapter (adapters/sql) and the MongoDB     *)
(* adapter accept of a compiled artifact: the facts parsed from it, the    *)
(* guard, and the capabilities each advertises.  An artifact is            *)
(* the compiler's output; a predicate's fingerprint is its content.        *)
(* Statements the compilers do not emit (writes, subqueries, stars,        *)
(* JavaScript) are left out, and so are the checks that refuse them.       *)
(***************************************************************************)
EXTENDS SqlCompiler, TLC

(* _OPERATORS and _AGGREGATIONS. *)
MongoOperators == {"eq", "ne", "gt", "gte", "lt", "lte", "in", "not_in"}

Accumulators == {"sum", "avg", "min", "max"}

Path(name) == <<"", name>>

IdPath == Path("_id")

PhysicalPath(b, field) == Path(PhysicalName(b, field))

(* expand_mongo: only the null policy guards a division. *)
RECURSIVE ExpandMongoNode(_, _, _)
ExpandMongoNode(n, zero, b) ==
    IF n.op = "field" THEN [kind |-> "path", path |-> PhysicalPath(b, n.field_id)]
    ELSE IF n.op = "const" THEN [kind |-> "const", n |-> n.const]
    ELSE LET l == ExpandMongoNode(n.left, zero, b)
             r == ExpandMongoNode(n.right, zero, b)
         IN [kind |-> IF n.op = "div" /\ zero = "null" THEN "guarded" ELSE "arith",
             op |-> n.op, left |-> l, right |-> r]

(* Fault: no division is guarded. *)
ExpandMongoUnguarded(c, b) ==
    [kind |-> "convert", type |-> c.output, arg |-> ExpandMongoNode(c.expression, "error", b)]

ExpandMongo(c, b) ==
    [kind |-> "convert", type |-> c.output, arg |-> ExpandMongoNode(c.expression, c.zero, b)]

(* _compile_filter: one predicate per path, the last filter of a field wins. *)
CompileFilter(ir, b) ==
    [p \in {PhysicalPath(b, f.field) : f \in Elems(ir.filters)} |->
        LET f == ir.filters[Max({i \in DOMAIN ir.filters : PhysicalPath(b, ir.filters[i].field) = p})]
        IN [op |-> f.op, value |-> f.value]]

(* _alias and _output_alias. *)
OutputAlias(s, b, calcs) ==
    CASE s.alias # None -> Path(s.alias)
      [] s.field \in {c.name : c \in calcs} -> Path(s.field)
      [] OTHER -> <<s.agg, PhysicalName(b, s.field)>>

Stage(name, arg) == [name |-> name, arg |-> arg]

MatchStage(filter) == IF DOMAIN filter = {} THEN <<>> ELSE <<Stage("match", filter)>>

Include == [kind |-> "include"]

Exclude == [kind |-> "exclude"]

Rename(path) == [kind |-> "path", path |-> path]

AggregatedSelections(ir) == SelectSeq(ir.sels, LAMBDA s : s.agg # "none")

(* What a pipeline groups by: selections of grouped fields, or the plain ones. *)
GroupedSelections(ir) ==
    SelectSeq(ir.sels, LAMBDA s : IF ir.groups # <<>> THEN \E g \in Elems(ir.groups) : g.field = s.field
                                  ELSE s.agg = "none")

(* One accumulator of $group: a count of a field counts documents, a count of *)
(* a calculated field the documents in which it is not null.                  *)
Accumulator(s, b, calcs) ==
    LET calculated == s.field \in {c.name : c \in calcs}
        arg == IF calculated THEN ExpandMongo(CalculatedBy(calcs, s.field), b) ELSE Rename(PhysicalPath(b, s.field))
    IN CASE s.agg = "count" /\ calculated -> [acc |-> "sum", arg |-> [kind |-> "present", arg |-> arg]]
         [] s.agg = "count" -> [acc |-> "documents"]
         [] OTHER -> [acc |-> s.agg, arg |-> arg]

(* The last selection with an output name gives its accumulator. *)
GroupStage(ir, b, calcs) ==
    LET aggs == AggregatedSelections(ir)
        name(i) == OutputAlias(aggs[i], b, calcs)
    IN [id |-> IF GroupedSelections(ir) = <<>> THEN IdPath ELSE PhysicalPath(b, GroupedSelections(ir)[1].field),
        accs |-> [p \in {name(i) : i \in DOMAIN aggs} |->
                    Accumulator(aggs[Max({i \in DOMAIN aggs : name(i) = p})], b, calcs)]]

(* Sorting a group's output: by its key, or by the first aggregate of the field. *)
SortPath(o, ir, b, calcs) ==
    IF GroupedSelections(ir) # <<>> /\ o.field = GroupedSelections(ir)[1].field THEN IdPath
    ELSE OutputAlias(SelectSeq(AggregatedSelections(ir), LAMBDA s : s.field = o.field)[1], b, calcs)

SortStage(ir, path(_)) ==
    IF ir.orders = <<>> THEN <<>>
    ELSE <<Stage("sort", [i \in DOMAIN ir.orders |-> [path |-> path(ir.orders[i]), dir |-> ir.orders[i].dir]])>>

GroupProjection(ir, b, calcs) ==
    LET grouped == GroupedSelections(ir)
    IN (IdPath :> Exclude)
       @@ [p \in {OutputAlias(s, b, calcs) : s \in Elems(AggregatedSelections(ir))} |-> Include]
       @@ (IF grouped = <<>> THEN <<>> ELSE PhysicalPath(b, grouped[1].field) :> Rename(IdPath))

(* _compile_pipeline. *)
CompilePipeline(ir, b, calcs) ==
    MatchStage(CompileFilter(ir, b))
    \o <<Stage("group", GroupStage(ir, b, calcs))>>
    \o SortStage(ir, LAMBDA o : SortPath(o, ir, b, calcs))
    \o <<Stage("project", GroupProjection(ir, b, calcs)), Stage("limit", ir.limit)>>

(* The projection of rows: an alias renames, a calculated field is computed. *)
RowProjection(ir, b, calcs) ==
    LET path(s) == CASE s.field \in {c.name : c \in calcs} -> OutputAlias(s, b, calcs)
                     [] s.alias # None -> Path(s.alias)
                     [] OTHER -> PhysicalPath(b, s.field)
        marker(s) == CASE s.field \in {c.name : c \in calcs} ->
                             [kind |-> "expr", expr |-> ExpandMongo(CalculatedBy(calcs, s.field), b)]
                       [] s.alias # None -> Rename(PhysicalPath(b, s.field))
                       [] OTHER -> Include
    IN [p \in {path(s) : s \in Elems(ir.sels)} |->
          marker(ir.sels[Max({i \in DOMAIN ir.sels : path(ir.sels[i]) = p})])]

(* _compile_mongo: a find for plain rows, a pipeline for anything computed. *)
MongoSpec(ir, b, calcs) ==
    LET sorted == SortStage(ir, LAMBDA o : PhysicalPath(b, o.field))
    IN IF AggregatedSelections(ir) = <<>> /\ calcs = {}
       THEN [operation |-> "find", collection |-> b.object, filter |-> CompileFilter(ir, b),
             projection |-> RowProjection(ir, b, {}), sort |-> sorted, limit |-> ir.limit, pipeline |-> <<>>]
       ELSE [operation |-> "aggregate", collection |-> b.object, filter |-> <<>>, projection |-> <<>>,
             sort |-> <<>>, limit |-> ir.limit,
             pipeline |-> IF AggregatedSelections(ir) # <<>> THEN CompilePipeline(ir, b, calcs)
                          ELSE MatchStage(CompileFilter(ir, b)) \o sorted
                               \o <<Stage("project", (IdPath :> Exclude) @@ RowProjection(ir, b, calcs)),
                                    Stage("limit", ir.limit)>>]

(* What makes compile_mongo refuse.  An unknown accumulator ends it as well. *)
MongoProblems(ir, b, calcs) ==
    LET fields == ({s.field : s \in Elems(ir.sels)} \ {c.name : c \in calcs})
                  \cup {f.field : f \in Elems(ir.filters)}
                  \cup UNION {FieldLeaves(c.expression) : c \in calcs}
        aggs == Elems(AggregatedSelections(ir))
        grouped == Elems(GroupedSelections(ir))
    IN Issue(ir.prov.plan # NoPlan, "join_plan")
       \cup Issue(ir.limit = Unlimited, "unbounded")
       \cup Issue(\E f \in Elems(ir.filters) : f.op \notin MongoOperators, "operator")
       \cup Issue(\E f \in fields : ~Bound(b, f), "unbound_field")
       \cup Issue(\E s \in aggs : s.agg \notin Accumulators \cup {"count"}, "accumulator")
       \cup Issue(aggs # {} /\ Len(GroupedSelections(ir)) > 1, "multi_field_grouping")
       \cup Issue(\E o \in Elems(ir.orders) : IF aggs = {} THEN ~Bound(b, o.field)
                                              ELSE o.field \notin {s.field : s \in aggs \cup grouped}, "ordering")

(* compile_mongo: the problems found, and the specification if there are none. *)
CompileMongo(ir, view, b, declared) ==
    LET calcs == SelectedCalculated(ir, declared)
        problems == ValidateIR(ir, view, {c.name : c \in declared})
                    \cup Issue(\E c \in calcs : ~ValidCalculated(c), "CF_001")
                    \cup MongoProblems(ir, b, calcs)
    IN IF problems # {} THEN [problems |-> problems]
       ELSE [problems |-> {}, spec |-> MongoSpec(ir, b, calcs)]
------------------------------------------------------------------------------
(* ValidationContext.field_bindings: the last field bound to a name counts. *)
FieldBindings(b) ==
    [n \in {c.name : c \in Elems(b.cols)} |-> b.cols[Max({i \in DOMAIN b.cols : b.cols[i].name = n})].field]

SemanticName(bindings, name) == IF name \in DOMAIN bindings THEN bindings[name] ELSE name

------------------------------------------------------------------------------
(* SQL: parse_sql's facts.  A column is its name, whatever it is qualified  *)
(* with; an ordering by an output is a column too.                          *)

SqlOperands(x) ==
    CASE x.kind \in {"bin", "quotient", "nullif"} -> {x.left, x.right}
      [] x.kind \in {"cast", "round", "agg"} -> {x.arg}
      [] x.kind = "coalesce" -> Elems(x.args)
      [] x.kind = "case" -> {w.then : w \in Elems(x.whens)} \cup {x.else}
      [] x.kind = "when" -> {x.then}
      [] x.kind = "lag" -> {x.arg, x.over}
      [] OTHER -> {}

RECURSIVE SqlColumns(_)
SqlColumns(x) ==
    (CASE x.kind \in {"col", "bucket"} -> {Path(x.col.name)}
       [] x.kind = "output" -> {x.name}
       [] x.kind = "when" -> {Path(x.cond.col.name)}
       [] x.kind = "case" -> {Path(w.cond.col.name) : w \in Elems(x.whens)}
       [] OTHER -> {})
    \cup UNION {SqlColumns(y) : y \in SqlOperands(x)}

ParsedTables(st) == {st.from.object} \cup {j.object : j \in Elems(st.joins)}

ParsedColumns(st) ==
    UNION ({SqlColumns(item.expr) : item \in Elems(st.select)}
           \cup {SqlColumns(g) : g \in Elems(st.group)}
           \cup {SqlColumns(o.by) : o \in Elems(st.order)}
           \cup {{Path(p.col.name)} : p \in Elems(st.where)}
           \cup {{Path(j.left.name), Path(j.right.name)} : j \in Elems(st.joins)})

(* _walk_predicates: NOT IN is a negation, LIKE ... ESCAPE no LIKE, a        *)
(* negative number no literal; none of them yields a predicate.             *)
Readable(p) ==
    /\ p.op \in {"eq", "ne", "gt", "gte", "lt", "lte", "in"}
    /\ \A l \in Elems(p.value.items) : l.type # "neg"

SqlPredicates(st, bindings) ==
    {[field |-> SemanticName(bindings, p.col.name), op |-> p.op, value |-> p.value] :
        p \in {q \in Elems(st.where) : Readable(q)}}

(* run_guard. *)
SqlGuardReasons(st, policy, bindings) ==
    Issue(ParsedTables(st) \ policy.objects # {}, "object_scope")
    \cup Issue(policy.scoped /\ ParsedColumns(st) \ policy.columns # {}, "column_scope")
    \cup Issue(st.limit > policy.maxRows, "limit")
    \cup Issue(policy.obligations \ SqlPredicates(st, bindings) # {}, "obligation")

GuardResult(reasons, artifact, verified, rows) ==
    [accepted |-> reasons = {}, artifact |-> artifact, verified |-> verified, rows |-> rows]

GuardSql(st, policy, bindings) ==
    GuardResult(SqlGuardReasons(st, policy, bindings), st,
                policy.obligations \cap SqlPredicates(st, bindings), st.limit)

SqlCapabilities ==
    {"read_only", "single_statement", "bounded_results", "ast_validation", "aggregation", "ordering",
     "list_ops", "contains", "metadata_discovery", "join", "multi_entity", "computed_expressions",
     "prior_period", "cte", "grouping", "union"}

------------------------------------------------------------------------------
(* MongoDB: the guard of a specification.                                   *)

FilterReasons(filter, policy) == Issue(~(DOMAIN filter \subseteq policy.fields), "filter_scope")

(* _filter_fingerprints and _spec_filter_fingerprints. *)
FilterPredicates(filter, bindings) ==
    {[field |-> SemanticName(bindings, p[2]), op |-> filter[p].op, value |-> filter[p].value] : p \in DOMAIN filter}

MatchStages(spec) == {s.arg : s \in {t \in Elems(spec.pipeline) : t.name = "match"}}

SpecPredicates(spec, bindings) ==
    FilterPredicates(spec.filter, bindings)
    \cup UNION {FilterPredicates(m, bindings) : m \in MatchStages(spec)}

(* _spec_bounded_rows. *)
SpecBoundedRows(spec) == spec.limit

(* _validate_computed_expression: every operand path is in scope. *)
RECURSIVE MongoPaths(_)
MongoPaths(x) ==
    CASE x.kind = "path" -> {x.path}
      [] x.kind = "const" -> {}
      [] x.kind \in {"convert", "present"} -> MongoPaths(x.arg)
      [] OTHER -> MongoPaths(x.left) \cup MongoPaths(x.right)

(* _validate_projection of a find: no mixing of renames with markers. *)
FindProjectionReasons(projection, policy) ==
    LET renamed == {p \in DOMAIN projection : projection[p].kind = "path"}
    IN Issue(renamed # {} /\ renamed # DOMAIN projection, "mixed_projection")
       \cup Issue(\E p \in renamed : projection[p].path \notin policy.fields, "rename_scope")
       \cup Issue(\E p \in renamed : p \in policy.fields, "rename_shadows")
       \cup Issue(\E p \in DOMAIN projection \ renamed : p \notin policy.fields, "projection_scope")

(* _validate_projection of a pipeline: outputs of $group are derived paths. *)
StageProjectionReasons(projection, policy, derived) ==
    LET outputs == DOMAIN projection \ {IdPath}
        computed == {p \in outputs : projection[p].kind = "expr"}
        renamed == {p \in outputs : projection[p].kind = "path"}
    IN Issue(~(outputs \subseteq policy.fields \cup derived), "projection_scope")
       \cup Issue(\E p \in renamed : projection[p].path \notin policy.fields \cup {IdPath}, "rename_scope")
       \cup Issue(\E p \in computed : ~(MongoPaths(projection[p].expr) \subseteq policy.fields \cup derived \cup {IdPath}),
                  "expression_scope")
       \cup Issue(outputs = {}, "empty_projection")

SortReasons(sort, policy, derived) ==
    Issue(\E s \in Elems(sort) : s.path \notin policy.fields \cup derived, "sort_scope")

(* _validate_group. *)
GroupReasons(arg, policy) ==
    Issue(arg.id # IdPath /\ arg.id \notin policy.fields, "group_scope")
    \cup Issue(\E p \in DOMAIN arg.accs : /\ arg.accs[p].acc # "documents"
                                          /\ ~(MongoPaths(arg.accs[p].arg) \subseteq policy.fields), "accumulator_scope")

(* _validate_aggregate. *)
DerivedPaths(pipeline) ==
    UNION {{IdPath} \cup DOMAIN s.arg.accs : s \in {t \in Elems(pipeline) : t.name = "group"}}

StageReasons(stage, policy, derived) ==
    CASE stage.name = "match" -> FilterReasons(stage.arg, policy)
      [] stage.name = "project" -> StageProjectionReasons(stage.arg, policy, derived)
      [] stage.name = "sort" -> SortReasons(stage.arg, policy, derived)
      [] stage.name = "group" -> GroupReasons(stage.arg, policy)
      [] stage.name = "limit" -> Issue(stage.arg > policy.maxRows, "limit")

AggregateReasons(spec, policy) ==
    UNION {StageReasons(spec.pipeline[i], policy, DerivedPaths(SubSeq(spec.pipeline, 1, i - 1))) :
              i \in DOMAIN spec.pipeline}
    \cup Issue(spec.limit > policy.maxRows, "limit")

(* _validate_tenant: a compiled specification names neither an obligation nor *)
(* a route, so a tenant profile refuses it.                                   *)
TenantReasons(policy) == Issue(policy.profile # None, "tenant_evidence")

MongoGuardReasons(spec, policy, bindings) ==
    Issue(spec.collection \notin policy.objects, "collection_scope")
    \cup (IF spec.operation = "find"
          THEN FilterReasons(spec.filter, policy) \cup FindProjectionReasons(spec.projection, policy)
               \cup UNION {SortReasons(s.arg, policy, {}) : s \in Elems(spec.sort)}
               \cup Issue(spec.limit > policy.maxRows, "limit")
          ELSE AggregateReasons(spec, policy))
    \cup TenantReasons(policy)
    \cup Issue(policy.obligations \ SpecPredicates(spec, bindings) # {}, "obligation")

GuardMongo(spec, policy, bindings) ==
    GuardResult(MongoGuardReasons(spec, policy, bindings), spec,
                policy.obligations \cap SpecPredicates(spec, bindings), SpecBoundedRows(spec))

MongoCapabilities ==
    {"read_only", "structured_mql", "no_javascript", "bounded_results", "allowlist_validation",
     "tenant_obligations", "aggregation", "ordering", "list_ops", "metadata_discovery", "fake"}
==============================================================================
