--------------------------- MODULE MCQuery -----------------------------------
(***************************************************************************)
(* Two entities, orders (1) and customers (2), with one relationship.  A   *)
(* request asks alone about any of the tables, or two ask together.        *)
(*                                                                         *)
(* Beside the requests, the pure algorithms they pass through are called   *)
(* on all inputs up to a bound and compared with reference definitions:    *)
(* view resolution, join planning, calculated and computed outputs on both *)
(* backends, value mappings and the scope of intents.  topic says which.   *)
(***************************************************************************)
EXTENDS QueryPipeline

CONSTANTS q1, q2, MaxRows,
          MaxNesting,   \* nesting of operators in calculated fields
          MaxValues     \* values in a filter's list

Field(id, type, aggs) ==
    [id |-> id, type |-> type, aggs |-> aggs, pii |-> FALSE, mapping |-> <<>>, order |-> <<>>, policy |-> "reject"]

AllAggs == {"none", "count", "sum", "avg", "max"}

Orders ==
    [id |-> 1, fields |-> {Field("region", "int", AllAggs), Field("amount", "int", AllAggs), Field("buyer", "int", {"none"})},
     rels |-> {[id |-> "placed_by", source |-> 1, target |-> 2, sourceFields |-> <<"buyer">>, targetFields |-> <<"person">>]},
     calcs |-> {}]

Customers ==
    [id |-> 2, fields |-> {Field("person", "int", {"none"}), Field("tier", "int", {"none", "max"})}, rels |-> {}, calcs |-> {}]

Descriptor == [id |-> "shop", source |-> "db", catalog |-> "cat1", entities |-> {Orders, Customers}]

Restrictions(excF, ops) ==
    [incE |-> {}, excE |-> {}, incF |-> {}, excF |-> excF, aliases |-> <<>>, ops |-> ops, aggs |-> <<>>,
     rels |-> {"placed_by"}, shapes |-> {}]

ViewDefinition(r) ==
    [id |-> "v", version |-> 1, descriptor |-> "shop", purposes |-> {}, policy |-> None, tenant |-> None,
     principals |-> {}, caps |-> {}, flags |-> {}, model |-> None, r |-> r]

Context ==
    [tenant |-> "t", active |-> TRUE, principal |-> "p", purpose |-> "report", policy |-> "pol", catalog |-> "cat1",
     bundle |-> None, snapshot |-> None, model |-> None, caps |-> {}, flags |-> {}]

AllOps == {"select", "filter", "aggregate", "group", "order"}

ViewWith(r) ==
    FromProjection(Resolve([descriptors |-> {Descriptor}, views |-> {ViewDefinition(r)}, bundle |-> NoBundle],
                           "v", Context).projection)

Column(field, name, entity) == [field |-> field, name |-> name, entity |-> entity]

OrderColumns == <<Column("region", "r", 1), Column("amount", "a", 1), Column("buyer", "b", 1)>>

SqlBinding ==
    [object |-> "orders", dialect |-> "sqlite",
     cols |-> OrderColumns \o <<Column("person", "p", 2), Column("tier", "t", 2)>>,
     objects |-> <<[entity |-> 1, name |-> "orders"], [entity |-> 2, name |-> "customers"]>>]

MongoBinding == [object |-> "orders", dialect |-> "mongodb", cols |-> OrderColumns, objects |-> <<>>]

Graph ==
    [source |-> "db", edges |-> {[id |-> 1, rel |-> "placed_by", left |-> 1, right |-> 2,
                                  leftField |-> "buyer", rightField |-> "person"]}]

Policy ==
    [objects |-> {"orders", "customers"}, scoped |-> FALSE, columns |-> {}, maxRows |-> 10, obligations |-> {},
     fields |-> {Path(c.name) : c \in Elems(SqlBinding.cols)}, profile |-> None]

Scope ==
    [policy |-> "pol", sources |-> {"db"}, resources |-> {"orders"},
     fields |-> {"region", "amount", "buyer", "person", "tier", "out"}, operations |-> {"select"},
     tenant |-> Absent, isolation |-> Absent]

Config ==
    [anchored |-> FALSE, snapshot |-> NoSnapshot, attempts |-> 2, maxTokens |-> 2, charsPerToken |-> 8,
     maxChars |-> 5, version |-> 1]

Provider == [structured |-> TRUE, versions |-> {1}, maxChars |-> 5, maxTokens |-> 2]

------------------------------------------------------------------------------
(* Questions. *)
Filter(field, op, n) == IRFilter(field, op, One(Literal("int", n)))

Single(sels, filters, limit) ==
    [kind |-> "single", source |-> "db", root |-> 1, sels |-> sels, filters |-> filters, orders |-> <<>>, limit |-> limit]

Multi(dims, metrics, filters) ==
    [kind |-> "multi", source |-> "db", entities |-> <<1, 2>>, dims |-> dims, metrics |-> metrics,
     filters |-> filters, orders |-> <<>>, limit |-> 5]

Asked(intent) ==
    [tokens |-> 1, chars |-> 1, unsafe |-> FALSE, clear |-> TRUE, confident |-> TRUE, alternatives |-> <<>>,
     members |-> {IF intent.kind = "multi" THEN "multi_entity_intent" ELSE "intent"}, intent |-> intent]

Sel(field, agg) == SelectedAs(field, agg, None)

SelectionLists ==
    {<<Sel("region", "none")>>, <<Sel("region", "none"), Sel("amount", "sum")>>,
     <<Sel("amount", "count")>>, <<SelectedAs("amount", "avg", "m"), Sel("region", "none")>>,
     <<Sel("region", "none"), Sel("amount", "none")>>, <<Sel("buyer", "none")>>}

FilterLists ==
    {<<>>, <<Filter("region", "eq", 1)>>, <<Filter("amount", "gte", 1), Filter("amount", "lt", 2)>>,
     <<IRFilter("region", "in", Many(<<Literal("int", 1), Literal("int", 2)>>))>>}

Singles == {Asked(Single(s, f, 5)) : s \in SelectionLists, f \in FilterLists}

Multis ==
    {Asked(Multi(<<[field |-> "tier", alias |-> None]>>, <<Sel("amount", agg)>>, f)) :
        agg \in {"sum", "none"}, f \in {<<>>, <<Filter("region", "eq", 1)>>}}

(* Answers that do not lead to a query. *)
Others ==
    LET a == Asked(Single(<<Sel("region", "none")>>, <<>>, 5))
    IN {[a EXCEPT !.tokens = 3], [a EXCEPT !.unsafe = TRUE], [a EXCEPT !.members = {"clarification"}],
        [a EXCEPT !.members = {"intent", "extra"}], [a EXCEPT !.confident = FALSE, !.alternatives = <<"o1", "o1">>],
        [a EXCEPT !.intent.limit = Unlimited], [a EXCEPT !.intent.sels = <<Sel("tier", "sum")>>],
        [a EXCEPT !.intent.filters = <<Filter("secret", "eq", 1)>>]}

(* IRs composed by the application: computed outputs and a renamed one. *)
Preset(view, sels, groups, caps) ==
    [source |-> "db", root |-> 1, sels |-> sels, filters |-> <<Filter("region", "eq", 1)>>, groups |-> groups,
     orders |-> <<>>, limit |-> 5, kind |-> IF groups = <<>> THEN "rows" ELSE "grouped_rows", caps |-> caps, exts |-> {},
     prov |-> IRProvenance("db", 1, view.ref, NoPlan)]

Ratio == IRBinaryExpr("div", IRFieldExpr("amount"), IRFieldExpr("buyer"), "null")

SumWhere == IRAggregateExpr("sum", "amount", IRPredicateExpr("eq", "buyer", One(Literal("int", 1))))

PresetsOf(view) ==
    {ir \in {Preset(view, <<IRSelection("out", "none", Ratio, "ratio")>>, <<>>, {"computed_expressions"}),
             Preset(view, <<IRSelection("out", "none", SumWhere, "s"), IRSelection("region", "none", NoExpr, None)>>,
                    <<IRGrouping("region", NoExpr)>>, {"computed_expressions", "grouping"})} : ValidIR(ir)}

------------------------------------------------------------------------------
(* Tables and worlds. *)
Order(r, a, b) == [r |-> Num(r), a |-> a, b |-> Num(b)]

Tables == UNION {[1..n -> {Order(1, Num(1), 1), Order(1, Null, 2), Order(2, Num(2), 1)}] : n \in 0..MaxRows}

People == <<[p |-> Num(1), t |-> Num(7)], [p |-> Num(1), t |-> Num(8)], [p |-> Num(2), t |-> Num(7)]>>

World(requests, table, replies, presets, view, closable, horizon) ==
    [requests |-> requests, db |-> [orders |-> table, customers |-> People], replies |-> replies,
     presets |-> presets, view |-> view, closable |-> closable, horizon |-> horizon,
     binding |-> [b \in Backends |-> IF b = "sql" THEN SqlBinding ELSE MongoBinding],
     graph |-> Graph, planner |-> TRUE, policy |-> [b \in Backends |-> Policy], scope |-> Scope, calcs |-> {},
     tenant |-> Absent, isolation |-> Absent, limits |-> [rows |-> 9, columns |-> 3], ttl |-> 1, deadline |-> 2,
     config |-> Config, provider |-> Provider, request |-> [chars |-> 4]]

Full == ViewWith(Restrictions({}, AllOps))

Narrow == ViewWith(Restrictions({"amount"}, AllOps))

Fixed == <<Order(1, Num(1), 1), Order(1, Num(1), 1)>>

Pair == {Asked(Single(<<Sel("region", "none")>>, <<>>, 5)), Asked(Single(<<Sel("amount", "sum")>>, <<Filter("region", "eq", 1)>>, 5))}

Solo(table, replies) == World({q1}, table, replies, {NoIR}, Full, {}, 0)

Named ==
    [narrow |-> [Solo(Fixed, Singles \cup Multis) EXCEPT !.view = Narrow],
     keyless |-> [Solo(Fixed, Multis) EXCEPT !.view = ViewWith(Restrictions({"buyer"}, AllOps))],
     other |-> Solo(Fixed, Others),
     preset |-> [Solo(Fixed, Pair) EXCEPT !.presets = PresetsOf(Full)],
     preset_narrow |-> [Solo(Fixed, {Asked(Single(<<Sel("region", "none")>>, <<>>, 5))}) EXCEPT
                            !.presets = PresetsOf(Narrow), !.view = Narrow],
     long |-> [Solo(Fixed, Pair) EXCEPT !.request.chars = 6],
     plannerless |-> [Solo(Fixed, Multis) EXCEPT !.planner = FALSE],
     together |-> World({q1, q2}, Fixed, Pair, {NoIR}, Full, {"sql"}, 2)]

MCWorlds ==
    [k \in ({"singles", "multis"} \X Tables) \cup ((DOMAIN Named) \X {<<>>}) |->
        CASE k[1] = "singles" -> Solo(k[2], Singles)
          [] k[1] = "multis" -> Solo(k[2], Multis)
          [] OTHER -> Named[k[1]]]

------------------------------------------------------------------------------
(* The algorithms of the query path, each called once on a bounded input and  *)
(* compared with a definition that does not follow the code.                  *)
VARIABLES topic,     \* the algorithm that is called, or "requests"
          input,     \* its argument
          verdict    \* what it returned

ruleVars == <<topic, input, verdict>>

Pending == [kind |-> "pending"]

------------------------------------------------------------------------------
(* Inputs.  The descriptor: two entities, one calculated field. *)
NumberField(id, type) ==
    [id |-> id, type |-> type, aggs |-> {"none", "sum", "max"}, pii |-> FALSE, mapping |-> <<>>, order |-> <<>>,
     policy |-> "reject"]

Leaf(f) == [op |-> "field", field_id |-> f]

Product == [op |-> "mul", left |-> Leaf("a"), right |-> Leaf("b")]

Calculated(tree, fields, zero) ==
    [name |-> "total", expression |-> tree, output |-> InferOutput(tree, fields, {"total"}),
     requires |-> FieldLeaves(tree), zero |-> zero]

Numbers == {NumberField("a", "int"), NumberField("b", "float"), NumberField("t", "int")}

ShopWith(calcs) ==
    [id |-> "d", source |-> "db", catalog |-> None,
     entities |-> {[id |-> 1, fields |-> Numbers, calcs |-> calcs,
                    rels |-> {[id |-> "rel", source |-> 1, target |-> 2, sourceFields |-> <<"a">>, targetFields |-> <<"c">>]}],
                   [id |-> 2, fields |-> {NumberField("c", "int")}, rels |-> {}, calcs |-> {}]}]

Restricting(incE, excE, incF, excF, aggs) ==
    [incE |-> incE, excE |-> excE, incF |-> incF, excF |-> excF, aliases |-> <<>>, ops |-> {}, aggs |-> aggs,
     rels |-> {"rel"}, shapes |-> {}]

ViewInputs ==
    {Restricting(incE, excE, incF, excF, aggs) :
        incE \in {{}, {1}, {1, 2}}, excE \in {{}, {2}, {3}}, incF \in SUBSET {"a", "b", "c"},
        excF \in SUBSET {"a", "b", "c"}, aggs \in {<<>>, "a" :> {"sum", "avg"}}}

AnyContext ==
    [tenant |-> "t", active |-> TRUE, principal |-> "p", purpose |-> "report", policy |-> "pol", catalog |-> None,
     bundle |-> None, snapshot |-> None, model |-> None, caps |-> {}, flags |-> {}]

Shop == ShopWith({Calculated(Product, Numbers, "null")})

Registry(r, descriptor) ==
    [descriptors |-> {descriptor}, bundle |-> NoBundle,
     views |-> {[id |-> "v", version |-> 1, descriptor |-> "d", purposes |-> {}, policy |-> None, tenant |-> None,
                 principals |-> {}, caps |-> {}, flags |-> {}, model |-> None, r |-> r]}]

ResolvedWith(r, descriptor) == Resolve(Registry(r, descriptor), "v", AnyContext)

AllOfIt == Restricting({}, {}, {}, {}, <<>>)

WholeView(descriptor) == FromProjection(ResolvedWith(AllOfIt, descriptor).projection)

(* Graphs on four entities; two of them may be related twice. *)
Edge(id, left, right) ==
    [id |-> id, rel |-> "rel", left |-> left, right |-> right, leftField |-> "a", rightField |-> "c"]

AllEdges == {Edge(1, 1, 2), Edge(2, 1, 2), Edge(3, 2, 3), Edge(4, 4, 3), Edge(5, 1, 4), Edge(6, 3, 1), Edge(7, 2, 4)}

JoinInputs == {[edges |-> edges, required |-> required] :
                 edges \in SUBSET AllEdges, required \in {S \in SUBSET (1..4) : S # {}}}

JoinView == [WholeView(Shop) EXCEPT !.entities = 1..4]

(* Calculated fields over two columns. *)
Leaves == {Leaf("a"), Leaf("b"), [op |-> "const", const |-> 0], [op |-> "const", const |-> 2]}

RECURSIVE Trees(_)
Trees(n) ==
    IF n = 0 THEN Leaves
    ELSE Leaves \cup {[op |-> op, left |-> l, right |-> r] :
                        op \in {"add", "sub", "mul", "div"}, l \in Trees(n - 1), r \in Leaves}

CalculatedInputs ==
    {[calc |-> Calculated(t, Numbers, zero), agg |-> agg] :
        t \in Trees(MaxNesting), zero \in {"null", "error"}, agg \in {"none", "sum"}}

BindingIn(dialect) ==
    [object |-> "o", dialect |-> dialect, objects |-> <<>>,
     cols |-> <<[field |-> "a", name |-> "x", entity |-> 0], [field |-> "b", name |-> "y", entity |-> 0],
               [field |-> "t", name |-> "z", entity |-> 0]>>]

CalculatedIR(in, view) ==
    [source |-> "db", root |-> 1, filters |-> <<>>, groups |-> <<>>, orders |-> <<>>, limit |-> 9, exts |-> {},
     sels |-> <<IRSelection("total", in.agg, NoExpr, None)>>,
     kind |-> IF in.agg = "none" THEN "rows" ELSE "grouped_rows",
     caps |-> {"calculated-fields"} \cup (IF in.agg = "none" THEN {} ELSE {"aggregation"}),
     prov |-> IRProvenance("db", 1, view.ref, NoPlan)]

Cell == {Null, Num(0), Num(3), Num(-2), Fraction(1, 2)}

CellTables ==
    {<<[x |-> a, y |-> b]>> : a \in Cell \ {Fraction(1, 2)}, b \in Cell}
    \cup {<<[x |-> Num(3), y |-> Num(2)], [x |-> Num(1), y |-> b]>> : b \in Cell}

(* Computed outputs of rows and of weeks; divisions are left to the calculated fields. *)
Positive == IRPredicateExpr("gt", "a", One(Literal("int", 0)))

Atoms == {IRFieldExpr("a"), IRFieldExpr("b"), IRLiteralExpr(Literal("int", 2))}

Composed(S, T) ==
    {IRBinaryExpr(op, x, y, "error") : op \in {"add", "sub", "mul"}, x \in S, y \in T}
    \cup {IRCoalesceExpr(<<x, y>>) : x \in S, y \in T}
    \cup {IRNullIfExpr(x, y) : x \in S, y \in T}
    \cup {IRCaseExpr(<<IRCaseWhen(Positive, x)>>, y) : x \in S, y \in T \cup {NoExpr}}
    \cup {IRRoundExpr(x, 0) : x \in S}

RowOutputs == Atoms \cup Composed(Atoms, Atoms) \cup Composed(Composed(Atoms, Atoms), Atoms)

WeekAggregates ==
    {IRAggregateExpr(func, field, filter) : func \in {"count", "count_distinct", "sum", "avg", "min", "max"},
                                            field \in {"a", "b"}, filter \in {NoExpr, Positive}}
    \cup {IRPriorPeriodExpr(func, "week", "b", filter) : func \in {"count", "sum"}, filter \in {NoExpr, Positive}}

WeekOutputs ==
    WeekAggregates
    \cup {IRBinaryExpr("sub", x, y, "error") : x \in WeekAggregates, y \in WeekAggregates}
    \cup {IRCoalesceExpr(<<x, IRLiteralExpr(Literal("int", 0))>>) : x \in WeekAggregates}

Week == IRDateTruncExpr("week", "t")

ComputedIR(e, view) ==
    LET weekly == e \in WeekOutputs
    IN [source |-> "db", root |-> 1, filters |-> <<>>, orders |-> <<>>, limit |-> 9, exts |-> {},
        sels |-> <<IRSelection("out", "none", e, None)>>
                 \o (IF weekly THEN <<IRSelection("w", "none", Week, None)>> ELSE <<>>),
        groups |-> IF weekly THEN <<IRGrouping("w", Week)>> ELSE <<>>,
        kind |-> IF weekly THEN "grouped_rows" ELSE "rows",
        caps |-> {"computed_expressions", "prior_period", "grouping"},
        prov |-> IRProvenance("db", 1, view.ref, NoPlan)]

(* No aggregation kind of a view names distinct counts, so no field is restricted here. *)
ComputedView == [WholeView(Shop) EXCEPT !.aggs = <<>>, !.ops = {"select", "group"}]

WeekRow(a, b, t) == [x |-> a, y |-> b, z |-> Num(t)]

WeekTables ==
    {<<WeekRow(Num(1), Fraction(1, 2), 0), WeekRow(a, b, t), WeekRow(Num(-1), Num(2), 5)>> :
        a \in {Null, Num(1), Num(2)}, b \in {Null, Fraction(1, 2)}, t \in {1, 2}}

(* Value mappings, and filters on the mapped field. *)
Word(n) == Literal("str", n)

Mappings ==
    {(Word(1) :> Literal("int", 1)) @@ (Word(2) :> Literal("int", 2)),
     (Word(1) :> Word(2)) @@ (Word(2) :> Word(3)),
     (Word(1) :> Literal("int", 1)) @@ (Word(2) :> Word(3)),
     (Literal("digits", 1) :> Literal("int", 2)) @@ (Word(2) :> Literal("int", 1))}

SomeValues ==
    {Word(1), Word(3), Literal("int", 1), Literal("digits", 1), Literal("spelled", 2), Literal("bool", 1)}

Operands(op) == IF op = "in" THEN {Many(s) : s \in UNION {[1..n -> SomeValues] : n \in 1..MaxValues}}
                ELSE {One(v) : v \in SomeValues}

ValueInputs ==
    UNION {{[field |-> [NumberField("a", "int") EXCEPT !.mapping = m, !.policy = p],
             filter |-> IRFilter("a", op, v)] :
               m \in Mappings, p \in {"reject", "warn"}, v \in Operands(op)} : op \in {"eq", "in", "ne"}}

(* Intents about the first entity, through views of different widths. *)
Intent(sels, filters, orders) ==
    [kind |-> "single", source |-> "db", root |-> 1, sels |-> sels, filters |-> filters, orders |-> orders, limit |-> 9]

IntentInputs ==
    {[r |-> r, intent |-> Intent(sels, filters, orders)] :
        r \in {AllOfIt, Restricting({}, {}, {}, {"b"}, <<>>), Restricting({1}, {}, {}, {}, "a" :> {"sum"})},
        sels \in {<<SelectedAs(f, g, None)>> : f \in {"a", "b", "c"}, g \in {"none", "sum", "max"}},
        filters \in {<<>>} \cup {<<IRFilter(f, "eq", One(Literal("int", 1)))>> : f \in {"a", "b", "c"}},
        orders \in {<<>>, <<IROrdering("b", "asc")>>}}

------------------------------------------------------------------------------
(* One call, on an input that its constructor accepts. *)
RulesInit ==
    /\ verdict = Pending
    /\ \/ topic = "view" /\ input \in {r \in ViewInputs : ValidRestrictions(r) /\ ValidRegistry(Registry(r, Shop))}
       \/ topic = "join" /\ input \in {in \in JoinInputs : ValidGraph(in)}
       \/ topic = "calculated" /\ input \in {in \in CalculatedInputs : ValidDescriptor(ShopWith({in.calc}))}
       \/ /\ topic = "computed"
          /\ input \in {e \in RowOutputs \cup WeekOutputs : ValidIR(ComputedIR(e, ComputedView))}
       \/ topic = "value" /\ input \in {in \in ValueInputs : ValidField(in.field)}
       \/ topic = "intent" /\ input \in IntentInputs

Called(t, result) ==
    /\ topic = t /\ verdict = Pending
    /\ verdict' = [kind |-> "called", result |-> result]
    /\ UNCHANGED <<topic, input>>

CallResolve == Called("view", ResolvedWith(input, Shop))

CallPlan ==
    Called("join", PlanJoins([source |-> "db", edges |-> input.edges], JoinView,
                             [source |-> "db", entities |-> input.required]))

CallCompile ==
    LET view == WholeView(ShopWith({input.calc}))
        ir == CalculatedIR(input, [view EXCEPT !.ops = {"select", "aggregate"}])
        v == [view EXCEPT !.ops = {"select", "aggregate"}]
    IN Called("calculated", [sql |-> CompileSql(ir, v, BindingIn("sqlite"), NoPlan, {input.calc}),
                             mongo |-> CompileMongo(ir, v, BindingIn("mongodb"), {input.calc})])

CallCompileComputed ==
    Called("computed", CompileSql(ComputedIR(input, ComputedView), ComputedView, BindingIn("sqlite"), NoPlan, {}))

CallResolveFilters == Called("value", ResolveFilters(<<input.filter>>, "a" :> input.field))

CallResolveIntent ==
    Called("intent", ResolveIntent(input.intent, <<>>, TRUE, [anchored |-> FALSE],
                                   FromProjection(ResolvedWith(input.r, Shop).projection)))

RulesNext == CallResolve \/ CallPlan \/ CallCompile \/ CallCompileComputed \/ CallResolveFilters \/ CallResolveIntent

(* Requests are served, or one of the algorithms is called. *)
MCInit ==
    \/ topic = "requests" /\ input = {} /\ verdict = Pending /\ Init
    \/ Start(Named.other) /\ (\A r \in Requests : req[r].backend = "sql") /\ RulesInit

MCNext ==
    \/ topic = "requests" /\ Next /\ UNCHANGED ruleVars
    \/ RulesNext /\ UNCHANGED vars

MCSpec == MCInit /\ [][MCNext]_<<vars, ruleVars>>

On(t) == topic = t /\ verdict # Pending

------------------------------------------------------------------------------
Excluding(r, fields) == [r EXCEPT !.excF = @ \cup fields]

(* A restriction of a view can only narrow it: when one more field is        *)
(* excluded, no entity, field, calculated field or aggregation appears that  *)
(* was not there before (ViewMemberRestrictions).                            *)
ExcludingOnlyNarrows ==
    On("view") /\ verdict.result.kind = "resolved" =>
        LET p == verdict.result.projection
        IN \A f \in {"a", "b", "c"} :
              LET q == ResolvedWith(Excluding(input, {f}), Shop).projection
              IN q # NoProjection => /\ q.entities \subseteq p.entities /\ q.fields \subseteq p.fields
                                     /\ q.calcs \subseteq p.calcs
                                     /\ \A x \in q.fields : q.aggs[x] \subseteq p.aggs[x]

(* What a resolved view shows can be computed from what it shows: the leaves *)
(* of its calculated fields are fields of it, and every field is of one of   *)
(* its entities, with no aggregation the descriptor does not allow.  No      *)
(* calculated field has the name of a field.                                 *)
ViewIsClosed ==
    On("view") /\ verdict.result.kind = "resolved" =>
        LET p == verdict.result.projection
        IN /\ ConsistentProjection(p)
           /\ \A c \in p.calcs : FieldLeaves(c.expression) \subseteq p.fields
           /\ \A f \in p.fields : /\ \E e \in Shop.entities : e.id \in p.entities /\ f \in EntityFieldIds(e)
                                  /\ p.aggs[f] \subseteq FieldOf(Shop, f).aggs

(* A plan joins all required entities, along edges of the graph, one new     *)
(* entity a step: compiled to SQL, no table is joined twice or left out.     *)
PlanIsTree ==
    On("join") /\ verdict.result.kind = "plan" =>
        LET steps == verdict.result.steps
            before(i) == {verdict.result.root} \cup {steps[j].right : j \in 1..(i - 1)}
        IN /\ input.required \subseteq before(Len(steps) + 1)
           /\ \A i \in DOMAIN steps :
                 /\ steps[i].left \in before(i) /\ steps[i].right \notin before(i)
                 /\ \E e \in input.edges : e.id = steps[i].id /\ {e.left, e.right} = {steps[i].left, steps[i].right}

(* All ways from one entity to another without visiting one twice. *)
RECURSIVE Ways(_, _, _)
Ways(edges, visited, end) ==
    LET at == visited[Len(visited)]
    IN IF at = end THEN {<<>>}
       ELSE UNION {LET next == IF e.left = at THEN e.right ELSE e.left
                   IN IF next \in Elems(visited) THEN {}
                      ELSE {<<e.id>> \o w : w \in Ways(edges, Append(visited, next), end)} :
                      e \in {x \in edges : at \in {x.left, x.right}}}

(* Between two entities the planner finds the shortest way, says that there  *)
(* is none, or refuses to choose between several: no implicit choice.        *)
OneShortestWay ==
    On("join") /\ Cardinality(input.required) = 2 =>
        LET ways == Ways(input.edges, <<Min(input.required)>>, Max(input.required))
            shortest == {w \in ways : \A v \in ways : Len(w) <= Len(v)}
            steps == verdict.result.steps
        IN CASE Cardinality(shortest) = 0 -> verdict.result.kind = "not_found"
             [] Cardinality(shortest) > 1 -> verdict.result.kind = "ambiguous"
             [] OTHER -> [i \in DOMAIN steps |-> steps[i].id] \in shortest

(* What a calculated field means for a row: null in, null out, and null for  *)
(* a division by zero, for a policy that allows it.                          *)
RECURSIVE TreeValue(_, _)
TreeValue(n, row) ==
    IF n.op = "field" THEN row[PhysicalName(BindingIn("sqlite"), n.field_id)]
    ELSE IF n.op = "const" THEN Num(n.const)
    ELSE LET l == TreeValue(n.left, row)
             r == TreeValue(n.right, row)
         IN IF Null \in {l, r} \/ (n.op = "div" /\ IsZero(r)) THEN Null ELSE Combine(n.op, l, r)

Meant(in, table) ==
    LET value(i) == TreeValue(in.calc.expression, table[i])
        known == {i \in DOMAIN table : IsNumber(value(i))}
    IN IF in.agg = "none" THEN BagOf([i \in DOMAIN table |-> value(i)])
       ELSE (IF known = {} THEN Null ELSE Total(known, value)) :> 1

FirstCells(rows, first(_)) ==
    [v \in {first(r) : r \in DOMAIN rows} |-> MapThenSumSet(LAMBDA r : rows[r], {s \in DOMAIN rows : first(s) = v})]

(* A calculated field has its meaning in SQL, whatever is null or zero: the   *)
(* real division, the guard against zero and the cast to the inferred type    *)
(* lose nothing.  A policy SQLite cannot enforce is refused.                  *)
CalculatedInSql ==
    On("calculated") =>
        LET out == verdict.result.sql
            enforced == ~ContainsDivision(input.calc.expression) \/ input.calc.zero = "null"
        IN /\ (out.problems = {}) = enforced
           /\ enforced => \A t \in CellTables :
                 LET answer == SqlAnswer([o |-> t], out.statement)
                 IN FirstCells(answer.rows, LAMBDA r : r[1]) = Meant(input, t)

(* An expression whose operands are numbers, and whose zero divisor, if any,  *)
(* the policy turns into a null.                                              *)
Operable(calc, row) ==
    LET n == calc.expression
    IN /\ ~IsLeaf(n) => IsNumber(TreeValue(n.left, row)) /\ IsNumber(TreeValue(n.right, row))
       /\ IsNumber(TreeValue(n, row)) \/ (~IsLeaf(n) /\ calc.zero = "null")

(* The aggregation expression has the same meaning for numbers: it does not   *)
(* fail, it is null for a zero divisor, and a sum skips such documents.       *)
CalculatedInMongo ==
    On("calculated") =>
        \A t \in {u \in CellTables : \A i \in DOMAIN u : Operable(input.calc, u[i])} :
            LET answer == MongoAnswer([o |-> t], verdict.result.mongo.spec)
                column == CHOOSE c \in answer.columns : TRUE
            IN /\ ~answer.failed
               /\ DOMAIN Meant(input, t) # {Null} \/ input.agg = "none" =>
                     FirstCells(answer.rows, LAMBDA r : r[column]) = Meant(input, t)

(* What a computed expression means for a set of rows, all in one week when  *)
(* it aggregates; null operands make null results.                           *)
RECURSIVE ExprValue(_, _, _)
ExprValue(e, rows, table) ==
    LET cell(i, f) == table[i][PhysicalName(BindingIn("sqlite"), f)]
        week(i) == cell(i, "t").n \div BucketSize["week"]
        met(filter, i) == filter = NoExpr \/ Holds(filter, cell(i, filter.field))
        known(S, f, filter) == {i \in S : met(filter, i) /\ IsNumber(cell(i, f))}
        agg(func, f, S) ==
            LET value(i) == cell(i, f)
            IN CASE func = "count" -> Num(Cardinality(S))
                 [] func = "count_distinct" -> Num(Cardinality({value(i) : i \in S}))
                 [] S = {} -> Null
                 [] func = "sum" -> Total(S, value)
                 [] func = "avg" -> Mean(S, value)
                 [] func = "min" -> Least(S, value)
                 [] func = "max" -> Greatest(S, value)
        v(x) == ExprValue(x, rows, table)
    IN CASE e.kind = "field" -> cell(CHOOSE i \in rows : TRUE, e.field)
         [] e.kind = "literal" -> LiteralCell(e.value)
         [] e.kind = "binary" ->
              IF IsNumber(v(e.left)) /\ IsNumber(v(e.right)) THEN Combine(e.op, v(e.left), v(e.right)) ELSE Null
         [] e.kind = "coalesce" ->
              LET values == SelectSeq([i \in DOMAIN e.operands |-> v(e.operands[i])], LAMBDA x : x # Null)
              IN IF values = <<>> THEN Null ELSE values[1]
         [] e.kind = "nullif" -> IF v(e.left) = v(e.right) THEN Null ELSE v(e.left)
         [] e.kind = "case" ->
              CASE met(e.whens[1].condition, CHOOSE i \in rows : TRUE) -> v(e.whens[1].result)
                [] e.default = NoExpr -> Null
                [] OTHER -> v(e.default)
         [] e.kind = "round" -> IF IsNumber(v(e.operand)) THEN Rounded(v(e.operand), e.scale) ELSE Null
         [] e.kind = "aggregate" -> agg(e.func, e.field, known(rows, e.field, e.filter))
         [] e.kind = "prior_period" ->
              LET earlier == {i \in DOMAIN table : \A j \in rows : week(i) < week(j)}
                  last == {i \in earlier : \A j \in earlier : week(j) <= week(i)}
              IN IF earlier = {} THEN Null ELSE agg(e.aggregate, e.field, known(last, e.field, e.filter))

(* A computed output is lowered to SQL with its meaning: filters of           *)
(* aggregates, distinctness, nulls and the previous week's value survive.     *)
ComputedInSql ==
    On("computed") =>
        /\ verdict.result.problems = {}
        /\ \A t \in WeekTables :
              LET week(i) == t[i].z.n \div BucketSize["week"]
                  rows == IF input \in WeekOutputs THEN {{j \in DOMAIN t : week(j) = week(i)} : i \in DOMAIN t}
                          ELSE {{i} : i \in DOMAIN t}
              IN FirstCells(SqlAnswer([o |-> t], verdict.result.statement).rows, LAMBDA r : r[1])
                    = BagOf([S \in rows |-> ExprValue(input, S, t)])

(* Under the reject policy, what is left of a filter's values are stored      *)
(* values, each once; under the other one an unknown word stays what it is.   *)
OnlyStoredValues ==
    On("value") /\ verdict.result.code = "ok" =>
        LET values == verdict.result.filters[1].value.items
            stored == StoredValues(input.field)
        IN /\ \A v \in Elems(values) :
                 v \in stored \/ (input.field.policy = "warn" /\ v \in Elems(input.filter.value.items))
           /\ Cardinality(Elems(values)) = Len(values)

(* A model's intent that the resolver accepts leads to an IR that validation  *)
(* finds within the view: nothing the model names outside it gets that far.   *)
ResolvedWithinView ==
    On("intent") /\ verdict.result.kind = "resolved" =>
        LET view == FromProjection(ResolvedWith(input.r, Shop).projection)
            ir == BuildIR(verdict.result.intent, view.ref, NoPlan, {})
        IN Buildable(ir, {}) => ValidateIR(ir, view, {}) \subseteq {"operation_out_of_scope"}

(* ViewRegistry.resolve: a restriction never shows more, and what a view      *)
(* shows can be computed from what it shows.                                  *)
ViewsAreNarrowings == ExcludingOnlyNarrows /\ ViewIsClosed

(* The join planner joins every required entity once, along edges of the      *)
(* graph, and between two entities takes the only shortest way or none.       *)
JoinsAreShortestTrees == PlanIsTree /\ OneShortestWay

(* Calculated fields (expand_sql, expand_mongo) and computed outputs          *)
(* (render_ir_expression) mean after compilation what they mean as trees,     *)
(* with nulls, zero divisors, filters, distinctness and prior periods.        *)
ExpressionsKeepTheirMeaning == CalculatedInSql /\ CalculatedInMongo /\ ComputedInSql

(* What the resolver makes of a model's reply stays within stored values and  *)
(* within the view (resolve_filter_values, _intent).                          *)
IntentsStayInScope == OnlyStoredValues /\ ResolvedWithinView
==============================================================================
