--------------------------- MODULE DatabaseEngines ---------------------------
(***************************************************************************)
(* What a backend answers to a compiled query.                             *)
(*                                                                         *)
(* A database maps an object to a sequence of rows, a row maps a column to *)
(* a cell.  A number is a fraction in lowest terms, so that division is    *)
(* exact; null, a member a document does not have, and the result of a     *)
(* failed evaluation are apart from all numbers.                           *)
(***************************************************************************)
EXTENDS Integers, FiniteSets, FiniteSetsExt, Sequences, TLC

Null == [n |-> 0, d |-> 0]

Missing == [n |-> 1, d |-> 0]

Failed == [n |-> 2, d |-> 0]

IsNumber(v) == v.d # 0

Abs(n) == IF n < 0 THEN -n ELSE n

Fraction(n, d) ==
    LET common == {k \in 1..Abs(d) : d % k = 0 /\ Abs(n) % k = 0}
        g == IF d < 0 THEN -Max(common) ELSE Max(common)
    IN [n |-> n \div g, d |-> d \div g]

Num(n) == [n |-> n, d |-> 1]

IsZero(v) == v = Num(0)

(* Arithmetic on two numbers. *)
Combine(op, a, b) ==
    CASE op = "add" -> Fraction(a.n * b.d + b.n * a.d, a.d * b.d)
      [] op = "sub" -> Fraction(a.n * b.d - b.n * a.d, a.d * b.d)
      [] op = "mul" -> Fraction(a.n * b.n, a.d * b.d)
      [] op = "div" -> Fraction(a.n * b.d, a.d * b.n)

(* A cast to an integer drops what follows the point. *)
Truncated(v) == Num(IF v.n < 0 THEN -(Abs(v.n) \div v.d) ELSE v.n \div v.d)

Less(a, b) == a.n * b.d < b.n * a.d

Compare(op, a, b) ==
    CASE op = "eq" -> a = b
      [] op = "ne" -> a # b
      [] op = "gt" -> Less(b, a)
      [] op = "gte" -> ~Less(a, b)
      [] op = "lt" -> Less(a, b)
      [] op = "lte" -> ~Less(b, a)

(* Aggregates of the numbers f(x), x \in S; the caller says what an empty S gives. *)
Total(S, f(_)) == FoldSet(LAMBDA x, acc : Combine("add", acc, f(x)), Num(0), S)

Least(S, f(_)) == CHOOSE v \in {f(x) : x \in S} : \A x \in S : ~Less(f(x), v)

Greatest(S, f(_)) == CHOOSE v \in {f(x) : x \in S} : \A x \in S : ~Less(v, f(x))

Mean(S, f(_)) == Combine("div", Total(S, f), Num(Cardinality(S)))

------------------------------------------------------------------------------
(***************************************************************************)
(* SQL: the part of the language that the compiler uses, as the adapters   *)
(* rely on it.  Rows have no order here, so an answer is a bag; ORDER BY   *)
(* and LIMIT are not evaluated.  Text search is not evaluated either.      *)
(***************************************************************************)
Cells(S) == {S[i] : i \in DOMAIN S}

LiteralCell(lit) ==
    CASE lit.type = "null" -> Null
      [] lit.type = "neg" -> Num(-lit.n)
      [] OTHER -> Num(lit.n)

(* A joined row maps an entity to its object and the row's position there. *)
StoredCell(db, row, col, root) ==
    LET at == row[IF col.entity = 0 THEN root ELSE col.entity]
        cells == db[at.object][at.i]
    IN IF col.name \in DOMAIN cells /\ cells[col.name] # Missing THEN cells[col.name] ELSE Null

RowsOf(db, object) == {[object |-> object, i |-> i] : i \in DOMAIN db[object]}

JoinOne(db, rows, join, root) ==
    {row \in {r @@ (join.entity :> at) : r \in rows, at \in RowsOf(db, join.object)} :
        LET l == StoredCell(db, row, join.left, root)
        IN IsNumber(l) /\ l = StoredCell(db, row, join.right, root)}

JoinedRows(db, st) ==
    LET start == {st.from.entity :> at : at \in RowsOf(db, st.from.object)}
        after[n \in 0..Len(st.joins)] ==
            IF n = 0 THEN start ELSE JoinOne(db, after[n - 1], st.joins[n], st.from.entity)
    IN after[Len(st.joins)]

(* A comparison holds only when it is known to hold. *)
Holds(p, v) ==
    LET lits == Cells(p.value.items)
    IN CASE p.op = "is_null" -> ~IsNumber(v)
         [] p.op = "is_not_null" -> IsNumber(v)
         [] ~IsNumber(v) -> FALSE
         [] p.op = "in" -> v \in {LiteralCell(l) : l \in lits}
         [] p.op = "not_in" -> v \notin {LiteralCell(l) : l \in lits} /\ \A l \in lits : l.type # "null"
         [] OTHER -> \A l \in lits : l.type # "null" /\ Compare(p.op, v, LiteralCell(l))

Rounded(v, scale) == Fraction((2 * v.n * 10^scale + v.d) \div (2 * v.d), 10^scale)

(* The length of a bucket, in the unit of the time columns. *)
BucketSize == [day |-> 1, week |-> 2, month |-> 4]

RECURSIVE HasAggregate(_)
HasAggregate(x) ==
    CASE x.kind \in {"agg", "lag"} -> TRUE
      [] x.kind \in {"bin", "quotient", "nullif"} -> HasAggregate(x.left) \/ HasAggregate(x.right)
      [] x.kind \in {"cast", "round"} -> HasAggregate(x.arg)
      [] x.kind = "coalesce" -> \E a \in Cells(x.args) : HasAggregate(a)
      [] OTHER -> FALSE

(* Division of two whole numbers is a whole number, of anything by zero null. *)
Divided(a, b) ==
    CASE IsZero(b) -> Null
      [] a.d = 1 /\ b.d = 1 -> Truncated(Combine("div", a, b))
      [] OTHER -> Combine("div", a, b)

(* The value of an expression for a group of rows of the database. *)
RECURSIVE SqlValue(_, _, _)
SqlValue(x, group, at) ==
    LET strict(a, b, result) == IF Failed \in {a, b} THEN Failed
                                ELSE IF Null \in {a, b} THEN Null ELSE result
    IN CASE x.kind = "col" ->
              IF group = {} THEN Null ELSE StoredCell(at.db, CHOOSE r \in group : TRUE, x.col, at.root)
         [] x.kind = "lit" -> LiteralCell(x.value)
         [] x.kind = "when" ->
              IF \A r \in group : Holds(x.cond, StoredCell(at.db, r, x.cond.col, at.root))
              THEN SqlValue(x.then, group, at) ELSE Null
         [] x.kind = "bin" ->
              LET a == SqlValue(x.left, group, at)
                  b == SqlValue(x.right, group, at)
              IN strict(a, b, IF x.op = "div" THEN Divided(a, b) ELSE Combine(x.op, a, b))
         [] x.kind = "quotient" ->
              LET a == SqlValue(x.left, group, at)
                  b == SqlValue(x.right, group, at)
              IN CASE IsZero(b) -> IF x.zero = "null" THEN Null ELSE strict(a, b, Failed)
                   [] OTHER -> strict(a, b, Combine("div", a, b))
         [] x.kind = "cast" ->
              LET a == SqlValue(x.arg, group, at)
              IN IF x.type = "int" /\ IsNumber(a) THEN Truncated(a) ELSE a
         [] x.kind = "round" ->
              LET a == SqlValue(x.arg, group, at)
              IN IF IsNumber(a) THEN Rounded(a, x.scale) ELSE a
         [] x.kind = "nullif" ->
              LET a == SqlValue(x.left, group, at)
              IN IF a = SqlValue(x.right, group, at) THEN Null ELSE a
         [] x.kind = "coalesce" ->
              LET values == [i \in DOMAIN x.args |-> SqlValue(x.args[i], group, at)]
                  known == {i \in DOMAIN values : values[i] # Null}
              IN IF known = {} THEN Null ELSE values[Min(known)]
         [] x.kind = "case" ->
              LET met == {i \in DOMAIN x.whens : SqlValue([kind |-> "when", cond |-> x.whens[i].cond,
                            then |-> [kind |-> "lit", value |-> [type |-> "int", n |-> 1]]], group, at) # Null}
              IN SqlValue(IF met = {} THEN x.else ELSE x.whens[Min(met)].then, group, at)
         [] x.kind = "bucket" ->
              LET a == SqlValue([kind |-> "col", col |-> x.col], group, at)
              IN IF IsNumber(a) THEN Num(a.n \div BucketSize[x.bucket]) ELSE a
         [] x.kind = "lag" ->
              LET bucket(g) == SqlValue(x.over, g, at)
                  before == {g \in at.groups : Less(bucket(g), bucket(group))}
              IN IF before = {} THEN Null
                 ELSE SqlValue(x.arg, CHOOSE g \in before : \A h \in before : ~Less(bucket(g), bucket(h)), at)
         [] x.kind = "agg" ->
              LET value(r) == SqlValue(x.arg, {r}, at)
                  known == {r \in group : IsNumber(value(r))}
              IN CASE \E r \in group : value(r) = Failed -> Failed
                   [] x.func = "count" ->
                        Num(Cardinality(IF x.distinct THEN {value(r) : r \in known} ELSE known))
                   [] known = {} -> Null
                   [] x.func = "sum" -> Total(known, value)
                   [] x.func = "avg" -> Mean(known, value)
                   [] x.func = "min" -> Least(known, value)
                   [] x.func = "max" -> Greatest(known, value)

(* How many times each member of f's range is a value of f. *)
BagOf(f) == [v \in {f[x] : x \in DOMAIN f} |-> Cardinality({x \in DOMAIN f : f[x] = v})]

Groups(rows, st, at) ==
    LET key(r) == [i \in DOMAIN st.group |-> SqlValue(st.group[i], {r}, at)]
    IN IF st.group # <<>> THEN {{r \in rows : key(r) = k} : k \in {key(r) : r \in rows}}
       ELSE IF \E item \in Cells(st.select) : HasAggregate(item.expr) THEN {rows}
       ELSE {{r} : r \in rows}

(* The answer to a statement: names of the columns and a bag of rows. *)
SqlAnswer(db, st) ==
    LET at0 == [db |-> db, root |-> st.from.entity, groups |-> {}]
        rows == {r \in JoinedRows(db, st) :
                   \A i \in DOMAIN st.where : Holds(st.where[i], StoredCell(db, r, st.where[i].col, at0.root))}
        at == [at0 EXCEPT !.groups = Groups(rows, st, at0)]
    IN [columns |-> [i \in DOMAIN st.select |-> st.select[i].name],
        rows |-> BagOf([g \in at.groups |-> [i \in DOMAIN st.select |-> SqlValue(st.select[i].expr, g, at)]])]

------------------------------------------------------------------------------
(***************************************************************************)
(* Documents: the in-memory executor (nl2data_mongodb fake.py) and the     *)
(* shaping of its documents into a protected result (execution.py).  A     *)
(* document maps paths to cells; a collection is a sequence of documents.  *)
(* Nested documents and $unwind are left out: the compiler produces        *)
(* neither.                                                                *)
(***************************************************************************)
(* _path_value. *)
PathValue(doc, path) == IF path \in DOMAIN doc THEN doc[path] ELSE Missing

(* _compare: null and a missing member differ, and neither is below a number. *)
CompareCell(v, op, value) ==
    LET operands == {LiteralCell(l) : l \in Cells(value.items)}
    IN CASE op \in {"eq", "in"} -> v \in operands
         [] op \in {"ne", "not_in"} -> v \notin operands
         [] ~IsNumber(v) -> FALSE
         [] OTHER -> \A o \in operands : IsNumber(o) /\ Compare(op, v, o)

(* _matches. *)
Matches(doc, filter) ==
    \A p \in DOMAIN filter : CompareCell(PathValue(doc, p), filter[p].op, filter[p].value)

(* _eval_expression: arithmetic takes numbers only, and fails on anything else. *)
RECURSIVE EvalExpression(_, _)
EvalExpression(x, doc) ==
    CASE x.kind = "path" -> IF PathValue(doc, x.path) = Missing THEN Null ELSE PathValue(doc, x.path)
      [] x.kind = "const" -> Num(x.n)
      [] x.kind = "present" ->
            LET v == EvalExpression(x.arg, doc)
            IN CASE v = Failed -> Failed [] v = Null -> Num(0) [] OTHER -> Num(1)
      [] x.kind = "convert" ->
            LET v == EvalExpression(x.arg, doc)
            IN IF IsNumber(v) /\ x.type = "int" THEN Truncated(v) ELSE v
      [] OTHER ->
            LET l == EvalExpression(x.left, doc)
                r == EvalExpression(x.right, doc)
            IN CASE r = Failed -> Failed
                 [] x.kind = "guarded" /\ IsZero(r) -> Null
                 [] ~IsNumber(l) \/ ~IsNumber(r) \/ (x.op = "div" /\ IsZero(r)) -> Failed
                 [] OTHER -> Combine(x.op, l, r)

(* _project_document: a member the document lacks is left out. *)
ProjectDocument(doc, projection) ==
    LET outputs == {p \in DOMAIN projection : projection[p].kind # "exclude"}
        source(p) == IF projection[p].kind = "path" THEN projection[p].path ELSE p
        present == {p \in outputs : projection[p].kind = "expr" \/ PathValue(doc, source(p)) # Missing}
    IN [p \in present |-> IF projection[p].kind = "expr" THEN EvalExpression(projection[p].expr, doc)
                          ELSE PathValue(doc, source(p))]

(* One accumulator over the documents at the positions in S. *)
Accumulate(acc, docs, S) ==
    LET value(i) == IF acc.arg.kind = "path" THEN PathValue(docs[i], acc.arg.path)
                    ELSE EvalExpression(acc.arg, docs[i])
        numeric == {i \in S : IsNumber(value(i))}
    IN CASE acc.acc = "documents" -> Num(Cardinality(S))
         [] \E i \in S : value(i) = Failed -> Failed
         [] acc.acc = "sum" -> Total(numeric, value)
         [] numeric = {} -> Null
         [] acc.acc = "avg" -> Mean(numeric, value)
         [] acc.acc = "min" -> Least(numeric, value)
         [] acc.acc = "max" -> Greatest(numeric, value)

(* _group_documents: groups in the order of their first documents. *)
GroupDocuments(docs, arg) ==
    LET id(i) == IF arg.id = <<"", "_id">> THEN Null ELSE PathValue(docs[i], arg.id)
        firsts == {i \in DOMAIN docs : \A j \in 1..(i - 1) : id(j) # id(i)}
        members(i) == {j \in DOMAIN docs : id(j) = id(i)}
        nth(k) == CHOOSE i \in firsts : Cardinality({j \in firsts : j <= i}) = k
    IN [k \in 1..Cardinality(firsts) |->
          (<<"", "_id">> :> id(nth(k)))
          @@ [p \in DOMAIN arg.accs |-> Accumulate(arg.accs[p], docs, members(nth(k)))]]

(* One stage of a pipeline.  The order of documents is not kept by "sort". *)
RunStage(docs, stage) ==
    CASE stage.name = "match" -> SelectSeq(docs, LAMBDA d : Matches(d, stage.arg))
      [] stage.name = "group" -> GroupDocuments(docs, stage.arg)
      [] stage.name = "project" -> [i \in DOMAIN docs |-> ProjectDocument(docs[i], stage.arg)]
      [] stage.name = "limit" -> SubSeq(docs, 1, IF Len(docs) < stage.arg THEN Len(docs) ELSE stage.arg)
      [] stage.name = "sort" -> docs

(* aggregate_documents and find_documents. *)
AggregateDocuments(docs, pipeline) ==
    LET after[n \in 0..Len(pipeline)] == IF n = 0 THEN docs ELSE RunStage(after[n - 1], pipeline[n])
    IN after[Len(pipeline)]

FindDocuments(docs, spec) ==
    LET matched == SelectSeq(docs, LAMBDA d : Matches(d, spec.filter))
    IN [i \in DOMAIN RunStage(matched, [name |-> "limit", arg |-> spec.limit]) |->
          ProjectDocument(matched[i], spec.projection)]

(* _result_columns: a pipeline that ends in $limit has its first document's members. *)
ResultColumns(spec, docs) ==
    CASE spec.operation = "find" -> {p \in DOMAIN spec.projection : spec.projection[p].kind # "exclude"}
      [] docs # <<>> -> DOMAIN docs[1] \ {<<"", "_id">>}
      [] OTHER -> {}

(* The documents stored in a collection: a member without a value is not there. *)
StoredDocuments(rows) ==
    [i \in DOMAIN rows |->
        [p \in {<<"", c>> : c \in {k \in DOMAIN rows[i] : rows[i][k] # Missing}} |-> rows[i][p[2]]]]

FetchDocuments(docs, spec) ==
    IF spec.operation = "find" THEN FindDocuments(docs, spec)
    ELSE RunStage(AggregateDocuments(docs, spec.pipeline), [name |-> "limit", arg |-> spec.limit])

(* Documents as rows under the columns; a cell outside the scalars fails it. *)
ShapedResult(columns, docs) ==
    [columns |-> columns,
     rows |-> BagOf([i \in DOMAIN docs |-> [c \in columns |-> PathValue(docs[i], c)]]),
     failed |-> \E i \in DOMAIN docs :
                   \/ \E c \in columns : PathValue(docs[i], c) = Missing
                   \/ \E p \in DOMAIN docs[i] : docs[i][p] = Failed]

ResultOf(spec, docs) == ShapedResult(ResultColumns(spec, docs), docs)

(* execute_mongo_spec. *)
MongoAnswer(db, spec) == ResultOf(spec, FetchDocuments(StoredDocuments(db[spec.collection]), spec))
==============================================================================
