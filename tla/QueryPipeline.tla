---------------------------- MODULE QueryPipeline ----------------------------
(***************************************************************************)
(* Requests on their way through the governed stages of a runtime          *)
(* (workflow/runtime.py), from the model call to the protected result, on  *)
(* a SQL adapter and a MongoDB adapter.  A step is one stage: the stages   *)
(* of two requests interleave, because every stage is awaited.  What a     *)
(* runtime is composed of is its world, fixed for a behaviour.             *)
(***************************************************************************)
EXTENDS IntentResolution, QueryAdapters, JoinPlanner, QueryGovernance, DatabaseEngines

CONSTANTS Requests,   \* requests in flight
          Worlds      \* the compositions considered, by name, each with a bound of the clock

VARIABLES world,      \* the runtime's composition
          req,        \* a request's channel
          parsed,     \* _parsed_by_id of each adapter
          texts,      \* _sql_by_id and its MongoDB counterpart
          closed,     \* the runtimes that were closed
          now         \* the clock

vars == <<world, req, parsed, texts, closed, now>>

Backends == {"sql", "mongodb"}

NoIR == [sels |-> <<>>]

NoArtifact == [kind |-> "absent"]

NoResult == [columns |-> <<>>, rows |-> <<>>]

(* _execute_graph's channel at the start. *)
NewRequest(backend) ==
    [backend |-> backend, stage |-> "intent", status |-> "running", tries |-> 0, intent |-> NoIntent,
     ir |-> NoIR, plan |-> NoPlan, ctx |-> Absent, artifact |-> NoArtifact, id |-> 0, guard |-> NoArtifact,
     auth |-> NoArtifact, ran |-> NoArtifact, answer |-> NoResult, result |-> NoResult]

(* The end of a request. *)
Ended(q, status) == [q EXCEPT !.stage = "done", !.status = status]

Start(composition) ==
    /\ world = composition
    /\ \E on \in [Requests -> Backends] :
          req = [r \in Requests |-> IF r \in world.requests THEN NewRequest(on[r])
                                   ELSE Ended(NewRequest("sql"), "not made")]
    /\ parsed = [b \in Backends |-> <<>>]
    /\ texts = [b \in Backends |-> <<>>]
    /\ closed = {}
    /\ now = 0

Init == \E name \in DOMAIN Worlds : Start(Worlds[name])

Binding(r) == world.binding[req[r].backend]

Artifact(b, body) == [kind |-> b, body |-> body]

At(r, stage) == req[r].stage = stage

Move(r, q) == req' = [req EXCEPT ![r] = q]

AdaptersUnchanged == UNCHANGED <<world, parsed, texts, closed, now>>

------------------------------------------------------------------------------
(* _IntentNode: one call of the model.  The runtime's resolver has no       *)
(* snapshot of the descriptor, so that value mappings are not consulted.    *)
RuntimeConfig == [world.config EXCEPT !.anchored = FALSE, !.snapshot = NoSnapshot]

Refuse(r) ==
    /\ At(r, "intent")
    /\ InvocationRefused(world.request, RuntimeConfig, world.provider)
    /\ Move(r, Ended(req[r], "rejected"))
    /\ AdaptersUnchanged

Answered(q, outcome) ==
    CASE outcome.kind = "resolved" -> [q EXCEPT !.stage = "plan", !.intent = outcome.intent, !.tries = 0]
      [] OTHER -> Ended(q, outcome.kind)

Reply(r) ==
    /\ At(r, "intent")
    /\ ~InvocationRefused(world.request, RuntimeConfig, world.provider)
    /\ \E content \in world.replies :
          Move(r, Answered(req[r], ValidateResponse(content, RuntimeConfig, world.view)))
    /\ AdaptersUnchanged

(* A timeout or a retryable error; the last one exhausts the attempts. *)
CallFails(r) ==
    /\ At(r, "intent")
    /\ ~InvocationRefused(world.request, RuntimeConfig, world.provider)
    /\ Move(r, IF req[r].tries + 1 < RuntimeConfig.attempts THEN [req[r] EXCEPT !.tries = @ + 1]
               ELSE Ended(req[r], "rejected"))
    /\ AdaptersUnchanged

(* _PlanNode: a preset IR replaces the one built from the intent. *)
Planned(q, preset) ==
    LET out == IF q.intent.kind = "multi"
               THEN PlanJoins(world.graph, world.view, [source |-> q.intent.source, entities |-> Elems(q.intent.entities)])
               ELSE Outcome("plan", 0, <<>>)
        plan == IF q.intent.kind = "multi" THEN [root |-> out.root, steps |-> out.steps] ELSE NoPlan
        ir == IF preset # NoIR THEN preset ELSE BuildIR(q.intent, world.view.ref, plan, {})
    IN CASE q.intent.kind = "multi" /\ (~world.planner \/ out.kind # "plan") -> Ended(q, "rejected")
         [] preset = NoIR /\ ~Buildable(ir, {}) -> Ended(q, "failed")
         [] OTHER -> [q EXCEPT !.stage = "validate", !.ir = ir, !.plan = plan]

Plan(r) ==
    /\ At(r, "plan")
    /\ \E preset \in world.presets : Move(r, Planned(req[r], preset))
    /\ AdaptersUnchanged

(* _ValidateNode. *)
Validate(r) ==
    /\ At(r, "validate")
    /\ Move(r, IF ValidateIR(req[r].ir, world.view, {}) # {} THEN Ended(req[r], "rejected")
               ELSE [req[r] EXCEPT !.stage = "compile"])
    /\ AdaptersUnchanged

(* _CompileNode: the context that the evidence will be compared with. *)
Optional(identity) == IF identity = None THEN Absent ELSE {identity}

Features(backend) == IF backend = "sql" THEN SqlCapabilities ELSE MongoCapabilities

CompilationContext(q) ==
    [ir |-> {q.ir}, view |-> {world.view.ref}, bundle |-> Optional(world.view.ref.bundle), policy |-> {world.scope.policy},
     tenant |-> world.tenant, purpose |-> Absent,
     planner |-> IF q.plan = NoPlan THEN Absent ELSE {q.plan},
     expansion |-> IF SelectedCalculated(q.ir, world.calcs) = {} THEN Absent ELSE {SelectedCalculated(q.ir, world.calcs)},
     adapter |-> q.backend, caps |-> Features(q.backend), limits |-> world.limits,
     required |-> q.ir.caps, mandatory |-> FilterFingerprints(q.ir)]

Compiled(q, binding) ==
    IF q.backend = "sql"
    THEN LET out == CompileSql(q.ir, world.view, binding, q.plan, world.calcs)
         IN IF out.problems # {} THEN NoArtifact ELSE Artifact("sql", out.statement)
    ELSE LET out == CompileMongo(q.ir, world.view, binding, world.calcs)
         IN IF out.problems # {} THEN NoArtifact ELSE Artifact("mongodb", out.spec)

Compile(r) ==
    /\ At(r, "compile")
    /\ LET artifact == Compiled(req[r], Binding(r))
       IN Move(r, IF artifact = NoArtifact THEN Ended(req[r], "rejected")
                  ELSE [req[r] EXCEPT !.stage = "guard", !.artifact = artifact, !.ctx = CompilationContext(req[r])])
    /\ AdaptersUnchanged

(* _GuardNode: parse numbers the artifact by the size of its registry,       *)
(* validate keeps the text of an accepted one under that number.             *)
Guarded(q, policy, bindings) ==
    LET required == [policy EXCEPT !.obligations = @ \cup FilterFingerprints(q.ir)]
        g == IF q.backend = "sql" THEN GuardSql(q.artifact.body, required, bindings)
             ELSE GuardMongo(q.artifact.body, required, bindings)
    IN [accepted |-> g.accepted, artifact |-> q.artifact, fingerprint |-> <<q.artifact, g.verified>>,
        verified |-> g.verified, rows |-> g.rows]

Guard(r) ==
    /\ At(r, "guard")
    /\ LET b == req[r].backend
           id == Len(parsed[b]) + 1
           guard == Guarded(req[r], world.policy[b], FieldBindings(Binding(r)))
       IN /\ parsed' = [parsed EXCEPT ![b] = Append(@, req[r].artifact)]
          /\ texts' = IF guard.accepted THEN [texts EXCEPT ![b] = (id :> req[r].artifact) @@ @] ELSE texts
          /\ Move(r, IF guard.accepted THEN [req[r] EXCEPT !.stage = "govern", !.id = id, !.guard = guard]
                     ELSE Ended(req[r], "rejected"))
    /\ UNCHANGED <<world, closed, now>>

(* _GovernNode, with _facts_from_ir. *)
Facts(q, binding) ==
    [source |-> q.ir.source, op |-> "select", resources |-> {binding.object}, fields |-> IRFieldIds(q.ir),
     tenant |-> world.tenant, isolation |-> world.isolation]

Allowed(r) ==
    /\ world.tenant # Absent => world.scope.tenant = world.tenant /\ world.scope.isolation = world.isolation
    /\ Evaluate(Facts(req[r], Binding(r)), world.scope) = "allow"

Govern(r) ==
    /\ At(r, "govern")
    /\ Move(r, IF Allowed(r) THEN [req[r] EXCEPT !.stage = "authorize"] ELSE Ended(req[r], "rejected"))
    /\ AdaptersUnchanged

(* _AuthorizeNode: the authorization is verified against what it was issued for. *)
Bindings(q) ==
    [adapter |-> q.backend, source |-> q.ir.source, artifact |-> q.guard.fingerprint, ir |-> {q.ir},
     view |-> {world.view.ref}, bundle |-> Optional(world.view.ref.bundle), caps |-> Features(q.backend),
     tenant |-> world.tenant, isolation |-> world.isolation, filters |-> FilterFingerprints(q.ir)]

Authorized(q) ==
    LET auth == IssueAuthorization(world.scope, Bindings(q), world.limits, now, world.ttl)
    IN CASE ~ValidAuthorization(auth) -> Ended(q, "failed")
         [] VerifyReasons(auth, Bindings(q), FilterFingerprints(q.ir), now) # {} -> Ended(q, "rejected")
         [] OTHER -> [q EXCEPT !.stage = "execute", !.auth = auth]

Authorize(r) ==
    /\ At(r, "authorize")
    /\ Move(r, Authorized(req[r]))
    /\ AdaptersUnchanged

------------------------------------------------------------------------------
(* _ExecuteNode: the last check, then the adapter's call.                   *)

Evidence(q) == [artifact |-> q.artifact] @@ q.ctx

Execute(r) ==
    /\ At(r, "execute")
    /\ Move(r, CASE PreExecutionReasons(req[r].ctx, Evidence(req[r]), req[r].guard, req[r].auth, now)
                       # {} -> Ended(req[r], "rejected")
                 [] now >= world.deadline -> Ended(req[r], "timeout")
                 [] OTHER -> [req[r] EXCEPT !.stage = "call"])
    /\ AdaptersUnchanged

(* An answer as a sequence of column names and a bag of rows. *)
SqlTable(a) ==
    [failed |-> \E row \in DOMAIN a.rows : Failed \in Elems(row),
     answer |-> [columns |-> a.columns, rows |-> a.rows]]

MongoTable(a, columns) ==
    LET row(d) == [i \in DOMAIN columns |-> d[columns[i]]]
    IN [failed |-> a.failed,
        answer |-> [columns |-> columns,
                    rows |-> [t \in {row(d) : d \in DOMAIN a.rows} |->
                                 a.rows[CHOOSE d \in DOMAIN a.rows : row(d) = t]]]]

ByColumn(a) == MongoTable(a, SetToSeq(a.columns))

SqlRun(st) == SqlTable(SqlAnswer(world.db, st))

MongoRun(spec) == ByColumn(MongoAnswer(world.db, spec))

StoredText(q, stored) == stored[q.id]

AfterCall(q, run) ==
    IF run.failed THEN Ended(q, "failed") ELSE [q EXCEPT !.stage = "protect", !.answer = run.answer]

CalledWith(q, text) ==
    AfterCall([q EXCEPT !.ran = text], IF q.backend = "sql" THEN SqlRun(text.body) ELSE MongoRun(text.body))

(* The adapters' execute: the text is found by the artifact's number alone. *)
AdapterExecute(r) ==
    /\ At(r, "call")
    /\ LET stored == texts[req[r].backend]
       IN Move(r, IF req[r].id \notin DOMAIN stored THEN Ended(req[r], "failed")
                  ELSE CalledWith(req[r], StoredText(req[r], stored)))
    /\ AdaptersUnchanged

(* _ProtectNode and protect_result. *)
AllowedColumns(ir, b) ==
    {IF s.alias # None THEN Path(s.alias)
     ELSE IF s.agg # "none" THEN <<s.agg, PhysicalName(b, s.field)>> ELSE PhysicalPath(b, s.field) :
        s \in {t \in Elems(ir.sels) : t.alias # None \/ Bound(b, t.field)}}

RowCount(rows) == MapThenSumSet(LAMBDA t : rows[t], DOMAIN rows)

ProtectResult(answer, ir, b) ==
    LET keep == SelectSeq([i \in DOMAIN answer.columns |-> i], LAMBDA i : answer.columns[i] \in AllowedColumns(ir, b))
        cut(row) == [k \in DOMAIN keep |-> row[keep[k]]]
    IN CASE RowCount(answer.rows) > world.limits.rows -> NoArtifact
         [] Len(answer.columns) > world.limits.columns -> NoArtifact
         [] keep = <<>> /\ answer.columns # <<>> -> NoArtifact
         [] OTHER -> [kind |-> "result", columns |-> [k \in DOMAIN keep |-> answer.columns[keep[k]]],
                      rows |-> [t \in {cut(row) : row \in DOMAIN answer.rows} |->
                                  MapThenSumSet(LAMBDA x : answer.rows[x],
                                                {x \in DOMAIN answer.rows : cut(x) = t})]]

Protect(r) ==
    /\ At(r, "protect")
    /\ LET result == ProtectResult(req[r].answer, req[r].ir, Binding(r))
       IN Move(r, IF result = NoArtifact THEN Ended(req[r], "failed")
                  ELSE [Ended(req[r], "succeeded") EXCEPT !.result = [columns |-> result.columns, rows |-> result.rows]])
    /\ AdaptersUnchanged

(* Runtime.close: the adapter forgets its artifacts; requests go on. *)
Close(b) ==
    /\ b \in world.closable \ closed
    /\ closed' = closed \cup {b}
    /\ parsed' = [parsed EXCEPT ![b] = <<>>]
    /\ texts' = [texts EXCEPT ![b] = <<>>]
    /\ UNCHANGED <<world, req, now>>

Tick ==
    /\ now < world.horizon
    /\ now' = now + 1
    /\ UNCHANGED <<world, req, parsed, texts, closed>>

Step(r) ==
    \/ Refuse(r) \/ Reply(r) \/ CallFails(r) \/ Plan(r) \/ Validate(r) \/ Compile(r) \/ Guard(r)
    \/ Govern(r) \/ Authorize(r) \/ Execute(r) \/ AdapterExecute(r) \/ Protect(r)

Next ==
    \/ \E r \in Requests : Step(r)
    \/ \E b \in Backends : Close(b)
    \/ Tick

Spec == Init /\ [][Next]_vars

------------------------------------------------------------------------------
(* What a question means: the combinations of rows, one of each entity, that *)
(* are related and meet every filter; one row of answer for each group.      *)

CombinationCell(at, b, plan, field) ==
    LET e == IF plan.steps = <<>> THEN 0 ELSE EntityFor(b, field)
        cells == world.db[at[e].object][at[e].i]
    IN IF PhysicalName(b, field) \in DOMAIN cells /\ cells[PhysicalName(b, field)] # Missing
       THEN cells[PhysicalName(b, field)] ELSE Null

Combinations(ir, b, plan) ==
    LET entities == IF plan.steps = <<>> THEN {0} ELSE PlanEntities(plan)
        object(e) == IF e = 0 THEN b.object ELSE PhysicalObject(b, e)
        all == {at \in [entities -> UNION {RowsOf(world.db, object(e)) : e \in entities}] :
                  \A e \in entities : at[e].object = object(e)}
        cell(at, field) == CombinationCell(at, b, plan, field)
    IN {at \in all :
          /\ \A s \in Elems(plan.steps) :
                IsNumber(cell(at, s.leftField)) /\ cell(at, s.leftField) = cell(at, s.rightField)
          /\ \A f \in Elems(ir.filters) : Holds(f, cell(at, f.field))}

MeaningOf(sel, group, b, plan) ==
    LET value(at) == CombinationCell(at, b, plan, sel.field)
        known == {at \in group : IsNumber(value(at))}
    IN CASE sel.agg = "none" -> value(CHOOSE at \in group : TRUE)
         [] sel.agg = "count" -> Num(Cardinality(known))
         [] known = {} -> Null
         [] sel.agg = "sum" -> Total(known, value)
         [] sel.agg = "avg" -> Mean(known, value)
         [] sel.agg = "min" -> Least(known, value)
         [] sel.agg = "max" -> Greatest(known, value)

Meaning(ir, b, plan) ==
    LET rows == Combinations(ir, b, plan)
        plain == {s.field : s \in {t \in Elems(ir.sels) : t.agg = "none"}}
        key(at) == [f \in plain |-> CombinationCell(at, b, plan, f)]
        groups == CASE Aggregated(ir) = {} -> {{at} : at \in rows}
                    [] plain = {} -> {rows}
                    [] OTHER -> {{at \in rows : key(at) = k} : k \in {key(at) : at \in rows}}
    IN [columns |-> [i \in DOMAIN ir.sels |-> OutputName(ir.sels[i], b, {})],
        rows |-> BagOf([g \in groups |-> [i \in DOMAIN ir.sels |-> MeaningOf(ir.sels[i], g, b, plan)]])]

(* An answer whatever the order of its columns. *)
ByName(a) ==
    LET named(t) == [c \in Elems(a.columns) |-> t[CHOOSE i \in DOMAIN a.columns : a.columns[i] = c]]
    IN [f \in {named(t) : t \in DOMAIN a.rows} |-> a.rows[CHOOSE t \in DOMAIN a.rows : named(t) = f]]

------------------------------------------------------------------------------
TypeOK ==
    /\ \A r \in Requests :
          /\ req[r].backend \in Backends
          /\ req[r].stage \in {"intent", "plan", "validate", "compile", "guard", "govern", "authorize",
                               "execute", "call", "protect", "done"}
          /\ req[r].tries \in 0..world.config.attempts
          /\ (req[r].stage = "done") = (req[r].status # "running")
    /\ \A b \in Backends : DOMAIN texts[b] \subseteq DOMAIN parsed[b]
    /\ closed \subseteq Backends
    /\ now \in 0..world.horizon

Undisturbed(r) == req[r].backend \notin closed

Plain(ir) == Expressions(ir) = {} /\ Cardinality({s.field : s \in Elems(ir.sels)}) = Len(ir.sels)

(* What the two backends count alike: at least one row, and no nulls in it. *)
SimpleData(ir, b, plan) ==
    LET rows == Combinations(ir, b, plan)
    IN rows # {} /\ \A at \in rows : \A s \in Elems(ir.sels) : IsNumber(CombinationCell(at, b, plan, s.field))

(* A request that succeeds with a grouped question returns exactly what the  *)
(* question means, whatever was compiled, guarded, executed and cut on the   *)
(* way: no filter is lost and no row counted twice.  MongoDB counts documents *)
(* instead of values, answers nothing about no documents and drops renamed   *)
(* groups, so that for it the data and the names have to be simple.          *)
AnswersTheQuestion ==
    \A r \in Requests :
        LET q == req[r]
            simple == SimpleData(q.ir, Binding(r), q.plan) /\ \A s \in Elems(q.ir.sels) : s.alias = None
        IN /\ q.status = "succeeded"
           /\ Undisturbed(r)
           /\ Plain(q.ir)
           /\ Aggregated(q.ir) # {}
           /\ q.backend = "mongodb" => simple
           => ByName(q.result) = ByName(Meaning(q.ir, Binding(r), q.plan))

(* The fields an executed artifact reads, by the names of their columns. *)
ColumnsRead(artifact) ==
    IF artifact.kind = "sql" THEN ParsedColumns(artifact.body) \ {item.name : item \in Elems(artifact.body.select)}
    ELSE LET body == artifact.body
             groups == {s.arg : s \in {t \in Elems(body.pipeline) : t.name = "group"}}
         IN DOMAIN body.filter \cup UNION {DOMAIN m : m \in MatchStages(body)}
            \cup ({g.id : g \in groups} \ {IdPath})
            \cup UNION {UNION {IF g.accs[p].acc = "documents" THEN {} ELSE MongoPaths(g.accs[p].arg) :
                                  p \in DOMAIN g.accs} : g \in groups}
            \cup {IF body.projection[p].kind = "path" THEN body.projection[p].path ELSE p : p \in DOMAIN body.projection}

(* What reaches a database reads only columns bound to fields of the request's *)
(* view: the columns that join entities and the leaves of expressions too,     *)
(* which the policy decision does not see.                                     *)
ReadsWithinView ==
    \A r \in Requests :
        req[r].ran # NoArtifact /\ Undisturbed(r) =>
            \A path \in ColumnsRead(req[r].ran) :
                \E f \in world.view.fields : Bound(Binding(r), f) /\ PhysicalPath(Binding(r), f) = path

(* While a runtime is open it executes for each request the artifact that was *)
(* guarded for that request, though the adapter finds it by a number that     *)
(* depends on how many artifacts other requests have registered before.       *)
ExecutesOwnArtifact ==
    \A r \in Requests : req[r].ran # NoArtifact /\ Undisturbed(r) => req[r].ran = req[r].guard.artifact

(* The same question has the same protected answer on both backends.         *)
SameAnswerOnBothBackends ==
    \A r, s \in Requests :
        req[r].status = "succeeded" /\ req[s].status = "succeeded" /\ req[r].ir = req[s].ir
            => ByName(req[r].result) = ByName(req[s].result)

==============================================================================
