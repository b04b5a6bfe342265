-------------------------- MODULE IntentResolution ---------------------------
(***************************************************************************)
(* From a model's answer to an IR: the checks around a model call and on   *)
(* its answer (ai/resolver.py), the resolution of filter values            *)
(* (ai/value_semantics.py) and the construction of the IR                  *)
(* (ai/plan_builder.py).  An answer is a record of its members; text is    *)
(* reduced to whether the scan for executable content finds something.     *)
(* Identifiers of selections, filters and orderings are their positions.   *)
(***************************************************************************)
EXTENDS SqlCompiler

NoIntent == [kind |-> "absent"]

SelectedAs(field, agg, alias) == [field |-> field, agg |-> agg, alias |-> alias]

(* StructuredIntent.field_ids and MultiEntityIntent.field_ids. *)
IntentItems(intent) ==
    IF intent.kind = "single" THEN intent.sels
    ELSE [i \in DOMAIN intent.dims |-> SelectedAs(intent.dims[i].field, "none", intent.dims[i].alias)]
         \o intent.metrics

IntentFieldIds(intent) ==
    {x.field : x \in Elems(IntentItems(intent)) \cup Elems(intent.filters) \cup Elems(intent.orders)}

IntentEntities(intent) == IF intent.kind = "single" THEN {intent.root} ELSE Elems(intent.entities)

(* The structured validation of an intent. *)
ValidIntent(intent) ==
    /\ intent.kind \in {"single", "multi"}
    /\ intent.kind = "single" => intent.sels # <<>>
    /\ intent.kind = "multi" => /\ intent.entities # <<>>
                                /\ Cardinality(Elems(intent.entities)) = Len(intent.entities)

------------------------------------------------------------------------------
(* Values.  The terms of a mapping are strings; "digits" is a string that   *)
(* spells its number, "spelled" one that spells it in another way ("007").  *)

TextTypes == {"str", "digits", "spelled"}

IntTypes == {"int", "neg"}

NoValue == Literal("missing", 0)

(* _canonicalize. *)
Canonicalize(v, stored) ==
    LET all(types) == \A s \in stored : s.type \in types
    IN CASE v.type = "bool" \/ stored = {} -> NoValue
         [] all(IntTypes \cup {"bool"}) ->
              CASE v.type \in IntTypes -> v
                [] v.type = "digits" -> Literal("int", v.n)
                [] OTHER -> NoValue
         [] all(TextTypes) -> IF v.type \in TextTypes THEN v ELSE NoValue
         [] OTHER -> IF v.type \in TextTypes \cup IntTypes THEN v ELSE NoValue

StoredValues(f) == {f.mapping[t] : t \in DOMAIN f.mapping}

(* resolve_single_value. *)
ResolveSingleValue(f, v) ==
    LET canonical == Canonicalize(v, StoredValues(f))
    IN CASE v \in DOMAIN f.mapping -> [status |-> "hit", value |-> f.mapping[v]]
         [] canonical \in StoredValues(f) -> [status |-> "pass_through", value |-> canonical]
         [] OTHER -> [status |-> "miss", value |-> v]

(* _dedup_values. *)
DedupValues(s) ==
    LET firsts == {i \in DOMAIN s : \A j \in 1..(i - 1) : s[j] # s[i]}
    IN [k \in 1..Cardinality(firsts) |->
          s[CHOOSE i \in firsts : Cardinality({j \in firsts : j <= i}) = k]]

(* Fault: only the first value of a list is checked. *)
FirstValueCode(f, filter) ==
    CASE filter.op \notin {"eq", "in"} -> "VS_002"
      [] f.policy = "reject" /\ ResolveSingleValue(f, filter.value.items[1]).status = "miss" -> "VS_001"
      [] OTHER -> "ok"

(* resolve_intent_filters, one filter; "ok" or the code of the error. *)
FilterCode(f, filter) ==
    CASE filter.op \notin {"eq", "in"} -> "VS_002"
      [] /\ f.policy = "reject"
         /\ \E v \in Elems(filter.value.items) : ResolveSingleValue(f, v).status = "miss" -> "VS_001"
      [] OTHER -> "ok"

ResolvedFilter(f, filter) ==
    LET values == [i \in DOMAIN filter.value.items |-> ResolveSingleValue(f, filter.value.items[i]).value]
    IN [filter EXCEPT !.value = IF @.many THEN Many(DedupValues(values)) ELSE One(values[1])]

(* The filters of an intent: unchanged where a field has no mapping. *)
ResolveFilters(filters, lookup) ==
    LET code(i) == IF filters[i].field \in DOMAIN lookup THEN FilterCode(lookup[filters[i].field], filters[i])
                   ELSE "ok"
        bad == {i \in DOMAIN filters : code(i) # "ok"}
    IN [code |-> IF bad = {} THEN "ok" ELSE code(Min(bad)),
        filters |-> [i \in DOMAIN filters |->
                       IF filters[i].field \in DOMAIN lookup
                       THEN ResolvedFilter(lookup[filters[i].field], filters[i]) ELSE filters[i]]]

(* _value_semantics_lookup: nothing to do unless the resolver is anchored. *)
NoSnapshot == [entities |-> {}, absent |-> TRUE]

ValueLookup(snapshot) ==
    LET mapped == {f \in AllFields(snapshot) : HasValueSemantics(f)}
    IN [id \in {f.id : f \in mapped} |-> CHOOSE f \in mapped : f.id = id]

SnapshotUnavailable(cfg, view) ==
    cfg.anchored /\ (cfg.snapshot = NoSnapshot
                     \/ (view.catalog # None /\ cfg.snapshot.catalog # None /\ cfg.snapshot.catalog # view.catalog))

(* _apply_value_resolution. *)
ApplyValueResolution(intent, cfg, view) ==
    CASE SnapshotUnavailable(cfg, view) -> [code |-> "snapshot_unavailable", filters |-> <<>>]
      [] cfg.anchored -> ResolveFilters(intent.filters, ValueLookup(cfg.snapshot))
      [] OTHER -> [code |-> "ok", filters |-> intent.filters]

------------------------------------------------------------------------------
(* The resolver's outcomes.                                                 *)

Understood(intent) == [kind |-> "resolved", code |-> "ok", intent |-> intent]

Rejected(code) == [kind |-> "rejected", code |-> code, intent |-> NoIntent]

Clarification == [kind |-> "clarification", code |-> "ok", intent |-> NoIntent]

(* A validation error that no handler of the resolver catches. *)
Raised == [kind |-> "failed", code |-> "raised", intent |-> NoIntent]

(* _clarification_from_alternatives: valid options are kept, and have to differ. *)
ClarificationFromAlternatives(alternatives) ==
    LET valid == SelectSeq(SubSeq(alternatives, 1, Min({Len(alternatives), 10})), LAMBDA o : o # "invalid")
    IN IF Cardinality(Elems(valid)) = Len(valid) THEN Clarification ELSE Raised

(* Fault: fields of filters and orderings are not looked at. *)
OutsideSelectionsOnly(intent, view) ==
    \/ intent.source # view.source
    \/ view.entities # {} /\ ~(IntentEntities(intent) \subseteq view.entities)
    \/ \E s \in Elems(IntentItems(intent)) : s.field \notin view.fields
    \/ \E s \in Elems(IntentItems(intent)) :
          s.agg # "none" /\ ~(s.field \in DOMAIN view.aggs /\ s.agg \in view.aggs[s.field])

(* What an intent may not refer to. *)
OutsideView(intent, view) ==
    \/ intent.source # view.source
    \/ view.entities # {} /\ ~(IntentEntities(intent) \subseteq view.entities)
    \/ ~(IntentFieldIds(intent) \subseteq view.fields)
    \/ \E s \in Elems(IntentItems(intent)) :
          s.agg # "none" /\ ~(s.field \in DOMAIN view.aggs /\ s.agg \in view.aggs[s.field])

(* _intent and _multi_entity_intent. *)
ResolveIntent(intent, alternatives, confident, cfg, view) ==
    LET resolved == ApplyValueResolution(intent, cfg, view)
    IN CASE ~ValidIntent(intent) -> Rejected("malformed")
         [] OutsideView(intent, view) -> Rejected("unsafe_output")
         [] resolved.code # "ok" -> Rejected(resolved.code)
         [] ~confident -> ClarificationFromAlternatives(alternatives)
         [] OTHER -> Understood([intent EXCEPT !.filters = resolved.filters])

(* _validate_response. *)
ValidateResponse(content, cfg, view) ==
    CASE content.tokens > cfg.maxTokens \/ content.chars > cfg.maxTokens * cfg.charsPerToken ->
            Rejected("output_limit")
      [] content.unsafe -> Rejected("unsafe_output")
      [] ~(content.members \subseteq {"intent", "multi_entity_intent", "clarification", "alternatives"}) ->
            Rejected("malformed")
      [] "clarification" \in content.members ->
            IF content.clear THEN Clarification ELSE Rejected("malformed")
      [] content.members \cap {"intent", "multi_entity_intent"} = {} -> Rejected("malformed")
      [] {"intent", "multi_entity_intent"} \subseteq content.members -> Rejected("malformed")
      [] OTHER -> ResolveIntent(content.intent, content.alternatives, content.confident, cfg, view)

(* What _invoke_with_budget refuses before the first call. *)
InvocationRefused(request, cfg, caps) ==
    \/ request.chars > cfg.maxChars
    \/ ~caps.structured
    \/ cfg.version \notin caps.versions
    \/ request.chars > caps.maxChars
    \/ cfg.maxTokens > caps.maxTokens

------------------------------------------------------------------------------
(* build_ir_from_intent and build_ir_from_multi_entity_intent.              *)

(* _derive_required_capabilities. *)
DerivedCapabilities(sels, filters, orders, calcs) ==
    LET aggregated == \E s \in Elems(sels) : s.agg # "none"
    IN Issue(aggregated, "aggregation")
       \cup Issue(aggregated /\ \E s \in Elems(sels) : s.agg = "none", "grouping")
       \cup Issue(\E f \in Elems(filters) : f.op \in ListOperators, "list_ops")
       \cup Issue(\E f \in Elems(filters) : f.op = "contains", "contains")
       \cup Issue(orders # <<>>, "ordering")
       \cup Issue(\E s \in Elems(sels) : s.field \in calcs, "calculated-fields")

(* The selections that are grouped by: the plain ones beside aggregates. *)
Groupings(intent) ==
    LET items == IntentItems(intent)
        plain == IF intent.kind = "single" THEN SelectSeq(items, LAMBDA s : s.agg = "none")
                 ELSE SubSeq(items, 1, Len(intent.dims))
    IN IF \E s \in Elems(items) : s.agg # "none"
       THEN [i \in DOMAIN plain |-> IRGrouping(plain[i].field, NoExpr)] ELSE <<>>

BuildIR(intent, ref, plan, calcs) ==
    LET items == IntentItems(intent)
        sels == [i \in DOMAIN items |->
                   IRSelection(items[i].field, items[i].agg, NoExpr, items[i].alias)]
        root == CASE intent.kind = "single" -> intent.root
                  [] plan # NoPlan -> plan.root
                  [] OTHER -> intent.entities[1]
        many == intent.kind = "multi" /\ Len(intent.entities) > 1
    IN [source |-> intent.source, root |-> root, sels |-> sels, filters |-> intent.filters,
        groups |-> Groupings(intent), orders |-> intent.orders, limit |-> intent.limit,
        kind |-> IF \E s \in Elems(sels) : s.agg # "none" THEN "grouped_rows" ELSE "rows",
        caps |-> DerivedCapabilities(sels, intent.filters, intent.orders, calcs)
                 \cup (IF many THEN {"multi_entity", "join"} ELSE {})
                 \cup Issue(plan.steps # <<>>, "join"),
        exts |-> {},
        prov |-> IRProvenance(intent.source, root, ref, plan)]

(* build_ir_from_resolved_intent raises unless the IR is valid by itself. *)
Buildable(ir, calcs) == ir.sels # <<>> /\ ValidateIR(ir, NoView, calcs) = {}
==============================================================================
