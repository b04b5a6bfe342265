---------------------------- MODULE LocalMemory ----------------------------
(***************************************************************************)
(* The in-memory memory provider and the multi-turn resolution that recalls  *)
(* from it.  Every method of the provider is one step.  A record keeps the   *)
(* fields the provider, the projection and the resolver tell apart; its text *)
(* is only a size.                                                           *)
(***************************************************************************)
EXTENDS Naturals, Sequences, FiniteSets, SequencesExt

CONSTANTS
    Ids,         \* record ids, as integers because recall sorts by them
    Scopes,      \* the scopes of records and of turns
    Policies,    \* policy fingerprints
    MaxRecords,  \* capacity of the provider
    MaxTtl,      \* largest ttl given to a record
    RecallRecords, RecallChars,  \* recall budget
    MaxNow, MaxOrder  \* bounds on the clock and on the insertion order

None == "none"

VARIABLES
    records,   \* _records: id -> record
    order,     \* _order: ids in insertion order
    reserved,  \* _expired_ids
    now,
    policy,    \* policy fingerprint of the current turn
    answer,    \* what the last call, if it was resolve(), returned
    deleted    \* history: ids that delete() has removed

memVars == <<records, order, reserved, now, policy, answer, deleted>>

\* MemoryScope: session and, when given, tenant, conversation and source.
Scope == [tenant : STRING, session : STRING, conversation : STRING, source : STRING]

Kinds == {"working", "query_reference", "semantic_decision"}

\* MemoryRecord, with the validator's rule that only working records may lack a tenant.
ValidRecord(r) ==
    /\ r.expires > r.created
    /\ r.kind # "working" => r.scope.tenant # None

MemoryTypeOK ==
    /\ DOMAIN records \subseteq Ids
    /\ \A i \in DOMAIN records : ValidRecord(records[i])
    /\ Cardinality(DOMAIN records) <= MaxRecords
    /\ DOMAIN records \subseteq Range(order)

\* MultiTurnResolution: a projection comes with PROJECTED and only with it.
Resolution(kind, refs) == [kind |-> kind, refs |-> refs, policy |-> policy, at |-> now]

NoAnswer == [kind |-> None, refs |-> {}, policy |-> None, at |-> 0]

MemoryInit ==
    /\ records = <<>> /\ order = <<>> /\ reserved = {} /\ deleted = {}
    /\ now = 0 /\ policy \in Policies
    /\ answer = NoAnswer

-----------------------------------------------------------------------------
(* The provider *)

IsExpired(r) == r.expires <= now

\* Fault: a query without a tenant matches records of every tenant.
ScopeMatchesOpen(rec, query) ==
    /\ query.tenant # None => rec.tenant = query.tenant
    /\ rec.session = query.session
    /\ query.conversation # None => rec.conversation = query.conversation
    /\ query.source # None => rec.source = query.source

\* _scope_matches: tenants are equal, a missing tenant included.
ScopeMatches(rec, query) ==
    /\ rec.tenant = query.tenant
    /\ rec.session = query.session
    /\ query.conversation # None => rec.conversation = query.conversation
    /\ query.source # None => rec.source = query.source

Without(f, i) == [j \in DOMAIN f \ {i} |-> f[j]]

\* append: a known or reserved id and a full provider are refused.
MemAppend(r) ==
    /\ r.id \notin DOMAIN records \cup reserved
    /\ Cardinality(DOMAIN records) < MaxRecords
    /\ Len(order) < MaxOrder
    /\ records' = (r.id :> r) @@ records
    /\ order' = Append(order, r.id)
    /\ UNCHANGED <<reserved, now, policy, deleted>> /\ answer' = NoAnswer

\* record_query_reference: the id is a digest of the query alone, not of the scope.
RecordQueryReference(id, scope) ==
    /\ scope.tenant # None
    /\ MemAppend([id |-> id, kind |-> "query_reference", scope |-> scope, created |-> now,
                  expires |-> now + MaxTtl, policy |-> policy, size |-> 1])

\* Longest prefix within the record, character and token budget.
Fits(s) ==
    LET chars == FoldSeq(LAMBDA r, n : n + r.size, 0, s)
    IN  Len(s) <= RecallRecords /\ chars <= RecallChars /\ chars \div 4 <= RecallChars

Eligible(scope) ==
    LET live == SelectSeq(order, LAMBDA i : /\ i \in DOMAIN records
                                            /\ ~IsExpired(records[i])
                                            /\ ScopeMatches(records[i].scope, scope))
    IN  SortSeq([n \in 1..Len(live) |-> records[live[n]]],
                LAMBDA a, b : a.created < b.created \/ (a.created = b.created /\ a.id < b.id))

\* recall stops at the first record that does not fit.
Recall(scope) ==
    LET all == Eligible(scope)
        fitting == {n \in 0..Len(all) : \A k \in 0..n : Fits(SubSeq(all, 1, k))}
        n == CHOOSE k \in fitting : \A l \in fitting : l <= k
    IN  [records |-> SubSeq(all, 1, n), truncated |-> n < Len(all)]

\* compare_and_set: the replacement has the id and the scope of the stored record.
MemReplace(i, kind, expires) ==
    /\ i \in DOMAIN records
    /\ LET r == [records[i] EXCEPT !.kind = kind, !.expires = expires, !.policy = policy]
       IN  /\ ValidRecord(r)
           /\ records' = [records EXCEPT ![i] = r]
    /\ UNCHANGED <<order, reserved, now, policy, deleted>> /\ answer' = NoAnswer

\* compact drops expired records; an id whose record is gone leaves the order and
\* is no longer reserved.
MemCompact ==
    LET gone == {i \in Range(order) : i \notin DOMAIN records}
        dead == {i \in DOMAIN records : IsExpired(records[i])}
    IN  /\ records' = [i \in DOMAIN records \ dead |-> records[i]]
        /\ order' = SelectSeq(order, LAMBDA i : i \notin gone \cup dead)
        /\ reserved' = reserved \ gone
        /\ UNCHANGED <<now, policy, deleted>> /\ answer' = NoAnswer

MemExpire(i) ==
    /\ i \in DOMAIN records
    /\ records' = Without(records, i)
    /\ reserved' = reserved \cup {i}
    /\ UNCHANGED <<order, now, policy, deleted>> /\ answer' = NoAnswer

\* delete leaves the id in the order.
MemDelete(i) ==
    /\ i \in DOMAIN records
    /\ records' = Without(records, i)
    /\ deleted' = deleted \cup {i}
    /\ UNCHANGED <<order, reserved, now, policy>> /\ answer' = NoAnswer

-----------------------------------------------------------------------------
(* Multi-turn resolution *)

\* _project_record: what may not reach the provider context in this turn.
Stale(r, scope) ==
    \/ IsExpired(r)
    \/ r.kind = "query_reference" /\ (r.scope.tenant # scope.tenant \/ r.policy # policy)
    \/ r.kind = "semantic_decision" /\ r.policy # policy

\* Fault: stale records are left out and the others are projected.
ProjectDropsStale(rs, scope, depends) ==
    LET refs == {r \in Range(rs) : r.kind # "working" /\ (r.kind = "query_reference" => ~Stale(r, scope))}
    IN  IF refs # {} THEN Resolution("projected", refs)
        ELSE Resolution(IF depends THEN "clarification" ELSE "stateless", {})

\* project_recall_context and _project: one stale record makes the turn stateless.
Project(rs, scope, depends) ==
    LET stale == \E r \in Range(rs) : Stale(r, scope)
        refs == {r \in Range(rs) : r.kind # "working"}
    IN  IF ~stale /\ refs # {} THEN Resolution("projected", refs)
        ELSE Resolution(IF depends THEN "clarification" ELSE "stateless", {})

\* resolve; an unavailable provider counts as one without records.
Resolve(scope, depends, available) ==
    /\ answer' = Project(IF available THEN Recall(scope).records ELSE <<>>, scope, depends)
    /\ UNCHANGED <<records, order, reserved, now, policy, deleted>>

\* The next turn may run under another policy.
NewTurn(p) ==
    /\ p # policy
    /\ policy' = p
    /\ UNCHANGED <<records, order, reserved, now, deleted>> /\ answer' = NoAnswer

MemTick ==
    /\ now < MaxNow
    /\ now' = now + 1
    /\ UNCHANGED <<records, order, reserved, policy, deleted>> /\ answer' = NoAnswer

NewRecord(i, kind, scope, ttl, size) ==
    [id |-> i, kind |-> kind, scope |-> scope, created |-> now, expires |-> now + ttl,
     policy |-> policy, size |-> size]

MemoryNext ==
    \/ \E i \in Ids, s \in Scopes :
          \/ RecordQueryReference(i, s)
          \/ \E k \in Kinds :
                LET r == NewRecord(i, k, s, 1, IF k = "working" THEN 2 ELSE 1)
                IN  ValidRecord(r) /\ MemAppend(r)
    \/ \E i \in DOMAIN records :
          \/ MemExpire(i) \/ MemDelete(i)
          \/ \E k \in Kinds : MemReplace(i, k, now + 1)
    \/ MemCompact
    \/ \E s \in Scopes, d \in BOOLEAN, a \in BOOLEAN : Resolve(s, d, a)
    \/ \E p \in Policies : NewTurn(p)
    \/ MemTick

-----------------------------------------------------------------------------
(* Properties *)

\* What the next recall returns, whatever was appended, replaced, expired, deleted
\* and compacted before: fresh records of exactly the asked tenant and session, in
\* creation order, once each unless an id was reused after delete(), and every such
\* record unless the projection says it is truncated.
RecallIsExact ==
    \A q \in Scopes :
        LET recalled == Recall(q)
            rs == recalled.records
            fresh == {records[i] : i \in {j \in DOMAIN records : ~IsExpired(records[j])}}
        IN  /\ \A n \in 1..Len(rs) :
                  /\ rs[n] \in fresh /\ rs[n].scope.tenant = q.tenant /\ rs[n].scope.session = q.session
                  /\ \A m \in 1..Len(rs) : m < n => /\ rs[m].created <= rs[n].created
                                                    /\ rs[m] = rs[n] => rs[n].id \in deleted
            /\ ~recalled.truncated =>
                  {r \in fresh : ScopeMatches(r.scope, q)} = Range(rs)

\* A resolution that projects memory into a turn has at least one reference, and
\* every reference was recorded under the policy of that turn and was fresh then.
ProjectedIsCurrent ==
    answer.kind = "projected" =>
        /\ answer.refs # {}
        /\ \A r \in answer.refs : r.policy = answer.policy /\ r.expires > answer.at

\* "Expire one record; its id stays reserved for the provider lifetime."
ReservedForLifetime == [][reserved \subseteq reserved']_memVars

\* The deterministic projection lists a record once.
RecalledOnce == \A q \in Scopes : IsInjective(Recall(q).records)

=============================================================================
