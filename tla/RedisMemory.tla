---------------------------- MODULE RedisMemory ----------------------------
(***************************************************************************)
(* The Redis memory provider.  A watched transaction takes effect as one     *)
(* step or not at all (a conflict is retried, and refused after eight        *)
(* tries).  compact() is not a transaction: it reads a member, and what it   *)
(* then removes from the index and from storage are steps of their own.      *)
(***************************************************************************)
EXTENDS Naturals, FiniteSets

CONSTANTS
    RedisIds,         \* record ids
    Sessions,         \* tenant and session components of a key
    RedisMaxRecords,  \* config.max_records, per index
    RedisMaxTtl,      \* config.max_ttl_seconds
    Retention,        \* config.expired_id_retention_seconds
    MaxSkew,          \* how far a client's clock may be ahead of the server's
    RedisMaxTime           \* bound on the server's clock

ASSUME RedisAssumption ==
    RedisMaxTtl \in Nat /\ Retention \in Nat /\ MaxSkew \in Nat

VARIABLES
    registry,  \* ids: id -> [session, until]
    stored,    \* records: <<session, id>> -> [kind, expires, until]
    index,     \* session -> ids
    time,
    sweep,     \* the compaction in progress: [step, session, id, kind]
    outlived,  \* history: ids whose registry entry ends before their record
    swept,     \* history: keys a compaction took from the index while they held a record
    kept       \* history: id -> until when expire() reserved it

redisVars == <<registry, stored, index, time, sweep, outlived, swept, kept>>

Keys == Sessions \X RedisIds

Absent == [kind |-> "absent", expires |-> 0, until |-> 0]

NoSweep == [step |-> "idle", key |-> <<"none", "none">>, kind |-> "absent"]

RedisInit ==
    /\ registry = [i \in RedisIds |-> [session |-> "none", until |-> 0]]
    /\ stored = [k \in Keys |-> Absent]
    /\ index = [s \in Sessions |-> {}]
    /\ time = 0 /\ sweep = NoSweep
    /\ outlived = {} /\ swept = {}
    /\ kept = [i \in RedisIds |-> 0]

\* A key with a TTL is gone when its time has come.
Here(x) == x.until > time

Value(k) == IF Here(stored[k]) THEN stored[k] ELSE Absent

Record(expires) == [kind |-> "record", expires |-> expires, until |-> expires]

\* Fault: only the key of the new record is looked up, not the id registry.
AppendableKey(s, i) ==
    /\ Value(<<s, i>>).kind = "absent"
    /\ Cardinality(index[s]) < RedisMaxRecords

\* The id is unknown and the index, dead members included, is below its capacity.
Appendable(s, i) ==
    /\ ~Here(registry[i])
    /\ Value(<<s, i>>).kind = "absent"
    /\ Cardinality(index[s]) < RedisMaxRecords

RedisAppend(s, i, ttl) ==
    /\ ttl <= RedisMaxTtl
    /\ Appendable(s, i)
    /\ registry' = [registry EXCEPT ![i] = [session |-> s, until |-> time + ttl]]
    /\ stored' = [stored EXCEPT ![<<s, i>>] = Record(time + ttl)]
    /\ index' = [index EXCEPT ![s] = @ \cup {i}]
    /\ swept' = swept \ {<<s, i>>}
    /\ kept' = [kept EXCEPT ![i] = 0]
    /\ UNCHANGED <<time, sweep, outlived>>

\* compare_and_set renews the record alone: neither the registry nor the index.
RedisReplace(s, i, ttl) ==
    /\ Value(<<s, i>>).kind = "record"
    /\ stored' = [stored EXCEPT ![<<s, i>>] = Record(time + ttl)]
    /\ outlived' = IF time + ttl > registry[i].until THEN outlived \cup {i} ELSE outlived
    /\ UNCHANGED <<registry, index, time, sweep, swept, kept>>

KeyOf(i) == <<registry[i].session, i>>

\* Fault: the tombstone is written, the id registry keeps its old lifetime.
RedisExpireRecordOnly(i) ==
    /\ Here(registry[i]) /\ Value(KeyOf(i)).kind # "absent"
    /\ stored' = [stored EXCEPT ![KeyOf(i)] =
                     [kind |-> "tombstone", expires |-> 0, until |-> time + Retention]]
    /\ kept' = [kept EXCEPT ![i] = time + Retention]
    /\ UNCHANGED <<registry, index, time, sweep, outlived, swept>>

\* expire puts a tombstone in the record's place and holds the id for the retention.
RedisExpire(i) ==
    /\ Here(registry[i]) /\ Value(KeyOf(i)).kind # "absent"
    /\ stored' = [stored EXCEPT ![KeyOf(i)] =
                     [kind |-> "tombstone", expires |-> 0, until |-> time + Retention]]
    /\ registry' = [registry EXCEPT ![i].until = time + Retention]
    /\ kept' = [kept EXCEPT ![i] = time + Retention]
    /\ UNCHANGED <<index, time, sweep, outlived, swept>>

RedisDelete(i) ==
    /\ Here(registry[i])
    /\ stored' = [stored EXCEPT ![KeyOf(i)] = Absent]
    /\ registry' = [registry EXCEPT ![i].until = 0]
    /\ kept' = [kept EXCEPT ![i] = 0]
    /\ UNCHANGED <<index, time, sweep, outlived, swept>>

\* recall reads the members of the index and keeps the records that have not
\* expired by the client's clock.
RedisRecall(s, ahead) ==
    {i \in index[s] : Value(<<s, i>>).kind = "record" /\ Value(<<s, i>>).expires > time + ahead}

-----------------------------------------------------------------------------
(* compact *)

\* One member is read; a record counts as expired by the client's clock.
SweepRead(s, i, ahead) ==
    LET v == Value(<<s, i>>)
    IN  /\ sweep = NoSweep
        /\ i \in index[s]
        /\ v.kind = "record" => v.expires <= time + ahead
        /\ sweep' = [step |-> "index", key |-> <<s, i>>, kind |-> v.kind]
        /\ UNCHANGED <<registry, stored, index, time, outlived, swept, kept>>

Fresh(k) == Value(k).kind = "record" /\ Value(k).expires > time + MaxSkew

\* srem, without a look at what the key holds by now
SweepIndex ==
    /\ sweep.step = "index"
    /\ index' = [index EXCEPT ![sweep.key[1]] = @ \ {sweep.key[2]}]
    /\ swept' = IF Value(sweep.key).kind = "record" THEN swept \cup {sweep.key} ELSE swept
    /\ sweep' = IF sweep.kind = "record" THEN [sweep EXCEPT !.step = "delete"] ELSE NoSweep
    /\ UNCHANGED <<registry, stored, time, outlived, kept>>

\* An expired record is deleted as well; a tombstone lives on until its TTL.
SweepDelete ==
    /\ sweep.step = "delete"
    /\ stored' = [stored EXCEPT ![sweep.key] = Absent]
    /\ sweep' = NoSweep
    /\ UNCHANGED <<registry, index, time, outlived, swept, kept>>

\* Keys whose time has come hold nothing any more.
RedisTick ==
    /\ time < RedisMaxTime
    /\ time' = time + 1
    /\ registry' = [i \in RedisIds |-> IF registry[i].until > time + 1 THEN registry[i]
                                  ELSE [registry[i] EXCEPT !.until = 0]]
    /\ stored' = [k \in Keys |-> IF stored[k].until > time + 1 THEN stored[k] ELSE Absent]
    /\ UNCHANGED <<index, sweep, outlived, swept, kept>>

RedisNext ==
    \/ \E s \in Sessions, i \in RedisIds :
          \/ \E ttl \in 1..RedisMaxTtl : RedisAppend(s, i, ttl) \/ RedisReplace(s, i, ttl)
          \/ \E ahead \in 0..MaxSkew : SweepRead(s, i, ahead)
    \/ \E i \in RedisIds : RedisExpire(i) \/ RedisDelete(i)
    \/ SweepIndex \/ SweepDelete
    \/ RedisTick

RedisSpec == RedisInit /\ [][RedisNext]_redisVars

-----------------------------------------------------------------------------
(* Properties *)

\* Two providers never hold records under one id at the same time, and the registry
\* leads to the record, as long as no replacement was given a longer life than the
\* registry entry of its id.
OneRecordPerId ==
    \A i \in RedisIds : i \notin outlived =>
        \A s \in Sessions : Value(<<s, i>>).kind # "absent" =>
            Here(registry[i]) /\ registry[i].session = s

\* A record that is alive for every client is recalled by every client, unless
\* a compaction took it out although it was stored: because its clock is ahead, or
\* because the record was renewed after the compaction had read it.
LiveIsIndexed ==
    \A k \in Keys : (Fresh(k) /\ k \notin swept) => k[2] \in RedisRecall(k[1], MaxSkew)

\* expire() keeps an id from being used again until the retention is over, whatever
\* compaction, TTLs and other calls do meanwhile.
ExpiredIdIsReserved ==
    \A i \in RedisIds : kept[i] > time => ~\E s \in Sessions : Appendable(s, i)

\* Whatever append, expire and the statements of a compaction interleave, a record that
\* is alive for every client is recalled by every client unless a compaction took it out
\* of its index, and the id of an expired record stays reserved until its retention ends.
SharedServerKeepsRecords == LiveIsIndexed /\ ExpiredIdIsReserved

\* The capacity of an index is never exceeded.
RedisTypeOK ==
    /\ \A s \in Sessions : index[s] \subseteq RedisIds /\ Cardinality(index[s]) <= RedisMaxRecords
    /\ \A k \in Keys : stored[k].kind \in {"absent", "record", "tombstone"}
    /\ sweep.step \in {"idle", "index", "delete"}

=============================================================================
