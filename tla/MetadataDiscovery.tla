-------------------------- MODULE MetadataDiscovery --------------------------
(***************************************************************************)
(* Reading a source's catalog into a snapshot (adapters/sql/discovery.py,  *)
(* nl2data-postgres discovery.py, nl2data-mongodb metadata.py).            *)
(*                                                                         *)
(* A source is a sequence of tables in the order the backend lists them:   *)
(* name, kind, columns in order, primary key, unique constraints and       *)
(* foreign keys.  A MongoDB collection is a table whose columns are the    *)
(* dotted paths of its first document in the order the code walks them;    *)
(* a collection without a document has none.  A discoverer has its own     *)
(* allowlist (own) beside the one of the call (cfg).  Each table is read   *)
(* by statements of its own: a discovery is a list of names followed by    *)
(* one read per name, and the catalog may change between them.             *)
(***************************************************************************)
EXTENDS MetadataSnapshots

CONSTANTS
    OddNames,        \* names outside the bounded identifier pattern
    SystemNames      \* internal tables: sqlite_..., system...

(* MetadataDiscoveryConfig: empty allowlists of the call narrow nothing. *)
MetadataDiscoveryConfig(objects, fields, maxObjects, maxFields) ==
    [objects |-> objects, fields |-> fields, maxObjects |-> maxObjects,
     maxFields |-> maxFields]

Narrow(own, call) == IF call = {} THEN own ELSE own \cap call

(* The SQL discoverers: an empty effective allowlist is refused. *)
SqlEffectiveObjects(cfg, own) == Narrow(own.objects, cfg.objects)

PackageEffectiveObjects(cfg, own) == Narrow(own.objects, cfg.objects)

(* The MongoDB discoverer: without an allowlist of its own (given is FALSE) *)
(* the call's counts alone, and with neither every collection is read.      *)
MongoRestricted(cfg, own) == own.given \/ cfg.objects # {}

MongoEffectiveObjects(cfg, own) ==
    IF own.given THEN Narrow(own.objects, cfg.objects) ELSE cfg.objects

(* Whether discover() refuses before it reads anything. *)
Refused(backend, cfg, own) ==
    CASE backend = "mongodb" ->
            MongoRestricted(cfg, own) /\ MongoEffectiveObjects(cfg, own) = {}
      [] backend = "package" -> PackageEffectiveObjects(cfg, own) = {}
      [] OTHER -> SqlEffectiveObjects(cfg, own) = {}

Names(source) == [i \in DOMAIN source |-> source[i].name]

(* The tables a backend lists and the call may read, in order. *)
Listed(backend, cfg, own, source) ==
    LET Lists(n) ==
            CASE backend = "mongodb" ->
                    /\ n \notin SystemNames
                    /\ MongoRestricted(cfg, own) => n \in MongoEffectiveObjects(cfg, own)
              [] backend = "sqlite" ->
                    n \notin SystemNames /\ n \in SqlEffectiveObjects(cfg, own)
              [] OTHER -> n \notin OddNames /\ n \in SqlEffectiveObjects(cfg, own)
    IN SelectSeq(Names(source), Lists)

Prefix(seq, n) == SubSeq(seq, 1, IF Len(seq) < n THEN Len(seq) ELSE n)

Selected(backend, cfg, own, source) ==
    Prefix(Listed(backend, cfg, own, source), cfg.maxObjects)

ObjectsCut(backend, cfg, own, source) ==
    Len(Listed(backend, cfg, own, source)) > cfg.maxObjects

------------------------------------------------------------------------------
(* Columns.                                                                 *)

(* _sql_type keeps the base name of a declared type. *)
SqlType(declared) ==
    CASE declared \in {"CHARACTER VARYING", "VARCHAR(20)", "VARCHAR"} -> "VARCHAR"
      [] declared = "" -> "UNKNOWN"
      [] OTHER -> declared

Admitted(name, cfg, own) ==
    /\ cfg.fields # {} => name \in cfg.fields
    /\ own.fields # {} => name \in own.fields

SqlFields(t, cfg, own) ==
    LET Keeps(c) == c.name \notin OddNames /\ Admitted(c.name, cfg, own)
        kept == SelectSeq(Prefix(t.columns, cfg.maxFields), Keeps)
    IN [i \in DOMAIN kept |-> MetadataField(t.name, kept[i].name, SqlType(kept[i].type),
                                            kept[i].nullable)]

SqlFieldsCut(t, cfg) ==
    \/ Len(t.columns) > cfg.maxFields
    \/ \E i \in 1..Len(Prefix(t.columns, cfg.maxFields)) : t.columns[i].name \in OddNames

PrimaryKeys(t, fields) ==
    IF fields = {} THEN <<>>
    ELSE <<MetadataConstraint(<<t.name, "pk">>, "primary_key", fields)>>

(* A unique constraint over columns that were left out shrinks to the others. *)
UniqueKeys(t, ids) ==
    LET Kept(u) == u.columns \cap ids # {}
        kept == SelectSeq(t.uniques, Kept)
    IN [i \in DOMAIN kept |->
            MetadataConstraint(<<t.name, kept[i].name>>, "unique", kept[i].columns \cap ids)]

(* Foreign keys become relationships.  The foreign-key constraint the code   *)
(* appends afterwards never reaches the object, which is already built.     *)
ForeignKeys(t, ids, objects) ==
    LET Kept(k) == k.target \in objects /\ k.from \in ids
        kept == SelectSeq(t.fks, Kept)
    IN [i \in DOMAIN kept |->
            MetadataRelationship(<<t.name, kept[i].target, kept[i].from>>, t.name,
                                 kept[i].target, {kept[i].from}, {kept[i].to})]

TableRead(object, relationships, cut, sampled) ==
    [object |-> object, relationships |-> relationships, cut |-> cut, sampled |-> sampled]

(* Fault: a column that is cut off does not mark the object. *)
ReadSqliteUncounted(t, cfg, own) ==
    LET fields == SqlFields(t, cfg, own)
        ids == Ids(fields)
    IN TableRead(MetadataObject(t.name, t.kind, fields,
                                PrimaryKeys(t, t.pk \cap ids) \o UniqueKeys(t, ids), FALSE),
                 ForeignKeys(t, ids, SqlEffectiveObjects(cfg, own)), FALSE, FALSE)

(* One table of SqlMetadataDiscoverer._introspect (SQLite). *)
ReadSqliteTable(t, cfg, own) ==
    LET fields == SqlFields(t, cfg, own)
        ids == Ids(fields)
    IN TableRead(MetadataObject(t.name, t.kind, fields,
                                PrimaryKeys(t, t.pk \cap ids) \o UniqueKeys(t, ids), FALSE),
                 ForeignKeys(t, ids, SqlEffectiveObjects(cfg, own)),
                 SqlFieldsCut(t, cfg), FALSE)

(* One table of _introspect_postgres: the primary key is read by a query of *)
(* its own and keeps columns that were left out.                            *)
ReadPostgresTable(t, cfg, own) ==
    LET fields == SqlFields(t, cfg, own)
        ids == Ids(fields)
    IN TableRead(MetadataObject(t.name, t.kind, fields,
                                PrimaryKeys(t, t.pk) \o UniqueKeys(t, ids), FALSE),
                 ForeignKeys(t, ids, SqlEffectiveObjects(cfg, own)),
                 SqlFieldsCut(t, cfg), FALSE)

(* The same table read by the nl2data-postgres package. *)
ReadPackageTable(t, cfg, own) ==
    LET fields == SqlFields(t, cfg, own)
        ids == Ids(fields)
    IN TableRead(MetadataObject(t.name, t.kind, fields,
                                PrimaryKeys(t, t.pk) \o UniqueKeys(t, ids), FALSE),
                 ForeignKeys(t, ids, PackageEffectiveObjects(cfg, own)),
                 SqlFieldsCut(t, cfg), FALSE)

(* _collect_paths. *)
CollectPaths(t, cfg) == Prefix(t.columns, cfg.maxFields)

(* One collection of discover_metadata.  The cut is recognised after the     *)
(* allowlist has been applied.                                              *)
ReadCollection(t, cfg, own) ==
    LET Keeps(c) == Admitted(c.name, cfg, own)
        paths == SelectSeq(CollectPaths(t, cfg), Keeps)
        fields == [i \in DOMAIN paths |-> MetadataField(t.name, paths[i].name, "document", TRUE)]
    IN TableRead(MetadataObject(t.name, "collection", fields, <<>>, TRUE), <<>>,
                 Len(paths) = cfg.maxFields /\ t.columns # <<>>, t.columns # <<>>)

ReadTable(backend, t, cfg, own) ==
    CASE backend = "sqlite" -> ReadSqliteTable(t, cfg, own)
      [] backend = "postgresql" -> ReadPostgresTable(t, cfg, own)
      [] backend = "package" -> ReadPackageTable(t, cfg, own)
      [] OTHER -> ReadCollection(t, cfg, own)

Exists(source, name) == \E i \in DOMAIN source : source[i].name = name

(* A collection that is gone has no document.  For a table that is gone the  *)
(* row count fails (statistics are on by default).                          *)
Vanished(name) == [name |-> name, kind |-> "collection", columns |-> <<>>]

TableNow(source, name) ==
    IF Exists(source, name)
    THEN source[CHOOSE i \in DOMAIN source : source[i].name = name]
    ELSE Vanished(name)

(* The constructors refuse a name outside the identifier pattern. *)
WellFormed(s) ==
    /\ ValidSnapshot(s)
    /\ \A i \in DOMAIN s.objects :
          ({s.objects[i].id} \cup Ids(s.objects[i].fields)) \cap OddNames = {}

(* How such a refusal leaves the discoverer: the PostgreSQL ones turn every   *)
(* exception into a discovery error, the others let it pass.                *)
MalformedOutcome(backend) ==
    IF backend \in {"postgresql", "package"} THEN "failed" ELSE "raised"

(* source_digest: the names of the objects and of their fields, no types. *)
SourceDigest(objects) == {<<objects[i].id, Ids(objects[i].fields)>> : i \in DOMAIN objects}

(* The snapshot at the end of a discovery. *)
BuildSnapshot(sourceId, reads, objectsCut, at) ==
    LET objects == [i \in DOMAIN reads |-> reads[i].object]
        bounded == IssueIf(objectsCut, "objects")
                   \cup IssueIf(\E i \in DOMAIN reads : reads[i].cut, "fields")
                   \cup IssueIf(\E i \in DOMAIN reads : reads[i].sampled, "samples")
    IN MetadataSnapshot(MetadataSourceReference(sourceId, SourceDigest(objects)), objects,
                        Joined([i \in DOMAIN reads |-> reads[i].relationships]),
                        MetadataFreshness(at, bounded))

------------------------------------------------------------------------------
(* What a complete snapshot is, stated without truncation or order: every    *)
(* table the allowlists admit, with every column they admit.                *)
CompleteSchema(backend, cfg, own, source) ==
    LET admits(n) == IF backend = "mongodb"
                     THEN MongoRestricted(cfg, own) => n \in MongoEffectiveObjects(cfg, own)
                     ELSE n \in SqlEffectiveObjects(cfg, own)
        columns(t) == {t.columns[j].name : j \in DOMAIN t.columns}
    IN {<<t.name, {c \in columns(t) : Admitted(c, cfg, own)}>> :
            t \in {t \in Members(source) : t.name \notin SystemNames /\ admits(t.name)}}

SchemaOf(s) == {<<s.objects[i].id, Ids(s.objects[i].fields)>> : i \in DOMAIN s.objects}
==============================================================================
