---------------------------- MODULE BundleCatalog ----------------------------
(***************************************************************************)
(* The process-local catalog of published bundles, bundles/catalog.py, for  *)
(* one bundle in one tenant scope.  publish() checks and appends under the   *)
(* catalog lock and is one step.  The operations that move the active        *)
(* pointer take no lock: they read the pointer and the record, run their     *)
(* checks and build their audit entry, and then change the history, the      *)
(* records (read, rebuilt, written), the pointer and the audit store one     *)
(* after the other.  Each of those is a step of the client that runs them.   *)
(***************************************************************************)
EXTENDS Naturals, Sequences, FiniteSets

CONSTANTS
    Clients,         \* callers of the catalog
    Contents,        \* contents that can be published for the bundle
    ModelVersion,    \* [Contents -> version]: model_version of a content
    SnapshotOf,      \* [Contents -> snapshot it was built from]
    DependsOn,       \* [Contents -> set of dependency fingerprints]
    PublishInputs,   \* what publish is called with, see Input
    Productions,     \* production contexts: [given, snapshot, allowed]
    AuditOperators,  \* operator audit references
    HostEvents,      \* event ids of audit entries supplied by the host
    AuditLimit,      \* _AUDIT_STORE_LIMIT
    MaxChanges       \* bound on pointer moves and state changes together

VARIABLES
    records,     \* _publications: the records in publication order
    active,      \* _active: a copy of a record, or NoRecord
    formerly,    \* _history: copies of formerly active records, latest first
    audit,       \* _audit_store: [entries: event id -> entry, older: pairs of ids in order]
    available,   \* dependencies published under their own bundle ids
    work,        \* per client: the pointer operation in progress
    outcome,     \* per client: whether its last operation returned or raised
    retiredOnce, \* history: contents that have ever been retired
    changes      \* number of pointer moves and state changes begun

localVars == <<records, active, formerly, audit, available, work, outcome, retiredOnce, changes>>

NoContent == "none"

Dependencies == UNION {DependsOn[f] : f \in Contents}

PublicationStates == {"available", "active", "superseded", "deprecated", "retired"}

\* The evidence of a record: absent, of the compatibility policy, or of the
\* production policy.  Only an aggregate carries publication audit evidence.
Evidence == {"absent", "compatibility", "production"}

MaybeContent == Contents \cup {NoContent}

Record == [fp : MaybeContent, evidence : Evidence, audited : BOOLEAN,
           state : PublicationStates, pred : MaybeContent, succ : MaybeContent]

NoRecord == [fp |-> NoContent, evidence |-> "absent", audited |-> FALSE,
             state |-> "retired", pred |-> NoContent, succ |-> NoContent]

\* What publish is given next to the bundle: one aggregate, or single records.  The
\* records name a content (of); the audit may claim verification evidence.
Input == [aggregate : BOOLEAN, of : MaybeContent, manifest : BOOLEAN, claimed : BOOLEAN,
          evidence : Evidence, audited : BOOLEAN]

\* PublicationAggregate: every record is there, and they agree with each other.
CrossLinked(in) == in.manifest /\ in.claimed /\ in.evidence # "absent"

ASSUME LocalCatalogAssumption ==
    /\ NoContent \notin Contents
    /\ Clients # {}
    /\ AuditLimit \in Nat \ {0} /\ MaxChanges \in Nat
    /\ \A in \in PublishInputs : /\ in \in Input
                                 /\ in.aggregate => CrossLinked(in)
                                 /\ in.audited => in.aggregate

\* Audit entries.  The event id of a pointer entry is derived from the kind and
\* the two fingerprints; the fingerprint of an entry covers all its fields.
EntryId(kind, prior, to) == [kind |-> kind, prior |-> prior, to |-> to]

Entry(id, fp, operator, preds) == [id |-> id, fp |-> fp, operator |-> operator, preds |-> preds]

PublicationId(fp) == EntryId("publication", NoContent, fp)

HostId(e) == EntryId("host", NoContent, e)

\* The steps of a pointer operation, in their order.
Steps == {"none", "push history", "read previous", "write previous", "read target",
          "write target", "pointer", "pop history", "audit"}

NoWork == [at |-> "none", pops |-> FALSE, target |-> NoRecord, previous |-> NoRecord,
           rest |-> <<>>, entry |-> Entry(HostId(NoContent), NoContent, NoContent, {}),
           copy |-> <<>>]

LocalCatalogInit ==
    /\ records = <<>>
    /\ active = NoRecord
    /\ formerly = <<>>
    /\ audit = [entries |-> <<>>, older |-> {}]
    /\ available = {}
    /\ work = [t \in Clients |-> NoWork]
    /\ outcome = [t \in Clients |-> "returned"]
    /\ retiredOnce = {}
    /\ changes = 0

Resting(t) == work[t].at = "none"

-----------------------------------------------------------------------------
(* The audit store *)

Ids(store) == DOMAIN store.entries

\* _find_publication_entry: the id of the publication entry, if it is stored.
PublicationEntryOf(store, fp) ==
    IF PublicationId(fp) \in Ids(store) THEN {PublicationId(fp)} ELSE {}

\* The contents with a record that is not retired.
Live(recs) == {recs[i].fp : i \in {j \in DOMAIN recs : recs[j].state # "retired"}}

\* What concerns such a content, and what those entries link to.
Protected(entries, live) ==
    UNION {{i} \cup entries[i].preds : i \in {j \in DOMAIN entries : entries[j].fp \in live}}

\* Fault: the oldest entries go, whatever they explain.
RemovableAny(entries, live) == DOMAIN entries

\* The ids of the entries retention may drop.
Removable(entries, live) ==
    {i \in DOMAIN entries : entries[i].fp \notin live /\ i \notin Protected(entries, live)}

\* _trim_audit_entries_locked: as many of the oldest removable entries as there
\* are entries too many.
Trim(store, recs) ==
    LET removable == Removable(store.entries, Live(recs))
        overflow == Cardinality(Ids(store)) - AuditLimit
        UpTo(i) == {j \in removable : j = i \/ <<j, i>> \in store.older}
        kept == {i \in Ids(store) : i \in removable => Cardinality(UpTo(i)) > overflow}
    IN  [entries |-> [i \in kept |-> store.entries[i]],
         older |-> {p \in store.older : p[1] \in kept /\ p[2] \in kept}]

\* _append_audit_entry_locked.  A different entry under the same id raises; the
\* same entry again changes nothing.
Conflicts(store, e) == e.id \in Ids(store) /\ store.entries[e.id] # e

Added(store, e) ==
    [entries |-> [i \in Ids(store) \cup {e.id} |-> IF i = e.id THEN e ELSE store.entries[i]],
     older |-> store.older \cup {<<i, e.id>> : i \in Ids(store)}]

Appended(store, e, recs) ==
    IF e.id \in Ids(store) THEN store ELSE Trim(Added(store, e), recs)

-----------------------------------------------------------------------------
(* publish *)

Has(recs, fp) == \E i \in DOMAIN recs : recs[i].fp = fp

RecordOf(recs, fp) ==
    IF Has(recs, fp) THEN recs[CHOOSE i \in DOMAIN recs : recs[i].fp = fp] ELSE NoRecord

\* validate_publication_integrity: the records name the bundle, the audit claims
\* evidence exactly when there is some, and evidence has its manifest.  The frozen
\* release binding is derived from the evidence and agrees with it.
Consistent(fp, in) ==
    /\ in.of \in {fp, NoContent}
    /\ in.claimed <=> in.evidence # "absent"
    /\ in.evidence # "absent" => in.manifest
    /\ in.audited => in.evidence # "absent"

\* The aggregate of another bundle is refused; single records are checked.
RecordsAccepted(fp, in) == IF in.aggregate THEN in.of = fp ELSE Consistent(fp, in)

\* validate_bundle with the snapshot of the production context.
ValidFor(fp, prod) == prod.given => SnapshotOf[fp] = prod.snapshot

\* The predecessor learns its successor, and is superseded unless it is active.
WithSuccessor(r, fp) ==
    [r EXCEPT !.succ = fp, !.state = IF @ = "active" THEN @ ELSE "superseded"]

\* publish and _publish_validated: the checks in the order of the code.
PublishResult(fp, in, prod) ==
    CASE ~RecordsAccepted(fp, in) -> "rejected"
      [] ~ValidFor(fp, prod) -> "rejected"
      [] Has(records, fp) -> IF in.evidence # "absent" /\ RecordOf(records, fp).evidence = "absent"
                             THEN "rejected" ELSE "reused"
      [] \E i \in DOMAIN records : ModelVersion[records[i].fp] = ModelVersion[fp] -> "rejected"
      [] OTHER -> "published"

\* publication_audit_entry, linked to the publication entry of the predecessor.
PublicationEntry(fp, pred) ==
    Entry(PublicationId(fp), fp, NoContent,
          IF pred = NoContent THEN {} ELSE PublicationEntryOf(audit, pred))

PublishBundle(t, fp, in, prod) ==
    LET n == Len(records)
        pred == IF n = 0 THEN NoContent ELSE records[n].fp
        older == [i \in DOMAIN records |-> IF i = n THEN WithSuccessor(records[i], fp) ELSE records[i]]
        record == [fp |-> fp, evidence |-> in.evidence, audited |-> in.audited,
                   state |-> "available", pred |-> pred, succ |-> NoContent]
    IN  /\ Resting(t)
        /\ outcome' = [outcome EXCEPT ![t] = "returned"]
        /\ IF PublishResult(fp, in, prod) = "published"
           THEN /\ records' = Append(older, record)
                /\ audit' = IF in.audited THEN Appended(audit, PublicationEntry(fp, pred), records')
                                          ELSE audit
           ELSE UNCHANGED <<records, audit>>
        /\ UNCHANGED <<active, formerly, available, work, retiredOnce, changes>>

\* A dependency is published under its own bundle id.
PublishDependency(d) ==
    /\ d \notin available
    /\ available' = available \cup {d}
    /\ UNCHANGED <<records, active, formerly, audit, work, outcome, retiredOnce, changes>>

-----------------------------------------------------------------------------
(* Moving the pointer: activate, activate_fingerprint, rollback,            *)
(* rollback_to_fingerprint                                                   *)

\* The checks of _activate_publication.
ActivationIssue(r, prod) ==
    CASE r.state = "retired" -> "rejected"
      [] ~ValidFor(r.fp, prod) -> "rejected"
      [] prod.given /\ ~prod.allowed -> "rejected"
      [] prod.given /\ r.evidence # "production" -> "rejected"
      [] ~(DependsOn[r.fp] \subseteq available) -> "rejected"
      [] OTHER -> "ok"

\* The checks of rollback, on the copy kept in the history; only retirement is
\* looked up in the live record.
RollbackIssue(r, prod) ==
    CASE ~Has(records, r.fp) \/ RecordOf(records, r.fp).state = "retired" -> "rejected"
      [] prod.given /\ ~prod.allowed -> "rejected"
      [] ~ValidFor(r.fp, prod) -> "rejected"
      [] prod.given /\ r.evidence # "production" -> "rejected"
      [] OTHER -> "ok"

\* activation_audit_entry, rollback_audit_entry
PointerEvidence(kind, prior, fp, operator, preds) == Entry(EntryId(kind, prior, fp), fp, operator, preds)

\* _build_pointer_audit_entry: linked to the publication entry of the content.
PointerEntry(kind, r, operator) ==
    PointerEvidence(kind, active.fp, r.fp, operator, PublicationEntryOf(audit, r.fp))

\* A pointer operation is rejected at once or leaves its remaining work to the
\* steps below.  Only a rollback from the history takes its head off (pops).
BeginMove(t, issue, kind, r, operator, pops, first) ==
    /\ IF issue = "ok"
       THEN /\ work' = [work EXCEPT ![t] =
                          [at |-> first, pops |-> pops, target |-> r, previous |-> active,
                           rest |-> IF pops THEN Tail(formerly) ELSE <<>>,
                           entry |-> PointerEntry(kind, r, operator), copy |-> <<>>]]
            /\ outcome' = [outcome EXCEPT ![t] = "running"]
            /\ changes' = changes + 1
       ELSE /\ outcome' = [outcome EXCEPT ![t] = "returned"]
            /\ UNCHANGED <<work, changes>>
    /\ UNCHANGED <<records, active, formerly, audit, available, retiredOnce>>

\* _activate_publication after its checks: the history and the previous record
\* are touched only when there was an active version.
ActivationStep == IF active = NoRecord THEN "read target" ELSE "push history"

\* activate, activate_fingerprint
Activate(t, fp, prod, operator) ==
    /\ Resting(t)
    /\ Has(records, fp)
    /\ changes < MaxChanges
    /\ BeginMove(t, ActivationIssue(RecordOf(records, fp), prod), "activation",
                 RecordOf(records, fp), operator, FALSE, ActivationStep)

\* rollback_to_fingerprint; the version that is active already is a success
\* without effect.
RollbackTo(t, fp, prod, operator) ==
    /\ Resting(t)
    /\ Has(records, fp)
    /\ active # NoRecord
    /\ changes < MaxChanges
    /\ IF fp = active.fp
       THEN /\ outcome' = [outcome EXCEPT ![t] = "returned"]
            /\ UNCHANGED <<records, active, formerly, audit, available, work, retiredOnce, changes>>
       ELSE BeginMove(t, ActivationIssue(RecordOf(records, fp), prod), "rollback",
                      RecordOf(records, fp), operator, FALSE, ActivationStep)

\* rollback
RollbackActive(t, prod, operator) ==
    /\ Resting(t)
    /\ active # NoRecord
    /\ formerly # <<>>
    /\ changes < MaxChanges
    /\ BeginMove(t, RollbackIssue(Head(formerly), prod), "rollback", Head(formerly), operator,
                 TRUE, "read previous")

\* _replace_publication rebuilds the tuple from what it has just read.
Replaced(recs, r) == [i \in DOMAIN recs |-> IF recs[i].fp = r.fp THEN r ELSE recs[i]]

Demoted(r) == [r EXCEPT !.state = "superseded"]

Promoted(r) == [r EXCEPT !.state = "active"]

\* The step after this one.
Following(w) ==
    CASE w.at = "push history" -> "read previous"
      [] w.at = "read previous" -> "write previous"
      [] w.at = "write previous" -> "read target"
      [] w.at = "read target" -> "write target"
      [] w.at = "write target" -> "pointer"
      [] w.at = "pointer" /\ w.pops -> "pop history"
      [] OTHER -> "audit"

Proceed(t) == work' = [work EXCEPT ![t].at = Following(work[t])]

PushHistory(t) ==
    /\ work[t].at = "push history"
    /\ formerly' = <<work[t].previous>> \o formerly
    /\ Proceed(t)
    /\ UNCHANGED <<records, active, audit, available, outcome, retiredOnce, changes>>

\* What is read is rebuilt with the demoted or promoted copy in it.
ReadRecords(t) ==
    /\ work[t].at \in {"read previous", "read target"}
    /\ LET r == IF work[t].at = "read previous" THEN Demoted(work[t].previous)
                                                ELSE Promoted(work[t].target)
       IN  work' = [work EXCEPT ![t].at = Following(work[t]), ![t].copy = Replaced(records, r)]
    /\ UNCHANGED <<records, active, formerly, audit, available, outcome, retiredOnce, changes>>

WriteRecords(t) ==
    /\ work[t].at \in {"write previous", "write target"}
    /\ records' = work[t].copy
    /\ Proceed(t)
    /\ UNCHANGED <<active, formerly, audit, available, outcome, retiredOnce, changes>>

SetPointer(t) ==
    /\ work[t].at = "pointer"
    /\ active' = Promoted(work[t].target)
    /\ Proceed(t)
    /\ UNCHANGED <<records, formerly, audit, available, outcome, retiredOnce, changes>>

PopHistory(t) ==
    /\ work[t].at = "pop history"
    /\ formerly' = work[t].rest
    /\ Proceed(t)
    /\ UNCHANGED <<records, active, audit, available, outcome, retiredOnce, changes>>

\* The entry is appended last; a conflict raises with everything else done.
AppendEntry(t) ==
    /\ work[t].at = "audit"
    /\ IF Conflicts(audit, work[t].entry)
       THEN /\ outcome' = [outcome EXCEPT ![t] = "raised"]
            /\ UNCHANGED audit
       ELSE /\ outcome' = [outcome EXCEPT ![t] = "returned"]
            /\ audit' = Appended(audit, work[t].entry, records)
    /\ work' = [work EXCEPT ![t] = NoWork]
    /\ UNCHANGED <<records, active, formerly, available, retiredOnce, changes>>

PointerStep(t) ==
    \/ PushHistory(t)
    \/ ReadRecords(t)
    \/ WriteRecords(t)
    \/ SetPointer(t)
    \/ PopHistory(t)
    \/ AppendEntry(t)

-----------------------------------------------------------------------------
(* set_version_state, record_audit_entries *)

\* Fault: the active version may be retired.
StateChangeAllowedAlways(fp, state) == TRUE

StateChangeAllowed(fp, state) == ~(state = "retired" /\ active.fp = fp)

SetVersionState(t, fp, state) ==
    /\ Resting(t)
    /\ Has(records, fp)
    /\ changes < MaxChanges
    /\ IF StateChangeAllowed(fp, state)
       THEN /\ records' = Replaced(records, [RecordOf(records, fp) EXCEPT !.state = state])
            /\ retiredOnce' = IF state = "retired" THEN retiredOnce \cup {fp} ELSE retiredOnce
            /\ changes' = changes + 1
       ELSE UNCHANGED <<records, retiredOnce, changes>>
    /\ outcome' = [outcome EXCEPT ![t] = "returned"]
    /\ UNCHANGED <<active, formerly, audit, available, work>>

\* Entries the host has built of decisions, drafts, lint and verification results;
\* they concern no bundle.
HostEntries == {Entry(HostId(e), NoContent, o, {}) : e \in HostEvents, o \in AuditOperators}

\* record_audit_entries: the entries of a batch are appended one by one until one
\* raises.  A batch of a single entry is the batch that repeats it.
RecordAuditEntries(t, e, f) ==
    LET one == Appended(audit, e, records)
        refused == Conflicts(audit, e) \/ Conflicts(one, f)
    IN  /\ Resting(t)
        /\ audit' = IF Conflicts(audit, e) THEN audit
                    ELSE IF Conflicts(one, f) THEN one
                    ELSE Appended(one, f, records)
        /\ outcome' = [outcome EXCEPT ![t] = IF refused THEN "raised" ELSE "returned"]
        /\ UNCHANGED <<records, active, formerly, available, work, retiredOnce, changes>>

-----------------------------------------------------------------------------

LocalCatalogNext ==
    \/ \E d \in Dependencies : PublishDependency(d)
    \/ \E t \in Clients :
          \/ \E fp \in Contents, in \in PublishInputs, prod \in Productions :
                PublishBundle(t, fp, in, prod)
          \/ \E fp \in Contents, prod \in Productions, o \in AuditOperators :
                Activate(t, fp, prod, o) \/ RollbackTo(t, fp, prod, o)
          \/ \E prod \in Productions, o \in AuditOperators : RollbackActive(t, prod, o)
          \/ PointerStep(t)
          \/ \E fp \in Contents, s \in {"deprecated", "retired"} : SetVersionState(t, fp, s)
          \/ \E e, f \in HostEntries : RecordAuditEntries(t, e, f)

LocalCatalogSpec == LocalCatalogInit /\ [][LocalCatalogNext]_localVars

-----------------------------------------------------------------------------
(* Properties *)

PointerEntries ==
    [id : [kind : {"activation", "rollback", "host"}, prior : MaybeContent, to : MaybeContent],
     fp : MaybeContent, operator : AuditOperators \cup {NoContent},
     preds : SUBSET {PublicationId(f) : f \in MaybeContent}]

Work == [at : Steps, pops : BOOLEAN, target : Record, previous : Record, rest : Seq(Record),
         entry : PointerEntries, copy : Seq(Record)]

LocalCatalogTypeOK ==
    /\ records \in Seq(Record) /\ formerly \in Seq(Record)
    /\ active \in Record
    /\ available \subseteq Dependencies /\ retiredOnce \subseteq Contents
    /\ audit.older \subseteq Ids(audit) \X Ids(audit)
    /\ \A i \in Ids(audit) : audit.entries[i].id = i
    /\ work \in [Clients -> Work]
    /\ outcome \in [Clients -> {"running", "returned", "raised"}]
    /\ changes \in 0..MaxChanges

\* What follows is about one client; nothing serialises the pointer operations of two.
BetweenCalls == (\A t, u \in Clients : t = u) /\ (\A t \in Clients : Resting(t))

\* Between operations of a single client at most one record is ACTIVE, it is the
\* one the pointer names, and the pointer never names a retired record.
PointerMatchesRecords ==
    BetweenCalls =>
        /\ \A i \in DOMAIN records : records[i].state = "active" => records[i].fp = active.fp
        /\ active # NoRecord => \E i \in DOMAIN records :
                                   records[i].fp = active.fp /\ records[i].state # "retired"

\* supersession_chain is linear: each record names the one published before it,
\* and neither a version nor a content is published twice.
ChainIsLinear ==
    \A i \in DOMAIN records :
        /\ records[i].pred = IF i = 1 THEN NoContent ELSE records[i - 1].fp
        /\ \A j \in DOMAIN records :
              ModelVersion[records[i].fp] = ModelVersion[records[j].fp] => i = j

\* Retention protects what explains a version in use: as long as a version has
\* never been retired its publication entry is kept, and so is everything the
\* kept entries of that version link to; the active version has an entry.
LiveAuditIsComplete ==
    BetweenCalls =>
        /\ \A i \in DOMAIN records :
              records[i].audited /\ records[i].fp \notin retiredOnce
                  => PublicationId(records[i].fp) \in Ids(audit)
        /\ \A i \in DOMAIN audit.entries :
              audit.entries[i].fp \in Contents \ retiredOnce
                  => audit.entries[i].preds \subseteq Ids(audit)
        /\ active # NoRecord /\ active.fp \notin retiredOnce
              => \E i \in DOMAIN audit.entries : /\ audit.entries[i].fp = active.fp
                                                 /\ audit.entries[i].id.kind # "publication"

=============================================================================
