--------------------------- MODULE SnapshotStores ---------------------------
(***************************************************************************)
(* Where discovered snapshots are registered and activated: the            *)
(* process-local ledger (metadata/production.py, SnapshotLedger) and its   *)
(* durable counterpart (nl2data-semantic-catalog-postgres,                 *)
(* repositories/snapshots.py).                                             *)
(*                                                                         *)
(* A ledger L has records and snapshots by snapshot fingerprint, as the    *)
(* code's dictionaries, and the last outcome of each source and tenant.    *)
(* The fingerprint says nothing of the tenant: two tenants that read the   *)
(* same catalog share an entry.  The code calls these methods on one       *)
(* thread without awaiting; each is one step.                              *)
(***************************************************************************)
EXTENDS MetadataSnapshots

LedgerInit == [records |-> <<>>, snapshots |-> <<>>, outcomes |-> <<>>]

SnapshotLifecycleRecord(s, tenant, state, until) ==
    [source |-> s.source.id, tenant |-> tenant, state |-> state, until |-> until,
     activatedAt |-> NoAge, evidence |-> NoDecision]

With(f, k, v) == [x \in DOMAIN f \cup {k} |-> IF x = k THEN v ELSE f[x]]

Without(f, K) == [x \in DOMAIN f \ K |-> f[x]]

(* register: replaces an entry of the same fingerprint. *)
LedgerRegister(L, s, tenant, until) ==
    LET fp == Fingerprint(s)
    IN [L EXCEPT !.records = With(@, fp, SnapshotLifecycleRecord(s, tenant, "inactive", until)),
                 !.snapshots = With(@, fp, s)]

(* Why activate refuses; an empty set means that it activates. *)
LedgerRefusals(L, fp, tenant, policy, decision, overrides, now) ==
    IF fp \notin DOMAIN L.records THEN {"snapshot_unknown"}
    ELSE IF L.records[fp].tenant # tenant THEN {"snapshot_unauthorized"}
    ELSE IF now > L.records[fp].until THEN {"snapshot_expired"}
    ELSE IF policy.given
         THEN CheckSnapshotActivation(L.snapshots[fp], policy, decision, overrides, tenant, now)
    ELSE IssueIf(Partial(L.snapshots[fp]), "snapshot_partial")

(* Fault: the former active record keeps its state. *)
OthersStayActive(records, fp) == records

(* The loop that makes every other active record of the stream inactive. *)
OthersInactive(records, fp) ==
    [x \in DOMAIN records |->
        IF /\ x # fp
           /\ records[x].state = "active"
           /\ records[x].source = records[fp].source
           /\ records[x].tenant = records[fp].tenant
        THEN [records[x] EXCEPT !.state = "inactive"]
        ELSE records[x]]

(* activate, once nothing refuses. *)
LedgerActivate(L, fp, decision, now) ==
    LET others == OthersInactive(L.records, fp)
        own == [others[fp] EXCEPT !.state = "active", !.activatedAt = now, !.evidence = decision]
    IN [L EXCEPT !.records = [others EXCEPT ![fp] = own]]

IsActive(L, fp, source, tenant) ==
    /\ L.records[fp].state = "active"
    /\ L.records[fp].source = source
    /\ L.records[fp].tenant = tenant

ActiveIn(L, source, tenant) == {fp \in DOMAIN L.records : IsActive(L, fp, source, tenant)}

(* active: the snapshots it may return (the first record that matches). *)
LedgerActive(L, source, tenant) == {L.snapshots[fp] : fp \in ActiveIn(L, source, tenant)}

(* record_outcome and last_outcome. *)
LedgerRecordOutcome(L, source, tenant, outcome) ==
    [L EXCEPT !.outcomes = With(@, <<source, tenant>>, outcome)]

ExpiredEntries(L, now) == {fp \in DOMAIN L.records : now > L.records[fp].until}

(* cleanup_expired: an active entry is removed as well. *)
LedgerCleanup(L, now) ==
    [L EXCEPT !.records = Without(@, ExpiredEntries(L, now)),
              !.snapshots = Without(@, ExpiredEntries(L, now))]

------------------------------------------------------------------------------
(***************************************************************************)
(* A repository R has rows per namespace and fingerprint, one pointer per  *)
(* namespace and source, and one proposal set per snapshot.  The namespace *)
(* is the tenant's.  Every method is one transaction; the conflict clauses *)
(* of its statements and the foreign keys of the tables are part of the    *)
(* step.                                                                   *)
(***************************************************************************)
RepositoryInit == [rows |-> <<>>, pointers |-> <<>>, proposals |-> <<>>]

Pointer(R, tenant, source) == <<tenant, source>> \in DOMAIN R.pointers

PointsTo(R, tenant, source, fp) ==
    Pointer(R, tenant, source) /\ R.pointers[<<tenant, source>>] = fp

(* register_snapshot: a conflict keeps the row's state; a row the pointer    *)
(* names is marked active.                                                  *)
RepositoryRegister(R, s, tenant, until) ==
    LET fp == Fingerprint(s)
        key == <<tenant, fp>>
        old == IF key \in DOMAIN R.rows THEN R.rows[key].state ELSE "inactive"
        state == IF PointsTo(R, tenant, s.source.id, fp) THEN "active" ELSE old
    IN [R EXCEPT !.rows = With(@, key, [snapshot |-> s, state |-> state, until |-> until])]

(* Why activate_snapshot refuses. *)
RepositoryRefusals(R, fp, tenant, policy, decision, overrides, now) ==
    LET key == <<tenant, fp>>
    IN IF key \notin DOMAIN R.rows THEN {"snapshot_unknown"}
       ELSE IF now > R.rows[key].until THEN {"snapshot_expired"}
       ELSE IF policy.given
            THEN CheckSnapshotActivation(R.rows[key].snapshot, policy, decision, overrides,
                                         tenant, now)
       ELSE IssueIf(Partial(R.rows[key].snapshot), "snapshot_partial")

(* activate_snapshot, once nothing refuses: the pointer moves, the row is    *)
(* marked; the row that was active before keeps its mark.                   *)
RepositoryActivate(R, fp, tenant) ==
    LET key == <<tenant, fp>>
    IN [R EXCEPT !.pointers = With(@, <<tenant, R.rows[key].snapshot.source.id>>, fp),
                 !.rows = [@ EXCEPT ![key].state = "active"]]

(* active_snapshot and snapshot. *)
RepositoryActive(R, source, tenant) ==
    IF Pointer(R, tenant, source) /\ <<tenant, R.pointers[<<tenant, source>>]>> \in DOMAIN R.rows
    THEN {R.rows[<<tenant, R.pointers[<<tenant, source>>]>>].snapshot}
    ELSE {}

RepositorySnapshot(R, fp, tenant) ==
    IF <<tenant, fp>> \in DOMAIN R.rows THEN {R.rows[<<tenant, fp>>].snapshot} ELSE {}

(* save_proposal_set needs the snapshot's row; proposal_set reads it. *)
CanSaveProposals(R, fp, tenant) == <<tenant, fp>> \in DOMAIN R.rows

SaveProposalSet(R, fp, tenant, set) == [R EXCEPT !.proposals = With(@, <<tenant, fp>>, set)]

ProposalSet(R, fp, tenant) ==
    IF <<tenant, fp>> \in DOMAIN R.proposals THEN {R.proposals[<<tenant, fp>>]} ELSE {}

(* delete_expired_snapshots: rows no pointer of any namespace names, and     *)
(* whose fingerprint or catalog no active bundle (published) names.         *)
ExpiredRows(R, published, now) ==
    {key \in DOMAIN R.rows :
        /\ R.rows[key].until < now
        /\ key[2] \notin {R.pointers[p] : p \in DOMAIN R.pointers}
        /\ key[2] \notin published.snapshots
        /\ R.rows[key].snapshot.source.catalog \notin published.catalogs}

(* A proposal set goes with its snapshot (ON DELETE CASCADE). *)
RepositoryCleanup(R, published, now) ==
    LET gone == ExpiredRows(R, published, now)
    IN [R EXCEPT !.rows = Without(@, gone), !.proposals = Without(@, gone)]
==============================================================================
