------------------------- MODULE MetadataOperations -------------------------
(***************************************************************************)
(* Hosts that discover metadata in production, register what they found,   *)
(* classify its drift and activate it (metadata/production.py and the      *)
(* durable repository), against a source whose schema changes.             *)
(*                                                                         *)
(* run_production_discovery awaits the discoverer's thread: its reads      *)
(* interleave with schema changes and with other hosts.  When it returns,  *)
(* the host registers the snapshot and records the outcome without         *)
(* awaiting, one step.  Classifying drift and activating are calls of      *)
(* their own.  store says which of the two implementations is in use.      *)
(***************************************************************************)
EXTENDS MetadataDiscovery, SnapshotStores

CONSTANTS
    Hosts,
    Sources,         \* the states of the source's schema: [index -> tables]
    Setups,          \* [Hosts -> [backend, cfg, own, source, authorized, tenant, policy]]
    Refs,            \* what the active bundle refers to
    Retention,       \* how long a registered snapshot is kept
    MaxTime, MaxAlters, MaxRuns

VARIABLES
    store,           \* "ledger" or "catalog"
    setup,           \* the member of Setups in use
    schema,          \* index of the source's present schema
    alters, runs, now,
    job,             \* [Hosts -> discovery in progress or its result]
    ledger, repo,
    published        \* snapshots and catalogs named by active bundles

vars == <<store, setup, schema, alters, runs, now, job, ledger, repo, published>>

Tenant(h) == setup[h].tenant

Source(h) == setup[h].source

Idle == [stage |-> "idle"]

Reading(todo, reads, cut, from, torn) ==
    [stage |-> "reading", todo |-> todo, reads |-> reads, cut |-> cut, from |-> from,
     torn |-> torn]

Found(s, from, torn) == [stage |-> "found", snapshot |-> s, from |-> from, torn |-> torn]

Decided(s, base, decision) ==
    [stage |-> "decided", snapshot |-> s, base |-> base, decision |-> decision]

Active(source, tenant) ==
    IF store = "ledger" THEN LedgerActive(ledger, source, tenant)
    ELSE RepositoryActive(repo, source, tenant)

Init ==
    /\ store \in {"ledger", "catalog"}
    /\ setup \in Setups
    /\ schema = 1 /\ alters = 0 /\ runs = 0 /\ now = 1
    /\ job = [h \in Hosts |-> Idle]
    /\ ledger = LedgerInit
    /\ repo = RepositoryInit
    /\ published = [snapshots |-> {}, catalogs |-> {}]

(* A schema change of the source (outside this system). *)
Alter ==
    /\ alters < MaxAlters
    /\ \E i \in DOMAIN Sources \ {schema} : schema' = i
    /\ alters' = alters + 1
    /\ job' = [h \in Hosts |-> IF job[h].stage = "reading" THEN [job[h] EXCEPT !.torn = TRUE]
                               ELSE job[h]]
    /\ UNCHANGED <<store, setup, runs, now, ledger, repo, published>>

Tick == /\ now < MaxTime
        /\ now' = now + 1
        /\ UNCHANGED <<store, setup, schema, alters, runs, job, ledger, repo, published>>

(* _failure_outcome: nothing is registered; the host records the category.  *)
Fail(h, category) ==
    /\ job' = [job EXCEPT ![h] = Idle]
    /\ ledger' = LedgerRecordOutcome(ledger, setup[h].authorized, Tenant(h), category)
    /\ UNCHANGED <<store, setup, schema, alters, now, repo, published>>

(* The exception leaves run_production_discovery; there is no outcome. *)
Escape(h) ==
    /\ job' = [job EXCEPT ![h] = Idle]
    /\ UNCHANGED <<store, setup, schema, alters, runs, now, ledger, repo, published>>

(* discover(): the allowlist is checked, then the source is listed. *)
StartDiscovery(h) ==
    LET u == setup[h]
        source == Sources[schema]
    IN /\ job[h].stage = "idle" /\ runs < MaxRuns
       /\ runs' = runs + 1
       /\ \/ /\ Refused(u.backend, u.cfg, u.own)
             /\ Fail(h, "unauthorized")
          \/ /\ ~Refused(u.backend, u.cfg, u.own)
             /\ Fail(h, "unavailable")
          \/ /\ ~Refused(u.backend, u.cfg, u.own)
             /\ job' = [job EXCEPT ![h] =
                    Reading(Selected(u.backend, u.cfg, u.own, source), <<>>,
                            ObjectsCut(u.backend, u.cfg, u.own, source), schema, FALSE)]
             /\ UNCHANGED <<store, setup, schema, alters, now, ledger, repo, published>>

(* One turn of the loop over the selected tables. *)
ReadObject(h) ==
    LET u == setup[h]
        j == job[h]
        source == Sources[schema]
    IN /\ j.stage = "reading" /\ j.todo # <<>>
       /\ u.backend # "mongodb" => Exists(source, Head(j.todo))
       /\ job' = [job EXCEPT ![h] =
                [j EXCEPT !.todo = Tail(@),
                          !.reads = Append(@, ReadTable(u.backend, TableNow(source, Head(j.todo)),
                                                        u.cfg, u.own))]]
       /\ UNCHANGED <<store, setup, schema, alters, runs, now, ledger, repo, published>>

(* The deadline has passed, or the table to be counted is gone. *)
ReadFails(h) ==
    /\ job[h].stage = "reading" /\ job[h].todo # <<>>
    /\ Fail(h, "failed")
    /\ UNCHANGED runs

(* The snapshot is built; run_production_discovery classifies the outcome    *)
(* and the host registers and records it.                                   *)
FinishDiscovery(h) ==
    LET u == setup[h]
        j == job[h]
        s == BuildSnapshot(u.source, j.reads, j.cut, now)
        outcome == IF s.freshness.bounded \cap {"objects", "fields"} # {} THEN "partial"
                   ELSE "succeeded"
    IN /\ j.stage = "reading" /\ j.todo = <<>>
       /\ \/ /\ ~WellFormed(s) /\ MalformedOutcome(u.backend) = "raised"
             /\ Escape(h)
          \/ /\ ~WellFormed(s) /\ MalformedOutcome(u.backend) # "raised"
             /\ Fail(h, MalformedOutcome(u.backend))
             /\ UNCHANGED runs
          \/ /\ WellFormed(s) /\ s.source.id # u.authorized
             /\ Fail(h, "unauthorized")
             /\ UNCHANGED runs
          \/ /\ WellFormed(s) /\ s.source.id = u.authorized
             /\ job' = [job EXCEPT ![h] = Found(s, j.from, j.torn)]
             /\ ledger' = LedgerRecordOutcome(
                    IF store = "ledger" THEN LedgerRegister(ledger, s, u.tenant, now + Retention)
                    ELSE ledger, u.authorized, u.tenant, outcome)
             /\ repo' = IF store = "catalog"
                        THEN RepositoryRegister(repo, s, u.tenant, now + Retention) ELSE repo
             /\ UNCHANGED <<store, setup, schema, alters, runs, now, published>>

(* classify_drift against the snapshot that is active now, if there is one. *)
Decide(h) ==
    LET u == setup[h]
        s == job[h].snapshot
        base == Active(u.source, u.tenant)
    IN /\ job[h].stage = "found"
       /\ \/ /\ base = {}
             /\ job' = [job EXCEPT ![h] = Decided(s, base, NoDecision)]
          \/ \E b \in base :
                job' = [job EXCEPT ![h] =
                    Decided(s, base, ClassifyDrift(b, s, Refs, u.policy.maxAge, now))]
       /\ UNCHANGED <<store, setup, schema, alters, runs, now, ledger, repo, published>>

(* The host may have approved an override of exactly this decision. *)
Overrides(h) ==
    {DriftOverride(setup[h].tenant, setup[h].source, job[h].decision, MaxTime)}

Refusals(h, overrides) ==
    LET u == setup[h]
        fp == Fingerprint(job[h].snapshot)
    IN IF store = "ledger"
       THEN LedgerRefusals(ledger, fp, u.tenant, u.policy, job[h].decision, overrides, now)
       ELSE RepositoryRefusals(repo, fp, u.tenant, u.policy, job[h].decision, overrides, now)

(* activate and activate_snapshot; a refusal changes nothing. *)
ActivateSnapshot(h) ==
    LET fp == Fingerprint(job[h].snapshot)
    IN /\ job[h].stage = "decided"
       /\ job' = [job EXCEPT ![h] = Idle]
       /\ \E overrides \in {{}, Overrides(h)} :
            \/ /\ Refusals(h, overrides) # {}
               /\ UNCHANGED <<ledger, repo>>
            \/ /\ Refusals(h, overrides) = {} /\ store = "ledger"
               /\ ledger' = LedgerActivate(ledger, fp, job[h].decision, now)
               /\ UNCHANGED repo
            \/ /\ Refusals(h, overrides) = {} /\ store = "catalog"
               /\ repo' = RepositoryActivate(repo, fp, Tenant(h))
               /\ UNCHANGED ledger
       /\ UNCHANGED <<store, setup, schema, alters, runs, now, published>>

(* A bundle built from the active snapshot becomes active. *)
PublishFromActive(h) ==
    /\ store = "catalog"
    /\ \E s \in Active(Source(h), Tenant(h)) :
          published' = [snapshots |-> {Fingerprint(s)}, catalogs |-> {s.source.catalog}]
    /\ UNCHANGED <<store, setup, schema, alters, runs, now, job, ledger, repo>>

Cleanup ==
    /\ IF store = "ledger"
       THEN ledger' = LedgerCleanup(ledger, now) /\ UNCHANGED repo
       ELSE repo' = RepositoryCleanup(repo, published, now) /\ UNCHANGED ledger
    /\ UNCHANGED <<store, setup, schema, alters, runs, now, job, published>>

HostStep(h) ==
    \/ StartDiscovery(h) \/ ReadObject(h) \/ ReadFails(h) \/ FinishDiscovery(h)
    \/ Decide(h) \/ ActivateSnapshot(h) \/ PublishFromActive(h)

Next == Alter \/ Tick \/ Cleanup \/ \E h \in Hosts : HostStep(h)

Spec == Init /\ [][Next]_vars

------------------------------------------------------------------------------
Streams == {<<Source(h), Tenant(h)>> : h \in Hosts}

TypeOK ==
    /\ store \in {"ledger", "catalog"} /\ setup \in Setups /\ schema \in DOMAIN Sources
    /\ alters \in 0..MaxAlters /\ runs \in 0..MaxRuns /\ now \in 1..MaxTime
    /\ \A h \in Hosts : job[h].stage \in {"idle", "reading", "found", "decided"}
    /\ DOMAIN ledger.records = DOMAIN ledger.snapshots
    /\ \A fp \in DOMAIN ledger.records : ledger.records[fp].state \in {"active", "inactive"}

(* The ledger has at most one active snapshot for each source and tenant,    *)
(* whatever hosts and tenants register and activate in between.             *)
OneActivePerStream ==
    \A st \in Streams : \A x, y \in ActiveIn(ledger, st[1], st[2]) : x = y

(* A snapshot that is not marked as bounded or incomplete holds every table  *)
(* and every column the allowlists admit, unless the schema was changed      *)
(* while it was being read.                                                 *)
CompleteMeansWhole ==
    \A h \in Hosts :
        LET j == job[h]
            u == setup[h]
        IN j.stage = "found" /\ ~j.torn /\ ~Partial(j.snapshot)
           => SchemaOf(j.snapshot) = CompleteSchema(u.backend, u.cfg, u.own, Sources[j.from])

(* What the bundle refers to and before has, after has: the object, when it   *)
(* is referred to, and in an object that stays, the field with its type.     *)
KeepsReferenced(before, after) ==
    LET bo == ById(before.objects)
        ao == ById(after.objects)
    IN \A o \in DOMAIN bo :
          /\ o \in Refs.objects => o \in DOMAIN ao
          /\ o \in DOMAIN ao =>
                \A f \in Refs.fields \cap Ids(bo[o].fields) :
                   /\ f \in Ids(ao[o].fields)
                   /\ ById(ao[o].fields)[f].type = ById(bo[o].fields)[f].type

(* Activating a snapshot under a policy, without an override and against the *)
(* baseline its drift was classified for, never takes away an object or a    *)
(* field the active bundle refers to, and never retypes the field.          *)
ReferencedMembersKept ==
    [][\A h \in Hosts :
          job[h].stage = "decided" /\ job'[h].stage = "idle"
          => \A b \in Active(Source(h), Tenant(h)) : \A a \in Active(Source(h), Tenant(h))' :
                /\ job[h].base = {b}
                /\ setup[h].policy.given
                /\ Refusals(h, {}) = {}
                => KeepsReferenced(b, a)]_vars

ActiveFingerprints(st) == {Fingerprint(s) : s \in Active(st[1], st[2])}

OwnActivation(st) ==
    \E h \in Hosts : /\ <<Source(h), Tenant(h)>> = st
                     /\ job[h].stage = "decided" /\ job'[h].stage = "idle"

(* The ledger forgets the active snapshot when it is registered again, by    *)
(* any tenant, or when cleanup finds it expired.                            *)
LedgerForgets(st) ==
    /\ store = "ledger"
    /\ \/ \E h \in Hosts : job[h].stage = "reading" /\ job'[h].stage = "found"
                           /\ Fingerprint(job'[h].snapshot) \in ActiveFingerprints(st)
       \/ \E fp \in ActiveFingerprints(st) : now > ledger.records[fp].until

(* The active snapshot of a source and tenant changes only when a host of    *)
(* that tenant activates one: no failed discovery, no other tenant, no       *)
(* schema change and no cleanup takes it away.  The process-local ledger     *)
(* has the two exceptions above.                                            *)
ActiveIsStable ==
    [][\A st \in Streams :
          ActiveFingerprints(st)' # ActiveFingerprints(st)
          => OwnActivation(st) \/ LedgerForgets(st)]_vars

OnlyAdds(cmp) ==
    /\ cmp.removedObjects = {} /\ cmp.removedFields = {} /\ cmp.retypedFields = {}
    /\ cmp.removedConstraints = {} /\ cmp.changedConstraints = {}
    /\ cmp.removedRelationships = {} /\ cmp.changedRelationships = {}

(* An addition within the allowlist "is reported as non-blocking             *)
(* information": a snapshot that only gained members does not block.        *)
AdditionsDoNotBlock ==
    \A h \in Hosts : job[h].stage = "decided" =>
        \A b \in job[h].base :
            OnlyAdds(CompareSnapshots(b, job[h].snapshot)) => job[h].decision.severity # "blocking"
==============================================================================
