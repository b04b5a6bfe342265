---------------------------- MODULE MetadataProofs ----------------------------
(***************************************************************************)
(* The ledger and the repository, for any hosts, sources, setups, policies  *)
(* and bounds.                                                              *)
(*                                                                          *)
(* The ledger never has two active snapshots for one source and tenant.     *)
(* The argument is about its records alone (LedgerInv): they have the       *)
(* members activate reads, and two active records of one stream are the     *)
(* same record.  A registration adds an inactive record, activation first   *)
(* makes the others of the stream inactive, and cleanup only removes        *)
(* records.                                                                 *)
(*                                                                          *)
(* An activation takes nothing away that the active bundle refers to.  The  *)
(* argument (HoldsInv): a store keeps a snapshot under its fingerprint, a   *)
(* host that decided holds a valid snapshot and the classification of its   *)
(* drift from the base, and a snapshot is determined, up to what a          *)
(* fingerprint leaves out, by its fingerprint.                              *)
(*                                                                          *)
(* The review of proposals.  As long as no two reviews crossed, every       *)
(* assertion of a draft comes from a proposal that was last approved in the *)
(* form it has there (ReviewInv).                                           *)
(***************************************************************************)
EXTENDS MetadataOperations, ProposalReview, TLAPS

RecordMembers == {"source", "tenant", "state", "until", "activatedAt", "evidence"}

SameStream(a, b) == a.source = b.source /\ a.tenant = b.tenant

GoodRecords(records) ==
    /\ \A x \in DOMAIN records :
          records[x] = [m \in RecordMembers |-> records[x][m]]
    /\ \A x, y \in DOMAIN records :
          /\ records[x].state = "active" /\ records[y].state = "active"
          /\ SameStream(records[x], records[y])
          => x = y

LedgerShape(L) == L = [records |-> L.records, snapshots |-> L.snapshots, outcomes |-> L.outcomes]

LedgerInv == LedgerShape(ledger) /\ GoodRecords(ledger.records)

\* A new record is inactive, so it is in nobody's way.
LEMMA RegisterGood ==
    ASSUME NEW L, LedgerShape(L), GoodRecords(L.records), NEW s, NEW tenant, NEW until
    PROVE  LET M == LedgerRegister(L, s, tenant, until)
           IN  LedgerShape(M) /\ GoodRecords(M.records)
<1> DEFINE fp == Fingerprint(s)
           r == SnapshotLifecycleRecord(s, tenant, "inactive", until)
           M == LedgerRegister(L, s, tenant, until)
           old == L.records
           new == With(old, fp, r)
<1>1. M = [L EXCEPT !.records = new, !.snapshots = With(L.snapshots, fp, s)]
  BY Zenon DEF LedgerRegister
<1> HIDE DEF M
<1>2. LedgerShape(M) /\ M.records = new
  <2> HIDE DEF new, fp
  <2> QED BY <1>1, Zenon DEF LedgerShape
<1>3. r = [m \in RecordMembers |-> r[m]] /\ r.state = "inactive"
  BY Zenon DEF SnapshotLifecycleRecord, RecordMembers
<1> HIDE DEF r, fp
<1>4. /\ DOMAIN new = DOMAIN old \cup {fp}
      /\ \A x \in DOMAIN new : new[x] = IF x = fp THEN r ELSE old[x]
  BY Zenon DEF With
<1>5. GoodRecords(new)
  <2> HIDE DEF new, old
  <2> QED BY <1>3, <1>4, Zenon DEF GoodRecords, SameStream, old
<1> QED
  BY <1>2, <1>5, Zenon DEF M

\* Recording an outcome leaves the snapshots alone.
LEMMA OutcomeGood ==
    ASSUME NEW L, LedgerShape(L), NEW source, NEW tenant, NEW outcome
    PROVE  LET M == LedgerRecordOutcome(L, source, tenant, outcome)
           IN  LedgerShape(M) /\ M.records = L.records
<1> DEFINE new == With(L.outcomes, <<source, tenant>>, outcome)
<1>1. LedgerRecordOutcome(L, source, tenant, outcome) = [L EXCEPT !.outcomes = new]
  BY Zenon DEF LedgerRecordOutcome
<1> HIDE DEF new
<1> QED
  BY <1>1, Zenon DEF LedgerShape

\* Cleanup removes records and changes none.
LEMMA CleanupGood ==
    ASSUME NEW L, LedgerShape(L), GoodRecords(L.records), NEW at
    PROVE  LET M == LedgerCleanup(L, at)
           IN  LedgerShape(M) /\ GoodRecords(M.records)
<1> DEFINE gone == ExpiredEntries(L, at)
           M == LedgerCleanup(L, at)
           new == Without(L.records, gone)
<1>1. M = [L EXCEPT !.records = new, !.snapshots = Without(L.snapshots, gone)]
  BY Zenon DEF LedgerCleanup
<1> HIDE DEF M, gone
<1>2. /\ DOMAIN new = DOMAIN L.records \ gone
      /\ \A x \in DOMAIN new : new[x] = L.records[x]
  BY Zenon DEF Without
<1> HIDE DEF new
<1>3. LedgerShape(M) /\ M.records = new
  BY <1>1, Zenon DEF LedgerShape
<1>4. GoodRecords(new)
  BY <1>2, Zenon DEF GoodRecords, SameStream
<1> QED
  BY <1>3, <1>4, Zenon DEF M

\* Activation makes the others of the stream inactive before it marks its own.
LEMMA ActivateGood ==
    ASSUME NEW L, LedgerShape(L), GoodRecords(L.records), NEW fp \in DOMAIN L.records,
           NEW decision, NEW at
    PROVE  LET M == LedgerActivate(L, fp, decision, at)
           IN  LedgerShape(M) /\ GoodRecords(M.records)
<1> DEFINE old == L.records
           mid == OthersInactive(old, fp)
           own == [mid[fp] EXCEPT !.state = "active", !.activatedAt = at, !.evidence = decision]
           new == [mid EXCEPT ![fp] = own]
           M == LedgerActivate(L, fp, decision, at)
           other(x) == /\ x # fp /\ old[x].state = "active" /\ SameStream(old[x], old[fp])
<1>1. M = [L EXCEPT !.records = new]
  BY Zenon DEF LedgerActivate
<1> HIDE DEF M
<1>2. LedgerShape(M) /\ M.records = new
  <2> HIDE DEF new
  <2> QED BY <1>1, Zenon DEF LedgerShape
<1>3. /\ DOMAIN mid = DOMAIN old
      /\ \A x \in DOMAIN old :
            mid[x] = IF other(x) THEN [old[x] EXCEPT !.state = "inactive"] ELSE old[x]
  BY Zenon DEF OthersInactive, SameStream
<1>4. mid[fp] = old[fp]
  BY <1>3, Zenon
<1> HIDE DEF mid
<1>5. /\ DOMAIN new = DOMAIN old
      /\ new[fp] = own
      /\ \A x \in DOMAIN old : x # fp => new[x] = mid[x]
  BY <1>3, Zenon
<1>6. /\ own = [m \in RecordMembers |-> own[m]] /\ own.state = "active"
      /\ SameStream(own, old[fp])
  <2>1. old[fp] = [m \in RecordMembers |-> old[fp][m]]
    BY Zenon DEF GoodRecords
  <2> QED
    BY <1>4, <2>1, Zenon DEF RecordMembers, SameStream
<1>7. ASSUME NEW x \in DOMAIN old, x # fp
      PROVE  /\ new[x] = [m \in RecordMembers |-> new[x][m]]
             /\ SameStream(new[x], old[x])
             /\ new[x].state = "active" => old[x].state = "active" /\ ~SameStream(old[x], old[fp])
  <2>1. old[x] = [m \in RecordMembers |-> old[x][m]]
    BY Zenon DEF GoodRecords
  <2>2. CASE other(x)
    <3>1. new[x] = [old[x] EXCEPT !.state = "inactive"]
      BY <1>3, <1>5, <1>7, <2>2, Zenon
    <3>2. ~(new[x].state = "active") /\ SameStream(new[x], old[x])
      <4> HIDE DEF new, own, old
      <4> QED BY <2>1, <3>1, Zenon DEF RecordMembers, SameStream
    <3>3. new[x] = [m \in RecordMembers |-> new[x][m]]
      <4> HIDE DEF new, own, old
      <4> QED BY <2>1, <3>1, Zenon DEF RecordMembers
    <3> QED
      BY <3>2, <3>3, Zenon
  <2>3. CASE ~other(x)
    BY <1>3, <1>5, <1>7, <2>1, <2>3, Zenon DEF SameStream
  <2> QED
    BY <2>2, <2>3, Zenon
<1>8. GoodRecords(new)
  <2> HIDE DEF new, own, old
  <2>1. \A x \in DOMAIN new : new[x] = [m \in RecordMembers |-> new[x][m]]
    BY <1>5, <1>6, <1>7, Zenon
  <2>2. ASSUME NEW x \in DOMAIN new, NEW y \in DOMAIN new, x # y,
               new[x].state = "active", new[y].state = "active", SameStream(new[x], new[y])
        PROVE  FALSE
    <3>1. CASE x = fp
      BY <1>5, <1>6, <1>7, <2>2, <3>1, Zenon DEF SameStream
    <3>2. CASE y = fp
      BY <1>5, <1>6, <1>7, <2>2, <3>2, Zenon DEF SameStream
    <3>3. CASE x # fp /\ y # fp
      BY <1>5, <1>7, <2>2, <3>3, Zenon DEF SameStream, GoodRecords, old
    <3> QED
      BY <3>1, <3>2, <3>3, Zenon
  <2> QED
    BY <2>1, <2>2, Zenon DEF GoodRecords
<1> QED
  BY <1>2, <1>8, Zenon DEF M

\* The ledgers start empty.
LEMMA LedgerInitInv == Init => LedgerInv
<1>1. SUFFICES ASSUME Init PROVE LedgerInv
  BY Zenon
<1>2. ledger = [records |-> <<>>, snapshots |-> <<>>, outcomes |-> <<>>]
  BY <1>1, Zenon DEF Init, LedgerInit
<1>3. ledger.records = <<>> /\ LedgerShape(ledger)
  BY <1>2, Zenon DEF LedgerShape
<1>4. DOMAIN ledger.records = {}
  BY <1>3
<1> QED
  BY <1>3, <1>4, Zenon DEF LedgerInv, GoodRecords

\* A discovery that fails records an outcome only.
LEMMA FailInv ==
    ASSUME LedgerInv, NEW h, NEW category, Fail(h, category)
    PROVE  LedgerInv'
BY OutcomeGood DEF LedgerInv, Fail

\* A discovery that finishes registers its snapshot as a candidate.
LEMMA FinishInv ==
    ASSUME LedgerInv, NEW h \in Hosts, FinishDiscovery(h)
    PROVE  LedgerInv'
<1> DEFINE s == BuildSnapshot(setup[h].source, job[h].reads, job[h].cut, now)
           M == LedgerRegister(ledger, s, setup[h].tenant, now + Retention)
<1>1. CASE \E category : Fail(h, category)
  BY <1>1, FailInv, Zenon
<1>2. CASE Escape(h)
  BY <1>2, Zenon DEF Escape, LedgerInv
<1>3. CASE \E outcome :
             ledger' = LedgerRecordOutcome(IF store = "ledger" THEN M ELSE ledger,
                                           setup[h].authorized, setup[h].tenant, outcome)
  <2>1. LedgerShape(M) /\ GoodRecords(M.records)
    BY RegisterGood, Zenon DEF LedgerInv
  <2> HIDE DEF M
  <2> QED
    BY <1>3, <2>1, OutcomeGood DEF LedgerInv
<1> QED
  BY <1>1, <1>2, <1>3, Zenon DEF FinishDiscovery

\* An activation supersedes the active snapshot of the stream in the same step.
LEMMA ActivateInv ==
    ASSUME LedgerInv, NEW h \in Hosts, ActivateSnapshot(h)
    PROVE  LedgerInv'
<1> DEFINE fp == Fingerprint(job[h].snapshot)
<1>1. CASE UNCHANGED ledger
  BY <1>1, Zenon DEF LedgerInv
<1>2. ASSUME NEW overrides, Refusals(h, overrides) = {}, store = "ledger",
             ledger' = LedgerActivate(ledger, fp, job[h].decision, now)
      PROVE  LedgerInv'
  <2>1. fp \in DOMAIN ledger.records
    <3>1. Refusals(h, overrides) =
            LedgerRefusals(ledger, fp, setup[h].tenant, setup[h].policy, job[h].decision,
                           overrides, now)
      BY <1>2, Zenon DEF Refusals
    <3> HIDE DEF fp
    <3> QED
      BY <1>2, <3>1, Zenon DEF LedgerRefusals
  <2> QED
    BY <1>2, <2>1, ActivateGood, Zenon DEF LedgerInv
<1> QED
  BY <1>1, <1>2, Zenon DEF ActivateSnapshot

\* Every step keeps the ledgers in order.
LEMMA LedgerStep ==
    ASSUME LedgerInv, [Next]_vars
    PROVE  LedgerInv'
<1>1. CASE \E h \in Hosts : StartDiscovery(h)
  <2>1. PICK h \in Hosts : StartDiscovery(h)
    BY <1>1, Zenon
  <2>2. CASE \E category : Fail(h, category)
    BY <2>2, FailInv, Zenon
  <2>3. CASE UNCHANGED ledger
    BY <2>3, Zenon DEF LedgerInv
  <2> QED
    BY <2>1, <2>2, <2>3, Zenon DEF StartDiscovery
<1>2. CASE \E h \in Hosts : ReadFails(h)
  BY <1>2, FailInv, Zenon DEF ReadFails
<1>3. CASE \E h \in Hosts : FinishDiscovery(h)
  BY <1>3, FinishInv, Zenon
<1>4. CASE \E h \in Hosts : ActivateSnapshot(h)
  BY <1>4, ActivateInv, Zenon
<1>5. CASE Cleanup
  BY <1>5, CleanupGood, Zenon DEF Cleanup, LedgerInv
<1>6. CASE UNCHANGED ledger
  BY <1>6, Zenon DEF LedgerInv
<1>7. ASSUME NEW h \in Hosts, ReadObject(h) \/ Decide(h) \/ PublishFromActive(h)
      PROVE  UNCHANGED ledger
  BY <1>7, Zenon DEF ReadObject, Decide, PublishFromActive
<1>8. Alter \/ Tick \/ UNCHANGED vars => UNCHANGED ledger
  BY Zenon DEF Alter, Tick, vars
<1> QED
  BY <1>1, <1>2, <1>3, <1>4, <1>5, <1>6, <1>7, <1>8, Zenon DEF Next, HostStep

\* The invariant implies the property.
LEMMA LedgerInvSuffices == LedgerInv => OneActivePerStream
  BY Zenon DEF OneActivePerStream, LedgerInv, GoodRecords, SameStream, ActiveIn, IsActive

\* SnapshotLedger.active() has at most one snapshot to return for a source and a
\* tenant, however many hosts and tenants register, activate and clean up.
THEOREM LedgerOneActive == Spec => []OneActivePerStream
<1>1. Init => LedgerInv
  BY LedgerInitInv, Zenon
<1>2. LedgerInv /\ [Next]_vars => LedgerInv'
  BY LedgerStep, Zenon
<1>3. LedgerInv => OneActivePerStream
  BY LedgerInvSuffices, Zenon
<1> QED
  BY <1>1, <1>2, <1>3, PTL DEF Spec

-----------------------------------------------------------------------------
(* What an activation may take away *)

\* The ids of a valid sequence lead back to its members.
LEMMA ByIdFinds ==
    ASSUME NEW seq, UniqueIds(seq), NEW i \in DOMAIN seq
    PROVE  DOMAIN ById(seq) = Ids(seq) /\ seq[i].id \in Ids(seq) /\ ById(seq)[seq[i].id] = seq[i]
<1>1. seq[i] \in Members(seq) /\ seq[i].id \in Ids(seq)
  BY Zenon DEF Members, Ids
<1>2. \A x \in Members(seq) : x.id = seq[i].id => x = seq[i]
  BY Zenon DEF Members, UniqueIds
<1>3. (CHOOSE x \in Members(seq) : x.id = seq[i].id) = seq[i]
  BY <1>1, <1>2, Zenon
<1> QED  BY <1>1, <1>3, Zenon DEF ById

\* Sequences with the same members have the same member under each id.
LEMMA SameMembers ==
    ASSUME NEW s, NEW t, UniqueIds(s), UniqueIds(t), Members(s) = Members(t)
    PROVE  Ids(s) = Ids(t) /\ \A id \in Ids(s) : ById(s)[id] = ById(t)[id]
<1>1. \A i \in DOMAIN s : \E j \in DOMAIN t : s[i] = t[j]
  BY Zenon DEF Members
<1>2. \A j \in DOMAIN t : \E i \in DOMAIN s : s[i] = t[j]
  BY Zenon DEF Members
<1>3. Ids(s) = Ids(t)
  BY <1>1, <1>2 DEF Ids
<1>4. ASSUME NEW id \in Ids(s)
      PROVE  ById(s)[id] = ById(t)[id]
  <2>1. PICK i \in DOMAIN s : s[i].id = id
    BY <1>4, Zenon DEF Ids
  <2>2. PICK j \in DOMAIN t : s[i] = t[j]
    BY <1>1, Zenon
  <2> QED  BY <2>1, <2>2, ByIdFinds, Zenon
<1> QED  BY <1>3, <1>4, Zenon

\* A drift that does not block keeps what the bundle refers to.
LEMMA NotBlocking ==
    ASSUME NEW b, NEW s, NEW maxAge, NEW at,
           ClassifyDrift(b, s, Refs, maxAge, at).severity # "blocking"
    PROVE  KeepsReferenced(b, s)
<1> DEFINE cmp == CompareSnapshots(b, s)
           blocking == BlockingReasons(b, s, cmp, Refs, maxAge, at)
           bo == ById(b.objects)
           ao == ById(s.objects)
           both == DOMAIN bo \cap DOMAIN ao
           bf == [o \in both |-> ById(bo[o].fields)]
           af == [o \in both |-> ById(ao[o].fields)]
<1>1. blocking = {}
  <2> HIDE DEF blocking, cmp
  <2> QED  BY Zenon DEF ClassifyDrift, DriftDecision, blocking, cmp
<1>2. /\ cmp.removedObjects \cap Refs.objects = {}
      /\ \A c \in cmp.removedFields : c.fields \cap Refs.fields = {}
      /\ \A c \in cmp.retypedFields : c.field \notin Refs.fields
  <2> HIDE DEF cmp
  <2>1. cmp.removedObjects \cap Refs.objects = {}
    BY <1>1 DEF BlockingReasons
  <2>2. \A c \in cmp.removedFields : c.fields \cap Refs.fields = {}
    BY <1>1 DEF BlockingReasons
  <2>3. \A c \in cmp.retypedFields : c.field \notin Refs.fields
    BY <1>1 DEF BlockingReasons
  <2> QED  BY <2>1, <2>2, <2>3, Zenon
<1>3. /\ cmp.removedObjects = DOMAIN bo \ DOMAIN ao
      /\ cmp.removedFields = {ObjectChange(o, DOMAIN bf[o] \ DOMAIN af[o]) :
            o \in {o \in both : ~ (DOMAIN bf[o] \subseteq DOMAIN af[o])}}
      /\ cmp.retypedFields = UNION {RetypedFields(o, bf[o], af[o]) : o \in both}
  BY Zenon DEF CompareSnapshots
<1> HIDE DEF cmp
<1>4. ASSUME NEW o \in both, NEW f \in Refs.fields \cap DOMAIN bf[o]
      PROVE  f \in DOMAIN af[o] /\ af[o][f].type = bf[o][f].type
  <2>1. f \in DOMAIN af[o]
    <3>1. SUFFICES ASSUME f \notin DOMAIN af[o] PROVE FALSE
      BY Zenon
    <3> DEFINE lost == DOMAIN bf[o] \ DOMAIN af[o]
    <3>2. ObjectChange(o, lost) \in cmp.removedFields
      BY <1>3, <1>4, <3>1, Zenon
    <3>3. ObjectChange(o, lost).fields = lost
      BY Zenon DEF ObjectChange
    <3> QED  BY <1>2, <1>4, <3>1, <3>2, <3>3, Zenon
  <2>2. ASSUME bf[o][f].type # af[o][f].type
        PROVE  FALSE
    <3> DEFINE c == FieldTypeChange(o, f, bf[o][f].type, af[o][f].type)
    <3>1. c \in RetypedFields(o, bf[o], af[o])
      BY <1>4, <2>1, <2>2, Zenon DEF RetypedFields
    <3>2. c \in cmp.retypedFields
      BY <1>3, <3>1, Zenon
    <3>3. c.field = f
      BY Zenon DEF FieldTypeChange
    <3> QED  BY <1>2, <3>2, <3>3, Zenon
  <2> QED  BY <2>1, <2>2, Zenon
<1>5. \A o \in both : bf[o] = ById(bo[o].fields) /\ af[o] = ById(ao[o].fields)
  BY Zenon
<1>6. \A seq : DOMAIN ById(seq) = Ids(seq)
  BY Zenon DEF ById
<1> HIDE DEF bf, af
<1>7. ASSUME NEW o \in DOMAIN bo, o \in DOMAIN ao, NEW f \in Refs.fields \cap Ids(bo[o].fields)
      PROVE  f \in Ids(ao[o].fields) /\ ById(ao[o].fields)[f].type = ById(bo[o].fields)[f].type
  BY <1>4, <1>5, <1>6, <1>7
<1>8. \A o \in DOMAIN bo : o \in Refs.objects => o \in DOMAIN ao
  BY <1>2, <1>3, Zenon
<1> QED  BY <1>7, <1>8, Zenon DEF KeepsReferenced

\* The fingerprint determines what KeepsReferenced reads.
LEMMA SameFingerprint ==
    ASSUME NEW b, NEW s, NEW a, ValidSnapshot(s), ValidSnapshot(a),
           Fingerprint(a) = Fingerprint(s), KeepsReferenced(b, s)
    PROVE  KeepsReferenced(b, a)
<1> DEFINE bo == ById(b.objects)
           so == ById(s.objects)
           ao == ById(a.objects)
<1>1. {ObjectPayload(a.objects[i]) : i \in DOMAIN a.objects}
      = {ObjectPayload(s.objects[i]) : i \in DOMAIN s.objects}
  BY Zenon DEF Fingerprint
<1>2. UniqueIds(a.objects) /\ UniqueIds(s.objects)
  BY Zenon DEF ValidSnapshot
<1>3. \A i \in DOMAIN a.objects : \E j \in DOMAIN s.objects :
         ObjectPayload(a.objects[i]) = ObjectPayload(s.objects[j])
  BY <1>1, Zenon
<1>4. \A j \in DOMAIN s.objects : \E i \in DOMAIN a.objects :
         ObjectPayload(a.objects[i]) = ObjectPayload(s.objects[j])
  BY <1>1, Zenon
<1>5. \A x, y : ObjectPayload(x) = ObjectPayload(y)
                => x.id = y.id /\ Members(x.fields) = Members(y.fields)
  BY Zenon DEF ObjectPayload
<1>6. DOMAIN ao = Ids(a.objects) /\ DOMAIN so = Ids(s.objects)
  BY Zenon DEF ById
<1>7. Ids(a.objects) = Ids(s.objects)
  <2>1. Ids(a.objects) \subseteq Ids(s.objects)
    BY <1>3, <1>5 DEF Ids
  <2>2. Ids(s.objects) \subseteq Ids(a.objects)
    BY <1>4, <1>5 DEF Ids
  <2> QED  BY <2>1, <2>2, Zenon
<1>8. ASSUME NEW o \in Ids(a.objects)
      PROVE  /\ Ids(ao[o].fields) = Ids(so[o].fields)
             /\ \A f \in Ids(ao[o].fields) : ById(ao[o].fields)[f] = ById(so[o].fields)[f]
  <2>1. PICK i \in DOMAIN a.objects : a.objects[i].id = o
    BY <1>8, Zenon DEF Ids
  <2>2. PICK j \in DOMAIN s.objects : ObjectPayload(a.objects[i]) = ObjectPayload(s.objects[j])
    BY <1>3, Zenon
  <2>3. s.objects[j].id = o /\ Members(a.objects[i].fields) = Members(s.objects[j].fields)
    BY <1>5, <2>1, <2>2, Zenon
  <2>4. ao[o] = a.objects[i] /\ so[o] = s.objects[j]
    BY <1>2, <2>1, <2>3, ByIdFinds, Zenon
  <2>5. UniqueIds(a.objects[i].fields) /\ UniqueIds(s.objects[j].fields)
    BY Zenon DEF ValidSnapshot, ValidObject
  <2> HIDE DEF ao, so
  <2> QED  BY <2>3, <2>4, <2>5, SameMembers
<1> HIDE DEF bo, so, ao
<1>9. \A o \in DOMAIN bo :
         /\ o \in Refs.objects => o \in DOMAIN so
         /\ o \in DOMAIN so =>
              \A f \in Refs.fields \cap Ids(bo[o].fields) :
                 /\ f \in Ids(so[o].fields)
                 /\ ById(so[o].fields)[f].type = ById(bo[o].fields)[f].type
  BY Zenon DEF KeepsReferenced, bo, so
<1>10. \A o \in DOMAIN bo :
         /\ o \in Refs.objects => o \in DOMAIN ao
         /\ o \in DOMAIN ao =>
              \A f \in Refs.fields \cap Ids(bo[o].fields) :
                 /\ f \in Ids(ao[o].fields)
                 /\ ById(ao[o].fields)[f].type = ById(bo[o].fields)[f].type
  BY <1>6, <1>7, <1>8, <1>9, Zenon
<1> QED  BY <1>10, Zenon DEF KeepsReferenced, bo, ao

-----------------------------------------------------------------------------
(* What the stores and the hosts hold *)

\* A stored snapshot is valid and has the fingerprint it is stored under.
KeptAs(s, fp) == ValidSnapshot(s) /\ Fingerprint(s) = fp

LedgerHolds(L) ==
    /\ LedgerShape(L)
    /\ DOMAIN L.snapshots = DOMAIN L.records
    /\ \A fp \in DOMAIN L.snapshots : KeptAs(L.snapshots[fp], fp)

IsRow(r) == r = [snapshot |-> r.snapshot, state |-> r.state, until |-> r.until]

RepositoryHolds(R) ==
    /\ R = [rows |-> R.rows, pointers |-> R.pointers, proposals |-> R.proposals]
    /\ \A key \in DOMAIN R.rows : IsRow(R.rows[key]) /\ KeptAs(R.rows[key].snapshot, key[2])

\* A host holds a valid snapshot, and the decision it has reached on its base.
HostHolds(j, u) ==
    /\ j.stage = "reading" => j = Reading(j.todo, j.reads, j.cut, j.from, j.torn)
    /\ j.stage \in {"found", "decided"} => ValidSnapshot(j.snapshot)
    /\ j.stage = "decided" =>
          \A b : j.base = {b} =>
             \E at : j.decision = ClassifyDrift(b, j.snapshot, Refs, u.policy.maxAge, at)

HoldsInv ==
    /\ LedgerHolds(ledger) /\ RepositoryHolds(repo)
    /\ job = [h \in Hosts |-> job[h]]
    /\ \A h \in Hosts : HostHolds(job[h], setup[h])

\* Registering stores the snapshot under its fingerprint.
LEMMA RegisterHolds ==
    ASSUME NEW s, ValidSnapshot(s), NEW tenant, NEW until
    PROVE  /\ \A L : LedgerHolds(L) => LedgerHolds(LedgerRegister(L, s, tenant, until))
           /\ \A R : RepositoryHolds(R) => RepositoryHolds(RepositoryRegister(R, s, tenant, until))
<1> DEFINE fp == Fingerprint(s)
<1>1. KeptAs(s, fp)
  BY Zenon DEF KeptAs
<1>2. ASSUME NEW L, LedgerHolds(L)
      PROVE  LedgerHolds(LedgerRegister(L, s, tenant, until))
  <2> DEFINE records == With(L.records, fp, SnapshotLifecycleRecord(s, tenant, "inactive", until))
             snapshots == With(L.snapshots, fp, s)
             M == LedgerRegister(L, s, tenant, until)
  <2>1. M = [L EXCEPT !.records = records, !.snapshots = snapshots]
    BY Zenon DEF LedgerRegister
  <2>2. /\ DOMAIN records = DOMAIN L.records \cup {fp}
        /\ DOMAIN snapshots = DOMAIN L.snapshots \cup {fp}
        /\ \A x \in DOMAIN snapshots : snapshots[x] = IF x = fp THEN s ELSE L.snapshots[x]
    BY Zenon DEF With
  <2> HIDE DEF records, snapshots, M, fp
  <2>3. LedgerShape(M) /\ M.records = records /\ M.snapshots = snapshots
    BY <1>2, <2>1, Zenon DEF LedgerHolds, LedgerShape
  <2> QED  BY <1>1, <1>2, <2>2, <2>3, Zenon DEF LedgerHolds, M
<1>3. ASSUME NEW R, RepositoryHolds(R)
      PROVE  RepositoryHolds(RepositoryRegister(R, s, tenant, until))
  <2> DEFINE key == <<tenant, fp>>
             M == RepositoryRegister(R, s, tenant, until)
  <2>1. PICK row, rows : /\ row.snapshot = s /\ IsRow(row) /\ rows = With(R.rows, key, row)
                         /\ M = [R EXCEPT !.rows = rows]
    BY DEF RepositoryRegister, IsRow
  <2>2. /\ DOMAIN rows = DOMAIN R.rows \cup {key}
        /\ \A k \in DOMAIN rows : rows[k] = IF k = key THEN row ELSE R.rows[k]
    BY <2>1, Zenon DEF With
  <2>3. key[2] = fp
    BY Zenon
  <2> HIDE DEF M, fp, key
  <2>4. /\ M = [rows |-> M.rows, pointers |-> M.pointers, proposals |-> M.proposals]
        /\ M.rows = rows
    BY <1>3, <2>1, Zenon DEF RepositoryHolds
  <2> QED  BY <1>1, <1>3, <2>1, <2>2, <2>3, <2>4 DEF RepositoryHolds, M
<1> QED  BY <1>2, <1>3, Zenon

\* Outcomes and activation change no snapshot, cleanup only removes some.
LEMMA LedgerKeepsHolding ==
    ASSUME NEW L, LedgerHolds(L)
    PROVE  /\ \A source, tenant, outcome : LedgerHolds(LedgerRecordOutcome(L, source, tenant, outcome))
           /\ \A fp, decision, at : LedgerHolds(LedgerActivate(L, fp, decision, at))
           /\ \A at : LedgerHolds(LedgerCleanup(L, at))
<1>1. ASSUME NEW M, NEW outcomes, M = [L EXCEPT !.outcomes = outcomes]
      PROVE  LedgerHolds(M)
  <2>1. LedgerShape(M) /\ M.records = L.records /\ M.snapshots = L.snapshots
    BY <1>1, Zenon DEF LedgerHolds, LedgerShape
  <2> QED  BY <2>1, Zenon DEF LedgerHolds
<1>2. ASSUME NEW M, NEW records, M = [L EXCEPT !.records = records],
             DOMAIN records = DOMAIN L.records
      PROVE  LedgerHolds(M)
  <2>1. LedgerShape(M) /\ M.records = records /\ M.snapshots = L.snapshots
    BY <1>2, Zenon DEF LedgerHolds, LedgerShape
  <2> QED  BY <1>2, <2>1, Zenon DEF LedgerHolds
<1>3. ASSUME NEW fp, NEW decision, NEW at
      PROVE  LedgerHolds(LedgerActivate(L, fp, decision, at))
  <2> DEFINE mid == OthersInactive(L.records, fp)
             new == [mid EXCEPT ![fp] = [mid[fp] EXCEPT !.state = "active", !.activatedAt = at,
                                                        !.evidence = decision]]
  <2>1. DOMAIN new = DOMAIN L.records
    BY Zenon DEF OthersInactive
  <2>2. LedgerActivate(L, fp, decision, at) = [L EXCEPT !.records = new]
    BY Zenon DEF LedgerActivate
  <2> HIDE DEF new
  <2> QED  BY <1>2, <2>1, <2>2, Zenon
<1>4. ASSUME NEW at
      PROVE  LedgerHolds(LedgerCleanup(L, at))
  <2> DEFINE gone == ExpiredEntries(L, at)
             records == Without(L.records, gone)
             snapshots == Without(L.snapshots, gone)
             M == LedgerCleanup(L, at)
  <2>1. M = [L EXCEPT !.records = records, !.snapshots = snapshots]
    BY Zenon DEF LedgerCleanup
  <2> HIDE DEF gone
  <2>2. /\ DOMAIN records = DOMAIN L.records \ gone /\ DOMAIN snapshots = DOMAIN L.snapshots \ gone
        /\ \A x \in DOMAIN snapshots : snapshots[x] = L.snapshots[x]
    BY Zenon DEF Without
  <2> HIDE DEF records, snapshots, M
  <2>3. LedgerShape(M) /\ M.records = records /\ M.snapshots = snapshots
    BY <2>1, Zenon DEF LedgerHolds, LedgerShape
  <2> QED  BY <2>2, <2>3, Zenon DEF LedgerHolds, M
<1> QED  BY <1>1, <1>3, <1>4, Zenon DEF LedgerRecordOutcome

\* The same for the durable repository.
LEMMA RepositoryKeepsHolding ==
    ASSUME NEW R, RepositoryHolds(R)
    PROVE  /\ \A fp, tenant : RepositoryHolds(RepositoryActivate(R, fp, tenant))
           /\ \A named, at : RepositoryHolds(RepositoryCleanup(R, named, at))
<1>1. ASSUME NEW fp, NEW tenant
      PROVE  RepositoryHolds(RepositoryActivate(R, fp, tenant))
  <2> DEFINE key == <<tenant, fp>>
             M == RepositoryActivate(R, fp, tenant)
             pointers == With(R.pointers, <<tenant, R.rows[key].snapshot.source.id>>, fp)
             rows == [R.rows EXCEPT ![key].state = "active"]
  <2>1. M = [R EXCEPT !.pointers = pointers, !.rows = rows]
    BY Zenon DEF RepositoryActivate
  <2>2. /\ DOMAIN rows = DOMAIN R.rows
        /\ \A k \in DOMAIN rows : rows[k] = IF k = key THEN [R.rows[k] EXCEPT !.state = "active"]
                                            ELSE R.rows[k]
    BY Zenon
  <2>3. ASSUME NEW r, IsRow(r), NEW q, q = [r EXCEPT !.state = "active"]
        PROVE  IsRow(q) /\ q.snapshot = r.snapshot
    BY <2>3, Zenon DEF IsRow
  <2> HIDE DEF M, pointers, rows, key
  <2>4. /\ M = [rows |-> M.rows, pointers |-> M.pointers, proposals |-> M.proposals]
        /\ M.rows = rows
    BY <2>1, Zenon DEF RepositoryHolds
  <2>5. \A k \in DOMAIN rows : IsRow(rows[k]) /\ rows[k].snapshot = R.rows[k].snapshot
    BY <2>2, <2>3, Zenon DEF RepositoryHolds
  <2> QED  BY <2>2, <2>4, <2>5, Zenon DEF RepositoryHolds, M
<1>2. ASSUME NEW named, NEW at
      PROVE  RepositoryHolds(RepositoryCleanup(R, named, at))
  <2> DEFINE gone == ExpiredRows(R, named, at)
             rows == Without(R.rows, gone)
             proposals == Without(R.proposals, gone)
             M == RepositoryCleanup(R, named, at)
  <2>1. M = [R EXCEPT !.rows = rows, !.proposals = proposals]
    BY Zenon DEF RepositoryCleanup
  <2>2. DOMAIN rows \subseteq DOMAIN R.rows /\ \A k \in DOMAIN rows : rows[k] = R.rows[k]
    BY Zenon DEF Without
  <2> HIDE DEF M, rows, proposals
  <2>3. /\ M = [rows |-> M.rows, pointers |-> M.pointers, proposals |-> M.proposals]
        /\ M.rows = rows
    BY <2>1, Zenon DEF RepositoryHolds
  <2> QED  BY <2>2, <2>3, Zenon DEF RepositoryHolds, M
<1> QED  BY <1>1, <1>2, Zenon

\* Nothing is stored and nothing is in progress at the start.
LEMMA HoldsStarts == Init => HoldsInv
<1> SUFFICES ASSUME Init PROVE HoldsInv
  BY Zenon
<1>1. /\ ledger = [records |-> <<>>, snapshots |-> <<>>, outcomes |-> <<>>]
      /\ repo = [rows |-> <<>>, pointers |-> <<>>, proposals |-> <<>>]
      /\ job = [h \in Hosts |-> Idle]
  BY Zenon DEF Init, LedgerInit, RepositoryInit
<1>2. LedgerHolds(ledger) /\ RepositoryHolds(repo)
  BY <1>1 DEF LedgerHolds, RepositoryHolds, LedgerShape
<1>3. \A h \in Hosts : HostHolds(job[h], setup[h])
  BY <1>1, Zenon DEF HostHolds, Idle
<1> QED  BY <1>1, <1>2, <1>3, Zenon DEF HoldsInv

\* A host that becomes idle, or changes to something it may hold, disturbs no other.
LEMMA OneHostMoves ==
    ASSUME HoldsInv, NEW h \in Hosts, NEW j, HostHolds(j, setup[h]),
           job' = [job EXCEPT ![h] = j], setup' = setup
    PROVE  /\ (job = [g \in Hosts |-> job[g]])'
           /\ \A g \in Hosts : HostHolds(job'[g], setup'[g])
<1>1. DOMAIN job = Hosts /\ job' = [g \in Hosts |-> IF g = h THEN j ELSE job[g]]
  BY Zenon DEF HoldsInv
<1>2. \A g \in Hosts : job'[g] = IF g = h THEN j ELSE job[g]
  BY <1>1, Zenon
<1>3. \A g \in Hosts : HostHolds(job[g], setup[g])
  BY Zenon DEF HoldsInv
<1> QED  BY <1>1, <1>2, <1>3, Zenon

\* A host that is idle holds nothing.
LEMMA IdleHolds == \A u : HostHolds(Idle, u)
BY Zenon DEF HostHolds, Idle

\* A failed discovery leaves the host idle and the snapshots alone.
LEMMA FailHolds ==
    ASSUME HoldsInv, NEW h \in Hosts, NEW category, Fail(h, category) \/ Escape(h)
    PROVE  HoldsInv'
<1>1. job' = [job EXCEPT ![h] = Idle] /\ setup' = setup /\ repo' = repo
  BY Zenon DEF Fail, Escape
<1>2. LedgerHolds(ledger')
  BY LedgerKeepsHolding DEF Fail, Escape, HoldsInv
<1> QED  BY <1>1, <1>2, OneHostMoves, IdleHolds, Zenon DEF HoldsInv

\* A finished discovery registers the snapshot the host then holds.
LEMMA FinishHolds ==
    ASSUME HoldsInv, NEW h \in Hosts, FinishDiscovery(h)
    PROVE  HoldsInv'
<1> DEFINE s == BuildSnapshot(setup[h].source, job[h].reads, job[h].cut, now)
           L == LedgerRegister(ledger, s, setup[h].tenant, now + Retention)
           R == RepositoryRegister(repo, s, setup[h].tenant, now + Retention)
<1>1. CASE \E category : Fail(h, category) \/ Escape(h)
  BY <1>1, FailHolds, Zenon
<1>2. ASSUME NEW outcome, WellFormed(s), job' = [job EXCEPT ![h] = Found(s, job[h].from, job[h].torn)],
             ledger' = LedgerRecordOutcome(IF store = "ledger" THEN L ELSE ledger,
                                           setup[h].authorized, setup[h].tenant, outcome),
             repo' = IF store = "catalog" THEN R ELSE repo,
             setup' = setup
      PROVE  HoldsInv'
  <2>1. ValidSnapshot(s)
    BY <1>2, Zenon DEF WellFormed
  <2> HIDE DEF s
  <2>2. LedgerHolds(L) /\ RepositoryHolds(R)
    BY <2>1, RegisterHolds, Zenon DEF HoldsInv
  <2> HIDE DEF L, R
  <2>3. LedgerHolds(ledger') /\ RepositoryHolds(repo')
    BY <1>2, <2>2, LedgerKeepsHolding, Zenon DEF HoldsInv
  <2>4. HostHolds(Found(s, job[h].from, job[h].torn), setup[h])
    BY <2>1, Zenon DEF HostHolds, Found
  <2> QED  BY <1>2, <2>3, <2>4, OneHostMoves, Zenon DEF HoldsInv
<1> QED  BY <1>1, <1>2, Zenon DEF FinishDiscovery

\* A decision is the classification of the drift from its base.
LEMMA DecideHolds ==
    ASSUME HoldsInv, NEW h \in Hosts, Decide(h)
    PROVE  HoldsInv'
<1> DEFINE s == job[h].snapshot
           base == Active(setup[h].source, setup[h].tenant)
           maxAge == setup[h].policy.maxAge
<1>1. /\ job[h].stage = "found" /\ setup' = setup /\ ledger' = ledger /\ repo' = repo
      /\ \/ base = {} /\ job' = [job EXCEPT ![h] = Decided(s, base, NoDecision)]
         \/ \E b \in base :
              job' = [job EXCEPT ![h] = Decided(s, base, ClassifyDrift(b, s, Refs, maxAge, now))]
  BY Zenon DEF Decide
<1>2. ValidSnapshot(s)
  BY <1>1, Zenon DEF HoldsInv, HostHolds
<1> HIDE DEF s, base, maxAge
<1>3. PICK decision : /\ job' = [job EXCEPT ![h] = Decided(s, base, decision)]
                      /\ \A b : base = {b} => decision = ClassifyDrift(b, s, Refs, maxAge, now)
  BY <1>1, Zenon
<1>4. HostHolds(Decided(s, base, decision), setup[h])
  BY <1>2, <1>3, Zenon DEF HostHolds, Decided, maxAge
<1>5. /\ (job = [g \in Hosts |-> job[g]])'
      /\ \A g \in Hosts : HostHolds(job'[g], setup'[g])
  BY <1>1, <1>3, <1>4, OneHostMoves, Zenon
<1> QED  BY <1>1, <1>5, Zenon DEF HoldsInv

\* A reading host goes on reading.
LEMMA ReadingHolds ==
    ASSUME HoldsInv, NEW h \in Hosts, job[h].stage = "reading", NEW j,
           \/ \E todo, reads : j = [job[h] EXCEPT !.todo = todo, !.reads = reads]
           \/ j = [job[h] EXCEPT !.torn = TRUE]
    PROVE  HostHolds(j, setup[h]) /\ j.stage = "reading"
<1>1. job[h] = Reading(job[h].todo, job[h].reads, job[h].cut, job[h].from, job[h].torn)
  BY Zenon DEF HoldsInv, HostHolds
<1>2. /\ j = [stage |-> "reading", todo |-> j.todo, reads |-> j.reads, cut |-> j.cut,
              from |-> j.from, torn |-> j.torn]
      /\ j.stage = "reading"
  BY <1>1, Zenon DEF Reading
<1> QED  BY <1>2, Zenon DEF HostHolds, Reading

\* Every step of the hosts, the source, the clock and cleanup keeps what is held.
LEMMA HoldsStep == HoldsInv /\ [Next]_vars => HoldsInv'
<1> SUFFICES ASSUME HoldsInv, [Next]_vars PROVE HoldsInv'
  BY Zenon
<1>1. CASE UNCHANGED <<setup, job, ledger, repo>>
  BY <1>1, Zenon DEF HoldsInv, HostHolds
<1>2. CASE Alter
  <2>1. /\ ledger' = ledger /\ repo' = repo /\ setup' = setup
        /\ job' = [h \in Hosts |-> IF job[h].stage = "reading" THEN [job[h] EXCEPT !.torn = TRUE]
                                   ELSE job[h]]
    BY <1>2, Zenon DEF Alter
  <2>2. ASSUME NEW h \in Hosts
        PROVE  HostHolds(job'[h], setup[h])
    <3>1. CASE job[h].stage = "reading"
      BY <2>1, <3>1, ReadingHolds, Zenon
    <3>2. CASE job[h].stage # "reading"
      BY <2>1, <3>2, Zenon DEF HoldsInv
    <3> QED  BY <3>1, <3>2, Zenon
  <2>3. (job = [h \in Hosts |-> job[h]])'
    BY <2>1, Zenon
  <2> QED  BY <2>1, <2>2, <2>3, Zenon DEF HoldsInv
<1>3. CASE Cleanup
  <2>1. LedgerHolds(ledger')
    BY <1>3, LedgerKeepsHolding, Zenon DEF Cleanup, HoldsInv
  <2>2. RepositoryHolds(repo')
    BY <1>3, RepositoryKeepsHolding, Zenon DEF Cleanup, HoldsInv
  <2>3. setup' = setup /\ job' = job
    BY <1>3, Zenon DEF Cleanup
  <2> QED  BY <2>1, <2>2, <2>3, Zenon DEF HoldsInv, HostHolds
<1>4. ASSUME NEW h \in Hosts, StartDiscovery(h) \/ ReadFails(h)
      PROVE  HoldsInv'
  <2>1. CASE \E category : Fail(h, category)
    BY <2>1, FailHolds, Zenon
  <2>2. ASSUME NEW todo, NEW cut, NEW from,
               job' = [job EXCEPT ![h] = Reading(todo, <<>>, cut, from, FALSE)],
               UNCHANGED <<setup, ledger, repo>>
        PROVE  HoldsInv'
    <3>1. HostHolds(Reading(todo, <<>>, cut, from, FALSE), setup[h])
      BY Zenon DEF HostHolds, Reading
    <3>2. /\ (job = [g \in Hosts |-> job[g]])'
          /\ \A g \in Hosts : HostHolds(job'[g], setup'[g])
      BY <2>2, <3>1, OneHostMoves, Zenon
    <3> QED  BY <2>2, <3>2, Zenon DEF HoldsInv
  <2> QED  BY <1>4, <2>1, <2>2, Zenon DEF StartDiscovery, ReadFails
<1>5. ASSUME NEW h \in Hosts, ReadObject(h)
      PROVE  HoldsInv'
  <2>1. PICK j, todo, reads :
             /\ j = [job[h] EXCEPT !.todo = todo, !.reads = reads]
             /\ job' = [job EXCEPT ![h] = j] /\ job[h].stage = "reading"
             /\ UNCHANGED <<setup, ledger, repo>>
    BY <1>5, Zenon DEF ReadObject
  <2>2. HostHolds(j, setup[h])
    BY <2>1, ReadingHolds, Zenon
  <2> QED  BY <2>1, <2>2, OneHostMoves, Zenon DEF HoldsInv
<1>6. ASSUME NEW h \in Hosts, ActivateSnapshot(h)
      PROVE  HoldsInv'
  <2>1. job' = [job EXCEPT ![h] = Idle] /\ setup' = setup
    BY <1>6, Zenon DEF ActivateSnapshot
  <2>2. LedgerHolds(ledger') /\ RepositoryHolds(repo')
    BY <1>6, LedgerKeepsHolding, RepositoryKeepsHolding, Zenon DEF ActivateSnapshot, HoldsInv
  <2> QED  BY <2>1, <2>2, OneHostMoves, IdleHolds, Zenon DEF HoldsInv
<1>7. ASSUME NEW h \in Hosts, PublishFromActive(h)
      PROVE  UNCHANGED <<setup, job, ledger, repo>>
  BY <1>7, Zenon DEF PublishFromActive
<1>8. Tick \/ UNCHANGED vars => UNCHANGED <<setup, job, ledger, repo>>
  BY Zenon DEF Tick, vars
<1> QED
  BY <1>1, <1>2, <1>3, <1>4, <1>5, <1>6, <1>7, <1>8, FinishHolds, DecideHolds, Zenon
  DEF Next, HostStep

\* Only its own activation takes a host from a decision to idleness.
LEMMA DecidedHostActs ==
    ASSUME HoldsInv, [Next]_vars, NEW h \in Hosts, job[h].stage = "decided", job'[h].stage = "idle"
    PROVE  ActivateSnapshot(h)
<1>1. DOMAIN job = Hosts /\ job'[h] # job[h]
  BY Zenon DEF HoldsInv
<1>2. ~(Alter \/ Tick \/ Cleanup \/ UNCHANGED vars)
  BY <1>1, Zenon DEF Alter, Tick, Cleanup, vars
<1>3. PICK g \in Hosts : HostStep(g)
  BY <1>2, Zenon DEF Next
<1>4. g = h
  <2>1. ASSUME NEW j, job' = [job EXCEPT ![g] = j] PROVE g = h
    BY <1>1, <2>1, Zenon
  <2>2. \A category : Fail(g, category) \/ Escape(g) => job' = [job EXCEPT ![g] = Idle]
    BY Zenon DEF Fail, Escape
  <2>3. \E j : job' = [job EXCEPT ![g] = j] \/ job' = job
    BY <1>3, <2>2, Zenon DEF HostStep, StartDiscovery, ReadObject, ReadFails, FinishDiscovery,
       Decide, ActivateSnapshot, PublishFromActive
  <2> QED  BY <1>1, <2>1, <2>3, Zenon
<1>5. ~(StartDiscovery(h) \/ ReadObject(h) \/ ReadFails(h) \/ FinishDiscovery(h) \/ Decide(h))
  BY Zenon DEF StartDiscovery, ReadObject, ReadFails, FinishDiscovery, Decide
<1>6. ~PublishFromActive(h)
  BY <1>1, Zenon DEF PublishFromActive
<1> QED  BY <1>3, <1>4, <1>5, <1>6, Zenon DEF HostStep

\* An activation that nothing refused without an override did not find a blocking drift.
LEMMA AcceptedKeeps ==
    ASSUME HoldsInv, NEW h \in Hosts, job[h].stage = "decided", NEW b, job[h].base = {b},
           setup[h].policy.given, Refusals(h, {}) = {}
    PROVE  KeepsReferenced(b, job[h].snapshot) /\ ValidSnapshot(job[h].snapshot)
<1>1. job[h].decision.severity # "blocking"
  <2>1. \E s, tenant, at :
          CheckSnapshotActivation(s, setup[h].policy, job[h].decision, {}, tenant, at) = {}
    BY Zenon DEF Refusals, LedgerRefusals, RepositoryRefusals
  <2>2. \A s, policy, decision, at : ~Overridden(s, policy, decision, {}, at)
    BY Zenon DEF Overridden
  <2> QED  BY <2>1, <2>2, Zenon DEF CheckSnapshotActivation, IssueIf
<1>2. PICK at : job[h].decision = ClassifyDrift(b, job[h].snapshot, Refs, setup[h].policy.maxAge, at)
  BY Zenon DEF HoldsInv, HostHolds
<1>3. ValidSnapshot(job[h].snapshot)
  BY Zenon DEF HoldsInv, HostHolds
<1> QED  BY <1>1, <1>2, <1>3, NotBlocking

\* The ledger's active snapshot after an activation is the host's, or the one before.
LEMMA LedgerActiveAfter ==
    ASSUME NEW L, LedgerHolds(L), GoodRecords(L.records), NEW fp \in DOMAIN L.records,
           NEW decision, NEW at, NEW source, NEW tenant,
           NEW b \in LedgerActive(L, source, tenant),
           NEW a \in LedgerActive(LedgerActivate(L, fp, decision, at), source, tenant)
    PROVE  a = b \/ KeptAs(a, fp)
<1> DEFINE mid == OthersInactive(L.records, fp)
           new == [mid EXCEPT ![fp] = [mid[fp] EXCEPT !.state = "active", !.activatedAt = at,
                                                      !.evidence = decision]]
           M == LedgerActivate(L, fp, decision, at)
<1>1. M = [L EXCEPT !.records = new]
  BY Zenon DEF LedgerActivate
<1>2. /\ DOMAIN new = DOMAIN L.records
      /\ \A x \in DOMAIN new : x # fp => \/ new[x] = L.records[x]
                                         \/ new[x] = [L.records[x] EXCEPT !.state = "inactive"]
  BY Zenon DEF OthersInactive
<1> HIDE DEF M, new
<1>3. M.records = new /\ M.snapshots = L.snapshots
  BY <1>1, Zenon DEF LedgerHolds, LedgerShape
<1>4. PICK x \in DOMAIN new : /\ a = L.snapshots[x] /\ new[x].state = "active"
                              /\ new[x].source = source /\ new[x].tenant = tenant
  BY <1>3, Zenon DEF LedgerActive, ActiveIn, IsActive, M
<1>5. CASE x = fp
  BY <1>2, <1>4, <1>5, Zenon DEF LedgerHolds
<1>6. CASE x # fp
  <2>1. L.records[x] = [m \in RecordMembers |-> L.records[x][m]]
    BY <1>2, Zenon DEF GoodRecords
  <2>2. ~(new[x] = [L.records[x] EXCEPT !.state = "inactive"])
    BY <1>4, <2>1, Zenon DEF RecordMembers
  <2>3. new[x] = L.records[x]
    BY <1>2, <1>6, <2>2, Zenon
  <2>4. PICK y \in DOMAIN L.records : b = L.snapshots[y] /\ L.records[y].state = "active"
                                      /\ L.records[y].source = source /\ L.records[y].tenant = tenant
    BY Zenon DEF LedgerActive, ActiveIn, IsActive
  <2> QED  BY <1>2, <1>4, <2>3, <2>4, Zenon DEF GoodRecords, SameStream
<1> QED  BY <1>5, <1>6, Zenon

\* One snapshot at most is the ledger's active one for a source and a tenant.
LEMMA LedgerActiveOnce ==
    ASSUME NEW L, GoodRecords(L.records), NEW source, NEW tenant,
           NEW a \in LedgerActive(L, source, tenant), NEW b \in LedgerActive(L, source, tenant)
    PROVE  a = b
<1>1. \A c \in LedgerActive(L, source, tenant) :
        \E x \in DOMAIN L.records : /\ c = L.snapshots[x] /\ L.records[x].state = "active"
                                    /\ L.records[x].source = source
                                    /\ L.records[x].tenant = tenant
  BY Zenon DEF LedgerActive, ActiveIn, IsActive
<1> QED  BY <1>1 DEF GoodRecords, SameStream

\* So is the repository's.
LEMMA RepositoryActiveAfter ==
    ASSUME NEW R, RepositoryHolds(R), NEW fp, NEW tenant, <<tenant, fp>> \in DOMAIN R.rows,
           NEW source, NEW b \in RepositoryActive(R, source, tenant),
           NEW a \in RepositoryActive(RepositoryActivate(R, fp, tenant), source, tenant)
    PROVE  a = b \/ KeptAs(a, fp)
<1> DEFINE key == <<tenant, fp>>
           at == <<tenant, source>>
           M == RepositoryActivate(R, fp, tenant)
           pointers == With(R.pointers, <<tenant, R.rows[key].snapshot.source.id>>, fp)
           rows == [R.rows EXCEPT ![key].state = "active"]
<1>1. M = [R EXCEPT !.pointers = pointers, !.rows = rows]
  BY Zenon DEF RepositoryActivate
<1>2. \A p \in DOMAIN pointers : \/ pointers[p] = fp
                                 \/ p \in DOMAIN R.pointers /\ pointers[p] = R.pointers[p]
  BY Zenon DEF With
<1>3. DOMAIN rows = DOMAIN R.rows /\ \A k \in DOMAIN rows : rows[k].snapshot = R.rows[k].snapshot
  <2>1. \A k \in DOMAIN rows : rows[k] = R.rows[k] \/ rows[k] = [R.rows[k] EXCEPT !.state = "active"]
    BY Zenon
  <2>2. ASSUME NEW r, IsRow(r), NEW q, q = [r EXCEPT !.state = "active"]
        PROVE  q.snapshot = r.snapshot
    BY <2>2, Zenon DEF IsRow
  <2>3. DOMAIN rows = DOMAIN R.rows
    BY Zenon
  <2> HIDE DEF rows
  <2> QED  BY <2>1, <2>2, <2>3, Zenon DEF RepositoryHolds
<1> HIDE DEF M, pointers, rows
<1>4. M.pointers = pointers /\ M.rows = rows
  BY <1>1, Zenon DEF RepositoryHolds
<1>5. /\ at \in DOMAIN pointers /\ <<tenant, pointers[at]>> \in DOMAIN R.rows
      /\ a = R.rows[<<tenant, pointers[at]>>].snapshot
  BY <1>3, <1>4, Zenon DEF RepositoryActive, Pointer, M
<1>6. CASE pointers[at] = fp
  BY <1>5, <1>6, Zenon DEF RepositoryHolds
<1>7. CASE at \in DOMAIN R.pointers /\ pointers[at] = R.pointers[at]
  BY <1>5, <1>7, Zenon DEF RepositoryActive, Pointer
<1> QED  BY <1>2, <1>5, <1>6, <1>7, Zenon

\* An activation leaves both stores alone, or activates the host's snapshot, registered
\* before, in the store the deployment uses.
LEMMA ActivationMoves ==
    ASSUME NEW h \in Hosts, ActivateSnapshot(h)
    PROVE  \/ UNCHANGED <<ledger, repo>>
           \/ /\ store = "ledger"
              /\ ledger' = LedgerActivate(ledger, Fingerprint(job[h].snapshot), job[h].decision, now)
              /\ Fingerprint(job[h].snapshot) \in DOMAIN ledger.records
           \/ /\ store # "ledger"
              /\ repo' = RepositoryActivate(repo, Fingerprint(job[h].snapshot), setup[h].tenant)
              /\ <<setup[h].tenant, Fingerprint(job[h].snapshot)>> \in DOMAIN repo.rows
<1> DEFINE fp == Fingerprint(job[h].snapshot)
           tenant == setup[h].tenant
<1> HIDE DEF fp, tenant
<1>1. ASSUME NEW overrides, Refusals(h, overrides) = {}
      PROVE  /\ store = "ledger" => fp \in DOMAIN ledger.records
             /\ store # "ledger" => <<tenant, fp>> \in DOMAIN repo.rows
  BY <1>1, Zenon DEF Refusals, LedgerRefusals, RepositoryRefusals, Tenant, fp, tenant
<1> QED  BY <1>1, Zenon DEF ActivateSnapshot, Tenant, fp, tenant

\* activate and activate_snapshot, under a policy and without an override, never take
\* away an object or a field the active bundle refers to, and never retype the field,
\* if the drift was classified against the snapshot that is still active: a blocking
\* drift cannot slip through between discovery, decision and activation.
THEOREM ActivationKeepsReferenced == Spec => ReferencedMembersKept
<1>1. Init => LedgerInv /\ HoldsInv
  BY LedgerInitInv, HoldsStarts, Zenon
<1>2. LedgerInv /\ HoldsInv /\ [Next]_vars => LedgerInv' /\ HoldsInv'
  BY LedgerStep, HoldsStep, Zenon
<1>3. ASSUME LedgerInv, HoldsInv, [Next]_vars, NEW h \in Hosts,
             job[h].stage = "decided", job'[h].stage = "idle",
             NEW b \in Active(Source(h), Tenant(h)), NEW a \in Active(Source(h), Tenant(h))',
             job[h].base = {b}, setup[h].policy.given, Refusals(h, {}) = {}
      PROVE  KeepsReferenced(b, a)
  <2> DEFINE fp == Fingerprint(job[h].snapshot)
             source == setup[h].source
             tenant == setup[h].tenant
  <2>1. ActivateSnapshot(h)
    BY <1>3, DecidedHostActs, Zenon
  <2>2. KeepsReferenced(b, job[h].snapshot) /\ ValidSnapshot(job[h].snapshot)
    BY <1>3, AcceptedKeeps, Zenon
  <2>3. /\ b \in IF store = "ledger" THEN LedgerActive(ledger, source, tenant)
                                     ELSE RepositoryActive(repo, source, tenant)
        /\ a \in IF store = "ledger" THEN LedgerActive(ledger', source, tenant)
                                     ELSE RepositoryActive(repo', source, tenant)
    BY <1>3, <2>1, Zenon DEF ActivateSnapshot, Active, Source, Tenant
  <2>4. \/ UNCHANGED <<ledger, repo>>
        \/ /\ store = "ledger" /\ ledger' = LedgerActivate(ledger, fp, job[h].decision, now)
           /\ fp \in DOMAIN ledger.records
        \/ /\ store # "ledger" /\ repo' = RepositoryActivate(repo, fp, tenant)
           /\ <<tenant, fp>> \in DOMAIN repo.rows
    BY <2>1, ActivationMoves, Zenon
  <2> HIDE DEF fp, source, tenant
  <2>5. a = b \/ KeptAs(a, fp)
    <3>1. CASE UNCHANGED <<ledger, repo>>
      <4>1. CASE store = "ledger"
        BY <1>3, <2>3, <3>1, <4>1, LedgerActiveOnce, Zenon DEF LedgerInv
      <4>2. CASE store # "ledger"
        BY <2>3, <3>1, <4>2, Zenon DEF RepositoryActive
      <4> QED  BY <4>1, <4>2, Zenon
    <3>2. CASE store = "ledger" /\ ledger' = LedgerActivate(ledger, fp, job[h].decision, now)
               /\ fp \in DOMAIN ledger.records
      BY <1>3, <2>3, <3>2, LedgerActiveAfter, Zenon DEF LedgerInv, HoldsInv
    <3>3. CASE store # "ledger" /\ repo' = RepositoryActivate(repo, fp, tenant)
               /\ <<tenant, fp>> \in DOMAIN repo.rows
      BY <1>3, <2>3, <3>3, RepositoryActiveAfter, Zenon DEF HoldsInv
    <3> QED  BY <2>4, <3>1, <3>2, <3>3, Zenon
  <2>6. CASE a = b
    BY <2>6, Zenon DEF KeepsReferenced
  <2>7. CASE KeptAs(a, fp)
    BY <2>2, <2>7, SameFingerprint, Zenon DEF KeptAs, fp
  <2> QED  BY <2>5, <2>6, <2>7, Zenon
<1>4. LedgerInv /\ HoldsInv /\ [Next]_vars =>
        [\A h \in Hosts :
            job[h].stage = "decided" /\ job'[h].stage = "idle"
            => \A b \in Active(Source(h), Tenant(h)) : \A a \in Active(Source(h), Tenant(h))' :
                  /\ job[h].base = {b}
                  /\ setup[h].policy.given
                  /\ Refusals(h, {}) = {}
                  => KeepsReferenced(b, a)]_vars
  BY <1>3, Zenon
<1> QED  BY <1>1, <1>2, <1>4, PTL DEF Spec, ReferencedMembersKept

-----------------------------------------------------------------------------
(* The review of proposals *)

ProposalMembers == {"id", "kind", "target", "fact", "status", "from", "at"}

IsProposal(p) == p = [m \in ProposalMembers |-> p[m]]

\* An approved proposal was approved in its present form by the last review of it.
Remembered(p) ==
    p.status = "approved" => Decision(p) \in DOMAIN last /\ last[Decision(p)] = "approved"

CatalogShape == catalog = [rows |-> catalog.rows, pointers |-> catalog.pointers,
                           proposals |-> catalog.proposals]

\* As long as no two reviews crossed, the stored set and the decisions agree.
ReviewInv ==
    /\ CatalogShape /\ crossed \in BOOLEAN
    /\ ~crossed => \A ps \in Stored : \A p \in ps : IsProposal(p) /\ Remembered(p)

\* A changed status leaves the proposal's form as it was.
LEMMA StatusSet ==
    ASSUME NEW p, IsProposal(p), NEW status, NEW q, q = [p EXCEPT !.status = status]
    PROVE  IsProposal(q) /\ q.status = status /\ Decision(q) = Decision(p)
BY Zenon DEF IsProposal, ProposalMembers, Decision

\* So does being revised.
LEMMA RevisedSet ==
    ASSUME NEW p, IsProposal(p), NEW id, NEW q,
           q = [p EXCEPT !.status = "revised", !.from = id]
    PROVE  IsProposal(q) /\ q.status = "revised"
BY Zenon DEF IsProposal, ProposalMembers

\* Inference only proposes.
LEMMA InferredPending ==
    ASSUME NEW s, NEW max, NEW at, NEW p \in InferProposals(s, max, at)
    PROVE  IsProposal(p) /\ p.status = "pending"
<1>1. PICK id, kind, target, fact :
             p = SemanticProposal(id, kind, target, fact, "pending", <<>>, at)
  BY Zenon DEF InferProposals
<1> QED  BY <1>1, Zenon DEF SemanticProposal, IsProposal, ProposalMembers

\* Saving replaces the set stored for the snapshot under review.
LEMMA SavedIsStored ==
    ASSUME CatalogShape, NEW set, catalog' = SaveProposalSet(catalog, Fp, ReviewTenant, set),
           snap' = snap
    PROVE  CatalogShape' /\ Stored' = {set}
<1> DEFINE key == <<ReviewTenant, Fp>>
           new == With(catalog.proposals, key, set)
<1>1. catalog' = [catalog EXCEPT !.proposals = new]
  BY Zenon DEF SaveProposalSet
<1>2. key \in DOMAIN new /\ new[key] = set
  BY Zenon DEF With
<1>3. Fp' = Fp
  BY Zenon DEF Fp
<1> HIDE DEF new
<1>4. CatalogShape' /\ catalog'.proposals = new
  BY <1>1, Zenon DEF CatalogShape
<1> QED  BY <1>2, <1>3, <1>4, Zenon DEF Stored, ProposalSet, ReviewTenant

\* The review's new set and the decisions it records agree, when the set it was made
\* from did.
LEMMA ReviewedAgree ==
    ASSUME NEW ps, NEW ids, \A p \in ps : IsProposal(p) /\ Remembered(p)
    PROVE  /\ last' = Decisions(ps, ids, "approved") =>
                \A p \in Approve(ps, ids) : IsProposal(p) /\ Remembered(p)'
           /\ last' = Decisions(ps, ids, "rejected") =>
                \A p \in Reject(ps, ids) : IsProposal(p) /\ Remembered(p)'
<1> DEFINE D == {Decision(p) : p \in {p \in ps : p.id \in ids}}
<1>1. ASSUME NEW what, last' = Decisions(ps, ids, what)
      PROVE  /\ DOMAIN last' = DOMAIN last \cup D
             /\ \A d \in DOMAIN last' : last'[d] = IF d \in D THEN what ELSE last[d]
  BY <1>1, Zenon DEF Decisions
<1>2. \A p \in ps : p.id \in ids <=> Decision(p) \in D
  BY Zenon DEF Decision
<1> HIDE DEF D
<1>3. ASSUME NEW what \in {"approved", "rejected"}, last' = Decisions(ps, ids, what),
             NEW q \in WithStatus(ps, ids, what)
      PROVE  IsProposal(q) /\ Remembered(q)'
  <2>1. PICK p \in ps : q = IF p.id \in ids THEN [p EXCEPT !.status = what] ELSE p
    BY <1>3, Zenon DEF WithStatus
  <2>2. CASE p.id \in ids
    <3>1. q = [p EXCEPT !.status = what]
      BY <2>1, <2>2, Zenon
    <3>2. IsProposal(q) /\ q.status = what /\ Decision(q) = Decision(p)
      BY <3>1, StatusSet, Zenon
    <3>3. Decision(q) \in D
      BY <1>2, <2>2, <3>2, Zenon
    <3> QED  BY <1>1, <1>3, <3>2, <3>3 DEF Remembered, Decision
  <2>3. CASE p.id \notin ids
    BY <1>1, <1>2, <1>3, <2>1, <2>3, Zenon DEF Remembered, Decision
  <2> QED  BY <2>2, <2>3, Zenon
<1> QED  BY <1>3, Zenon DEF Approve, Reject

\* A revision is pending and its origin is no longer approved.
LEMMA RevisedAgree ==
    ASSUME NEW ps, NEW id, NEW fact, NEW at, \A p \in ps : IsProposal(p) /\ Remembered(p),
           last' = Decisions(ps, {id}, "revised")
    PROVE  \A p \in Revise(ps, id, fact, at) : IsProposal(p) /\ Remembered(p)'
<1> DEFINE D == {Decision(p) : p \in {p \in ps : p.id \in {id}}}
<1>1. /\ DOMAIN last' = DOMAIN last \cup D
      /\ \A d \in DOMAIN last' : d \notin D => last'[d] = last[d]
  BY Zenon DEF Decisions
<1>2. \A p \in ps : p.id # id => Decision(p) \notin D
  BY Zenon DEF Decision
<1> HIDE DEF D
<1>3. ASSUME NEW q \in Superseded(ps, id)
      PROVE  IsProposal(q) /\ Remembered(q)'
  <2>1. PICK p \in ps :
          q = IF p.id = id THEN [p EXCEPT !.status = "revised", !.from = id] ELSE p
    BY <1>3, Zenon DEF Superseded
  <2>2. CASE p.id = id
    <3>1. q = [p EXCEPT !.status = "revised", !.from = id]
      BY <2>1, <2>2, Zenon
    <3>2. IsProposal(q) /\ q.status = "revised"
      BY <3>1, RevisedSet, Zenon
    <3> QED  BY <3>2, Zenon DEF Remembered
  <2>3. CASE p.id # id
    BY <1>1, <1>2, <2>1, <2>3, Zenon DEF Remembered, Decision
  <2> QED  BY <2>2, <2>3, Zenon
<1>4. \A i, kind, target :
        LET p == SemanticProposal(i, kind, target, fact, "pending", id, at)
        IN  IsProposal(p) /\ p.status = "pending"
  BY Zenon DEF SemanticProposal, IsProposal, ProposalMembers
<1> HIDE DEF IsProposal
<1> QED  BY <1>3, <1>4, Zenon DEF Revise, Remembered

\* Saving a review keeps the agreement, if it replaces the set it was made from.
LEMMA SaveKeeps ==
    ASSUME ReviewInv, NEW c, NEW ps, NEW decisions, SaveReview(c, ps, decisions),
           /\ last' = decisions
           /\ \A p \in seen[c].set : IsProposal(p) /\ Remembered(p)
           => \A p \in ps : IsProposal(p) /\ Remembered(p)'
    PROVE  ReviewInv'
<1>1. CASE UNCHANGED <<snap, catalog, crossed, last>>
  BY <1>1, Zenon DEF ReviewInv, CatalogShape, Stored, Fp, Remembered, Decision
<1>2. CASE /\ catalog' = SaveProposalSet(catalog, Fp, ReviewTenant, ps)
           /\ crossed' = (crossed \/ Stored # {seen[c].set})
           /\ last' = decisions /\ snap' = snap
  <2>1. CatalogShape' /\ Stored' = {ps}
    BY <1>2, SavedIsStored, Zenon DEF ReviewInv
  <2>2. crossed' \in BOOLEAN /\ (~crossed' => ~crossed /\ Stored = {seen[c].set})
    BY <1>2, Zenon DEF ReviewInv
  <2>3. ~crossed' => \A p \in seen[c].set : IsProposal(p) /\ Remembered(p)
    BY <2>2, Zenon DEF ReviewInv
  <2>4. ~crossed' => \A p \in ps : IsProposal(p) /\ Remembered(p)'
    BY <1>2, <2>3, Zenon
  <2> QED  BY <2>1, <2>2, <2>4, Zenon DEF ReviewInv
<1> QED  BY <1>1, <1>2, Zenon DEF SaveReview

\* Every step of inference, review and cleanup keeps the agreement.
LEMMA ReviewKeeps == ReviewInv /\ [ReviewNext]_reviewVars => ReviewInv'
<1> SUFFICES ASSUME ReviewInv, [ReviewNext]_reviewVars PROVE ReviewInv'
  BY Zenon
<1>1. CASE UNCHANGED <<snap, catalog, crossed, last>>
  BY <1>1, Zenon DEF ReviewInv, CatalogShape, Stored, Fp, Remembered, Decision
<1>2. CASE SaveInferred
  <2> DEFINE set == InferProposals(snap, MaxProposals, stamp + 1)
  <2>1. CatalogShape' /\ Stored' = {set} /\ crossed' = crossed
    BY <1>2, SavedIsStored, Zenon DEF SaveInferred, ReviewInv
  <2>2. \A p \in set : IsProposal(p) /\ p.status = "pending"
    BY InferredPending, Zenon
  <2> HIDE DEF set
  <2> QED  BY <2>1, <2>2, Zenon DEF ReviewInv, Remembered
<1>3. CASE ExpireSnapshot
  <2> DEFINE gone == ExpiredRows(catalog, [snapshots |-> {}, catalogs |-> {}], 2)
             rows == Without(catalog.rows, gone)
             new == Without(catalog.proposals, gone)
  <2>1. catalog' = [catalog EXCEPT !.rows = rows, !.proposals = new]
    BY <1>3, Zenon DEF ExpireSnapshot, RepositoryCleanup
  <2>2. DOMAIN new \subseteq DOMAIN catalog.proposals
        /\ \A k \in DOMAIN new : new[k] = catalog.proposals[k]
    BY Zenon DEF Without
  <2> HIDE DEF rows, new
  <2>3. CatalogShape' /\ catalog'.proposals = new
    BY <2>1, Zenon DEF ReviewInv, CatalogShape
  <2>4. Stored' \subseteq Stored
    BY <1>3, <2>2, <2>3, Zenon DEF Stored, ProposalSet, Fp, ExpireSnapshot
  <2>5. crossed' = crossed /\ last' = last
    BY <1>3, Zenon DEF ExpireSnapshot
  <2> QED  BY <2>3, <2>4, <2>5, Zenon DEF ReviewInv, Remembered, Decision
<1>4. ASSUME NEW c \in Reviewers, NEW ids, ApproveProposals(c, ids) \/ RejectProposals(c, ids)
      PROVE  ReviewInv'
  <2>1. CASE ApproveProposals(c, ids)
    BY <2>1, SaveKeeps, ReviewedAgree, Zenon DEF ApproveProposals
  <2>2. CASE RejectProposals(c, ids)
    BY <2>2, SaveKeeps, ReviewedAgree, Zenon DEF RejectProposals
  <2> QED  BY <1>4, <2>1, <2>2, Zenon
<1>5. ASSUME NEW c \in Reviewers, NEW id, NEW values, ReviseProposal(c, id, values)
      PROVE  ReviewInv'
  BY <1>5, SaveKeeps, RevisedAgree, Zenon DEF ReviseProposal
<1>6. ASSUME NEW c \in Reviewers, SeeProposals(c) \/ CheckExpectedSet(c) \/ CreateDraftFrom(c)
      PROVE  UNCHANGED <<snap, catalog, crossed, last>>
  BY <1>6, Zenon DEF SeeProposals, CheckExpectedSet, CreateDraftFrom
<1>7. UNCHANGED reviewVars => UNCHANGED <<snap, catalog, crossed, last>>
  BY Zenon DEF reviewVars
<1> QED  BY <1>1, <1>2, <1>3, <1>4, <1>5, <1>6, <1>7, Zenon DEF ReviewNext, ReviewStep

\* The repository starts with the snapshot and without proposals.
LEMMA ReviewStarts == ReviewInit => ReviewInv
<1> SUFFICES ASSUME ReviewInit PROVE ReviewInv
  BY Zenon
<1> DEFINE rows == With(<<>>, <<ReviewTenant, Fp>>,
                        [snapshot |-> snap, state |-> "inactive", until |-> 1])
<1>1. catalog = RepositoryRegister(RepositoryInit, snap, ReviewTenant, 1) /\ crossed = FALSE
  BY Zenon DEF ReviewInit
<1>2. \E r : catalog = [RepositoryInit EXCEPT !.rows = r]
  BY <1>1, Zenon DEF RepositoryRegister
<1>3. catalog.proposals = <<>> /\ CatalogShape
  BY <1>2, Zenon DEF RepositoryInit, CatalogShape
<1>4. Stored = {}
  BY <1>3 DEF Stored, ProposalSet
<1> QED  BY <1>1, <1>3, <1>4, Zenon DEF ReviewInv

\* create_draft_from_proposals turns a proposal into an assertion only if the last
\* review saved for that proposal approved it with exactly that target and fact: not a
\* rejected one, not the origin of a revision and not a revision nobody has looked at.
THEOREM ReviewDraftsApproved == ReviewSpec => DraftedWasApproved
<1>1. ReviewInit => ReviewInv
  BY ReviewStarts, Zenon
<1>2. ReviewInv /\ [ReviewNext]_reviewVars => ReviewInv'
  BY ReviewKeeps, Zenon
<1>3. ASSUME ReviewInv, [ReviewNext]_reviewVars, drafted' # drafted, ~crossed,
             NEW d \in drafted', d.current, NEW a \in d.assertions
      PROVE  \E f \in DOMAIN last : /\ f[1] = a.proposal /\ AssertionType(f[2]) = a.type
                                    /\ f[3] = a.target /\ f[4] = a.fact
                                    /\ last[f] = "approved"
  <2>1. PICK c \in Reviewers : CreateDraftFrom(c)
    <3>1. SaveInferred \/ ExpireSnapshot \/ UNCHANGED reviewVars => drafted' = drafted
      BY Zenon DEF SaveInferred, ExpireSnapshot, reviewVars
    <3>2. \A c, ps, decisions : SaveReview(c, ps, decisions) => drafted' = drafted
      BY Zenon DEF SaveReview
    <3>3. \A c \in Reviewers : ReviewStep(c) => CreateDraftFrom(c) \/ drafted' = drafted
      BY <3>2, Zenon DEF ReviewStep, SeeProposals, CheckExpectedSet, ApproveProposals,
         RejectProposals, ReviseProposal
    <3> QED  BY <1>3, <3>1, <3>3, Zenon DEF ReviewNext
  <2> DEFINE ps == seen[c].set
  <2>2. PICK i : d = [assertions |-> AdaptApproved(ps), current |-> Stored = {ps}, inputs |-> i]
    BY <1>3, <2>1 DEF CreateDraftFrom
  <2>3. Stored = {ps}
    BY <1>3, <2>2, Zenon
  <2>4. d.assertions = AdaptApproved(ps)
    BY <2>2, Zenon
  <2>5. PICK p \in ByStatus(ps, "approved") :
          /\ a.type = AssertionType(p.kind) /\ a.target = p.target
          /\ a.fact = p.fact /\ a.proposal = p.id
    BY <1>3, <2>4 DEF AdaptApproved
  <2>6. Decision(p) \in DOMAIN last /\ last[Decision(p)] = "approved"
    BY <1>3, <2>3, <2>5, Zenon DEF ReviewInv, Remembered, ByStatus
  <2> QED  BY <2>5, <2>6, Zenon DEF Decision
<1>4. ReviewInv /\ [ReviewNext]_reviewVars =>
        [drafted' # drafted /\ ~crossed =>
           \A d \in drafted' : d.current => \A a \in d.assertions :
              \E f \in DOMAIN last : /\ f[1] = a.proposal /\ AssertionType(f[2]) = a.type
                                     /\ f[3] = a.target /\ f[4] = a.fact
                                     /\ last[f] = "approved"]_reviewVars
  BY <1>3, Zenon
<1> QED  BY <1>1, <1>2, <1>4, PTL DEF ReviewSpec, DraftedWasApproved
=============================================================================
