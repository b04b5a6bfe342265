--------------------------- MODULE DurableCatalog ---------------------------
(***************************************************************************)
(* The PostgreSQL semantic catalog for one bundle in one tenant scope.       *)
(*                                                                           *)
(* A step is one transaction, except where a transaction of the code reads a *)
(* row it has not locked and acts on it later: then what it has read is kept *)
(* in the job and the rest is a step of its own.  Activation reads the       *)
(* version row before it locks the pointer, and a lock on a pointer that does *)
(* not exist locks nothing.  The constraints of schema.py are part of the    *)
(* steps: a statement that breaks one undoes its transaction.                *)
(***************************************************************************)
EXTENDS Naturals, Sequences, FiniteSets

CONSTANTS
    Workers,        \* connections
    Fingerprints,   \* bundle contents
    VersionOf,      \* [Fingerprints -> Nat] their model versions
    Operators,      \* operator audit references
    MaxBundleHistory, \* config.max_bundle_history
    MaxCalls        \* bound on the calls made

NoFp == "none"

ASSUME CatalogAssumption ==
    /\ NoFp \notin Fingerprints
    /\ VersionOf \in [Fingerprints -> Nat]
    /\ MaxBundleHistory \in Nat \ {0} /\ MaxCalls \in Nat

States == {"available", "active", "superseded", "deprecated", "retired"}

VersionRow == [state : States, at : 1..MaxCalls]

VARIABLES
    pubs,      \* bundle_publications: fingerprints with an artifact
    versions,  \* published_versions: fingerprint -> [state, at] for the rows there are
    edges,     \* supersession_edges: <<predecessor, successor>>
    pointer,   \* bundle_pointers: [fp, seq], fp = NoFp when there is no row
    history,   \* bundle_history: position -> fingerprint
    trail,     \* assembly_audit_evidence: pointer events [kind, prior, to, operator]
    job,       \* per worker: the call it is executing
    clock,     \* client clock readings handed out so far
    stack,     \* history: every version that was made active and not rolled back
    raced,     \* history: a first activation overwrote a pointer it had not seen
    withdrawn  \* history: set_version_state has changed the version the pointer names

catalogVars == <<pubs, versions, edges, pointer, history, trail, job, clock, stack, raced, withdrawn>>

\* A call is named by what it is about to do.
Calls == {"none", "publish", "activate", "rollback", "first", "deprecated", "retired", "retire"}

Job == [op : Calls, fp : Fingerprints \cup {NoFp}, at : 0..MaxCalls, by : Operators \cup {NoFp}]

NoJob == [op |-> "none", fp |-> NoFp, at |-> 0, by |-> NoFp]

NoPointer == [fp |-> NoFp, seq |-> 0]

CatalogInit ==
    /\ pubs = {} /\ edges = {} /\ trail = {}
    /\ versions = <<>> /\ history = <<>>
    /\ pointer = NoPointer
    /\ job = [w \in Workers |-> NoJob]
    /\ clock = 0
    /\ stack = <<>> /\ raced = FALSE /\ withdrawn = FALSE

Done(w) == job' = [job EXCEPT ![w] = NoJob]

Nothing == UNCHANGED <<pubs, versions, edges, pointer, history, trail, stack, raced, withdrawn>>

\* A call reads the client clock and, for what it needs later, the tables.
Begin(w, j) ==
    /\ job[w] = NoJob
    /\ clock < MaxCalls
    /\ clock' = clock + 1
    /\ job' = [job EXCEPT ![w] = [j EXCEPT !.at = clock + 1]]
    /\ Nothing

\* update_version_state
SetState(v, fp, s) == IF fp \in DOMAIN v THEN [v EXCEPT ![fp].state = s] ELSE v

\* The version that is replaced is superseded, the other one becomes active.
Swapped(to) == SetState(SetState(versions, pointer.fp, "superseded"), to, "active")

-----------------------------------------------------------------------------
(* publications.py *)

\* read_latest_version: by published_at, then by model_version
Latest ==
    CHOOSE f \in DOMAIN versions : \A g \in DOMAIN versions :
        \/ versions[g].at < versions[f].at
        \/ versions[g].at = versions[f].at /\ VersionOf[g] <= VersionOf[f]

Predecessor == IF DOMAIN versions = {} THEN NoFp ELSE Latest

BeginPublish(w, fp) == Begin(w, [NoJob EXCEPT !.op = "publish", !.fp = fp])

\* PublicationRepository.publish under the series lock.  A content that is
\* already there is reused, another content under its version is refused, and
\* the unique keys of the remaining tables refuse what they must.
PublishAllowed(fp) ==
    /\ fp \notin pubs
    /\ \A g \in pubs : VersionOf[g] # VersionOf[fp]
    /\ \A g \in DOMAIN versions : g # fp /\ VersionOf[g] # VersionOf[fp]
    /\ \A e \in edges : e[1] # Predecessor

\* Fault: the predecessor is superseded even while it serves.
SucceededAlways(row) == [row EXCEPT !.state = "superseded"]

\* update_version_successor
Succeeded(row) == [row EXCEPT !.state = IF @ = "active" THEN @ ELSE "superseded"]

Publish(w) ==
    LET fp == job[w].fp
        pre == Predecessor
    IN  /\ job[w].op = "publish"
        /\ Done(w)
        /\ IF PublishAllowed(fp)
           THEN /\ pubs' = pubs \cup {fp}
                /\ versions' =
                      [f \in DOMAIN versions \cup {fp} |->
                          IF f = fp THEN [state |-> "available", at |-> job[w].at]
                          ELSE IF f = pre THEN Succeeded(versions[f])
                          ELSE versions[f]]
                /\ edges' = IF pre = NoFp THEN edges ELSE edges \cup {<<pre, fp>>}
           ELSE UNCHANGED <<pubs, versions, edges>>
        /\ UNCHANGED <<pointer, history, trail, clock, stack, raced, withdrawn>>

-----------------------------------------------------------------------------
(* activation.py *)

EventOf(w, kind, to) == [kind |-> kind, prior |-> pointer.fp, to |-> to, operator |-> job[w].by]

\* insert_audit_entries: the event id is kind, prior and result; the same id
\* from another operator is a conflict.
TrailAccepts(e) ==
    \A x \in trail : (x.kind = e.kind /\ x.prior = e.prior /\ x.to = e.to) => x.operator = e.operator

\* activate up to the pointer lock: publication and version row are read, a
\* retired version is refused.  The host's production checks may refuse as well,
\* which is the same as never continuing.
Activatable(fp) == fp \in pubs /\ versions[fp].state # "retired"

\* activate, activate_fingerprint
BeginActivate(w, fp, kind, by) ==
    /\ Activatable(fp)
    /\ Begin(w, [op |-> kind, fp |-> fp, at |-> 0, by |-> by])

\* rollback_to_fingerprint first reads the active version in a transaction of its
\* own, which raises unless pointer and version row agree.
Serves == /\ pointer.fp \in pubs
          /\ versions[pointer.fp].state = "active"

BeginRollbackTo(w, fp, by) ==
    /\ Serves
    /\ pointer.fp # fp
    /\ BeginActivate(w, fp, "rollback", by)

Positions == DOMAIN history

\* The newest history row.
Top == CHOOSE p \in Positions : \A q \in Positions : q <= p

\* next_history_position
NextPosition == IF Positions = {} THEN 1 ELSE Top + 1

\* trim_history: everything below the newest MaxBundleHistory positions.
Trimmed(h, position) ==
    LET below == position + 1 - MaxBundleHistory
    IN  IF position + 1 <= MaxBundleHistory \/ below <= 1 THEN h
        ELSE [p \in {q \in DOMAIN h : q >= below} |-> h[p]]

\* With a pointer to lock, everything from the lock to the commit is one step.
\* Activating what is active only restores its state.  The pointer's foreign
\* key refuses an artifact that cleanup has removed.
MovePointer(w) ==
    LET fp == job[w].fp
        e == EventOf(w, job[w].op, fp)
        position == NextPosition
    IN  /\ job[w].op \in {"activate", "rollback"}
        /\ pointer # NoPointer
        /\ Done(w)
        /\ IF VersionOf[pointer.fp] = VersionOf[fp]
           THEN /\ versions' = SetState(versions, fp, "active")
                /\ withdrawn' = (withdrawn /\ fp # pointer.fp)
                /\ UNCHANGED <<pointer, history, trail, stack>>
           ELSE IF fp \in pubs /\ TrailAccepts(e)
           THEN /\ history' = Trimmed([p \in Positions \cup {position} |->
                                          IF p = position THEN pointer.fp ELSE history[p]], position)
                /\ versions' = Swapped(fp)
                /\ pointer' = [fp |-> fp, seq |-> position]
                /\ trail' = trail \cup {e}
                /\ stack' = Append(stack, fp)
                /\ withdrawn' = FALSE
           ELSE UNCHANGED <<versions, pointer, history, trail, stack, withdrawn>>
        /\ UNCHANGED <<pubs, edges, clock, raced>>

\* Without a pointer nothing is locked; an active version row is refused as an
\* orphan, otherwise the call goes on as a first activation.
SeeNoPointer(w) ==
    /\ job[w].op \in {"activate", "rollback"}
    /\ pointer = NoPointer
    /\ job' = [job EXCEPT ![w] =
                  IF \E f \in DOMAIN versions : versions[f].state = "active" THEN NoJob
                  ELSE [@ EXCEPT !.op = "first"]]
    /\ UNCHANGED clock /\ Nothing

\* The upsert waits for a concurrent one and then overwrites it.
FirstActivation(w) ==
    LET fp == job[w].fp
        e == [kind |-> "activate", prior |-> NoFp, to |-> fp, operator |-> job[w].by]
    IN  /\ job[w].op = "first"
        /\ Done(w)
        /\ IF fp \in pubs /\ TrailAccepts(e)
           THEN /\ pointer' = [fp |-> fp, seq |-> 0]
                /\ versions' = SetState(versions, fp, "active")
                /\ trail' = trail \cup {e}
                /\ stack' = <<fp>>
                /\ raced' = (raced \/ pointer # NoPointer)
                /\ withdrawn' = FALSE
           ELSE UNCHANGED <<pointer, versions, trail, stack, raced, withdrawn>>
        /\ UNCHANGED <<pubs, edges, history, clock>>

\* validate_lifecycle_witness for the history row and the version it names
RollbackAllowed ==
    /\ pointer # NoPointer /\ Positions # {}
    /\ history[Top] \in pubs
    /\ versions[history[Top]].state # "retired"
    /\ Top = pointer.seq

\* Fault: the restored version keeps the sequence of the one it replaces.
RestoredSame(top) == [fp |-> history[top], seq |-> top]

\* The restored version takes the sequence below the consumed history row.
Restored(top) == [fp |-> history[top], seq |-> top - 1]

\* rollback locks the pointer first and is one step.
Rollback(w, by) ==
    LET to == history[Top]
        e == [kind |-> "rollback", prior |-> pointer.fp, to |-> to, operator |-> by]
    IN  /\ job[w] = NoJob
        /\ clock < MaxCalls /\ clock' = clock + 1
        /\ RollbackAllowed /\ TrailAccepts(e)
        /\ pointer' = Restored(Top)
        /\ versions' = Swapped(to)
        /\ history' = [p \in Positions \ {Top} |-> history[p]]
        /\ trail' = trail \cup {e}
        /\ stack' = SubSeq(stack, 1, Len(stack) - 1)
        /\ withdrawn' = FALSE
        /\ UNCHANGED <<pubs, edges, job, raced>>

\* set_version_state: the publication is looked up, then the active version is
\* read, then the row is updated, each in its own transaction.
BeginSetState(w, fp, s) ==
    /\ fp \in pubs
    /\ Begin(w, [NoJob EXCEPT !.op = s, !.fp = fp])

CheckNotActive(w) ==
    /\ job[w].op = "retired"
    /\ job' = [job EXCEPT ![w] =
                  IF pointer # NoPointer /\ (~Serves \/ pointer.fp = job[w].fp) THEN NoJob
                  ELSE [@ EXCEPT !.op = "retire"]]
    /\ UNCHANGED clock /\ Nothing

WriteState(w) ==
    /\ \/ job[w].op = "retire"
       \/ job[w].op = "deprecated" /\ (pointer = NoPointer \/ Serves)
    /\ versions' = SetState(versions, job[w].fp,
                            IF job[w].op = "retire" THEN "retired" ELSE "deprecated")
    /\ withdrawn' = (withdrawn \/ pointer.fp = job[w].fp)
    /\ Done(w)
    /\ UNCHANGED <<pubs, edges, pointer, history, trail, clock, stack, raced>>

-----------------------------------------------------------------------------
(* maintenance.py *)

\* delete_expired_publications: everything published before now that neither
\* the pointer nor the history names.
Expired == pubs \ ({pointer.fp} \cup {history[p] : p \in Positions})

\* delete_expired_audit_entries keeps what concerns a version that is not retired.
Forgettable == {e \in trail : versions[e.to].state = "retired"}

\* cleanup removes a batch of each; version rows and edges stay.
Cleanup ==
    \E S \in SUBSET Expired, T \in SUBSET Forgettable :
        /\ S \cup T # {}
        /\ clock < MaxCalls /\ clock' = clock + 1
        /\ pubs' = pubs \ S
        /\ trail' = trail \ T
        /\ UNCHANGED <<versions, edges, pointer, history, job, stack, raced, withdrawn>>

\* reload_active after a restart, for this bundle: the pointer's artifact is there
\* and its version row is active, and no version is active without a pointer.
ReloadAccepts ==
    IF pointer = NoPointer THEN \A f \in DOMAIN versions : versions[f].state # "active"
    ELSE Serves

\* A call is refused by a host check, or its connection is lost.
DropCall(w) ==
    /\ job[w] # NoJob
    /\ Done(w)
    /\ UNCHANGED clock /\ Nothing

CatalogNext ==
    \/ \E w \in Workers :
          \/ \E fp \in Fingerprints :
                \/ BeginPublish(w, fp)
                \/ \E o \in Operators : BeginActivate(w, fp, "activate", o) \/ BeginRollbackTo(w, fp, o)
                \/ \E s \in {"deprecated", "retired"} : BeginSetState(w, fp, s)
          \/ Publish(w) \/ MovePointer(w) \/ SeeNoPointer(w) \/ FirstActivation(w)
          \/ \E o \in Operators : Rollback(w, o)
          \/ CheckNotActive(w) \/ WriteState(w) \/ DropCall(w)
    \/ Cleanup

CatalogSpec == CatalogInit /\ [][CatalogNext]_catalogVars

-----------------------------------------------------------------------------
(* Properties *)

CatalogTypeOK ==
    /\ DOMAIN versions \subseteq Fingerprints
    /\ versions \in [DOMAIN versions -> VersionRow]
    /\ pubs \subseteq DOMAIN versions
    /\ pointer \in [fp : Fingerprints \cup {NoFp}, seq : Nat]
    /\ Positions \subseteq Nat \ {0} /\ history \in [Positions -> Fingerprints]
    /\ job \in [Workers -> Job]
    /\ clock \in 0..MaxCalls
    /\ stack \in Seq(Fingerprints) /\ raced \in BOOLEAN /\ withdrawn \in BOOLEAN

\* Whatever cleanup removes and whenever, the pointer and every version a rollback
\* could restore still have their artifact.
PointerHasArtifact ==
    /\ pointer # NoPointer => pointer.fp \in pubs
    /\ \A p \in Positions : history[p] \in pubs

\* Unless two first activations overlapped, the pointer is the version activated
\* last, the retained history lists those before it without a gap, and it ends at
\* the pointer's sequence, so that a rollback restores the predecessor or nothing.
HistoryLeadsBack ==
    (~raced /\ pointer # NoPointer) =>
        /\ pointer.fp = stack[Len(stack)]
        /\ Positions # {} => Top = pointer.seq
        /\ \A p \in Positions : /\ Top - p < Len(stack) - 1
                                /\ history[p] = stack[Len(stack) - 1 - (Top - p)]
        /\ \A p \in Positions : p..Top \subseteq Positions

\* Unless two first activations overlapped, the pointer is the only version that
\* is marked active.
OneActiveVersion ==
    ~raced => \A f \in DOMAIN versions : versions[f].state = "active" => f = pointer.fp

\* Whenever the process stops, the restart finds the bundle servable: no publication,
\* cleanup or rollback makes reload_active reject it.  An operator who deprecates the
\* active version, or retires it while it is being activated, does.
RestartServes == ~withdrawn => ReloadAccepts

\* "It SHALL never mutate or delete an artifact that is active, superseded,
\* audit-referenced, or required by an active artifact."
SupersededArtifactsKept ==
    \A f \in DOMAIN versions : versions[f].state = "superseded" => f \in pubs

=============================================================================
