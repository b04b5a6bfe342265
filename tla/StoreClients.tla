---------------------------- MODULE StoreClients ----------------------------
(***************************************************************************)
(* The shared store under workers that call it in any order they like.     *)
(*                                                                         *)
(* A client makes execution attempts, one after the other.  It works on    *)
(* one workflow under one idempotency key and presents the owner id of the *)
(* runtime it runs on.  Between acquiring and releasing the lease it calls *)
(* with the token it was given, however late.  A crashed client is one     *)
(* that stops calling, so crashes need no action of their own.             *)
(***************************************************************************)
EXTENDS SharedStateStore

CONSTANTS Clients,
          Target,        \* client -> workflow it works on
          KeyOf,         \* client -> idempotency key of its request
          OwnerOf,       \* client -> worker_id of the runtime it runs on
          LeaseTTL, KeyTTL,
          MaxTime, MaxRevision   \* bounds of the instance

ASSUME ClientAssumption ==
  /\ Target \in [Clients -> Workflows]
  /\ KeyOf \in [Clients -> Keys]
  /\ DOMAIN OwnerOf = Clients
  /\ \A c \in Clients : OwnerOf[c] # "nobody"
  /\ LeaseTTL \in Nat \ {0}
  /\ KeyTTL \in Nat \ {0}
  /\ MaxTime \in Nat
  /\ MaxRevision \in Nat

VARIABLES held,          \* client -> owner and token it was granted, or NoFence
          believed,      \* client -> expires_at of its own copy of the lease
          latest         \* workflow -> client that acquired its lease last

vars == <<states, keys, leases, now, held, believed, latest>>

Nobody == "nobody"

\* The client holds no copy of a lease: it never acquired one, or released it.
NoBelief == -1

\* The store tells a status from another and a terminal one from the rest:
\* two of each kind stand for the six.
Status == {"created", "running", "succeeded", "failed"}

RowType ==
  [state : [status : Status \cup {"absent"}], revision : Nat, updated_at : Nat]

KeyType ==
  [request_id : Keys \cup {"none"}, workflow_id : Workflows \cup {"none"},
   status : {"absent", "reserved", "completed"},
   outcome : Clients \cup {"none"}, expires_at : Nat]

Owners == {OwnerOf[c] : c \in Clients} \cup {Nobody}

TypeOK ==
  /\ states \in [Workflows -> RowType]
  /\ keys \in [Keys -> KeyType]
  /\ leases \in [Workflows -> [owner_id : Owners, fencing_token : Nat, expires_at : Nat]]
  /\ held \in [Clients -> [owner_id : Owners, fencing_token : Nat]]
  /\ believed \in [Clients -> Nat \cup {NoBelief}]
  /\ latest \in [Workflows -> Clients \cup {Nobody}]
  /\ now \in Nat

Init ==
  /\ StoreInit
  /\ held = [c \in Clients |-> NoFence]
  /\ believed = [c \in Clients |-> NoBelief]
  /\ latest = [w \in Workflows |-> Nobody]

ClientCreate(c) ==
  /\ CreateResult(Target[c]) = "ok"
  /\ Create(Target[c], [status |-> "created"])
  /\ UNCHANGED <<keys, leases, now, held, believed, latest>>

\* A fenced update: the client proposes any status, from the status and the
\* revision it read some time ago.
ClientUpdate(c) ==
  /\ held[c] # NoFence
  /\ \E from \in Status, to \in Status, version \in 1..MaxRevision :
       /\ version < MaxRevision
       /\ UpdateResult(Target[c], from, [status |-> to], version, held[c]) = "ok"
       /\ Update(Target[c], from, [status |-> to], version, held[c])
  /\ UNCHANGED <<keys, leases, now, held, believed, latest>>

\* The unfenced update of DeterministicWorkflowRuntime.cancel: same status.
CancelUpdate(w) ==
  /\ states[w].revision < MaxRevision
  /\ UpdateResult(w, states[w].state.status, states[w].state, states[w].revision,
                  NoFence) = "ok"
  /\ Update(w, states[w].state.status, states[w].state, states[w].revision, NoFence)
  /\ UNCHANGED <<keys, leases, now, held, believed, latest>>

\* Expiry is judged by the client's clock, which may be off by the tolerance.
ClientReserve(c) ==
  /\ \E skew \in -Tolerance..Tolerance :
       /\ now + skew >= 0
       /\ ReserveResult(KeyOf[c], KeyOf[c], Target[c], now + skew) = "reserved"
       /\ Reserve(KeyOf[c], KeyOf[c], Target[c], now + skew, now + skew + KeyTTL)
  /\ UNCHANGED <<states, leases, now, held, believed, latest>>

ClientComplete(c) ==
  /\ held[c] # NoFence
  /\ CompleteResult(KeyOf[c], Target[c], held[c]) = "ok"
  /\ Complete(KeyOf[c], Target[c], c, held[c])
  /\ UNCHANGED <<states, leases, now, held, believed, latest>>

\* The expiry comes from the client's clock too.
ClientAcquire(c) ==
  /\ held[c] = NoFence
  /\ AcquireResult(Target[c]) = "ok"
  /\ \E skew \in -Tolerance..Tolerance :
       /\ now + LeaseTTL + skew >= 0
       /\ Acquire(Target[c], OwnerOf[c], now + LeaseTTL + skew)
  /\ held' = [held EXCEPT ![c] =
                [owner_id |-> OwnerOf[c],
                 fencing_token |-> leases'[Target[c]].fencing_token]]
  /\ believed' = [believed EXCEPT ![c] = leases'[Target[c]].expires_at]
  /\ latest' = [latest EXCEPT ![Target[c]] = c]
  /\ UNCHANGED <<states, keys, now>>

ClientRenew(c) ==
  /\ held[c] # NoFence
  /\ RenewResult(Target[c], held[c]) = "ok"
  /\ \E skew \in -Tolerance..Tolerance :
       /\ now + LeaseTTL + skew >= 0
       /\ Renew(Target[c], held[c], now + LeaseTTL + skew)
  /\ believed' = [believed EXCEPT ![c] = leases'[Target[c]].expires_at]
  /\ UNCHANGED <<states, keys, now, held, latest>>

\* release_lease in the finally clause: the attempt is over, whether or not the
\* row was still its own.
ClientRelease(c) ==
  /\ held[c] # NoFence
  /\ Release(Target[c], held[c])
  /\ held' = [held EXCEPT ![c] = NoFence]
  /\ believed' = [believed EXCEPT ![c] = NoBelief]
  /\ UNCHANGED <<states, keys, now, latest>>

\* The operator's cleanup, with cut-offs that lie in the past.
OperatorCleanup ==
  /\ \E t \in 0..now : Cleanup(t, t)
  /\ <<states, keys, leases>>' # <<states, keys, leases>>
  /\ UNCHANGED <<now, held, believed, latest>>

Tick ==
  /\ now < MaxTime
  /\ now' = now + 1
  /\ UNCHANGED <<states, keys, leases, held, believed, latest>>

Next ==
  \/ \E c \in Clients :
       \/ ClientCreate(c) \/ ClientUpdate(c) \/ ClientReserve(c)
       \/ ClientComplete(c) \/ ClientAcquire(c) \/ ClientRenew(c)
       \/ ClientRelease(c)
  \/ \E w \in Workflows : CancelUpdate(w)
  \/ OperatorCleanup
  \/ Tick

Spec == Init /\ [][Next]_vars

-----------------------------------------------------------------------------
(* Properties *)

\* Every execution attempt presents an owner id of its own.
DistinctOwners == \A c, d \in Clients : c # d => OwnerOf[c] # OwnerOf[d]

\* A client whose lease was taken over by, or re-acquired by, a later one can
\* never again satisfy the fence of update, complete_idempotency or
\* renew_lease, even though releasing or cleaning up a lease deletes the row
\* and the next acquisition starts again from token 1.
SupersededIsFenced ==
  \A c \in Clients :
     held[c] # NoFence /\ FenceHolds(Target[c], held[c]) => latest[Target[c]] = c

\* By a clock that lags the database by at most the tolerance, the client's
\* own copy of its lease is unexpired.
Believes(c) == believed[c] # NoBelief /\ believed[c] > now - Tolerance

\* What the clock tolerance is for: two clients never both believe that their
\* lease on the same workflow is unexpired.
BeliefsExclusive ==
  \A c, d \in Clients :
     c # d /\ Target[c] = Target[d] => ~(Believes(c) /\ Believes(d))

\* No store operation changes a terminal snapshot; cleanup may remove it.
TerminalFrozen ==
  [][\A w \in Workflows :
       states[w].state.status \in TERMINAL => states'[w] \in {states[w], NoRow}]_vars

\* A completed key keeps its workflow and its outcome until it expires by the
\* clock of some client: the code grants keys no clock tolerance, so that can
\* be a tolerance before it expires by the database's.
CompletedKeyFrozen ==
  [][\A k \in Keys :
       keys[k].status = "completed" /\ keys[k].expires_at > now + Tolerance
         => keys'[k] = keys[k]]_vars

\* A key that no client takes for expired stays bound to the workflow it was
\* reserved for.
KeyStaysBound ==
  [][\A k \in Keys :
       keys[k] # NoKey /\ keys[k].expires_at > now + Tolerance
         => keys'[k].workflow_id = keys[k].workflow_id]_vars
=============================================================================
