------------------------- MODULE StoreClientsProofs -------------------------
(***************************************************************************)
(* What the leases and fencing tokens of the shared store guarantee, for   *)
(* any number of clients, workflows and keys, any lifetimes and any clock  *)
(* tolerance, provided every client presents an owner id of its own.       *)
(***************************************************************************)
EXTENDS StoreClients, TLAPS

USE DEF NoLease, NoFence, NoRow, NoState, NoKey, NoVersion, NoBelief, Nobody, TERMINAL

\* The snapshot a fenced or unfenced update leaves is again a row.
LEMMA UpdateTyped ==
  ASSUME TypeOK, NEW w \in Workflows, NEW from, NEW s \in Status, NEW v, NEW f,
         Update(w, from, [status |-> s], v, f)
  PROVE  states' \in [Workflows -> RowType]
  BY DEF Update, TypeOK, RowType, Status

\* A batch is made of eligible rows.
LEMMA BatchEligible ==
  ASSUME NEW eligible, NEW age, NEW S \in Batches(eligible, age)
  PROVE  S \in SUBSET eligible
  BY Zenon DEF Batches

\* Cleanup only removes rows.
LEMMA CleanupRemoves ==
  ASSUME NEW t, NEW u, Cleanup(t, u)
  PROVE  /\ states' = [w \in Workflows |-> states'[w]]
         /\ keys' = [k \in Keys |-> keys'[k]]
         /\ leases' = [w \in Workflows |-> leases'[w]]
         /\ \A w \in Workflows : states'[w] \in {states[w], NoRow}
         /\ \A k \in Keys :
              \/ keys'[k] = keys[k]
              \/ keys'[k] = NoKey /\ keys[k].expires_at <= u
         /\ \A w \in Workflows :
              \/ leases'[w] = leases[w]
              \/ leases'[w] = NoLease /\ leases[w].expires_at <= u - Tolerance
<1> DEFINE TW == { w \in Workflows : /\ states[w].state.status \in TERMINAL
                                     /\ states[w].updated_at <= t }
           TK == { k \in Keys : /\ keys[k] # NoKey
                                /\ keys[k].expires_at <= u }
           TL == { w \in Workflows : /\ leases[w] # NoLease
                                     /\ leases[w].expires_at <= u - Tolerance }
<1>1. PICK W \in SUBSET TW, K \in SUBSET TK, L \in SUBSET TL :
        /\ states' = [w \in Workflows |-> IF w \in W THEN NoRow ELSE states[w]]
        /\ keys' = [k \in Keys |-> IF k \in K THEN NoKey ELSE keys[k]]
        /\ leases' = [w \in Workflows |-> IF w \in L THEN NoLease ELSE leases[w]]
  <2>1. PICK W \in Batches(TW, [w \in Workflows |-> states[w].updated_at]),
             K \in Batches(TK, [k \in Keys |-> keys[k].expires_at]),
             L \in Batches(TL, [w \in Workflows |-> leases[w].expires_at]) :
          /\ states' = [w \in Workflows |-> IF w \in W THEN NoRow ELSE states[w]]
          /\ keys' = [k \in Keys |-> IF k \in K THEN NoKey ELSE keys[k]]
          /\ leases' = [w \in Workflows |-> IF w \in L THEN NoLease ELSE leases[w]]
    BY Zenon DEF Cleanup
  <2>2. /\ W \in SUBSET TW
        /\ K \in SUBSET TK
        /\ L \in SUBSET TL
    BY BatchEligible, Zenon
  <2> QED  BY <2>1, <2>2, Zenon
<1> QED  BY <1>1, Zenon

-----------------------------------------------------------------------------
(* Type correctness *)

\* Every call of a client and every tick keeps the tables well formed.
LEMMA TypeNext ==
  ASSUME TypeOK, [Next]_vars
  PROVE  TypeOK'
<1> USE ClientAssumption, StoreAssumption
<1>1. ASSUME NEW c \in Clients, ClientCreate(c) PROVE TypeOK'
  BY <1>1, Zenon DEF ClientCreate, Create, TypeOK, RowType, Status
<1>2. ASSUME NEW c \in Clients, ClientUpdate(c) PROVE TypeOK'
  <2>1. states' \in [Workflows -> RowType]
    BY <1>2, UpdateTyped, Zenon DEF ClientUpdate
  <2> QED  BY <1>2, <2>1, Zenon DEF ClientUpdate, TypeOK
<1>3. ASSUME NEW c \in Clients, ClientReserve(c) PROVE TypeOK'
  <2>1. keys' \in [Keys -> KeyType]
    BY <1>3 DEF ClientReserve, Reserve, TypeOK, KeyType
  <2> QED  BY <1>3, <2>1, Zenon DEF ClientReserve, TypeOK
<1>4. ASSUME NEW c \in Clients, ClientComplete(c) PROVE TypeOK'
  <2> DEFINE done == [keys[KeyOf[c]] EXCEPT !.workflow_id = Target[c],
                                           !.status = "completed",
                                           !.outcome = c]
  <2>1. keys' \in [Keys -> KeyType]
    <3>1. keys[KeyOf[c]] \in KeyType
      BY Zenon DEF TypeOK
    <3>2. done \in KeyType
      BY <3>1, Zenon DEF KeyType
    <3>3. keys' \in {[keys EXCEPT ![KeyOf[c]] = done], keys}
      BY <1>4, Zenon DEF ClientComplete, Complete
    <3> QED  BY <3>2, <3>3, Zenon DEF TypeOK
  <2> QED  BY <1>4, <2>1, Zenon DEF ClientComplete, TypeOK
<1>5. ASSUME NEW c \in Clients, ClientAcquire(c) PROVE TypeOK'
  BY <1>5 DEF ClientAcquire, Acquire, TypeOK, Owners
<1>6. ASSUME NEW c \in Clients, ClientRenew(c) PROVE TypeOK'
  <2>1. PICK skew \in -Tolerance..Tolerance :
          /\ now + LeaseTTL + skew >= 0
          /\ Renew(Target[c], held[c], now + LeaseTTL + skew)
    BY <1>6, Zenon DEF ClientRenew
  <2>2. now + LeaseTTL + skew \in Nat
    BY <2>1 DEF TypeOK
  <2>3. leases' \in [Workflows -> [owner_id : Owners, fencing_token : Nat, expires_at : Nat]]
    BY <2>1, <2>2, SMTT(30) DEF Renew, TypeOK
  <2>4. believed' \in [Clients -> Nat \cup {NoBelief}]
    BY <1>6, <2>3, Zenon DEF ClientRenew, TypeOK
  <2> QED  BY <1>6, <2>3, <2>4, Zenon DEF ClientRenew, TypeOK
<1>7. ASSUME NEW c \in Clients, ClientRelease(c) PROVE TypeOK'
  BY <1>7, Zenon DEF ClientRelease, Release, TypeOK, Owners
<1>8. ASSUME NEW w \in Workflows, CancelUpdate(w) PROVE TypeOK'
  <2>1. states' \in [Workflows -> RowType]
    BY <1>8 DEF CancelUpdate, Update, UpdateResult, TypeOK, RowType
  <2> QED  BY <1>8, <2>1, Zenon DEF CancelUpdate, TypeOK
<1>9. CASE OperatorCleanup
  <2>1. PICK t \in 0..now : Cleanup(t, t)
    BY <1>9, Zenon DEF OperatorCleanup
  <2>2. states' \in [Workflows -> RowType]
    BY <2>1, CleanupRemoves DEF TypeOK, RowType
  <2>3. keys' \in [Keys -> KeyType]
    BY <2>1, CleanupRemoves, SMTT(30) DEF TypeOK, KeyType
  <2>4. leases' \in [Workflows -> [owner_id : Owners, fencing_token : Nat, expires_at : Nat]]
    BY <2>1, CleanupRemoves DEF TypeOK, Owners
  <2> QED  BY <1>9, <2>2, <2>3, <2>4, Zenon DEF OperatorCleanup, TypeOK
<1>10. CASE Tick
  BY <1>10 DEF Tick, TypeOK
<1>11. CASE UNCHANGED vars
  BY <1>11, Zenon DEF vars, TypeOK
<1> QED
  BY <1>1, <1>2, <1>3, <1>4, <1>5, <1>6, <1>7, <1>8, <1>9, <1>10, <1>11, Zenon DEF Next

\* Every reachable row, key, lease and client record is well formed.
THEOREM StoreTypeOK == Spec => []TypeOK
<1>1. Init => TypeOK
  BY DEF Init, StoreInit, TypeOK, RowType, KeyType, Owners
<1> QED  BY <1>1, TypeNext, PTL DEF Spec

-----------------------------------------------------------------------------
(* Fencing *)

\* The lease row of the client's workflow carries the owner and token the
\* client was granted, whether or not it has expired.
RowIsOf(c) ==
  /\ held[c] # NoFence
  /\ leases[Target[c]].owner_id = held[c].owner_id
  /\ leases[Target[c]].fencing_token = held[c].fencing_token

\* SupersededIsFenced is not inductive: a row that no longer satisfies the
\* fence because it has expired may be renewed or read again later.  Ownership
\* drops the expiry, remembers whose owner id a grant carries, and ties a
\* client's unexpired copy of the lease to the row it is a copy of.
Ownership ==
  \A c \in Clients :
    /\ held[c] # NoFence => held[c].owner_id = OwnerOf[c]
    /\ RowIsOf(c) => latest[Target[c]] = c
    /\ Believes(c) => RowIsOf(c) /\ leases[Target[c]].expires_at = believed[c]

\* No grant and no lease exist initially.
LEMMA OwnershipInit == Init => Ownership
  BY Zenon DEF Init, StoreInit, Ownership, RowIsOf, Believes

\* A step that touches neither leases nor grants, while the clock does not go
\* back, disturbs nothing.
LEMMA OwnershipFrame ==
  ASSUME TypeOK, Ownership, UNCHANGED <<leases, held, believed, latest>>,
         now' \in Nat, now' >= now
  PROVE  Ownership'
  BY StoreAssumption DEF TypeOK, Ownership, RowIsOf, Believes

\* With an owner id per client, every step preserves Ownership.
LEMMA OwnershipNext ==
  ASSUME DistinctOwners, TypeOK, Ownership, [Next]_vars
  PROVE  Ownership'
<1> USE ClientAssumption, StoreAssumption
<1>1. ASSUME NEW c \in Clients,
             ClientCreate(c) \/ ClientUpdate(c) \/ ClientReserve(c) \/ ClientComplete(c)
      PROVE  Ownership'
  <2>1. UNCHANGED <<leases, held, believed, latest, now>>
    BY <1>1, Zenon DEF ClientCreate, ClientUpdate, ClientReserve, ClientComplete
  <2> QED  BY <2>1, OwnershipFrame DEF TypeOK
<1>2. ASSUME NEW c \in Clients, ClientAcquire(c) PROVE Ownership'
  <2> DEFINE w == Target[c]
  <2>1. PICK expires \in Nat : Acquire(w, OwnerOf[c], expires)
    BY <1>2 DEF ClientAcquire, TypeOK
  <2>2. leases' = [leases EXCEPT ![w] = [owner_id |-> OwnerOf[c],
                                         fencing_token |-> @.fencing_token + 1,
                                         expires_at |-> expires]]
    BY <1>2, <2>1, Zenon DEF ClientAcquire, Acquire
  <2>3. /\ held' = [held EXCEPT ![c] = [owner_id |-> OwnerOf[c],
                                        fencing_token |-> leases'[w].fencing_token]]
        /\ believed' = [believed EXCEPT ![c] = expires]
        /\ latest' = [latest EXCEPT ![w] = c]
        /\ now' = now
    BY <1>2, <2>2, Zenon DEF ClientAcquire, TypeOK
  <2>4. \A d \in Clients : Target[d] = w => ~Believes(d)
    <3> SUFFICES ASSUME NEW d \in Clients, Target[d] = w, Believes(d) PROVE FALSE
      BY Zenon
    <3>1. RowIsOf(d) /\ leases[w].expires_at = believed[d] /\ held[d].owner_id = OwnerOf[d]
      BY Zenon DEF Ownership, RowIsOf
    <3>2. leases[w] # NoLease
      BY <3>1 DEF RowIsOf
    <3>3. leases[w].expires_at <= now - Tolerance
      BY <1>2, <3>2, Zenon DEF ClientAcquire, AcquireResult
    <3> QED  BY <3>1, <3>3 DEF Believes, TypeOK
  <2>5. ASSUME NEW d \in Clients
        PROVE  /\ held'[d] # NoFence => held'[d].owner_id = OwnerOf[d]
               /\ RowIsOf(d)' => latest'[Target[d]] = d
               /\ Believes(d)' => RowIsOf(d)' /\ leases'[Target[d]].expires_at = believed'[d]
    <3>1. CASE d = c
      BY <2>2, <2>3, <3>1, Zenon DEF TypeOK, RowIsOf
    <3>2. CASE d # c /\ Target[d] = w
      <4>1. held'[d] = held[d] /\ believed'[d] = believed[d]
        BY <2>3, <3>2, Zenon DEF TypeOK
      <4>2. leases'[w].owner_id = OwnerOf[c]
        BY <2>2, Zenon DEF TypeOK
      <4>3. ~RowIsOf(d)'
        BY <3>2, <4>1, <4>2 DEF RowIsOf, Ownership, DistinctOwners
      <4>4. ~Believes(d)'
        BY <2>3, <2>4, <3>2, <4>1, Zenon DEF Believes
      <4> QED  BY <4>1, <4>3, <4>4, Zenon DEF Ownership
    <3>3. CASE d # c /\ Target[d] # w
      BY <2>2, <2>3, <3>3, Zenon DEF TypeOK, RowIsOf, Ownership, Believes
    <3> QED  BY <3>1, <3>2, <3>3, Zenon
  <2> QED  BY <2>5, Zenon DEF Ownership
<1>3. ASSUME NEW c \in Clients, ClientRenew(c) PROVE Ownership'
  <2> DEFINE w == Target[c]
  <2>1. PICK expires \in Nat : Renew(w, held[c], expires)
    BY <1>3 DEF ClientRenew, TypeOK
  <2>2. leases' = [leases EXCEPT ![w] = [@ EXCEPT !.expires_at = expires]]
    BY <1>3, <2>1, Zenon DEF ClientRenew, Renew
  <2>3. /\ believed' = [believed EXCEPT ![c] = expires]
        /\ UNCHANGED <<held, latest, now>>
    BY <1>3, <2>2, Zenon DEF ClientRenew, TypeOK
  <2>4. RowIsOf(c)
    BY <1>3, Zenon DEF ClientRenew, RenewResult, FenceHolds, RowIsOf
  <2>5. \A d \in Clients : RowIsOf(d)' <=> RowIsOf(d)
    BY <2>2, <2>3 DEF TypeOK, RowIsOf
  <2>6. ASSUME NEW d \in Clients, Believes(d)'
        PROVE  RowIsOf(d)' /\ leases'[Target[d]].expires_at = believed'[d]
    <3>1. CASE d = c
      BY <2>2, <2>3, <2>4, <2>5, <3>1, Zenon DEF TypeOK
    <3>2. CASE d # c
      <4>1. Believes(d) /\ believed'[d] = believed[d]
        BY <2>3, <2>6, <3>2, Zenon DEF TypeOK, Believes
      <4>2. Target[d] # w
        BY <2>4, <3>2, <4>1 DEF Ownership, RowIsOf, DistinctOwners
      <4> QED  BY <2>2, <2>5, <4>1, <4>2, Zenon DEF Ownership, TypeOK
    <3> QED  BY <3>1, <3>2, Zenon
  <2> QED  BY <2>3, <2>5, <2>6, Zenon DEF Ownership
<1>4. ASSUME NEW c \in Clients, ClientRelease(c) PROVE Ownership'
  <2> DEFINE w == Target[c]
  <2>1. /\ held' = [held EXCEPT ![c] = NoFence]
        /\ believed' = [believed EXCEPT ![c] = NoBelief]
        /\ UNCHANGED <<latest, now>>
        /\ Release(w, held[c])
        /\ held[c] # NoFence
    BY <1>4, Zenon DEF ClientRelease
  <2>2. leases' = [leases EXCEPT ![w] = IF RowIsOf(c) THEN NoLease ELSE @]
    BY <2>1, Zenon DEF Release, RowIsOf, TypeOK
  <2>3. ASSUME NEW d \in Clients, d # c
        PROVE  /\ held'[d] = held[d] /\ believed'[d] = believed[d]
               /\ RowIsOf(d)' => RowIsOf(d)
               /\ RowIsOf(d) => leases'[Target[d]] = leases[Target[d]]
    <3>1. held'[d] = held[d] /\ believed'[d] = believed[d]
      BY <2>1, <2>3, Zenon DEF TypeOK
    <3>2. RowIsOf(d)' => RowIsOf(d)
      BY <2>2, <3>1, Zenon DEF TypeOK, RowIsOf, Ownership
    <3>3. RowIsOf(d) => leases'[Target[d]] = leases[Target[d]]
      BY <2>2, <2>3, SMTT(30) DEF TypeOK, RowIsOf, Ownership, DistinctOwners
    <3> QED  BY <3>1, <3>2, <3>3, Zenon
  <2>4. ASSUME NEW d \in Clients
        PROVE  /\ held'[d] # NoFence => held'[d].owner_id = OwnerOf[d]
               /\ RowIsOf(d)' => latest'[Target[d]] = d
               /\ Believes(d)' => RowIsOf(d)' /\ leases'[Target[d]].expires_at = believed'[d]
    <3>1. CASE d = c
      BY <2>1, <3>1, Zenon DEF TypeOK, RowIsOf, Believes
    <3>2. CASE d # c
      <4>1. Believes(d)' => Believes(d)
        BY <2>1, <2>3, <3>2, Zenon DEF Believes
      <4> QED  BY <2>1, <2>3, <3>2, <4>1, SMTT(30) DEF Ownership, RowIsOf
    <3> QED  BY <3>1, <3>2, Zenon
  <2> QED  BY <2>4, Zenon DEF Ownership
<1>5. ASSUME NEW w \in Workflows, CancelUpdate(w) PROVE Ownership'
  BY <1>5, OwnershipFrame DEF CancelUpdate, TypeOK
<1>6. CASE OperatorCleanup
  <2>1. PICK t \in 0..now : Cleanup(t, t)
    BY <1>6, Zenon DEF OperatorCleanup
  <2>2. UNCHANGED <<held, believed, latest, now>>
    BY <1>6, Zenon DEF OperatorCleanup
  <2>3. \A w \in Workflows :
          \/ leases'[w] = leases[w]
          \/ leases'[w] = NoLease /\ leases[w].expires_at <= now - Tolerance
    BY <2>1, CleanupRemoves DEF TypeOK
  <2>4. ASSUME NEW d \in Clients
        PROVE  /\ RowIsOf(d)' => RowIsOf(d)
               /\ Believes(d) => leases'[Target[d]] = leases[Target[d]]
    <3>1. RowIsOf(d)' => RowIsOf(d)
      BY <2>2, <2>3 DEF RowIsOf, Ownership
    <3>2. Believes(d) => leases'[Target[d]] = leases[Target[d]]
      BY <2>3 DEF Believes, Ownership, TypeOK
    <3> QED  BY <3>1, <3>2, Zenon
  <2> QED  BY <2>2, <2>4, SMTT(30) DEF Ownership, RowIsOf, Believes
<1>7. CASE Tick
  BY <1>7, OwnershipFrame DEF Tick, TypeOK
<1>8. CASE UNCHANGED vars
  BY <1>8, OwnershipFrame DEF vars, TypeOK
<1> QED
  BY <1>1, <1>2, <1>3, <1>4, <1>5, <1>6, <1>7, <1>8, Zenon DEF Next

\* Ownership is an invariant.
LEMMA OwnershipHolds ==
  ASSUME DistinctOwners
  PROVE  Spec => [](TypeOK /\ Ownership)
<1>1. Init => TypeOK /\ Ownership
  BY OwnershipInit DEF Init, StoreInit, TypeOK, RowType, KeyType, Owners
<1>2. TypeOK /\ Ownership /\ [Next]_vars => (TypeOK /\ Ownership)'
  BY TypeNext, OwnershipNext, Zenon
<1> QED  BY <1>1, <1>2, PTL DEF Spec

\* With an owner id per client, a client that was superseded never satisfies a
\* fence of the store again, although tokens restart at 1 after every release
\* and every cleanup (release_lease and delete_leases_batch delete the row).
THEOREM StoreFencing ==
  ASSUME DistinctOwners
  PROVE  Spec => []SupersededIsFenced
<1>1. Ownership => SupersededIsFenced
  BY Zenon DEF Ownership, RowIsOf, SupersededIsFenced, FenceHolds
<1> QED  BY <1>1, OwnershipHolds, PTL

\* With an owner id per client and clocks that agree up to the tolerance, no
\* two clients take the same workflow for theirs at the same time.
THEOREM StoreExclusion ==
  ASSUME DistinctOwners
  PROVE  Spec => []BeliefsExclusive
<1>1. TypeOK /\ Ownership => BeliefsExclusive
  BY Zenon DEF Ownership, RowIsOf, BeliefsExclusive, DistinctOwners
<1> QED  BY <1>1, OwnershipHolds, PTL

-----------------------------------------------------------------------------
(* Rows that may no longer change *)

\* update never touches a terminal row, whoever calls it and with whatever
\* version, status and fence.
LEMMA UpdateKeepsTerminal ==
  ASSUME TypeOK, NEW w \in Workflows, NEW from, NEW s, NEW v, NEW f, Update(w, from, s, v, f),
         NEW x \in Workflows, states[x].state.status \in TERMINAL
  PROVE  states'[x] = states[x]
  BY Zenon DEF Update, UpdateResult, UpdateMatches, TypeOK

\* A terminal snapshot is never rewritten: not by a fenced update, a
\* cancellation or a second create; cleanup may remove it.
THEOREM StoreTerminalFrozen == Spec => TerminalFrozen
<1>1. ASSUME TypeOK, [Next]_vars, NEW x \in Workflows,
             states[x].state.status \in TERMINAL
      PROVE  states'[x] \in {states[x], NoRow}
  <2> USE ClientAssumption
  <2>1. ASSUME NEW c \in Clients, ClientCreate(c)
        PROVE  states'[x] = states[x]
    BY <1>1, <2>1 DEF ClientCreate, Create, CreateResult, TypeOK
  <2>2. ASSUME NEW c \in Clients, ClientUpdate(c)
        PROVE  states'[x] = states[x]
    BY <1>1, <2>2, UpdateKeepsTerminal, Zenon DEF ClientUpdate
  <2>3. ASSUME NEW w \in Workflows, CancelUpdate(w)
        PROVE  states'[x] = states[x]
    BY <1>1, <2>3, UpdateKeepsTerminal, Zenon DEF CancelUpdate
  <2>4. ASSUME OperatorCleanup
        PROVE  states'[x] \in {states[x], NoRow}
    BY <1>1, <2>4, CleanupRemoves, Zenon DEF OperatorCleanup
  <2>5. ASSUME NEW c \in Clients,
               \/ ClientReserve(c) \/ ClientComplete(c) \/ ClientAcquire(c)
               \/ ClientRenew(c) \/ ClientRelease(c)
        PROVE  states' = states
    BY <2>5, Zenon DEF ClientReserve, ClientComplete, ClientAcquire, ClientRenew, ClientRelease
  <2>6. CASE Tick \/ UNCHANGED vars
    BY <2>6, Zenon DEF Tick, vars
  <2> QED  BY <1>1, <2>1, <2>2, <2>3, <2>4, <2>5, <2>6, Zenon DEF Next
<1>2. TypeOK /\ [Next]_vars
        => [\A w \in Workflows : states[w].state.status \in TERMINAL
                                  => states'[w] \in {states[w], NoRow}]_vars
  BY <1>1, Zenon
<1> QED  BY <1>2, StoreTypeOK, PTL DEF Spec, TerminalFrozen

\* A completed key that no clock takes for expired keeps its workflow and
\* outcome: reserve_idempotency returns it as it is, complete_idempotency
\* refuses it, cleanup leaves it alone.
THEOREM StoreCompletedFrozen == Spec => CompletedKeyFrozen
<1>1. ASSUME TypeOK, [Next]_vars, NEW k \in Keys,
             keys[k].status = "completed", keys[k].expires_at > now + Tolerance
      PROVE  keys'[k] = keys[k]
  <2> USE ClientAssumption, StoreAssumption
  <2>1. ASSUME NEW c \in Clients, ClientReserve(c)
        PROVE  keys'[k] = keys[k]
    <3>1. PICK skew \in -Tolerance..Tolerance :
            Reserve(KeyOf[c], KeyOf[c], Target[c], now + skew, now + skew + KeyTTL)
      BY <2>1, Zenon DEF ClientReserve
    <3>2. CASE KeyOf[c] = k
      <4>1. ~KeyExpired(k, now + skew) /\ keys[k] # NoKey
        BY <1>1, <3>1 DEF KeyExpired, TypeOK, KeyType
      <4> QED  BY <3>1, <3>2, <4>1, Zenon DEF Reserve
    <3>3. CASE KeyOf[c] # k
      BY <3>1, <3>3, <1>1, Zenon DEF Reserve, TypeOK
    <3> QED  BY <3>2, <3>3, Zenon
  <2>2. ASSUME NEW c \in Clients, ClientComplete(c)
        PROVE  keys'[k] = keys[k]
    BY <1>1, <2>2, Zenon DEF ClientComplete, Complete, CompleteResult, TypeOK
  <2>3. ASSUME OperatorCleanup
        PROVE  keys'[k] = keys[k]
    <3>1. PICK t \in 0..now : Cleanup(t, t)
      BY <2>3, Zenon DEF OperatorCleanup
    <3>2. keys[k].expires_at \in Nat /\ now \in Nat
      BY <1>1, Zenon DEF TypeOK, KeyType
    <3>3. ~(keys[k].expires_at <= t)
      BY <1>1, <3>1, <3>2
    <3> QED  BY <3>1, <3>3, CleanupRemoves, Zenon
  <2>4. ASSUME NEW c \in Clients,
               \/ ClientCreate(c) \/ ClientUpdate(c) \/ ClientAcquire(c)
               \/ ClientRenew(c) \/ ClientRelease(c)
        PROVE  keys' = keys
    BY <2>4, Zenon DEF ClientCreate, ClientUpdate, ClientAcquire, ClientRenew, ClientRelease
  <2>5. CASE Tick \/ UNCHANGED vars \/ \E w \in Workflows : CancelUpdate(w)
    BY <2>5, Zenon DEF Tick, vars, CancelUpdate
  <2> QED  BY <1>1, <2>1, <2>2, <2>3, <2>4, <2>5, Zenon DEF Next
<1>2. TypeOK /\ [Next]_vars
        => [\A k \in Keys :
              keys[k].status = "completed" /\ keys[k].expires_at > now + Tolerance
                => keys'[k] = keys[k]]_vars
  BY <1>1, Zenon
<1> QED  BY <1>2, StoreTypeOK, PTL DEF Spec, CompletedKeyFrozen
=============================================================================
