--------------------------- MODULE MCStoreClients ---------------------------
(***************************************************************************)
(* The state stores: arbitrary clients of the shared store and, beside      *)
(* them, runs of the linear runner over the local ones.  They share no      *)
(* state, so a behaviour exercises one of them, chosen at the start (focus). *)
(***************************************************************************)
EXTENDS StoreClients, LocalRunner, TLC

CONSTANTS c1, c2, c3, w1, w2, k1

VARIABLE focus

OneWorkflow == [c \in Clients |-> w1]

OneKey == [c \in Clients |-> k1]

\* One runtime per execution attempt.
OwnOwner == [c \in Clients |-> c]

\* With one workflow and an owner each, the clients are interchangeable.
ClientSymmetry == Permutations(Clients)

MCInit ==
    /\ focus \in {"shared", "local"}
    /\ Init /\ LocalInit
    /\ focus = "shared" => backend = "memory"

MCNext ==
    \/ focus = "shared" /\ Next /\ UNCHANGED <<focus, localVars>>
    \/ focus = "local" /\ LocalNext /\ UNCHANGED <<focus, vars>>

MCSpec == MCInit /\ [][MCNext]_<<focus, vars, localVars>>

=============================================================================
