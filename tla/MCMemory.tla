---------------------------- MODULE MCMemory ------------------------------
(***************************************************************************)
(* The two memory providers, checked side by side.  They share no state, so   *)
(* a behaviour exercises one of them, chosen at the start (focus).           *)
(***************************************************************************)
EXTENDS LocalMemory, RedisMemory, TLC

VARIABLE focus

MCScopes ==
    {[tenant |-> "t", session |-> "s", conversation |-> "c", source |-> None],
     [tenant |-> None, session |-> "s", conversation |-> None, source |-> None]}

\* Sessions and Redis ids are interchangeable.
MCSymmetry == Permutations(Sessions) \cup Permutations(RedisIds)

MCInit ==
    /\ focus \in {"memory", "redis"}
    /\ MemoryInit /\ RedisInit
    /\ focus # "memory" => policy = CHOOSE p \in Policies : TRUE

MCNext ==
    \/ focus = "memory" /\ MemoryNext /\ UNCHANGED <<focus, redisVars>>
    \/ focus = "redis" /\ RedisNext /\ UNCHANGED <<focus, memVars>>

MCSpec == MCInit /\ [][MCNext]_<<focus, memVars, redisVars>>

=============================================================================
