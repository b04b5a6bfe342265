-------------------------- MODULE MCDurableRuntime --------------------------
(* Instances of DurableRuntime: who submits what, and where it runs. *)
EXTENDS DurableRuntime, TLC

CONSTANTS e1, e2, w1, w2, k1, x1, A, B

\* The client names the workflow in its request.
ExplicitId == [e \in Attempts |-> w1]

\* The client leaves it to the runtime, which makes up a new id each time.
FreshId == [e \in Attempts |-> IF e = e1 THEN w1 ELSE w2]

OwnWorker == [e \in Attempts |-> IF e = e1 THEN A ELSE B]

SameConfig == [e \in Attempts |-> "config"]
=============================================================================
