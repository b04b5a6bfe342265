--------------------------- MODULE MCWorkflowRun ---------------------------
(***************************************************************************)
(* The plain graph execution on a small clock and, beside it, the facade     *)
(* that accepts requests.  They share no state, so a behaviour exercises one *)
(* of them, chosen at the start (focus).                                     *)
(***************************************************************************)
EXTENDS WorkflowRun, FacadeLifecycle

VARIABLE focus

MCInit ==
    /\ focus \in {"run", "facade"}
    /\ Init /\ FacadeInit
    /\ focus = "run" => profile = [custom |-> "none", parts |-> TRUE, provider |-> TRUE]

MCNext ==
    \/ focus = "run" /\ Next /\ UNCHANGED <<focus, facadeVars>>
    \/ focus = "facade" /\ FacadeNext /\ UNCHANGED <<focus, vars>>

MCSpec ==
    /\ MCInit /\ [][MCNext]_<<focus, vars, facadeVars>>
    /\ WF_vars(focus = "run" /\ Step) /\ FacadeFairness

\* Every execution of the graph returns to its caller, whatever its nodes answer and
\* however the clock runs: _execute_graph ends every stage, retry and wait.
RunReturnsInFocus == focus = "run" => RunReturns

=============================================================================
