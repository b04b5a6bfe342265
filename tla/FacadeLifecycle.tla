-------------------------- MODULE FacadeLifecycle --------------------------
(***************************************************************************)
(* The public facade NL2Data: lifecycle, lazy composition of the runtime,   *)
(* and calls of several threads or tasks.  What runs under the facade's lock *)
(* is one step; an await outside of it separates steps.                      *)
(***************************************************************************)
EXTENDS Naturals, FiniteSets

CONSTANTS
    Callers,     \* threads and tasks
    MaxQueries   \* queries a caller may submit

States == {"created", "initializing", "ready", "draining", "closed"}

\* CompositionProfile: a runtime port of the host that is or is not configured, or
\* the four parts of the governed path, with or without a model provider.
Profiles == [custom : {"none", "configured", "unconfigured"}, parts : BOOLEAN, provider : BOOLEAN]

VARIABLES
    profile,    \* the composition, fixed at construction
    lifecycle,
    port,       \* the runtime port: none, then what compose_runtime built
    at,         \* per caller: where its call stands
    left,       \* per caller: queries it may still submit
    releases,   \* how often the runtime port was told to close
    outcomes    \* outcomes returned: the kind of port that answered

facadeVars == <<profile, lifecycle, port, at, left, releases, outcomes>>

FacadeInit ==
    /\ profile \in Profiles
    /\ lifecycle = "created" /\ port = "none"
    /\ at = [c \in Callers |-> "idle"]
    /\ left = [c \in Callers |-> MaxQueries]
    /\ releases = 0 /\ outcomes = {}

\* compose_runtime: the host's port as it is, the deterministic runtime from a
\* complete set of parts, or the port that answers NOT_CONFIGURED.
ComposeRuntime(p) ==
    IF p.custom # "none" THEN "custom" ELSE IF p.parts THEN "deterministic" ELSE "unconfigured"

\* is_configured of the port: the full AI path, or the components of the governed path.
PortConfigured(k) ==
    \/ k = "custom" /\ profile.custom = "configured"
    \/ k = "deterministic" /\ (profile.provider \/ profile.parts)

-----------------------------------------------------------------------------

\* initialize composes under the lock.  When composition raises, the state stays at
\* initializing.
Initialize(c) ==
    /\ at[c] = "idle" /\ lifecycle = "created"
    /\ \/ port' = ComposeRuntime(profile) /\ lifecycle' = "ready"
       \/ lifecycle' = "initializing" /\ UNCHANGED port
    /\ UNCHANGED <<profile, at, left, releases, outcomes>>

\* aquery, get_workflow and cancel require a ready facade and take the port with them.
Submit(c) ==
    /\ at[c] = "idle" /\ left[c] > 0
    /\ lifecycle = "ready"
    /\ at' = [at EXCEPT ![c] = "accepted"]
    /\ left' = [left EXCEPT ![c] = @ - 1]
    /\ UNCHANGED <<profile, lifecycle, port, releases, outcomes>>

\* The port answers; an unexpected failure becomes a FAILED outcome.
Answer(c) ==
    /\ at[c] = "accepted"
    /\ \E o \in IF PortConfigured(port) THEN {"answer", "failed"} ELSE {"not_configured"} :
          outcomes' = outcomes \cup {o}
    /\ at' = [at EXCEPT ![c] = "idle"]
    /\ UNCHANGED <<profile, lifecycle, port, left, releases>>

\* drain rejects new queries and waits for nothing; draining again does nothing.
Drain(c) ==
    /\ at[c] = "idle" /\ lifecycle = "ready"
    /\ lifecycle' = "draining"
    /\ UNCHANGED <<profile, port, at, left, releases, outcomes>>

\* Fault: draining has already set the port aside, so that closing forgets it.
BeginCloseForgets(c) ==
    /\ at[c] = "idle" /\ lifecycle # "closed"
    /\ lifecycle' = "closed"
    /\ at' = [at EXCEPT ![c] = IF port = "none" \/ lifecycle = "draining" THEN "idle" ELSE "closing"]
    /\ UNCHANGED <<profile, port, left, releases, outcomes>>

\* close sets the state under the lock and releases the port outside of it.
BeginClose(c) ==
    /\ at[c] = "idle" /\ lifecycle # "closed"
    /\ lifecycle' = "closed"
    /\ at' = [at EXCEPT ![c] = IF port = "none" THEN "idle" ELSE "closing"]
    /\ UNCHANGED <<profile, port, left, releases, outcomes>>

Release(c) ==
    /\ at[c] = "closing"
    /\ releases' = releases + 1
    /\ at' = [at EXCEPT ![c] = "idle"]
    /\ UNCHANGED <<profile, lifecycle, port, left, outcomes>>

FacadeNext ==
    \E c \in Callers : \/ Initialize(c) \/ Submit(c) \/ Answer(c) \/ Drain(c)
                       \/ BeginClose(c) \/ Release(c)

FacadeFairness == \A c \in Callers : WF_facadeVars(Answer(c)) /\ WF_facadeVars(Release(c))

-----------------------------------------------------------------------------
(* Properties *)

\* However many callers close, drain and query at once, the composed runtime is
\* released at most once, and never while the facade still accepts queries.
ReleasedOnce ==
    /\ releases + Cardinality({c \in Callers : at[c] = "closing"}) <= 1
    /\ releases > 0 => lifecycle = "closed"

\* Every accepted query gets its outcome, also when the facade is drained or closed
\* in the meantime, and a closed facade ends up with its runtime released.
FacadeSettles ==
    /\ \A c \in Callers : at[c] = "accepted" ~> at[c] = "idle"
    /\ (lifecycle = "closed" /\ port # "none") ~> releases = 1

=============================================================================
