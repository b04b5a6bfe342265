---------------------------- MODULE MCPublication ----------------------------
(***************************************************************************)
(* Drafts and the two bundle catalogs, each on an instance of its own: one  *)
(* draft with three people and two concurrent callers; the PostgreSQL       *)
(* catalog with two contents; and the process-local catalog with three, the *)
(* third of which has the version of the second, was built from a newer     *)
(* snapshot and has a dependency.                                           *)
(***************************************************************************)
EXTENDS DraftPublication, DurableCatalog, BundleCatalog, TLC

CONSTANTS ann, bob, eve,
          f1, f2, f3, dep

VARIABLE focus

MCRolesOf == (ann :> {"author", "publisher"}) @@ (bob :> {"reviewer", "approver"})
                 @@ (eve :> {"approver", "publisher"})

MCVersionOf == (f1 :> 1) @@ (f2 :> 2)

MCModelVersion == (f1 :> 1) @@ (f2 :> 2) @@ (f3 :> 2)

MCSnapshotOf == (f1 :> "s1") @@ (f2 :> "s1") @@ (f3 :> "s2")

MCDependsOn == (f1 :> {}) @@ (f2 :> {}) @@ (f3 :> {dep})

\* A bare bundle, the aggregate of a content, evidence whose audit does not mention
\* it, and an audit that claims evidence which is not supplied.
MCPublishInputs ==
    {[aggregate |-> FALSE, of |-> NoContent, manifest |-> FALSE, claimed |-> FALSE,
      evidence |-> "absent", audited |-> FALSE]}
    \cup {[aggregate |-> TRUE, of |-> f, manifest |-> TRUE, claimed |-> TRUE,
           evidence |-> "production", audited |-> TRUE] : f \in {f1, f2, f3}}
    \cup {[aggregate |-> FALSE, of |-> f1, manifest |-> TRUE, claimed |-> c,
           evidence |-> IF c THEN "absent" ELSE "production", audited |-> FALSE] : c \in BOOLEAN}

MCProductions == {[given |-> FALSE, snapshot |-> "s1", allowed |-> TRUE],
                  [given |-> TRUE, snapshot |-> "s2", allowed |-> TRUE],
                  [given |-> TRUE, snapshot |-> "s1", allowed |-> FALSE]}

MCInit == focus \in {"draft", "durable", "local"} /\ Init /\ CatalogInit /\ LocalCatalogInit

MCNext ==
    \/ focus = "draft" /\ Next /\ UNCHANGED <<focus, catalogVars, localVars>>
    \/ focus = "durable" /\ CatalogNext /\ UNCHANGED <<focus, vars, localVars>>
    \/ focus = "local" /\ LocalCatalogNext /\ UNCHANGED <<focus, vars, catalogVars>>

MCSpec == MCInit /\ [][MCNext]_<<focus, vars, catalogVars, localVars>>

==============================================================================
