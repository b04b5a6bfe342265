----------------------------- MODULE MCMetadata -----------------------------
(***************************************************************************)
(* Two hosts discover one source whose schema changes: a field the bundle  *)
(* refers to is retyped, a column is added, a table is dropped, a column   *)
(* gets a name outside the identifier pattern.  Two reviewers work on the  *)
(* proposals of a snapshot.  focus says which of the two a behaviour is    *)
(* about.                                                                  *)
(***************************************************************************)
EXTENDS MetadataOperations, ProposalReview, TLC

VARIABLE focus

CONSTANTS h1, h2

MCHosts == {h1, h2}

MCOddNames == {"net amount"}

MCSystemNames == {"sqlite_sequence"}

Col(name, type) == [name |-> name, type |-> type, nullable |-> name # "id"]

Customers == [name |-> "customers", kind |-> "table", columns |-> <<Col("id", "INTEGER")>>,
              pk |-> {"id"}, uniques |-> <<>>, fks |-> <<>>]

Orders(columns) ==
    [name |-> "orders", kind |-> "table", columns |-> columns, pk |-> {"id"},
     uniques |-> <<[name |-> "uq", columns |-> {"id", "amount"}]>>,
     fks |-> <<[from |-> "id", to |-> "id", target |-> "customers"]>>]

Internal == [name |-> "sqlite_sequence", kind |-> "table", columns |-> <<>>, pk |-> {},
             uniques |-> <<>>, fks |-> <<>>]

MCSources ==
    << <<Customers, Orders(<<Col("id", "INTEGER"), Col("amount", "VARCHAR(20)")>>), Internal>>,
       <<Customers, Orders(<<Col("id", "INTEGER"), Col("amount", "INTEGER")>>), Internal>>,
       <<Customers, Orders(<<Col("id", "INTEGER"), Col("amount", "VARCHAR"), Col("note", "")>>)>>,
       <<Orders(<<Col("id", "INTEGER"), Col("amount", "VARCHAR")>>), Internal>>,
       <<Customers, Orders(<<Col("id", "INTEGER"), Col("net amount", "VARCHAR")>>)>> >>

MCRefs == [objects |-> {"orders"}, fields |-> {"id", "amount"}, relationships |-> {}]

Unlimited == MetadataDiscoveryConfig({}, {}, 5, 5)

Both == [given |-> TRUE, objects |-> {"customers", "orders"}, fields |-> {}]

Anything == [given |-> FALSE, objects |-> {}, fields |-> {}]

Strict(tenant) == SnapshotActivationPolicy(1, FALSE, {}, tenant, "src")

Lax == SnapshotActivationPolicy(NoAge, TRUE, {}, NoName, NoName)

Setup(backend, cfg, own, authorized, tenant, policy) ==
    [backend |-> backend, cfg |-> cfg, own |-> own, source |-> "src",
     authorized |-> authorized, tenant |-> tenant, policy |-> policy]

Pair(a, b) == [h \in MCHosts |-> IF h = h1 THEN a ELSE b]

MCSetups ==
    {\* two hosts of one tenant
     Pair(Setup("sqlite", Unlimited, Both, "src", "acme", Strict("acme")),
          Setup("sqlite", Unlimited, Both, "src", "acme", Lax)),
     \* two tenants of one source
     Pair(Setup("postgresql", Unlimited, Both, "src", "acme", NoPolicy),
          Setup("postgresql", Unlimited, Both, "src", "zeta", Strict("zeta"))),
     \* limits and allowlists that cut the catalog
     Pair(Setup("sqlite", MetadataDiscoveryConfig({}, {}, 1, 5), Both, "src", "acme", NoPolicy),
          Setup("sqlite", MetadataDiscoveryConfig({"orders"}, {}, 5, 1), Both, "src", "acme", Lax)),
     Pair(Setup("package", MetadataDiscoveryConfig({}, {"id"}, 5, 5), Both, "src", "acme", NoPolicy),
          Setup("mongodb", Unlimited, Anything, "src", "acme", Lax)),
     \* a call beyond the allowlist, and a discoverer of another source
     Pair(Setup("sqlite", MetadataDiscoveryConfig({"salaries"}, {}, 5, 5), Both, "src", "acme", Lax),
          Setup("sqlite", Unlimited, Both, "other", "acme", Lax))}
------------------------------------------------------------------------------
MCReviewers == {h1, h2}

MCIdentifierNames == {"id"}

MCReferenceNames == "customer_id" :> "customer"

MCAliasNames == {"customer_id"}

MCClassifiedNames == "customer_id" :> "person_name"

MCRevisedValues == {{"integer"}}

Obj(name, columns) ==
    MetadataObject(name, "table",
        [i \in DOMAIN columns |-> MetadataField(name, columns[i].name, columns[i].type, TRUE)],
        <<>>, FALSE)

Snap(objects, relationships) ==
    MetadataSnapshot(MetadataSourceReference("src", "cat"), objects, relationships,
                     MetadataFreshness(1, {}))

MCReviewed ==
    {\* a number, with its measures; two tables with a column of the same name
     Snap(<<Obj("orders", <<Col("amount", "INTEGER")>>)>>, <<>>),
     Snap(<<Obj("customers", <<Col("id", "TEXT")>>), Obj("orders", <<Col("id", "TEXT")>>)>>, <<>>),
     \* a reference by name and by constraint
     Snap(<<Obj("customer", <<>>), Obj("orders", <<Col("customer_id", "TEXT")>>)>>,
          <<MetadataRelationship(<<"orders", "customer", "customer_id">>, "orders", "customer",
                                 {"customer_id"}, {"id"})>>)}

AnySnapshot == CHOOSE s \in MCReviewed : TRUE

AllVars == <<focus, vars, reviewVars>>

(* The part a behaviour is not about stays in one initial state. *)
MCInit ==
    /\ focus \in {"operations", "review"}
    /\ Init /\ ReviewInit
    /\ focus = "operations" => snap = AnySnapshot
    /\ focus = "review" => store = "ledger" /\ setup = CHOOSE u \in Setups : TRUE

MCNext ==
    \/ focus = "operations" /\ Next /\ UNCHANGED <<focus, reviewVars>>
    \/ focus = "review" /\ ReviewNext /\ UNCHANGED <<focus, vars>>

MCSpec == MCInit /\ [][MCNext]_AllVars

==============================================================================
