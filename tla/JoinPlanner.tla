----------------------------- MODULE JoinPlanner -----------------------------
(***************************************************************************)
(* Planning the joins of a multi-entity intent (planning/join_planner.py)  *)
(* over the governed relationship graph (planning/models.py).  Entity and  *)
(* edge ids are numbers, since the planner works in their order.           *)
(***************************************************************************)
EXTENDS Integers, FiniteSets, Sequences, FiniteSetsExt, SequencesExt

(* RelationshipGraph: edge ids are unique. *)
ValidGraph(graph) == \A e, f \in graph.edges : e.id = f.id => e = f

Outcome(kind, root, steps) == [kind |-> kind, root |-> root, steps |-> steps]

(* _build_adjacency: an edge can be walked both ways. *)
Arc(edge, from, to) == [edge |-> edge, from |-> from, to |-> to]

Arcs(edges) ==
    {Arc(e, e.left, e.right) : e \in edges} \cup {Arc(e, e.right, e.left) : e \in edges}

(* _make_step: a step is turned so that its left side is already joined. *)
MakeStep(arc) ==
    LET forward == arc.from = arc.edge.left
    IN [id |-> arc.edge.id, rel |-> arc.edge.rel, left |-> arc.from, right |-> arc.to,
        leftField |-> IF forward THEN arc.edge.leftField ELSE arc.edge.rightField,
        rightField |-> IF forward THEN arc.edge.rightField ELSE arc.edge.leftField]

(* _shortest_path: a breadth-first search from all joined entities, level by *)
(* level.  An entity on the frontier carries the number of shortest paths to *)
(* it and one of them; the path is used only when it is the only one.        *)
NoPath == [count |-> 0, path |-> <<>>]

NextLevel(arcs, seen, frontier) ==
    LET into(n) == {a \in arcs : a.from \in DOMAIN frontier /\ a.to = n}
    IN [n \in {a.to : a \in {b \in arcs : b.from \in DOMAIN frontier}} \ seen |->
          LET one == CHOOSE a \in into(n) : TRUE
          IN [count |-> MapThenSumSet(LAMBDA a : frontier[a.from].count, into(n)),
              path |-> Append(frontier[one.from].path, one)]]

RECURSIVE Search(_, _, _, _)
Search(arcs, seen, frontier, end) ==
    IF end \in DOMAIN frontier THEN frontier[end]
    ELSE IF DOMAIN frontier = {} THEN NoPath
    ELSE LET next == NextLevel(arcs, seen, frontier)
         IN Search(arcs, seen \cup DOMAIN next, next, end)

(* Fault: every equally short path is as good as another. *)
SearchFirst(arcs, starts, end) ==
    [Search(arcs, starts, [s \in starts |-> [count |-> 1, path |-> <<>>]], end)
        EXCEPT !.count = IF @ > 1 THEN 1 ELSE @]

ShortestPath(arcs, starts, end) ==
    Search(arcs, starts, [s \in starts |-> [count |-> 1, path |-> <<>>]], end)

(* Fault: the target is searched from the root only. *)
ConnectFromRoot(arcs, out, target) ==
    LET found == ShortestPath(arcs, {out.root}, target)
    IN IF out.kind # "plan" THEN out
       ELSE CASE found.count = 0 -> Outcome("not_found", 0, <<>>)
              [] found.count > 1 -> Outcome("ambiguous", 0, <<>>)
              [] OTHER -> [out EXCEPT !.steps = @ \o [i \in DOMAIN found.path |-> MakeStep(found.path[i])]]

(* One round of plan(): join one more required entity. *)
Joined(out) == {out.root} \cup UNION {{out.steps[i].left, out.steps[i].right} : i \in DOMAIN out.steps}

Connect(arcs, out, target) ==
    LET found == ShortestPath(arcs, Joined(out), target)
        new == SelectSeq(found.path, LAMBDA a : \A i \in DOMAIN out.steps : out.steps[i].id # a.edge.id)
    IN IF out.kind # "plan" \/ target \in Joined(out) THEN out
       ELSE CASE found.count = 0 -> Outcome("not_found", 0, <<>>)
              [] found.count > 1 -> Outcome("ambiguous", 0, <<>>)
              [] OTHER -> [out EXCEPT !.steps = @ \o [i \in DOMAIN new |-> MakeStep(new[i])]]

(* JoinPlanner.plan. *)
Unauthorized(view, graph, intent) ==
    \/ intent.source # view.source
    \/ graph.source # view.source
    \/ /\ Cardinality(intent.entities) > 1
       /\ \/ view.entities # {} /\ ~(intent.entities \subseteq view.entities)
          \/ \E e \in graph.edges : e.rel \notin view.rels

PlanJoins(graph, view, intent) ==
    LET root == Min(intent.entities)
        targets == SetToSortSeq(intent.entities \ {root}, <)
    IN IF Unauthorized(view, graph, intent) THEN Outcome("unauthorized", 0, <<>>)
       ELSE FoldLeft(LAMBDA out, t : Connect(Arcs(graph.edges), out, t),
                     Outcome("plan", root, <<>>), targets)
==============================================================================
