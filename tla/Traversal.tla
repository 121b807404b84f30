------------------------------- MODULE Traversal -------------------------------
(***************************************************************************)
(* The bounded graph queries.  TraversePostgres walks the graph level by   *)
(* level, one query each, while reconciliation adds and removes edges;     *)
(* Traverse does the same over edges in memory.  assetRoute takes the      *)
(* depth and the number of nodes from the request.                         *)
(***************************************************************************)
EXTENDS Naturals, FiniteSets

CONSTANTS
    Assets,
    Start,         \* the asset of the request
    Depths,        \* values of maxDepth in requests
    NodeCounts,    \* values of maxNodes in requests
    Absent,        \* what such a value is in a request that has no number there
    DefaultDepth,
    DefaultNodes,
    MaxDepth,      \* MaxGraphDepth
    MaxNodes,      \* MaxGraphNodes
    MaxChanges     \* bound on the changes of edges during a request

ASSUME TraversalAssumption ==
    /\ Start \in Assets /\ IsFiniteSet(Assets)
    /\ Depths \subseteq Nat /\ NodeCounts \subseteq Nat
    /\ DefaultDepth \in Nat \ {0} /\ DefaultNodes \in Nat \ {0}
    /\ MaxDepth \in Nat \ {0} /\ MaxNodes \in Nat \ {0} /\ MaxChanges \in Nat

VARIABLES
    edges,           \* pairs with an ACTIVE relationship
    stable, ever,    \* edges there were all the time, and at some time, since Init
    changes,
    asked,           \* depth and nodes of the request
    reverse,
    level, nodes, frontier,
    relationships,   \* the edges in the answer
    outcome          \* "running", "missing", "limit", "failed" or "ok"

graph == <<edges, stable, ever, changes>>
vars == <<graph, asked, reverse, level, nodes, frontier, relationships, outcome>>

Edges == {e \in Assets \X Assets : e[1] # e[2]}

Init ==
    /\ edges \in SUBSET Edges
    /\ stable = edges /\ ever = edges /\ changes = 0
    /\ asked \in [depth : Depths \cup {Absent}, nodes : NodeCounts \cup {Absent}]
    /\ reverse \in BOOLEAN
    /\ level = 0
    /\ nodes = {Start} /\ frontier = {Start}
    /\ relationships = {}
    /\ outcome = "running"

Change(e) ==
    /\ outcome = "running" /\ changes < MaxChanges
    /\ changes' = changes + 1
    /\ edges' = IF e \in edges THEN edges \ {e} ELSE edges \cup {e}
    /\ stable' = stable \ {e}
    /\ ever' = ever \cup {e}
    /\ UNCHANGED <<asked, reverse, level, nodes, frontier, relationships, outcome>>

-----------------------------------------------------------------------------
BoundedInt(n, default, min, max) ==
    IF n = Absent THEN default ELSE IF n < min THEN min ELSE IF n > max THEN max ELSE n

Depth == BoundedInt(asked.depth, DefaultDepth, 1, MaxDepth)
Limit == BoundedInt(asked.nodes, DefaultNodes, 1, MaxNodes)

(* The first query looks for the asset in the organization.                *)
Exists ==
    /\ outcome = "running" /\ level = 0
    /\ level' = 1
    /\ UNCHANGED <<graph, asked, reverse, nodes, frontier, relationships, outcome>>

NotFound ==
    /\ outcome = "running" /\ level = 0
    /\ outcome' = "missing"
    /\ UNCHANGED <<graph, asked, reverse, level, nodes, frontier, relationships>>

Targets(set, from) ==
    IF reverse THEN {e[1] : e \in {f \in set : f[2] \in from}}
    ELSE {e[2] : e \in {f \in set : f[1] \in from}}

FoundVariant == Targets(edges, frontier) \ frontier

(* The query of a level: at most one row more than there is room for.      *)
Found == Targets(edges, frontier) \ nodes

Room == Limit - Cardinality(nodes)

LevelGuardVariant == level \in 1..(Depth - 1) /\ frontier # {}
LevelGuard == level \in 1..Depth /\ frontier # {}

Expand ==
    /\ outcome = "running" /\ LevelGuard
    /\ Cardinality(Found) <= Room
    /\ nodes' = nodes \cup Found
    /\ frontier' = Found
    /\ level' = level + 1
    /\ UNCHANGED <<graph, asked, reverse, relationships, outcome>>

Exceed ==
    /\ outcome = "running" /\ LevelGuard
    /\ Cardinality(Found) > Room
    /\ outcome' = "limit"
    /\ UNCHANGED <<graph, asked, reverse, level, nodes, frontier, relationships>>

Answer ==
    /\ outcome = "running" /\ level > 0 /\ ~LevelGuard
    /\ relationships' = edges \cap (nodes \X nodes)
    /\ outcome' = "ok"
    /\ UNCHANGED <<graph, asked, reverse, level, nodes, frontier>>

(* A query fails or the deadline passes.                                   *)
Fail ==
    /\ outcome = "running"
    /\ outcome' = "failed"
    /\ UNCHANGED <<graph, asked, reverse, level, nodes, frontier, relationships>>

Next == (\E e \in Edges : Change(e)) \/ Exists \/ NotFound \/ Expand \/ Exceed \/ Answer \/ Fail

Spec == Init /\ [][Next]_vars

-----------------------------------------------------------------------------
(* Traverse over a set of edges, level by level.                           *)
Further(set, l) ==
    LET next == Targets(set, l.frontier) \ l.seen
    IN [seen |-> l.seen \cup next, frontier |-> next]

Traverse(set, depth) ==
    LET after[k \in Nat] ==
            IF k = 0 THEN [seen |-> {Start}, frontier |-> {Start}] ELSE Further(set, after[k - 1])
    IN after[depth].seen

(* Whatever edges come and go between its queries, an answer has every     *)
(* asset within the depth over edges there were all the time, none that is *)
(* not within the depth over edges there were at some time, and no more    *)
(* than the limit.  On a graph at rest it is what Traverse finds.          *)
AnswersAreBetween ==
    outcome = "ok" =>
        /\ Traverse(stable, Depth) \subseteq nodes
        /\ nodes \subseteq Traverse(ever, Depth)
        /\ Cardinality(nodes) <= Limit
        /\ relationships \subseteq nodes \X nodes

(* A request is turned away for its size only if there is more within its  *)
(* depth than it may have: revisiting assets on a cycle, or counting one   *)
(* twice, does not use up the limit.                                       *)
RefusalsAreDue == outcome = "limit" => Cardinality(Traverse(ever, Depth)) > Limit

=============================================================================
