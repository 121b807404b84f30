---------------------------- MODULE RequestsProofs ----------------------------
(***************************************************************************)
(* The handlers of Requests for graphs, files, documents and bounds of any *)
(* size.  Traverse, and the grammar of the JSON texts, are recursive       *)
(* functions; what they give is established by induction, with the least   *)
(* counterexample of a well-founded order, and compared with what the      *)
(* handlers find level by level and byte by byte.                          *)
(***************************************************************************)
EXTENDS Requests, FiniteSetTheorems, WellFoundedInduction, TLAPS

\* Induction over the natural numbers, for sets: there is no least number
\* outside S.
LEMMA Induct ==
    ASSUME NEW S, 0 \in S, \A n \in Nat : n \in S => n + 1 \in S
    PROVE  Nat \subseteq S
  <1> DEFINE R == OpToRel(<, Nat)
             T == Nat \ S
  <1> SUFFICES ASSUME T # {} PROVE FALSE
    BY Zenon
  <1>1. \E x \in T : \A y \in T : ~(<<y, x>> \in R)
    BY WFMin, NatLessThanWellFounded
  <1>2. \A x, y \in Nat : y < x => <<y, x>> \in R
    BY DEF OpToRel
  <1> HIDE DEF R
  <1>3. PICK x \in T : \A y \in T : ~(y < x)
    BY Zenon, <1>1, <1>2
  <1>4. x # 0 /\ x - 1 \in Nat /\ x - 1 < x /\ (x - 1) + 1 = x
    BY <1>3
  <1>5. x - 1 \notin T
    BY Zenon, <1>3, <1>4
  <1>6. x - 1 \in S
    BY Zenon, <1>4, <1>5
  <1> QED BY Zenon, <1>3, <1>4, <1>6

\* A function may be iterated from a start.
LEMMA Iterates ==
    ASSUME NEW St, NEW s0 \in St, NEW F \in [St -> St]
    PROVE  \E f \in [Nat -> St] : f[0] = s0 /\ \A n \in Nat : f[n + 1] = F[f[n]]
  <1> DEFINE Part(n, g) == /\ g \in [0..n -> St] /\ g[0] = s0
                           /\ \A k \in Nat : k < n => g[k + 1] = F[g[k]]
             E == {n \in Nat : \E g : Part(n, g)}
  <1>1. Nat \subseteq E
    <2>1. 0 \in E
      <3>1. Part(0, [k \in 0..0 |-> s0])
        OBVIOUS
      <3> QED BY Zenon, <3>1
    <2>2. ASSUME NEW n \in Nat, n \in E
          PROVE  n + 1 \in E
      <3>1. PICK g : Part(n, g)
        BY Zenon, <2>2
      <3> DEFINE h == [k \in 0..(n + 1) |-> IF k <= n THEN g[k] ELSE F[g[n]]]
      <3>2. Part(n + 1, h)
        BY <3>1
      <3> HIDE DEF h, Part
      <3>3. n + 1 \in Nat
        OBVIOUS
      <3> QED BY Zenon, <3>2, <3>3
    <2> HIDE DEF E
    <2> QED BY Zenon, <2>1, <2>2, Induct
  <1>2. ASSUME NEW m \in Nat, NEW n \in Nat, NEW g, NEW h, Part(m, g), Part(n, h)
        PROVE  \A k \in Nat : k <= m /\ k <= n => g[k] = h[k]
    <2> DEFINE A == {k \in Nat : k <= m /\ k <= n => g[k] = h[k]}
    <2>1. 0 \in A
      BY <1>2
    <2>2. ASSUME NEW k \in Nat, k \in A
          PROVE  k + 1 \in A
      BY <1>2, <2>2
    <2> HIDE DEF A
    <2>3. Nat \subseteq A
      BY Zenon, <2>1, <2>2, Induct
    <2> QED BY Zenon, <2>3 DEF A
  <1>3. \A n \in Nat : Part(n, CHOOSE g : Part(n, g))
    BY Zenon, <1>1
  <1> DEFINE G(n) == CHOOSE g : Part(n, g)
             f == [n \in Nat |-> G(n)[n]]
  <1> HIDE DEF G
  <1>4. \A n \in Nat : Part(n, G(n))
    BY Zenon, <1>3 DEF G
  <1>5. f \in [Nat -> St] /\ f[0] = s0
    BY <1>4
  <1>6. ASSUME NEW n \in Nat
        PROVE  f[n + 1] = F[f[n]]
    <2>1. G(n + 1)[n] = G(n)[n]
      <3>1. n + 1 \in Nat /\ n <= n + 1 /\ n <= n
        OBVIOUS
      <3> HIDE DEF Part, f
      <3> QED BY <1>2, <1>4, <3>1
    <2>2. G(n + 1)[n + 1] = F[G(n + 1)[n]]
      BY <1>4
    <2> QED BY <2>1, <2>2
  <1> QED BY Zenon, <1>5, <1>6

\* f[n] is what lies within n steps of Start over the relationships of set.
Walk(set, f) ==
    /\ f \in [Nat -> SUBSET Assets]
    /\ f[0] = {Start}
    /\ \A n \in Nat : f[n + 1] = f[n] \cup Targets(set, f[n])

\* One level of the query, and that it distributes over unions.
LEMMA TargetsOf ==
    ASSUME NEW set \in SUBSET Edges, NEW from, NEW more
    PROVE  /\ Targets(set, from) \subseteq Assets
           /\ Targets(set, from \cup more) = Targets(set, from) \cup Targets(set, more)
  BY DEF Targets, Edges

\* More relationships and more assets lead to more.
LEMMA TargetsGrow ==
    ASSUME NEW set, NEW larger, set \subseteq larger, NEW from, NEW more, from \subseteq more
    PROVE  Targets(set, from) \subseteq Targets(larger, more)
  BY DEF Targets

\* What Traverse computes level by level, from the frontier alone, is the
\* walk.
LEMMA TraverseWalks ==
    ASSUME NEW set \in SUBSET Edges
    PROVE  \E f : Walk(set, f) /\ \A n \in Nat : Traverse(set, n) = f[n]
  <1> DEFINE St == [seen : SUBSET Assets, frontier : SUBSET Assets]
             s0 == [seen |-> {Start}, frontier |-> {Start}]
             F == [l \in St |-> Further(set, l)]
             Levels(g) == g = [k \in Nat |-> IF k = 0 THEN s0 ELSE Further(set, g[k - 1])]
             after == CHOOSE g : Levels(g)
  <1>1. s0 \in St /\ F \in [St -> St]
    BY TargetsOf, TraversalAssumption DEF Further
  <1>2. PICK g \in [Nat -> St] : g[0] = s0 /\ \A n \in Nat : g[n + 1] = F[g[n]]
    <2> HIDE DEF St, s0, F
    <2> QED BY <1>1, Iterates
  <1>3. Levels(g)
    <2>1. \A k \in Nat : k # 0 => k - 1 \in Nat /\ (k - 1) + 1 = k
      OBVIOUS
    <2>2. \A k \in Nat : g[k] = IF k = 0 THEN s0 ELSE Further(set, g[k - 1])
      <3> HIDE DEF s0, St
      <3> QED BY Zenon, <1>2, <2>1
    <2> HIDE DEF s0, St, F
    <2> QED BY <1>2, <2>2
  <1>4. Levels(after)
    BY Zenon, <1>3
  <1>5. \A n \in Nat : Traverse(set, n) = after[n].seen
    BY DEF Traverse
  <1>6. after[0] = s0 /\ \A n \in Nat : after[n + 1] = Further(set, after[n])
    <2>1. \A n \in Nat : n + 1 \in Nat /\ n + 1 # 0 /\ (n + 1) - 1 = n
      OBVIOUS
    <2> HIDE DEF s0, after
    <2> QED BY <1>4, <2>1
  <1> HIDE DEF after
  <1> DEFINE Old(l) == Targets(set, l.seen \ l.frontier)
             A == {n \in Nat : /\ after[n] \in St /\ after[n].frontier \subseteq after[n].seen
                               /\ Old(after[n]) \subseteq after[n].seen}
  <1>7. ASSUME NEW l \in St, l.frontier \subseteq l.seen, Old(l) \subseteq l.seen
        PROVE  LET m == Further(set, l) IN
               /\ m \in St /\ m.frontier \subseteq m.seen /\ Old(m) \subseteq m.seen
               /\ m.seen = l.seen \cup Targets(set, l.seen)
    <2> DEFINE next == Targets(set, l.frontier) \ l.seen
               m == Further(set, l)
    <2>1. m = [seen |-> l.seen \cup next, frontier |-> next]
      BY Zenon DEF Further
    <2>2. Targets(set, l.seen) = Old(l) \cup Targets(set, l.frontier)
      <3>1. l.seen = (l.seen \ l.frontier) \cup l.frontier
        BY <1>7
      <3> QED BY <3>1, TargetsOf
    <2>3. m.seen = l.seen \cup Targets(set, l.seen) /\ m.seen \ m.frontier = l.seen
      <3>1. m.seen = l.seen \cup next /\ m.frontier = next
        BY <2>1
      <3>2. l.seen \cup next = l.seen \cup Targets(set, l.seen)
        BY Zenon, <1>7, <2>2
      <3>3. (l.seen \cup next) \ next = l.seen
        BY Zenon
      <3> HIDE DEF m, next
      <3> QED BY Zenon, <3>1, <3>2, <3>3
    <2>4. m \in St /\ m.frontier \subseteq m.seen
      BY <2>1, TargetsOf
    <2> QED BY Zenon, <2>3, <2>4
  <1>8. Nat \subseteq A
    <2>1. 0 \in A
      BY <1>1, <1>6 DEF Targets
    <2>2. ASSUME NEW n \in Nat, n \in A
          PROVE  n + 1 \in A
      <3>1. n + 1 \in Nat
        OBVIOUS
      <3> DEFINE l == after[n]
      <3>2. l \in St /\ l.frontier \subseteq l.seen /\ Old(l) \subseteq l.seen
        BY Zenon, <2>2
      <3>3. after[n + 1] = Further(set, l)
        BY Zenon, <1>6
      <3> HIDE DEF St, Old, l
      <3>4. LET m == Further(set, l) IN
               m \in St /\ m.frontier \subseteq m.seen /\ Old(m) \subseteq m.seen
        BY Zenon, <1>7, <3>2
      <3> QED BY <3>1, <3>3, <3>4
    <2> HIDE DEF A
    <2> QED BY Zenon, <2>1, <2>2, Induct
  <1> DEFINE f == [n \in Nat |-> after[n].seen]
  <1>9. f \in [Nat -> SUBSET Assets] /\ f[0] = {Start}
    <2>1. \A n \in Nat : after[n].seen \in SUBSET Assets
      <3>1. \A n \in Nat : after[n] \in St
        BY Zenon, <1>8
      <3> QED BY <3>1
    <2>2. after[0].seen = {Start}
      BY <1>6
    <2> QED BY Zenon, <2>1, <2>2, 0 \in Nat
  <1>10. \A n \in Nat : after[n + 1].seen = after[n].seen \cup Targets(set, after[n].seen)
    <2> HIDE DEF St, Old
    <2> QED BY Zenon, <1>6, <1>7, <1>8
  <1>11. Walk(set, f)
    <2>1. \A n \in Nat : n + 1 \in Nat
      OBVIOUS
    <2> QED BY Zenon, <1>9, <1>10, <2>1 DEF Walk
  <1>12. \A n \in Nat : Traverse(set, n) = f[n]
    BY Zenon, <1>5
  <1> HIDE DEF f
  <1> QED BY Zenon, <1>11, <1>12

\* Farther walks reach more.
LEMMA WalkGrows ==
    ASSUME NEW set, NEW f, Walk(set, f), NEW m \in Nat, NEW n \in Nat, m <= n
    PROVE  f[m] \subseteq f[n]
  <1> DEFINE A == {k \in Nat : f[m] \subseteq f[m + k]}
  <1>1. 0 \in A
    BY m + 0 = m
  <1>2. ASSUME NEW k \in Nat, k \in A
        PROVE  k + 1 \in A
    <2>1. m + k \in Nat /\ m + (k + 1) = (m + k) + 1 /\ k + 1 \in Nat
      OBVIOUS
    <2> QED BY Zenon, <1>2, <2>1 DEF Walk
  <1> HIDE DEF A
  <1>3. n - m \in A
    <2>1. Nat \subseteq A
      BY Zenon, <1>1, <1>2, Induct
    <2> QED BY <2>1
  <1> QED BY <1>3, m + (n - m) = n DEF A

\* A walk stays in a set that holds Start and that no relationship leaves.
LEMMA WalkStays ==
    ASSUME NEW set \in SUBSET Edges, NEW f, Walk(set, f),
           NEW X, Start \in X, Targets(set, X) \subseteq X, NEW n \in Nat
    PROVE  f[n] \subseteq X
  <1> DEFINE A == {k \in Nat : f[k] \subseteq X}
  <1>1. 0 \in A
    BY Zenon DEF Walk
  <1>2. ASSUME NEW k \in Nat, k \in A
        PROVE  k + 1 \in A
    <2>1. Targets(set, f[k]) \subseteq X
      BY Zenon, <1>2, TargetsGrow
    <2> QED BY <1>2, <2>1 DEF Walk
  <1> HIDE DEF A
  <1> QED BY Zenon, <1>1, <1>2, Induct DEF A

\* After level - 1 levels the handler has all that the relationships there
\* were all along lead to, and nothing that those there ever were do not lead
\* to.
Reached ==
    \A set \in SUBSET Edges : \A f : Walk(set, f) =>
        /\ set \subseteq stable => f[level - 1] \subseteq nodes
        /\ ever \subseteq set => nodes \subseteq f[level - 1]

\* There is no answer within the limit, whenever it is asked for.
Due ==
    \A set \in SUBSET Edges : \A f :
        Walk(set, f) /\ ever \subseteq set => Cardinality(f[Depth]) > Limit

\* The inductive invariant of the traversal.
GraphInv ==
    /\ stable \subseteq edges /\ edges \subseteq ever /\ ever \subseteq Edges
    /\ asked \in [depth : Depths \cup {Absent}, nodes : NodeCounts \cup {Absent}]
    /\ nodes \subseteq Assets /\ Start \in nodes /\ frontier \subseteq nodes
    /\ Targets(stable, nodes \ frontier) \subseteq nodes
    /\ relationships \subseteq nodes \X nodes
    /\ level \in 0..(Depth + 1)
    /\ level = 0 => nodes = {Start}
    /\ Cardinality(nodes) <= Limit
    /\ level > 0 => Reached
    /\ outcome = "ok" => level > 0 /\ ~LevelGuard
    /\ outcome = "limit" => Due

\* boundedInt gives a positive depth and a positive limit, whatever was asked
\* for.
LEMMA Bounds ==
    ASSUME asked \in [depth : Depths \cup {Absent}, nodes : NodeCounts \cup {Absent}]
    PROVE  Depth \in Nat \ {0} /\ Limit \in Nat \ {0}
  <1>1. ASSUME NEW n, n = Absent \/ n \in Nat, NEW default \in Nat \ {0}, NEW most \in Nat \ {0}
        PROVE  BoundedInt(n, default, 1, most) \in Nat \ {0}
    BY <1>1 DEF BoundedInt
  <1>2. asked.depth = Absent \/ asked.depth \in Nat
    BY Zenon, TraversalAssumption
  <1>3. asked.nodes = Absent \/ asked.nodes \in Nat
    BY Zenon, TraversalAssumption
  <1> QED BY Zenon, <1>1, <1>2, <1>3, TraversalAssumption DEF Depth, Limit

\* A request starts with its start node.
LEMMA GraphInit ==
    ASSUME Init
    PROVE  GraphInv
  <1>1. Depth \in Nat \ {0} /\ Limit \in Nat \ {0}
    BY Zenon, Bounds DEF Init
  <1>2. Cardinality({Start}) = 1
    BY Zenon, FS_Singleton
  <1>3. /\ stable \subseteq edges /\ edges \subseteq ever /\ ever \subseteq Edges
        /\ asked \in [depth : Depths \cup {Absent}, nodes : NodeCounts \cup {Absent}]
        /\ nodes = {Start} /\ frontier = nodes /\ relationships = {} /\ level = 0 /\ outcome = "running"
    BY Zenon DEF Init
  <1>4. nodes \subseteq Assets
    BY Zenon, <1>3, TraversalAssumption
  <1>5. Targets(stable, nodes \ frontier) \subseteq nodes
    BY Zenon, <1>3 DEF Targets
  <1>6. level \in 0..(Depth + 1) /\ ~(level > 0) /\ Cardinality(nodes) <= Limit
    BY <1>1, <1>2, <1>3
  <1> QED BY Zenon, <1>3, <1>4, <1>5, <1>6 DEF GraphInv

\* Walks do not depend on what has been found.
LEMMA SameQuery ==
    ASSUME asked' = asked, reverse' = reverse
    PROVE  /\ Depth' = Depth /\ Limit' = Limit
           /\ \A set, f : Walk(set, f)' <=> Walk(set, f)
           /\ \A set, from : Targets(set, from)' = Targets(set, from)
  BY Zenon DEF Depth, Limit, Walk, Targets

\* Reconciliation changes the relationships between two levels.
LEMMA ChangeKeeps ==
    ASSUME GraphInv, NEW e \in Edges, Change(e)
    PROVE  GraphInv'
  <1>1. /\ outcome = "running" /\ stable' = stable \ {e} /\ ever' = ever \cup {e}
        /\ edges' = IF e \in edges THEN edges \ {e} ELSE edges \cup {e}
        /\ UNCHANGED <<asked, reverse, level, nodes, frontier, relationships, outcome>>
    BY Zenon DEF Change
  <1>2. stable' \subseteq edges' /\ edges' \subseteq ever' /\ ever' \subseteq Edges
    BY <1>1 DEF GraphInv
  <1>3. Targets(stable', nodes \ frontier) \subseteq nodes
    <2>1. Targets(stable', nodes \ frontier) \subseteq Targets(stable, nodes \ frontier)
      BY Zenon, <1>1, TargetsGrow
    <2> QED BY Zenon, <2>1 DEF GraphInv
  <1>4. Reached => Reached'
    <2>1. stable' \subseteq stable /\ ever \subseteq ever'
      BY Zenon, <1>1
    <2> QED BY Zenon, <1>1, <2>1, SameQuery DEF Reached
  <1>5. Depth' = Depth /\ Limit' = Limit /\ Targets(stable, nodes \ frontier)' = Targets(stable', nodes \ frontier)
    BY Zenon, <1>1, SameQuery
  <1> QED BY Zenon, <1>1, <1>2, <1>3, <1>4, <1>5 DEF GraphInv

\* One query takes the handler from a level to the next.
LEMMA LevelWidens ==
    ASSUME GraphInv, LevelGuard
    PROVE  /\ IsFiniteSet(nodes) /\ IsFiniteSet(Found) /\ nodes \cup Found \subseteq Assets
           /\ Cardinality(nodes) \in Nat /\ Cardinality(Found) \in Nat
           /\ Cardinality(nodes \cup Found) = Cardinality(nodes) + Cardinality(Found)
           /\ Targets(stable, nodes) \subseteq nodes \cup Found
           /\ \A set \in SUBSET Edges : \A f : Walk(set, f) =>
                 /\ set \subseteq stable => f[level] \subseteq nodes \cup Found
                 /\ ever \subseteq set => nodes \cup Found \subseteq f[level]
  <1>1. level \in Nat /\ level > 0 /\ level - 1 \in Nat /\ (level - 1) + 1 = level
    <2>1. Depth \in Nat
      BY Zenon, Bounds DEF GraphInv
    <2> QED BY <2>1 DEF LevelGuard
  <1>2. Found \subseteq Assets /\ nodes \subseteq Assets /\ Found \cap nodes = {}
    <2>1. edges \in SUBSET Edges
      BY Zenon DEF GraphInv
    <2>2. Targets(edges, frontier) \subseteq Assets
      BY Zenon, <2>1, TargetsOf
    <2> QED BY Zenon, <2>2 DEF GraphInv, Found
  <1>3. IsFiniteSet(nodes) /\ IsFiniteSet(Found)
    BY Zenon, <1>2, FS_Subset, TraversalAssumption
  <1>4. Cardinality(nodes) \in Nat /\ Cardinality(Found) \in Nat
    BY Zenon, <1>3, FS_CardinalityType
  <1>5. Cardinality(nodes \cup Found) = Cardinality(nodes) + Cardinality(Found)
    <2>1. Cardinality(nodes \cup Found) = Cardinality(nodes) + Cardinality(Found) - Cardinality(nodes \cap Found)
      BY Zenon, <1>3, FS_Union
    <2>2. Cardinality(nodes \cap Found) = 0
      <3>1. nodes \cap Found = {}
        BY Zenon, <1>2
      <3> QED BY <3>1, FS_EmptySet
    <2> QED BY <1>4, <2>1, <2>2
  <1>6. Targets(stable, nodes) \subseteq nodes \cup Found
    <2>1. stable \in SUBSET Edges /\ nodes = (nodes \ frontier) \cup frontier
      BY DEF GraphInv
    <2>2. Targets(stable, nodes) = Targets(stable, nodes \ frontier) \cup Targets(stable, frontier)
      BY <2>1, TargetsOf
    <2>3. Targets(stable, frontier) \subseteq Targets(edges, frontier)
      BY Zenon, TargetsGrow DEF GraphInv
    <2> QED BY Zenon, <2>2, <2>3 DEF GraphInv, Found
  <1>7. ASSUME NEW set \in SUBSET Edges, NEW f, Walk(set, f)
        PROVE  /\ set \subseteq stable => f[level] \subseteq nodes \cup Found
               /\ ever \subseteq set => nodes \cup Found \subseteq f[level]
    <2> DEFINE was == f[level - 1]
    <2>1. f[level] = was \cup Targets(set, was)
      BY Zenon, <1>1, <1>7 DEF Walk
    <2>2. Reached
      BY Zenon, <1>1 DEF GraphInv
    <2>3. ASSUME set \subseteq stable
          PROVE  f[level] \subseteq nodes \cup Found
      <3>1. was \subseteq nodes
        BY Zenon, <1>7, <2>2, <2>3 DEF Reached
      <3>2. Targets(set, was) \subseteq Targets(stable, nodes)
        BY <2>3, <3>1, TargetsGrow
      <3> QED BY Zenon, <1>6, <2>1, <3>1, <3>2
    <2>4. ASSUME ever \subseteq set
          PROVE  nodes \cup Found \subseteq f[level]
      <3>1. nodes \subseteq was
        BY Zenon, <1>7, <2>2, <2>4 DEF Reached
      <3>2. edges \subseteq set /\ frontier \subseteq was
        BY Zenon, <2>4, <3>1 DEF GraphInv
      <3>3. Targets(edges, frontier) \subseteq Targets(set, was)
        BY <3>2, TargetsGrow
      <3> QED BY Zenon, <2>1, <3>1, <3>3 DEF Found
    <2> QED BY Zenon, <2>3, <2>4
  <1> QED BY Zenon, <1>2, <1>3, <1>4, <1>5, <1>6, <1>7

\* The level fits under the limit.
LEMMA ExpandKeeps ==
    ASSUME GraphInv, Expand
    PROVE  GraphInv'
  <1>1. /\ outcome = "running" /\ LevelGuard /\ Cardinality(Found) <= Limit - Cardinality(nodes)
        /\ nodes' = nodes \cup Found /\ frontier' = Found /\ level' = level + 1
        /\ UNCHANGED <<edges, stable, ever, asked, reverse, relationships, outcome>>
    BY Zenon DEF Expand, graph, Room
  <1>2. Depth' = Depth /\ Limit' = Limit /\ Depth \in Nat /\ Limit \in Nat
    BY Zenon, <1>1, SameQuery, Bounds DEF GraphInv
  <1>3. level' \in 0..(Depth + 1) /\ level' # 0 /\ level' - 1 = level
    BY <1>1, <1>2 DEF LevelGuard
  <1>4. Cardinality(nodes') <= Limit
    BY <1>1, <1>2, LevelWidens
  <1>5. Targets(stable', nodes' \ frontier') \subseteq nodes'
    <2>1. nodes' \ frontier' \subseteq nodes
      BY Zenon, <1>1
    <2>2. Targets(stable, nodes' \ frontier') \subseteq Targets(stable, nodes)
      BY Zenon, <2>1, TargetsGrow
    <2> QED BY Zenon, <1>1, <2>2, LevelWidens
  <1>6. Targets(stable, nodes \ frontier)' = Targets(stable', nodes' \ frontier')
    BY Zenon, <1>1, SameQuery
  <1>7. Reached'
    BY Zenon, <1>1, <1>3, SameQuery, LevelWidens DEF Reached
  <1>8. nodes' \subseteq Assets /\ Start \in nodes' /\ frontier' \subseteq nodes' /\ relationships' \subseteq nodes' \X nodes'
    BY Zenon, <1>1, LevelWidens DEF GraphInv
  <1> QED BY Zenon, <1>1, <1>2, <1>3, <1>4, <1>5, <1>6, <1>7, <1>8 DEF GraphInv

\* It does not: then the walk of all there ever was exceeds the limit too.
LEMMA ExceedKeeps ==
    ASSUME GraphInv, Exceed
    PROVE  GraphInv'
  <1>1. /\ LevelGuard /\ Cardinality(Found) > Limit - Cardinality(nodes) /\ outcome' = "limit"
        /\ UNCHANGED <<edges, stable, ever, asked, reverse, level, nodes, frontier, relationships>>
    BY Zenon DEF Exceed, graph, Room
  <1>2. Depth' = Depth /\ Limit' = Limit /\ Depth \in Nat /\ Limit \in Nat
    BY Zenon, <1>1, SameQuery, Bounds DEF GraphInv
  <1>3. ASSUME NEW set \in SUBSET Edges, NEW f, Walk(set, f), ever \subseteq set
        PROVE  Cardinality(f[Depth]) > Limit
    <2>1. nodes \cup Found \subseteq f[level]
      BY Zenon, <1>1, <1>3, LevelWidens
    <2>2. f[level] \subseteq f[Depth]
      <3>1. level \in Nat /\ level <= Depth
        BY <1>1, <1>2 DEF LevelGuard
      <3> QED BY Zenon, <1>2, <1>3, <3>1, WalkGrows
    <2>3. IsFiniteSet(f[Depth])
      BY <1>2, <1>3, FS_Subset, TraversalAssumption DEF Walk
    <2>4. Cardinality(nodes \cup Found) <= Cardinality(f[Depth]) /\ Cardinality(f[Depth]) \in Nat
      BY Zenon, <2>1, <2>2, <2>3, FS_Subset, FS_CardinalityType
    <2>5. Cardinality(nodes \cup Found) > Limit
      BY <1>1, <1>2, LevelWidens
    <2>6. Cardinality(nodes \cup Found) \in Nat
      BY <1>1, LevelWidens
    <2> QED BY <1>2, <2>4, <2>5, <2>6
  <1>4. Due'
    BY Zenon, <1>1, <1>2, <1>3, SameQuery DEF Due
  <1>5. (Reached => Reached') /\ Targets(stable, nodes \ frontier)' = Targets(stable, nodes \ frontier)
    BY Zenon, <1>1, SameQuery DEF Reached
  <1> QED BY Zenon, <1>1, <1>2, <1>4, <1>5 DEF GraphInv

\* Steps that find no more nodes.
LEMMA QuietKeeps ==
    ASSUME GraphInv, NotFound \/ Fail \/ Answer \/ UNCHANGED vars
    PROVE  GraphInv'
  <1>1. UNCHANGED <<edges, stable, ever, asked, reverse, level, nodes, frontier>>
    BY Zenon DEF NotFound, Fail, Answer, vars, graph
  <1>2. /\ Depth' = Depth /\ Limit' = Limit /\ (Reached => Reached') /\ (Due => Due')
        /\ Targets(stable, nodes \ frontier)' = Targets(stable, nodes \ frontier)
        /\ LevelGuard' = LevelGuard
    BY Zenon, <1>1, SameQuery DEF Reached, Due, LevelGuard
  <1>3. CASE NotFound \/ Fail \/ UNCHANGED vars
    <2>1. relationships' = relationships /\ outcome' \in {outcome, "missing", "failed"}
      BY Zenon, <1>3 DEF NotFound, Fail, vars
    <2> QED BY Zenon, <1>1, <1>2, <2>1 DEF GraphInv
  <1>4. CASE Answer
    <2>1. level > 0 /\ ~LevelGuard /\ outcome' = "ok" /\ relationships' \subseteq nodes \X nodes
      BY Zenon, <1>4 DEF Answer
    <2> QED BY Zenon, <1>1, <1>2, <2>1 DEF GraphInv
  <1> QED BY Zenon, <1>3, <1>4

\* The start node exists.
LEMMA ExistsKeeps ==
    ASSUME GraphInv, Exists
    PROVE  GraphInv'
  <1>1. /\ level = 0 /\ level' = 1 /\ outcome = "running" /\ nodes = {Start}
        /\ UNCHANGED <<edges, stable, ever, asked, reverse, nodes, frontier, relationships, outcome>>
    BY Zenon DEF Exists, graph, GraphInv
  <1>2. /\ Depth' = Depth /\ Limit' = Limit /\ Depth \in Nat
        /\ Targets(stable, nodes \ frontier)' = Targets(stable, nodes \ frontier)
    BY Zenon, <1>1, SameQuery, Bounds DEF GraphInv
  <1>3. \A set \in SUBSET Edges : \A f : Walk(set, f)' => f[level' - 1] = nodes'
    BY <1>1, SameQuery DEF Walk
  <1>4. Reached'
    BY Zenon, <1>3 DEF Reached
  <1>5. level' \in 0..(Depth + 1) /\ level' # 0
    BY <1>1, <1>2
  <1> QED BY Zenon, <1>1, <1>2, <1>4, <1>5 DEF GraphInv

\* All steps of the traversal.
LEMMA GraphStep ==
    ASSUME GraphInv, [Next]_vars
    PROVE  GraphInv'
  BY Zenon, ChangeKeeps, ExistsKeeps, ExpandKeeps, ExceedKeeps, QuietKeeps DEF Next

\* The invariant gives both properties of the answers.
LEMMA GraphAnswers ==
    ASSUME GraphInv
    PROVE  AnswersAreBetween /\ RefusalsAreDue
  <1>1. Depth \in Nat /\ Limit \in Nat
    BY Zenon, Bounds DEF GraphInv
  <1>2. stable \in SUBSET Edges /\ ever \in SUBSET Edges
    BY Zenon DEF GraphInv
  <1>3. PICK low : Walk(stable, low) /\ \A n \in Nat : Traverse(stable, n) = low[n]
    BY Zenon, <1>2, TraverseWalks
  <1>4. PICK high : Walk(ever, high) /\ \A n \in Nat : Traverse(ever, n) = high[n]
    BY Zenon, <1>2, TraverseWalks
  <1>5. ASSUME outcome = "ok"
        PROVE  low[Depth] \subseteq nodes /\ nodes \subseteq high[Depth]
    <2>1. level \in Nat /\ level > 0 /\ level - 1 \in Nat /\ level - 1 <= Depth /\ ~LevelGuard
      BY <1>1, <1>5 DEF GraphInv
    <2>2. low[level - 1] \subseteq nodes /\ nodes \subseteq high[level - 1]
      BY Zenon, <1>2, <1>3, <1>4, <2>1 DEF GraphInv, Reached
    <2>3. high[level - 1] \subseteq high[Depth]
      BY Zenon, <1>1, <1>4, <2>1, WalkGrows
    <2>4. CASE level - 1 = Depth
      BY Zenon, <2>2, <2>4
    <2>5. CASE level - 1 # Depth
      <3>1. frontier = {}
        BY <1>1, <2>1, <2>5 DEF LevelGuard
      <3>2. Targets(stable, nodes) \subseteq nodes
        <4>1. nodes \ frontier = nodes
          BY Zenon, <3>1
        <4> QED BY Zenon, <4>1 DEF GraphInv
      <3>3. low[Depth] \subseteq nodes
        BY Zenon, <1>1, <1>2, <1>3, <3>2, WalkStays DEF GraphInv
      <3> QED BY Zenon, <2>2, <2>3, <3>3
    <2> QED BY Zenon, <2>4, <2>5
  <1>6. AnswersAreBetween
    BY Zenon, <1>1, <1>3, <1>4, <1>5 DEF AnswersAreBetween, GraphInv
  <1>7. RefusalsAreDue
    BY Zenon, <1>1, <1>2, <1>4 DEF RefusalsAreDue, GraphInv, Due
  <1> QED BY Zenon, <1>6, <1>7

\* The records before row last that become assets, and those that are
\* reported.
Kept(last) == {i \in DOMAIN file.records : i < last /\ file.records[i] = "good"}
Reported(last) == {i \in DOMAIN file.records : i < last /\ file.records[i] # "good"}

\* The inductive invariant of the CSV preview: what has been read is kept or
\* reported, in order.
PreviewInv ==
    /\ file.records \in Seq(CSV!Records)
    /\ row \in 0..(Len(file.records) + 1)
    /\ row > 0 => file.defect = "none"
    /\ assets \in Seq(Nat) /\ InOrder(assets, Kept(row))
    /\ errors \in Seq(Nat) /\ InOrder(errors, Reported(row))
    /\ \A i \in DOMAIN file.records : i < row /\ i > MaxRows => file.records[i] = "bad"
    /\ table = "ok" => row = Len(file.records) + 1

\* A later row goes to the end.
LEMMA AppendInOrder ==
    ASSUME NEW rows \in Seq(Nat), NEW wanted, InOrder(rows, wanted),
           NEW r \in Nat, \A w \in wanted : w < r
    PROVE  Append(rows, r) \in Seq(Nat) /\ InOrder(Append(rows, r), wanted \cup {r})
  <1> DEFINE n == Len(rows)
             more == Append(rows, r)
  <1>1. /\ n \in Nat /\ DOMAIN rows = 1..n /\ more \in Seq(Nat) /\ DOMAIN more = 1..(n + 1)
        /\ more[n + 1] = r /\ \A i \in 1..n : more[i] = rows[i]
    OBVIOUS
  <1> HIDE DEF n, more
  <1>2. \A i \in 1..n : rows[i] \in wanted
    BY Zenon, <1>1 DEF InOrder
  <1>3. {more[i] : i \in 1..(n + 1)} = {rows[i] : i \in 1..n} \cup {r}
    <2>1. \A i : i \in 1..(n + 1) <=> i \in 1..n \/ i = n + 1
      BY <1>1
    <2> QED BY Zenon, <1>1, <2>1
  <1>4. \A i, j \in 1..(n + 1) : i < j => more[i] < more[j]
    <2> SUFFICES ASSUME NEW i \in 1..(n + 1), NEW j \in 1..(n + 1), i < j
                 PROVE  more[i] < more[j]
      OBVIOUS
    <2>1. i \in 1..n /\ (j \in 1..n \/ j = n + 1)
      BY <1>1
    <2> QED BY Zenon, <1>1, <1>2, <2>1 DEF InOrder
  <1> QED BY Zenon, <1>1, <1>3, <1>4 DEF InOrder, more

\* Nothing has been read.
LEMMA PreviewInit ==
    ASSUME CSV!Init
    PROVE  PreviewInv
  <1>1. /\ file.records \in UNION {[1..n -> CSV!Records] : n \in 0..MaxRecords}
        /\ row = 0 /\ assets = <<>> /\ errors = <<>> /\ table = "running"
    BY DEF CSV!Init
  <1>2. PICK n \in Nat : file.records \in [1..n -> CSV!Records]
    BY <1>1, RequestsAssumption
  <1>3. file.records \in Seq(CSV!Records) /\ Len(file.records) = n /\ DOMAIN file.records = 1..n
    BY <1>2
  <1>4. Kept(row) = {} /\ Reported(row) = {}
    BY <1>1, <1>3 DEF Kept, Reported
  <1> QED BY <1>1, <1>3, <1>4 DEF PreviewInv, InOrder

\* Every record read is kept or reported.
LEMMA PreviewStep ==
    ASSUME PreviewInv, [CSV!Next]_csv
    PROVE  PreviewInv'
  <1> DEFINE n == Len(file.records)
  <1>1. n \in Nat /\ DOMAIN file.records = 1..n /\ row \in Nat
    BY DEF PreviewInv
  <1>2. \A rows, wanted : InOrder(rows, wanted)' <=> InOrder(rows, wanted)
    BY Zenon DEF InOrder
  <1>3. CASE /\ UNCHANGED <<file, row, assets, errors>>
             /\ table' = "ok" => table = "ok" \/ row = n + 1
    <2>1. Kept(row)' = Kept(row) /\ Reported(row)' = Reported(row)
      BY Zenon, <1>3 DEF Kept, Reported
    <2> QED BY Zenon, <1>2, <1>3, <2>1 DEF PreviewInv
  <1>4. CASE CSV!Check /\ file.defect = "none"
    <2>1. row = 0 /\ row' = 1 /\ UNCHANGED <<file, assets, errors, table>> /\ table = "running"
      BY Zenon, <1>4 DEF CSV!Check
    <2>2. Kept(row)' = Kept(row) /\ Reported(row)' = Reported(row)
      BY <1>1, <2>1 DEF Kept, Reported
    <2>3. row' \in 0..(n + 1) /\ \A i \in 1..n : ~(i < row')
      BY <1>1, <2>1
    <2> QED BY Zenon, <1>1, <1>2, <1>4, <2>1, <2>2, <2>3 DEF PreviewInv
  <1>5. CASE CSV!Report \/ CSV!Keep
    <2>1. /\ row \in 1..n /\ row' = row + 1 /\ table = "running"
          /\ file.records[row] = "bad" \/ ~(row > MaxRows)
          /\ UNCHANGED <<file, table>>
          /\ \/ file.records[row] # "good" /\ errors' = Append(errors, row) /\ assets' = assets
             \/ file.records[row] = "good" /\ assets' = Append(assets, row) /\ errors' = errors
      BY Zenon, <1>5 DEF CSV!Report, CSV!Keep, CSV!Reading, CSV!Record, CSV!TooMany
    <2> HIDE DEF n
    <2>2. \A i \in 1..n : i < row' <=> i < row \/ i = row
      BY <1>1, <2>1
    <2>3. /\ Kept(row') = IF file.records[row] = "good" THEN Kept(row) \cup {row} ELSE Kept(row)
          /\ Reported(row') = IF file.records[row] = "good" THEN Reported(row) ELSE Reported(row) \cup {row}
      BY <1>1, <2>1, <2>2 DEF Kept, Reported
    <2>4. (\A i \in Kept(row) : i < row) /\ (\A i \in Reported(row) : i < row)
      BY Zenon DEF Kept, Reported
    <2>5. assets' \in Seq(Nat) /\ InOrder(assets', Kept(row'))
      <3>1. CASE file.records[row] = "good"
        <4>1. assets \in Seq(Nat) /\ InOrder(assets, Kept(row))
          BY Zenon DEF PreviewInv
        <4>2. Append(assets, row) \in Seq(Nat) /\ InOrder(Append(assets, row), Kept(row) \cup {row})
          BY Zenon, <1>1, <2>4, <4>1, AppendInOrder
        <4> QED BY Zenon, <2>1, <2>3, <3>1, <4>2
      <3>2. CASE file.records[row] # "good"
        BY Zenon, <2>1, <2>3, <3>2 DEF PreviewInv
      <3> QED BY Zenon, <3>1, <3>2
    <2>6. errors' \in Seq(Nat) /\ InOrder(errors', Reported(row'))
      <3>1. CASE file.records[row] # "good"
        <4>1. errors \in Seq(Nat) /\ InOrder(errors, Reported(row))
          BY Zenon DEF PreviewInv
        <4>2. Append(errors, row) \in Seq(Nat) /\ InOrder(Append(errors, row), Reported(row) \cup {row})
          BY Zenon, <1>1, <2>4, <4>1, AppendInOrder
        <4> QED BY Zenon, <2>1, <2>3, <3>1, <4>2
      <3>2. CASE file.records[row] = "good"
        BY Zenon, <2>1, <2>3, <3>2 DEF PreviewInv
      <3> QED BY Zenon, <3>1, <3>2
    <2>7. row' \in 0..(n + 1) /\ row > 0
      BY <1>1, <2>1
    <2>8. Kept(row)' = Kept(row') /\ Reported(row)' = Reported(row')
      BY Zenon, <2>1 DEF Kept, Reported
    <2> QED BY Zenon, <1>1, <1>2, <2>1, <2>2, <2>5, <2>6, <2>7, <2>8 DEF PreviewInv, n
  <1>6. CASE UNCHANGED csv \/ CSV!Exceed \/ CSV!Finish \/ (CSV!Check /\ file.defect # "none")
    BY Zenon, <1>3, <1>6 DEF csv, CSV!Exceed, CSV!Finish, CSV!Check, CSV!Refuse
  <1> QED BY Zenon, <1>4, <1>5, <1>6 DEF CSV!Next

-----------------------------------------------------------------------------
\* The bytes of a text, and the variables of depth.
Bytes == {Quote, Escape, Open, Close, Other}
At(n, m, quoted, escaped) == [d |-> n, max |-> m, in |-> quoted, esc |-> escaped]

\* One round of the loop in depth.
Read(s, c) ==
    IF s.in THEN At(s.d, s.max, s.esc \/ c # Quote, ~s.esc /\ c = Escape)
    ELSE LET e == IF c = Open THEN s.d + 1 ELSE IF c = Close THEN s.d - 1 ELSE s.d
         IN At(e, IF e > s.max THEN e ELSE s.max, c = Quote, s.esc)

\* Reading w leads from s to t, through the values f.
Reads(f, w, s, t) ==
    f[0] = s /\ f[Len(w)] = t /\ \A i \in 1..Len(w) : f[i] = Read(f[i - 1], w[i])

Moves(w, s, t) == \E f : Reads(f, w, s, t)

\* Reading nothing.
LEMMA MoveNone ==
    ASSUME NEW s
    PROVE  << >> \in Seq(Bytes) /\ Moves(<< >>, s, s)
  <1> DEFINE f == [i \in {0} |-> s]
  <1>1. Reads(f, << >>, s, s)
    BY DEF Reads
  <1> QED BY <1>1 DEF Moves

\* Reading one byte.
LEMMA MoveOne ==
    ASSUME NEW c \in Bytes, NEW s
    PROVE  <<c>> \in Seq(Bytes) /\ Moves(<<c>>, s, Read(s, c))
  <1> DEFINE f == [i \in 0..1 |-> IF i = 0 THEN s ELSE Read(s, c)]
  <1>1. Len(<<c>>) = 1 /\ <<c>>[1] = c /\ <<c>> \in Seq(Bytes)
    OBVIOUS
  <1>2. f[0] = s /\ f[1] = Read(s, c) /\ \A i \in 1..1 : i = 1 /\ i - 1 = 0
    OBVIOUS
  <1> HIDE DEF f
  <1>3. Reads(f, <<c>>, s, Read(s, c))
    BY <1>1, <1>2 DEF Reads
  <1> QED BY <1>1, <1>3 DEF Moves

\* Reading two.
LEMMA MoveTwo ==
    ASSUME NEW b \in Bytes, NEW c \in Bytes, NEW s
    PROVE  <<b, c>> \in Seq(Bytes) /\ Moves(<<b, c>>, s, Read(Read(s, b), c))
  <1> DEFINE f == [i \in 0..2 |-> IF i = 0 THEN s ELSE IF i = 1 THEN Read(s, b) ELSE Read(Read(s, b), c)]
  <1>1. Len(<<b, c>>) = 2 /\ <<b, c>>[1] = b /\ <<b, c>>[2] = c /\ <<b, c>> \in Seq(Bytes)
    OBVIOUS
  <1>2. /\ f[0] = s /\ f[1] = Read(s, b) /\ f[2] = Read(f[1], c)
        /\ 1..2 = {1, 2} /\ 1 - 1 = 0 /\ 2 - 1 = 1
    OBVIOUS
  <1> HIDE DEF f
  <1>3. Reads(f, <<b, c>>, s, Read(Read(s, b), c))
    BY <1>1, <1>2 DEF Reads
  <1> QED BY Zenon, <1>1, <1>3 DEF Moves

\* In a string.
LEMMA ReadInside ==
    ASSUME NEW n, NEW m, NEW escaped \in BOOLEAN, NEW c
    PROVE  Read(At(n, m, TRUE, escaped), c) = At(n, m, escaped \/ c # Quote, ~escaped /\ c = Escape)
  BY Zenon DEF Read, At

\* Outside of one.
LEMMA ReadOutside ==
    ASSUME NEW n \in Nat, NEW m \in Nat, n <= m, NEW c
    PROVE  LET s == At(n, m, FALSE, FALSE) IN
           /\ c \notin {Quote, Open, Close} => Read(s, c) = s
           /\ Read(s, Quote) = At(n, m, TRUE, FALSE)
           /\ Read(s, Open) = At(n + 1, IF n + 1 > m THEN n + 1 ELSE m, FALSE, FALSE)
           /\ Read(s, Close) = At(n - 1, m, FALSE, FALSE)
  <1> DEFINE s == At(n, m, FALSE, FALSE)
             e(b) == IF b = Open THEN n + 1 ELSE IF b = Close THEN n - 1 ELSE n
  <1>1. ASSUME NEW b PROVE Read(s, b) = At(e(b), IF e(b) > m THEN e(b) ELSE m, b = Quote, FALSE)
    BY Zenon DEF Read, At
  <1>2. ~(n > m) /\ ~(n - 1 > m)
    OBVIOUS
  <1>3. Quote \notin {Open, Close} /\ Open # Close
    BY Zenon, RequestsAssumption
  <1>4. c \notin {Quote, Open, Close} => Read(s, c) = s
    BY Zenon, <1>1, <1>2
  <1>5. Read(s, Quote) = At(n, m, TRUE, FALSE)
    BY Zenon, <1>1, <1>2, <1>3
  <1>6. Read(s, Open) = At(n + 1, IF n + 1 > m THEN n + 1 ELSE m, FALSE, FALSE)
    BY Zenon, <1>1, <1>3
  <1>7. Read(s, Close) = At(n - 1, m, FALSE, FALSE)
    BY Zenon, <1>1, <1>2, <1>3
  <1> QED BY Zenon, <1>4, <1>5, <1>6, <1>7

\* Reading one text after another.
LEMMA MoveOn ==
    ASSUME NEW u \in Seq(Bytes), NEW v \in Seq(Bytes), NEW s, NEW t, NEW r,
           Moves(u, s, t), Moves(v, t, r)
    PROVE  u \o v \in Seq(Bytes) /\ Moves(u \o v, s, r)
  <1>1. PICK f : Reads(f, u, s, t)
    BY Zenon DEF Moves
  <1>2. PICK g : Reads(g, v, t, r)
    BY Zenon DEF Moves
  <1> DEFINE m == Len(u)
             n == Len(v)
             w == u \o v
             h == [i \in 0..(m + n) |-> IF i <= m THEN f[i] ELSE g[i - m]]
  <1>3. m \in Nat /\ n \in Nat /\ w \in Seq(Bytes) /\ Len(w) = m + n
    OBVIOUS
  <1>4. \A i \in 1..(m + n) : w[i] = IF i <= m THEN u[i] ELSE v[i - m]
    OBVIOUS
  <1>5. f[0] = s /\ f[m] = t /\ \A i \in 1..m : f[i] = Read(f[i - 1], u[i])
    BY Zenon, <1>1 DEF Reads
  <1>6. g[0] = t /\ g[n] = r /\ \A i \in 1..n : g[i] = Read(g[i - 1], v[i])
    BY Zenon, <1>2 DEF Reads
  <1> HIDE DEF m, n, w
  <1>7. h[0] = s /\ h[m + n] = r
    BY <1>3, <1>5, <1>6
  <1>8. ASSUME NEW i \in 1..(m + n) PROVE h[i] = Read(h[i - 1], w[i])
    <2>1. CASE i <= m
      <3>1. i \in 1..m /\ h[i] = f[i] /\ h[i - 1] = f[i - 1] /\ w[i] = u[i]
        BY <1>3, <1>4, <2>1
      <3> HIDE DEF h
      <3> QED BY Zenon, <1>5, <3>1
    <2>2. CASE i = m + 1
      <3>1. 1 \in 1..n /\ h[i] = g[1] /\ h[i - 1] = f[m] /\ w[i] = v[1] /\ 1 - 1 = 0
        BY <1>3, <1>4, <2>2
      <3> HIDE DEF h
      <3>2. g[1] = Read(g[0], v[1])
        BY <1>6, <3>1
      <3>3. f[m] = g[0]
        BY Zenon, <1>5, <1>6
      <3> QED BY Zenon, <3>1, <3>2, <3>3
    <2>3. CASE i > m + 1
      <3>1. i - m \in 1..n /\ h[i] = g[i - m] /\ h[i - 1] = g[(i - m) - 1] /\ w[i] = v[i - m]
        BY <1>3, <1>4, <2>3
      <3> HIDE DEF h
      <3> QED BY Zenon, <1>6, <3>1
    <2> QED BY <1>3, <2>1, <2>2, <2>3
  <1> HIDE DEF h
  <1>9. Reads(h, w, s, r)
    BY Zenon, <1>3, <1>7, <1>8 DEF Reads
  <1> QED BY Zenon, <1>3, <1>9 DEF Moves, w

\* Within a string nothing nests, and an escaped byte does not end it.
LEMMA UnitsStay ==
    ASSUME NEW u \in JSON!Units, NEW n, NEW m
    PROVE  u \in Seq(Bytes) /\ Moves(u, At(n, m, TRUE, FALSE), At(n, m, TRUE, FALSE))
  <1> DEFINE s == At(n, m, TRUE, FALSE)
             t == At(n, m, TRUE, TRUE)
  <1>1. \A c \in {Other, Open, Close} : c \in Bytes /\ Read(s, c) = s
    BY Zenon, RequestsAssumption DEF Bytes, Read, At
  <1>2. Escape \in Bytes /\ Quote \in Bytes /\ Read(s, Escape) = t /\ Read(t, Quote) = s /\ Read(t, Escape) = s
    BY Zenon, RequestsAssumption DEF Bytes, Read, At
  <1> HIDE DEF s, t
  <1>3. \A c \in {Other, Open, Close} : <<c>> \in Seq(Bytes) /\ Moves(<<c>>, s, s)
    BY <1>1, MoveOne
  <1>4. \A c \in {Quote, Escape} : <<Escape, c>> \in Seq(Bytes) /\ Moves(<<Escape, c>>, s, s)
    BY <1>2, MoveTwo
  <1>8. CASE u \in {<<Other>>, <<Open>>, <<Close>>}
    BY Zenon, <1>3, <1>8 DEF s
  <1>9. CASE u \in {<<Escape, Quote>>, <<Escape, Escape>>}
    BY Zenon, <1>4, <1>9 DEF s
  <1> QED BY Zenon, <1>8, <1>9 DEF JSON!Units

\* A string leaves the depth as it is.
LEMMA QuotedStays ==
    ASSUME NEW w \in Seq(Bytes), NEW n \in Nat, NEW m \in Nat, n <= m,
           Moves(w, At(n, m, TRUE, FALSE), At(n, m, TRUE, FALSE))
    PROVE  JSON!Quoted(w) \in Seq(Bytes) /\ Moves(JSON!Quoted(w), At(n, m, FALSE, FALSE), At(n, m, FALSE, FALSE))
  <1> DEFINE s == At(n, m, TRUE, FALSE)
             t == At(n, m, FALSE, FALSE)
  <1>0. Quote \in Bytes /\ Read(t, Quote) = s
    BY Zenon, ReadOutside DEF Bytes
  <1>1. Read(s, Quote) = t
    BY Zenon, RequestsAssumption DEF Read, At
  <1> HIDE DEF s, t
  <1>2. <<Quote>> \in Seq(Bytes) /\ Moves(<<Quote>>, s, t) /\ Moves(<<Quote>>, t, s)
    BY <1>0, <1>1, MoveOne
  <1>3. Moves(w, s, s)
    BY Zenon DEF s
  <1>4. <<Quote>> \o w \in Seq(Bytes) /\ Moves(<<Quote>> \o w, t, s)
    BY Zenon, <1>2, <1>3, MoveOn
  <1>5. <<Quote>> \o w \o <<Quote>> \in Seq(Bytes) /\ Moves(<<Quote>> \o w \o <<Quote>>, t, t)
    BY Zenon, <1>2, <1>4, MoveOn
  <1> QED BY Zenon, <1>5 DEF JSON!Quoted, t

\* The deeper of m and k.
Deeper(m, k) == IF k > m THEN k ELSE m

\* The texts whose scan ends as deep as it began, having been k deeper.
Nested(k) ==
    {w \in Seq(Bytes) : \A n, m \in Nat :
        n <= m => Moves(w, At(n, m, FALSE, FALSE), At(n, Deeper(m, n + k), FALSE, FALSE))}

\* Texts of values that do not nest.
LEMMA LeavesNested == JSON!Leaves \subseteq Nested(0) /\ JSON!Words \subseteq Nested(0)
  <1>1. \A n, m \in Nat : n <= m => Deeper(m, n + 0) = m
    BY DEF Deeper
  <1>2. ASSUME NEW w \in Seq(Bytes),
               \A n, m \in Nat : n <= m => Moves(w, At(n, m, FALSE, FALSE), At(n, m, FALSE, FALSE))
        PROVE  w \in Nested(0)
    BY Zenon, <1>1, <1>2 DEF Nested
  <1>3. ASSUME NEW w \in Seq(Bytes),
               \A n, m \in Nat : Moves(w, At(n, m, TRUE, FALSE), At(n, m, TRUE, FALSE))
        PROVE  JSON!Quoted(w) \in Nested(0)
    <2>1. JSON!Quoted(w) \in Seq(Bytes)
      <3>1. 0 \in Nat /\ 0 <= 0
        OBVIOUS
      <3> QED BY Zenon, <1>3, <3>1, QuotedStays
    <2> QED BY Zenon, <1>2, <1>3, <2>1, QuotedStays
  <1>4. <<Other>> \in Nested(0)
    <2>1. \A n, m \in Nat : n <= m => Read(At(n, m, FALSE, FALSE), Other) = At(n, m, FALSE, FALSE)
      BY Zenon, RequestsAssumption, ReadOutside
    <2>2. Other \in Bytes
      BY DEF Bytes
    <2>3. <<Other>> \in Seq(Bytes)
      BY <2>2
    <2>4. \A s : Moves(<<Other>>, s, Read(s, Other))
      BY Zenon, <2>2, MoveOne
    <2>5. ASSUME NEW n \in Nat, NEW m \in Nat, n <= m
          PROVE  Moves(<<Other>>, At(n, m, FALSE, FALSE), At(n, m, FALSE, FALSE))
      BY Zenon, <2>1, <2>4, <2>5
    <2> QED BY Zenon, <1>2, <2>3, <2>5
  <1>5. JSON!Quoted(<< >>) \in Nested(0)
    BY Zenon, <1>3, MoveNone
  <1>6. \A u \in JSON!Units : JSON!Quoted(u) \in Nested(0)
    <2> SUFFICES ASSUME NEW u \in JSON!Units PROVE JSON!Quoted(u) \in Nested(0)
      OBVIOUS
    <2>1. u \in Seq(Bytes)
      BY Zenon, UnitsStay
    <2> QED BY Zenon, <1>3, <2>1, UnitsStay
  <1>7. \A u \in JSON!Units \X JSON!Units : JSON!Quoted(u[1] \o u[2]) \in Nested(0)
    <2> SUFFICES ASSUME NEW u \in JSON!Units, NEW v \in JSON!Units PROVE JSON!Quoted(u \o v) \in Nested(0)
      OBVIOUS
    <2>1. u \in Seq(Bytes) /\ v \in Seq(Bytes)
      BY Zenon, UnitsStay
    <2>2. \A n, m \in Nat : /\ u \o v \in Seq(Bytes)
                            /\ Moves(u \o v, At(n, m, TRUE, FALSE), At(n, m, TRUE, FALSE))
      BY Zenon, <2>1, UnitsStay, MoveOn
    <2>3. u \o v \in Seq(Bytes)
      BY <2>1
    <2> QED BY Zenon, <1>3, <2>2, <2>3
  <1> QED BY Zenon, <1>4, <1>5, <1>6, <1>7 DEF JSON!Leaves, JSON!Words

\* Brackets around a text make it one deeper.
LEMMA AroundNested ==
    ASSUME NEW k \in Nat, NEW texts, texts \subseteq Nested(k)
    PROVE  JSON!Around(texts) \subseteq Nested(k + 1)
  <1>1. Open \in Bytes /\ Close \in Bytes /\ Other \in Bytes
    BY DEF Bytes
  <1>2. <<Open>> \in Seq(Bytes) /\ <<Close>> \in Seq(Bytes) /\ <<Other>> \in Seq(Bytes)
    BY <1>1
  <1>3. ASSUME NEW n \in Nat, NEW m \in Nat, n <= m, NEW v \in texts, NEW w \in JSON!Words
        PROVE  LET s == At(n, m, FALSE, FALSE)
                   t == At(n, Deeper(m, n + (k + 1)), FALSE, FALSE)
                   a == <<Open>> \o v \o <<Close>>
                   b == <<Open>> \o v \o <<Other>> \o w \o <<Close>>
               IN a \in Seq(Bytes) /\ Moves(a, s, t) /\ b \in Seq(Bytes) /\ Moves(b, s, t)
    <2> DEFINE p == Deeper(m, n + 1)
               q == Deeper(m, n + (k + 1))
               s == At(n, m, FALSE, FALSE)
               o == At(n + 1, p, FALSE, FALSE)
               c == At(n + 1, q, FALSE, FALSE)
               t == At(n, q, FALSE, FALSE)
    <2>1. /\ p \in Nat /\ q \in Nat /\ n + 1 \in Nat /\ n + 1 <= p /\ n + 1 <= q
          /\ Deeper(p, (n + 1) + k) = q /\ Deeper(q, (n + 1) + 0) = q
      BY <1>3 DEF Deeper
    <2>2. Read(s, Open) = o
      BY Zenon, <1>3, ReadOutside DEF Deeper
    <2>3. Read(c, Other) = c /\ Read(c, Close) = t
      <3>1. (n + 1) - 1 = n
        OBVIOUS
      <3> HIDE DEF p, q
      <3>2. Other \notin {Quote, Open, Close}
        BY Zenon, RequestsAssumption
      <3>3. Read(c, Other) = c
        <4>1. \A a, b \in Nat : a <= b => Read(At(a, b, FALSE, FALSE), Other) = At(a, b, FALSE, FALSE)
          BY ZenonT(30), <3>2, ReadOutside
        <4> QED BY Zenon, <2>1, <4>1
      <3>4. Read(c, Close) = At((n + 1) - 1, q, FALSE, FALSE)
        BY Zenon, <2>1, ReadOutside
      <3> QED BY Zenon, <3>1, <3>3, <3>4
    <2>4. v \in Seq(Bytes) /\ Moves(v, o, c)
      <3> HIDE DEF p, q
      <3> QED BY Zenon, <2>1 DEF Nested
    <2>5. w \in Seq(Bytes) /\ Moves(w, c, c)
      <3>1. w \in Nested(0)
        BY Zenon, LeavesNested
      <3> HIDE DEF p, q
      <3> QED BY Zenon, <2>1, <3>1 DEF Nested
    <2> HIDE DEF s, o, c, t
    <2>6. Moves(<<Open>>, s, o) /\ Moves(<<Other>>, c, c) /\ Moves(<<Close>>, c, t)
      BY <1>1, <2>2, <2>3, MoveOne
    <2>7. <<Open>> \o v \in Seq(Bytes) /\ Moves(<<Open>> \o v, s, c)
      BY Zenon, <1>2, <2>4, <2>6, MoveOn
    <2>8. <<Open>> \o v \o <<Close>> \in Seq(Bytes) /\ Moves(<<Open>> \o v \o <<Close>>, s, t)
      BY Zenon, <1>2, <2>6, <2>7, MoveOn
    <2>9. <<Open>> \o v \o <<Other>> \in Seq(Bytes) /\ Moves(<<Open>> \o v \o <<Other>>, s, c)
      BY Zenon, <1>2, <2>6, <2>7, MoveOn
    <2>10. <<Open>> \o v \o <<Other>> \o w \in Seq(Bytes) /\ Moves(<<Open>> \o v \o <<Other>> \o w, s, c)
      BY Zenon, <2>5, <2>9, MoveOn
    <2>11. /\ <<Open>> \o v \o <<Other>> \o w \o <<Close>> \in Seq(Bytes)
           /\ Moves(<<Open>> \o v \o <<Other>> \o w \o <<Close>>, s, t)
      BY Zenon, <1>2, <2>6, <2>10, MoveOn
    <2> QED BY Zenon, <2>8, <2>11 DEF s, t, q
  <1>4. 0 \in Nat /\ 0 <= 0
    OBVIOUS
  <1>5. JSON!Quoted(<< >>) \in JSON!Words
    BY Zenon DEF JSON!Words
  <1>6. ASSUME NEW v \in texts, NEW w \in JSON!Words
        PROVE  <<Open>> \o v \o <<Close>> \in Nested(k + 1) /\ <<Open>> \o v \o <<Other>> \o w \o <<Close>> \in Nested(k + 1)
    BY Zenon, <1>3, <1>4 DEF Nested
  <1>7. \A v \in texts \X JSON!Words : v[1] \in texts /\ v[2] \in JSON!Words
    OBVIOUS
  <1>8. \A v \in texts : <<Open>> \o v \o <<Close>> \in Nested(k + 1)
    BY Zenon, <1>5, <1>6
  <1>9. \A v \in texts \X JSON!Words : <<Open>> \o v[1] \o <<Other>> \o v[2] \o <<Close>> \in Nested(k + 1)
    BY Zenon, <1>6, <1>7
  <1> QED BY Zenon, <1>8, <1>9 DEF JSON!Around

\* The texts of depth n nest n deep.
LEMMA TextsNested == \A n \in Nat : JSON!Texts[n] \subseteq Nested(n)
  <1> DEFINE St == SUBSET Seq(Bytes)
             F == [T \in St |-> JSON!Around(T)]
             Grammar(g) == g = [n \in Nat |-> IF n = 0 THEN JSON!Leaves ELSE JSON!Around(g[n - 1])]
  <1>1. JSON!Leaves \in St
    BY Zenon, LeavesNested DEF Nested
  <1>2. F \in [St -> St]
    <2>1. <<Open>> \in Seq(Bytes) /\ <<Close>> \in Seq(Bytes) /\ <<Other>> \in Seq(Bytes)
      BY DEF Bytes
    <2>2. \A u, v \in Seq(Bytes) : u \o v \in Seq(Bytes)
      OBVIOUS
    <2>3. JSON!Words \subseteq Seq(Bytes)
      BY Zenon, LeavesNested DEF Nested
    <2>4. ASSUME NEW T \in St PROVE JSON!Around(T) \in St
      <3>1. \A v \in T \X JSON!Words : v[1] \in Seq(Bytes) /\ v[2] \in Seq(Bytes)
        BY <2>3, <2>4
      <3>2. \A v \in T : v \in Seq(Bytes)
        BY Zenon, <2>4
      <3>3. \A v \in T \X JSON!Words : <<Open>> \o v[1] \o <<Other>> \o v[2] \o <<Close>> \in Seq(Bytes)
        BY Zenon, <2>1, <2>2, <3>1
      <3>4. \A v \in T : <<Open>> \o v \o <<Close>> \in Seq(Bytes)
        BY Zenon, <2>1, <2>2, <3>2
      <3> QED BY Zenon, <3>3, <3>4 DEF JSON!Around
    <2> QED BY Zenon, <2>4
  <1>3. PICK g \in [Nat -> St] : g[0] = JSON!Leaves /\ \A n \in Nat : g[n + 1] = F[g[n]]
    <2> HIDE DEF St, F
    <2> QED BY <1>1, <1>2, Iterates
  <1>4. Grammar(g)
    <2>1. \A n \in Nat : n # 0 => n - 1 \in Nat /\ (n - 1) + 1 = n
      OBVIOUS
    <2>2. \A n \in Nat : g[n] = IF n = 0 THEN JSON!Leaves ELSE JSON!Around(g[n - 1])
      <3> HIDE DEF St
      <3> QED BY Zenon, <1>3, <2>1
    <2> HIDE DEF St, F
    <2> QED BY Zenon, <1>3, <2>2
  <1>5. Grammar(JSON!Texts)
    <2>1. JSON!Texts = CHOOSE h : Grammar(h)
      BY Zenon DEF JSON!Texts
    <2> HIDE DEF Grammar
    <2> QED BY Zenon, <1>4, <2>1
  <1>6. JSON!Texts[0] = JSON!Leaves /\ \A n \in Nat : JSON!Texts[n + 1] = JSON!Around(JSON!Texts[n])
    <2>1. \A n \in Nat : n + 1 \in Nat /\ n + 1 # 0 /\ (n + 1) - 1 = n
      OBVIOUS
    <2> QED BY Zenon, <1>5, <2>1
  <1> DEFINE A == {n \in Nat : JSON!Texts[n] \subseteq Nested(n)}
  <1>7. 0 \in A
    BY Zenon, <1>6, LeavesNested
  <1>8. ASSUME NEW n \in Nat, n \in A PROVE n + 1 \in A
    <2>1. n + 1 \in Nat
      OBVIOUS
    <2> QED BY Zenon, <1>6, <1>8, <2>1, AroundNested
  <1> HIDE DEF A
  <1> QED BY Zenon, <1>7, <1>8, Induct DEF A

\* The inductive invariant of the JSON preview: the scan is on the way from
\* the start of the text to its end, where it has found the nesting.
ScanInv ==
    /\ text \in Seq(Bytes) /\ nesting \in Nat /\ pos \in 1..(Len(text) + 1)
    /\ \E f : /\ Reads(f, text, At(0, 0, FALSE, FALSE), At(0, nesting, FALSE, FALSE))
              /\ f[pos - 1] = At(d, max, in, esc)
    /\ document \notin {"scanning", "large"} =>
          pos = Len(text) + 1 /\ (document = "deep" <=> max > MaxNesting)

\* The scan begins at the first byte.
LEMMA ScanInit == JSON!Init => ScanInv
  <1> SUFFICES ASSUME JSON!Init PROVE ScanInv
    BY Zenon
  <1>1. /\ nesting \in 0..(MaxNesting + 1) /\ text \in JSON!Texts[nesting]
        /\ pos = 1 /\ d = 0 /\ max = 0 /\ in = FALSE /\ esc = FALSE /\ document = "scanning"
    BY Zenon DEF JSON!Init
  <1>2. nesting \in Nat /\ 0 \in Nat /\ 0 <= 0
    BY <1>1, RequestsAssumption
  <1>3. text \in Nested(nesting)
    BY Zenon, <1>1, <1>2, TextsNested
  <1>4. Deeper(0, 0 + nesting) = nesting
    BY <1>2 DEF Deeper
  <1>5. text \in Seq(Bytes) /\ Moves(text, At(0, 0, FALSE, FALSE), At(0, nesting, FALSE, FALSE))
    BY Zenon, <1>2, <1>3, <1>4 DEF Nested
  <1>6. PICK f : Reads(f, text, At(0, 0, FALSE, FALSE), At(0, nesting, FALSE, FALSE))
    BY Zenon, <1>5 DEF Moves
  <1>7. pos \in 1..(Len(text) + 1) /\ pos - 1 = 0
    BY <1>1, <1>5
  <1>8. f[pos - 1] = At(d, max, in, esc)
    BY Zenon, <1>1, <1>6, <1>7 DEF Reads
  <1> QED BY Zenon, <1>1, <1>2, <1>5, <1>6, <1>7, <1>8 DEF ScanInv

\* And goes on byte by byte.
LEMMA ScanStep == ScanInv /\ [JSON!Next]_json => ScanInv'
  <1> SUFFICES ASSUME ScanInv, [JSON!Next]_json PROVE ScanInv'
    BY Zenon
  <1>1. CASE JSON!Scan
    <2>1. /\ document = "scanning" /\ pos <= Len(text) /\ pos' = pos + 1
          /\ UNCHANGED <<text, nesting, document>>
      BY Zenon, <1>1 DEF JSON!Scan
    <2>2. At(d, max, in, esc)' = Read(At(d, max, in, esc), text[pos])
      <3>1. CASE in
        BY Zenon, <1>1, <3>1 DEF JSON!Scan, JSON!InString, Read, At
      <3>2. CASE ~in
        BY Zenon, <1>1, <3>2 DEF JSON!Scan, JSON!Outside, Read, At
      <3> QED BY Zenon, <3>1, <3>2
    <2>3. PICK f : /\ Reads(f, text, At(0, 0, FALSE, FALSE), At(0, nesting, FALSE, FALSE))
                   /\ f[pos - 1] = At(d, max, in, esc)
      BY Zenon DEF ScanInv
    <2>4. pos \in 1..Len(text) /\ pos' \in 1..(Len(text) + 1) /\ pos' - 1 = pos
      BY <2>1 DEF ScanInv
    <2>5. f[pos' - 1] = At(d, max, in, esc)'
      BY Zenon, <2>2, <2>3, <2>4 DEF Reads
    <2>6. Reads(f, text', At(0, 0, FALSE, FALSE), At(0, nesting', FALSE, FALSE))
      BY Zenon, <2>1, <2>3
    <2> QED BY Zenon, <2>1, <2>4, <2>5, <2>6 DEF ScanInv, At
  <1>2. CASE JSON!Limit
    <2>1. /\ document = "scanning" /\ pos > Len(text) /\ document' = IF max > MaxNesting THEN "deep" ELSE "scanned"
          /\ UNCHANGED <<text, nesting, pos, d, max, in, esc>>
      BY Zenon, <1>2 DEF JSON!Limit, JSON!scan
    <2>2. pos = Len(text) + 1
      BY <2>1 DEF ScanInv
    <2>3. document' = "deep" <=> max > MaxNesting
      BY Zenon, <2>1
    <2> QED BY Zenon, <2>1, <2>2, <2>3 DEF ScanInv, At
  <1>3. CASE JSON!Oversize \/ (\E w \in BOOLEAN, i \in 0..(MaxItems + 1) : JSON!Decode(w, i)) \/ UNCHANGED json
    <2>1. UNCHANGED <<text, nesting, pos, d, max, in, esc>>
      BY Zenon, <1>3 DEF JSON!Oversize, JSON!Decode, JSON!scan, json
    <2>2. \/ document' \in {"large", document}
          \/ document = "scanned" /\ document' \in {"ok", "refused"}
      BY Zenon, <1>3 DEF JSON!Oversize, JSON!Decode, json
    <2> QED BY Zenon, <2>1, <2>2 DEF ScanInv, At
  <1> QED BY Zenon, <1>1, <1>2, <1>3 DEF JSON!Next

\* At its end it has found the nesting.
LEMMA ScanEnds ==
    ASSUME ScanInv, document \notin {"scanning", "large"}
    PROVE  max = nesting /\ d = 0 /\ ~in /\ (document = "deep" <=> nesting > MaxNesting)
  <1>1. PICK f : /\ Reads(f, text, At(0, 0, FALSE, FALSE), At(0, nesting, FALSE, FALSE))
                 /\ f[pos - 1] = At(d, max, in, esc)
    BY Zenon DEF ScanInv
  <1>2. pos - 1 = Len(text)
    BY DEF ScanInv
  <1>3. At(d, max, in, esc) = At(0, nesting, FALSE, FALSE)
    BY Zenon, <1>1, <1>2 DEF Reads
  <1>4. d = 0 /\ max = nesting /\ in = FALSE
    <2>1. /\ At(d, max, in, esc).d = d /\ At(d, max, in, esc).max = max /\ At(d, max, in, esc).in = in
          /\ At(0, nesting, FALSE, FALSE).d = 0 /\ At(0, nesting, FALSE, FALSE).max = nesting
          /\ At(0, nesting, FALSE, FALSE).in = FALSE
      BY Zenon DEF At
    <2> QED BY Zenon, <1>3, <2>1
  <1> QED BY Zenon, <1>4 DEF ScanInv

-----------------------------------------------------------------------------
\* A request is served by one handler; the other ones stay at rest.
RequestsInv ==
    /\ IF route = "graph" THEN GraphInv ELSE outcome = "none"
    /\ IF route = "csv" THEN PreviewInv ELSE table = "none"
    /\ IF route = "json" THEN ScanInv ELSE document = "none"

\* The invariant holds when a request comes in.
LEMMA RequestsStart == RequestsInit => RequestsInv
  BY Zenon, GraphInit, PreviewInit, ScanInit DEF RequestsInit, RequestsInv, NoGraph, NoCSV, NoJSON

\* And in every step of its handler.
LEMMA RequestsStep == RequestsInv /\ [RequestsNext]_request => RequestsInv'
  <1> SUFFICES ASSUME RequestsInv, [RequestsNext]_request PROVE RequestsInv'
    BY Zenon
  <1>1. route' = route /\ [Next]_vars /\ [CSV!Next]_csv /\ [JSON!Next]_json
    BY Zenon DEF RequestsNext, request
  <1>2. /\ route # "graph" => outcome' = outcome
        /\ route # "csv" => table' = table
        /\ route # "json" => document' = document
    BY Zenon DEF RequestsNext, request, vars, csv, json
  <1>3. IF route = "graph" THEN GraphInv' ELSE outcome' = "none"
    BY Zenon, <1>1, <1>2, GraphStep DEF RequestsInv
  <1>4. IF route = "csv" THEN PreviewInv' ELSE table' = "none"
    BY Zenon, <1>1, <1>2, PreviewStep DEF RequestsInv
  <1>5. IF route = "json" THEN ScanInv' ELSE document' = "none"
    BY Zenon, <1>1, <1>2, ScanStep DEF RequestsInv
  <1> QED BY Zenon, <1>1, <1>3, <1>4, <1>5 DEF RequestsInv

(* The invariant of the handlers, for graphs, files and limits of any size *)
(* and any number of changes while a request is served.                    *)
THEOREM RequestsInvariant == RequestsSpec => []RequestsInv
  BY RequestsStart, RequestsStep, PTL DEF RequestsSpec

(* AnswersAreBetween for graphs of any size, any depth and limit, and any  *)
(* changes of the graph between the queries of TraversePostgres: the       *)
(* answer holds everything the relationships that were there all along     *)
(* lead to within the depth, and nothing that those that ever were there   *)
(* do not.                                                                 *)
THEOREM AnswersBetween == RequestsSpec => []AnswersAreBetween
  <1>1. RequestsInv => AnswersAreBetween
    BY Zenon, GraphAnswers DEF RequestsInv, AnswersAreBetween
  <1> QED BY <1>1, RequestsInvariant, PTL

(* RefusalsAreDue in general: the handler refuses a traversal for its size *)
(* only if the relationships there have been lead to more nodes than the   *)
(* limit.                                                                  *)
THEOREM RefusalsDue == RequestsSpec => []RefusalsAreDue
  <1>1. RequestsInv => RefusalsAreDue
    BY Zenon, GraphAnswers DEF RequestsInv, RefusalsAreDue
  <1> QED BY <1>1, RequestsInvariant, PTL

(* PreviewsAreWhole for files and row limits of any size: a CSV preview    *)
(* that is answered lists each record once, in order, among the assets or  *)
(* among the errors, and a file with a readable record past the row limit  *)
(* has no preview.                                                         *)
THEOREM PreviewsWhole == RequestsSpec => []PreviewsAreWhole
  <1>1. ASSUME RequestsInv, table = "ok"
        PROVE  PreviewsAreWhole
    <2>1. PreviewInv /\ row = Len(file.records) + 1
      BY Zenon, <1>1 DEF RequestsInv, PreviewInv
    <2>2. row > 0 /\ \A i \in DOMAIN file.records : i < row
      BY <2>1 DEF PreviewInv
    <2>3. /\ Kept(row) = {i \in DOMAIN file.records : file.records[i] = "good"}
          /\ Reported(row) = {i \in DOMAIN file.records : file.records[i] # "good"}
      BY Zenon, <2>2 DEF Kept, Reported
    <2> QED BY Zenon, <2>1, <2>2, <2>3 DEF PreviewInv, PreviewsAreWhole
  <1>2. RequestsInv => PreviewsAreWhole
    BY Zenon, <1>1 DEF PreviewsAreWhole
  <1> QED BY <1>2, RequestsInvariant, PTL

(* DepthIsNesting for documents and limits of any depth: depth finds the   *)
(* nesting of every text, so JSON refuses as too deep exactly those beyond *)
(* the limit, whatever their strings hold.                                 *)
THEOREM ScansFindNesting == RequestsSpec => []DepthIsNesting
  <1>1. RequestsInv => DepthIsNesting
    BY Zenon, ScanEnds DEF RequestsInv, DepthIsNesting
  <1> QED BY <1>1, RequestsInvariant, PTL

=============================================================================
