----------------------------- MODULE MCReconcile -----------------------------
(***************************************************************************)
(* Instances of Reconcile for TLC: connectors A and B, the source          *)
(* identities a1, a2 of A and b1 of B, the source edges ea from a1 to a2   *)
(* and ec back from a2 to a1.  A run uses some.                            *)
(***************************************************************************)
EXTENDS ReconcileInduction, TLC

CONSTANTS A, B, a1, a2, b1, ea, ec, host, environment, v1, v2, blank, s1

MCConnectorOf == [i \in SourceIDs |-> IF i \in {a1, a2} THEN A ELSE B]

\* A is the authoritative source (rank 3), B an observing one (rank 2).
MCAuthority == [c \in Connectors |-> [k \in Keys |-> IF c = A THEN 3 ELSE 2]]

MCKeysOf == [f \in Fields |-> {environment}]

MCFrom == [e \in SourceEdges |-> IF e = ea THEN a1 ELSE a2]

MCTo == [e \in SourceEdges |-> IF e = ea THEN a2 ELSE a1]

MCTypeOf == [e \in SourceEdges |-> host]

\* Any observation may carry any strong identity.
AnyHint == [i \in SourceIDs |-> StrongIDs]

MCBlankFor == [f \in Fields |-> {blank} \cap Values]

ValueSymmetry == Permutations(Values \ {blank})

=============================================================================
