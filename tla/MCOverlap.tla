----------------------------- MODULE MCOverlap ------------------------------
(***************************************************************************)
(* Instances of Overlap for TLC: connector A with the source identities a1 *)
(* and a2 and the source edge ea between them, connector B with b1, b2 and *)
(* eb.  A run starts from empty tables or from tables in which both know   *)
(* the same two assets.                                                    *)
(***************************************************************************)
EXTENDS Overlap, TLC

CONSTANTS A, B, a1, a2, b1, b2, ea, eb, host, environment, v1, v2, s1, s2

MCConnectorOf == [i \in SourceIDs |-> IF i \in {a1, a2} THEN A ELSE B]
MCHintsOf == [i \in SourceIDs |-> {IF i \in {a1, b1} THEN s1 ELSE s2}]
MCAuthority == [c \in Connectors |-> [k \in Keys |-> 1]]
MCKeysOf == [f \in Fields |-> Keys]
MCBlankFor == [f \in Fields |-> {}]
MCFrom == [e \in SourceEdges |-> IF e = ea THEN a1 ELSE b1]
MCTo == [e \in SourceEdges |-> IF e = ea THEN a2 ELSE b2]
MCTypeOf == [e \in SourceEdges |-> host]

Rows == INSTANCE Reconcile WITH
    work <- 0, phase <- 0, connector <- 0, threshold <- 0, seen <- {}, seenEdges <- {},
    lapsed <- {}, dropped <- {}, changes <- {}, missed <- 0

Empty == Rows!EmptyTables

SharedBy(i) == IF i \in {a1, b1} THEN a1 ELSE a2

(* Both connectors have reported a1 and a2, one attribute each, and, n     *)
(* snapshots ago, the relationship.                                        *)
Shared(n) ==
    [Empty EXCEPT
        !.assetStatus = [a \in SourceIDs |-> IF a \in {a1, a2} THEN "ACTIVE" ELSE "NONE"],
        !.effective = [a \in SourceIDs |-> [f \in Fields |-> IF a \in {a1, a2} THEN v1 ELSE NoValue]],
        !.idAsset = [i \in SourceIDs |-> SharedBy(i)],
        !.idStatus = [i \in SourceIDs |-> "ACTIVE"],
        !.strong = [s \in StrongIDs |-> IF s = s1 THEN a1 ELSE a2],
        !.claims = {[asset |-> SharedBy(i), source |-> i, key |-> k, value |-> v1] : i \in SourceIDs, k \in Keys},
        !.relStatus = [r \in DOMAIN Empty.relStatus |-> IF r = <<a1, a2, host>> THEN "ACTIVE" ELSE "NONE"],
        !.edgeRel = [e \in SourceEdges |-> <<a1, a2, host>>],
        !.edgeStatus = [e \in SourceEdges |-> "ACTIVE"],
        !.edgeAbsences = [e \in SourceEdges |-> n]]

NewOrShared == {Empty, Shared(0)}
OnceAbsent == {Shared(1)}

=============================================================================
