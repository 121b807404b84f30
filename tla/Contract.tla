------------------------------- MODULE Contract -------------------------------
(***************************************************************************)
(* validSnapshotContract: what the gateway asks of the assets and the      *)
(* relationships of a snapshot before it looks at anything else.  Lengths  *)
(* of strings and maps are left out.                                       *)
(***************************************************************************)
EXTENDS Naturals, Sequences, FiniteSets

CONSTANTS MaxAssets, MaxRelationships

IsSequence(s) == s \in Seq({s[i] : i \in DOMAIN s})
Distinct(s) == \A i, j \in DOMAIN s : s[i] = s[j] => i = j

(* A set in the order in which it happens to be read.                      *)
InSomeOrder(S) == CHOOSE s \in [1..Cardinality(S) -> S] : Distinct(s)

(* What a loop over the positions of ss appends.                           *)
Appended(ss) ==
    LET upto[k \in 0..Len(ss)] == IF k = 0 THEN <<>> ELSE upto[k - 1] \o ss[k]
    IN upto[Len(ss)]

Relation(from, type, to) == [from |-> from, type |-> type, to |-> to]
To(from, type, targets) == [i \in DOMAIN targets |-> Relation(from, type, targets[i])]

Fits(assets, relationships) ==
    Len(assets) <= MaxAssets /\ Len(relationships) <= MaxRelationships

ValidSnapshotContract(assets, relationships) ==
    /\ Fits(assets, relationships)
    /\ Distinct(assets)
    /\ Distinct(relationships)
    /\ \A i \in DOMAIN relationships :
        \A end \in {relationships[i].from, relationships[i].to} :
            \E j \in DOMAIN assets : assets[j] = end

=============================================================================
