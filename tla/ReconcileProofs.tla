------------------------- MODULE ReconcileProofs ----------------------------
(***************************************************************************)
(* Proofs about Reconcile, for every set of connectors, identities, edges, *)
(* attributes and thresholds: what the statements of ApplyPostgres and     *)
(* markMissing write, column by column, and that they keep the invariant   *)
(* of the tables; the safety properties of the runs follow from it.        *)
(***************************************************************************)
EXTENDS ReconcileInduction, TLAPS

-----------------------------------------------------------------------------
(* The tables a step leaves behind, column by column.                      *)

\* The record of a value's columns: a state of the tables has no other field.
Columns(t) ==
    [assetStatus |-> t.assetStatus, effective |-> t.effective, idAsset |-> t.idAsset,
     idStatus |-> t.idStatus, idAbsences |-> t.idAbsences, strong |-> t.strong,
     claims |-> t.claims, relStatus |-> t.relStatus, edgeRel |-> t.edgeRel,
     edgeStatus |-> t.edgeStatus, edgeAbsences |-> t.edgeAbsences]

\* The columns of a state of the tables have their types.
LEMMA TablesColumns ==
    ASSUME NEW t \in Tables
    PROVE  /\ t.assetStatus \in [SourceIDs -> {"NONE", "ACTIVE", "CONFLICTING", "MISSING"}]
           /\ t.effective \in [SourceIDs -> [Fields -> Values \cup {NoValue}]]
           /\ t.idAsset \in [SourceIDs -> SourceIDs \cup {NoAsset}]
           /\ t.idStatus \in [SourceIDs -> {"NONE", "ACTIVE", "MISSING"}]
           /\ t.idAbsences \in [SourceIDs -> 0..AbsenceCap]
           /\ t.strong \in [StrongIDs -> SourceIDs \cup {NoAsset}]
           /\ t.claims \in SUBSET Claims
           /\ t.relStatus \in [Relationships -> {"NONE", "ACTIVE", "REMOVED"}]
           /\ t.edgeRel \in [SourceEdges -> Relationships \cup {NoAsset}]
           /\ t.edgeStatus \in [SourceEdges -> {"NONE", "ACTIVE", "REMOVED"}]
           /\ t.edgeAbsences \in [SourceEdges -> 0..AbsenceCap]
  BY Zenon DEF Tables

\* ObserveAsset writes the asset, the source identity, the strong identities
\* and the claims, and leaves relationships alone.
AssetObserved(i, ids, a, cs, new) ==
    /\ work' = Columns(work')
    /\ work'.assetStatus = [work.assetStatus EXCEPT ![a] = ClaimStatus(cs, a)]
    /\ work'.effective = [work.effective EXCEPT ![a] = new]
    /\ work'.idAsset = [work.idAsset EXCEPT ![i] = a]
    /\ work'.idStatus = [work.idStatus EXCEPT ![i] = "ACTIVE"]
    /\ work'.idAbsences = [work.idAbsences EXCEPT ![i] = 0]
    /\ work'.strong = [s \in StrongIDs |-> IF s \in ids THEN a ELSE work.strong[s]]
    /\ work'.claims = cs
    /\ work'.relStatus = work.relStatus
    /\ work'.edgeRel = work.edgeRel
    /\ work'.edgeStatus = work.edgeStatus
    /\ work'.edgeAbsences = work.edgeAbsences

LEMMA ObserveAssetColumns ==
    ASSUME work \in Tables, NEW i \in SourceIDs, NEW ids, NEW attrs,
           ObserveAsset(i, ids, attrs)
    PROVE  LET a  == ResolvedAsset(work, i, ids)
               cs == ObservedClaims(work.claims, i, a, attrs)
           IN  \E old, new : /\ new \in EffectiveColumns(cs, a, old)
                             /\ AssetObserved(i, ids, a, cs, new)
<1> DEFINE a  == ResolvedAsset(work, i, ids)
           cs == ObservedClaims(work.claims, i, a, attrs)
<1>1. PICK old, new :
        /\ new \in EffectiveColumns(cs, a, old)
        /\ work' = [work EXCEPT
                !.assetStatus = [work.assetStatus EXCEPT ![a] = ClaimStatus(cs, a)],
                !.effective = [work.effective EXCEPT ![a] = new],
                !.idAsset = [work.idAsset EXCEPT ![i] = a],
                !.idStatus = [work.idStatus EXCEPT ![i] = "ACTIVE"],
                !.idAbsences = [work.idAbsences EXCEPT ![i] = 0],
                !.strong = [s \in StrongIDs |-> IF s \in ids THEN a ELSE work.strong[s]],
                !.claims = cs]
  BY Zenon DEF ObserveAsset
<1>2. AssetObserved(i, ids, a, cs, new)
  <2> HIDE DEF a, cs
  <2> QED BY Zenon, <1>1 DEF Tables, Columns, AssetObserved
<1> QED BY Zenon, <1>1, <1>2

\* ObserveEdge writes the relationship and the source edge.
EdgeObserved(e) ==
    /\ work' = Columns(work')
    /\ work'.assetStatus = work.assetStatus
    /\ work'.effective = work.effective
    /\ work'.idAsset = work.idAsset
    /\ work'.idStatus = work.idStatus
    /\ work'.idAbsences = work.idAbsences
    /\ work'.strong = work.strong
    /\ work'.claims = work.claims
    /\ work'.relStatus = [work.relStatus EXCEPT ![RelationshipOf(work, e)] = "ACTIVE"]
    /\ work'.edgeRel = [work.edgeRel EXCEPT ![e] = RelationshipOf(work, e)]
    /\ work'.edgeStatus = [work.edgeStatus EXCEPT ![e] = "ACTIVE"]
    /\ work'.edgeAbsences = [work.edgeAbsences EXCEPT ![e] = 0]

LEMMA ObserveEdgeColumns ==
    ASSUME work \in Tables, NEW e \in SourceEdges, ObserveEdge(e)
    PROVE  EdgeObserved(e)
<1> DEFINE r == RelationshipOf(work, e)
<1>1. work' = [work EXCEPT
               !.relStatus = [work.relStatus EXCEPT ![r] = "ACTIVE"],
               !.edgeRel = [work.edgeRel EXCEPT ![e] = r],
               !.edgeStatus = [work.edgeStatus EXCEPT ![e] = "ACTIVE"],
               !.edgeAbsences = [work.edgeAbsences EXCEPT ![e] = 0]]
  BY Zenon DEF ObserveEdge
<1> HIDE DEF r
<1>2. r = RelationshipOf(work, e)
  BY Zenon DEF r
<1> QED BY Zenon, <1>1, <1>2 DEF Tables, Columns, EdgeObserved

\* CountMissing writes the absences and the status of source identities.
MissingCounted ==
    /\ work' = Columns(work')
    /\ work'.assetStatus = work.assetStatus
    /\ work'.effective = work.effective
    /\ work'.idAsset = work.idAsset
    /\ work'.idStatus = [i \in SourceIDs |-> IF i \in GivenUp(work) THEN "MISSING"
                                             ELSE work.idStatus[i]]
    /\ work'.idAbsences = CountedAbsences(work)
    /\ work'.strong = work.strong
    /\ work'.claims = work.claims
    /\ work'.relStatus = work.relStatus
    /\ work'.edgeRel = work.edgeRel
    /\ work'.edgeStatus = work.edgeStatus
    /\ work'.edgeAbsences = work.edgeAbsences

LEMMA CountMissingColumns ==
    ASSUME work \in Tables, CountMissing
    PROVE  MissingCounted
<1>1. work' = [work EXCEPT
        !.idAbsences = CountedAbsences(work),
        !.idStatus = [i \in SourceIDs |-> IF i \in GivenUp(work) THEN "MISSING" ELSE work.idStatus[i]]]
  BY Zenon DEF CountMissing
<1> QED BY Zenon, <1>1 DEF Tables, Columns, MissingCounted

\* LapseAsset writes the claims, the columns and the status of one asset.
AssetLapsed(a, cs, new) ==
    /\ work' = Columns(work')
    /\ work'.assetStatus = [work.assetStatus EXCEPT ![a] =
           IF ActiveSources(work, a) = {} THEN "MISSING" ELSE ClaimStatus(cs, a)]
    /\ work'.effective = [work.effective EXCEPT ![a] = new]
    /\ work'.idAsset = work.idAsset
    /\ work'.idStatus = work.idStatus
    /\ work'.idAbsences = work.idAbsences
    /\ work'.strong = work.strong
    /\ work'.claims = cs
    /\ work'.relStatus = work.relStatus
    /\ work'.edgeRel = work.edgeRel
    /\ work'.edgeStatus = work.edgeStatus
    /\ work'.edgeAbsences = work.edgeAbsences

LEMMA LapseAssetColumns ==
    ASSUME work \in Tables, NEW a \in SourceIDs, LapseAsset(a)
    PROVE  LET cs == work.claims \ Unbacked(work, a)
           IN  \E new \in EffectiveColumns(cs, a, work.effective[a]) : AssetLapsed(a, cs, new)
<1> DEFINE cs == work.claims \ Unbacked(work, a)
           status == IF ActiveSources(work, a) = {} THEN "MISSING" ELSE ClaimStatus(cs, a)
<1>1. PICK new \in EffectiveColumns(cs, a, work.effective[a]) :
        work' = [work EXCEPT
                !.claims = cs,
                !.effective = [work.effective EXCEPT ![a] = new],
                !.assetStatus = [work.assetStatus EXCEPT ![a] = status]]
  BY Zenon DEF LapseAsset, Gone
<1>2. AssetLapsed(a, cs, new)
  <2> SUFFICES /\ work' = Columns(work')
               /\ work'.assetStatus = [work.assetStatus EXCEPT ![a] = status]
               /\ work'.effective = [work.effective EXCEPT ![a] = new]
               /\ work'.idAsset = work.idAsset
               /\ work'.idStatus = work.idStatus
               /\ work'.idAbsences = work.idAbsences
               /\ work'.strong = work.strong
               /\ work'.claims = cs
               /\ work'.relStatus = work.relStatus
               /\ work'.edgeRel = work.edgeRel
               /\ work'.edgeStatus = work.edgeStatus
               /\ work'.edgeAbsences = work.edgeAbsences
    BY Zenon DEF AssetLapsed
  <2> HIDE DEF status, cs
  <2> QED BY Zenon, <1>1 DEF Tables, Columns
<1> QED BY Zenon, <1>1, <1>2

\* CountRemoved writes the absences and the status of source edges.
RemovedCounted ==
    /\ work' = Columns(work')
    /\ work'.assetStatus = work.assetStatus
    /\ work'.effective = work.effective
    /\ work'.idAsset = work.idAsset
    /\ work'.idStatus = work.idStatus
    /\ work'.idAbsences = work.idAbsences
    /\ work'.strong = work.strong
    /\ work'.claims = work.claims
    /\ work'.relStatus = work.relStatus
    /\ work'.edgeRel = work.edgeRel
    /\ work'.edgeStatus = [e \in SourceEdges |-> IF e \in GivenUpEdges(work) THEN "REMOVED"
                                                 ELSE work.edgeStatus[e]]
    /\ work'.edgeAbsences = CountedEdgeAbsences(work)

LEMMA CountRemovedColumns ==
    ASSUME work \in Tables, CountRemoved
    PROVE  RemovedCounted
<1>1. work' = [work EXCEPT
        !.edgeAbsences = CountedEdgeAbsences(work),
        !.edgeStatus = [e \in SourceEdges |-> IF e \in GivenUpEdges(work) THEN "REMOVED" ELSE work.edgeStatus[e]]]
  BY Zenon DEF CountRemoved
<1> QED BY Zenon, <1>1 DEF Tables, Columns, RemovedCounted

\* DropRelationship writes the status of one relationship.
RelationshipDropped(r) ==
    /\ work' = Columns(work')
    /\ work'.assetStatus = work.assetStatus
    /\ work'.effective = work.effective
    /\ work'.idAsset = work.idAsset
    /\ work'.idStatus = work.idStatus
    /\ work'.idAbsences = work.idAbsences
    /\ work'.strong = work.strong
    /\ work'.claims = work.claims
    /\ work'.relStatus = [work.relStatus EXCEPT ![r] =
           IF work.relStatus[r] = "ACTIVE" /\ ActiveEdges(work, r) = {} THEN "REMOVED"
           ELSE work.relStatus[r]]
    /\ work'.edgeRel = work.edgeRel
    /\ work'.edgeStatus = work.edgeStatus
    /\ work'.edgeAbsences = work.edgeAbsences

LEMMA DropRelationshipColumns ==
    ASSUME work \in Tables, NEW r \in Relationships, DropRelationship(r)
    PROVE  RelationshipDropped(r)
<1>1. work' = [work EXCEPT !.relStatus[r] =
                   IF @ = "ACTIVE" /\ ActiveEdges(work, r) = {} THEN "REMOVED" ELSE @]
  BY Zenon DEF DropRelationship
<1> QED BY Zenon, <1>1 DEF Tables, Columns, RelationshipDropped

-----------------------------------------------------------------------------
(* Types.                                                                  *)

\* What the resolution of an observation returns is a source identity.
LEMMA ResolvedType ==
    ASSUME work \in Tables, NEW i \in SourceIDs, NEW ids \in SUBSET StrongIDs
    PROVE  ResolvedAsset(work, i, ids) \in SourceIDs
<1> DEFINE bound == {work.strong[s] : s \in ids} \ {NoAsset}
<1>1. bound # {} => (CHOOSE b \in bound : TRUE) \in bound
  BY Zenon
<1>2. bound \subseteq SourceIDs /\ work.idAsset[i] \in SourceIDs \cup {NoAsset}
  BY TablesColumns
<1> QED BY Zenon, <1>1, <1>2 DEF ResolvedAsset

\* The claims after an observation are claims.
LEMMA ObservedClaimsType ==
    ASSUME NEW cs \in SUBSET Claims, NEW i \in SourceIDs, NEW a \in SourceIDs, NEW attrs \in Attributes
    PROVE  ObservedClaims(cs, i, a, attrs) \in SUBSET Claims
  BY DEF Claims, Attributes, ObservedClaims, Superseded

\* Counting an absence stays within the cap.
LEMMA CountAbsenceType ==
    ASSUME NEW n \in 0..AbsenceCap
    PROVE  CountAbsence(n) \in 0..AbsenceCap /\ n <= CountAbsence(n)
  BY PolicyAssumption DEF CountAbsence

\* The eleven columns and their types make a state of the tables.
LEMMA TablesIntro ==
    ASSUME work' = Columns(work'),
           work'.assetStatus \in [SourceIDs -> {"NONE", "ACTIVE", "CONFLICTING", "MISSING"}],
           work'.effective \in [SourceIDs -> [Fields -> Values \cup {NoValue}]],
           work'.idAsset \in [SourceIDs -> SourceIDs \cup {NoAsset}],
           work'.idStatus \in [SourceIDs -> {"NONE", "ACTIVE", "MISSING"}],
           work'.idAbsences \in [SourceIDs -> 0..AbsenceCap],
           work'.strong \in [StrongIDs -> SourceIDs \cup {NoAsset}],
           work'.claims \in SUBSET Claims,
           work'.relStatus \in [Relationships -> {"NONE", "ACTIVE", "REMOVED"}],
           work'.edgeRel \in [SourceEdges -> Relationships \cup {NoAsset}],
           work'.edgeStatus \in [SourceEdges -> {"NONE", "ACTIVE", "REMOVED"}],
           work'.edgeAbsences \in [SourceEdges -> 0..AbsenceCap]
    PROVE  work' \in Tables
  BY Zenon DEF Tables, Columns

\* ObserveAsset keeps the types.
LEMMA ObserveAssetType ==
    ASSUME TypeOK, NEW i \in SourceIDs, NEW ids \in SUBSET HintsOf[i],
           NEW attrs \in Attributes, ObserveAsset(i, ids, attrs)
    PROVE  TypeOK'
<1> DEFINE a == ResolvedAsset(work, i, ids)
           cs == ObservedClaims(work.claims, i, a, attrs)
<1>0. work \in Tables
  BY Zenon DEF TypeOK
<1>1. a \in SourceIDs
  BY Zenon, SourceAssumption, <1>0, ResolvedType
<1>2. cs \in SUBSET Claims
  BY Zenon, <1>0, <1>1, TablesColumns, ObservedClaimsType
<1>3. PICK old, new : new \in EffectiveColumns(cs, a, old) /\ AssetObserved(i, ids, a, cs, new)
  BY Zenon, <1>0, ObserveAssetColumns
<1>4. new \in [Fields -> Values \cup {NoValue}] /\ ClaimStatus(cs, a) \in {"ACTIVE", "CONFLICTING"}
  BY Zenon, <1>3 DEF EffectiveColumns, ClaimStatus
<1>5. work' \in Tables
  <2> HIDE DEF a, cs
  <2> QED BY PolicyAssumption, <1>0, <1>1, <1>2, <1>3, <1>4, TablesColumns, TablesIntro DEF AssetObserved
<1>6. changes' \subseteq Change
  <2> HIDE DEF a
  <2> QED BY <1>1 DEF TypeOK, ObserveAsset, Change, Report, a
<1> QED BY Zenon, <1>5, <1>6 DEF TypeOK, ObserveAsset

\* A stored source edge belongs to a relationship.
LEMMA EdgeRelType ==
    ASSUME NEW t \in Tables, NEW e \in SourceEdges, EdgeBound(t, e), t.edgeStatus[e] # "NONE"
    PROVE  t.edgeRel[e] \in Relationships
<1>1. t.idAsset[From[e]] \in SourceIDs /\ t.idAsset[To[e]] \in SourceIDs /\ TypeOf[e] \in Types
  BY EdgeAssumption, TablesColumns DEF EdgeBound
<1>2. RelationshipOf(t, e) \in Relationships
  BY Zenon, <1>1 DEF RelationshipOf, Relationships
<1>3. t.edgeRel[e] = RelationshipOf(t, e)
  BY Zenon DEF EdgeBound
<1> QED BY Zenon, <1>2, <1>3

\* Every other step of the transaction on the tables keeps them too.
LEMMA ObserveEdgeType ==
    ASSUME TableInv, NEW e \in SourceEdges, ObserveEdge(e)
    PROVE  TypeOK' /\ RelationshipOf(work, e) \in Relationships
<1> DEFINE r == RelationshipOf(work, e)
<1>0. work \in Tables
  BY Zenon DEF TableInv, TypeOK
<1>1. r \in Relationships /\ r[1] \in SourceIDs
  BY EdgeAssumption, <1>0, TablesColumns DEF TableInv, WorkSeen, WorkAssets, RowsMatch, ObserveEdge,
                             RelationshipOf, Relationships
<1>c. EdgeObserved(e)
  BY Zenon, <1>0, ObserveEdgeColumns
<1>2. work' \in Tables
  BY PolicyAssumption, <1>0, <1>1, <1>c, TablesColumns, TablesIntro DEF EdgeObserved
<1>3. changes' \subseteq Change
  <2> HIDE DEF r
  <2> QED BY <1>1 DEF TableInv, TypeOK, ObserveEdge, Change, Report, r
<1> QED BY Zenon, <1>1, <1>2, <1>3 DEF TableInv, TypeOK, ObserveEdge

LEMMA CountMissingType ==
    ASSUME TableInv, CountMissing
    PROVE  TypeOK'
<1>0. work \in Tables
  BY Zenon DEF TableInv, TypeOK
<1>1. CountedAbsences(work) \in [SourceIDs -> 0..AbsenceCap]
  BY Zenon, <1>0, TablesColumns, CountAbsenceType DEF CountedAbsences
<1>c. MissingCounted
  BY Zenon, <1>0, CountMissingColumns
<1>2. work' \in Tables
  BY <1>0, <1>1, <1>c, TablesColumns, TablesIntro DEF MissingCounted
<1>3. lapsed' \subseteq SourceIDs
  BY <1>0, TablesColumns DEF TableInv, WorkAssets, RowsMatch, CountMissing, GivenUp
<1> QED BY Zenon, <1>2, <1>3 DEF TableInv, TypeOK, CountMissing

LEMMA LapseAssetType ==
    ASSUME TypeOK, NEW a \in SourceIDs, LapseAsset(a)
    PROVE  TypeOK'
<1> DEFINE cs == work.claims \ Unbacked(work, a)
<1>0. work \in Tables
  BY Zenon DEF TypeOK
<1>1. PICK new \in EffectiveColumns(cs, a, work.effective[a]) : AssetLapsed(a, cs, new)
  BY ZenonT(30), <1>0, LapseAssetColumns
<1>2. new \in [Fields -> Values \cup {NoValue}] /\ ClaimStatus(cs, a) \in {"ACTIVE", "CONFLICTING"}
  BY Zenon DEF EffectiveColumns, ClaimStatus
<1>3. cs \in SUBSET Claims
  BY Zenon, <1>0, TablesColumns
<1>4. work' \in Tables
  <2> HIDE DEF cs
  <2> QED BY <1>0, <1>1, <1>2, <1>3, TablesColumns, TablesIntro DEF AssetLapsed
<1>5. changes' \subseteq Change
  BY DEF TypeOK, LapseAsset, Change, Report
<1> QED BY Zenon, <1>4, <1>5 DEF TypeOK, LapseAsset

LEMMA CountRemovedType ==
    ASSUME TableInv, CountRemoved
    PROVE  TypeOK'
<1>0. work \in Tables
  BY Zenon DEF TableInv, TypeOK
<1>1. CountedEdgeAbsences(work) \in [SourceEdges -> 0..AbsenceCap]
  BY Zenon, <1>0, TablesColumns, CountAbsenceType DEF CountedEdgeAbsences
<1>c. RemovedCounted
  BY Zenon, <1>0, CountRemovedColumns
<1>2. work' \in Tables
  BY <1>0, <1>1, <1>c, TablesColumns, TablesIntro DEF RemovedCounted
<1>3. dropped' \subseteq Relationships
  <2>1. \A e \in GivenUpEdges(work) : work.edgeRel[e] \in Relationships
    <3> TAKE e \in GivenUpEdges(work)
    <3>1. e \in SourceEdges /\ work.edgeStatus[e] = "ACTIVE"
      BY Zenon DEF GivenUpEdges
    <3> QED BY Zenon, <1>0, <3>1, EdgeRelType DEF TableInv, WorkEdges
  <2> QED BY Zenon, <2>1 DEF CountRemoved
<1> QED BY Zenon, <1>2, <1>3 DEF TableInv, TypeOK, CountRemoved

LEMMA DropRelationshipType ==
    ASSUME TypeOK, NEW r \in Relationships, DropRelationship(r)
    PROVE  TypeOK'
<1>0. work \in Tables
  BY Zenon DEF TypeOK
<1>c. RelationshipDropped(r)
  BY Zenon, <1>0, DropRelationshipColumns
<1>1. work' \in Tables
  BY <1>0, <1>c, TablesColumns, TablesIntro DEF RelationshipDropped
<1> QED BY Zenon, <1>1 DEF TypeOK, DropRelationship

LEMMA CommitType ==
    ASSUME TypeOK, Commit
    PROVE  TypeOK'
<1>1. missed' \in [SourceIDs -> 0..AbsenceCap]
  BY PolicyAssumption, CountAbsenceType DEF TypeOK, Commit
<1> QED BY Zenon, <1>1 DEF TypeOK, Commit, Finish

\* Outside markMissing the invariant of edges has a simpler form.
LEMMA PlainEdges ==
    ASSUME WorkEdges, phase # "missing", NEW e \in SourceEdges, NEW p \in Endpoints(e)
    PROVE  /\ work.edgeStatus[e] # "NONE" => work.idAbsences[p] <= work.edgeAbsences[e]
           /\ work.edgeStatus[e] = "ACTIVE" => work.idStatus[p] = "ACTIVE"
  BY Zenon DEF WorkEdges, Uncounted

-----------------------------------------------------------------------------
(* What the loops have seen.                                               *)

\* What the loops have seen stays ACTIVE with no absences until the end.
LEMMA SeenStep ==
    ASSUME TableInv, Next
    PROVE  WorkSeen'
<1>0. work \in Tables
  BY Zenon DEF TableInv, TypeOK
<1>1. /\ work.idStatus \in [SourceIDs -> {"NONE", "ACTIVE", "MISSING"}]
      /\ work.idAbsences \in [SourceIDs -> 0..AbsenceCap]
      /\ work.edgeStatus \in [SourceEdges -> {"NONE", "ACTIVE", "REMOVED"}]
      /\ work.edgeAbsences \in [SourceEdges -> 0..AbsenceCap]
      /\ seen \subseteq SourceIDs
      /\ seenEdges \subseteq SourceEdges
      /\ threshold \in Nat \ {0}
  BY PolicyAssumption, <1>0, TablesColumns DEF TableInv, TypeOK
<1>2. ASSUME NEW c \in Connectors, NEW n \in Thresholds, Begin(c, n)
      PROVE  WorkSeen'
  BY Zenon, <1>2 DEF TableInv, WorkSeen, Begin
<1>3. ASSUME NEW i \in SourceIDs, NEW ids \in SUBSET HintsOf[i], NEW attrs \in Attributes,
             ObserveAsset(i, ids, attrs)
      PROVE  WorkSeen'
  <2>1. /\ \A j \in SourceIDs : work.idStatus[j] = "ACTIVE" => work'.idStatus[j] = "ACTIVE"
        /\ \A j \in SourceIDs : work.idAbsences[j] = 0 => work'.idAbsences[j] = 0
        /\ work'.idStatus[i] = "ACTIVE"
        /\ work'.idAbsences[i] = 0
        /\ work'.edgeStatus = work.edgeStatus
        /\ work'.edgeAbsences = work.edgeAbsences
    <3>1. PICK new : AssetObserved(i, ids, ResolvedAsset(work, i, ids),
                         ObservedClaims(work.claims, i, ResolvedAsset(work, i, ids), attrs), new)
      BY Zenon, <1>0, <1>3, ObserveAssetColumns
    <3> QED BY Zenon, <1>1, <3>1 DEF AssetObserved
  <2> QED BY <1>1, <1>3, <2>1 DEF TableInv, WorkSeen, ObserveAsset
<1>4. ASSUME NEW e \in SourceEdges, ObserveEdge(e)
      PROVE  WorkSeen'
  <2>1. EdgeObserved(e)
    BY Zenon, <1>0, <1>4, ObserveEdgeColumns
  <2>2. /\ work'.idStatus = work.idStatus
        /\ work'.idAbsences = work.idAbsences
        /\ work'.edgeStatus[e] = "ACTIVE"
        /\ work'.edgeAbsences[e] = 0
        /\ \A f \in SourceEdges : f # e => /\ work'.edgeStatus[f] = work.edgeStatus[f]
                                           /\ work'.edgeAbsences[f] = work.edgeAbsences[f]
    BY Zenon, <1>1, <2>1 DEF EdgeObserved
  <2> QED BY <1>1, <1>4, <2>2 DEF TableInv, WorkSeen, ObserveEdge
<1>5. ASSUME CountMissing
      PROVE  WorkSeen'
  <2>1. MissingCounted
    BY Zenon, <1>0, <1>5, CountMissingColumns
  <2>2. \A i \in seen : CountedAbsences(work)[i] = 0 /\ i \notin GivenUp(work)
    <3>1. \A i \in seen : CountedAbsences(work)[i] = 0
      BY Zenon, <1>1 DEF TableInv, WorkSeen, CountedAbsences, Absent
    <3> QED BY <1>1, <3>1 DEF GivenUp
  <2>3. \A i \in seen : work'.idStatus[i] = "ACTIVE" /\ work'.idAbsences[i] = 0
    BY <1>1, <2>1, <2>2 DEF MissingCounted, TableInv, WorkSeen
  <2>4. work'.edgeStatus = work.edgeStatus /\ work'.edgeAbsences = work.edgeAbsences
    BY Zenon, <2>1 DEF MissingCounted
  <2> QED BY Zenon, <1>5, <2>3, <2>4 DEF TableInv, WorkSeen, CountMissing
<1>6. ASSUME NEW a \in lapsed, LapseAsset(a)
      PROVE  WorkSeen'
  <2>1. a \in SourceIDs
    BY Zenon DEF TableInv, TypeOK
  <2>2. /\ work'.idStatus = work.idStatus
        /\ work'.idAbsences = work.idAbsences
        /\ work'.edgeStatus = work.edgeStatus
        /\ work'.edgeAbsences = work.edgeAbsences
    <3>1. PICK new : AssetLapsed(a, work.claims \ Unbacked(work, a), new)
      BY Zenon, <1>0, <1>6, <2>1, LapseAssetColumns
    <3> QED BY Zenon, <3>1 DEF AssetLapsed
  <2> QED BY Zenon, <1>6, <2>2 DEF TableInv, WorkSeen, LapseAsset
<1>7. ASSUME CountRemoved
      PROVE  WorkSeen'
  <2>1. RemovedCounted
    BY Zenon, <1>0, <1>7, CountRemovedColumns
  <2>2. \A e \in seenEdges : CountedEdgeAbsences(work)[e] = 0 /\ e \notin GivenUpEdges(work)
    <3>1. \A e \in seenEdges : CountedEdgeAbsences(work)[e] = 0
      BY Zenon, <1>1 DEF TableInv, WorkSeen, CountedEdgeAbsences, EdgeAbsent
    <3> QED BY <1>1, <3>1 DEF GivenUpEdges
  <2>3. \A e \in seenEdges : work'.edgeStatus[e] = "ACTIVE" /\ work'.edgeAbsences[e] = 0
    BY <1>1, <2>1, <2>2 DEF RemovedCounted, TableInv, WorkSeen
  <2>4. work'.idStatus = work.idStatus /\ work'.idAbsences = work.idAbsences
    BY Zenon, <2>1 DEF RemovedCounted
  <2> QED BY ZenonT(30), <1>7, <2>3, <2>4 DEF TableInv, WorkSeen, CountRemoved
<1>8. ASSUME NEW r \in dropped, DropRelationship(r)
      PROVE  WorkSeen'
  <2>1. RelationshipDropped(r)
    BY Zenon, <1>0, <1>8, DropRelationshipColumns DEF TableInv, TypeOK
  <2> QED BY <1>8, <2>1 DEF TableInv, WorkSeen, DropRelationship, RelationshipDropped
<1>9. ASSUME Commit \/ Abort
      PROVE  WorkSeen'
  BY Zenon, <1>9 DEF WorkSeen, Commit, Abort, Finish
<1> QED BY Zenon, <1>2, <1>3, <1>4, <1>5, <1>6, <1>7, <1>8, <1>9 DEF Next

-----------------------------------------------------------------------------
(* What the invariant says of the committed tables.                        *)

\* What the invariant says of the committed tables.
LEMMA SettledTables ==
    ASSUME TableInv
    PROVE  StatusOfAssets /\ ClaimsOfSources /\ ColumnsOfAssets /\ AssetsHaveFounders
<1>1. StatusOfAssets
  BY Zenon DEF TableInv, Settled, StatusOfAssets
<1>2. ClaimsOfSources
  BY Zenon DEF TableInv, Settled, ClaimsOfSources
<1>3. ColumnsOfAssets
  BY Zenon DEF TableInv, Settled, ColumnsOfAssets
<1>4. AssetsHaveFounders
  BY Zenon DEF TableInv, Settled, AssetsHaveFounders
<1> QED BY Zenon, <1>1, <1>2, <1>3, <1>4

\* An endpoint of an ACTIVE source edge belongs to an asset that is there.
LEMMA EndpointAsset ==
    ASSUME db \in Tables, Settled(db), NEW e \in SourceEdges, db.edgeStatus[e] = "ACTIVE",
           NEW p \in Endpoints(e)
    PROVE  db.assetStatus[db.idAsset[p]] \in {"ACTIVE", "CONFLICTING"}
<1> DEFINE a == db.idAsset[p]
<1>1. p \in SourceIDs /\ db.idStatus[p] = "ACTIVE"
  BY EdgeAssumption DEF Settled, EdgeAnchored, Endpoints
<1>2. a \in SourceIDs /\ db.assetStatus[a] # "NONE"
  <2>1. db.idAsset[p] \in SourceIDs \cup {NoAsset}
    BY Zenon, <1>1, TablesColumns
  <2>2. a \in SourceIDs
    BY Zenon, <1>1, <2>1 DEF Settled, RowsMatch
  <2> QED BY Zenon, SourceAssumption, <2>2, <1>1 DEF Settled, Founded
<1>3. ActiveSources(db, a) # {}
  BY Zenon, <1>1 DEF ActiveSources
<1>4. db.assetStatus[a] = ClaimStatus(db.claims, a)
  BY Zenon, <1>2, <1>3 DEF Settled, StatusMatches
<1> QED BY Zenon, <1>4 DEF ClaimStatus

\* What the invariant says of the committed relationships.
LEMMA SettledGraph ==
    ASSUME TableInv
    PROVE  GraphIsAnchored
<1>1. db \in Tables /\ Settled(db)
  BY Zenon DEF TableInv, TypeOK
<1>2. \A e \in SourceEdges : EdgeAnchored(db, e)
  BY ZenonT(30), <1>1 DEF Settled
<1>3. \A r \in Relationships : RelationshipMatches(db, r)
  BY ZenonT(30), <1>1 DEF Settled
<1>4. ASSUME NEW r \in Relationships, db.relStatus[r] = "ACTIVE"
      PROVE  /\ db.assetStatus[r[1]] \in {"ACTIVE", "CONFLICTING"}
             /\ db.assetStatus[r[2]] \in {"ACTIVE", "CONFLICTING"}
  <2>1. PICK e \in SourceEdges : db.edgeRel[e] = r /\ db.edgeStatus[e] = "ACTIVE"
    BY Zenon, <1>3, <1>4 DEF RelationshipMatches, ActiveEdges
  <2>2. r = RelationshipOf(db, e)
    BY Zenon, <1>2, <2>1 DEF EdgeAnchored
  <2>3. r[1] = db.idAsset[From[e]] /\ r[2] = db.idAsset[To[e]]
    BY Zenon, <2>2 DEF RelationshipOf
  <2> QED BY Zenon, <1>1, <2>1, <2>3, EndpointAsset DEF Endpoints
<1> QED BY Zenon, <1>2, <1>3, <1>4 DEF GraphIsAnchored

------------------------------------------------------------------------------
(***************************************************************************)
(* The loops of ApplyPostgres over the assets and the relationships of a   *)
(* snapshot preserve the invariant of the tables.                          *)
(***************************************************************************)

\* Steps that leave the asset side of the tables alone.
LEMMA AssetsFrame ==
    ASSUME WorkAssets,
           work'.assetStatus = work.assetStatus, work'.effective = work.effective,
           work'.idAsset = work.idAsset, work'.idStatus = work.idStatus,
           work'.strong = work.strong, work'.claims = work.claims,
           lapsed' = lapsed, connector' = connector
    PROVE  WorkAssets'
  BY DEF WorkAssets, RowsMatch, Founded, OneClaim, StatusMatches, ActiveSources, ClaimStatus,
         Conflict, ClaimBacked, ColumnSupported, TopClaims

\* The asset an observation resolves to is the one its source identity is
\* bound to, and it is stored already unless it is named after the latter.
LEMMA ResolvedFacts ==
    ASSUME work \in Tables, Founded(work), NEW i \in SourceIDs, NEW ids \in SUBSET StrongIDs,
           NEW a, a = ResolvedAsset(work, i, ids)
    PROVE  /\ a \in SourceIDs
           /\ a = i \/ (work.idAsset[a] = a /\ work.assetStatus[a] # "NONE")
           /\ work.idAsset[i] \in {NoAsset, a}
<1> DEFINE bound == {work.strong[s] : s \in ids} \ {NoAsset}
<1>1. a \in SourceIDs
  BY Zenon, ResolvedType
<1>2. CASE work.idAsset[i] # NoAsset
  BY Zenon, <1>1, <1>2 DEF ResolvedAsset, Founded
<1>3. CASE work.idAsset[i] = NoAsset /\ bound # {}
  <2>1. a \in bound
    <3>1. a = CHOOSE b \in bound : TRUE
      BY Zenon, <1>3 DEF ResolvedAsset
    <3> QED BY Zenon, <1>3, <3>1
  <2> QED BY <1>1, <1>3, <2>1 DEF Founded
<1>4. CASE work.idAsset[i] = NoAsset /\ bound = {}
  BY Zenon, <1>1, <1>4 DEF ResolvedAsset
<1> QED BY Zenon, <1>2, <1>3, <1>4

\* Observing an asset replaces claims on it and on no other.
LEMMA ObservedClaimsFacts ==
    ASSUME NEW cs \in SUBSET Claims, NEW i \in SourceIDs, NEW a \in SourceIDs, NEW attrs \in Attributes
    PROVE  LET new == ObservedClaims(cs, i, a, attrs)
           IN  /\ \A x \in new : x \in cs \/ (x.asset = a /\ x.source = i)
               /\ \A x \in Claims : x.asset # a => (x \in new <=> x \in cs)
  BY DEF Claims, Attributes, ObservedClaims, Superseded

\* The connector still has one claim per attribute of the asset.
LEMMA ObservedOneClaim ==
    ASSUME work \in Tables, OneClaim(work), NEW i \in SourceIDs, NEW a \in SourceIDs,
           NEW attrs \in Attributes, ConnectorOf[i] = connector,
           NEW x \in ObservedClaims(work.claims, i, a, attrs),
           NEW y \in ObservedClaims(work.claims, i, a, attrs),
           x.asset = y.asset, x.key = y.key, ConnectorOf[x.source] = ConnectorOf[y.source]
    PROVE  x = y
<1> DEFINE kept  == work.claims \ Superseded(work.claims, a, DOMAIN attrs)
           added == {[asset |-> a, source |-> i, key |-> k, value |-> attrs[k]] : k \in DOMAIN attrs}
<1>1. x \in kept \cup added /\ y \in kept \cup added
  BY Zenon DEF ObservedClaims
<1>2. \A u \in kept, v \in added : ~(u.asset = v.asset /\ u.key = v.key
                                     /\ ConnectorOf[u.source] = ConnectorOf[v.source])
  BY DEF Superseded
<1>3. \A u, v \in added : u.key = v.key => u = v
  OBVIOUS
<1>4. x \in kept /\ y \in kept => x = y
  BY Zenon DEF OneClaim
<1> QED BY Zenon, <1>1, <1>2, <1>3, <1>4

LEMMA ObserveAssetAssets ==
    ASSUME TableInv, NEW i \in SourceIDs, NEW ids \in SUBSET HintsOf[i],
           NEW attrs \in Attributes, ObserveAsset(i, ids, attrs)
    PROVE  WorkAssets'
<1> DEFINE a == ResolvedAsset(work, i, ids)
           cs == ObservedClaims(work.claims, i, a, attrs)
<1>0. work \in Tables /\ Founded(work) /\ lapsed = {} /\ ids \in SUBSET StrongIDs
  BY Zenon, SourceAssumption DEF TableInv, TypeOK, WorkAssets, WorkSeen, ObserveAsset
<1>1. /\ a \in SourceIDs
      /\ a = i \/ (work.idAsset[a] = a /\ work.assetStatus[a] # "NONE")
      /\ work.idAsset[i] \in {NoAsset, a}
  BY Zenon, <1>0, ResolvedFacts
<1>2. PICK old, new : new \in EffectiveColumns(cs, a, old) /\ AssetObserved(i, ids, a, cs, new)
  BY Zenon, <1>0, ObserveAssetColumns
<1>3. /\ \A x \in cs : x \in work.claims \/ (x.asset = a /\ x.source = i)
      /\ \A x \in Claims : x.asset # a => (x \in cs <=> x \in work.claims)
      /\ cs \in SUBSET Claims
      /\ work.claims \in SUBSET Claims
  BY <1>0, <1>1, TablesColumns, ObservedClaimsFacts, ObservedClaimsType
<1>4. OneClaim(work')
  <2>1. \A x, y \in cs : x.asset = y.asset /\ x.key = y.key
                         /\ ConnectorOf[x.source] = ConnectorOf[y.source] => x = y
    BY Zenon, <1>0, <1>1, ObservedOneClaim DEF TableInv, WorkAssets, ObserveAsset
  <2> QED BY <1>2, <2>1 DEF AssetObserved, OneClaim
<1>5. ConnectorOf[i] = connector /\ lapsed' = lapsed /\ connector' = connector
  BY Zenon DEF ObserveAsset
<1> HIDE DEF a, cs
<1>6. ClaimStatus(cs, a) # "NONE" /\ ClaimStatus(cs, a) # "MISSING"
  BY Zenon DEF ClaimStatus
<1>7. /\ work.idAsset \in [SourceIDs -> SourceIDs \cup {NoAsset}]
      /\ work.idStatus \in [SourceIDs -> {"NONE", "ACTIVE", "MISSING"}]
      /\ work.assetStatus \in [SourceIDs -> {"NONE", "ACTIVE", "CONFLICTING", "MISSING"}]
      /\ work.strong \in [StrongIDs -> SourceIDs \cup {NoAsset}]
      /\ work.effective \in [SourceIDs -> [Fields -> Values \cup {NoValue}]]
  BY Zenon, <1>0, TablesColumns
<1>8. RowsMatch(work')
  BY SourceAssumption, <1>1, <1>2, <1>7 DEF TableInv, WorkAssets, AssetObserved, RowsMatch
<1>9. Founded(work')
  <2>1. \A b \in SourceIDs : work'.assetStatus[b] # "NONE" <=> work'.idAsset[b] = b
    BY SourceAssumption, <1>0, <1>1, <1>2, <1>6, <1>7 DEF AssetObserved, Founded
  <2>2. \A b \in SourceIDs : work'.assetStatus[b] = "NONE" => work.assetStatus[b] = "NONE" /\ b # a
    BY Zenon, <1>1, <1>2, <1>6, <1>7 DEF AssetObserved
  <2>3. \A j \in SourceIDs : work'.idAsset[j] # NoAsset => work'.assetStatus[work'.idAsset[j]] # "NONE"
    BY <1>0, <1>1, <1>2, <1>7, <2>2 DEF AssetObserved, Founded
  <2>4. \A s \in StrongIDs : work'.strong[s] # NoAsset => work'.assetStatus[work'.strong[s]] # "NONE"
    BY <1>0, <1>1, <1>2, <1>7, <2>2 DEF AssetObserved, Founded
  <2> QED BY Zenon, <2>1, <2>3, <2>4 DEF Founded
<1>10. ASSUME NEW b \in SourceIDs, b # a
       PROVE  ActiveSources(work', b) = ActiveSources(work, b)
  BY SourceAssumption, <1>1, <1>2, <1>7, <1>10 DEF AssetObserved, ActiveSources
<1>11. \A b \in SourceIDs : ActiveSources(work, b) \subseteq ActiveSources(work', b)
  BY SourceAssumption, <1>1, <1>2, <1>7 DEF AssetObserved, ActiveSources
<1>12. i \in ActiveSources(work', a)
  BY Zenon, <1>1, <1>2, <1>7 DEF AssetObserved, ActiveSources
<1>13. \A b \in SourceIDs : StatusMatches(work', b)
  <2>1. CASE lapsed = {}
    <3> TAKE b \in SourceIDs
    <3>1. CASE b = a
      BY Zenon, <1>1, <1>2, <1>7, <1>12, <3>1 DEF AssetObserved, StatusMatches
    <3>2. CASE b # a
      <4>1. Conflict(cs, b) <=> Conflict(work.claims, b)
        BY Zenon, <1>3, <3>2 DEF Conflict
      <4>2. StatusMatches(work, b)
        BY Zenon, <2>1 DEF TableInv, WorkAssets
      <4> QED BY Zenon, <1>1, <1>2, <1>7, <1>10, <3>2, <4>1, <4>2 DEF AssetObserved, StatusMatches, ClaimStatus
    <3> QED BY Zenon, <3>1, <3>2
  <2> QED BY Zenon, <1>0, <2>1
<1>14. \A x \in work'.claims : ClaimBacked(work', x)
  <2> SUFFICES ASSUME NEW x \in cs
               PROVE  \E j \in ActiveSources(work', x.asset) : ConnectorOf[j] = ConnectorOf[x.source]
    BY Zenon, <1>2 DEF AssetObserved, ClaimBacked
  <2>1. CASE x \in work.claims
    <3>1. x.asset \in SourceIDs
      BY Zenon, <1>3 DEF Claims
    <3> QED BY Zenon, <1>0, <1>11, <2>1, <3>1 DEF TableInv, WorkAssets, ClaimBacked
  <2>2. CASE x.asset = a /\ x.source = i
    BY Zenon, <1>12, <2>2
  <2> QED BY Zenon, <1>3, <2>1, <2>2
<1>15. \A b \in SourceIDs, f \in Fields : ColumnSupported(work', b, f)
  <2> TAKE b \in SourceIDs, f \in Fields
  <2>1. CASE b = a
    <3>1. work'.effective[a] = new /\ work'.claims = cs
      BY Zenon, <1>1, <1>2, <1>7 DEF AssetObserved
    <3>2. TopClaims(cs, a, f) # {} =>
             \E x \in TopClaims(cs, a, f) : new[f] = x.value \/ x.value \in BlankFor[f]
      BY Zenon, <1>2 DEF EffectiveColumns
    <3> QED BY Zenon, <2>1, <3>1, <3>2 DEF ColumnSupported
  <2>2. CASE b # a
    <3>1. TopClaims(cs, b, f) = TopClaims(work.claims, b, f)
      BY Zenon, <1>3, <2>2 DEF TopClaims
    <3>2. work'.effective[b] = work.effective[b] /\ work'.claims = cs
      BY SMTT(30), <1>1, <1>2, <1>7, <2>2 DEF AssetObserved
    <3> QED BY Zenon, <3>1, <3>2 DEF TableInv, WorkAssets, ColumnSupported
  <2> QED BY Zenon, <2>1, <2>2
<1> QED BY Zenon, <1>0, <1>4, <1>5, <1>8, <1>9, <1>13, <1>14, <1>15 DEF WorkAssets

\* Steps that leave the relationship side and the identities alone.
LEMMA EdgesFrame ==
    ASSUME WorkEdges,
           work'.idAsset = work.idAsset, work'.idStatus = work.idStatus,
           work'.idAbsences = work.idAbsences, work'.relStatus = work.relStatus,
           work'.edgeRel = work.edgeRel, work'.edgeStatus = work.edgeStatus,
           work'.edgeAbsences = work.edgeAbsences,
           phase' = phase, connector' = connector, threshold' = threshold,
           seenEdges' = seenEdges, dropped' = dropped
    PROVE  WorkEdges'
  BY DEF WorkEdges, EdgeBound, RelationshipOf, Endpoints, Uncounted, EdgeAbsent, ActiveEdges

LEMMA ObserveAssetEdges ==
    ASSUME TableInv, NEW i \in SourceIDs, NEW ids \in SUBSET HintsOf[i],
           NEW attrs \in Attributes, ObserveAsset(i, ids, attrs)
    PROVE  WorkEdges'
<1> DEFINE a == ResolvedAsset(work, i, ids)
           cs == ObservedClaims(work.claims, i, a, attrs)
<1>0. work \in Tables /\ Founded(work) /\ ids \in SUBSET StrongIDs
  BY Zenon, SourceAssumption DEF TableInv, TypeOK, WorkAssets
<1>1. a \in SourceIDs /\ work.idAsset[i] \in {NoAsset, a}
  BY Zenon, <1>0, ResolvedFacts
<1>2. PICK old, new : new \in EffectiveColumns(cs, a, old) /\ AssetObserved(i, ids, a, cs, new)
  BY Zenon, <1>0, ObserveAssetColumns
<1> HIDE DEF a, cs
<1>3. /\ work.idAsset \in [SourceIDs -> SourceIDs \cup {NoAsset}]
      /\ work.idStatus \in [SourceIDs -> {"NONE", "ACTIVE", "MISSING"}]
      /\ work.idAbsences \in [SourceIDs -> 0..AbsenceCap]
      /\ work.edgeAbsences \in [SourceEdges -> 0..AbsenceCap]
  BY Zenon, <1>0, TablesColumns
<1>4. /\ work'.relStatus = work.relStatus
      /\ work'.edgeRel = work.edgeRel
      /\ work'.edgeStatus = work.edgeStatus
      /\ work'.edgeAbsences = work.edgeAbsences
      /\ \A j \in SourceIDs : work.idAsset[j] # NoAsset => work'.idAsset[j] = work.idAsset[j]
      /\ \A j \in SourceIDs : work.idStatus[j] = "ACTIVE" => work'.idStatus[j] = "ACTIVE"
      /\ \A j \in SourceIDs : work'.idAbsences[j] = work.idAbsences[j] \/ work'.idAbsences[j] = 0
  BY Zenon, <1>1, <1>2, <1>3 DEF AssetObserved
<1>5. phase = "assets" /\ phase' = phase /\ dropped' = dropped
  BY Zenon DEF ObserveAsset
<1>6. \A e \in SourceEdges : EdgeBound(work', e)
  <2> TAKE e \in SourceEdges
  <2>1. EdgeBound(work, e) /\ From[e] \in SourceIDs /\ To[e] \in SourceIDs
    BY Zenon, EdgeAssumption DEF TableInv, WorkEdges
  <2> QED BY Zenon, <1>4, <2>1 DEF EdgeBound, RelationshipOf
<1>7. ASSUME NEW e \in SourceEdges, NEW p \in Endpoints(e)
      PROVE  /\ work'.edgeStatus[e] # "NONE" => work'.idAbsences[p] <= work'.edgeAbsences[e]
             /\ work'.edgeStatus[e] = "ACTIVE" => work'.idStatus[p] = "ACTIVE"
  <2>1. /\ work.edgeStatus[e] # "NONE" => work.idAbsences[p] <= work.edgeAbsences[e]
        /\ work.edgeStatus[e] = "ACTIVE" => work.idStatus[p] = "ACTIVE"
    BY Zenon, <1>5, PlainEdges DEF TableInv
  <2>2. p \in SourceIDs /\ work.edgeAbsences[e] >= 0
    BY EdgeAssumption, <1>3 DEF Endpoints
  <2> QED BY Zenon, <1>4, <2>1, <2>2
<1>8. \A e \in SourceEdges : ~Uncounted(e)'
  BY Zenon, <1>5 DEF Uncounted
<1>9. \A r \in Relationships :
          /\ ActiveEdges(work', r) # {} => work'.relStatus[r] = "ACTIVE"
          /\ work'.relStatus[r] = "ACTIVE" => ActiveEdges(work', r) # {} \/ r \in dropped'
  BY <1>4, <1>5 DEF TableInv, WorkEdges, ActiveEdges
<1> QED BY SMTT(30), <1>6, <1>7, <1>8, <1>9 DEF WorkEdges

LEMMA ObserveEdgeEdges ==
    ASSUME TableInv, NEW e \in SourceEdges, ObserveEdge(e)
    PROVE  WorkEdges'
<1> DEFINE r == RelationshipOf(work, e)
<1>0. work \in Tables /\ dropped = {} /\ From[e] \in seen /\ To[e] \in seen
  BY Zenon DEF TableInv, TypeOK, WorkSeen, ObserveEdge
<1>1. EdgeObserved(e)
  BY Zenon, <1>0, ObserveEdgeColumns
<1>2. r \in Relationships
  BY Zenon, ObserveEdgeType
<1>3. /\ work.relStatus \in [Relationships -> {"NONE", "ACTIVE", "REMOVED"}]
      /\ work.edgeRel \in [SourceEdges -> Relationships \cup {NoAsset}]
      /\ work.edgeStatus \in [SourceEdges -> {"NONE", "ACTIVE", "REMOVED"}]
      /\ work.edgeAbsences \in [SourceEdges -> 0..AbsenceCap]
  BY Zenon, <1>0, TablesColumns
<1>4. /\ work'.idAsset = work.idAsset
      /\ work'.idStatus = work.idStatus
      /\ work'.idAbsences = work.idAbsences
      /\ work'.relStatus[r] = "ACTIVE"
      /\ work'.edgeRel[e] = r
      /\ work'.edgeStatus[e] = "ACTIVE"
      /\ work'.edgeAbsences[e] = 0
      /\ \A q \in Relationships : q # r => work'.relStatus[q] = work.relStatus[q]
      /\ \A f \in SourceEdges : f # e => /\ work'.edgeRel[f] = work.edgeRel[f]
                                         /\ work'.edgeStatus[f] = work.edgeStatus[f]
                                         /\ work'.edgeAbsences[f] = work.edgeAbsences[f]
  <2> HIDE DEF r
  <2>1. r = RelationshipOf(work, e)
    BY Zenon DEF r
  <2> QED BY Zenon, <1>1, <1>2, <1>3, <2>1 DEF EdgeObserved
<1>5. phase # "missing" /\ phase' # "missing" /\ dropped' = dropped
  BY SMTT(30) DEF ObserveEdge
<1>6. \A p \in Endpoints(e) : /\ p \in SourceIDs
                              /\ work.idAsset[p] # NoAsset
                              /\ work.idStatus[p] = "ACTIVE"
                              /\ work.idAbsences[p] = 0
  BY EdgeAssumption, <1>0 DEF TableInv, WorkSeen, WorkAssets, RowsMatch, Endpoints
<1>7. \A f \in SourceEdges : EdgeBound(work', f)
  <2> TAKE f \in SourceEdges
  <2>1. CASE f = e
    BY SMTT(30), <1>4, <1>6, <2>1 DEF EdgeBound, RelationshipOf, Endpoints
  <2>2. CASE f # e
    BY <1>4, <2>2 DEF TableInv, WorkEdges, EdgeBound, RelationshipOf
  <2> QED BY Zenon, <2>1, <2>2
<1>8. ASSUME NEW f \in SourceEdges, NEW p \in Endpoints(f)
      PROVE  /\ work'.edgeStatus[f] # "NONE" => work'.idAbsences[p] <= work'.edgeAbsences[f]
             /\ work'.edgeStatus[f] = "ACTIVE" => work'.idStatus[p] = "ACTIVE"
  <2>1. CASE f = e
    BY <1>4, <1>6, <2>1
  <2>2. CASE f # e
    <3>1. /\ work.edgeStatus[f] # "NONE" => work.idAbsences[p] <= work.edgeAbsences[f]
          /\ work.edgeStatus[f] = "ACTIVE" => work.idStatus[p] = "ACTIVE"
      BY Zenon, <1>5, PlainEdges DEF TableInv
    <3> QED BY Zenon, <1>4, <2>2, <3>1
  <2> QED BY Zenon, <2>1, <2>2
<1>9. \A f \in SourceEdges : ~Uncounted(f)'
  BY Zenon, <1>5 DEF Uncounted
<1>10. ASSUME NEW q \in Relationships
       PROVE  /\ ActiveEdges(work', q) # {} => work'.relStatus[q] = "ACTIVE"
              /\ work'.relStatus[q] = "ACTIVE" => ActiveEdges(work', q) # {} \/ q \in dropped'
  <2>1. CASE q = r
    BY Zenon, <1>4, <2>1 DEF ActiveEdges
  <2>2. CASE q # r
    <3>1. work.edgeStatus[e] = "ACTIVE" => work.edgeRel[e] = r
      BY Zenon DEF TableInv, WorkEdges, EdgeBound
    <3>2. ActiveEdges(work', q) = ActiveEdges(work, q)
      <4> HIDE DEF r
      <4> QED BY ZenonT(30), <1>4, <2>2, <3>1 DEF ActiveEdges
    <3>3. work'.relStatus[q] = work.relStatus[q]
      BY Zenon, <1>4, <2>2
    <3> QED BY Zenon, <1>5, <3>2, <3>3 DEF TableInv, WorkEdges
  <2> QED BY Zenon, <2>1, <2>2
<1> QED BY Zenon, <1>7, <1>8, <1>9, <1>10 DEF WorkEdges

------------------------------------------------------------------------------
(***************************************************************************)
(* The statements of markMissing over source identities and assets preserve*)
(* the invariant of the tables.                                            *)
(***************************************************************************)

\* An asset that loses a source identity had an ACTIVE one and so the status
\* its claims give it; a claim that loses its backing is left to LapseAsset.
LEMMA CountMissingAssets ==
    ASSUME TableInv, CountMissing
    PROVE  WorkAssets'
<1>0. work \in Tables /\ lapsed = {}
  BY Zenon DEF TableInv, TypeOK, WorkSeen, CountMissing
<1>1. MissingCounted
  BY Zenon, <1>0, CountMissingColumns
<1>2. /\ work.idAsset \in [SourceIDs -> SourceIDs \cup {NoAsset}]
      /\ work.idStatus \in [SourceIDs -> {"NONE", "ACTIVE", "MISSING"}]
      /\ work.claims \in SUBSET Claims
  BY Zenon, <1>0, TablesColumns
<1>3. lapsed' = {work.idAsset[i] : i \in GivenUp(work)} /\ connector' = connector
  BY Zenon DEF CountMissing
<1>4. \A i \in GivenUp(work) : /\ i \in SourceIDs
                               /\ ConnectorOf[i] = connector
                               /\ i \in ActiveSources(work, work.idAsset[i])
                               /\ work.idAsset[i] \in SourceIDs
  BY Zenon, <1>2 DEF TableInv, WorkAssets, RowsMatch, GivenUp, ActiveSources
<1>5. \A i \in SourceIDs : work'.idStatus[i] = IF i \in GivenUp(work) THEN "MISSING" ELSE work.idStatus[i]
  BY Zenon, <1>1 DEF MissingCounted
<1>6. /\ work'.idAsset = work.idAsset
      /\ work'.assetStatus = work.assetStatus
      /\ work'.effective = work.effective
      /\ work'.strong = work.strong
      /\ work'.claims = work.claims
  BY Zenon, <1>1 DEF MissingCounted
<1>7. RowsMatch(work')
  BY <1>2, <1>4, <1>5, <1>6 DEF TableInv, WorkAssets, RowsMatch, ActiveSources
<1>8. Founded(work') /\ OneClaim(work') /\ \A a \in SourceIDs, f \in Fields : ColumnSupported(work', a, f)
  BY <1>6 DEF TableInv, WorkAssets, Founded, OneClaim, ColumnSupported
<1>9. \A a \in SourceIDs : ActiveSources(work', a) = ActiveSources(work, a) \ GivenUp(work)
  BY Zenon, <1>5, <1>6 DEF ActiveSources
<1>10. \A a \in SourceIDs \ lapsed' : StatusMatches(work', a)
  <2> TAKE a \in SourceIDs \ lapsed'
  <2>1. ActiveSources(work', a) = ActiveSources(work, a)
    BY Zenon, <1>3, <1>9 DEF ActiveSources
  <2>2. StatusMatches(work, a)
    BY Zenon, <1>0 DEF TableInv, WorkAssets
  <2> QED BY Zenon, <1>6, <2>1, <2>2 DEF StatusMatches
<1>11. \A a \in lapsed' : work'.assetStatus[a] = ClaimStatus(work'.claims, a)
  <2> TAKE a \in lapsed'
  <2>1. a \in SourceIDs /\ ActiveSources(work, a) # {} /\ \E i \in SourceIDs : work.idAsset[i] = a
    BY Zenon, <1>3, <1>4
  <2>2. StatusMatches(work, a) /\ work.assetStatus[a] # "NONE"
    BY SourceAssumption, <1>0, <2>1 DEF TableInv, WorkAssets, Founded
  <2> QED BY Zenon, <1>6, <2>1, <2>2 DEF StatusMatches
<1>12. \A x \in work'.claims :
           ClaimBacked(work', x) \/ (x.asset \in lapsed' /\ ConnectorOf[x.source] = connector')
  <2> SUFFICES ASSUME NEW x \in work.claims
               PROVE  \/ \E j \in ActiveSources(work', x.asset) : ConnectorOf[j] = ConnectorOf[x.source]
                      \/ x.asset \in lapsed' /\ ConnectorOf[x.source] = connector
    BY Zenon, <1>3, <1>6 DEF ClaimBacked
  <2>1. x.asset \in SourceIDs
    BY Zenon, <1>2 DEF Claims
  <2>2. PICK j \in ActiveSources(work, x.asset) : ConnectorOf[j] = ConnectorOf[x.source]
    BY Zenon, <1>0 DEF TableInv, WorkAssets, ClaimBacked
  <2>3. j \in SourceIDs /\ work.idAsset[j] = x.asset
    BY Zenon DEF ActiveSources
  <2>4. CASE j \in GivenUp(work)
    BY Zenon, <1>3, <1>4, <2>2, <2>3, <2>4
  <2>5. CASE j \notin GivenUp(work)
    BY Zenon, <1>9, <2>1, <2>2, <2>5
  <2> QED BY Zenon, <2>4, <2>5
<1> QED BY Zenon, <1>7, <1>8, <1>10, <1>11, <1>12 DEF WorkAssets

LEMMA LapseAssetAssets ==
    ASSUME TableInv, NEW a \in lapsed, LapseAsset(a)
    PROVE  WorkAssets'
<1> DEFINE cs == work.claims \ Unbacked(work, a)
<1>0. work \in Tables /\ a \in SourceIDs
  BY Zenon DEF TableInv, TypeOK
<1>1. PICK new \in EffectiveColumns(cs, a, work.effective[a]) : AssetLapsed(a, cs, new)
  BY ZenonT(30), <1>0, LapseAssetColumns
<1>2. /\ work.assetStatus \in [SourceIDs -> {"NONE", "ACTIVE", "CONFLICTING", "MISSING"}]
      /\ work.effective \in [SourceIDs -> [Fields -> Values \cup {NoValue}]]
      /\ work.claims \in SUBSET Claims
  BY Zenon, <1>0, TablesColumns
<1>3. lapsed' = lapsed \ {a} /\ connector' = connector
  BY Zenon DEF LapseAsset
<1>4. /\ \A x \in cs : /\ x \in work.claims
                       /\ x.asset = a /\ ConnectorOf[x.source] = connector =>
                              \E i \in ActiveSources(work, a) : ConnectorOf[i] = connector
      /\ \A x \in work.claims : x.asset # a => x \in cs
  BY Zenon DEF Unbacked
<1> HIDE DEF cs
<1>5. /\ work'.idAsset = work.idAsset
      /\ work'.idStatus = work.idStatus
      /\ work'.strong = work.strong
      /\ work'.claims = cs
      /\ work'.effective[a] = new
      /\ work'.assetStatus[a] = IF ActiveSources(work, a) = {} THEN "MISSING" ELSE ClaimStatus(cs, a)
      /\ \A b \in SourceIDs : b # a => /\ work'.effective[b] = work.effective[b]
                                       /\ work'.assetStatus[b] = work.assetStatus[b]
  BY Zenon, <1>0, <1>1, <1>2 DEF AssetLapsed
<1>6. \A b \in SourceIDs : ActiveSources(work', b) = ActiveSources(work, b)
  BY Zenon, <1>5 DEF ActiveSources
<1>7. RowsMatch(work') /\ OneClaim(work')
  BY <1>4, <1>5 DEF TableInv, WorkAssets, RowsMatch, OneClaim
<1>8. Founded(work')
  <2>1. work.assetStatus[a] # "NONE" /\ work'.assetStatus[a] # "NONE"
    BY Zenon, <1>5 DEF TableInv, WorkAssets, ClaimStatus
  <2>2. \A b \in SourceIDs : work'.assetStatus[b] # "NONE" <=> work.assetStatus[b] # "NONE"
    BY Zenon, <1>5, <2>1
  <2>3. /\ \A i \in SourceIDs : work.idAsset[i] # NoAsset => work.idAsset[i] \in SourceIDs
        /\ \A s \in StrongIDs : work.strong[s] # NoAsset => work.strong[s] \in SourceIDs
    BY <1>0, TablesColumns
  <2> QED BY ZenonT(30), <1>5, <2>2, <2>3 DEF TableInv, WorkAssets, Founded
<1>9. \A b \in SourceIDs : b # a => (Conflict(cs, b) <=> Conflict(work.claims, b))
  BY Zenon, <1>4 DEF Conflict
<1>10. \A b \in SourceIDs \ lapsed' : StatusMatches(work', b)
  <2> TAKE b \in SourceIDs \ lapsed'
  <2>1. CASE b = a
    BY Zenon, <1>5, <1>6, <2>1 DEF StatusMatches
  <2>2. CASE b # a
    <3>1. StatusMatches(work, b)
      BY Zenon, <1>3, <2>2 DEF TableInv, WorkAssets
    <3> QED BY Zenon, <1>5, <1>6, <1>9, <2>2, <3>1 DEF StatusMatches, ClaimStatus
  <2> QED BY Zenon, <2>1, <2>2
<1>11. \A b \in lapsed' : work'.assetStatus[b] = ClaimStatus(work'.claims, b)
  <2> TAKE b \in lapsed'
  <2>1. b \in lapsed /\ b \in SourceIDs /\ b # a
    BY Zenon, <1>3 DEF TableInv, TypeOK
  <2> QED BY Zenon, <1>5, <1>9, <2>1 DEF TableInv, WorkAssets, ClaimStatus
<1>12. \A x \in work'.claims :
           ClaimBacked(work', x) \/ (x.asset \in lapsed' /\ ConnectorOf[x.source] = connector')
  <2> SUFFICES ASSUME NEW x \in cs
               PROVE  \/ \E j \in ActiveSources(work, x.asset) : ConnectorOf[j] = ConnectorOf[x.source]
                      \/ x.asset \in lapsed \ {a} /\ ConnectorOf[x.source] = connector
    <3>1. \A x \in cs : x.asset \in SourceIDs
      BY Zenon, <1>2, <1>4 DEF Claims
    <3> QED BY Zenon, <1>3, <1>5, <1>6, <3>1 DEF ClaimBacked
  <2>1. ClaimBacked(work, x) \/ (x.asset \in lapsed /\ ConnectorOf[x.source] = connector)
    BY Zenon, <1>4 DEF TableInv, WorkAssets
  <2> QED BY Zenon, <1>4, <2>1 DEF ClaimBacked
<1>13. \A b \in SourceIDs, f \in Fields : ColumnSupported(work', b, f)
  <2> TAKE b \in SourceIDs, f \in Fields
  <2>1. CASE b = a
    <3>1. TopClaims(cs, a, f) # {} =>
             \E x \in TopClaims(cs, a, f) : new[f] = x.value \/ x.value \in BlankFor[f]
      BY Zenon DEF EffectiveColumns
    <3> QED BY Zenon, <1>5, <2>1, <3>1 DEF ColumnSupported
  <2>2. CASE b # a
    <3>1. TopClaims(cs, b, f) = TopClaims(work.claims, b, f)
      BY Zenon, <1>4, <2>2 DEF TopClaims
    <3>2. ColumnSupported(work, b, f)
      BY Zenon DEF TableInv, WorkAssets
    <3>3. work'.effective[b] = work.effective[b] /\ work'.claims = cs
      BY Zenon, <1>5, <2>2
    <3> QED BY Zenon, <3>1, <3>2, <3>3 DEF ColumnSupported
  <2> QED BY Zenon, <2>1, <2>2
<1> QED BY Zenon, <1>7, <1>8, <1>10, <1>11, <1>12, <1>13 DEF WorkAssets

\* Counting is monotone.
LEMMA CountAbsenceMono ==
    ASSUME NEW m \in 0..AbsenceCap, NEW n \in 0..AbsenceCap, m <= n
    PROVE  CountAbsence(m) <= CountAbsence(n) /\ m <= CountAbsence(n)
  BY DEF CountAbsence

\* An endpoint the snapshot lacks, or that is given up, takes its edges along:
\* they are absent too, and count at least as many absences.
LEMMA CountMissingEdges ==
    ASSUME TableInv, CountMissing
    PROVE  WorkEdges'
<1>0. work \in Tables /\ dropped = {} /\ threshold \in Thresholds
  BY Zenon DEF TableInv, TypeOK, WorkSeen, CountMissing
<1>1. MissingCounted
  BY Zenon, <1>0, CountMissingColumns
<1>2. /\ work.idStatus \in [SourceIDs -> {"NONE", "ACTIVE", "MISSING"}]
      /\ work.idAbsences \in [SourceIDs -> 0..AbsenceCap]
      /\ work.edgeAbsences \in [SourceEdges -> 0..AbsenceCap]
  BY Zenon, <1>0, TablesColumns
<1>3. /\ phase # "missing"
      /\ phase' = "missing"
      /\ UNCHANGED <<connector, threshold, seen, seenEdges, dropped>>
  BY Zenon DEF CountMissing
<1>4. /\ work'.idAsset = work.idAsset
      /\ work'.relStatus = work.relStatus
      /\ work'.edgeRel = work.edgeRel
      /\ work'.edgeStatus = work.edgeStatus
      /\ work'.edgeAbsences = work.edgeAbsences
      /\ \A j \in SourceIDs : /\ work'.idStatus[j] = IF j \in GivenUp(work) THEN "MISSING"
                                                     ELSE work.idStatus[j]
                              /\ work'.idAbsences[j] = CountedAbsences(work)[j]
  BY Zenon, <1>1 DEF MissingCounted
<1>5. \A j \in SourceIDs : CountedAbsences(work)[j] = IF Absent(work, j) THEN CountAbsence(work.idAbsences[j])
                                                      ELSE work.idAbsences[j]
  BY Zenon DEF CountedAbsences
<1>6. \A e \in SourceEdges : EdgeBound(work', e)
  BY Zenon, <1>4 DEF TableInv, WorkEdges, EdgeBound, RelationshipOf
<1>7. ASSUME NEW e \in SourceEdges, NEW p \in Endpoints(e), work.edgeStatus[e] # "NONE"
      PROVE  /\ work'.idAbsences[p] <= IF Uncounted(e)' THEN CountAbsence(work'.edgeAbsences[e])
                                       ELSE work'.edgeAbsences[e]
             /\ work.edgeStatus[e] = "ACTIVE" =>
                  \/ work'.idStatus[p] = "ACTIVE"
                  \/ Uncounted(e)' /\ threshold <= work'.idAbsences[p]
  <2>1. p \in SourceIDs /\ ConnectorOf[p] = ConnectorOf[From[e]]
    BY Zenon, EdgeAssumption DEF Endpoints
  <2>2. /\ work.idAbsences[p] <= work.edgeAbsences[e]
        /\ work.edgeStatus[e] = "ACTIVE" => work.idStatus[p] = "ACTIVE"
    BY Zenon, <1>3, <1>7, PlainEdges DEF TableInv
  <2>3. work.idAbsences[p] \in 0..AbsenceCap /\ work.edgeAbsences[e] \in 0..AbsenceCap
    BY Zenon, <1>2, <2>1
  <2>4. /\ work.idAbsences[p] <= CountAbsence(work.edgeAbsences[e])
        /\ CountAbsence(work.idAbsences[p]) <= CountAbsence(work.edgeAbsences[e])
    BY Zenon, <2>2, <2>3, CountAbsenceMono
  <2>5. e \in seenEdges => p \in seen /\ work.idAbsences[p] = 0 /\ ~Absent(work, p)
    BY Zenon DEF TableInv, WorkSeen, Endpoints, Absent
  <2>6. Uncounted(e)' <=> ConnectorOf[From[e]] = connector /\ e \notin seenEdges
    BY Zenon, <1>3, <1>4, <1>7 DEF Uncounted, EdgeAbsent
  <2>7. Absent(work, p) => Uncounted(e)'
    BY Zenon, <2>1, <2>5, <2>6 DEF Absent
  <2>8. p \in GivenUp(work) => Uncounted(e)' /\ threshold <= work'.idAbsences[p]
    <3>1. ASSUME p \in GivenUp(work)
          PROVE  ConnectorOf[p] = connector /\ threshold <= CountedAbsences(work)[p]
      BY Zenon, <1>0, <1>2, <1>5, <2>1, <2>3, <3>1, CountAbsenceType DEF GivenUp
    <3>2. threshold \in Nat /\ threshold >= 1
      BY PolicyAssumption, <1>0
    <3> QED BY <1>4, <1>5, <2>1, <2>5, <2>6, <3>1, <3>2
  <2> QED BY <1>4, <1>5, <2>1, <2>2, <2>4, <2>7, <2>8
<1>8. \A r \in Relationships :
          /\ ActiveEdges(work', r) # {} => work'.relStatus[r] = "ACTIVE"
          /\ work'.relStatus[r] = "ACTIVE" => ActiveEdges(work', r) # {} \/ r \in dropped'
  BY <1>3, <1>4 DEF TableInv, WorkEdges, ActiveEdges
<1> QED BY Zenon, <1>3, <1>4, <1>6, <1>7, <1>8 DEF WorkEdges

\* With the absences of edges counted too, no edge outlives an endpoint.
LEMMA CountRemovedEdges ==
    ASSUME TableInv, CountRemoved
    PROVE  WorkEdges'
<1>0. work \in Tables /\ dropped = {} /\ threshold \in Thresholds
  BY Zenon DEF TableInv, TypeOK, WorkSeen, CountRemoved
<1>1. RemovedCounted
  BY Zenon, <1>0, CountRemovedColumns
<1>2. /\ work.edgeStatus \in [SourceEdges -> {"NONE", "ACTIVE", "REMOVED"}]
      /\ work.edgeAbsences \in [SourceEdges -> 0..AbsenceCap]
      /\ work.idAbsences \in [SourceIDs -> 0..AbsenceCap]
  BY Zenon, <1>0, TablesColumns
<1>3. phase = "missing" /\ phase' = "removed" /\ dropped' = {work.edgeRel[e] : e \in GivenUpEdges(work)}
  BY Zenon DEF CountRemoved
<1>4. /\ work'.idAsset = work.idAsset
      /\ work'.idStatus = work.idStatus
      /\ work'.idAbsences = work.idAbsences
      /\ work'.relStatus = work.relStatus
      /\ work'.edgeRel = work.edgeRel
      /\ \A e \in SourceEdges : /\ work'.edgeStatus[e] = IF e \in GivenUpEdges(work) THEN "REMOVED"
                                                         ELSE work.edgeStatus[e]
                                /\ work'.edgeAbsences[e] = CountedEdgeAbsences(work)[e]
  BY Zenon, <1>1 DEF RemovedCounted
<1>5. \A e \in SourceEdges : CountedEdgeAbsences(work)[e] = IF EdgeAbsent(work, e)
                                                            THEN CountAbsence(work.edgeAbsences[e])
                                                            ELSE work.edgeAbsences[e]
  BY Zenon DEF CountedEdgeAbsences
<1>6. \A e \in GivenUpEdges(work) : e \in SourceEdges /\ work.edgeStatus[e] = "ACTIVE"
  BY Zenon DEF GivenUpEdges
<1>7. \A e \in SourceEdges : EdgeBound(work', e)
  BY <1>4, <1>6 DEF TableInv, WorkEdges, EdgeBound, RelationshipOf
<1>8. ASSUME NEW e \in SourceEdges, NEW p \in Endpoints(e)
      PROVE  /\ work'.edgeStatus[e] # "NONE" => work'.idAbsences[p] <= work'.edgeAbsences[e]
             /\ work'.edgeStatus[e] = "ACTIVE" => work'.idStatus[p] = "ACTIVE"
  <2>1. Uncounted(e) <=> EdgeAbsent(work, e)
    BY Zenon, <1>3 DEF Uncounted
  <2>2. work.edgeStatus[e] # "NONE" => work.idAbsences[p] <= work'.edgeAbsences[e]
    BY Zenon, <1>4, <1>5, <2>1 DEF TableInv, WorkEdges
  <2>3. work'.edgeStatus[e] # "NONE" => work.edgeStatus[e] # "NONE"
    BY Zenon, <1>4, <1>6
  <2>4. ASSUME work'.edgeStatus[e] = "ACTIVE"
        PROVE  work.idStatus[p] = "ACTIVE"
    <3>1. e \notin GivenUpEdges(work) /\ work.edgeStatus[e] = "ACTIVE"
      BY Zenon, <1>4, <2>4
    <3>2. CASE EdgeAbsent(work, e) /\ threshold <= work.idAbsences[p]
      <4>1. threshold <= CountedEdgeAbsences(work)[e]
        <5>1. threshold \in Nat /\ work.idAbsences[p] \in 0..AbsenceCap
          <6>1. p \in SourceIDs
            BY EdgeAssumption DEF Endpoints
          <6>2. threshold \in Nat
            BY <1>0, PolicyAssumption
          <6> QED BY Zenon, <1>2, <6>1, <6>2
        <5>2. CountedEdgeAbsences(work)[e] \in 0..AbsenceCap
          <6>1. work.edgeAbsences[e] \in 0..AbsenceCap
            BY Zenon, <1>2
          <6> QED BY Zenon, <1>5, <6>1, CountAbsenceType
        <5> QED BY <1>4, <2>2, <3>1, <3>2, <5>1, <5>2
      <4> QED BY Zenon, <1>0, <3>1, <3>2, <4>1 DEF GivenUpEdges, EdgeAbsent
    <3> QED BY Zenon, <2>1, <3>1, <3>2 DEF TableInv, WorkEdges
  <2> QED BY Zenon, <1>4, <2>2, <2>3, <2>4
<1>9. \A e \in SourceEdges : ~Uncounted(e)'
  BY Zenon, <1>3 DEF Uncounted
<1>10. ASSUME NEW r \in Relationships
       PROVE  /\ ActiveEdges(work', r) # {} => work'.relStatus[r] = "ACTIVE"
              /\ work'.relStatus[r] = "ACTIVE" => ActiveEdges(work', r) # {} \/ r \in dropped'
  <2>1. ActiveEdges(work', r) = ActiveEdges(work, r) \ GivenUpEdges(work)
    BY Zenon, <1>4 DEF ActiveEdges
  <2>2. \A e \in ActiveEdges(work, r) : work.edgeRel[e] = r
    BY Zenon DEF ActiveEdges
  <2> QED BY <1>0, <1>3, <1>4, <2>1, <2>2 DEF TableInv, WorkEdges
<1> QED BY Zenon, <1>7, <1>8, <1>9, <1>10 DEF WorkEdges

LEMMA DropRelationshipEdges ==
    ASSUME TableInv, NEW r \in dropped, DropRelationship(r)
    PROVE  WorkEdges'
<1>0. work \in Tables /\ r \in Relationships
  BY Zenon DEF TableInv, TypeOK
<1>1. RelationshipDropped(r)
  BY Zenon, <1>0, DropRelationshipColumns
<1>2. work.relStatus \in [Relationships -> {"NONE", "ACTIVE", "REMOVED"}]
  BY Zenon, <1>0, TablesColumns
<1>3. phase # "missing" /\ phase' = phase /\ dropped' = dropped \ {r}
  BY Zenon DEF DropRelationship
<1>4. /\ work'.idAsset = work.idAsset
      /\ work'.idStatus = work.idStatus
      /\ work'.idAbsences = work.idAbsences
      /\ work'.edgeRel = work.edgeRel
      /\ work'.edgeStatus = work.edgeStatus
      /\ work'.edgeAbsences = work.edgeAbsences
      /\ \A q \in Relationships : q # r => work'.relStatus[q] = work.relStatus[q]
      /\ work'.relStatus[r] = IF work.relStatus[r] = "ACTIVE" /\ ActiveEdges(work, r) = {} THEN "REMOVED"
                              ELSE work.relStatus[r]
  BY Zenon, <1>0, <1>1, <1>2 DEF RelationshipDropped
<1>5. \A e \in SourceEdges : EdgeBound(work', e)
  BY ZenonT(30), <1>4 DEF TableInv, WorkEdges, EdgeBound, RelationshipOf
<1>6. ASSUME NEW e \in SourceEdges, NEW p \in Endpoints(e)
      PROVE  /\ work'.edgeStatus[e] # "NONE" => work'.idAbsences[p] <= work'.edgeAbsences[e]
             /\ work'.edgeStatus[e] = "ACTIVE" => work'.idStatus[p] = "ACTIVE"
  BY Zenon, <1>3, <1>4, PlainEdges DEF TableInv
<1>7. \A e \in SourceEdges : ~Uncounted(e)'
  BY Zenon, <1>3 DEF Uncounted
<1>8. ASSUME NEW q \in Relationships
      PROVE  /\ ActiveEdges(work', q) # {} => work'.relStatus[q] = "ACTIVE"
             /\ work'.relStatus[q] = "ACTIVE" => ActiveEdges(work', q) # {} \/ q \in dropped'
  <2>1. ActiveEdges(work', q) = ActiveEdges(work, q)
    BY Zenon, <1>4 DEF ActiveEdges
  <2> QED BY Zenon, <1>3, <1>4, <2>1 DEF TableInv, WorkEdges
<1> QED BY Zenon, <1>5, <1>6, <1>7, <1>8 DEF WorkEdges

-----------------------------------------------------------------------------
(* The transaction as a whole.                                             *)

\* A transaction that has come to its end leaves settled tables.
LEMMA WorkSettles ==
    ASSUME TableInv, phase = "removed", dropped = {}
    PROVE  Settled(work)
<1>1. lapsed = {}
  BY Zenon DEF TableInv, WorkSeen
<1>2. \A e \in SourceEdges : \A p \in Endpoints(e) :
          /\ EdgeAged(work, e, p)
          /\ work.edgeStatus[e] = "ACTIVE" => work.idStatus[p] = "ACTIVE"
  BY Zenon, PlainEdges DEF TableInv, EdgeAged
<1>3. \A e \in SourceEdges : EdgeBound(work, e) /\ EdgeAnchored(work, e)
  BY Zenon, <1>2 DEF TableInv, WorkEdges, EdgeBound, EdgeAnchored, Endpoints
<1>4. \A r \in Relationships : RelationshipMatches(work, r)
  BY Zenon DEF TableInv, WorkEdges, RelationshipMatches
<1> QED BY Zenon, <1>1, <1>2, <1>3, <1>4 DEF TableInv, WorkAssets, Settled

\* A transaction starts, and a rollback ends, with settled tables.
LEMMA SettledWork ==
    ASSUME Settled(work)', lapsed' = {}, dropped' = {}, phase' # "missing"
    PROVE  WorkAssets' /\ WorkEdges'
<1>1. WorkAssets'
  BY Zenon DEF Settled, WorkAssets
<1>2. \A e \in SourceEdges : EdgeBound(work', e) /\ ~Uncounted(e)'
  BY Zenon DEF Settled, Uncounted
<1>3. ASSUME NEW e \in SourceEdges, NEW p \in Endpoints(e)
      PROVE  /\ work'.edgeStatus[e] # "NONE" => work'.idAbsences[p] <= work'.edgeAbsences[e]
             /\ work'.edgeStatus[e] = "ACTIVE" => work'.idStatus[p] = "ACTIVE"
  BY Zenon DEF Settled, EdgeAged, EdgeAnchored, Endpoints
<1>4. \A r \in Relationships :
          /\ ActiveEdges(work', r) # {} => work'.relStatus[r] = "ACTIVE"
          /\ work'.relStatus[r] = "ACTIVE" => ActiveEdges(work', r) # {} \/ r \in dropped'
  BY Zenon DEF Settled, RelationshipMatches
<1> QED BY Zenon, <1>1, <1>2, <1>3, <1>4 DEF WorkEdges

LEMMA EmptySettled ==
    EmptyTables \in Tables /\ Settled(EmptyTables)
<1>1. EmptyTables \in Tables
  BY PolicyAssumption DEF EmptyTables, Tables
<1>2. /\ EmptyTables.assetStatus = [a \in SourceIDs |-> "NONE"]
      /\ EmptyTables.idAsset = [i \in SourceIDs |-> NoAsset]
      /\ EmptyTables.idStatus = [i \in SourceIDs |-> "NONE"]
      /\ EmptyTables.strong = [s \in StrongIDs |-> NoAsset]
      /\ EmptyTables.claims = {}
      /\ EmptyTables.relStatus = [r \in Relationships |-> "NONE"]
      /\ EmptyTables.edgeStatus = [e \in SourceEdges |-> "NONE"]
  BY Zenon DEF EmptyTables
<1>3. RowsMatch(EmptyTables) /\ Founded(EmptyTables) /\ OneClaim(EmptyTables)
  BY Zenon, SourceAssumption, <1>2 DEF RowsMatch, Founded, OneClaim
<1>4. /\ \A a \in SourceIDs : StatusMatches(EmptyTables, a)
      /\ \A x \in EmptyTables.claims : ClaimBacked(EmptyTables, x)
      /\ \A a \in SourceIDs, f \in Fields : ColumnSupported(EmptyTables, a, f)
  BY Zenon, <1>2 DEF StatusMatches, ColumnSupported, TopClaims
<1>5. /\ \A e \in SourceEdges : EdgeBound(EmptyTables, e) /\ EdgeAnchored(EmptyTables, e)
      /\ \A e \in SourceEdges : \A p \in Endpoints(e) : EdgeAged(EmptyTables, e, p)
      /\ \A r \in Relationships : RelationshipMatches(EmptyTables, r)
  BY Zenon, <1>2 DEF EdgeBound, EdgeAnchored, EdgeAged, RelationshipMatches, ActiveEdges
<1> QED BY Zenon, <1>1, <1>3, <1>4, <1>5 DEF Settled

LEMMA TableInit ==
    ASSUME Init
    PROVE  TableInv
<1>1. Settled(db) /\ Settled(work) /\ db \in Tables /\ work \in Tables
  BY Zenon, EmptySettled DEF Init
<1>2. TypeOK
  BY PolicyAssumption, <1>1 DEF Init, TypeOK
<1>3. WorkAssets
  BY Zenon, <1>1 DEF Init, Settled, WorkAssets
<1>4. WorkEdges
  <2>1. \A e \in SourceEdges : EdgeBound(work, e) /\ ~Uncounted(e)
    BY Zenon, <1>1 DEF Init, Settled, Uncounted
  <2>2. ASSUME NEW e \in SourceEdges, NEW p \in Endpoints(e)
        PROVE  /\ work.edgeStatus[e] # "NONE" => work.idAbsences[p] <= work.edgeAbsences[e]
               /\ work.edgeStatus[e] = "ACTIVE" => work.idStatus[p] = "ACTIVE"
    BY Zenon, <1>1 DEF Settled, EdgeAged, EdgeAnchored, Endpoints
  <2>3. \A r \in Relationships : RelationshipMatches(work, r)
    BY Zenon, <1>1 DEF Settled
  <2> QED BY Zenon, <2>1, <2>2, <2>3 DEF WorkEdges, RelationshipMatches
<1>5. WorkSeen
  BY Zenon DEF Init, WorkSeen
<1> QED BY Zenon, <1>1, <1>2, <1>3, <1>4, <1>5 DEF TableInv

\* Every step keeps the invariant of the tables.
LEMMA TableStep ==
    ASSUME TableInv, [Next]_vars
    PROVE  TableInv'
<1>0. work \in Tables /\ TypeOK /\ Settled(db) /\ WorkAssets /\ WorkEdges
  BY Zenon DEF TableInv, TypeOK
<1>1. ASSUME NEW c \in Connectors, NEW n \in Thresholds, Begin(c, n)
      PROVE  TableInv'
  <2>1. /\ TypeOK' /\ Settled(db)' /\ Settled(work)'
        /\ lapsed' = {} /\ dropped' = {} /\ phase' # "missing"
    BY Zenon, <1>0, <1>1 DEF TypeOK, Begin, TableInv, WorkSeen
  <2>2. WorkSeen'
    BY Zenon, <1>1, SeenStep DEF Next
  <2> QED BY Zenon, <2>1, <2>2, SettledWork DEF TableInv
<1>2. ASSUME NEW i \in SourceIDs, NEW ids \in SUBSET HintsOf[i], NEW attrs \in Attributes,
             ObserveAsset(i, ids, attrs)
      PROVE  TableInv'
  <2>1. Next /\ db' = db
    BY Zenon, <1>2 DEF Next, ObserveAsset
  <2> QED BY Zenon, <1>0, <1>2, <2>1, ObserveAssetType, ObserveAssetAssets, ObserveAssetEdges, SeenStep DEF TableInv
<1>3. ASSUME NEW e \in SourceEdges, ObserveEdge(e)
      PROVE  TableInv'
  <2>1. Next /\ db' = db /\ lapsed' = lapsed /\ connector' = connector
    BY Zenon, <1>3 DEF Next, ObserveEdge
  <2>2. EdgeObserved(e)
    BY Zenon, <1>0, <1>3, ObserveEdgeColumns
  <2>3. WorkAssets'
    BY Zenon, <1>0, <2>1, <2>2, AssetsFrame DEF EdgeObserved
  <2> QED BY Zenon, <1>0, <1>3, <2>1, <2>3, ObserveEdgeType, ObserveEdgeEdges, SeenStep DEF TableInv
<1>4. ASSUME CountMissing
      PROVE  TableInv'
  <2>1. Next /\ db' = db
    BY Zenon, <1>4 DEF Next, CountMissing
  <2> QED BY Zenon, <1>0, <1>4, <2>1, CountMissingType, CountMissingAssets, CountMissingEdges, SeenStep DEF TableInv
<1>5. ASSUME NEW a \in lapsed, LapseAsset(a)
      PROVE  TableInv'
  <2>1. Next /\ db' = db /\ a \in SourceIDs
    BY ZenonT(30), <1>0, <1>5 DEF Next, LapseAsset, TypeOK
  <2>2. WorkEdges'
    <3>1. PICK new : AssetLapsed(a, work.claims \ Unbacked(work, a), new)
      BY Zenon, <1>0, <1>5, <2>1, LapseAssetColumns
    <3>2. UNCHANGED <<phase, connector, threshold, seenEdges, dropped>>
      BY Zenon, <1>5 DEF LapseAsset
    <3> QED BY Zenon, <1>0, <3>1, <3>2, EdgesFrame DEF AssetLapsed
  <2> QED BY Zenon, <1>0, <1>5, <2>1, <2>2, LapseAssetType, LapseAssetAssets, SeenStep DEF TableInv
<1>6. ASSUME CountRemoved
      PROVE  TableInv'
  <2>1. Next /\ db' = db /\ lapsed' = lapsed /\ connector' = connector
    BY Zenon, <1>6 DEF Next, CountRemoved
  <2>2. RemovedCounted
    BY Zenon, <1>0, <1>6, CountRemovedColumns
  <2>3. WorkAssets'
    BY Zenon, <1>0, <2>1, <2>2, AssetsFrame DEF RemovedCounted
  <2> QED BY Zenon, <1>0, <1>6, <2>1, <2>3, CountRemovedType, CountRemovedEdges, SeenStep DEF TableInv
<1>7. ASSUME NEW r \in dropped, DropRelationship(r)
      PROVE  TableInv'
  <2>1. Next /\ db' = db /\ lapsed' = lapsed /\ connector' = connector /\ r \in Relationships
    BY Zenon, <1>0, <1>7 DEF Next, DropRelationship, TypeOK
  <2>2. RelationshipDropped(r)
    BY Zenon, <1>0, <1>7, <2>1, DropRelationshipColumns
  <2>3. WorkAssets'
    BY Zenon, <1>0, <2>1, <2>2, AssetsFrame DEF RelationshipDropped
  <2> QED BY Zenon, <1>0, <1>7, <2>1, <2>3, DropRelationshipType, DropRelationshipEdges, SeenStep DEF TableInv
<1>8. ASSUME Commit
      PROVE  TableInv'
  <2>1. Next /\ db' = work /\ work' = work /\ lapsed' = {} /\ dropped' = {} /\ phase' # "missing"
    BY Zenon, <1>8 DEF Next, Commit, Finish
  <2>2. Settled(work)
    BY Zenon, <1>8, WorkSettles DEF Commit
  <2>3. Settled(db)' /\ Settled(work)'
    BY Zenon, <2>1, <2>2
  <2> QED BY Zenon, <1>0, <1>8, <2>1, <2>3, CommitType, SettledWork, SeenStep DEF TableInv
<1>9. ASSUME Abort
      PROVE  TableInv'
  <2>1. Next /\ db' = db /\ work' = db /\ lapsed' = {} /\ dropped' = {} /\ phase' # "missing"
    BY Zenon, <1>9 DEF Next, Abort, Finish
  <2>2. Settled(db)' /\ Settled(work)'
    BY Zenon, <1>0, <2>1
  <2>3. TypeOK'
    BY Zenon, <1>0, <1>9, <2>1 DEF TypeOK, Abort, Finish
  <2> QED BY SMTT(30), <2>1, <2>2, <2>3, SettledWork, SeenStep DEF TableInv
<1>10. CASE UNCHANGED vars
  <2>1. TypeOK' /\ Settled(db)' /\ WorkSeen'
    BY Zenon, <1>0, <1>10 DEF vars, TypeOK, TableInv, WorkSeen
  <2>2. WorkAssets' /\ WorkEdges'
    BY Zenon, <1>0, <1>10, AssetsFrame, EdgesFrame DEF vars
  <2> QED BY Zenon, <2>1, <2>2 DEF TableInv
<1> QED BY Zenon, <1>1, <1>2, <1>3, <1>4, <1>5, <1>6, <1>7, <1>8, <1>9, <1>10 DEF Next

\* Only a commit changes the committed tables, and it takes them over from
\* the open transaction.
LEMMA OnlyCommit ==
    ASSUME [Next]_vars, db' # db
    PROVE  Commit /\ db' = work
<1>1. \A c \in Connectors, n \in Thresholds : Begin(c, n) => db' = db
  BY Zenon DEF Begin
<1>2. \A i \in SourceIDs : \A ids \in SUBSET HintsOf[i], attrs \in Attributes :
          ObserveAsset(i, ids, attrs) => db' = db
  BY DEF ObserveAsset
<1>3. \A e \in SourceEdges : ObserveEdge(e) => db' = db
  BY Zenon DEF ObserveEdge
<1>4. \A a \in lapsed : LapseAsset(a) => db' = db
  BY Zenon DEF LapseAsset
<1>5. \A r \in dropped : DropRelationship(r) => db' = db
  BY Zenon DEF DropRelationship
<1>6. CountMissing \/ CountRemoved \/ Abort => db' = db
  BY SMTT(30) DEF CountMissing, CountRemoved, Abort
<1>7. Commit
  BY Zenon, <1>1, <1>2, <1>3, <1>4, <1>5, <1>6 DEF Next, vars
<1> QED BY Zenon, <1>7 DEF Commit

-----------------------------------------------------------------------------
(* Theorems.                                                               *)

\* Committed tables are settled and the open transaction is on its way there,
\* after every statement group of ApplyPostgres and markMissing.
THEOREM TablesInvariant == Spec => []TableInv
<1>1. Init => TableInv
  BY Zenon, TableInit
<1>2. TableInv /\ [Next]_vars => TableInv'
  BY Zenon, TableStep
<1> QED BY <1>1, <1>2, PTL DEF Spec

\* The tables and the transaction's variables keep their types; in particular
\* every asset and relationship markMissing goes through is a stored one.
THEOREM TypeCorrect == Spec => []TypeOK
<1>1. TableInv => TypeOK
  BY Zenon DEF TableInv
<1> QED BY <1>1, TablesInvariant, PTL

\* After every commit an asset is MISSING exactly when no source identity of
\* it is ACTIVE, and CONFLICTING exactly when its active claims disagree.
THEOREM StatusCorrect == Spec => []StatusOfAssets
<1> QED BY SettledTables, TablesInvariant, PTL

\* No claim outlives the source identities of its connector, and a connector
\* never disagrees with itself.
THEOREM ClaimsCorrect == Spec => []ClaimsOfSources
<1> QED BY SettledTables, TablesInvariant, PTL

\* The environment and name columns follow the claims of highest authority.
THEOREM ColumnsCorrect == Spec => []ColumnsOfAssets
<1> QED BY SettledTables, TablesInvariant, PTL

\* Every asset is bound to the source identity it was created for, and every
\* reference to an asset names a stored one.
THEOREM FoundersCorrect == Spec => []AssetsHaveFounders
<1> QED BY SettledTables, TablesInvariant, PTL

\* No relationship of the graph is ACTIVE without a connector that reports it
\* or next to an asset that is MISSING.
THEOREM GraphCorrect == Spec => []GraphIsAnchored
<1> QED BY SettledGraph, TablesInvariant, PTL

------------------------------------------------------------------------------
(***************************************************************************)
(* What a commit of Reconcile may do, and what it reports in               *)
(* infrastructure_changes, proved from the invariant of the tables and     *)
(* what the open transaction remembers of the committed state.             *)
(***************************************************************************)

\* Where a step of the loops leaves each source identity, and which steps
\* touch none.
LEMMA IdentitySteps ==
    ASSUME TableInv, [Next]_vars
    PROVE  \/ Commit
           \/ Abort
           \/ \E c \in Connectors, n \in Thresholds : Begin(c, n)
           \/ \E i \in SourceIDs : \E ids \in SUBSET HintsOf[i], attrs \in Attributes :
                  ObserveAsset(i, ids, attrs)
           \/ CountMissing
           \/ /\ work'.idAsset = work.idAsset
              /\ work'.idStatus = work.idStatus
              /\ work'.idAbsences = work.idAbsences
              /\ work'.strong = work.strong
              /\ UNCHANGED <<db, missed, seen, connector, threshold>>
              /\ \/ phase' = phase
                 \/ phase \in {"assets", "edges"} /\ phase' = "edges"
                 \/ phase = "missing" /\ phase' = "removed"
<1>0. work \in Tables /\ lapsed \subseteq SourceIDs /\ dropped \subseteq Relationships
  BY Zenon DEF TableInv, TypeOK
<1>1. ASSUME NEW e \in SourceEdges, ObserveEdge(e)
      PROVE  /\ work'.idAsset = work.idAsset
             /\ work'.idStatus = work.idStatus
             /\ work'.idAbsences = work.idAbsences
             /\ work'.strong = work.strong
             /\ UNCHANGED <<db, missed, seen, connector, threshold>>
             /\ phase \in {"assets", "edges"} /\ phase' = "edges"
  <2>1. EdgeObserved(e)
    BY Zenon, <1>0, <1>1, ObserveEdgeColumns
  <2> QED BY Zenon, <1>1, <2>1 DEF EdgeObserved, ObserveEdge
<1>2. ASSUME NEW a \in lapsed, LapseAsset(a)
      PROVE  /\ work'.idAsset = work.idAsset
             /\ work'.idStatus = work.idStatus
             /\ work'.idAbsences = work.idAbsences
             /\ work'.strong = work.strong
             /\ UNCHANGED <<db, missed, seen, connector, threshold>>
             /\ phase' = phase
  <2>1. PICK new : AssetLapsed(a, work.claims \ Unbacked(work, a), new)
    BY Zenon, <1>0, <1>2, LapseAssetColumns
  <2> QED BY Zenon, <1>2, <2>1 DEF AssetLapsed, LapseAsset
<1>3. ASSUME CountRemoved
      PROVE  /\ work'.idAsset = work.idAsset
             /\ work'.idStatus = work.idStatus
             /\ work'.idAbsences = work.idAbsences
             /\ work'.strong = work.strong
             /\ UNCHANGED <<db, missed, seen, connector, threshold>>
             /\ phase = "missing" /\ phase' = "removed"
  <2>1. RemovedCounted
    BY Zenon, <1>0, <1>3, CountRemovedColumns
  <2> QED BY Zenon, <1>3, <2>1 DEF RemovedCounted, CountRemoved
<1>4. ASSUME NEW r \in dropped, DropRelationship(r)
      PROVE  /\ work'.idAsset = work.idAsset
             /\ work'.idStatus = work.idStatus
             /\ work'.idAbsences = work.idAbsences
             /\ work'.strong = work.strong
             /\ UNCHANGED <<db, missed, seen, connector, threshold>>
             /\ phase' = phase
  <2>1. RelationshipDropped(r)
    BY Zenon, <1>0, <1>4, DropRelationshipColumns
  <2> QED BY Zenon, <1>4, <2>1 DEF RelationshipDropped, DropRelationship
<1> QED BY Zenon, <1>1, <1>2, <1>3, <1>4 DEF Next, vars

-----------------------------------------------------------------------------
(* Bindings.                                                               *)

LEMMA BindingStep ==
    ASSUME TableInv, BindingInv, [Next]_vars
    PROVE  BindingInv'
<1>0. work \in Tables /\ Founded(work)
  BY Zenon DEF TableInv, TypeOK, WorkAssets
<1>1. CASE Commit
  BY Zenon, <1>1 DEF Commit, BindingInv
<1>2. CASE Abort
  BY Zenon, <1>2 DEF Abort, BindingInv
<1>3. ASSUME NEW c \in Connectors, NEW n \in Thresholds, Begin(c, n)
      PROVE  BindingInv'
  BY Zenon, <1>3 DEF Begin, BindingInv
<1>4. ASSUME NEW i \in SourceIDs, NEW ids \in SUBSET HintsOf[i], NEW attrs \in Attributes,
             ObserveAsset(i, ids, attrs)
      PROVE  BindingInv'
  <2> DEFINE a  == ResolvedAsset(work, i, ids)
             cs == ObservedClaims(work.claims, i, a, attrs)
  <2>1. work.idAsset[i] \in {NoAsset, a}
    <3>1. ids \in SUBSET StrongIDs
      BY Zenon, SourceAssumption
    <3> QED BY Zenon, <1>0, <3>1, ResolvedFacts
  <2>2. PICK new : AssetObserved(i, ids, a, cs, new)
    BY Zenon, <1>0, <1>4, ObserveAssetColumns
  <2>3. db' = db /\ \A s \in ids : work.strong[s] \in {NoAsset, a}
    BY Zenon, <1>4 DEF ObserveAsset, StrongAgree
  <2>4. work.idAsset \in [SourceIDs -> SourceIDs \cup {NoAsset}]
    BY Zenon, <1>0, TablesColumns
  <2> HIDE DEF a, cs
  <2>5. \A j \in SourceIDs : work.idAsset[j] # NoAsset => work'.idAsset[j] = work.idAsset[j]
    BY Zenon, <2>1, <2>2, <2>4 DEF AssetObserved
  <2>6. \A s \in StrongIDs : work.strong[s] # NoAsset => work'.strong[s] = work.strong[s]
    BY Zenon, <2>2, <2>3 DEF AssetObserved
  <2> QED BY Zenon, <2>3, <2>5, <2>6 DEF BindingInv
<1>5. CASE CountMissing
  <2>1. MissingCounted
    BY Zenon, <1>0, <1>5, CountMissingColumns
  <2> QED BY <1>5, <2>1 DEF MissingCounted, CountMissing, BindingInv
<1> QED BY Zenon, <1>1, <1>2, <1>3, <1>4, <1>5, IdentitySteps DEF BindingInv

\* No snapshot of any connector moves a source identity or a strong identity
\* from one asset to another.
THEOREM BindingsFinal == Spec => BindingsAreFinal
<1>1. Init => BindingInv
  BY Zenon DEF Init, BindingInv
<1>2. TableInv /\ BindingInv /\ [Next]_vars => BindingInv'
  BY Zenon, BindingStep
<1>3. BindingInv /\ [Next]_vars =>
        [/\ \A i \in SourceIDs : db.idAsset[i] # NoAsset => db'.idAsset[i] = db.idAsset[i]
         /\ \A s \in StrongIDs : db.strong[s] # NoAsset => db'.strong[s] = db.strong[s]]_vars
  BY Zenon, OnlyCommit DEF BindingInv
<1> QED BY <1>1, <1>2, <1>3, TablesInvariant, PTL DEF Spec, BindingsAreFinal

-----------------------------------------------------------------------------
(* Evidence of absence.                                                    *)

LEMMA EvidenceStep ==
    ASSUME TableInv, EvidenceInv, [Next]_vars
    PROVE  EvidenceInv'
<1>0. /\ work \in Tables
      /\ missed \in [SourceIDs -> 0..AbsenceCap]
      /\ threshold \in Nat
      /\ seen \subseteq SourceIDs
  BY PolicyAssumption DEF TableInv, TypeOK
<1>1. CASE Commit
  <2>1. \A i \in SourceIDs : missed'[i] = work.idAbsences[i]
    BY Zenon, <1>1 DEF Commit, TableInv, WorkSeen, EvidenceInv
  <2> QED BY Zenon, <1>1, <2>1 DEF Commit, Finish, EvidenceInv
<1>2. CASE Abort
  BY Zenon, <1>2 DEF Abort, Finish, EvidenceInv
<1>3. ASSUME NEW c \in Connectors, NEW n \in Thresholds, Begin(c, n)
      PROVE  EvidenceInv'
  BY Zenon, <1>3 DEF Begin, EvidenceInv, TableInv, WorkSeen
<1>4. ASSUME NEW i \in SourceIDs, NEW ids \in SUBSET HintsOf[i], NEW attrs \in Attributes,
             ObserveAsset(i, ids, attrs)
      PROVE  EvidenceInv'
  <2>1. PICK new : AssetObserved(i, ids, ResolvedAsset(work, i, ids),
                       ObservedClaims(work.claims, i, ResolvedAsset(work, i, ids), attrs), new)
    BY Zenon, <1>0, <1>4, ObserveAssetColumns
  <2>2. /\ work.idStatus \in [SourceIDs -> {"NONE", "ACTIVE", "MISSING"}]
        /\ work.idAbsences \in [SourceIDs -> 0..AbsenceCap]
    BY Zenon, <1>0, TablesColumns
  <2>3. \A j \in SourceIDs : j # i => /\ work'.idStatus[j] = work.idStatus[j]
                                      /\ work'.idAbsences[j] = work.idAbsences[j]
    BY Zenon, <2>1, <2>2 DEF AssetObserved
  <2> QED BY Zenon, <1>4, <2>3 DEF ObserveAsset, EvidenceInv
<1>5. CASE CountMissing
  <2>1. MissingCounted /\ WorkSeen'
    BY Zenon, <1>0, <1>5, CountMissingColumns, SeenStep DEF Next
  <2>2. work.idStatus \in [SourceIDs -> {"NONE", "ACTIVE", "MISSING"}]
    BY Zenon, <1>0, TablesColumns
  <2>3. /\ phase \in {"assets", "edges"}
        /\ phase' = "missing"
        /\ UNCHANGED <<db, missed, seen, connector, threshold>>
    BY Zenon, <1>5 DEF CountMissing
  <2>4. ASSUME NEW i \in SourceIDs
        PROVE  /\ work'.idStatus[i] = IF i \in GivenUp(work) THEN "MISSING" ELSE work.idStatus[i]
               /\ work'.idAbsences[i] = CountedAbsences(work)[i]
               /\ Absent(work, i)' <=> Absent(work, i)
    <3>1. /\ work'.idStatus[i] = IF i \in GivenUp(work) THEN "MISSING" ELSE work.idStatus[i]
          /\ work'.idAbsences[i] = CountedAbsences(work)[i]
      BY Zenon, <2>1 DEF MissingCounted
    <3> QED BY Zenon, <2>2, <2>3, <3>1 DEF Absent, GivenUp
  <2>5. \A i \in SourceIDs : CountedAbsences(work)[i] \in 0..AbsenceCap
    BY <1>0, TablesColumns, CountAbsenceType DEF CountedAbsences
  <2>6. ASSUME NEW i \in SourceIDs
        PROVE  /\ i \notin seen' =>
                      work'.idAbsences[i] = IF Absent(work, i)' THEN CountAbsence(missed'[i])
                                            ELSE missed'[i]
               /\ ConnectorOf[i] = connector' /\ work'.idStatus[i] = "ACTIVE"
                      => work'.idAbsences[i] < threshold'
               /\ db'.idStatus[i] = "ACTIVE" /\ work'.idStatus[i] = "MISSING"
                      => work'.idAbsences[i] >= threshold'
    <3>1. i \notin seen => work.idAbsences[i] = missed[i] /\ work.idStatus[i] = db.idStatus[i]
      BY Zenon, <2>3 DEF EvidenceInv
    <3>2. i \in seen => work'.idStatus[i] = "ACTIVE"
      BY Zenon, <2>1, <2>3 DEF WorkSeen
    <3>3. CountedAbsences(work)[i] = IF Absent(work, i) THEN CountAbsence(work.idAbsences[i])
                                     ELSE work.idAbsences[i]
      BY Zenon DEF CountedAbsences
    <3>4. i \in GivenUp(work) <=> /\ ConnectorOf[i] = connector
                                  /\ work.idStatus[i] = "ACTIVE"
                                  /\ CountedAbsences(work)[i] >= threshold
      BY Zenon DEF GivenUp
    <3>5. i \notin seen' => work'.idAbsences[i] = IF Absent(work, i)' THEN CountAbsence(missed'[i])
                                                  ELSE missed'[i]
      BY Zenon, <2>3, <2>4, <3>1, <3>3
    <3> QED BY <1>0, <2>3, <2>4, <2>5, <3>1, <3>2, <3>4, <3>5
  <2> QED BY Zenon, <2>3, <2>6 DEF EvidenceInv
<1>6. CASE /\ work'.idStatus = work.idStatus
           /\ work'.idAbsences = work.idAbsences
           /\ UNCHANGED <<db, missed, seen, connector, threshold>>
           /\ \/ phase' = phase
              \/ phase \in {"assets", "edges"} /\ phase' = "edges"
              \/ phase = "missing" /\ phase' = "removed"
  BY <1>6 DEF EvidenceInv, Absent
<1> QED BY Zenon, <1>1, <1>2, <1>3, <1>4, <1>5, <1>6, IdentitySteps

\* A source identity is given up in the very commit in which its connector
\* has succeeded often enough without it; rolled back snapshots do not count.
THEOREM MissingCorrect == Spec => MissingAtThreshold
<1>1. Init => EvidenceInv
  BY EmptySettled DEF Init, EvidenceInv, EmptyTables
<1>2. TableInv /\ EvidenceInv /\ [Next]_vars => EvidenceInv'
  BY Zenon, EvidenceStep
<1>3. TableInv /\ EvidenceInv /\ [Next]_vars =>
        [\A i \in SourceIDs :
            phase # "idle" /\ phase' = "idle" /\ db' # db /\ ConnectorOf[i] = connector =>
                /\ db'.idStatus[i] = "ACTIVE" => missed'[i] < threshold
                /\ db.idStatus[i] = "ACTIVE" /\ db'.idStatus[i] = "MISSING" => missed'[i] >= threshold]_vars
  <2> SUFFICES ASSUME TableInv, EvidenceInv, [Next]_vars, db' # db, NEW i \in SourceIDs,
                      ConnectorOf[i] = connector
               PROVE  /\ db'.idStatus[i] = "ACTIVE" => missed'[i] < threshold
                      /\ db.idStatus[i] = "ACTIVE" /\ db'.idStatus[i] = "MISSING" => missed'[i] >= threshold
    OBVIOUS
  <2>1. Commit /\ db' = work
    BY Zenon, OnlyCommit
  <2>2. missed'[i] = work.idAbsences[i]
    BY Zenon, <2>1, EvidenceStep DEF EvidenceInv
  <2> QED BY Zenon, <2>1, <2>2 DEF EvidenceInv, Commit
<1> QED BY <1>1, <1>2, <1>3, TablesInvariant, PTL DEF Spec, MissingAtThreshold

\* While observations are applied, a MISSING asset is one that no source
\* identity seen so far is bound to.
LEMMA SeenNotMissing ==
    ASSUME TableInv, NEW i \in seen, work.idAsset[i] \notin lapsed
    PROVE  /\ work.idAsset[i] \in SourceIDs
           /\ work.assetStatus[work.idAsset[i]] \notin {"NONE", "MISSING"}
<1> DEFINE a == work.idAsset[i]
<1>1. work \in Tables /\ i \in SourceIDs /\ work.idStatus[i] = "ACTIVE"
  BY Zenon DEF TableInv, TypeOK, WorkSeen
<1>2. a \in SourceIDs /\ work.assetStatus[a] # "NONE" /\ StatusMatches(work, a)
  BY <1>1, TablesColumns DEF TableInv, WorkAssets, RowsMatch, Founded
<1>3. ActiveSources(work, a) # {}
  BY Zenon, <1>1 DEF ActiveSources
<1> QED BY Zenon, <1>2, <1>3 DEF StatusMatches, ClaimStatus

\* A step that leaves an asset alone and reports nothing about it.
LEMMA ReportFrame ==
    ASSUME NEW b \in SourceIDs, Reported(b), Untouched(b), db' = db,
           work'.assetStatus[b] = work.assetStatus[b],
           <<b, "ASSET_DISCOVERED">> \in changes' <=> <<b, "ASSET_DISCOVERED">> \in changes,
           <<b, "ASSET_RETURNED">> \in changes' <=> <<b, "ASSET_RETURNED">> \in changes,
           <<b, "ASSET_MISSING">> \in changes' <=> <<b, "ASSET_MISSING">> \in changes,
           <<b, "SOURCE_CONFLICT">> \in changes' <=> <<b, "SOURCE_CONFLICT">> \in changes,
           (\A j \in seen' : work'.idAsset[j] # b) => \A j \in seen : work.idAsset[j] # b,
           phase' \in {"assets", "edges"} \/ b \in lapsed' => phase \in {"assets", "edges"} \/ b \in lapsed
    PROVE  Reported(b)' /\ Untouched(b)'
  BY Zenon DEF Reported, Untouched

LEMMA ObserveAssetReport ==
    ASSUME TableInv, ReportInv, NEW i \in SourceIDs, NEW ids \in SUBSET HintsOf[i],
           NEW attrs \in Attributes, ObserveAsset(i, ids, attrs)
    PROVE  ReportInv'
<1> DEFINE a  == ResolvedAsset(work, i, ids)
           cs == ObservedClaims(work.claims, i, a, attrs)
           known == work.idAsset[i] # NoAsset
           fresh == ~known /\ \A s \in ids : work.strong[s] = NoAsset
<1>0. /\ work \in Tables /\ Founded(work) /\ RowsMatch(work)
      /\ ids \in SUBSET StrongIDs
      /\ seen \subseteq SourceIDs
      /\ lapsed = {}
  BY Zenon, SourceAssumption DEF TableInv, TypeOK, WorkAssets, WorkSeen, ObserveAsset
<1>1. /\ a \in SourceIDs
      /\ a = i \/ (work.idAsset[a] = a /\ work.assetStatus[a] # "NONE")
      /\ work.idAsset[i] \in {NoAsset, a}
  BY Zenon, <1>0, ResolvedFacts
<1>2. PICK new : AssetObserved(i, ids, a, cs, new)
  BY Zenon, <1>0, ObserveAssetColumns
<1>3. /\ phase = "assets" /\ phase' = phase /\ db' = db /\ lapsed' = lapsed
      /\ seen' = seen \cup {i} /\ i \notin seen
      /\ fresh => work.assetStatus[a] = "NONE"
      /\ changes' = changes \cup Report(a, "ASSET_DISCOVERED", fresh)
                \cup Report(a, "ASSET_RETURNED", known /\ work.assetStatus[a] = "MISSING")
                \cup Report(a, "SOURCE_CONFLICT", Conflict(cs, a))
  BY Zenon DEF ObserveAsset
<1>4. ~fresh => work.assetStatus[a] # "NONE"
  <2>1. CASE known
    BY Zenon, <1>0, <1>1, <2>1 DEF Founded
  <2>2. CASE ~known /\ \E s \in ids : work.strong[s] # NoAsset
    <3> DEFINE bound == {work.strong[s] : s \in ids} \ {NoAsset}
    <3>1. bound # {} /\ a = CHOOSE b \in bound : TRUE
      BY SMTT(30), <2>2 DEF ResolvedAsset
    <3>2. a \in bound
      BY Zenon, <3>1
    <3> QED BY <1>0, <3>2 DEF Founded
  <2> QED BY Zenon, <2>1, <2>2
<1>5. work.assetStatus[a] \in {"NONE", "MISSING"} =>
          db.assetStatus[a] = work.assetStatus[a]
  <2>1. ASSUME work.assetStatus[a] \in {"NONE", "MISSING"}
        PROVE  \A j \in seen : work.idAsset[j] # a
    BY Zenon, <1>0, <2>1, SeenNotMissing
  <2> QED BY Zenon, <1>1, <1>3, <2>1 DEF ReportInv, Untouched
<1> HIDE DEF a, cs, known, fresh
<1>6. /\ work'.assetStatus[a] = ClaimStatus(cs, a)
      /\ work'.idAsset[i] = a
      /\ \A b \in SourceIDs : b # a => work'.assetStatus[b] = work.assetStatus[b]
      /\ \A j \in seen : work'.idAsset[j] = work.idAsset[j]
  BY <1>0, <1>1, <1>2, <1>3, TablesColumns DEF AssetObserved
<1>7. \A b \in SourceIDs :
          /\ <<b, "ASSET_DISCOVERED">> \in changes' <=>
                 <<b, "ASSET_DISCOVERED">> \in changes \/ (b = a /\ fresh)
          /\ <<b, "ASSET_RETURNED">> \in changes' <=>
                 <<b, "ASSET_RETURNED">> \in changes \/ (b = a /\ known /\ work.assetStatus[a] = "MISSING")
          /\ <<b, "ASSET_MISSING">> \in changes' <=> <<b, "ASSET_MISSING">> \in changes
          /\ <<b, "SOURCE_CONFLICT">> \in changes' <=>
                 <<b, "SOURCE_CONFLICT">> \in changes \/ (b = a /\ Conflict(cs, a))
  BY Zenon, <1>3 DEF Report
<1>8. ASSUME NEW b \in SourceIDs, b # a
      PROVE  Reported(b)' /\ Untouched(b)'
  <2>1. Reported(b) /\ Untouched(b)
    BY Zenon DEF ReportInv
  <2>2. (\A j \in seen' : work'.idAsset[j] # b) => \A j \in seen : work.idAsset[j] # b
    BY Zenon, <1>3, <1>6
  <2> QED BY ZenonT(30), <1>3, <1>6, <1>7, <1>8, <2>1, <2>2, ReportFrame
<1>9. ASSUME NEW b \in SourceIDs, b = a
      PROVE  Reported(b)' /\ Untouched(b)'
  <2>1. work'.assetStatus[a] = IF Conflict(cs, a) THEN "CONFLICTING" ELSE "ACTIVE"
    BY Zenon, <1>6 DEF ClaimStatus
  <2>2. Reported(a)
    BY Zenon, <1>1 DEF ReportInv
  <2>3. i \in seen' /\ work'.idAsset[i] = a
    BY Zenon, <1>3, <1>6
  <2>4. <<a, "ASSET_DISCOVERED">> \in changes' <=> db.assetStatus[a] = "NONE"
    <3>1. fresh => work.assetStatus[a] = "NONE"
      BY Zenon, <1>3
    <3> QED BY Zenon, <1>1, <1>4, <1>5, <1>7, <2>2, <3>1 DEF Reported
  <2>5. <<a, "ASSET_MISSING">> \notin changes'
    BY Zenon, <1>1, <1>5, <1>7, <2>2 DEF Reported
  <2>6. <<a, "ASSET_RETURNED">> \in changes' => db.assetStatus[a] = "MISSING"
    BY Zenon, <1>1, <1>5, <1>7, <2>2 DEF Reported
  <2>7. Conflict(cs, a) => <<a, "SOURCE_CONFLICT">> \in changes'
    BY ZenonT(30), <1>1, <1>7
  <2>8. db' = db
    BY Zenon, <1>3
  <2> QED BY Zenon, <1>9, <2>1, <2>3, <2>4, <2>5, <2>6, <2>7, <2>8 DEF Reported, Untouched
<1> QED BY Zenon, <1>3, <1>8, <1>9 DEF ReportInv

LEMMA LapseAssetReport ==
    ASSUME TableInv, ReportInv, NEW a \in lapsed, LapseAsset(a)
    PROVE  ReportInv'
<1> DEFINE cs == work.claims \ Unbacked(work, a)
           gone == ActiveSources(work, a) = {}
<1>0. work \in Tables /\ a \in SourceIDs
  BY Zenon DEF TableInv, TypeOK
<1>1. PICK new : AssetLapsed(a, cs, new)
  BY Zenon, <1>0, LapseAssetColumns
<1>2. /\ phase = "missing" /\ phase' = phase /\ db' = db /\ seen' = seen /\ lapsed' = lapsed \ {a}
      /\ changes' = changes \cup Report(a, "ASSET_MISSING", gone)
  BY Zenon DEF LapseAsset, Gone
<1>3. work.assetStatus[a] = ClaimStatus(work.claims, a)
  BY Zenon DEF TableInv, WorkAssets
<1>4. Conflict(cs, a) => Conflict(work.claims, a)
  BY Zenon DEF Conflict
<1>5. gone => db.assetStatus[a] = work.assetStatus[a]
  <2>1. gone => \A j \in seen : work.idAsset[j] # a
    BY Zenon DEF ActiveSources, TableInv, TypeOK, WorkSeen
  <2> QED BY Zenon, <1>0, <2>1 DEF ReportInv, Untouched
<1> HIDE DEF cs, gone
<1>6. /\ work'.assetStatus[a] = IF gone THEN "MISSING" ELSE ClaimStatus(cs, a)
      /\ work'.idAsset = work.idAsset
      /\ \A b \in SourceIDs : b # a => work'.assetStatus[b] = work.assetStatus[b]
  BY <1>0, <1>1, TablesColumns DEF AssetLapsed, gone
<1>7. \A b \in SourceIDs :
          /\ <<b, "ASSET_DISCOVERED">> \in changes' <=> <<b, "ASSET_DISCOVERED">> \in changes
          /\ <<b, "ASSET_RETURNED">> \in changes' <=> <<b, "ASSET_RETURNED">> \in changes
          /\ <<b, "ASSET_MISSING">> \in changes' <=> <<b, "ASSET_MISSING">> \in changes \/ (b = a /\ gone)
          /\ <<b, "SOURCE_CONFLICT">> \in changes' <=> <<b, "SOURCE_CONFLICT">> \in changes
  BY Zenon, <1>2 DEF Report
<1>8. ASSUME NEW b \in SourceIDs, b # a
      PROVE  Reported(b)' /\ Untouched(b)'
  <2>1. Reported(b) /\ Untouched(b)
    BY Zenon DEF ReportInv
  <2> QED BY ZenonT(30), <1>2, <1>6, <1>7, <1>8, <2>1, ReportFrame
<1>9. Reported(a)' /\ Untouched(a)'
  <2>1. /\ work'.assetStatus[a] = IF gone THEN "MISSING" ELSE IF Conflict(cs, a) THEN "CONFLICTING" ELSE "ACTIVE"
        /\ work.assetStatus[a] = IF Conflict(work.claims, a) THEN "CONFLICTING" ELSE "ACTIVE"
    BY Zenon, <1>3, <1>6 DEF ClaimStatus
  <2>2. Reported(a)
    BY Zenon, <1>0 DEF ReportInv
  <2>3. a \notin lapsed' /\ phase' = "missing" /\ db' = db
    BY Zenon, <1>2
  <2>4. Reported(a)'
    BY Zenon, <1>0, <1>4, <1>5, <1>7, <2>1, <2>2, <2>3 DEF Reported
  <2> QED BY Zenon, <2>3, <2>4 DEF Untouched
<1> QED BY Zenon, <1>2, <1>8, <1>9 DEF ReportInv

\* The rows of infrastructure_changes keep up with what the transaction does.
LEMMA ReportStep ==
    ASSUME TableInv, ReportInv, [Next]_vars
    PROVE  ReportInv'
<1>0. work \in Tables /\ dropped \subseteq Relationships /\ lapsed \subseteq SourceIDs
  BY Zenon DEF TableInv, TypeOK
<1>1. ASSUME NEW c \in Connectors, NEW n \in Thresholds, Begin(c, n)
      PROVE  ReportInv'
  BY Zenon, <1>1 DEF Begin, ReportInv, Reported, Untouched, TableInv, WorkSeen
<1>2. ASSUME NEW e \in SourceEdges, ObserveEdge(e)
      PROVE  ReportInv'
  <2>1. EdgeObserved(e)
    BY Zenon, <1>0, <1>2, ObserveEdgeColumns
  <2>2. \A b \in SourceIDs :
            /\ <<b, "ASSET_DISCOVERED">> \in changes' <=> <<b, "ASSET_DISCOVERED">> \in changes
            /\ <<b, "ASSET_RETURNED">> \in changes' <=> <<b, "ASSET_RETURNED">> \in changes
            /\ <<b, "ASSET_MISSING">> \in changes' <=> <<b, "ASSET_MISSING">> \in changes
            /\ <<b, "SOURCE_CONFLICT">> \in changes' <=> <<b, "SOURCE_CONFLICT">> \in changes
    BY Zenon, <1>2 DEF ObserveEdge, Report
  <2>3. /\ db' = db /\ seen' = seen /\ lapsed' = lapsed
        /\ phase \in {"assets", "edges"} /\ phase' = "edges"
        /\ work'.assetStatus = work.assetStatus
        /\ work'.idAsset = work.idAsset
    BY Zenon, <1>2, <2>1 DEF EdgeObserved, ObserveEdge
  <2>4. ASSUME NEW b \in SourceIDs
        PROVE  Reported(b)' /\ Untouched(b)'
    BY Zenon, <2>2, <2>3, ReportFrame DEF ReportInv
  <2> QED BY Zenon, <2>3, <2>4 DEF ReportInv
<1>3. CASE CountMissing
  <2>1. MissingCounted
    BY Zenon, <1>0, <1>3, CountMissingColumns
  <2>2. ASSUME NEW b \in SourceIDs
        PROVE  Reported(b)' /\ Untouched(b)'
    <3>1. /\ db' = db /\ seen' = seen /\ changes' = changes
          /\ work'.assetStatus = work.assetStatus
          /\ work'.idAsset = work.idAsset
          /\ phase' \in {"assets", "edges"} \/ b \in lapsed' =>
                 phase \in {"assets", "edges"} \/ b \in lapsed
      BY Zenon, <1>3, <2>1 DEF MissingCounted, CountMissing
    <3> QED BY Zenon, <3>1, ReportFrame DEF ReportInv
  <2> QED BY Zenon, <1>3, <2>2 DEF CountMissing, ReportInv
<1>4. CASE CountRemoved
  <2>1. RemovedCounted
    BY Zenon, <1>0, <1>4, CountRemovedColumns
  <2>2. ASSUME NEW b \in SourceIDs
        PROVE  Reported(b)' /\ Untouched(b)'
    <3>1. /\ db' = db /\ seen' = seen /\ changes' = changes
          /\ work'.assetStatus = work.assetStatus
          /\ work'.idAsset = work.idAsset
          /\ phase' \in {"assets", "edges"} \/ b \in lapsed' =>
                 phase \in {"assets", "edges"} \/ b \in lapsed
      BY Zenon, <1>4, <2>1 DEF RemovedCounted, CountRemoved
    <3> QED BY Zenon, <3>1, ReportFrame DEF ReportInv
  <2> QED BY Zenon, <1>4, <2>2 DEF CountRemoved, ReportInv
<1>5. ASSUME NEW r \in dropped, DropRelationship(r)
      PROVE  ReportInv'
  <2>1. RelationshipDropped(r)
    BY Zenon, <1>0, <1>5, DropRelationshipColumns
  <2>2. ASSUME NEW b \in SourceIDs
        PROVE  Reported(b)' /\ Untouched(b)'
    <3>1. /\ db' = db /\ seen' = seen /\ changes' = changes
          /\ work'.assetStatus = work.assetStatus
          /\ work'.idAsset = work.idAsset
          /\ phase' \in {"assets", "edges"} \/ b \in lapsed' =>
                 phase \in {"assets", "edges"} \/ b \in lapsed
      BY Zenon, <1>5, <2>1 DEF RelationshipDropped, DropRelationship
    <3> QED BY Zenon, <3>1, ReportFrame DEF ReportInv
  <2> QED BY Zenon, <1>5, <2>2 DEF DropRelationship, ReportInv
<1>6. CASE Commit
  BY Zenon, <1>6 DEF Commit, Finish, ReportInv, Reported, Untouched
<1>7. CASE Abort
  BY Zenon, <1>7 DEF Abort, Finish, ReportInv, Reported, Untouched
<1>8. CASE UNCHANGED vars
  BY <1>8 DEF vars, ReportInv, Reported, Untouched
<1> QED BY Zenon, <1>1, <1>2, <1>3, <1>4, <1>5, <1>6, <1>7, <1>8, ObserveAssetReport, LapseAssetReport DEF Next

\* A commit reports the assets that appear and go missing in it, no others,
\* and no conflict begins unreported.
THEOREM ChangesCorrect == Spec => ChangesAreReported
<1>1. Init => ReportInv
  BY Zenon DEF Init, ReportInv, Reported, Untouched
<1>2. TableInv /\ ReportInv /\ [Next]_vars => ReportInv'
  BY Zenon, ReportStep
<1>3. ReportInv /\ [Next]_vars =>
        [db' # db =>
            \A a \in SourceIDs :
                LET was == db.assetStatus[a]
                    is  == db'.assetStatus[a]
                IN  /\ <<a, "ASSET_DISCOVERED">> \in changes <=> was = "NONE" /\ is # "NONE"
                    /\ <<a, "ASSET_MISSING">> \in changes <=> was # "MISSING" /\ is = "MISSING"
                    /\ was # "CONFLICTING" /\ is = "CONFLICTING" => <<a, "SOURCE_CONFLICT">> \in changes
                    /\ <<a, "ASSET_RETURNED">> \in changes => was = "MISSING" /\ is # "MISSING"]_vars
  BY Zenon, OnlyCommit DEF ReportInv, Reported
<1> QED BY <1>1, <1>2, <1>3, TablesInvariant, PTL DEF Spec, ChangesAreReported

=============================================================================
