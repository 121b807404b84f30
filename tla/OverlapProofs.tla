---------------------------- MODULE OverlapProofs ----------------------------
(***************************************************************************)
(* Overlapping reconciliations, for any number of connectors, source IDs   *)
(* and strong identifiers: what a transaction has seen of other connectors *)
(* is out of date only where it holds no lock, and there it changes        *)
(* nothing. So an asset is committed MISSING exactly when no source ID     *)
(* keeps it, and a binding that was committed stays.                       *)
(***************************************************************************)
EXTENDS Overlap, TLAPS

\* In tables t, source ID i keeps asset a from being MISSING.
Backs(t, i, a) == t.idAsset[i] = a /\ t.idStatus[i] = "ACTIVE"

\* The source IDs of a connector: no other transaction writes their rows.
Own(c) == {i \in SourceIDs : ConnectorOf[i] = c}

\* Every connector has an entry in each variable.
Shape ==
    /\ DOMAIN mine = Connectors
    /\ DOMAIN held = Connectors
    /\ DOMAIN at = Connectors
    /\ DOMAIN focus = Connectors
    /\ DOMAIN lapsed = Connectors

\* Row locks: no row is held by two transactions.
Exclusive == \A c, d \in Connectors : c # d => held[c] \cap held[d] = {}

\* A transaction knows the committed bindings of its own source IDs, and of
\* the strong identifiers whose rows it holds.
BoundInv(c) ==
    /\ \A i \in Own(c) : db.idAsset[i] # NoAsset => mine[c].idAsset[i] = db.idAsset[i]
    /\ \A s \in StrongIDs : StrongRow(s) \in held[c] => db.strong[s] \in {NoAsset, mine[c].strong[s]}

\* Asset a from where c's transaction stands: if it holds the row, its view
\* has the status that the source IDs call for; if not, it has not changed
\* which of its own source IDs keep the asset.
Settled(c, a) ==
    IF AssetRow(a) \in held[c] THEN Agreed(View(c), a)
    ELSE \A i \in Own(c) : Backs(mine[c], i, a) <=> Backs(db, i, a)

\* All assets are settled but those markMissing has still to look at.
SettledInv(c) == \A a \in SourceIDs : a \notin lapsed[c] => Settled(c, a)

\* What the next statement of a transaction takes for granted.
StageInv(c) ==
    /\ at[c] \notin {"missing", "lapse"} => lapsed[c] = {}
    /\ at[c] = "touch" => focus[c].id \in Own(c) /\ mine[c].idAsset[focus[c].id] \in {NoAsset, focus[c].asset}
    /\ at[c] = "bind" => focus[c].id \in Own(c) /\ Backs(mine[c], focus[c].id, focus[c].asset)
                         /\ AssetRow(focus[c].asset) \in held[c]
    /\ at[c] = "lapse" => focus[c].status # "MISSING"

\* A connector without a transaction holds nothing.
OpenInv(c) ==
    IF at[c] = "idle" THEN held[c] = {} /\ lapsed[c] = {}
    ELSE BoundInv(c) /\ SettledInv(c) /\ StageInv(c)

\* The inductive invariant.
OverlapInv == Shape /\ Exclusive /\ MissingIsAgreed /\ \A c \in Connectors : OpenInv(c)

\* A step of c leaves the other transactions alone.
Elsewhere(c) ==
    \A d \in Connectors : d # c =>
        /\ mine'[d] = mine[d] /\ held'[d] = held[d] /\ at'[d] = at[d]
        /\ focus'[d] = focus[d] /\ lapsed'[d] = lapsed[d]

\* What holds of an open transaction.
Running(c) == BoundInv(c) /\ SettledInv(c) /\ StageInv(c)

\* A step of c before its commit: the committed tables stay, and no lock is
\* taken from another transaction.
Local(c) ==
    /\ Shape' /\ Elsewhere(c) /\ db' = db
    /\ \A row \in held'[c] : row \in held[c] \/ Free(c, row)
    /\ OpenInv(c)'

\* A step of c changes nothing that asset b depends on.
Same(c, b) ==
    /\ AssetRow(b) \in held'[c] <=> AssetRow(b) \in held[c]
    /\ mine'[c].assetStatus[b] = View(c).assetStatus[b]
    /\ \A i \in Own(c) : Backs(mine[c], i, b)' <=> Backs(View(c), i, b)

\* The rows of different tables, and of different keys, are different.
LEMMA RowsDiffer ==
    ASSUME NEW x, NEW y
    PROVE  /\ AssetRow(x) = AssetRow(y) => x = y
           /\ StrongRow(x) = StrongRow(y) => x = y
           /\ AssetRow(x) # StrongRow(y)
           /\ AssetRow(x) # EdgeRow(y)
           /\ StrongRow(x) # EdgeRow(y)
  BY Zenon DEF AssetRow, StrongRow, EdgeRow

\* What a transaction sees: its own writes on the rows it holds and on its
\* own source IDs, the committed tables elsewhere.
LEMMA ViewRows ==
    ASSUME NEW c \in Connectors
    PROVE  /\ \A a \in SourceIDs : View(c).assetStatus[a] =
                 IF AssetRow(a) \in held[c] THEN mine[c].assetStatus[a] ELSE db.assetStatus[a]
           /\ \A s \in StrongIDs : View(c).strong[s] =
                 IF StrongRow(s) \in held[c] THEN mine[c].strong[s] ELSE db.strong[s]
           /\ \A i \in SourceIDs : /\ i \in Own(c) => /\ View(c).idAsset[i] = mine[c].idAsset[i]
                                                      /\ View(c).idStatus[i] = mine[c].idStatus[i]
                                   /\ i \notin Own(c) => /\ View(c).idAsset[i] = db.idAsset[i]
                                                         /\ View(c).idStatus[i] = db.idStatus[i]
  BY Zenon DEF View, Own

\* The columns of a view.
LEMMA ViewColumns ==
    ASSUME NEW c \in Connectors
    PROVE  /\ DOMAIN View(c) = {"assetStatus", "effective", "strong", "relStatus", "idAsset", "idStatus",
                                "idAbsences", "claims", "edgeRel", "edgeStatus", "edgeAbsences"}
           /\ DOMAIN View(c).assetStatus = SourceIDs
           /\ DOMAIN View(c).strong = StrongIDs
           /\ DOMAIN View(c).idAsset = SourceIDs
           /\ DOMAIN View(c).idStatus = SourceIDs
  BY Zenon DEF View

\* The same in the next state.
LEMMA ViewRowsNext ==
    ASSUME NEW c \in Connectors
    PROVE  /\ \A a \in SourceIDs : View(c)'.assetStatus[a] =
                 IF AssetRow(a) \in held'[c] THEN mine'[c].assetStatus[a] ELSE db'.assetStatus[a]
           /\ \A i \in SourceIDs : /\ i \in Own(c) => /\ View(c)'.idAsset[i] = mine'[c].idAsset[i]
                                                      /\ View(c)'.idStatus[i] = mine'[c].idStatus[i]
                                   /\ i \notin Own(c) => /\ View(c)'.idAsset[i] = db'.idAsset[i]
                                                         /\ View(c)'.idStatus[i] = db'.idStatus[i]
  BY Zenon DEF View, Own

\* Nothing is open in the beginning, and no asset is there.
LEMMA OverlapInit == ASSUME Init PROVE OverlapInv
  BY Zenon, OverlapAssumption DEF Init, OverlapInv, Shape, Exclusive, MissingIsAgreed, OpenInv

\* A transaction keeps its part of the invariant in the steps of others that
\* commit nothing.
LEMMA ElsewhereKeeps ==
    ASSUME NEW d \in Connectors, OpenInv(d), db' = db,
           mine'[d] = mine[d], held'[d] = held[d], at'[d] = at[d], focus'[d] = focus[d],
           lapsed'[d] = lapsed[d]
    PROVE  OpenInv(d)'
  <1>1. View(d)' = View(d)
    BY Zenon DEF View
  <1>2. BoundInv(d) => BoundInv(d)'
    BY Zenon DEF BoundInv
  <1>3. SettledInv(d) => SettledInv(d)'
    BY <1>1 DEF SettledInv, Settled, Agreed, Backs
  <1>4. StageInv(d) => StageInv(d)'
    BY Zenon DEF StageInv, Backs
  <1> QED BY Zenon, <1>2, <1>3, <1>4 DEF OpenInv

\* So does the whole invariant.
LEMMA LocalKeeps ==
    ASSUME OverlapInv, NEW c \in Connectors, Local(c)
    PROVE  OverlapInv'
  <1>1. Exclusive'
    BY DEF OverlapInv, Local, Elsewhere, Exclusive, Free
  <1>2. MissingIsAgreed'
    BY Zenon DEF OverlapInv, Local, MissingIsAgreed, Agreed
  <1>3. \A d \in Connectors : d # c => OpenInv(d)'
    BY Zenon, ElsewhereKeeps DEF OverlapInv, Local, Elsewhere
  <1> QED BY Zenon, <1>1, <1>2, <1>3 DEF OverlapInv, Local

\* An asset a step leaves alone stays settled.
LEMMA SameSettled ==
    ASSUME NEW c \in Connectors, NEW b \in SourceIDs, db' = db, Settled(c, b), Same(c, b)
    PROVE  Settled(c, b)'
  <1>1. \A i \in Own(c) : Backs(View(c), i, b) <=> Backs(mine[c], i, b)
    BY Zenon, ViewRows DEF Backs, Own
  <1>2. CASE AssetRow(b) \in held[c]
    <2>1. \A i \in Own(c) : Backs(View(c), i, b)' <=> Backs(View(c), i, b)
      BY ViewRowsNext DEF Same, Backs, Own
    <2>2. \A i \in SourceIDs : i \notin Own(c) => (Backs(View(c), i, b)' <=> Backs(View(c), i, b))
      BY ViewRows, ViewRowsNext DEF Backs
    <2>3. View(c)'.assetStatus[b] = View(c).assetStatus[b]
      BY Zenon, <1>2, ViewRowsNext DEF Same
    <2> QED BY Zenon, <1>2, <2>1, <2>2, <2>3 DEF Settled, Same, Agreed, Backs
  <1>3. CASE AssetRow(b) \notin held[c]
    BY Zenon, <1>1, <1>3 DEF Settled, Same, Backs
  <1> QED BY Zenon, <1>2, <1>3

\* What a statement has to ensure: bindings stay, and an asset is settled by
\* the statement or left alone by it.
LEMMA Effect ==
    ASSUME NEW c \in Connectors, Running(c), db' = db,
           \A i \in Own(c) : View(c).idAsset[i] # NoAsset => mine'[c].idAsset[i] = View(c).idAsset[i],
           \A s \in StrongIDs : StrongRow(s) \in held'[c] => View(c).strong[s] \in {NoAsset, mine'[c].strong[s]},
           \A b \in SourceIDs : b \notin lapsed'[c] => Settled(c, b)' \/ (b \notin lapsed[c] /\ Same(c, b))
    PROVE  BoundInv(c)' /\ SettledInv(c)'
  <1>1. \A i \in Own(c) : db.idAsset[i] # NoAsset => mine'[c].idAsset[i] = db.idAsset[i]
    BY ViewRows DEF Running, BoundInv, Own
  <1>2. \A s \in StrongIDs : db.strong[s] \in {NoAsset, View(c).strong[s]}
    BY ViewRows DEF Running, BoundInv
  <1>3. BoundInv(c)'
    BY Zenon, <1>1, <1>2 DEF BoundInv
  <1>4. SettledInv(c)'
    BY Zenon, SameSettled DEF Running, SettledInv
  <1> QED BY Zenon, <1>3, <1>4

\* A statement that writes no asset, binding or status ensures it.
LEMMA QuietEffect ==
    ASSUME NEW c \in Connectors, Running(c), db' = db, lapsed'[c] = lapsed[c],
           \A x : /\ AssetRow(x) \in held'[c] <=> AssetRow(x) \in held[c]
                  /\ StrongRow(x) \in held'[c] <=> StrongRow(x) \in held[c],
           mine'[c].assetStatus = View(c).assetStatus, mine'[c].strong = View(c).strong,
           mine'[c].idAsset = View(c).idAsset, mine'[c].idStatus = View(c).idStatus
    PROVE  BoundInv(c)' /\ SettledInv(c)'
  <1>1. \A b \in SourceIDs : Same(c, b)
    BY Zenon DEF Same, Backs
  <1> QED BY Zenon, <1>1, Effect

\* So does one that writes nothing.
LEMMA UntouchedEffect ==
    ASSUME NEW c \in Connectors, Running(c),
           db' = db, mine'[c] = mine[c], held'[c] = held[c], lapsed'[c] = lapsed[c]
    PROVE  BoundInv(c)' /\ SettledInv(c)'
  <1>1. View(c)' = View(c)
    BY Zenon DEF View
  <1>2. SettledInv(c)'
    BY <1>1 DEF Running, SettledInv, Settled, Agreed, Backs
  <1> QED BY Zenon, <1>2 DEF Running, BoundInv

\* An asset that is not MISSING and has an ACTIVE source ID is settled.
LEMMA SeenSettled ==
    ASSUME NEW c \in Connectors, NEW a \in SourceIDs, NEW i \in Own(c), AssetRow(a) \in held'[c],
           mine'[c].assetStatus[a] # "MISSING", Backs(mine[c], i, a)'
    PROVE  Settled(c, a)'
  <1>1. View(c)'.assetStatus[a] # "MISSING"
    BY Zenon, ViewRowsNext
  <1>2. Backs(View(c), i, a)'
    BY Zenon, ViewRowsNext DEF Backs, Own
  <1> QED BY Zenon, <1>1, <1>2 DEF Settled, Agreed, Backs, Own

\* BEGIN: the transaction starts from the committed tables.
LEMMA BeginLocal ==
    ASSUME Shape, NEW c \in Connectors, OpenInv(c), Begin(c)
    PROVE  Local(c)
  <1>1. mine'[c] = db /\ at'[c] = "assets" /\ held'[c] = {} /\ lapsed'[c] = {} /\ db' = db
    BY Zenon DEF Shape, OpenInv, Begin, Write, Go
  <1>2. OpenInv(c)'
    BY Zenon, <1>1 DEF OpenInv, BoundInv, SettledInv, Settled, StageInv, Backs
  <1> QED BY Zenon, <1>1, <1>2 DEF Local, Elsewhere, Shape, Begin, Write, Go

\* The lookups of observeAsset write nothing and take no lock.
LEMMA LookupLocal ==
    ASSUME Shape, NEW c \in Connectors, Running(c),
           NEW i \in SourceIDs, NEW ids, NEW attrs, Lookup(c, i, ids, attrs)
    PROVE  Local(c)
  <1> DEFINE a == T(c)!ResolvedAsset(View(c), i, ids)
  <1>1. /\ at'[c] = "touch" /\ at[c] = "assets" /\ focus'[c].id = i /\ focus'[c].asset = a /\ i \in Own(c)
        /\ UNCHANGED <<db, mine, held, lapsed>>
    BY Zenon DEF Shape, Lookup, Go, Own
  <1>2. mine[c].idAsset[i] \in {NoAsset, a}
    BY Zenon, <1>1, ViewRows DEF T!ResolvedAsset
  <1> HIDE DEF a
  <1>3. BoundInv(c)' /\ SettledInv(c)'
    BY Zenon, <1>1, UntouchedEffect
  <1>4. OpenInv(c)'
    BY Zenon, <1>1, <1>2, <1>3 DEF Running, OpenInv, StageInv
  <1> QED BY Zenon, <1>1, <1>4 DEF Local, Elsewhere, Shape, Lookup, Go

\* The upsert of the asset, which takes its row lock: the asset is ACTIVE
\* from then on, and its source ID with it.
LEMMA TouchLocal ==
    ASSUME Shape, NEW c \in Connectors, Running(c), Touch(c)
    PROVE  Local(c)
  <1>0. PICK a, i : a = focus[c].asset /\ i = focus[c].id
    OBVIOUS
  <1>1. /\ at[c] = "touch" /\ at'[c] = "bind" /\ UNCHANGED <<db, focus, lapsed>>
        /\ held'[c] = held[c] \cup {AssetRow(a)} /\ Free(c, AssetRow(a))
    BY Zenon, <1>0 DEF Shape, Touch, Go, Hold
  <1>2. /\ mine'[c].assetStatus = [View(c).assetStatus EXCEPT ![a] = "ACTIVE"]
        /\ mine'[c].idAsset = [View(c).idAsset EXCEPT ![i] = a]
        /\ mine'[c].idStatus = [View(c).idStatus EXCEPT ![i] = "ACTIVE"]
        /\ mine'[c].strong = View(c).strong
    BY <1>0, ViewColumns DEF Shape, Touch, Write
  <1>3. i \in Own(c) /\ i \in SourceIDs /\ View(c).idAsset[i] \in {NoAsset, a} /\ lapsed[c] = {}
    BY Zenon, <1>0, <1>1, ViewRows DEF Running, StageInv, Own
  <1>4. Shape' /\ Elsewhere(c)
    BY Zenon DEF Shape, Elsewhere, Touch, Go, Hold, Write
  <1>5. Backs(mine[c], i, a)'
    BY <1>2, <1>3, ViewColumns DEF Backs
  <1>6. ASSUME NEW b \in SourceIDs, b = a
        PROVE  Settled(c, b)'
    BY <1>1, <1>2, <1>3, <1>5, <1>6, SeenSettled, ViewColumns
  <1>7. ASSUME NEW b \in SourceIDs, b # a
        PROVE  Same(c, b)
    BY <1>1, <1>2, <1>3, <1>7, RowsDiffer, ViewColumns, OverlapAssumption DEF Same, Backs, Own
  <1>8. BoundInv(c)' /\ SettledInv(c)'
    <2>1. \A j \in Own(c) : View(c).idAsset[j] # NoAsset => mine'[c].idAsset[j] = View(c).idAsset[j]
      BY <1>2, <1>3, ViewColumns DEF Own
    <2> QED BY Zenon, <1>1, <1>2, <1>3, <1>6, <1>7, <2>1, Effect
  <1>9. StageInv(c)'
    BY Zenon, <1>0, <1>1, <1>3, <1>5 DEF StageInv, Backs
  <1> QED BY Zenon, <1>1, <1>4, <1>8, <1>9 DEF Local, OpenInv

\* The upserts of the strong identifiers, the source ID and the claims.
LEMMA BindLocal ==
    ASSUME Shape, NEW c \in Connectors, Running(c), Bind(c)
    PROVE  Local(c)
  <1> DEFINE a == focus[c].asset
             i == focus[c].id
             rows == {StrongRow(s) : s \in focus[c].ids}
             cs == T(c)!ObservedClaims(View(c).claims, i, a, focus[c].attrs)
  <1>1. /\ at[c] = "bind" /\ at'[c] = "assets" /\ UNCHANGED <<db, lapsed>>
        /\ held'[c] = held[c] \cup rows
        /\ \A row \in rows : Free(c, row)
        /\ \A s \in focus[c].ids : View(c).strong[s] \in {NoAsset, a}
    BY Zenon DEF Shape, Bind, Go, Hold, StrongFree, T!StrongAgree
  <1>2. PICK new : mine'[c] = [View(c) EXCEPT
            !.strong = [s \in StrongIDs |-> IF s \in focus[c].ids THEN a ELSE View(c).strong[s]],
            !.claims = cs,
            !.effective = [View(c).effective EXCEPT ![a] = new],
            !.assetStatus = [View(c).assetStatus EXCEPT ![a] = T(c)!ClaimStatus(cs, a)]]
    BY Zenon DEF Shape, Bind, Write
  <1>3. T(c)!ClaimStatus(cs, a) # "MISSING"
    BY Zenon DEF T!ClaimStatus
  <1>4. i \in Own(c) /\ Backs(mine[c], i, a) /\ AssetRow(a) \in held[c] /\ lapsed[c] = {}
    BY Zenon, <1>1 DEF Running, StageInv
  <1>5. Shape' /\ Elsewhere(c)
    BY Zenon DEF Shape, Elsewhere, Bind, Go, Hold, Write
  <1>6. /\ \A x : AssetRow(x) \in held'[c] <=> AssetRow(x) \in held[c]
        /\ \A x : StrongRow(x) \in held'[c] => StrongRow(x) \in held[c] \/ x \in focus[c].ids
    <2>1. \A x : AssetRow(x) \notin rows /\ (StrongRow(x) \in rows => x \in focus[c].ids)
      BY Zenon, RowsDiffer
    <2> QED BY Zenon, <1>1, <2>1
  <1> HIDE DEF a, i, rows, cs
  <1>7. /\ mine'[c].idAsset = View(c).idAsset /\ mine'[c].idStatus = View(c).idStatus
        /\ \A s \in StrongIDs : mine'[c].strong[s] = IF s \in focus[c].ids THEN a ELSE View(c).strong[s]
        /\ \A b \in SourceIDs : /\ b = a => mine'[c].assetStatus[b] # "MISSING"
                                /\ b # a => mine'[c].assetStatus[b] = View(c).assetStatus[b]
    BY <1>2, <1>3, ViewColumns
  <1>8. PICK j \in Own(c) : mine'[c].idAsset[j] = a /\ mine'[c].idStatus[j] = "ACTIVE"
    BY <1>4, <1>7, ViewRows DEF Backs, Own
  <1>9. ASSUME NEW b \in SourceIDs, b = a
        PROVE  Settled(c, b)'
    BY <1>4, <1>6, <1>7, <1>8, <1>9, SeenSettled DEF Backs
  <1>10. ASSUME NEW b \in SourceIDs, b # a
         PROVE  Same(c, b)
    BY Zenon, <1>6, <1>7, <1>10 DEF Same, Backs
  <1>11. BoundInv(c)' /\ SettledInv(c)'
    BY Zenon, <1>1, <1>4, <1>7, <1>9, <1>10, Effect
  <1> QED BY Zenon, <1>1, <1>4, <1>5, <1>11 DEF Local, OpenInv, StageInv

\* observeRelationship writes no row an asset depends on.
LEMMA ObserveEdgeLocal ==
    ASSUME Shape, NEW c \in Connectors, Running(c), NEW e, ObserveEdge(c, e)
    PROVE  Local(c)
  <1> DEFINE r == T(c)!RelationshipOf(View(c), e)
  <1>1. /\ at[c] \in {"assets", "edges"} /\ at'[c] = "edges" /\ UNCHANGED <<db, lapsed>>
        /\ held'[c] = held[c] \cup {EdgeRow(r)} /\ Free(c, EdgeRow(r))
    BY Zenon DEF Shape, ObserveEdge, Go, Hold
  <1>2. /\ mine'[c].assetStatus = View(c).assetStatus /\ mine'[c].strong = View(c).strong
        /\ mine'[c].idAsset = View(c).idAsset /\ mine'[c].idStatus = View(c).idStatus
    BY ViewColumns DEF Shape, ObserveEdge, Write
  <1> HIDE DEF r
  <1>3. BoundInv(c)' /\ SettledInv(c)'
    BY Zenon, <1>1, <1>2, RowsDiffer, QuietEffect
  <1>4. Shape' /\ Elsewhere(c)
    BY Zenon DEF Shape, Elsewhere, ObserveEdge, Go, Hold, Write
  <1>5. lapsed'[c] = {}
    BY Zenon, <1>1 DEF Running, StageInv
  <1> QED BY Zenon, <1>1, <1>3, <1>4, <1>5 DEF Local, OpenInv, StageInv

\* markMissing reads the claims of an asset that may be gone.
LEMMA ReadLapsedLocal ==
    ASSUME Shape, NEW c \in Connectors, Running(c), NEW a, ReadLapsed(c, a)
    PROVE  Local(c)
  <1>1. /\ at'[c] = "lapse" /\ UNCHANGED <<db, held, lapsed>>
        /\ focus'[c].status # "MISSING"
    BY DEF Shape, ReadLapsed, Go, T!ClaimStatus
  <1>2. /\ mine'[c].assetStatus = View(c).assetStatus /\ mine'[c].strong = View(c).strong
        /\ mine'[c].idAsset = View(c).idAsset /\ mine'[c].idStatus = View(c).idStatus
    BY ViewColumns DEF Shape, ReadLapsed, Write
  <1>3. BoundInv(c)' /\ SettledInv(c)'
    BY Zenon, <1>1, <1>2, QuietEffect
  <1>4. Shape' /\ Elsewhere(c)
    BY Zenon DEF Shape, Elsewhere, ReadLapsed, Go, Write
  <1> QED BY Zenon, <1>1, <1>3, <1>4 DEF Local, OpenInv, StageInv

\* The absences of relationships.
LEMMA CountRemovedLocal ==
    ASSUME Shape, NEW c \in Connectors, Running(c), CountRemoved(c)
    PROVE  Local(c)
  <1>1. at'[c] = "removed" /\ lapsed[c] = {} /\ UNCHANGED <<db, held, lapsed>>
    BY Zenon DEF Shape, CountRemoved, Go
  <1>2. /\ mine'[c].assetStatus = View(c).assetStatus /\ mine'[c].strong = View(c).strong
        /\ mine'[c].idAsset = View(c).idAsset /\ mine'[c].idStatus = View(c).idStatus
    BY ViewColumns DEF Shape, CountRemoved, Write
  <1>3. BoundInv(c)' /\ SettledInv(c)'
    BY Zenon, <1>1, <1>2, QuietEffect
  <1>4. Shape' /\ Elsewhere(c)
    BY Zenon DEF Shape, Elsewhere, CountRemoved, Go, Write
  <1> QED BY Zenon, <1>1, <1>3, <1>4 DEF Local, OpenInv, StageInv

\* The next relationship to look at.
LEMMA ReadDroppedLocal ==
    ASSUME Shape, NEW c \in Connectors, Running(c), NEW r, ReadDropped(c, r)
    PROVE  Local(c)
  <1>1. at[c] = "removed" /\ at'[c] \in {"removed", "drop"} /\ UNCHANGED <<db, mine, held, lapsed>>
    BY Zenon DEF Shape, ReadDropped, Go
  <1>2. BoundInv(c)' /\ SettledInv(c)'
    BY Zenon, <1>1, UntouchedEffect
  <1>3. Shape' /\ Elsewhere(c)
    BY Zenon DEF Shape, Elsewhere, ReadDropped, Go
  <1>4. lapsed'[c] = {}
    BY Zenon, <1>1 DEF Running, StageInv
  <1> QED BY Zenon, <1>1, <1>2, <1>3, <1>4 DEF Local, OpenInv, StageInv

\* A relationship is REMOVED or kept.
LEMMA WriteDroppedLocal ==
    ASSUME Shape, NEW c \in Connectors, Running(c), WriteDropped(c)
    PROVE  Local(c)
  <1> DEFINE r == focus[c].asset
  <1>1. /\ at[c] = "drop" /\ at'[c] = "removed" /\ UNCHANGED <<db, lapsed>> /\ Free(c, EdgeRow(r))
    BY Zenon DEF Shape, WriteDropped, Go
  <1>2. \/ held' = held /\ mine' = mine
        \/ /\ held'[c] = held[c] \cup {EdgeRow(r)}
           /\ mine'[c] = [View(c) EXCEPT !.relStatus = [View(c).relStatus EXCEPT ![r] = "REMOVED"]]
    BY Zenon DEF Shape, WriteDropped, Hold, Write
  <1> HIDE DEF r
  <1>3. BoundInv(c)' /\ SettledInv(c)'
    <2>1. CASE held' = held /\ mine' = mine
      BY Zenon, <1>1, <2>1, UntouchedEffect
    <2>2. CASE /\ held'[c] = held[c] \cup {EdgeRow(r)}
               /\ mine'[c] = [View(c) EXCEPT !.relStatus = [View(c).relStatus EXCEPT ![r] = "REMOVED"]]
      <3>1. /\ mine'[c].assetStatus = View(c).assetStatus /\ mine'[c].strong = View(c).strong
            /\ mine'[c].idAsset = View(c).idAsset /\ mine'[c].idStatus = View(c).idStatus
        BY <2>2, ViewColumns
      <3>2. \A x : /\ AssetRow(x) \in held'[c] <=> AssetRow(x) \in held[c]
                   /\ StrongRow(x) \in held'[c] <=> StrongRow(x) \in held[c]
        BY Zenon, <2>2, RowsDiffer
      <3> QED BY Zenon, <1>1, <3>1, <3>2, QuietEffect
    <2> QED BY Zenon, <1>2, <2>1, <2>2
  <1>4. Shape' /\ Elsewhere(c)
    BY Zenon DEF Shape, Elsewhere, WriteDropped, Go, Hold, Write
  <1>5. \A row \in held'[c] : row \in held[c] \/ Free(c, row)
    BY Zenon, <1>1, <1>2
  <1>6. lapsed'[c] = {}
    BY Zenon, <1>1 DEF Running, StageInv
  <1> QED BY Zenon, <1>1, <1>3, <1>4, <1>5, <1>6 DEF Local, OpenInv, StageInv

\* The absences of source IDs: the assets of those given up are no longer
\* settled until markMissing has come to them.
LEMMA CountMissingLocal ==
    ASSUME Shape, NEW c \in Connectors, Running(c), CountMissing(c)
    PROVE  Local(c)
  <1> DEFINE lost == T(c)!GivenUp(View(c))
  <1>1. /\ at[c] \in {"assets", "edges"} /\ at'[c] = "missing" /\ UNCHANGED <<db, held>>
        /\ lapsed'[c] = {View(c).idAsset[i] : i \in lost}
    BY Zenon DEF Shape, CountMissing, Go
  <1>2. /\ mine'[c].assetStatus = View(c).assetStatus /\ mine'[c].strong = View(c).strong
        /\ mine'[c].idAsset = View(c).idAsset
        /\ mine'[c].idStatus = [i \in SourceIDs |-> IF i \in lost THEN "MISSING" ELSE View(c).idStatus[i]]
    BY ViewColumns DEF Shape, CountMissing, Write
  <1>3. lapsed[c] = {}
    BY Zenon, <1>1 DEF Running, StageInv
  <1> HIDE DEF lost
  <1>4. ASSUME NEW b \in SourceIDs, b \notin lapsed'[c]
        PROVE  Same(c, b)
    <2>1. \A j \in Own(c) : View(c).idAsset[j] = b => j \notin lost
      BY Zenon, <1>1, <1>4
    <2>2. \A j \in Own(c) : Backs(mine[c], j, b)' <=> Backs(View(c), j, b)
      BY <1>2, <2>1 DEF Backs, Own
    <2> QED BY Zenon, <1>1, <1>2, <2>2 DEF Same
  <1>5. BoundInv(c)' /\ SettledInv(c)'
    BY Zenon, <1>1, <1>2, <1>3, <1>4, Effect
  <1>6. Shape' /\ Elsewhere(c)
    BY Zenon DEF Shape, Elsewhere, CountMissing, Go, Write
  <1> QED BY Zenon, <1>1, <1>5, <1>6 DEF Local, OpenInv, StageInv

\* markMissing settles an asset: with the row locked it counts the source IDs
\* of all connectors again.
LEMMA WriteLapsedLocal ==
    ASSUME Shape, NEW c \in Connectors, Running(c), WriteLapsed(c)
    PROVE  Local(c)
  <1> DEFINE a == focus[c].asset
             status == IF FoundGone(c) THEN "MISSING" ELSE focus[c].status
  <1>1. /\ at[c] = "lapse" /\ at'[c] = "missing" /\ db' = db
        /\ held'[c] = held[c] \cup {AssetRow(a)} /\ Free(c, AssetRow(a))
        /\ lapsed'[c] = lapsed[c] \ {a}
    BY Zenon DEF Shape, WriteLapsed, Go, Hold
  <1>2. /\ mine'[c].assetStatus = [View(c).assetStatus EXCEPT ![a] = status]
        /\ mine'[c].strong = View(c).strong
        /\ mine'[c].idAsset = View(c).idAsset /\ mine'[c].idStatus = View(c).idStatus
    BY ViewColumns DEF Shape, WriteLapsed, Write
  <1>3. focus[c].status # "MISSING"
    BY Zenon, <1>1 DEF Running, StageInv
  <1>4. status = "MISSING" <=> \A i \in SourceIDs : ~Backs(View(c), i, a)
    BY <1>3 DEF FoundGone, T!Gone, T!ActiveSources, Backs
  <1> HIDE DEF a, status
  <1>5. ASSUME NEW b \in SourceIDs, b = a
        PROVE  Settled(c, b)'
    <2>1. View(c)'.assetStatus[b] = status
      BY <1>1, <1>2, <1>5, ViewRowsNext, ViewColumns
    <2>2. \A j \in SourceIDs : Backs(View(c), j, b)' <=> Backs(View(c), j, b)
      BY <1>1, <1>2, ViewRows, ViewRowsNext DEF Backs
    <2>3. Agreed(View(c), b)'
      BY <1>4, <1>5, <2>1, <2>2 DEF Agreed, Backs
    <2> QED BY Zenon, <1>1, <1>5, <2>3 DEF Settled
  <1>6. ASSUME NEW b \in SourceIDs, b # a
        PROVE  Same(c, b)
    <2>1. AssetRow(b) \in held'[c] <=> AssetRow(b) \in held[c]
      BY Zenon, <1>1, <1>6, RowsDiffer
    <2>2. mine'[c].assetStatus[b] = View(c).assetStatus[b]
      BY <1>2, <1>6, ViewColumns
    <2> QED BY Zenon, <1>2, <2>1, <2>2 DEF Same, Backs
  <1>7. \A s \in StrongIDs : StrongRow(s) \in held'[c] => StrongRow(s) \in held[c]
    BY Zenon, <1>1, RowsDiffer
  <1>8. \A b \in SourceIDs : b \notin lapsed'[c] => Settled(c, b)' \/ (b \notin lapsed[c] /\ Same(c, b))
    BY Zenon, <1>1, <1>5, <1>6
  <1>9. BoundInv(c)' /\ SettledInv(c)'
    BY Zenon, <1>1, <1>2, <1>7, <1>8, Effect
  <1>10. Shape' /\ Elsewhere(c)
    BY Zenon DEF Shape, Elsewhere, WriteLapsed, Go, Hold, Write
  <1> QED BY Zenon, <1>1, <1>9, <1>10 DEF Local, OpenInv, StageInv

\* The end of a transaction, by COMMIT or ROLLBACK.
LEMMA EndsIdle ==
    ASSUME Shape, NEW c \in Connectors, End(c)
    PROVE  /\ Shape' /\ Elsewhere(c)
           /\ held'[c] = {} /\ lapsed'[c] = {} /\ at'[c] = "idle"
  BY Zenon DEF Shape, Elsewhere, End, Go

\* ROLLBACK commits nothing.
LEMMA AbortLocal ==
    ASSUME Shape, NEW c \in Connectors, Abort(c)
    PROVE  Local(c)
  BY Zenon, EndsIdle DEF Abort, Local, OpenInv

\* A commit changes nothing about an asset whose row was not held.
LEMMA CommittedRows ==
    ASSUME NEW c \in Connectors, SettledInv(c), lapsed[c] = {}, db' = View(c),
           NEW a \in SourceIDs, AssetRow(a) \notin held[c]
    PROVE  /\ db'.assetStatus[a] = db.assetStatus[a]
           /\ \A i \in SourceIDs : Backs(db, i, a)' <=> Backs(db, i, a)
  <1>1. \A i \in Own(c) : Backs(mine[c], i, a) <=> Backs(db, i, a)
    BY Zenon DEF SettledInv, Settled
  <1>2. \A i \in SourceIDs : Backs(View(c), i, a) <=> Backs(db, i, a)
    BY <1>1, ViewRows DEF Backs
  <1> QED BY Zenon, <1>2, ViewRows DEF Backs

\* So the transactions still open find what they rely on unchanged: they hold
\* other rows.
LEMMA OthersAfterCommit ==
    ASSUME Exclusive, NEW c \in Connectors, SettledInv(c), lapsed[c] = {}, db' = View(c), Elsewhere(c),
           NEW d \in Connectors, d # c, Running(d)
    PROVE  Running(d)'
  <1>1. /\ mine'[d] = mine[d] /\ held'[d] = held[d] /\ at'[d] = at[d]
        /\ focus'[d] = focus[d] /\ lapsed'[d] = lapsed[d]
    BY Zenon DEF Elsewhere
  <1>2. \A i \in Own(d) : db'.idAsset[i] = db.idAsset[i] /\ db'.idStatus[i] = db.idStatus[i]
    BY ViewRows DEF Own
  <1>3. \A row \in held[d] : row \notin held[c]
    BY DEF Exclusive
  <1>4. \A s \in StrongIDs : StrongRow(s) \in held[d] => db'.strong[s] = db.strong[s]
    BY Zenon, <1>3, ViewRows
  <1>5. BoundInv(d)'
    BY Zenon, <1>1, <1>2, <1>4 DEF Running, BoundInv
  <1>6. StageInv(d)'
    BY Zenon, <1>1 DEF Running, StageInv, Backs
  <1>7. ASSUME NEW a \in SourceIDs, Settled(d, a)
        PROVE  Settled(d, a)'
    <2>1. CASE AssetRow(a) \in held[d]
      <3>1. \A i \in SourceIDs : Backs(db, i, a)' <=> Backs(db, i, a)
        BY Zenon, <1>3, <2>1, CommittedRows
      <3>2. \A i \in SourceIDs : Backs(View(d), i, a)' <=> Backs(View(d), i, a)
        BY <1>1, <3>1, ViewRows, ViewRowsNext DEF Backs
      <3>3. View(d)'.assetStatus[a] = View(d).assetStatus[a]
        BY <1>1, <2>1, ViewRows, ViewRowsNext
      <3> QED BY Zenon, <1>1, <1>7, <2>1, <3>2, <3>3 DEF Settled, Agreed, Backs
    <2>2. CASE AssetRow(a) \notin held[d]
      BY <1>1, <1>2, <1>7, <2>2 DEF Settled, Backs
    <2> QED BY Zenon, <2>1, <2>2
  <1>8. SettledInv(d)'
    BY Zenon, <1>1, <1>7 DEF Running, SettledInv
  <1> QED BY Zenon, <1>5, <1>6, <1>8 DEF Running

\* COMMIT: every asset is settled by then, the held ones in the view that is
\* committed, the others as they were.
LEMMA CommitKeeps ==
    ASSUME OverlapInv, NEW c \in Connectors, Commit(c)
    PROVE  OverlapInv'
  <1>1. /\ at[c] = "removed" /\ db' = View(c) /\ Shape' /\ Elsewhere(c)
        /\ held'[c] = {} /\ lapsed'[c] = {} /\ at'[c] = "idle"
    BY Zenon, EndsIdle DEF OverlapInv, Commit
  <1>2. SettledInv(c) /\ lapsed[c] = {}
    BY Zenon, <1>1 DEF OverlapInv, OpenInv, StageInv
  <1>3. Exclusive'
    BY <1>1 DEF OverlapInv, Exclusive, Elsewhere
  <1>4. ASSUME NEW a \in SourceIDs
        PROVE  Agreed(db, a)'
    <2>1. CASE AssetRow(a) \in held[c]
      BY Zenon, <1>1, <1>2, <2>1 DEF SettledInv, Settled, Agreed
    <2>2. CASE AssetRow(a) \notin held[c]
      <3>1. Agreed(db, a)
        BY Zenon DEF OverlapInv, MissingIsAgreed
      <3>2. /\ db'.assetStatus[a] = db.assetStatus[a]
            /\ \A i \in SourceIDs : Backs(db, i, a)' <=> Backs(db, i, a)
        BY Zenon, <1>1, <1>2, <2>2, CommittedRows
      <3> QED BY <3>1, <3>2 DEF Agreed, Backs
    <2> QED BY Zenon, <2>1, <2>2
  <1>5. ASSUME NEW d \in Connectors
        PROVE  OpenInv(d)'
    <2>1. CASE d = c
      BY Zenon, <1>1, <2>1 DEF OpenInv
    <2>2. CASE d # c /\ at[d] = "idle"
      BY Zenon, <1>1, <2>2 DEF OverlapInv, OpenInv, Elsewhere
    <2>3. CASE d # c /\ at[d] # "idle"
      <3>1. Running(d)
        BY Zenon, <2>3 DEF OverlapInv, OpenInv, Running
      <3>2. Running(d)'
        BY Zenon, <1>1, <1>2, <2>3, <3>1, OthersAfterCommit DEF OverlapInv
      <3> QED BY Zenon, <1>1, <2>3, <3>2 DEF OpenInv, Running, Elsewhere
    <2> QED BY Zenon, <2>1, <2>2, <2>3
  <1> QED BY Zenon, <1>1, <1>3, <1>4, <1>5 DEF OverlapInv, MissingIsAgreed

\* All statements of a transaction.
LEMMA StepKeeps ==
    ASSUME OverlapInv, NEW c \in Connectors, Step(c)
    PROVE  OverlapInv'
  <1>1. Shape /\ OpenInv(c)
    BY Zenon DEF OverlapInv
  <1>2. CASE Begin(c)
    BY Zenon, <1>1, <1>2, BeginLocal, LocalKeeps
  <1>3. CASE Commit(c)
    BY Zenon, <1>3, CommitKeeps
  <1>4. CASE ~Begin(c) /\ ~Commit(c)
    <2>1. at[c] # "idle"
      BY Zenon, <1>4 DEF Step, Touch, Bind, CountMissing, WriteLapsed, CountRemoved, WriteDropped,
                  Lookup, ObserveEdge, ReadLapsed, ReadDropped
    <2>2. Running(c)
      BY Zenon, <1>1, <2>1 DEF OpenInv, Running
    <2>3. Local(c)
      BY Zenon, <1>1, <1>4, <2>2, TouchLocal, BindLocal, CountMissingLocal, WriteLapsedLocal, CountRemovedLocal,
         WriteDroppedLocal, LookupLocal, ObserveEdgeLocal, ReadLapsedLocal, ReadDroppedLocal DEF Step
    <2> QED BY Zenon, <2>3, LocalKeeps
  <1> QED BY Zenon, <1>2, <1>3, <1>4

\* And all steps.
LEMMA OverlapStep == OverlapInv /\ [Next]_vars => OverlapInv'
  <1> SUFFICES ASSUME OverlapInv, [Next]_vars PROVE OverlapInv'
    OBVIOUS
  <1>1. ASSUME NEW c \in Connectors, Abort(c)
        PROVE  OverlapInv'
    BY Zenon, <1>1, AbortLocal, LocalKeeps DEF OverlapInv
  <1>2. CASE UNCHANGED vars
    <2>1. \A c \in Connectors : OpenInv(c)'
      BY Zenon, <1>2, ElsewhereKeeps DEF vars, OverlapInv
    <2>2. Shape' /\ Exclusive' /\ MissingIsAgreed'
      BY Zenon, <1>2 DEF vars, OverlapInv, Shape, Exclusive, MissingIsAgreed, Agreed
    <2> QED BY Zenon, <2>1, <2>2 DEF OverlapInv
  <1> QED BY Zenon, <1>1, <1>2, StepKeeps DEF Next

(* For any connectors, source IDs, strong identifiers and thresholds: row  *)
(* locks are exclusive, each transaction knows the bindings it relies on,  *)
(* and every asset is settled in its view but those markMissing has still  *)
(* to look at.                                                             *)
THEOREM OverlapInvariant == Spec => []OverlapInv
  <1>1. Init => OverlapInv
    BY Zenon, OverlapInit
  <1> QED BY <1>1, OverlapStep, PTL DEF Spec

(* MissingIsAgreed, however the transactions of any number of connectors   *)
(* overlap: an asset is committed MISSING exactly when no ACTIVE source ID *)
(* of any connector is bound to it, because markMissing looks for them     *)
(* after updateEffectiveAsset has locked the asset's row.                  *)
THEOREM MissingAgreed == Spec => []MissingIsAgreed
  <1>1. OverlapInv => MissingIsAgreed
    BY Zenon DEF OverlapInv
  <1> QED BY <1>1, OverlapInvariant, PTL

(* BindingsStay, however they overlap: no commit of ApplyPostgres rebinds  *)
(* a source ID or a strong identifier that another or the same connector's *)
(* transaction had bound.                                                  *)
THEOREM OverlapBindings == Spec => BindingsStay
  <1> DEFINE Stay == /\ \A i \in SourceIDs : db.idAsset[i] # NoAsset => db'.idAsset[i] = db.idAsset[i]
                     /\ \A s \in StrongIDs : db.strong[s] # NoAsset => db'.strong[s] = db.strong[s]
  <1>1. ASSUME OverlapInv, [Next]_vars
        PROVE  [Stay]_vars
    <2>1. ASSUME NEW c \in Connectors, Commit(c)
          PROVE  Stay
      <3>1. BoundInv(c) /\ db' = View(c)
        BY Zenon, <1>1, <2>1 DEF OverlapInv, OpenInv, Commit
      <3> QED BY <3>1, ViewRows DEF BoundInv, Own
    <2>2. ASSUME NEW c \in Connectors, Step(c) \/ Abort(c), ~Commit(c)
          PROVE  db' = db
      BY Zenon, <2>2 DEF Step, Abort, Begin, Touch, Bind, CountMissing, WriteLapsed, CountRemoved, WriteDropped,
                  Lookup, ObserveEdge, ReadLapsed, ReadDropped
    <2>3. db' = db => Stay
      BY Zenon
    <2> QED BY Zenon, <1>1, <2>1, <2>2, <2>3 DEF Next
  <1>2. OverlapInv /\ [Next]_vars => [Stay]_vars
    BY Zenon, <1>1
  <1> QED BY <1>2, OverlapInvariant, PTL DEF Spec, BindingsStay

==============================================================================
