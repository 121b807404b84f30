------------------------- MODULE ReconcileInduction -------------------------
(***************************************************************************)
(* The inductive invariants behind the properties of Reconcile: what holds *)
(* of the open transaction's tables between two of its steps.              *)
(***************************************************************************)
EXTENDS Reconcile

RowsMatch(t) == \A i \in SourceIDs : t.idStatus[i] = "NONE" <=> t.idAsset[i] = NoAsset

\* A source edge keeps the relationship of its endpoints' assets.
EdgeBound(t, e) ==
    t.edgeStatus[e] # "NONE" =>
        /\ t.idAsset[From[e]] # NoAsset
        /\ t.idAsset[To[e]] # NoAsset
        /\ t.edgeRel[e] = RelationshipOf(t, e)

\* A source edge is absent at least as long as each of its endpoints.
EdgeAged(t, e, p) == t.edgeStatus[e] # "NONE" => t.idAbsences[p] <= t.edgeAbsences[e]

Endpoints(e) == {From[e], To[e]}

\* What a committed state of the tables satisfies.
Settled(t) ==
    /\ RowsMatch(t)
    /\ Founded(t)
    /\ OneClaim(t)
    /\ \A a \in SourceIDs : StatusMatches(t, a)
    /\ \A x \in t.claims : ClaimBacked(t, x)
    /\ \A a \in SourceIDs, f \in Fields : ColumnSupported(t, a, f)
    /\ \A e \in SourceEdges : EdgeBound(t, e) /\ EdgeAnchored(t, e)
    /\ \A e \in SourceEdges : \A p \in Endpoints(e) : EdgeAged(t, e, p)
    /\ \A r \in Relationships : RelationshipMatches(t, r)

\* The absence of e in this snapshot has yet to be counted, while those of
\* its endpoints have been.
Uncounted(e) == phase = "missing" /\ EdgeAbsent(work, e)

\* An asset that lost a source identity in this transaction still has the
\* status its claims gave it; its other claims wait for LapseAsset.
WorkAssets ==
    /\ RowsMatch(work)
    /\ Founded(work)
    /\ OneClaim(work)
    /\ \A a \in SourceIDs \ lapsed : StatusMatches(work, a)
    /\ \A a \in lapsed : work.assetStatus[a] = ClaimStatus(work.claims, a)
    /\ \A x \in work.claims :
           ClaimBacked(work, x) \/ (x.asset \in lapsed /\ ConnectorOf[x.source] = connector)
    /\ \A a \in SourceIDs, f \in Fields : ColumnSupported(work, a, f)

\* An edge may outlive an endpoint only until its own absence is counted, and
\* that count will then reach the threshold too.
WorkEdges ==
    /\ \A e \in SourceEdges : EdgeBound(work, e)
    /\ \A e \in SourceEdges : \A p \in Endpoints(e) :
           /\ work.edgeStatus[e] # "NONE" =>
                  work.idAbsences[p] <= IF Uncounted(e) THEN CountAbsence(work.edgeAbsences[e])
                                        ELSE work.edgeAbsences[e]
           /\ work.edgeStatus[e] = "ACTIVE" =>
                  \/ work.idStatus[p] = "ACTIVE"
                  \/ Uncounted(e) /\ threshold <= work.idAbsences[p]
    /\ \A r \in Relationships :
           /\ ActiveEdges(work, r) # {} => work.relStatus[r] = "ACTIVE"
           /\ work.relStatus[r] = "ACTIVE" => ActiveEdges(work, r) # {} \/ r \in dropped

\* What the loops over the snapshot have established so far.
WorkSeen ==
    /\ \A i \in seen : /\ ConnectorOf[i] = connector
                       /\ work.idStatus[i] = "ACTIVE"
                       /\ work.idAbsences[i] = 0
    /\ \A e \in seenEdges : /\ From[e] \in seen
                            /\ To[e] \in seen
                            /\ work.edgeStatus[e] = "ACTIVE"
                            /\ work.edgeAbsences[e] = 0
    /\ lapsed # {} => phase = "missing"
    /\ dropped # {} => phase = "removed"
    /\ phase = "idle" => work = db /\ seen = {}

\* Committed states are settled, and the open transaction is on its way there.
TableInv == TypeOK /\ Settled(db) /\ WorkAssets /\ WorkEdges /\ WorkSeen

\* The open transaction binds identities and rebinds none.
BindingInv ==
    /\ \A i \in SourceIDs : db.idAsset[i] # NoAsset => work.idAsset[i] = db.idAsset[i]
    /\ \A s \in StrongIDs : db.strong[s] # NoAsset => work.strong[s] = db.strong[s]

\* The absences the open transaction has counted are the committed snapshots
\* that lacked the source identity, this one included once it is counted.
EvidenceInv ==
    /\ \A i \in SourceIDs : missed[i] = db.idAbsences[i]
    /\ phase \in {"assets", "edges"} =>
           \A i \in SourceIDs \ seen : /\ work.idAbsences[i] = db.idAbsences[i]
                                       /\ work.idStatus[i] = db.idStatus[i]
    /\ phase \in {"missing", "removed"} =>
           \A i \in SourceIDs :
               /\ i \notin seen =>
                      work.idAbsences[i] = IF Absent(work, i) THEN CountAbsence(missed[i])
                                           ELSE missed[i]
               /\ ConnectorOf[i] = connector /\ work.idStatus[i] = "ACTIVE"
                      => work.idAbsences[i] < threshold
               /\ db.idStatus[i] = "ACTIVE" /\ work.idStatus[i] = "MISSING"
                      => work.idAbsences[i] >= threshold

\* The rows of infrastructure_changes against what the transaction has done
\* to an asset so far.
Reported(a) ==
    LET was == db.assetStatus[a]
        is  == work.assetStatus[a]
    IN  /\ <<a, "ASSET_DISCOVERED">> \in changes <=> was = "NONE" /\ is # "NONE"
        /\ <<a, "ASSET_MISSING">> \in changes <=> was # "MISSING" /\ is = "MISSING"
        /\ was # "CONFLICTING" /\ is = "CONFLICTING" => <<a, "SOURCE_CONFLICT">> \in changes
        /\ <<a, "ASSET_RETURNED">> \in changes => was = "MISSING" /\ is # "MISSING"

\* An asset none of whose source identities was seen is as it was committed,
\* until LapseAsset comes to it.
Untouched(a) ==
    /\ phase \in {"assets", "edges"} \/ a \in lapsed
    /\ \A i \in seen : work.idAsset[i] # a
    => work.assetStatus[a] = db.assetStatus[a]

ReportInv ==
    /\ \A a \in SourceIDs : Reported(a) /\ Untouched(a)
    /\ phase = "idle" => changes = {}

=============================================================================
