------------------------------ MODULE Reconcile ------------------------------
(***************************************************************************)
(* Reconciliation of connector snapshots into canonical assets and         *)
(* relationships: ApplyPostgres and the functions it calls, in             *)
(* internal/reconcile/postgres.go.                                         *)
(*                                                                         *)
(* One organization.  The transaction that applies a snapshot is taken     *)
(* statement group by statement group on a working copy of the tables and  *)
(* then commits or rolls back; transactions run one after the other here.  *)
(*                                                                         *)
(* A source identity is a (connector, external ID) pair.  stableID names   *)
(* an asset after the pair it was first observed as, so assets and source  *)
(* identities range over the same set.                                     *)
(***************************************************************************)
EXTENDS Naturals

CONSTANTS
    Connectors,     \* the connectors of the organization
    SourceIDs,      \* (connector, external ID) pairs, and the assets they found
    ConnectorOf,    \* the connector of each pair
    StrongIDs,      \* (identity key, identity value) pairs: provider IDs, UIDs...
    HintsOf,        \* the strong identities observations of a pair may carry
    Keys,           \* attribute keys
    Values,         \* attribute values
    Authority,      \* rank the reconciliation policies give a connector's claims
    Fields,         \* columns of assets computed from claims: environment, name
    KeysOf,         \* the attribute keys each of those columns is computed from
    BlankFor,       \* the values each of those columns ignores: null, an empty name
    SourceEdges,    \* (connector, external from, external to, type) tuples
    From, To,       \* the endpoints of each such tuple, as source identities
    TypeOf,         \* its relationship type
    Types,          \* relationship types
    Thresholds,     \* values missing_success_threshold may have
    AbsenceCap,     \* absences are counted up to here, past every threshold
    NoAsset, NoValue

ASSUME SourceAssumption ==
    /\ ConnectorOf \in [SourceIDs -> Connectors]
    /\ HintsOf \in [SourceIDs -> SUBSET StrongIDs]
    /\ NoAsset \notin SourceIDs
    /\ NoValue \notin Values

ASSUME PolicyAssumption ==
    /\ Authority \in [Connectors -> [Keys -> Nat]]
    /\ KeysOf \in [Fields -> SUBSET Keys]
    /\ BlankFor \in [Fields -> SUBSET Values]
    /\ AbsenceCap \in Nat
    /\ Thresholds \subseteq 1..AbsenceCap

ASSUME EdgeAssumption ==
    /\ From \in [SourceEdges -> SourceIDs]
    /\ To \in [SourceEdges -> SourceIDs]
    /\ TypeOf \in [SourceEdges -> Types]
    /\ \A e \in SourceEdges : ConnectorOf[From[e]] = ConnectorOf[To[e]]

VARIABLES
    db,         \* the committed tables
    work,       \* the tables as the open transaction sees them
    phase,      \* where in ApplyPostgres the open transaction is
    connector,  \* the connector of its snapshot
    threshold,  \* the missing threshold it read
    seen,       \* source identities observed so far (asset_observations)
    seenEdges,  \* source edges observed so far (relationship_observations)
    lapsed,     \* assets markMissing still has to look at
    dropped,    \* relationships markMissing still has to look at
    changes,    \* infrastructure_changes rows inserted by the open transaction
    missed      \* history: commits of its connector in a row that lacked each
                \* source identity

vars == <<db, work, phase, connector, threshold, seen, seenEdges, lapsed,
          dropped, changes, missed>>

Relationships == SourceIDs \X SourceIDs \X Types

Claims == [asset : SourceIDs, source : SourceIDs, key : Keys, value : Values]

Change == SourceIDs \X {"ASSET_DISCOVERED", "ASSET_RETURNED", "ASSET_MISSING",
                        "SOURCE_CONFLICT", "RELATIONSHIP_ADDED"}

Tables ==
    [assetStatus  : [SourceIDs -> {"NONE", "ACTIVE", "CONFLICTING", "MISSING"}],
     effective    : [SourceIDs -> [Fields -> Values \cup {NoValue}]],
     idAsset      : [SourceIDs -> SourceIDs \cup {NoAsset}],
     idStatus     : [SourceIDs -> {"NONE", "ACTIVE", "MISSING"}],
     idAbsences   : [SourceIDs -> 0..AbsenceCap],
     strong       : [StrongIDs -> SourceIDs \cup {NoAsset}],
     claims       : SUBSET Claims,
     relStatus    : [Relationships -> {"NONE", "ACTIVE", "REMOVED"}],
     edgeRel      : [SourceEdges -> Relationships \cup {NoAsset}],
     edgeStatus   : [SourceEdges -> {"NONE", "ACTIVE", "REMOVED"}],
     edgeAbsences : [SourceEdges -> 0..AbsenceCap]]

TypeOK ==
    /\ db \in Tables
    /\ work \in Tables
    /\ phase \in {"idle", "assets", "edges", "missing", "removed"}
    /\ connector \in Connectors
    /\ threshold \in Thresholds
    /\ seen \subseteq SourceIDs
    /\ seenEdges \subseteq SourceEdges
    /\ lapsed \subseteq SourceIDs
    /\ dropped \subseteq Relationships
    /\ changes \subseteq Change
    /\ missed \in [SourceIDs -> 0..AbsenceCap]

EmptyTables ==
    [assetStatus  |-> [a \in SourceIDs |-> "NONE"],
     effective    |-> [a \in SourceIDs |-> [f \in Fields |-> NoValue]],
     idAsset      |-> [i \in SourceIDs |-> NoAsset],
     idStatus     |-> [i \in SourceIDs |-> "NONE"],
     idAbsences   |-> [i \in SourceIDs |-> 0],
     strong       |-> [s \in StrongIDs |-> NoAsset],
     claims       |-> {},
     relStatus    |-> [r \in Relationships |-> "NONE"],
     edgeRel      |-> [e \in SourceEdges |-> NoAsset],
     edgeStatus   |-> [e \in SourceEdges |-> "NONE"],
     edgeAbsences |-> [e \in SourceEdges |-> 0]]

Init ==
    /\ db = EmptyTables
    /\ work = EmptyTables
    /\ phase = "idle"
    /\ connector \in Connectors
    /\ threshold \in Thresholds
    /\ seen = {}
    /\ seenEdges = {}
    /\ lapsed = {}
    /\ dropped = {}
    /\ changes = {}
    /\ missed = [i \in SourceIDs |-> 0]

-----------------------------------------------------------------------------
(* Queries.  t is a state of the tables.                                   *)

\* The ACTIVE source identities of an asset, of every connector.
ActiveSources(t, a) ==
    {i \in SourceIDs : t.idAsset[i] = a /\ t.idStatus[i] = "ACTIVE"}

\* Two active claims give one attribute of the asset different values.
Conflict(cs, a) ==
    \E x, y \in cs : x.asset = a /\ y.asset = a /\ x.key = y.key /\ x.value # y.value

Rank(x) == Authority[ConnectorOf[x.source]][x.key]

\* The claims ORDER BY authority DESC can put first for a column.  Which of
\* them it is depends on observation times, which collectors choose freely.
TopClaims(cs, a, f) ==
    {x \in cs : /\ x.asset = a
                /\ x.key \in KeysOf[f]
                /\ \A y \in cs : y.asset = a /\ y.key \in KeysOf[f] => Rank(y) <= Rank(x)}

\* Variant: the arguments of coalesce swapped, a column keeps its first value.
StaleColumns(cs, a, old) ==
    {new \in [Fields -> Values \cup {NoValue}] :
        \A f \in Fields :
            IF TopClaims(cs, a, f) = {} \/ old[f] # NoValue
            THEN new[f] = old[f]
            ELSE \E x \in TopClaims(cs, a, f) :
                     new[f] = IF x.value \in BlankFor[f] THEN old[f] ELSE x.value}

\* The values updateEffectiveAsset may store in the columns of an asset:
\* coalesce keeps the old value of a column when no active claim is about it
\* or the first one is blank.
EffectiveColumns(cs, a, old) ==
    {new \in [Fields -> Values \cup {NoValue}] :
        \A f \in Fields :
            IF TopClaims(cs, a, f) = {}
            THEN new[f] = old[f]
            ELSE \E x \in TopClaims(cs, a, f) :
                     new[f] = IF x.value \in BlankFor[f] THEN old[f] ELSE x.value}

\* The columns of the row INSERT INTO assets writes for these attributes:
\* observationName and the environment, NoValue being null or the external ID.
CreatedColumns(attrs) ==
    {row \in [Fields -> Values \cup {NoValue}] :
        \A f \in Fields :
            LET named == {attrs[k] : k \in DOMAIN attrs \cap KeysOf[f]} \ BlankFor[f]
            IN  row[f] \in IF named = {} THEN {NoValue} ELSE named}

\* Variant: a status the assets table does not know.
MisnamedStatus(cs, a) == IF Conflict(cs, a) THEN "CONFLICT" ELSE "ACTIVE"

ClaimStatus(cs, a) == IF Conflict(cs, a) THEN "CONFLICTING" ELSE "ACTIVE"

CountAbsence(n) == IF n < AbsenceCap THEN n + 1 ELSE n

\* Variant: strong identities go before the binding of the source identity.
StrongFirst(t, i, ids) ==
    LET bound == {t.strong[s] : s \in ids} \ {NoAsset}
    IN  IF bound # {} THEN CHOOSE a \in bound : TRUE
        ELSE IF t.idAsset[i] # NoAsset THEN t.idAsset[i]
        ELSE i

\* The asset an observation of i with these strong identities belongs to: the
\* one i is bound to, else one a strong identity is bound to, else a new one.
ResolvedAsset(t, i, ids) ==
    LET bound == {t.strong[s] : s \in ids} \ {NoAsset}
    IN  IF t.idAsset[i] # NoAsset THEN t.idAsset[i]
        ELSE IF bound # {} THEN CHOOSE a \in bound : TRUE
        ELSE i

\* Variant: the upsert overwrites the asset of a strong identity.
StrongOverwritten(t, ids, a) == TRUE

\* No strong identity of the observation belongs to another asset.
StrongAgree(t, ids, a) == \A s \in ids : t.strong[s] \in {NoAsset, a}

\* The active claims of the connector that new claims on these keys replace.
Superseded(cs, a, ks) ==
    {x \in cs : x.asset = a /\ ConnectorOf[x.source] = connector /\ x.key \in ks}

\* The active claims after i was observed as asset a with these attributes.
ObservedClaims(cs, i, a, attrs) ==
    (cs \ Superseded(cs, a, DOMAIN attrs)) \cup
    {[asset |-> a, source |-> i, key |-> k, value |-> attrs[k]] : k \in DOMAIN attrs}

\* Variant: claims stay active when the connector loses the asset.
NeverUnbacked(t, a) == {}

\* The active claims of the connector on an asset it no longer observes.
Unbacked(t, a) ==
    {x \in t.claims :
        /\ x.asset = a
        /\ ConnectorOf[x.source] = connector
        /\ \A i \in ActiveSources(t, a) : ConnectorOf[i] # connector}

\* Variant: an asset is taken to be gone with the last source identity of the
\* connector.
GoneForConnector(t, a) == \A i \in ActiveSources(t, a) : ConnectorOf[i] # connector

\* No source identity of any connector is ACTIVE.
Gone(t, a) == ActiveSources(t, a) = {}

\* Rows of the connector that the snapshot does not contain.
Absent(t, i) ==
    /\ ConnectorOf[i] = connector
    /\ t.idStatus[i] # "NONE"
    /\ i \notin seen

EdgeAbsent(t, e) ==
    /\ ConnectorOf[From[e]] = connector
    /\ t.edgeStatus[e] # "NONE"
    /\ e \notin seenEdges

\* The absences once this snapshot is counted, and the ACTIVE rows of the
\* connector that reach the threshold by it.
CountedAbsences(t) ==
    [i \in SourceIDs |-> IF Absent(t, i) THEN CountAbsence(t.idAbsences[i]) ELSE t.idAbsences[i]]

\* Variants: one absence too many, rows given up again.
GivenUpLate(t) ==
    {i \in SourceIDs : /\ ConnectorOf[i] = connector
                       /\ t.idStatus[i] = "ACTIVE"
                       /\ CountedAbsences(t)[i] > threshold}

GivenUpAgain(t) ==
    {i \in SourceIDs : /\ ConnectorOf[i] = connector
                       /\ t.idStatus[i] # "NONE"
                       /\ CountedAbsences(t)[i] >= threshold}

GivenUp(t) ==
    {i \in SourceIDs : /\ ConnectorOf[i] = connector
                       /\ t.idStatus[i] = "ACTIVE"
                       /\ CountedAbsences(t)[i] >= threshold}

CountedEdgeAbsences(t) ==
    [e \in SourceEdges |-> IF EdgeAbsent(t, e) THEN CountAbsence(t.edgeAbsences[e])
                           ELSE t.edgeAbsences[e]]

\* Variant: only edges whose source is still ACTIVE.
GivenUpLiveEdges(t) ==
    {e \in SourceEdges : /\ ConnectorOf[From[e]] = connector
                         /\ t.edgeStatus[e] = "ACTIVE"
                         /\ t.idStatus[From[e]] = "ACTIVE"
                         /\ CountedEdgeAbsences(t)[e] >= threshold}

GivenUpEdges(t) ==
    {e \in SourceEdges : /\ ConnectorOf[From[e]] = connector
                         /\ t.edgeStatus[e] = "ACTIVE"
                         /\ CountedEdgeAbsences(t)[e] >= threshold}

RelationshipOf(t, e) == <<t.idAsset[From[e]], t.idAsset[To[e]], TypeOf[e]>>

ActiveEdges(t, r) ==
    {e \in SourceEdges : t.edgeRel[e] = r /\ t.edgeStatus[e] = "ACTIVE"}

\* insertChange: one row per snapshot, asset and type, a repeat is ignored.
Report(a, type, happened) == IF happened THEN {<<a, type>>} ELSE {}

-----------------------------------------------------------------------------
(* The transaction.                                                        *)

\* collectorSnapshot calls ApplyPostgres for a snapshot of connector c with
\* the threshold it read from the policies.
Begin(c, n) ==
    /\ phase = "idle"
    /\ phase' = "assets"
    /\ connector' = c
    /\ threshold' = n
    /\ UNCHANGED <<db, work, seen, seenEdges, lapsed, dropped, changes, missed>>

\* One round of the observation loop: resolve or create the asset, make it
\* and the source identity ACTIVE, bind the strong identities, replace the
\* connector's claims and recompute the asset.  A snapshot that fails one of
\* the checks can only be rolled back (Abort).
ObserveAsset(i, ids, attrs) ==
    LET a       == ResolvedAsset(work, i, ids)
        known   == work.idAsset[i] # NoAsset
        fresh   == ~known /\ \A s \in ids : work.strong[s] = NoAsset
        cs      == ObservedClaims(work.claims, i, a, attrs)
    IN  /\ phase = "assets"
        /\ ConnectorOf[i] = connector
        /\ i \notin seen
        /\ StrongAgree(work, ids, a)
        /\ fresh => work.assetStatus[a] = "NONE"
        /\ \E old \in IF fresh THEN CreatedColumns(attrs) ELSE {work.effective[a]} :
           \E new \in EffectiveColumns(cs, a, old) :
            work' = [work EXCEPT
                !.assetStatus = [work.assetStatus EXCEPT ![a] = ClaimStatus(cs, a)],
                !.effective = [work.effective EXCEPT ![a] = new],
                !.idAsset = [work.idAsset EXCEPT ![i] = a],
                !.idStatus = [work.idStatus EXCEPT ![i] = "ACTIVE"],
                !.idAbsences = [work.idAbsences EXCEPT ![i] = 0],
                !.strong = [s \in StrongIDs |-> IF s \in ids THEN a ELSE work.strong[s]],
                !.claims = cs]
        /\ changes' = changes \cup Report(a, "ASSET_DISCOVERED", fresh)
                \cup Report(a, "ASSET_RETURNED", known /\ work.assetStatus[a] = "MISSING")
                \cup Report(a, "SOURCE_CONFLICT", Conflict(cs, a))
        /\ seen' = seen \cup {i}
        /\ UNCHANGED <<db, phase, connector, threshold, seenEdges, lapsed, dropped, missed>>

\* One round of the relationship loop, which starts when the observation loop
\* is done: both endpoints are in the snapshot, and the relationship and the
\* connector's record of it become ACTIVE.
ObserveEdge(e) ==
    LET r == RelationshipOf(work, e)
    IN  /\ phase \in {"assets", "edges"}
        /\ phase' = "edges"
        /\ From[e] \in seen /\ To[e] \in seen
        /\ e \notin seenEdges
        /\ work' = [work EXCEPT
               !.relStatus = [work.relStatus EXCEPT ![r] = "ACTIVE"],
               !.edgeRel = [work.edgeRel EXCEPT ![e] = r],
               !.edgeStatus = [work.edgeStatus EXCEPT ![e] = "ACTIVE"],
               !.edgeAbsences = [work.edgeAbsences EXCEPT ![e] = 0]]
        /\ changes' = changes \cup Report(r[1], "RELATIONSHIP_ADDED", work.relStatus[r] = "NONE")
        /\ seenEdges' = seenEdges \cup {e}
        /\ UNCHANGED <<db, connector, threshold, seen, lapsed, dropped, missed>>

\* markMissing, first two statements: count the absence of every source
\* identity the snapshot lacks, and give up those that reach the threshold.
CountMissing ==
    /\ phase \in {"assets", "edges"}
    /\ phase' = "missing"
    /\ work' = [work EXCEPT
           !.idAbsences = CountedAbsences(work),
           !.idStatus = [i \in SourceIDs |->
                            IF i \in GivenUp(work) THEN "MISSING" ELSE work.idStatus[i]]]
    /\ lapsed' = {work.idAsset[i] : i \in GivenUp(work)}
    /\ UNCHANGED <<db, connector, threshold, seen, seenEdges, dropped, changes, missed>>

\* One round of its loop over the assets that lost a source identity: drop
\* the claims nobody backs, recompute the asset, and mark it MISSING when no
\* source identity of any connector is left.
LapseAsset(a) ==
    LET cs   == work.claims \ Unbacked(work, a)
        gone == Gone(work, a)
    IN  /\ phase = "missing"
        /\ a \in lapsed
        /\ \E new \in EffectiveColumns(cs, a, work.effective[a]) :
            work' = [work EXCEPT
                !.claims = cs,
                !.effective = [work.effective EXCEPT ![a] = new],
                !.assetStatus = [work.assetStatus EXCEPT
                                    ![a] = IF gone THEN "MISSING" ELSE ClaimStatus(cs, a)]]
        /\ changes' = changes \cup Report(a, "ASSET_MISSING", gone)
        /\ lapsed' = lapsed \ {a}
        /\ UNCHANGED <<db, phase, connector, threshold, seen, seenEdges, dropped, missed>>

\* The same for relationships: count absences and give up source edges.
CountRemoved ==
    /\ phase = "missing"
    /\ lapsed = {}
    /\ phase' = "removed"
    /\ work' = [work EXCEPT
           !.edgeAbsences = CountedEdgeAbsences(work),
           !.edgeStatus = [e \in SourceEdges |->
                              IF e \in GivenUpEdges(work) THEN "REMOVED" ELSE work.edgeStatus[e]]]
    /\ dropped' = {work.edgeRel[e] : e \in GivenUpEdges(work)}
    /\ UNCHANGED <<db, connector, threshold, seen, seenEdges, lapsed, changes, missed>>

\* Variant: the relationship goes with the first source edge it loses.
DropAtOnce(r) ==
    /\ phase = "removed"
    /\ r \in dropped
    /\ work' = [work EXCEPT !.relStatus[r] = IF @ = "ACTIVE" THEN "REMOVED" ELSE @]
    /\ dropped' = dropped \ {r}
    /\ UNCHANGED <<db, phase, connector, threshold, seen, seenEdges, lapsed, changes, missed>>

\* One round of the loop over the relationships that lost a source edge.
DropRelationship(r) ==
    /\ phase = "removed"
    /\ r \in dropped
    /\ work' = [work EXCEPT !.relStatus[r] =
                    IF @ = "ACTIVE" /\ ActiveEdges(work, r) = {} THEN "REMOVED" ELSE @]
    /\ dropped' = dropped \ {r}
    /\ UNCHANGED <<db, phase, connector, threshold, seen, seenEdges, lapsed, changes, missed>>

Finish ==
    /\ phase' = "idle"
    /\ seen' = {}
    /\ seenEdges' = {}
    /\ lapsed' = {}
    /\ dropped' = {}
    /\ changes' = {}
    /\ UNCHANGED <<connector, threshold>>

Commit ==
    /\ phase = "removed"
    /\ dropped = {}
    /\ db' = work
    /\ missed' = [i \in SourceIDs |->
           IF i \in seen THEN 0
           ELSE IF Absent(work, i) THEN CountAbsence(missed[i]) ELSE missed[i]]
    /\ UNCHANGED work
    /\ Finish

\* The deferred Rollback: the snapshot was rejected, a statement failed, the
\* request was cancelled or the process died before the commit.
Abort ==
    /\ phase # "idle"
    /\ work' = db
    /\ UNCHANGED <<db, missed>>
    /\ Finish

Attributes == UNION {[ks -> Values] : ks \in SUBSET Keys}

Next ==
    \/ \E c \in Connectors, n \in Thresholds : Begin(c, n)
    \/ \E i \in SourceIDs : \E ids \in SUBSET HintsOf[i], attrs \in Attributes :
           ObserveAsset(i, ids, attrs)
    \/ \E e \in SourceEdges : ObserveEdge(e)
    \/ CountMissing
    \/ \E a \in lapsed : LapseAsset(a)
    \/ CountRemoved
    \/ \E r \in dropped : DropRelationship(r)
    \/ Commit
    \/ Abort

Spec == Init /\ [][Next]_vars

-----------------------------------------------------------------------------
(* What the committed tables promise.  Each part is a predicate on a state *)
(* t of the tables; the invariants state it of db.                         *)

\* A stored asset is MISSING exactly when no connector has an ACTIVE source
\* identity for it, and CONFLICTING exactly when its active claims disagree.
StatusMatches(t, a) ==
    t.assetStatus[a] # "NONE" =>
        t.assetStatus[a] = IF ActiveSources(t, a) = {} THEN "MISSING"
                           ELSE ClaimStatus(t.claims, a)

\* An active claim is backed by an ACTIVE source identity of its connector.
ClaimBacked(t, x) ==
    \E i \in ActiveSources(t, x.asset) : ConnectorOf[i] = ConnectorOf[x.source]

\* A connector has one active claim for an attribute of an asset, though
\* several of its source identities may stand for that asset.
OneClaim(t) ==
    \A x, y \in t.claims :
        /\ x.asset = y.asset
        /\ x.key = y.key
        /\ ConnectorOf[x.source] = ConnectorOf[y.source]
        => x = y

\* An asset is stored exactly when the source identity it was created for is
\* bound to it, and every reference to an asset names a stored one.
Founded(t) ==
    /\ \A a \in SourceIDs : t.assetStatus[a] # "NONE" <=> t.idAsset[a] = a
    /\ \A i \in SourceIDs : t.idAsset[i] # NoAsset => t.assetStatus[t.idAsset[i]] # "NONE"
    /\ \A s \in StrongIDs : t.strong[s] # NoAsset => t.assetStatus[t.strong[s]] # "NONE"

\* A column holds the value of a claim no other active claim outranks.
ColumnSupported(t, a, f) ==
    TopClaims(t.claims, a, f) # {} =>
        \E x \in TopClaims(t.claims, a, f) :
            t.effective[a][f] = x.value \/ x.value \in BlankFor[f]

\* The endpoints of an ACTIVE source edge are ACTIVE source identities, and
\* the edge belongs to the relationship between their assets.
EdgeAnchored(t, e) ==
    t.edgeStatus[e] = "ACTIVE" =>
        /\ t.idStatus[From[e]] = "ACTIVE"
        /\ t.idStatus[To[e]] = "ACTIVE"
        /\ t.edgeRel[e] = RelationshipOf(t, e)

\* A relationship is ACTIVE exactly while some connector reports it.
RelationshipMatches(t, r) ==
    t.relStatus[r] = "ACTIVE" <=> ActiveEdges(t, r) # {}

-----------------------------------------------------------------------------
(* Invariants.                                                             *)

\* The status column agrees with source identities and claims after every
\* commit (ApplyPostgres, markMissing and updateEffectiveAsset all write it).
StatusOfAssets == \A a \in SourceIDs : StatusMatches(db, a)

\* markMissing withdraws a connector's claims with its last source identity,
\* and the observation loop replaces claims instead of adding to them.
ClaimsOfSources == OneClaim(db) /\ \A x \in db.claims : ClaimBacked(db, x)

\* The environment and name columns are never left behind by the claims.
ColumnsOfAssets == \A a \in SourceIDs, f \in Fields : ColumnSupported(db, a, f)

\* An asset is created for one source identity, which stays bound to it, and
\* every reference to an asset names a stored one.  The INSERT INTO assets
\* of a later snapshot can therefore never collide.
AssetsHaveFounders == Founded(db)

\* Assets and relationships age by separate counters, yet no relationship of
\* the graph is ACTIVE without a reporting connector or next to an asset that
\* is MISSING.
GraphIsAnchored ==
    /\ \A e \in SourceEdges : EdgeAnchored(db, e)
    /\ \A r \in Relationships :
           /\ RelationshipMatches(db, r)
           /\ db.relStatus[r] = "ACTIVE" =>
                  /\ db.assetStatus[r[1]] \in {"ACTIVE", "CONFLICTING"}
                  /\ db.assetStatus[r[2]] \in {"ACTIVE", "CONFLICTING"}

-----------------------------------------------------------------------------
(* Action properties.                                                      *)

\* Source and strong identities are bound to an asset once and for all: no
\* snapshot moves evidence from one asset to another.
BindingsAreFinal ==
    [][/\ \A i \in SourceIDs : db.idAsset[i] # NoAsset => db'.idAsset[i] = db.idAsset[i]
       /\ \A s \in StrongIDs : db.strong[s] # NoAsset => db'.strong[s] = db.strong[s]]_vars

\* A commit reports ASSET_DISCOVERED and ASSET_MISSING for exactly the assets
\* that appear and go missing in it, every conflict that begins in it, and
\* ASSET_RETURNED only for assets that come back in it.
ChangesAreReported ==
    [][db' # db =>
        \A a \in SourceIDs :
            LET was == db.assetStatus[a]
                is  == db'.assetStatus[a]
            IN  /\ <<a, "ASSET_DISCOVERED">> \in changes <=> was = "NONE" /\ is # "NONE"
                /\ <<a, "ASSET_MISSING">> \in changes <=> was # "MISSING" /\ is = "MISSING"
                /\ was # "CONFLICTING" /\ is = "CONFLICTING" => <<a, "SOURCE_CONFLICT">> \in changes
                /\ <<a, "ASSET_RETURNED">> \in changes => was = "MISSING" /\ is # "MISSING"]_vars

\* What docs/change-detection.md promises of returns: every asset that comes
\* back is reported.
ReturnsAreReported ==
    [][\A a \in SourceIDs :
        db.assetStatus[a] = "MISSING" /\ db'.assetStatus[a] # "MISSING"
            => <<a, "ASSET_RETURNED">> \in changes]_vars

\* A source identity is given up by the commit in which its connector has
\* succeeded without it as many times in a row as the policy asks, neither
\* earlier nor later.  Rolled back snapshots are no evidence.
MissingAtThreshold ==
    [][\A i \in SourceIDs :
        phase # "idle" /\ phase' = "idle" /\ db' # db /\ ConnectorOf[i] = connector =>
            /\ db'.idStatus[i] = "ACTIVE" => missed'[i] < threshold
            /\ db.idStatus[i] = "ACTIVE" /\ db'.idStatus[i] = "MISSING" => missed'[i] >= threshold]_vars

-----------------------------------------------------------------------------
(* Liveness.  The hypothesis is the connector's: it keeps succeeding.      *)

\* What a connector stops reporting, while its snapshots keep committing, is
\* given up in the end and stays so, however many snapshots fail meanwhile;
\* no fairness is needed beyond the commits themselves.
AbsenceIsNoticed ==
    /\ \A i \in SourceIDs :
           <>[][i \notin seen']_vars /\ []<><<Commit /\ connector = ConnectorOf[i]>>_vars
               => <>[](db.idStatus[i] # "ACTIVE")
    /\ \A e \in SourceEdges :
           <>[][e \notin seenEdges']_vars /\ []<><<Commit /\ connector = ConnectorOf[From[e]]>>_vars
               => <>[](db.edgeStatus[e] # "ACTIVE")

=============================================================================
