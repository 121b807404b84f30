------------------------------- MODULE Overlap -------------------------------
(***************************************************************************)
(* Snapshots of different connectors applied at the same time.             *)
(*                                                                         *)
(* collectorSnapshot serializes the snapshots of one connector by an       *)
(* advisory lock; those of two connectors overlap, in READ COMMITTED       *)
(* transactions that share assets, strong identities and relationships.    *)
(* Here ApplyPostgres is taken statement by statement where another        *)
(* transaction may come in between: a statement sees what is committed     *)
(* when it starts and what its own transaction wrote, and waits for a row  *)
(* another transaction wrote until that one ends.  The queries are those   *)
(* of Reconcile.                                                           *)
(***************************************************************************)
EXTENDS Naturals

CONSTANTS
    Connectors, SourceIDs, ConnectorOf, StrongIDs, HintsOf, Keys, Values, Authority, Fields,
    KeysOf, BlankFor, SourceEdges, From, To, TypeOf, Types, Thresholds, AbsenceCap, NoAsset, NoValue,
                \* as in Reconcile
    Starts,     \* committed tables to start from
    Limit,      \* the missing threshold
    Snapshots   \* how many snapshots each connector sends

VARIABLES
    db,         \* the committed tables
    mine,       \* of each connector's transaction: the rows it wrote
    held,       \* the shared rows it wrote, which it holds to its end
    at,         \* where in ApplyPostgres it is
    focus,      \* the observation or asset its current loop round is about
    seen, seenEdges, lapsed, dropped,  \* as in Reconcile
    left        \* snapshots the connector has yet to send

(* The status of asset a in tables t and the source identities bound to it *)
(* say the same.                                                           *)
Agreed(t, a) ==
    t.assetStatus[a] # "NONE" =>
        (t.assetStatus[a] = "MISSING" <=>
            \A i \in SourceIDs : t.idAsset[i] = a => t.idStatus[i] # "ACTIVE")

ASSUME OverlapAssumption ==
    /\ NoAsset \notin SourceIDs
    /\ \A t \in Starts : \A a \in SourceIDs : Agreed(t, a)

vars == <<db, mine, held, at, focus, seen, seenEdges, lapsed, dropped, left>>

AssetRow(a) == <<"asset", a>>

StrongRow(s) == <<"strong", s>>

EdgeRow(r) == <<"relationship", r>>

(* The tables as connector c's transaction sees them: its own identities,  *)
(* claims and edges, which no other transaction writes, the shared rows it *)
(* holds, and all else as committed.                                       *)
View(c) ==
    LET own(i) == ConnectorOf[i] = c
        asset(a) == IF AssetRow(a) \in held[c] THEN mine[c] ELSE db
        strong(s) == IF StrongRow(s) \in held[c] THEN mine[c] ELSE db
        edge(r) == IF EdgeRow(r) \in held[c] THEN mine[c] ELSE db
        identity(i) == IF own(i) THEN mine[c] ELSE db
        sedge(e) == IF own(From[e]) THEN mine[c] ELSE db
    IN
    [assetStatus  |-> [a \in SourceIDs |-> asset(a).assetStatus[a]],
     effective    |-> [a \in SourceIDs |-> asset(a).effective[a]],
     strong       |-> [s \in StrongIDs |-> strong(s).strong[s]],
     relStatus    |-> [r \in DOMAIN db.relStatus |-> edge(r).relStatus[r]],
     idAsset      |-> [i \in SourceIDs |-> identity(i).idAsset[i]],
     idStatus     |-> [i \in SourceIDs |-> identity(i).idStatus[i]],
     idAbsences   |-> [i \in SourceIDs |-> identity(i).idAbsences[i]],
     claims       |-> {x \in mine[c].claims : own(x.source)} \cup {x \in db.claims : ~own(x.source)},
     edgeRel      |-> [e \in SourceEdges |-> sedge(e).edgeRel[e]],
     edgeStatus   |-> [e \in SourceEdges |-> sedge(e).edgeStatus[e]],
     edgeAbsences |-> [e \in SourceEdges |-> sedge(e).edgeAbsences[e]]]

T(c) == INSTANCE Reconcile WITH
    work <- View(c), phase <- at[c], connector <- c, threshold <- Limit,
    seen <- seen[c], seenEdges <- seenEdges[c], lapsed <- lapsed[c], dropped <- dropped[c],
    changes <- {}, missed <- [i \in SourceIDs |-> 0]

NoFocus == [asset |-> NoAsset]

(* What mine is while there is no transaction: never looked at.            *)
NoTables == [assetStatus |-> NoValue]

Init ==
    /\ db \in Starts
    /\ mine = [c \in Connectors |-> NoTables]
    /\ held = [c \in Connectors |-> {}]
    /\ at = [c \in Connectors |-> "idle"]
    /\ focus = [c \in Connectors |-> NoFocus]
    /\ seen = [c \in Connectors |-> {}]
    /\ seenEdges = [c \in Connectors |-> {}]
    /\ lapsed = [c \in Connectors |-> {}]
    /\ dropped = [c \in Connectors |-> {}]
    /\ left = [c \in Connectors |-> Snapshots]

Free(c, row) == \A d \in Connectors \ {c} : row \notin held[d]

Hold(c, rows) == held' = [held EXCEPT ![c] = @ \cup rows]

Write(c, tables) == mine' = [mine EXCEPT ![c] = tables]

Go(c, place) == at' = [at EXCEPT ![c] = place]

Begin(c) ==
    /\ at[c] = "idle"
    /\ left[c] > 0
    /\ left' = [left EXCEPT ![c] = @ - 1]
    /\ Write(c, db)
    /\ Go(c, "assets")
    /\ UNCHANGED <<db, held, focus, seen, seenEdges, lapsed, dropped>>

(* The SELECTs that resolve an observation, which lock nothing.            *)
Lookup(c, i, ids, attrs) ==
    /\ at[c] = "assets"
    /\ ConnectorOf[i] = c
    /\ i \notin seen[c]
    /\ focus' = [focus EXCEPT ![c] =
          [asset |-> T(c)!ResolvedAsset(View(c), i, ids), id |-> i, ids |-> ids, attrs |-> attrs]]
    /\ Go(c, "touch")
    /\ UNCHANGED <<db, mine, held, seen, seenEdges, lapsed, dropped, left>>

(* INSERT INTO assets, or the UPDATE that makes the row wait for and then  *)
(* belong to this transaction, and the upsert of the source identity.      *)
Touch(c) ==
    LET a == focus[c].asset
        i == focus[c].id
        v == View(c)
    IN
    /\ at[c] = "touch"
    /\ Free(c, AssetRow(a))
    /\ Hold(c, {AssetRow(a)})
    /\ \E row \in IF v.assetStatus[a] = "NONE" THEN T(c)!CreatedColumns(focus[c].attrs)
                  ELSE {v.effective[a]} :
          Write(c, [v EXCEPT
              !.assetStatus = [v.assetStatus EXCEPT ![a] = "ACTIVE"],
              !.effective = [v.effective EXCEPT ![a] = row],
              !.idAsset = [v.idAsset EXCEPT ![i] = a],
              !.idStatus = [v.idStatus EXCEPT ![i] = "ACTIVE"],
              !.idAbsences = [v.idAbsences EXCEPT ![i] = 0]])
    /\ Go(c, "bind")
    /\ UNCHANGED <<db, focus, seen, seenEdges, lapsed, dropped, left>>

StrongFreeVariant(c) == TRUE

(* The upsert of a strong identity waits for the transaction that inserted *)
(* or touched the row.                                                     *)
StrongFree(c) == \A s \in focus[c].ids : Free(c, StrongRow(s))

(* The strong identities, of which none may turn out to be bound to        *)
(* another asset, the claims, and updateEffectiveAsset.                    *)
Bind(c) ==
    LET a == focus[c].asset
        v == View(c)
        cs == T(c)!ObservedClaims(v.claims, focus[c].id, a, focus[c].attrs)
    IN
    /\ at[c] = "bind"
    /\ StrongFree(c)
    /\ T(c)!StrongAgree(v, focus[c].ids, a)
    /\ Hold(c, {StrongRow(s) : s \in focus[c].ids})
    /\ \E new \in T(c)!EffectiveColumns(cs, a, v.effective[a]) :
          Write(c, [v EXCEPT
              !.strong = [s \in StrongIDs |-> IF s \in focus[c].ids THEN a ELSE v.strong[s]],
              !.claims = cs,
              !.effective = [v.effective EXCEPT ![a] = new],
              !.assetStatus = [v.assetStatus EXCEPT ![a] = T(c)!ClaimStatus(cs, a)]])
    /\ seen' = [seen EXCEPT ![c] = @ \cup {focus[c].id}]
    /\ focus' = [focus EXCEPT ![c] = NoFocus]
    /\ Go(c, "assets")
    /\ UNCHANGED <<db, seenEdges, lapsed, dropped, left>>

ObserveEdge(c, e) ==
    LET v == View(c)
        r == T(c)!RelationshipOf(v, e)
    IN
    /\ at[c] \in {"assets", "edges"}
    /\ {From[e], To[e]} \subseteq seen[c]
    /\ e \notin seenEdges[c]
    /\ Free(c, EdgeRow(r))
    /\ Hold(c, {EdgeRow(r)})
    /\ Write(c, [v EXCEPT
          !.relStatus = [v.relStatus EXCEPT ![r] = "ACTIVE"],
          !.edgeRel = [v.edgeRel EXCEPT ![e] = r],
          !.edgeStatus = [v.edgeStatus EXCEPT ![e] = "ACTIVE"],
          !.edgeAbsences = [v.edgeAbsences EXCEPT ![e] = 0]])
    /\ seenEdges' = [seenEdges EXCEPT ![c] = @ \cup {e}]
    /\ Go(c, "edges")
    /\ UNCHANGED <<db, focus, seen, lapsed, dropped, left>>

(* The first two statements of markMissing, on the connector's own rows.   *)
CountMissing(c) ==
    LET v == View(c)
        lost == T(c)!GivenUp(v)
    IN
    /\ at[c] \in {"assets", "edges"}
    /\ Write(c, [v EXCEPT
          !.idAbsences = T(c)!CountedAbsences(v),
          !.idStatus = [i \in SourceIDs |-> IF i \in lost THEN "MISSING" ELSE v.idStatus[i]]])
    /\ lapsed' = [lapsed EXCEPT ![c] = {v.idAsset[i] : i \in lost}]
    /\ Go(c, "missing")
    /\ UNCHANGED <<db, held, focus, seen, seenEdges, dropped, left>>

(* The connector's claims on a lapsed asset, and the SELECTs of            *)
(* updateEffectiveAsset: the row itself is not locked yet.                 *)
ReadLapsed(c, a) ==
    LET v == View(c)
        cs == v.claims \ T(c)!Unbacked(v, a)
    IN
    /\ at[c] = "missing"
    /\ a \in lapsed[c]
    /\ Write(c, [v EXCEPT !.claims = cs])
    /\ \E new \in T(c)!EffectiveColumns(cs, a, [f \in Fields |-> NoValue]) :
          focus' = [focus EXCEPT ![c] =
              [asset |-> a, status |-> T(c)!ClaimStatus(cs, a), columns |-> new, gone |-> T(c)!Gone(v, a)]]
    /\ Go(c, "lapse")
    /\ UNCHANGED <<db, held, seen, seenEdges, lapsed, dropped, left>>

FoundGoneVariant(c) == focus[c].gone

(* Asked once the row is held.                                             *)
FoundGone(c) == T(c)!Gone(View(c), focus[c].asset)

(* Its UPDATE, which waits for the row, and the one to MISSING.            *)
WriteLapsed(c) ==
    LET a == focus[c].asset
        v == View(c)
    IN
    /\ at[c] = "lapse"
    /\ Free(c, AssetRow(a))
    /\ Hold(c, {AssetRow(a)})
    /\ Write(c, [v EXCEPT
          !.assetStatus = [v.assetStatus EXCEPT
              ![a] = IF FoundGone(c) THEN "MISSING" ELSE focus[c].status],
          !.effective = [v.effective EXCEPT
              ![a] = [f \in Fields |-> IF focus[c].columns[f] = NoValue THEN v.effective[a][f]
                                       ELSE focus[c].columns[f]]]])
    /\ lapsed' = [lapsed EXCEPT ![c] = @ \ {a}]
    /\ focus' = [focus EXCEPT ![c] = NoFocus]
    /\ Go(c, "missing")
    /\ UNCHANGED <<db, seen, seenEdges, dropped, left>>

CountRemoved(c) ==
    LET v == View(c)
        lost == T(c)!GivenUpEdges(v)
    IN
    /\ at[c] = "missing"
    /\ lapsed[c] = {}
    /\ Write(c, [v EXCEPT
          !.edgeAbsences = T(c)!CountedEdgeAbsences(v),
          !.edgeStatus = [e \in SourceEdges |-> IF e \in lost THEN "REMOVED" ELSE v.edgeStatus[e]]])
    /\ dropped' = [dropped EXCEPT ![c] = {v.edgeRel[e] : e \in lost}]
    /\ Go(c, "removed")
    /\ UNCHANGED <<db, held, focus, seen, seenEdges, lapsed, left>>

Qualifies(c, r) == View(c).relStatus[r] = "ACTIVE" /\ T(c)!ActiveEdges(View(c), r) = {}

(* One UPDATE: which rows qualify is read when it starts; a row it has to  *)
(* wait for is looked at again, but the subquery is not asked again.       *)
ReadDropped(c, r) ==
    /\ at[c] = "removed"
    /\ r \in dropped[c]
    /\ IF Qualifies(c, r)
       THEN /\ focus' = [focus EXCEPT ![c] = [asset |-> r]]
            /\ Go(c, "drop")
            /\ UNCHANGED dropped
       ELSE /\ dropped' = [dropped EXCEPT ![c] = @ \ {r}]
            /\ UNCHANGED <<at, focus>>
    /\ UNCHANGED <<db, mine, held, seen, seenEdges, lapsed, left>>

WriteDropped(c) ==
    LET r == focus[c].asset
        v == View(c)
    IN
    /\ at[c] = "drop"
    /\ Free(c, EdgeRow(r))
    /\ IF v.relStatus[r] = "ACTIVE"
       THEN Hold(c, {EdgeRow(r)}) /\ Write(c, [v EXCEPT !.relStatus = [v.relStatus EXCEPT ![r] = "REMOVED"]])
       ELSE UNCHANGED <<held, mine>>
    /\ dropped' = [dropped EXCEPT ![c] = @ \ {r}]
    /\ focus' = [focus EXCEPT ![c] = NoFocus]
    /\ Go(c, "removed")
    /\ UNCHANGED <<db, seen, seenEdges, lapsed, left>>

EndVariant(c) ==
    /\ Go(c, "idle")
    /\ focus' = [focus EXCEPT ![c] = NoFocus]
    /\ seen' = [seen EXCEPT ![c] = {}]
    /\ seenEdges' = [seenEdges EXCEPT ![c] = {}]
    /\ lapsed' = [lapsed EXCEPT ![c] = {}]
    /\ dropped' = [dropped EXCEPT ![c] = {}]
    /\ UNCHANGED <<mine, held, left>>

End(c) ==
    /\ mine' = [mine EXCEPT ![c] = NoTables]
    /\ held' = [held EXCEPT ![c] = {}]
    /\ Go(c, "idle")
    /\ focus' = [focus EXCEPT ![c] = NoFocus]
    /\ seen' = [seen EXCEPT ![c] = {}]
    /\ seenEdges' = [seenEdges EXCEPT ![c] = {}]
    /\ lapsed' = [lapsed EXCEPT ![c] = {}]
    /\ dropped' = [dropped EXCEPT ![c] = {}]
    /\ UNCHANGED left

Commit(c) ==
    /\ at[c] = "removed"
    /\ dropped[c] = {}
    /\ db' = View(c)
    /\ End(c)

(* An error, a lost connection, or the end PostgreSQL puts to a deadlock.  *)
Abort(c) ==
    /\ at[c] # "idle"
    /\ UNCHANGED db
    /\ End(c)

Step(c) ==
    \/ Begin(c) \/ Touch(c) \/ Bind(c) \/ CountMissing(c) \/ WriteLapsed(c)
    \/ CountRemoved(c) \/ WriteDropped(c) \/ Commit(c)
    \/ \E i \in SourceIDs : \E ids \in SUBSET HintsOf[i], ks \in SUBSET Keys :
          \E attrs \in [ks -> Values] : Lookup(c, i, ids, attrs)
    \/ \E e \in SourceEdges : ObserveEdge(c, e)
    \/ \E a \in lapsed[c] : ReadLapsed(c, a)
    \/ \E r \in dropped[c] : ReadDropped(c, r)

Next == \E c \in Connectors : Step(c) \/ Abort(c)

Spec == Init /\ [][Next]_vars

(* The rows of other transactions that the next statement of c waits for.  *)
AwaitedRows(c) ==
    CASE at[c] \in {"touch", "lapse"} -> {AssetRow(focus[c].asset)}
      [] at[c] = "bind" -> {StrongRow(s) : s \in focus[c].ids}
      [] at[c] = "drop" -> {EdgeRow(focus[c].asset)}
      [] OTHER -> {}

Deadlocked == \A c \in Connectors : \E row \in AwaitedRows(c) : ~Free(c, row)

Rejected(c) ==
    at[c] = "bind" /\ StrongFree(c) /\ ~T(c)!StrongAgree(View(c), focus[c].ids, focus[c].asset)

(* Handlers run on; PostgreSQL ends a transaction of a deadlock, and the   *)
(* handler one whose strong identities disagree.                           *)
Fairness ==
    \A c \in Connectors :
        /\ WF_vars(Step(c))
        /\ WF_vars((Deadlocked \/ Rejected(c)) /\ Abort(c))

FairSpec == Spec /\ Fairness

-----------------------------------------------------------------------------

(* An asset is MISSING exactly when no connector has it any more, also     *)
(* when two connectors give it up, or one gives it up and another sees it, *)
(* in transactions that overlap: the row lock updateEffectiveAsset takes   *)
(* makes one of them look after the other has committed.                   *)
MissingIsAgreed == \A a \in SourceIDs : Agreed(db, a)

(* No commit moves a source identity or a strong identity from one asset   *)
(* to another, also when two connectors meet the same strong identity for  *)
(* the first time at once.                                                 *)
BindingsStay ==
    [][/\ \A i \in SourceIDs : db.idAsset[i] # NoAsset => db'.idAsset[i] = db.idAsset[i]
       /\ \A s \in StrongIDs : db.strong[s] # NoAsset => db'.strong[s] = db.strong[s]]_vars

(* A relationship is ACTIVE exactly while some source reports it.          *)
RelationshipsHaveSources ==
    \A r \in DOMAIN db.relStatus :
        db.relStatus[r] = "ACTIVE" <=>
            \E e \in SourceEdges : db.edgeRel[e] = r /\ db.edgeStatus[e] = "ACTIVE"

(* Transactions that wait for each other's rows come to an end, and leave  *)
(* nothing behind that others wait for: the order in which a snapshot      *)
(* lists its assets is the order in which their rows are taken, and two    *)
(* snapshots may list them in opposite orders.                             *)
TransactionsEnd == \A c \in Connectors : at[c] # "idle" ~> at[c] = "idle"

=============================================================================
