------------------------------ MODULE Kubernetes ------------------------------
(***************************************************************************)
(* Discovery of a Kubernetes cluster: list asks for one kind of resource   *)
(* after the other, page by page, while the cluster changes; Discover then *)
(* derives assets and relationships from what was listed.  The API serves  *)
(* the pages of one list from one moment, in pages no longer than asked    *)
(* for, or answers with an error.                                          *)
(***************************************************************************)
EXTENDS Contract

CONSTANTS
    Objects,        \* resources; an object is named by its UID
    Kinds,          \* the kinds in the order in which they are listed
    KindOf, NameOf,
    NamespaceOf,    \* the name of an object's namespace, or NoName
    OwnersOf,       \* the sequence of an object's ownerReferences
    LinksOf,        \* what its spec names: a sequence of [type, kind, name]
    SelectsOf,      \* the pods a service's selector matches
    System,         \* the name kube-system
    ClusterID,      \* whether the cluster's identity is configured
    PageSize, MaxResources,
    Start,          \* the objects there are when discovery begins
    Changes,        \* bound on the changes of the cluster
    Cluster, NoName

OfKind(set, kind) == {o \in set : KindOf[o] = kind}
Names(o) == <<KindOf[o], NamespaceOf[o], NameOf[o]>>

LinkTypes ==
    {<<"RUNS_ON", "Node">>, <<"USES_SERVICE", "Service">>, <<"ROUTES_TO", "Service">>,
     <<"BOUND_TO", "PersistentVolume">>}

(* Objects of three kinds belong to no namespace; list fails on one        *)
(* without a name.  A specification names one node, service and volume,    *)
(* and ingressServices gives no name twice.                                *)
ASSUME KubernetesAssumption ==
    /\ PageSize \in Nat \ {0} /\ MaxResources \in Nat /\ Changes \in Nat
    /\ ClusterID \in BOOLEAN /\ IsFiniteSet(Objects) /\ Cluster \notin Objects
    /\ IsSequence(Kinds) /\ Distinct(Kinds)
    /\ \A o \in Objects :
        /\ \E i \in DOMAIN Kinds : KindOf[o] = Kinds[i]
        /\ NamespaceOf[o] = NoName <=> KindOf[o] \in {"Namespace", "Node", "PersistentVolume"}
        /\ NameOf[o] # NoName
        /\ IsSequence(OwnersOf[o]) /\ IsSequence(LinksOf[o])
        /\ \A i \in DOMAIN LinksOf[o] : <<LinksOf[o][i].type, LinksOf[o][i].kind>> \in LinkTypes
        /\ \A i, j \in DOMAIN LinksOf[o] :
            LinksOf[o][i].type = LinksOf[o][j].type /\ LinksOf[o][i].name = LinksOf[o][j].name => i = j
        /\ \A p \in SelectsOf[o] : KindOf[p] = "Pod"
    /\ Start \subseteq Objects /\ \A p, q \in Start : Names(p) = Names(q) => p = q

VARIABLES
    exists,       \* the objects there are
    changes,      \* how often the cluster has changed
    throughout,   \* the objects there have been all along
    place,        \* the kind being listed
    page,         \* pages of it that were asked for
    rest,         \* what the list has yet to deliver
    listed,       \* list's result so far
    items,        \* Discover's items so far
    outcome       \* "running", "failed" or "ok"

cluster == <<exists, changes, throughout>>
vars == <<cluster, place, page, rest, listed, items, outcome>>

Init ==
    /\ exists = Start /\ throughout = Start
    /\ changes = 0
    /\ place = 1 /\ page = 0
    /\ rest = {}
    /\ listed = <<>> /\ items = <<>>
    /\ outcome = "running"

(* Names are unique among the objects there are.                           *)
Change(o) ==
    /\ outcome = "running" /\ changes < Changes
    /\ changes' = changes + 1
    /\ exists' = IF o \in exists THEN exists \ {o} ELSE exists \cup {o}
    /\ \A p, q \in exists' : Names(p) = Names(q) => p = q
    /\ throughout' = throughout \ {o}
    /\ UNCHANGED <<place, page, rest, listed, items, outcome>>

-----------------------------------------------------------------------------
Fail ==
    /\ outcome = "running"
    /\ outcome' = "failed"
    /\ UNCHANGED <<cluster, place, page, rest, listed, items>>

TooManyPages == page > MaxResources \div PageSize + 1

Listing == outcome = "running" /\ place <= Len(Kinds)

(* What is still to come: all of the kind's objects at the first page.     *)
Remaining == IF Listing /\ page = 0 THEN OfKind(exists, Kinds[place]) ELSE rest

(* A page with a continue token, possibly empty; at a limit list fails,    *)
(* which Fail covers.                                                      *)
NextPage(got) ==
    /\ Listing /\ ~TooManyPages
    /\ got # Remaining
    /\ Cardinality(got) <= PageSize
    /\ page' = page + 1
    /\ rest' = Remaining \ got
    /\ listed' = listed \o InSomeOrder(got)
    /\ Len(listed') <= MaxResources
    /\ UNCHANGED <<cluster, place, items, outcome>>

LastPageVariant ==
    /\ Listing
    /\ TooManyPages \/ Cardinality(Remaining) <= PageSize
    /\ items' = items \o listed \o (IF TooManyPages THEN <<>> ELSE InSomeOrder(Remaining))
    /\ Len(items') <= MaxResources
    /\ place' = place + 1 /\ page' = 0 /\ rest' = {} /\ listed' = <<>>
    /\ UNCHANGED <<cluster, outcome>>

(* The last page of a kind, and on to the next kind.                       *)
LastPage ==
    /\ Listing /\ ~TooManyPages
    /\ Cardinality(Remaining) <= PageSize
    /\ items' = items \o listed \o InSomeOrder(Remaining)
    /\ Len(items') <= MaxResources
    /\ place' = place + 1 /\ page' = 0 /\ rest' = {} /\ listed' = <<>>
    /\ UNCHANGED <<cluster, outcome>>

-----------------------------------------------------------------------------
(* What Discover makes of the items.                                       *)

Reported == {items[i] : i \in DOMAIN items}

Assets == <<Cluster>> \o items

(* The maps byName, byNode and byNamespace: the object listed under a      *)
(* name, as a sequence of one or none.                                     *)
Find(kind, namespace, name) ==
    InSomeOrder({o \in Reported : Names(o) = <<kind, namespace, name>>})

ParentVariant(o) ==
    IF NamespaceOf[o] = NoName THEN <<Cluster>>
    ELSE InSomeOrder({p \in Objects : Names(p) = <<"Namespace", NoName, NamespaceOf[o]>>})

Parent(o) ==
    LET found == Find("Namespace", NoName, NamespaceOf[o])
    IN IF NamespaceOf[o] = NoName \/ found = <<>> THEN <<Cluster>> ELSE found

LinkedVariant(o, link) == Find(link.kind, NamespaceOf[o], link.name)

Linked(o, link) ==
    Find(link.kind, IF link.kind \in {"Node", "PersistentVolume"} THEN NoName ELSE NamespaceOf[o], link.name)

(* The map assetIDs, likewise.                                             *)
Listed(o) == InSomeOrder({o} \cap Reported)

RelationsOf(o) ==
    <<Relation(Parent(o)[1], "CONTAINS", o)>>
        \o Appended([i \in DOMAIN OwnersOf[o] |-> To(o, "MANAGED_BY", Listed(OwnersOf[o][i]))])
        \o Appended([i \in DOMAIN LinksOf[o] |-> To(o, LinksOf[o][i].type, Linked(o, LinksOf[o][i]))])
        \o To(o, "ROUTES_TO", InSomeOrder(SelectsOf[o] \cap Reported))

Relationships == Appended([i \in DOMAIN items |-> RelationsOf(items[i])])

Identified == ClusterID \/ Find("Namespace", NoName, System) # <<>>

Derive ==
    /\ outcome = "running" /\ place > Len(Kinds)
    /\ outcome' = IF Identified THEN "ok" ELSE "failed"
    /\ UNCHANGED <<cluster, place, page, rest, listed, items>>

Next ==
    \/ \E o \in Objects : Change(o)
    \/ \E got \in SUBSET Remaining : NextPage(got)
    \/ LastPage \/ Derive \/ Fail

Spec == Init /\ [][Next]_vars

-----------------------------------------------------------------------------
(* No two ownerReferences of an object name the same listed object.        *)
OwnersDiffer(o) ==
    \A i, j \in DOMAIN OwnersOf[o] :
        OwnersOf[o][i] = OwnersOf[o][j] /\ OwnersOf[o][i] \in Reported => i = j

(* What a discovery that succeeds returns meets the contract of the        *)
(* gateway, though kinds were listed at different moments, exactly when it *)
(* is within its limits and no object has one owner twice: a snapshot that *)
(* does not is refused each time it is sent, and those behind it wait.     *)
SnapshotsMeetContract ==
    outcome = "ok" =>
        (ValidSnapshotContract(Assets, Relationships)
            <=> Fits(Assets, Relationships) /\ \A o \in Reported : OwnersDiffer(o))

(* A discovery that succeeds has reported every object there was all the   *)
(* time, and nothing twice: an object left out would be taken for gone.    *)
NothingIsLeftOut ==
    outcome = "ok" => throughout \subseteq Reported /\ Distinct(items)

(* It has also reported what such objects are to each other, so no such    *)
(* relationship comes and goes with the changes of other objects.          *)
StableRelationships ==
    outcome = "ok" =>
        LET found == {Relationships[i] : i \in DOMAIN Relationships}
        IN \A o, p \in throughout :
            /\ KindOf[p] = "Namespace" /\ NameOf[p] = NamespaceOf[o]
                 => Relation(p, "CONTAINS", o) \in found
            /\ \A i \in DOMAIN OwnersOf[o] :
                OwnersOf[o][i] = p => Relation(o, "MANAGED_BY", p) \in found
            /\ p \in SelectsOf[o] => Relation(o, "ROUTES_TO", p) \in found
            /\ \A i \in DOMAIN LinksOf[o] :
                /\ LinksOf[o][i].kind = KindOf[p] /\ LinksOf[o][i].name = NameOf[p]
                /\ NamespaceOf[p] \in {NoName, NamespaceOf[o]}
                => Relation(o, LinksOf[o][i].type, p) \in found

=============================================================================
