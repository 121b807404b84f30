-------------------------------- MODULE Docker --------------------------------
(***************************************************************************)
(* Discovery of the containers of a Docker host: one call lists them, and  *)
(* Discover derives the assets and relationships of a snapshot from the    *)
(* list.  Asset ids are kept apart by what they stand for, as the prefixes *)
(* network: and volume: do in the code.                                    *)
(***************************************************************************)
EXTENDS Contract

CONSTANTS
    Containers, Images, Networks,
    Mounts,     \* the lists of volumes a container may mount
    Host,       \* docker-host
    NoContainer

(* The prefix network: keeps the networks apart from the containers.       *)
ASSUME DockerAssumption ==
    /\ IsFiniteSet(Containers) /\ IsFiniteSet(Networks)
    /\ Containers \cap Networks = {} /\ NoContainer \notin Containers
    /\ \A mounts \in Mounts : IsSequence(mounts)

VARIABLES
    listing,    \* the containers that are listed, a sequence of records
    containers  \* what became of it: "running", "failed" or "ok"

docker == <<listing, containers>>

Records(c) ==
    [id : {c}, image : Images, networks : SUBSET Networks, mounts : Mounts,
     dependsOn : Containers \cup {NoContainer}]

DockerInit ==
    /\ \E ids \in SUBSET Containers :
        listing \in {s \in [1..Cardinality(ids) -> UNION {Records(c) : c \in ids}] :
                        {s[i].id : i \in DOMAIN s} = ids}
    /\ containers = "running"

(* The one call answers, or fails.                                         *)
ListContainers ==
    /\ containers = "running"
    /\ containers' \in {"ok", "failed"}
    /\ UNCHANGED listing

-----------------------------------------------------------------------------
Mentioned(v) == <<v.id, v.image>> \o InSomeOrder(v.networks) \o v.mounts

AddVariant(assets, id) == Append(assets, id)

(* add: an id that was seen is not added again.                            *)
Add(assets, id) == IF \E i \in DOMAIN assets : assets[i] = id THEN assets ELSE Append(assets, id)

AllMentioned == Appended([i \in DOMAIN listing |-> Mentioned(listing[i])])

DockerAssets ==
    LET added[k \in 0..Len(AllMentioned)] ==
            IF k = 0 THEN <<Host>> ELSE Add(added[k - 1], AllMentioned[k])
    IN added[Len(AllMentioned)]

(* byName has the listed containers; the label of another one names none.  *)
Target(v) == InSomeOrder({listing[i].id : i \in DOMAIN listing} \cap {v.dependsOn})

ContainerRelations(v) ==
    <<Relation(v.id, "RUNS_ON", Host), Relation(v.id, "USES_IMAGE", v.image)>>
        \o To(v.id, "CONNECTED_TO", InSomeOrder(v.networks))
        \o To(v.id, "USES_VOLUME", v.mounts)
        \o To(v.id, "CONNECTED_TO", Target(v))

DockerRelationships == Appended([i \in DOMAIN listing |-> ContainerRelations(listing[i])])

=============================================================================
