------------------------------ MODULE Discovery ------------------------------
(***************************************************************************)
(* discover in the collector: the connector's type decides which discovery *)
(* is run, and what it returns becomes the snapshot.                       *)
(***************************************************************************)
EXTENDS Kubernetes, Docker

VARIABLE connectorType

kubernetes == vars
everything == <<kubernetes, connectorType, docker>>

DiscoveryInit ==
    /\ connectorType \in {"DOCKER", "KUBERNETES", "OTHER"}
    /\ Init
    /\ IF connectorType = "DOCKER" THEN DockerInit ELSE listing = <<>> /\ containers = "running"

(* There is no discovery for a type the collector does not know.           *)
Unsupported == connectorType = "OTHER" /\ Fail /\ UNCHANGED docker

DiscoveryNext ==
    /\ UNCHANGED connectorType
    /\ \/ connectorType = "KUBERNETES" /\ Next /\ UNCHANGED docker
       \/ connectorType = "DOCKER" /\ ListContainers /\ UNCHANGED kubernetes
       \/ Unsupported

DiscoverySpec == DiscoveryInit /\ [][DiscoveryNext]_everything

-----------------------------------------------------------------------------
(* Whatever containers are listed, those that share an image, a network or *)
(* a volume, or depend on one that is not listed, included, what Discover  *)
(* makes of them meets the contract of the gateway exactly when it is      *)
(* within its limits and none has one volume at two mount points, which    *)
(* gives a relationship twice.                                             *)
DockerMeetsContract ==
    containers = "ok" =>
        (ValidSnapshotContract(DockerAssets, DockerRelationships)
            <=> /\ Fits(DockerAssets, DockerRelationships)
                /\ \A i \in DOMAIN listing : Distinct(listing[i].mounts))

=============================================================================
