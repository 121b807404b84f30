SPECIFICATION DiscoverySpec
CONSTANTS
    system = system
    app = app
    node = node
    spare = spare
    pod = pod
    other = other
    service = service
    set = set
    Objects = {system, app, node, spare, pod, other, service, set}
    Kinds <- MCKinds
    KindOf <- MCKindOf
    NameOf <- MCNameOf
    NamespaceOf <- MCNamespaceOf
    OwnersOf <- MCOwnersOf
    LinksOf <- MCLinksOf
    SelectsOf <- MCSelectsOf
    System = system
    ClusterID = FALSE
    PageSize = 2
    MaxResources = 7
    Start = {system, app, node, pod, service}
    Changes = 3
    Cluster = Cluster
    NoName = NoName
    c1 = c1
    c2 = c2
    data = data
    logs = logs
    Containers = {c1, c2}
    Images = {i1, i2}
    Networks = {n1, n2}
    Mounts <- MCMounts
    Host = Host
    NoContainer = NoContainer
    MaxAssets = 7
    MaxRelationships = 20
CHECK_DEADLOCK FALSE
INVARIANTS
    SnapshotsMeetContract
    NothingIsLeftOut
    StableRelationships
    DockerMeetsContract
