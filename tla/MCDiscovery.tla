------------------------------ MODULE MCDiscovery ------------------------------
(* A host with two containers, and a cluster with a workload that is being *)
(* replaced: pod and other run under one controller, spare takes over the  *)
(* name of node.                                                           *)
EXTENDS Discovery

CONSTANTS system, app, node, spare, pod, other, service, set, c1, c2, data, logs

Namespaces == {system, app}
Nodes == {node, spare}
Pods == {pod, other}

MCKindOf == [o \in Objects |->
    CASE o \in Namespaces -> "Namespace" [] o \in Nodes -> "Node" [] o \in Pods -> "Pod"
      [] o = service -> "Service" [] o = set -> "ReplicaSet"]
MCNameOf == [o \in Objects |-> IF o = spare THEN node ELSE o]
MCNamespaceOf == [o \in Objects |-> IF o \in Namespaces \cup Nodes THEN NoName ELSE app]
MCOwnersOf == [o \in Objects |-> IF o = pod THEN <<set>> ELSE IF o = other THEN <<set, set>> ELSE <<>>]
MCLinksOf == [o \in Objects |->
    IF o \in Pods THEN <<[type |-> "RUNS_ON", kind |-> "Node", name |-> node]>>
    ELSE IF o = set THEN <<[type |-> "USES_SERVICE", kind |-> "Service", name |-> service]>>
    ELSE <<>>]
MCSelectsOf == [o \in Objects |-> IF o = service THEN Pods ELSE {}]
MCKinds == <<"Namespace", "Node", "Pod", "Service", "ReplicaSet">>

MCMounts == {<<>>, <<data>>, <<data, logs>>, <<data, data>>}

=============================================================================
