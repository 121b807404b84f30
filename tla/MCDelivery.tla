----------------------------- MODULE MCDelivery -----------------------------
(***************************************************************************)
(* Instances of Delivery for TLC: collector c1 and two requests in flight, *)
(* so that a retry may overlap the first try.                              *)
(***************************************************************************)
EXTENDS DeliveryInduction, TLC

CONSTANTS c1, r1, r2

FastClock == [c \in Collectors |-> 1]
OneOrg == [c \in Collectors |-> c1]

RequestSymmetry == Permutations(Requests)

=============================================================================
