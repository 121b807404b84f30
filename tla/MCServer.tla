------------------------------ MODULE MCServer ------------------------------
(* A replica of a release and one of the release before it.                *)
EXTENDS Server

CONSTANTS new, old

MCKnown == [r \in Runners |-> IF r = old THEN 1 ELSE 2]

=============================================================================
