---------------------------- MODULE MCEnrollment ----------------------------
(* An instance of Enrollment: hosts that share a token.                    *)
EXTENDS Enrollment, TLC

CONSTANTS h1, h2, t1, r1, r2

SharedToken == [h \in Hosts |-> t1]

=============================================================================
