---------------------------- MODULE MCPublicLive ----------------------------
EXTENDS PublicLive

CONSTANTS r1, s1, q1, k1, a, b

(* The one row is absent at the start. *)
MCInitial == {[k \in {} |-> a]}

=============================================================================
