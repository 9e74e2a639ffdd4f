------------------------------ MODULE MCLeader ------------------------------
(* Small instances of the leader lease: two replicas and a coarse clock. *)
EXTENDS Leader

CONSTANTS r1, r2
=============================================================================
