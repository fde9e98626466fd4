------------------------ MODULE MCResourceLifecycle ------------------------
(* Small instances of ResourceLifecycle.                                   *)
EXTENDS ResourceLifecycle

CONSTANTS u1, u2, n1, n2, q1, q2
============================================================================
