-------------------------------- MODULE MCAS --------------------------------
(* Instances of AS for TLC: one user, whose numbers the runs bound.  No    *)
(* symmetry, as they check liveness.                                       *)
EXTENDS AS, TLC
=============================================================================
