------------------------------ MODULE MCListRC ------------------------------
(* Instance of ListRC for TLC: four addresses, so that a removal can drop  *)
(* two newer nodes and leave an older one.                                 *)
EXTENDS ListRC, TLC
=============================================================================
