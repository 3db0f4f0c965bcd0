------------------------------ MODULE MCAccess ------------------------------
(* An instance of Access for TLC. *)
EXTENDS Access, TLC

MCRemove == [fop |-> "X", name |-> NoName]

(* The operations that bring nothing. *)
MCOps ==
    {MCRemove, [fop |-> "L", name |-> NoName]} \cup [fop : {"R"}, name : Names]

MCSymmetry == Permutations(Conns)
=============================================================================
