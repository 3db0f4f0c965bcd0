------------------------------- MODULE MCUser -------------------------------
(* Instances of User for TLC. *)
EXTENDS User

CONSTANTS n1, n2   \* model values

(* A list, an upload, a removal, and retrievals of two files.              *)
MCOps == {[fop |-> "L", name |-> NoName], [fop |-> "X", name |-> NoName],
          [fop |-> "U", name |-> n1], [fop |-> "R", name |-> n1],
          [fop |-> "R", name |-> n2]}
=============================================================================
