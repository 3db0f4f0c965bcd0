-------------------------------- MODULE MCFS --------------------------------
(* Instances of FS for TLC. *)
EXTENDS FS, TLC

(* The operations that change files. *)
MCChanges == {o \in Operation : o.fop \notin {"L", "R"}}

(* All operations. *)
MCEachOp == Operation
=============================================================================
