-------------------------------- MODULE MCPD --------------------------------
(* Instances of PD for TLC. *)
EXTENDS PD

CONSTANTS u1, u2   \* model values

(* Two users, each with one password. *)
MCUsers == {[uid |-> u, pass |-> "pass"] : u \in Uids}

(* One user with one password. *)
MCOneUser == {[uid |-> u1, pass |-> "pass"]}
=============================================================================
