--------------------------- MODULE MCRegistration ---------------------------
(* Instances of Registration for TLC. *)
EXTENDS Registration

CONSTANTS u1, p1    \* model values

(* One user, who always types the right password. *)
MCOneUser == {[uid |-> u1, pass |-> p1]}

(* The two commands of the device. *)
MCTyped == [cmd : {"reg"}, user : Users] \cup [cmd : {"exit"}]
=============================================================================
