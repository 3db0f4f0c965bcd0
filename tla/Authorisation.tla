--------------------------- MODULE Authorisation ---------------------------
(***************************************************************************)
(* What the authentication server promises the file server: a session asks *)
(* for an operation, its code is turned into one ticket, and the ticket is *)
(* good for one answer.  A new session has one ticket to get without       *)
(* asking, and that one may be good for any operation.  AS is shown to     *)
(* implement this; Access composes it with the file server.                *)
(***************************************************************************)
CONSTANTS
    Sessions,           \* connections of users
    Uids, Tids,
    Ops, OpX,           \* operations, and the one that removes the user
    FOP_E,              \* "E": not confirmed
    NoUid, NoTid,
    NoOp                \* no operation: none was written yet

(* coded: the session has a ticket to get, because an operation was        *)
(* accepted and its code was not used, or because it is new.               *)
Session == [uid : Uids \cup {NoUid}, op : Ops \cup {NoOp}, coded : BOOLEAN,
            tid : Tids \cup {NoTid}]

Blank == [uid |-> NoUid, op |-> NoOp, coded |-> TRUE, tid |-> NoTid]

(* What a ticket was found to be good for. *)
Verdict == [uid : Uids, tid : Tids, op : Ops \cup {NoOp, FOP_E}]

VARIABLES
    session,
    verdict     \* what the last step told the file server: at most one

vars == <<session, verdict>>

Init ==
    /\ session = [c \in Sessions |-> Blank]
    /\ verdict = {}

Login(c, u) ==
    /\ session' = [session EXCEPT ![c].uid = u]
    /\ verdict' = {}

(* The operation takes the place of an earlier one, whose ticket stays.    *)
Request(c, op) ==
    /\ session[c].uid # NoUid
    /\ session' = [session EXCEPT ![c].op = op, ![c].coded = TRUE]
    /\ verdict' = {}

Grant(c, tid) ==
    /\ session[c].uid # NoUid
    /\ session[c].coded
    /\ session' = [session EXCEPT ![c].coded = FALSE, ![c].tid = tid]
    /\ verdict' = {}

Confirmed(c, tid) == session[c].tid = tid

(* What was never written may be any operation, or none. *)
OpRead(c) == IF session[c].op = NoOp THEN Ops \cup {NoOp} ELSE {session[c].op}

Tell(c, tid, op) ==
    verdict' = {[uid |-> session[c].uid, tid |-> tid,
                 op |-> IF Confirmed(c, tid) THEN op ELSE FOP_E]}

(* Mutant: a ticket is good for any number of answers. *)
ValidateAgain(c, tid) ==
    /\ session[c].uid # NoUid
    /\ \E op \in OpRead(c) : Tell(c, tid, op)
    /\ UNCHANGED session

(* The file server asks about a ticket of the user of c.  Confirmed or     *)
(* not, the ticket of the session is gone, and with a removal its user.    *)
Validate(c, tid) ==
    /\ session[c].uid # NoUid
    /\ \E op \in OpRead(c) :
           /\ Tell(c, tid, op)
           /\ session' = [session EXCEPT
                             ![c].tid = NoTid,
                             ![c].uid = IF Confirmed(c, tid) /\ op = OpX
                                        THEN NoUid ELSE @]

(* Sessions that are closed, or dropped with an older one. *)
Forget(C) ==
    /\ session' = [c \in Sessions |-> IF c \in C THEN Blank ELSE session[c]]
    /\ verdict' = {}

Next ==
    \/ \E c \in Sessions :
           \/ \E u \in Uids : Login(c, u)
           \/ \E op \in Ops : Request(c, op)
           \/ \E tid \in Tids : Grant(c, tid) \/ Validate(c, tid)
    \/ \E C \in SUBSET Sessions : Forget(C)

Spec == Init /\ [][Next]_vars

-----------------------------------------------------------------------------
TypeOK ==
    /\ session \in [Sessions -> Session]
    /\ verdict \in SUBSET Verdict
=============================================================================
