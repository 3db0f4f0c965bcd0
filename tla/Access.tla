------------------------------- MODULE Access -------------------------------
(***************************************************************************)
(* The file server, what the authentication server promises it             *)
(* (Authorisation, which AS implements), and the datagrams between them.   *)
(* A datagram may be lost, or arrive late and after others.  A ticket is   *)
(* good for one operation only if the network does not repeat one.         *)
(***************************************************************************)
EXTENDS FS

CONSTANTS
    Sessions,       \* connections of users with the AS
    OpX,            \* the operation that removes the user
    MaxGrants,      \* bound: requests, and tickets, of a user
    MaxFlight       \* bound: datagrams under way in one direction

ASSUME AccessAssumption ==
    /\ OpX \in Ops /\ {MaxGrants, MaxFlight} \subseteq Nat
    /\ IsFiniteSet(Sessions)
    /\ "AS" \notin Conns       \* to whom a question goes is no connection

VARIABLES
    session, verdict,   \* see Authorisation
    questions,          \* on the way to the AS
    answers,            \* on the way to the FS
    requested,          \* history: the operations the AS was asked for,
    unasked,            \* the tickets it gave to sessions that had not asked,
    granted,            \* how many tickets it gave
    executed            \* and how many operations the FS began

accessVars == <<vars, session, verdict, questions, answers, requested, unasked,
                granted, executed>>

Server == INSTANCE Authorisation

network == <<questions, answers>>
history == <<requested, unasked, granted, executed>>

(* present: the process that asked is there to be answered. *)
Question == [uid : Uids, tid : Tids, present : BOOLEAN]

AccessTypeOK ==
    /\ TypeOK
    /\ Server!TypeOK
    /\ questions \in Seq(Question)
    /\ answers \in Seq(Answer)
    /\ requested \in SUBSET Ops
    /\ unasked \in SUBSET Tids
    /\ granted \in Nat /\ executed \in Nat

AccessInit ==
    /\ Init
    /\ Server!Init
    /\ questions = <<>> /\ answers = <<>>
    /\ requested = {} /\ unasked = {} /\ granted = 0 /\ executed = 0

Without(s, k) == SubSeq(s, 1, k - 1) \o SubSeq(s, k + 1, Len(s))

-----------------------------------------------------------------------------
(* The file server and its users. *)

(* What a step says to the AS. *)
Asked == {m \in sent' : m.to = "AS"}

(* At most one datagram is sent; one too many is lost. *)
Carried(flight, S) ==
    IF S = {} \/ Len(flight) = MaxFlight THEN flight
    ELSE Append(flight, CHOOSE m \in S : TRUE)

(* Mutant: a new process has the socket of an earlier one. *)
PostedToAnyone ==
    /\ questions' = Carried(questions,
           {[uid |-> m.uid, tid |-> m.tid, present |-> TRUE] : m \in Asked})
    /\ UNCHANGED answers

(* Its socket is bound to a new port when it starts again: what is under   *)
(* way to an earlier process finds nobody.                                 *)
Posted ==
    IF pc' = "down"
    THEN /\ questions' = [k \in DOMAIN questions |->
                             [questions[k] EXCEPT !.present = FALSE]]
         /\ answers' = <<>>
    ELSE /\ questions' = Carried(questions,
                {[uid |-> m.uid, tid |-> m.tid, present |-> TRUE] : m \in Asked})
         /\ UNCHANGED answers

Executes ==
    /\ Execute \/ StopInOperation
    /\ executed' = executed + 1

DoesNotExecute ==
    /\ \/ Select \/ SelectFails
       \/ handleUserConnection
       \/ Refuse \/ RefuseFails \/ FatalAnswer
       \/ \E i \in DOMAIN requests : handleUserRequest(i)
       \/ \E e \in Elapsed : checkUserRequestTimeouts(e)
       \/ Stop \/ Start
    /\ UNCHANGED executed

(* What comes during an iteration is not in its snapshot, and is found by  *)
(* the next.                                                               *)
Between == pc # "serving"

(* Users who stay.  A message that ends the server does what Stop does,    *)
(* and an upload in pieces ends like one that is whole, or not at all.     *)
UserMoves ==
    /\ Between
    /\ \E c \in Conns :
           \/ UserConnects(c)
           \/ \E m \in UserMsg :
                  m.type = "REQ" /\ m.whole /\ UserSends(c, m)
    /\ UNCHANGED executed

FSMoves ==
    /\ Executes \/ DoesNotExecute \/ UserMoves
    /\ Posted
    /\ Server!Forget({})
    /\ UNCHANGED <<requested, unasked, granted>>

-----------------------------------------------------------------------------
(* The AS and its users. *)
(* The bound on the operations asked for. *)
MayRequest(op) == Cardinality(requested \cup {op}) <= MaxGrants

ASLogin(c, u) ==
    /\ Server!Login(c, u)
    /\ UNCHANGED <<vars, network, history>>

ASRequest(c, op) ==
    /\ MayRequest(op)
    /\ Server!Request(c, op)
    /\ requested' = requested \cup {op}
    /\ UNCHANGED <<vars, network, unasked, granted, executed>>

ASGrant(c, tid) ==
    /\ granted < MaxGrants
    /\ Server!Grant(c, tid)
    /\ granted' = granted + 1
    /\ unasked' = IF session[c].op = NoOp THEN unasked \cup {tid} ELSE unasked
    /\ UNCHANGED <<vars, network, requested, executed>>

ASForget(C) ==
    /\ Server!Forget(C)
    /\ UNCHANGED <<vars, network, history>>

(* No request has what is no operation: it confirms none, like E. *)
Read(op) == IF op = NoOp THEN FOP_E ELSE op

AnswerTo(q) ==
    IF ~q.present THEN {}
    ELSE IF verdict' = {} THEN {[type |-> "ERR"]}
    ELSE {[type |-> "CNF", uid |-> v.uid, tid |-> v.tid, op |-> Read(v.op)] :
             v \in verdict'}

(* req_authOP: a session of the user answers, or nobody is logged in.      *)
ASAnswers(k) ==
    LET q == questions[k]
        loggedIn == {c \in Sessions : session[c].uid = q.uid}
    IN  /\ \/ \E c \in loggedIn : Server!Validate(c, q.tid)
           \/ loggedIn = {} /\ Server!Forget({})
        /\ questions' = Without(questions, k)
        /\ answers' = Carried(answers, AnswerTo(q))
        /\ UNCHANGED <<vars, history>>

QuestionLost(k) ==
    /\ questions' = Without(questions, k)
    /\ Server!Forget({})
    /\ UNCHANGED <<vars, answers, history>>

AnswerReaches(k) ==
    /\ Arrives(answers[k])
    /\ answers' = Without(answers, k)
    /\ Server!Forget({})
    /\ UNCHANGED <<questions, history>>

AnswerLost(k) ==
    /\ answers' = Without(answers, k)
    /\ Server!Forget({})
    /\ UNCHANGED <<vars, questions, history>>

ASMoves ==
    \/ \E c \in Sessions :
           \/ \E u \in Uids : ASLogin(c, u)
           \/ \E op \in Ops : ASRequest(c, op)
           \/ \E tid \in Tids : ASGrant(c, tid)
    \/ \E C \in SUBSET Sessions : ASForget(C)
    \/ \E k \in DOMAIN questions : ASAnswers(k)

Network ==
    \/ \E k \in DOMAIN questions : QuestionLost(k)
    \/ \E k \in DOMAIN answers : AnswerReaches(k) \/ AnswerLost(k)

AccessNext == FSMoves \/ (Between /\ (ASMoves \/ Network))

AccessSpec == AccessInit /\ [][AccessNext]_accessVars

-----------------------------------------------------------------------------
(* The file server never begins more operations than the AS gave tickets,  *)
(* whatever requests carry the same ticket, whichever datagrams are lost,  *)
(* late or overtaken, and over restarts of the file server.  A repeated    *)
(* confirmation is not among that: the network of this module makes none.  *)
OneOperationPerTicket == executed <= granted

(* What the file server begins is what a session asked the AS for, and not *)
(* what the request with the ticket asks of the file server: unless the    *)
(* ticket was given to a new session that had asked for nothing.           *)
ExecutesWhatWasRequested ==
    [][executed' # executed =>
           LET r == requests[First(Matching)]
           IN  r.op \in requested \/ r.tid \in unasked]_accessVars

(* The AS answers nothing but what FS supposes of it: an answer that       *)
(* reaches the file server is to a question this process asked.  (As the   *)
(* steps that leave the server alone are many, they are tested for first.) *)
FSBehaves == [][UNCHANGED vars \/ Next]_vars
=============================================================================
