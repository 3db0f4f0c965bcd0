--------------------------------- MODULE AS ---------------------------------
(***************************************************************************)
(* The authentication server (src/project/src/as): one process, one        *)
(* select() loop (as.c), the handlers it calls (as_aux.c), the USERS       *)
(* directory it keeps on disk, and the kernel queues it reads from.        *)
(*                                                                         *)
(* An iteration of the loop is a Select step, which takes a snapshot of    *)
(* the ready descriptors, then one step per handler in the order of        *)
(* waitMainEvent: the UDP socket, the listening socket, the ready sessions *)
(* from the newest to the oldest, and LoopHead.  Datagrams, segments,      *)
(* connections, closings, signals and a kill may come between any two of   *)
(* these steps.  The personal devices, the users and the file server are   *)
(* represented by what they may send: anything their programs can produce, *)
(* at any time, which includes lost, late, repeated and reordered          *)
(* datagrams.                                                              *)
(***************************************************************************)
EXTENDS Integers, Sequences, FiniteSets

CONSTANTS
    Uids, Passes,       \* user ids and passwords in the right format
    Conns,              \* descriptors of accepted connections
    Ops,                \* a file operation with its file name (fop, fname)
    NamelessOps,        \* those of Ops that carry no file name (L and X)
    OpX,                \* the operation that removes the user
    Rids, Vcs, Tids,    \* the random numbers of requests, codes and tickets
    Clear,              \* -1, what TID_CLEAR, RID_CLEAR and VC_CLEAR store:
                        \* no four digits
    Fresh,              \* 0, what a new session starts with: no code or
                        \* ticket the server draws
    NoUid, NoPass, NoOp,
    NREQUEST_TRIES,
    MaxPending,         \* bound: arrivals the kernel holds for the server
    MaxInbox,           \* bound: messages queued on a connection
    MaxQueue,           \* bound: messages that wait for a device
    MaxReq              \* bound: accepted requests of a session

ASSUME ConstantsAssumption ==
    /\ NoUid \notin Uids /\ NoPass \notin Passes /\ NoOp \notin Ops
    /\ OpX \in NamelessOps /\ NamelessOps \subseteq Ops
    /\ Clear \notin Rids \cup Vcs \cup Tids \cup {Fresh}
    /\ Fresh \notin Vcs \cup Tids     \* RAND_NUM_MIN, isTIDValid
    /\ NREQUEST_TRIES \in Nat
    /\ {MaxPending, MaxInbox, MaxQueue, MaxReq} \subseteq Nat
    /\ MaxInbox <= 3    \* that many requests fit in one read of 127 bytes

-----------------------------------------------------------------------------
(* Messages received.  BAD is a message whose fields have a wrong format,  *)
(* such as the request of a User program that has no uid yet.  0000 is an  *)
(* rid and a vc in the right format, and no tid.                           *)
UdpMsg ==
    [type : {"REG"}, uid : Uids, pass : Passes]
        \cup [type : {"UNR"}, uid : Uids]
        \cup [type : {"RVC"}, uid : Uids, status : {"OK", "NOK"}]
        \cup [type : {"VLD"}, uid : Uids, tid : Tids]
        \cup [type : {"BAD", "ERR"}]

TcpMsg ==
    [type : {"LOG"}, uid : Uids, pass : Passes]
        \cup [type : {"REQ"}, uid : Uids, rid : Rids \cup {Fresh}, op : Ops]
        \cup [type : {"AUT"}, uid : Uids, rid : Rids \cup {Fresh},
              vc : Vcs \cup {Fresh}]
        \cup [type : {"BAD"}]

(* Messages sent, to the sender of the datagram in hand, to the device of  *)
(* a user or on a connection.  "E" is FOP_E, "0" is AUTH_ERROR, NoOp what  *)
(* is no operation and was read as one.                                    *)
SentMsg ==
    [to : {"sender"}, type : {"RRG", "RUN"}, status : {"OK", "NOK"}]
        \cup [to : {"sender"}, type : {"CNF"}, uid : Uids, tid : Tids,
              op : Ops \cup {NoOp, "E"}]
        \cup [to : Uids, type : {"VLC"}]
        \cup [to : Conns, type : {"RLO", "RRQ"},
              status : {"OK", "NOK", "ELOG", "EUSER", "EPD"}]
        \cup [to : Conns, type : {"RAU"}, tid : Tids \cup {"0"}]
        \cup [to : Conns \cup {"sender"}, type : {"ERR"}]

VARIABLES
    reg,        \* uids with a _reg.txt file
    pass,       \* content of the _pass.txt file of each uid
    exitCode,   \* exitCode, or "DOWN" when there is no process
    userList,   \* the sessions, newest first
    pdList,     \* the messages waiting for a device, newest first
    fds,        \* the connections in the fd_set of waitMainEvent
    ready,      \* the snapshot select returned
    serving,    \* between the return of select and the end of the iteration
    udpIn,      \* datagrams the kernel holds for the AS
    backlog,    \* connections established and not accepted
    inbox,      \* messages the kernel holds for each connection
    peer,       \* the client's end of each connection
    sent,       \* what the last step sent
    ledger      \* history: what each session was given

vars == <<reg, pass, exitCode, userList, pdList, fds, ready, serving,
          udpIn, backlog, inbox, peer, sent, ledger>>

(* userNode_t, with fop and fname as one operation: NoOp until they are    *)
(* first written.                                                          *)
Node == [conn : Conns, uid : Uids \cup {NoUid}, vc : Vcs \cup {Fresh, Clear},
         rid : Rids \cup {Fresh, Clear}, tid : Tids \cup {Fresh, Clear},
         op : Ops \cup {NoOp}]

(* pdNode_t; the text of the message is that of its VLC. *)
Waiting == [uid : Uids, nAttempts : 0 .. NREQUEST_TRIES]

(* The requests accepted, tickets granted and tickets confirmed in a       *)
(* session.                                                                *)
Account == [req : Nat, tid : Nat, cnf : Nat]

NewAccount == [req |-> 0, tid |-> 0, cnf |-> 0]

NothingReady == [udp |-> FALSE, listen |-> FALSE, conns |-> {}]

TypeOK ==
    /\ reg \in SUBSET Uids
    /\ pass \in [Uids -> Passes \cup {NoPass}]
    /\ exitCode \in {"RUNTIME", "EXIT_SUCCESS", "EXIT_FAILURE", "DOWN"}
    /\ userList \in Seq(Node)
    /\ pdList \in Seq(Waiting)
    /\ fds \in SUBSET Conns
    /\ ready \in [udp : BOOLEAN, listen : BOOLEAN, conns : SUBSET Conns]
    /\ serving \in BOOLEAN
    /\ udpIn \in Seq(UdpMsg)
    /\ backlog \in Seq(Conns)
    /\ inbox \in [Conns -> Seq(TcpMsg)]
    /\ peer \in [Conns -> {"free", "open", "closed"}]
    /\ sent \in SUBSET SentMsg
    /\ ledger \in [Conns -> Account]

-----------------------------------------------------------------------------
(* Lists.  A removal drops the newer elements too: list.c, as ListRC shows *)
(* it to implement TailList.                                               *)
First(S) == CHOOSE i \in S : \A j \in S : i <= j
Last(S)  == CHOOSE i \in S : \A j \in S : j <= i

(* The list after an iteration that removed the elements at indices S.     *)
DropThroughAll(s, S) == IF S = {} THEN s ELSE SubSeq(s, Last(S) + 1, Len(s))

QueuedFor(u) == {i \in DOMAIN pdList : pdList[i].uid = u}

(* Mutant: only the newest message of the user is removed. *)
CleanNewestFromUID(u) ==
    IF QueuedFor(u) = {} THEN pdList
    ELSE DropThroughAll(pdList, {First(QueuedFor(u))})

cleanQueueFromUID(u) == DropThroughAll(pdList, QueuedFor(u))

(* Takes out the newest message for u. *)
removeQueueOP(u) ==
    IF QueuedFor(u) = {} THEN pdList
    ELSE DropThroughAll(pdList, {First(QueuedFor(u))})

addMsgToQueue(u) == <<[uid |-> u, nAttempts |-> 0]>> \o pdList

SessionsOf(u) == {i \in DOMAIN userList : userList[i].uid = u}

inUserList(u) == SessionsOf(u) # {}

(* The newest session of u, for _getUserNode and for resp_fileOP. *)
getUserNode(u) == First(SessionsOf(u))

-----------------------------------------------------------------------------
Init ==
    /\ reg = {}
    /\ pass = [u \in Uids |-> NoPass]
    /\ exitCode = "RUNTIME"
    /\ userList = <<>> /\ pdList = <<>> /\ fds = {}
    /\ ready = NothingReady /\ serving = FALSE
    /\ udpIn = <<>> /\ backlog = <<>>
    /\ inbox = [c \in Conns |-> <<>>]
    /\ peer = [c \in Conns |-> "free"]
    /\ sent = {}
    /\ ledger = [c \in Conns |-> NewAccount]

(* The process ends: its memory, its sockets and what they held are gone.  *)
ProcessEnds ==
    /\ exitCode' = "DOWN"
    /\ userList' = <<>> /\ pdList' = <<>> /\ fds' = {}
    /\ ready' = NothingReady /\ serving' = FALSE
    /\ udpIn' = <<>> /\ backlog' = <<>>
    /\ inbox' = [c \in Conns |-> <<>>]
    /\ peer' = [c \in Conns |-> "free"]
    /\ sent' = {}
    /\ ledger' = [c \in Conns |-> NewAccount]

(* Mutant: the loop does not end on a fatal error. *)
ExitOnSuccessOnly ==
    /\ ~serving
    /\ exitCode = "EXIT_SUCCESS"
    /\ ProcessEnds
    /\ reg' = {}
    /\ UNCHANGED pass

exitAS ==
    /\ ~serving
    /\ exitCode \in {"EXIT_SUCCESS", "EXIT_FAILURE"}
    /\ ProcessEnds
    /\ reg' = {}               \* cleanLogs
    /\ UNCHANGED pass

Start ==
    /\ exitCode = "DOWN"
    /\ exitCode' = "RUNTIME"
    /\ UNCHANGED <<reg, pass, userList, pdList, fds, ready, serving,
                   udpIn, backlog, inbox, peer, sent, ledger>>

(* terminateAS: SIGINT or SIGTERM.  The loop ends at its next test.        *)
Signal ==
    /\ exitCode # "DOWN"
    /\ exitCode' = "EXIT_SUCCESS"
    /\ sent' = {}
    /\ UNCHANGED <<reg, pass, userList, pdList, fds, ready, serving,
                   udpIn, backlog, inbox, peer, ledger>>

-----------------------------------------------------------------------------
(* The loop: waitMainEvent. *)
Readable(c) == inbox[c] # <<>> \/ peer[c] = "closed"

ReadyNow ==
    [udp |-> udpIn # <<>>, listen |-> backlog # <<>>,
     conns |-> {c \in fds : Readable(c)}]

Select ==
    /\ ~serving
    /\ exitCode = "RUNTIME"
    /\ ReadyNow # NothingReady
    /\ ready' = ReadyNow
    /\ serving' = TRUE
    /\ sent' = {}
    /\ UNCHANGED <<reg, pass, exitCode, userList, pdList, fds,
                   udpIn, backlog, inbox, peer, ledger>>

Retries(e) == e.nAttempts < NREQUEST_TRIES

Exhausted == {i \in DOMAIN pdList : ~Retries(pdList[i])}

(* Mutant: the attempt is not counted. *)
ResentUncounted(e) == e

(* resendMessagePD, which counts the attempt only if there is a device.    *)
Resent(e) ==
    IF Retries(e) /\ e.uid \in reg
    THEN [e EXCEPT !.nAttempts = @ + 1] ELSE e

(* Nothing was readable for TIMEOUT seconds. *)
Timeout ==
    /\ ~serving
    /\ exitCode = "RUNTIME"
    /\ ReadyNow = NothingReady
    /\ pdList' = DropThroughAll([i \in DOMAIN pdList |-> Resent(pdList[i])],
                                Exhausted)
    /\ sent' = [to : {pdList[i].uid : i \in DOMAIN pdList \ Exhausted} \cap reg,
                type : {"VLC"}]
    /\ UNCHANGED <<reg, pass, exitCode, userList, fds, ready, serving,
                   udpIn, backlog, inbox, peer, ledger>>

(* The node whose turn it is: the newest one left in the snapshot.  The    *)
(* connections that are no longer listed have no turn.                     *)
ReadyNodes == {i \in DOMAIN userList : userList[i].conn \in ready.conns}

TcpTurn == serving /\ ~ready.udp /\ ~ready.listen

LoopHead ==
    /\ TcpTurn
    /\ ReadyNodes = {}
    /\ serving' = FALSE
    /\ ready' = NothingReady
    /\ sent' = {}
    /\ UNCHANGED <<reg, pass, exitCode, userList, pdList, fds,
                   udpIn, backlog, inbox, peer, ledger>>

-----------------------------------------------------------------------------
(* handleUDP and the handlers it calls. *)
Datagram == Head(udpIn)

ReceiveUdp(types) ==
    /\ serving
    /\ ready.udp
    /\ udpIn # <<>>
    /\ Datagram.type \in types
    /\ udpIn' = Tail(udpIn)
    /\ ready' = [ready EXCEPT !.udp = FALSE]
    /\ UNCHANGED <<fds, serving, backlog, inbox, peer>>

AnswerSender(type, status) ==
    sent' = {[to |-> "sender", type |-> type, status |-> status]}

(* Mutant: the stored password is not compared. *)
RegistrableByAnyone(u, p) == u \notin reg

Registrable(u, p) == u \notin reg /\ pass[u] \in {NoPass, p}

(* Mutant: the registration is answered and not stored. *)
RegisterWithoutFile ==
    /\ ReceiveUdp({"REG"})
    /\ IF Registrable(Datagram.uid, Datagram.pass)
       THEN /\ pass' = [pass EXCEPT ![Datagram.uid] = Datagram.pass]
            /\ AnswerSender("RRG", "OK")
       ELSE /\ AnswerSender("RRG", "NOK")
            /\ UNCHANGED pass
    /\ UNCHANGED <<reg, exitCode, userList, pdList, ledger>>

req_registerPD ==
    /\ ReceiveUdp({"REG"})
    /\ IF Registrable(Datagram.uid, Datagram.pass)
       THEN /\ pass' = [pass EXCEPT ![Datagram.uid] = Datagram.pass]
            /\ reg' = reg \cup {Datagram.uid}
            /\ AnswerSender("RRG", "OK")
       ELSE /\ AnswerSender("RRG", "NOK")
            /\ UNCHANGED <<reg, pass>>
    /\ UNCHANGED <<exitCode, userList, pdList, ledger>>

req_unregisterPD ==
    /\ ReceiveUdp({"UNR"})
    /\ IF Datagram.uid \in reg
       THEN /\ reg' = reg \ {Datagram.uid}
            /\ pdList' = cleanQueueFromUID(Datagram.uid)
            /\ AnswerSender("RUN", "OK")
       ELSE /\ AnswerSender("RUN", "NOK")
            /\ UNCHANGED <<reg, pdList>>
    /\ UNCHANGED <<pass, exitCode, userList, ledger>>

(* resp_validationCode, and resp_fileOP for a user who is logged in. *)
resp_validationCode ==
    /\ ReceiveUdp({"RVC"})
    /\ IF inUserList(Datagram.uid)
       THEN /\ pdList' = removeQueueOP(Datagram.uid)
            /\ sent' = {[to |-> userList[getUserNode(Datagram.uid)].conn,
                         type |-> "RRQ", status |-> Datagram.status]}
       ELSE /\ sent' = {[to |-> "sender", type |-> "ERR"]}
            /\ UNCHANGED pdList
    /\ UNCHANGED <<reg, pass, exitCode, userList, ledger>>

Store(i, n) == userList' = [userList EXCEPT ![i] = n]

Enter(c, account) == ledger' = [ledger EXCEPT ![c] = account]

(* req_authOP answers for a session: confirmed or not, its ticket is gone. *)
Confirmed(n, tid) == n.tid = tid

Cnf(n, tid, op) ==
    sent' = {[to |-> "sender", type |-> "CNF", uid |-> n.uid, tid |-> tid,
              op |-> op]}

(* fop and fname come from malloc: before a request has written them they  *)
(* may be any operation, or none.                                          *)
OpRead(n) == IF n.op = NoOp THEN Ops \cup {NoOp} ELSE {n.op}

AnswerVLD(i, tid, op) ==
    LET n == userList[i]
        removed == Confirmed(n, tid) /\ op = OpX
    IN  /\ Cnf(n, tid, IF Confirmed(n, tid) THEN op ELSE "E")
        /\ Store(i, [n EXCEPT !.tid = Clear,
                              !.uid = IF removed THEN NoUid ELSE @])
        /\ IF removed          \* _removeUID
           THEN /\ pdList' = cleanQueueFromUID(n.uid)
                /\ reg' = reg \ {n.uid}
                /\ pass' = [pass EXCEPT ![n.uid] = NoPass]
           ELSE UNCHANGED <<pdList, reg, pass>>
        /\ IF Confirmed(n, tid)
           THEN Enter(n.conn, [ledger[n.conn] EXCEPT !.cnf = @ + 1])
           ELSE UNCHANGED ledger

req_authOP ==
    /\ ReceiveUdp({"VLD"})
    /\ IF inUserList(Datagram.uid)
       THEN LET i == getUserNode(Datagram.uid)
            IN  \E op \in OpRead(userList[i]) :
                    AnswerVLD(i, Datagram.tid, op)
       ELSE /\ sent' = {[to |-> "sender", type |-> "ERR"]}
            /\ UNCHANGED <<reg, pass, userList, pdList, ledger>>
    /\ UNCHANGED exitCode

(* A malformed datagram is answered with ERR, an ERR with nothing; both    *)
(* stop the server, at the end of the iteration.                           *)
FatalDatagram ==
    /\ ReceiveUdp({"BAD", "ERR"})
    /\ exitCode' = "EXIT_FAILURE"
    /\ sent' = IF Datagram.type = "BAD"
               THEN {[to |-> "sender", type |-> "ERR"]} ELSE {}
    /\ UNCHANGED <<reg, pass, userList, pdList, ledger>>

-----------------------------------------------------------------------------
(* handleTCP and the handlers it calls, for the session at index i. *)
Accept ==
    /\ serving
    /\ ~ready.udp
    /\ ready.listen
    /\ backlog # <<>>
    /\ userList' = <<[conn |-> Head(backlog), uid |-> NoUid, vc |-> Fresh,
                      rid |-> Fresh, tid |-> Fresh, op |-> NoOp]>> \o userList
    /\ fds' = fds \cup {Head(backlog)}
    /\ backlog' = Tail(backlog)
    /\ ready' = [ready EXCEPT !.listen = FALSE]
    /\ sent' = {}
    /\ UNCHANGED <<reg, pass, exitCode, pdList, serving, udpIn, inbox, peer,
                   ledger>>

HasTurn(i) == TcpTurn /\ ReadyNodes # {} /\ i = First(ReadyNodes)

AccountOf(i) == ledger[userList[i].conn]

(* One read takes all the messages that have arrived; only the first one   *)
(* is looked at.                                                           *)
Segment(i) == Head(inbox[userList[i].conn])

Glued(i) == Len(inbox[userList[i].conn]) > 1

ReceiveTcp(i, type) ==
    /\ HasTurn(i)
    /\ inbox[userList[i].conn] # <<>>
    /\ Segment(i).type = type
    /\ inbox' = [inbox EXCEPT ![userList[i].conn] = <<>>]
    /\ ready' = [ready EXCEPT !.conns = @ \ {userList[i].conn}]
    /\ UNCHANGED <<fds, serving, udpIn, backlog, peer>>

Answer(i, type, status) ==
    sent' = {[to |-> userList[i].conn, type |-> type, status |-> status]}

req_loginUser(i) ==
    /\ ReceiveTcp(i, "LOG")
    /\ IF pass[Segment(i).uid] = Segment(i).pass
       THEN /\ Store(i, [userList[i] EXCEPT !.uid = Segment(i).uid])
            /\ Answer(i, "RLO", "OK")
       ELSE /\ Answer(i, "RLO", "NOK")
            /\ UNCHANGED userList
    /\ UNCHANGED <<reg, pass, exitCode, pdList, ledger>>

(* Why req_fileOP turns a request down, in the order of its tests. *)
Refusal(i) ==
    IF userList[i].uid = NoUid THEN "ELOG"
    ELSE IF userList[i].uid # Segment(i).uid THEN "EUSER"
    ELSE IF userList[i].uid \notin reg THEN "EPD"
    ELSE "none"

(* The name of the next message is taken for the file name that an L or X  *)
(* request must not have.                                                  *)
Misread(i) == Glued(i) /\ Segment(i).op \in NamelessOps

(* Mutant: the operation is not stored with the code. *)
AcceptWithoutOp(i) ==
    \E vc \in Vcs :
        /\ sent' = {[to |-> userList[i].uid, type |-> "VLC"]}
        /\ Store(i, [userList[i] EXCEPT !.rid = Segment(i).rid, !.vc = vc])
        /\ pdList' = addMsgToQueue(userList[i].uid)
        /\ Enter(userList[i].conn, [AccountOf(i) EXCEPT !.req = @ + 1])

AcceptRequest(i) ==
    \E vc \in Vcs :
        /\ sent' = {[to |-> userList[i].uid, type |-> "VLC"]}
        /\ Store(i, [userList[i] EXCEPT !.rid = Segment(i).rid, !.vc = vc,
                                        !.op = Segment(i).op])
        /\ pdList' = addMsgToQueue(userList[i].uid)
        /\ Enter(userList[i].conn, [AccountOf(i) EXCEPT !.req = @ + 1])

req_fileOP(i) ==
    /\ ReceiveTcp(i, "REQ")
    /\ \/ /\ Refusal(i) # "none"
          /\ Answer(i, "RRQ", Refusal(i))
          /\ UNCHANGED <<userList, pdList, ledger>>
       \/ /\ Refusal(i) = "none"
          /\ Misread(i)
          /\ sent' = {[to |-> userList[i].conn, type |-> "ERR"]}
          /\ UNCHANGED <<userList, pdList, ledger>>
       \/ /\ Refusal(i) = "none"
          /\ ~Misread(i)
          /\ AcceptRequest(i)
    /\ UNCHANGED <<reg, pass, exitCode>>

(* On a new session rid and vc are 0, and 0000 0000 is authorised before   *)
(* anything was requested.                                                 *)
Authorised(i) ==
    /\ userList[i].uid = Segment(i).uid
    /\ userList[i].rid = Segment(i).rid
    /\ userList[i].vc = Segment(i).vc

(* Mutant: rid and vc are not cleared when the ticket is given. *)
GrantAgain(i) ==
    \E tid \in Tids :
        /\ Store(i, [userList[i] EXCEPT !.tid = tid])
        /\ sent' = {[to |-> userList[i].conn, type |-> "RAU", tid |-> tid]}
        /\ Enter(userList[i].conn, [AccountOf(i) EXCEPT !.tid = @ + 1])

Grant(i) ==
    \E tid \in Tids :
        /\ Store(i, [userList[i] EXCEPT !.vc = Clear, !.rid = Clear,
                                        !.tid = tid])
        /\ sent' = {[to |-> userList[i].conn, type |-> "RAU", tid |-> tid]}
        /\ Enter(userList[i].conn, [AccountOf(i) EXCEPT !.tid = @ + 1])

req_auth(i) ==
    /\ ReceiveTcp(i, "AUT")
    /\ IF Authorised(i)
       THEN Grant(i)
       ELSE /\ sent' = {[to |-> userList[i].conn, type |-> "RAU", tid |-> "0"]}
            /\ UNCHANGED <<userList, ledger>>
    /\ UNCHANGED <<reg, pass, exitCode, pdList>>

(* A malformed message is answered with ERR and stops the server. *)
FatalMessage(i) ==
    /\ ReceiveTcp(i, "BAD")
    /\ exitCode' = "EXIT_FAILURE"
    /\ sent' = {[to |-> userList[i].conn, type |-> "ERR"]}
    /\ UNCHANGED <<reg, pass, userList, pdList, ledger>>

(* Mutant: the session stays in the list after its connection is closed.   *)
CloseSessionUnlisted(i) ==
    /\ HasTurn(i)
    /\ inbox[userList[i].conn] = <<>>
    /\ peer[userList[i].conn] = "closed"
    /\ exitCode' \in {exitCode, "EXIT_FAILURE"}
    /\ pdList' = cleanQueueFromUID(userList[i].uid)
    /\ Store(i, [userList[i] EXCEPT !.uid = NoUid])
    /\ fds' = fds \ {userList[i].conn}
    /\ ready' = [ready EXCEPT !.conns = @ \ {userList[i].conn}]
    /\ peer' = [peer EXCEPT ![userList[i].conn] = "free"]
    /\ sent' = {}
    /\ UNCHANGED <<reg, pass, serving, udpIn, backlog, inbox, ledger>>

(* The read fails: at the end of the stream or, when the client left       *)
(* answers unread, with a connection reset, which stops the server.        *)
(* unregisterUser, removeSocket, listRemove.                               *)
CloseSession(i) ==
    /\ HasTurn(i)
    /\ inbox[userList[i].conn] = <<>>
    /\ peer[userList[i].conn] = "closed"
    /\ exitCode' \in {exitCode, "EXIT_FAILURE"}
    /\ pdList' = cleanQueueFromUID(userList[i].uid)
    /\ userList' = DropThroughAll(userList, {i})
    /\ fds' = fds \ {userList[i].conn}
    /\ ready' = [ready EXCEPT !.conns = @ \ {userList[i].conn}]
    /\ peer' = [peer EXCEPT ![userList[i].conn] = "free"]
    /\ sent' = {}
    /\ UNCHANGED <<reg, pass, serving, udpIn, backlog, inbox, ledger>>

-----------------------------------------------------------------------------
(* The clients. *)
Listed(c) == \E i \in DOMAIN userList : userList[i].conn = c

Dropped(c) == c \in fds /\ ~Listed(c)

(* What the kernel holds that the server will read. *)
Arrivals ==
    Len(udpIn) + Len(backlog)
        + Cardinality({c \in Conns : inbox[c] # <<>> /\ ~Dropped(c)})

Outside ==
    /\ exitCode # "DOWN"
    /\ sent' = {}
    /\ UNCHANGED <<reg, pass, exitCode, userList, pdList, fds, ready, serving>>

UdpArrives(m) ==
    /\ Outside
    /\ Arrivals < MaxPending
    /\ udpIn' = Append(udpIn, m)
    /\ UNCHANGED <<backlog, inbox, peer, ledger>>

ClientConnects(c) ==
    /\ Outside
    /\ Arrivals < MaxPending
    /\ peer[c] = "free"
    /\ peer' = [peer EXCEPT ![c] = "open"]
    /\ backlog' = Append(backlog, c)
    /\ ledger' = [ledger EXCEPT ![c] = NewAccount]
    /\ UNCHANGED <<udpIn, inbox>>

Requests(c) == {k \in DOMAIN inbox[c] : inbox[c][k].type = "REQ"}

(* The two bounds on requests, for the state space to be finite. *)
RequestAllowed(c) ==
    /\ ledger[c].req + Cardinality(Requests(c)) < MaxReq
    /\ Len(pdList) + Cardinality(UNION {{d} \X Requests(d) : d \in Conns})
          < MaxQueue

ClientSends(c, m) ==
    /\ Outside
    /\ peer[c] = "open"
    /\ inbox[c] = <<>> => Arrivals < MaxPending
    /\ Len(inbox[c]) < MaxInbox
    /\ m.type = "REQ" => RequestAllowed(c)
    /\ inbox' = [inbox EXCEPT ![c] = Append(@, m)]
    /\ UNCHANGED <<udpIn, backlog, peer, ledger>>

ClientCloses(c) ==
    /\ Outside
    /\ peer[c] = "open"
    /\ peer' = [peer EXCEPT ![c] = "closed"]
    /\ UNCHANGED <<udpIn, backlog, inbox, ledger>>

-----------------------------------------------------------------------------
(* The process is killed: by SIGKILL, or by the SIGPIPE of a write to a    *)
(* connection whose client is gone, for which there is no handler.  The    *)
(* files stay as they are, or as an operation on two of them that was      *)
(* under way has left them.                                                *)

ReceivesUdp(type) ==
    serving /\ ready.udp /\ udpIn # <<>> /\ Datagram.type = type

(* Mutant: the registration is written before the password. *)
RegistrationFirst ==
    /\ ReceivesUdp("REG")
    /\ Registrable(Datagram.uid, Datagram.pass)
    /\ reg' = reg \cup {Datagram.uid}
    /\ UNCHANGED pass

(* The password is stored and the registration is not. *)
HalfRegistered ==
    /\ ReceivesUdp("REG")
    /\ Registrable(Datagram.uid, Datagram.pass)
    /\ pass' = [pass EXCEPT ![Datagram.uid] = Datagram.pass]
    /\ UNCHANGED reg

(* deleteDirectory has removed one of the two files, either of them.       *)
HalfRemoved ==
    /\ ReceivesUdp("VLD")
    /\ inUserList(Datagram.uid)
    /\ LET n == userList[getUserNode(Datagram.uid)]
       IN  Confirmed(n, Datagram.tid) /\ OpX \in OpRead(n)
    /\ \/ /\ reg' = reg \ {Datagram.uid}
          /\ UNCHANGED pass
       \/ /\ pass' = [pass EXCEPT ![Datagram.uid] = NoPass]
          /\ UNCHANGED reg

(* cleanLogs has removed the registrations of some users. *)
HalfCleaned ==
    /\ ~serving
    /\ exitCode \in {"EXIT_SUCCESS", "EXIT_FAILURE"}
    /\ \E cleaned \in SUBSET reg : reg' = reg \ cleaned
    /\ UNCHANGED pass

Kill ==
    /\ exitCode # "DOWN"
    /\ ProcessEnds
    /\ \/ UNCHANGED <<reg, pass>>
       \/ HalfRegistered
       \/ HalfRemoved
       \/ HalfCleaned

-----------------------------------------------------------------------------
HandleUDP ==
    \/ req_registerPD
    \/ req_unregisterPD
    \/ resp_validationCode
    \/ req_authOP
    \/ FatalDatagram

HandleTCP(i) ==
    \/ req_loginUser(i)
    \/ req_fileOP(i)
    \/ req_auth(i)
    \/ FatalMessage(i)
    \/ CloseSession(i)

(* What the process does by itself once it is scheduled. *)
ServerStep ==
    \/ Select
    \/ Timeout
    \/ HandleUDP
    \/ Accept
    \/ \E i \in DOMAIN userList : HandleTCP(i)
    \/ LoopHead
    \/ exitAS

Clients ==
    \/ \E m \in UdpMsg : UdpArrives(m)
    \/ \E c \in Conns : ClientConnects(c) \/ ClientCloses(c)
    \/ \E c \in Conns, m \in TcpMsg : ClientSends(c, m)

Next == ServerStep \/ Clients \/ Signal \/ Kill \/ Start

Spec == Init /\ [][Next]_vars

(* The operating system schedules the process, and its select returns.     *)
FairSpec == Spec /\ WF_vars(ServerStep)

-----------------------------------------------------------------------------
(* Every message that waits for a device is for a registered device: the   *)
(* assumption behind the "Implementation issue" of resendMessagePD, without *)
(* which a message would never be resent nor given up.                     *)
QueueRegistered == \A i \in DOMAIN pdList : pdList[i].uid \in reg

(* Each ticket confirms one operation and each request is given one ticket *)
(* at most, in every session: the "one time" of req_authOP and req_auth.   *)
(* One ticket more is given for the rid and vc a new session starts with,  *)
(* whatever is sent after it.                                              *)
TicketsOneTime ==
    \A c \in Conns :
        /\ ledger[c].tid <= ledger[c].req + 1
        /\ ledger[c].cnf <= ledger[c].tid

(* malloc does not clear fop and fname, and req_authOP reads them: a       *)
(* session in which they were not written had no request, and confirms one *)
(* ticket at most with what they hold.                                     *)
UnwrittenOnce ==
    \A i \in DOMAIN userList :
        userList[i].op = NoOp =>
            AccountOf(i).req = 0 /\ AccountOf(i).cnf <= 1

(* The sessions in the list have different descriptors, all in the fd_set, *)
(* all accepted and not closed: no descriptor is read after it is closed   *)
(* or by two sessions.                                                     *)
SessionDescriptors ==
    /\ \A i, j \in DOMAIN userList :
           userList[i].conn = userList[j].conn => i = j
    /\ \A i \in DOMAIN userList :
           /\ userList[i].conn \in fds
           /\ peer[userList[i].conn] # "free"
           /\ \A k \in DOMAIN backlog : backlog[k] # userList[i].conn

(* The ticket in the datagram in hand is that of the newest session of u.  *)
TicketShown(u) ==
    /\ ReceivesUdp("VLD")
    /\ Datagram.uid = u
    /\ inUserList(u)
    /\ Confirmed(userList[getUserNode(u)], Datagram.tid)

(* The password of a user is never replaced, and goes only when a ticket   *)
(* of the user is shown for the removal: over registrations that are       *)
(* resent or come after an unregistration, over restarts and kills.        *)
PasswordStable ==
    [][\A u \in Uids :
          pass[u] # NoPass /\ pass'[u] # pass[u] =>
              pass'[u] = NoPass /\ TicketShown(u)]_vars

(* Whatever the process was doing when it was killed, nobody becomes       *)
(* registered without a password on disk: req_registerPD has stored it     *)
(* before it writes the registration.                                      *)
RegisteredWithPassword ==
    [][\A u \in reg' \ reg : pass'[u] # NoPass]_vars

(* While nothing is readable on a watched descriptor, each waiting message *)
(* is resent NREQUEST_TRIES times and given up: the queue empties.         *)
Quiet == exitCode = "RUNTIME" /\ ReadyNow = NothingReady

QueueDrains == <>[]Quiet => []<>(pdList = <<>>)

(* Once a fatal error or a signal was noted, the process ends. *)
ShutdownCompletes ==
    (exitCode \in {"EXIT_SUCCESS", "EXIT_FAILURE"}) ~> (exitCode = "DOWN")

-----------------------------------------------------------------------------
(* What a session amounts to for the file server. *)
SessionOf(n) ==
    [uid |-> n.uid, op |-> n.op, coded |-> n.rid # Clear,
     tid |-> IF n.tid \in Tids THEN n.tid ELSE Clear]

NoSession == [uid |-> NoUid, op |-> NoOp, coded |-> TRUE, tid |-> Clear]

ListedAs(c) == CHOOSE i \in DOMAIN userList : userList[i].conn = c

Sessions ==
    [c \in Conns |-> IF Listed(c) THEN SessionOf(userList[ListedAs(c)])
                     ELSE NoSession]

Confirmations == {m \in sent : m.type = "CNF"}

Verdicts == {[uid |-> m.uid, tid |-> m.tid, op |-> m.op] : m \in Confirmations}

Promise == INSTANCE Authorisation WITH
    Sessions <- Conns, FOP_E <- "E", NoTid <- Clear,
    session <- Sessions, verdict <- Verdicts

(* The handlers of the AS, with all they do for devices, and the removals  *)
(* of list.c make nothing of a ticket but what Authorisation says: one     *)
(* answer per ticket, one ticket per code and one for a new session, the   *)
(* operation of the request.                                               *)
ImplementsAuthorisation == Promise!Spec

-----------------------------------------------------------------------------
(* What the repository says and the code does not do. *)

(* as.c:234, "act as previous message didn't reach the target / try to     *)
(* resend": while nothing arrives that the server would handle, the        *)
(* waiting messages are resent and, in the end, given up.                  *)
Silent ==
    /\ exitCode = "RUNTIME"
    /\ udpIn = <<>> /\ backlog = <<>>
    /\ \A c \in Conns : Listed(c) => ~Readable(c)

ResendsWhenSilent == <>[]Silent => []<>(pdList = <<>>)

(* user_aux.h:342, "The AS confirms (or not) the success of the two-factor *)
(* authentication, sending the transaction identifier TID [...]  The TID   *)
(* takes value 0 if the authentication failed": a session is not given     *)
(* more tickets than it made requests, each of which had a code sent.      *)
TicketsAreAskedFor == \A c \in Conns : ledger[c].tid <= ledger[c].req
=============================================================================
