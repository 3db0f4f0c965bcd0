---------------------------- MODULE Registration ----------------------------
(***************************************************************************)
(* One personal device and the authentication server, each as its own      *)
(* module, over UDP: a datagram may be lost, repeated, late or overtaken.  *)
(* Both may be killed, terminated and started again at any time.  There    *)
(* are no users and no file server, so that registrations are all the      *)
(* server has to do.                                                       *)
(*                                                                         *)
(* Each end lets the other do more than the real one does: PD lets a       *)
(* server answer a request at any time, AS lets devices send anything.     *)
(* That what they do together is allowed by both is checked here.          *)
(***************************************************************************)
EXTENDS Integers, Sequences, FiniteSets

CONSTANTS
    Uids, Passes,
    Users,          \* what can be typed after reg
    Typed,          \* bound: the lines that are typed
    NoUser, NoPass,
    NREQUEST_TRIES,
    MaxLines,       \* bound: typed lines the terminal holds
    MaxIn,          \* bound: datagrams that wait at the device's socket
    MaxPending,     \* bound: datagrams that wait at the server's socket
    MaxFlight       \* bound: datagrams on their way in one direction

ASSUME UsersAssumption ==
    /\ Users \subseteq [uid : Uids, pass : Passes]
    /\ NoUser \notin Users /\ NoPass \notin Passes /\ "none" \notin Uids

ASSUME BoundsAssumption ==
    /\ NREQUEST_TRIES \in Nat
    /\ {MaxLines, MaxIn, MaxPending, MaxFlight} \subseteq Nat

VARIABLES
    \* the device, see PD
    pc, exitCode, user, connected, asOpen, pdOpen, waitingReply,
    nRequestTries, msgBuffer, ready, stdin, asIn, pdIn, asked, resends, sent,
    \* the server, see AS
    reg, pass, asExit, userList, pdList, fds, asReady, serving, udpIn,
    backlog, inbox, peer, asSent, ledger,
    \* the network
    toAS,       \* requests on their way, with their return address
    senders,    \* the return address of each datagram in udpIn
    toPD,       \* answers on their way to the client socket
    revoked     \* history: uids the server unregistered since the device
                \* was started

deviceVars == <<pc, exitCode, user, connected, asOpen, pdOpen, waitingReply,
                nRequestTries, msgBuffer, ready, stdin, asIn, pdIn, asked,
                resends, sent>>
serverVars == <<reg, pass, asExit, userList, pdList, fds, asReady, serving,
                udpIn, backlog, inbox, peer, asSent, ledger>>
networkVars == <<toAS, senders, toPD, revoked>>
vars == <<deviceVars, serverVars, networkVars>>

Device == INSTANCE PD

ASSUME TypedAssumption == Typed \subseteq Device!Line

Server ==
    INSTANCE AS WITH
        Conns <- {}, Ops <- {"remove"}, NamelessOps <- {"remove"},
        OpX <- "remove", Rids <- {}, Vcs <- {}, Tids <- {},
        Clear <- -1, Fresh <- 0, NoUid <- "none", NoOp <- "noop",
        MaxInbox <- 0, MaxQueue <- 0, MaxReq <- 0,
        exitCode <- asExit, ready <- asReady, sent <- asSent

-----------------------------------------------------------------------------
(* What arrives while a process works off the snapshot of select is not in *)
(* the snapshot, and is found by the next select as if it had arrived      *)
(* there.  Arrivals wait for the end of the iteration, to save states.     *)
DeviceBetween == pc # "serving"
ServerBetween == ~serving

(* Requests. *)
(* Mutant: a request without a user is not recognised by its format.       *)
WireUnchecked(m) ==
    IF m.type = "REG"
    THEN [type |-> "REG", uid |-> m.user.uid, pass |-> m.user.pass]
    ELSE IF m.type = "UNR"
    THEN [type |-> "UNR",
          uid |-> IF m.user = NoUser THEN NoUser ELSE m.user.uid]
    ELSE m

(* What the server reads of a message of the device.  A NULL uid is        *)
(* printed as "(null)", which has not the format of a uid.                 *)
Wire(m) ==
    IF m.type \in {"REG", "UNR"} /\ m.user = NoUser
    THEN [type |-> "BAD"]
    ELSE IF m.type = "REG"
    THEN [type |-> "REG", uid |-> m.user.uid, pass |-> m.user.pass]
    ELSE IF m.type = "UNR"
    THEN [type |-> "UNR", uid |-> m.user.uid]
    ELSE m

(* The client socket a datagram came from is still open, or closed.        *)
Request == [msg : Server!UdpMsg, live : BOOLEAN]

Closed(requests) == {[r EXCEPT !.live = FALSE] : r \in requests}

Posted == {[msg |-> Wire(m), live |-> TRUE] : m \in sent'}

(* What the network does not take is lost. *)
Carries(flying, new) ==
    IF Cardinality(flying \cup new) <= MaxFlight THEN flying \cup new
                                                 ELSE flying

(* Mutant: what was on its way to a closed socket reaches the next one.    *)
SocketsReused ==
    /\ toAS' = Carries(toAS, Posted)
    /\ UNCHANGED <<senders, toPD>>

(* The device's steps put its messages on the network.  Answers to a       *)
(* socket it closes, removeSocketClient or its end, find nobody.           *)
Sockets ==
    IF asOpen /\ ~asOpen'
    THEN /\ toAS' = Carries(Closed(toAS), Posted)
         /\ senders' = [k \in DOMAIN senders |-> FALSE]
         /\ toPD' = {}
    ELSE /\ toAS' = Carries(toAS, Posted)
         /\ UNCHANGED <<senders, toPD>>

DeviceMoves ==
    /\ \/ Device!DeviceStep
       \/ Device!Signal
       \/ Device!Kill
       \/ DeviceBetween /\ \E line \in Typed : Device!Types(line)
    /\ Sockets
    /\ UNCHANGED <<serverVars, revoked>>

DeviceStarts ==
    /\ Device!Start
    /\ revoked' = {}
    /\ UNCHANGED <<serverVars, toAS, senders, toPD>>

-----------------------------------------------------------------------------
(* Answers. *)
Reply(m) ==
    IF m.type = "ERR" THEN [type |-> "ERR"]
    ELSE [type |-> m.type, status |-> m.status]

Replies == {Reply(m) : m \in {n \in asSent' : n.to = "sender"}}

(* A handler reads the oldest datagram and answers its sender. *)
ServerReads ==
    /\ Server!HandleUDP
    /\ senders' = Tail(senders)
    /\ toPD' = IF Head(senders) THEN Carries(toPD, Replies) ELSE toPD

(* A step that reads none, or the end of the process. *)
ServerOtherwise ==
    /\ \/ Server!Select
       \/ Server!LoopHead
       \/ Server!exitAS
       \/ Server!Signal
       \/ Server!Kill
       \/ Server!Start
    /\ senders' = IF udpIn' = udpIn THEN senders ELSE <<>>
    /\ UNCHANGED toPD

ServerMoves ==
    /\ ServerReads \/ ServerOtherwise
    /\ revoked' = revoked \cup (reg \ reg')
    /\ UNCHANGED <<deviceVars, toAS>>

-----------------------------------------------------------------------------
(* A datagram may arrive, arrive again, and be lost, before or after.      *)
RequestArrives(r) ==
    /\ ServerBetween
    /\ Server!UdpArrives(r.msg)
    /\ senders' = Append(senders, r.live)
    /\ UNCHANGED <<toAS, deviceVars, toPD, revoked>>

AnswerArrives(m) ==
    /\ DeviceBetween
    /\ Device!AnswerArrives(m)
    /\ UNCHANGED <<toPD, serverVars, toAS, senders, revoked>>

RequestLost(r) ==
    /\ toAS' = toAS \ {r}
    /\ UNCHANGED <<deviceVars, serverVars, senders, toPD, revoked>>

AnswerLost(m) ==
    /\ toPD' = toPD \ {m}
    /\ UNCHANGED <<deviceVars, serverVars, toAS, senders, revoked>>

-----------------------------------------------------------------------------
Init ==
    /\ Device!Init /\ Server!Init
    /\ toAS = {} /\ senders = <<>> /\ toPD = {} /\ revoked = {}

Next ==
    \/ DeviceMoves
    \/ DeviceStarts
    \/ ServerMoves
    \/ \E r \in toAS : RequestArrives(r) \/ RequestLost(r)
    \/ \E m \in toPD : AnswerArrives(m) \/ AnswerLost(m)

Spec == Init /\ [][Next]_vars

-----------------------------------------------------------------------------
NetworkTypeOK ==
    /\ toAS \subseteq Request
    /\ senders \in Seq(BOOLEAN)
    /\ Len(senders) = Len(udpIn)
    /\ toPD \subseteq Device!Answer
    /\ revoked \subseteq Uids

TypeOK == Device!TypeOK /\ Server!TypeOK /\ NetworkTypeOK

(* What arrives at the device is what its module lets a server send: an    *)
(* answer to a request made on that socket.                                *)
DeviceBehaves == Device!Spec

(* What the server does and receives is what its module says. *)
ServerBehaves == Server!Spec

(* With one user to register: if the device believes it is registered then *)
(* the server has it registered, or unregistered it in the meantime.       *)
RegisteredIsRegistered ==
    connected /\ user # NoUser => user.uid \in reg \cup revoked
=============================================================================
