------------------------ MODULE Registration_proofs ------------------------
(***************************************************************************)
(* The device and the server together, for any users, any network and any  *)
(* bounds: each is, to the other, what the other's own module lets it be;  *)
(* what one user's device believes of its registration was so on the       *)
(* server.                                                                 *)
(***************************************************************************)
EXTENDS Registration, SequenceTheorems, TLAPS

(* What PD_proofs proves of a device, for the device of this module. *)
DeviceFacts == INSTANCE PD_proofs

-----------------------------------------------------------------------------
(* The assumptions of the two modules hold here. *)

LEMMA DeviceParameters == DeviceFacts!ParametersAssumption
  BY UsersAssumption, BoundsAssumption DEF DeviceFacts!ParametersAssumption

LEMMA ServerConstants == Server!ConstantsAssumption
  BY UsersAssumption, BoundsAssumption DEF Server!ConstantsAssumption

-----------------------------------------------------------------------------
(* The device of Registration is the one PD_proofs is about: each of its   *)
(* actions is the action of that name there.                               *)

LEMMA Same_Select == Device!Select => DeviceFacts!Select
  BY DEF Device!Select, DeviceFacts!Select, Device!InSelect,
         DeviceFacts!InSelect, Device!ReadableNow, DeviceFacts!ReadableNow,
         Device!Nothing, DeviceFacts!Nothing, Device!Memory,
         DeviceFacts!Memory

LEMMA Same_GiveUp == Device!GiveUp => DeviceFacts!GiveUp
  BY DEF Device!GiveUp, DeviceFacts!GiveUp, Device!Silence,
         DeviceFacts!Silence, Device!InSelect, DeviceFacts!InSelect,
         Device!ReadableNow, DeviceFacts!ReadableNow, Device!Nothing,
         DeviceFacts!Nothing, Device!TriesUsedUp, DeviceFacts!TriesUsedUp

LEMMA Same_req_resendLastMessage ==
    Device!req_resendLastMessage => DeviceFacts!req_resendLastMessage
  BY DEF Device!req_resendLastMessage, DeviceFacts!req_resendLastMessage,
         Device!Silence, DeviceFacts!Silence, Device!InSelect,
         DeviceFacts!InSelect, Device!ReadableNow, DeviceFacts!ReadableNow,
         Device!Nothing, DeviceFacts!Nothing, Device!TriesUsedUp,
         DeviceFacts!TriesUsedUp, Device!OneMoreResend,
         DeviceFacts!OneMoreResend

LEMMA Same_resp_valCode == Device!resp_valCode => DeviceFacts!resp_valCode
  BY DEF Device!resp_valCode, DeviceFacts!resp_valCode, Device!ReceiveServer,
         DeviceFacts!ReceiveServer, Device!Say, DeviceFacts!Say

LEMMA Same_CompareWithNull ==
    Device!CompareWithNull => DeviceFacts!CompareWithNull
  BY DEF Device!CompareWithNull, DeviceFacts!CompareWithNull, Device!Memory,
         DeviceFacts!Memory

LEMMA Same_OtherServerMessage ==
    Device!OtherServerMessage => DeviceFacts!OtherServerMessage
  BY DEF Device!OtherServerMessage, DeviceFacts!OtherServerMessage,
         Device!ReceiveServer, DeviceFacts!ReceiveServer

LEMMA Same_handleClient == Device!handleClient => DeviceFacts!handleClient
  BY DEF Device!handleClient, DeviceFacts!handleClient, Device!Registered,
         DeviceFacts!Registered, Device!ReceiveClient,
         DeviceFacts!ReceiveClient, Device!IsRRG, DeviceFacts!IsRRG,
         Device!TheAnswer, DeviceFacts!TheAnswer, Device!SaysNothing,
         DeviceFacts!SaysNothing, Device!NotRegistered,
         DeviceFacts!NotRegistered, Device!KeepSockets,
         DeviceFacts!KeepSockets, Device!resp_unregisterUser,
         DeviceFacts!resp_unregisterUser, Device!IsRUN, DeviceFacts!IsRUN,
         Device!ClientError, DeviceFacts!ClientError, Device!FatalAnswer,
         DeviceFacts!FatalAnswer, Device!Say, DeviceFacts!Say

LEMMA Same_handleUser == Device!handleUser => DeviceFacts!handleUser
  BY DEF Device!handleUser, DeviceFacts!handleUser, Device!Command,
         DeviceFacts!Command, Device!Perform, DeviceFacts!Perform,
         Device!req_registerUser, DeviceFacts!req_registerUser, Device!Ignore,
         DeviceFacts!Ignore, Device!SaysNothing, DeviceFacts!SaysNothing,
         Device!Ask, DeviceFacts!Ask, Device!Say, DeviceFacts!Say,
         Device!req_unregisterUser, DeviceFacts!req_unregisterUser

LEMMA Same_LoopHead == Device!LoopHead => DeviceFacts!LoopHead
  BY DEF Device!LoopHead, DeviceFacts!LoopHead, Device!Nothing,
         DeviceFacts!Nothing, Device!Memory, DeviceFacts!Memory

LEMMA Same_cleanPD == Device!cleanPD => DeviceFacts!cleanPD
  BY DEF Device!cleanPD, DeviceFacts!cleanPD, Device!Leaving,
         DeviceFacts!Leaving, Device!Say, DeviceFacts!Say, Device!SaysNothing,
         DeviceFacts!SaysNothing

LEMMA Same_Exit == Device!Exit => DeviceFacts!Exit
  BY DEF Device!Exit, DeviceFacts!Exit, Device!Renew, DeviceFacts!Renew,
         Device!Nothing, DeviceFacts!Nothing

LEMMA Same_Signal == Device!Signal => DeviceFacts!Signal
  BY DEF Device!Signal, DeviceFacts!Signal, Device!Memory, DeviceFacts!Memory

LEMMA Same_Kill == Device!Kill => DeviceFacts!Kill
  BY DEF Device!Kill, DeviceFacts!Kill, Device!Renew, DeviceFacts!Renew,
         Device!Nothing, DeviceFacts!Nothing

LEMMA Same_Start == Device!Start => DeviceFacts!Start
  BY DEF Device!Start, DeviceFacts!Start, Device!Renew, DeviceFacts!Renew,
         Device!Nothing, DeviceFacts!Nothing

LEMMA Same_Init == Device!Init => DeviceFacts!Init
  BY DEF Device!Init, DeviceFacts!Init, Device!Nothing, DeviceFacts!Nothing

LEMMA Same_Outside == Device!Outside => DeviceFacts!Outside
  BY DEF Device!Outside, DeviceFacts!Outside, Device!Line, DeviceFacts!Line,
         Device!Command, DeviceFacts!Command, Device!Types, DeviceFacts!Types,
         Device!Running, DeviceFacts!Running, Device!Memory,
         DeviceFacts!Memory, Device!Answer, DeviceFacts!Answer,
         Device!Answerable, DeviceFacts!Answerable, Device!AnswerArrives,
         DeviceFacts!AnswerArrives, Device!ServerMsg, DeviceFacts!ServerMsg,
         Device!ServerMessageArrives, DeviceFacts!ServerMessageArrives

LEMMA SameDevice == Device!Next => DeviceFacts!Next
  BY Same_Select, Same_GiveUp, Same_req_resendLastMessage, Same_resp_valCode,
     Same_CompareWithNull, Same_OtherServerMessage, Same_handleClient,
     Same_handleUser, Same_LoopHead, Same_cleanPD, Same_Exit, Same_Signal,
     Same_Kill, Same_Start, Same_Outside
     DEF Device!Next, DeviceFacts!Next, Device!DeviceStep,
         DeviceFacts!DeviceStep

LEMMA SameStep == Device!DeviceStep => DeviceFacts!DeviceStep
  BY Same_Select, Same_GiveUp, Same_req_resendLastMessage, Same_resp_valCode,
     Same_CompareWithNull, Same_OtherServerMessage, Same_handleClient,
     Same_handleUser, Same_LoopHead, Same_cleanPD, Same_Exit
     DEF Device!DeviceStep, DeviceFacts!DeviceStep

LEMMA SameMessages ==
    /\ DeviceFacts!Answer = Device!Answer
    /\ DeviceFacts!Line = Device!Line
    /\ DeviceFacts!DeviceMsg = Device!DeviceMsg
    /\ \A m : DeviceFacts!Answerable(m) <=> Device!Answerable(m)
  BY DEF Device!Answer, DeviceFacts!Answer, Device!Line, DeviceFacts!Line,
         Device!Command, DeviceFacts!Command, Device!DeviceMsg,
         DeviceFacts!DeviceMsg, Device!Answerable, DeviceFacts!Answerable

LEMMA SameTypes == DeviceFacts!TypeOK => Device!TypeOK
  BY DEF Device!TypeOK, DeviceFacts!TypeOK, Device!ControlTypeOK,
         DeviceFacts!ControlTypeOK, Device!UserTypeOK, DeviceFacts!UserTypeOK,
         Device!MessagesTypeOK, DeviceFacts!MessagesTypeOK, Device!Line,
         DeviceFacts!Line, Device!Command, DeviceFacts!Command,
         Device!Answer, DeviceFacts!Answer, Device!ServerMsg,
         DeviceFacts!ServerMsg, Device!DeviceMsg, DeviceFacts!DeviceMsg

-----------------------------------------------------------------------------
(* The server without users.                                               *)

(* It has no session, no connection and no message for a device.           *)
NoClients == userList = <<>> /\ pdList = <<>> /\ fds = {} /\ backlog = <<>>

ServerInv == Server!TypeOK /\ NoClients

(* The oldest datagram and its sender are taken together. *)
LEMMA TailIs ==
    ASSUME NEW S, NEW s \in Seq(S), s # <<>>
    PROVE  /\ Head(s) \in S /\ Head(s) = s[1] /\ 1 \in DOMAIN s
           /\ Tail(s) \in Seq(S) /\ Len(Tail(s)) = Len(s) - 1
           /\ \A k \in DOMAIN Tail(s) :
                 k + 1 \in DOMAIN s /\ Tail(s)[k] = s[k + 1]
  OBVIOUS

(* A queue without messages stays without them. *)
LEMMA NothingCleaned ==
    ASSUME pdList = <<>>, NEW u PROVE Server!cleanQueueFromUID(u) = <<>>
<1>1. Server!QueuedFor(u) = {}
  BY DEF Server!QueuedFor
<1> QED
  BY <1>1 DEF Server!cleanQueueFromUID, Server!DropThroughAll

(* What a handler reads and leaves, whatever it answers. *)
LEMMA DatagramRead ==
    ASSUME ServerInv, NEW types, Server!ReceiveUdp(types)
    PROVE  /\ udpIn # <<>> /\ udpIn' = Tail(udpIn)
           /\ Server!Datagram \in Server!UdpMsg
           /\ Server!Datagram.type \in types
           /\ udpIn' \in Seq(Server!UdpMsg)
           /\ asReady' \in [udp : BOOLEAN, listen : BOOLEAN, conns : SUBSET {}]
           /\ UNCHANGED <<fds, serving, backlog, inbox, peer>>
  BY TailIs DEF ServerInv, Server!TypeOK, Server!ReceiveUdp, Server!Datagram

(* The answer a datagram gets is of its kind. *)
AnswersTo(d, m) ==
    \/ d.type = "REG" /\ m.type = "RRG" /\ m.status \in {"OK", "NOK"}
    \/ d.type = "UNR" /\ m.type = "RUN" /\ m.status \in {"OK", "NOK"}
    \/ m.type = "ERR"

(* A handler keeps the types, has no one to tell but the sender, and       *)
(* answers OK to a registration only if it has registered the user.        *)
LEMMA Handled ==
    ASSUME ServerInv, Server!HandleUDP
    PROVE  /\ ServerInv' /\ udpIn # <<>> /\ udpIn' = Tail(udpIn)
           /\ Server!Datagram \in Server!UdpMsg
           /\ \A m \in Replies :
                 /\ m \in Device!Answer
                 /\ AnswersTo(Server!Datagram, m)
                 /\ m.type = "RRG" /\ m.status = "OK"
                       => Server!Datagram.uid \in reg'
<1>t. Server!TypeOK /\ NoClients
  BY DEF ServerInv
<1>1. CASE Server!req_registerPD
  <2>1. /\ udpIn # <<>> /\ udpIn' = Tail(udpIn)
        /\ Server!Datagram \in Server!UdpMsg /\ Server!Datagram.type = "REG"
        /\ udpIn' \in Seq(Server!UdpMsg)
        /\ asReady' \in [udp : BOOLEAN, listen : BOOLEAN, conns : SUBSET {}]
        /\ UNCHANGED <<fds, serving, backlog, inbox, peer>>
    BY <1>1, DatagramRead DEF Server!req_registerPD
  <2>2. Server!Datagram.uid \in Uids /\ Server!Datagram.pass \in Passes
    BY <2>1 DEF Server!UdpMsg
  <2>3. PICK st \in {"OK", "NOK"} :
            /\ asSent' = {[to |-> "sender", type |-> "RRG", status |-> st]}
            /\ st = "OK" => Server!Datagram.uid \in reg'
    BY <1>1 DEF Server!req_registerPD, Server!AnswerSender
  <2>4. reg' \in SUBSET Uids /\ pass' \in [Uids -> Passes \cup {NoPass}]
    BY <1>t, <1>1, <2>2 DEF Server!TypeOK, Server!req_registerPD
  <2>5. asSent' \subseteq Server!SentMsg
    BY <2>3 DEF Server!SentMsg
  <2>6. UNCHANGED <<asExit, userList, pdList, ledger>>
    BY <1>1 DEF Server!req_registerPD
  <2>7. ServerInv'
    BY <1>t, <2>1, <2>4, <2>5, <2>6 DEF ServerInv, Server!TypeOK, NoClients
  <2>8. \A m \in Replies : m = [type |-> "RRG", status |-> st]
    <3>1. \A m \in Replies : \E n \in asSent' : m = Reply(n)
      BY DEF Replies
    <3> QED
      BY <2>3, <3>1 DEF Reply
  <2> QED
    BY <2>1, <2>3, <2>7, <2>8 DEF Device!Answer, AnswersTo
<1>2. CASE Server!req_unregisterPD
  <2>1. /\ udpIn # <<>> /\ udpIn' = Tail(udpIn)
        /\ Server!Datagram \in Server!UdpMsg /\ Server!Datagram.type = "UNR"
        /\ udpIn' \in Seq(Server!UdpMsg)
        /\ asReady' \in [udp : BOOLEAN, listen : BOOLEAN, conns : SUBSET {}]
        /\ UNCHANGED <<fds, serving, backlog, inbox, peer>>
    BY <1>2, DatagramRead DEF Server!req_unregisterPD
  <2>2. PICK st \in {"OK", "NOK"} :
            asSent' = {[to |-> "sender", type |-> "RUN", status |-> st]}
    BY <1>2 DEF Server!req_unregisterPD, Server!AnswerSender
  <2>3. reg' \in SUBSET Uids /\ pdList' = <<>>
    BY <1>t, <1>2, NothingCleaned
       DEF Server!TypeOK, NoClients, Server!req_unregisterPD
  <2>4. asSent' \subseteq Server!SentMsg
    BY <2>2 DEF Server!SentMsg
  <2>5. UNCHANGED <<pass, asExit, userList, ledger>>
    BY <1>2 DEF Server!req_unregisterPD
  <2>6. ServerInv'
    BY <1>t, <2>1, <2>3, <2>4, <2>5 DEF ServerInv, Server!TypeOK, NoClients
  <2>7. \A m \in Replies : m = [type |-> "RUN", status |-> st]
    <3>1. \A m \in Replies : \E n \in asSent' : m = Reply(n)
      BY DEF Replies
    <3> QED
      BY <2>2, <3>1 DEF Reply
  <2> QED
    BY <2>1, <2>6, <2>7 DEF Device!Answer, AnswersTo
<1>3. ASSUME NEW types, Server!ReceiveUdp(types),
             asSent' \in {{}, {[to |-> "sender", type |-> "ERR"]}},
             asExit' \in {asExit, "EXIT_FAILURE"},
             UNCHANGED <<reg, pass, userList, pdList, ledger>>
      PROVE  /\ ServerInv' /\ udpIn # <<>> /\ udpIn' = Tail(udpIn)
             /\ Server!Datagram \in Server!UdpMsg
             /\ \A m \in Replies :
                   m \in Device!Answer /\ m.type = "ERR"
  <2>1. /\ udpIn # <<>> /\ udpIn' = Tail(udpIn)
        /\ Server!Datagram \in Server!UdpMsg
        /\ udpIn' \in Seq(Server!UdpMsg)
        /\ asReady' \in [udp : BOOLEAN, listen : BOOLEAN, conns : SUBSET {}]
        /\ UNCHANGED <<fds, serving, backlog, inbox, peer>>
    BY <1>3, DatagramRead
  <2>2. asSent' \subseteq Server!SentMsg
    BY <1>3 DEF Server!SentMsg
  <2>3. ServerInv'
    BY <1>t, <1>3, <2>1, <2>2 DEF ServerInv, Server!TypeOK, NoClients
  <2>4. Replies \subseteq {[type |-> "ERR"]}
    BY <1>3 DEF Replies, Reply
  <2> QED
    BY <2>1, <2>3, <2>4 DEF Device!Answer
<1>n. \A u : ~Server!inUserList(u)
  BY <1>t DEF NoClients, Server!inUserList, Server!SessionsOf
<1>4. CASE Server!resp_validationCode
  <2>1. /\ Server!ReceiveUdp({"RVC"})
        /\ asSent' = {[to |-> "sender", type |-> "ERR"]}
        /\ UNCHANGED <<reg, pass, asExit, userList, pdList, ledger>>
    BY <1>4, <1>n DEF Server!resp_validationCode
  <2> QED
    BY <1>3, <2>1 DEF AnswersTo
<1>5. CASE Server!req_authOP
  <2>1. /\ Server!ReceiveUdp({"VLD"})
        /\ asSent' = {[to |-> "sender", type |-> "ERR"]}
        /\ UNCHANGED <<reg, pass, asExit, userList, pdList, ledger>>
    BY <1>5, <1>n DEF Server!req_authOP
  <2> QED
    BY <1>3, <2>1 DEF AnswersTo
<1>6. CASE Server!FatalDatagram
  <2>1. /\ Server!ReceiveUdp({"BAD", "ERR"})
        /\ asSent' \in {{}, {[to |-> "sender", type |-> "ERR"]}}
        /\ asExit' = "EXIT_FAILURE"
        /\ UNCHANGED <<reg, pass, userList, pdList, ledger>>
    BY <1>6 DEF Server!FatalDatagram
  <2> QED
    BY <1>3, <2>1 DEF AnswersTo
<1> QED
  BY <1>1, <1>2, <1>4, <1>5, <1>6 DEF Server!HandleUDP

(* The process ends with its queues empty. *)
LEMMA ServerEnds ==
    ASSUME ServerInv, Server!ProcessEnds, reg' \in SUBSET Uids,
           pass' \in [Uids -> Passes \cup {NoPass}]
    PROVE  ServerInv' /\ udpIn' = <<>>
<1>1. /\ asExit' = "DOWN" /\ serving' = FALSE /\ asSent' = {}
      /\ userList' = <<>> /\ pdList' = <<>> /\ fds' = {} /\ backlog' = <<>>
      /\ udpIn' = <<>>
      /\ asReady' = [udp |-> FALSE, listen |-> FALSE, conns |-> {}]
  BY DEF Server!ProcessEnds, Server!NothingReady
<1>2. inbox' \in [{} -> Seq(Server!TcpMsg)]
  BY DEF Server!ProcessEnds
<1>3. peer' \in [{} -> {"free", "open", "closed"}]
  BY DEF Server!ProcessEnds
<1>4. ledger' \in [{} -> Server!Account]
  BY DEF Server!ProcessEnds
<1>6. NoClients'
  BY <1>1 DEF NoClients
<1>7. /\ userList' \in Seq(Server!Node) /\ pdList' \in Seq(Server!Waiting)
      /\ udpIn' \in Seq(Server!UdpMsg) /\ backlog' \in Seq({})
  BY <1>1, EmptySeq
<1>8. asReady' \in [udp : BOOLEAN, listen : BOOLEAN, conns : SUBSET {}]
  BY <1>1
<1> QED
  BY <1>1, <1>2, <1>3, <1>4, <1>6, <1>7, <1>8
     DEF ServerInv, Server!TypeOK

(* The other steps of the server read no datagram, or end the process.     *)
LEMMA NotHandled ==
    ASSUME ServerInv,
           \/ Server!Select \/ Server!LoopHead \/ Server!exitAS
           \/ Server!Signal \/ Server!Kill \/ Server!Start
    PROVE  ServerInv' /\ udpIn' \in {udpIn, <<>>}
<1>t. Server!TypeOK /\ NoClients
  BY DEF ServerInv
<1>1. CASE Server!Select
  <2>1. /\ UNCHANGED <<reg, pass, asExit, userList, pdList, fds, udpIn,
                       backlog, inbox, peer, ledger>>
        /\ asReady' = Server!ReadyNow /\ serving' = TRUE /\ asSent' = {}
    BY <1>1 DEF Server!Select
  <2>2. Server!ReadyNow
            \in [udp : BOOLEAN, listen : BOOLEAN, conns : SUBSET {}]
    BY <1>t DEF NoClients, Server!ReadyNow
  <2> QED
    BY <1>t, <2>1, <2>2 DEF ServerInv, Server!TypeOK, NoClients
<1>2. CASE Server!LoopHead
  BY <1>t, <1>2 DEF Server!LoopHead, Server!NothingReady, ServerInv,
                    Server!TypeOK, NoClients
<1>3. CASE Server!exitAS
  <2>1. Server!ProcessEnds /\ reg' = {} /\ UNCHANGED pass
    BY <1>3 DEF Server!exitAS
  <2>2. reg' \in SUBSET Uids /\ pass' \in [Uids -> Passes \cup {NoPass}]
    BY <1>t, <2>1 DEF Server!TypeOK
  <2> QED
    BY <2>1, <2>2, ServerEnds
<1>4. CASE Server!Signal \/ Server!Start
  BY <1>t, <1>4 DEF Server!Signal, Server!Start, ServerInv, Server!TypeOK,
                    NoClients
<1>5. CASE Server!Kill
  <2>1. Server!ProcessEnds
    BY <1>5 DEF Server!Kill
  <2>2. reg' \in SUBSET Uids /\ pass' \in [Uids -> Passes \cup {NoPass}]
    <3>1. CASE UNCHANGED <<reg, pass>>
      BY <1>t, <3>1 DEF Server!TypeOK
    <3>2. CASE Server!HalfRegistered
      <4>1. Server!Datagram \in Server!UdpMsg /\ Server!Datagram.type = "REG"
        BY <1>t, <3>2, TailIs
           DEF Server!HalfRegistered, Server!ReceivesUdp, Server!Datagram,
               Server!TypeOK
      <4>2. Server!Datagram.pass \in Passes
        BY <4>1 DEF Server!UdpMsg
      <4> QED
        BY <1>t, <3>2, <4>2 DEF Server!HalfRegistered, Server!TypeOK
    <3>3. CASE Server!HalfRemoved
      BY <1>t, <3>3 DEF Server!HalfRemoved, Server!inUserList,
                        Server!SessionsOf, NoClients
    <3>4. CASE Server!HalfCleaned
      BY <1>t, <3>4 DEF Server!HalfCleaned, Server!TypeOK
    <3> QED
      BY <1>5, <3>1, <3>2, <3>3, <3>4 DEF Server!Kill
  <2> QED
    BY <2>1, <2>2, ServerEnds
<1> QED
  BY <1>1, <1>2, <1>3, <1>4, <1>5

LEMMA ServerInits == Server!Init => ServerInv /\ udpIn = <<>>
<1> SUFFICES ASSUME Server!Init PROVE ServerInv /\ udpIn = <<>>
  OBVIOUS
<1>1. /\ reg = {} /\ asExit = "RUNTIME" /\ serving = FALSE /\ asSent = {}
      /\ userList = <<>> /\ pdList = <<>> /\ fds = {} /\ backlog = <<>>
      /\ udpIn = <<>>
      /\ asReady = [udp |-> FALSE, listen |-> FALSE, conns |-> {}]
  BY DEF Server!Init, Server!NothingReady
<1>2. inbox \in [{} -> Seq(Server!TcpMsg)]
  BY DEF Server!Init
<1>3. peer \in [{} -> {"free", "open", "closed"}]
  BY DEF Server!Init
<1>4. ledger \in [{} -> Server!Account]
  BY DEF Server!Init
<1>5. pass \in [Uids -> Passes \cup {NoPass}]
  BY DEF Server!Init
<1>6. NoClients
  BY <1>1 DEF NoClients
<1>7. /\ userList \in Seq(Server!Node) /\ pdList \in Seq(Server!Waiting)
      /\ udpIn \in Seq(Server!UdpMsg) /\ backlog \in Seq({})
  BY <1>1, EmptySeq
<1>8. asReady \in [udp : BOOLEAN, listen : BOOLEAN, conns : SUBSET {}]
  BY <1>1
<1> QED
  BY <1>1, <1>2, <1>3, <1>4, <1>5, <1>6, <1>7, <1>8
     DEF ServerInv, Server!TypeOK

-----------------------------------------------------------------------------
(* The network between them.                                               *)

(* A request that the device, on the socket it still has, has made. *)
LiveRequest(m) ==
    /\ asked # {}
    /\ m.type = "REG" => "REG" \in asked
    /\ m.type = "UNR" => "UNR" \in asked

(* Whatever is on its way from or to the device's open socket belongs to a *)
(* request that was made on it; nobody sends the device validation codes.  *)
NetworkInv ==
    /\ \A r \in toAS : r \in Request /\ (r.live => LiveRequest(r.msg))
    /\ senders \in Seq(BOOLEAN) /\ Len(senders) = Len(udpIn)
    /\ \A k \in DOMAIN udpIn : senders[k] => LiveRequest(udpIn[k])
    /\ \A m \in toPD : m \in Device!Answer /\ Device!Answerable(m)
    /\ revoked \subseteq Uids
    /\ pdIn = <<>>

(* The inductive invariant of the composition. *)
Inv == DeviceFacts!DeviceInv /\ ServerInv /\ NetworkInv

LEMMA Same_Types ==
    \A line : Device!Types(line) => DeviceFacts!Types(line)
  BY DEF Device!Types, DeviceFacts!Types, Device!Running,
         DeviceFacts!Running, Device!Memory, DeviceFacts!Memory

(* The steps of the device: what PD_proofs says of them. *)
LEMMA DevicePart ==
    ASSUME DeviceFacts!DeviceInv, pdIn = <<>>,
           \/ Device!DeviceStep \/ Device!Signal \/ Device!Kill \/ Device!Start
           \/ \E line \in Typed : Device!Types(line)
    PROVE  /\ Device!Next
           /\ DeviceFacts!DeviceInv'
           /\ pdIn' = <<>> /\ \A m \in sent' : m.type # "RVC"
           /\ (asOpen /\ ~asOpen') \/ asked \subseteq asked'
           /\ DeviceFacts!Believes' => DeviceFacts!Believes
<1>1. Device!Next
  BY TypedAssumption DEF Device!Next, Device!Outside
<1>2. DeviceFacts!Next
  BY <1>1, SameDevice
<1>3. DeviceFacts!DeviceInv'
  BY <1>2, DeviceParameters, DeviceFacts!DeviceInvKept
<1>4. (asOpen /\ ~asOpen') \/ asked \subseteq asked'
  BY <1>2, DeviceParameters, DeviceFacts!AskedUntilClosed
<1>5. CASE \E line \in Typed : Device!Types(line)
  <2>1. UNCHANGED <<pdIn, asIn, connected>> /\ sent' = {}
    BY <1>5 DEF Device!Types, Device!Memory
  <2>2. DeviceFacts!Believes' => DeviceFacts!Believes
    BY <2>1 DEF DeviceFacts!Believes
  <2> QED
    BY <1>1, <1>3, <1>4, <2>1, <2>2
<1>6. CASE \/ Device!DeviceStep \/ Device!Signal \/ Device!Kill
           \/ Device!Start
  <2>1. \/ DeviceFacts!DeviceStep \/ DeviceFacts!Signal \/ DeviceFacts!Kill
        \/ DeviceFacts!Start
    BY <1>6, SameStep, Same_Signal, Same_Kill, Same_Start
  <2>2. /\ pdIn' = <<>> /\ \A m \in sent' : m.type # "RVC"
        /\ DeviceFacts!Believes' => DeviceFacts!Believes
    BY <2>1, DeviceParameters, DeviceFacts!UndisturbedStep
  <2> QED
    BY <1>1, <1>3, <1>4, <2>2
<1> QED
  BY <1>5, <1>6

(* What the invariant of the device says of its socket. *)
LEMMA SocketFacts ==
    ASSUME DeviceFacts!DeviceInv
    PROVE  /\ asked # {} => asOpen
           /\ pc = "down" => ~asOpen /\ ~connected
           /\ \A k \in DOMAIN asIn : DeviceFacts!Answerable(asIn[k])
  BY DEF DeviceFacts!DeviceInv, DeviceFacts!AsksOnItsSocket

(* What the server reads is a message of its module. *)
LEMMA WireTyped ==
    ASSUME NEW m \in Device!DeviceMsg
    PROVE  Wire(m) \in Server!UdpMsg
<1>1. CASE m.type \in {"REG", "UNR"} /\ m.user = NoUser
  BY <1>1 DEF Wire, Server!UdpMsg
<1>2. CASE m.type \in {"REG", "UNR"} /\ m.user # NoUser
  <2>1. m.user \in Users
    BY <1>2 DEF Device!DeviceMsg
  <2>2. m.user.uid \in Uids /\ m.user.pass \in Passes
    BY <2>1, UsersAssumption
  <2> QED
    BY <1>2, <2>2 DEF Wire, Server!UdpMsg
<1>3. CASE m.type \notin {"REG", "UNR"}
  BY <1>3 DEF Wire, Server!UdpMsg, Device!DeviceMsg
<1> QED
  BY <1>1, <1>2, <1>3

(* What a step of the device posts is a live request. *)
LEMMA PostedIsLive ==
    ASSUME DeviceFacts!DeviceInv', \A m \in sent' : m.type # "RVC"
    PROVE  \A r \in Posted :
               r \in Request /\ r.live = TRUE /\ LiveRequest(r.msg)'
<1> SUFFICES ASSUME NEW r \in Posted
             PROVE  r \in Request /\ r.live = TRUE /\ LiveRequest(r.msg)'
  OBVIOUS
<1>1. PICK m \in sent' : r = [msg |-> Wire(m), live |-> TRUE]
  BY DEF Posted
<1>2. sent' \subseteq Device!DeviceMsg
  BY SameMessages DEF DeviceFacts!DeviceInv, DeviceFacts!TypeOK,
                      DeviceFacts!MessagesTypeOK
<1>3. Wire(m) \in Server!UdpMsg
  BY <1>2, WireTyped
<1>4. DeviceFacts!SentIsAsked(m)'
  BY DEF DeviceFacts!DeviceInv, DeviceFacts!AsksOnItsSocket
<1>5. m.type \in {"REG", "UNR", "ERR"}
  BY <1>2 DEF Device!DeviceMsg
<1>6. LiveRequest(Wire(m))'
  BY <1>4, <1>5 DEF DeviceFacts!SentIsAsked, LiveRequest, Wire
<1> QED
  BY <1>1, <1>3, <1>6 DEF Request

LEMMA WhatItCarries ==
    ASSUME NEW f, NEW n PROVE Carries(f, n) \subseteq f \cup n
  BY DEF Carries

(* The network's part of a step of the device. *)
LEMMA SocketsKeep ==
    ASSUME ServerInv, NetworkInv, Sockets, pdIn' = <<>>,
           UNCHANGED <<udpIn, revoked>>,
           (asOpen /\ ~asOpen') \/ asked \subseteq asked',
           \A r \in Posted :
               r \in Request /\ r.live = TRUE /\ LiveRequest(r.msg)'
    PROVE  NetworkInv'
<1>1. CASE asOpen /\ ~asOpen'
  <2>1. /\ toAS' \subseteq Closed(toAS) \cup Posted
        /\ senders' = [k \in DOMAIN senders |-> FALSE] /\ toPD' = {}
    BY <1>1, WhatItCarries DEF Sockets
  <2>2. \A r \in Closed(toAS) : r \in Request /\ r.live = FALSE
    BY DEF Closed, NetworkInv, Request
  <2>3. \A r \in toAS' : r \in Request /\ (r.live => LiveRequest(r.msg)')
    BY <2>1, <2>2
  <2>4. senders' \in Seq(BOOLEAN) /\ Len(senders') = Len(udpIn')
    <3> DEFINE n == Len(senders)
    <3>1. n \in Nat /\ DOMAIN senders = 1 .. n /\ n = Len(udpIn)
      BY DEF NetworkInv
    <3>2. senders' = [k \in 1 .. n |-> FALSE]
      BY <2>1, <3>1
    <3> HIDE DEF n
    <3> QED
      BY <3>1, <3>2
  <2>5. \A k \in DOMAIN udpIn' : senders'[k] = FALSE
    <3>1. DOMAIN udpIn' = DOMAIN senders
      BY DEF ServerInv, Server!TypeOK, NetworkInv
    <3> QED
      BY <2>1, <3>1
  <2> QED
    BY <2>1, <2>3, <2>4, <2>5 DEF NetworkInv
<1>2. CASE ~(asOpen /\ ~asOpen')
  <2>1. /\ toAS' \subseteq toAS \cup Posted /\ UNCHANGED <<senders, toPD>>
        /\ asked \subseteq asked'
    BY <1>2, WhatItCarries DEF Sockets
  <2>2. \A m : LiveRequest(m) => LiveRequest(m)'
    BY <2>1 DEF LiveRequest
  <2>3. \A m : Device!Answerable(m) => Device!Answerable(m)'
    BY <2>1 DEF Device!Answerable
  <2>4. \A r \in toAS' : r \in Request /\ (r.live => LiveRequest(r.msg)')
    BY <2>1, <2>2 DEF NetworkInv
  <2> QED
    BY <2>1, <2>2, <2>3, <2>4 DEF NetworkInv
<1> QED
  BY <1>1, <1>2

-----------------------------------------------------------------------------
(* The steps of the composition.                                           *)

(* The device is where it was while the others move. *)
LEMMA DeviceStill ==
    ASSUME DeviceFacts!DeviceInv, UNCHANGED deviceVars
    PROVE  /\ DeviceFacts!DeviceInv'
           /\ DeviceFacts!Believes' <=> DeviceFacts!Believes
           /\ asked' = asked /\ pdIn' = pdIn /\ UNCHANGED Device!pdVars
<1>1. UNCHANGED <<pc, exitCode, user, connected, asOpen, pdOpen, waitingReply,
                  nRequestTries, msgBuffer, ready, stdin, asIn, pdIn, asked,
                  resends, sent>>
  BY DEF deviceVars
<1>2. DeviceFacts!TypeOK => DeviceFacts!TypeOK'
  BY <1>1 DEF DeviceFacts!TypeOK, DeviceFacts!ControlTypeOK,
              DeviceFacts!UserTypeOK, DeviceFacts!MessagesTypeOK
<1>3. DeviceFacts!WaitsForItsRequest => DeviceFacts!WaitsForItsRequest'
  BY <1>1 DEF DeviceFacts!WaitsForItsRequest, DeviceFacts!Waits
<1>4. DeviceFacts!AsksOnItsSocket => DeviceFacts!AsksOnItsSocket'
  BY <1>1 DEF DeviceFacts!AsksOnItsSocket, DeviceFacts!Waits,
              DeviceFacts!Answerable, DeviceFacts!SentIsAsked
<1>5. DeviceFacts!Believes' <=> DeviceFacts!Believes
  BY <1>1 DEF DeviceFacts!Believes
<1> QED
  BY <1>1, <1>2, <1>3, <1>4, <1>5 DEF DeviceFacts!DeviceInv, Device!pdVars

LEMMA ServerStill ==
    ASSUME ServerInv, UNCHANGED serverVars
    PROVE  ServerInv' /\ udpIn' = udpIn /\ reg' = reg /\ UNCHANGED Server!vars
<1>1. UNCHANGED <<reg, pass, asExit, userList, pdList, fds, asReady, serving,
                  udpIn, backlog, inbox, peer, asSent, ledger>>
  BY DEF serverVars
<1>2. Server!TypeOK'
  BY <1>1 DEF ServerInv, Server!TypeOK
<1>3. NoClients'
  BY <1>1 DEF ServerInv, NoClients
<1> QED
  BY <1>1, <1>2, <1>3 DEF ServerInv, Server!vars

(* What is known of the network does not depend on anything else. *)
LEMMA NetworkStill ==
    ASSUME NetworkInv, asked' = asked, pdIn' = pdIn,
           UNCHANGED <<udpIn, senders>>, revoked' \subseteq Uids,
           toAS' \subseteq toAS, toPD' \subseteq toPD
    PROVE  NetworkInv'
<1>1. \A m : LiveRequest(m) => LiveRequest(m)'
  BY DEF LiveRequest
<1>2. \A m : Device!Answerable(m) => Device!Answerable(m)'
  BY DEF Device!Answerable
<1> QED
  BY <1>1, <1>2 DEF NetworkInv

-----------------------------------------------------------------------------
LEMMA DeviceMovesKeep ==
    ASSUME Inv, DeviceMoves
    PROVE  Inv' /\ Device!Next /\ UNCHANGED Server!vars
<1>1. DeviceFacts!DeviceInv /\ ServerInv /\ NetworkInv /\ pdIn = <<>>
  BY DEF Inv, NetworkInv
<1>2. /\ Device!Next /\ DeviceFacts!DeviceInv'
      /\ pdIn' = <<>> /\ \A m \in sent' : m.type # "RVC"
      /\ (asOpen /\ ~asOpen') \/ asked \subseteq asked'
  BY <1>1, DevicePart DEF DeviceMoves
<1>3. Sockets /\ UNCHANGED <<serverVars, revoked>>
  BY DEF DeviceMoves
<1>4. ServerInv' /\ udpIn' = udpIn /\ UNCHANGED Server!vars
  BY <1>1, <1>3, ServerStill
<1>5. \A r \in Posted : r \in Request /\ r.live = TRUE /\ LiveRequest(r.msg)'
  BY <1>2, PostedIsLive
<1>6. NetworkInv'
  BY <1>1, <1>2, <1>3, <1>4, <1>5, SocketsKeep
<1> QED
  BY <1>2, <1>4, <1>6 DEF Inv

LEMMA DeviceStartsKeep ==
    ASSUME Inv, DeviceStarts
    PROVE  Inv' /\ Device!Next /\ UNCHANGED Server!vars
<1>1. DeviceFacts!DeviceInv /\ ServerInv /\ NetworkInv /\ pdIn = <<>>
  BY DEF Inv, NetworkInv
<1>2. /\ Device!Next /\ DeviceFacts!DeviceInv' /\ pdIn' = <<>>
  BY <1>1, DevicePart DEF DeviceStarts
<1>3. asked = {} /\ asked' = {}
  BY <1>1, SocketFacts DEF DeviceStarts, Device!Start, Device!Renew
<1>4. ServerInv' /\ udpIn' = udpIn /\ UNCHANGED Server!vars
  BY <1>1, ServerStill DEF DeviceStarts
<1>5. NetworkInv'
  BY <1>1, <1>2, <1>3, <1>4, NetworkStill DEF DeviceStarts
<1> QED
  BY <1>2, <1>4, <1>5 DEF Inv

(* An answer that leaves the server answers a request of its socket.       *)
LEMMA RepliesAnswer ==
    ASSUME Inv, Server!HandleUDP, Head(senders)
    PROVE  \A m \in Replies : m \in Device!Answer /\ Device!Answerable(m)
<1>1. ServerInv /\ NetworkInv
  BY DEF Inv
<1>2. /\ udpIn # <<>> /\ Server!Datagram \in Server!UdpMsg
      /\ \A m \in Replies :
            m \in Device!Answer /\ AnswersTo(Server!Datagram, m)
  BY <1>1, Handled
<1>3. /\ 1 \in DOMAIN udpIn /\ Server!Datagram = udpIn[1]
      /\ Head(senders) = senders[1]
  <2>1. /\ udpIn \in Seq(Server!UdpMsg) /\ senders \in Seq(BOOLEAN)
        /\ Len(senders) = Len(udpIn)
    BY <1>1 DEF ServerInv, Server!TypeOK, NetworkInv
  <2>2. senders # <<>>
    <3>1. Len(udpIn) # 0
      BY <1>2, <2>1, EmptySeq
    <3> QED
      BY <2>1, <3>1
  <2> QED
    BY <1>2, <2>1, <2>2, TailIs DEF Server!Datagram
<1>4. LiveRequest(Server!Datagram)
  BY <1>1, <1>3 DEF NetworkInv
<1> QED
  BY <1>2, <1>4 DEF AnswersTo, LiveRequest, Device!Answerable

LEMMA ServerMovesKeep ==
    ASSUME Inv, ServerMoves
    PROVE  Inv' /\ Server!Next /\ UNCHANGED Device!pdVars
<1>1. DeviceFacts!DeviceInv /\ ServerInv /\ NetworkInv /\ pdIn = <<>>
  BY DEF Inv, NetworkInv
<1>2. /\ DeviceFacts!DeviceInv' /\ asked' = asked /\ pdIn' = <<>>
      /\ UNCHANGED Device!pdVars
  BY <1>1, DeviceStill DEF ServerMoves
<1>3. revoked' = revoked \cup (reg \ reg') /\ UNCHANGED toAS
  BY DEF ServerMoves
<1>4. revoked' \subseteq Uids
  BY <1>1, <1>3 DEF NetworkInv, ServerInv, Server!TypeOK
<1>5. \A m : LiveRequest(m) => LiveRequest(m)'
  BY <1>2 DEF LiveRequest
<1>6. \A m : Device!Answerable(m) => Device!Answerable(m)'
  BY <1>2 DEF Device!Answerable
<1>7. CASE ServerReads
  <2>1. /\ Server!HandleUDP /\ senders' = Tail(senders)
        /\ toPD' = IF Head(senders) THEN Carries(toPD, Replies) ELSE toPD
    BY <1>7 DEF ServerReads
  <2>2. ServerInv' /\ udpIn # <<>> /\ udpIn' = Tail(udpIn)
    BY <1>1, <2>1, Handled
  <2>3. Server!Next
    BY <2>1 DEF Server!Next, Server!ServerStep
  <2>4. \A m \in toPD' : m \in Device!Answer /\ Device!Answerable(m)
    BY <1>1, <2>1, RepliesAnswer, WhatItCarries DEF NetworkInv
  <2>5. /\ udpIn \in Seq(Server!UdpMsg) /\ senders \in Seq(BOOLEAN)
        /\ Len(senders) = Len(udpIn) /\ senders # <<>>
    BY <1>1, <2>2 DEF ServerInv, Server!TypeOK, NetworkInv
  <2>6. senders' \in Seq(BOOLEAN) /\ Len(senders') = Len(udpIn')
    BY <2>1, <2>2, <2>5, TailIs
  <2>7. \A k \in DOMAIN udpIn' : senders'[k] => LiveRequest(udpIn'[k])
    <3> SUFFICES ASSUME NEW k \in DOMAIN udpIn', senders'[k]
                 PROVE  LiveRequest(udpIn'[k])
      OBVIOUS
    <3>1. k + 1 \in DOMAIN udpIn /\ udpIn'[k] = udpIn[k + 1]
      BY <2>2, <2>5, TailIs
    <3>2. DOMAIN udpIn' = DOMAIN senders'
      BY <2>2, <2>5, <2>6
    <3>3. senders'[k] = senders[k + 1]
      BY <2>1, <2>5, <3>2, TailIs
    <3> QED
      BY <1>1, <3>1, <3>3 DEF NetworkInv
  <2>8. NetworkInv'
    BY <1>1, <1>2, <1>3, <1>4, <1>5, <1>6, <2>4, <2>6, <2>7 DEF NetworkInv
  <2> QED
    BY <1>2, <2>2, <2>3, <2>8 DEF Inv
<1>8. CASE ServerOtherwise
  <2>1. /\ \/ Server!Select \/ Server!LoopHead \/ Server!exitAS
           \/ Server!Signal \/ Server!Kill \/ Server!Start
        /\ senders' = IF udpIn' = udpIn THEN senders ELSE <<>>
        /\ UNCHANGED toPD
    BY <1>8 DEF ServerOtherwise
  <2>2. ServerInv' /\ udpIn' \in {udpIn, <<>>}
    BY <1>1, <2>1, NotHandled
  <2>3. Server!Next
    BY <2>1 DEF Server!Next, Server!ServerStep
  <2>4. CASE udpIn' = udpIn
    BY <1>1, <1>2, <1>3, <1>4, <2>1, <2>2, <2>3, <2>4, NetworkStill DEF Inv
  <2>5. CASE udpIn' = <<>> /\ senders' = <<>>
    <3>1. /\ senders' \in Seq(BOOLEAN) /\ Len(senders') = Len(udpIn')
          /\ DOMAIN udpIn' = {}
      BY <2>5
    <3>2. NetworkInv'
      BY <1>1, <1>2, <1>3, <1>4, <1>5, <1>6, <2>1, <3>1 DEF NetworkInv
    <3> QED
      BY <1>2, <2>2, <2>3, <3>2 DEF Inv
  <2> QED
    BY <2>1, <2>2, <2>4, <2>5
<1> QED
  BY <1>7, <1>8 DEF ServerMoves

LEMMA RequestArrivesKeeps ==
    ASSUME Inv, NEW r \in toAS, RequestArrives(r)
    PROVE  Inv' /\ Server!Next /\ UNCHANGED Device!pdVars
<1>1. DeviceFacts!DeviceInv /\ ServerInv /\ NetworkInv /\ pdIn = <<>>
  BY DEF Inv, NetworkInv
<1>2. /\ DeviceFacts!DeviceInv' /\ asked' = asked /\ pdIn' = <<>>
      /\ UNCHANGED Device!pdVars
  BY <1>1, DeviceStill DEF RequestArrives
<1>3. /\ Server!UdpArrives(r.msg) /\ senders' = Append(senders, r.live)
      /\ UNCHANGED <<toAS, toPD, revoked>>
  BY DEF RequestArrives
<1>4. r.msg \in Server!UdpMsg /\ r.live \in BOOLEAN
      /\ (r.live => LiveRequest(r.msg))
  BY <1>1 DEF NetworkInv, Request
<1>5. Server!Next
  BY <1>3, <1>4 DEF Server!Next, Server!Clients
<1>6. /\ udpIn' = Append(udpIn, r.msg) /\ asSent' = {}
      /\ UNCHANGED <<reg, pass, asExit, userList, pdList, fds, asReady,
                     serving, backlog, inbox, peer, ledger>>
  BY <1>3 DEF Server!UdpArrives, Server!Outside
<1>7. /\ udpIn \in Seq(Server!UdpMsg) /\ senders \in Seq(BOOLEAN)
      /\ Len(senders) = Len(udpIn)
  BY <1>1 DEF ServerInv, Server!TypeOK, NetworkInv
<1>8. udpIn' \in Seq(Server!UdpMsg)
  BY <1>4, <1>6, <1>7
<1>9. ServerInv'
  BY <1>1, <1>6, <1>8 DEF ServerInv, Server!TypeOK, NoClients
<1>10. senders' \in Seq(BOOLEAN) /\ Len(senders') = Len(udpIn')
  BY <1>3, <1>4, <1>6, <1>7
<1>11. \A m : LiveRequest(m) => LiveRequest(m)'
  BY <1>2 DEF LiveRequest
<1>12. \A m : Device!Answerable(m) => Device!Answerable(m)'
  BY <1>2 DEF Device!Answerable
<1>13. \A k \in DOMAIN udpIn' : senders'[k] => LiveRequest(udpIn'[k])
  <2> SUFFICES ASSUME NEW k \in DOMAIN udpIn', senders'[k]
               PROVE  LiveRequest(udpIn'[k])
    OBVIOUS
  <2>1. CASE k = Len(udpIn) + 1
    BY <1>3, <1>4, <1>6, <1>7, <2>1
  <2>2. CASE k # Len(udpIn) + 1
    <3>1. k \in DOMAIN udpIn /\ udpIn'[k] = udpIn[k]
      BY <1>6, <1>7, <2>2
    <3>2. DOMAIN senders = DOMAIN udpIn /\ k \in DOMAIN senders
      BY <1>7, <3>1
    <3>3. senders'[k] = senders[k]
      BY <1>3, <1>4, <1>7, <3>2
    <3> QED
      BY <1>1, <3>1, <3>3 DEF NetworkInv
  <2> QED
    BY <2>1, <2>2
<1>14. NetworkInv'
  BY <1>1, <1>2, <1>3, <1>10, <1>11, <1>12, <1>13 DEF NetworkInv
<1> QED
  BY <1>2, <1>5, <1>9, <1>14 DEF Inv

LEMMA AnswerArrivesKeeps ==
    ASSUME Inv, NEW m \in toPD, AnswerArrives(m)
    PROVE  /\ Inv' /\ Device!Next /\ UNCHANGED Server!vars
           /\ DeviceFacts!Believes'
                 => DeviceFacts!Believes \/ (m.type = "RRG" /\ m.status = "OK")
<1>1. DeviceFacts!DeviceInv /\ ServerInv /\ NetworkInv /\ pdIn = <<>>
  BY DEF Inv, NetworkInv
<1>2. /\ Device!AnswerArrives(m) /\ m \in Device!Answer
      /\ Device!Answerable(m)
      /\ UNCHANGED <<toPD, serverVars, toAS, senders, revoked>>
  BY <1>1 DEF AnswerArrives, NetworkInv
<1>3. Device!Next
  BY <1>2 DEF Device!Next, Device!Outside
<1>4. DeviceFacts!DeviceInv'
  BY <1>1, <1>3, SameDevice, DeviceParameters, DeviceFacts!DeviceInvKept
<1>5. /\ asIn' = Append(asIn, m)
      /\ UNCHANGED <<asked, pdIn, connected>>
  BY <1>2 DEF Device!AnswerArrives, Device!Memory
<1>6. ServerInv' /\ udpIn' = udpIn /\ UNCHANGED Server!vars
  BY <1>1, <1>2, ServerStill
<1>7. NetworkInv'
  BY <1>1, <1>2, <1>5, <1>6, NetworkStill DEF NetworkInv
<1>8. asIn \in Seq(Device!Answer)
  BY <1>1, SameMessages DEF DeviceFacts!DeviceInv, DeviceFacts!TypeOK,
                            DeviceFacts!MessagesTypeOK
<1>9. \A k \in DOMAIN asIn' :
          asIn'[k] = m \/ (k \in DOMAIN asIn /\ asIn'[k] = asIn[k])
  BY <1>2, <1>5, <1>8
<1>10. DeviceFacts!Believes'
          => DeviceFacts!Believes \/ (m.type = "RRG" /\ m.status = "OK")
  BY <1>5, <1>9 DEF DeviceFacts!Believes
<1> QED
  BY <1>3, <1>4, <1>6, <1>7, <1>10 DEF Inv

(* A datagram is lost, or nothing happens. *)
LEMMA LostKeeps ==
    ASSUME Inv, UNCHANGED <<deviceVars, serverVars, senders, revoked>>,
           toAS' \subseteq toAS, toPD' \subseteq toPD
    PROVE  Inv' /\ UNCHANGED Device!pdVars /\ UNCHANGED Server!vars
<1>1. DeviceFacts!DeviceInv /\ ServerInv /\ NetworkInv
  BY DEF Inv
<1>2. /\ DeviceFacts!DeviceInv' /\ asked' = asked /\ pdIn' = pdIn
      /\ UNCHANGED Device!pdVars
  BY <1>1, DeviceStill
<1>3. ServerInv' /\ udpIn' = udpIn /\ UNCHANGED Server!vars
  BY <1>1, ServerStill
<1>4. NetworkInv'
  BY <1>1, <1>2, <1>3, NetworkStill DEF NetworkInv
<1> QED
  BY <1>2, <1>3, <1>4 DEF Inv

LEMMA NextKeeps ==
    ASSUME Inv, [Next]_vars
    PROVE  /\ Inv'
           /\ Device!Next \/ UNCHANGED Device!pdVars
           /\ Server!Next \/ UNCHANGED Server!vars
<1>1. CASE DeviceMoves
  BY <1>1, DeviceMovesKeep
<1>2. CASE DeviceStarts
  BY <1>2, DeviceStartsKeep
<1>3. CASE ServerMoves
  BY <1>3, ServerMovesKeep
<1>4. ASSUME NEW r \in toAS, RequestArrives(r)
      PROVE  /\ Inv'
             /\ Device!Next \/ UNCHANGED Device!pdVars
             /\ Server!Next \/ UNCHANGED Server!vars
  BY <1>4, RequestArrivesKeeps
<1>5. ASSUME NEW m \in toPD, AnswerArrives(m)
      PROVE  /\ Inv'
             /\ Device!Next \/ UNCHANGED Device!pdVars
             /\ Server!Next \/ UNCHANGED Server!vars
  BY <1>5, AnswerArrivesKeeps
<1>6. CASE \E r \in toAS : RequestLost(r)
  BY <1>6, LostKeeps DEF RequestLost
<1>7. CASE \E m \in toPD : AnswerLost(m)
  BY <1>7, LostKeeps DEF AnswerLost
<1>8. CASE UNCHANGED vars
  BY <1>8, LostKeeps DEF vars, networkVars
<1> QED
  BY <1>1, <1>2, <1>3, <1>4, <1>5, <1>6, <1>7, <1>8 DEF Next

LEMMA InitHolds == Init => Inv
<1> SUFFICES ASSUME Init PROVE Inv
  OBVIOUS
<1>1. DeviceFacts!Init
  BY Same_Init DEF Init
<1>2. DeviceFacts!DeviceInv
  BY <1>1, DeviceParameters, DeviceFacts!DeviceInvStarts
<1>3. ServerInv /\ udpIn = <<>>
  BY ServerInits DEF Init
<1>4. NetworkInv
  BY <1>3 DEF Init, NetworkInv, Device!Init
<1> QED
  BY <1>2, <1>3, <1>4 DEF Inv

LEMMA Invariance == Spec => []Inv
<1>1. Inv /\ [Next]_vars => Inv'
  BY NextKeeps
<1> QED
  BY <1>1, InitHolds, PTL DEF Spec

-----------------------------------------------------------------------------
(* Type correctness of the two ends and of the network between them.       *)
THEOREM TypeCorrect == Spec => []TypeOK
<1>1. Inv => TypeOK
  <2> SUFFICES ASSUME Inv PROVE TypeOK
    OBVIOUS
  <2>1. Device!TypeOK
    BY SameTypes DEF Inv, DeviceFacts!DeviceInv
  <2>2. Server!TypeOK
    BY DEF Inv, ServerInv
  <2>3. NetworkTypeOK
    BY DEF Inv, NetworkInv, NetworkTypeOK
  <2> QED
    BY <2>1, <2>2, <2>3 DEF TypeOK
<1> QED
  BY <1>1, Invariance, PTL

(* Whatever the network loses, repeats or delays, what arrives at the      *)
(* device is an answer to a request it made on the socket it still has:    *)
(* the device of the composition is the device of PD.                      *)
THEOREM DeviceIsPD == Spec => DeviceBehaves
<1>1. Init => Device!Init
  BY DEF Init
<1>2. Inv /\ [Next]_vars => [Device!Next]_(Device!pdVars)
  BY NextKeeps
<1> QED
  BY <1>1, <1>2, Invariance, PTL DEF Spec, DeviceBehaves, Device!Spec

(* So what PD_proofs says of a device is true of this one: over the real   *)
(* network it resends only the request it waits for, at most               *)
(* NREQUEST_TRIES times, and listens exactly while it believes it is       *)
(* registered.                                                             *)
THEOREM DeviceKeepsItsWord ==
    Spec => [](/\ Device!WaitsForItsRequest
               /\ Device!ServesIffConnected
               /\ Device!ResendsBounded)
<1>1. Device!Spec => DeviceFacts!Spec
  <2>1. Device!Init => DeviceFacts!Init
    BY Same_Init
  <2>2. [Device!Next]_(Device!pdVars) => [DeviceFacts!Next]_(DeviceFacts!pdVars)
    BY SameDevice DEF Device!pdVars, DeviceFacts!pdVars
  <2> QED
    BY <2>1, <2>2, PTL DEF Device!Spec, DeviceFacts!Spec
<1>2. DeviceFacts!Spec => [](/\ DeviceFacts!WaitsForItsRequest
                             /\ DeviceFacts!ServesIffConnected
                             /\ DeviceFacts!ResendsBounded)
  BY DeviceParameters, DeviceFacts!ResendsItsRequest,
     DeviceFacts!ListensWhileConnected, DeviceFacts!NoExcessResends, PTL
<1>3. /\ DeviceFacts!WaitsForItsRequest
      /\ DeviceFacts!ServesIffConnected
      /\ DeviceFacts!ResendsBounded
      => /\ Device!WaitsForItsRequest
         /\ Device!ServesIffConnected
         /\ Device!ResendsBounded
  BY DEF Device!WaitsForItsRequest, DeviceFacts!WaitsForItsRequest,
         Device!Waits, DeviceFacts!Waits, Device!ServesIffConnected,
         DeviceFacts!ServesIffConnected, Device!ResendsBounded,
         DeviceFacts!ResendsBounded
<1> QED
  BY <1>1, <1>2, <1>3, DeviceIsPD, PTL DEF DeviceBehaves

(* What the server receives is what its module lets devices send, NULL     *)
(* uids included: the server of the composition is the server of AS.       *)
THEOREM ServerIsAS == Spec => ServerBehaves
<1>1. Init => Server!Init
  BY DEF Init
<1>2. Inv /\ [Next]_vars => [Server!Next]_(Server!vars)
  BY NextKeeps
<1> QED
  BY <1>1, <1>2, Invariance, PTL DEF Spec, ServerBehaves, Server!Spec

-----------------------------------------------------------------------------
(* With one uid to register, what the device believes was so.              *)

OneUid == \A u, v \in Users : u.uid = v.uid

(* Only users who can be typed are ever to be registered. *)
OfAUser(m) == m.type = "REG" => \E u \in Users : m.uid = u.uid

Acknowledged(m) == m.type = "RRG" /\ m.status = "OK"

Known == \A u \in Users : u.uid \in reg \cup revoked

(* From the moment the server answers OK until the device is started again *)
(* it has the user registered, or unregistered it in the meantime.         *)
AgreeInv ==
    /\ \A r \in toAS : OfAUser(r.msg)
    /\ \A k \in DOMAIN udpIn : OfAUser(udpIn[k])
    /\ OneUid /\ (DeviceFacts!Believes \/ \E m \in toPD : Acknowledged(m))
       => Known

LEMMA PostedOfAUser ==
    ASSUME Device!TypeOK' PROVE \A r \in Posted : OfAUser(r.msg)
<1> SUFFICES ASSUME NEW r \in Posted PROVE OfAUser(r.msg)
  OBVIOUS
<1>1. PICK m \in sent' : r = [msg |-> Wire(m), live |-> TRUE]
  BY DEF Posted
<1>2. m \in Device!DeviceMsg
  BY DEF Device!TypeOK, Device!MessagesTypeOK
<1>3. m.type = "REG" => m.user \in Users \cup {NoUser}
  BY <1>2 DEF Device!DeviceMsg
<1> QED
  BY <1>1, <1>3 DEF OfAUser, Wire

(* No step forgets what the server has done. *)
LEMMA KnownStays ==
    ASSUME Known, ServerMoves \/ UNCHANGED <<reg, revoked>>
    PROVE  Known'
  BY DEF Known, ServerMoves

(* The agreement after a step that brings neither requests to the server   *)
(* nor acknowledgements to the device.                                     *)
LEMMA NothingNew ==
    ASSUME AgreeInv, ServerMoves \/ UNCHANGED <<reg, revoked>>,
           \A r \in toAS' : OfAUser(r.msg),
           udpIn' \in {udpIn, <<>>},
           DeviceFacts!Believes'
               => DeviceFacts!Believes \/ \E m \in toPD : Acknowledged(m),
           toPD' \subseteq toPD
    PROVE  AgreeInv'
<1>1. \A k \in DOMAIN udpIn' : OfAUser(udpIn'[k])
  BY DEF AgreeInv
<1>2. OneUid /\ (DeviceFacts!Believes' \/ \E m \in toPD' : Acknowledged(m))
      => Known'
  BY KnownStays DEF AgreeInv
<1> QED
  BY <1>1, <1>2 DEF AgreeInv, OneUid

LEMMA AgreementKept ==
    ASSUME Inv, Inv', AgreeInv, [Next]_vars
    PROVE  AgreeInv'
<1>1. DeviceFacts!DeviceInv /\ ServerInv /\ NetworkInv /\ pdIn = <<>>
  BY DEF Inv, NetworkInv
<1>2. CASE DeviceMoves
  <2>1. /\ Sockets /\ UNCHANGED <<serverVars, revoked>>
    BY <1>2 DEF DeviceMoves
  <2>2. UNCHANGED <<reg, revoked, udpIn>>
    BY <2>1 DEF serverVars
  <2>3. DeviceFacts!Believes' => DeviceFacts!Believes
    BY <1>1, <1>2, DevicePart DEF DeviceMoves
  <2>4. Device!TypeOK'
    <3>1. (DeviceFacts!TypeOK => Device!TypeOK)'
      BY SameTypes, PTL
    <3> QED
      BY <3>1 DEF Inv, DeviceFacts!DeviceInv
  <2>5. \A r \in Closed(toAS) : \E q \in toAS : r.msg = q.msg
    BY <1>1 DEF Closed, NetworkInv, Request
  <2>6. toAS' \subseteq toAS \cup Closed(toAS) \cup Posted
        /\ toPD' \subseteq toPD
    BY <2>1, WhatItCarries DEF Sockets
  <2>7. \A r \in toAS' : OfAUser(r.msg)
    BY <2>4, <2>5, <2>6, PostedOfAUser DEF AgreeInv
  <2> QED
    BY <2>2, <2>3, <2>6, <2>7, NothingNew
<1>3. CASE DeviceStarts
  <2>1. /\ pc = "down" /\ asIn' = <<>> /\ connected' = FALSE
        /\ UNCHANGED <<toAS, senders, toPD, serverVars>>
    BY <1>3 DEF DeviceStarts, Device!Start, Device!Renew
  <2>2. toPD = {}
    BY <1>1, <2>1, SocketFacts DEF NetworkInv, Device!Answerable
  <2>3. ~DeviceFacts!Believes'
    BY <2>1 DEF DeviceFacts!Believes
  <2>4. udpIn' = udpIn
    BY <2>1 DEF serverVars
  <2> QED
    BY <2>1, <2>2, <2>3, <2>4 DEF AgreeInv
<1>4. CASE ServerMoves
  <2>1. DeviceFacts!Believes' <=> DeviceFacts!Believes
    BY <1>1, <1>4, DeviceStill DEF ServerMoves
  <2>2. UNCHANGED toAS
    BY <1>4 DEF ServerMoves
  <2>3. CASE ServerOtherwise
    <3>1. UNCHANGED toPD
      BY <2>3 DEF ServerOtherwise
    <3>2. udpIn' \in {udpIn, <<>>}
      BY <1>1, <2>3, NotHandled DEF ServerOtherwise
    <3> QED
      BY <1>4, <2>1, <2>2, <3>1, <3>2, NothingNew DEF AgreeInv
  <2>4. CASE ServerReads
    <3>1. Server!HandleUDP /\ toPD' \subseteq toPD \cup Replies
      BY <2>4, WhatItCarries DEF ServerReads
    <3>2. /\ udpIn # <<>> /\ udpIn' = Tail(udpIn)
          /\ \A m \in Replies :
                /\ AnswersTo(Server!Datagram, m)
                /\ Acknowledged(m) => Server!Datagram.uid \in reg'
      BY <1>1, <3>1, Handled DEF Acknowledged
    <3>3. /\ 1 \in DOMAIN udpIn /\ Server!Datagram = udpIn[1]
          /\ \A k \in DOMAIN udpIn' :
                k + 1 \in DOMAIN udpIn /\ udpIn'[k] = udpIn[k + 1]
      BY <1>1, <3>2, TailIs DEF ServerInv, Server!TypeOK, Server!Datagram
    <3>4. \A k \in DOMAIN udpIn' : OfAUser(udpIn'[k])
      BY <3>3 DEF AgreeInv
    <3>5. OfAUser(Server!Datagram)
      BY <3>3 DEF AgreeInv
    <3>6. ASSUME OneUid, NEW m \in Replies, Acknowledged(m) PROVE Known'
      <4>1. Server!Datagram.type = "REG" /\ Server!Datagram.uid \in reg'
        BY <3>2, <3>6 DEF AnswersTo, Acknowledged
      <4> QED
        BY <3>5, <3>6, <4>1 DEF OfAUser, OneUid, Known
    <3>7. OneUid
          /\ (DeviceFacts!Believes' \/ \E m \in toPD' : Acknowledged(m))
          => Known'
      BY <1>4, <2>1, <3>1, <3>6, KnownStays DEF AgreeInv
    <3> QED
      BY <2>2, <3>4, <3>7 DEF AgreeInv, OneUid
  <2> QED
    BY <1>4, <2>3, <2>4 DEF ServerMoves
<1>5. ASSUME NEW r \in toAS, RequestArrives(r) PROVE AgreeInv'
  <2>1. /\ udpIn' = Append(udpIn, r.msg)
        /\ UNCHANGED <<reg, revoked, toAS, toPD, deviceVars>>
    BY <1>5 DEF RequestArrives, Server!UdpArrives, Server!Outside
  <2>2. DeviceFacts!Believes' <=> DeviceFacts!Believes
    BY <1>1, <2>1, DeviceStill
  <2>3. udpIn \in Seq(Server!UdpMsg)
    BY <1>1 DEF ServerInv, Server!TypeOK
  <2>4. \A k \in DOMAIN udpIn' :
            udpIn'[k] = r.msg \/ (k \in DOMAIN udpIn /\ udpIn'[k] = udpIn[k])
    BY <2>1, <2>3
  <2>5. \A k \in DOMAIN udpIn' : OfAUser(udpIn'[k])
    BY <2>4 DEF AgreeInv
  <2> QED
    BY <2>1, <2>2, <2>5 DEF AgreeInv, Known, OneUid
<1>6. ASSUME NEW m \in toPD, AnswerArrives(m) PROVE AgreeInv'
  <2>1. UNCHANGED <<toPD, serverVars, toAS, revoked>>
    BY <1>6 DEF AnswerArrives
  <2>2. UNCHANGED <<reg, udpIn>>
    BY <2>1 DEF serverVars
  <2>3. DeviceFacts!Believes' => DeviceFacts!Believes \/ Acknowledged(m)
    BY <1>6, AnswerArrivesKeeps DEF Acknowledged
  <2> QED
    BY <2>1, <2>2, <2>3, NothingNew DEF AgreeInv
<1>7. ASSUME UNCHANGED <<deviceVars, serverVars, revoked>>,
             toAS' \subseteq toAS, toPD' \subseteq toPD
      PROVE  AgreeInv'
  <2>1. UNCHANGED <<reg, udpIn>>
    BY <1>7 DEF serverVars
  <2>2. DeviceFacts!Believes' <=> DeviceFacts!Believes
    BY <1>1, <1>7, DeviceStill
  <2> QED
    BY <1>7, <2>1, <2>2, NothingNew DEF AgreeInv
<1>8. CASE \E r \in toAS : RequestLost(r)
  BY <1>7, <1>8 DEF RequestLost
<1>9. CASE \E m \in toPD : AnswerLost(m)
  BY <1>7, <1>9 DEF AnswerLost
<1>10. CASE UNCHANGED vars
  BY <1>7, <1>10 DEF vars, networkVars
<1> QED
  BY <1>2, <1>3, <1>4, <1>5, <1>6, <1>8, <1>9, <1>10 DEF Next

(* If all that can be typed is one uid, then a device that believes it is  *)
(* registered is registered, or the server unregistered it since the       *)
(* device was started, whatever the network does and whoever is killed.    *)
THEOREM DeviceIsRegistered == Spec => [](OneUid => RegisteredIsRegistered)
<1>1. Init => AgreeInv
  BY DEF Init, AgreeInv, Server!Init, Device!Init, DeviceFacts!Believes
<1>2. Inv /\ Inv' /\ AgreeInv /\ [Next]_vars => AgreeInv'
  BY AgreementKept
<1>3. Inv /\ AgreeInv => (OneUid => RegisteredIsRegistered)
  <2> SUFFICES ASSUME Inv, AgreeInv, OneUid PROVE RegisteredIsRegistered
    OBVIOUS
  <2>1. user \in Users \cup {NoUser}
    BY DEF Inv, DeviceFacts!DeviceInv, DeviceFacts!TypeOK,
           DeviceFacts!UserTypeOK
  <2> QED
    BY <2>1 DEF AgreeInv, DeviceFacts!Believes, Known, RegisteredIsRegistered
<1> QED
  BY <1>1, <1>2, <1>3, Invariance, PTL DEF Spec
=============================================================================
