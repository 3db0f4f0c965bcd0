------------------------------ MODULE AS_proofs ------------------------------
(***************************************************************************)
(* What holds of the authentication server for any users, connections,     *)
(* numbers and bounds: its invariants first, then that it keeps the        *)
(* promise of Authorisation.                                               *)
(***************************************************************************)
EXTENDS AS, SequenceTheorems, FiniteSetTheorems, WellFoundedInduction, TLAPS

-----------------------------------------------------------------------------
(* Indices and lists. *)

(* A set of naturals that is not empty has a least element, which First is. *)
LEMMA FirstIsLeast ==
    ASSUME NEW S \in SUBSET Nat, S # {}
    PROVE  First(S) \in S /\ \A j \in S : First(S) <= j
<1> DEFINE below == {0 .. k : k \in S}
           R == StrictSubsetOrdering(Nat)
<1>1. below \subseteq FiniteSubsetsOf(Nat)
  <2>1. ASSUME NEW k \in Nat PROVE IsFiniteSet(0 .. k)
    BY FS_Interval
  <2>2. \A k \in Nat : 0 .. k \in SUBSET Nat
    OBVIOUS
  <2>3. \A k \in S : 0 .. k \in FiniteSubsetsOf(Nat)
    BY <2>1, <2>2 DEF FiniteSubsetsOf
  <2> QED
    BY <2>3
<1>2. below # {}
  OBVIOUS
<1>3. PICK x \in below : \A y \in below : ~(<<y, x>> \in R)
  <2> HIDE DEF below, R
  <2>1. IsWellFoundedOn(R, FiniteSubsetsOf(Nat))
    BY FS_StrictSubsetOrderingWellFounded DEF R
  <2> QED
    BY <1>1, <1>2, <2>1, WFMin
<1>4. PICK k \in S : x = 0 .. k
  BY <1>3
<1>5. ASSUME NEW j \in S, j < k PROVE FALSE
  <2>1. 0 .. j \in below
    OBVIOUS
  <2>2. <<0 .. j, x>> \notin R
    BY <1>3, <2>1
  <2>3. 0 .. j \in SUBSET Nat /\ x \in SUBSET Nat
    BY <1>4
  <2>4. 0 .. j \subseteq x
    BY <1>4, <1>5
  <2>5. k \in x /\ k \notin 0 .. j
    BY <1>4, <1>5
  <2> QED
    BY <2>2, <2>3, <2>4, <2>5 DEF StrictSubsetOrdering
<1>6. \A j \in S : k <= j
  BY <1>5
<1> QED
  BY <1>6 DEF First

(* A bounded set of indices that is not empty has a greatest element. *)
LEMMA LastIsGreatest ==
    ASSUME NEW n \in Nat, NEW S \in SUBSET (1 .. n), S # {}
    PROVE  Last(S) \in S /\ \A j \in S : j <= Last(S)
<1> DEFINE B == {k \in Nat : \A j \in S : j <= k}
<1>1. n \in B /\ B \in SUBSET Nat
  OBVIOUS
<1>2. PICK k \in B : \A b \in B : k <= b
  <2>1. First(B) \in B /\ \A b \in B : First(B) <= b
    BY <1>1, FirstIsLeast
  <2> QED
    BY <2>1
<1>3. k \in S
  <2> SUFFICES ASSUME k \notin S PROVE FALSE
    OBVIOUS
  <2>1. \A j \in S : j <= k - 1
    OBVIOUS
  <2>2. PICK j \in S : TRUE
    OBVIOUS
  <2>3. k # 0
    BY <2>1, <2>2
  <2>4. k - 1 \in B
    BY <2>1, <2>3
  <2> QED
    BY <1>2, <2>4
<1> QED
  BY <1>2, <1>3 DEF Last

(* What is left of a list after removals: its elements from some index on, *)
(* past all the removed ones.                                              *)
LEMMA DropLeavesASuffix ==
    ASSUME NEW T, NEW s \in Seq(T), NEW S \in SUBSET DOMAIN s
    PROVE  /\ DropThroughAll(s, S) \in Seq(T)
           /\ \E k \in 0 .. Len(s) :
                /\ DOMAIN DropThroughAll(s, S) = 1 .. Len(s) - k
                /\ \A i \in 1 .. Len(s) - k :
                      /\ DropThroughAll(s, S)[i] = s[i + k]
                      /\ i + k \in DOMAIN s \ S
<1> DEFINE d == DropThroughAll(s, S)
<1>0. Len(s) \in Nat /\ DOMAIN s = 1 .. Len(s)
  BY LenProperties
<1>1. CASE S = {}
  <2>1. d = s
    BY <1>1 DEF DropThroughAll
  <2>2. /\ DOMAIN d = 1 .. Len(s) - 0
        /\ \A i \in 1 .. Len(s) - 0 :
              d[i] = s[i + 0] /\ i + 0 \in DOMAIN s \ S
    BY <1>0, <1>1, <2>1
  <2>3. 0 \in 0 .. Len(s)
    BY <1>0
  <2> QED
    BY <2>1, <2>2, <2>3
<1>2. CASE S # {}
  <2>1. Last(S) \in S /\ \A j \in S : j <= Last(S)
    BY <1>0, <1>2, LastIsGreatest
  <2>2. d = SubSeq(s, Last(S) + 1, Len(s))
    BY <1>2 DEF DropThroughAll
  <2>3. \A i \in Last(S) + 1 .. Len(s) : s[i] \in T
    BY <1>0, <2>1, ElementOfSeq
  <2>4. /\ d \in Seq(T)
        /\ Len(d) = Len(s) - Last(S)
        /\ \A i \in 1 .. Len(s) - Last(S) : d[i] = s[i + Last(S)]
    BY <1>0, <2>1, <2>2, <2>3, SubSeqProperties
  <2>5. DOMAIN d = 1 .. Len(s) - Last(S)
    BY <2>4, LenProperties
  <2>6. \A i \in 1 .. Len(s) - Last(S) : i + Last(S) \in DOMAIN s \ S
    BY <1>0, <2>1
  <2>7. Last(S) \in 0 .. Len(s)
    BY <1>0, <2>1
  <2> QED
    BY <2>4, <2>5, <2>6, <2>7
<1> QED
  BY <1>1, <1>2

(* What a removal leaves is made of elements that were not removed. *)
LEMMA DropKeepsTheRest ==
    ASSUME NEW T, NEW s \in Seq(T), NEW S \in SUBSET DOMAIN s
    PROVE  /\ DropThroughAll(s, S) \in Seq(T)
           /\ \A i \in DOMAIN DropThroughAll(s, S) :
                 \E j \in DOMAIN s \ S : DropThroughAll(s, S)[i] = s[j]
BY DropLeavesASuffix

(* A new element in front leaves the others as they were. *)
LEMMA InFront ==
    ASSUME NEW T, NEW s \in Seq(T), NEW e \in T
    PROVE  /\ <<e>> \o s \in Seq(T)
           /\ DOMAIN (<<e>> \o s) = 1 .. Len(s) + 1
           /\ \A i \in 1 .. Len(s) + 1 :
                 (<<e>> \o s)[i] = IF i = 1 THEN e ELSE s[i - 1]
<1>1. <<e>> \in Seq(T) /\ Len(<<e>>) = 1 /\ <<e>>[1] = e
  OBVIOUS
<1>2. Len(s) \in Nat
  BY LenProperties
<1>3. /\ <<e>> \o s \in Seq(T)
      /\ Len(<<e>> \o s) = 1 + Len(s)
      /\ \A i \in 1 .. 1 + Len(s) :
            (<<e>> \o s)[i] = IF i <= 1 THEN <<e>>[i] ELSE s[i - 1]
  BY <1>1, ConcatProperties
<1>4. DOMAIN (<<e>> \o s) = 1 .. Len(s) + 1
  BY <1>2, <1>3, LenProperties
<1> QED
  BY <1>1, <1>2, <1>3, <1>4

-----------------------------------------------------------------------------
(* The state. *)

(* The fields of the sessions and of the waiting messages. *)
LEMMA Fields ==
    ASSUME TypeOK
    PROVE  /\ DOMAIN userList = 1 .. Len(userList) /\ Len(userList) \in Nat
           /\ DOMAIN pdList = 1 .. Len(pdList) /\ Len(pdList) \in Nat
           /\ \A i \in DOMAIN userList :
                 /\ userList[i] \in Node
                 /\ userList[i].conn \in Conns
                 /\ userList[i].uid \in Uids \cup {NoUid}
           /\ \A k \in DOMAIN pdList :
                 /\ pdList[k] \in Waiting
                 /\ pdList[k].uid \in Uids
<1>1. userList \in Seq(Node) /\ pdList \in Seq(Waiting)
  BY DEF TypeOK
<1>2. /\ DOMAIN userList = 1 .. Len(userList) /\ Len(userList) \in Nat
      /\ DOMAIN pdList = 1 .. Len(pdList) /\ Len(pdList) \in Nat
  BY <1>1, LenProperties
<1>3. \A i \in DOMAIN userList : userList[i] \in Node
  BY <1>1, <1>2, ElementOfSeq
<1>4. \A k \in DOMAIN pdList : pdList[k] \in Waiting
  BY <1>1, <1>2, ElementOfSeq
<1> QED
  BY <1>2, <1>3, <1>4 DEF Node, Waiting

(* A user who is in the list has a newest session. *)
LEMMA NewestSession ==
    ASSUME TypeOK, NEW u, inUserList(u)
    PROVE  /\ getUserNode(u) \in DOMAIN userList
           /\ userList[getUserNode(u)].uid = u
<1>1. SessionsOf(u) \in SUBSET Nat /\ SessionsOf(u) # {}
  BY Fields DEF SessionsOf, inUserList
<1>2. getUserNode(u) \in SessionsOf(u)
  BY <1>1, FirstIsLeast DEF getUserNode
<1> QED
  BY <1>2 DEF SessionsOf

(* The session that has the turn is in the list. *)
LEMMA TurnIsListed ==
    ASSUME TypeOK, NEW i, HasTurn(i)
    PROVE  i \in DOMAIN userList /\ userList[i].conn \in ready.conns
<1>1. ReadyNodes \in SUBSET Nat /\ ReadyNodes # {}
  BY Fields DEF ReadyNodes, HasTurn
<1>2. i \in ReadyNodes
  BY <1>1, FirstIsLeast DEF HasTurn
<1> QED
  BY <1>2 DEF ReadyNodes

(* Cleaning the queue of a user leaves waiting messages of other users. *)
LEMMA Cleaned ==
    ASSUME TypeOK, NEW u
    PROVE  /\ cleanQueueFromUID(u) \in Seq(Waiting)
           /\ \A k \in DOMAIN cleanQueueFromUID(u) :
                 \E j \in DOMAIN pdList :
                    /\ cleanQueueFromUID(u)[k] = pdList[j]
                    /\ pdList[j].uid # u
<1>1. QueuedFor(u) \in SUBSET DOMAIN pdList
  BY DEF QueuedFor
<1>2. pdList \in Seq(Waiting)
  BY DEF TypeOK
<1>3. /\ DropThroughAll(pdList, QueuedFor(u)) \in Seq(Waiting)
      /\ \A k \in DOMAIN DropThroughAll(pdList, QueuedFor(u)) :
            \E j \in DOMAIN pdList \ QueuedFor(u) :
               DropThroughAll(pdList, QueuedFor(u))[k] = pdList[j]
  BY <1>1, <1>2, DropKeepsTheRest
<1> QED
  BY <1>3 DEF cleanQueueFromUID, QueuedFor

(* Taking out the newest message of a user leaves waiting messages. *)
LEMMA TakenOut ==
    ASSUME TypeOK, NEW u
    PROVE  /\ removeQueueOP(u) \in Seq(Waiting)
           /\ \A k \in DOMAIN removeQueueOP(u) :
                 \E j \in DOMAIN pdList : removeQueueOP(u)[k] = pdList[j]
<1>1. QueuedFor(u) \in SUBSET DOMAIN pdList /\ QueuedFor(u) \in SUBSET Nat
  BY Fields DEF QueuedFor
<1>2. pdList \in Seq(Waiting)
  BY DEF TypeOK
<1>3. CASE QueuedFor(u) = {}
  <2>1. removeQueueOP(u) = pdList
    BY <1>3 DEF removeQueueOP
  <2> QED
    BY <1>2, <2>1
<1>4. CASE QueuedFor(u) # {}
  <2> DEFINE S == {First(QueuedFor(u))}
  <2>1. S \in SUBSET DOMAIN pdList
    BY <1>1, <1>4, FirstIsLeast
  <2>2. removeQueueOP(u) = DropThroughAll(pdList, S)
    BY <1>4 DEF removeQueueOP
  <2> HIDE DEF S
  <2>3. /\ DropThroughAll(pdList, S) \in Seq(Waiting)
        /\ \A k \in DOMAIN DropThroughAll(pdList, S) :
              \E j \in DOMAIN pdList \ S :
                 DropThroughAll(pdList, S)[k] = pdList[j]
    BY <1>2, <2>1, DropKeepsTheRest
  <2> QED
    BY <2>2, <2>3
<1> QED
  BY <1>3, <1>4

(* A message added to the queue of a known user. *)
LEMMA Added ==
    ASSUME TypeOK, ConstantsAssumption, NEW u \in Uids
    PROVE  /\ addMsgToQueue(u) \in Seq(Waiting)
           /\ \A k \in DOMAIN addMsgToQueue(u) :
                 \/ addMsgToQueue(u)[k].uid = u
                 \/ \E j \in DOMAIN pdList : addMsgToQueue(u)[k] = pdList[j]
<1> DEFINE e == [uid |-> u, nAttempts |-> 0]
<1>1. e \in Waiting /\ e.uid = u
  BY DEF Waiting, ConstantsAssumption
<1>2. pdList \in Seq(Waiting)
  BY DEF TypeOK
<1>3. addMsgToQueue(u) = <<e>> \o pdList
  BY DEF addMsgToQueue
<1> HIDE DEF e
<1>4. /\ <<e>> \o pdList \in Seq(Waiting)
      /\ DOMAIN (<<e>> \o pdList) = 1 .. Len(pdList) + 1
      /\ \A i \in 1 .. Len(pdList) + 1 :
            (<<e>> \o pdList)[i] = IF i = 1 THEN e ELSE pdList[i - 1]
  BY <1>1, <1>2, InFront
<1>5. \A i \in 1 .. Len(pdList) + 1 : i = 1 \/ i - 1 \in DOMAIN pdList
  BY Fields
<1> QED
  BY <1>1, <1>3, <1>4, <1>5

(* A timeout leaves waiting messages of the users that had one. *)
LEMMA AllResent ==
    ASSUME TypeOK, ConstantsAssumption
    PROVE  LET s == [i \in DOMAIN pdList |-> Resent(pdList[i])]
           IN  /\ DropThroughAll(s, Exhausted) \in Seq(Waiting)
               /\ \A k \in DOMAIN DropThroughAll(s, Exhausted) :
                     \E j \in DOMAIN pdList :
                        DropThroughAll(s, Exhausted)[k].uid = pdList[j].uid
<1> DEFINE s == [i \in DOMAIN pdList |-> Resent(pdList[i])]
<1>1. ASSUME NEW e \in Waiting
      PROVE  Resent(e) \in Waiting /\ Resent(e).uid = e.uid
  BY <1>1 DEF Resent, Retries, Waiting, ConstantsAssumption
<1>2. /\ DOMAIN s = DOMAIN pdList
      /\ \A i \in DOMAIN pdList :
            s[i] \in Waiting /\ s[i].uid = pdList[i].uid
  BY <1>1, Fields
<1>3. s \in Seq(Waiting)
  BY <1>2, Fields, SeqDef
<1>4. Exhausted \in SUBSET DOMAIN s
  BY <1>2 DEF Exhausted
<1> HIDE DEF s
<1>5. /\ DropThroughAll(s, Exhausted) \in Seq(Waiting)
      /\ \A k \in DOMAIN DropThroughAll(s, Exhausted) :
            \E j \in DOMAIN s \ Exhausted :
               DropThroughAll(s, Exhausted)[k] = s[j]
  BY <1>3, <1>4, DropKeepsTheRest
<1>6. /\ DropThroughAll(s, Exhausted) \in Seq(Waiting)
      /\ \A k \in DOMAIN DropThroughAll(s, Exhausted) :
            \E j \in DOMAIN pdList :
               DropThroughAll(s, Exhausted)[k].uid = pdList[j].uid
  BY <1>2, <1>5
<1> QED
  BY <1>6 DEF s

-----------------------------------------------------------------------------
(* Type correctness. *)

(* What a datagram or a message carries, by its type. *)
LEMMA MessageFields ==
    /\ \A m \in UdpMsg :
          /\ m.type = "REG" => m.uid \in Uids /\ m.pass \in Passes
          /\ m.type \in {"UNR", "RVC", "VLD"} => m.uid \in Uids
          /\ m.type = "RVC" => m.status \in {"OK", "NOK"}
          /\ m.type = "VLD" => m.tid \in Tids
    /\ \A m \in TcpMsg :
          /\ m.type \in {"LOG", "REQ", "AUT"} => m.uid \in Uids
          /\ m.type = "REQ" => m.rid \in Rids \cup {Fresh} /\ m.op \in Ops
BY DEF UdpMsg, TcpMsg

(* What the reading of a datagram leaves well typed. *)
LEMMA UdpReceived ==
    ASSUME TypeOK, NEW types, ReceiveUdp(types)
    PROVE  /\ Datagram \in UdpMsg
           /\ fds' \in SUBSET Conns
           /\ ready' \in [udp : BOOLEAN, listen : BOOLEAN, conns : SUBSET Conns]
           /\ serving' \in BOOLEAN
           /\ udpIn' \in Seq(UdpMsg)
           /\ backlog' \in Seq(Conns)
           /\ inbox' \in [Conns -> Seq(TcpMsg)]
           /\ peer' \in [Conns -> {"free", "open", "closed"}]
<1>1. udpIn \in Seq(UdpMsg) /\ udpIn # <<>>
  BY DEF TypeOK, ReceiveUdp
<1>2. Head(udpIn) \in UdpMsg /\ Tail(udpIn) \in Seq(UdpMsg)
  BY <1>1, HeadTailProperties
<1> QED
  BY <1>2 DEF TypeOK, ReceiveUdp, Datagram

(* What the reading of a connection leaves well typed. *)
LEMMA TcpReceived ==
    ASSUME TypeOK, NEW i, NEW type, ReceiveTcp(i, type)
    PROVE  /\ i \in DOMAIN userList
           /\ Segment(i) \in TcpMsg
           /\ fds' \in SUBSET Conns
           /\ ready' \in [udp : BOOLEAN, listen : BOOLEAN, conns : SUBSET Conns]
           /\ serving' \in BOOLEAN
           /\ udpIn' \in Seq(UdpMsg)
           /\ backlog' \in Seq(Conns)
           /\ inbox' \in [Conns -> Seq(TcpMsg)]
           /\ peer' \in [Conns -> {"free", "open", "closed"}]
<1>1. i \in DOMAIN userList
  BY TurnIsListed DEF ReceiveTcp
<1>2. userList[i].conn \in Conns
  BY <1>1, Fields
<1>3. inbox[userList[i].conn] \in Seq(TcpMsg) /\ inbox[userList[i].conn] # <<>>
  BY <1>2 DEF TypeOK, ReceiveTcp
<1>4. Head(inbox[userList[i].conn]) \in TcpMsg
  BY <1>3, HeadTailProperties
<1>5. [inbox EXCEPT ![userList[i].conn] = <<>>] \in [Conns -> Seq(TcpMsg)]
  BY <1>2, EmptySeq DEF TypeOK
<1> QED
  BY <1>1, <1>4, <1>5 DEF TypeOK, ReceiveTcp, Segment

(* What an answer on a connection or to a sender is. *)
LEMMA AnswersTyped ==
    /\ \A st \in {"OK", "NOK"} :
          /\ [to |-> "sender", type |-> "RRG", status |-> st] \in SentMsg
          /\ [to |-> "sender", type |-> "RUN", status |-> st] \in SentMsg
    /\ [to |-> "sender", type |-> "ERR"] \in SentMsg
    /\ \A u \in Uids : [to |-> u, type |-> "VLC"] \in SentMsg
    /\ \A c \in Conns :
          /\ [to |-> c, type |-> "ERR"] \in SentMsg
          /\ \A st \in {"OK", "NOK", "ELOG", "EUSER", "EPD"} :
                /\ [to |-> c, type |-> "RLO", status |-> st] \in SentMsg
                /\ [to |-> c, type |-> "RRQ", status |-> st] \in SentMsg
          /\ \A t \in Tids \cup {"0"} :
                [to |-> c, type |-> "RAU", tid |-> t] \in SentMsg
    /\ \A u \in Uids, t \in Tids, o \in Ops \cup {NoOp, "E"} :
          [to |-> "sender", type |-> "CNF", uid |-> u, tid |-> t, op |-> o]
             \in SentMsg
BY DEF SentMsg

(* A session is stored back well typed. *)
LEMMA Stored ==
    ASSUME TypeOK, NEW i \in DOMAIN userList, NEW n \in Node, Store(i, n)
    PROVE  userList' \in Seq(Node)
<1>1. userList \in Seq(Node) /\ i \in 1 .. Len(userList)
  BY Fields DEF TypeOK
<1> QED
  BY <1>1, ExceptSeq DEF Store

(* So is the account of a connection. *)
LEMMA Entered ==
    ASSUME TypeOK, NEW c \in Conns, NEW a \in Account, Enter(c, a)
    PROVE  ledger' \in [Conns -> Account]
BY DEF TypeOK, Enter

(* Nothing is left of a process that ended. *)
LEMMA EndedTyped ==
    ASSUME ProcessEnds, TypeOK, reg' \in SUBSET Uids,
           pass' \in [Uids -> Passes \cup {NoPass}]
    PROVE  TypeOK'
<1>1. NewAccount \in Account
  BY DEF NewAccount, Account
<1>2. /\ userList' \in Seq(Node) /\ pdList' \in Seq(Waiting)
      /\ udpIn' \in Seq(UdpMsg) /\ backlog' \in Seq(Conns)
  BY EmptySeq DEF ProcessEnds
<1>3. inbox' \in [Conns -> Seq(TcpMsg)] /\ ledger' \in [Conns -> Account]
  BY <1>1, EmptySeq DEF ProcessEnds
<1>4. ready' \in [udp : BOOLEAN, listen : BOOLEAN, conns : SUBSET Conns]
  BY DEF ProcessEnds, NothingReady
<1> QED
  BY <1>2, <1>3, <1>4 DEF ProcessEnds, TypeOK

(* A datagram that is being handled. *)
LEMMA InHand ==
    ASSUME TypeOK, NEW type, ReceivesUdp(type)
    PROVE  Datagram \in UdpMsg /\ Datagram.type = type
<1>1. Head(udpIn) \in UdpMsg
  BY HeadTailProperties DEF TypeOK, ReceivesUdp
<1> QED
  BY <1>1 DEF Datagram, ReceivesUdp

(* What a kill leaves on the disk is well typed. *)
LEMMA FilesLeftTyped ==
    ASSUME TypeOK, Kill
    PROVE  /\ reg' \in SUBSET Uids
           /\ pass' \in [Uids -> Passes \cup {NoPass}]
<1>1. CASE UNCHANGED <<reg, pass>>
  BY <1>1 DEF TypeOK
<1>2. CASE HalfRegistered
  <2>1. Datagram.uid \in Uids /\ Datagram.pass \in Passes
    BY <1>2, InHand, MessageFields DEF HalfRegistered
  <2> QED
    BY <1>2, <2>1 DEF HalfRegistered, TypeOK
<1>3. CASE HalfRemoved
  BY <1>3 DEF HalfRemoved, TypeOK
<1>4. CASE HalfCleaned
  BY <1>4 DEF HalfCleaned, TypeOK
<1> QED
  BY <1>1, <1>2, <1>3, <1>4 DEF Kill

(* The handlers of datagrams. *)
LEMMA UdpStepTyped ==
    ASSUME TypeOK, ConstantsAssumption, HandleUDP
    PROVE  TypeOK'
<1>1. CASE req_registerPD
  <2>1. ReceiveUdp({"REG"}) /\ Datagram.type = "REG"
    BY <1>1 DEF req_registerPD, ReceiveUdp
  <2>2. Datagram \in UdpMsg
    BY <2>1, UdpReceived
  <2>3. Datagram.uid \in Uids /\ Datagram.pass \in Passes
    BY <2>1, <2>2, MessageFields
  <2>4. reg' \in SUBSET Uids /\ pass' \in [Uids -> Passes \cup {NoPass}]
    BY <1>1, <2>3 DEF req_registerPD, TypeOK
  <2>5. sent' \in SUBSET SentMsg
    BY <1>1, AnswersTyped DEF req_registerPD, AnswerSender
  <2> QED
    BY <1>1, <2>1, <2>4, <2>5, UdpReceived DEF req_registerPD, TypeOK
<1>2. CASE req_unregisterPD
  <2>1. ReceiveUdp({"UNR"})
    BY <1>2 DEF req_unregisterPD
  <2>2. reg' \in SUBSET Uids
    BY <1>2 DEF req_unregisterPD, TypeOK
  <2>3. pdList' \in Seq(Waiting)
    BY <1>2, Cleaned DEF req_unregisterPD, TypeOK
  <2>4. sent' \in SUBSET SentMsg
    BY <1>2, AnswersTyped DEF req_unregisterPD, AnswerSender
  <2> QED
    BY <1>2, <2>1, <2>2, <2>3, <2>4, UdpReceived DEF req_unregisterPD, TypeOK
<1>3. CASE resp_validationCode
  <2>1. ReceiveUdp({"RVC"}) /\ Datagram.type = "RVC"
    BY <1>3 DEF resp_validationCode, ReceiveUdp
  <2>2. Datagram.status \in {"OK", "NOK"}
    BY <2>1, UdpReceived, MessageFields
  <2>3. pdList' \in Seq(Waiting)
    BY <1>3, TakenOut DEF resp_validationCode, TypeOK
  <2>4. sent' \in SUBSET SentMsg
    <3>1. CASE inUserList(Datagram.uid)
      <4>1. userList[getUserNode(Datagram.uid)].conn \in Conns
        BY <3>1, NewestSession, Fields
      <4> QED
        <5> DEFINE c == userList[getUserNode(Datagram.uid)].conn
                   st == Datagram.status
        <5>1. sent' = {[to |-> c, type |-> "RRQ", status |-> st]}
          BY <1>3, <3>1 DEF resp_validationCode
        <5>2. c \in Conns /\ st \in {"OK", "NOK", "ELOG", "EUSER", "EPD"}
          BY <2>2, <4>1
        <5> HIDE DEF c, st
        <5>3. [to |-> c, type |-> "RRQ", status |-> st] \in SentMsg
          BY <5>2, AnswersTyped
        <5> QED
          BY <5>1, <5>3
    <3>2. CASE ~inUserList(Datagram.uid)
      BY <1>3, <3>2, AnswersTyped DEF resp_validationCode
    <3> QED
      BY <3>1, <3>2
  <2> QED
    BY <1>3, <2>1, <2>3, <2>4, UdpReceived DEF resp_validationCode, TypeOK
<1>4. CASE req_authOP
  <2>1. ReceiveUdp({"VLD"}) /\ Datagram.type = "VLD"
    BY <1>4 DEF req_authOP, ReceiveUdp
  <2>2. Datagram.tid \in Tids
    BY <2>1, UdpReceived, MessageFields
  <2>3. CASE inUserList(Datagram.uid)
    <3> DEFINE i == getUserNode(Datagram.uid)
               n == userList[i]
               tid == Datagram.tid
    <3>0. i \in DOMAIN userList /\ n \in Node
      BY <2>3, NewestSession, Fields
    <3>1. PICK read \in OpRead(n) : AnswerVLD(i, tid, read)
      BY <1>4, <2>3 DEF req_authOP
    <3> DEFINE removed == Confirmed(n, tid) /\ read = OpX
    <3>2. n.uid = Datagram.uid /\ n.uid \in Uids
      BY <2>1, <2>3, NewestSession, UdpReceived, MessageFields
    <3> HIDE DEF i
    <3>3. userList' \in Seq(Node)
      <4>1. [n EXCEPT !.tid = Clear, !.uid = IF removed THEN NoUid ELSE @]
               \in Node
        BY <3>0 DEF Node
      <4> QED
        BY <3>0, <3>1, <4>1, Stored DEF AnswerVLD
    <3>4. /\ reg' \in SUBSET Uids
          /\ pass' \in [Uids -> Passes \cup {NoPass}]
          /\ pdList' \in Seq(Waiting)
      BY <3>1, <3>2, Cleaned DEF AnswerVLD, TypeOK
    <3>5. ledger' \in [Conns -> Account]
      <4>1. n.conn \in Conns /\ ledger[n.conn] \in Account
        BY <3>0 DEF Node, TypeOK
      <4>2. [ledger[n.conn] EXCEPT !.cnf = @ + 1] \in Account
        BY <4>1 DEF Account
      <4>3. CASE Confirmed(n, tid)
        BY <3>1, <4>1, <4>2, <4>3, Entered DEF AnswerVLD
      <4>4. CASE ~Confirmed(n, tid)
        BY <3>1, <4>4 DEF AnswerVLD, TypeOK
      <4> QED
        BY <4>3, <4>4
    <3>6. sent' \in SUBSET SentMsg
      <4> DEFINE op == IF Confirmed(n, tid) THEN read ELSE "E"
      <4>1. op \in Ops \cup {NoOp, "E"}
        BY <3>0, <3>1 DEF Node, OpRead
      <4>2. Cnf(n, tid, op)
        BY <3>1 DEF AnswerVLD
      <4> DEFINE u == n.uid
                 m == [to |-> "sender", type |-> "CNF", uid |-> u,
                       tid |-> tid, op |-> op]
      <4>3. u \in Uids /\ tid \in Tids
        BY <2>2, <3>2
      <4>4. sent' = {m}
        BY <4>2 DEF Cnf
      <4> HIDE DEF op, tid, u
      <4>5. m \in SentMsg
        BY <4>1, <4>3, AnswersTyped
      <4> QED
        BY <4>4, <4>5
    <3> QED
      BY <1>4, <2>1, <3>3, <3>4, <3>5, <3>6, UdpReceived
      DEF req_authOP, TypeOK
  <2>4. CASE ~inUserList(Datagram.uid)
    <3>1. sent' \in SUBSET SentMsg
      BY <1>4, <2>4, AnswersTyped DEF req_authOP
    <3> QED
      BY <1>4, <2>1, <2>4, <3>1, UdpReceived DEF req_authOP, TypeOK
  <2> QED
    BY <2>3, <2>4
<1>5. CASE FatalDatagram
  <2>1. ReceiveUdp({"BAD", "ERR"})
    BY <1>5 DEF FatalDatagram
  <2>2. sent' \in SUBSET SentMsg
    BY <1>5, AnswersTyped DEF FatalDatagram
  <2> QED
    BY <1>5, <2>1, <2>2, UdpReceived DEF FatalDatagram, TypeOK
<1> QED
  BY <1>1, <1>2, <1>3, <1>4, <1>5 DEF HandleUDP

(* The handlers of sessions. *)
LEMMA TcpStepTyped ==
    ASSUME TypeOK, ConstantsAssumption,
           NEW i \in DOMAIN userList, HandleTCP(i)
    PROVE  TypeOK'
<1> DEFINE n == userList[i]
<1>0. n \in Node /\ n.conn \in Conns /\ ledger[n.conn] \in Account
  BY Fields DEF TypeOK
<1>1. CASE req_loginUser(i)
  <2>1. ReceiveTcp(i, "LOG") /\ Segment(i).type = "LOG"
    BY <1>1 DEF req_loginUser, ReceiveTcp
  <2>2. Segment(i).uid \in Uids
    BY <2>1, TcpReceived, MessageFields
  <2>3. userList' \in Seq(Node)
    <3>1. [n EXCEPT !.uid = Segment(i).uid] \in Node
      BY <1>0, <2>2 DEF Node
    <3> QED
      BY <1>1, <3>1, Stored DEF req_loginUser, TypeOK
  <2>4. sent' \in SUBSET SentMsg
    <3>1. PICK st \in {"OK", "NOK"} : Answer(i, "RLO", st)
      BY <1>1 DEF req_loginUser
    <3> QED
      BY <1>0, <3>1, AnswersTyped DEF Answer
  <2> QED
    BY <1>1, <2>1, <2>3, <2>4, TcpReceived DEF req_loginUser, TypeOK
<1>2. CASE req_fileOP(i)
  <2>1. ReceiveTcp(i, "REQ") /\ Segment(i).type = "REQ"
    BY <1>2 DEF req_fileOP, ReceiveTcp
  <2>2. Segment(i).rid \in Rids \cup {Fresh} /\ Segment(i).op \in Ops
    BY <2>1, TcpReceived, MessageFields
  <2>3. CASE Refusal(i) = "none" /\ AcceptRequest(i)
    <3>1. n.uid \in Uids
      BY <1>0, <2>3 DEF Refusal, Node
    <3>2. PICK vc \in Vcs :
             /\ sent' = {[to |-> n.uid, type |-> "VLC"]}
             /\ Store(i, [n EXCEPT !.rid = Segment(i).rid, !.vc = vc,
                                   !.op = Segment(i).op])
             /\ pdList' = addMsgToQueue(n.uid)
             /\ Enter(n.conn, [ledger[n.conn] EXCEPT !.req = @ + 1])
      BY <2>3 DEF AcceptRequest, AccountOf
    <3>3. userList' \in Seq(Node)
      <4>1. [n EXCEPT !.rid = Segment(i).rid, !.vc = vc, !.op = Segment(i).op]
               \in Node
        BY <1>0, <2>2 DEF Node
      <4> QED
        BY <3>2, <4>1, Stored
    <3>4. pdList' \in Seq(Waiting)
      BY <3>1, <3>2, Added
    <3>5. ledger' \in [Conns -> Account]
      <4>1. [ledger[n.conn] EXCEPT !.req = @ + 1] \in Account
        BY <1>0 DEF Account
      <4> QED
        BY <1>0, <3>2, <4>1, Entered
    <3>6. sent' \in SUBSET SentMsg
      BY <3>1, <3>2, AnswersTyped
    <3> QED
      BY <1>2, <2>1, <3>3, <3>4, <3>5, <3>6, TcpReceived
      DEF req_fileOP, TypeOK
  <2>4. CASE /\ \/ Refusal(i) # "none" /\ Answer(i, "RRQ", Refusal(i))
                \/ sent' = {[to |-> userList[i].conn, type |-> "ERR"]}
             /\ UNCHANGED <<userList, pdList, ledger>>
    <3>1. sent' \in SUBSET SentMsg
      <4>1. CASE sent' = {[to |-> userList[i].conn, type |-> "ERR"]}
        BY <1>0, <4>1, AnswersTyped
      <4>2. CASE Refusal(i) # "none" /\ Answer(i, "RRQ", Refusal(i))
        <5>1. Refusal(i) \in {"OK", "NOK", "ELOG", "EUSER", "EPD"}
          BY <4>2 DEF Refusal
        <5> QED
          BY <1>0, <4>2, <5>1, AnswersTyped DEF Answer
      <4> QED
        BY <2>4, <4>1, <4>2
    <3> QED
      BY <1>2, <2>1, <2>4, <3>1, TcpReceived DEF req_fileOP, TypeOK
  <2> QED
    BY <1>2, <2>3, <2>4 DEF req_fileOP
<1>3. CASE req_auth(i)
  <2>1. ReceiveTcp(i, "AUT")
    BY <1>3 DEF req_auth
  <2>2. CASE Grant(i)
    <3>1. PICK tid \in Tids :
             /\ Store(i, [n EXCEPT !.vc = Clear, !.rid = Clear, !.tid = tid])
             /\ sent' = {[to |-> n.conn, type |-> "RAU", tid |-> tid]}
             /\ Enter(n.conn, [ledger[n.conn] EXCEPT !.tid = @ + 1])
      BY <2>2 DEF Grant, AccountOf
    <3>2. userList' \in Seq(Node)
      <4>1. [n EXCEPT !.vc = Clear, !.rid = Clear, !.tid = tid] \in Node
        BY <1>0 DEF Node
      <4> QED
        BY <3>1, <4>1, Stored
    <3>3. ledger' \in [Conns -> Account]
      <4>1. [ledger[n.conn] EXCEPT !.tid = @ + 1] \in Account
        BY <1>0 DEF Account
      <4> QED
        BY <1>0, <3>1, <4>1, Entered
    <3>4. sent' \in SUBSET SentMsg
      BY <1>0, <3>1, AnswersTyped
    <3> QED
      BY <1>3, <2>1, <3>2, <3>3, <3>4, TcpReceived DEF req_auth, TypeOK
  <2>3. CASE /\ sent' = {[to |-> userList[i].conn, type |-> "RAU", tid |-> "0"]}
             /\ UNCHANGED <<userList, ledger>>
    <3>1. sent' \in SUBSET SentMsg
      BY <1>0, <2>3, AnswersTyped
    <3> QED
      BY <1>3, <2>1, <2>3, <3>1, TcpReceived DEF req_auth, TypeOK
  <2> QED
    BY <1>3, <2>2, <2>3 DEF req_auth
<1>4. CASE FatalMessage(i)
  <2>1. ReceiveTcp(i, "BAD")
    BY <1>4 DEF FatalMessage
  <2>2. sent' \in SUBSET SentMsg
    BY <1>0, <1>4, AnswersTyped DEF FatalMessage
  <2> QED
    BY <1>4, <2>1, <2>2, TcpReceived DEF FatalMessage, TypeOK
<1>5. CASE CloseSession(i)
  <2>1. userList' \in Seq(Node)
    <3>1. userList \in Seq(Node)
      BY DEF TypeOK
    <3>2. DropThroughAll(userList, {i}) \in Seq(Node)
      BY <3>1, DropKeepsTheRest
    <3> QED
      BY <1>5, <3>2 DEF CloseSession
  <2>2. pdList' \in Seq(Waiting)
    BY <1>5, Cleaned DEF CloseSession
  <2>3. /\ ready' \in [udp : BOOLEAN, listen : BOOLEAN, conns : SUBSET Conns]
        /\ fds' \in SUBSET Conns
        /\ peer' \in [Conns -> {"free", "open", "closed"}]
    BY <1>0, <1>5 DEF CloseSession, TypeOK
  <2>4. exitCode' \in {"RUNTIME", "EXIT_SUCCESS", "EXIT_FAILURE", "DOWN"}
    BY <1>5 DEF CloseSession, TypeOK
  <2> QED
    BY <1>5, <2>1, <2>2, <2>3, <2>4 DEF CloseSession, TypeOK
<1> QED
  BY <1>1, <1>2, <1>3, <1>4, <1>5 DEF HandleTCP

(* The loop itself. *)
LEMMA LoopStepTyped ==
    ASSUME TypeOK, ConstantsAssumption,
           Select \/ Timeout \/ Accept \/ LoopHead \/ exitAS
    PROVE  TypeOK'
<1>1. CASE Select
  <2>1. ReadyNow \in [udp : BOOLEAN, listen : BOOLEAN, conns : SUBSET Conns]
    BY DEF ReadyNow, TypeOK
  <2> QED
    BY <1>1, <2>1 DEF Select, TypeOK
<1>2. CASE Timeout
  <2>1. pdList' \in Seq(Waiting)
    BY <1>2, AllResent DEF Timeout
  <2>2. sent' \in SUBSET SentMsg
    <3> DEFINE U == {pdList[k].uid : k \in DOMAIN pdList \ Exhausted} \cap reg
    <3>1. U \in SUBSET Uids
      BY DEF TypeOK
    <3>2. sent' = [to : U, type : {"VLC"}]
      BY <1>2 DEF Timeout
    <3> HIDE DEF U
    <3> QED
      BY <3>1, <3>2 DEF SentMsg
  <2> QED
    BY <1>2, <2>1, <2>2 DEF Timeout, TypeOK
<1>3. CASE Accept
  <2>1. Head(backlog) \in Conns /\ Tail(backlog) \in Seq(Conns)
    BY <1>3, HeadTailProperties DEF Accept, TypeOK
  <2>2. userList' \in Seq(Node)
    <3> DEFINE n == [conn |-> Head(backlog), uid |-> NoUid, vc |-> Fresh,
                     rid |-> Fresh, tid |-> Fresh, op |-> NoOp]
    <3>1. n \in Node /\ userList \in Seq(Node)
      BY <2>1 DEF Node, TypeOK
    <3>2. userList' = <<n>> \o userList
      BY <1>3 DEF Accept
    <3> HIDE DEF n
    <3> QED
      BY <3>1, <3>2, InFront
  <2>3. ready' \in [udp : BOOLEAN, listen : BOOLEAN, conns : SUBSET Conns]
    BY <1>3 DEF Accept, TypeOK
  <2> QED
    BY <1>3, <2>1, <2>2, <2>3 DEF Accept, TypeOK
<1>4. CASE LoopHead
  BY <1>4 DEF LoopHead, NothingReady, TypeOK
<1>5. CASE exitAS
  BY <1>5, EndedTyped DEF exitAS, TypeOK
<1> QED
  BY <1>1, <1>2, <1>3, <1>4, <1>5

(* What comes from outside the process. *)
LEMMA OutsideStepTyped ==
    ASSUME TypeOK, Clients \/ Signal \/ Kill \/ Start
    PROVE  TypeOK'
<1>1. ASSUME NEW m \in UdpMsg, UdpArrives(m) PROVE TypeOK'
  <2>1. Append(udpIn, m) \in Seq(UdpMsg)
    BY AppendProperties DEF TypeOK
  <2> QED
    BY <1>1, <2>1 DEF UdpArrives, Outside, TypeOK
<1>2. ASSUME NEW c \in Conns, ClientConnects(c) PROVE TypeOK'
  <2>1. Append(backlog, c) \in Seq(Conns)
    BY AppendProperties DEF TypeOK
  <2>2. NewAccount \in Account
    BY DEF NewAccount, Account
  <2> QED
    BY <1>2, <2>1, <2>2 DEF ClientConnects, Outside, TypeOK
<1>3. ASSUME NEW c \in Conns, ClientCloses(c) PROVE TypeOK'
  BY <1>3 DEF ClientCloses, Outside, TypeOK
<1>4. ASSUME NEW c \in Conns, NEW m \in TcpMsg, ClientSends(c, m) PROVE TypeOK'
  <2>1. Append(inbox[c], m) \in Seq(TcpMsg)
    BY AppendProperties DEF TypeOK
  <2> QED
    BY <1>4, <2>1 DEF ClientSends, Outside, TypeOK
<1>5. CASE Signal
  BY <1>5 DEF Signal, TypeOK
<1>6. CASE Kill
  BY <1>6, EndedTyped, FilesLeftTyped DEF Kill
<1>7. CASE Start
  BY <1>7 DEF Start, TypeOK
<1> QED
  BY <1>1, <1>2, <1>3, <1>4, <1>5, <1>6, <1>7 DEF Clients

(* The initial state. *)
LEMMA InitTyped == Init => TypeOK
<1> SUFFICES ASSUME Init PROVE TypeOK
  OBVIOUS
<1>1. /\ userList \in Seq(Node) /\ pdList \in Seq(Waiting)
      /\ udpIn \in Seq(UdpMsg) /\ backlog \in Seq(Conns)
      /\ inbox \in [Conns -> Seq(TcpMsg)]
  BY EmptySeq DEF Init
<1>2. ledger \in [Conns -> Account]
  BY DEF Init, NewAccount, Account
<1> QED
  BY <1>1, <1>2 DEF Init, NothingReady, TypeOK

(* Every step keeps the types. *)
LEMMA StepTyped == ConstantsAssumption /\ TypeOK /\ [Next]_vars => TypeOK'
<1> SUFFICES ASSUME ConstantsAssumption, TypeOK, [Next]_vars PROVE TypeOK'
  OBVIOUS
<1>1. CASE ServerStep
  BY <1>1, UdpStepTyped, TcpStepTyped, LoopStepTyped DEF ServerStep
<1>2. CASE Clients \/ Signal \/ Kill \/ Start
  BY <1>2, OutsideStepTyped
<1>3. CASE UNCHANGED vars
  BY <1>3 DEF vars, TypeOK
<1> QED
  BY <1>1, <1>2, <1>3 DEF Next

(* Whatever arrives, the counters of attempts, the sessions, the queues    *)
(* and what is sent stay within their types: no handler reads a session    *)
(* that is not in the list or a field that its message does not have.      *)
THEOREM TypeCorrect == Spec => []TypeOK
<1>1. Init => TypeOK
  BY InitTyped
<1>2. TypeOK /\ [Next]_vars => TypeOK'
  BY StepTyped, ConstantsAssumption
<1> QED
  BY <1>1, <1>2, PTL DEF Spec

-----------------------------------------------------------------------------
(* The messages that wait. *)

QueueInv == TypeOK /\ QueueRegistered

(* The queue of a process that ended is empty. *)
LEMMA EmptyQueueRegistered == pdList' = <<>> => QueueRegistered'
BY DEF QueueRegistered

(* No datagram leaves a waiting message without its device. *)
LEMMA UdpStepQueue ==
    ASSUME QueueInv, ConstantsAssumption, HandleUDP
    PROVE  QueueRegistered'
<1> USE DEF QueueInv
<1>1. CASE req_registerPD
  BY <1>1 DEF req_registerPD, QueueRegistered
<1>2. CASE req_unregisterPD
  BY <1>2, Cleaned DEF req_unregisterPD, QueueRegistered
<1>3. CASE resp_validationCode
  BY <1>3, TakenOut DEF resp_validationCode, QueueRegistered
<1>4. CASE req_authOP
  <2>1. CASE inUserList(Datagram.uid)
    <3> DEFINE i == getUserNode(Datagram.uid)
    <3>1. PICK read \in OpRead(userList[i]) :
             AnswerVLD(i, Datagram.tid, read)
      BY <1>4, <2>1 DEF req_authOP
    <3> HIDE DEF i
    <3>2. \/ UNCHANGED <<pdList, reg>>
          \/ /\ pdList' = cleanQueueFromUID(userList[i].uid)
             /\ reg' = reg \ {userList[i].uid}
      BY <3>1 DEF AnswerVLD
    <3> QED
      BY <3>2, Cleaned DEF QueueRegistered
  <2>2. CASE ~inUserList(Datagram.uid)
    BY <1>4, <2>2 DEF req_authOP, QueueRegistered
  <2> QED
    BY <2>1, <2>2
<1>5. CASE FatalDatagram
  BY <1>5 DEF FatalDatagram, QueueRegistered
<1> QED
  BY <1>1, <1>2, <1>3, <1>4, <1>5 DEF HandleUDP

(* A request is queued only for a registered device, and the end of a      *)
(* session takes messages out.                                             *)
LEMMA TcpStepQueue ==
    ASSUME QueueInv, ConstantsAssumption,
           NEW i \in DOMAIN userList, HandleTCP(i)
    PROVE  QueueRegistered'
<1> USE DEF QueueInv
<1>1. CASE req_fileOP(i)
  <2>1. CASE UNCHANGED <<pdList, reg>>
    BY <2>1 DEF QueueRegistered
  <2>2. CASE Refusal(i) = "none" /\ AcceptRequest(i)
    <3>1. userList[i].uid \in Uids /\ userList[i].uid \in reg
      BY <2>2, Fields DEF Refusal
    <3>2. pdList' = addMsgToQueue(userList[i].uid) /\ reg' = reg
      BY <1>1, <2>2 DEF AcceptRequest, req_fileOP
    <3> QED
      BY <3>1, <3>2, Added DEF QueueRegistered
  <2> QED
    BY <1>1, <2>1, <2>2 DEF req_fileOP
<1>2. CASE CloseSession(i)
  BY <1>2, Cleaned DEF CloseSession, QueueRegistered
<1>3. CASE req_loginUser(i) \/ req_auth(i) \/ FatalMessage(i)
  BY <1>3 DEF req_loginUser, req_auth, FatalMessage, QueueRegistered
<1> QED
  BY <1>1, <1>2, <1>3 DEF HandleTCP

(* The other steps leave the queue alone, empty it or count attempts. *)
LEMMA StepQueue ==
    ConstantsAssumption /\ QueueInv /\ [Next]_vars => QueueRegistered'
<1> SUFFICES ASSUME ConstantsAssumption, QueueInv, [Next]_vars
             PROVE  QueueRegistered'
  OBVIOUS
<1> USE DEF QueueInv
<1>1. CASE HandleUDP \/ \E i \in DOMAIN userList : HandleTCP(i)
  BY <1>1, UdpStepQueue, TcpStepQueue
<1>2. CASE Timeout
  BY <1>2, AllResent DEF Timeout, QueueRegistered
<1>3. CASE exitAS \/ Kill
  BY <1>3, EmptyQueueRegistered DEF exitAS, Kill, ProcessEnds
<1>4. CASE \/ Select \/ Accept \/ LoopHead \/ Clients \/ Signal \/ Start
           \/ UNCHANGED vars
  <2>1. UNCHANGED <<pdList, reg>>
    BY <1>4 DEF Select, Accept, LoopHead, Clients, UdpArrives, ClientConnects,
                ClientCloses, ClientSends, Outside, Signal, Start, vars
  <2> QED
    BY <2>1 DEF QueueRegistered
<1> QED
  BY <1>1, <1>2, <1>3, <1>4 DEF Next, ServerStep

(* No message ever waits for a device that is not registered, whatever     *)
(* registrations, removals of users, answers and closings come in between: *)
(* each message is resent to someone, or given up.                         *)
THEOREM QueueIsRegistered == Spec => []QueueRegistered
<1>1. Init => QueueInv
  BY InitTyped DEF QueueInv, Init, QueueRegistered
<1>2. QueueInv /\ [Next]_vars => QueueInv'
  BY StepTyped, StepQueue, ConstantsAssumption DEF QueueInv
<1>3. QueueInv => QueueRegistered
  BY DEF QueueInv
<1> QED
  BY <1>1, <1>2, <1>3, PTL DEF Spec

-----------------------------------------------------------------------------
(* The descriptors of the sessions. *)

(* The connections that wait for accept are different from each other and  *)
(* from the closed ones: what Accept needs to keep SessionDescriptors.     *)
BacklogDistinct ==
    /\ \A j, k \in DOMAIN backlog : backlog[j] = backlog[k] => j = k
    /\ \A k \in DOMAIN backlog : peer[backlog[k]] # "free"

DescriptorInv == TypeOK /\ SessionDescriptors /\ BacklogDistinct

(* The sessions keep their places and their connections. *)
SameConns ==
    /\ DOMAIN userList' = DOMAIN userList
    /\ \A j \in DOMAIN userList : userList'[j].conn = userList[j].conn

(* Storing a session changes that session alone. *)
LEMMA StoredAt ==
    ASSUME TypeOK, NEW i \in DOMAIN userList, NEW n \in Node, Store(i, n)
    PROVE  /\ DOMAIN userList' = DOMAIN userList
           /\ \A j \in DOMAIN userList :
                 userList'[j] = IF j = i THEN n ELSE userList[j]
BY DEF Store, TypeOK

(* What a VLD does to the sessions: the tid of one is cleared.             *)
LEMMA AfterVLD ==
    ASSUME TypeOK, ConstantsAssumption, req_authOP,
           inUserList(Datagram.uid)
    PROVE  \E i \in DOMAIN userList :
              /\ \E op \in OpRead(userList[i]) :
                    AnswerVLD(i, Datagram.tid, op)
              /\ Datagram.tid \in Tids
              /\ DOMAIN userList' = DOMAIN userList
              /\ \A j \in DOMAIN userList \ {i} : userList'[j] = userList[j]
              /\ userList'[i] \in Node
              /\ userList'[i].conn = userList[i].conn
              /\ userList'[i].rid = userList[i].rid
              /\ userList'[i].op = userList[i].op
              /\ userList'[i].tid = Clear
<1> DEFINE i == getUserNode(Datagram.uid)
           n == userList[i]
<1>1. ReceiveUdp({"VLD"}) /\ Datagram.type = "VLD"
  BY DEF req_authOP, ReceiveUdp
<1>2. Datagram.tid \in Tids
  BY <1>1, UdpReceived, MessageFields
<1>3. /\ i \in DOMAIN userList /\ n \in Node
      /\ \E op \in OpRead(n) : AnswerVLD(i, Datagram.tid, op)
  BY NewestSession, Fields DEF req_authOP
<1> HIDE DEF i
<1>4. PICK u \in {NoUid, n.uid} :
         Store(i, [n EXCEPT !.tid = Clear, !.uid = u])
  BY <1>3 DEF AnswerVLD
<1> DEFINE m == [n EXCEPT !.tid = Clear, !.uid = u]
<1>5. /\ m \in Node /\ m.conn = n.conn /\ m.rid = n.rid
      /\ m.op = n.op /\ m.tid = Clear
  BY <1>3 DEF Node
<1> HIDE DEF m
<1>6. /\ DOMAIN userList' = DOMAIN userList
      /\ \A j \in DOMAIN userList :
            userList'[j] = IF j = i THEN m ELSE userList[j]
  BY <1>3, <1>4, <1>5, StoredAt DEF m
<1> QED
  BY <1>2, <1>3, <1>5, <1>6

(* What a message on a connection does to the sessions: it changes at most *)
(* the session that has the turn, and never its connection.                *)
LEMMA AfterSegment ==
    ASSUME TypeOK, ConstantsAssumption, NEW i \in DOMAIN userList,
           req_loginUser(i) \/ req_fileOP(i) \/ req_auth(i) \/ FatalMessage(i)
    PROVE  /\ DOMAIN userList' = DOMAIN userList
           /\ \A j \in DOMAIN userList \ {i} : userList'[j] = userList[j]
           /\ userList'[i].conn = userList[i].conn
           /\ \/ /\ userList'[i].rid = userList[i].rid
                 /\ userList'[i].tid = userList[i].tid
                 /\ userList'[i].op = userList[i].op
                 /\ UNCHANGED ledger
              \/ /\ userList'[i].tid = userList[i].tid
                 /\ userList'[i].op \in Ops
                 /\ Enter(userList[i].conn, [AccountOf(i) EXCEPT !.req = @ + 1])
              \/ /\ userList[i].rid # Clear
                 /\ userList'[i].rid = Clear
                 /\ userList'[i].tid \in Tids
                 /\ userList'[i].op = userList[i].op
                 /\ Enter(userList[i].conn,
                          [AccountOf(i) EXCEPT !.tid = @ + 1])
<1> DEFINE n == userList[i]
<1>0. n \in Node
  BY Fields
<1>1. CASE UNCHANGED <<userList, ledger>>
  BY <1>1
<1>2. CASE req_loginUser(i) /\ ~UNCHANGED userList
  <2> DEFINE m == [n EXCEPT !.uid = Segment(i).uid]
  <2>1. ReceiveTcp(i, "LOG") /\ Segment(i).type = "LOG"
    BY <1>2 DEF req_loginUser, ReceiveTcp
  <2>2. Segment(i).uid \in Uids
    BY <2>1, TcpReceived, MessageFields
  <2>3. /\ m \in Node /\ m.conn = n.conn /\ m.rid = n.rid
        /\ m.tid = n.tid /\ m.op = n.op
    BY <1>0, <2>2 DEF Node
  <2>4. Store(i, m) /\ UNCHANGED ledger
    BY <1>2 DEF req_loginUser
  <2> HIDE DEF m
  <2>5. /\ DOMAIN userList' = DOMAIN userList
        /\ \A j \in DOMAIN userList :
              userList'[j] = IF j = i THEN m ELSE userList[j]
    BY <2>3, <2>4, StoredAt
  <2> QED
    BY <2>3, <2>4, <2>5
<1>3. CASE req_fileOP(i) /\ AcceptRequest(i)
  <2>1. ReceiveTcp(i, "REQ") /\ Segment(i).type = "REQ"
    BY <1>3 DEF req_fileOP, ReceiveTcp
  <2>2. Segment(i).rid \in Rids \cup {Fresh} /\ Segment(i).op \in Ops
    BY <2>1, TcpReceived, MessageFields
  <2>3. PICK vc \in Vcs :
           /\ Store(i, [n EXCEPT !.rid = Segment(i).rid, !.vc = vc,
                                 !.op = Segment(i).op])
           /\ Enter(n.conn, [AccountOf(i) EXCEPT !.req = @ + 1])
    BY <1>3 DEF AcceptRequest
  <2> DEFINE m == [n EXCEPT !.rid = Segment(i).rid, !.vc = vc,
                            !.op = Segment(i).op]
  <2>4. /\ m \in Node /\ m.conn = n.conn
        /\ m.tid = n.tid /\ m.op \in Ops
    BY <1>0, <2>2 DEF Node
  <2>5. Store(i, m)
    BY <2>3
  <2> HIDE DEF m
  <2>6. /\ DOMAIN userList' = DOMAIN userList
        /\ \A j \in DOMAIN userList :
              userList'[j] = IF j = i THEN m ELSE userList[j]
    BY <2>4, <2>5, StoredAt
  <2> QED
    BY <2>3, <2>4, <2>6
<1>4. CASE req_auth(i) /\ Grant(i) /\ Authorised(i)
  <2>1. ReceiveTcp(i, "AUT") /\ Segment(i).type = "AUT"
    BY <1>4 DEF req_auth, ReceiveTcp
  <2>2. Segment(i).rid \in Rids \cup {Fresh}
    BY <2>1, TcpReceived DEF TcpMsg
  <2>3. n.rid # Clear
    BY <1>4, <2>2 DEF Authorised, ConstantsAssumption
  <2>4. PICK tid \in Tids :
           /\ Store(i, [n EXCEPT !.vc = Clear, !.rid = Clear, !.tid = tid])
           /\ Enter(n.conn, [AccountOf(i) EXCEPT !.tid = @ + 1])
    BY <1>4 DEF Grant
  <2> DEFINE m == [n EXCEPT !.vc = Clear, !.rid = Clear, !.tid = tid]
  <2>5. /\ m \in Node /\ m.conn = n.conn /\ m.rid = Clear
        /\ m.tid \in Tids /\ m.op = n.op
    BY <1>0 DEF Node
  <2>6. Store(i, m)
    BY <2>4
  <2> HIDE DEF m
  <2>7. /\ DOMAIN userList' = DOMAIN userList
        /\ \A j \in DOMAIN userList :
              userList'[j] = IF j = i THEN m ELSE userList[j]
    BY <2>5, <2>6, StoredAt
  <2> QED
    BY <2>3, <2>4, <2>5, <2>7
<1> QED
  BY <1>1, <1>2, <1>3, <1>4
  DEF req_loginUser, req_fileOP, req_auth, FatalMessage

(* Steps that leave connections, fd_set, sockets and backlog alone.        *)
LEMMA SameDescriptors ==
    ASSUME DescriptorInv, SameConns, UNCHANGED <<fds, peer, backlog>>
    PROVE  SessionDescriptors' /\ BacklogDistinct'
BY DEF DescriptorInv, SameConns, SessionDescriptors, BacklogDistinct

(* A process that ended has no descriptors. *)
LEMMA EndedDescriptors ==
    ASSUME ProcessEnds PROVE SessionDescriptors' /\ BacklogDistinct'
BY DEF ProcessEnds, SessionDescriptors, BacklogDistinct

(* accept takes a connection that no session has. *)
LEMMA AcceptDescriptors ==
    ASSUME DescriptorInv, ConstantsAssumption, Accept
    PROVE  SessionDescriptors' /\ BacklogDistinct'
<1> DEFINE c == Head(backlog)
           n == [conn |-> c, uid |-> NoUid, vc |-> Fresh, rid |-> Fresh,
                 tid |-> Fresh, op |-> NoOp]
<1>1. backlog \in Seq(Conns) /\ backlog # <<>> /\ userList \in Seq(Node)
  BY DEF DescriptorInv, TypeOK, Accept
<1>2. /\ c \in Conns /\ c = backlog[1] /\ 1 \in DOMAIN backlog
      /\ backlog' \in Seq(Conns)
      /\ \A k \in DOMAIN backlog' :
            /\ k + 1 \in DOMAIN backlog /\ backlog'[k] = backlog[k + 1]
            /\ k \in Nat
  <2>1. /\ Head(backlog) \in Conns /\ Tail(backlog) \in Seq(Conns)
        /\ Len(Tail(backlog)) = Len(backlog) - 1
        /\ \A k \in 1 .. Len(Tail(backlog)) : Tail(backlog)[k] = backlog[k + 1]
    BY <1>1, HeadTailProperties
  <2>2. Len(backlog) \in Nat \ {0} /\ DOMAIN backlog = 1 .. Len(backlog)
    BY <1>1, EmptySeq, LenProperties
  <2>3. DOMAIN Tail(backlog) = 1 .. Len(backlog) - 1
    BY <2>1, LenProperties
  <2> QED
    BY <1>1, <2>1, <2>2, <2>3 DEF Accept
<1>3. n \in Node /\ n.conn = c
  BY <1>2 DEF Node
<1>4. userList' = <<n>> \o userList
  BY DEF Accept
<1> HIDE DEF n
<1>5. /\ DOMAIN userList' = 1 .. Len(userList) + 1
      /\ \A i \in 1 .. Len(userList) + 1 :
            userList'[i] = IF i = 1 THEN n ELSE userList[i - 1]
  BY <1>1, <1>3, <1>4, InFront
<1>6. DOMAIN userList = 1 .. Len(userList) /\ Len(userList) \in Nat
  BY <1>1, LenProperties
<1>7. fds' = fds \cup {c} /\ peer' = peer
  BY DEF Accept
<1> HIDE DEF c
<1>8. \A i \in DOMAIN userList' :
         \/ i = 1 /\ userList'[i].conn = c
         \/ i - 1 \in DOMAIN userList /\ userList'[i] = userList[i - 1]
  BY <1>3, <1>5, <1>6
<1>9. \A i \in DOMAIN userList :
         /\ userList[i].conn # c /\ userList[i].conn \in fds
         /\ peer[userList[i].conn] # "free"
         /\ \A k \in DOMAIN backlog : backlog[k] # userList[i].conn
  BY <1>2 DEF DescriptorInv, SessionDescriptors
<1>10. /\ peer[c] # "free"
       /\ \A k \in DOMAIN backlog' : backlog'[k] # c
  BY <1>2 DEF DescriptorInv, BacklogDistinct
<1>11. BacklogDistinct'
  <2>1. ASSUME NEW j \in DOMAIN backlog', NEW k \in DOMAIN backlog',
               backlog'[j] = backlog'[k]
        PROVE  j = k
    <3>1. j + 1 = k + 1
      BY <1>2, <2>1 DEF DescriptorInv, BacklogDistinct
    <3> QED
      BY <1>2, <3>1
  <2> QED
    BY <1>2, <1>7, <2>1 DEF DescriptorInv, BacklogDistinct
<1>12. ASSUME NEW i \in DOMAIN userList', NEW j \in DOMAIN userList',
              userList'[i].conn = userList'[j].conn
       PROVE  i = j
  <2>1. \A k \in DOMAIN userList' : k \in Nat
    BY <1>5, <1>6
  <2>2. CASE i - 1 \in DOMAIN userList /\ j - 1 \in DOMAIN userList
             /\ userList'[i] = userList[i - 1] /\ userList'[j] = userList[j - 1]
    <3>1. i - 1 = j - 1
      BY <1>12, <2>2 DEF DescriptorInv, SessionDescriptors
    <3> QED
      BY <2>1, <3>1
  <2> QED
    BY <1>8, <1>9, <1>12, <2>2
<1>13. ASSUME NEW i \in DOMAIN userList'
       PROVE  /\ userList'[i].conn \in fds'
              /\ peer'[userList'[i].conn] # "free"
              /\ \A k \in DOMAIN backlog' : backlog'[k] # userList'[i].conn
  BY <1>2, <1>7, <1>8, <1>9, <1>10
<1> QED
  BY <1>11, <1>12, <1>13 DEF SessionDescriptors

(* A session that ends gives back its own descriptor and no other.         *)
LEMMA CloseDescriptors ==
    ASSUME DescriptorInv, ConstantsAssumption,
           NEW i \in DOMAIN userList, CloseSession(i)
    PROVE  SessionDescriptors' /\ BacklogDistinct'
<1> DEFINE c == userList[i].conn
<1>1. userList \in Seq(Node) /\ {i} \in SUBSET DOMAIN userList
  BY DEF DescriptorInv, TypeOK
<1>2. userList' = DropThroughAll(userList, {i})
  BY DEF CloseSession
<1>3. PICK k \in 0 .. Len(userList) :
         /\ DOMAIN userList' = 1 .. Len(userList) - k
         /\ \A j \in 1 .. Len(userList) - k :
               /\ userList'[j] = userList[j + k]
               /\ j + k \in DOMAIN userList \ {i}
  BY <1>1, <1>2, DropLeavesASuffix
<1>4. fds' = fds \ {c} /\ backlog' = backlog
      /\ peer' = [peer EXCEPT ![c] = "free"]
  BY DEF CloseSession
<1>5. peer \in [Conns -> {"free", "open", "closed"}]
  BY DEF DescriptorInv, TypeOK
<1>6. \A j \in DOMAIN userList' :
         /\ j \in Nat
         /\ j + k \in DOMAIN userList /\ userList'[j] = userList[j + k]
         /\ userList'[j].conn # c
  BY <1>3 DEF DescriptorInv, SessionDescriptors
<1>7. \A m \in DOMAIN backlog : backlog[m] # c
  BY DEF DescriptorInv, SessionDescriptors
<1>8. \A d \in Conns : d # c => peer'[d] = peer[d]
  BY <1>4, <1>5
<1>9. \A m \in DOMAIN backlog : backlog[m] \in Conns
  BY ElementOfSeq, LenProperties DEF DescriptorInv, TypeOK
<1>10. BacklogDistinct'
  BY <1>4, <1>7, <1>8, <1>9 DEF DescriptorInv, BacklogDistinct
<1>11. ASSUME NEW j \in DOMAIN userList', NEW m \in DOMAIN userList',
              userList'[j].conn = userList'[m].conn
       PROVE  j = m
  <2>1. j + k = m + k
    BY <1>6, <1>11 DEF DescriptorInv, SessionDescriptors
  <2> QED
    BY <1>3, <1>6, <2>1
<1>12. ASSUME NEW j \in DOMAIN userList'
       PROVE  /\ userList'[j].conn \in fds'
              /\ peer'[userList'[j].conn] # "free"
              /\ \A m \in DOMAIN backlog' : backlog'[m] # userList'[j].conn
  <2>1. userList'[j].conn \in Conns
    BY <1>6, Fields DEF DescriptorInv
  <2> QED
    BY <1>4, <1>6, <1>8, <2>1 DEF DescriptorInv, SessionDescriptors
<1> QED
  BY <1>10, <1>11, <1>12 DEF SessionDescriptors

(* A connection that is made uses a descriptor nothing uses. *)
LEMMA ConnectDescriptors ==
    ASSUME DescriptorInv, NEW c \in Conns, ClientConnects(c)
    PROVE  SessionDescriptors' /\ BacklogDistinct'
<1>1. backlog \in Seq(Conns) /\ peer \in [Conns -> {"free", "open", "closed"}]
  BY DEF DescriptorInv, TypeOK
<1>2. DOMAIN backlog = 1 .. Len(backlog) /\ Len(backlog) \in Nat
  BY <1>1, LenProperties
<1>3. /\ backlog' \in Seq(Conns) /\ Len(backlog') = Len(backlog) + 1
      /\ \A k \in 1 .. Len(backlog) : backlog'[k] = backlog[k]
      /\ backlog'[Len(backlog) + 1] = c
  BY <1>1, AppendProperties DEF ClientConnects
<1>4. DOMAIN backlog' = 1 .. Len(backlog) + 1
  BY <1>3, LenProperties
<1>5. \A k \in DOMAIN backlog' :
         \/ k \in DOMAIN backlog /\ backlog'[k] = backlog[k]
         \/ k = Len(backlog) + 1 /\ backlog'[k] = c
  BY <1>2, <1>3, <1>4
<1>6. peer[c] = "free" /\ peer' = [peer EXCEPT ![c] = "open"]
  BY DEF ClientConnects
<1>7. \A d \in Conns : peer[d] # "free" => peer'[d] # "free"
  BY <1>1, <1>6
<1>8. \A k \in DOMAIN backlog : backlog[k] \in Conns /\ backlog[k] # c
  BY <1>1, <1>2, <1>6, ElementOfSeq DEF DescriptorInv, BacklogDistinct
<1>9. \A i \in DOMAIN userList :
         userList[i].conn \in Conns /\ userList[i].conn # c
  BY <1>6, Fields DEF DescriptorInv, SessionDescriptors
<1>10. UNCHANGED <<userList, fds>>
  BY DEF ClientConnects, Outside
<1>11. BacklogDistinct'
  BY <1>1, <1>5, <1>6, <1>7, <1>8 DEF DescriptorInv, BacklogDistinct
<1>12. SessionDescriptors'
  BY <1>5, <1>7, <1>9, <1>10 DEF DescriptorInv, SessionDescriptors
<1> QED
  BY <1>11, <1>12

(* Every other step leaves the descriptors alone, or ends the process. *)
LEMMA StepDescriptors ==
    ConstantsAssumption /\ DescriptorInv /\ [Next]_vars
        => SessionDescriptors' /\ BacklogDistinct'
<1> SUFFICES ASSUME ConstantsAssumption, DescriptorInv, [Next]_vars
             PROVE  SessionDescriptors' /\ BacklogDistinct'
  OBVIOUS
<1>0. TypeOK
  BY DEF DescriptorInv
<1>1. CASE req_authOP
  <2>1. SameConns
    <3>1. CASE inUserList(Datagram.uid)
      BY <1>0, <1>1, <3>1, AfterVLD DEF SameConns
    <3>2. CASE ~inUserList(Datagram.uid)
      BY <1>1, <3>2 DEF req_authOP, SameConns
    <3> QED
      BY <3>1, <3>2
  <2> QED
    BY <1>1, <2>1, SameDescriptors DEF req_authOP, ReceiveUdp
<1>2. CASE \/ req_registerPD \/ req_unregisterPD \/ resp_validationCode
           \/ FatalDatagram
  <2>1. SameConns
    BY <1>2 DEF req_registerPD, req_unregisterPD, resp_validationCode,
                FatalDatagram, SameConns
  <2>2. UNCHANGED <<fds, peer, backlog>>
    BY <1>2 DEF req_registerPD, req_unregisterPD, resp_validationCode,
                FatalDatagram, ReceiveUdp
  <2> QED
    BY <2>1, <2>2, SameDescriptors
<1>3. ASSUME NEW i \in DOMAIN userList,
             req_loginUser(i) \/ req_fileOP(i) \/ req_auth(i)
                \/ FatalMessage(i)
      PROVE  SessionDescriptors' /\ BacklogDistinct'
  <2>1. SameConns
    BY <1>0, <1>3, AfterSegment DEF SameConns
  <2>2. UNCHANGED <<fds, peer, backlog>>
    BY <1>3 DEF req_loginUser, req_fileOP, req_auth, FatalMessage, ReceiveTcp
  <2> QED
    BY <2>1, <2>2, SameDescriptors
<1>4. CASE exitAS \/ Kill
  BY <1>4, EndedDescriptors DEF exitAS, Kill
<1>5. CASE \/ Select \/ Timeout \/ LoopHead \/ Signal \/ Start
           \/ \E m \in UdpMsg : UdpArrives(m)
           \/ \E c \in Conns, m \in TcpMsg : ClientSends(c, m)
           \/ UNCHANGED vars
  <2>1. UNCHANGED <<userList, fds, peer, backlog>>
    BY <1>5 DEF Select, Timeout, LoopHead, Signal, Start, UdpArrives,
                ClientSends, Outside, vars
  <2> QED
    BY <2>1, SameDescriptors DEF SameConns
<1>6. ASSUME NEW c \in Conns, ClientCloses(c)
      PROVE  SessionDescriptors' /\ BacklogDistinct'
  <2>1. \A d \in Conns : peer[d] # "free" => peer'[d] # "free"
    BY <1>0, <1>6 DEF ClientCloses, TypeOK
  <2>2. UNCHANGED <<userList, fds, backlog>>
    BY <1>6 DEF ClientCloses, Outside
  <2>3. \A k \in DOMAIN backlog : backlog[k] \in Conns
    BY <1>0, ElementOfSeq, LenProperties DEF TypeOK
  <2>4. \A i \in DOMAIN userList : userList[i].conn \in Conns
    BY <1>0, Fields
  <2> QED
    BY <2>1, <2>2, <2>3, <2>4
    DEF DescriptorInv, SessionDescriptors, BacklogDistinct
<1>7. CASE HandleUDP
  BY <1>1, <1>2, <1>7 DEF HandleUDP
<1>8. CASE \E i \in DOMAIN userList : HandleTCP(i)
  BY <1>3, <1>8, CloseDescriptors DEF HandleTCP
<1>9. CASE Clients
  BY <1>5, <1>6, <1>9, ConnectDescriptors DEF Clients
<1> QED
  BY <1>4, <1>5, <1>7, <1>8, <1>9, AcceptDescriptors DEF Next, ServerStep

(* No two sessions share a descriptor, and no session has one that select  *)
(* does not watch, that was closed or that was not accepted.               *)
THEOREM DescriptorsAreSound == Spec => []SessionDescriptors
<1>1. Init => DescriptorInv
  BY InitTyped DEF DescriptorInv, Init, SessionDescriptors, BacklogDistinct
<1>2. DescriptorInv /\ [Next]_vars => DescriptorInv'
  BY StepTyped, StepDescriptors, ConstantsAssumption DEF DescriptorInv
<1>3. DescriptorInv => SessionDescriptors
  BY DEF DescriptorInv
<1> QED
  BY <1>1, <1>2, <1>3, PTL DEF Spec

-----------------------------------------------------------------------------
(* Requests, codes and tickets. *)

(* A session that still has an rid, be it the one it started with, was     *)
(* given no more tickets than it made requests, and one that still has its *)
(* tid had fewer tickets confirmed than given: why a number that is        *)
(* cleared on use is used once.  What is not accepted yet was given none.  *)
LiveNumbersUnused ==
    /\ \A i \in DOMAIN userList :
          /\ userList[i].rid # Clear => AccountOf(i).tid <= AccountOf(i).req
          /\ userList[i].tid \in Tids => AccountOf(i).cnf < AccountOf(i).tid
    /\ \A k \in DOMAIN backlog : ledger[backlog[k]] = NewAccount

TicketInv == /\ DescriptorInv
             /\ LiveNumbersUnused
             /\ TicketsOneTime
             /\ UnwrittenOnce

TicketConclusion ==
    LiveNumbersUnused' /\ TicketsOneTime' /\ UnwrittenOnce'

(* Steps that change neither sessions nor accounts. *)
LEMMA SameNumbers ==
    ASSUME TicketInv, UNCHANGED <<userList, ledger, backlog>>
    PROVE  TicketConclusion
BY DEF TicketInv, TicketConclusion, LiveNumbersUnused, TicketsOneTime,
       UnwrittenOnce, AccountOf

(* A process that ended has given no ticket. *)
LEMMA EndedNumbers ==
    ASSUME ProcessEnds PROVE TicketConclusion
BY DEF ProcessEnds, NewAccount, TicketConclusion, LiveNumbersUnused,
       TicketsOneTime, UnwrittenOnce

(* The account of one session changes, and that session alone: what has to *)
(* hold of them for the whole to hold.                                     *)
LEMMA OneAccount ==
    ASSUME TicketInv, TypeOK', NEW i \in DOMAIN userList,
           DOMAIN userList' = DOMAIN userList,
           \A j \in DOMAIN userList \ {i} : userList'[j] = userList[j],
           userList'[i].conn = userList[i].conn,
           UNCHANGED backlog,
           NEW a \in Account,
           ledger' = [ledger EXCEPT ![userList[i].conn] = a],
           userList'[i].rid # Clear => a.tid <= a.req,
           userList'[i].tid \in Tids => a.cnf < a.tid,
           a.tid <= a.req + 1 /\ a.cnf <= a.tid,
           userList'[i].op = NoOp => a.req = 0
    PROVE  TicketConclusion
<1> DEFINE c == userList[i].conn
<1>1. TypeOK /\ SessionDescriptors
  BY DEF TicketInv, DescriptorInv
<1>2. c \in Conns
  BY <1>1, Fields
<1>3. ledger'[c] = a /\ \A d \in Conns \ {c} : ledger'[d] = ledger[d]
  BY <1>1, <1>2 DEF TypeOK
<1>4. ASSUME NEW j \in DOMAIN userList, j # i
      PROVE  /\ userList'[j] = userList[j]
             /\ ledger'[userList[j].conn] = ledger[userList[j].conn]
  <2>1. userList[j].conn \in Conns \ {c}
    BY <1>1, <1>4, Fields DEF SessionDescriptors
  <2> QED
    BY <1>3, <1>4, <2>1
<1>5. ASSUME NEW k \in DOMAIN backlog
      PROVE  ledger'[backlog[k]] = ledger[backlog[k]]
  <2>1. backlog[k] \in Conns \ {c}
    BY <1>1 DEF SessionDescriptors, TypeOK
  <2> QED
    BY <1>3, <2>1
<1>6. LiveNumbersUnused'
  BY <1>3, <1>4, <1>5 DEF TicketInv, LiveNumbersUnused, AccountOf
<1>7. TicketsOneTime'
  BY <1>3 DEF TicketInv, TicketsOneTime
<1>8. a.req = 0 => a.cnf <= 1
  BY DEF Account
<1>9. UnwrittenOnce'
  BY <1>3, <1>4, <1>8 DEF TicketInv, UnwrittenOnce, AccountOf
<1> QED
  BY <1>6, <1>7, <1>9 DEF TicketConclusion

(* A VLD uses the ticket up, whether or not it confirms it. *)
LEMMA ConfirmOnce ==
    ASSUME TicketInv, TypeOK', ConstantsAssumption, req_authOP,
           inUserList(Datagram.uid)
    PROVE  TicketConclusion
<1>0. TypeOK
  BY DEF TicketInv, DescriptorInv
<1>1. PICK i \in DOMAIN userList :
         /\ \E op \in OpRead(userList[i]) : AnswerVLD(i, Datagram.tid, op)
         /\ Datagram.tid \in Tids
         /\ DOMAIN userList' = DOMAIN userList
         /\ \A j \in DOMAIN userList \ {i} : userList'[j] = userList[j]
         /\ userList'[i] \in Node
         /\ userList'[i].conn = userList[i].conn
         /\ userList'[i].rid = userList[i].rid
         /\ userList'[i].op = userList[i].op
         /\ userList'[i].tid = Clear
  BY <1>0, AfterVLD
<1> DEFINE c == userList[i].conn
           a == ledger[c]
<1>2. c \in Conns /\ a \in Account /\ AccountOf(i) = a
  BY <1>0, Fields DEF TypeOK, AccountOf
<1>3. a.tid \in Nat /\ a.req \in Nat /\ a.cnf \in Nat
  BY <1>2 DEF Account
<1>4. Clear \notin Tids /\ UNCHANGED backlog
  BY DEF ConstantsAssumption, req_authOP, ReceiveUdp
<1>5. /\ userList[i].rid # Clear => a.tid <= a.req
      /\ userList[i].tid \in Tids => a.cnf < a.tid
      /\ a.tid <= a.req + 1 /\ a.cnf <= a.tid
      /\ userList[i].op = NoOp => a.req = 0
  BY <1>2 DEF TicketInv, LiveNumbersUnused, TicketsOneTime, UnwrittenOnce
<1>6. CASE Confirmed(userList[i], Datagram.tid)
  <2> DEFINE b == [a EXCEPT !.cnf = @ + 1]
  <2>1. b \in Account /\ b.req = a.req /\ b.tid = a.tid /\ b.cnf = a.cnf + 1
    BY <1>2 DEF Account
  <2>2. ledger' = [ledger EXCEPT ![c] = b]
    BY <1>1, <1>6 DEF AnswerVLD, Enter
  <2>3. a.cnf < a.tid
    BY <1>1, <1>5, <1>6 DEF Confirmed
  <2> HIDE DEF a, b
  <2>4. b.tid <= b.req + 1 /\ b.cnf <= b.tid
    BY <1>3, <1>5, <2>1, <2>3
  <2> QED
    BY <1>1, <1>4, <1>5, <2>1, <2>2, <2>4, OneAccount
<1>7. CASE ~Confirmed(userList[i], Datagram.tid)
  <2>1. ledger' = ledger
    BY <1>1, <1>7 DEF AnswerVLD
  <2>2. ledger' = [ledger EXCEPT ![c] = a]
    BY <1>0, <1>2, <2>1 DEF TypeOK
  <2> HIDE DEF a
  <2> QED
    BY <1>1, <1>2, <1>4, <1>5, <2>2, OneAccount
<1> QED
  BY <1>6, <1>7

(* A request makes a code live; the ticket given for it uses it up. *)
LEMMA GrantOnce ==
    ASSUME TicketInv, TypeOK', ConstantsAssumption, NEW i \in DOMAIN userList,
           req_loginUser(i) \/ req_fileOP(i) \/ req_auth(i) \/ FatalMessage(i)
    PROVE  TicketConclusion
<1>0. TypeOK
  BY DEF TicketInv, DescriptorInv
<1> DEFINE c == userList[i].conn
           a == ledger[c]
           old == userList[i]
           new == userList'[i]
<1>1. c \in Conns /\ a \in Account /\ AccountOf(i) = a
  BY <1>0, Fields DEF TypeOK, AccountOf
<1>2. a.tid \in Nat /\ a.req \in Nat /\ a.cnf \in Nat
  BY <1>1 DEF Account
<1>3. NoOp \notin Ops /\ UNCHANGED backlog
  BY DEF ConstantsAssumption, req_loginUser, req_fileOP, req_auth,
         FatalMessage, ReceiveTcp
<1>4. /\ old.rid # Clear => a.tid <= a.req
      /\ old.tid \in Tids => a.cnf < a.tid
      /\ a.tid <= a.req + 1 /\ a.cnf <= a.tid
      /\ old.op = NoOp => a.req = 0
  BY <1>1 DEF TicketInv, LiveNumbersUnused, TicketsOneTime, UnwrittenOnce
<1>5. /\ DOMAIN userList' = DOMAIN userList
      /\ \A j \in DOMAIN userList \ {i} : userList'[j] = userList[j]
      /\ new.conn = old.conn
      /\ \/ /\ new.rid = old.rid /\ new.tid = old.tid /\ new.op = old.op
            /\ UNCHANGED ledger
         \/ /\ new.tid = old.tid /\ new.op \in Ops
            /\ ledger' = [ledger EXCEPT ![c] = [a EXCEPT !.req = @ + 1]]
         \/ /\ old.rid # Clear /\ new.rid = Clear /\ new.tid \in Tids
            /\ new.op = old.op
            /\ ledger' = [ledger EXCEPT ![c] =
                             [a EXCEPT !.tid = @ + 1]]
  BY <1>0, <1>1, AfterSegment DEF Enter
<1>6. CASE new.rid = old.rid /\ new.tid = old.tid /\ new.op = old.op
           /\ UNCHANGED ledger
  <2>1. ledger' = [ledger EXCEPT ![c] = a]
    BY <1>0, <1>1, <1>6 DEF TypeOK
  <2> HIDE DEF a
  <2> QED
    BY <1>1, <1>3, <1>4, <1>5, <1>6, <2>1, OneAccount
<1>7. CASE new.tid = old.tid /\ new.op \in Ops
           /\ ledger' = [ledger EXCEPT ![c] = [a EXCEPT !.req = @ + 1]]
  <2> DEFINE b == [a EXCEPT !.req = @ + 1]
  <2>1. b \in Account /\ b.req = a.req + 1 /\ b.tid = a.tid /\ b.cnf = a.cnf
    BY <1>1 DEF Account
  <2>2. ledger' = [ledger EXCEPT ![c] = b]
    BY <1>7
  <2> HIDE DEF a, b
  <2>3. b.tid <= b.req /\ b.tid <= b.req + 1 /\ b.cnf <= b.tid
    BY <1>2, <1>4, <2>1
  <2> QED
    BY <1>3, <1>4, <1>5, <1>7, <2>1, <2>2, <2>3, OneAccount
<1>8. CASE old.rid # Clear /\ new.rid = Clear /\ new.tid \in Tids
           /\ new.op = old.op
           /\ ledger' = [ledger EXCEPT ![c] =
                            [a EXCEPT !.tid = @ + 1]]
  <2> DEFINE b == [a EXCEPT !.tid = @ + 1]
  <2>1. b.req = a.req /\ b.tid = a.tid + 1 /\ b.cnf = a.cnf
    BY <1>1 DEF Account
  <2>2. ledger' = [ledger EXCEPT ![c] = b]
    BY <1>8
  <2>3. b \in Account
    BY <1>0, <1>1, <2>2 DEF TypeOK
  <2> HIDE DEF a, b
  <2>4. b.tid <= b.req + 1 /\ b.cnf < b.tid /\ b.cnf <= b.tid
    BY <1>2, <1>4, <1>8, <2>1
  <2> QED
    BY <1>3, <1>4, <1>5, <1>8, <2>1, <2>2, <2>3, <2>4, OneAccount
<1> QED
  BY <1>5, <1>6, <1>7, <1>8

(* A new session has an rid and was given no ticket. *)
LEMMA AcceptNumbers ==
    ASSUME TicketInv, ConstantsAssumption, Accept
    PROVE  TicketConclusion
<1> DEFINE n == [conn |-> Head(backlog), uid |-> NoUid, vc |-> Fresh,
                 rid |-> Fresh, tid |-> Fresh, op |-> NoOp]
<1>0. TypeOK
  BY DEF TicketInv, DescriptorInv
<1>1. userList \in Seq(Node) /\ Head(backlog) \in Conns
  BY <1>0, HeadTailProperties DEF TypeOK, Accept
<1>2. n \in Node /\ n.tid \notin Tids /\ n.conn = Head(backlog)
  BY <1>1 DEF Node, ConstantsAssumption
<1>3. userList' = <<n>> \o userList /\ ledger' = ledger
  BY DEF Accept
<1>6. backlog \in Seq(Conns) /\ backlog # <<>> /\ backlog' = Tail(backlog)
  BY <1>0 DEF TypeOK, Accept
<1>7. /\ Head(backlog) = backlog[1] /\ 1 \in DOMAIN backlog
      /\ \A k \in DOMAIN backlog' :
            k + 1 \in DOMAIN backlog /\ backlog'[k] = backlog[k + 1]
  BY <1>6
<1>8. ledger[n.conn] = NewAccount
  BY <1>2, <1>7 DEF TicketInv, LiveNumbersUnused
<1> HIDE DEF n
<1>4. /\ DOMAIN userList' = 1 .. Len(userList) + 1
      /\ \A i \in 1 .. Len(userList) + 1 :
            userList'[i] = IF i = 1 THEN n ELSE userList[i - 1]
  BY <1>1, <1>2, <1>3, InFront
<1>5. \A i \in DOMAIN userList' :
         \/ userList'[i] = n
         \/ i - 1 \in DOMAIN userList /\ userList'[i] = userList[i - 1]
  BY <1>0, <1>4, Fields
<1>9. LiveNumbersUnused'
  BY <1>2, <1>3, <1>5, <1>7, <1>8
  DEF TicketInv, LiveNumbersUnused, AccountOf, NewAccount
<1>10. UnwrittenOnce'
  BY <1>3, <1>5, <1>8 DEF TicketInv, UnwrittenOnce, AccountOf, NewAccount
<1> QED
  BY <1>3, <1>9, <1>10 DEF TicketInv, TicketConclusion, TicketsOneTime

(* The sessions left after a removal keep their numbers. *)
LEMMA CloseNumbers ==
    ASSUME TicketInv, NEW i \in DOMAIN userList, CloseSession(i)
    PROVE  TicketConclusion
<1>1. userList \in Seq(Node) /\ {i} \in SUBSET DOMAIN userList
  BY DEF TicketInv, DescriptorInv, TypeOK
<1>2. /\ userList' = DropThroughAll(userList, {i})
      /\ ledger' = ledger /\ backlog' = backlog
  BY DEF CloseSession
<1>3. \A k \in DOMAIN DropThroughAll(userList, {i}) :
         \E j \in DOMAIN userList \ {i} :
            DropThroughAll(userList, {i})[k] = userList[j]
  BY <1>1, DropKeepsTheRest
<1>4. \A k \in DOMAIN userList' :
         \E j \in DOMAIN userList : userList'[k] = userList[j]
  BY <1>2, <1>3
<1>5. LiveNumbersUnused'
  BY <1>2, <1>4 DEF TicketInv, LiveNumbersUnused, AccountOf
<1>6. UnwrittenOnce'
  BY <1>2, <1>4 DEF TicketInv, UnwrittenOnce, AccountOf
<1> QED
  BY <1>2, <1>5, <1>6 DEF TicketInv, TicketConclusion, TicketsOneTime

(* A new connection starts a new account, which no session has. *)
LEMMA ConnectNumbers ==
    ASSUME TicketInv, NEW c \in Conns, ClientConnects(c)
    PROVE  TicketConclusion
<1>0. TypeOK
  BY DEF TicketInv, DescriptorInv
<1>1. \A i \in DOMAIN userList :
         userList[i].conn \in Conns /\ userList[i].conn # c
  BY <1>0, Fields
  DEF TicketInv, DescriptorInv, SessionDescriptors, ClientConnects
<1>2. userList' = userList /\ ledger' = [ledger EXCEPT ![c] = NewAccount]
  BY DEF ClientConnects, Outside
<1>3. \A d \in Conns : ledger'[d] = IF d = c THEN NewAccount ELSE ledger[d]
  BY <1>0, <1>2 DEF TypeOK
<1>4. /\ backlog \in Seq(Conns) /\ backlog' = Append(backlog, c)
      /\ \A k \in DOMAIN backlog' :
            \/ backlog'[k] = c
            \/ k \in DOMAIN backlog /\ backlog'[k] = backlog[k]
  BY <1>0 DEF TypeOK, ClientConnects
<1>5. LiveNumbersUnused'
  <2>1. \A k \in DOMAIN backlog' : ledger'[backlog'[k]] = NewAccount
    BY <1>3, <1>4 DEF TicketInv, LiveNumbersUnused
  <2> QED
    BY <1>1, <1>2, <1>3, <2>1 DEF TicketInv, LiveNumbersUnused, AccountOf
<1>6. TicketsOneTime'
  BY <1>3 DEF TicketInv, TicketsOneTime, NewAccount
<1>7. UnwrittenOnce'
  BY <1>1, <1>2, <1>3 DEF TicketInv, UnwrittenOnce, AccountOf
<1> QED
  BY <1>5, <1>6, <1>7 DEF TicketConclusion

(* Every step keeps the accounts in order. *)
LEMMA StepNumbers ==
    ConstantsAssumption /\ TicketInv /\ TypeOK' /\ [Next]_vars => TicketConclusion
<1> SUFFICES ASSUME ConstantsAssumption, TicketInv, TypeOK', [Next]_vars
             PROVE  TicketConclusion
  OBVIOUS
<1>1. CASE HandleUDP
  <2>1. CASE req_authOP
    <3>1. CASE inUserList(Datagram.uid)
      BY <2>1, <3>1, ConfirmOnce
    <3>2. CASE ~inUserList(Datagram.uid)
      BY <2>1, <3>2, SameNumbers DEF req_authOP, ReceiveUdp
    <3> QED
      BY <3>1, <3>2
  <2>2. CASE req_registerPD \/ req_unregisterPD \/ resp_validationCode
             \/ FatalDatagram
    BY <2>2, SameNumbers
    DEF req_registerPD, req_unregisterPD, resp_validationCode, FatalDatagram,
        ReceiveUdp
  <2> QED
    BY <1>1, <2>1, <2>2 DEF HandleUDP
<1>2. CASE \E i \in DOMAIN userList : HandleTCP(i)
  BY <1>2, GrantOnce, CloseNumbers DEF HandleTCP
<1>3. CASE exitAS \/ Kill
  BY <1>3, EndedNumbers DEF exitAS, Kill
<1>4. CASE Accept
  BY <1>4, AcceptNumbers
<1>5. CASE Clients
  <2>1. ASSUME NEW m \in UdpMsg, UdpArrives(m) PROVE TicketConclusion
    BY <2>1, SameNumbers DEF UdpArrives, Outside
  <2>2. ASSUME NEW c \in Conns, NEW m \in TcpMsg, ClientSends(c, m)
        PROVE  TicketConclusion
    BY <2>2, SameNumbers DEF ClientSends, Outside
  <2>3. ASSUME NEW c \in Conns, ClientCloses(c) PROVE TicketConclusion
    BY <2>3, SameNumbers DEF ClientCloses, Outside
  <2> QED
    BY <1>5, <2>1, <2>2, <2>3, ConnectNumbers DEF Clients
<1>6. CASE Select \/ Timeout \/ LoopHead \/ Signal \/ Start \/ UNCHANGED vars
  BY <1>6, SameNumbers DEF Select, Timeout, LoopHead, Signal, Start, vars
<1> QED
  BY <1>1, <1>2, <1>3, <1>4, <1>5, <1>6 DEF Next, ServerStep

(* The inductive invariant of the sessions. *)
LEMMA TicketInvHolds == Spec => []TicketInv
<1>1. Init => TicketInv
  BY InitTyped
  DEF TicketInv, DescriptorInv, LiveNumbersUnused, Init, SessionDescriptors,
      BacklogDistinct, TicketsOneTime, UnwrittenOnce, NewAccount
<1>2. TicketInv /\ [Next]_vars => TicketInv'
  BY StepTyped, StepDescriptors, StepNumbers, ConstantsAssumption
  DEF TicketInv, DescriptorInv, TicketConclusion
<1> QED
  BY <1>1, <1>2, PTL DEF Spec

(* Each request is given one ticket at most, but for one that a new        *)
(* session has to get, and each ticket confirms one operation at most, for *)
(* any numbers the clients and rand() choose, equal ones included.         *)
THEOREM OneTicketPerRequest == Spec => []TicketsOneTime
<1>1. TicketInv => TicketsOneTime
  BY DEF TicketInv
<1> QED
  BY <1>1, TicketInvHolds, PTL

(* A session whose fop and fname were never written made no request, and   *)
(* confirms one ticket at most with what malloc left there: its ticket for *)
(* 0000 0000.                                                              *)
THEOREM UnwrittenUsedOnce == Spec => []UnwrittenOnce
<1>1. TicketInv => UnwrittenOnce
  BY DEF TicketInv
<1> QED
  BY <1>1, TicketInvHolds, PTL

-----------------------------------------------------------------------------
(* The passwords. *)

(* A password, once stored, is only ever removed, and only for a ticket of *)
(* its user: no registration replaces it, whoever sends it and in whatever *)
(* order the datagrams arrive.                                             *)
THEOREM PasswordIsStable == Spec => PasswordStable
<1> DEFINE Kept == \A u \in Uids :
                      pass[u] # NoPass /\ pass'[u] # pass[u] =>
                          pass'[u] = NoPass /\ TicketShown(u)
<1>1. ASSUME ConstantsAssumption, TypeOK, [Next]_vars PROVE Kept
  <2>1. CASE req_registerPD
    BY <1>1, <2>1 DEF req_registerPD, Registrable, TypeOK
  <2>2. CASE req_authOP
    <3> DEFINE i == getUserNode(Datagram.uid)
               n == userList[i]
    <3>1. CASE inUserList(Datagram.uid)
      <4>1. n.uid = Datagram.uid
        BY <1>1, <3>1, NewestSession
      <4>2. PICK read \in OpRead(n) : AnswerVLD(i, Datagram.tid, read)
        BY <2>2, <3>1 DEF req_authOP
      <4>3. ReceivesUdp("VLD")
        BY <2>2 DEF req_authOP, ReceiveUdp, ReceivesUdp
      <4>4. CASE Confirmed(n, Datagram.tid)
        <5>1. TicketShown(Datagram.uid)
          BY <3>1, <4>3, <4>4 DEF TicketShown
        <5>2. \A u \in Uids \ {Datagram.uid} : pass'[u] = pass[u]
          BY <1>1, <4>1, <4>2 DEF AnswerVLD, TypeOK
        <5>3. Datagram.uid \in Uids =>
                 pass'[Datagram.uid] \in {pass[Datagram.uid], NoPass}
          BY <1>1, <4>1, <4>2 DEF AnswerVLD, TypeOK
        <5> QED
          BY <5>1, <5>2, <5>3
      <4>5. CASE ~Confirmed(n, Datagram.tid)
        BY <4>2, <4>5 DEF AnswerVLD
      <4> QED
        BY <4>4, <4>5
    <3>2. CASE ~inUserList(Datagram.uid)
      BY <2>2, <3>2 DEF req_authOP
    <3> QED
      BY <3>1, <3>2
  <2>3. CASE \/ req_unregisterPD \/ resp_validationCode \/ FatalDatagram
             \/ \E i \in DOMAIN userList : HandleTCP(i)
    <3>1. pass' = pass
      BY <2>3 DEF req_unregisterPD, resp_validationCode, FatalDatagram,
                  HandleTCP, req_loginUser, req_fileOP, req_auth,
                  FatalMessage, CloseSession
    <3> QED
      BY <3>1
  <2>4. CASE \/ Select \/ Timeout \/ Accept \/ LoopHead \/ exitAS
             \/ Clients \/ Signal \/ Start \/ UNCHANGED vars
    <3>1. pass' = pass
      BY <2>4 DEF Select, Timeout, Accept, LoopHead, exitAS, Clients,
                  UdpArrives, ClientConnects, ClientCloses, ClientSends,
                  Outside, Signal, Start, vars
    <3> QED
      BY <3>1
  <2>5. CASE Kill
    <3>1. CASE HalfRegistered
      BY <1>1, <3>1 DEF HalfRegistered, Registrable, TypeOK
    <3>2. CASE HalfRemoved
      <4>1. TicketShown(Datagram.uid)
        BY <3>2 DEF HalfRemoved, TicketShown
      <4>2. \A u \in Uids : \/ pass'[u] = pass[u]
                            \/ u = Datagram.uid /\ pass'[u] = NoPass
        BY <1>1, <3>2 DEF HalfRemoved, TypeOK
      <4> QED
        BY <4>1, <4>2
    <3>3. CASE HalfCleaned \/ UNCHANGED <<reg, pass>>
      BY <3>3 DEF HalfCleaned
    <3> QED
      BY <2>5, <3>1, <3>2, <3>3 DEF Kill
  <2> QED
    BY <1>1, <2>1, <2>2, <2>3, <2>4, <2>5 DEF Next, ServerStep, HandleUDP
<1>2. ConstantsAssumption /\ TypeOK /\ [Next]_vars => [Kept]_vars
  BY <1>1
<1> QED
  BY <1>2, ConstantsAssumption, TypeCorrect, PTL DEF Spec, PasswordStable

(* Nobody becomes registered without a password, wherever a kill cuts a    *)
(* registration or a removal: only a finished req_registerPD adds a user.  *)
THEOREM RegistrationHasPassword == Spec => RegisteredWithPassword
<1> DEFINE Backed == \A u \in reg' \ reg : pass'[u] # NoPass
<1>1. ASSUME ConstantsAssumption, TypeOK, [Next]_vars PROVE Backed
  <2>1. CASE req_registerPD
    <3>1. ReceiveUdp({"REG"}) /\ Datagram.type = "REG"
      BY <2>1 DEF req_registerPD, ReceiveUdp
    <3>2. Datagram.uid \in Uids /\ Datagram.pass \in Passes
      BY <1>1, <3>1, UdpReceived, MessageFields
    <3>3. Datagram.pass # NoPass
      BY <1>1, <3>2 DEF ConstantsAssumption
    <3> QED
      BY <1>1, <2>1, <3>2, <3>3 DEF req_registerPD, TypeOK
  <2>2. CASE req_authOP
    <3>1. reg' \subseteq reg
      <4>1. CASE inUserList(Datagram.uid)
        <5> DEFINE i == getUserNode(Datagram.uid)
        <5>1. PICK read \in OpRead(userList[i]) :
                 AnswerVLD(i, Datagram.tid, read)
          BY <2>2, <4>1 DEF req_authOP
        <5> HIDE DEF i
        <5> QED
          BY <5>1 DEF AnswerVLD
      <4>2. CASE ~inUserList(Datagram.uid)
        BY <2>2, <4>2 DEF req_authOP
      <4> QED
        BY <4>1, <4>2
    <3> QED
      BY <3>1
  <2>3. CASE \/ req_unregisterPD \/ resp_validationCode \/ FatalDatagram
             \/ \E i \in DOMAIN userList : HandleTCP(i)
    <3>1. reg' \subseteq reg
      BY <2>3 DEF req_unregisterPD, resp_validationCode, FatalDatagram,
                  HandleTCP, req_loginUser, req_fileOP, req_auth,
                  FatalMessage, CloseSession
    <3> QED
      BY <3>1
  <2>4. CASE \/ Select \/ Timeout \/ Accept \/ LoopHead \/ exitAS
             \/ Clients \/ Signal \/ Start \/ UNCHANGED vars
    <3>1. reg' \subseteq reg
      BY <2>4 DEF Select, Timeout, Accept, LoopHead, exitAS, Clients,
                  UdpArrives, ClientConnects, ClientCloses, ClientSends,
                  Outside, Signal, Start, vars
    <3> QED
      BY <3>1
  <2>5. CASE Kill
    <3>1. reg' \subseteq reg
      BY <2>5 DEF Kill, HalfRegistered, HalfRemoved, HalfCleaned
    <3> QED
      BY <3>1
  <2> QED
    BY <1>1, <2>1, <2>2, <2>3, <2>4, <2>5 DEF Next, ServerStep, HandleUDP
<1>2. ConstantsAssumption /\ TypeOK /\ [Next]_vars => [Backed]_vars
  BY <1>1
<1> QED
  BY <1>2, ConstantsAssumption, TypeCorrect,
     PTL DEF Spec, RegisteredWithPassword

-----------------------------------------------------------------------------
(* The refinement of Authorisation: the mapping. *)

(* What a list of sessions amounts to. *)
SessionsIn(L) ==
    [c \in Conns |->
        IF \E i \in DOMAIN L : L[i].conn = c
        THEN SessionOf(L[CHOOSE i \in DOMAIN L : L[i].conn = c])
        ELSE NoSession]

Distinct(L) == \A i, j \in DOMAIN L : L[i].conn = L[j].conn => i = j

(* Sessions is that of userList, in a state and in the next one. *)
LEMMA MappingInUse ==
    Sessions = SessionsIn(userList) /\ Sessions' = SessionsIn(userList')
BY DEF Sessions, SessionsIn, Listed, ListedAs, SessionOf, NoSession

(* With distinct connections the choice of a session is no choice.           *)
LEMMA Mapped ==
    ASSUME NEW L \in Seq(Node), Distinct(L)
    PROVE  /\ SessionsIn(L) = [c \in Conns |-> SessionsIn(L)[c]]
           /\ \A i \in DOMAIN L :
                 /\ L[i] \in Node /\ L[i].conn \in Conns
                 /\ SessionsIn(L)[L[i].conn] = SessionOf(L[i])
           /\ \A c \in Conns :
                 (\A i \in DOMAIN L : L[i].conn # c)
                     => SessionsIn(L)[c] = NoSession
<1>1. \A i \in DOMAIN L : L[i] \in Node /\ L[i].conn \in Conns
  <2>1. DOMAIN L = 1 .. Len(L)
    BY LenProperties
  <2>2. \A i \in DOMAIN L : L[i] \in Node
    BY <2>1, ElementOfSeq
  <2> QED
    BY <2>2 DEF Node
<1>2. ASSUME NEW i \in DOMAIN L
      PROVE  SessionsIn(L)[L[i].conn] = SessionOf(L[i])
  <2> DEFINE k == CHOOSE j \in DOMAIN L : L[j].conn = L[i].conn
  <2>1. k \in DOMAIN L /\ L[k].conn = L[i].conn
    OBVIOUS
  <2>2. k = i
    BY <2>1 DEF Distinct
  <2> QED
    BY <1>1, <2>2 DEF SessionsIn
<1>3. ASSUME NEW c \in Conns, \A i \in DOMAIN L : L[i].conn # c
      PROVE  SessionsIn(L)[c] = NoSession
  BY <1>3 DEF SessionsIn
<1>4. SessionsIn(L) = [c \in Conns |-> SessionsIn(L)[c]]
  BY DEF SessionsIn
<1> QED
  BY <1>1, <1>2, <1>3, <1>4

(* One session is stored. *)
LEMMA OneStored ==
    ASSUME NEW L \in Seq(Node), Distinct(L), NEW M \in Seq(Node), Distinct(M),
           NEW i \in DOMAIN L,
           DOMAIN M = DOMAIN L, M[i].conn = L[i].conn,
           \A j \in DOMAIN L \ {i} : M[j] = L[j]
    PROVE  SessionsIn(M) =
               [SessionsIn(L) EXCEPT ![L[i].conn] = SessionOf(M[i])]
<1>1. ASSUME NEW c \in Conns
      PROVE  SessionsIn(M)[c] = IF c = L[i].conn THEN SessionOf(M[i])
                                ELSE SessionsIn(L)[c]
  <2>1. CASE c = L[i].conn
    BY <2>1, Mapped
  <2>2. CASE c # L[i].conn /\ \E j \in DOMAIN L : L[j].conn = c
    <3>1. PICK j \in DOMAIN L : L[j].conn = c
      BY <2>2
    <3>2. M[j] = L[j]
      BY <2>2, <3>1
    <3>3. SessionsIn(M)[c] = SessionOf(M[j]) /\ SessionsIn(L)[c] = SessionOf(L[j])
      BY <3>1, <3>2, Mapped
    <3> QED
      BY <2>2, <3>2, <3>3
  <2>3. CASE c # L[i].conn /\ ~ \E j \in DOMAIN L : L[j].conn = c
    <3>1. \A j \in DOMAIN M : M[j].conn # c
      BY <2>3
    <3>2. SessionsIn(M)[c] = NoSession /\ SessionsIn(L)[c] = NoSession
      BY <2>3, <3>1, Mapped
    <3> QED
      BY <2>3, <3>2
  <2> QED
    BY <2>1, <2>2, <2>3
<1>2. /\ SessionsIn(L) = [c \in Conns |-> SessionsIn(L)[c]]
      /\ SessionsIn(M) = [c \in Conns |-> SessionsIn(M)[c]]
      /\ L[i].conn \in Conns
  BY Mapped
<1> DEFINE S == SessionsIn(L)  T == SessionsIn(M)  v == SessionOf(M[i])
           d == L[i].conn
<1>3. /\ S = [c \in Conns |-> S[c]] /\ T = [c \in Conns |-> T[c]] /\ d \in Conns
      /\ \A c \in Conns : T[c] = IF c = d THEN v ELSE S[c]
  BY <1>1, <1>2
<1> HIDE DEF S, T, v, d
<1>4. T = [S EXCEPT ![d] = v]
  BY <1>3
<1> QED
  BY <1>4 DEF S, T, v, d

(* Sessions are taken out and none is changed. *)
LEMMA SomeKept ==
    ASSUME NEW L \in Seq(Node), Distinct(L), NEW M \in Seq(Node), Distinct(M),
           \A j \in DOMAIN M : \E k \in DOMAIN L : M[j] = L[k]
    PROVE  \E C \in SUBSET Conns :
               SessionsIn(M) = [c \in Conns |-> IF c \in C THEN NoSession
                                                ELSE SessionsIn(L)[c]]
<1> DEFINE C == {c \in Conns : \A j \in DOMAIN M : M[j].conn # c}
<1>1. ASSUME NEW c \in Conns
      PROVE  SessionsIn(M)[c] = IF c \in C THEN NoSession ELSE SessionsIn(L)[c]
  <2>1. CASE c \in C
    BY <2>1, Mapped
  <2>2. CASE c \notin C
    <3>1. PICK j \in DOMAIN M : M[j].conn = c
      BY <2>2
    <3>2. PICK k \in DOMAIN L : M[j] = L[k]
      OBVIOUS
    <3>3. SessionsIn(M)[c] = SessionOf(M[j]) /\ SessionsIn(L)[c] = SessionOf(L[k])
      BY <3>1, <3>2, Mapped
    <3> QED
      BY <2>2, <3>2, <3>3
  <2> QED
    BY <2>1, <2>2
<1>2. SessionsIn(M) = [c \in Conns |-> SessionsIn(M)[c]]
  BY Mapped
<1>3. SessionsIn(M) = [c \in Conns |-> IF c \in C THEN NoSession
                                       ELSE SessionsIn(L)[c]]
  BY <1>1, <1>2
<1>4. C \in SUBSET Conns
  OBVIOUS
<1> QED
  BY <1>3, <1>4

(* A session that is new has nothing. *)
LEMMA NewIsBlank ==
    ASSUME NEW L \in Seq(Node), Distinct(L), NEW n \in Node, SessionOf(n) = NoSession,
           Distinct(<<n>> \o L)
    PROVE  SessionsIn(<<n>> \o L) = SessionsIn(L)
<1> DEFINE M == <<n>> \o L
<1>1. /\ M \in Seq(Node) /\ DOMAIN M = 1 .. Len(L) + 1
      /\ \A i \in 1 .. Len(L) + 1 : M[i] = IF i = 1 THEN n ELSE L[i - 1]
  BY InFront
<1>2. DOMAIN L = 1 .. Len(L) /\ Len(L) \in Nat
  BY LenProperties
<1> HIDE DEF M
<1>3. /\ 1 \in DOMAIN M /\ M[1] = n
      /\ \A i \in DOMAIN L : i + 1 \in DOMAIN M /\ M[i + 1] = L[i] /\ i + 1 # 1
      /\ \A j \in DOMAIN M : M[j] = n \/ \E i \in DOMAIN L : M[j] = L[i]
  <2>1. \A j \in DOMAIN M : j = 1 \/ (j - 1 \in DOMAIN L /\ M[j] = L[j - 1])
    BY <1>1, <1>2
  <2>2. 1 \in DOMAIN M /\ M[1] = n
    BY <1>1, <1>2
  <2>3. ASSUME NEW i \in DOMAIN L
        PROVE  i + 1 \in DOMAIN M /\ M[i + 1] = L[i] /\ i + 1 # 1
    <3>1. i \in Nat /\ i >= 1 /\ i <= Len(L)
      BY <1>2
    <3>2. i + 1 \in 1 .. Len(L) + 1 /\ i + 1 # 1 /\ i + 1 - 1 = i
      BY <1>2, <3>1
    <3> QED
      BY <1>1, <3>2
  <2> QED
    BY <2>1, <2>2, <2>3
<1>4. Distinct(M)
  BY DEF M
<1>5. /\ \A i \in DOMAIN M : SessionsIn(M)[M[i].conn] = SessionOf(M[i])
      /\ \A c \in Conns :
            (\A i \in DOMAIN M : M[i].conn # c) => SessionsIn(M)[c] = NoSession
      /\ SessionsIn(M) = [c \in Conns |-> SessionsIn(M)[c]]
  BY <1>1, <1>4, Mapped
<1>6. /\ \A i \in DOMAIN L : SessionsIn(L)[L[i].conn] = SessionOf(L[i])
      /\ \A c \in Conns :
            (\A i \in DOMAIN L : L[i].conn # c) => SessionsIn(L)[c] = NoSession
      /\ SessionsIn(L) = [c \in Conns |-> SessionsIn(L)[c]]
  BY Mapped
<1> HIDE DEF SessionsIn, SessionOf
<1>7. ASSUME NEW c \in Conns
      PROVE  SessionsIn(M)[c] = SessionsIn(L)[c]
  <2>1. CASE \E i \in DOMAIN L : L[i].conn = c
    BY <1>3, <1>5, <1>6, <2>1
  <2>2. CASE ~ (\E i \in DOMAIN L : L[i].conn = c) /\ n.conn = c
    BY <1>3, <1>5, <1>6, <2>2
  <2>3. CASE ~ (\E i \in DOMAIN L : L[i].conn = c) /\ n.conn # c
    <3>1. \A j \in DOMAIN M : M[j].conn # c
      BY <1>3, <2>3
    <3> QED
      BY <1>5, <1>6, <2>3, <3>1
  <2> QED
    BY <2>1, <2>2, <2>3
<1>8. SessionsIn(M) = SessionsIn(L)
  BY <1>5, <1>6, <1>7
<1> QED
  BY <1>8 DEF M

-----------------------------------------------------------------------------
(* The steps. *)

(* A state in which the mapping is sound. *)
Sound == DescriptorInv /\ DescriptorInv'

LEMMA SoundLists ==
    ASSUME Sound
    PROVE  /\ userList \in Seq(Node) /\ Distinct(userList)
           /\ userList' \in Seq(Node) /\ Distinct(userList')
BY DEF Sound, DescriptorInv, TypeOK, SessionDescriptors, Distinct

NothingConfirmed == \A m \in sent' : m.type # "CNF"

LEMMA NoVerdict ==
    ASSUME NothingConfirmed PROVE Verdicts' = {}
BY DEF NothingConfirmed, Verdicts, Confirmations

(* A session with one field changed. *)
LEMMA SessionChanged ==
    ASSUME NEW u, NEW o, NEW b, NEW t, NEW v,
           NEW s, s = [uid |-> u, op |-> o, coded |-> b, tid |-> t]
    PROVE  /\ [s EXCEPT !.uid = v] = [uid |-> v, op |-> o, coded |-> b, tid |-> t]
           /\ [s EXCEPT !.op = v] = [uid |-> u, op |-> v, coded |-> b, tid |-> t]
           /\ [s EXCEPT !.coded = v] = [uid |-> u, op |-> o, coded |-> v, tid |-> t]
           /\ [s EXCEPT !.tid = v] = [uid |-> u, op |-> o, coded |-> b, tid |-> v]
  OBVIOUS

(* The changes of a session by a request, a ticket and a confirmation. *)
Requested(s, v, w) == [s EXCEPT !.op = v, !.coded = w]
Granted(s, v, w) == [s EXCEPT !.coded = v, !.tid = w]
Validated(s, v, w) == [s EXCEPT !.tid = v, !.uid = w]

(* What they make of a session, field by field. *)
LEMMA SessionChanges ==
    ASSUME NEW u, NEW o, NEW b, NEW t, NEW v, NEW w,
           NEW s, s = [uid |-> u, op |-> o, coded |-> b, tid |-> t]
    PROVE  /\ Requested(s, v, w) = [uid |-> u, op |-> v, coded |-> w, tid |-> t]
           /\ Granted(s, v, w) = [uid |-> u, op |-> o, coded |-> v, tid |-> w]
           /\ Validated(s, v, w) = [uid |-> w, op |-> o, coded |-> b, tid |-> v]
<1>1. Requested(s, v, w) = [uid |-> u, op |-> v, coded |-> w, tid |-> t]
  <2> DEFINE r == [s EXCEPT !.op = v]
  <2>1. r = [uid |-> u, op |-> v, coded |-> b, tid |-> t]
    BY SessionChanged
  <2>2. Requested(s, v, w) = [r EXCEPT !.coded = w]
    BY DEF Requested
  <2> HIDE DEF r
  <2> QED
    BY <2>1, <2>2, SessionChanged
<1>2. Granted(s, v, w) = [uid |-> u, op |-> o, coded |-> v, tid |-> w]
  <2> DEFINE r == [s EXCEPT !.coded = v]
  <2>1. r = [uid |-> u, op |-> o, coded |-> v, tid |-> t]
    BY SessionChanged
  <2>2. Granted(s, v, w) = [r EXCEPT !.tid = w]
    BY DEF Granted
  <2> HIDE DEF r
  <2> QED
    BY <2>1, <2>2, SessionChanged
<1>3. Validated(s, v, w) = [uid |-> w, op |-> o, coded |-> b, tid |-> v]
  <2> DEFINE r == [s EXCEPT !.tid = v]
  <2>1. r = [uid |-> u, op |-> o, coded |-> b, tid |-> v]
    BY SessionChanged
  <2>2. Validated(s, v, w) = [r EXCEPT !.uid = w]
    BY DEF Validated
  <2> HIDE DEF r
  <2> QED
    BY <2>1, <2>2, SessionChanged
<1> QED
  BY <1>1, <1>2, <1>3

(* The fields of what a session amounts to. *)
LEMMA SessionFields ==
    ASSUME NEW n \in Node
    PROVE  /\ SessionOf(n) = [uid |-> n.uid, op |-> n.op,
                              coded |-> SessionOf(n).coded,
                              tid |-> SessionOf(n).tid]
           /\ n.rid # Clear => SessionOf(n).coded = TRUE
           /\ n.rid = Clear => SessionOf(n).coded = FALSE
           /\ n.tid \in Tids => SessionOf(n).tid = n.tid
           /\ n.tid \notin Tids => SessionOf(n).tid = Clear
<1> DEFINE b == n.rid # Clear
           t == IF n.tid \in Tids THEN n.tid ELSE Clear
<1>1. SessionOf(n) = [uid |-> n.uid, op |-> n.op, coded |-> b, tid |-> t]
  BY DEF SessionOf
<1>2. n.rid # Clear => b = TRUE
  OBVIOUS
<1>3. n.rid = Clear => b = FALSE
  OBVIOUS
<1>4. /\ n.tid \in Tids => t = n.tid
      /\ n.tid \notin Tids => t = Clear
  OBVIOUS
<1> HIDE DEF b, t
<1>5. SessionOf(n).coded = b /\ SessionOf(n).tid = t
  BY <1>1
<1>6. SessionOf(n) = [uid |-> n.uid, op |-> n.op,
                      coded |-> SessionOf(n).coded, tid |-> SessionOf(n).tid]
  BY <1>1, <1>5
<1> QED
  BY <1>2, <1>3, <1>4, <1>5, <1>6

(* A step that confirms nothing and changes no session but by taking it    *)
(* out of the list. *)
LEMMA Forgets ==
    ASSUME Sound, NothingConfirmed,
           \A j \in DOMAIN userList' :
               \E k \in DOMAIN userList : userList'[j] = userList[k]
    PROVE  Promise!Next
<1>1. PICK C \in SUBSET Conns :
         SessionsIn(userList') =
             [c \in Conns |-> IF c \in C THEN NoSession
                              ELSE SessionsIn(userList)[c]]
  BY SoundLists, SomeKept
<1>2. NoSession = Promise!Blank
  BY DEF NoSession, Promise!Blank
<1>3. Promise!Forget(C)
  BY <1>1, <1>2, MappingInUse, NoVerdict DEF Promise!Forget
<1> QED
  BY <1>3 DEF Promise!Next

(* A step that stores one session. *)
LEMMA Stores ==
    ASSUME Sound, NEW i \in DOMAIN userList, NEW n \in Node,
           n.conn = userList[i].conn, Store(i, n)
    PROVE  /\ userList[i].conn \in Conns
           /\ Sessions[userList[i].conn] = SessionOf(userList[i])
           /\ Sessions' = [Sessions EXCEPT ![userList[i].conn] = SessionOf(n)]
<1>1. /\ DOMAIN userList' = DOMAIN userList
      /\ \A j \in DOMAIN userList :
            userList'[j] = IF j = i THEN n ELSE userList[j]
  BY StoredAt DEF Sound, DescriptorInv
<1>2. SessionsIn(userList') =
          [SessionsIn(userList) EXCEPT ![userList[i].conn] = SessionOf(n)]
  BY <1>1, SoundLists, OneStored
<1>3. /\ userList[i].conn \in Conns
      /\ SessionsIn(userList)[userList[i].conn] = SessionOf(userList[i])
  BY SoundLists, Mapped
<1> QED
  BY <1>2, <1>3, MappingInUse

(* A login stores its user. *)
LEMMA LoginStep ==
    ASSUME Sound, ConstantsAssumption, NEW i \in DOMAIN userList,
           req_loginUser(i)
    PROVE  Promise!Next
<1>0. TypeOK
  BY DEF Sound, DescriptorInv
<1>1. NothingConfirmed
  BY DEF req_loginUser, Answer, NothingConfirmed
<1>2. CASE UNCHANGED userList
  BY <1>1, <1>2, Forgets
<1>3. CASE ~UNCHANGED userList
  <2> DEFINE n == userList[i]
             u == Segment(i).uid
             m == [n EXCEPT !.uid = u]
  <2>1. ReceiveTcp(i, "LOG") /\ Segment(i).type = "LOG"
    BY DEF req_loginUser, ReceiveTcp
  <2>2. u \in Uids
    BY <1>0, <2>1, TcpReceived, MessageFields
  <2>3. n \in Node
    BY <1>0, Fields
  <2>4. m \in Node /\ m.conn = n.conn
    BY <2>2, <2>3 DEF Node
  <2>5. Store(i, m)
    BY <1>3 DEF req_loginUser
  <2>6. /\ Verdicts' = {} /\ n.conn \in Conns
        /\ Sessions[n.conn] = SessionOf(n)
        /\ Sessions' = [Sessions EXCEPT ![n.conn] = SessionOf(m)]
    BY <1>1, <2>4, <2>5, Stores, NoVerdict
  <2>7. SessionOf(m) = [SessionOf(n) EXCEPT !.uid = u]
    BY <2>3 DEF SessionOf, Node
  <2>8. Promise!Login(n.conn, u)
    BY <2>6, <2>7 DEF Promise!Login
  <2> QED
    BY <2>2, <2>6, <2>8 DEF Promise!Next
<1> QED
  BY <1>2, <1>3

(* A request that is accepted is one of a user who is logged in. *)
LEMMA RequestStep ==
    ASSUME Sound, ConstantsAssumption, NEW i \in DOMAIN userList,
           req_fileOP(i)
    PROVE  Promise!Next
<1>0. TypeOK
  BY DEF Sound, DescriptorInv
<1>1. NothingConfirmed
  <2>1. CASE AcceptRequest(i)
    <3>1. PICK vc \in Vcs : sent' = {[to |-> userList[i].uid, type |-> "VLC"]}
      BY <2>1 DEF AcceptRequest
    <3> QED
      BY <3>1 DEF NothingConfirmed
  <2>2. CASE ~AcceptRequest(i)
    BY <2>2 DEF req_fileOP, Answer, NothingConfirmed
  <2> QED
    BY <2>1, <2>2
<1>2. CASE UNCHANGED userList
  BY <1>1, <1>2, Forgets
<1>3. CASE Refusal(i) = "none" /\ AcceptRequest(i)
  <2> DEFINE n == userList[i]
             rid == Segment(i).rid
             op == Segment(i).op
  <2>1. ReceiveTcp(i, "REQ") /\ Segment(i).type = "REQ"
    BY DEF req_fileOP, ReceiveTcp
  <2>2. rid \in Rids \cup {Fresh} /\ op \in Ops /\ rid # Clear
    BY <1>0, <2>1, TcpReceived, MessageFields DEF ConstantsAssumption
  <2>3. n \in Node
    BY <1>0, Fields
  <2>4. PICK vc \in Vcs :
           Store(i, [n EXCEPT !.rid = rid, !.vc = vc, !.op = op])
    BY <1>3 DEF AcceptRequest
  <2> DEFINE m == [n EXCEPT !.rid = rid, !.vc = vc, !.op = op]
  <2>5. m \in Node /\ m.conn = n.conn
    BY <2>2, <2>3 DEF Node
  <2>6. /\ Verdicts' = {} /\ n.conn \in Conns
        /\ Sessions[n.conn] = SessionOf(n)
        /\ Sessions' = [Sessions EXCEPT ![n.conn] = SessionOf(m)]
    BY <1>1, <2>4, <2>5, Stores, NoVerdict
  <2>7. SessionOf(m) = [SessionOf(n) EXCEPT !.op = op, !.coded = TRUE]
    <3>1. m.uid = n.uid /\ m.op = op /\ m.rid = rid /\ m.tid = n.tid
      BY <2>3 DEF Node
    <3>2. SessionOf(m).coded = TRUE /\ SessionOf(m).tid = SessionOf(n).tid
      BY <2>2, <2>3, <2>5, <3>1, SessionFields
    <3> HIDE DEF m
    <3>3. SessionOf(m) = [uid |-> n.uid, op |-> op, coded |-> TRUE,
                          tid |-> SessionOf(n).tid]
      BY <2>5, <3>1, <3>2, SessionFields
    <3>4. SessionOf(n) = [uid |-> n.uid, op |-> n.op,
                          coded |-> SessionOf(n).coded,
                          tid |-> SessionOf(n).tid]
      BY <2>3, SessionFields
    <3> DEFINE s == SessionOf(n)
               b == s.coded
               t == s.tid
               yes == TRUE
    <3> HIDE DEF n, op, s, b, t, yes
    <3>5. s = [uid |-> n.uid, op |-> n.op, coded |-> b, tid |-> t]
      BY <3>4 DEF s, b, t
    <3>6. Requested(s, op, yes)
            = [uid |-> n.uid, op |-> op, coded |-> yes, tid |-> t]
      BY <3>5, SessionChanges
    <3> QED
      BY <3>3, <3>6 DEF s, b, t, Requested, yes
  <2>8. n.uid # NoUid
    BY <1>3 DEF Refusal
  <2>9. SessionOf(n).uid = n.uid
    BY DEF SessionOf
  <2>10. Promise!Request(n.conn, op)
    BY <2>6, <2>7, <2>8, <2>9 DEF Promise!Request
  <2> QED
    BY <2>2, <2>6, <2>10 DEF Promise!Next
<1> QED
  BY <1>2, <1>3 DEF req_fileOP

(* A ticket is given for a code that was not used, or to a new session. *)
LEMMA GrantStep ==
    ASSUME Sound, ConstantsAssumption, NEW i \in DOMAIN userList, req_auth(i)
    PROVE  Promise!Next
<1>0. TypeOK
  BY DEF Sound, DescriptorInv
<1>1. NothingConfirmed
  <2>1. CASE Grant(i)
    <3>1. PICK tid \in Tids :
             sent' = {[to |-> userList[i].conn, type |-> "RAU", tid |-> tid]}
      BY <2>1 DEF Grant
    <3> QED
      BY <3>1 DEF NothingConfirmed
  <2>2. CASE ~Grant(i)
    BY <2>2 DEF req_auth, NothingConfirmed
  <2> QED
    BY <2>1, <2>2
<1>2. CASE UNCHANGED userList
  BY <1>1, <1>2, Forgets
<1>3. CASE Authorised(i) /\ Grant(i)
  <2> DEFINE n == userList[i]
  <2>1. ReceiveTcp(i, "AUT") /\ Segment(i).type = "AUT"
    BY DEF req_auth, ReceiveTcp
  <2>2. Segment(i).rid \in Rids \cup {Fresh} /\ Segment(i).uid \in Uids
    BY <1>0, <2>1, TcpReceived DEF TcpMsg
  <2>3. n.rid # Clear /\ n.uid \in Uids
    BY <1>3, <2>2 DEF Authorised, ConstantsAssumption
  <2>4. n \in Node
    BY <1>0, Fields
  <2>5. PICK tid \in Tids :
           Store(i, [n EXCEPT !.vc = Clear, !.rid = Clear, !.tid = tid])
    BY <1>3 DEF Grant
  <2> DEFINE m == [n EXCEPT !.vc = Clear, !.rid = Clear, !.tid = tid]
  <2>6. m \in Node /\ m.conn = n.conn
    BY <2>4 DEF Node
  <2>7. /\ Verdicts' = {} /\ n.conn \in Conns
        /\ Sessions[n.conn] = SessionOf(n)
        /\ Sessions' = [Sessions EXCEPT ![n.conn] = SessionOf(m)]
    BY <1>1, <2>5, <2>6, Stores, NoVerdict
  <2>8. NoUid \notin Uids
    BY ConstantsAssumption DEF ConstantsAssumption
  <2>9. SessionOf(m) = [SessionOf(n) EXCEPT !.coded = FALSE, !.tid = tid]
    <3>1. m.uid = n.uid /\ m.op = n.op /\ m.rid = Clear /\ m.tid = tid
      BY <2>4 DEF Node
    <3>2. SessionOf(m).coded = FALSE /\ SessionOf(m).tid = tid
      BY <2>6, <2>8, <3>1, SessionFields
    <3> HIDE DEF m
    <3>3. SessionOf(m) = [uid |-> n.uid, op |-> n.op, coded |-> FALSE,
                          tid |-> tid]
      BY <2>6, <3>1, <3>2, SessionFields
    <3>4. SessionOf(n) = [uid |-> n.uid, op |-> n.op,
                          coded |-> SessionOf(n).coded,
                          tid |-> SessionOf(n).tid]
      BY <2>4, SessionFields
    <3> DEFINE s == SessionOf(n)
               b == s.coded
               t == s.tid
               no == FALSE
    <3> HIDE DEF n, s, b, t, no
    <3>5. s = [uid |-> n.uid, op |-> n.op, coded |-> b, tid |-> t]
      BY <3>4 DEF s, b, t
    <3>6. Granted(s, no, tid)
            = [uid |-> n.uid, op |-> n.op, coded |-> no, tid |-> tid]
      BY <3>5, SessionChanges
    <3> QED
      BY <3>3, <3>6 DEF s, b, t, Granted, no
  <2>10. SessionOf(n).uid = n.uid /\ SessionOf(n).coded = (n.rid # Clear)
    BY DEF SessionOf
  <2>11. Promise!Grant(n.conn, tid)
    BY <2>3, <2>7, <2>8, <2>9, <2>10 DEF Promise!Grant
  <2> QED
    BY <2>7, <2>11 DEF Promise!Next
<1> QED
  BY <1>2, <1>3 DEF req_auth

(* The file server is answered about a ticket of the newest session of its *)
(* user, and the ticket is gone.                                           *)
LEMMA ValidateStep ==
    ASSUME Sound, ConstantsAssumption, req_authOP
    PROVE  Promise!Next
<1>0. TypeOK
  BY DEF Sound, DescriptorInv
<1>1. CASE ~inUserList(Datagram.uid)
  <2>1. NothingConfirmed /\ UNCHANGED userList
    BY <1>1 DEF req_authOP, NothingConfirmed
  <2> QED
    BY <2>1, Forgets
<1>2. CASE inUserList(Datagram.uid)
  <2> DEFINE i == getUserNode(Datagram.uid)
             n == userList[i]
             tid == Datagram.tid
  <2>1. ReceiveUdp({"VLD"}) /\ Datagram.type = "VLD"
    BY DEF req_authOP, ReceiveUdp
  <2>2. tid \in Tids /\ Datagram.uid \in Uids
    BY <1>0, <2>1, UdpReceived, MessageFields
  <2>3. i \in DOMAIN userList /\ n.uid = Datagram.uid
    BY <1>0, <1>2, NewestSession
  <2>4. PICK read \in OpRead(n) : AnswerVLD(i, tid, read)
    BY <1>2 DEF req_authOP
  <2> HIDE DEF i, tid
  <2>5. n \in Node
    BY <1>0, <2>3, Fields
  <2> DEFINE gone == n.tid = tid /\ read = OpX
             m == [n EXCEPT !.tid = Clear, !.uid = IF gone THEN NoUid ELSE n.uid]
             op == IF n.tid = tid THEN read ELSE "E"
  <2>6. Store(i, m)
    BY <2>4 DEF AnswerVLD, Confirmed
  <2>7. sent' = {[to |-> "sender", type |-> "CNF", uid |-> n.uid, tid |-> tid,
                  op |-> op]}
    BY <2>4 DEF AnswerVLD, Confirmed, Cnf
  <2>8. m \in Node /\ m.conn = n.conn
    BY <2>5 DEF Node
  <2>9. /\ n.conn \in Conns
        /\ Sessions[n.conn] = SessionOf(n)
        /\ Sessions' = [Sessions EXCEPT ![n.conn] = SessionOf(m)]
    <3> HIDE DEF m
    <3> QED
      BY <2>3, <2>6, <2>8, Stores
  <2>10. Verdicts' = {[uid |-> n.uid, tid |-> tid, op |-> op]}
    <3> HIDE DEF n, op
    <3>1. Confirmations' = sent'
      BY <2>7 DEF Confirmations
    <3> QED
      BY <2>7, <3>1 DEF Verdicts
  <2>11. Clear \notin Tids /\ NoUid \notin Uids
    BY ConstantsAssumption DEF ConstantsAssumption
  <2>12. /\ SessionOf(n).uid = n.uid /\ SessionOf(n).op = n.op
         /\ (SessionOf(n).tid = tid) = (n.tid = tid)
    BY <2>2, <2>11 DEF SessionOf
  <2>13. SessionOf(m) = [SessionOf(n) EXCEPT
                            !.tid = Clear,
                            !.uid = IF gone THEN NoUid ELSE n.uid]
    <3> DEFINE v == IF gone THEN NoUid ELSE n.uid
    <3>1. m.uid = v /\ m.op = n.op /\ m.rid = n.rid /\ m.tid = Clear
      BY <2>5 DEF Node
    <3> HIDE DEF m, v
    <3>2. SessionOf(m).tid = Clear
      BY <2>8, <2>11, <3>1, SessionFields
    <3>3. SessionOf(m).coded = SessionOf(n).coded
      BY <2>5, <2>8, <3>1, SessionFields
    <3>4. SessionOf(m) = [uid |-> v, op |-> n.op,
                          coded |-> SessionOf(n).coded, tid |-> Clear]
      BY <2>8, <3>1, <3>2, <3>3, SessionFields
    <3>5. SessionOf(n) = [uid |-> n.uid, op |-> n.op,
                          coded |-> SessionOf(n).coded,
                          tid |-> SessionOf(n).tid]
      BY <2>5, SessionFields
    <3> DEFINE s == SessionOf(n)
               b == s.coded
               t == s.tid
    <3> HIDE DEF n, s, b, t
    <3>6. s = [uid |-> n.uid, op |-> n.op, coded |-> b, tid |-> t]
      BY <3>5 DEF s, b, t
    <3>7. Validated(s, Clear, v)
            = [uid |-> v, op |-> n.op, coded |-> b, tid |-> Clear]
      BY <3>6, SessionChanges
    <3>8. SessionOf(m) = [SessionOf(n) EXCEPT !.tid = Clear, !.uid = v]
      BY <3>4, <3>7 DEF s, b, Validated
    <3> QED
      BY <3>8 DEF v
  <2>14. read \in Promise!OpRead(n.conn)
    BY <2>9, <2>12, <2>4 DEF OpRead, Promise!OpRead
  <2>15. Promise!Tell(n.conn, tid, read)
    BY <2>9, <2>10, <2>12 DEF Promise!Tell, Promise!Confirmed
  <2>16. Sessions' = [Sessions EXCEPT
                         ![n.conn].tid = Clear,
                         ![n.conn].uid =
                             IF Promise!Confirmed(n.conn, tid) /\ read = OpX
                             THEN NoUid ELSE Sessions[n.conn].uid]
    BY <2>9, <2>12, <2>13 DEF Promise!Confirmed
  <2>17. Sessions[n.conn].uid # NoUid
    BY <2>2, <2>3, <2>9, <2>11, <2>12
  <2>18. Promise!Validate(n.conn, tid)
    BY <2>14, <2>15, <2>16, <2>17 DEF Promise!Validate
  <2> QED
    BY <2>2, <2>9, <2>18 DEF Promise!Next, tid
<1> QED
  BY <1>1, <1>2

(* A session that begins is blank: it has an rid, and no tid. *)
LEMMA AcceptStep ==
    ASSUME Sound, ConstantsAssumption, Accept
    PROVE  Promise!Next
<1>1. NothingConfirmed
  BY DEF Accept, NothingConfirmed
<1> DEFINE n == [conn |-> Head(backlog), uid |-> NoUid, vc |-> Fresh,
                 rid |-> Fresh, tid |-> Fresh, op |-> NoOp]
<1>2. userList' = <<n>> \o userList
  BY DEF Accept
<1>3. backlog \in Seq(Conns) /\ backlog # <<>>
  BY DEF Sound, DescriptorInv, TypeOK, Accept
<1>4. Head(backlog) \in Conns
  BY <1>3, HeadTailProperties
<1>5. n \in Node
  BY <1>4 DEF Node
<1>6. Fresh # Clear /\ Fresh \notin Tids
  BY ConstantsAssumption DEF ConstantsAssumption
<1>7. SessionOf(n) = NoSession
  <2>1. /\ n.uid = NoUid /\ n.op = NoOp
        /\ n.rid # Clear /\ n.tid \notin Tids
    BY <1>6
  <2> HIDE DEF n
  <2> QED
    BY <1>5, <2>1, SessionFields DEF NoSession
<1> HIDE DEF n
<1>8. SessionsIn(userList') = SessionsIn(userList)
  BY <1>2, <1>5, <1>7, SoundLists, NewIsBlank
<1>9. SessionsIn(userList) = [c \in Conns |-> SessionsIn(userList)[c]]
  BY SoundLists, Mapped
<1>10. Promise!Forget({})
  BY <1>1, <1>8, <1>9, MappingInUse, NoVerdict DEF Promise!Forget
<1> QED
  BY <1>10 DEF Promise!Next

(* Every other step confirms nothing and takes sessions out, or changes    *)
(* neither what was sent nor the sessions. *)
LEMMA OtherSteps ==
    ASSUME Sound, ConstantsAssumption,
           \/ req_registerPD \/ req_unregisterPD \/ resp_validationCode
           \/ FatalDatagram
           \/ \E i \in DOMAIN userList : FatalMessage(i) \/ CloseSession(i)
           \/ Select \/ Timeout \/ LoopHead \/ exitAS
           \/ Clients \/ Signal \/ Kill
    PROVE  Promise!Next
<1>0. TypeOK
  BY DEF Sound, DescriptorInv
<1>1. CASE \/ req_registerPD \/ req_unregisterPD \/ resp_validationCode
           \/ FatalDatagram \/ \E i \in DOMAIN userList : FatalMessage(i)
  <2>1. UNCHANGED userList
    BY <1>1 DEF req_registerPD, req_unregisterPD, resp_validationCode,
                FatalDatagram, FatalMessage
  <2>2. NothingConfirmed
    BY <1>1 DEF req_registerPD, req_unregisterPD, resp_validationCode,
                FatalDatagram, FatalMessage, AnswerSender, NothingConfirmed
  <2> QED
    BY <2>1, <2>2, Forgets
<1>2. ASSUME NEW i \in DOMAIN userList, CloseSession(i)
      PROVE  Promise!Next
  <2>1. userList \in Seq(Node) /\ {i} \in SUBSET DOMAIN userList
    BY <1>0 DEF TypeOK
  <2>2. \A j \in DOMAIN DropThroughAll(userList, {i}) :
           \E k \in DOMAIN userList \ {i} :
              DropThroughAll(userList, {i})[j] = userList[k]
    BY <2>1, DropKeepsTheRest
  <2>3. userList' = DropThroughAll(userList, {i})
    BY <1>2 DEF CloseSession
  <2>4. \A j \in DOMAIN userList' :
           \E k \in DOMAIN userList : userList'[j] = userList[k]
    BY <2>2, <2>3
  <2>5. NothingConfirmed
    BY <1>2 DEF CloseSession, NothingConfirmed
  <2> QED
    BY <2>4, <2>5, Forgets
<1>3. CASE Select \/ Timeout \/ LoopHead \/ Signal \/ Clients
  <2>1. UNCHANGED userList
    BY <1>3 DEF Select, Timeout, LoopHead, Signal, Clients, UdpArrives,
                ClientConnects, ClientCloses, ClientSends, Outside
  <2>2. NothingConfirmed
    <3>1. CASE Timeout
      BY <3>1 DEF Timeout, NothingConfirmed
    <3>2. CASE Select \/ LoopHead \/ Signal \/ Clients
      BY <3>2 DEF Select, LoopHead, Signal, Clients, UdpArrives,
                  ClientConnects, ClientCloses, ClientSends, Outside,
                  NothingConfirmed
    <3> QED
      BY <1>3, <3>1, <3>2
  <2> QED
    BY <2>1, <2>2, Forgets
<1>4. CASE exitAS \/ Kill
  <2>1. userList' = <<>> /\ sent' = {}
    BY <1>4 DEF exitAS, Kill, ProcessEnds
  <2>2. NothingConfirmed
    BY <2>1 DEF NothingConfirmed
  <2>3. DOMAIN userList' = {}
    BY <2>1
  <2> QED
    BY <2>2, <2>3, Forgets
<1> QED
  BY <1>1, <1>2, <1>3, <1>4

(* A step of the server or of its surroundings is a step of what it        *)
(* promises, or none.                                                      *)
LEMMA StepKeepsPromise ==
    ConstantsAssumption /\ Sound /\ [Next]_vars
        => [Promise!Next]_(Promise!vars)
<1> SUFFICES ASSUME ConstantsAssumption, Sound, [Next]_vars
             PROVE  [Promise!Next]_(Promise!vars)
  OBVIOUS
<1>1. CASE Start \/ UNCHANGED vars
  <2>1. UNCHANGED <<userList, sent>>
    BY <1>1 DEF Start, vars
  <2>2. Sessions' = Sessions
    BY <2>1, MappingInUse
  <2>3. Verdicts' = Verdicts
    BY <2>1 DEF Verdicts, Confirmations
  <2> QED
    BY <2>2, <2>3 DEF Promise!vars
<1>2. CASE HandleUDP
  BY <1>2, ValidateStep, OtherSteps DEF HandleUDP
<1>3. CASE \E i \in DOMAIN userList : HandleTCP(i)
  BY <1>3, LoginStep, RequestStep, GrantStep, OtherSteps DEF HandleTCP
<1>4. CASE Select \/ Timeout \/ LoopHead \/ exitAS \/ Clients \/ Signal \/ Kill
  BY <1>4, OtherSteps
<1>5. CASE Accept
  BY <1>5, AcceptStep
<1> QED
  BY <1>1, <1>2, <1>3, <1>4, <1>5 DEF Next, ServerStep

(* The authentication server implements Authorisation.                     *)
THEOREM KeepsPromise == Spec => ImplementsAuthorisation
<1>1. Init => DescriptorInv
  BY InitTyped DEF DescriptorInv, Init, SessionDescriptors, BacklogDistinct
<1>2. DescriptorInv /\ [Next]_vars => DescriptorInv'
  BY StepTyped, StepDescriptors, ConstantsAssumption DEF DescriptorInv
<1>3. Init => Promise!Init
  <2> SUFFICES ASSUME Init PROVE Promise!Init
    OBVIOUS
  <2>1. Sessions = [c \in Conns |-> NoSession]
    BY DEF Init, Sessions, Listed
  <2>2. Verdicts = {}
    BY DEF Init, Verdicts, Confirmations
  <2> QED
    BY <2>1, <2>2 DEF Promise!Init, Promise!Blank, NoSession
<1>4. DescriptorInv /\ DescriptorInv' /\ [Next]_vars
          => [Promise!Next]_(Promise!vars)
  BY StepKeepsPromise, ConstantsAssumption DEF Sound
<1> QED
  BY <1>1, <1>2, <1>3, <1>4, PTL DEF Spec, ImplementsAuthorisation, Promise!Spec
=============================================================================
