------------------------------- MODULE FS_proofs -------------------------------
(***************************************************************************)
(* What holds of the file server for any users, files, requests and        *)
(* bounds: types, whose connection a request has, that uploads do not mix, *)
(* and what may come to lie in a directory.                                *)
(***************************************************************************)
EXTENDS FS, SequenceTheorems, FiniteSetTheorems, WellFoundedInduction, TLAPS

-----------------------------------------------------------------------------
(* What the types of FS need: an announced arrival is there, a user who    *)
(* has sent nothing has sent nothing, ...                                  *)
KernelInv ==
    /\ ready.listen => backlog # <<>>
    /\ ready.udp => udpIn # <<>>
    /\ \A c \in Conns : peer[c] \in {"free", "open"} => inbox[c] = Nothing

(* ... and the server waits for the rest of an upload that it is serving.  *)
Stored(i) ==
    LET m == inbox[requests[i].conn] IN m.type = "REQ" /\ m.op.fop = "U"

StoringInv ==
    pc = "storing" => ReadyNodes # {} /\ Stored(First(ReadyNodes))

TypeInv == TypeOK /\ KernelInv /\ StoringInv

-----------------------------------------------------------------------------
(* Lists. *)

(* A set of naturals that is not empty has a least element, which First is. *)
LEMMA FirstIsLeast ==
    ASSUME NEW S \in SUBSET Nat, S # {}
    PROVE  First(S) \in S /\ \A j \in S : First(S) <= j
<1> DEFINE below == {0 .. k : k \in S}
           R == StrictSubsetOrdering(Nat)
<1>1. below \subseteq FiniteSubsetsOf(Nat)
  <2>1. ASSUME NEW k \in Nat PROVE IsFiniteSet(0 .. k)
    BY FS_Interval
  <2>2. \A k \in S : 0 .. k \in SUBSET Nat
    OBVIOUS
  <2> QED
    BY <2>1, <2>2 DEF FiniteSubsetsOf
<1>2. PICK x \in below : \A y \in below : ~(<<y, x>> \in R)
  <2>1. below # {}
    OBVIOUS
  <2> HIDE DEF below, R
  <2>2. IsWellFoundedOn(R, FiniteSubsetsOf(Nat))
    BY FS_StrictSubsetOrderingWellFounded DEF R
  <2> QED
    BY <1>1, <2>1, <2>2, WFMin
<1>3. PICK k \in S : x = 0 .. k
  BY <1>2
<1>4. ASSUME NEW j \in S, j < k PROVE FALSE
  <2>1. <<0 .. j, x>> \notin R
    BY <1>2
  <2>2. 0 .. j \in SUBSET Nat /\ x \in SUBSET Nat /\ 0 .. j \subseteq x
    BY <1>3, <1>4
  <2>3. k \in x /\ k \notin 0 .. j
    BY <1>3, <1>4
  <2> QED
    BY <2>1, <2>2, <2>3 DEF StrictSubsetOrdering
<1>5. \A j \in S : k <= j
  BY <1>4
<1> QED
  BY <1>5 DEF First

(* The first of some requests is one of them. *)
LEMMA FirstListed ==
    ASSUME TypeOK, NEW S \in SUBSET DOMAIN requests, S # {}
    PROVE  First(S) \in S /\ First(S) \in DOMAIN requests
<1>1. DOMAIN requests = 1 .. Len(requests) /\ Len(requests) \in Nat
  BY LenProperties DEF TypeOK
<1>2. S \in SUBSET Nat
  BY <1>1
<1> QED
  BY <1>2, FirstIsLeast

LEMMA RequestTyped ==
    ASSUME TypeOK, NEW i \in DOMAIN requests
    PROVE  requests[i] \in Request
  BY LenProperties, ElementOfSeq DEF TypeOK

(* A removal leaves the older requests as they are. *)
LEMMA OlderRequests ==
    ASSUME TypeOK, NEW i \in DOMAIN requests
    PROVE  /\ OlderThan(i) \in Seq(Request)
           /\ \A j \in DOMAIN OlderThan(i) :
                 /\ j + i \in DOMAIN requests /\ j + i # i
                 /\ OlderThan(i)[j] = requests[j + i]
           /\ \A j, k \in DOMAIN OlderThan(i) : j + i = k + i => j = k
<1>1. /\ DOMAIN requests = 1 .. Len(requests) /\ Len(requests) \in Nat
      /\ requests \in Seq(Request)
  BY LenProperties DEF TypeOK
<1>2. \A k \in i + 1 .. Len(requests) : requests[k] \in Request
  BY <1>1, ElementOfSeq
<1>3. /\ OlderThan(i) \in Seq(Request)
      /\ Len(OlderThan(i)) = Len(requests) - i
      /\ \A j \in 1 .. Len(requests) - i : OlderThan(i)[j] = requests[j + i]
  BY <1>1, <1>2, SubSeqProperties DEF OlderThan
<1>4. DOMAIN OlderThan(i) = 1 .. Len(requests) - i
  BY <1>3, LenProperties
<1> QED
  BY <1>1, <1>3, <1>4

(* A request that is changed keeps its place. *)
LEMMA RequestChanged ==
    ASSUME TypeOK, NEW i \in DOMAIN requests, NEW r \in Request
    PROVE  /\ [requests EXCEPT ![i] = r] \in Seq(Request)
           /\ DOMAIN [requests EXCEPT ![i] = r] = DOMAIN requests
           /\ \A j \in DOMAIN requests :
                 [requests EXCEPT ![i] = r][j] = IF j = i THEN r ELSE requests[j]
  BY ExceptSeq, LenProperties DEF TypeOK

(* A new request comes first. *)
LEMMA RequestAdded ==
    ASSUME TypeOK, NEW r \in Request
    PROVE  /\ <<r>> \o requests \in Seq(Request)
           /\ \A j \in DOMAIN (<<r>> \o requests) :
                 \/ j = 1 /\ (<<r>> \o requests)[j] = r
                 \/ /\ j # 1 /\ j - 1 \in DOMAIN requests
                    /\ (<<r>> \o requests)[j] = requests[j - 1]
           /\ \A j, k \in DOMAIN (<<r>> \o requests) : j - 1 = k - 1 => j = k
<1>1. /\ DOMAIN requests = 1 .. Len(requests) /\ Len(requests) \in Nat
      /\ requests \in Seq(Request)
  BY LenProperties DEF TypeOK
<1>2. <<r>> \in Seq(Request) /\ Len(<<r>>) = 1 /\ <<r>>[1] = r
  OBVIOUS
<1>3. /\ <<r>> \o requests \in Seq(Request)
      /\ Len(<<r>> \o requests) = Len(requests) + 1
      /\ \A j \in 1 .. Len(requests) + 1 :
            (<<r>> \o requests)[j] = IF j <= 1 THEN <<r>>[j] ELSE requests[j - 1]
  BY <1>1, <1>2, ConcatProperties
<1>4. DOMAIN (<<r>> \o requests) = 1 .. Len(requests) + 1
  BY <1>3, LenProperties
<1> QED
  BY <1>1, <1>2, <1>3, <1>4

(* What is taken from a queue. *)
LEMMA HeadAndTail ==
    ASSUME NEW S, NEW s \in Seq(S), s # <<>>
    PROVE  /\ Head(s) \in S /\ Tail(s) \in Seq(S)
           /\ 1 \in DOMAIN s /\ Head(s) = s[1]
           /\ \A k \in DOMAIN Tail(s) :
                 k + 1 \in DOMAIN s /\ k + 1 # 1 /\ Tail(s)[k] = s[k + 1]
           /\ \A j, k \in DOMAIN Tail(s) : j + 1 = k + 1 => j = k
<1>1. /\ DOMAIN s = 1 .. Len(s) /\ Len(s) \in Nat \ {0}
      /\ \A k \in 1 .. Len(s) : s[k] \in S
  BY LenProperties, ElementOfSeq, EmptySeq
<1>2. /\ Head(s) = s[1]
      /\ Tail(s) \in Seq(S) /\ Len(Tail(s)) = Len(s) - 1
      /\ \A k \in 1 .. Len(Tail(s)) : Tail(s)[k] = s[k + 1]
  BY HeadTailProperties
<1>3. DOMAIN Tail(s) = 1 .. Len(s) - 1
  BY <1>2, LenProperties
<1> QED
  BY <1>1, <1>2, <1>3

-----------------------------------------------------------------------------
(* What is read. *)

LEMMA OperationFields ==
    ASSUME NEW o \in Operation
    PROVE  /\ o.fop \in {"L", "X", "R", "U", "D"}
           /\ o.fop \in {"R", "U", "D"} =>
                 o.name \in Names /\ o = [fop |-> o.fop, name |-> o.name]
<1>1. CASE o \in [fop : {"L", "X"}, name : {NoName}]
  BY <1>1
<1>2. CASE o \in [fop : {"R", "U", "D"}, name : Names]
  <2>1. o = [fop |-> o.fop, name |-> o.name]
    BY <1>2
  <2> QED
    BY <1>2, <2>1
<1> QED
  BY <1>1, <1>2 DEF Operation

LEMMA OpsKnown ==
    /\ Ops \subseteq Operation
    /\ \A o \in Ops : o # NoOp /\ o # FOP_E
  BY ConstantsAssumption DEF ConstantsAssumption

(* The fields of a request that arrived. *)
LEMMA MessageFields ==
    ASSUME NEW m \in UserMsg \cup {Nothing}, m.type = "REQ"
    PROVE  /\ m \in UserMsg
           /\ m.uid \in Uids /\ m.tid \in Tids /\ m.op \in Ops
           /\ m.data \in Data \cup {NoData} /\ m.whole \in BOOLEAN
           /\ m.op.fop = "U" => m.data \in Data
           /\ ~m.whole => m.op.fop = "U"
<1> DEFINE O == {o \in Ops : o.fop # "U"}
           P == {o \in Ops : o.fop = "U"}
<1>1. /\ \A o \in O : o \in Ops /\ o.fop # "U"
      /\ \A o \in P : o \in Ops /\ o.fop = "U"
  OBVIOUS
<1>2. UserMsg =
        [type : {"REQ"}, uid : Uids, tid : Tids, op : O,
         data : {NoData}, whole : {TRUE}]
            \cup [type : {"REQ"}, uid : Uids, tid : Tids, op : P,
                  data : Data, whole : BOOLEAN]
            \cup [type : {"BAD"}]
  BY DEF UserMsg
<1> HIDE DEF O, P
<1>3. m \in UserMsg /\ m \notin [type : {"BAD"}]
  BY DEF Nothing
<1>4. CASE m \in [type : {"REQ"}, uid : Uids, tid : Tids, op : O,
                  data : {NoData}, whole : {TRUE}]
  BY <1>1, <1>3, <1>4
<1>5. CASE m \in [type : {"REQ"}, uid : Uids, tid : Tids, op : P,
                  data : Data, whole : BOOLEAN]
  BY <1>1, <1>3, <1>5
<1> QED
  BY <1>2, <1>3, <1>4, <1>5

LEMMA RequestFields ==
    ASSUME TypeOK, NEW i \in DOMAIN requests
    PROVE  LET r == requests[i]
           IN  /\ r \in Request
               /\ r.conn \in Conns /\ r.uid \in Uids \cup {NoUid}
               /\ r.tid \in Tids \cup {NoTid} /\ r.op \in Operation \cup {NoOp}
               /\ r.fsid \in Nat /\ r.age \in -1 .. TIMEOUT
               /\ r.data \in Data \cup {NoData}
<1> DEFINE r == requests[i]
<1>1. r \in Request
  BY RequestTyped
<1> HIDE DEF r
<1>2. /\ r.conn \in Conns /\ r.uid \in Uids \cup {NoUid}
      /\ r.tid \in Tids \cup {NoTid} /\ r.op \in Operation \cup {NoOp}
      /\ r.fsid \in Nat /\ r.age \in -1 .. TIMEOUT
      /\ r.data \in Data \cup {NoData}
  BY <1>1 DEF Request
<1> QED
  BY <1>1, <1>2 DEF r

(* The request that an answer is for, and what it says if it is confirmed. *)
LEMMA AnswerFits ==
    ASSUME TypeOK, KernelInv, ReceiveAnswer("CNF"), Matching # {}
    PROVE  LET i == First(Matching)
               r == requests[First(Matching)]
           IN  /\ i \in DOMAIN requests
               /\ Confirms(r) => r.uid \in Uids /\ r.op \in Ops
               /\ udpIn # <<>>
<1> DEFINE i == First(Matching)
           r == requests[First(Matching)]
<1>1. i \in DOMAIN requests
  BY FirstListed DEF Matching
<1>2. udpIn # <<>> /\ udpIn \in Seq(Answer)
  BY DEF ReceiveAnswer, KernelInv, TypeOK
<1>3. TheAnswer \in Answer /\ TheAnswer.type = "CNF"
  BY <1>2, HeadAndTail DEF TheAnswer, ReceiveAnswer
<1>4. TheAnswer.uid \in Uids /\ TheAnswer.op \in Ops \cup {FOP_E}
  BY <1>3 DEF Answer, Confirmation
<1>5. r.op \in Operation \cup {NoOp}
  BY <1>1, RequestFields
<1>6. r.op # FOP_E
  BY <1>5, ConstantsAssumption DEF ConstantsAssumption
<1> QED
  BY <1>1, <1>2, <1>4, <1>6 DEF Confirms

(* A confirmed request is of a user and names what its operation needs.    *)
LEMMA ConfirmedFields ==
    ASSUME TypeOK, NEW i \in DOMAIN requests, requests[i].op \in Ops
    PROVE  LET r == requests[i]
           IN  /\ r.op # NoOp
               /\ r.op.fop \in {"L", "X", "R", "U", "D"}
               /\ r.op.fop \in {"R", "U", "D"} =>
                     /\ r.op.name \in Names
                     /\ r.op = [fop |-> r.op.fop, name |-> r.op.name]
  BY OpsKnown, OperationFields

(* The request that has its turn. *)
LEMMA TurnFields ==
    ASSUME TypeOK, NEW i \in DOMAIN requests
    PROVE  LET c == requests[i].conn
               m == inbox[requests[i].conn]
           IN  /\ c \in Conns
               /\ m \in UserMsg \cup {Nothing}
               /\ m.type = "REQ" => m.op # NoOp
               /\ m.type = "REQ" =>
                      /\ m \in UserMsg
                      /\ m.uid \in Uids /\ m.tid \in Tids /\ m.op \in Ops
                      /\ m.data \in Data \cup {NoData}
                      /\ m.op.fop = "U" => m.data \in Data
<1>1. requests[i].conn \in Conns
  BY RequestFields
<1>2. inbox[requests[i].conn] \in UserMsg \cup {Nothing}
  BY <1>1 DEF TypeOK
<1> QED
  BY <1>1, <1>2, MessageFields, OpsKnown

(* The upload that is being stored. *)
LEMMA StoredFields ==
    ASSUME TypeInv, pc = "storing"
    PROVE  /\ ReadyNodes # {}
           /\ First(ReadyNodes) \in DOMAIN requests
           /\ Stored(First(ReadyNodes))
<1>1. ReadyNodes # {} /\ Stored(First(ReadyNodes))
  BY DEF TypeInv, StoringInv
<1> QED
  BY <1>1, FirstListed DEF TypeInv, ReadyNodes

-----------------------------------------------------------------------------
(* The steps. *)

(* The process ends. *)
Ended == ProcessEnds /\ sent' \in SUBSET Reply

(* It reads for ever. *)
Hangs ==
    /\ pc' = "stuck" /\ sent' = {}
    /\ UNCHANGED <<disk, requests, fds, ready, fsidgen, stale, kernel, asked>>

(* The steps of the server and of its surroundings, one name for each.     *)
LEMMA NextCases ==
    ASSUME TypeInv, Next
    PROVE  \/ Select \/ handleUserConnection \/ Execute \/ Refuse
           \/ \E i \in DOMAIN requests :
                 \/ UserClosed(i) \/ fillRequest(i) \/ fillUploadRequest(i)
                 \/ storeFileFromTCP(i)
           \/ \E e \in Elapsed : checkUserRequestTimeouts(e)
           \/ Hangs
           \/ Ended /\ (UNCHANGED disk \/ StopInOperation)
           \/ Environment \/ Start
<1>0. TypeOK
  BY DEF TypeInv
<1>1. CASE Stop \/ StopInOperation \/ SelectFails \/ RefuseFails \/ FatalAnswer
  BY <1>1 DEF Stop, StopInOperation, SelectFails, RefuseFails, FatalAnswer, Ended
<1>2. ASSUME NEW i \in DOMAIN requests, FatalRequest(i)
      PROVE  Ended /\ UNCHANGED disk
  <2>1. requests[i].conn \in Conns
    BY <1>0, RequestFields
  <2> QED
    BY <1>2, <2>1 DEF FatalRequest, Ended, Replies, Reply
<1>3. ASSUME NEW i \in DOMAIN requests, StoreBroken(i)
      PROVE  Hangs \/ (Ended /\ UNCHANGED disk)
  BY <1>3 DEF StoreBroken, Hangs, Ended
<1> QED
  BY <1>1, <1>2, <1>3 DEF Next, ServerStep, handleASValidationReply,
                           handleUserRequest

-----------------------------------------------------------------------------
(* Types: the disk. *)
DiskTypeOK ==
    /\ dirs \in SUBSET Uids
    /\ stored \in [Uids -> [Names -> Data \cup {NoData}]]
    /\ temps \in SUBSET Temp

LEMMA StoreTyped ==
    ASSUME TypeOK, NEW u \in Uids, NEW n \in Names, NEW d \in Data \cup {NoData},
           Store(u, n, d)
    PROVE  stored' \in [Uids -> [Names -> Data \cup {NoData}]]
  BY DEF Store, TypeOK

LEMMA TempsTyped ==
    ASSUME TypeOK
    PROVE  /\ \A t \in temps : t.uid \in Uids /\ t.id \in Nat /\ t.data \in Data
           /\ \A r : TempOf(r) \subseteq temps
  BY DEF TypeOK, Temp, TempOf

(* An operation, and the reply to it. *)
LEMMA ExecutedTyped ==
    ASSUME TypeOK, NEW i \in DOMAIN requests,
           requests[i].uid \in Uids, requests[i].op \in Ops,
           exeRequest(requests[i])
    PROVE  DiskTypeOK' /\ sent' \in SUBSET Reply
<1> DEFINE r == requests[i]
<1>0. r.conn \in Conns
  BY RequestFields
<1>1. /\ r.op.fop \in {"R", "U", "D"} => r.op.name \in Names
  BY ConfirmedFields
<1> HIDE DEF r
<1>2. \A status \in {"OK", "NOK", "EOF", "DUP", "FULL", "ERR", "INV"} :
         Replies(r.conn, status) => sent' \in SUBSET Reply
  BY <1>0 DEF Replies, Reply
<1>3. r.uid \in Uids /\ exeRequest(r)
  BY DEF r
<1>4. DiskTypeOK
  BY DEF TypeOK, DiskTypeOK
<1>5. CASE listRequest(r)
  <2>1. DiskTypeOK'
    BY <1>3, <1>4, <1>5 DEF listRequest, DiskTypeOK
  <2>2. \E status \in {"OK", "EOF"} : Replies(r.conn, status)
    BY <1>5 DEF listRequest
  <2> QED
    BY <1>2, <2>1, <2>2
<1>6. CASE retreiveRequest(r)
  <2>1. DiskTypeOK'
    BY <1>4, <1>6 DEF retreiveRequest, DiskTypeOK, disk
  <2>2. \E status \in {"OK", "NOK", "EOF"} : Replies(r.conn, status)
    BY <1>6 DEF retreiveRequest
  <2> QED
    BY <1>2, <2>1, <2>2
<1>7. CASE uploadRequest(r)
  <2>1. r.op.name \in Names
    BY <1>1, <1>7 DEF uploadRequest
  <2>2. dirs' \in SUBSET Uids /\ temps' \in SUBSET Temp
    BY <1>3, <1>4, <1>7 DEF uploadRequest, DiskTypeOK
  <2>3. stored' \in [Uids -> [Names -> Data \cup {NoData}]]
    <3>1. CASE UNCHANGED stored
      BY <1>4, <3>1 DEF DiskTypeOK
    <3>2. ASSUME NEW t \in TempOf(r), Store(r.uid, r.op.name, t.data)
          PROVE  stored' \in [Uids -> [Names -> Data \cup {NoData}]]
      <4>1. t.data \in Data
        BY TempsTyped
      <4> QED
        BY <1>3, <2>1, <3>2, <4>1, StoreTyped
    <3> QED
      BY <1>7, <3>1, <3>2 DEF uploadRequest
  <2>4. \E status \in {"DUP", "ERR", "FULL", "OK"} : Replies(r.conn, status)
    BY <1>7 DEF uploadRequest
  <2> QED
    BY <1>2, <2>2, <2>3, <2>4 DEF DiskTypeOK
<1>8. CASE deleteRequest(r)
  <2>1. r.op.name \in Names
    BY <1>1, <1>8 DEF deleteRequest
  <2>2. stored' \in [Uids -> [Names -> Data \cup {NoData}]]
    BY <1>3, <1>8, <2>1, StoreTyped DEF deleteRequest
  <2>3. \E status \in {"OK", "NOK", "EOF"} : Replies(r.conn, status)
    BY <1>8 DEF deleteRequest
  <2> QED
    BY <1>2, <1>4, <1>8, <2>2, <2>3 DEF deleteRequest, DiskTypeOK
<1>9. CASE removeRequest(r)
  <2>1. DiskTypeOK'
    BY <1>3, <1>4, <1>9 DEF removeRequest, DiskTypeOK, TempsOf
  <2>2. \E status \in {"OK", "NOK"} : Replies(r.conn, status)
    BY <1>9 DEF removeRequest
  <2> QED
    BY <1>2, <2>1, <2>2
<1> QED
  BY <1>3, <1>5, <1>6, <1>7, <1>8, <1>9 DEF exeRequest

(* An operation that is cut short. *)
LEMMA CutTyped ==
    ASSUME TypeOK, NEW i \in DOMAIN requests,
           requests[i].uid \in Uids, requests[i].op \in Ops,
           CutShort(requests[i])
    PROVE  DiskTypeOK'
<1> DEFINE r == requests[i]
<1>1. r.uid \in Uids /\ (r.op.fop = "U" => r.op.name \in Names) /\ CutShort(r)
  BY ConfirmedFields
<1> HIDE DEF r
<1>2. DiskTypeOK
  BY DEF TypeOK, DiskTypeOK
<1>3. ASSUME NEW t \in TempOf(r), r.op.fop = "U",
             Store(r.uid, r.op.name, t.data)
      PROVE  stored' \in [Uids -> [Names -> Data \cup {NoData}]]
  <2>1. t.data \in Data
    BY TempsTyped
  <2> QED
    BY <1>1, <1>3, <2>1, StoreTyped
<1>4. ASSUME NEW N \in SUBSET StoredNames(r.uid),
             stored' = [stored EXCEPT ![r.uid] =
                           [n \in Names |-> IF n \in N THEN NoData ELSE @[n]]]
      PROVE  stored' \in [Uids -> [Names -> Data \cup {NoData}]]
  BY <1>1, <1>2, <1>4 DEF DiskTypeOK
<1>5. dirs' \in SUBSET Uids /\ temps' \in SUBSET Temp
  BY <1>1, <1>2 DEF CutShort, DiskTypeOK, TempsOf
<1> QED
  BY <1>1, <1>3, <1>4, <1>5 DEF CutShort, DiskTypeOK

LEMMA DiskTyped ==
    ASSUME TypeInv, Next
    PROVE  DiskTypeOK'
<1>0. TypeOK /\ KernelInv /\ DiskTypeOK
  BY DEF TypeInv, TypeOK, DiskTypeOK
<1>1. CASE Execute
  <2> DEFINE i == First(Matching)
  <2>1. /\ i \in DOMAIN requests /\ exeRequest(requests[i])
        /\ requests[i].uid \in Uids /\ requests[i].op \in Ops
    BY <1>0, <1>1, AnswerFits DEF Execute
  <2> QED
    BY <1>0, <2>1, ExecutedTyped
<1>2. CASE Refuse
  BY <1>0, <1>2 DEF Refuse, DiskTypeOK
<1>3. ASSUME NEW i \in DOMAIN requests, fillUploadRequest(i)
      PROVE  DiskTypeOK'
  <2> DEFINE m == inbox[requests[i].conn]
  <2>1. m.uid \in Uids /\ m.data \in Data
    BY <1>0, <1>3, TurnFields DEF fillUploadRequest
  <2> DEFINE t == [uid |-> m.uid, id |-> fsidgen, data |-> m.data]
  <2>2. t \in Temp
    BY <1>0, <2>1 DEF Temp, TypeOK
  <2>3. temps' \subseteq temps \cup {t}
    BY <1>3 DEF fillUploadRequest
  <2>4. dirs' = dirs \cup {m.uid} /\ stored' = stored
    BY <1>3 DEF fillUploadRequest
  <2> HIDE DEF m, t
  <2> QED
    BY <1>0, <2>1, <2>2, <2>3, <2>4 DEF DiskTypeOK
<1>4. CASE StopInOperation
  <2> DEFINE i == First(Matching)
  <2>1. /\ i \in DOMAIN requests /\ CutShort(requests[i])
        /\ requests[i].uid \in Uids /\ requests[i].op \in Ops
    BY <1>0, <1>4, AnswerFits DEF StopInOperation
  <2> QED
    BY <1>0, <2>1, CutTyped
<1>5. CASE UNCHANGED disk
  BY <1>0, <1>5 DEF disk, DiskTypeOK
<1>6. ASSUME \/ Select \/ handleUserConnection
             \/ \E i \in DOMAIN requests :
                   UserClosed(i) \/ fillRequest(i) \/ storeFileFromTCP(i)
             \/ \E e \in Elapsed : checkUserRequestTimeouts(e)
             \/ Hangs \/ Environment \/ Start
      PROVE  UNCHANGED disk
  BY <1>6 DEF Select, handleUserConnection, UserClosed, fillRequest,
              storeFileFromTCP, checkUserRequestTimeouts, EndOfIteration,
              Hangs, Start, Environment, AnswerArrives, Arrives, UserConnects,
              UserSends, UserSendsRest, UserCloses, Outside
<1> QED
  BY <1>1, <1>2, <1>3, <1>4, <1>5, <1>6, NextCases

-----------------------------------------------------------------------------
(* Types: the requests. *)
RequestsTypeOK == requests \in Seq(Request) /\ stale \in SUBSET Memory

LEMMA RemovedTyped ==
    ASSUME TypeOK, NEW i \in DOMAIN requests, Removed(i)
    PROVE  RequestsTypeOK'
<1>1. [uid |-> requests[i].uid, tid |-> requests[i].tid] \in Memory
  BY RequestFields DEF Memory
<1>2. requests' \in Seq(Request)
  BY OlderRequests DEF Removed
<1> QED
  BY <1>1, <1>2 DEF Removed, RequestsTypeOK, TypeOK

(* What becomes of a request: it is new, read, or older. *)
LEMMA NewTyped ==
    ASSUME NEW c \in Conns, NEW m \in Memory
    PROVE  NewRequest(c, m) \in Request
<1>1. -1 \in -1 .. TIMEOUT
  BY ParametersAssumption DEF ParametersAssumption
<1>2. m.uid \in Uids \cup {NoUid} /\ m.tid \in Tids \cup {NoTid}
  BY DEF Memory
<1> QED
  BY <1>1, <1>2 DEF NewRequest, Request

LEMMA FilledTyped ==
    ASSUME NEW r \in Request, NEW m \in UserMsg, m.type = "REQ", fsidgen \in Nat
    PROVE  Filled(r, m) \in Request /\ [Filled(r, m) EXCEPT !.age = 0] \in Request
<1>1. 0 \in -1 .. TIMEOUT
  BY ParametersAssumption DEF ParametersAssumption
<1>2. /\ m.uid \in Uids /\ m.tid \in Tids /\ m.op \in Operation
      /\ m.data \in Data \cup {NoData}
  BY MessageFields, OpsKnown
<1>3. Filled(r, m) \in Request
  BY <1>2 DEF Filled, Request
<1> HIDE DEF Filled
<1> QED
  BY <1>1, <1>3 DEF Request

LEMMA AgedTyped ==
    ASSUME NEW r \in Request, NEW e \in Nat, r.age = -1 \/ r.age + e <= TIMEOUT
    PROVE  Aged(r, e) \in Request
<1>1. TIMEOUT \in Nat
  BY ParametersAssumption DEF ParametersAssumption
<1>2. CASE r.age # -1
  <2>1. r.age + e \in -1 .. TIMEOUT
    BY <1>1, <1>2 DEF Request
  <2>2. Aged(r, e) = [r EXCEPT !.age = r.age + e]
    BY <1>2 DEF Aged
  <2> DEFINE a == r.age + e
  <2> HIDE DEF a
  <2>3. a \in -1 .. TIMEOUT => [r EXCEPT !.age = a] \in Request
    BY DEF Request
  <2> QED
    BY <2>1, <2>2, <2>3 DEF a
<1> QED
  BY <1>2 DEF Aged

LEMMA ElapsedNatural == Elapsed \subseteq Nat
  BY ParametersAssumption DEF ParametersAssumption, Elapsed

(* The requests at the end of an iteration. *)
LEMMA AgesTyped ==
    ASSUME TypeOK, NEW e \in Nat, Overdue(e) = {}
    PROVE  LET aged == [i \in DOMAIN requests |-> Aged(requests[i], e)]
           IN  /\ aged \in Seq(Request)
               /\ DOMAIN aged = DOMAIN requests
<1> DEFINE aged == [i \in DOMAIN requests |-> Aged(requests[i], e)]
<1>1. ASSUME NEW i \in DOMAIN requests PROVE Aged(requests[i], e) \in Request
  <2>1. requests[i].age = -1 \/ ~(requests[i].age + e > TIMEOUT)
    BY DEF Overdue
  <2>2. requests[i] \in Request /\ requests[i].age \in Int /\ TIMEOUT \in Nat
    BY RequestFields, ParametersAssumption DEF ParametersAssumption
  <2> DEFINE a == requests[i].age
  <2>3. a = -1 \/ a + e <= TIMEOUT
    <3> HIDE DEF a
    <3>1. a \in Int /\ (a = -1 \/ ~(a + e > TIMEOUT))
      BY <2>1, <2>2 DEF a
    <3> QED
      BY <2>2, <3>1
  <2> QED
    BY <2>2, <2>3, AgedTyped
<1>2. /\ requests \in Seq(Request) /\ DOMAIN requests = 1 .. Len(requests)
      /\ Len(requests) \in Nat
  BY LenProperties DEF TypeOK
<1>3. aged \in [1 .. Len(requests) -> Request]
  BY <1>1, <1>2
<1>4. aged \in Seq(Request)
  BY <1>2, <1>3, IsASeq
<1> QED
  BY <1>4

LEMMA RequestsTyped ==
    ASSUME TypeInv, Next
    PROVE  RequestsTypeOK'
<1>0. TypeOK /\ KernelInv /\ RequestsTypeOK
  BY DEF TypeInv, TypeOK, RequestsTypeOK
<1>1. CASE handleUserConnection
  <2>1. PICK m \in stale \cup {Blank} :
            /\ requests' = <<NewRequest(Head(backlog), m)>> \o requests
            /\ stale' = stale \ {m}
    BY <1>1 DEF handleUserConnection
  <2>2. m \in Memory
    BY <1>0 DEF RequestsTypeOK, Memory, Blank
  <2>3. Head(backlog) \in Conns
    BY <1>0, <1>1, HeadAndTail DEF handleUserConnection, KernelInv, TypeOK
  <2>4. NewRequest(Head(backlog), m) \in Request
    BY <2>2, <2>3, NewTyped
  <2>5. requests' \in Seq(Request)
    BY <1>0, <2>1, <2>4, RequestAdded
  <2> QED
    BY <1>0, <2>1, <2>5 DEF RequestsTypeOK
<1>2. CASE Execute \/ Refuse
  <2>1. First(Matching) \in DOMAIN requests /\ Removed(First(Matching))
    BY <1>0, <1>2, AnswerFits DEF Execute, Refuse, RemovedAndClosed
  <2> QED
    BY <1>0, <2>1, RemovedTyped
<1>3. ASSUME NEW i \in DOMAIN requests, UserClosed(i)
      PROVE  RequestsTypeOK'
  BY <1>0, <1>3, RemovedTyped DEF UserClosed, RemovedAndClosed
<1>4. ASSUME NEW i \in DOMAIN requests, fillRequest(i) \/ fillUploadRequest(i)
      PROVE  RequestsTypeOK'
  <2> DEFINE m == inbox[requests[i].conn]
             r == Filled(requests[i], m)
  <2>1. m \in UserMsg /\ m.type = "REQ"
    BY <1>0, <1>4, TurnFields DEF fillRequest, fillUploadRequest
  <2>2. requests[i] \in Request /\ fsidgen \in Nat
    BY <1>0, RequestTyped DEF TypeOK
  <2>3. r \in Request /\ [r EXCEPT !.age = 0] \in Request
    BY <2>1, <2>2, FilledTyped
  <2>4. /\ stale' = stale
        /\ \/ requests' = [requests EXCEPT ![i] = r]
           \/ requests' = [requests EXCEPT ![i] = [r EXCEPT !.age = 0]]
    BY <1>4 DEF fillRequest, fillUploadRequest
  <2> HIDE DEF r
  <2>5. requests' \in Seq(Request)
    BY <1>0, <2>3, <2>4, RequestChanged
  <2> QED
    BY <1>0, <2>4, <2>5 DEF RequestsTypeOK
<1>5. ASSUME NEW i \in DOMAIN requests, storeFileFromTCP(i)
      PROVE  RequestsTypeOK'
  <2> DEFINE r == [requests[i] EXCEPT !.age = 0]
  <2>1. 0 \in -1 .. TIMEOUT
    BY ParametersAssumption DEF ParametersAssumption
  <2>2. r \in Request
    BY <1>0, <2>1, RequestTyped DEF Request
  <2>3. requests' = [requests EXCEPT ![i] = r] /\ stale' = stale
    BY <1>5 DEF storeFileFromTCP
  <2> HIDE DEF r
  <2> QED
    BY <1>0, <2>2, <2>3, RequestChanged DEF RequestsTypeOK
<1>6. ASSUME NEW e \in Elapsed, checkUserRequestTimeouts(e)
      PROVE  RequestsTypeOK'
  <2>1. CASE Overdue(e) = {}
    <3>1. /\ requests' = [i \in DOMAIN requests |-> Aged(requests[i], e)]
          /\ stale' = stale
      BY <1>6, <2>1 DEF checkUserRequestTimeouts
    <3>2. requests' \in Seq(Request)
      BY <1>0, <2>1, <3>1, ElapsedNatural, AgesTyped
    <3> QED
      BY <1>0, <3>1, <3>2 DEF RequestsTypeOK
  <2>2. CASE Overdue(e) # {}
    <3>1. First(Overdue(e)) \in DOMAIN requests
      BY <1>0, <2>2, FirstListed DEF Overdue
    <3> QED
      BY <1>0, <1>6, <2>2, <3>1, RemovedTyped
      DEF checkUserRequestTimeouts, RemovedAndClosed
  <2> QED
    BY <2>1, <2>2
<1>7. CASE Ended
  BY <1>7, EmptySeq DEF Ended, ProcessEnds, RequestsTypeOK
<1>8. CASE Select \/ Hangs \/ Environment \/ Start
  <2>1. UNCHANGED <<requests, stale>>
    BY <1>8 DEF Select, Hangs, Start, Environment, AnswerArrives, Arrives,
                UserConnects, UserSends, UserSendsRest, UserCloses, Outside
  <2> QED
    BY <1>0, <2>1 DEF RequestsTypeOK
<1> QED
  BY <1>1, <1>2, <1>3, <1>4, <1>5, <1>6, <1>7, <1>8, NextCases

(* Types: where the process stands. *)
ControlTypeOK ==
    /\ pc \in {"select", "serving", "storing", "stuck", "down"}
    /\ fds \in SUBSET Conns
    /\ ready \in [listen : BOOLEAN, udp : BOOLEAN, conns : SUBSET Conns,
                  idle : BOOLEAN]
    /\ fsidgen \in Nat

LEMMA ReadyTyped ==
    ASSUME TypeOK
    PROVE  ReadyNow \in [listen : BOOLEAN, udp : BOOLEAN, conns : SUBSET Conns,
                         idle : BOOLEAN]
           /\ ReadyNow.listen = (backlog # <<>>)
           /\ ReadyNow.udp = (udpIn # <<>>)
<1> DEFINE now == [listen |-> backlog # <<>>, udp |-> udpIn # <<>>,
                   conns |-> {c \in fds : HasInput(c)}, idle |-> FALSE]
           b == now = NothingReady
<1>1. {c \in fds : HasInput(c)} \in SUBSET Conns
  BY DEF TypeOK
<1>2. now \in [listen : BOOLEAN, udp : BOOLEAN, conns : SUBSET Conns,
               idle : BOOLEAN]
      /\ now.listen = (backlog # <<>>) /\ now.udp = (udpIn # <<>>)
  BY <1>1
<1>3. ReadyNow = [now EXCEPT !.idle = b] /\ b \in BOOLEAN
  BY DEF ReadyNow
<1> HIDE DEF now, b
<1> QED
  BY <1>2, <1>3

LEMMA ControlTyped ==
    ASSUME TypeInv, Next
    PROVE  ControlTypeOK'
<1>0. TypeOK /\ ControlTypeOK
  BY DEF TypeInv, TypeOK, ControlTypeOK
<1>n. NothingReady \in [listen : BOOLEAN, udp : BOOLEAN, conns : SUBSET Conns,
                        idle : BOOLEAN]
  BY DEF NothingReady
<1>1. CASE Select
  BY <1>0, <1>1, ReadyTyped DEF Select, ControlTypeOK
<1>2. CASE handleUserConnection
  <2>1. Head(backlog) \in Conns
    BY <1>2, HeadAndTail DEF handleUserConnection, KernelInv, TypeInv, TypeOK
  <2> QED
    BY <1>0, <1>2, <2>1 DEF handleUserConnection, ControlTypeOK
<1>3. CASE Execute \/ Refuse
  BY <1>0, <1>3 DEF Execute, Refuse, AnswerTaken, ControlTypeOK
<1>4. ASSUME NEW i \in DOMAIN requests,
             \/ UserClosed(i) \/ fillRequest(i) \/ fillUploadRequest(i)
             \/ storeFileFromTCP(i)
      PROVE  ControlTypeOK'
  <2>1. pc' \in {"select", "serving", "storing", "stuck", "down"}
    BY <1>0, <1>4 DEF UserClosed, fillRequest, fillUploadRequest,
                      storeFileFromTCP, ControlTypeOK
  <2>2. fsidgen' \in Nat
    BY <1>0, <1>4 DEF UserClosed, fillRequest, fillUploadRequest,
                      storeFileFromTCP, ControlTypeOK, NextFsid
  <2>3. fds' \in SUBSET Conns
    BY <1>0, <1>4 DEF UserClosed, fillRequest, fillUploadRequest,
                      storeFileFromTCP, ControlTypeOK, Unwatched
  <2>4. Served(i) \/ UNCHANGED ready
    BY <1>4 DEF UserClosed, fillRequest, fillUploadRequest, storeFileFromTCP
  <2>5. ready' \in [listen : BOOLEAN, udp : BOOLEAN, conns : SUBSET Conns,
                    idle : BOOLEAN]
    BY <1>0, <2>4 DEF Served, ControlTypeOK
  <2> QED
    BY <2>1, <2>2, <2>3, <2>5 DEF ControlTypeOK
<1>5. ASSUME NEW e \in Elapsed, checkUserRequestTimeouts(e)
      PROVE  ControlTypeOK'
  BY <1>0, <1>n, <1>5 DEF checkUserRequestTimeouts, EndOfIteration, ControlTypeOK
<1>6. CASE Ended
  BY <1>n, <1>6 DEF Ended, ProcessEnds, ControlTypeOK
<1>7. CASE Hangs \/ Environment \/ Start
  BY <1>0, <1>7 DEF Hangs, Start, Environment, AnswerArrives, Arrives,
                    UserConnects, UserSends, UserSendsRest, UserCloses, Outside,
                    ControlTypeOK
<1> QED
  BY <1>1, <1>2, <1>3, <1>4, <1>5, <1>6, <1>7, NextCases

-----------------------------------------------------------------------------
(* Types: what the kernel holds. *)
QueuesTypeOK ==
    /\ udpIn \in Seq(Answer) /\ backlog \in Seq(Conns)
    /\ ready.listen => backlog # <<>>
    /\ ready.udp => udpIn # <<>>

ConnectionsTypeOK ==
    /\ inbox \in [Conns -> UserMsg \cup {Nothing}]
    /\ peer \in [Conns -> {"free", "open", "sent", "closed", "left"}]
    /\ \A c \in Conns : peer[c] \in {"free", "open"} => inbox[c] = Nothing

LEMMA Appended ==
    ASSUME NEW S, NEW s \in Seq(S), NEW e \in S
    PROVE  /\ Append(s, e) \in Seq(S) /\ Append(s, e) # <<>>
           /\ \A k \in DOMAIN Append(s, e) :
                 \/ k \in DOMAIN s /\ Append(s, e)[k] = s[k]
                 \/ k = Len(s) + 1 /\ Append(s, e)[k] = e
<1>1. /\ Append(s, e) \in Seq(S)
      /\ Len(Append(s, e)) = Len(s) + 1
      /\ \A i \in 1 .. Len(s) : Append(s, e)[i] = s[i]
      /\ Append(s, e)[Len(s) + 1] = e
  BY AppendProperties
<1>2. /\ DOMAIN s = 1 .. Len(s) /\ Len(s) \in Nat
      /\ DOMAIN Append(s, e) = 1 .. Len(s) + 1
  BY <1>1, LenProperties
<1>3. Append(s, e) # <<>>
  BY <1>1, <1>2, EmptySeq
<1> QED
  BY <1>1, <1>2, <1>3

LEMMA QueuesTyped ==
    ASSUME TypeInv, Next
    PROVE  QueuesTypeOK'
<1>0. TypeOK /\ QueuesTypeOK
  BY DEF TypeInv, TypeOK, KernelInv, QueuesTypeOK
<1>1. CASE Select
  BY <1>0, <1>1, ReadyTyped DEF Select, QueuesTypeOK, kernel
<1>2. CASE handleUserConnection
  <2>1. Tail(backlog) \in Seq(Conns)
    BY <1>0, <1>2, HeadAndTail DEF handleUserConnection, QueuesTypeOK
  <2> QED
    BY <1>0, <1>2, <2>1 DEF handleUserConnection, QueuesTypeOK, TypeOK
<1>3. CASE Execute \/ Refuse
  <2>1. AnswerTaken /\ udpIn # <<>>
    BY <1>0, <1>3 DEF Execute, Refuse, ReceiveAnswer, QueuesTypeOK
  <2>2. Tail(udpIn) \in Seq(Answer)
    BY <1>0, <2>1, HeadAndTail DEF QueuesTypeOK
  <2> QED
    BY <1>0, <2>1, <2>2 DEF AnswerTaken, QueuesTypeOK, TypeOK
<1>4. ASSUME NEW i \in DOMAIN requests,
             \/ UserClosed(i) \/ fillRequest(i) \/ fillUploadRequest(i)
             \/ storeFileFromTCP(i)
      PROVE  QueuesTypeOK'
  <2>1. (Served(i) \/ UNCHANGED ready) /\ UNCHANGED <<udpIn, backlog>>
    BY <1>4 DEF UserClosed, fillRequest, fillUploadRequest, storeFileFromTCP,
                kernel
  <2>2. ready'.listen = ready.listen /\ ready'.udp = ready.udp
    BY <1>0, <2>1 DEF Served, TypeOK
  <2> QED
    BY <1>0, <2>1, <2>2 DEF QueuesTypeOK
<1>5. CASE (\E e \in Elapsed : checkUserRequestTimeouts(e)) \/ Ended
  <2>1. ready' = NothingReady
    BY <1>5 DEF checkUserRequestTimeouts, EndOfIteration, Ended, ProcessEnds
  <2>2. udpIn' \in Seq(Answer) /\ backlog' \in Seq(Conns)
    BY <1>0, <1>5, EmptySeq
    DEF checkUserRequestTimeouts, EndOfIteration, Ended, ProcessEnds, QueuesTypeOK
  <2> QED
    BY <2>1, <2>2 DEF QueuesTypeOK, NothingReady
<1>6. ASSUME NEW m \in Answer, AnswerArrives(m)
      PROVE  QueuesTypeOK'
  <2>1. udpIn' = Append(udpIn, m) /\ UNCHANGED <<backlog, ready>>
    BY <1>6 DEF AnswerArrives, Arrives, Outside
  <2>2. udpIn' \in Seq(Answer) /\ udpIn' # <<>>
    BY <1>0, <2>1, Appended DEF QueuesTypeOK
  <2> QED
    BY <1>0, <2>1, <2>2 DEF QueuesTypeOK
<1>7. ASSUME NEW c \in Conns, UserConnects(c)
      PROVE  QueuesTypeOK'
  <2>1. backlog' = Append(backlog, c) /\ UNCHANGED <<udpIn, ready>>
    BY <1>7 DEF UserConnects, Outside
  <2>2. backlog' \in Seq(Conns) /\ backlog' # <<>>
    BY <1>0, <2>1, Appended DEF QueuesTypeOK
  <2> QED
    BY <1>0, <2>1, <2>2 DEF QueuesTypeOK
<1>8. CASE Hangs \/ Start
           \/ \E c \in Conns : \/ \E m \in UserMsg : UserSends(c, m)
                               \/ UserSendsRest(c) \/ UserCloses(c)
  <2>1. UNCHANGED <<udpIn, backlog, ready>>
    BY <1>8 DEF Hangs, Start, UserSends, UserSendsRest, UserCloses, Outside,
                kernel
  <2> QED
    BY <1>0, <2>1 DEF QueuesTypeOK
<1> QED
  BY <1>1, <1>2, <1>3, <1>4, <1>5, <1>6, <1>7, <1>8, NextCases DEF Environment

(* A connection that is closed is as if it had never been. *)
LEMMA ClosedTyped ==
    ASSUME TypeOK, ConnectionsTypeOK, NEW i \in DOMAIN requests,
           RemovedAndClosed(i)
    PROVE  ConnectionsTypeOK'
<1>1. requests[i].conn \in Conns
  BY RequestFields
<1> QED
  BY <1>1 DEF RemovedAndClosed, ConnectionsTypeOK

LEMMA ConnectionsTyped ==
    ASSUME TypeInv, Next
    PROVE  ConnectionsTypeOK'
<1>0. TypeOK /\ KernelInv /\ ConnectionsTypeOK
  BY DEF TypeInv, TypeOK, KernelInv, ConnectionsTypeOK
<1>1. CASE Execute
  <2>1. First(Matching) \in DOMAIN requests
    BY <1>0, <1>1, AnswerFits DEF Execute
  <2>2. peer' = [peer EXCEPT ![requests[First(Matching)].conn] = "left"]
        /\ inbox' = inbox
    BY <1>1 DEF Execute
  <2> DEFINE c == requests[First(Matching)].conn
  <2>3. c \in Conns
    BY <1>0, <2>1, RequestFields
  <2> HIDE DEF c
  <2>4. peer' = [peer EXCEPT ![c] = "left"] /\ inbox' = inbox
    BY <2>2 DEF c
  <2> QED
    BY <1>0, <2>3, <2>4 DEF ConnectionsTypeOK
<1>2. CASE Refuse
  <2>1. /\ First(Matching) \in DOMAIN requests
        /\ RemovedAndClosed(First(Matching))
    BY <1>0, <1>2, AnswerFits DEF Refuse
  <2> QED
    BY <1>0, <2>1, ClosedTyped
<1>3. ASSUME NEW i \in DOMAIN requests, UserClosed(i)
      PROVE  ConnectionsTypeOK'
  BY <1>0, <1>3, ClosedTyped DEF UserClosed
<1>4. ASSUME NEW i \in DOMAIN requests, fillRequest(i) \/ storeFileFromTCP(i)
      PROVE  ConnectionsTypeOK'
  <2>1. requests[i].conn \in Conns
    BY <1>0, RequestFields
  <2>2. inbox' = [inbox EXCEPT ![requests[i].conn] = Nothing] /\ peer' = peer
    BY <1>4 DEF fillRequest, storeFileFromTCP
  <2> QED
    BY <1>0, <2>1, <2>2 DEF ConnectionsTypeOK
<1>5. ASSUME NEW e \in Elapsed, checkUserRequestTimeouts(e)
      PROVE  ConnectionsTypeOK'
  <2>1. CASE Overdue(e) = {}
    BY <1>0, <1>5, <2>1 DEF checkUserRequestTimeouts, ConnectionsTypeOK
  <2>2. CASE Overdue(e) # {}
    <3>1. First(Overdue(e)) \in DOMAIN requests
      BY <1>0, <2>2, FirstListed DEF Overdue
    <3> QED
      BY <1>0, <1>5, <2>2, <3>1, ClosedTyped DEF checkUserRequestTimeouts
  <2> QED
    BY <2>1, <2>2
<1>6. CASE Ended
  BY <1>6 DEF Ended, ProcessEnds, ConnectionsTypeOK
<1>7. ASSUME NEW c \in Conns, UserConnects(c) \/ UserCloses(c)
      PROVE  ConnectionsTypeOK'
  BY <1>0, <1>7 DEF UserConnects, UserCloses, ConnectionsTypeOK
<1>8. ASSUME NEW c \in Conns, NEW m \in UserMsg, UserSends(c, m)
      PROVE  ConnectionsTypeOK'
  BY <1>0, <1>8 DEF UserSends, ConnectionsTypeOK
<1>9. ASSUME NEW c \in Conns, UserSendsRest(c)
      PROVE  ConnectionsTypeOK'
  <2> DEFINE m == [inbox[c] EXCEPT !.whole = TRUE]
  <2>1. m \in UserMsg
    <3>1. inbox[c] \in UserMsg \cup {Nothing} /\ inbox[c].type = "REQ"
      BY <1>0, <1>9 DEF UserSendsRest, ConnectionsTypeOK
    <3>2. /\ inbox[c] \in UserMsg /\ inbox[c].op.fop = "U"
      BY <1>9, <3>1, MessageFields DEF UserSendsRest
    <3> DEFINE W == [type : {"REQ"}, uid : Uids, tid : Tids,
                     op : {o \in Ops : o.fop = "U"}, data : Data,
                     whole : BOOLEAN]
    <3>3. inbox[c] \in W
      BY <3>1, <3>2 DEF UserMsg
    <3>4. m \in W
      BY <3>3
    <3> QED
      BY <3>4 DEF UserMsg
  <2>2. inbox' = [inbox EXCEPT ![c] = m] /\ peer' = peer /\ peer[c] = "sent"
    BY <1>9 DEF UserSendsRest
  <2> HIDE DEF m
  <2> QED
    BY <1>0, <2>1, <2>2 DEF ConnectionsTypeOK
<1>10. CASE Select \/ handleUserConnection \/ Hangs \/ Start
            \/ (\E i \in DOMAIN requests : fillUploadRequest(i))
            \/ (\E m \in Answer : AnswerArrives(m))
  <2>1. UNCHANGED <<inbox, peer>>
    BY <1>10 DEF Select, handleUserConnection, Hangs, Start, fillUploadRequest,
                 AnswerArrives, Arrives, kernel
  <2> QED
    BY <1>0, <2>1 DEF ConnectionsTypeOK
<1> QED
  BY <1>1, <1>2, <1>3, <1>4, <1>5, <1>6, <1>7, <1>8, <1>9, <1>10, NextCases
  DEF Environment

(* Types: what was asked and sent. *)
LEMMA SentTyped ==
    ASSUME TypeInv, Next
    PROVE  asked' \in SUBSET [uid : Uids, tid : Tids] /\ sent' \in SUBSET Reply
<1>0. TypeOK /\ KernelInv
  BY DEF TypeInv
<1>1. ASSUME NEW i \in DOMAIN requests, Replies(requests[i].conn, "INV")
      PROVE  sent' \in SUBSET Reply
  <2>1. requests[i].conn \in Conns
    BY <1>0, RequestFields
  <2> QED
    BY <1>1, <2>1 DEF Replies, Reply
<1>2. CASE Execute
  <2>1. LET i == First(Matching)
        IN  /\ i \in DOMAIN requests /\ exeRequest(requests[i])
            /\ requests[i].uid \in Uids /\ requests[i].op \in Ops
    BY <1>0, <1>2, AnswerFits DEF Execute
  <2>2. sent' \in SUBSET Reply
    BY <1>0, <2>1, ExecutedTyped
  <2>3. asked' = asked
    BY <1>2 DEF Execute, AnswerTaken
  <2> QED
    BY <1>0, <2>2, <2>3 DEF TypeOK
<1>3. CASE Refuse
  <2>1. /\ First(Matching) \in DOMAIN requests
        /\ Replies(requests[First(Matching)].conn, "INV") /\ asked' = asked
    BY <1>0, <1>3, AnswerFits DEF Refuse, AnswerTaken
  <2> QED
    BY <1>0, <1>1, <2>1 DEF TypeOK
<1>4. ASSUME NEW i \in DOMAIN requests, NEW m, m = inbox[requests[i].conn],
             m.type = "REQ", Asks(m)
      PROVE  asked' \in SUBSET [uid : Uids, tid : Tids] /\ sent' \in SUBSET Reply
  <2>1. m.uid \in Uids /\ m.tid \in Tids
    BY <1>0, <1>4, TurnFields
  <2>2. sent' \in SUBSET Reply
    BY <1>4, <2>1 DEF Asks, Reply
  <2> QED
    BY <1>0, <1>4, <2>1, <2>2 DEF Asks, TypeOK
<1>5. ASSUME NEW i \in DOMAIN requests, fillRequest(i) \/ storeFileFromTCP(i)
      PROVE  asked' \in SUBSET [uid : Uids, tid : Tids] /\ sent' \in SUBSET Reply
  <2>1. CASE fillRequest(i)
    BY <1>4, <2>1 DEF fillRequest
  <2>2. CASE storeFileFromTCP(i)
    <3>1. Stored(i) /\ Asks(inbox[requests[i].conn])
      BY <2>2, StoredFields DEF storeFileFromTCP
    <3> QED
      BY <1>4, <3>1 DEF Stored
  <2> QED
    BY <1>5, <2>1, <2>2
<1>6. ASSUME NEW e \in Elapsed, checkUserRequestTimeouts(e)
      PROVE  asked' \in SUBSET [uid : Uids, tid : Tids] /\ sent' \in SUBSET Reply
  <2>1. asked' = asked
    BY <1>6 DEF checkUserRequestTimeouts, EndOfIteration
  <2>2. CASE Overdue(e) = {}
    BY <1>0, <1>6, <2>1, <2>2 DEF checkUserRequestTimeouts, TypeOK
  <2>3. CASE Overdue(e) # {}
    <3>1. First(Overdue(e)) \in DOMAIN requests
      BY <1>0, <2>3, FirstListed DEF Overdue
    <3> QED
      BY <1>0, <1>1, <1>6, <2>1, <2>3, <3>1 DEF checkUserRequestTimeouts, TypeOK
  <2> QED
    BY <2>2, <2>3
<1>7. CASE Ended
  BY <1>7 DEF Ended, ProcessEnds
<1>8. CASE Select \/ handleUserConnection \/ Hangs \/ Environment \/ Start
           \/ \E i \in DOMAIN requests : UserClosed(i) \/ fillUploadRequest(i)
  <2>1. sent' = {} /\ asked' = asked
    BY <1>8 DEF Select, handleUserConnection, Hangs, Start, UserClosed,
                fillUploadRequest, Environment, AnswerArrives, Arrives,
                UserConnects, UserSends, UserSendsRest, UserCloses, Outside
  <2> QED
    BY <1>0, <2>1 DEF TypeOK
<1> QED
  BY <1>2, <1>3, <1>5, <1>6, <1>7, <1>8, NextCases

(* The upload that is served stays the one that is served. *)
LEMMA StoringKept ==
    ASSUME TypeInv, Next
    PROVE  StoringInv'
<1>0. TypeOK /\ KernelInv
  BY DEF TypeInv
<1> SUFFICES ASSUME pc' = "storing"
             PROVE  (ReadyNodes # {})' /\ Stored(First(ReadyNodes))'
  BY DEF StoringInv
<1>1. ASSUME NEW i \in DOMAIN requests, fillUploadRequest(i)
      PROVE  (ReadyNodes # {})' /\ Stored(First(ReadyNodes))'
  <2> DEFINE m == inbox[requests[i].conn]
             r == Filled(requests[i], m)
  <2>1. /\ ReadyNodes # {} /\ i = First(ReadyNodes)
        /\ m.type = "REQ" /\ m.op.fop = "U"
        /\ requests' = [requests EXCEPT ![i] = r]
        /\ inbox' = inbox /\ ready' = ready
    BY <1>1 DEF fillUploadRequest, HasTurn, kernel
  <2>2. r \in Request /\ r.conn = requests[i].conn
    <3>1. m \in UserMsg /\ requests[i] \in Request /\ fsidgen \in Nat
      BY <1>0, <2>1, TurnFields, RequestTyped DEF TypeOK
    <3>2. r \in Request
      BY <2>1, <3>1, FilledTyped
    <3>3. r.conn = requests[i].conn
      BY <3>1 DEF Filled, Request
    <3> QED
      BY <3>2, <3>3
  <2> HIDE DEF r
  <2>3. /\ DOMAIN requests' = DOMAIN requests
        /\ \A j \in DOMAIN requests : requests'[j].conn = requests[j].conn
    BY <1>0, <2>1, <2>2, RequestChanged
  <2>4. ReadyNodes' = ReadyNodes
    BY <2>1, <2>3 DEF ReadyNodes
  <2>5. First(ReadyNodes)' = i
    BY <2>1, <2>4 DEF First
  <2> QED
    BY <2>1, <2>3, <2>4, <2>5 DEF Stored
<1>2. CASE Environment
  <2>1. UNCHANGED <<requests, ready>> /\ pc = "storing"
    BY <1>2 DEF Environment, AnswerArrives, Arrives, UserConnects, UserSends,
                UserSendsRest, UserCloses, Outside
  <2>2. /\ ReadyNodes # {}
        /\ First(ReadyNodes) \in DOMAIN requests
        /\ Stored(First(ReadyNodes))
    BY <2>1, StoredFields
  <2>3. ReadyNodes' = ReadyNodes /\ First(ReadyNodes)' = First(ReadyNodes)
    BY <2>1 DEF ReadyNodes, First
  <2> DEFINE i == First(ReadyNodes)
             c == requests[i].conn
  <2>4. c \in Conns
    BY <1>0, <2>2, RequestFields
  <2>5. inbox[c].type = "REQ" /\ inbox[c].op.fop = "U"
    BY <2>2 DEF Stored
  <2>6. inbox'[c].type = "REQ" /\ inbox'[c].op.fop = "U"
    <3> HIDE DEF c
    <3>1. inbox \in [Conns -> UserMsg \cup {Nothing}]
      BY <1>0 DEF TypeOK
    <3>2. ASSUME NEW d \in Conns, NEW m \in UserMsg, UserSends(d, m)
          PROVE  inbox'[c] = inbox[c]
      <4>1. d # c
        <5>1. inbox[d] = Nothing
          BY <1>0, <3>2 DEF UserSends, KernelInv
        <5> QED
          BY <2>5, <5>1 DEF Nothing
      <4> QED
        BY <2>4, <3>1, <3>2, <4>1 DEF UserSends
    <3>3. ASSUME NEW d \in Conns, UserSendsRest(d)
          PROVE  inbox'[c].type = "REQ" /\ inbox'[c].op.fop = "U"
      <4>1. inbox[c] \in UserMsg
        BY <2>4, <2>5, <3>1, MessageFields
      <4>2. inbox' = [inbox EXCEPT ![d] = [inbox[d] EXCEPT !.whole = TRUE]]
        BY <3>3 DEF UserSendsRest
      <4>3. CASE d = c
        <5> DEFINE m == [inbox[c] EXCEPT !.whole = TRUE]
        <5>1. m.type = inbox[c].type /\ m.op = inbox[c].op
          OBVIOUS
        <5>2. inbox'[c] = m
          BY <2>4, <3>1, <4>2, <4>3
        <5> HIDE DEF m
        <5> QED
          BY <2>5, <5>1, <5>2
      <4>4. CASE d # c
        BY <2>4, <2>5, <3>1, <4>2, <4>4
      <4> QED
        BY <4>3, <4>4
    <3>4. ASSUME NEW d \in Conns, UserConnects(d) \/ UserCloses(d)
          PROVE  inbox' = inbox
      BY <3>4 DEF UserConnects, UserCloses
    <3>5. ASSUME NEW m \in Answer, AnswerArrives(m)
          PROVE  inbox' = inbox
      BY <3>5 DEF AnswerArrives, Arrives
    <3> QED
      BY <1>2, <2>5, <3>2, <3>3, <3>4, <3>5 DEF Environment
  <2> QED
    BY <2>1, <2>2, <2>3, <2>6 DEF Stored
<1>3. ASSUME \/ Select \/ handleUserConnection \/ Execute \/ Refuse
             \/ \E i \in DOMAIN requests :
                   UserClosed(i) \/ fillRequest(i) \/ storeFileFromTCP(i)
             \/ \E e \in Elapsed : checkUserRequestTimeouts(e)
             \/ Hangs \/ Ended \/ Start
      PROVE  pc' # "storing"
  BY <1>3 DEF Select, handleUserConnection, Execute, Refuse, ReceiveAnswer,
              AnswerTaken, UserClosed, fillRequest, HasTurn, storeFileFromTCP,
              checkUserRequestTimeouts, EndOfIteration, Hangs, Ended,
              ProcessEnds, Start
<1> QED
  BY <1>1, <1>2, <1>3, NextCases

LEMMA InitTyped == Init => TypeInv
  BY EmptySeq DEF Init, TypeInv, TypeOK, KernelInv, StoringInv, NothingReady

LEMMA StepTyped == TypeInv /\ [Next]_vars => TypeInv'
<1>1. ASSUME TypeInv, Next PROVE TypeInv'
  <2>1. DiskTypeOK' /\ RequestsTypeOK' /\ ControlTypeOK'
    BY <1>1, DiskTyped, RequestsTyped, ControlTyped
  <2>2. QueuesTypeOK' /\ ConnectionsTypeOK' /\ StoringInv'
    BY <1>1, QueuesTyped, ConnectionsTyped, StoringKept
  <2>3. asked' \in SUBSET [uid : Uids, tid : Tids] /\ sent' \in SUBSET Reply
    BY <1>1, SentTyped
  <2>4. TypeOK'
    BY <2>1, <2>2, <2>3 DEF TypeOK, DiskTypeOK, RequestsTypeOK, ControlTypeOK,
                            QueuesTypeOK, ConnectionsTypeOK
  <2>5. KernelInv'
    BY <2>2 DEF KernelInv, QueuesTypeOK, ConnectionsTypeOK
  <2> QED
    BY <2>2, <2>4, <2>5 DEF TypeInv
<1>2. ASSUME TypeInv, UNCHANGED vars PROVE TypeInv'
  <2>1. TypeOK'
    BY <1>2 DEF vars, disk, kernel, TypeInv, TypeOK
  <2>2. KernelInv'
    BY <1>2 DEF vars, disk, kernel, TypeInv, KernelInv
  <2>3. StoringInv'
    BY <1>2 DEF vars, disk, kernel, TypeInv, StoringInv, ReadyNodes, Stored, First
  <2> QED
    BY <2>1, <2>2, <2>3 DEF TypeInv
<1> QED
  BY <1>1, <1>2

LEMMA TypesHold == Spec => []TypeInv
  BY InitTyped, StepTyped, PTL DEF Spec

(* The state of the file server stays within its types: in particular the  *)
(* time of a request never passes TIMEOUT, since a request that is over it *)
(* is answered before its time is counted on.                              *)
THEOREM TypeCorrect == Spec => []TypeOK
<1>1. TypeInv => TypeOK
  BY DEF TypeInv
<1> QED
  BY <1>1, TypesHold, PTL

-----------------------------------------------------------------------------
(* Descriptors. *)

(* Connections that wait to be accepted are of nobody else yet. *)
BacklogInv ==
    /\ \A j, k \in DOMAIN backlog : backlog[j] = backlog[k] => j = k
    /\ \A k \in DOMAIN backlog :
           peer[backlog[k]] \notin {"free", "left"} /\ backlog[k] \notin fds

DescriptorInv == TypeInv /\ ListedDescriptors /\ BacklogInv

(* The requests after a step are some of those before, each with its       *)
(* connection and as read or unread as it was; no connection of theirs was *)
(* touched.                                                                *)
LEMMA FewerRequests ==
    ASSUME TypeOK, ListedDescriptors, BacklogInv,
           NEW i \in DOMAIN requests, Removed(i),
           backlog' = backlog,
           NEW state \in {"free", "left"},
           peer' = [peer EXCEPT ![requests[i].conn] = state],
           fds' = fds \/ fds' = fds \ {requests[i].conn}
    PROVE  ListedDescriptors' /\ BacklogInv'
<1> DEFINE c == requests[i].conn
<1>0. c \in Conns /\ peer \in [Conns -> {"free", "open", "sent", "closed", "left"}]
  BY RequestFields DEF TypeOK
<1>1. \A j \in DOMAIN requests' :
         /\ j + i \in DOMAIN requests /\ j + i # i
         /\ requests'[j] = requests[j + i]
  BY OlderRequests DEF Removed
<1>2. \A j, k \in DOMAIN requests' : j + i = k + i => j = k
  BY OlderRequests DEF Removed
<1>3. \A j \in DOMAIN requests' :
         /\ requests'[j].conn # c /\ requests'[j].conn \in Conns
         /\ peer'[requests'[j].conn] = peer[requests'[j].conn]
         /\ requests'[j].conn \in fds' <=> requests'[j].conn \in fds
  <2> SUFFICES ASSUME NEW j \in DOMAIN requests'
               PROVE  /\ requests'[j].conn # c /\ requests'[j].conn \in Conns
                      /\ peer'[requests'[j].conn] = peer[requests'[j].conn]
                      /\ requests'[j].conn \in fds' <=> requests'[j].conn \in fds
    OBVIOUS
  <2>1. requests'[j].conn \in Conns /\ requests'[j].conn # c
    BY <1>1, RequestFields DEF ListedDescriptors
  <2> HIDE DEF c
  <2>2. peer' = [peer EXCEPT ![c] = state] /\ (fds' = fds \/ fds' = fds \ {c})
    BY DEF c
  <2> QED
    BY <1>0, <2>1, <2>2
<1>4. \A k \in DOMAIN backlog :
         backlog[k] # c /\ backlog[k] \in Conns /\ peer'[backlog[k]] = peer[backlog[k]]
  <2> SUFFICES ASSUME NEW k \in DOMAIN backlog
               PROVE  /\ backlog[k] # c /\ backlog[k] \in Conns
                      /\ peer'[backlog[k]] = peer[backlog[k]]
    OBVIOUS
  <2>1. backlog[k] # c
    BY DEF ListedDescriptors
  <2>2. backlog[k] \in Conns
    BY LenProperties, ElementOfSeq DEF TypeOK
  <2> HIDE DEF c
  <2>3. peer' = [peer EXCEPT ![c] = state]
    BY DEF c
  <2> QED
    BY <1>0, <2>1, <2>2, <2>3
<1>5. BacklogInv'
  BY <1>4 DEF BacklogInv
<1>6. ListedDescriptors'
  <2>1. ASSUME NEW j \in DOMAIN requests', NEW k \in DOMAIN requests',
               requests'[j].conn = requests'[k].conn
        PROVE  j = k
    BY <1>1, <1>2, <2>1 DEF ListedDescriptors
  <2>2. ASSUME NEW j \in DOMAIN requests'
        PROVE  /\ peer'[requests'[j].conn] \notin {"free", "left"}
               /\ \A k \in DOMAIN backlog' : backlog'[k] # requests'[j].conn
               /\ requests'[j].conn \in fds' <=> requests'[j].op = NoOp
    BY <1>1, <1>3 DEF ListedDescriptors
  <2> QED
    BY <2>1, <2>2 DEF ListedDescriptors
<1> QED
  BY <1>5, <1>6

(* A request that is read is watched no more, and the others as before.    *)
LEMMA ReadRequest ==
    ASSUME TypeOK, ListedDescriptors, BacklogInv,
           NEW i \in DOMAIN requests, NEW r \in Request,
           requests' = [requests EXCEPT ![i] = r],
           r.conn = requests[i].conn,
           \/ r.op # NoOp /\ fds' = fds \ {r.conn}
           \/ r.op = requests[i].op /\ fds' = fds,
           backlog' = backlog, peer' = peer
    PROVE  ListedDescriptors' /\ BacklogInv'
<1>1. /\ DOMAIN requests' = DOMAIN requests
      /\ \A j \in DOMAIN requests :
            requests'[j] = IF j = i THEN r ELSE requests[j]
  BY RequestChanged
<1>2. \A j \in DOMAIN requests : requests'[j].conn = requests[j].conn
  BY <1>1
<1>3. \A j \in DOMAIN requests :
         requests'[j].conn \in fds' <=> requests'[j].op = NoOp
  BY <1>1, <1>2 DEF ListedDescriptors
<1>4. ListedDescriptors'
  BY <1>1, <1>2, <1>3 DEF ListedDescriptors
<1> QED
  BY <1>4 DEF BacklogInv

(* A new request takes the first connection that waits. *)
LEMMA AcceptDescriptors ==
    ASSUME TypeInv, ListedDescriptors, BacklogInv, handleUserConnection
    PROVE  ListedDescriptors' /\ BacklogInv'
<1>0. TypeOK
  BY DEF TypeInv
<1>1. /\ backlog # <<>> /\ backlog \in Seq(Conns)
      /\ backlog' = Tail(backlog) /\ fds' = fds \cup {Head(backlog)}
      /\ peer' = peer
  BY <1>0 DEF handleUserConnection, TypeInv, KernelInv, TypeOK
<1> DEFINE c == Head(backlog)
<1>2. /\ c \in Conns /\ 1 \in DOMAIN backlog /\ c = backlog[1]
      /\ \A k \in DOMAIN backlog' :
            /\ k + 1 \in DOMAIN backlog /\ k + 1 # 1
            /\ backlog'[k] = backlog[k + 1]
      /\ \A j, k \in DOMAIN backlog' : j + 1 = k + 1 => j = k
  BY <1>1, HeadAndTail
<1>3. PICK m \in stale \cup {Blank} :
          requests' = <<NewRequest(c, m)>> \o requests
  BY DEF handleUserConnection
<1> DEFINE r == NewRequest(c, m)
<1>4. r \in Request /\ r.conn = c /\ r.op = NoOp
  <2>1. m \in Memory
    BY <1>0 DEF TypeOK, Memory, Blank
  <2> QED
    BY <1>2, <2>1, NewTyped DEF NewRequest
<1> HIDE DEF r, c
<1>5. /\ \A j \in DOMAIN requests' :
            \/ j = 1 /\ requests'[j] = r
            \/ /\ j # 1 /\ j - 1 \in DOMAIN requests
               /\ requests'[j] = requests[j - 1]
      /\ \A j, k \in DOMAIN requests' : j - 1 = k - 1 => j = k
  BY <1>0, <1>3, <1>4, RequestAdded DEF r
<1>6. \A k \in DOMAIN backlog' : backlog'[k] # c
  BY <1>2 DEF BacklogInv
<1>7. \A j \in DOMAIN requests : requests[j].conn # c
  BY <1>2 DEF ListedDescriptors
<1>8. peer[c] \notin {"free", "left"}
  BY <1>2 DEF BacklogInv
<1>9. fds' = fds \cup {c}
  BY <1>1 DEF c
<1>10. BacklogInv'
  <2>1. ASSUME NEW j \in DOMAIN backlog', NEW k \in DOMAIN backlog',
               backlog'[j] = backlog'[k]
        PROVE  j = k
    BY <1>2, <2>1 DEF BacklogInv
  <2>2. ASSUME NEW k \in DOMAIN backlog'
        PROVE  peer'[backlog'[k]] \notin {"free", "left"} /\ backlog'[k] \notin fds'
    BY <1>1, <1>2, <1>6, <1>9 DEF BacklogInv
  <2> QED
    BY <2>1, <2>2 DEF BacklogInv
<1>11. ListedDescriptors'
  <2>1. ASSUME NEW j \in DOMAIN requests', NEW k \in DOMAIN requests',
               requests'[j].conn = requests'[k].conn
        PROVE  j = k
    BY <1>4, <1>5, <1>7, <2>1 DEF ListedDescriptors
  <2>2. ASSUME NEW j \in DOMAIN requests'
        PROVE  /\ peer'[requests'[j].conn] \notin {"free", "left"}
               /\ \A k \in DOMAIN backlog' : backlog'[k] # requests'[j].conn
               /\ requests'[j].conn \in fds' <=> requests'[j].op = NoOp
    <3>1. CASE requests'[j] = r
      BY <1>1, <1>4, <1>6, <1>8, <1>9, <3>1
    <3>2. CASE j - 1 \in DOMAIN requests /\ requests'[j] = requests[j - 1]
      <4>1. requests'[j].conn # c
        BY <1>7, <3>2
      <4>2. \A k \in DOMAIN backlog' : backlog'[k] # requests'[j].conn
        BY <1>2, <3>2 DEF ListedDescriptors
      <4> QED
        BY <1>1, <1>9, <3>2, <4>1, <4>2 DEF ListedDescriptors
    <3> QED
      BY <1>5, <3>1, <3>2
  <2> QED
    BY <2>1, <2>2 DEF ListedDescriptors
<1> QED
  BY <1>10, <1>11

(* A user who connects takes a descriptor that nobody has. *)
LEMMA ConnectDescriptors ==
    ASSUME TypeOK, ListedDescriptors, BacklogInv, NEW c \in Conns, UserConnects(c)
    PROVE  ListedDescriptors' /\ BacklogInv'
<1>1. /\ peer[c] = "free" /\ c \notin fds
      /\ peer' = [peer EXCEPT ![c] = "open"] /\ backlog' = Append(backlog, c)
      /\ requests' = requests /\ fds' = fds
  BY DEF UserConnects, Outside
<1>2. peer \in [Conns -> {"free", "open", "sent", "closed", "left"}]
  BY DEF TypeOK
<1>3. \A k \in DOMAIN backlog : backlog[k] # c
  BY <1>1 DEF BacklogInv
<1>4. \A j \in DOMAIN requests : requests[j].conn # c
  BY <1>1 DEF ListedDescriptors
<1>5. /\ \A k \in DOMAIN backlog' :
            \/ k \in DOMAIN backlog /\ backlog'[k] = backlog[k]
            \/ k = Len(backlog) + 1 /\ backlog'[k] = c
  BY <1>1, Appended DEF TypeOK
<1>6. \A d \in Conns : d # c => peer'[d] = peer[d]
  BY <1>1, <1>2
<1>7. \A k \in DOMAIN backlog : backlog[k] \in Conns
  BY LenProperties, ElementOfSeq DEF TypeOK
<1>8. peer'[c] = "open"
  BY <1>1, <1>2
<1>9. BacklogInv'
  BY <1>1, <1>3, <1>5, <1>6, <1>7, <1>8 DEF BacklogInv
<1>10. \A j \in DOMAIN requests : requests[j].conn \in Conns
  BY RequestFields
<1>11. ListedDescriptors'
  BY <1>1, <1>4, <1>5, <1>6, <1>10 DEF ListedDescriptors
<1> QED
  BY <1>9, <1>11

(* Nothing but the user's end of a connection in use changes. *)
LEMMA UserMovesDescriptors ==
    ASSUME TypeOK, ListedDescriptors, BacklogInv, NEW c \in Conns,
           \/ \E m \in UserMsg : UserSends(c, m)
           \/ UserSendsRest(c) \/ UserCloses(c)
    PROVE  ListedDescriptors' /\ BacklogInv'
<1>1. /\ UNCHANGED <<requests, fds, backlog>>
      /\ \/ peer' = peer
         \/ /\ peer[c] \in {"open", "sent"}
            /\ peer' = [peer EXCEPT ![c] = "sent"] \/ peer' = [peer EXCEPT ![c] = "closed"]
  BY DEF UserSends, UserSendsRest, UserCloses, Outside
<1>2. peer \in [Conns -> {"free", "open", "sent", "closed", "left"}]
  BY DEF TypeOK
<1>3. \A d \in Conns :
         peer[d] \notin {"free", "left"} => peer'[d] \notin {"free", "left"}
  BY <1>1, <1>2
<1>4. \A j \in DOMAIN requests : requests[j].conn \in Conns
  BY RequestFields
<1>5. \A k \in DOMAIN backlog : backlog[k] \in Conns
  BY LenProperties, ElementOfSeq DEF TypeOK
<1> QED
  BY <1>1, <1>3, <1>4, <1>5 DEF ListedDescriptors, BacklogInv

(* With time, nothing but the ages changes. *)
LEMMA AgedDescriptors ==
    ASSUME TypeOK, ListedDescriptors, BacklogInv, NEW e \in Nat, Overdue(e) = {},
           requests' = [i \in DOMAIN requests |-> Aged(requests[i], e)],
           UNCHANGED <<fds, backlog, peer>>
    PROVE  ListedDescriptors' /\ BacklogInv'
<1>1. \A j \in DOMAIN requests :
         /\ requests'[j].conn = requests[j].conn
         /\ requests'[j].op = requests[j].op
  <2> SUFFICES ASSUME NEW j \in DOMAIN requests
               PROVE  /\ requests'[j].conn = requests[j].conn
                      /\ requests'[j].op = requests[j].op
    OBVIOUS
  <2> DEFINE r == requests[j]
  <2>1. requests'[j] = Aged(r, e) /\ r \in Request
    BY RequestTyped
  <2> HIDE DEF r
  <2>2. Aged(r, e).conn = r.conn /\ Aged(r, e).op = r.op
    BY <2>1 DEF Aged, Request
  <2> QED
    BY <2>1, <2>2 DEF r
<1>2. DOMAIN requests' = DOMAIN requests
  OBVIOUS
<1> QED
  BY <1>1, <1>2 DEF ListedDescriptors, BacklogInv

LEMMA StepDescriptors == DescriptorInv /\ [Next]_vars => DescriptorInv'
<1> SUFFICES ASSUME DescriptorInv, [Next]_vars
             PROVE  ListedDescriptors' /\ BacklogInv'
  BY StepTyped DEF DescriptorInv
<1>0. TypeOK /\ TypeInv /\ KernelInv /\ ListedDescriptors /\ BacklogInv
  BY DEF DescriptorInv, TypeInv
<1>1. CASE handleUserConnection
  BY <1>0, <1>1, AcceptDescriptors
<1>2. CASE Execute
  <2>1. /\ First(Matching) \in DOMAIN requests /\ Removed(First(Matching))
        /\ peer' = [peer EXCEPT ![requests[First(Matching)].conn] = "left"]
        /\ UNCHANGED <<fds, backlog>>
    BY <1>0, <1>2, AnswerFits DEF Execute, AnswerTaken
  <2> QED
    BY <1>0, <2>1, FewerRequests
<1>3. CASE Refuse
  <2>1. /\ First(Matching) \in DOMAIN requests
        /\ RemovedAndClosed(First(Matching))
        /\ UNCHANGED <<fds, backlog>>
    BY <1>0, <1>3, AnswerFits DEF Refuse, AnswerTaken
  <2> QED
    BY <1>0, <2>1, FewerRequests DEF RemovedAndClosed
<1>4. ASSUME NEW i \in DOMAIN requests, UserClosed(i)
      PROVE  ListedDescriptors' /\ BacklogInv'
  BY <1>0, <1>4, FewerRequests DEF UserClosed, Unwatched, RemovedAndClosed
<1>5. ASSUME NEW i \in DOMAIN requests, fillRequest(i) \/ fillUploadRequest(i)
      PROVE  ListedDescriptors' /\ BacklogInv'
  <2> DEFINE m == inbox[requests[i].conn]
             r == Filled(requests[i], m)
             s == [r EXCEPT !.age = 0]
  <2>1. m \in UserMsg /\ m.type = "REQ" /\ m.op # NoOp
    BY <1>0, <1>5, TurnFields DEF fillRequest, fillUploadRequest
  <2>2. requests[i] \in Request /\ fsidgen \in Nat
    BY <1>0, RequestTyped DEF TypeOK
  <2>3. r \in Request /\ s \in Request
    BY <2>1, <2>2, FilledTyped
  <2>4. r.conn = requests[i].conn /\ r.op # NoOp
    BY <2>1, <2>2 DEF Filled, Request
  <2>5. /\ UNCHANGED <<backlog, peer>> /\ fds' = fds \ {requests[i].conn}
        /\ requests' = [requests EXCEPT ![i] = r] \/ requests' = [requests EXCEPT ![i] = s]
    BY <1>5 DEF fillRequest, fillUploadRequest, Unwatched, kernel
  <2> HIDE DEF r
  <2>6. s.conn = r.conn /\ s.op = r.op
    BY <2>3 DEF Request
  <2> HIDE DEF s
  <2> QED
    BY <1>0, <2>3, <2>4, <2>5, <2>6, ReadRequest
<1>6. ASSUME NEW i \in DOMAIN requests, storeFileFromTCP(i)
      PROVE  ListedDescriptors' /\ BacklogInv'
  <2> DEFINE r == [requests[i] EXCEPT !.age = 0]
  <2>1. 0 \in -1 .. TIMEOUT
    BY ParametersAssumption DEF ParametersAssumption
  <2>2. r \in Request /\ r.conn = requests[i].conn /\ r.op = requests[i].op
    BY <1>0, <2>1, RequestTyped DEF Request
  <2>3. requests' = [requests EXCEPT ![i] = r] /\ UNCHANGED <<fds, backlog, peer>>
    BY <1>6 DEF storeFileFromTCP
  <2> HIDE DEF r
  <2> QED
    BY <1>0, <2>2, <2>3, ReadRequest
<1>7. ASSUME NEW e \in Elapsed, checkUserRequestTimeouts(e)
      PROVE  ListedDescriptors' /\ BacklogInv'
  <2>1. CASE Overdue(e) = {}
    <3>1. /\ requests' = [i \in DOMAIN requests |-> Aged(requests[i], e)]
          /\ UNCHANGED <<fds, backlog, peer>>
      BY <1>7, <2>1 DEF checkUserRequestTimeouts, EndOfIteration
    <3> QED
      BY <1>0, <2>1, <3>1, ElapsedNatural, AgedDescriptors
  <2>2. CASE Overdue(e) # {}
    <3>1. First(Overdue(e)) \in DOMAIN requests
      BY <1>0, <2>2, FirstListed DEF Overdue
    <3>2. RemovedAndClosed(First(Overdue(e))) /\ UNCHANGED <<fds, backlog>>
      BY <1>7, <2>2 DEF checkUserRequestTimeouts, EndOfIteration
    <3> QED
      BY <1>0, <3>1, <3>2, FewerRequests DEF RemovedAndClosed
  <2> QED
    BY <2>1, <2>2
<1>8. CASE Ended
  BY <1>8 DEF Ended, ProcessEnds, ListedDescriptors, BacklogInv
<1>9. CASE Environment
  <2>1. ASSUME NEW m \in Answer, AnswerArrives(m)
        PROVE  UNCHANGED <<requests, fds, backlog, peer>>
    BY <2>1 DEF AnswerArrives, Arrives, Outside
  <2>2. CASE \E m \in Answer : AnswerArrives(m)
    BY <1>0, <2>1, <2>2 DEF ListedDescriptors, BacklogInv
  <2> QED
    BY <1>0, <1>9, <2>2, ConnectDescriptors, UserMovesDescriptors DEF Environment
<1>10. CASE Select \/ Hangs \/ Start \/ UNCHANGED vars
  <2>1. UNCHANGED <<requests, fds, backlog, peer>>
    BY <1>10 DEF Select, Hangs, Start, vars, kernel
  <2> QED
    BY <1>0, <2>1 DEF ListedDescriptors, BacklogInv
<1> QED
  BY <1>0, <1>1, <1>2, <1>3, <1>4, <1>5, <1>6, <1>7, <1>8, <1>9, <1>10, NextCases

(* Every listed request has an open connection of its own, watched exactly *)
(* until the request is read: ListedDescriptors of FS.                     *)
THEOREM DescriptorsAreSound == Spec => []ListedDescriptors
<1>1. Init => DescriptorInv
  BY InitTyped DEF DescriptorInv, Init, ListedDescriptors, BacklogInv
<1>2. DescriptorInv => ListedDescriptors
  BY DEF DescriptorInv
<1> QED
  BY <1>1, <1>2, StepDescriptors, PTL DEF Spec

-----------------------------------------------------------------------------
(* Uploads. *)

(* The numbers of the requests that were read are past: the next upload    *)
(* has a number of its own, and writes over no temporary file but one that *)
(* an earlier process left.                                                *)
NumbersPast ==
    \A i \in DOMAIN requests :
        requests[i].op # NoOp => requests[i].fsid < fsidgen

UploadInv == TypeInv /\ NumbersPast /\ UploadsKeptApart

(* Of two requests, all that matters for uploads is the same.              *)
SameUpload(r, s) ==
    r.uid = s.uid /\ r.op = s.op /\ r.fsid = s.fsid /\ r.data = s.data

(* A step that reads no request brings no upload. *)
LEMMA NoNewUpload ==
    ASSUME TypeOK, NumbersPast, UploadsKeptApart,
           fsidgen' = fsidgen, temps' \subseteq temps,
           \A j \in DOMAIN requests' :
               \/ requests'[j].op = NoOp
               \/ \E k \in DOMAIN requests : SameUpload(requests'[j], requests[k])
    PROVE  NumbersPast' /\ UploadsKeptApart'
<1>1. NumbersPast'
  BY DEF NumbersPast, SameUpload
<1>2. ASSUME NEW j \in DOMAIN requests', IsUpload(requests'[j]),
             NEW t \in TempOf(requests[j])'
      PROVE  t.data = requests'[j].data
  <2>1. PICK k \in DOMAIN requests : SameUpload(requests'[j], requests[k])
    BY <1>2 DEF IsUpload
  <2>2. t \in TempOf(requests[k]) /\ IsUpload(requests[k])
    BY <1>2, <2>1 DEF TempOf, SameUpload, IsUpload
  <2> QED
    BY <2>1, <2>2 DEF UploadsKeptApart, SameUpload
<1>3. UploadsKeptApart'
  BY <1>2 DEF UploadsKeptApart, IsUpload
<1> QED
  BY <1>1, <1>3

LEMMA RemovedUploads ==
    ASSUME TypeOK, NumbersPast, UploadsKeptApart,
           NEW i \in DOMAIN requests, Removed(i),
           fsidgen' = fsidgen, temps' \subseteq temps
    PROVE  NumbersPast' /\ UploadsKeptApart'
<1>1. \A j \in DOMAIN requests' :
         j + i \in DOMAIN requests /\ requests'[j] = requests[j + i]
  BY OlderRequests DEF Removed
<1> QED
  BY <1>1, NoNewUpload DEF SameUpload

(* An upload that is read has the number that no request has.              *)
LEMMA ReadUpload ==
    ASSUME TypeOK, NumbersPast, UploadsKeptApart,
           NEW i \in DOMAIN requests, NEW r \in Request,
           requests' = [requests EXCEPT ![i] = r],
           r.op # NoOp, r.fsid = fsidgen, fsidgen' = fsidgen + 1,
           \/ ~IsUpload(r) /\ temps' = temps
           \/ temps' = {t \in temps : ~(t.uid = r.uid /\ t.id = fsidgen)}
                          \cup {[uid |-> r.uid, id |-> fsidgen, data |-> r.data]}
    PROVE  NumbersPast' /\ UploadsKeptApart'
<1> DEFINE new == [uid |-> r.uid, id |-> fsidgen, data |-> r.data]
<1>1. /\ DOMAIN requests' = DOMAIN requests
      /\ \A j \in DOMAIN requests :
            requests'[j] = IF j = i THEN r ELSE requests[j]
  BY RequestChanged
<1>2. fsidgen \in Nat /\ \A j \in DOMAIN requests : requests[j].fsid \in Nat
  BY RequestFields DEF TypeOK
<1>3. NumbersPast'
  <2>1. ASSUME NEW j \in DOMAIN requests, requests'[j].op # NoOp
        PROVE  requests'[j].fsid < fsidgen'
    <3>1. CASE j = i
      BY <1>1, <1>2, <3>1
    <3>2. CASE j # i
      <4>1. requests[j].fsid < fsidgen
        BY <1>1, <2>1, <3>2 DEF NumbersPast
      <4> QED
        BY <1>1, <1>2, <3>2, <4>1
    <3> QED
      BY <3>1, <3>2
  <2> QED
    BY <1>1, <2>1 DEF NumbersPast
<1>4. new.uid = r.uid /\ new.id = fsidgen /\ new.data = r.data
  OBVIOUS
<1> HIDE DEF new
<1>5. ASSUME NEW j \in DOMAIN requests, IsUpload(requests'[j]),
             NEW t \in TempOf(requests[j])'
      PROVE  t.data = requests'[j].data
  <2>1. CASE j = i
    <3>1. requests'[j] = r
      BY <1>1, <2>1
    <3>2. temps' = {u \in temps : ~(u.uid = r.uid /\ u.id = fsidgen)} \cup {new}
      BY <1>5, <3>1 DEF new
    <3>3. t \in temps' /\ t.uid = r.uid /\ t.id = fsidgen
      BY <3>1 DEF TempOf
    <3>4. t = new
      BY <3>2, <3>3
    <3> QED
      BY <1>4, <3>1, <3>4
  <2>2. CASE j # i
    <3>1. requests'[j] = requests[j] /\ requests[j].fsid < fsidgen
      BY <1>1, <1>5, <2>2 DEF NumbersPast, IsUpload
    <3>2. t \in temps' /\ t.uid = requests[j].uid /\ t.id = requests[j].fsid
      BY <3>1 DEF TempOf
    <3>3. t.id # fsidgen
      BY <1>2, <3>1, <3>2
    <3>4. temps' \subseteq temps \cup {new}
      BY DEF new
    <3>5. t \in TempOf(requests[j])
      BY <1>4, <3>2, <3>3, <3>4 DEF TempOf
    <3> QED
      BY <1>5, <3>1, <3>5 DEF UploadsKeptApart
  <2> QED
    BY <2>1, <2>2
<1>6. UploadsKeptApart'
  BY <1>1, <1>5 DEF UploadsKeptApart, IsUpload
<1> QED
  BY <1>3, <1>6

LEMMA ExecutedTemps ==
    ASSUME NEW r, exeRequest(r)
    PROVE  temps' \subseteq temps
  BY DEF exeRequest, listRequest, retreiveRequest, uploadRequest, deleteRequest,
         removeRequest, disk

LEMMA StepUploads == UploadInv /\ [Next]_vars => UploadInv'
<1> SUFFICES ASSUME UploadInv, [Next]_vars
             PROVE  NumbersPast' /\ UploadsKeptApart'
  BY StepTyped DEF UploadInv
<1>0. /\ TypeInv /\ TypeOK /\ KernelInv /\ StoringInv
      /\ NumbersPast /\ UploadsKeptApart
  BY DEF UploadInv, TypeInv
<1>1. CASE handleUserConnection
  <2>1. PICK m \in stale \cup {Blank} :
            requests' = <<NewRequest(Head(backlog), m)>> \o requests
    BY <1>1 DEF handleUserConnection
  <2> DEFINE r == NewRequest(Head(backlog), m)
  <2>2. r \in Request /\ r.op = NoOp
    <3>1. m \in Memory
      BY <1>0 DEF TypeOK, Memory, Blank
    <3>2. Head(backlog) \in Conns
      BY <1>0, <1>1, HeadAndTail DEF handleUserConnection, KernelInv, TypeOK
    <3> QED
      BY <3>1, <3>2, NewTyped DEF NewRequest
  <2> HIDE DEF r
  <2>3. \A j \in DOMAIN requests' :
           \/ requests'[j].op = NoOp
           \/ j - 1 \in DOMAIN requests /\ requests'[j] = requests[j - 1]
    BY <1>0, <2>1, <2>2, RequestAdded DEF r
  <2>4. fsidgen' = fsidgen /\ temps' = temps
    BY <1>1 DEF handleUserConnection, disk
  <2> QED
    BY <1>0, <2>3, <2>4, NoNewUpload DEF SameUpload
<1>2. CASE Execute
  <2>1. /\ First(Matching) \in DOMAIN requests /\ Removed(First(Matching))
        /\ exeRequest(requests[First(Matching)]) /\ fsidgen' = fsidgen
    BY <1>0, <1>2, AnswerFits DEF Execute, AnswerTaken
  <2>2. temps' \subseteq temps
    BY <2>1, ExecutedTemps
  <2> QED
    BY <1>0, <2>1, <2>2, RemovedUploads
<1>3. CASE Refuse
  <2>1. /\ First(Matching) \in DOMAIN requests /\ Removed(First(Matching))
        /\ temps' \subseteq temps /\ fsidgen' = fsidgen
    BY <1>0, <1>3, AnswerFits DEF Refuse, AnswerTaken, RemovedAndClosed
  <2> QED
    BY <1>0, <2>1, RemovedUploads
<1>4. ASSUME NEW i \in DOMAIN requests, UserClosed(i)
      PROVE  NumbersPast' /\ UploadsKeptApart'
  BY <1>0, <1>4, RemovedUploads DEF UserClosed, RemovedAndClosed, disk
<1>5. ASSUME NEW i \in DOMAIN requests, fillRequest(i) \/ fillUploadRequest(i)
      PROVE  NumbersPast' /\ UploadsKeptApart'
  <2> DEFINE m == inbox[requests[i].conn]
             r == Filled(requests[i], m)
             s == [r EXCEPT !.age = 0]
  <2>1. m \in UserMsg /\ m.type = "REQ" /\ m.op # NoOp
    BY <1>0, <1>5, TurnFields DEF fillRequest, fillUploadRequest
  <2>2. requests[i] \in Request /\ fsidgen \in Nat
    BY <1>0, RequestTyped DEF TypeOK
  <2>3. r \in Request /\ s \in Request
    BY <2>1, <2>2, FilledTyped
  <2>4. r.uid = m.uid /\ r.op = m.op /\ r.fsid = fsidgen /\ r.data = m.data
    BY <2>1, <2>2 DEF Filled, Request
  <2>5. \/ /\ requests' = [requests EXCEPT ![i] = s]
           /\ m.op.fop # "U" /\ temps' = temps
        \/ /\ requests' = [requests EXCEPT ![i] = r]
           /\ temps' = {t \in temps : ~(t.uid = m.uid /\ t.id = fsidgen)}
                       \cup {[uid |-> m.uid, id |-> fsidgen, data |-> m.data]}
    BY <1>5 DEF fillRequest, fillUploadRequest, disk
  <2>6. fsidgen' = fsidgen + 1
    BY <1>5 DEF fillRequest, fillUploadRequest, NextFsid
  <2> HIDE DEF r
  <2>7. s.op = r.op /\ s.fsid = r.fsid
    BY <2>3 DEF Request
  <2> HIDE DEF m, s
  <2>8. CASE requests' = [requests EXCEPT ![i] = s] /\ m.op.fop # "U" /\ temps' = temps
    <3>1. ~IsUpload(s)
      BY <2>4, <2>7, <2>8 DEF IsUpload
    <3> QED
      BY <1>0, <2>1, <2>3, <2>4, <2>6, <2>7, <2>8, <3>1, ReadUpload
  <2>9. CASE /\ requests' = [requests EXCEPT ![i] = r]
             /\ temps' = {t \in temps : ~(t.uid = m.uid /\ t.id = fsidgen)}
                         \cup {[uid |-> m.uid, id |-> fsidgen, data |-> m.data]}
    BY <1>0, <2>1, <2>3, <2>4, <2>6, <2>9, ReadUpload
  <2> QED
    BY <2>5, <2>8, <2>9
<1>6. ASSUME NEW i \in DOMAIN requests, storeFileFromTCP(i)
      PROVE  NumbersPast' /\ UploadsKeptApart'
  <2> DEFINE r == [requests[i] EXCEPT !.age = 0]
  <2>1. 0 \in -1 .. TIMEOUT
    BY ParametersAssumption DEF ParametersAssumption
  <2>2. r \in Request /\ SameUpload(r, requests[i])
    BY <1>0, <2>1, RequestTyped DEF Request, SameUpload
  <2>3. /\ requests' = [requests EXCEPT ![i] = r]
        /\ fsidgen' = fsidgen /\ temps' = temps
    BY <1>6 DEF storeFileFromTCP, disk
  <2> HIDE DEF r
  <2>4. \A j \in DOMAIN requests' :
           j \in DOMAIN requests /\ SameUpload(requests'[j], requests[j])
    BY <1>0, <2>2, <2>3, RequestChanged DEF SameUpload
  <2> QED
    BY <1>0, <2>3, <2>4, NoNewUpload
<1>7. ASSUME NEW e \in Elapsed, checkUserRequestTimeouts(e)
      PROVE  NumbersPast' /\ UploadsKeptApart'
  <2>1. fsidgen' = fsidgen /\ temps' = temps
    BY <1>7 DEF checkUserRequestTimeouts, EndOfIteration, disk
  <2>2. CASE Overdue(e) = {}
    <3>1. \A j \in DOMAIN requests' :
             j \in DOMAIN requests /\ SameUpload(requests'[j], requests[j])
      <4>1. requests' = [j \in DOMAIN requests |-> Aged(requests[j], e)]
        BY <1>7, <2>2 DEF checkUserRequestTimeouts
      <4>2. ASSUME NEW r \in Request PROVE SameUpload(Aged(r, e), r)
        BY DEF Aged, SameUpload, Request
      <4> QED
        BY <1>0, <4>1, <4>2, RequestTyped
    <3> QED
      BY <1>0, <2>1, <3>1, NoNewUpload
  <2>3. CASE Overdue(e) # {}
    <3>1. First(Overdue(e)) \in DOMAIN requests
      BY <1>0, <2>3, FirstListed DEF Overdue
    <3> QED
      BY <1>0, <1>7, <2>1, <2>3, <3>1, RemovedUploads
      DEF checkUserRequestTimeouts, RemovedAndClosed
  <2> QED
    BY <2>2, <2>3
<1>8. CASE Ended
  BY <1>8 DEF Ended, ProcessEnds, NumbersPast, UploadsKeptApart
<1>9. CASE Select \/ Hangs \/ Environment \/ Start \/ UNCHANGED vars
  <2>1. UNCHANGED <<requests, fsidgen, temps>>
    BY <1>9 DEF Select, Hangs, Start, vars, disk, Environment, AnswerArrives,
                Arrives, UserConnects, UserSends, UserSendsRest, UserCloses,
                Outside
  <2> QED
    BY <1>0, <2>1, NoNewUpload DEF SameUpload
<1> QED
  BY <1>0, <1>1, <1>2, <1>3, <1>4, <1>5, <1>6, <1>7, <1>8, <1>9, NextCases

LEMMA UploadsHold == Spec => []UploadInv
<1>1. Init => UploadInv
  BY InitTyped DEF UploadInv, Init, NumbersPast, UploadsKeptApart
<1> QED
  BY <1>1, StepUploads, PTL DEF Spec

(* The temporary file of an upload that waits holds what that upload       *)
(* brought: UploadsKeptApart of FS.                                        *)
THEOREM UploadsDoNotMix == Spec => []UploadsKeptApart
<1>1. UploadInv => UploadsKeptApart
  BY DEF UploadInv
<1> QED
  BY <1>1, UploadsHold, PTL

-----------------------------------------------------------------------------
(* What comes to lie in a directory. *)

(* A step puts the temporary file of the confirmed upload r in its place,  *)
(* which was free.                                                         *)
Puts(r) ==
    /\ r.op.fop = "U" /\ ~IsDuplicate(r)
    /\ \E t \in TempOf(r) : Store(r.uid, r.op.name, t.data)
    /\ temps' = temps \ TempOf(r)

(* Nothing appears in any directory. *)
PutsNothing ==
    \A u \in Uids, n \in Names : stored'[u][n] \in {stored[u][n], NoData}

LEMMA ExecutedPuts ==
    ASSUME TypeOK, NEW i \in DOMAIN requests,
           requests[i].uid \in Uids, requests[i].op \in Ops,
           exeRequest(requests[i])
    PROVE  \/ PutsNothing
           \/ Puts(requests[i]) /\ ~IsFull(requests[i].uid)
<1> DEFINE r == requests[i]
<1>1. r.op.fop \in {"R", "U", "D"} => r.op.name \in Names
  BY ConfirmedFields
<1> HIDE DEF r
<1>2. r.uid \in Uids /\ exeRequest(r)
  BY DEF r
<1>3. stored \in [Uids -> [Names -> Data \cup {NoData}]]
  BY DEF TypeOK
<1>4. CASE UNCHANGED stored
  BY <1>4 DEF PutsNothing
<1>5. CASE deleteRequest(r)
  <2>1. r.op.name \in Names /\ Store(r.uid, r.op.name, NoData)
    BY <1>1, <1>5 DEF deleteRequest
  <2> QED
    BY <1>2, <1>3, <2>1 DEF Store, PutsNothing
<1>6. CASE removeRequest(r)
  BY <1>2, <1>3, <1>6 DEF removeRequest, PutsNothing
<1>7. CASE uploadRequest(r)
  <2>1. UNCHANGED stored \/ (Puts(r) /\ ~IsFull(r.uid))
    BY <1>7 DEF uploadRequest, Puts
  <2> QED
    BY <1>4, <2>1 DEF r
<1>8. CASE listRequest(r) \/ retreiveRequest(r)
  BY <1>4, <1>8 DEF listRequest, retreiveRequest, disk
<1> QED
  BY <1>2, <1>5, <1>6, <1>7, <1>8 DEF exeRequest

LEMMA CutPuts ==
    ASSUME TypeOK, NEW r, r.uid \in Uids, CutShort(r)
    PROVE  PutsNothing \/ Puts(r)
<1>1. ASSUME NEW N \in SUBSET StoredNames(r.uid),
             stored' = [stored EXCEPT ![r.uid] =
                           [n \in Names |-> IF n \in N THEN NoData ELSE @[n]]]
      PROVE  PutsNothing
  BY <1>1 DEF TypeOK, PutsNothing
<1> QED
  BY <1>1 DEF CutShort, Puts

(* Files come only by a confirmed upload, which is whole or cut short.     *)
LEMMA StepPuts ==
    ASSUME TypeInv, [Next]_vars
    PROVE  \/ PutsNothing
           \/ \E i \in DOMAIN requests :
                 /\ requests[i].uid \in Uids /\ requests[i].op \in Ops
                 /\ Puts(requests[i])
                 /\ pc' = "down" \/ ~IsFull(requests[i].uid)
<1>0. TypeOK /\ KernelInv
  BY DEF TypeInv
<1>1. CASE Execute
  <2> DEFINE i == First(Matching)
  <2>1. /\ i \in DOMAIN requests /\ exeRequest(requests[i])
        /\ requests[i].uid \in Uids /\ requests[i].op \in Ops
    BY <1>0, <1>1, AnswerFits DEF Execute
  <2>2. PutsNothing \/ (Puts(requests[i]) /\ ~IsFull(requests[i].uid))
    BY <1>0, <2>1, ExecutedPuts
  <2> QED
    BY <2>1, <2>2
<1>2. CASE StopInOperation
  <2> DEFINE i == First(Matching)
  <2>1. /\ i \in DOMAIN requests /\ CutShort(requests[i]) /\ pc' = "down"
        /\ requests[i].uid \in Uids /\ requests[i].op \in Ops
    BY <1>0, <1>2, AnswerFits DEF StopInOperation, ProcessEnds
  <2>2. PutsNothing \/ Puts(requests[i])
    BY <1>0, <2>1, CutPuts
  <2> QED
    BY <2>1, <2>2
<1>3. CASE UNCHANGED stored
  BY <1>3 DEF PutsNothing
<1>4. ASSUME \/ Select \/ handleUserConnection \/ Refuse
             \/ \E i \in DOMAIN requests :
                   \/ UserClosed(i) \/ fillRequest(i) \/ fillUploadRequest(i)
                   \/ storeFileFromTCP(i)
             \/ \E e \in Elapsed : checkUserRequestTimeouts(e)
             \/ Hangs \/ Environment \/ Start \/ UNCHANGED disk
             \/ UNCHANGED vars
      PROVE  UNCHANGED stored
  BY <1>4 DEF Select, handleUserConnection, Refuse, UserClosed, fillRequest,
              fillUploadRequest, storeFileFromTCP, checkUserRequestTimeouts,
              EndOfIteration, Hangs, Start, vars, disk, Environment,
              AnswerArrives, Arrives, UserConnects, UserSends, UserSendsRest,
              UserCloses, Outside
<1> QED
  BY <1>1, <1>2, <1>3, <1>4, NextCases

(* The directories after an upload. *)
LEMMA PutAt ==
    ASSUME TypeOK, NEW i \in DOMAIN requests,
           requests[i].uid \in Uids, requests[i].op \in Ops, Puts(requests[i])
    PROVE  LET r == requests[i]
           IN  /\ r.op = [fop |-> "U", name |-> r.op.name] /\ r.op.name \in Names
               /\ stored[r.uid][r.op.name] = NoData
               /\ \A u \in Uids, n \in Names :
                     (u # r.uid \/ n # r.op.name) => stored'[u][n] = stored[u][n]
               /\ \E t \in TempOf(r) : stored'[r.uid][r.op.name] = t.data
<1> DEFINE r == requests[i]
<1>1. r.op = [fop |-> "U", name |-> r.op.name] /\ r.op.name \in Names
  BY ConfirmedFields DEF Puts
<1>2. stored \in [Uids -> [Names -> Data \cup {NoData}]]
  BY DEF TypeOK
<1> HIDE DEF r
<1>3. PICK t \in TempOf(r) : Store(r.uid, r.op.name, t.data)
  BY DEF Puts, r
<1>4. r.uid \in Uids /\ stored[r.uid][r.op.name] = NoData
  BY DEF Puts, IsDuplicate, r
<1> DEFINE n0 == r.op.name
<1>5. n0 \in Names /\ stored' = [stored EXCEPT ![r.uid][n0] = t.data]
  BY <1>1, <1>3 DEF Store
<1> HIDE DEF n0
<1>6. /\ \A u \in Uids, n \in Names :
            (u # r.uid \/ n # n0) => stored'[u][n] = stored[u][n]
      /\ stored'[r.uid][n0] = t.data
  BY <1>2, <1>4, <1>5
<1> QED
  BY <1>1, <1>3, <1>4, <1>6 DEF r, n0

(* A file is never replaced, and what appears under a name was brought by  *)
(* a request of that user for that name: StoresWhatWasSent of FS.          *)
THEOREM StoredWasSent == Spec => StoresWhatWasSent
<1>1. ASSUME UploadInv, [Next]_vars, NEW u \in Uids, NEW n \in Names
      PROVE  \/ stored'[u][n] \in {stored[u][n], NoData}
             \/ /\ stored[u][n] = NoData
                /\ \E i \in DOMAIN requests :
                       /\ requests[i].uid = u
                       /\ requests[i].op = [fop |-> "U", name |-> n]
                       /\ requests[i].data = stored'[u][n]
  <2>0. TypeInv /\ TypeOK /\ UploadsKeptApart
    BY <1>1 DEF UploadInv, TypeInv
  <2>1. CASE PutsNothing
    BY <2>1 DEF PutsNothing
  <2>2. ASSUME NEW i \in DOMAIN requests,
               requests[i].uid \in Uids, requests[i].op \in Ops,
               Puts(requests[i]), stored'[u][n] # stored[u][n]
        PROVE  /\ stored[u][n] = NoData
               /\ requests[i].uid = u
               /\ requests[i].op = [fop |-> "U", name |-> n]
               /\ requests[i].data = stored'[u][n]
    <3>1. /\ requests[i].op = [fop |-> "U", name |-> requests[i].op.name]
          /\ stored[requests[i].uid][requests[i].op.name] = NoData
          /\ \E t \in TempOf(requests[i]) :
                stored'[requests[i].uid][requests[i].op.name] = t.data
          /\ requests[i].uid = u /\ requests[i].op.name = n
      BY <2>0, <2>2, PutAt
    <3>2. IsUpload(requests[i])
      BY <2>2, OpsKnown DEF IsUpload, Puts
    <3>3. \A t \in TempOf(requests[i]) : t.data = requests[i].data
      BY <2>0, <3>2 DEF UploadsKeptApart
    <3> QED
      BY <3>1, <3>3
  <2> QED
    BY <1>1, <2>0, <2>1, <2>2, StepPuts
<1>2. ASSUME UploadInv, [Next]_vars
      PROVE  \A u \in Uids, n \in Names :
                \/ stored'[u][n] \in {stored[u][n], NoData}
                \/ /\ stored[u][n] = NoData
                   /\ \E i \in DOMAIN requests :
                          /\ requests[i].uid = u
                          /\ requests[i].op = [fop |-> "U", name |-> n]
                          /\ requests[i].data = stored'[u][n]
  BY <1>1, <1>2
<1>3. UploadInv /\ [Next]_vars =>
        [\A u \in Uids, n \in Names :
            \/ stored'[u][n] \in {stored[u][n], NoData}
            \/ /\ stored[u][n] = NoData
               /\ \E i \in DOMAIN requests :
                      /\ requests[i].uid = u
                      /\ requests[i].op = [fop |-> "U", name |-> n]
                      /\ requests[i].data = stored'[u][n]]_vars
  BY <1>2
<1> QED
  BY <1>3, UploadsHold, PTL DEF Spec, StoresWhatWasSent

-----------------------------------------------------------------------------
(* The limit of files. *)

(* There are only so many temporary files to count. *)
FiniteInv == TypeInv /\ IsFiniteSet(temps)

LEMMA StepFinite == FiniteInv /\ [Next]_vars => FiniteInv'
<1> SUFFICES ASSUME FiniteInv, [Next]_vars
             PROVE  IsFiniteSet(temps')
  BY StepTyped DEF FiniteInv
<1>0. TypeInv /\ IsFiniteSet(temps)
  BY DEF FiniteInv
<1>1. CASE temps' \subseteq temps
  BY <1>0, <1>1, FS_Subset
<1>2. ASSUME NEW i \in DOMAIN requests, fillUploadRequest(i)
      PROVE  IsFiniteSet(temps')
  <2>1. \E t : \E S \in SUBSET temps : temps' = S \cup {t}
    BY <1>2 DEF fillUploadRequest
  <2>2. PICK t : \E S \in SUBSET temps : temps' = S \cup {t}
    BY <2>1
  <2>3. PICK S \in SUBSET temps : temps' = S \cup {t}
    BY <2>2
  <2>4. IsFiniteSet(S)
    BY <1>0, FS_Subset
  <2> QED
    BY <2>3, <2>4, FS_AddElement
<1>3. ASSUME Execute PROVE temps' \subseteq temps
  BY <1>3, ExecutedTemps DEF Execute
<1>4. ASSUME StopInOperation PROVE temps' \subseteq temps
  BY <1>4 DEF StopInOperation, CutShort, TempsOf
<1>5. ASSUME \/ Select \/ handleUserConnection \/ Refuse
             \/ \E i \in DOMAIN requests :
                   UserClosed(i) \/ fillRequest(i) \/ storeFileFromTCP(i)
             \/ \E e \in Elapsed : checkUserRequestTimeouts(e)
             \/ Hangs \/ Environment \/ Start \/ UNCHANGED disk
             \/ UNCHANGED vars
      PROVE  temps' \subseteq temps
  BY <1>5 DEF Select, handleUserConnection, Refuse, UserClosed, fillRequest,
              storeFileFromTCP, checkUserRequestTimeouts,
              EndOfIteration, Hangs, Start, vars, disk, Environment,
              AnswerArrives, Arrives, UserConnects, UserSends, UserSendsRest,
              UserCloses, Outside
<1> QED
  BY <1>0, <1>1, <1>2, <1>3, <1>4, <1>5, NextCases

(* An upload takes at least one temporary file away for the one it puts.   *)
LEMMA PutWithinLimit ==
    ASSUME FiniteInv, NEW i \in DOMAIN requests,
           requests[i].uid \in Uids, requests[i].op \in Ops,
           Puts(requests[i]), ~IsFull(requests[i].uid)
    PROVE  \A u \in Uids :
              ~(StoredNames(u)' \subseteq StoredNames(u)) => Entries(u)' <= MAX_FILES
<1> DEFINE r == requests[i]
           n == r.op.name
           N == StoredNames(r.uid)
           T == TempsOf(r.uid)
<1>0. TypeOK /\ IsFiniteSet(temps) /\ IsFiniteSet(Names) /\ MAX_FILES \in Nat
  BY ConstantsAssumption, ParametersAssumption
  DEF FiniteInv, TypeInv, ConstantsAssumption, ParametersAssumption
<1>1. \A u \in Uids, k \in Names :
         (u # r.uid \/ k # n) => stored'[u][k] = stored[u][k]
  BY <1>0, PutAt
<1>2. SUFFICES ASSUME NEW u \in Uids,
                      ~(StoredNames(u)' \subseteq StoredNames(u))
               PROVE  Entries(u)' <= MAX_FILES
  OBVIOUS
<1>3. u = r.uid
  BY <1>1, <1>2 DEF StoredNames
<1>4. StoredNames(u)' \subseteq N \cup {n}
  BY <1>1, <1>3 DEF StoredNames
<1>5. PICK t \in TempOf(r) : TRUE
  BY DEF Puts
<1>6. t \in T /\ TempsOf(u)' \subseteq T \ {t}
  BY <1>3, <1>5 DEF Puts, TempOf, TempsOf
<1>7. IsFiniteSet(N) /\ IsFiniteSet(T)
  <2>1. N \in SUBSET Names /\ T \in SUBSET temps
    BY DEF StoredNames, TempsOf
  <2> HIDE DEF N, T
  <2> QED
    BY <1>0, <2>1, FS_Subset
<1>8. Cardinality(N) + Cardinality(T) <= MAX_FILES
  <2>1. Cardinality(N) \in Nat /\ Cardinality(T) \in Nat
    BY <1>7, FS_CardinalityType
  <2>2. ~(Cardinality(N) + Cardinality(T) > MAX_FILES)
    BY DEF IsFull, Entries
  <2> HIDE DEF N, T
  <2> QED
    BY <1>0, <2>1, <2>2
<1> DEFINE N1 == StoredNames(u)'
           T1 == TempsOf(u)'
<1>9. Entries(u)' = Cardinality(N1) + Cardinality(T1)
  BY DEF Entries
<1>10. N1 \subseteq N \cup {n} /\ T1 \subseteq T \ {t} /\ t \in T
  BY <1>4, <1>6
<1> HIDE DEF N, T, n, N1, T1
<1>11. /\ IsFiniteSet(N \cup {n}) /\ Cardinality(N \cup {n}) <= Cardinality(N) + 1
       /\ Cardinality(N \cup {n}) \in Nat /\ Cardinality(N) \in Nat
  <2>1. /\ IsFiniteSet(N \cup {n})
        /\ Cardinality(N \cup {n}) = IF n \in N THEN Cardinality(N)
                                     ELSE Cardinality(N) + 1
    BY <1>7, FS_AddElement
  <2>2. Cardinality(N) \in Nat
    BY <1>7, FS_CardinalityType
  <2> QED
    BY <2>1, <2>2
<1>12. /\ IsFiniteSet(T \ {t}) /\ Cardinality(T \ {t}) = Cardinality(T) - 1
       /\ Cardinality(T) \in Nat /\ Cardinality(T \ {t}) \in Nat
  <2>1. /\ IsFiniteSet(T \ {t})
        /\ Cardinality(T \ {t}) = IF t \in T THEN Cardinality(T) - 1
                                  ELSE Cardinality(T)
    BY <1>7, FS_RemoveElement
  <2> QED
    BY <1>7, <1>10, <2>1, FS_CardinalityType
<1>13. /\ Cardinality(N1) <= Cardinality(N \cup {n}) /\ Cardinality(N1) \in Nat
       /\ Cardinality(T1) <= Cardinality(T \ {t}) /\ Cardinality(T1) \in Nat
  <2>1. N1 \in SUBSET (N \cup {n}) /\ T1 \in SUBSET (T \ {t})
    BY <1>10
  <2>2. IsFiniteSet(N1) /\ Cardinality(N1) <= Cardinality(N \cup {n})
    BY <1>11, <2>1, FS_Subset
  <2>3. IsFiniteSet(T1) /\ Cardinality(T1) <= Cardinality(T \ {t})
    BY <1>12, <2>1, FS_Subset
  <2> QED
    BY <2>2, <2>3, FS_CardinalityType
<1>14. Cardinality(N1) + Cardinality(T1) <= Cardinality(N) + Cardinality(T)
  BY <1>11, <1>12, <1>13
<1> QED
  BY <1>0, <1>8, <1>9, <1>11, <1>12, <1>13, <1>14

(* A file server that goes on never brings a user past MAX_FILES, whatever *)
(* temporary files lie in the directory: StoresWithinLimit of FS.          *)
THEOREM LimitKept == Spec => StoresWithinLimit
<1>1. ASSUME FiniteInv, [Next]_vars
      PROVE  \A u \in Uids :
                /\ pc' # "down"
                /\ ~(StoredNames(u)' \subseteq StoredNames(u))
                => Entries(u)' <= MAX_FILES
  <2>1. CASE PutsNothing
    <3>1. \A u \in Uids : StoredNames(u)' \subseteq StoredNames(u)
      BY <2>1 DEF PutsNothing, StoredNames
    <3> QED
      BY <3>1
  <2>2. TypeInv
    BY <1>1 DEF FiniteInv
  <2> QED
    BY <1>1, <2>1, <2>2, StepPuts, PutWithinLimit
<1>2. FiniteInv /\ [Next]_vars =>
        [\A u \in Uids :
            /\ pc' # "down"
            /\ ~(StoredNames(u)' \subseteq StoredNames(u))
            => Entries(u)' <= MAX_FILES]_vars
  BY <1>1
<1>3. Init => FiniteInv
  BY InitTyped, FS_EmptySet DEF FiniteInv, Init
<1> QED
  BY <1>2, <1>3, StepFinite, PTL DEF Spec, StoresWithinLimit

=============================================================================
