---------------------------- MODULE Access_proofs ----------------------------
(***************************************************************************)
(* One operation for each ticket: the file server, the promise of the      *)
(* authentication server and the network, for any users, connections,      *)
(* tickets and bounds.                                                     *)
(***************************************************************************)
EXTENDS Access, FS_proofs

-----------------------------------------------------------------------------
(* The inductive invariant. *)

(* What is under way belongs to a question that this process of the file   *)
(* server asked.                                                           *)
AskedInv ==
    /\ \A k \in DOMAIN questions :
           questions[k].present =>
               [uid |-> questions[k].uid, tid |-> questions[k].tid] \in asked
    /\ \A k \in DOMAIN answers : Answerable(answers[k])

(* What the AS was asked for is all that a session, and so a confirmation, *)
(* can name, but for the tickets of sessions that had asked for nothing.   *)
Named(m) ==
    m.type = "CNF" => m.op \in requested \cup {FOP_E} \/ m.tid \in unasked

SessionsNamed ==
    \A c \in Sessions :
        /\ session[c].op \in requested \cup {NoOp}
        /\ session[c].tid # NoTid =>
               session[c].op # NoOp \/ session[c].tid \in unasked

RequestedInv ==
    /\ SessionsNamed
    /\ \A k \in DOMAIN answers : Named(answers[k])
    /\ \A k \in DOMAIN udpIn : Named(udpIn[k])

(* A ticket is in a session, under way as a confirmation, or executed, and *)
(* in one of these only.                                                   *)
Ticketed == {c \in Sessions : session[c].tid # NoTid}

Good(m) == m.type = "CNF" /\ m.op # FOP_E

Goods(s) == {k \in DOMAIN s : Good(s[k])}

Spent == Cardinality(Goods(udpIn)) + executed

TicketInv ==
    Cardinality(Ticketed) + Cardinality(Goods(answers)) + Spent <= granted

AccessTypeInv == TypeInv /\ AccessTypeOK

AccessInv == AccessTypeInv /\ AskedInv /\ RequestedInv /\ TicketInv

-----------------------------------------------------------------------------
(* Sequences of datagrams. *)

LEMMA WithoutOne ==
    ASSUME NEW S, NEW s \in Seq(S), NEW k \in DOMAIN s
    PROVE  /\ Without(s, k) \in Seq(S)
           /\ \A j \in DOMAIN Without(s, k) :
                 LET i == IF j < k THEN j ELSE j + 1
                 IN  /\ i \in DOMAIN s /\ i # k
                     /\ Without(s, k)[j] = s[i]
<1> DEFINE a == SubSeq(s, 1, k - 1)
           b == SubSeq(s, k + 1, Len(s))
<1>1. /\ Len(s) \in Nat /\ DOMAIN s = 1 .. Len(s)
      /\ k \in 1 .. Len(s) /\ k \in Nat
  BY LenProperties
<1>2. /\ a \in Seq(S) /\ Len(a) = k - 1 /\ DOMAIN a = 1 .. k - 1
      /\ \A j \in 1 .. k - 1 : a[j] = s[j]
  <2>1. \A j \in 1 .. k - 1 : s[j] \in S
    BY <1>1, ElementOfSeq
  <2>2. 1 \in Nat /\ k - 1 \in Nat
    BY <1>1
  <2> QED
    BY <1>1, <2>1, <2>2, SubSeqProperties
<1>3. /\ b \in Seq(S) /\ Len(b) = Len(s) - k
      /\ \A j \in 1 .. Len(s) - k : b[j] = s[j + k]
  BY <1>1, SubSeqProperties
<1> HIDE DEF a, b
<1>4. /\ a \o b \in Seq(S)
      /\ Len(a \o b) = Len(a) + Len(b)
      /\ \A j \in 1 .. Len(a) + Len(b) :
            (a \o b)[j] = IF j <= Len(a) THEN a[j] ELSE b[j - Len(a)]
  BY <1>2, <1>3, ConcatProperties
<1>5. DOMAIN (a \o b) = 1 .. Len(s) - 1
  <2>1. Len(a \o b) = (k - 1) + (Len(s) - k)
    BY <1>2, <1>3, <1>4
  <2>2. (k - 1) + (Len(s) - k) = Len(s) - 1
    BY <1>1
  <2>3. DOMAIN (a \o b) = 1 .. Len(a \o b)
    BY <1>4, LenProperties
  <2> QED
    BY <2>1, <2>2, <2>3
<1>6. ASSUME NEW j \in 1 .. Len(s) - 1
      PROVE  LET i == IF j < k THEN j ELSE j + 1
             IN  i \in DOMAIN s /\ i # k /\ (a \o b)[j] = s[i]
  <2>1. j \in Int /\ 1 <= j /\ j <= Len(s) - 1
    <3> DEFINE n == Len(s)
    <3>1. n \in Nat /\ j \in 1 .. n - 1
      BY <1>1
    <3> HIDE DEF n
    <3>2. j \in Int /\ 1 <= j /\ j <= n - 1
      BY <3>1
    <3> QED
      BY <3>2 DEF n
  <2>2. CASE j < k
    <3>1. /\ j \in 1 .. k - 1 /\ j \in 1 .. Len(s) /\ j <= k - 1
          /\ j \in 1 .. (k - 1) + (Len(s) - k)
      <4> DEFINE n == Len(s)
      <4>1. n \in Nat /\ k \in Nat /\ k <= n /\ 1 <= k /\ j \in Int /\ 1 <= j
        BY <1>1, <2>1
      <4> HIDE DEF n
      <4>2. /\ j \in 1 .. k - 1 /\ j \in 1 .. n /\ j <= k - 1
            /\ j \in 1 .. (k - 1) + (n - k)
        BY <4>1, <2>2
      <4> QED
        BY <4>2 DEF n
    <3>2. (a \o b)[j] = a[j] /\ a[j] = s[j]
      BY <1>2, <1>3, <1>4, <3>1
    <3> QED
      BY <1>1, <2>2, <3>1, <3>2
  <2>3. CASE ~(j < k)
    <3>1. /\ j \in 1 .. (k - 1) + (Len(s) - k) /\ ~(j <= k - 1)
          /\ j - (k - 1) \in 1 .. Len(s) - k
          /\ (j - (k - 1)) + k = j + 1 /\ j + 1 \in 1 .. Len(s)
      BY <1>1, <2>1, <2>3
    <3>2. (a \o b)[j] = b[j - (k - 1)]
      BY <1>2, <1>3, <1>4, <3>1
    <3>3. b[j - (k - 1)] = s[j + 1]
      BY <1>3, <3>1
    <3> QED
      BY <1>1, <2>1, <2>3, <3>1, <3>2, <3>3
  <2> QED
    BY <2>2, <2>3
<1> QED
  <2>1. a \o b \in Seq(S) /\ Without(s, k) = a \o b
    BY <1>4 DEF Without, a, b
  <2> QED
    BY <1>5, <1>6, <2>1

LEMMA GoodsFinite ==
    ASSUME NEW S, NEW s \in Seq(S)
    PROVE  IsFiniteSet(Goods(s)) /\ Cardinality(Goods(s)) \in Nat
<1>1. IsFiniteSet(1 .. Len(s)) /\ DOMAIN s = 1 .. Len(s)
  BY FS_Interval, LenProperties
<1>2. IsFiniteSet(Goods(s))
  BY <1>1, FS_Subset DEF Goods
<1> QED
  BY <1>2, FS_CardinalityType

LEMMA NoGoods == Cardinality(Goods(<<>>)) = 0
<1>1. Goods(<<>>) = {}
  BY DEF Goods
<1> QED
  BY <1>1, FS_EmptySet

(* A datagram more, and one less: f says where the others were.            *)
LEMMA OneMore ==
    ASSUME NEW S, NEW s \in Seq(S), NEW m \in S
    PROVE  Cardinality(Goods(Append(s, m)))
               <= Cardinality(Goods(s)) + (IF Good(m) THEN 1 ELSE 0)
<1>1. \A k \in DOMAIN Append(s, m) :
         \/ k \in DOMAIN s /\ Append(s, m)[k] = s[k]
         \/ k = Len(s) + 1 /\ Append(s, m)[k] = m
  BY Appended
<1>2. IsFiniteSet(Goods(s)) /\ Cardinality(Goods(s)) \in Nat
  BY GoodsFinite
<1>3. CASE Good(m)
  <2>1. Goods(Append(s, m)) \subseteq Goods(s) \cup {Len(s) + 1}
    BY <1>1 DEF Goods
  <2>2. /\ IsFiniteSet(Goods(s) \cup {Len(s) + 1})
        /\ Cardinality(Goods(s) \cup {Len(s) + 1}) <= Cardinality(Goods(s)) + 1
    <3> DEFINE G == Goods(s)
               e == Len(s) + 1
    <3>1. IsFiniteSet(G) /\ Cardinality(G) \in Nat
      BY <1>2
    <3> HIDE DEF G, e
    <3>2. /\ IsFiniteSet(G \cup {e})
          /\ \/ Cardinality(G \cup {e}) = Cardinality(G)
             \/ Cardinality(G \cup {e}) = Cardinality(G) + 1
      BY <3>1, FS_AddElement
    <3>3. IsFiniteSet(G \cup {e}) /\ Cardinality(G \cup {e}) <= Cardinality(G) + 1
      BY <3>1, <3>2
    <3> QED
      BY <3>3 DEF G, e
  <2>3. Cardinality(Goods(Append(s, m))) <= Cardinality(Goods(s) \cup {Len(s) + 1})
    BY <2>1, <2>2, FS_Subset
  <2>4. /\ Cardinality(Goods(Append(s, m))) \in Nat
        /\ Cardinality(Goods(s) \cup {Len(s) + 1}) \in Nat
    BY <2>1, <2>2, FS_Subset, FS_CardinalityType
  <2>5. (IF Good(m) THEN 1 ELSE 0) = 1
    BY <1>3
  <2> HIDE DEF Good, Goods
  <2> QED
    BY <1>2, <2>2, <2>3, <2>4, <2>5
<1>4. CASE ~Good(m)
  <2>1. Goods(Append(s, m)) \subseteq Goods(s)
    BY <1>1, <1>4 DEF Goods
  <2>2. Cardinality(Goods(Append(s, m))) <= Cardinality(Goods(s))
    BY <1>2, <2>1, FS_Subset
  <2>3. Cardinality(Goods(Append(s, m))) \in Nat
    BY <1>2, <2>1, FS_Subset, FS_CardinalityType
  <2> QED
    BY <1>2, <1>4, <2>2, <2>3
<1> QED
  BY <1>3, <1>4

LEMMA OneLess ==
    ASSUME NEW S, NEW s \in Seq(S), NEW t \in Seq(S), NEW k \in DOMAIN s,
           NEW f, \A j \in DOMAIN t :
                     f[j] \in DOMAIN s /\ f[j] # k /\ t[j] = s[f[j]],
           \A i, j \in DOMAIN t : f[i] = f[j] => i = j
    PROVE  Cardinality(Goods(t)) + (IF Good(s[k]) THEN 1 ELSE 0)
               <= Cardinality(Goods(s))
<1> DEFINE G == Goods(s) \ {k}
           g == [j \in Goods(t) |-> f[j]]
<1>1. IsFiniteSet(Goods(s)) /\ Cardinality(Goods(s)) \in Nat
  BY GoodsFinite
<1>2. /\ IsFiniteSet(G)
      /\ Cardinality(G) = IF k \in Goods(s) THEN Cardinality(Goods(s)) - 1
                          ELSE Cardinality(Goods(s))
  BY <1>1, FS_RemoveElement
<1>3. g \in Injection(Goods(t), G)
  <2>1. g \in [Goods(t) -> G]
    BY DEF Goods
  <2>2. \A i, j \in Goods(t) : g[i] = g[j] => i = j
    BY DEF Goods
  <2> QED
    BY <2>1, <2>2 DEF Injection, IsInjective
<1>4. Cardinality(Goods(t)) <= Cardinality(G)
  BY <1>2, <1>3, FS_Injection
<1>5. k \in Goods(s) <=> Good(s[k])
  BY DEF Goods
<1>6. Cardinality(Goods(t)) \in Nat
  BY GoodsFinite
<1> QED
  BY <1>1, <1>2, <1>4, <1>5, <1>6

LEMMA GoodsWithout ==
    ASSUME NEW S, NEW s \in Seq(S), NEW k \in DOMAIN s
    PROVE  Cardinality(Goods(Without(s, k))) + (IF Good(s[k]) THEN 1 ELSE 0)
               <= Cardinality(Goods(s))
<1> DEFINE t == Without(s, k)
           f == [j \in DOMAIN t |-> IF j < k THEN j ELSE j + 1]
<1>1. /\ t \in Seq(S)
      /\ \A j \in DOMAIN t : LET i == IF j < k THEN j ELSE j + 1
                             IN  i \in DOMAIN s /\ i # k /\ t[j] = s[i]
  BY WithoutOne
<1>2. DOMAIN t \subseteq Nat /\ k \in Nat
  BY <1>1, LenProperties
<1> HIDE DEF t
<1>3. \A j \in DOMAIN t : f[j] \in DOMAIN s /\ f[j] # k /\ t[j] = s[f[j]]
  BY <1>1
<1>4. \A i, j \in DOMAIN t : f[i] = f[j] => i = j
  BY <1>2
<1>5. t \in Seq(S)
  BY <1>1
<1> HIDE DEF f
<1> QED
  BY <1>3, <1>4, <1>5, OneLess DEF t

LEMMA GoodsTail ==
    ASSUME NEW S, NEW s \in Seq(S), s # <<>>
    PROVE  Cardinality(Goods(Tail(s))) + (IF Good(Head(s)) THEN 1 ELSE 0)
               <= Cardinality(Goods(s))
<1> DEFINE t == Tail(s)
           f == [j \in DOMAIN t |-> j + 1]
<1>1. /\ t \in Seq(S) /\ 1 \in DOMAIN s /\ Head(s) = s[1]
      /\ \A j \in DOMAIN t :
            j + 1 \in DOMAIN s /\ j + 1 # 1 /\ t[j] = s[j + 1]
      /\ \A i, j \in DOMAIN t : i + 1 = j + 1 => i = j
  BY HeadAndTail
<1> HIDE DEF t
<1>2. \A j \in DOMAIN t : f[j] \in DOMAIN s /\ f[j] # 1 /\ t[j] = s[f[j]]
  BY <1>1
<1>3. \A i, j \in DOMAIN t : f[i] = f[j] => i = j
  BY <1>1
<1> HIDE DEF f
<1>4. Cardinality(Goods(t)) + (IF Good(s[1]) THEN 1 ELSE 0)
          <= Cardinality(Goods(s))
  BY <1>1, <1>2, <1>3, OneLess
<1> QED
  BY <1>1, <1>4 DEF t

LEMMA CarriedOne ==
    ASSUME NEW flight, NEW S
    PROVE  \/ Carried(flight, S) = flight
           \/ \E m \in S : Carried(flight, S) = Append(flight, m)
  BY DEF Carried

-----------------------------------------------------------------------------
(* The sessions: what each step of the AS makes of them. *)

LEMMA SessionFields ==
    ASSUME Server!TypeOK, NEW c \in Sessions
    PROVE  /\ session[c].uid \in Uids \cup {NoUid}
           /\ session[c].op \in Ops \cup {NoOp}
           /\ session[c].coded \in BOOLEAN
           /\ session[c].tid \in Tids \cup {NoTid}
<1>1. session[c] \in Server!Session
  BY DEF Server!TypeOK
<1> QED
  BY <1>1 DEF Server!Session

LEMMA SessionOf ==
    ASSUME NEW u \in Uids \cup {NoUid}, NEW o \in Ops \cup {NoOp},
           NEW b \in BOOLEAN, NEW t \in Tids \cup {NoTid}
    PROVE  [uid |-> u, op |-> o, coded |-> b, tid |-> t] \in Server!Session
  BY DEF Server!Session

LEMMA LoginStep ==
    ASSUME Server!TypeOK, NEW c \in Sessions, NEW u \in Uids,
           Server!Login(c, u)
    PROVE  /\ Server!TypeOK'
           /\ \A d \in Sessions :
                 /\ session'[d].op = session[d].op
                 /\ session'[d].tid = session[d].tid
<1>1. session[c] \in Server!Session
  BY DEF Server!TypeOK
<1>2. [session[c] EXCEPT !.uid = u] \in Server!Session
  BY <1>1 DEF Server!Session
<1>3. session' = [session EXCEPT ![c] = [session[c] EXCEPT !.uid = u]]
  BY DEF Server!Login
<1>4. session' \in [Sessions -> Server!Session]
  BY <1>2, <1>3 DEF Server!TypeOK
<1>5. /\ [session[c] EXCEPT !.uid = u].op = session[c].op
      /\ [session[c] EXCEPT !.uid = u].tid = session[c].tid
  BY <1>1 DEF Server!Session
<1> QED
  BY <1>3, <1>4, <1>5 DEF Server!TypeOK, Server!Login

LEMMA RequestStep ==
    ASSUME Server!TypeOK, NEW c \in Sessions, NEW o \in Ops,
           Server!Request(c, o)
    PROVE  /\ Server!TypeOK'
           /\ \A d \in Sessions :
                 /\ session'[d].tid = session[d].tid
                 /\ session'[d].op = IF d = c THEN o ELSE session[d].op
<1> DEFINE r == [session[c] EXCEPT !.op = o, !.coded = TRUE]
<1>1. session[c] \in Server!Session
  BY DEF Server!TypeOK
<1>2. r \in Server!Session /\ r.tid = session[c].tid /\ r.op = o
  BY <1>1 DEF Server!Session
<1>3. session' = [session EXCEPT ![c] = r]
  BY DEF Server!Request
<1> HIDE DEF r
<1>4. session' \in [Sessions -> Server!Session]
  BY <1>2, <1>3 DEF Server!TypeOK
<1> QED
  BY <1>2, <1>3, <1>4 DEF Server!TypeOK, Server!Request

LEMMA GrantStep ==
    ASSUME Server!TypeOK, NEW c \in Sessions, NEW t \in Tids,
           Server!Grant(c, t)
    PROVE  /\ Server!TypeOK'
           /\ session'[c].tid = t
           /\ \A d \in Sessions :
                 /\ session'[d].op = session[d].op
                 /\ d # c => session'[d].tid = session[d].tid
<1> DEFINE r == [session[c] EXCEPT !.coded = FALSE, !.tid = t]
<1>1. session[c] \in Server!Session
  BY DEF Server!TypeOK
<1>2. r \in Server!Session /\ r.op = session[c].op /\ r.tid = t
  BY <1>1 DEF Server!Session
<1>3. session' = [session EXCEPT ![c] = r]
  BY DEF Server!Grant
<1> HIDE DEF r
<1>4. session' \in [Sessions -> Server!Session]
  BY <1>2, <1>3 DEF Server!TypeOK
<1> QED
  BY <1>2, <1>3, <1>4 DEF Server!TypeOK, Server!Grant

LEMMA ValidateStep ==
    ASSUME Server!TypeOK, NEW c \in Sessions, NEW t \in Tids,
           Server!Validate(c, t)
    PROVE  /\ Server!TypeOK'
           /\ \E o \in Server!OpRead(c) :
                 verdict' = {[uid |-> session[c].uid, tid |-> t,
                              op |-> IF session[c].tid = t THEN o ELSE FOP_E]}
           /\ session'[c].tid = NoTid
           /\ \A d \in Sessions :
                 /\ session'[d].op = session[d].op
                 /\ d # c => session'[d].tid = session[d].tid
<1>0. PICK o \in Server!OpRead(c) :
          /\ Server!Tell(c, t, o)
          /\ session' = [session EXCEPT
                             ![c].tid = NoTid,
                             ![c].uid = IF Server!Confirmed(c, t) /\ o = OpX
                                        THEN NoUid ELSE @]
  BY DEF Server!Validate
<1> DEFINE u == IF Server!Confirmed(c, t) /\ o = OpX
                THEN NoUid ELSE session[c].uid
           r == [session[c] EXCEPT !.tid = NoTid, !.uid = u]
<1>1. session[c] \in Server!Session
  BY DEF Server!TypeOK
<1>2. u \in Uids \cup {NoUid}
  BY SessionFields
<1>3. session' = [session EXCEPT ![c] = r]
  BY <1>0
<1> HIDE DEF u
<1>4. /\ r \in Server!Session /\ r.tid = NoTid /\ r.op = session[c].op
  BY <1>1, <1>2 DEF Server!Session
<1> HIDE DEF r
<1>5. session' \in [Sessions -> Server!Session]
  BY <1>3, <1>4 DEF Server!TypeOK
<1>6. verdict' = {[uid |-> session[c].uid, tid |-> t,
                   op |-> IF session[c].tid = t THEN o ELSE FOP_E]}
  BY <1>0 DEF Server!Tell, Server!Confirmed
<1>7. session[c].uid \in Uids
  BY SessionFields DEF Server!Validate
<1>8. verdict' \in SUBSET Server!Verdict
  <2> DEFINE p == IF session[c].tid = t THEN o ELSE FOP_E
  <2>1. p \in Ops \cup {NoOp, FOP_E}
    BY SessionFields DEF Server!OpRead
  <2>2. verdict' = {[uid |-> session[c].uid, tid |-> t, op |-> p]}
    BY <1>6
  <2> HIDE DEF p
  <2> QED
    BY <1>7, <2>1, <2>2 DEF Server!Verdict
<1> QED
  BY <1>3, <1>4, <1>5, <1>6, <1>8 DEF Server!TypeOK

LEMMA ForgetStep ==
    ASSUME Server!TypeOK, NEW C, Server!Forget(C)
    PROVE  /\ Server!TypeOK'
           /\ verdict' = {}
           /\ \A d \in Sessions :
                 \/ session'[d] = session[d]
                 \/ session'[d].op = NoOp /\ session'[d].tid = NoTid
<1>1. Server!Blank \in Server!Session
  BY DEF Server!Blank, Server!Session
<1>2. session' \in [Sessions -> Server!Session]
  BY <1>1 DEF Server!Forget, Server!TypeOK
<1> QED
  BY <1>2 DEF Server!Forget, Server!TypeOK, Server!Blank

LEMMA NothingForgotten ==
    ASSUME Server!TypeOK, Server!Forget({})
    PROVE  session' = session /\ verdict' = {} /\ Server!TypeOK'
<1>1. session' = session
  BY DEF Server!Forget, Server!TypeOK
<1> QED
  BY <1>1 DEF Server!Forget, Server!TypeOK

-----------------------------------------------------------------------------
(* The steps of the file server: what it asks, and what it takes of the    *)
(* answers that have arrived.                                              *)

QueueKept == udpIn' = udpIn \/ (udpIn # <<>> /\ udpIn' = Tail(udpIn))

(* A step that goes on, and asks nothing.                                  *)
Goes ==
    /\ pc' # "down" /\ asked' = asked /\ Asked = {}
    /\ QueueKept

LEMMA RepliesOnly ==
    ASSUME NEW c \in Conns, NEW status, Replies(c, status)
    PROVE  Asked = {}
  BY AccessAssumption DEF Replies, Asked, AccessAssumption

LEMMA SilentGoes ==
    ASSUME sent' = {} PROVE Asked = {}
  BY DEF Asked

LEMMA ExecutedReply ==
    ASSUME NEW r, r.conn \in Conns, exeRequest(r)
    PROVE  Asked = {}
<1>1. \E status : Replies(r.conn, status)
  BY DEF exeRequest, listRequest, retreiveRequest, uploadRequest,
         deleteRequest, removeRequest
<1> QED
  BY <1>1, RepliesOnly

LEMMA AsksStep ==
    ASSUME TypeInv, NEW i \in DOMAIN requests, fillRequest(i) \/ storeFileFromTCP(i)
    PROVE  /\ pc' # "down" /\ asked \subseteq asked' /\ udpIn' = udpIn
           /\ \A m \in Asked :
                 /\ m.uid \in Uids /\ m.tid \in Tids
                 /\ [uid |-> m.uid, tid |-> m.tid] \in asked'
<1> DEFINE m == inbox[requests[i].conn]
<1>1. m.uid \in Uids /\ m.tid \in Tids
  <2>1. m \in UserMsg \cup {Nothing}
    BY TurnFields DEF TypeInv
  <2>2. CASE fillRequest(i)
    BY <2>1, <2>2, MessageFields DEF fillRequest
  <2>3. CASE storeFileFromTCP(i)
    <3>1. Stored(i)
      BY <2>3, StoredFields DEF storeFileFromTCP
    <3> QED
      BY <2>1, <3>1, MessageFields DEF Stored
  <2> QED
    BY <2>2, <2>3
<1>2. Asks(m)
  BY DEF fillRequest, storeFileFromTCP
<1>3. pc' # "down" /\ udpIn' = udpIn
  BY DEF fillRequest, storeFileFromTCP, HasTurn
<1> HIDE DEF m
<1> QED
  BY <1>1, <1>2, <1>3 DEF Asks, Asked

LEMMA FSSteps ==
    ASSUME TypeInv, Executes \/ DoesNotExecute \/ UserMoves
    PROVE  \/ ProcessEnds
           \/ Goes
           \/ \E i \in DOMAIN requests : fillRequest(i) \/ storeFileFromTCP(i)
<1>0. TypeOK
  BY DEF TypeInv
<1>1. CASE Select \/ handleUserConnection \/ Start \/ UserMoves
  BY <1>1, SilentGoes DEF Goes, QueueKept, Select, handleUserConnection, Start,
                    UserMoves, UserConnects, UserSends, Outside, kernel
<1>2. CASE Execute
  <2>1. Matching # {} /\ ReceiveAnswer("CNF") /\ exeRequest(requests[First(Matching)])
    BY <1>2 DEF Execute
  <2>2. First(Matching) \in DOMAIN requests /\ udpIn # <<>>
    BY <2>1, AnswerFits DEF TypeInv
  <2>3. Asked = {}
    BY <1>0, <2>1, <2>2, RequestFields, ExecutedReply
  <2> QED
    BY <1>2, <2>2, <2>3 DEF Execute, AnswerTaken, Goes, QueueKept, ReceiveAnswer
<1>3. CASE Refuse
  <2>1. Matching # {} /\ ReceiveAnswer("CNF")
        /\ Replies(requests[First(Matching)].conn, "INV")
    BY <1>3 DEF Refuse
  <2>2. First(Matching) \in DOMAIN requests /\ udpIn # <<>>
    BY <2>1, AnswerFits DEF TypeInv
  <2>3. Asked = {}
    BY <1>0, <2>1, <2>2, RequestFields, RepliesOnly
  <2> QED
    BY <1>3, <2>2, <2>3 DEF Refuse, AnswerTaken, Goes, QueueKept, ReceiveAnswer
<1>4. CASE StopInOperation \/ SelectFails \/ RefuseFails \/ FatalAnswer \/ Stop
  BY <1>4 DEF StopInOperation, SelectFails, RefuseFails, FatalAnswer, Stop
<1>5. ASSUME NEW e \in Elapsed, checkUserRequestTimeouts(e)
      PROVE  Goes
  <2>1. Asked = {}
    <3>1. CASE Overdue(e) = {}
      BY <1>5, <3>1, SilentGoes DEF checkUserRequestTimeouts
    <3>2. CASE Overdue(e) # {}
      <4>1. First(Overdue(e)) \in DOMAIN requests
        BY <1>0, <3>2, FirstListed DEF Overdue
      <4>2. Replies(requests[First(Overdue(e))].conn, "INV")
        BY <1>5, <3>2 DEF checkUserRequestTimeouts
      <4> QED
        BY <1>0, <4>1, <4>2, RequestFields, RepliesOnly
    <3> QED
      BY <3>1, <3>2
  <2> QED
    BY <1>5, <2>1 DEF checkUserRequestTimeouts, EndOfIteration, Goes, QueueKept
<1>6. ASSUME NEW i \in DOMAIN requests, handleUserRequest(i)
      PROVE  ProcessEnds \/ Goes \/ fillRequest(i) \/ storeFileFromTCP(i)
  <2>1. CASE UserClosed(i) \/ fillUploadRequest(i)
    BY <2>1, SilentGoes DEF UserClosed, fillUploadRequest, HasTurn, Goes, QueueKept,
                            kernel
  <2>2. CASE FatalRequest(i)
    BY <2>2 DEF FatalRequest
  <2>3. CASE StoreBroken(i)
    BY <2>3, SilentGoes DEF StoreBroken, Goes, QueueKept, kernel
  <2> QED
    BY <1>6, <2>1, <2>2, <2>3 DEF handleUserRequest
<1> QED
  BY <1>1, <1>2, <1>3, <1>4, <1>5, <1>6 DEF Executes, DoesNotExecute

(* A step of the file server is one of FS.                                 *)
LEMMA FSMoveIsNext ==
    ASSUME Executes \/ DoesNotExecute \/ UserMoves
    PROVE  Next
  BY DEF Executes, DoesNotExecute, UserMoves, Next, ServerStep, Environment,
         handleASValidationReply

(* The datagrams after a step of the file server.                          *)
LEMMA PostedStep ==
    ASSUME Posted
    PROVE  \/ /\ pc' = "down"
              /\ questions' = [k \in DOMAIN questions |->
                                  [questions[k] EXCEPT !.present = FALSE]]
              /\ answers' = <<>>
           \/ /\ pc' # "down" /\ answers' = answers
              /\ \/ questions' = questions
                 \/ \E m \in Asked :
                       questions' = Append(questions,
                           [uid |-> m.uid, tid |-> m.tid, present |-> TRUE])
<1>1. CASE pc' = "down"
  BY <1>1 DEF Posted
<1>2. CASE pc' # "down"
  <2> DEFINE S == {[uid |-> m.uid, tid |-> m.tid, present |-> TRUE] : m \in Asked}
  <2>1. questions' = Carried(questions, S) /\ answers' = answers
    BY <1>2 DEF Posted
  <2>2. \/ Carried(questions, S) = questions
        \/ \E q \in S : Carried(questions, S) = Append(questions, q)
    BY CarriedOne
  <2> QED
    BY <1>2, <2>1, <2>2
<1> QED
  BY <1>1, <1>2

-----------------------------------------------------------------------------
(* Every step has a name. *)
LEMMA AccessCases ==
    ASSUME AccessNext
    PROVE  \/ FSMoves
           \/ \E c \in Sessions, u \in Uids : ASLogin(c, u)
           \/ \E c \in Sessions, o \in Ops : ASRequest(c, o)
           \/ \E c \in Sessions, t \in Tids : ASGrant(c, t)
           \/ \E C \in SUBSET Sessions : ASForget(C)
           \/ \E k \in DOMAIN questions : ASAnswers(k) \/ QuestionLost(k)
           \/ \E k \in DOMAIN answers : AnswerReaches(k) \/ AnswerLost(k)
  BY DEF AccessNext, ASMoves, Network

(* An answer that arrives is one that FS supposes.                         *)
LEMMA AnswerIsSupposed ==
    ASSUME AccessTypeOK, AskedInv, NEW k \in DOMAIN answers, AnswerReaches(k)
    PROVE  /\ answers[k] \in Answer
           /\ AnswerArrives(answers[k]) /\ Next
<1>1. answers[k] \in Answer
  BY LenProperties, ElementOfSeq DEF AccessTypeOK
<1>2. AnswerArrives(answers[k])
  BY DEF AskedInv, AnswerReaches, AnswerArrives
<1> QED
  BY <1>1, <1>2 DEF Next, Environment

LEMMA StepBehaves ==
    ASSUME AccessTypeOK, AskedInv, [AccessNext]_accessVars
    PROVE  [Next]_vars
<1>1. CASE FSMoves
  BY <1>1, FSMoveIsNext DEF FSMoves
<1>2. CASE \E k \in DOMAIN answers : AnswerReaches(k)
  BY <1>2, AnswerIsSupposed
<1>3. CASE UNCHANGED vars
  BY <1>3
<1> QED
  BY <1>1, <1>2, <1>3, AccessCases
  DEF accessVars, ASLogin, ASRequest, ASGrant, ASForget, ASAnswers,
      QuestionLost, AnswerLost

-----------------------------------------------------------------------------
(* The datagrams are of questions that were asked.                         *)

LEMMA QuestionFields ==
    ASSUME AccessTypeOK, NEW k \in DOMAIN questions
    PROVE  /\ questions[k] \in Question
           /\ questions[k].uid \in Uids /\ questions[k].tid \in Tids
<1>1. questions[k] \in Question
  BY LenProperties, ElementOfSeq DEF AccessTypeOK
<1> QED
  BY <1>1 DEF Question

FlightTypeOK == questions \in Seq(Question) /\ answers \in Seq(Answer)

LEMMA FSFlight ==
    ASSUME TypeInv, AccessTypeOK, AskedInv, FSMoves
    PROVE  FlightTypeOK' /\ AskedInv'
<1>1. CASE pc' = "down"
  <2>1. /\ questions' = [k \in DOMAIN questions |->
                            [questions[k] EXCEPT !.present = FALSE]]
        /\ answers' = <<>>
    BY <1>1, PostedStep DEF FSMoves
  <2>2. DOMAIN questions = 1 .. Len(questions) /\ Len(questions) \in Nat
    BY LenProperties DEF AccessTypeOK
  <2>3. \A k \in DOMAIN questions :
           /\ questions'[k] \in Question /\ questions'[k].present = FALSE
    BY <2>1, QuestionFields DEF Question
  <2>4. questions' \in Seq(Question)
    <3> DEFINE n == Len(questions)
    <3>1. n \in Nat /\ questions' = [k \in 1 .. n |-> questions'[k]]
      BY <2>1, <2>2
    <3>2. \A k \in 1 .. n : questions'[k] \in Question
      BY <2>2, <2>3
    <3> HIDE DEF n
    <3>3. questions' \in [1 .. n -> Question]
      BY <3>1, <3>2
    <3> QED
      BY <3>1, <3>3, SeqDef
  <2>5. answers' \in Seq(Answer) /\ DOMAIN answers' = {}
    BY <2>1, EmptySeq
  <2> QED
    BY <2>1, <2>3, <2>4, <2>5 DEF FlightTypeOK, AskedInv
<1>2. CASE pc' # "down"
  <2>1. /\ answers' = answers
        /\ \/ questions' = questions
           \/ \E m \in Asked :
                 questions' = Append(questions,
                     [uid |-> m.uid, tid |-> m.tid, present |-> TRUE])
    BY <1>2, PostedStep DEF FSMoves
  <2>2. /\ asked \subseteq asked'
        /\ \A m \in Asked :
              /\ m.uid \in Uids /\ m.tid \in Tids
              /\ [uid |-> m.uid, tid |-> m.tid] \in asked'
    BY <1>2, FSSteps, AsksStep DEF FSMoves, Goes, ProcessEnds
  <2>3. answers' \in Seq(Answer) /\ \A k \in DOMAIN answers' : Answerable(answers[k])'
    BY <2>1, <2>2 DEF AccessTypeOK, AskedInv, Answerable
  <2>4. /\ questions' \in Seq(Question)
        /\ \A k \in DOMAIN questions' :
              questions'[k].present =>
                  [uid |-> questions'[k].uid, tid |-> questions'[k].tid] \in asked'
    <3>1. CASE questions' = questions
      BY <2>2, <3>1 DEF AccessTypeOK, AskedInv
    <3>2. ASSUME NEW m \in Asked,
                 questions' = Append(questions,
                     [uid |-> m.uid, tid |-> m.tid, present |-> TRUE])
          PROVE  /\ questions' \in Seq(Question)
                 /\ \A k \in DOMAIN questions' :
                       questions'[k].present =>
                           [uid |-> questions'[k].uid,
                            tid |-> questions'[k].tid] \in asked'
      <4> DEFINE q == [uid |-> m.uid, tid |-> m.tid, present |-> TRUE]
      <4>1. q \in Question /\ [uid |-> q.uid, tid |-> q.tid] \in asked'
        BY <2>2 DEF Question
      <4>2. questions \in Seq(Question) /\ questions' = Append(questions, q)
        BY <3>2 DEF AccessTypeOK
      <4> HIDE DEF q
      <4>3. /\ questions' \in Seq(Question)
            /\ \A k \in DOMAIN questions' :
                 \/ k \in DOMAIN questions /\ questions'[k] = questions[k]
                 \/ questions'[k] = q
        BY <4>1, <4>2, Appended
      <4> QED
        BY <2>2, <4>1, <4>3 DEF AskedInv
    <3> QED
      BY <2>1, <3>1, <3>2
  <2> QED
    BY <2>3, <2>4 DEF FlightTypeOK, AskedInv
<1> QED
  BY <1>1, <1>2

(* What the AS says of a ticket, if a session c of the user answers, and o *)
(* is what it reads as the operation of the session.                       *)
Told(q, c, o) ==
    [type |-> "CNF", uid |-> q.uid, tid |-> q.tid,
     op |-> Read(IF session[c].tid = q.tid THEN o ELSE FOP_E)]

(* A question is answered, or not, by a session of its user or by ERR.     *)
LEMMA AnswerGiven ==
    ASSUME AccessTypeOK, NEW k \in DOMAIN questions, ASAnswers(k)
    PROVE  LET q == questions[k]
           IN  \/ /\ session' = session /\ Server!TypeOK'
                  /\ \/ answers' = answers
                     \/ q.present /\ answers' = Append(answers, [type |-> "ERR"])
               \/ \E c \in Sessions :
                     /\ Server!Validate(c, q.tid)
                     /\ \/ answers' = answers
                        \/ /\ q.present
                           /\ \E o \in Server!OpRead(c) :
                                 answers' = Append(answers, Told(q, c, o))
<1> DEFINE q == questions[k]
           loggedIn == {c \in Sessions : session[c].uid = q.uid}
<1>0. Server!TypeOK /\ q.uid \in Uids /\ q.tid \in Tids
  BY QuestionFields DEF AccessTypeOK
<1>1. /\ \/ \E c \in loggedIn : Server!Validate(c, q.tid)
         \/ loggedIn = {} /\ Server!Forget({})
      /\ answers' = Carried(answers, AnswerTo(q))
  BY DEF ASAnswers
<1> HIDE DEF q
<1>2. \/ answers' = answers
      \/ \E m \in AnswerTo(q) : answers' = Append(answers, m)
  BY <1>1, CarriedOne
<1>3. CASE Server!Forget({})
  <2>1. session' = session /\ verdict' = {} /\ Server!TypeOK'
    BY <1>0, <1>3, NothingForgotten
  <2>2. \A m \in AnswerTo(q) : q.present /\ m = [type |-> "ERR"]
    BY <2>1 DEF AnswerTo
  <2> QED
    BY <1>2, <2>1, <2>2 DEF q
<1>4. ASSUME NEW c \in loggedIn, Server!Validate(c, q.tid)
      PROVE  \/ answers' = answers
             \/ /\ q.present
                /\ \E o \in Server!OpRead(c) :
                      answers' = Append(answers, Told(q, c, o))
  <2>1. c \in Sessions /\ session[c].uid = q.uid
    OBVIOUS
  <2>2. PICK o \in Server!OpRead(c) :
            verdict' = {[uid |-> session[c].uid, tid |-> q.tid,
                         op |-> IF session[c].tid = q.tid THEN o ELSE FOP_E]}
    BY <1>0, <1>4, <2>1, ValidateStep
  <2>3. \A m \in AnswerTo(q) : q.present /\ m = Told(q, c, o)
    BY <2>1, <2>2 DEF AnswerTo, Told
  <2> QED
    BY <1>2, <2>3
<1> QED
  BY <1>1, <1>3, <1>4 DEF q

LEMMA ToldFields ==
    ASSUME AccessTypeOK, RequestedInv, NEW q \in Question, NEW c \in Sessions,
           NEW o \in Server!OpRead(c)
    PROVE  /\ Told(q, c, o) \in Answer /\ Told(q, c, o).type = "CNF"
           /\ Told(q, c, o).uid = q.uid /\ Told(q, c, o).tid = q.tid
           /\ Named(Told(q, c, o))
           /\ Good(Told(q, c, o)) => session[c].tid # NoTid
<1> DEFINE p == Read(IF session[c].tid = q.tid THEN o ELSE FOP_E)
<1>1. q.uid \in Uids /\ q.tid \in Tids /\ q.tid # NoTid
  BY ConstantsAssumption DEF ConstantsAssumption, Question
<1>2. session[c].tid # NoTid =>
          session[c].op # NoOp \/ session[c].tid \in unasked
  BY DEF RequestedInv, SessionsNamed
<1>3. session[c].op \in requested \cup {NoOp} /\ session[c].op \in Ops \cup {NoOp}
  BY SessionFields DEF RequestedInv, SessionsNamed, AccessTypeOK
<1>4. /\ p \in Ops \cup {FOP_E}
      /\ p \in requested \cup {FOP_E} \/ q.tid \in unasked
      /\ p # FOP_E => session[c].tid # NoTid
  <2>1. CASE session[c].tid # q.tid
    BY <2>1 DEF Read
  <2>2. CASE session[c].tid = q.tid /\ session[c].op = NoOp
    BY <1>1, <1>2, <2>2 DEF Read, Server!OpRead
  <2>3. CASE session[c].tid = q.tid /\ session[c].op # NoOp
    BY <1>1, <1>3, <2>3 DEF Read, Server!OpRead
  <2> QED
    BY <2>1, <2>2, <2>3
<1>5. Told(q, c, o) = [type |-> "CNF", uid |-> q.uid, tid |-> q.tid, op |-> p]
  BY DEF Told
<1> HIDE DEF p
<1> QED
  BY <1>1, <1>4, <1>5 DEF Named, Good, Answer, Confirmation

(* One datagram less.                                                      *)
LEMMA QuestionGone ==
    ASSUME AccessTypeOK, AskedInv, NEW k \in DOMAIN questions,
           questions' = Without(questions, k), asked' = asked
    PROVE  /\ questions' \in Seq(Question)
           /\ \A j \in DOMAIN questions' :
                 questions'[j].present =>
                   [uid |-> questions'[j].uid, tid |-> questions'[j].tid] \in asked'
<1>1. questions \in Seq(Question)
  BY DEF AccessTypeOK
<1>2. /\ questions' \in Seq(Question)
      /\ \A j \in DOMAIN questions' :
            \E i \in DOMAIN questions : questions'[j] = questions[i]
  BY <1>1, WithoutOne
<1> QED
  BY <1>2 DEF AskedInv

LEMMA AnswerGone ==
    ASSUME AccessTypeOK, NEW k \in DOMAIN answers,
           answers' = Without(answers, k)
    PROVE  /\ answers' \in Seq(Answer)
           /\ \A j \in DOMAIN answers' :
                 \E i \in DOMAIN answers : answers'[j] = answers[i]
<1>1. answers \in Seq(Answer)
  BY DEF AccessTypeOK
<1> QED
  BY <1>1, WithoutOne

LEMMA ASFlight ==
    ASSUME AccessTypeOK, AskedInv, RequestedInv, NEW k \in DOMAIN questions,
           ASAnswers(k)
    PROVE  FlightTypeOK' /\ AskedInv'
<1> DEFINE q == questions[k]
<1>1. questions' = Without(questions, k) /\ asked' = asked
  BY DEF ASAnswers, vars
<1>2. /\ questions' \in Seq(Question)
      /\ \A j \in DOMAIN questions' :
            questions'[j].present =>
                [uid |-> questions'[j].uid, tid |-> questions'[j].tid] \in asked'
  BY <1>1, QuestionGone
<1>3. q \in Question /\ (q.present => [uid |-> q.uid, tid |-> q.tid] \in asked)
  BY QuestionFields DEF AskedInv
<1>4. \/ answers' = answers
      \/ /\ q.present
         /\ \/ answers' = Append(answers, [type |-> "ERR"])
            \/ \E c \in Sessions : \E o \in Server!OpRead(c) :
                  answers' = Append(answers, Told(q, c, o))
  BY AnswerGiven
<1> HIDE DEF q
<1>5. CASE answers' = answers
  BY <1>1, <1>2, <1>5 DEF FlightTypeOK, AskedInv, AccessTypeOK, Answerable
<1>6. ASSUME NEW m \in Answer, answers' = Append(answers, m), Answerable(m)
      PROVE  FlightTypeOK' /\ AskedInv'
  <2>1. /\ answers' \in Seq(Answer)
        /\ \A j \in DOMAIN answers' :
              \/ j \in DOMAIN answers /\ answers'[j] = answers[j]
              \/ answers'[j] = m
    BY <1>6, Appended DEF AccessTypeOK
  <2> QED
    BY <1>1, <1>2, <1>6, <2>1 DEF FlightTypeOK, AskedInv, Answerable
<1>7. [type |-> "ERR"] \in Answer /\ (q.present => Answerable([type |-> "ERR"]))
  BY <1>3 DEF Answer, Answerable
<1>8. ASSUME NEW c \in Sessions, NEW o \in Server!OpRead(c)
      PROVE  /\ Told(q, c, o) \in Answer
             /\ q.present => Answerable(Told(q, c, o))
  BY <1>3, ToldFields DEF Answerable
<1> QED
  BY <1>4, <1>5, <1>6, <1>7, <1>8

LEMMA NetworkFlight ==
    ASSUME AccessTypeOK, AskedInv,
           \/ \E k \in DOMAIN questions : QuestionLost(k)
           \/ \E k \in DOMAIN answers : AnswerReaches(k) \/ AnswerLost(k)
    PROVE  FlightTypeOK' /\ AskedInv'
<1>1. asked' = asked
  BY DEF QuestionLost, AnswerReaches, AnswerLost, Arrives, Outside, vars
<1>2. ASSUME NEW k \in DOMAIN questions, QuestionLost(k)
      PROVE  FlightTypeOK' /\ AskedInv'
  <2>1. questions' = Without(questions, k) /\ answers' = answers
    BY <1>2 DEF QuestionLost
  <2> QED
    BY <1>1, <2>1, QuestionGone DEF FlightTypeOK, AskedInv, AccessTypeOK, Answerable
<1>3. ASSUME NEW k \in DOMAIN answers, AnswerReaches(k) \/ AnswerLost(k)
      PROVE  FlightTypeOK' /\ AskedInv'
  <2>1. answers' = Without(answers, k) /\ questions' = questions
    BY <1>3 DEF AnswerReaches, AnswerLost
  <2> QED
    BY <1>1, <2>1, AnswerGone DEF FlightTypeOK, AskedInv, AccessTypeOK, Answerable
<1> QED
  BY <1>2, <1>3

-----------------------------------------------------------------------------
(* What was asked for, and the tickets: the steps of the file server.      *)

Counted == Server!TypeOK' /\ RequestedInv' /\ TicketInv'

LEMMA Numbers ==
    ASSUME AccessTypeOK
    PROVE  /\ IsFiniteSet(Ticketed) /\ Cardinality(Ticketed) \in Nat
           /\ Cardinality(Goods(answers)) \in Nat
           /\ Cardinality(Goods(udpIn)) \in Nat
           /\ executed \in Nat /\ granted \in Nat
<1>1. IsFiniteSet(Ticketed)
  BY AccessAssumption, FS_Subset DEF AccessAssumption, Ticketed
<1> QED
  BY <1>1, FS_CardinalityType, GoodsFinite DEF AccessTypeOK, TypeOK

(* Nothing changes but what is under way, which is less.                   *)
LEMMA FewerDatagrams ==
    ASSUME AccessTypeOK, RequestedInv, TicketInv,
           session' = session, requested' = requested, unasked' = unasked,
           granted' = granted,
           \A j \in DOMAIN answers' : \E i \in DOMAIN answers :
               answers'[j] = answers[i],
           \A j \in DOMAIN udpIn' : \E i \in DOMAIN udpIn : udpIn'[j] = udpIn[i],
           Cardinality(Goods(answers')) \in Nat,
           Cardinality(Goods(udpIn')) \in Nat,
           executed' \in Nat,
           Cardinality(Goods(answers')) <= Cardinality(Goods(answers)),
           Cardinality(Goods(udpIn')) + executed'
               <= Cardinality(Goods(udpIn)) + executed
    PROVE  RequestedInv' /\ TicketInv'
<1>1. RequestedInv'
  BY DEF RequestedInv, SessionsNamed, Named
<1>2. Ticketed' = Ticketed
  BY DEF Ticketed
<1>3. Goods(answers)' = Goods(answers') /\ Goods(udpIn)' = Goods(udpIn')
  BY DEF Goods, Good
<1> DEFINE t == Cardinality(Ticketed)
           a == Cardinality(Goods(answers))
           b == Cardinality(Goods(answers'))
           u == Cardinality(Goods(udpIn))
           v == Cardinality(Goods(udpIn'))
<1>4. {t, a, b, u, v, executed, executed', granted} \subseteq Nat
  BY Numbers
<1>5. /\ t + a + (u + executed) <= granted
      /\ b <= a /\ v + executed' <= u + executed
  BY DEF TicketInv, Spent
<1>6. TicketInv' <=> t + b + (v + executed') <= granted
  BY <1>2, <1>3 DEF TicketInv, Spent
<1> HIDE DEF t, a, b, u, v
<1>7. t + b + (v + executed') <= granted
  BY <1>4, <1>5
<1> QED
  BY <1>1, <1>6, <1>7

(* The answers that have arrived, and the operations begun, after a step   *)
(* of the file server.                                                     *)
LEMMA FSTakes ==
    ASSUME TypeInv, Executes \/ DoesNotExecute \/ UserMoves, executed \in Nat
    PROVE  /\ executed' \in Nat
           /\ \A j \in DOMAIN udpIn' :
                 \E i \in DOMAIN udpIn : udpIn'[j] = udpIn[i]
           /\ Cardinality(Goods(udpIn')) \in Nat
           /\ Cardinality(Goods(udpIn')) + executed'
                  <= Cardinality(Goods(udpIn)) + executed
<1>1. udpIn \in Seq(Answer)
  BY DEF TypeInv, TypeOK
<1>2. Cardinality(Goods(udpIn)) \in Nat
  BY <1>1, GoodsFinite
<1>3. ASSUME udpIn # <<>>
      PROVE  /\ Cardinality(Goods(Tail(udpIn))) \in Nat
             /\ Cardinality(Goods(Tail(udpIn)))
                    + (IF Good(Head(udpIn)) THEN 1 ELSE 0)
                    <= Cardinality(Goods(udpIn))
             /\ \A j \in DOMAIN Tail(udpIn) :
                   \E i \in DOMAIN udpIn : Tail(udpIn)[j] = udpIn[i]
  <2>1. Tail(udpIn) \in Seq(Answer)
    BY <1>1, <1>3, HeadAndTail
  <2> QED
    BY <1>1, <1>3, <2>1, GoodsFinite, GoodsTail, HeadAndTail
<1>4. CASE Executes
  <2>1. /\ Matching # {} /\ ReceiveAnswer("CNF")
        /\ Confirms(requests[First(Matching)])
        /\ udpIn' = Tail(udpIn) \/ udpIn' = <<>>
        /\ executed' = executed + 1
    BY <1>4 DEF Executes, Execute, StopInOperation, AnswerTaken, ProcessEnds
  <2>2. udpIn # <<>> /\ requests[First(Matching)].op \in Ops
    BY <2>1, AnswerFits DEF TypeInv
  <2>3. Good(Head(udpIn))
    BY <2>1, <2>2, OpsKnown DEF Good, ReceiveAnswer, Confirms, TheAnswer
  <2> DEFINE u == Cardinality(Goods(udpIn))
             v == Cardinality(Goods(Tail(udpIn)))
             e == executed
  <2>4. u \in Nat /\ v \in Nat /\ e \in Nat /\ v + 1 <= u
    BY <1>2, <1>3, <2>2, <2>3
  <2>5. CASE udpIn' = Tail(udpIn)
    <3>1. Cardinality(Goods(udpIn')) = v
      BY <2>5
    <3>2. executed' = e + 1
      BY <2>1
    <3> HIDE DEF u, v, e
    <3>3. e + 1 \in Nat /\ v + (e + 1) <= u + e
      BY <2>4
    <3>4. Cardinality(Goods(udpIn')) + executed' <= u + e
      BY <3>1, <3>2, <3>3
    <3>5. executed' \in Nat /\ Cardinality(Goods(udpIn')) \in Nat
      BY <2>4, <3>1, <3>2, <3>3
    <3> QED
      BY <1>3, <2>2, <2>5, <3>4, <3>5 DEF u, e
  <2>6. CASE udpIn' = <<>>
    <3>1. Cardinality(Goods(udpIn')) = 0 /\ DOMAIN udpIn' = {}
      BY <2>6, NoGoods
    <3>2. executed' = e + 1
      BY <2>1
    <3> HIDE DEF u, v, e
    <3>3. e + 1 \in Nat /\ 0 + (e + 1) <= u + e
      BY <2>4
    <3> QED
      BY <3>1, <3>2, <3>3 DEF u, e
  <2> QED
    BY <2>1, <2>5, <2>6
<1>5. CASE DoesNotExecute \/ UserMoves
  <2>1. executed' = executed
    BY <1>5 DEF DoesNotExecute, UserMoves
  <2>2. \/ udpIn' = <<>>
        \/ udpIn' = udpIn
        \/ udpIn # <<>> /\ udpIn' = Tail(udpIn)
    BY FSSteps, AsksStep DEF ProcessEnds, Goes, QueueKept
  <2> DEFINE u == Cardinality(Goods(udpIn))
             v == Cardinality(Goods(udpIn'))
  <2>3. v \in Nat /\ v <= u
    <3>1. CASE udpIn' = <<>>
      BY <1>2, <3>1, NoGoods
    <3>2. CASE udpIn' = udpIn
      BY <1>2, <3>2
    <3>3. CASE udpIn # <<>> /\ udpIn' = Tail(udpIn)
      <4>1. /\ Cardinality(Goods(Tail(udpIn))) \in Nat
            /\ \/ Cardinality(Goods(Tail(udpIn))) + 1 <= u
               \/ Cardinality(Goods(Tail(udpIn))) + 0 <= u
        BY <1>3, <3>3
      <4>2. v = Cardinality(Goods(Tail(udpIn)))
        BY <3>3
      <4> HIDE DEF v
      <4> QED
        BY <1>2, <4>1, <4>2
    <3> QED
      BY <2>2, <3>1, <3>2, <3>3
  <2>4. \A j \in DOMAIN udpIn' : \E i \in DOMAIN udpIn : udpIn'[j] = udpIn[i]
    BY <1>3, <2>2
  <2>5. u \in Nat
    BY <1>2
  <2> HIDE DEF u, v
  <2>6. v + executed <= u + executed
    BY <2>3, <2>5
  <2> QED
    BY <2>1, <2>3, <2>4, <2>6 DEF u, v
<1> QED
  BY <1>4, <1>5

LEMMA FSCounted ==
    ASSUME TypeInv, AccessTypeOK, RequestedInv, TicketInv, FSMoves
    PROVE  Counted
<1>1. session' = session /\ Server!TypeOK'
  BY NothingForgotten DEF FSMoves, AccessTypeOK
<1>2. requested' = requested /\ unasked' = unasked /\ granted' = granted
  BY DEF FSMoves
<1>3. answers' = answers \/ answers' = <<>>
  BY PostedStep DEF FSMoves
<1>4. /\ \A j \in DOMAIN answers' : \E i \in DOMAIN answers :
             answers'[j] = answers[i]
      /\ Cardinality(Goods(answers')) \in Nat
      /\ Cardinality(Goods(answers')) <= Cardinality(Goods(answers))
  BY <1>3, Numbers, NoGoods
<1>5. executed \in Nat
  BY DEF AccessTypeOK
<1>6. /\ executed' \in Nat
      /\ \A j \in DOMAIN udpIn' :
            \E i \in DOMAIN udpIn : udpIn'[j] = udpIn[i]
      /\ Cardinality(Goods(udpIn')) \in Nat
      /\ Cardinality(Goods(udpIn')) + executed'
             <= Cardinality(Goods(udpIn)) + executed
  BY <1>5, FSTakes DEF FSMoves
<1> QED
  BY <1>1, <1>2, <1>4, <1>6, FewerDatagrams DEF Counted

-----------------------------------------------------------------------------
(* What was asked for, and the tickets: the steps of the AS.               *)

(* A step of the AS alone: it gives a ticket, or none.                     *)
LEMMA SessionsCounted ==
    ASSUME AccessTypeOK, RequestedInv, TicketInv,
           UNCHANGED <<vars, network, executed>>,
           Server!TypeOK', SessionsNamed',
           requested \subseteq requested', unasked \subseteq unasked',
           \/ Ticketed' \subseteq Ticketed /\ granted' = granted
           \/ /\ \E c : Ticketed' \subseteq Ticketed \cup {c}
              /\ granted' = granted + 1
    PROVE  Counted
<1>1. RequestedInv'
  BY DEF RequestedInv, Named, vars, kernel, network
<1>2. /\ Goods(answers)' = Goods(answers) /\ Goods(udpIn)' = Goods(udpIn)
      /\ executed' = executed
  BY DEF vars, kernel, network
<1> DEFINE t == Cardinality(Ticketed)
           x == Cardinality(Ticketed')
           a == Cardinality(Goods(answers))
           u == Cardinality(Goods(udpIn))
<1>3. {t, a, u, executed, granted} \subseteq Nat /\ IsFiniteSet(Ticketed)
  BY Numbers
<1>4. /\ x \in Nat /\ granted' \in Nat
      /\ \/ x <= t /\ granted' = granted
         \/ x <= t + 1 /\ granted' = granted + 1
  <2>1. CASE Ticketed' \subseteq Ticketed /\ granted' = granted
    BY <1>3, <2>1, FS_Subset, FS_CardinalityType
  <2>2. ASSUME NEW c, Ticketed' \subseteq Ticketed \cup {c},
               granted' = granted + 1
        PROVE  x \in Nat /\ granted' \in Nat /\ x <= t + 1
    <3> DEFINE T == Ticketed
               U == Ticketed \cup {c}
    <3>1. /\ IsFiniteSet(U)
          /\ Cardinality(U) = IF c \in T THEN t ELSE t + 1
      BY <1>3, FS_AddElement
    <3>2. x <= Cardinality(U) /\ x \in Nat
      BY <2>2, <3>1, FS_Subset, FS_CardinalityType
    <3>3. t \in Nat /\ granted \in Nat
      BY <1>3
    <3> HIDE DEF U, T, t, x
    <3>4. x \in Nat /\ x <= t + 1
      BY <3>1, <3>2, <3>3
    <3> QED
      BY <2>2, <3>3, <3>4
  <2> QED
    BY <2>1, <2>2
<1>5. t + a + (u + executed) <= granted
  BY DEF TicketInv, Spent
<1>6. TicketInv' <=> x + a + (u + executed) <= granted'
  BY <1>2 DEF TicketInv, Spent
<1> HIDE DEF t, x, a, u
<1>7. x + a + (u + executed) <= granted'
  BY <1>3, <1>4, <1>5
<1> QED
  BY <1>1, <1>6, <1>7 DEF Counted

LEMMA LoginCounted ==
    ASSUME AccessTypeOK, RequestedInv, TicketInv,
           NEW c \in Sessions, NEW u \in Uids, ASLogin(c, u)
    PROVE  Counted
<1>1. /\ Server!TypeOK'
      /\ \A d \in Sessions : /\ session'[d].op = session[d].op
                             /\ session'[d].tid = session[d].tid
  BY LoginStep DEF AccessTypeOK, ASLogin
<1>2. /\ requested' = requested /\ unasked' = unasked
      /\ granted' = granted /\ executed' = executed
  BY DEF ASLogin, history
<1>3. SessionsNamed'
  BY <1>1, <1>2 DEF RequestedInv, SessionsNamed
<1>4. Ticketed' \subseteq Ticketed
  BY <1>1 DEF Ticketed
<1> QED
  BY <1>1, <1>2, <1>3, <1>4, SessionsCounted DEF ASLogin

LEMMA RequestCounted ==
    ASSUME AccessTypeOK, RequestedInv, TicketInv,
           NEW c \in Sessions, NEW o \in Ops, ASRequest(c, o)
    PROVE  Counted
<1>1. /\ Server!TypeOK'
      /\ \A d \in Sessions :
            /\ session'[d].tid = session[d].tid
            /\ session'[d].op = IF d = c THEN o ELSE session[d].op
  BY RequestStep DEF AccessTypeOK, ASRequest
<1>2. /\ requested' = requested \cup {o} /\ unasked' = unasked
      /\ granted' = granted /\ executed' = executed
  BY DEF ASRequest
<1>3. o # NoOp
  BY OpsKnown
<1>4. SessionsNamed'
  BY <1>1, <1>2, <1>3 DEF RequestedInv, SessionsNamed
<1>5. Ticketed' \subseteq Ticketed
  BY <1>1 DEF Ticketed
<1> QED
  BY <1>1, <1>2, <1>4, <1>5, SessionsCounted DEF ASRequest

LEMMA GrantCounted ==
    ASSUME AccessTypeOK, RequestedInv, TicketInv,
           NEW c \in Sessions, NEW t \in Tids, ASGrant(c, t)
    PROVE  Counted
<1>1. /\ Server!TypeOK'
      /\ session'[c].tid = t
      /\ \A d \in Sessions :
            /\ session'[d].op = session[d].op
            /\ d # c => session'[d].tid = session[d].tid
  BY GrantStep DEF AccessTypeOK, ASGrant
<1>2. /\ requested' = requested /\ granted' = granted + 1
      /\ executed' = executed
      /\ unasked \subseteq unasked'
      /\ session[c].op = NoOp => t \in unasked'
  BY DEF ASGrant
<1>3. SessionsNamed'
  BY <1>1, <1>2 DEF RequestedInv, SessionsNamed
<1>4. Ticketed' \subseteq Ticketed \cup {c}
  BY <1>1 DEF Ticketed
<1> QED
  BY <1>1, <1>2, <1>3, <1>4, SessionsCounted DEF ASGrant

LEMMA ForgetCounted ==
    ASSUME AccessTypeOK, RequestedInv, TicketInv,
           NEW C \in SUBSET Sessions, ASForget(C)
    PROVE  Counted
<1>1. /\ Server!TypeOK'
      /\ \A d \in Sessions :
            \/ session'[d] = session[d]
            \/ session'[d].op = NoOp /\ session'[d].tid = NoTid
  BY ForgetStep DEF AccessTypeOK, ASForget
<1>2. /\ requested' = requested /\ unasked' = unasked
      /\ granted' = granted /\ executed' = executed
  BY DEF ASForget, history
<1>3. SessionsNamed'
  BY <1>1, <1>2 DEF RequestedInv, SessionsNamed
<1>4. Ticketed' \subseteq Ticketed
  BY <1>1 DEF Ticketed
<1> QED
  BY <1>1, <1>2, <1>3, <1>4, SessionsCounted DEF ASForget

(* A ticket that is confirmed leaves its session for the answer.           *)
LEMMA AnswersCounted ==
    ASSUME AccessTypeOK, RequestedInv, TicketInv, NEW k \in DOMAIN questions,
           ASAnswers(k)
    PROVE  Counted
<1> DEFINE q == questions[k]
<1>1. /\ requested' = requested /\ unasked' = unasked
      /\ granted' = granted /\ executed' = executed
      /\ udpIn' = udpIn
  BY DEF ASAnswers, history, vars, kernel
<1>2. q \in Question /\ q.tid \in Tids
  BY QuestionFields
<1>3. Server!TypeOK /\ answers \in Seq(Answer)
  BY DEF AccessTypeOK
<1>4. ASSUME session' = session, Server!TypeOK',
             \/ answers' = answers
             \/ answers' = Append(answers, [type |-> "ERR"])
      PROVE  Counted
  <2>1. [type |-> "ERR"] \in Answer /\ ~Good([type |-> "ERR"])
        /\ Named([type |-> "ERR"])
    BY DEF Answer, Good, Named
  <2>2. CASE answers' = answers
    <3>1. RequestedInv' /\ TicketInv'
      BY <1>1, <1>4, <2>2
      DEF RequestedInv, SessionsNamed, TicketInv, Named, Ticketed, Spent
    <3> QED
      BY <1>4, <3>1 DEF Counted
  <2>3. CASE answers' = Append(answers, [type |-> "ERR"])
    <3> DEFINE m == [type |-> "ERR"]
    <3>1. m \in Answer /\ ~Good(m) /\ Named(m) /\ answers' = Append(answers, m)
      BY <2>1, <2>3
    <3> HIDE DEF m
    <3>2. /\ \A j \in DOMAIN answers' :
                \/ j \in DOMAIN answers /\ answers'[j] = answers[j]
                \/ answers'[j] = m
          /\ answers' \in Seq(Answer)
      BY <1>3, <3>1, Appended
    <3>3. RequestedInv'
      BY <1>1, <1>4, <3>1, <3>2 DEF RequestedInv, SessionsNamed, Named
    <3> DEFINE t == Cardinality(Ticketed)
               a == Cardinality(Goods(answers))
               b == Cardinality(Goods(answers'))
               u == Cardinality(Goods(udpIn))
    <3>4. b <= a + 0 /\ b \in Nat
      BY <1>3, <3>1, <3>2, OneMore, GoodsFinite
    <3>5. {t, a, u, executed, granted} \subseteq Nat
      BY Numbers
    <3>6. t + a + (u + executed) <= granted
      BY DEF TicketInv, Spent
    <3>7. TicketInv' <=> t + b + (u + executed) <= granted
      BY <1>1, <1>4 DEF TicketInv, Spent, Ticketed, Goods, Good
    <3> HIDE DEF t, a, b, u
    <3>8. t + b + (u + executed) <= granted
      BY <3>4, <3>5, <3>6
    <3> QED
      BY <1>4, <3>3, <3>7, <3>8 DEF Counted
  <2> QED
    BY <1>4, <2>2, <2>3
<1>5. ASSUME NEW c \in Sessions, Server!Validate(c, q.tid),
             NEW o \in Server!OpRead(c),
             \/ answers' = answers
             \/ answers' = Append(answers, Told(q, c, o))
      PROVE  Counted
  <2> DEFINE m == Told(q, c, o)
  <2>1. /\ m \in Answer /\ Named(m)
        /\ Good(m) => session[c].tid # NoTid
    BY <1>2, ToldFields
  <2>2. /\ Server!TypeOK'
        /\ session'[c].tid = NoTid
        /\ \A d \in Sessions :
              /\ session'[d].op = session[d].op
              /\ d # c => session'[d].tid = session[d].tid
    BY <1>2, <1>3, <1>5, ValidateStep
  <2>3. answers' = answers \/ answers' = Append(answers, m)
    BY <1>5
  <2> HIDE DEF m
  <2>4. /\ \A j \in DOMAIN answers' :
              \/ j \in DOMAIN answers /\ answers'[j] = answers[j]
              \/ answers'[j] = m
        /\ answers' \in Seq(Answer)
    BY <1>3, <2>1, <2>3, Appended
  <2>5. RequestedInv'
    <3>1. SessionsNamed'
      BY <1>1, <2>2 DEF RequestedInv, SessionsNamed
    <3>2. \A j \in DOMAIN answers' : Named(answers[j])'
      BY <1>1, <2>1, <2>4 DEF RequestedInv, Named
    <3>3. \A j \in DOMAIN udpIn' : Named(udpIn[j])'
      BY <1>1 DEF RequestedInv, Named
    <3> QED
      BY <3>1, <3>2, <3>3 DEF RequestedInv
  <2> DEFINE t == Cardinality(Ticketed)
             x == Cardinality(Ticketed')
             a == Cardinality(Goods(answers))
             b == Cardinality(Goods(answers'))
             u == Cardinality(Goods(udpIn))
  <2>6. {t, a, u, executed, granted} \subseteq Nat /\ IsFiniteSet(Ticketed)
    BY Numbers
  <2>7. Ticketed' = Ticketed \ {c}
    BY <2>2 DEF Ticketed
  <2>8. /\ x \in Nat /\ x <= t
        /\ Good(m) => x = t - 1
    <3>1. /\ IsFiniteSet(Ticketed \ {c})
          /\ Cardinality(Ticketed \ {c}) = IF c \in Ticketed THEN t - 1 ELSE t
      BY <2>6, FS_RemoveElement
    <3>2. Cardinality(Ticketed \ {c}) \in Nat
      BY <3>1, FS_CardinalityType
    <3>3. Good(m) => c \in Ticketed
      BY <2>1 DEF Ticketed
    <3>4. x = Cardinality(Ticketed \ {c}) /\ t \in Nat
      BY <2>6, <2>7
    <3> HIDE DEF t, x
    <3> QED
      BY <3>1, <3>2, <3>3, <3>4
  <2>9. /\ b \in Nat
        /\ b <= a \/ (b <= a + 1 /\ Good(m))
    <3>1. b \in Nat
      BY <2>4, GoodsFinite
    <3>2. CASE answers' = answers
      <4>1. b = a /\ a \in Nat
        BY <2>6, <3>2
      <4> HIDE DEF a, b
      <4> QED
        BY <3>1, <4>1
    <3>3. CASE answers' = Append(answers, m)
      <4>1. b <= a + (IF Good(m) THEN 1 ELSE 0)
        BY <1>3, <2>1, <3>3, OneMore
      <4>2. a \in Nat
        BY <2>6
      <4> HIDE DEF a, b
      <4> QED
        BY <3>1, <4>1, <4>2
    <3> QED
      BY <2>3, <3>2, <3>3
  <2>10. t + a + (u + executed) <= granted
    BY DEF TicketInv, Spent
  <2>11. TicketInv' <=> x + b + (u + executed) <= granted
    BY <1>1 DEF TicketInv, Spent, Goods, Good
  <2> HIDE DEF t, x, a, b, u
  <2>12. x + b + (u + executed) <= granted
    BY <2>6, <2>8, <2>9, <2>10
  <2> QED
    BY <2>2, <2>5, <2>11, <2>12 DEF Counted
<1>6. \A c \in Sessions : Server!OpRead(c) # {}
  BY DEF Server!OpRead
<1> QED
  BY <1>4, <1>5, <1>6, AnswerGiven

-----------------------------------------------------------------------------
(* ... and those of the network. *)

LEMMA LostCounted ==
    ASSUME AccessTypeOK, RequestedInv, TicketInv,
           \/ \E k \in DOMAIN questions : QuestionLost(k)
           \/ \E k \in DOMAIN answers : AnswerLost(k)
    PROVE  Counted
<1>1. /\ session' = session /\ Server!TypeOK'
      /\ requested' = requested /\ unasked' = unasked
      /\ granted' = granted /\ executed' = executed
      /\ udpIn' = udpIn
  BY NothingForgotten DEF AccessTypeOK, QuestionLost, AnswerLost, history, vars,
                          kernel
<1>2. answers \in Seq(Answer)
  BY DEF AccessTypeOK
<1> DEFINE a == Cardinality(Goods(answers))
           b == Cardinality(Goods(answers'))
           u == Cardinality(Goods(udpIn))
<1>3. {a, u, executed} \subseteq Nat
  BY Numbers
<1>4. /\ b \in Nat /\ b <= a
      /\ \A j \in DOMAIN answers' : \E i \in DOMAIN answers :
             answers'[j] = answers[i]
  <2>1. CASE answers' = answers
    <3>1. b = a
      BY <2>1
    <3> HIDE DEF a, b
    <3> QED
      BY <1>3, <2>1, <3>1
  <2>2. ASSUME NEW k \in DOMAIN answers, answers' = Without(answers, k)
        PROVE  /\ b \in Nat /\ b <= a
               /\ \A j \in DOMAIN answers' : \E i \in DOMAIN answers :
                      answers'[j] = answers[i]
    <3>1. answers' \in Seq(Answer)
          /\ \A j \in DOMAIN answers' : \E i \in DOMAIN answers :
                 answers'[j] = answers[i]
      BY <2>2, AnswerGone
    <3>2. b \in Nat /\ b + (IF Good(answers[k]) THEN 1 ELSE 0) <= a
      BY <1>2, <2>2, <3>1, GoodsFinite, GoodsWithout
    <3> HIDE DEF a, b
    <3>3. b <= a
      BY <1>3, <3>2
    <3> QED
      BY <3>1, <3>2, <3>3
  <2> QED
    BY <2>1, <2>2 DEF QuestionLost, AnswerLost
<1>5. Cardinality(Goods(udpIn')) = u
  BY <1>1
<1> HIDE DEF a, b, u
<1>6. u + executed' <= u + executed /\ executed' \in Nat
  BY <1>1, <1>3
<1> QED
  BY <1>1, <1>3, <1>4, <1>5, <1>6, FewerDatagrams DEF Counted, a, b, u

(* A confirmation that reaches the file server is no longer under way. *)
LEMMA ReachesCounted ==
    ASSUME AccessTypeOK, RequestedInv, TicketInv,
           NEW k \in DOMAIN answers, AnswerReaches(k)
    PROVE  Counted
<1> DEFINE m == answers[k]
<1>1. /\ session' = session /\ Server!TypeOK'
      /\ requested' = requested /\ unasked' = unasked
      /\ granted' = granted /\ executed' = executed
      /\ udpIn' = Append(udpIn, m) /\ answers' = Without(answers, k)
  BY NothingForgotten DEF AccessTypeOK, AnswerReaches, Arrives, history
<1>2. /\ answers \in Seq(Answer) /\ udpIn \in Seq(Answer)
      /\ m \in Answer
  BY LenProperties, ElementOfSeq DEF AccessTypeOK, TypeOK
<1>3. Named(m)
  BY DEF RequestedInv
<1>4. /\ answers' \in Seq(Answer)
      /\ \A j \in DOMAIN answers' : \E i \in DOMAIN answers :
             answers'[j] = answers[i]
  BY <1>1, AnswerGone
<1> DEFINE t == Cardinality(Ticketed)
           a == Cardinality(Goods(answers))
           b == Cardinality(Goods(answers'))
           u == Cardinality(Goods(udpIn))
           v == Cardinality(Goods(udpIn'))
           good == IF Good(m) THEN 1 ELSE 0
<1>5. b + good <= a /\ b \in Nat
  BY <1>1, <1>2, <1>4, GoodsWithout, GoodsFinite
<1> HIDE DEF m
<1>6. /\ udpIn' \in Seq(Answer)
      /\ \A j \in DOMAIN udpIn' :
            \/ j \in DOMAIN udpIn /\ udpIn'[j] = udpIn[j]
            \/ udpIn'[j] = m
  BY <1>1, <1>2, Appended
<1>7. v <= u + good /\ v \in Nat
  BY <1>1, <1>2, <1>6, OneMore, GoodsFinite
<1>8. {t, a, u, executed, granted} \subseteq Nat
  BY Numbers
<1>9. RequestedInv'
  BY <1>1, <1>3, <1>4, <1>6 DEF RequestedInv, SessionsNamed, Named
<1>10. t + a + (u + executed) <= granted
  BY DEF TicketInv, Spent
<1>11. TicketInv' <=> t + b + (v + executed) <= granted
  BY <1>1 DEF TicketInv, Spent, Goods, Good, Ticketed
<1>12. good \in {0, 1}
  OBVIOUS
<1> HIDE DEF t, a, b, u, v, good
<1>13. t + b + (v + executed) <= granted
  BY <1>5, <1>7, <1>8, <1>10, <1>12
<1> QED
  BY <1>1, <1>9, <1>11, <1>13 DEF Counted

-----------------------------------------------------------------------------
(* The composition. *)

LEMMA InitAccess == AccessInit => AccessInv
<1> SUFFICES ASSUME AccessInit PROVE AccessInv
  OBVIOUS
<1>1. TypeInv
  BY InitTyped DEF AccessInit
<1>2. Server!TypeOK
  <2>1. Server!Blank \in Server!Session
    BY DEF Server!Blank, Server!Session
  <2> QED
    BY <2>1 DEF AccessInit, Server!Init, Server!TypeOK
<1>3. AccessTypeOK
  BY <1>1, <1>2, EmptySeq DEF AccessInit, AccessTypeOK, TypeInv
<1>4. AskedInv
  BY DEF AccessInit, AskedInv
<1>5. RequestedInv
  BY DEF AccessInit, Init, RequestedInv, SessionsNamed, Server!Init,
         Server!Blank
<1>6. TicketInv
  <2>1. Ticketed = {}
    BY DEF AccessInit, Server!Init, Server!Blank, Ticketed
  <2>2. Goods(answers) = {} /\ Goods(udpIn) = {}
    BY DEF AccessInit, Init, Goods
  <2> QED
    BY <2>1, <2>2, FS_EmptySet DEF AccessInit, TicketInv, Spent
<1> QED
  BY <1>1, <1>3, <1>4, <1>5, <1>6 DEF AccessInv, AccessTypeInv

LEMMA StepFlight ==
    ASSUME TypeInv, AccessTypeOK, AskedInv, RequestedInv, AccessNext
    PROVE  FlightTypeOK' /\ AskedInv'
<1>1. CASE UNCHANGED <<vars, network>>
  BY <1>1 DEF vars, network, FlightTypeOK, AccessTypeOK, AskedInv, Answerable
<1> QED
  BY <1>1, AccessCases, FSFlight, ASFlight, NetworkFlight
  DEF ASLogin, ASRequest, ASGrant, ASForget

LEMMA StepCounted ==
    ASSUME TypeInv, AccessTypeOK, RequestedInv, TicketInv, AccessNext
    PROVE  Counted
  BY AccessCases, FSCounted, LoginCounted, RequestCounted, GrantCounted,
     ForgetCounted, AnswersCounted, LostCounted, ReachesCounted

LEMMA HistoryTyped ==
    ASSUME TypeInv, AccessTypeOK, AccessNext
    PROVE  /\ requested' \in SUBSET Ops /\ unasked' \in SUBSET Tids
           /\ granted' \in Nat /\ executed' \in Nat
<1>1. /\ executed \in Nat /\ granted \in Nat
      /\ requested \in SUBSET Ops /\ unasked \in SUBSET Tids
  BY DEF AccessTypeOK
<1>2. CASE FSMoves
  BY <1>1, <1>2, FSTakes DEF FSMoves
<1>3. CASE UNCHANGED history
  BY <1>1, <1>3 DEF history
<1> QED
  BY <1>1, <1>2, <1>3, AccessCases
  DEF ASLogin, ASRequest, ASGrant, ASForget, ASAnswers, QuestionLost,
      AnswerReaches, AnswerLost

LEMMA StepAccess == AccessInv /\ [AccessNext]_accessVars => AccessInv'
<1>1. ASSUME AccessInv, AccessNext PROVE AccessInv'
  <2>1. TypeInv /\ AccessTypeOK /\ AskedInv /\ RequestedInv /\ TicketInv
    BY <1>1 DEF AccessInv, AccessTypeInv
  <2>2. TypeInv'
    BY <1>1, <2>1, StepBehaves, StepTyped
  <2>3. FlightTypeOK' /\ AskedInv'
    BY <1>1, <2>1, StepFlight
  <2>4. Server!TypeOK' /\ RequestedInv' /\ TicketInv'
    BY <1>1, <2>1, StepCounted DEF Counted
  <2>5. /\ requested' \in SUBSET Ops /\ unasked' \in SUBSET Tids
        /\ granted' \in Nat /\ executed' \in Nat
    BY <1>1, <2>1, HistoryTyped
  <2>6. AccessTypeOK'
    BY <2>2, <2>3, <2>4, <2>5 DEF AccessTypeOK, TypeInv, FlightTypeOK
  <2> QED
    BY <2>2, <2>3, <2>4, <2>6 DEF AccessInv, AccessTypeInv
<1>2. ASSUME AccessInv, UNCHANGED accessVars PROVE AccessInv'
  <2>1. TypeInv'
    BY <1>2, StepTyped DEF AccessInv, AccessTypeInv, accessVars
  <2>2. AccessTypeOK'
    BY <1>2, <2>1 DEF AccessInv, AccessTypeInv, AccessTypeOK, accessVars, TypeInv,
                      Server!TypeOK
  <2>3. AskedInv'
    BY <1>2 DEF AccessInv, AskedInv, accessVars, vars, Answerable
  <2>4. RequestedInv'
    BY <1>2 DEF AccessInv, RequestedInv, SessionsNamed, Named, accessVars, vars,
                kernel
  <2>5. TicketInv'
    BY <1>2 DEF AccessInv, TicketInv, Spent, Ticketed, Goods, Good, accessVars,
                vars, kernel
  <2> QED
    BY <2>1, <2>2, <2>3, <2>4, <2>5 DEF AccessInv, AccessTypeInv
<1> QED
  BY <1>1, <1>2

LEMMA AccessHolds == AccessSpec => []AccessInv
  BY InitAccess, StepAccess, PTL DEF AccessSpec

(* The two servers and what is under way between them stay within their    *)
(* types.                                                                  *)
THEOREM AccessTypeCorrect == AccessSpec => []AccessTypeOK
<1>1. AccessInv => AccessTypeOK
  BY DEF AccessInv, AccessTypeInv
<1> QED
  BY <1>1, AccessHolds, PTL

(* The AS answers only what the file server asked: the file server of the  *)
(* composition takes no step that FS does not have, so that what is proved *)
(* of FS holds here.                                                       *)
THEOREM FSIsServed == AccessSpec => FSBehaves
<1>1. AccessInv /\ [AccessNext]_accessVars => [UNCHANGED vars \/ Next]_vars
  BY StepBehaves DEF AccessInv, AccessTypeInv
<1> QED
  BY <1>1, AccessHolds, PTL DEF AccessSpec, FSBehaves

(* So what FS_proofs says of a file server is true of this one, whose      *)
(* answers come from what AS promises, over a network that loses them      *)
(* or delays them.                                                         *)
THEOREM FSKeepsItsWord ==
    AccessSpec => /\ [](ListedDescriptors /\ UploadsKeptApart)
                  /\ StoresWhatWasSent
                  /\ StoresWithinLimit
<1>1. AccessSpec => Spec
  <2>1. AccessInit => Init
    BY DEF AccessInit
  <2>2. AccessSpec => AccessInit
    BY DEF AccessSpec
  <2>3. [UNCHANGED vars \/ Next]_vars => [Next]_vars
    OBVIOUS
  <2> QED
    BY <2>1, <2>2, <2>3, FSIsServed, PTL DEF Spec, FSBehaves
<1> QED
  BY <1>1, DescriptorsAreSound, UploadsDoNotMix, StoredWasSent, LimitKept, PTL

(* The file server begins no more operations than tickets were given, over *)
(* a network that loses, delays and reorders datagrams but repeats none.   *)
THEOREM TicketsAreSpentOnce == AccessSpec => []OneOperationPerTicket
<1>1. ASSUME AccessInv PROVE OneOperationPerTicket
  <2> DEFINE t == Cardinality(Ticketed)
             a == Cardinality(Goods(answers))
             u == Cardinality(Goods(udpIn))
  <2>1. {t, a, u, executed, granted} \subseteq Nat
    BY <1>1, Numbers DEF AccessInv, AccessTypeInv
  <2>2. t + a + (u + executed) <= granted
    BY <1>1 DEF AccessInv, TicketInv, Spent
  <2> HIDE DEF t, a, u
  <2> QED
    BY <2>1, <2>2 DEF OneOperationPerTicket
<1> QED
  BY <1>1, AccessHolds, PTL

(* What it begins is what the AS was asked for, or has a ticket that the   *)
(* AS gave without being asked.                                            *)
THEOREM RequestedIsExecuted == AccessSpec => ExecutesWhatWasRequested
<1> DEFINE r == requests[First(Matching)]
<1>1. ASSUME AccessInv, [AccessNext]_accessVars, executed' # executed
      PROVE  r.op \in requested \/ r.tid \in unasked
  <2>1. Executes
    BY <1>1, AccessCases
    DEF accessVars, FSMoves, DoesNotExecute, UserMoves, ASLogin, ASRequest,
        ASGrant, ASForget, ASAnswers, QuestionLost, AnswerReaches, AnswerLost,
        history
  <2>2. /\ Matching # {} /\ ReceiveAnswer("CNF") /\ Confirms(r)
    BY <2>1 DEF Executes, Execute, StopInOperation
  <2>3. /\ udpIn # <<>> /\ udpIn \in Seq(Answer)
        /\ First(Matching) \in Matching /\ r.op \in Ops
    BY <1>1, <2>2, AnswerFits, FirstListed DEF AccessInv, AccessTypeInv, TypeInv,
                                               TypeOK, Matching
  <2>4. Named(Head(udpIn))
    BY <1>1, <2>3, HeadAndTail DEF AccessInv, RequestedInv
  <2>5. Head(udpIn).op = r.op /\ Head(udpIn).tid = r.tid
    BY <2>2, <2>3 DEF Matching, Confirms, TheAnswer
  <2> QED
    BY <2>2, <2>3, <2>4, <2>5, OpsKnown DEF Named, ReceiveAnswer, TheAnswer
<1>2. AccessInv /\ [AccessNext]_accessVars =>
          [executed' # executed =>
               LET a == requests[First(Matching)]
               IN  a.op \in requested \/ a.tid \in unasked]_accessVars
  BY <1>1
<1> QED
  BY <1>2, AccessHolds, PTL DEF AccessSpec, ExecutesWhatWasRequested
=============================================================================
