---------------------------- MODULE User_proofs ----------------------------
(***************************************************************************)
(* What holds of the User program for any users, files and bounds: types,  *)
(* that it follows no NULL connection, and under which name it stores.     *)
(***************************************************************************)
EXTENDS User, TLAPS

(* The steps of the program and of its surroundings, one name for each.    *)
LEMMA NextCases ==
    ASSUME Next
    PROVE  \/ Select \/ LoopEnd
           \/ Shown \/ resp_val \/ ServerLost
           \/ resp_status \/ resp_retrieve \/ StoreBegins \/ StoreEnds
           \/ StoreBroken \/ FSEnds
           \/ \E u \in Uids : req_login(u)
           \/ \E valid \in BOOLEAN : req_request(valid) \/ req_val(valid)
           \/ \E op \in Ops : req_file(op)
           \/ Misnamed \/ Missing \/ Ignored \/ Exit
           \/ Environment \/ Kill \/ Start
  BY DEF Next, UserStep, handleASServer, handleFSServer, handleUser

LEMMA NothingTyped ==
    Nothing \in [as : BOOLEAN, fs : BOOLEAN, stdin : BOOLEAN, idle : BOOLEAN]
  BY DEF Nothing

LEMMA EmptySequence == ASSUME NEW S PROVE <<>> \in Seq(S)
  OBVIOUS

(* A file that is cut short holds the program up or ends it.               *)
Stuck ==
    /\ pc' = "stuck"
    /\ UNCHANGED <<memory, waitingReply, nRequestTries, ready, stdin, asVars,
                   fsVars>>

(* A step that ends the process, or starts one, begins anew.               *)
LEMMA Renewals ==
    ASSUME ServerLost \/ FSEnds \/ Exit \/ Kill \/ Start \/ StoreBroken
    PROVE  Stuck \/ \E where \in {"select", "down"} : Renew(where)
  BY DEF ServerLost, FSEnds, Exit, Kill, Start, StoreBroken, ProcessEnds,
         Stuck

LEMMA ReadLineCases ==
    ASSUME \/ \E u \in Uids : req_login(u)
           \/ \E valid \in BOOLEAN : req_request(valid) \/ req_val(valid)
           \/ \E op \in Ops : req_file(op)
           \/ Misnamed \/ Missing \/ Ignored
    PROVE  ReadLine
  BY DEF req_login, req_request, req_val, req_file, Misnamed, Missing, Ignored

-----------------------------------------------------------------------------
(* The terminal is read only if select found a line there, and a line that *)
(* was found stays until it is read.                                       *)
LineIsThere == ready.stdin => stdin # 0

LEMMA LineStays ==
    ASSUME TypeOK, LineIsThere, Next
    PROVE  LineIsThere'
  <1> USE DEF LineIsThere, TypeOK
  <1>1. CASE Select
    BY <1>1 DEF Select, ReadableNow
  <1>2. CASE LoopEnd
    BY <1>2 DEF LoopEnd, Nothing
  <1>3. CASE Shown \/ resp_val
    BY <1>3 DEF Shown, resp_val, ReceiveAS
  <1>4. CASE resp_status \/ resp_retrieve \/ StoreEnds
    BY <1>4 DEF resp_status, resp_retrieve, StoreEnds, Answered
  <1>5. CASE StoreBegins
    BY <1>5 DEF StoreBegins
  <1>6. CASE ReadLine
    BY <1>6 DEF ReadLine
  <1>7. CASE \E where \in {"select", "down"} : Renew(where)
    BY <1>7 DEF Renew, Nothing
  <1>8. CASE Stuck
    BY <1>8 DEF Stuck
  <1>9. CASE Environment
    <2>1. UNCHANGED ready /\ stdin' \in {stdin, stdin + 1}
      BY <1>9 DEF Environment, Outside, Types, ASAnswers, Reply,
                  DeviceAnswers, ASLeaves, FSAnswers, FSLeaves
    <2> QED
      BY <2>1
  <1> QED
    BY <1>1, <1>2, <1>3, <1>4, <1>5, <1>6, <1>7, <1>8, <1>9, NextCases,
       ReadLineCases, Renewals

(* Types of what controls the loop. *)
LEMMA ControlTyped ==
    ASSUME TypeOK, LineIsThere, Next
    PROVE  /\ pc' \in {"select", "serving", "storing", "stuck", "down"}
           /\ ready' \in [as : BOOLEAN, fs : BOOLEAN, stdin : BOOLEAN,
                          idle : BOOLEAN]
           /\ waitingReply' \in BOOLEAN
           /\ nRequestTries' \in 0 .. NREQUEST_TRIES
           /\ stdin' \in 0 .. MaxLines
  <1> USE DEF TypeOK
  <1>0. NREQUEST_TRIES \in Nat /\ MaxLines \in Nat
    BY ConstantsAssumption
  <1>1. CASE Select
    BY <1>1 DEF Select, ReadableNow, Nothing
  <1>2. CASE LoopEnd
    <2>1. \/ GiveUp
          \/ ~TriesUsedUp /\ Resend
          \/ UNCHANGED <<waitingReply, nRequestTries>>
      BY <1>2 DEF LoopEnd
    <2>2. nRequestTries' \in 0 .. NREQUEST_TRIES /\ waitingReply' \in BOOLEAN
      <3>1. CASE GiveUp
        BY <3>1 DEF GiveUp
      <3>2. CASE ~TriesUsedUp /\ Resend
        BY <1>0, <3>2 DEF Resend, TriesUsedUp
      <3>3. CASE UNCHANGED <<waitingReply, nRequestTries>>
        BY <3>3
      <3> QED
        BY <2>1, <3>1, <3>2, <3>3
    <2> QED
      BY <1>2, <2>2 DEF LoopEnd, Nothing
  <1>3. CASE Shown \/ resp_val
    BY <1>3 DEF Shown, resp_val, ReceiveAS
  <1>4. CASE resp_status \/ resp_retrieve \/ StoreEnds
    BY <1>4 DEF resp_status, resp_retrieve, StoreEnds, Answered
  <1>5. CASE \E where \in {"select", "down"} : Renew(where)
    <2>1. 0 \in 0 .. NREQUEST_TRIES /\ 0 \in 0 .. MaxLines
      BY <1>0
    <2> QED
      BY <1>5, <2>1, NothingTyped DEF Renew
  <1>6. CASE StoreBegins \/ Stuck
    BY <1>6 DEF StoreBegins, Stuck
  <1>7. CASE ReadLine /\ waitingReply' \in BOOLEAN
    <2>1. stdin' \in 0 .. MaxLines
      BY <1>0, <1>7 DEF ReadLine, UserTurn, LineIsThere
    <2> QED
      BY <1>7, <2>1 DEF ReadLine
  <1>8. waitingReply' \in BOOLEAN
        \/ ~(\/ \E u \in Uids : req_login(u)
             \/ \E valid \in BOOLEAN : req_request(valid) \/ req_val(valid)
             \/ \E op \in Ops : req_file(op)
             \/ Misnamed \/ Missing \/ Ignored)
    BY DEF req_login, req_request, req_val, req_file, Misnamed, Missing,
           Ignored
  <1>9. CASE Environment
    <2>1. UNCHANGED <<pc, ready, waitingReply, nRequestTries>>
      BY <1>9 DEF Environment, Outside, Types, ASAnswers, DeviceAnswers,
                  ASLeaves, FSAnswers, FSLeaves
    <2>2. stdin' = stdin \/ (stdin < MaxLines /\ stdin' = stdin + 1)
      BY <1>9 DEF Environment, Types, ASAnswers, Reply, DeviceAnswers,
                  ASLeaves, FSAnswers, FSLeaves
    <2> QED
      BY <1>0, <2>1, <2>2
  <1> QED
    BY <1>1, <1>2, <1>3, <1>4, <1>5, <1>6, <1>7, <1>8, <1>9, NextCases,
       ReadLineCases, Renewals

(* Types of what the program remembers. *)
LEMMA MemoryTyped ==
    ASSUME TypeOK, Next
    PROVE  /\ uid' \in Uids \cup {NoUid}
           /\ ridSet' \in BOOLEAN
           /\ tid' \in Tids \cup {NoTid}
           /\ fsOp' \in Ops \cup {NoOp}
           /\ fsConnected' \in BOOLEAN
           /\ filename' \in Names \cup {NoName}
  <1> USE DEF TypeOK, memory
  <1>1. CASE Select \/ LoopEnd \/ StoreBegins
    BY <1>1 DEF Select, LoopEnd, StoreBegins
  <1>2. CASE Shown
    BY <1>2 DEF Shown, ReceiveAS
  <1>3. CASE resp_val
    <2>1. asIn # <<>> /\ Head(asIn).type = "RAU"
      BY <1>3 DEF resp_val, ReceiveAS
    <2>2. Head(asIn) \in ASAnswer
      BY <2>1
    <2>3. Head(asIn).tid \in Tids \cup {NoTid}
      BY <2>1, <2>2 DEF ASAnswer
    <2> QED
      BY <1>3, <2>3 DEF resp_val, ReceiveAS
  <1>4. CASE resp_status \/ resp_retrieve \/ StoreEnds
    BY <1>4 DEF resp_status, resp_retrieve, StoreEnds, Answered
  <1>5. CASE \E where \in {"select", "down"} : Renew(where)
    BY <1>5 DEF Renew
  <1>6. CASE Stuck
    BY <1>6 DEF Stuck
  <1>7. CASE \E u \in Uids : req_login(u)
    BY <1>7 DEF req_login
  <1>8. CASE \E valid \in BOOLEAN : req_request(valid) \/ req_val(valid)
    BY <1>8 DEF req_request, req_val
  <1>9. CASE \E op \in Ops : req_file(op)
    <2>1. PICK op \in Ops : req_file(op)
      BY <1>9
    <2>2. op.fop = "R" => op.name \in Names
      BY ConstantsAssumption DEF Operation
    <2> QED
      BY <2>1, <2>2 DEF req_file, KeepName
  <1>10. CASE Misnamed \/ Missing \/ Ignored
    BY <1>10 DEF Misnamed, Missing, Ignored
  <1>11. CASE Environment
    BY <1>11 DEF Environment, Outside, Types, ASAnswers, DeviceAnswers,
                 ASLeaves, FSAnswers, FSLeaves
  <1> QED
    BY <1>1, <1>2, <1>3, <1>4, <1>5, <1>6, <1>7, <1>8, <1>9, <1>10, <1>11,
       NextCases, Renewals

(* Types of what is on its way between the program and the servers. *)
LEMMA ServersTyped ==
    ASSUME TypeOK, Next
    PROVE  /\ toAS' \in Seq(ASRequest) /\ asIn' \in Seq(ASAnswer)
           /\ asUp' \in BOOLEAN /\ coded' \in BOOLEAN
           /\ fsIn' \in FSAnswer /\ fsGone' \in BOOLEAN
  <1> USE DEF TypeOK, asVars, fsVars
  <1>1. CASE Select \/ LoopEnd \/ StoreBegins
    BY <1>1 DEF Select, LoopEnd, StoreBegins
  <1>2. CASE Shown \/ resp_val
    <2>1. asIn' = <<>> /\ UNCHANGED <<toAS, asUp, coded, fsIn, fsGone>>
      BY <1>2 DEF Shown, resp_val, ReceiveAS
    <2> QED
      BY <2>1, EmptySequence
  <1>3. CASE resp_status \/ resp_retrieve \/ StoreEnds
    BY <1>3 DEF resp_status, resp_retrieve, StoreEnds, Answered, NoAnswer,
                FSAnswer
  <1>4. CASE \E where \in {"select", "down"} : Renew(where)
    <2>1. toAS' = <<>> /\ asIn' = <<>>
      BY <1>4 DEF Renew
    <2>2. asUp' = TRUE /\ coded' = FALSE /\ fsIn' = "none" /\ fsGone' = FALSE
      BY <1>4 DEF Renew
    <2> QED
      BY <2>1, <2>2, EmptySequence DEF FSAnswer
  <1>5. CASE Stuck
    BY <1>5 DEF Stuck
  <1>6. ASSUME NEW m \in ASRequest, Send(m)
        PROVE  toAS' \in Seq(ASRequest) /\ UNCHANGED <<asIn, asUp, coded>>
    BY <1>6 DEF Send
  <1>7. CASE \E u \in Uids : req_login(u)
    BY <1>6, <1>7 DEF req_login, ASRequest
  <1>8. CASE \E valid \in BOOLEAN : req_request(valid)
    BY <1>6, <1>8 DEF req_request, ASRequest
  <1>9. CASE \E valid \in BOOLEAN : req_val(valid)
    BY <1>6, <1>9 DEF req_val, ASRequest
  <1>10. CASE \E op \in Ops : req_file(op)
    BY <1>10 DEF req_file, NoAnswer, FSAnswer
  <1>11. CASE Misnamed \/ Missing \/ Ignored
    BY <1>11 DEF Misnamed, Missing, Ignored, NoAnswer, FSAnswer
  <1>12. ASSUME NEW m \in ASAnswer, Reply(m)
         PROVE  asIn' \in Seq(ASAnswer) /\ UNCHANGED <<asUp, fsVars>>
    BY <1>12 DEF Reply
  <1>13. /\ \A t \in Tids \cup {NoTid} : [type |-> "RAU", tid |-> t] \in ASAnswer
         /\ \A y \in {"RLO", "RRQ", "ERR"} : [type |-> y] \in ASAnswer
    BY DEF ASAnswer
  <1>14. CASE Environment
    <2>1. CASE Types
      BY <2>1 DEF Types
    <2>2. ASSUME NEW k \in 1 .. MaxPending, ASAnswers(k)
          PROVE  /\ toAS' \in Seq(ASRequest) /\ asIn' \in Seq(ASAnswer)
                 /\ coded' \in BOOLEAN /\ UNCHANGED <<asUp, fsVars>>
      <3>1. toAS' \in Seq(ASRequest)
        <4>1. k + 1 \in Nat /\ k + 1 >= 1
          BY ConstantsAssumption
        <4>2. toAS' = SubSeq(toAS, k + 1, Len(toAS))
          BY <2>2 DEF ASAnswers
        <4> QED
          BY <4>1, <4>2
      <3>2. \/ \E m \in ASAnswer : Reply(m) /\ UNCHANGED coded
            \/ coded' = TRUE /\ UNCHANGED <<asIn, asUp, fsVars>>
        BY <1>13, <2>2 DEF ASAnswers
      <3> QED
        BY <1>12, <3>1, <3>2
    <2>3. CASE DeviceAnswers
      <3>1. Reply([type |-> "RRQ"]) /\ UNCHANGED <<toAS, coded>>
        BY <2>3 DEF DeviceAnswers
      <3>2. [type |-> "RRQ"] \in ASAnswer
        BY <1>13
      <3>3. asIn' \in Seq(ASAnswer)
        BY <1>12, <3>1, <3>2
      <3>4. UNCHANGED <<toAS, coded, asUp, fsIn, fsGone>>
        BY <3>1 DEF Reply
      <3> QED
        BY <3>3, <3>4
    <2>4. CASE ASLeaves
      BY <2>4, EmptySequence DEF ASLeaves
    <2>5. CASE (\E a \in FSAnswer : FSAnswers(a)) \/ FSLeaves
      BY <2>5 DEF FSAnswers, FSLeaves
    <2> QED
      BY <1>14, <2>1, <2>2, <2>3, <2>4, <2>5 DEF Environment
  <1> QED
    BY <1>1, <1>2, <1>3, <1>4, <1>5, <1>7, <1>8, <1>9, <1>10, <1>11, <1>14,
       NextCases, Renewals

LEMMA InitTyped == ASSUME Init PROVE TypeOK /\ LineIsThere
  <1>1. 0 \in 0 .. NREQUEST_TRIES /\ 0 \in 0 .. MaxLines
    BY ConstantsAssumption
  <1>2. toAS \in Seq(ASRequest) /\ asIn \in Seq(ASAnswer)
    BY EmptySequence DEF Init
  <1>3. LineIsThere
    BY DEF Init, LineIsThere, Nothing
  <1> QED
    BY <1>1, <1>2, <1>3, NothingTyped DEF Init, TypeOK, FSAnswer

LEMMA Typed == Spec => [](TypeOK /\ LineIsThere)
  <1>1. TypeOK /\ LineIsThere /\ [Next]_vars => (TypeOK /\ LineIsThere)'
    <2> SUFFICES ASSUME TypeOK, LineIsThere, [Next]_vars
                 PROVE  TypeOK' /\ LineIsThere'
      OBVIOUS
    <2>1. CASE Next
      BY <2>1, LineStays, ControlTyped, MemoryTyped, ServersTyped DEF TypeOK
    <2>2. CASE UNCHANGED vars
      BY <2>2 DEF vars, memory, asVars, fsVars, TypeOK, LineIsThere
    <2> QED
      BY <2>1, <2>2
  <1> QED
    BY <1>1, InitTyped, PTL DEF Spec

(* The program's state and what it sends stay within their types, for any  *)
(* users, files, number of tries and bounds.                               *)
THEOREM TypeCorrect == Spec => []TypeOK
  BY Typed, PTL

-----------------------------------------------------------------------------
(* What the program knows of its file connection changes when a command is *)
(* performed, when an answer is handled, and with the process.             *)
LEMMA ConnectionKept ==
    ASSUME \/ Select \/ LoopEnd \/ Shown \/ resp_val \/ StoreBegins
           \/ Environment \/ Ignored
           \/ \E u \in Uids : req_login(u)
           \/ \E valid \in BOOLEAN : req_request(valid) \/ req_val(valid)
    PROVE  UNCHANGED <<fsOp, fsConnected, filename>>
  <1> USE DEF memory
  <1>1. CASE Select \/ LoopEnd \/ Shown \/ resp_val \/ StoreBegins \/ Ignored
    BY <1>1 DEF Select, LoopEnd, Shown, resp_val, ReceiveAS, StoreBegins,
                Ignored
  <1>2. CASE Environment
    BY <1>2 DEF Environment, Outside, Types, ASAnswers, DeviceAnswers,
                ASLeaves, FSAnswers, FSLeaves
  <1>3. CASE \/ \E u \in Uids : req_login(u)
             \/ \E valid \in BOOLEAN : req_request(valid) \/ req_val(valid)
    BY <1>3 DEF req_login, req_request, req_val
  <1> QED
    BY <1>1, <1>2, <1>3

(* Whatever ends a connection ends fsConnected with it. *)
LEMMA Disconnects ==
    ASSUME \/ resp_status \/ resp_retrieve \/ StoreEnds
           \/ Misnamed \/ Missing
           \/ \E where \in {"select", "down"} : Renew(where)
    PROVE  fsConnected' = FALSE
  BY DEF resp_status, resp_retrieve, StoreEnds, Answered, Misnamed, Missing,
         Renew

ConnectionInv == ConnectedIsOpen /\ StoresUnderItsName

LEMMA ConnectionPreserved ==
    ASSUME ConnectionInv, Next
    PROVE  ConnectionInv'
  <1> USE DEF ConnectionInv, ConnectedIsOpen, StoresUnderItsName
  <1>1. CASE UNCHANGED <<fsOp, fsConnected, filename>>
    BY <1>1
  <1>2. CASE fsConnected' = FALSE
    BY <1>2
  <1>3. CASE \E op \in Ops : req_file(op)
    BY <1>3, ConstantsAssumption DEF req_file, KeepName
  <1>4. CASE Stuck
    BY <1>1, <1>4 DEF Stuck, memory
  <1> QED
    BY <1>1, <1>2, <1>3, <1>4, NextCases, ConnectionKept, Disconnects,
       Renewals

LEMMA ConnectionHolds == Spec => []ConnectionInv
  <1>1. Init => ConnectionInv
    BY DEF Init, ConnectionInv, ConnectedIsOpen, StoresUnderItsName
  <1>2. ConnectionInv /\ [Next]_vars => ConnectionInv'
    <2> SUFFICES ASSUME ConnectionInv, [Next]_vars
                 PROVE  ConnectionInv'
      OBVIOUS
    <2>1. CASE UNCHANGED vars
      BY <2>1 DEF vars, memory, ConnectionInv, ConnectedIsOpen,
                  StoresUnderItsName
    <2> QED
      BY <2>1, ConnectionPreserved
  <1> QED
    BY <1>1, <1>2, PTL DEF Spec

(* A program that counts as connected to the file server has a connection: *)
(* runUser never follows a NULL fsConnection.                              *)
THEOREM NoNullConnection == Spec => []ConnectedIsOpen
  BY ConnectionHolds, PTL DEF ConnectionInv

(* The file of a retrieval is stored under the name it was asked for,      *)
(* whatever was typed or answered in between.                              *)
THEOREM StoredUnderItsName == Spec => []StoresUnderItsName
  BY ConnectionHolds, PTL DEF ConnectionInv
=============================================================================
