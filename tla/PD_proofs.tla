------------------------------ MODULE PD_proofs ------------------------------
(***************************************************************************)
(* What holds of the device for any users and any bounds: types, what a    *)
(* waiting device would resend, when it listens for codes, and how often a *)
(* request is resent.                                                      *)
(***************************************************************************)
EXTENDS PD, TLAPS

(* The steps of the device and of its surroundings, one name for each.     *)
LEMMA NextCases ==
    ASSUME Next
    PROVE  \/ Select \/ GiveUp \/ req_resendLastMessage \/ resp_valCode
           \/ CompareWithNull \/ OtherServerMessage \/ Registered
           \/ NotRegistered \/ resp_unregisterUser \/ ClientError
           \/ FatalAnswer \/ handleUser \/ LoopHead \/ cleanPD \/ Exit
           \/ Outside \/ Signal \/ Kill \/ Start
  BY DEF Next, DeviceStep, handleClient

(* What is read is of the type of what is queued. *)
LEMMA HeadAndTail ==
    ASSUME NEW S, NEW s \in Seq(S), s # <<>>
    PROVE  Head(s) \in S /\ Tail(s) \in Seq(S)
  OBVIOUS

(* Whatever handleUser reads, it performs one of the commands. *)
LEMMA HandleUserPerforms ==
    ASSUME TypeOK, handleUser
    PROVE  \E line \in Command, code \in {exitCode, "EXIT_FAILURE"} :
               Perform(line, code)
  <1>1. Head(stdin) \in Line
    BY HeadAndTail DEF TypeOK, MessagesTypeOK, handleUser
  <1>2. CASE Head(stdin).cmd = "eof"
    <2>1. PICK line \in Command : Perform(line, "EXIT_FAILURE")
      BY <1>2 DEF handleUser
    <2> QED BY <2>1
  <1>3. CASE Head(stdin).cmd # "eof"
    <2>1. Head(stdin) \in Command
      BY <1>1, <1>3 DEF Line
    <2>2. Perform(Head(stdin), exitCode)
      BY <1>3 DEF handleUser
    <2> QED BY <2>1, <2>2
  <1> QED BY <1>2, <1>3

-----------------------------------------------------------------------------
(* Types of what controls the loop. *)
LEMMA ControlTyped ==
    ASSUME TypeOK, Next
    PROVE  ControlTypeOK'
  <1> USE DEF ControlTypeOK, TypeOK, Nothing
  <1>0. NREQUEST_TRIES \in Nat
    BY ParametersAssumption
  <1>z. 0 \in 0 .. NREQUEST_TRIES /\ 0 \in 0 .. NREQUEST_TRIES + 1
    BY <1>0
  <1>1. CASE Select
    BY <1>1 DEF Select, ReadableNow, UserTypeOK, Memory
  <1>2. CASE GiveUp
    BY <1>z, <1>2 DEF GiveUp
  <1>3. CASE req_resendLastMessage
    <2>1. nRequestTries' \in 0 .. NREQUEST_TRIES
      BY <1>0, <1>3 DEF req_resendLastMessage, TriesUsedUp
    <2>2. resends' \in 0 .. NREQUEST_TRIES + 1
      BY <1>0, <1>3 DEF req_resendLastMessage, OneMoreResend
    <2> QED
      BY <1>3, <2>1, <2>2 DEF req_resendLastMessage
  <1>4. CASE resp_valCode
    BY <1>4 DEF resp_valCode, ReceiveServer
  <1>5. CASE CompareWithNull
    BY <1>5 DEF CompareWithNull, Memory
  <1>6. CASE OtherServerMessage
    BY <1>6 DEF OtherServerMessage, ReceiveServer
  <1>7. CASE Registered
    BY <1>7 DEF Registered, ReceiveClient
  <1>8. CASE NotRegistered
    BY <1>8 DEF NotRegistered, ReceiveClient
  <1>9. CASE resp_unregisterUser
    BY <1>9 DEF resp_unregisterUser, ReceiveClient
  <1>10. CASE ClientError
    BY <1>10 DEF ClientError, ReceiveClient
  <1>11. CASE FatalAnswer
    BY <1>11 DEF FatalAnswer, ReceiveClient
  <1>12. CASE handleUser
    <2>1. PICK line \in Command, code \in {exitCode, "EXIT_FAILURE"} :
              Perform(line, code)
      BY <1>12, HandleUserPerforms
    <2>2. /\ exitCode' \in {"RUNTIME", "EXIT_SUCCESS", "EXIT_FAILURE"}
          /\ waitingReply' \in BOOLEAN
          /\ resends' \in 0 .. NREQUEST_TRIES + 1
      BY <1>z, <2>1 DEF Perform, req_registerUser, req_unregisterUser, Ask,
                        Ignore
    <2> QED
      BY <1>12, <2>2 DEF handleUser
  <1>13. CASE LoopHead
    BY <1>13 DEF LoopHead, Memory
  <1>14. CASE cleanPD
    BY <1>14 DEF cleanPD
  <1>15. CASE Exit \/ Kill \/ Start
    <2>1. PICK where \in {"select", "down"} : Renew(where)
      BY <1>15 DEF Exit, Kill, Start
    <2>2. nRequestTries' \in 0 .. NREQUEST_TRIES
          /\ resends' \in 0 .. NREQUEST_TRIES + 1
      BY <1>z, <2>1 DEF Renew
    <2> QED
      BY <2>1, <2>2 DEF Renew
  <1>16. CASE Outside
    BY <1>16 DEF Outside, Types, AnswerArrives, ServerMessageArrives, Memory
  <1>17. CASE Signal
    BY <1>17 DEF Signal, Memory
  <1> QED
    BY <1>1, <1>2, <1>3, <1>4, <1>5, <1>6, <1>7, <1>8, <1>9, <1>10, <1>11,
       <1>12, <1>13, <1>14, <1>15, <1>16, <1>17, NextCases

(* Types of what the device knows. *)
LEMMA UserTyped ==
    ASSUME TypeOK, Next
    PROVE  UserTypeOK'
  <1> USE DEF UserTypeOK, TypeOK
  <1>1. CASE Select \/ LoopHead \/ Signal \/ CompareWithNull
    BY <1>1 DEF Select, LoopHead, Signal, CompareWithNull, Memory
  <1>2. CASE GiveUp \/ req_resendLastMessage
    BY <1>2 DEF GiveUp, req_resendLastMessage
  <1>3. CASE resp_valCode \/ OtherServerMessage
    BY <1>3 DEF resp_valCode, OtherServerMessage, ReceiveServer
  <1>4. CASE Registered \/ NotRegistered \/ ClientError \/ FatalAnswer
    BY <1>4 DEF Registered, NotRegistered, ClientError, FatalAnswer,
                KeepSockets
  <1>5. CASE resp_unregisterUser
    BY <1>5 DEF resp_unregisterUser, KeepSockets
  <1>6. CASE handleUser
    <2>1. PICK line \in Command, code \in {exitCode, "EXIT_FAILURE"} :
              Perform(line, code)
      BY <1>6, HandleUserPerforms
    <2>2. user' \in Users \cup {NoUser} /\ asOpen' \in BOOLEAN
          /\ asked' \in SUBSET {"REG", "UNR"}
      <3>1. CASE line.cmd = "reg" /\ req_registerUser(line.user, code)
        <4>1. line.user \in Users
          BY <3>1 DEF Command
        <4> QED
          BY <3>1, <4>1 DEF req_registerUser, Ask, Ignore
      <3>2. CASE line.cmd = "exit" /\ req_unregisterUser(code)
        BY <3>2 DEF req_unregisterUser, Ask, Ignore
      <3>3. CASE line.cmd = "other" /\ UNCHANGED <<asOpen, user, asked>>
        BY <3>3
      <3> QED
        BY <2>1, <3>1, <3>2, <3>3 DEF Perform, Ignore
    <2> QED
      BY <1>6, <2>2 DEF handleUser
  <1>7. CASE cleanPD
    BY <1>7 DEF cleanPD
  <1>8. CASE Exit \/ Kill \/ Start
    BY <1>8 DEF Exit, Kill, Start, Renew
  <1>9. CASE Outside
    BY <1>9 DEF Outside, Types, AnswerArrives, ServerMessageArrives, Memory
  <1> QED
    BY <1>1, <1>2, <1>3, <1>4, <1>5, <1>6, <1>7, <1>8, <1>9, NextCases

-----------------------------------------------------------------------------
(* What a step sends is a message, and so is what its buffer holds.        *)
LEMMA SentTyped ==
    ASSUME TypeOK, WaitsForItsRequest, Next
    PROVE  /\ msgBuffer' \in DeviceMsg \cup {[type |-> "none"]}
           /\ sent' \in SUBSET DeviceMsg
  <1> USE DEF TypeOK, MessagesTypeOK
  <1>1. CASE Select \/ LoopHead \/ Signal \/ CompareWithNull
    BY <1>1 DEF Select, LoopHead, Signal, CompareWithNull, Memory
  <1>2. CASE GiveUp
    BY <1>2 DEF GiveUp
  <1>3. CASE req_resendLastMessage
    <2>1. msgBuffer = [type |-> IF connected THEN "UNR" ELSE "REG",
                       user |-> user]
      BY <1>3 DEF req_resendLastMessage, Silence, InSelect, Waits,
                  WaitsForItsRequest
    <2>2. msgBuffer \in DeviceMsg
      BY <2>1 DEF DeviceMsg, UserTypeOK
    <2> QED
      BY <1>3, <2>2 DEF req_resendLastMessage
  <1>4. CASE resp_valCode
    <2> DEFINE st == IF Head(pdIn).uid = user.uid /\ Head(pdIn).ok
                     THEN "OK" ELSE "NOK"
               m == [type |-> "RVC", uid |-> user.uid, status |-> st]
    <2>1. user.uid \in Uids
      BY <1>4, ParametersAssumption DEF resp_valCode, UserTypeOK
    <2>2. m \in DeviceMsg
      <3>1. st \in {"OK", "NOK"}
        OBVIOUS
      <3> HIDE DEF st
      <3> QED
        BY <2>1, <3>1 DEF DeviceMsg
    <2>3. msgBuffer' = m /\ sent' = {m}
      BY <1>4 DEF resp_valCode, Say
    <2> QED
      BY <2>2, <2>3
  <1>5. CASE OtherServerMessage
    BY <1>5 DEF OtherServerMessage, DeviceMsg
  <1>6. CASE Registered \/ NotRegistered \/ resp_unregisterUser \/ ClientError
    BY <1>6 DEF Registered, NotRegistered, resp_unregisterUser, ClientError,
                SaysNothing
  <1>7. CASE FatalAnswer
    BY <1>7 DEF FatalAnswer, Say, DeviceMsg
  <1>8. CASE handleUser
    <2>1. PICK line \in Command, code \in {exitCode, "EXIT_FAILURE"} :
              Perform(line, code)
      BY <1>8, HandleUserPerforms
    <2>2. ASSUME NEW type \in {"REG", "UNR"}, NEW u \in Users \cup {NoUser},
                 Ask(type, u)
          PROVE  msgBuffer' \in DeviceMsg /\ sent' \in SUBSET DeviceMsg
      BY <2>2 DEF Ask, Say, DeviceMsg
    <2>3. CASE Ignore
      BY <2>3 DEF Ignore, SaysNothing
    <2>4. CASE line.cmd = "reg" /\ req_registerUser(line.user, code)
      <3>1. line.user \in Users
        BY <2>4 DEF Command
      <3>2. Ignore \/ Ask("REG", line.user)
        BY <2>4 DEF req_registerUser
      <3> QED
        BY <2>2, <2>3, <3>1, <3>2
    <2>5. CASE line.cmd = "exit" /\ req_unregisterUser(code)
      <3>1. Ignore \/ Ask("UNR", user)
        BY <2>5 DEF req_unregisterUser
      <3> QED
        BY <2>2, <2>3, <3>1 DEF UserTypeOK
    <2> QED
      BY <2>1, <2>3, <2>4, <2>5 DEF Perform
  <1>9. CASE cleanPD
    BY <1>9 DEF cleanPD, Say, SaysNothing, DeviceMsg, UserTypeOK
  <1>10. CASE Exit \/ Kill \/ Start
    BY <1>10 DEF Exit, Kill, Start, Renew
  <1>11. CASE Outside
    BY <1>11 DEF Outside, Types, AnswerArrives, ServerMessageArrives, Memory
  <1> QED
    BY <1>1, <1>2, <1>3, <1>4, <1>5, <1>6, <1>7, <1>8, <1>9, <1>10, <1>11,
       NextCases

(* The queues hold what the kernel was given, and lose it at the end.      *)
LEMMA QueuesTyped ==
    ASSUME TypeOK, Next
    PROVE  stdin' \in Seq(Line) /\ asIn' \in Seq(Answer)
               /\ pdIn' \in Seq(ServerMsg)
  <1> USE DEF TypeOK, MessagesTypeOK
  <1>1. CASE Select \/ LoopHead \/ Signal
    BY <1>1 DEF Select, LoopHead, Signal
  <1>2. CASE GiveUp \/ req_resendLastMessage \/ cleanPD
    BY <1>2 DEF GiveUp, req_resendLastMessage, cleanPD
  <1>3. CASE resp_valCode \/ OtherServerMessage \/ CompareWithNull
    <2>1. UNCHANGED <<stdin, asIn>> /\ pdIn # <<>> /\ pdIn' = Tail(pdIn)
      BY <1>3 DEF resp_valCode, OtherServerMessage, ReceiveServer,
                  CompareWithNull
    <2> QED
      BY <2>1, HeadAndTail
  <1>4. CASE NotRegistered \/ ClientError \/ FatalAnswer
    <2>1. UNCHANGED <<stdin, pdIn>> /\ asIn # <<>> /\ asIn' = Tail(asIn)
      BY <1>4 DEF NotRegistered, ClientError, FatalAnswer, ReceiveClient,
                  KeepSockets
    <2> QED
      BY <2>1, HeadAndTail
  <1>5. CASE resp_unregisterUser
    <2>1. UNCHANGED <<stdin, pdIn>> /\ asIn # <<>> /\ asIn' = Tail(asIn)
      BY <1>5 DEF resp_unregisterUser, ReceiveClient, KeepSockets
    <2> QED
      BY <2>1, HeadAndTail
  <1>6. CASE Registered
    BY <1>6 DEF Registered, ReceiveClient
  <1>7. CASE handleUser
    <2>1. UNCHANGED <<asIn, pdIn>> /\ stdin # <<>> /\ stdin' = Tail(stdin)
      BY <1>7 DEF handleUser
    <2> QED
      BY <2>1, HeadAndTail
  <1>8. CASE Exit \/ Kill \/ Start
    <2>1. stdin' = <<>> /\ asIn' = <<>> /\ pdIn' = <<>>
      BY <1>8 DEF Exit, Kill, Start, Renew
    <2> QED
      BY <2>1
  <1>9. CASE Outside
    <2>1. CASE \E line \in Line : Types(line)
      BY <2>1 DEF Types
    <2>2. CASE \E m \in Answer : AnswerArrives(m)
      BY <2>2 DEF AnswerArrives
    <2>3. CASE \E m \in ServerMsg : ServerMessageArrives(m)
      BY <2>3 DEF ServerMessageArrives
    <2> QED
      BY <1>9, <2>1, <2>2, <2>3 DEF Outside
  <1> QED
    BY <1>1, <1>2, <1>3, <1>4, <1>5, <1>6, <1>7, <1>8, <1>9, NextCases

-----------------------------------------------------------------------------
(* While the device waits, its buffer holds its request.  The wait begins  *)
(* with Ask; every other step of the loop that changes the buffer, the     *)
(* socket, the user or the connection ends it.                             *)
LEMMA WaitPreserved ==
    ASSUME TypeOK, WaitsForItsRequest, Next
    PROVE  WaitsForItsRequest'
  <1>0. ASSUME UNCHANGED <<asOpen, msgBuffer, connected, user>>,
               Waits' => Waits
        PROVE  WaitsForItsRequest'
    BY <1>0 DEF WaitsForItsRequest
  <1> USE DEF WaitsForItsRequest, Waits
  <1>1. CASE Select \/ LoopHead \/ Signal
    <2>1. UNCHANGED <<asOpen, msgBuffer, connected, user, waitingReply>>
      BY <1>1 DEF Select, LoopHead, Signal, Memory
    <2>2. pc' \in {"select", "serving"} => pc \in {"select", "serving"}
      BY <1>1 DEF Select, InSelect, LoopHead, Signal
    <2> QED
      BY <1>0, <2>1, <2>2
  <1>2. CASE CompareWithNull
    BY <1>2 DEF CompareWithNull
  <1>3. CASE GiveUp
    BY <1>3 DEF GiveUp
  <1>4. CASE req_resendLastMessage
    BY <1>4 DEF req_resendLastMessage
  <1>5. CASE resp_valCode \/ OtherServerMessage
    BY <1>5 DEF resp_valCode, OtherServerMessage, ReceiveServer
  <1>6. CASE Registered \/ NotRegistered \/ ClientError \/ FatalAnswer
    BY <1>6 DEF Registered, NotRegistered, ClientError, FatalAnswer,
                ReceiveClient
  <1>7. CASE resp_unregisterUser
    BY <1>7 DEF resp_unregisterUser, ReceiveClient
  <1>8. CASE handleUser
    <2>1. PICK line \in Command, code \in {exitCode, "EXIT_FAILURE"} :
              Perform(line, code)
      BY <1>8, HandleUserPerforms
    <2>2. UNCHANGED connected
      BY <1>8 DEF handleUser
    <2>3. CASE Ignore
      BY <2>3 DEF Ignore
    <2>4. CASE line.cmd = "reg" /\ req_registerUser(line.user, code)
      BY <2>2, <2>3, <2>4 DEF req_registerUser, Ask, Say, TypeOK, UserTypeOK
    <2>5. CASE line.cmd = "exit" /\ req_unregisterUser(code)
      BY <2>2, <2>3, <2>5 DEF req_unregisterUser, Ask, Say, TypeOK, UserTypeOK
    <2> QED
      BY <2>1, <2>3, <2>4, <2>5 DEF Perform
  <1>9. CASE cleanPD
    BY <1>9 DEF cleanPD
  <1>10. CASE Exit \/ Kill \/ Start
    BY <1>10 DEF Exit, Kill, Start, Renew
  <1>11. CASE Outside
    <2>1. UNCHANGED <<asOpen, msgBuffer, connected, user, waitingReply, pc>>
      BY <1>11 DEF Outside, Types, AnswerArrives, ServerMessageArrives, Memory
    <2> QED
      BY <1>0, <2>1
  <1> QED
    BY <1>1, <1>2, <1>3, <1>4, <1>5, <1>6, <1>7, <1>8, <1>9, <1>10, <1>11,
       NextCases

LEMMA InitTyped == ASSUME Init PROVE TypeOK /\ WaitsForItsRequest
  <1>1. 0 \in 0 .. NREQUEST_TRIES /\ 0 \in 0 .. NREQUEST_TRIES + 1
    BY ParametersAssumption
  <1>2. ControlTypeOK
    BY <1>1 DEF Init, ControlTypeOK, Nothing
  <1>3. UserTypeOK
    BY DEF Init, UserTypeOK
  <1>4. MessagesTypeOK
    BY DEF Init, MessagesTypeOK
  <1>5. WaitsForItsRequest
    BY DEF Init, WaitsForItsRequest, Waits
  <1> QED
    BY <1>2, <1>3, <1>4, <1>5 DEF TypeOK

(* Both together are inductive: a resend sends what the buffer holds, so   *)
(* the type of what is sent depends on what a waiting device keeps there.  *)
LEMMA TypedAndWaiting == Spec => [](TypeOK /\ WaitsForItsRequest)
  <1>1. TypeOK /\ WaitsForItsRequest /\ [Next]_pdVars
            => (TypeOK /\ WaitsForItsRequest)'
    <2> SUFFICES ASSUME TypeOK, WaitsForItsRequest, [Next]_pdVars
                 PROVE  TypeOK' /\ WaitsForItsRequest'
      OBVIOUS
    <2>1. CASE Next
      <3>1. MessagesTypeOK'
        BY <2>1, SentTyped, QueuesTyped DEF MessagesTypeOK
      <3> QED
        BY <2>1, <3>1, ControlTyped, UserTyped, WaitPreserved DEF TypeOK
    <2>2. CASE UNCHANGED pdVars
      BY <2>2 DEF pdVars, TypeOK, ControlTypeOK, UserTypeOK, MessagesTypeOK,
                  WaitsForItsRequest, Waits
    <2> QED
      BY <2>1, <2>2
  <1> QED
    BY <1>1, InitTyped, PTL DEF Spec

(* The device's state and what it sends stay within their types, for any   *)
(* users, number of tries and bounds.                                      *)
THEOREM TypeCorrect == Spec => []TypeOK
  BY TypedAndWaiting, PTL

(* A waiting device keeps its own request and the socket to resend it on:  *)
(* req_resendLastMessage never sends another message than a request.       *)
THEOREM ResendsItsRequest == Spec => []WaitsForItsRequest
  BY TypedAndWaiting, PTL

-----------------------------------------------------------------------------
(* The exit code, once set, stays set while the process lives; connected   *)
(* and the server socket change together, or with the exit code.           *)
LEMMA ServesPreserved ==
    ASSUME TypeOK, ServesIffConnected, Next
    PROVE  ServesIffConnected'
  <1>1. CASE Select \/ LoopHead \/ Signal
    BY <1>1 DEF Select, InSelect, LoopHead, Signal, Memory,
                ServesIffConnected
  <1>2. CASE CompareWithNull
    BY <1>2 DEF CompareWithNull, ServesIffConnected
  <1>3. CASE GiveUp \/ req_resendLastMessage
    BY <1>3 DEF GiveUp, req_resendLastMessage, ServesIffConnected
  <1>4. CASE resp_valCode
    BY <1>4 DEF resp_valCode, ReceiveServer, ServesIffConnected
  <1>5. CASE OtherServerMessage
    BY <1>5 DEF OtherServerMessage, ReceiveServer, ServesIffConnected
  <1>6. CASE Registered
    BY <1>6 DEF Registered, ServesIffConnected
  <1>7. CASE NotRegistered
    BY <1>7 DEF NotRegistered, IsRRG, KeepSockets, ReceiveClient,
                ServesIffConnected
  <1>8. CASE resp_unregisterUser
    BY <1>8 DEF resp_unregisterUser, ServesIffConnected
  <1>9. CASE ClientError
    BY <1>9 DEF ClientError, KeepSockets, ReceiveClient, ServesIffConnected
  <1>10. CASE FatalAnswer
    BY <1>10 DEF FatalAnswer, ServesIffConnected
  <1>11. CASE handleUser
    <2>1. PICK line \in Command, code \in {exitCode, "EXIT_FAILURE"} :
              Perform(line, code)
      BY <1>11, HandleUserPerforms
    <2>2. exitCode' \in {code, "EXIT_SUCCESS"}
      BY <2>1 DEF Perform, req_registerUser, req_unregisterUser
    <2> QED
      BY <1>11, <2>2 DEF handleUser, ServesIffConnected
  <1>12. CASE cleanPD
    BY <1>12 DEF cleanPD, ServesIffConnected
  <1>13. CASE Exit \/ Kill \/ Start
    BY <1>13 DEF Exit, Kill, Start, Renew, ServesIffConnected
  <1>14. CASE Outside
    <2>1. UNCHANGED <<pc, exitCode, connected, pdOpen>>
      BY <1>14 DEF Outside, Types, AnswerArrives, ServerMessageArrives, Memory
    <2> QED
      BY <2>1 DEF ServesIffConnected
  <1> QED
    BY <1>1, <1>2, <1>3, <1>4, <1>5, <1>6, <1>7, <1>8, <1>9, <1>10, <1>11,
       <1>12, <1>13, <1>14, NextCases

(* The device has its server socket exactly while it believes it is        *)
(* registered, until it starts to leave.                                   *)
THEOREM ListensWhileConnected == Spec => []ServesIffConnected
  <1>1. Init => ServesIffConnected
    BY DEF Init, ServesIffConnected
  <1>2. TypeOK /\ ServesIffConnected /\ [Next]_pdVars => ServesIffConnected'
    <2> SUFFICES ASSUME TypeOK, ServesIffConnected, [Next]_pdVars
                 PROVE  ServesIffConnected'
      OBVIOUS
    <2>1. CASE Next
      BY <2>1, ServesPreserved
    <2>2. CASE UNCHANGED pdVars
      BY <2>2 DEF pdVars, ServesIffConnected
    <2> QED
      BY <2>1, <2>2
  <1> QED
    BY <1>1, <1>2, TypeCorrect, PTL DEF Spec

-----------------------------------------------------------------------------
(* nRequestTries is never behind the resends of the request in hand: it is *)
(* set back only together with the end of a wait.                          *)
CounterIsAhead == Waits => resends <= nRequestTries

LEMMA CountPreserved ==
    ASSUME TypeOK, CounterIsAhead, ResendsBounded, Next
    PROVE  CounterIsAhead' /\ ResendsBounded'
  <1> USE DEF CounterIsAhead, ResendsBounded, Waits
  <1>n. /\ NREQUEST_TRIES \in Nat
        /\ nRequestTries \in 0 .. NREQUEST_TRIES
        /\ resends \in 0 .. NREQUEST_TRIES + 1
    BY ParametersAssumption DEF TypeOK, ControlTypeOK
  <1>1. CASE Select \/ LoopHead \/ Signal
    BY <1>1 DEF Select, InSelect, LoopHead, Signal, Memory
  <1>2. CASE CompareWithNull
    BY <1>2 DEF CompareWithNull
  <1>3. CASE GiveUp
    BY <1>3 DEF GiveUp
  <1>4. CASE req_resendLastMessage
    <2>1. /\ nRequestTries < NREQUEST_TRIES /\ resends <= nRequestTries
          /\ nRequestTries' = nRequestTries + 1
          /\ resends' = IF resends > NREQUEST_TRIES THEN resends
                                                    ELSE resends + 1
      BY <1>4, <1>n DEF req_resendLastMessage, TriesUsedUp, OneMoreResend,
                        Silence, InSelect
    <2>2. resends' <= nRequestTries' /\ resends' <= NREQUEST_TRIES
      BY <1>n, <2>1
    <2> QED
      BY <2>2
  <1>5. CASE resp_valCode \/ OtherServerMessage
    BY <1>5 DEF resp_valCode, OtherServerMessage, ReceiveServer
  <1>6. CASE Registered \/ NotRegistered \/ ClientError \/ FatalAnswer
    BY <1>6 DEF Registered, NotRegistered, ClientError, FatalAnswer,
                ReceiveClient
  <1>7. CASE resp_unregisterUser
    BY <1>7 DEF resp_unregisterUser, ReceiveClient
  <1>8. CASE handleUser
    <2>1. PICK line \in Command, code \in {exitCode, "EXIT_FAILURE"} :
              Perform(line, code)
      BY <1>8, HandleUserPerforms
    <2>2. (waitingReply' = FALSE /\ UNCHANGED resends) \/ resends' = 0
      BY <2>1 DEF Perform, req_registerUser, req_unregisterUser, Ask, Ignore
    <2>3. UNCHANGED nRequestTries
      BY <1>8 DEF handleUser
    <2> QED
      BY <1>n, <2>2, <2>3
  <1>9. CASE cleanPD
    BY <1>9 DEF cleanPD
  <1>10. CASE Exit \/ Kill \/ Start
    BY <1>n, <1>10 DEF Exit, Kill, Start, Renew
  <1>11. CASE Outside
    <2>1. UNCHANGED <<pc, waitingReply, nRequestTries, resends>>
      BY <1>11 DEF Outside, Types, AnswerArrives, ServerMessageArrives, Memory
    <2> QED
      BY <2>1
  <1> QED
    BY <1>1, <1>2, <1>3, <1>4, <1>5, <1>6, <1>7, <1>8, <1>9, <1>10, <1>11,
       NextCases

(* No request is resent more than NREQUEST_TRIES times, although the       *)
(* counter is shared by all requests and not reset by their answers.       *)
THEOREM NoExcessResends == Spec => []ResendsBounded
  <1>1. Init => CounterIsAhead /\ ResendsBounded
    BY ParametersAssumption DEF Init, CounterIsAhead, ResendsBounded
  <1>2. TypeOK /\ CounterIsAhead /\ ResendsBounded /\ [Next]_pdVars
            => CounterIsAhead' /\ ResendsBounded'
    <2> SUFFICES ASSUME TypeOK, CounterIsAhead, ResendsBounded, [Next]_pdVars
                 PROVE  CounterIsAhead' /\ ResendsBounded'
      OBVIOUS
    <2>1. CASE Next
      BY <2>1, CountPreserved
    <2>2. CASE UNCHANGED pdVars
      BY <2>2 DEF pdVars, CounterIsAhead, ResendsBounded, Waits
    <2> QED
      BY <2>1, <2>2
  <1> QED
    BY <1>1, <1>2, TypeCorrect, PTL DEF Spec

-----------------------------------------------------------------------------
(* What the device does on its client socket, for the composition with the *)
(* AS in Registration: the server is never sent, on a socket, what the     *)
(* history of the socket does not say was asked.                           *)

SentIsAsked(m) ==
    /\ m.type \in {"REG", "UNR"} => m.type \in asked
    /\ m.type = "ERR" => asked # {}

AsksOnItsSocket ==
    /\ asked # {} => asOpen
    /\ Waits => msgBuffer.type \in asked
    /\ \A k \in DOMAIN asIn : Answerable(asIn[k])
    /\ \A m \in sent : SentIsAsked(m)
    /\ pc = "down" => ~asOpen /\ ~connected

DeviceInv == TypeOK /\ WaitsForItsRequest /\ AsksOnItsSocket

(* The answer in hand is an answer to what was asked on this socket. *)
LEMMA AnswerInHand ==
    ASSUME DeviceInv, asIn # <<>>
    PROVE  /\ TheAnswer \in Answer /\ Answerable(TheAnswer) /\ asOpen
           /\ Tail(asIn) \in Seq(Answer)
           /\ \A k \in DOMAIN Tail(asIn) :
                 k + 1 \in DOMAIN asIn /\ Tail(asIn)[k] = asIn[k + 1]
<1>1. asIn \in Seq(Answer)
  BY DEF DeviceInv, TypeOK, MessagesTypeOK
<1>2. 1 \in DOMAIN asIn /\ TheAnswer = asIn[1]
  BY <1>1 DEF TheAnswer
<1>3. Answerable(TheAnswer)
  BY <1>2 DEF DeviceInv, AsksOnItsSocket
<1>4. asOpen
  BY <1>3 DEF DeviceInv, AsksOnItsSocket, Answerable
<1> QED
  BY <1>1, <1>3, <1>4 DEF TheAnswer

(* A step that leaves the client socket and its history alone. *)
LEMMA SocketAlone ==
    ASSUME AsksOnItsSocket, UNCHANGED <<asOpen, asked, asIn, connected>>,
           Waits' => Waits /\ UNCHANGED msgBuffer,
           \A m \in sent' : SentIsAsked(m),
           pc' = "down" => pc = "down"
    PROVE  AsksOnItsSocket'
  BY DEF AsksOnItsSocket, SentIsAsked, Answerable

(* A step that asks for more, and may create the socket to do so. *)
LEMMA SocketAsks ==
    ASSUME AsksOnItsSocket, UNCHANGED asIn, asked \subseteq asked',
           asked' # {} => asOpen',
           Waits' => msgBuffer'.type \in asked',
           \A m \in sent' : SentIsAsked(m)',
           pc' # "down"
    PROVE  AsksOnItsSocket'
<1>1. (\A k \in DOMAIN asIn : Answerable(asIn[k]))'
  BY DEF AsksOnItsSocket, Answerable
<1> QED
  BY <1>1 DEF AsksOnItsSocket

LEMMA SocketPreserved ==
    ASSUME DeviceInv, Next
    PROVE  AsksOnItsSocket'
<1>0. AsksOnItsSocket /\ TypeOK /\ WaitsForItsRequest
  BY DEF DeviceInv
<1>1. CASE Select \/ LoopHead \/ Signal
  <2>1. /\ UNCHANGED <<asOpen, asked, asIn, connected, msgBuffer,
                       waitingReply>>
        /\ sent' = {}
        /\ pc' \in {"select", "serving"} => pc \in {"select", "serving"}
        /\ pc' = "down" => pc = "down"
    BY <1>1 DEF Select, InSelect, LoopHead, Signal, Memory
  <2> QED
    BY <1>0, <2>1, SocketAlone DEF Waits
<1>2. CASE CompareWithNull
  <2>1. /\ UNCHANGED <<asOpen, asked, asIn, connected>>
        /\ sent' = {} /\ pc' = "hung"
    BY <1>2 DEF CompareWithNull, Memory
  <2> QED
    BY <1>0, <2>1, SocketAlone DEF Waits
<1>3. CASE GiveUp
  <2>1. /\ UNCHANGED <<asOpen, asked, asIn, connected, pc>>
        /\ sent' = {} /\ waitingReply' = FALSE
    BY <1>3 DEF GiveUp
  <2> QED
    BY <1>0, <2>1, SocketAlone DEF Waits
<1>4. CASE req_resendLastMessage
  <2>1. /\ UNCHANGED <<asOpen, asked, asIn, connected, pc, msgBuffer,
                       waitingReply>>
        /\ sent' = {msgBuffer} /\ Waits
    BY <1>4 DEF req_resendLastMessage, Silence, InSelect, Waits
  <2>2. SentIsAsked(msgBuffer)
    BY <1>0, <2>1 DEF AsksOnItsSocket, SentIsAsked, WaitsForItsRequest
  <2> QED
    BY <1>0, <2>1, <2>2, SocketAlone DEF Waits
<1>5. CASE resp_valCode
  <2>1. /\ UNCHANGED <<asOpen, asked, asIn, connected, pc>>
        /\ waitingReply' = FALSE
        /\ \A m \in sent' : m.type = "RVC"
    BY <1>5 DEF resp_valCode, ReceiveServer, Say
  <2> QED
    BY <1>0, <2>1, SocketAlone DEF Waits, SentIsAsked
<1>6. CASE OtherServerMessage
  <2>1. /\ UNCHANGED <<asOpen, asked, asIn, connected, pc>>
        /\ waitingReply' = FALSE /\ sent' = {}
    BY <1>6 DEF OtherServerMessage, ReceiveServer
  <2> QED
    BY <1>0, <2>1, SocketAlone DEF Waits
<1>7. CASE Registered
  <2>1. /\ asOpen' = FALSE /\ asIn' = <<>> /\ asked' = {} /\ sent' = {}
        /\ waitingReply' = FALSE /\ pc' # "down"
    BY <1>7 DEF Registered, ReceiveClient, IsRRG, SaysNothing
  <2> QED
    BY <2>1 DEF AsksOnItsSocket, Waits
<1>8. ASSUME ReceiveClient, KeepSockets,
             \A m \in sent' : m.type = "ERR"
      PROVE  AsksOnItsSocket'
  <2>1. /\ asIn # <<>> /\ asIn' = Tail(asIn) /\ UNCHANGED <<asOpen, asked>>
        /\ pc' # "down" /\ ~Waits'
    BY <1>8 DEF ReceiveClient, KeepSockets, Waits
  <2>2. \A k \in DOMAIN asIn' : Answerable(asIn'[k])
    BY <1>0, <2>1, AnswerInHand DEF AsksOnItsSocket
  <2>3. asked # {}
    BY <2>1, AnswerInHand DEF Answerable
  <2>4. \A m \in sent' : SentIsAsked(m)'
    BY <1>8, <2>1, <2>3 DEF SentIsAsked
  <2> QED
    BY <1>0, <2>1, <2>2, <2>4 DEF AsksOnItsSocket, Answerable
<1>9. CASE NotRegistered \/ resp_unregisterUser \/ ClientError \/ FatalAnswer
  <2>1. \A m \in sent' : m.type = "ERR"
    BY <1>9 DEF NotRegistered, resp_unregisterUser, ClientError, FatalAnswer,
                SaysNothing, Say
  <2>2. ReceiveClient /\ KeepSockets
    BY <1>9 DEF NotRegistered, resp_unregisterUser, ClientError, FatalAnswer
  <2> QED
    BY <1>8, <2>1, <2>2
<1>10. CASE handleUser
  <2>1. PICK line \in Command, code \in {exitCode, "EXIT_FAILURE"} :
            Perform(line, code)
    BY <1>0, <1>10, HandleUserPerforms
  <2>2. UNCHANGED <<pc, connected, asIn>> /\ pc = "serving"
    BY <1>10 DEF handleUser
  <2>3. ASSUME Ignore, asOpen => asOpen' PROVE AsksOnItsSocket'
    <3>1. /\ UNCHANGED asked /\ sent' = {} /\ ~Waits'
      BY <2>3 DEF Ignore, SaysNothing, Waits
    <3>2. asked' # {} => asOpen'
      BY <1>0, <2>3, <3>1 DEF AsksOnItsSocket
    <3> QED
      BY <1>0, <2>2, <3>1, <3>2, SocketAsks
  <2>4. ASSUME NEW type \in {"REG", "UNR"}, NEW u, Ask(type, u),
               asOpen' = TRUE
        PROVE  AsksOnItsSocket'
    <3>1. /\ asked' = asked \cup {type}
          /\ msgBuffer' = [type |-> type, user |-> u]
          /\ sent' = {[type |-> type, user |-> u]}
      BY <2>4 DEF Ask, Say
    <3>2. \A m \in sent' : SentIsAsked(m)'
      BY <3>1 DEF SentIsAsked
    <3>3. pc' # "down"
      BY <2>2
    <3> QED
      BY <1>0, <2>2, <2>4, <3>1, <3>2, <3>3, SocketAsks
  <2>5. CASE line.cmd = "reg" /\ req_registerUser(line.user, code)
    BY <2>3, <2>4, <2>5 DEF req_registerUser
  <2>6. CASE line.cmd = "exit" /\ req_unregisterUser(code)
    BY <2>3, <2>4, <2>6 DEF req_unregisterUser
  <2>7. CASE line.cmd = "other" /\ Ignore /\ UNCHANGED asOpen
    BY <2>3, <2>7
  <2> QED
    BY <2>1, <2>5, <2>6, <2>7 DEF Perform
<1>11. CASE cleanPD
  <2>1. asOpen' = TRUE /\ UNCHANGED <<connected, asIn>>
        /\ pc' \in {"farewell", "ending"}
        /\ \/ asked' = asked /\ sent' = {}
           \/ asked' = asked \cup {"UNR"}
              /\ sent' = {[type |-> "UNR", user |-> user]}
    BY <1>11 DEF cleanPD, Say, SaysNothing
  <2> QED
    BY <1>0, <2>1 DEF AsksOnItsSocket, Answerable, SentIsAsked, Waits
<1>12. CASE Exit \/ Kill \/ Start
  BY <1>12 DEF Exit, Kill, Start, Renew, AsksOnItsSocket, Waits
<1>13. CASE Outside
  <2>1. /\ UNCHANGED <<pc, asOpen, asked, connected, msgBuffer, waitingReply>>
        /\ sent' = {}
    BY <1>13 DEF Outside, Types, AnswerArrives, ServerMessageArrives, Memory
  <2>2. CASE UNCHANGED asIn
    BY <1>0, <2>1, <2>2, SocketAlone DEF Waits
  <2>3. CASE \E m \in Answer : Answerable(m) /\ AnswerArrives(m)
    <3>1. PICK m \in Answer : Answerable(m) /\ asIn' = Append(asIn, m)
      BY <2>3 DEF AnswerArrives
    <3>2. asIn \in Seq(Answer)
      BY <1>0 DEF TypeOK, MessagesTypeOK
    <3>3. \A k \in DOMAIN asIn' : asIn'[k] = m \/ (k \in DOMAIN asIn
                                                   /\ asIn'[k] = asIn[k])
      BY <3>1, <3>2
    <3>4. \A k \in DOMAIN asIn' : Answerable(asIn'[k])
      BY <1>0, <3>1, <3>3 DEF AsksOnItsSocket
    <3>5. (\A k \in DOMAIN asIn : Answerable(asIn[k]))'
      BY <2>1, <3>4 DEF Answerable
    <3>6. Waits' => msgBuffer'.type \in asked'
      BY <1>0, <2>1 DEF AsksOnItsSocket, Waits
    <3> QED
      BY <1>0, <2>1, <3>5, <3>6 DEF AsksOnItsSocket
  <2> QED
    BY <1>13, <2>2, <2>3 DEF Outside, Types, ServerMessageArrives
<1> QED
  BY <1>1, <1>2, <1>3, <1>4, <1>5, <1>6, <1>7, <1>9, <1>10, <1>11, <1>12,
     <1>13, NextCases

LEMMA DeviceInvStarts == ParametersAssumption /\ Init => DeviceInv
<1> SUFFICES ASSUME ParametersAssumption, Init PROVE DeviceInv
  OBVIOUS
<1>1. AsksOnItsSocket
  BY DEF Init, AsksOnItsSocket, Waits
<1> QED
  BY <1>1, InitTyped DEF DeviceInv

LEMMA DeviceInvKept == ParametersAssumption /\ DeviceInv /\ Next => DeviceInv'
<1> SUFFICES ASSUME ParametersAssumption, DeviceInv, Next PROVE DeviceInv'
  OBVIOUS
<1>1. TypeOK /\ WaitsForItsRequest
  BY DEF DeviceInv
<1>2. MessagesTypeOK'
  BY <1>1, SentTyped, QueuesTyped DEF MessagesTypeOK
<1> QED
  BY <1>1, <1>2, ControlTyped, UserTyped, WaitPreserved, SocketPreserved
     DEF DeviceInv, TypeOK

(* What was asked on a socket stays asked until the socket is closed. *)
LEMMA AskedUntilClosed ==
    DeviceInv /\ Next => (asOpen /\ ~asOpen') \/ asked \subseteq asked'
<1> SUFFICES ASSUME DeviceInv, Next
             PROVE  (asOpen /\ ~asOpen') \/ asked \subseteq asked'
  OBVIOUS
<1>0. TypeOK /\ (asked # {} => asOpen)
  BY DEF DeviceInv, AsksOnItsSocket
<1>1. CASE Select \/ LoopHead \/ Signal \/ CompareWithNull \/ GiveUp
  BY <1>1 DEF Select, LoopHead, Signal, CompareWithNull, GiveUp
<1>2. CASE req_resendLastMessage
  BY <1>2 DEF req_resendLastMessage
<1>3. CASE resp_valCode \/ OtherServerMessage
  BY <1>3 DEF resp_valCode, OtherServerMessage, ReceiveServer
<1>4. CASE Registered
  <2>1. asIn # <<>> /\ asOpen' = FALSE
    BY <1>4 DEF Registered, ReceiveClient
  <2> QED
    BY <2>1, AnswerInHand
<1>5. CASE NotRegistered \/ resp_unregisterUser \/ ClientError \/ FatalAnswer
  BY <1>5 DEF NotRegistered, resp_unregisterUser, ClientError, FatalAnswer,
              KeepSockets
<1>6. CASE handleUser
  <2>1. PICK line \in Command, code \in {exitCode, "EXIT_FAILURE"} :
            Perform(line, code)
    BY <1>0, <1>6, HandleUserPerforms
  <2> QED
    BY <2>1 DEF Perform, req_registerUser, req_unregisterUser, Ask, Ignore
<1>7. CASE cleanPD
  BY <1>7 DEF cleanPD
<1>8. CASE Exit \/ Kill \/ Start
  BY <1>0, <1>8 DEF Exit, Kill, Start, Renew
<1>9. CASE Outside
  BY <1>9 DEF Outside, Types, AnswerArrives, ServerMessageArrives
<1> QED
  BY <1>1, <1>2, <1>3, <1>4, <1>5, <1>6, <1>7, <1>8, <1>9, NextCases

(* The device believes that it is registered, or will once it has read     *)
(* what has arrived.                                                       *)
Believes ==
    connected \/ \E k \in DOMAIN asIn :
                     asIn[k].type = "RRG" /\ asIn[k].status = "OK"

(* What it does while no validation code is sent to it: it reads none,     *)
(* sends none, and comes to believe nothing new.                           *)
LEMMA UndisturbedStep ==
    DeviceInv /\ pdIn = <<>> /\ (DeviceStep \/ Signal \/ Kill \/ Start)
        => /\ pdIn' = <<>>
           /\ \A m \in sent' : m.type # "RVC"
           /\ Believes' => Believes
<1> SUFFICES ASSUME DeviceInv, pdIn = <<>>,
                    DeviceStep \/ Signal \/ Kill \/ Start
             PROVE  /\ pdIn' = <<>>
                    /\ \A m \in sent' : m.type # "RVC"
                    /\ Believes' => Believes
  OBVIOUS
<1>0. TypeOK /\ WaitsForItsRequest
  BY DEF DeviceInv
<1>1. CASE Select \/ LoopHead \/ Signal
  BY <1>1 DEF Select, LoopHead, Signal, Memory, Believes
<1>2. CASE GiveUp
  BY <1>2 DEF GiveUp, Believes
<1>3. CASE req_resendLastMessage
  <2>1. Waits
    BY <1>3 DEF req_resendLastMessage, Silence, InSelect, Waits
  <2>2. msgBuffer.type # "RVC"
    BY <1>0, <2>1 DEF WaitsForItsRequest
  <2> QED
    BY <1>3, <2>2 DEF req_resendLastMessage, Believes
<1>4. ~(resp_valCode \/ CompareWithNull \/ OtherServerMessage)
  BY DEF resp_valCode, CompareWithNull, OtherServerMessage, ReceiveServer
<1>5. CASE handleClient
  <2>1. asIn # <<>> /\ pdIn' = <<>>
    BY <1>5 DEF handleClient, Registered, NotRegistered, resp_unregisterUser,
                ClientError, FatalAnswer, ReceiveClient, KeepSockets
  <2>2. \A m \in sent' : m.type # "RVC"
    BY <1>5 DEF handleClient, Registered, NotRegistered, resp_unregisterUser,
                ClientError, FatalAnswer, SaysNothing, Say
  <2>3. Registered => Believes
    <3>1. 1 \in DOMAIN asIn /\ TheAnswer = asIn[1]
      BY <1>0, <2>1 DEF TheAnswer, TypeOK, MessagesTypeOK
    <3> QED
      BY <3>1 DEF Registered, IsRRG, Believes
  <2>4. ~Registered => asIn' = Tail(asIn) /\ (connected' => connected)
    BY <1>0, <1>5 DEF handleClient, NotRegistered, resp_unregisterUser,
        ClientError, FatalAnswer, KeepSockets, TypeOK, UserTypeOK
  <2>5. ~Registered => (Believes' => Believes)
    <3>1. \A k \in DOMAIN Tail(asIn) :
              k + 1 \in DOMAIN asIn /\ Tail(asIn)[k] = asIn[k + 1]
      BY <2>1, AnswerInHand
    <3> QED
      BY <2>4, <3>1 DEF Believes
  <2> QED
    BY <2>1, <2>2, <2>3, <2>5
<1>6. CASE handleUser
  <2>1. PICK line \in Command, code \in {exitCode, "EXIT_FAILURE"} :
            Perform(line, code)
    BY <1>0, <1>6, HandleUserPerforms
  <2>2. \A m \in sent' : m.type # "RVC"
    BY <2>1 DEF Perform, req_registerUser, req_unregisterUser, Ask, Ignore,
                Say, SaysNothing
  <2> QED
    BY <1>6, <2>2 DEF handleUser, Believes
<1>7. CASE cleanPD
  BY <1>7 DEF cleanPD, Say, SaysNothing, Believes
<1>8. CASE Exit \/ Kill \/ Start
  BY <1>8 DEF Exit, Kill, Start, Renew, Believes
<1> QED
  BY <1>1, <1>2, <1>3, <1>4, <1>5, <1>6, <1>7, <1>8 DEF DeviceStep
=============================================================================
