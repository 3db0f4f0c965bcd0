--------------------------------- MODULE PD ---------------------------------
(***************************************************************************)
(* The personal device (src/project/src/pd): one process, one select()     *)
(* loop over the terminal, the client socket on which it registers and     *)
(* unregisters (asConnection) and the server socket on which it is sent    *)
(* validation codes (pdConnection).                                        *)
(*                                                                         *)
(* As in AS, an iteration is a Select step with the snapshot of what is    *)
(* readable, one step per handler in the order of runPD, and LoopHead.  A  *)
(* signal may come at any time.  One that comes just before select blocks  *)
(* is noted when select returns, which is the order Select, Signal.        *)
(*                                                                         *)
(* The AS and the network are represented by what may arrive: any answer   *)
(* to what was asked on a socket, late and repeated ones included, and any *)
(* validation code.  Registration composes the device with AS itself.      *)
(***************************************************************************)
EXTENDS Integers, Sequences, FiniteSets

CONSTANTS
    Uids,           \* user ids
    Users,          \* what can be typed after reg: a uid and a password
    NoUser,         \* the NULL uid and pass of userInfo
    NREQUEST_TRIES,
    MaxLines,       \* bound: typed lines the terminal holds
    MaxIn           \* bound: datagrams the kernel holds for a socket

ASSUME ParametersAssumption ==
    /\ \A u \in Users : u.uid \in Uids
    /\ NoUser \notin Users
    /\ NREQUEST_TRIES \in Nat
    /\ {MaxLines, MaxIn} \subseteq Nat

-----------------------------------------------------------------------------
(* A typed line.  "other" is a line too long or with another command, and  *)
(* "eof" the end of the input.                                             *)
Command == [cmd : {"reg"}, user : Users] \cup [cmd : {"exit", "other"}]

Line == Command \cup [cmd : {"eof"}]

(* What arrives on the client socket and on the server socket.  BAD is a   *)
(* datagram or a status of another kind.  The codes themselves are left    *)
(* out; ok says that a VLC has a file name exactly if its operation needs  *)
(* one.                                                                    *)
Answer == [type : {"RRG", "RUN"}, status : {"OK", "NOK", "BAD"}]
              \cup [type : {"ERR", "BAD"}]

ServerMsg == [type : {"VLC"}, uid : Uids, ok : BOOLEAN]
                 \cup [type : {"ERR", "BAD"}]

(* What the device sends to the AS. *)
DeviceMsg == [type : {"REG", "UNR"}, user : Users \cup {NoUser}]
                 \cup [type : {"RVC"}, uid : Uids, status : {"OK", "NOK"}]
                 \cup [type : {"ERR"}]

VARIABLES
    pc,             \* where the process stands, see ControlTypeOK
    exitCode,
    user,           \* userInfo.uid and userInfo.pass
    connected,      \* userInfo.connected
    asOpen, pdOpen, \* asConnection and pdConnection are not NULL
    waitingReply,
    nRequestTries,
    msgBuffer,      \* the last message sent, "none" before the first one
    ready,          \* the snapshot select returned
    stdin,          \* typed and not read
    asIn, pdIn,     \* datagrams the kernel holds for the two sockets
    asked,          \* history: types of the requests sent on asConnection
    resends,        \* history: how often the last request was resent
    sent            \* what the last step sent to the AS

pdVars == <<pc, exitCode, user, connected, asOpen, pdOpen, waitingReply,
            nRequestTries, msgBuffer, ready, stdin, asIn, pdIn, asked,
            resends, sent>>

Nothing == [pd |-> FALSE, as |-> FALSE, stdin |-> FALSE]

ControlTypeOK ==
    /\ pc \in {"select",        \* in select, or about to call it
               "serving",       \* between select and the test of the loop
               "farewell",      \* in the recvfrom of cleanPD
               "ending",        \* in the rest of cleanPD
               "hung",          \* in a SIGSEGV that recurs for ever
               "down"}          \* no process
    /\ exitCode \in {"RUNTIME", "EXIT_SUCCESS", "EXIT_FAILURE"}
    /\ ready \in [pd : BOOLEAN, as : BOOLEAN, stdin : BOOLEAN]
    /\ waitingReply \in BOOLEAN
    /\ nRequestTries \in 0 .. NREQUEST_TRIES
    /\ resends \in 0 .. NREQUEST_TRIES + 1

UserTypeOK ==
    /\ user \in Users \cup {NoUser}
    /\ connected \in BOOLEAN /\ asOpen \in BOOLEAN /\ pdOpen \in BOOLEAN
    /\ asked \in SUBSET {"REG", "UNR"}

MessagesTypeOK ==
    /\ msgBuffer \in DeviceMsg \cup {[type |-> "none"]}
    /\ sent \in SUBSET DeviceMsg
    /\ stdin \in Seq(Line) /\ asIn \in Seq(Answer) /\ pdIn \in Seq(ServerMsg)

TypeOK == ControlTypeOK /\ UserTypeOK /\ MessagesTypeOK

Memory == <<user, connected, asOpen, pdOpen, nRequestTries, msgBuffer>>

Init ==
    /\ pc = "select" /\ exitCode = "RUNTIME"
    /\ user = NoUser /\ connected = FALSE
    /\ asOpen = FALSE /\ pdOpen = FALSE
    /\ waitingReply = FALSE /\ nRequestTries = 0
    /\ msgBuffer = [type |-> "none"]
    /\ ready = Nothing
    /\ stdin = <<>> /\ asIn = <<>> /\ pdIn = <<>>
    /\ asked = {} /\ resends = 0 /\ sent = {}

(* The memory and the sockets of a process that enters its loop, or that   *)
(* is gone.                                                                *)
Renew(where) ==
    /\ pc' = where /\ exitCode' = "RUNTIME"
    /\ user' = NoUser /\ connected' = FALSE
    /\ asOpen' = FALSE /\ pdOpen' = FALSE
    /\ waitingReply' = FALSE /\ nRequestTries' = 0
    /\ msgBuffer' = [type |-> "none"]
    /\ ready' = Nothing
    /\ stdin' = <<>> /\ asIn' = <<>> /\ pdIn' = <<>>
    /\ asked' = {} /\ resends' = 0 /\ sent' = {}

Start == pc = "down" /\ Renew("select")

Kill == pc # "down" /\ Renew("down")

(* terminatePD: SIGINT or SIGTERM.  SA_RESTART resumes the recvfrom of     *)
(* cleanPD; select is interrupted and the loop left.                       *)
Signal ==
    /\ pc \notin {"down", "hung"}
    /\ exitCode' = "EXIT_SUCCESS"
    /\ sent' = {}
    /\ UNCHANGED <<pc, Memory, waitingReply, ready, stdin, asIn, pdIn,
                   asked, resends>>

-----------------------------------------------------------------------------
(* runPD. *)
ReadableNow == [pd |-> pdOpen /\ pdIn # <<>>, as |-> asOpen /\ asIn # <<>>,
                stdin |-> stdin # <<>>]

InSelect == pc = "select" /\ exitCode = "RUNTIME"

Select ==
    /\ InSelect
    /\ ReadableNow # Nothing
    /\ ready' = ReadableNow
    /\ pc' = "serving"
    /\ sent' = {}
    /\ UNCHANGED <<exitCode, Memory, waitingReply, stdin, asIn, pdIn,
                   asked, resends>>

(* Mutant: the comparison that lets one more resend through. *)
TriesOneMore == nRequestTries = NREQUEST_TRIES + 1

TriesUsedUp == nRequestTries = NREQUEST_TRIES

Silence == InSelect /\ ReadableNow = Nothing /\ waitingReply

(* "The server is not responding! Operation ignored" *)
GiveUp ==
    /\ Silence
    /\ TriesUsedUp
    /\ nRequestTries' = 0
    /\ waitingReply' = FALSE
    /\ sent' = {}
    /\ UNCHANGED <<pc, exitCode, user, connected, asOpen, pdOpen, msgBuffer,
                   ready, stdin, asIn, pdIn, asked, resends>>

(* The history stops counting when the bound is passed. *)
OneMoreResend == IF resends > NREQUEST_TRIES THEN resends ELSE resends + 1

(* Mutant: the resend is not counted. *)
ResendUncounted ==
    /\ Silence
    /\ ~TriesUsedUp
    /\ asOpen
    /\ sent' = {msgBuffer}
    /\ resends' = OneMoreResend
    /\ UNCHANGED <<pc, exitCode, Memory, waitingReply,
                   ready, stdin, asIn, pdIn, asked>>

req_resendLastMessage ==
    /\ Silence
    /\ ~TriesUsedUp
    /\ asOpen
    /\ nRequestTries' = nRequestTries + 1
    /\ sent' = {msgBuffer}
    /\ resends' = OneMoreResend
    /\ UNCHANGED <<pc, exitCode, user, connected, asOpen, pdOpen,
                   waitingReply, msgBuffer, ready, stdin, asIn, pdIn, asked>>

LoopHead ==
    /\ pc = "serving"
    /\ ~ready.pd /\ ~ready.as
    /\ ready.stdin => waitingReply      \* the line stays unread
    /\ pc' = "select"
    /\ ready' = Nothing
    /\ sent' = {}
    /\ UNCHANGED <<exitCode, Memory, waitingReply, stdin, asIn, pdIn,
                   asked, resends>>

-----------------------------------------------------------------------------
(* handleServer and resp_valCode. *)
(* Mutant: a message of the server does not end the wait. *)
ReceiveServerWaiting(types) ==
    /\ pc = "serving"
    /\ ready.pd /\ pdIn # <<>>
    /\ Head(pdIn).type \in types
    /\ pdIn' = Tail(pdIn)
    /\ ready' = [ready EXCEPT !.pd = FALSE]
    /\ UNCHANGED <<waitingReply, user, connected, asOpen, pdOpen,
                   nRequestTries, stdin, asIn, asked, resends>>

ReceiveServer(types) ==
    /\ pc = "serving"
    /\ ready.pd /\ pdIn # <<>>
    /\ Head(pdIn).type \in types
    /\ pdIn' = Tail(pdIn)
    /\ ready' = [ready EXCEPT !.pd = FALSE]
    /\ waitingReply' = FALSE
    /\ UNCHANGED <<user, connected, asOpen, pdOpen, nRequestTries, stdin,
                   asIn, asked, resends>>

Say(m) == msgBuffer' = m /\ sent' = {m}

SaysNothing == sent' = {} /\ UNCHANGED msgBuffer

resp_valCode ==
    /\ user # NoUser
    /\ ReceiveServer({"VLC"})
    /\ Say([type |-> "RVC", uid |-> user.uid,
            status |-> IF Head(pdIn).uid = user.uid /\ Head(pdIn).ok
                       THEN "OK" ELSE "NOK"])
    /\ UNCHANGED <<pc, exitCode>>

(* strcmp(uid, NULL): abortPD returns to the instruction that faulted.     *)
CompareWithNull ==
    /\ pc = "serving"
    /\ ready.pd /\ pdIn # <<>>
    /\ Head(pdIn).type = "VLC"
    /\ user = NoUser
    /\ pdIn' = Tail(pdIn)
    /\ pc' = "hung"
    /\ exitCode' = "EXIT_FAILURE"
    /\ sent' = {}
    /\ UNCHANGED <<Memory, waitingReply, ready, stdin, asIn, asked, resends>>

(* An opcode of another kind is answered with an ERR to the socket's own   *)
(* address, which nobody reads: the loop ends.                             *)
OtherServerMessage ==
    /\ ReceiveServer({"ERR", "BAD"})
    /\ IF Head(pdIn).type = "ERR"
       THEN UNCHANGED <<msgBuffer, exitCode>>
       ELSE exitCode' = "EXIT_FAILURE" /\ msgBuffer' = [type |-> "ERR"]
    /\ sent' = {}
    /\ UNCHANGED pc

-----------------------------------------------------------------------------
(* handleClient, called by the loop and, with no fd_set, by cleanPD. *)
ReceiveClient ==
    /\ asIn # <<>>
    /\ \/ /\ pc = "serving"
          /\ ~ready.pd /\ ready.as
          /\ ready' = [ready EXCEPT !.as = FALSE]
          /\ waitingReply' = FALSE
          /\ UNCHANGED pc
       \/ /\ pc = "farewell"
          /\ pc' = "ending"
          /\ UNCHANGED <<ready, waitingReply>>
    /\ UNCHANGED <<nRequestTries, stdin, resends>>

TheAnswer == Head(asIn)

KeepSockets == asIn' = Tail(asIn) /\ UNCHANGED <<asOpen, pdOpen, pdIn, asked>>

IsRRG(statuses) ==
    TheAnswer.type = "RRG" /\ pc = "serving" /\ TheAnswer.status \in statuses

IsRUN(statuses) == TheAnswer.type = "RUN" /\ TheAnswer.status \in statuses

(* Mutant: the server socket is not created. *)
RegisteredDeaf ==
    /\ ReceiveClient
    /\ IsRRG({"OK"})
    /\ connected' = TRUE
    /\ asOpen' = FALSE /\ asIn' = <<>> /\ asked' = {}
    /\ SaysNothing
    /\ UNCHANGED <<exitCode, user, pdOpen, pdIn>>

(* resp_registerUser for STATUS_OK, and removeSocketClient: what the       *)
(* client socket still holds is lost.                                      *)
Registered ==
    /\ ReceiveClient
    /\ IsRRG({"OK"})
    /\ connected' = TRUE
    /\ asOpen' = FALSE /\ asIn' = <<>> /\ asked' = {}
    /\ pdOpen' = TRUE
    /\ SaysNothing
    /\ UNCHANGED <<exitCode, user, pdIn>>

(* resp_registerUser for another status: userInfo is freed, whichever      *)
(* request the answer is for.                                              *)
NotRegistered ==
    /\ ReceiveClient
    /\ IsRRG({"NOK", "BAD"})
    /\ user' = NoUser
    /\ exitCode' = IF TheAnswer.status = "BAD" THEN "EXIT_FAILURE" ELSE exitCode
    /\ SaysNothing
    /\ KeepSockets
    /\ UNCHANGED connected

(* resp_unregisterUser raises SIGTERM, and SIGABRT unless the status is OK. *)
resp_unregisterUser ==
    /\ ReceiveClient
    /\ IsRUN({"OK", "NOK", "BAD"})
    /\ connected' = (connected /\ TheAnswer.status = "BAD")
    /\ exitCode' = IF TheAnswer.status = "OK" THEN "EXIT_SUCCESS"
                                              ELSE "EXIT_FAILURE"
    /\ SaysNothing
    /\ KeepSockets
    /\ UNCHANGED user

ClientError ==
    /\ ReceiveClient
    /\ TheAnswer.type = "ERR"
    /\ SaysNothing
    /\ KeepSockets
    /\ UNCHANGED <<exitCode, user, connected>>

(* _FATAL and req_serverError; cleanPD does not expect an RRG either.      *)
FatalAnswer ==
    /\ ReceiveClient
    /\ TheAnswer.type = "BAD" \/ (TheAnswer.type = "RRG" /\ pc = "farewell")
    /\ exitCode' = "EXIT_FAILURE"
    /\ Say([type |-> "ERR"])
    /\ KeepSockets
    /\ UNCHANGED <<user, connected>>

handleClient ==
    \/ Registered
    \/ NotRegistered
    \/ resp_unregisterUser
    \/ ClientError
    \/ FatalAnswer

-----------------------------------------------------------------------------
(* handleUser.  Both commands create the client socket if there is none;   *)
(* code is the exit code if the command sets none.                         *)
Ask(type, u) ==
    /\ Say([type |-> type, user |-> u])
    /\ asked' = asked \cup {type}
    /\ resends' = 0
    /\ waitingReply' = TRUE

Ignore ==
    /\ waitingReply' = FALSE
    /\ SaysNothing
    /\ UNCHANGED <<asked, resends>>

req_registerUser(u, code) ==
    /\ asOpen' = TRUE
    /\ IF connected THEN Ignore /\ UNCHANGED user
                    ELSE Ask("REG", u) /\ user' = u
    /\ exitCode' = code

(* Without a registration, "exit" raises SIGTERM. *)
req_unregisterUser(code) ==
    /\ asOpen' = TRUE
    /\ IF connected THEN Ask("UNR", user) /\ exitCode' = code
                    ELSE Ignore /\ exitCode' = "EXIT_SUCCESS"
    /\ UNCHANGED user

Perform(line, code) ==
    \/ line.cmd = "reg" /\ req_registerUser(line.user, code)
    \/ line.cmd = "exit" /\ req_unregisterUser(code)
    \/ line.cmd = "other" /\ Ignore /\ exitCode' = code
                          /\ UNCHANGED <<asOpen, user>>

(* At the end of the input fgets leaves the buffer as it was on the stack, *)
(* and what an earlier call left there is parsed.                          *)
handleUser ==
    /\ pc = "serving"
    /\ ~ready.pd /\ ~ready.as /\ ready.stdin
    /\ ~waitingReply
    /\ stdin # <<>>
    /\ ready' = [ready EXCEPT !.stdin = FALSE]
    /\ stdin' = Tail(stdin)
    /\ IF Head(stdin).cmd = "eof"
       THEN \E line \in Command : Perform(line, "EXIT_FAILURE")
       ELSE Perform(Head(stdin), exitCode)
    /\ UNCHANGED <<pc, connected, pdOpen, nRequestTries, asIn, pdIn>>

-----------------------------------------------------------------------------
(* cleanPD: a device that believes it is registered unregisters and waits  *)
(* for the answer, without a timeout.                                      *)
Leaving == pc = "select" /\ exitCode # "RUNTIME"

(* Mutant: the answer is awaited although nothing was asked. *)
CleanWaitsAnyway ==
    /\ Leaving
    /\ asOpen' = TRUE
    /\ pc' = "farewell"
    /\ IF connected
       THEN Say([type |-> "UNR", user |-> user]) /\ asked' = asked \cup {"UNR"}
       ELSE SaysNothing /\ UNCHANGED asked
    /\ UNCHANGED <<exitCode, user, connected, pdOpen, waitingReply,
                   nRequestTries, ready, stdin, asIn, pdIn, resends>>

cleanPD ==
    /\ Leaving
    /\ asOpen' = TRUE
    /\ IF connected
       THEN /\ pc' = "farewell"
            /\ Say([type |-> "UNR", user |-> user])
            /\ asked' = asked \cup {"UNR"}
       ELSE pc' = "ending" /\ SaysNothing /\ UNCHANGED asked
    /\ UNCHANGED <<exitCode, user, connected, pdOpen, waitingReply,
                   nRequestTries, ready, stdin, asIn, pdIn, resends>>

(* The sockets are closed and the memory freed. *)
Exit == pc = "ending" /\ Renew("down")

(* What the process does by itself once it is scheduled. *)
DeviceStep ==
    \/ Select
    \/ GiveUp
    \/ req_resendLastMessage
    \/ resp_valCode
    \/ CompareWithNull
    \/ OtherServerMessage
    \/ handleClient
    \/ handleUser
    \/ LoopHead
    \/ cleanPD
    \/ Exit

-----------------------------------------------------------------------------
(* The terminal and the network. *)
Running == pc \notin {"down", "hung"}

Types(line) ==
    /\ Running
    /\ Len(stdin) < MaxLines
    /\ stdin' = Append(stdin, line)
    /\ sent' = {}
    /\ UNCHANGED <<pc, exitCode, Memory, waitingReply, ready, asIn, pdIn,
                   asked, resends>>

AnswerArrives(m) ==
    /\ Running
    /\ asOpen
    /\ Len(asIn) < MaxIn
    /\ asIn' = Append(asIn, m)
    /\ sent' = {}
    /\ UNCHANGED <<pc, exitCode, Memory, waitingReply, ready, stdin, pdIn,
                   asked, resends>>

ServerMessageArrives(m) ==
    /\ Running
    /\ pdOpen
    /\ Len(pdIn) < MaxIn
    /\ pdIn' = Append(pdIn, m)
    /\ sent' = {}
    /\ UNCHANGED <<pc, exitCode, Memory, waitingReply, ready, stdin, asIn,
                   asked, resends>>

(* A server may answer each request of this socket any number of times, at *)
(* any time.                                                               *)
Answerable(m) ==
    /\ m.type = "RRG" => "REG" \in asked
    /\ m.type = "RUN" => "UNR" \in asked
    /\ asked # {}

Outside ==
    \/ \E line \in Line : Types(line)
    \/ \E m \in Answer : Answerable(m) /\ AnswerArrives(m)
    \/ \E m \in ServerMsg : ServerMessageArrives(m)

Next == DeviceStep \/ Outside \/ Signal \/ Kill \/ Start

Spec == Init /\ [][Next]_pdVars

(* The operating system schedules the process, and its select returns.     *)
FairSpec == Spec /\ WF_pdVars(DeviceStep)

-----------------------------------------------------------------------------
Waits == waitingReply /\ pc \in {"select", "serving"}

(* While the device waits, the message it would resend is its own request, *)
(* for the user it keeps and of the kind that fits its state, and there is *)
(* a socket to resend it on.  One buffer holds the last message, whatever  *)
(* it was (pd_aux.c:4), and "asConnection != NULL" (pd.c:314) is the only  *)
(* check before it is sent again.                                          *)
WaitsForItsRequest ==
    Waits =>
        /\ asOpen
        /\ msgBuffer = [type |-> IF connected THEN "UNR" ELSE "REG",
                        user |-> user]

(* Before it starts to leave, the device listens for validation codes      *)
(* exactly while it believes it is registered.                             *)
ServesIffConnected ==
    pc \in {"select", "serving"} /\ exitCode = "RUNTIME"
        => pdOpen = connected

(* common.h:73: a request is resent NREQUEST_TRIES times at most, whatever *)
(* was left of the counter by the requests before it.                      *)
ResendsBounded == resends <= NREQUEST_TRIES

(* If no typed line stays unread, the device does not wait for ever: a     *)
(* reply comes or it gives up, unless it hangs.                            *)
WaitEnds == <>[](stdin = <<>>) => []<>(~Waits)

(* A noted exit ends the process, except that a device that believes it is *)
(* registered stays until its last request is answered; then it ends.      *)
LeaveCompletes ==
    /\ (exitCode # "RUNTIME") ~> (pc = "down" \/ connected)
    /\ (pc = "farewell" /\ asIn # <<>>) ~> (pc = "down")
=============================================================================
