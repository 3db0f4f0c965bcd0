-------------------------------- MODULE User --------------------------------
(***************************************************************************)
(* The User program (src/project/src/user): one process, one select() loop *)
(* over the terminal, the connection to the AS, which it keeps as long as  *)
(* it runs, and a connection to the FS, which is made for each operation   *)
(* on files (user.c, user_aux.c).                                          *)
(*                                                                         *)
(* As in the servers, an iteration is a Select step with the snapshot of   *)
(* what is readable, one step per handler in the order of runUser, and     *)
(* LoopEnd.  Every FATAL and every signal ends the process at once, since  *)
(* abortUser and terminateUser call exit.                                  *)
(*                                                                         *)
(* The servers are what they may send.  The AS answers the requests in     *)
(* order, looks at the first of several that came together only, and says  *)
(* again and again that a device has a code.  The FS answers a connection  *)
(* once or leaves.                                                         *)
(***************************************************************************)
EXTENDS Integers, Sequences, FiniteSets

CONSTANTS
    Uids, Tids, Names,  \* user ids, tickets, names of files in their format
    Ops,                \* the operations that are typed, and their file names
    NoUid, NoTid, NoName, NoOp,
    NREQUEST_TRIES,
    MaxLines,           \* bound: typed lines the terminal holds
    MaxPending          \* bound: messages between the program and the AS

(* list, retrieve, upload, delete and remove, of files in the right format. *)
Operation == [fop : {"L", "X"}, name : {NoName}]
                 \cup [fop : {"R", "U", "D"}, name : Names]

ASSUME ConstantsAssumption ==
    /\ Ops \subseteq Operation /\ NoOp \notin Operation
    /\ NoUid \notin Uids /\ NoTid \notin Tids /\ NoName \notin Names
    /\ {NREQUEST_TRIES, MaxLines, MaxPending} \subseteq Nat

-----------------------------------------------------------------------------
(* What the AS is sent.  BAD has a wrong format: the (null) of a program   *)
(* without uid, or a code that is none.                                    *)
ASRequest == {"LOG", "REQ", "AUT", "BAD"}

(* What it answers.  The statuses of RLO and RRQ are shown and no more.    *)
ASAnswer == [type : {"RLO", "RRQ", "ERR"}]
                \cup [type : {"RAU"}, tid : Tids \cup {NoTid}]

(* What the FS answers: a status or the list, the file of a retrieval, or  *)
(* a part of that file, the rest being on its way.                         *)
FSAnswer == {"none", "status", "file", "part"}

VARIABLES
    pc,             \* where the process stands
    uid,            \* userInfo.uid
    ridSet,         \* rid is not RID_INVALID; it may be the TRUE that a
                    \* request that is not sent returns
    tid,
    fsOp,           \* what was asked on fsConnection, NoOp when that is NULL
    fsConnected,    \* userInfo.fsConnected
    filename,       \* the file being retrieved
    waitingReply, nRequestTries,
    ready,          \* the snapshot select returned
    stdin,          \* how many lines are typed and not read; what a line
                    \* says is chosen when it is read
    toAS, asIn,     \* sent to the AS and not read by it; answered and not read
    asUp,           \* the AS has its end of the connection open
    coded,          \* the AS accepted a request: the device may answer it
    fsIn,           \* what the FS answered on fsConnection
    fsGone          \* the FS has closed its end of fsConnection

asVars == <<toAS, asIn, asUp, coded>>
fsVars == <<fsIn, fsGone>>
memory == <<uid, ridSet, tid, fsOp, fsConnected, filename>>
vars   == <<pc, memory, waitingReply, nRequestTries, ready, stdin, asVars,
            fsVars>>

Nothing == [as |-> FALSE, fs |-> FALSE, stdin |-> FALSE, idle |-> FALSE]

TypeOK ==
    /\ pc \in {"select", "serving", "storing", "stuck", "down"}
    /\ uid \in Uids \cup {NoUid}
    /\ ridSet \in BOOLEAN
    /\ tid \in Tids \cup {NoTid}
    /\ fsOp \in Ops \cup {NoOp}
    /\ fsConnected \in BOOLEAN
    /\ filename \in Names \cup {NoName}
    /\ waitingReply \in BOOLEAN
    /\ nRequestTries \in 0 .. NREQUEST_TRIES
    /\ ready \in [as : BOOLEAN, fs : BOOLEAN, stdin : BOOLEAN, idle : BOOLEAN]
    /\ stdin \in 0 .. MaxLines
    /\ toAS \in Seq(ASRequest) /\ asIn \in Seq(ASAnswer)
    /\ asUp \in BOOLEAN /\ coded \in BOOLEAN
    /\ fsIn \in FSAnswer /\ fsGone \in BOOLEAN

Init ==
    /\ pc = "select"
    /\ uid = NoUid /\ ridSet = FALSE /\ tid = NoTid
    /\ fsOp = NoOp /\ fsConnected = FALSE /\ filename = NoName
    /\ waitingReply = FALSE /\ nRequestTries = 0
    /\ ready = Nothing /\ stdin = 0
    /\ toAS = <<>> /\ asIn = <<>> /\ asUp = TRUE
    /\ coded = FALSE
    /\ fsIn = "none" /\ fsGone = FALSE

(* The memory and the connections of a process that has connected to the   *)
(* AS, or that is gone.                                                    *)
Renew(where) ==
    /\ pc' = where
    /\ uid' = NoUid /\ ridSet' = FALSE /\ tid' = NoTid
    /\ fsOp' = NoOp /\ fsConnected' = FALSE /\ filename' = NoName
    /\ waitingReply' = FALSE /\ nRequestTries' = 0
    /\ ready' = Nothing /\ stdin' = 0
    /\ toAS' = <<>> /\ asIn' = <<>> /\ asUp' = TRUE
    /\ coded' = FALSE
    /\ fsIn' = "none" /\ fsGone' = FALSE

ProcessEnds == Renew("down")

Start == pc = "down" /\ Renew("select")

(* A signal, or the SIGPIPE of a write to a server that is gone. *)
Kill == pc # "down" /\ ProcessEnds

-----------------------------------------------------------------------------
(* runUser. *)
ReadableNow ==
    LET now == [as |-> asIn # <<>> \/ ~asUp,
                fs |-> fsConnected /\ (fsIn # "none" \/ fsGone),
                stdin |-> stdin # 0, idle |-> FALSE]
    IN  [now EXCEPT !.idle = now = Nothing]

Select ==
    /\ pc = "select"
    /\ pc' = "serving"
    /\ ready' = ReadableNow
    /\ UNCHANGED <<memory, waitingReply, nRequestTries, stdin, asVars, fsVars>>

(* Mutant: one try too many. *)
TriesOneMore == nRequestTries = NREQUEST_TRIES + 1

TriesUsedUp == nRequestTries = NREQUEST_TRIES

(* Mutant: a resend is not counted. *)
ResendUncounted == UNCHANGED <<waitingReply, nRequestTries>>

(* req_resendLastMessage sends nothing and returns TRUE. *)
Resend ==
    /\ nRequestTries' = nRequestTries + 1
    /\ UNCHANGED waitingReply

(* The tries are never set back. *)
GiveUp ==
    /\ waitingReply' = FALSE
    /\ UNCHANGED nRequestTries

LoopEnd ==
    /\ pc = "serving" /\ ~ready.as /\ ~ready.fs /\ ~ready.stdin
    /\ pc' = "select"
    /\ ready' = Nothing
    /\ \/ ready.idle /\ waitingReply /\ TriesUsedUp /\ GiveUp
       \/ ready.idle /\ waitingReply /\ ~TriesUsedUp /\ Resend
       \/ ~(ready.idle /\ waitingReply)
          /\ UNCHANGED <<waitingReply, nRequestTries>>
    /\ UNCHANGED <<memory, stdin, asVars, fsVars>>

-----------------------------------------------------------------------------
(* handleASServer.  One read takes all the answers that have come, and the *)
(* first one is looked at.                                                 *)
ReceiveAS(type) ==
    /\ pc = "serving" /\ ready.as
    /\ asIn # <<>>
    /\ Head(asIn).type = type
    /\ asIn' = <<>>
    /\ ready' = [ready EXCEPT !.as = FALSE]
    /\ waitingReply' = FALSE
    /\ UNCHANGED <<pc, uid, ridSet, fsOp, fsConnected, filename, nRequestTries,
                   stdin, toAS, asUp, coded, fsVars>>

(* resp_login, resp_request, and an ERR.  loggedIn becomes TRUE whether    *)
(* the login was accepted or not; all it decides is how much memory the    *)
(* next login takes.                                                       *)
Shown == \E type \in {"RLO", "RRQ", "ERR"} : ReceiveAS(type) /\ UNCHANGED tid

(* A ticket that was refused takes the place of one that was granted.      *)
resp_val == ReceiveAS("RAU") /\ tid' = Head(asIn).tid

(* Mutant: the end of the connection is taken for an answer. *)
ServerLostUnseen ==
    /\ pc = "serving" /\ ready.as
    /\ asIn = <<>>
    /\ ready' = [ready EXCEPT !.as = FALSE]
    /\ waitingReply' = FALSE
    /\ UNCHANGED <<pc, memory, nRequestTries, stdin, asVars, fsVars>>

ServerLost ==
    /\ pc = "serving" /\ ready.as
    /\ asIn = <<>>
    /\ ProcessEnds

handleASServer == Shown \/ resp_val \/ ServerLost

-----------------------------------------------------------------------------
(* handleFSServer. *)
(* Mutant: the file server is heard only when no answer of the AS is       *)
(* awaited.                                                                *)
FSTurnUnlessWaiting ==
    pc = "serving" /\ ~ready.as /\ ready.fs /\ fsConnected /\ ~waitingReply

FSTurn == pc = "serving" /\ ~ready.as /\ ready.fs /\ fsConnected

(* The connection in hand, or that in place of it, has had no answer.      *)
NoAnswer == fsIn' = "none" /\ fsGone' = FALSE

(* tcpDestroySocket. *)
Answered ==
    /\ pc' = "serving"
    /\ ready' = [ready EXCEPT !.fs = FALSE]
    /\ waitingReply' = FALSE
    /\ fsOp' = NoOp /\ fsConnected' = FALSE
    /\ NoAnswer
    /\ UNCHANGED <<uid, ridSet, tid, nRequestTries, stdin, asVars>>

(* resp_list, resp_upload and resp_delete. *)
resp_status ==
    /\ FSTurn
    /\ fsIn # "none"
    /\ fsOp.fop \in {"L", "U", "D"}
    /\ Answered
    /\ UNCHANGED filename

(* The file is stored under the name that was kept, if it came.            *)
resp_retrieve ==
    /\ FSTurn
    /\ fsIn \in {"status", "file"}
    /\ fsOp.fop = "R"
    /\ Answered
    /\ filename' = NoName

(* storeFileFromTCP reads until all is there; nothing else is served.      *)
StoreBegins ==
    /\ FSTurn
    /\ fsIn = "part"
    /\ pc' = "storing"
    /\ UNCHANGED <<memory, waitingReply, nRequestTries, ready, stdin, asVars,
                   fsVars>>

StoreEnds ==
    /\ pc = "storing"
    /\ fsIn = "file"
    /\ Answered
    /\ filename' = NoName

(* The server left before all was there.  The -1 of tcpReceiveMessage is   *)
(* added to the size and passed to fwrite: the loop goes on for ever, or   *)
(* the write fails in the memory of the process.                           *)
StoreBroken ==
    /\ pc = "storing"
    /\ fsIn = "part" /\ fsGone
    /\ \/ /\ pc' = "stuck"
          /\ UNCHANGED <<memory, waitingReply, nRequestTries, ready, stdin,
                         asVars, fsVars>>
       \/ ProcessEnds

(* An answer to a removal ends the program, whatever it says, as does the  *)
(* end of the connection.                                                  *)
FSEnds ==
    /\ FSTurn
    /\ \/ fsIn # "none" /\ fsOp.fop = "X"
       \/ fsIn = "none"
    /\ ProcessEnds

handleFSServer ==
    \/ resp_status
    \/ resp_retrieve
    \/ StoreBegins
    \/ StoreEnds
    \/ StoreBroken
    \/ FSEnds

-----------------------------------------------------------------------------
(* handleUser. *)
UserTurn == pc = "serving" /\ ~ready.as /\ ~ready.fs /\ ready.stdin

ReadLine ==
    /\ UserTurn
    /\ stdin' = stdin - 1
    /\ ready' = [ready EXCEPT !.stdin = FALSE]
    /\ UNCHANGED <<pc, nRequestTries>>

Send(m) ==
    /\ toAS' = IF asUp THEN Append(toAS, m) ELSE toAS
    /\ UNCHANGED <<asIn, asUp, coded>>

(* A login in the right format.  The uid is stored before the AS has seen  *)
(* it.                                                                     *)
req_login(u) ==
    /\ ReadLine
    /\ uid' = u
    /\ Send("LOG")
    /\ waitingReply' = TRUE
    /\ UNCHANGED <<ridSet, tid, fsOp, fsConnected, filename, fsVars>>

(* A request of a known operation, with a name if it needs one; one that   *)
(* is not sent returns TRUE for a rid.                                     *)
req_request(valid) ==
    /\ ReadLine
    /\ ridSet' = TRUE
    /\ IF valid
       THEN Send(IF uid = NoUid THEN "BAD" ELSE "REQ")
       ELSE UNCHANGED asVars
    /\ waitingReply' = FALSE
    /\ UNCHANGED <<uid, tid, fsOp, fsConnected, filename, fsVars>>

(* A code in a wrong format is sent all the same. *)
req_val(valid) ==
    /\ ReadLine
    /\ IF ridSet
       THEN Send(IF uid = NoUid \/ ~valid THEN "BAD" ELSE "AUT")
       ELSE UNCHANGED asVars
    /\ waitingReply' = ridSet
    /\ UNCHANGED <<memory, fsVars>>

(* Mutant: a name that is kept is not replaced. *)
KeepNameOnce(op) ==
    filename' = IF op.fop = "R" /\ filename = NoName THEN op.name ELSE filename

KeepName(op) == filename' = IF op.fop = "R" THEN op.name ELSE filename

(* req_list, req_retrieve, req_upload, req_delete, req_remove.  A          *)
(* connection whose operation was not answered is forgotten, open, and     *)
(* what comes on it is never read.                                         *)
req_file(op) ==
    /\ ReadLine
    /\ fsOp' = op /\ fsConnected' = TRUE
    /\ NoAnswer
    /\ KeepName(op)
    /\ waitingReply' = FALSE
    /\ UNCHANGED <<uid, ridSet, tid, asVars>>

(* A retrieve, upload or delete of a name in a wrong format.  Nothing is   *)
(* opened, and fsConnection keeps what it was.                             *)
Misnamed ==
    /\ ReadLine
    /\ fsConnected' = FALSE
    /\ waitingReply' = FALSE
    /\ UNCHANGED <<uid, ridSet, tid, fsOp, filename, asVars, fsVars>>

(* Mutant: an upload of nothing counts as connected. *)
MissingConnected ==
    /\ ReadLine
    /\ fsOp' = NoOp /\ fsConnected' = TRUE
    /\ NoAnswer
    /\ waitingReply' = FALSE
    /\ UNCHANGED <<uid, ridSet, tid, filename, asVars>>

(* An upload of a file that is not there opens a connection and closes it. *)
Missing ==
    /\ ReadLine
    /\ fsOp' = NoOp /\ fsConnected' = FALSE
    /\ NoAnswer
    /\ waitingReply' = FALSE
    /\ UNCHANGED <<uid, ridSet, tid, filename, asVars>>

(* A line that is too long or unknown, or a login in a wrong format. *)
Ignored ==
    /\ ReadLine
    /\ waitingReply' = FALSE
    /\ UNCHANGED <<memory, asVars, fsVars>>

(* The command exit, the end of the input, and an operation on files while *)
(* the file server is down, when tcpConnect gives up.                      *)
Exit == UserTurn /\ ProcessEnds

handleUser ==
    \/ \E u \in Uids : req_login(u)
    \/ \E valid \in BOOLEAN : req_request(valid) \/ req_val(valid)
    \/ \E op \in Ops : req_file(op)
    \/ Misnamed
    \/ Missing
    \/ Ignored
    \/ Exit

(* What the process does by itself once it is scheduled. *)
UserStep ==
    \/ Select
    \/ handleASServer
    \/ handleFSServer
    \/ handleUser
    \/ LoopEnd

-----------------------------------------------------------------------------
(* The terminal and the servers. *)
Outside ==
    /\ pc # "down"
    /\ UNCHANGED <<pc, memory, waitingReply, nRequestTries, ready>>

Pending == stdin + Len(toAS) + Len(asIn)

Types ==
    /\ Outside
    /\ stdin < MaxLines /\ Pending < MaxPending
    /\ stdin' = stdin + 1
    /\ UNCHANGED <<asVars, fsVars>>

Reply(m) ==
    /\ asIn' = Append(asIn, m)
    /\ UNCHANGED <<asUp, stdin, fsVars>>

(* The AS reads the first k requests at once and answers the first one.    *)
(* It accepts a login or not; a request it accepts is answered when the    *)
(* device has answered; a BAD message ends it once it is answered.         *)
ASAnswers(k) ==
    /\ Outside
    /\ asUp /\ k \in DOMAIN toAS
    /\ toAS' = SubSeq(toAS, k + 1, Len(toAS))
    /\ LET m == Head(toAS)
       IN  \/ m = "LOG" /\ Reply([type |-> "RLO"]) /\ UNCHANGED coded
           \/ m = "REQ" /\ Reply([type |-> "RRQ"]) /\ UNCHANGED coded
           \/ /\ m = "REQ" /\ coded' = TRUE
              /\ UNCHANGED <<asIn, asUp, stdin, fsVars>>
           \/ /\ m = "AUT" /\ UNCHANGED coded
              /\ \E t \in Tids \cup {NoTid} :
                     Reply([type |-> "RAU", tid |-> t])
           \/ m = "BAD" /\ Reply([type |-> "ERR"]) /\ UNCHANGED coded

DeviceAnswers ==
    /\ Outside
    /\ asUp /\ coded
    /\ Pending < MaxPending
    /\ Reply([type |-> "RRQ"])
    /\ UNCHANGED <<toAS, coded>>

ASLeaves ==
    /\ Outside
    /\ asUp' = FALSE
    /\ toAS' = <<>>
    /\ UNCHANGED <<asIn, coded, stdin, fsVars>>

(* The FS answers a connection once. *)
FSAnswers(a) ==
    /\ Outside
    /\ fsOp # NoOp /\ ~fsGone
    /\ \/ fsIn = "none" /\ a = "status"
       \/ fsIn = "none" /\ a \in {"file", "part"} /\ fsOp.fop = "R"
       \/ fsIn = "part" /\ a = "file"
    /\ fsIn' = a
    /\ UNCHANGED <<stdin, asVars, fsGone>>

FSLeaves ==
    /\ Outside
    /\ fsOp # NoOp
    /\ fsGone' = TRUE
    /\ UNCHANGED <<stdin, asVars, fsIn>>

Environment ==
    \/ Types
    \/ \E k \in 1 .. MaxPending : ASAnswers(k)
    \/ DeviceAnswers
    \/ ASLeaves
    \/ \E a \in FSAnswer : FSAnswers(a)
    \/ FSLeaves

Next == UserStep \/ Environment \/ Kill \/ Start

Spec == Init /\ [][Next]_vars

(* The operating system schedules the process, and its select returns.     *)
FairSpec == Spec /\ WF_vars(UserStep)

-----------------------------------------------------------------------------
(* While the program counts as connected to the FS, fsConnection is not    *)
(* NULL: runUser and handleFSServer follow the pointer without a test,     *)
(* whatever commands and answers came in between.                          *)
ConnectedIsOpen == fsConnected => fsOp # NoOp

(* The name a file will be stored under is that of the retrieval which the *)
(* connection in hand answers, although commands overtake each other and   *)
(* filename is kept apart from fsConnection.                               *)
StoresUnderItsName ==
    fsConnected /\ fsOp \in Operation /\ fsOp.fop = "R" => filename = fsOp.name

(* Once nothing more is typed, the program stops waiting for the AS,       *)
(* whether it answers or not.                                              *)
Attentive == stdin = 0 /\ pc \notin {"storing", "stuck"}

WaitEnds == <>[]Attentive => []<>(~waitingReply)

(* An answer of the FS on the connection of the command in hand is read,   *)
(* whatever the AS is awaited for; a later command may take its place.     *)
AnswersRead ==
    (fsConnected /\ fsIn # "none")
        ~> (~fsConnected \/ fsIn = "none" \/ pc \in {"storing", "stuck"})

(* The program ends when the AS has closed its connection, unless a file   *)
(* holds it up.                                                            *)
EndsWithServer == ~asUp ~> pc \in {"down", "storing", "stuck"}

=============================================================================
