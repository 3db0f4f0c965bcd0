--------------------------------- MODULE FS ---------------------------------
(***************************************************************************)
(* The file server (src/project/src/fs): one process, one select() loop    *)
(* (fs.c), the operations on files (fs_aux.c, files.c), the directories it *)
(* keeps on disk and the kernel queues it reads from.                      *)
(*                                                                         *)
(* A connection carries one request.  The server asks the AS to confirm    *)
(* the ticket of the request, and answers the user when the confirmation   *)
(* comes or after a time.  An iteration of the loop is a Select step, then *)
(* one step for each handler in the order of runFS: the listening socket,  *)
(* the answer of the AS, the ready requests from the newest to the oldest, *)
(* and checkUserRequestTimeouts.  Everything outside may come in between.  *)
(* Every FATAL ends the process at once: abortFS calls exit.               *)
(***************************************************************************)
EXTENDS Integers, Sequences, FiniteSets

CONSTANTS
    Uids, Tids, Names,  \* user ids, tickets and file names in their format
    Data,               \* contents of files
    Conns,              \* descriptors of accepted connections
    Ops,                \* the operations users ask for, and their file names
    FOP_E,              \* "E": the AS does not confirm
    NoUid, NoTid, NoOp, NoData,
    TIMEOUT,            \* in the unit the passing of time is counted in
    MAX_FILES,
    MaxPending,         \* bound: arrivals the kernel holds for the server
    MaxIds              \* bound: requests a process receives

NoName == "no name"

(* fop and fname: a list, a retrieval, an upload, a deletion, a removal.   *)
Operation == [fop : {"L", "X"}, name : {NoName}]
                \cup [fop : {"R", "U", "D"}, name : Names]

ASSUME ConstantsAssumption ==
    /\ Ops \subseteq Operation
    /\ IsFiniteSet(Names)
    /\ NoUid \notin Uids /\ NoTid \notin Tids /\ NoData \notin Data
    /\ {NoOp, FOP_E} \cap Operation = {} /\ NoOp # FOP_E

ASSUME ParametersAssumption ==
    /\ TIMEOUT \in Nat \ {0}
    /\ {MAX_FILES, MaxPending, MaxIds} \subseteq Nat

-----------------------------------------------------------------------------
(* What a user sends.  An upload that is not whole continues after the     *)
(* first read.  BAD has a wrong format, such as the request of a User      *)
(* program that has no ticket.                                             *)
UserMsg ==
    [type : {"REQ"}, uid : Uids, tid : Tids, op : {o \in Ops : o.fop # "U"},
     data : {NoData}, whole : {TRUE}]
        \cup [type : {"REQ"}, uid : Uids, tid : Tids,
              op : {o \in Ops : o.fop = "U"}, data : Data, whole : BOOLEAN]
        \cup [type : {"BAD"}]

Nothing == [type |-> "none"]

(* What the AS answers.  ERR says that the user is not logged in.         *)
Confirmation == [type : {"CNF"}, uid : Uids, tid : Tids, op : Ops \cup {FOP_E}]
Answer == Confirmation \cup [type : {"ERR"}]

(* userRequest_t.  age is timeExpired; data is what an upload brought and  *)
(* exists only for the properties.                                         *)
Request ==
    [conn : Conns, uid : Uids \cup {NoUid}, tid : Tids \cup {NoTid},
     op : Operation \cup {NoOp}, fsid : Nat, age : -1 .. TIMEOUT,
     data : Data \cup {NoData}]

(* What malloc may return: the uid and tid of a freed request, or memory   *)
(* that holds no such thing.                                               *)
Memory == [uid : Uids \cup {NoUid}, tid : Tids \cup {NoTid}]
Blank  == [uid |-> NoUid, tid |-> NoTid]

(* ~~temp_<fsid>~~ in the directory of a user. *)
Temp == [uid : Uids, id : Nat, data : Data]

(* Replies, and the question to the AS. *)
Reply ==
    [to : Conns, status : {"OK", "NOK", "EOF", "DUP", "FULL", "ERR", "INV"}]
        \cup [to : {"AS"}, uid : Uids, tid : Tids]

VARIABLES
    dirs,       \* users who have a directory
    stored,     \* the files of each user: stored[uid][name]
    temps,      \* the temporary files of the uploads
    pc,         \* where the process stands
    requests,   \* userRequests, newest first
    fds,        \* the connections in the fd_set of runFS
    ready,      \* the snapshot select returned
    fsidgen,    \* the next fsid
    stale,      \* the uids and tids freed memory holds
    udpIn,      \* datagrams the kernel holds for the server
    backlog,    \* connections established and not accepted
    inbox,      \* what each user sent and the server has not read
    peer,       \* the user's end of each connection; "left" once the server
                \* has forgotten its descriptor
    asked,      \* history: the tickets the AS was asked about
    sent        \* what the last step sent

disk   == <<dirs, stored, temps>>
kernel == <<udpIn, backlog, inbox, peer>>
vars   == <<disk, pc, requests, fds, ready, fsidgen, stale, kernel, asked,
            sent>>

NothingReady ==
    [listen |-> FALSE, udp |-> FALSE, conns |-> {}, idle |-> FALSE]

TypeOK ==
    /\ dirs \in SUBSET Uids
    /\ stored \in [Uids -> [Names -> Data \cup {NoData}]]
    /\ temps \in SUBSET Temp
    /\ pc \in {"select", "serving", "storing", "stuck", "down"}
    /\ requests \in Seq(Request)
    /\ fds \in SUBSET Conns
    /\ ready \in [listen : BOOLEAN, udp : BOOLEAN, conns : SUBSET Conns,
                  idle : BOOLEAN]
    /\ fsidgen \in Nat
    /\ stale \in SUBSET Memory
    /\ udpIn \in Seq(Answer)
    /\ backlog \in Seq(Conns)
    /\ inbox \in [Conns -> UserMsg \cup {Nothing}]
    /\ peer \in [Conns -> {"free", "open", "sent", "closed", "left"}]
    /\ asked \in SUBSET [uid : Uids, tid : Tids]
    /\ sent \in SUBSET Reply

-----------------------------------------------------------------------------
Init ==
    /\ dirs = {} /\ temps = {}
    /\ stored = [u \in Uids |-> [n \in Names |-> NoData]]
    /\ pc = "select"
    /\ requests = <<>> /\ fds = {} /\ ready = NothingReady
    /\ fsidgen = 0 /\ stale = {}
    /\ udpIn = <<>> /\ backlog = <<>>
    /\ inbox = [c \in Conns |-> Nothing]
    /\ peer = [c \in Conns |-> "free"]
    /\ asked = {} /\ sent = {}

(* The process ends, by a FATAL or otherwise: all but the disk is gone.    *)
ProcessEnds ==
    /\ pc' = "down"
    /\ requests' = <<>> /\ fds' = {} /\ ready' = NothingReady
    /\ fsidgen' = 0 /\ stale' = {}
    /\ udpIn' = <<>> /\ backlog' = <<>>
    /\ inbox' = [c \in Conns |-> Nothing]
    /\ peer' = [c \in Conns |-> "free"]
    /\ asked' = {}

(* A signal (terminateFS), a kill, or the SIGPIPE of a write to a user who *)
(* is gone.                                                                *)
Stop ==
    /\ pc # "down"
    /\ ProcessEnds
    /\ sent' = {}
    /\ UNCHANGED disk

Start ==
    /\ pc = "down"
    /\ pc' = "select"
    /\ sent' = {}
    /\ UNCHANGED <<disk, requests, fds, ready, fsidgen, stale, kernel, asked>>

-----------------------------------------------------------------------------
(* The list of requests: a removal drops the newer ones too (TailList).    *)
(* Their connections stay open, and in fds if they were not read.          *)
First(S) == CHOOSE i \in S : \A j \in S : i <= j

OlderThan(i) == SubSeq(requests, i + 1, Len(requests))

(* listRemove and cleanRequest, which frees the memory of the request ...  *)
Removed(i) ==
    /\ requests' = OlderThan(i)
    /\ stale' = stale \cup
                    ({[uid |-> requests[i].uid, tid |-> requests[i].tid]}
                        \ {Blank})

(* ... and closes its connection, unless it was kept for the user.         *)
RemovedAndClosed(i) ==
    /\ Removed(i)
    /\ peer' = [peer EXCEPT ![requests[i].conn] = "free"]
    /\ inbox' = [inbox EXCEPT ![requests[i].conn] = Nothing]

Replies(c, status) == sent' = {[to |-> c, status |-> status]}

-----------------------------------------------------------------------------
(* The loop: runFS. *)
HasInput(c) == inbox[c] # Nothing \/ peer[c] = "closed"

ReadyNow ==
    LET now == [listen |-> backlog # <<>>, udp |-> udpIn # <<>>,
                conns |-> {c \in fds : HasInput(c)}, idle |-> FALSE]
    IN  [now EXCEPT !.idle = now = NothingReady]

Select ==
    /\ pc = "select"
    /\ \A c \in fds : peer[c] # "free"
    /\ pc' = "serving"
    /\ ready' = ReadyNow
    /\ sent' = {}
    /\ UNCHANGED <<disk, requests, fds, fsidgen, stale, kernel, asked>>

(* EBADF: a connection was closed and left in fds. *)
SelectFails ==
    /\ pc = "select"
    /\ \E c \in fds : peer[c] = "free"
    /\ ProcessEnds
    /\ sent' = {}
    /\ UNCHANGED disk

(* The new request has nothing but its connection: uid and tid are what    *)
(* the memory held, fop does not survive malloc and free.                  *)
NewRequest(c, m) ==
    [conn |-> c, uid |-> m.uid, tid |-> m.tid, op |-> NoOp, fsid |-> 0,
     age |-> -1, data |-> NoData]

handleUserConnection ==
    /\ pc = "serving"
    /\ ready.listen
    /\ ready' = [ready EXCEPT !.listen = FALSE]
    /\ \E m \in stale \cup {Blank} :
           /\ requests' = <<NewRequest(Head(backlog), m)>> \o requests
           /\ stale' = stale \ {m}
    /\ fds' = fds \cup {Head(backlog)}
    /\ backlog' = Tail(backlog)
    /\ sent' = {}
    /\ UNCHANGED <<disk, pc, fsidgen, udpIn, inbox, peer, asked>>

(* Mutant: a second too late. *)
OverdueLater(e) ==
    {i \in DOMAIN requests :
        requests[i].age # -1 /\ requests[i].age + e > TIMEOUT + 1}

(* checkUserRequestTimeouts, when the iteration took e: the newest request *)
(* that is over its time is answered INV, and those behind it are looked   *)
(* at in the next iteration, without the time this one took.               *)
Overdue(e) ==
    {i \in DOMAIN requests :
        requests[i].age # -1 /\ requests[i].age + e > TIMEOUT}

(* Mutant: the time of an iteration is forgotten. *)
AgedNever(r, e) == r

Aged(r, e) == IF r.age = -1 THEN r ELSE [r EXCEPT !.age = @ + e]

(* At most TIMEOUT passes in select, as seconds are counted one more, and  *)
(* any time in the handlers; more than one more makes no difference.       *)
Elapsed == IF ready.idle THEN {TIMEOUT, TIMEOUT + 1} ELSE 0 .. TIMEOUT + 1

ReadyNodes == {i \in DOMAIN requests : requests[i].conn \in ready.conns}

EndOfIteration ==
    /\ pc = "serving" /\ ~ready.listen /\ ~ready.udp /\ ReadyNodes = {}
    /\ pc' = "select"
    /\ ready' = NothingReady
    /\ UNCHANGED <<disk, fds, fsidgen, udpIn, backlog, asked>>

checkUserRequestTimeouts(e) ==
    /\ EndOfIteration
    /\ IF Overdue(e) = {}
       THEN /\ requests' = [i \in DOMAIN requests |-> Aged(requests[i], e)]
            /\ sent' = {}
            /\ UNCHANGED <<stale, inbox, peer>>
       ELSE LET i == First(Overdue(e))
            IN  /\ Replies(requests[i].conn, "INV")
                /\ RemovedAndClosed(i)

-----------------------------------------------------------------------------
(* The operations on the files of a user, and the reply each sends. *)
StoredNames(u) == {n \in Names : stored[u][n] # NoData}
TempsOf(u) == {t \in temps : t.uid = u}
TempOf(r)  == {t \in temps : t.uid = r.uid /\ t.id = r.fsid}

(* What listFiles finds, the temporary files included. *)
Entries(u) == Cardinality(StoredNames(u)) + Cardinality(TempsOf(u))

listRequest(r) ==
    /\ r.op.fop = "L"
    /\ dirs' = dirs \cup {r.uid}
    /\ Replies(r.conn, IF Entries(r.uid) = 0 THEN "EOF" ELSE "OK")
    /\ UNCHANGED <<stored, temps>>

retreiveRequest(r) ==
    /\ r.op.fop = "R"
    /\ Replies(r.conn,
               IF r.uid \notin dirs THEN "NOK"
               ELSE IF stored[r.uid][r.op.name] = NoData THEN "EOF" ELSE "OK")
    /\ UNCHANGED disk

Store(u, n, d) == stored' = [stored EXCEPT ![u][n] = d]

(* Mutant: one file too many fits in a directory. *)
IsFullOneMore(u) == Entries(u) > MAX_FILES + 1

(* Counted with the new file already in its place. *)
IsFull(u) == Entries(u) > MAX_FILES

(* Mutant: rename replaces a file of the same name. *)
IsDuplicateNever(r) == FALSE

IsDuplicate(r) == stored[r.uid][r.op.name] # NoData

(* The temporary file is renamed, or removed.  It is missing if the user   *)
(* was removed in the meantime.                                            *)
uploadRequest(r) ==
    /\ r.op.fop = "U"
    /\ dirs' = dirs \cup {r.uid}
    /\ temps' = temps \ TempOf(r)
    /\ \/ /\ IsDuplicate(r)
          /\ Replies(r.conn, "DUP")
          /\ UNCHANGED stored
       \/ /\ ~IsDuplicate(r) /\ TempOf(r) = {}
          /\ Replies(r.conn, "ERR")
          /\ UNCHANGED stored
       \/ /\ ~IsDuplicate(r) /\ TempOf(r) # {} /\ IsFull(r.uid)
          /\ Replies(r.conn, "FULL")
          /\ UNCHANGED stored
       \/ /\ ~IsDuplicate(r) /\ ~IsFull(r.uid)
          /\ \E t \in TempOf(r) : Store(r.uid, r.op.name, t.data)
          /\ Replies(r.conn, "OK")

deleteRequest(r) ==
    /\ r.op.fop = "D"
    /\ Store(r.uid, r.op.name, NoData)
    /\ Replies(r.conn,
               IF r.uid \notin dirs THEN "NOK"
               ELSE IF stored[r.uid][r.op.name] = NoData THEN "EOF" ELSE "OK")
    /\ UNCHANGED <<dirs, temps>>

removeRequest(r) ==
    /\ r.op.fop = "X"
    /\ dirs' = dirs \ {r.uid}
    /\ temps' = temps \ TempsOf(r.uid)
    /\ stored' = [stored EXCEPT ![r.uid] = [n \in Names |-> NoData]]
    /\ Replies(r.conn, IF r.uid \in dirs THEN "OK" ELSE "NOK")

exeRequest(r) ==
    \/ listRequest(r)
    \/ retreiveRequest(r)
    \/ uploadRequest(r)
    \/ deleteRequest(r)
    \/ removeRequest(r)

-----------------------------------------------------------------------------
(* handleASValidationReply: the answer is for the newest request with its  *)
(* ticket.                                                                 *)
TheAnswer == Head(udpIn)

Matching == {i \in DOMAIN requests : requests[i].tid = TheAnswer.tid}

ReceiveAnswer(type) ==
    /\ pc = "serving" /\ ~ready.listen
    /\ ready.udp
    /\ TheAnswer.type = type

AnswerTaken ==
    /\ udpIn' = Tail(udpIn)
    /\ ready' = [ready EXCEPT !.udp = FALSE]
    /\ UNCHANGED <<pc, fds, fsidgen, backlog, asked>>

(* Mutant: the operation of the answer is not compared. *)
ConfirmsAnyOp(r) == TheAnswer.uid = r.uid /\ TheAnswer.op # FOP_E

Confirms(r) == TheAnswer.uid = r.uid /\ TheAnswer.op = r.op

(* The reply goes to the user and the connection is left open, for ever.   *)
Execute ==
    /\ ReceiveAnswer("CNF")
    /\ Matching # {}
    /\ LET i == First(Matching)
       IN  /\ Confirms(requests[i])
           /\ exeRequest(requests[i])
           /\ Removed(i)
           /\ peer' = [peer EXCEPT ![requests[i].conn] = "left"]
    /\ AnswerTaken
    /\ UNCHANGED inbox

IsUpload(r) == r.op # NoOp /\ r.op.fop = "U"

Refuse ==
    /\ ReceiveAnswer("CNF")
    /\ Matching # {}
    /\ LET i == First(Matching)
           r == requests[i]
       IN  /\ ~Confirms(r)
           /\ IsUpload(r) => TempOf(r) # {}
           /\ temps' = IF IsUpload(r) THEN temps \ TempOf(r) ELSE temps
           /\ Replies(r.conn, "INV")
           /\ RemovedAndClosed(i)
    /\ AnswerTaken
    /\ UNCHANGED <<dirs, stored>>

(* The temporary file that is to be removed is not there: FATAL. *)
RefuseFails ==
    /\ ReceiveAnswer("CNF")
    /\ Matching # {}
    /\ LET r == requests[First(Matching)]
       IN  ~Confirms(r) /\ IsUpload(r) /\ TempOf(r) = {}
    /\ ProcessEnds
    /\ sent' = {}
    /\ UNCHANGED disk

FatalAnswer ==
    /\ ReceiveAnswer("ERR") \/ (ReceiveAnswer("CNF") /\ Matching = {})
    /\ ProcessEnds
    /\ sent' = {}
    /\ UNCHANGED disk

(* The process ends within an operation: between the renaming of a file    *)
(* and the look at the limit, or among the removals of a directory.        *)
CutShort(r) ==
    \/ /\ r.op.fop = "U" /\ ~IsDuplicate(r)
       /\ dirs' = dirs \cup {r.uid}
       /\ \E t \in TempOf(r) : Store(r.uid, r.op.name, t.data)
       /\ temps' = temps \ TempOf(r)
    \/ /\ r.op.fop = "X"
       /\ \E N \in SUBSET StoredNames(r.uid) :
              stored' = [stored EXCEPT ![r.uid] =
                            [n \in Names |-> IF n \in N THEN NoData ELSE @[n]]]
       /\ \E T \in SUBSET TempsOf(r.uid) : temps' = temps \ T
       /\ UNCHANGED dirs

StopInOperation ==
    /\ ReceiveAnswer("CNF")
    /\ Matching # {}
    /\ LET r == requests[First(Matching)] IN Confirms(r) /\ CutShort(r)
    /\ ProcessEnds
    /\ sent' = {}

handleASValidationReply == Execute \/ Refuse \/ RefuseFails \/ FatalAnswer

-----------------------------------------------------------------------------
(* handleUserRequest(i): the newest request of the snapshot. *)
HasTurn(i) ==
    /\ pc = "serving" /\ ~ready.listen /\ ~ready.udp
    /\ ReadyNodes # {} /\ i = First(ReadyNodes)

Served(i) == ready' = [ready EXCEPT !.conns = @ \ {requests[i].conn}]

(* Mutant: the connection stays watched. *)
UnwatchedNever(i) == UNCHANGED fds

Unwatched(i) == fds' = fds \ {requests[i].conn}

(* An upload that ends before all is there. *)
Cut(c) ==
    inbox[c].type = "REQ" /\ ~inbox[c].whole /\ peer[c] = "closed"

(* The user closed the connection without a request, or within the first   *)
(* block of an upload, which tcpReceiveMessage waits for.                  *)
UserClosed(i) ==
    /\ HasTurn(i)
    /\ \/ inbox[requests[i].conn] = Nothing
       \/ Cut(requests[i].conn)
    /\ Served(i) /\ Unwatched(i)
    /\ RemovedAndClosed(i)
    /\ sent' = {}
    /\ UNCHANGED <<disk, pc, fsidgen, udpIn, backlog, asked>>

FatalRequest(i) ==
    /\ HasTurn(i)
    /\ inbox[requests[i].conn].type = "BAD"
    /\ ProcessEnds
    /\ Replies(requests[i].conn, "ERR")
    /\ UNCHANGED disk

(* Mutant: the numbers of temporary files are not generated. *)
NextFsidSame == fsidgen

NextFsid == fsidgen + 1

(* _fillBaseRequest and the fill function of the operation. *)
Filled(r, m) ==
    [r EXCEPT !.uid = m.uid, !.tid = m.tid, !.op = m.op, !.fsid = fsidgen,
              !.data = m.data]

(* validateRequest: the AS is asked, and the time of the request starts.   *)
Asks(m) ==
    /\ sent' = {[to |-> "AS", uid |-> m.uid, tid |-> m.tid]}
    /\ asked' = asked \cup {[uid |-> m.uid, tid |-> m.tid]}

fillRequest(i) ==
    LET m == inbox[requests[i].conn]
    IN  /\ HasTurn(i)
        /\ m.type = "REQ" /\ m.op.fop # "U"
        /\ Served(i) /\ Unwatched(i)
        /\ requests' = [requests EXCEPT ![i] =
                           [Filled(@, m) EXCEPT !.age = 0]]
        /\ fsidgen' = NextFsid
        /\ Asks(m)
        /\ inbox' = [inbox EXCEPT ![requests[i].conn] = Nothing]
        /\ UNCHANGED <<disk, pc, stale, udpIn, backlog, peer>>

(* An upload: its directory is made and its temporary file written, over   *)
(* one that an earlier process may have left.  storeFileFromTCP reads      *)
(* until all is there; nothing else is served meanwhile.                   *)
fillUploadRequest(i) ==
    LET m == inbox[requests[i].conn]
    IN  /\ HasTurn(i)
        /\ pc' = "storing"
        /\ m.type = "REQ" /\ m.op.fop = "U"
        /\ Unwatched(i)
        /\ requests' = [requests EXCEPT ![i] = Filled(@, m)]
        /\ fsidgen' = NextFsid
        /\ dirs' = dirs \cup {m.uid}
        /\ temps' = {t \in temps : ~(t.uid = m.uid /\ t.id = fsidgen)}
                       \cup {[uid |-> m.uid, id |-> fsidgen, data |-> m.data]}
        /\ sent' = {}
        /\ UNCHANGED <<stored, ready, stale, kernel, asked>>

storeFileFromTCP(i) ==
    LET m == inbox[requests[i].conn]
    IN  /\ pc = "storing"
        /\ i = First(ReadyNodes)
        /\ m.whole
        /\ pc' = "serving"
        /\ Served(i)
        /\ requests' = [requests EXCEPT ![i].age = 0]
        /\ Asks(m)
        /\ inbox' = [inbox EXCEPT ![requests[i].conn] = Nothing]
        /\ UNCHANGED <<disk, fds, fsidgen, stale, udpIn, backlog, peer>>

(* The user is gone after the first block.  tcpReceiveMessage returns -1,    *)
(* which is added to the size and passed to fwrite: the loop goes on for   *)
(* ever, or the write fails in the memory of the process.                  *)
StoreBroken(i) ==
    /\ pc = "storing"
    /\ i = First(ReadyNodes)
    /\ Cut(requests[i].conn)
    /\ sent' = {}
    /\ \/ /\ pc' = "stuck"
          /\ UNCHANGED <<requests, fds, ready, fsidgen, stale, kernel, asked>>
       \/ ProcessEnds
    /\ UNCHANGED disk

handleUserRequest(i) ==
    \/ UserClosed(i)
    \/ FatalRequest(i)
    \/ fillRequest(i)
    \/ fillUploadRequest(i)
    \/ storeFileFromTCP(i)
    \/ StoreBroken(i)

(* What the process does by itself once it is scheduled. *)
ServerStep ==
    \/ Select
    \/ SelectFails
    \/ handleUserConnection
    \/ handleASValidationReply
    \/ \E i \in DOMAIN requests : handleUserRequest(i)
    \/ \E e \in Elapsed : checkUserRequestTimeouts(e)

-----------------------------------------------------------------------------
(* The users, and the AS. *)
Listed(c) == \E i \in DOMAIN requests : requests[i].conn = c

(* What the kernel holds that the server will read. *)
Unread ==
    {c \in Conns :
        /\ inbox[c] # Nothing
        /\ Listed(c) \/ \E k \in DOMAIN backlog : backlog[k] = c}

Arrivals == Len(udpIn) + Len(backlog) + Cardinality(Unread)

Outside ==
    /\ pc # "down"
    /\ sent' = {}
    /\ UNCHANGED <<disk, pc, requests, fds, ready, fsidgen, stale, asked>>

(* The AS may answer each question, any number of times, at any time. *)
Answerable(m) ==
    /\ asked # {}
    /\ m.type = "CNF" => [uid |-> m.uid, tid |-> m.tid] \in asked

Arrives(m) ==
    /\ Outside
    /\ Arrivals < MaxPending
    /\ udpIn' = Append(udpIn, m)
    /\ UNCHANGED <<backlog, inbox, peer>>

AnswerArrives(m) == Answerable(m) /\ Arrives(m)

(* A descriptor is taken again when it was closed and no longer watched.   *)
UserConnects(c) ==
    /\ Outside
    /\ Arrivals < MaxPending
    /\ peer[c] = "free" /\ c \notin fds
    /\ peer' = [peer EXCEPT ![c] = "open"]
    /\ backlog' = Append(backlog, c)
    /\ UNCHANGED <<udpIn, inbox>>

UserSends(c, m) ==
    /\ Outside
    /\ peer[c] = "open"
    /\ Arrivals < MaxPending
    /\ fsidgen + Cardinality(Unread) < MaxIds
    /\ peer' = [peer EXCEPT ![c] = "sent"]
    /\ inbox' = [inbox EXCEPT ![c] = m]
    /\ UNCHANGED <<udpIn, backlog>>

UserSendsRest(c) ==
    /\ Outside
    /\ peer[c] = "sent"
    /\ inbox[c] # Nothing /\ inbox[c].type = "REQ" /\ ~inbox[c].whole
    /\ inbox' = [inbox EXCEPT ![c].whole = TRUE]
    /\ UNCHANGED <<udpIn, backlog, peer>>

UserCloses(c) ==
    /\ Outside
    /\ peer[c] \in {"open", "sent"}
    /\ peer' = [peer EXCEPT ![c] = "closed"]
    /\ UNCHANGED <<udpIn, backlog, inbox>>

Environment ==
    \/ \E m \in Answer : AnswerArrives(m)
    \/ \E c \in Conns :
           \/ UserConnects(c)
           \/ \E m \in UserMsg : UserSends(c, m)
           \/ UserSendsRest(c)
           \/ UserCloses(c)

Next == ServerStep \/ Environment \/ Stop \/ StopInOperation \/ Start

Spec == Init /\ [][Next]_vars

(* The operating system schedules the process, and its select returns.     *)
FairSpec == Spec /\ WF_vars(ServerStep)

-----------------------------------------------------------------------------
(* A process that goes on never brings a user past MAX_FILES files, and    *)
(* with the temporary files of this or an earlier process in the directory *)
(* it stops short of that.                                                 *)
StoresWithinLimit ==
    [][\A u \in Uids :
          /\ pc' # "down"
          /\ ~(StoredNames(u)' \subseteq StoredNames(u))
          => Entries(u)' <= MAX_FILES]_vars

(* The temporary file of an upload that waits for its confirmation holds   *)
(* what that upload brought, unless the user was removed: uploads that     *)
(* wait together, or that an earlier process left, do not mix.             *)
UploadsKeptApart ==
    \A i \in DOMAIN requests :
        IsUpload(requests[i]) =>
            \A t \in TempOf(requests[i]) : t.data = requests[i].data

(* A file is never replaced, and what appears under a name was brought by  *)
(* a request of that user for that name.                                   *)
StoresWhatWasSent ==
    [][\A u \in Uids, n \in Names :
          \/ stored'[u][n] \in {stored[u][n], NoData}
          \/ /\ stored[u][n] = NoData
             /\ \E i \in DOMAIN requests :
                    /\ requests[i].uid = u
                    /\ requests[i].op = [fop |-> "U", name |-> n]
                    /\ requests[i].data = stored'[u][n]]_vars

(* A request in the list has its own open connection, which select watches *)
(* exactly until the request is read: it is never read twice, and a reply  *)
(* never goes to a closed descriptor or to that of another user.           *)
ListedDescriptors ==
    /\ \A i, j \in DOMAIN requests :
           requests[i].conn = requests[j].conn => i = j
    /\ \A i \in DOMAIN requests :
           /\ peer[requests[i].conn] \notin {"free", "left"}
           /\ \A k \in DOMAIN backlog : backlog[k] # requests[i].conn
           /\ requests[i].conn \in fds <=> requests[i].op = NoOp

(* While nothing is readable, the requests that wait are answered: by the  *)
(* time they are given, since the AS is not asked again (fs.c:274 says it  *)
(* is).  One that the removal of an older one took out of the list counts  *)
(* as answered here, although its user is left without an answer.          *)
Quiet ==
    /\ pc \in {"select", "serving"}
    /\ backlog = <<>> /\ udpIn = <<>>
    /\ \A c \in fds : ~HasInput(c)

RequestsAnswered ==
    <>[]Quiet => []<>(\A i \in DOMAIN requests : requests[i].age = -1)

-----------------------------------------------------------------------------
(* What the repository says and the code does not do. *)

(* fs.c:164: "no request with the specified tid is on the list (ignores    *)
(* the message)".  An answer that comes late, or whose request was dropped *)
(* by the removal of an older one, leaves the server running.              *)
IgnoresUnmatchedAnswers ==
    [][FatalAnswer => TheAnswer.type = "ERR"]_vars
=============================================================================
