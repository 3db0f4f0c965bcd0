# A TLA+ model of RC-git

RC-git is a two-factor file service made of four programs. A *user* (User)
logs in at the *authentication server* (AS) over TCP and asks for a file
operation; the AS sends a validation code over UDP to the user's *personal
device* (PD); the user types the code back and gets a ticket (TID); the user
takes the ticket to the *file server* (FS) over TCP, and the FS has it confirmed
by the AS over UDP before it touches a file. Everything is single-threaded: each
program is one `select()` loop. What is hard is not threads but the network and
the order of events: datagrams are lost, repeated and late, connections come and
go between two iterations, several messages arrive in one read, and the shared
linked list behind every queue has a removal with an unexpected effect.

All paths below are relative to `src/project/src/`.

## 1. Inventory

| component | state | operations | interacts with |
|---|---|---|---|
| list (`list.c`) | `_head`, `_size`, nodes with `_prev`, `_next` | insert, remove, iterate, destroy | all lists of AS and FS |
| AS loop (`as/as.c`) | `exitCode`, `fds`, `userList`, `pdList` | select, timeout, accept, dispatch, close, signals, exit | kernel queues; handlers |
| AS handlers (`as/as_aux.c`) | per session `uid, rid, vc, tid, fop, fname`; files `_pass.txt`, `_reg.txt` | REG, UNR, RVC, VLD, LOG, REQ, AUT, resend | PD and FS by UDP, User by TCP |
| PD (`pd/`) | `userInfo`, `asConnection`, `pdConnection`, `waitingReply`, `nRequestTries`, `msgBuffer` | reg, exit, VLC, resend, terminate | AS by UDP, terminal |
| FS (`fs/`) | list of requests with their connection, uid, tid, time; files | LST, RTV, UPL, DEL, REM, CNF, expiry | AS by UDP, User by TCP |
| User (`user/`) | `userInfo` (uid, rid, tid, `fsConnected`), two connections, `filename`, `waitingReply`, `nRequestTries` | login, req, val, list, retrieve, upload, delete, remove, exit | AS and FS by TCP, terminal |
| files (`files.c`) | directories and files | store, retrieve, delete, transfer in blocks | AS, FS, User |
| TCP and UDP wrappers (`tcp.c`, `udp.c`) | sockets | accept, receive, send, close | all |
| common (`common.c`) | signal handlers | format checks, input, random numbers | all |

What makes each correct:

* **list**: no freed node is followed; callers know which elements remain.
* **AS**: tickets and codes are used once; passwords are stable; no message waits
  for nobody; every session in the list has its own open, watched descriptor;
  waiting messages are resent and given up; shutdown completes.
* **PD**: what it believes about its registration agrees with the AS; it resends
  its own request, and no more often than announced; it listens for codes while it
  believes it is registered; it stops waiting, and it ends.
* **FS**: what appears in a directory was brought by a request of its user for that
  name, and nothing is replaced; uploads that wait do not mix; the limit of files is
  kept; each listed request has its own open connection; no listed request waits for
  ever; an answer that is late does no harm.
* **User**: no NULL connection is followed; a file is stored under the name it was
  asked by; what the file server answers is read while the AS is awaited; the program
  stops waiting, and ends with the AS.
* **files**: however a stream is cut, the file that arrives is the one that was sent,
  and the receiver neither refuses nor waits for more than comes.
* **AS and FS together**: a ticket is good for one operation, and for the one that was
  asked for.

`PROJECT.json` lists the hazards line by line, with the properties aimed at them.

## 2. Modules

| module | models | kind |
|---|---|---|
| `TailList` | what a caller of `list.c` gets | abstract specification |
| `ListRC` | `list.c`, pointer by pointer | detailed specification |
| `ListRC_proofs` | | theorems about `ListRC` |
| `AS` | `as.c`, `as_aux.c`, the files it keeps, the kernel queues | specification |
| `AS_proofs` | | theorems about `AS`; AS implements `Authorisation` |
| `PD` | `pd.c`, `pd_aux.c`, its two sockets and its terminal | specification |
| `PD_proofs` | | theorems about `PD` |
| `Registration` | one `PD`, the `AS` and the network between them | composition |
| `Registration_proofs` | | theorems about `Registration` |
| `FS` | `fs.c`, `fs_aux.c`, the directories of `files.c`, the kernel queues | specification |
| `FS_proofs` | | theorems about `FS` |
| `User` | `user.c`, `user_aux.c`, the terminal and both connections | specification |
| `User_proofs` | | theorems about `User` |
| `Transfer` | `sendFileThroughTCP`, `tcpSendMessage`, `tcpReceiveMessage`, `storeFileFromTCP` | specification |
| `Transfer_proofs` | | theorems about `Transfer` |
| `Authorisation` | what AS promises FS | abstract specification |
| `Access` | `FS`, `Authorisation` and the network between them | composition |
| `Access_proofs` | | theorems about `Access` |
| `MCListRC`, `MCAS`, `MCPD`, `MCRegistration`, `MCFS`, `MCUser`, `MCTransfer`, `MCAccess` | | instances for TLC |

### ListRC and TailList

`ListRC` keeps the nodes (`alloc`), `prev`, `next`, `head`, `size` and the cursor
of the loop every caller writes: `cur` is the node the body looks at and `iter`
the caller's iterator, already on the next node. `listInsert` never sets the
`_prev` of the old head, so every node has `_prev = NULL` and `listRemove` always
moves the head to the successor of the removed node: newer nodes are dropped.
The comment of `listRemove` promises less (`RemovesTheGiven`), which the run `remove`
shows violated. `TailList` says abstractly what a caller gets instead, and
`NodesImplementTailList` proves that `ListRC` implements it (`Abstract!Spec`, with the
chain of nodes from the head as the abstract list; `Walk` goes from node to node until
NULL, for as many steps as there are addresses). `AS` and `FS` rely on it:
`DropThroughAll` is the abstract list after an iteration that removed some elements.

### AS

One iteration of `waitMainEvent` is a `Select` step, which takes the snapshot
`ready` of the readable descriptors, then one step per handler in the order of the
code: the UDP socket, the listening socket (`Accept`), the ready sessions from
the newest to the oldest, and `LoopHead`. Everything outside may come between two
of these steps: datagrams, messages, connections, closings, signals and a kill.

* `userList`, `pdList` are the two lists, newest first; `fds` is the `fd_set`.
* `reg` and `pass` are the `_reg.txt` and `_pass.txt` files; they survive a
  `Kill`, and an orderly exit deletes the `_reg.txt` files (`cleanLogs`).
* `udpIn`, `backlog`, `inbox`, `peer` are the kernel's side.
* `sent` is what the last step sent; `ledger` is a history of how many requests
  were accepted, tickets given and confirmed in each session, and exists only for
  the properties.
* Handlers keep their names. `BAD` messages stand for all that fail a format
  check and make the server call `_FATAL`: the handler sends `ERR`, the signal
  handler sets `exitCode`, the iteration goes on and the loop ends at its test.
* One read takes all that a connection holds and looks at the first message only
  (`Glued`); an L or X request then takes the next word for a file name and is
  answered with `ERR` (`Misread`).
* `Fresh` is the 0 that the numbers of a new session start with, `Clear` the -1 of
  `RID_CLEAR`. Clients may send 0000 as an rid and as a vc, which pass the format checks
  (`common.c:133`), but not as a tid, and the server draws no 0. So a new session that
  logs in can get a ticket without a request (`Authorised`).
* The operation of such a session was never written: `req_authOP` reads what `malloc`
  returned, any operation or none (`OpRead`), and may remove the user.
* An environment that may send any datagram at any time covers loss, delay,
  repetition and reordering.

A reset of the connection at close makes the read fail with an error that
`tcpReceiveMessage` calls `_FATAL` for, hence the choice of `exitCode'` in
`CloseSession`. `Kill` covers the `SIGPIPE` of a write to a client that is gone:
`initSignal` installs no handler for it. The files it leaves are those of before or
after the handler, or, where an operation touches two files, of between: a password
without its registration (`HalfRegistered`: `req_registerPD` writes the password
first), either file of a user who is removed (`HalfRemoved`: `deleteDirectory` takes
them in the order of `readdir`), or some of the registrations (`HalfCleaned`).

### PD

An iteration of `runPD` has the same shape: `Select`, the handlers in the order of
the code (`handleServer`, `handleClient`, `handleUser`), `LoopHead`. `pc` says
where the process stands; after the loop, `cleanPD` sends an UNR and waits
(`farewell`) if the device believes it is registered, and `Exit` ends it.

* `asOpen` and `pdOpen` say that `asConnection` and `pdConnection` are not NULL.
  A successful registration destroys the first with all it still holds
  (`Registered`) and creates the second; both commands create the first again.
* `user` is `userInfo.uid` with `userInfo.pass`, `NoUser` when they are NULL.
* `msgBuffer` is the one buffer all messages are printed to and resent from.
* A line that is typed while a reply is awaited stays in `stdin` and readable.
* `CompareWithNull` is `strcmp` on a NULL uid: the handler of SIGSEGV returns to
  the instruction that faulted, so the process is `hung` until it is killed.
* At the end of the input `fgets` fails and the buffer keeps what an earlier call
  left on the stack; `handleUser` may then perform any command.
* A signal that comes between the test of the loop and `select` is noticed after
  `select` returns, which is the order `Select`, `Signal`.
* `asked` and `resends` are histories. `asked` restricts a server to answers to
  requests of the same socket; `Registration` shows that the AS keeps to it.

### Registration

`Device == INSTANCE PD` and `Server == INSTANCE AS` with no TCP connections. The
device's messages go to `toAS` with a return address that is still open or closed,
arrive at the server in any order and any number of times, and are answered
to where they came from (`senders` runs in step with `udpIn`). Answers to a closed
socket find nobody. Either program may be killed, terminated and started again.
Arrivals wait for the end of the receiver's iteration: what comes during it is not
in the snapshot of `select` and is found by the next one all the same.

### FS

An iteration of `runFS` has the shape of the others: `Select`, the listening socket
(`handleUserConnection`), the answer of the AS, the ready requests from the newest to
the oldest, and `checkUserRequestTimeouts`. Every `FATAL` ends the process at once,
since `abortFS` calls `exit`.

* `requests` is `userRequests`; a removal leaves `OlderThan`, the list of `TailList`.
  `age` is `timeExpired`, and `conn` the descriptor.
* `dirs`, `stored` and `temps` are the directories, the files and the
  `~~temp_<fsid>~~` files. They survive the process, and its numbers start again.
* A request that is accepted and not read has the uid and tid of whatever memory
  `malloc` returns: `stale` holds those of freed requests. `fop` lies in the part of
  a block that `malloc` and `free` overwrite.
* The handlers of an answer are `Execute`, `Refuse` and the two that are fatal; the
  answer is compared with the newest request that has its ticket. The five operations
  keep their names; each changes the directories and sends its reply.
* An upload is two steps, `fillUploadRequest` and `storeFileFromTCP`, since the
  second waits for the user, with the server serving nobody else. A user who leaves
  in between makes it loop (`pc = "stuck"`) or crash (`StoreBroken`). One who leaves
  within the first block is a closed connection like any other (`Cut`, `UserClosed`).
* Time: `checkUserRequestTimeouts` chooses how long the iteration took, in the unit
  of `TIMEOUT`: at least `TIMEOUT` if `select` timed out, any time otherwise, since
  the handlers may block. More than `TIMEOUT + 1` makes no difference.
* The connection of an executed request is never closed (`"left"`); a connection
  closed while `select` watches it makes `select` fail (`SelectFails`).
* `Stop` may come between any two steps and `StopInOperation` within an operation,
  where that leaves something neither before nor after would.
* The AS may answer a question any number of times and with any operation, or `ERR`.

### User

An iteration of `runUser` has the shape of the others: `Select`, the handlers in the
order of the code (`handleASServer`, `handleFSServer`, `handleUser`), `LoopEnd`. Every
`FATAL` and every signal ends the process at once.

* `fsOp` is what was asked on `fsConnection`, `NoOp` when that is NULL. A new operation
  replaces the connection whether or not the earlier one was answered (`req_file`).
* `ridSet` says that `rid` is not `RID_INVALID`; its value is never compared here.
* What a typed line says is chosen when it is read: `stdin` only counts lines.
* The AS answers the first of the requests it reads together (`ASAnswers`), says that
  a device has a code as often as it likes (`DeviceAnswers`), and may leave. One read
  of the program takes all answers and looks at the first (`ReceiveAS`).
* A retrieved file comes at once or in pieces (`fsIn = "part"`); in the second case the
  program serves nothing else (`storing`), and the end of the connection leaves it
  `stuck` or ends it. `Transfer` is that loop byte by byte.

### Transfer

The sender writes a header, the contents in blocks of `ReadSize`, and a newline; a
write hands over any part of what is left. The receiver reads any part of what is
there into a buffer of `len` bytes until `IsMessage`: a newline at the end of what was
read, or a full buffer. The first read is that of the handler, the others are those
of `storeFileFromTCP`. A byte is its position in the file, so that a byte lost, doubled
or out of place shows; `newlines` says where the contents have newlines.

### Authorisation and Access

`Authorisation` is AS as FS may know it: a session logs in, asks for an operation, has
its code turned into a ticket, and the ticket is good for one answer; sessions are
forgotten. A new session has one ticket to get without asking, and that one may be
confirmed for any operation, since this is what AS does with 0000. It has no lists, no
queue, no devices and no descriptors. `AS` maps to it (`Sessions`, `Verdicts`,
`Promise`): the session of a connection is that of the listed entry with its descriptor,
and the verdict is the `CNF` among what the last step sent.

`Access` puts `FS` beside `Authorisation`, with `questions` and `answers` on their way
between the two: a datagram may be lost, and may be overtaken. Each question is sent
from the socket of one process; after a restart its answer finds nobody (`Posted`,
`present`). A question is answered by a session of its user, or with `E` or `ERR`.
`requested`, `unasked`, `granted` and `executed` are histories; `unasked` has the tickets
that were given to sessions that had not asked.

## 3. Runs

| run | instance | shows |
|---|---|---|
| `list` | 4 addresses | no node is followed after it was freed |
| `tickets` | 1 user, 2 passwords, 1 connection, 2 operations, fair | one ticket per request and one more, each confirmed once; an unwritten operation is confirmed once at most; a password goes only with its user, and nobody is registered without one, whatever a kill cuts; waiting messages have a device; list, fd_set and sockets agree; AS implements `Authorisation`; the queue drains, shutdown completes |
| `device` | 2 users, 2 tries, fair | a waiting device keeps its request; it listens while registered; resends are bounded; a wait ends, a noted exit completes |
| `agree` | 1 user, 1 datagram in flight each way | types; who believes to be registered was registered; device and server keep to what each module allows the other |
| `files` | uploads, deletion and removal; 1 user, 1 ticket, 1 name, 2 contents, 2 connections, fair | types; uploads do not mix, files are not replaced, the limit is kept, listed requests have their descriptors, and do not stay listed for ever |
| `commands` | 1 user, 5 operations on 2 files, fair | no NULL connection is followed; files get their own names; answers are read; a wait ends; the program ends with the AS |
| `transfer` | sizes 0 to 8, buffers of 4 and 7 bytes, fair | what is stored is what was sent; nothing whole is refused; a transfer completes |
| `access` | 1 user, 1 ticket, 2 requests, restarts of FS, symmetric | types; one operation per ticket, and the one that was asked for, if one was; FS meets no answer it does not suppose |
| `silent` | 2 connections, fair | *violation*: `as.c:234`, unanswered messages are resent |
| `late` | every operation; 2 tickets | *violation*: `fs.c:164`, an unmatched answer is ignored |
| `remove` | 3 addresses | *violation*: `list.h:50`, a removal takes out the given element |
| `unasked` | 1 user, 1 connection | *violation*: `user_aux.h:342`, a ticket follows from a two-factor authentication |

The type invariants of `ListRC`, `AS`, `PD`, `User` and `Transfer`, the agreement of
`_size` with the allocated nodes, and that the list implements `TailList`, are proved for
every instance (section 4) and in no run.

What the violations show is told in `PROJECT.json` under `findings`. Behaviour of
the model that follows from the same causes and has no run of its own:

* The ticket of `unasked` confirms whatever operation the memory of the session holds
  (`as_aux.c:292`). `TicketsOneTime` therefore allows one ticket more than there were
  requests, `UnwrittenOnce` bounds what it is good for, and `Authorisation` has it.
* The removal of `TailList` makes the server forget the sessions newer than one that
  is closed while `select` still watches them (`as.c:276`; `silent` is its worst
  effect), forget the messages of other users when the queue of one is cleaned
  (`as_aux.c:15`), and forget messages resent less often than the one given up
  (`as.c:240`). `_size` then counts elements no iteration reaches.
* A user whose removal is cut by a kill may keep the registration and lose the password
  (`files.c:142`, `HalfRemoved`): the device stays registered, and no login succeeds
  until it unregisters and registers again. `RegisteredWithPassword` is therefore about
  steps that register somebody.
* A session has one operation for its request and its ticket: a request made after a
  ticket was given changes what the ticket confirms (`as_aux.c:496`).
* A session has one user at a time, but a login on a connection that is already logged
  in sets only the uid (`req_loginUser`): a ticket given to the earlier user is then
  confirmed for the later one. `OneOperationPerTicket` and `ExecutesWhatWasRequested`
  therefore count over all users.
* The same removal makes FS forget requests that wait: they are never answered, their
  connections stay open, and an answer for them is the fatal one of `late`.
  `RequestsAnswered` counts a request as done with once it has left the list, for
  whichever reason.
* The comment of `checkUserRequestTimeouts` has requests resent to the AS (`fs.c:274`).
  The code sends no question twice: a request whose question or answer is lost waits
  until it expires, and is refused.
* A file server that ends between `rename` and its look at the limit leaves a file
  over the limit (`fs_aux.c:206`, `StopInOperation`); `StoresWithinLimit` is about
  steps after which the process goes on.
* A line typed while the device waits for a reply stays readable: `select` always
  returns at once, and the request is neither resent nor given up (`pd.c:301`).
* A device that leaves while it believes it is registered waits for an answer without
  a timeout; if the datagram is lost it stays for ever (`pd.c:37`).
* `nRequestTries` is set back only by `GiveUp`: resends of an answered request
  shorten the next one (`pd.c:308`). `ResendsBounded` is the half that holds.
* An answer names no user. With two users an OK for a request that was given up
  registers the device for the user typed next (`pd_aux.c:119`); with two passwords
  a late NOK frees the user of a request that is then accepted (`pd_aux.c:128`).
  `RegisteredIsRegistered` is therefore about one user and about a device that
  still has one.
* A `REG` that is repeated is answered `NOK`, and the device reports a failure while
  the server has it registered (`pd_aux.h:90`).
* In User, `list` sets `fsConnected` and a retrieve with a wrong name sets it back while
  the first connection is open: its reply is never read (`Misnamed`, against
  `user_aux.h:30`). A connection that is replaced is not closed (`req_file`).
* `nRequestTries` is never set back in User, and `req_resendLastMessage` sends nothing:
  the tries are used up once for the life of the program.
* A request that was not sent leaves 1 for a rid, and a code that was refused leaves 0
  for a tid that was good (`req_request`, `resp_val`). The uid is stored before the AS
  confirms it (`user_aux.h:24`).
* An answer to a removal ends the User program whatever its status, and of several
  answers in one read all but the first are lost.

Bounds. `MaxPending` caps what the kernel holds, `MaxInbox` the messages of one
connection (at most 3 requests fit in one read), `MaxQueue` the waiting messages and
`MaxReq` the requests of one session. Each instance lets its own case happen: two
waiting messages are enough for a removal to drop a newer one, two connections
(`silent`) for a drop of a session, two requests in a session for a reused number and
for an operation that replaces another, and two messages on a connection for one read of
both. One pending arrival is enough in `tickets`, since a datagram that arrives again
after it was read is a repeated one. One password there would leave nothing to be
replaced; numbers are single values, equal to those of an earlier session and different
from 0 and -1 only, since that is what the code compares. The safety properties are
proved without bounds. `NREQUEST_TRIES` is 3 in the code; 2 in `device` has a message
resent before and after another event, and elsewhere only the limit matters. No run asks
that a session dropped with an older one be served: `silent` shows one that stays open
and unanswered. For the device, `MaxLines` caps what the terminal holds and `MaxIn` each
socket: one line typed while another is served and one answer behind another are enough
for the late answers and the unread line the properties are about. `MaxFlight` caps the
datagrams in one direction: one on the way and one in the receiver's socket are an old
and a new request, or two answers to one request, under way together. `Typed` leaves out
the lines that are no command, which `device` has. In `FS`, `MaxPending` is as in `AS`
and `MaxIds` caps the requests a process reads. Two requests, with one ticket in `files`
and two in `late`, let one be older than the other, wait with the other, or come after
the other expired; a limit of one file, which the temporary file of a second upload
fills, is met and passed; a restart adds temporary files of an earlier process to all
that.

In `User`, `MaxPending` caps typed lines, requests and answers together; two lets a
line be typed while an answer is on its way, or two answers be read at once. One try is
enough in `commands`, since the tries are not set back: all that matters is before and
after the last one. In `Transfer`, a buffer of 4 stands for 128 and one of 7 for
`BUFSIZ`; a header of 2 leaves room for contents in both first reads, and sizes up to 8
are every remainder of a block, contents that end exactly with a read, and contents
that take three reads. In `access`, `MaxGrants` is 1, so that any second operation shows,
`MaxFlight` is 2, so that two answers can be under way and the second overtake the
first; `MaxIds` lets both requests carry the one ticket. What arrives during an
iteration is not in its snapshot and `AccessNext` lets it come after; users stay, and
bring uploads that are whole, as the `files` run covers the others.

Fairness. `FairSpec` adds `WF_vars(ServerStep)`: the operating system schedules
the process and its `select` returns (at the latest after `TIMEOUT`). Nothing is
assumed of clients, devices or signals. `QueueDrains` is conditional: it promises
that the queue empties if, from some time on, no watched descriptor is readable;
`silent` shows that the condition cannot be weakened to "nothing arrives that the
server would handle". `PD` has the same fairness for `DeviceStep`; a hung process
takes no step. `WaitEnds` supposes a terminal without unread lines and
`LeaveCompletes` excepts a device that believes it is registered: without that
neither holds, as told above. In `FS` the fairness is the same; `RequestsAnswered`
supposes that from some time on nothing watched is readable and the server is not
stuck in a broken upload. `User` has the same fairness for `UserStep`; `WaitEnds`
supposes that from some time on nothing more is typed. In `Transfer` both programs are
scheduled and what was written can be read; `Completes` supposes that the sender stays.

No run disables the deadlock check.

## 4. Proofs

TLAPS checks the following for every value of the constants, under the named
assumptions of the modules only (`NullAssumption`, `ConstantsAssumption`,
`ParametersAssumption`, `UsersAssumption`, `BoundsAssumption`, `TypedAssumption`,
`SizesAssumption`, `AccessAssumption`): each says that the values that stand for nothing
are none of the others, that bounds are numbers, that what is typed is a line of the
device, or, in `ListRC`, that a process has finitely many addresses.

* `ListRC_proofs`: `PrevStaysNull`, that no `_prev` is ever set, is a lemma for the rest;
  `SizeCounts` adds that
  the allocated nodes are a finite set and that the node being looked at is one of
  the allocated ones; `TypeCorrect` follows.
  * `NodesAreAllocated` and `NodesImplementTailList` rest on `ChainInv`: there is a
    sequence of distinct allocated nodes, linked in its order from the head to NULL
    (`IsChain`), with the loop's node on it and the iterator on the one after
    (`CursorOn`). An insertion prepends to the sequence; a removal drops all up to the
    removed node, since `head` moves and nobody ever has a `_prev`. `NoDanglingNode` is
    not inductive alone: it does not say that the nodes left are linked in the same order,
    nor that none is met twice. That the sequence is `Chain` (`ChainIs`) needs that
    it is no longer than the set of addresses, as its nodes are distinct, and then
    goes along `Walk` by a least-element argument, without induction.
* `AS_proofs`:
  * `DropLeavesASuffix`: a list after removals is a suffix past all removed
    elements; `FirstIsLeast` and `LastIsGreatest` justify the `CHOOSE`s by
    well-founded induction over finite sets.
  * `TypeCorrect`: one lemma per group of actions (UDP, TCP, loop, outside).
  * `QueueIsRegistered`: `QueueRegistered` is inductive with the types. Each step
    that takes a user out of `reg` cleans the queue of that user, and what a
    removal leaves is part of what was there.
  * `DescriptorsAreSound`: needs `BacklogDistinct`, since `accept` takes its
    descriptor from the backlog.
  * `OneTicketPerRequest`, `UnwrittenUsedOnce`: `TicketsOneTime` is not inductive.
    `LiveNumbersUnused` strengthens it: a session that still has a number for its rid,
    the 0 of a new one included, was given no more tickets than it made requests; one
    that still has its tid had fewer confirmed than given; one whose operation was never
    written had no request; and a descriptor that waits to be accepted has an account
    without entries. It needs `SessionDescriptors`, since two sessions on one
    descriptor would share an account.
  * `PasswordIsStable` and `RegistrationHasPassword`: action properties, from the types,
    with a case for each way in which a kill may leave the two files; a password goes
    only in the handler of a ticket that is the one of the session (`TicketShown`).
  * `KeepsPromise`: the refinement that the run `tickets` checks. Each action of `AS` is a
    login, a request, a grant, a validation or a forgetting in `Authorisation`, or a
    stutter. The mapping reads the session of a connection with a `CHOOSE` among the
    listed entries, so the proof needs that entries have distinct descriptors
    (`DescriptorsAreSound`), and that a removal leaves a suffix (`DropLeavesASuffix`).
* `PD_proofs`:
  * `TypeCorrect` and `ResendsItsRequest` come from one induction: what a timeout
    sends is what the buffer holds, so the type of what is sent needs
    `WaitsForItsRequest`. There is a lemma for each part of the types and one for
    the wait, with a step for each action.
  * `ListensWhileConnected` is inductive with the types: the exit code, once set,
    stays set, and every other step that changes one of the two sets it.
  * `NoExcessResends` needs `CounterIsAhead`: while the device waits, its counter
    is at least the number of resends of the request in hand, since it is set back
    only together with the end of the wait.
  * `DeviceInv` and the lemmas after it are what `Registration_proofs` needs of a device:
    what it sends it has asked for, on the socket it has open (`SentIsAsked`), and
    what lies at that socket answers something asked there.
* `Registration_proofs`: the inductive invariant `Inv` has a part for each end and one
  for the wires.
  * `ServerInv`: with no users to connect, the server has its types, no session and no
    queue, so that every step of it is one that `AS` allows.
  * `NetworkInv`: the return addresses run in step with the waiting datagrams, and every
    request from a socket still open, and every answer to that socket, is for something
    the device asked there (`asked`). The property to keep is `DeviceBehaves`, that an
    arriving answer is `Answerable`; it says nothing of requests under way, whose answers
    come later, hence the strengthening.
  * `TypeCorrect`, `DeviceIsPD` and `ServerIsAS` follow, and `DeviceKeepsItsWord` takes
    over to the composition what `PD_proofs` proves of a device alone.
  * `DeviceIsRegistered` has the hypothesis `OneUid`: all that can be typed has one uid,
    with any number of passwords. It is needed: with two uids TLC finds a late OK
    for the first that is taken for the second. `AgreeInv` strengthens it: as soon as an
    OK to a registration is under way, waits at the socket, or is believed, the uid is
    registered or was unregistered since; the requests under way are of such users.

* `FS_proofs`:
  * `TypeCorrect` is inductive with two facts beside the types: what `select` found in the
    backlog and the datagrams is still there, and a user who has sent nothing has nothing
    in the inbox (`KernelInv`); a server that stores an upload has one in the inbox of the
    request whose turn it is (`StoringInv`).
  * `DescriptorsAreSound` is inductive with `BacklogInv`: `accept` takes its connection
    from a backlog without repetitions, of open connections that are not watched.
  * `UploadsDoNotMix` is inductive with `NumbersPast`: the numbers of waiting uploads
    are below the next one. Temporary files of an earlier process may have the same
    number; the proof is that the new upload replaces them before it waits.
  * `StoredWasSent` and `LimitKept` are action properties from these invariants; the
    second needs that the temporary files are finitely many (`FiniteInv`).
* `Access_proofs`: the composition is proved with `AskedInv` (what is on its way belongs
  to a question the present process asked, or to an earlier process), `RequestedInv`
  (sessions and confirmations name only operations that were asked for, or have a ticket
  that was not asked for) and `TicketInv`
  (operations begun, confirmations that wait in the server or travel, and sessions that
  still hold a ticket are together no more than the tickets granted). From the first
  follows `FSIsServed`: FS takes no step here that its module does not have, so the
  theorems of `FS_proofs` hold in the composition (`FSKeepsItsWord`). `FSBehaves` is
  written with `UNCHANGED vars \/ Next` so that TLC meets the cheap disjunct first; it
  means `[][Next]_vars`. The counts need a finite set of sessions, and that no datagram
  is repeated.
* `User_proofs`: `TypeCorrect` is inductive with `LineIsThere`, since a line that `select`
  saw is read later in the iteration; `NoNullConnection` and `StoredUnderItsName` are
  inductive together, without the types.
* `Transfer_proofs`: the inductive invariant is `TypeOK` with `StreamInv` (the stream and
  what is left of the block are together a prefix of header, contents and newline),
  `BufferInv` (the buffer is the part of the stream read last) and `FileInv` (the file
  is what was read before). `FileArrives` and `AlwaysTaken` follow: the last byte of a
  message of the full length can only be position `size + 1`.

Only model-checked: the liveness properties (`QueueDrains`, `ShutdownCompletes`,
`RequestsAnswered`, `LeaveCompletes`, `Completes`, `AnswersRead`, `EndsWithServer`, and
both `WaitEnds`), which are out of the prover's reach. Every invariant, action property
and refinement that a passing run checks has a theorem.

## 5. Not modelled

* Disk writes that fail or are cut within one file. A kill between two files of AS is
  part of `Kill`; a password file that was opened and not written reads as none. In FS
  the cuts that matter are steps (`StopInOperation`, and between the two steps of an
  upload).
* In FS: uploads whose data is not of the announced length, and file names that are
  not plain names; the User program sends neither. Lengths and contents of replies
  beyond their status.
* The time before the loop starts (`INIT_RUNTIME`), command line, sockets,
  addresses, terminal.
* The status `EFOP`: the User program never sends an unknown operation.
* Format checks character by character; numbers are members of a set, equal ones
  included. `-1` (`Clear`) is outside it, as it is no four digits. `0` (`Fresh`) may come
  as an rid or a vc, which only have to be digits; it is no code or ticket that the
  server draws (`RAND_NUM_MIN`), and a tid below 1000 fails its check (`isTIDValid`).
* The directory stream `req_registerPD` leaves open.
* Several lines that reach the device in one read (a pipe instead of a terminal):
  the later ones would wait in the buffer of stdio, which `select` does not see.
* Two devices of one user, and addresses that are used by one device after
  another.
* In User: what is printed, and the memory of a login, which `loggedIn` decides.
* In Transfer: files of 2^31 bytes and more (`atoi`, `int`), a file that changes while it
  is sent, the zero that `files.c:222` writes at `buffer[128]` of a full block, outside
  the array, and a receiver that leaves.
* In Access: repeated datagrams. With one repeated `CNF`, two requests with one ticket
  would both be executed, so `OneOperationPerTicket` is for a network that repeats none;
  `late` and `files`, on `FS` alone, have repetition. Users do not leave and uploads are
  whole.

## 6. Plan

Done: lists, AS, PD, Registration, FS, User, Transfer, Authorisation and Access, with the
proofs of section 4. Left:

1. `Registration` with a user: codes that reach the device and what they are worth
   when device and server disagree.
