------------------------------ MODULE Transfer ------------------------------
(***************************************************************************)
(* The transfer of one file over a connection: sendFileThroughTCP on one   *)
(* side, tcpReceiveMessage and storeFileFromTCP on the other (files.c,     *)
(* tcp.c).  FS and User are both sides of it.                              *)
(*                                                                         *)
(* The connection is a stream.  A write hands over any part of what is     *)
(* left and a read returns any part of what is there, so that the          *)
(* receiver sees the blocks of the sender cut and joined anywhere.         *)
(***************************************************************************)
EXTENDS Integers, Sequences

CONSTANTS
    BUFFER_SIZE,
    FirstSizes,     \* the buffers of a first read: BUFFER_SIZE in FS, BUFSIZ
                    \* in User
    HEADER,         \* length of the message before the contents
    MaxSize         \* bound: the size of the file

ASSUME SizesAssumption ==
    /\ BUFFER_SIZE \in Nat \ {0, 1} /\ HEADER \in Nat \ {0} /\ MaxSize \in Nat
    /\ FirstSizes \subseteq Nat
    /\ \A len \in FirstSizes : HEADER < len - 1

(* A byte is its position in the file.  The header comes before position   *)
(* 1, the newline that ends the message after position size.               *)
InHeader == 0
Stray    == -1      \* a byte that is not of the message
Byte     == -1 .. MaxSize + 1

VARIABLES
    size, newlines,     \* the file: where it has newlines
    fileSizeSent,
    block,              \* what tcpSendMessage has not written
    pcS,                \* where the sender stands
    stream,             \* all that was written
    got,                \* how much of it was read
    len,                \* the size of the buffer of tcpReceiveMessage
    buffer,             \* what it read
    sizeStored,
    file,               \* the file of the receiver
    pcR                 \* where the receiver stands

sender   == <<fileSizeSent, block, pcS>>
receiver == <<got, len, buffer, sizeStored, file, pcR>>
vars     == <<size, newlines, sender, stream, receiver>>

TypeOK ==
    /\ size \in 0 .. MaxSize /\ newlines \in SUBSET (1 .. size)
    /\ fileSizeSent \in 0 .. size
    /\ block \in Seq(Byte) /\ stream \in Seq(Byte)
    /\ pcS \in {"header", "blocks", "end", "left"}
    /\ got \in 0 .. Len(stream)
    /\ len \in FirstSizes \cup {BUFFER_SIZE}
    /\ buffer \in Seq(Byte) /\ Len(buffer) < len
    /\ sizeStored \in 0 .. size
    /\ file \in Seq(Byte)
    /\ pcR \in {"first", "storing", "done", "failed", "closed", "stuck", "down"}

Init ==
    /\ size \in 0 .. MaxSize /\ newlines \in SUBSET (1 .. size)
    /\ fileSizeSent = 0
    /\ block = [k \in 1 .. HEADER |-> InHeader] /\ pcS = "header"
    /\ stream = <<>> /\ got = 0
    /\ len \in FirstSizes /\ buffer = <<>>
    /\ sizeStored = 0 /\ file = <<>> /\ pcR = "first"

-----------------------------------------------------------------------------
(* The sender. *)

(* tcpSendMessage: one write. *)
tcpSendMessage(n) ==
    /\ pcS # "left"
    /\ n \in 1 .. Len(block)
    /\ stream' = stream \o SubSeq(block, 1, n)
    /\ block' = SubSeq(block, n + 1, Len(block))
    /\ UNCHANGED <<size, newlines, fileSizeSent, pcS, receiver>>

(* Mutant: the comparison of the sizes is off by one. *)
ReadSizeOneMore(left) == IF BUFFER_SIZE - 1 <= left THEN BUFFER_SIZE ELSE left

ReadSize(left) == IF BUFFER_SIZE - 1 < left THEN BUFFER_SIZE ELSE left

(* fread stops at the end of the file; the rest of the buffer is zeros.    *)
Contents(n) ==
    [k \in 1 .. n |-> IF fileSizeSent + k <= size THEN fileSizeSent + k
                      ELSE Stray]

SendBlock ==
    /\ pcS \in {"header", "blocks"}
    /\ block = <<>>
    /\ fileSizeSent # size
    /\ LET n == ReadSize(size - fileSizeSent)
       IN  /\ block' = Contents(n)
           /\ fileSizeSent' = IF fileSizeSent + n <= size
                              THEN fileSizeSent + n ELSE size
    /\ pcS' = "blocks"
    /\ UNCHANGED <<size, newlines, stream, receiver>>

SendEnd ==
    /\ pcS \in {"header", "blocks"}
    /\ block = <<>>
    /\ fileSizeSent = size
    /\ block' = <<size + 1>>
    /\ pcS' = "end"
    /\ UNCHANGED <<size, newlines, fileSizeSent, stream, receiver>>

sendFileThroughTCP ==
    \/ SendBlock
    \/ SendEnd
    \/ \E n \in 1 .. Len(block) : tcpSendMessage(n)

(* The program of the sender ends: what it wrote arrives, then the end of  *)
(* the connection.                                                         *)
SenderLeaves ==
    /\ pcS # "left"
    /\ pcS' = "left"
    /\ UNCHANGED <<size, newlines, fileSizeSent, block, stream, receiver>>

-----------------------------------------------------------------------------
(* The receiver. *)
IsNewline(b) == b = size + 1 \/ b \in newlines

LastByte == buffer[Len(buffer)]

(* Mutant: a message ends when its buffer is full. *)
IsMessageFull == Len(buffer) = len - 1

(* The loop of tcpReceiveMessage ends: at a newline, looked for only at    *)
(* the end of what a read returned, or with a full buffer.                 *)
IsMessage ==
    /\ buffer # <<>>
    /\ IsNewline(LastByte) \/ Len(buffer) = len - 1

Reading == pcR \in {"first", "storing"} /\ ~IsMessage

tcpReceiveMessage(n) ==
    /\ Reading
    /\ n \in 1 .. Len(stream) - got
    /\ n <= len - Len(buffer) - 1
    /\ buffer' = buffer \o SubSeq(stream, got + 1, got + n)
    /\ got' = got + n
    /\ UNCHANGED <<size, newlines, sender, stream, len, sizeStored, file, pcR>>

(* The end of the connection.  A first message is dropped with it.  Within *)
(* the contents its -1 is added to the size and passed to fwrite, which    *)
(* writes what lies behind the buffer or fails in the memory of the        *)
(* process; if it returns, the loop goes on like that for ever.            *)
ConnectionEnds ==
    /\ Reading
    /\ pcS = "left" /\ got = Len(stream)
    /\ \/ /\ pcR = "first"
          /\ pcR' = "closed"
          /\ UNCHANGED file
       \/ /\ pcR = "storing"
          /\ pcR' \in {"stuck", "down"}
          /\ file' \in {file, Append(file, Stray)}
    /\ UNCHANGED <<size, newlines, sender, stream, got, len, buffer, sizeStored>>

(* What of the file is in the first message. *)
fdata == SubSeq(buffer, HEADER + 1, Len(buffer))

ButLast(s) == SubSeq(s, 1, Len(s) - 1)

(* Mutant: the newline of a whole first message goes to the file. *)
StoreFirstWhole ==
    /\ pcR = "first"
    /\ IsMessage
    /\ file' = fdata
    /\ sizeStored' = Len(fdata)
    /\ pcR' = "storing"
    /\ len' = BUFFER_SIZE /\ buffer' = <<>>
    /\ UNCHANGED <<size, newlines, sender, stream, got>>

(* storeFileFromTCP: the contents that came in the first message, ...      *)
StoreFirst ==
    /\ pcR = "first"
    /\ IsMessage
    /\ \/ /\ Len(fdata) = size + 1
          /\ \/ /\ IsNewline(LastByte)
                /\ file' = ButLast(fdata)
                /\ pcR' = "done"
             \/ /\ ~IsNewline(LastByte)
                /\ pcR' = "failed"
                /\ UNCHANGED file
          /\ UNCHANGED sizeStored
       \/ /\ Len(fdata) # size + 1
          /\ file' = fdata
          /\ sizeStored' = Len(fdata)
          /\ pcR' = "storing"
    /\ len' = BUFFER_SIZE /\ buffer' = <<>>
    /\ UNCHANGED <<size, newlines, sender, stream, got>>

(* ... and those of each message after it.                                 *)
StoreMore ==
    /\ pcR = "storing"
    /\ IsMessage
    /\ \/ /\ sizeStored + Len(buffer) = size + 1
          /\ \/ /\ IsNewline(LastByte)
                /\ file' = file \o ButLast(buffer)
                /\ pcR' = "done"
             \/ /\ ~IsNewline(LastByte)
                /\ pcR' = "failed"
                /\ UNCHANGED file
          /\ UNCHANGED sizeStored
       \/ /\ sizeStored + Len(buffer) # size + 1
          /\ file' = file \o buffer
          /\ sizeStored' = sizeStored + Len(buffer)
          /\ UNCHANGED pcR
    /\ buffer' = <<>>
    /\ UNCHANGED <<size, newlines, sender, stream, got, len>>

storeFileFromTCP ==
    \/ StoreFirst
    \/ StoreMore
    \/ ConnectionEnds
    \/ \E n \in 1 .. Len(stream) - got : tcpReceiveMessage(n)

(* The transfer is over, or it hangs. *)
Over ==
    /\ pcR \notin {"first", "storing"}
    /\ UNCHANGED vars

Next == sendFileThroughTCP \/ SenderLeaves \/ storeFileFromTCP \/ Over

Spec == Init /\ [][Next]_vars

(* Both programs are scheduled and the network delivers. *)
FairSpec == Spec /\ WF_vars(sendFileThroughTCP) /\ WF_vars(storeFileFromTCP)

-----------------------------------------------------------------------------
(* However the stream is cut, the receiver's file is a part of the sent    *)
(* one from its start, with no byte of the header, of the final newline or *)
(* of another place; when storeFileFromTCP returns TRUE it is all of it,   *)
(* and nothing of the message is left to be read as the next one.          *)
StoresWhatIsSent ==
    /\ pcR \notin {"stuck", "down"} =>
           Len(file) <= size /\ \A k \in 1 .. Len(file) : file[k] = k
    /\ pcR = "done" =>
           /\ Len(file) = size
           /\ got = Len(stream)

(* No way of cutting the stream, and no newline within the contents, makes *)
(* storeFileFromTCP return FALSE, which ends the file server.              *)
NeverRefused == pcR # "failed"

(* A sender that stays has its file stored: no receiver waits for a byte   *)
(* that is not to come.                                                    *)
Completes == [](pcS # "left") => <>(pcR = "done")
=============================================================================
