-------------------------- MODULE Transfer_proofs --------------------------
(***************************************************************************)
(* Theorems about Transfer: whatever the sizes of the file and the buffers *)
(* and however the stream is cut, what is stored is what was sent.         *)
(***************************************************************************)
EXTENDS Transfer, TLAPS

(* The k-th byte of a message. *)
Position(k) == IF k <= HEADER THEN InHeader ELSE k - HEADER

Whole == HEADER + size + 1

(* The stream, and what waits behind it, are the message up to a point.    *)
StreamInv ==
    /\ \A k \in 1 .. Len(stream) : stream[k] = Position(k)
    /\ \A k \in 1 .. Len(block) : block[k] = Position(Len(stream) + k)
    /\ Len(stream) + Len(block) <= Whole
    /\ pcS \in {"header", "blocks"} =>
           Len(stream) + Len(block) = HEADER + fileSizeSent

(* The buffer holds the last bytes that were read; what came before them   *)
(* is in the file.                                                         *)
BufferInv ==
    /\ Len(buffer) <= got
    /\ \A k \in 1 .. Len(buffer) :
           buffer[k] = Position(got - Len(buffer) + k)
    /\ pcR = "first" =>
           /\ len \in FirstSizes
           /\ Len(buffer) = got /\ sizeStored = 0 /\ file = <<>>
    /\ pcR = "storing" =>
           /\ len = BUFFER_SIZE
           /\ got = HEADER + sizeStored + Len(buffer)
           /\ Len(file) = sizeStored

FileInv ==
    /\ pcR \notin {"stuck", "down"} => \A k \in 1 .. Len(file) : file[k] = k
    /\ pcR \in {"first", "storing", "done", "closed"} => Len(file) <= size
    /\ pcR = "done" => Len(file) = size /\ got = Whole
    /\ pcR # "failed"

IInv == TypeOK /\ StreamInv /\ BufferInv /\ FileInv

-----------------------------------------------------------------------------
(* Two sequences joined. *)
LEMMA Joined ==
    ASSUME NEW S, NEW s \in Seq(S), NEW t \in Seq(S)
    PROVE  /\ s \o t \in Seq(S)
           /\ Len(s \o t) = Len(s) + Len(t)
           /\ \A k \in 1 .. Len(s) : (s \o t)[k] = s[k]
           /\ \A k \in 1 .. Len(t) : (s \o t)[Len(s) + k] = t[k]
           /\ \A k \in 1 .. Len(s) + Len(t) :
                  (s \o t)[k] = IF k <= Len(s) THEN s[k] ELSE t[k - Len(s)]
    OBVIOUS

(* A part of a sequence. *)
LEMMA Part ==
    ASSUME NEW S, NEW s \in Seq(S), NEW m \in Nat \ {0}, NEW n \in Nat,
           m <= n + 1, n <= Len(s)
    PROVE  /\ SubSeq(s, m, n) \in Seq(S)
           /\ Len(SubSeq(s, m, n)) = n - m + 1
           /\ \A k \in 1 .. n - m + 1 : SubSeq(s, m, n)[k] = s[m + k - 1]
    OBVIOUS

(* A sequence written as a function. *)
LEMMA Listed ==
    ASSUME NEW S, NEW n \in Nat, NEW f, f \in [1 .. n -> S]
    PROVE  f \in Seq(S) /\ Len(f) = n
    OBVIOUS

LEMMA EmptySequence ==
    ASSUME NEW S
    PROVE  <<>> \in Seq(S) /\ Len(<<>>) = 0
    OBVIOUS

LEMMA Numbers ==
    ASSUME TypeOK
    PROVE  /\ size \in Nat /\ fileSizeSent \in Nat /\ got \in Nat
           /\ sizeStored \in Nat /\ len \in Nat
           /\ HEADER \in Nat /\ BUFFER_SIZE \in Nat /\ MaxSize \in Nat
           /\ Len(stream) \in Nat /\ Len(block) \in Nat
           /\ Len(buffer) \in Nat /\ Len(file) \in Nat
           /\ 0 < HEADER /\ 1 < BUFFER_SIZE /\ Len(buffer) < len
           /\ size <= MaxSize /\ fileSizeSent <= size /\ sizeStored <= size
           /\ got <= Len(stream)
    BY SizesAssumption DEF TypeOK

-----------------------------------------------------------------------------
LEMMA InitInv == Init => IInv
<1> SUFFICES ASSUME Init PROVE IInv
    OBVIOUS
<1> USE SizesAssumption DEF Init
<1>1. block \in Seq(Byte) /\ Len(block) = HEADER
    <2>1. block \in [1 .. HEADER -> Byte]
        BY DEF Byte, InHeader
    <2> QED
        BY <2>1, Listed
<1>2. TypeOK
    BY <1>1, EmptySequence DEF TypeOK
<1>3. StreamInv
    BY <1>1, EmptySequence DEF StreamInv, Position, Whole, TypeOK
<1>4. BufferInv
    BY EmptySequence DEF BufferInv
<1>5. FileInv
    BY EmptySequence DEF FileInv
<1> QED
    BY <1>2, <1>3, <1>4, <1>5 DEF IInv

(* The sender leaves what was read, and the receiver's files, alone; the   *)
(* stream can only grow.                                                   *)
LEMMA SenderKeepsReceiver ==
    ASSUME IInv, UNCHANGED <<size, newlines, receiver>>
    PROVE  BufferInv' /\ FileInv'
    BY DEF IInv, BufferInv, FileInv, receiver, Whole

LEMMA WriteInv ==
    ASSUME IInv, NEW n \in 1 .. Len(block), tcpSendMessage(n)
    PROVE  IInv'
<1> USE DEF IInv, tcpSendMessage
<1> DEFINE part == SubSeq(block, 1, n)
           rest == SubSeq(block, n + 1, Len(block))
<1>1. /\ part \in Seq(Byte) /\ Len(part) = n
      /\ \A k \in 1 .. n : part[k] = block[k]
    BY Part DEF TypeOK
<1>2. /\ block' \in Seq(Byte) /\ Len(block') = Len(block) - n
      /\ \A k \in 1 .. Len(block) - n : block'[k] = block[n + k]
    <2>1. /\ rest \in Seq(Byte) /\ Len(rest) = Len(block) - n
          /\ \A k \in 1 .. Len(block) - n : rest[k] = block[n + k]
        BY Part DEF TypeOK
    <2> QED
        BY <2>1
<1>3. /\ stream' \in Seq(Byte) /\ Len(stream') = Len(stream) + n
      /\ \A k \in 1 .. Len(stream) + n :
             stream'[k] = IF k <= Len(stream) THEN stream[k]
                          ELSE part[k - Len(stream)]
    BY <1>1, Joined DEF TypeOK
<1>4. TypeOK'
    BY <1>2, <1>3 DEF TypeOK, receiver
<1>5. StreamInv'
    <2>1. \A k \in 1 .. Len(stream') : stream'[k] = Position(k)
        BY <1>1, <1>3 DEF StreamInv, TypeOK
    <2>2. \A k \in 1 .. Len(block') : block'[k] = Position(Len(stream') + k)
        BY <1>2, <1>3 DEF StreamInv, TypeOK
    <2> QED
        <3>1. Len(stream') + Len(block') = Len(stream) + Len(block)
            <4> HIDE DEF tcpSendMessage, part, rest
            <4> QED
                BY <1>2, <1>3, Numbers
        <3> QED
            BY <2>1, <2>2, <3>1 DEF StreamInv, Whole
<1> QED
    BY <1>4, <1>5, SenderKeepsReceiver

LEMMA SendBlockInv ==
    ASSUME IInv, SendBlock
    PROVE  IInv'
<1> USE DEF IInv, SendBlock
<1> DEFINE n == ReadSize(size - fileSizeSent)
<1>1. n \in Nat /\ n <= size - fileSizeSent /\ n > 0
    BY SizesAssumption DEF TypeOK, ReadSize
<1>2. /\ block' \in [1 .. n -> Byte]
      /\ \A k \in 1 .. n : block'[k] = fileSizeSent + k
    <2> HIDE DEF n
    <2>1. \A k \in 1 .. n :
              /\ fileSizeSent + k <= size
              /\ fileSizeSent + k \in Byte
        BY <1>1, Numbers DEF Byte
    <2>2. block' = [k \in 1 .. n |-> IF fileSizeSent + k <= size
                                     THEN fileSizeSent + k ELSE Stray]
        BY DEF n, Contents
    <2> QED
        BY <2>1, <2>2
<1>3. block' \in Seq(Byte) /\ Len(block') = n
    BY <1>1, <1>2, Listed
<1>4. fileSizeSent' = fileSizeSent + n
    BY <1>1 DEF TypeOK
<1>5. TypeOK'
    BY <1>1, <1>3, <1>4 DEF TypeOK, receiver
<1>6. StreamInv'
    <2> HIDE DEF n
    <2>1. Len(stream) = HEADER + fileSizeSent
        BY EmptySequence, Numbers DEF StreamInv
    <2>2. \A k \in 1 .. n : block'[k] = Position(Len(stream) + k)
        BY <2>1, <1>1, <1>2, Numbers DEF Position
    <2> QED
        <3>1. /\ Len(stream') + Len(block') = HEADER + fileSizeSent'
              /\ Len(stream') + Len(block') <= Whole'
            BY <2>1, <1>1, <1>3, <1>4, Numbers DEF Whole
        <3>2. \A k \in 1 .. Len(block') : block'[k] = Position(Len(stream') + k)
            BY <2>2, <1>3
        <3> QED
            BY <3>1, <3>2 DEF StreamInv
<1> QED
    BY <1>5, <1>6, SenderKeepsReceiver

LEMMA SendEndInv ==
    ASSUME IInv, SendEnd
    PROVE  IInv'
<1> USE DEF IInv, SendEnd
<1>1. block' \in Seq(Byte) /\ Len(block') = 1 /\ block'[1] = size + 1
    <2>1. size + 1 \in Byte
        BY Numbers DEF Byte
    <2> QED
        BY <2>1
<1>2. TypeOK'
    BY <1>1 DEF TypeOK, receiver
<1>3. StreamInv'
    <2>1. Len(stream) = HEADER + size
        BY EmptySequence, Numbers DEF StreamInv
    <2> QED
        BY <2>1, <1>1, Numbers DEF StreamInv, Whole, Position
<1> QED
    BY <1>2, <1>3, SenderKeepsReceiver

LEMMA SenderLeavesInv ==
    ASSUME IInv, SenderLeaves
    PROVE  IInv'
<1> USE DEF IInv, SenderLeaves
<1>1. TypeOK'
    BY DEF TypeOK, receiver
<1>2. StreamInv'
    BY DEF StreamInv, Whole
<1> QED
    BY <1>1, <1>2, SenderKeepsReceiver

-----------------------------------------------------------------------------
LEMMA ReadInv ==
    ASSUME IInv, NEW n \in 1 .. Len(stream) - got, tcpReceiveMessage(n)
    PROVE  IInv'
<1> USE DEF IInv, tcpReceiveMessage
<1> DEFINE part == SubSeq(stream, got + 1, got + n)
<1>1. /\ part \in Seq(Byte) /\ Len(part) = n
      /\ \A k \in 1 .. n : part[k] = stream[got + k]
    BY Part DEF TypeOK
<1>2. /\ buffer' \in Seq(Byte) /\ Len(buffer') = Len(buffer) + n
      /\ \A k \in 1 .. Len(buffer) + n :
             buffer'[k] = IF k <= Len(buffer) THEN buffer[k]
                          ELSE part[k - Len(buffer)]
    BY <1>1, Joined DEF TypeOK
<1>3. TypeOK'
    <2>1. Len(buffer') < len /\ got' \in 0 .. Len(stream)
        <3>1. /\ n \in Nat /\ n <= Len(stream) - got
              /\ n <= len - Len(buffer) - 1
              /\ got' = got + n
            BY Numbers
        <3> HIDE DEF tcpReceiveMessage, part
        <3> QED
            BY <3>1, <1>2, Numbers
    <2> QED
        BY <2>1, <1>2 DEF TypeOK, sender
<1>4. StreamInv'
    BY DEF StreamInv, sender, Whole
<1>5. BufferInv'
    <2>1. \A k \in 1 .. Len(buffer') :
              buffer'[k] = Position(got' - Len(buffer') + k)
        BY <1>1, <1>2 DEF BufferInv, StreamInv, TypeOK
    <2> QED
        <3>1. n \in Nat
            BY Numbers
        <3>2. /\ Len(buffer') <= got'
              /\ Len(buffer) = got => Len(buffer') = got'
              /\ got = HEADER + sizeStored + Len(buffer) =>
                     got' = HEADER + sizeStored + Len(buffer')
            <4>1. Len(buffer) <= got
                BY DEF BufferInv
            <4>2. sizeStored' = sizeStored /\ got' = got + n
                OBVIOUS
            <4>3. /\ Len(buffer') = Len(buffer) + n
                  /\ Len(buffer) \in Nat /\ got \in Nat /\ sizeStored \in Nat
                  /\ HEADER \in Nat
                BY <1>2, Numbers
            <4> HIDE DEF tcpReceiveMessage, part, IInv
            <4> QED
                BY <3>1, <4>1, <4>2, <4>3
        <3> QED
            BY <2>1, <3>2 DEF BufferInv
<1>6. FileInv'
    BY DEF FileInv, Reading, Whole
<1> QED
    BY <1>3, <1>4, <1>5, <1>6

LEMMA ConnectionEndsInv ==
    ASSUME IInv, ConnectionEnds
    PROVE  IInv'
<1> USE DEF IInv, ConnectionEnds
<1>1. file' \in Seq(Byte)
    <2>1. Stray \in Byte
        BY Numbers DEF Byte, Stray
    <2>2. file \in Seq(Byte)
        BY DEF TypeOK
    <2>3. file' = file \/ file' = Append(file, Stray)
        OBVIOUS
    <2> QED
        BY <2>1, <2>2, <2>3
<1>2. TypeOK'
    BY <1>1 DEF TypeOK, sender
<1>3. StreamInv'
    BY DEF StreamInv, sender, Whole
<1>4. BufferInv'
    BY DEF BufferInv, TypeOK
<1>5. FileInv'
    BY DEF FileInv, Whole
<1> QED
    BY <1>2, <1>3, <1>4, <1>5

(* A message that ends is longer than the header, and one that ends with   *)
(* the last byte of the whole ends with a newline.                         *)
LEMMA FirstMessage ==
    ASSUME IInv, pcR = "first", IsMessage
    PROVE  /\ HEADER < Len(buffer)
           /\ fdata \in Seq(Byte) /\ Len(fdata) = Len(buffer) - HEADER
           /\ \A k \in 1 .. Len(buffer) - HEADER : fdata[k] = k
           /\ Len(fdata) <= size + 1
           /\ Len(fdata) = size + 1 => IsNewline(LastByte)
<1> USE DEF IInv
<1>1. Len(buffer) \in Nat \ {0}
    BY DEF TypeOK, IsMessage
<1>2. LastByte = Position(Len(buffer))
    BY <1>1 DEF LastByte, BufferInv, TypeOK
<1>3. HEADER < Len(buffer)
    <2>1. CASE IsNewline(LastByte)
        BY <2>1, <1>1, <1>2, SizesAssumption
        DEF IsNewline, Position, InHeader, TypeOK
    <2>2. CASE Len(buffer) = len - 1
        <3>1. len \in FirstSizes
            BY DEF BufferInv
        <3> QED
            BY <2>2, <3>1, SizesAssumption, Numbers
    <2> QED
        BY <2>1, <2>2 DEF IsMessage
<1>4. /\ fdata \in Seq(Byte) /\ Len(fdata) = Len(buffer) - HEADER
      /\ \A k \in 1 .. Len(buffer) - HEADER : fdata[k] = buffer[HEADER + k]
    BY <1>1, <1>3, Part, SizesAssumption DEF fdata, TypeOK
<1>5. \A k \in 1 .. Len(buffer) - HEADER : fdata[k] = k
    BY <1>1, <1>4, SizesAssumption DEF BufferInv, Position, TypeOK
<1>6. Len(fdata) <= size + 1
    BY <1>4, SizesAssumption DEF BufferInv, StreamInv, TypeOK, Whole
<1>7. ASSUME Len(fdata) = size + 1 PROVE IsNewline(LastByte)
    BY <1>7, <1>2, <1>3, <1>4, SizesAssumption
    DEF IsNewline, Position, TypeOK
<1> QED
    BY <1>3, <1>4, <1>5, <1>6, <1>7

LEMMA LaterMessage ==
    ASSUME IInv, pcR = "storing", IsMessage
    PROVE  /\ Len(buffer) \in Nat \ {0}
           /\ \A k \in 1 .. Len(buffer) : buffer[k] = sizeStored + k
           /\ sizeStored + Len(buffer) <= size + 1
           /\ sizeStored + Len(buffer) = size + 1 => IsNewline(LastByte)
<1> USE DEF IInv
<1>1. Len(buffer) \in Nat \ {0}
    BY DEF TypeOK, IsMessage
<1>2. \A k \in 1 .. Len(buffer) : buffer[k] = sizeStored + k
    BY <1>1, SizesAssumption DEF BufferInv, Position, TypeOK
<1>3. sizeStored + Len(buffer) <= size + 1
    BY SizesAssumption DEF BufferInv, StreamInv, TypeOK, Whole
<1>4. LastByte = sizeStored + Len(buffer)
    BY <1>1, <1>2 DEF LastByte
<1> QED
    BY <1>1, <1>2, <1>3, <1>4 DEF IsNewline

LEMMA StoreFirstInv ==
    ASSUME IInv, StoreFirst
    PROVE  IInv'
<1> USE DEF IInv, StoreFirst
<1>0. /\ HEADER < Len(buffer)
      /\ fdata \in Seq(Byte) /\ Len(fdata) = Len(buffer) - HEADER
      /\ \A k \in 1 .. Len(buffer) - HEADER : fdata[k] = k
      /\ Len(fdata) <= size + 1
      /\ Len(fdata) = size + 1 => IsNewline(LastByte)
    BY FirstMessage
<1>1. StreamInv'
    BY DEF StreamInv, sender, Whole
<1>2. len' \in Nat /\ 0 < len' /\ Len(buffer') = 0 /\ buffer' \in Seq(Byte)
    BY SizesAssumption, EmptySequence
<1>3. CASE Len(fdata) = size + 1
    <2>1. /\ ButLast(fdata) \in Seq(Byte) /\ Len(ButLast(fdata)) = size
          /\ \A k \in 1 .. size : ButLast(fdata)[k] = fdata[k]
        BY <1>0, <1>3, Part DEF ButLast, TypeOK
    <2>2. pcR' = "done" /\ file' = ButLast(fdata) /\ sizeStored' = sizeStored
        BY <1>0, <1>3
    <2>3. TypeOK'
        BY <2>1, <2>2, <1>2 DEF TypeOK, sender
    <2>4. BufferInv'
        BY <2>2, <1>2 DEF BufferInv, TypeOK
    <2>5. FileInv'
        BY <2>1, <2>2, <1>0, <1>3, SizesAssumption
        DEF FileInv, BufferInv, TypeOK, Whole
    <2> QED
        BY <2>3, <2>4, <2>5, <1>1
<1>4. CASE Len(fdata) # size + 1
    <2>2. pcR' = "storing" /\ file' = fdata /\ sizeStored' = Len(fdata)
        BY <1>4
    <2>3. TypeOK'
        <3>1. sizeStored' \in 0 .. size
            BY <2>2, <1>0, <1>4, Numbers
        <3> QED
            BY <3>1, <2>2, <1>0, <1>2 DEF TypeOK, sender
    <2>4. BufferInv'
        BY <2>2, <1>0, <1>2, SizesAssumption DEF BufferInv, TypeOK
    <2>5. FileInv'
        BY <2>2, <1>0, <1>4, Numbers DEF FileInv
    <2> QED
        BY <2>3, <2>4, <2>5, <1>1
<1> QED
    BY <1>3, <1>4

LEMMA StoreMoreInv ==
    ASSUME IInv, StoreMore
    PROVE  IInv'
<1> USE DEF IInv, StoreMore
<1>0. /\ Len(buffer) \in Nat \ {0}
      /\ \A k \in 1 .. Len(buffer) : buffer[k] = sizeStored + k
      /\ sizeStored + Len(buffer) <= size + 1
      /\ sizeStored + Len(buffer) = size + 1 => IsNewline(LastByte)
    BY LaterMessage
<1>1. StreamInv'
    BY DEF StreamInv, sender, Whole
<1>2. len' \in Nat /\ 0 < len' /\ Len(buffer') = 0 /\ buffer' \in Seq(Byte)
    BY SizesAssumption, EmptySequence DEF BufferInv
<1>3. CASE sizeStored + Len(buffer) = size + 1
    <2> DEFINE last == ButLast(buffer)
    <2>1. /\ last \in Seq(Byte) /\ Len(last) = Len(buffer) - 1
          /\ \A k \in 1 .. Len(buffer) - 1 : last[k] = buffer[k]
        <3>1. /\ buffer \in Seq(Byte) /\ Len(buffer) - 1 \in Nat
              /\ Len(buffer) - 1 <= Len(buffer) /\ 1 <= Len(buffer) - 1 + 1
            BY <1>0 DEF TypeOK
        <3>2. /\ SubSeq(buffer, 1, Len(buffer) - 1) \in Seq(Byte)
              /\ Len(SubSeq(buffer, 1, Len(buffer) - 1)) = Len(buffer) - 1 - 1 + 1
              /\ \A k \in 1 .. Len(buffer) - 1 - 1 + 1 :
                     SubSeq(buffer, 1, Len(buffer) - 1)[k] = buffer[1 + k - 1]
            <4> HIDE DEF StoreMore, IInv
            <4>1. ASSUME NEW n \in Nat, n = Len(buffer) - 1
                  PROVE  /\ SubSeq(buffer, 1, n) \in Seq(Byte)
                         /\ Len(SubSeq(buffer, 1, n)) = n - 1 + 1
                         /\ \A k \in 1 .. n - 1 + 1 :
                                SubSeq(buffer, 1, n)[k] = buffer[1 + k - 1]
                BY <3>1, <4>1, Part
            <4> QED
                BY <3>1, <4>1
        <3> QED
            BY <3>1, <3>2 DEF ButLast
    <2>2. pcR' = "done" /\ file' = file \o last /\ sizeStored' = sizeStored
        BY <1>0, <1>3
    <2> HIDE DEF last
    <2>6. /\ file' \in Seq(Byte) /\ Len(file') = Len(file) + Len(last)
          /\ \A k \in 1 .. Len(file) + Len(last) :
                 file'[k] = IF k <= Len(file) THEN file[k]
                            ELSE last[k - Len(file)]
        BY <2>1, <2>2, Joined DEF TypeOK
    <2>3. TypeOK'
        BY <2>2, <2>6, <1>2 DEF TypeOK, sender
    <2>4. BufferInv'
        BY <2>2, <1>2 DEF BufferInv, TypeOK
    <2>5. FileInv'
        <3>1. Len(file) = sizeStored /\ Len(file') = size /\ got = Whole
            <4>1. Len(file) = sizeStored /\ got = HEADER + sizeStored + Len(buffer)
                BY DEF BufferInv
            <4>2. /\ Len(last) = Len(buffer) - 1
                  /\ Len(file') = Len(file) + Len(last)
                  /\ sizeStored \in Nat /\ HEADER \in Nat /\ size \in Nat
                  /\ Len(buffer) \in Nat
                BY <2>1, <2>6, Numbers
            <4> HIDE DEF StoreMore, IInv
            <4> QED
                BY <4>1, <4>2, <1>3 DEF Whole
        <3>2. \A k \in 1 .. size : file'[k] = k
            <4>1. \A k \in 1 .. Len(file) : file[k] = k
                BY DEF FileInv
            <4>2. size = Len(file) + Len(last)
                BY <3>1, <2>6
            <4>3. \A k \in 1 .. Len(last) : last[k] = Len(file) + k
                BY <3>1, <2>1, <1>0
            <4>4. Len(file) \in Nat /\ Len(last) \in Nat
                BY <2>1, <1>0, Numbers
            <4> HIDE DEF StoreMore, IInv
            <4>5. ASSUME NEW k \in 1 .. Len(file) PROVE file'[k] = k
                <5>1. k \in 1 .. Len(file) + Len(last) /\ k <= Len(file)
                    BY <4>4
                <5> QED
                    BY <5>1, <4>1, <2>6
            <4>6. ASSUME NEW k \in Len(file) + 1 .. Len(file) + Len(last)
                  PROVE  file'[k] = k
                <5>1. /\ k \in 1 .. Len(file) + Len(last) /\ ~(k <= Len(file))
                      /\ k - Len(file) \in 1 .. Len(last)
                    BY <4>4
                <5>2. file'[k] = last[k - Len(file)]
                    BY <5>1, <2>6
                <5>3. last[k - Len(file)] = Len(file) + (k - Len(file))
                    BY <5>1, <4>3
                <5> QED
                    BY <5>2, <5>3, <4>4
            <4> QED
                BY <4>2, <4>4, <4>5, <4>6
        <3> QED
            <4>1. Len(file') <= size' /\ got' = Whole'
                BY <3>1, Numbers DEF Whole
            <4> QED
                BY <4>1, <3>1, <3>2, <2>2 DEF FileInv
    <2> QED
        BY <2>3, <2>4, <2>5, <1>1
<1>4. CASE sizeStored + Len(buffer) # size + 1
    <2>2. /\ pcR' = "storing" /\ file' = file \o buffer
          /\ sizeStored' = sizeStored + Len(buffer)
        BY <1>4
    <2>6. /\ file' \in Seq(Byte) /\ Len(file') = Len(file) + Len(buffer)
          /\ \A k \in 1 .. Len(file) + Len(buffer) :
                 file'[k] = IF k <= Len(file) THEN file[k]
                            ELSE buffer[k - Len(file)]
        BY <2>2, Joined DEF TypeOK
    <2>3. TypeOK'
        BY <2>2, <2>6, <1>0, <1>2, <1>4 DEF TypeOK, sender
    <2>4. BufferInv'
        BY <2>2, <2>6, <1>0, <1>2, Numbers DEF BufferInv
    <2>5. FileInv'
        <3>1. Len(file) = sizeStored /\ Len(file') <= size
            <4>1. Len(file) = sizeStored
                BY DEF BufferInv
            <4> HIDE DEF StoreMore
            <4> QED
                BY <4>1, <2>6, <1>0, <1>4, Numbers
        <3>2. \A k \in 1 .. Len(file') : file'[k] = k
            <4>1. \A k \in 1 .. Len(file) : file[k] = k
                BY DEF FileInv
            <4>2. Len(file) \in Nat /\ Len(buffer) \in Nat
                BY Numbers
            <4> HIDE DEF StoreMore, IInv
            <4> QED
                BY <4>1, <4>2, <3>1, <2>6, <1>0
        <3> QED
            BY <3>1, <3>2, <2>2 DEF FileInv
    <2> QED
        BY <2>3, <2>4, <2>5, <1>1
<1> QED
    BY <1>3, <1>4

-----------------------------------------------------------------------------
LEMMA NextInv == IInv /\ [Next]_vars => IInv'
<1> SUFFICES ASSUME IInv, [Next]_vars PROVE IInv'
    OBVIOUS
<1>1. CASE sendFileThroughTCP
    BY <1>1, SendBlockInv, SendEndInv, WriteInv DEF sendFileThroughTCP
<1>2. CASE SenderLeaves
    BY <1>2, SenderLeavesInv
<1>3. CASE storeFileFromTCP
    BY <1>3, StoreFirstInv, StoreMoreInv, ConnectionEndsInv, ReadInv
    DEF storeFileFromTCP
<1>4. CASE Over \/ UNCHANGED vars
    <2>1. UNCHANGED vars
        BY <1>4 DEF Over
    <2>2. TypeOK'
        BY <2>1 DEF vars, sender, receiver, IInv, TypeOK
    <2>3. StreamInv'
        BY <2>1 DEF vars, sender, receiver, IInv, StreamInv, Whole
    <2>4. BufferInv' /\ FileInv'
        BY <2>1, SenderKeepsReceiver DEF vars
    <2> QED
        BY <2>2, <2>3, <2>4 DEF IInv
<1> QED
    BY <1>1, <1>2, <1>3, <1>4 DEF Next

LEMMA Invariance == Spec => []IInv
    BY InitInv, NextInv, PTL DEF Spec

(* The counts and sequences of both sides stay within their types; the     *)
(* buffer of tcpReceiveMessage keeps room for its terminating null.        *)
THEOREM TypeCorrect == Spec => []TypeOK
<1>1. IInv => TypeOK
    BY DEF IInv
<1> QED
    BY <1>1, Invariance, PTL

(* What storeFileFromTCP writes is what sendFileThroughTCP read, for every *)
(* size of the file, the header and the buffers.                           *)
THEOREM FileArrives == Spec => []StoresWhatIsSent
<1>1. IInv => StoresWhatIsSent
    BY SizesAssumption
    DEF IInv, StoresWhatIsSent, FileInv, StreamInv, TypeOK, Whole
<1> QED
    BY <1>1, Invariance, PTL

(* storeFileFromTCP returns FALSE for no file.                             *)
THEOREM AlwaysTaken == Spec => []NeverRefused
<1>1. IInv => NeverRefused
    BY DEF IInv, FileInv, NeverRefused
<1> QED
    BY <1>1, Invariance, PTL
=============================================================================
