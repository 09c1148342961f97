------------------------------ MODULE NfcRead ------------------------------
(***************************************************************************)
(* One call of NfcDisk.readinto (openvixdisklib/nfc_open.py), byte by      *)
(* byte: the request it sends, the reply fragments the NFC server cuts the *)
(* answer into, and the loop that places them in the caller's buffer.      *)
(*                                                                         *)
(* The server may cut a request anywhere into pieces of at most            *)
(* AioBufferSize bytes, send each piece raw or FastLZ-compressed, and send *)
(* the pieces in any order.  LooseFrames are the frames that a server      *)
(* which does not keep to that protocol may send as well, any number of    *)
(* times; {} is the conforming server.                                     *)
(***************************************************************************)
EXTENDS Integers, Sequences, FiniteSets

CONSTANTS
    SectorSize,      \* sector_size of the OPEN_FILE reply
    BufLen,          \* bytes in the caller's buffer
    AioBufferSize,   \* largest uncompressed piece the server sends
    Compression,     \* NFC_COMPRESSION_NONE or NFC_COMPRESSION_FASTLZ
    UIntLimit,       \* the first value that struct.pack("<I") refuses
    Starts, Counts,  \* start_sector and num_sectors arguments that occur
    LooseFrames,     \* frames outside the protocol that may arrive
    SocketFails      \* TRUE if recv may see end of stream or time out

NFC_COMPRESSION_NONE   == 0
NFC_COMPRESSION_FASTLZ == 2

VARIABLES
    pc,             \* where the call is: "idle", "hdr", "body", "extra", ...
    req,            \* offset, length and skip_decompression of the call
    owed,           \* frames of the answer the server has not sent yet
    frame,          \* the frame being received
    have,           \* bytes of its extra received so far
    buf,            \* the caller's buffer
    filled,         \* local: uncompressed bytes received
    wire_bytes,     \* local: extra bytes received
    packed_offset,  \* local: end of the packed extras
    fragments,      \* local: the ReadFragment table
    seen,           \* local: dest offsets accepted
    outcome,        \* what the caller got: "ok" or the exception raised
    got             \* history: the <<dest, chunk_len>> of completed fragments

vars == <<pc, req, owed, frame, have, buf, filled, wire_bytes, packed_offset,
          fragments, seen, outcome, got>>
-----------------------------------------------------------------------------
(* Bytes are symbolic.  A byte is either the byte of the disk at address   *)
(* "at" or byte k of the c-byte FastLZ stream of the n disk bytes at "at". *)

Byte == [z : BOOLEAN, at : Int, n : Nat, c : Nat, k : Nat]
DiskByte(a) == [z |-> FALSE, at |-> a, n |-> 1, c |-> 1, k |-> 0]
LzByte(a, n, c, k) == [z |-> TRUE, at |-> a, n |-> n, c |-> c, k |-> k]

\* What the buffer holds before the call: no byte of the disk.
Blank == [z |-> FALSE, at |-> -1, n |-> 0, c |-> 0, k |-> 0]

\* The reply frames, as the fields the loop looks at.  "ulen" is not on the
\* wire: it is the length the extra really decompresses to, 0 if to nothing.
Frame == [magic : BOOLEAN, type : {"IO", "ERROR", "OTHER"}, own : BOOLEAN,
          rsize : Nat, dest : Nat, chunk : Nat, ctype : Nat, clen : Nat,
          ulen : Nat]

NoFrame == [magic |-> FALSE, type |-> "OTHER", own |-> FALSE, rsize |-> 0,
            dest |-> 0, chunk |-> 0, ctype |-> 0, clen |-> 0, ulen |-> 0]

ASSUME ReadConstants ==
    /\ SectorSize \in Nat \ {0} /\ BufLen \in Nat
    /\ AioBufferSize \in Nat \ {0} /\ UIntLimit \in Nat
    /\ Compression \in {NFC_COMPRESSION_NONE, NFC_COMPRESSION_FASTLZ}
    /\ Starts \subseteq Int /\ Counts \subseteq Int
    /\ LooseFrames \subseteq Frame /\ SocketFails \in BOOLEAN

ReadFragment == [dest : Nat, uncompressed_length : Nat,
                 compression_type : Nat, offset : Nat, length : Nat]
-----------------------------------------------------------------------------
(* The server's answer to a request of len bytes.                          *)

\* The pieces that the cuts C make of 0..len-1, as <<first, past the last>>.
Pieces(len, C) ==
    {p \in (C \cup {0}) \X (C \cup {len}) :
        p[1] < p[2] /\ \A c \in C : c <= p[1] \/ p[2] <= c}

\* The reply fragment for piece p: raw if c = 0, else c bytes of FastLZ.
ReplyFrame(p, c) ==
    [magic |-> TRUE, type |-> "IO", own |-> TRUE, rsize |-> 44,
     dest |-> p[1], chunk |-> p[2] - p[1],
     ctype |-> IF c = 0 THEN NFC_COMPRESSION_NONE ELSE NFC_COMPRESSION_FASTLZ,
     clen |-> IF c = 0 THEN p[2] - p[1] ELSE c, ulen |-> p[2] - p[1]]

\* Sizes a piece may travel in: raw, or compressed if that was asked for and
\* makes it smaller.
WireSizes(p) ==
    {0} \cup (IF Compression = NFC_COMPRESSION_FASTLZ
              THEN 1 .. (p[2] - p[1] - 1) ELSE {})

\* Ways to cut a request, and to size the pieces.
Cuts(len) ==
    {C \in SUBSET (1 .. (len - 1)) :
        \A p \in Pieces(len, C) : p[2] - p[1] <= AioBufferSize}

Sizings(len, C) ==
    {z \in [Pieces(len, C) -> 0 .. len] :
        \A p \in Pieces(len, C) : z[p] \in WireSizes(p)}

Answer(len, C, z) == {ReplyFrame(p, z[p]) : p \in Pieces(len, C)}
-----------------------------------------------------------------------------
(* The reader.                                                             *)

RejectionUnsigned(start, num, readonly) ==
    IF num < 1 THEN "ValueError"
    ELSE IF readonly THEN "TypeError"
    ELSE IF BufLen < num * SectorSize THEN "RuntimeError"
    ELSE "none"

\* What readinto raises before it sends anything; "none" if it goes ahead.
\* The last test is struct.pack("<QQQQIII") on the offset and the length.
Rejection(start, num, readonly) ==
    LET length == num * SectorSize
        offset == start * SectorSize
    IN  IF num < 1 THEN "ValueError"
        ELSE IF readonly THEN "TypeError"
        ELSE IF BufLen < length THEN "RuntimeError"
        ELSE IF offset < 0 \/ offset >= UIntLimit * UIntLimit
                \/ length >= UIntLimit THEN "struct.error"
        ELSE "none"

Rejections == {"ValueError", "TypeError", "RuntimeError", "struct.error"}
Outcomes == {"none", "ok", "NfcProtocolError", "TimeoutError"} \cup Rejections

Init ==
    /\ pc = "idle"
    /\ req = [offset |-> 0, length |-> 0, skip |-> FALSE]
    /\ owed = {}
    /\ frame = NoFrame
    /\ have = 0
    /\ buf = [i \in 0 .. (BufLen - 1) |-> Blank]
    /\ filled = 0 /\ wire_bytes = 0 /\ packed_offset = 0
    /\ fragments = <<>> /\ seen = {} /\ got = {}
    /\ outcome = "none"

Raise(e) == pc' = "raised" /\ outcome' = e

\* An argument check fails: nothing is sent and no operation id is used.
ReadRejected(start, num, readonly) ==
    /\ pc = "idle"
    /\ Rejection(start, num, readonly) # "none"
    /\ Raise(Rejection(start, num, readonly))
    /\ UNCHANGED <<req, owed, frame, have, buf, filled, wire_bytes,
                   packed_offset, fragments, seen, got>>

\* The request goes out; the server decides how it will answer it.
ReadInto(start, num, skip) ==
    LET length == num * SectorSize IN
    /\ pc = "idle"
    /\ Rejection(start, num, FALSE) = "none"
    /\ req' = [offset |-> start * SectorSize, length |-> length, skip |-> skip]
    /\ \E C \in Cuts(length) : \E z \in Sizings(length, C) :
          owed' = Answer(length, C, z)
    /\ pc' = "hdr"
    /\ UNCHANGED <<frame, have, buf, filled, wire_bytes, packed_offset,
                   fragments, seen, outcome, got>>

\* _recvn of a header and _unpack_aio_hdr: magic, error type, type and opId.
RecvHeader ==
    /\ pc = "hdr"
    /\ \E f \in owed \cup LooseFrames :
          /\ frame' = f
          /\ owed' = owed \ {f}
          /\ \/ /\ f.magic /\ f.type = "IO" /\ f.own
                /\ pc' = "body" /\ UNCHANGED outcome
             \/ /\ ~(f.magic /\ f.type = "IO" /\ f.own)
                /\ Raise("NfcProtocolError")
    /\ UNCHANGED <<req, have, buf, filled, wire_bytes, packed_offset,
                   fragments, seen, got>>

\* dest in seen or chunk_len == 0 or dest + chunk_len > length
BadChunkUnbounded(f) == f.dest \in seen \/ f.chunk = 0
BadChunk(f) ==
    f.dest \in seen \/ f.chunk = 0 \/ f.dest + f.chunk > req.length

\* _aio_extra_len, for a compression type it supports
ExtraLen(f) == IF f.ctype = NFC_COMPRESSION_FASTLZ THEN f.clen ELSE f.chunk

\* The checks on the payload, in the order of the code.  Offset 36 is read
\* with struct.unpack_from, which needs four bytes more than were checked.
BodyError(f) ==
    IF f.rsize < 36 \/ BadChunk(f) THEN "NfcProtocolError"
    ELSE IF f.ctype = NFC_COMPRESSION_FASTLZ /\ f.rsize < 40 THEN "struct.error"
    ELSE IF \/ f.ctype \notin {NFC_COMPRESSION_NONE, NFC_COMPRESSION_FASTLZ}
            \/ f.ctype = NFC_COMPRESSION_FASTLZ /\ f.clen < 1
            \/ req.skip /\ packed_offset + ExtraLen(f) > req.length
         THEN "NfcProtocolError"
    ELSE "none"

\* A bad fragment would be passed over instead of ending the read.
RecvBodySkipsBad ==
    /\ pc = "body"
    /\ \/ /\ BodyError(frame) = "none"
          /\ pc' = "extra" /\ have' = 0
          /\ seen' = seen \cup {frame.dest}
       \/ /\ BodyError(frame) # "none"
          /\ pc' = "hdr" /\ UNCHANGED <<have, seen>>
    /\ UNCHANGED <<req, owed, frame, buf, filled, wire_bytes, packed_offset,
                   fragments, outcome, got>>

RecvBody ==
    /\ pc = "body"
    /\ \/ /\ BodyError(frame) = "none"
          /\ pc' = "extra" /\ have' = 0
          /\ seen' = seen \cup {frame.dest}
          /\ UNCHANGED outcome
       \/ /\ BodyError(frame) # "none"
          /\ Raise(BodyError(frame))
          /\ UNCHANGED <<have, seen>>
    /\ UNCHANGED <<req, owed, frame, buf, filled, wire_bytes, packed_offset,
                   fragments, got>>

\* Byte k of the extra of frame f.
FrameByte(f, k) ==
    IF f.ctype = NFC_COMPRESSION_FASTLZ
    THEN LzByte(req.offset + f.dest, f.ulen, f.clen, k)
    ELSE DiskByte(req.offset + f.dest + k)

\* The slice of buf the extra is received into: packed, or at dest.
TargetInOrder(f) == IF req.skip THEN packed_offset ELSE filled
Target(f) == IF req.skip THEN packed_offset ELSE f.dest

\* FastLZ extras go to a temporary buffer unless they are packed as they are.
Direct(f) == req.skip \/ f.ctype = NFC_COMPRESSION_NONE

\* One recv_into of _recvn_into: g more bytes of the extra arrive.
RecvExtra(g) ==
    /\ pc = "extra"
    /\ have + g <= ExtraLen(frame)
    /\ have' = have + g
    /\ buf' = [i \in 0 .. (BufLen - 1) |->
                  IF /\ Direct(frame)
                     /\ Target(frame) + have <= i
                     /\ i < Target(frame) + have + g
                  THEN FrameByte(frame, i - Target(frame)) ELSE buf[i]]
    /\ UNCHANGED <<pc, req, owed, frame, filled, wire_bytes, packed_offset,
                   fragments, seen, outcome, got>>

\* fastlz.decompress raises, or returns too few bytes.
DecompressFails(f) ==
    ~req.skip /\ f.ctype = NFC_COMPRESSION_FASTLZ /\ f.ulen # f.chunk

\* What one completed fragment adds to filled.
FilledByExtra(f) == filled + ExtraLen(f)
FilledAfter(f) == filled + f.chunk

\* Where the next packed extra will start.
PackedByChunk(f) == packed_offset + f.chunk
PackedStuck(f) == packed_offset
PackedAfter(f) == packed_offset + ExtraLen(f)

\* The extra is complete: decompress or record it, account for it, and go
\* round the loop or return.
FinishFragment ==
    /\ pc = "extra"
    /\ have = ExtraLen(frame)
    /\ ~DecompressFails(frame)
    /\ buf' = [i \in 0 .. (BufLen - 1) |->
                  IF /\ ~Direct(frame)
                     /\ frame.dest <= i /\ i < frame.dest + frame.chunk
                  THEN DiskByte(req.offset + i) ELSE buf[i]]
    /\ IF req.skip
       THEN /\ fragments' = Append(fragments,
                  [dest |-> frame.dest, uncompressed_length |-> frame.chunk,
                   compression_type |-> frame.ctype,
                   offset |-> packed_offset, length |-> ExtraLen(frame)])
            /\ packed_offset' = PackedAfter(frame)
       ELSE UNCHANGED <<fragments, packed_offset>>
    /\ wire_bytes' = wire_bytes + ExtraLen(frame)
    /\ filled' = FilledAfter(frame)
    /\ got' = got \cup {<<frame.dest, frame.chunk>>}
    /\ \/ filled' < req.length /\ pc' = "hdr" /\ UNCHANGED outcome
       \/ filled' >= req.length /\ pc' = "returned" /\ outcome' = "ok"
    /\ UNCHANGED <<req, owed, frame, have, seen>>

DecompressError ==
    /\ pc = "extra"
    /\ have = ExtraLen(frame)
    /\ DecompressFails(frame)
    /\ Raise("NfcProtocolError")
    /\ UNCHANGED <<req, owed, frame, have, buf, filled, wire_bytes,
                   packed_offset, fragments, seen, got>>

\* recv returns no byte (NfcProtocolError) or the timeout of the socket
\* passes (TimeoutError), in a header, a payload or an extra; none is called
\* once the extra is complete.
RecvFails ==
    /\ SocketFails
    /\ \/ pc \in {"hdr", "body"}
       \/ pc = "extra" /\ have < ExtraLen(frame)
    /\ \E e \in {"NfcProtocolError", "TimeoutError"} : Raise(e)
    /\ UNCHANGED <<req, owed, frame, have, buf, filled, wire_bytes,
                   packed_offset, fragments, seen, got>>

Next ==
    \/ \E start \in Starts, num \in Counts, flag \in BOOLEAN :
          ReadRejected(start, num, flag) \/ ReadInto(start, num, flag)
    \/ RecvHeader
    \/ RecvBody
    \/ \E g \in 1 .. BufLen : RecvExtra(g)
    \/ FinishFragment
    \/ DecompressError
    \/ RecvFails

Spec == Init /\ [][Next]_vars

\* One call of recv or recv_into: it gets something, or it fails.
RecvStep ==
    \/ RecvHeader
    \/ RecvBody
    \/ \E g \in 1 .. BufLen : RecvExtra(g)
    \/ RecvFails

\* The code between two receives runs by itself, and the timeout connect_authd
\* gave the socket is one of each receive: a receive ends, with what the server
\* sent or with nothing.  A server that keeps sending can put off the timeout
\* for ever.
ClientSpec ==
    /\ Spec
    /\ WF_vars(RecvStep)
    /\ WF_vars(FinishFragment) /\ WF_vars(DecompressError)

\* Moreover the server goes on sending what it owes.
ServedSpec ==
    /\ ClientSpec
    /\ WF_vars(RecvHeader) /\ WF_vars(\E g \in 1 .. BufLen : RecvExtra(g))
-----------------------------------------------------------------------------
(* Properties.                                                             *)

TypeOK ==
    /\ pc \in {"idle", "hdr", "body", "extra", "returned", "raised"}
    /\ req \in [offset : Nat, length : Nat, skip : BOOLEAN]
    /\ owed \subseteq Frame /\ frame \in Frame
    /\ have \in Nat
    /\ buf \in [0 .. (BufLen - 1) -> Byte]
    /\ filled \in Nat /\ wire_bytes \in Nat /\ packed_offset \in Nat
    /\ fragments \in Seq(ReadFragment)
    /\ seen \subseteq Nat /\ got \subseteq Nat \X Nat
    /\ outcome \in Outcomes

\* A decompressing read that returns has put every byte of the request where
\* it belongs, whatever the cut, the order and the sizes of the fragments.
ReadIntegrity ==
    pc = "returned" /\ ~req.skip =>
        \A i \in 0 .. (req.length - 1) : buf[i] = DiskByte(req.offset + i)

\* The loop ends only when the request's bytes have all been filled.
LengthBytesFilled ==
    pc = "returned" /\ ~req.skip =>
        \A i \in 0 .. (req.length - 1) : buf[i] # Blank

Overlap(p, q) == p[1] < q[1] + q[2] /\ q[1] < p[1] + p[2]

\* readinto relies on the server for one thing only: that the fragments it
\* accepts do not overlap (it rejects a dest it has seen, no more).
ReadIntegrityIfDisjoint ==
    (\A p, q \in got : Overlap(p, q) => p = q) => ReadIntegrity

\* Byte i of the read, as the caller rebuilds it from a packed buffer: the
\* fragment that covers i, raw or as a complete FastLZ stream.
Unpack(i) ==
    LET F == {fragments[j] : j \in DOMAIN fragments}
        f == CHOOSE f \in F : f.dest <= i /\ i < f.dest + f.uncompressed_length
        raw == buf[f.offset + (i - f.dest)]
        z0 == buf[f.offset]
    IN  IF f.compression_type = NFC_COMPRESSION_NONE THEN raw
        ELSE IF /\ z0.z /\ z0.c = f.length /\ z0.n = f.uncompressed_length
                /\ \A k \in 0 .. (f.length - 1) :
                      buf[f.offset + k] = [z0 EXCEPT !.k = k]
        THEN DiskByte(z0.at + (i - f.dest)) ELSE Blank

Unpackable(i) ==
    \E j \in DOMAIN fragments :
        /\ fragments[j].dest <= i
        /\ i < fragments[j].dest + fragments[j].uncompressed_length

\* A packing read that returns describes in "fragments" how to rebuild every
\* byte of the request from the extras it left densely at the start of buf.
PackedIntegrity ==
    pc = "returned" /\ req.skip =>
        \A i \in 0 .. (req.length - 1) :
            Unpackable(i) /\ Unpack(i) = DiskByte(req.offset + i)

\* No byte of the buffer past the requested length is ever written, and a
\* decompressing read, failed or not, never leaves a byte of the disk at a
\* place that is not its own.
BufferConfined ==
    \A i \in 0 .. (BufLen - 1) :
        \/ buf[i] = Blank
        \/ i < req.length /\ (req.skip \/ buf[i] = DiskByte(req.offset + i))

\* With a conforming server the loop never waits for a fragment when none is
\* coming, and leaves none in the socket for the next call to trip over.
AskedForAll ==
    LooseFrames = {} =>
        /\ pc = "hdr" => owed # {}
        /\ pc = "returned" => owed = {}

\* The lengths of the ReadResult: a conforming server never makes the wire
\* cost more than the read, and the packed extras are exactly those bytes.
ResultLengths ==
    pc = "returned" =>
        /\ filled = req.length
        /\ wire_bytes <= req.length
        /\ req.skip => packed_offset = wire_bytes
        /\ Compression = NFC_COMPRESSION_NONE => wire_bytes = req.length

\* Every exception readinto raises for what the server sent is the protocol
\* error the module documents, or the timeout of the socket.
ServerErrorsAreNfcErrors ==
    pc = "raised" /\ req.length > 0 =>
        outcome \in {"NfcProtocolError", "TimeoutError"}

\* A call ends, whatever the server sends or withholds: not by the timeout
\* alone, which a server that never stops sending never lets pass, but because
\* each fragment that is accepted starts at a place no earlier one did.
CallEnds == pc # "idle" ~> pc \in {"returned", "raised"}

\* A conforming server that keeps sending always gets the call to return.
ReadCompletes == pc = "hdr" ~> pc = "returned"

\* The read is one indivisible read of the disk's bytes.
Abstract == INSTANCE SectorRead WITH
    phase <- CASE pc = "idle" -> "idle"
               [] pc \in {"hdr", "body", "extra"} -> "reading"
               [] pc = "returned" -> "done"
               [] pc = "raised" -> "failed",
    offset <- req.offset,
    length <- req.length,
    result <- IF pc = "returned"
              THEN [i \in 0 .. (req.length - 1) |->
                       IF req.skip THEN Unpack(i) ELSE buf[i]]
              ELSE <<>>
ImplementsSectorRead == Abstract!Spec
=============================================================================
