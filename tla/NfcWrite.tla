------------------------------ MODULE NfcWrite ------------------------------
(***************************************************************************)
(* One write, byte by byte: VixDiskLibHandle.write (openvixdisklib.py),    *)
(* which cuts the caller's buffer to sectors of its own constant size, and *)
(* NfcDisk.write (nfc_open.py), which checks the length against the sector *)
(* size of the OPEN_FILE reply, sends the bytes in fragments, raw or       *)
(* compressed by fastlz.compress, and waits for one reply.                 *)
(*                                                                         *)
(* Byte i stands for byte i of the caller's buffer.  A send that stops     *)
(* half way leaves a fragment the server goes on waiting for: within one   *)
(* call this is the same as a fragment that was not sent (NfcDisk has what *)
(* comes after).                                                           *)
(***************************************************************************)
EXTENDS Integers, Sequences

CONSTANTS
    VIXDISKLIB_SECTOR_SIZE,  \* 512
    SectorSizes,    \* sector sizes that an OPEN_FILE reply may give
    AioBufferSize,  \* aio_buffer_size of the session
    FastLz,         \* TRUE: the disk was opened with FASTLZ compression
    MinLz,          \* 16: shorter chunks are not compressed
    UIntLimit,      \* the first value that struct.pack("<I") refuses
    Starts, Counts, \* start_sector and num_sectors arguments that occur
    Buffers         \* buffers that occur: n elements of w bytes

ASSUME WriteConstants ==
    /\ VIXDISKLIB_SECTOR_SIZE \in Nat \ {0} /\ SectorSizes \subseteq Nat \ {0}
    /\ AioBufferSize \in Nat \ {0} /\ FastLz \in BOOLEAN
    /\ MinLz \in Nat \ {0} /\ UIntLimit \in Nat
    /\ Starts \subseteq Int /\ Counts \subseteq Int
    /\ Buffers \subseteq [n : Nat, w : Nat \ {0}]

VARIABLES
    sector_size,  \* of the disk
    pc,           \* "idle", "loop", "reply", "returned" or "raised"
    args,         \* the caller's arguments
    frag_offset,  \* local: bytes sent
    outcome,      \* "ok" or the exception raised
    toServer,     \* fragments on their way
    disk,         \* overlay: the <<address, byte>> pairs written
    served,       \* server: bytes of the write it has taken
    refused,      \* server: the bytes of fragments that it could not store
    reply         \* server: its reply, "none" before

vars == <<sector_size, pc, args, frag_offset, outcome, toServer, disk, served,
          refused, reply>>

Smaller(a, b) == IF a <= b THEN a ELSE b
Larger(a, b) == IF a >= b THEN a ELSE b

\* A byte of no buffer: what a fragment decodes to that contradicts itself.
Garbage == -1

\* The fields of a fragment, and what its extra really is: "size" bytes that
\* stand for the n bytes from "first" on, as they are or as FastLZ.
Fragment == [disk_offset : Nat, length : Nat, frag_offset : Nat, chunk : Nat,
             lz : BOOLEAN, extra_len : Nat,
             extra : [lz : BOOLEAN, first : Nat, n : Nat, size : Nat]]

Args == [api : {"handle", "disk"}, start : Int, num : Int,
         buf : [n : Nat, w : Nat]]
NoArgs == [api |-> "disk", start |-> 0, num |-> 0, buf |-> [n |-> 0, w |-> 1]]

Init ==
    /\ sector_size \in SectorSizes
    /\ pc = "idle" /\ args = NoArgs /\ frag_offset = 0 /\ outcome = "none"
    /\ toServer = <<>> /\ disk = {} /\ served = 0 /\ refused = {}
    /\ reply = "none"

Raise(e) == pc' = "raised" /\ outcome' = e
-----------------------------------------------------------------------------
(* The arguments.                                                          *)

\* Bytes of buf[:length], a slice in elements; a negative length counts from
\* the end.
UncutLen(num, b) == b.n * b.w
HandleLen(num, b) ==
    LET length == num * VIXDISKLIB_SECTOR_SIZE
    IN  (IF length < 0 THEN Larger(0, b.n + length) ELSE Smaller(b.n, length)) * b.w

\* len(data) in NfcDisk.write: cut by the handle, or what the caller passed.
DataLen(a) ==
    IF a.api = "handle" THEN HandleLen(a.num, a.buf) ELSE a.buf.n * a.buf.w

Accepted(a) == a.num >= 1 /\ DataLen(a) = a.num * sector_size

Write(a) ==
    /\ pc = "idle" /\ args' = a
    /\ \/ Accepted(a) /\ pc' = "loop" /\ UNCHANGED outcome
       \/ ~Accepted(a) /\ Raise("ValueError")
    /\ UNCHANGED <<sector_size, frag_offset, toServer, disk, served, refused, reply>>
-----------------------------------------------------------------------------
(* The loop.                                                               *)

Length == args.num * sector_size
DiskOffset == args.start * sector_size
Chunk == Smaller(AioBufferSize, Length - frag_offset)

\* struct.pack("<QQQIIIII") takes the offset and the length.
PacksAlways == TRUE
Packs == DiskOffset \in 0 .. (UIntLimit * UIntLimit - 1) /\ Length < UIntLimit

\* Whether the chunk is given to fastlz.compress, and whether its result, c
\* bytes long, is what travels: not if it is empty or no smaller.
Compresses == FastLz /\ Chunk >= MinLz
Shrinks(c) == Compresses /\ c > 0 /\ c < Chunk

FragmentAt(offset, lz, c) ==
    LET size == IF Shrinks(c) THEN c ELSE Chunk IN
    [disk_offset |-> offset, length |-> Length, frag_offset |-> frag_offset,
     chunk |-> Chunk, lz |-> lz, extra_len |-> size,
     extra |-> [lz |-> Shrinks(c), first |-> frag_offset, n |-> Chunk, size |-> size]]

TheFragmentUnlabelled(c) == FragmentAt(DiskOffset, FALSE, c)
TheFragmentTwiceShifted(c) == FragmentAt(DiskOffset + frag_offset, Shrinks(c), c)
TheFragment(c) == FragmentAt(DiskOffset, Shrinks(c), c)

\* frag_offset += len(chunk)
OffsetByExtra(c) == frag_offset + (IF Shrinks(c) THEN c ELSE Chunk)
OffsetAfter(c) == frag_offset + Chunk

\* while frag_offset < length
DoneEarly(sent) == sent + 1 >= Length
Done(sent) == sent >= Length

SendFragment(c) ==
    /\ pc = "loop" /\ Packs
    /\ toServer' = Append(toServer, TheFragment(c))
    /\ frag_offset' = OffsetAfter(c)
    /\ pc' = IF Done(frag_offset') THEN "reply" ELSE "loop"
    /\ UNCHANGED <<sector_size, args, outcome, disk, served, refused, reply>>

\* A turn of the loop raises: fastlz.compress, struct.pack or sendall.  The
\* fragments before it are on their way and stay there.
FragmentFails ==
    /\ pc = "loop"
    /\ \/ Compresses /\ Raise("ValueError of fastlz")
       \/ ~Packs /\ Raise("struct.error")
       \/ Packs /\ Raise("OSError")
    /\ UNCHANGED <<sector_size, args, frag_offset, toServer, disk, served, refused,
                   reply>>

RecvReply ==
    /\ pc = "reply" /\ reply # "none"
    /\ \/ reply = "IO" /\ pc' = "returned" /\ outcome' = "ok"
       \/ reply = "ERROR" /\ Raise("NfcProtocolError")
    /\ UNCHANGED <<sector_size, args, frag_offset, toServer, disk, served, refused,
                   reply>>

\* The socket is closed by the server or times out.
RecvFails ==
    /\ pc = "reply" /\ Raise("OSError")
    /\ UNCHANGED <<sector_size, args, frag_offset, toServer, disk, served, refused,
                   reply>>
-----------------------------------------------------------------------------
(* The server: it stores a fragment or fails to, and answers once, when it *)
(* has taken as many bytes as the length in the fragments says.            *)

\* What fragment f stores; header and extra have to agree.
Stored(f) ==
    LET sound == /\ f.lz = f.extra.lz /\ f.chunk = f.extra.n
                 /\ f.extra_len = f.extra.size
    IN  {<<f.disk_offset + f.frag_offset + i,
           IF sound THEN f.extra.first + i ELSE Garbage>> : i \in 0 .. (f.chunk - 1)}

\* The bytes of the caller's buffer that f carries.
Bytes(f) == f.frag_offset .. (f.frag_offset + f.chunk - 1)

Overwrite(new) == {d \in disk : \A e \in new : e[1] # d[1]} \cup new

Serve ==
    LET f == Head(toServer) IN
    /\ toServer # <<>>
    /\ toServer' = Tail(toServer)
    /\ \/ disk' = Overwrite(Stored(f)) /\ UNCHANGED refused
       \/ refused' = refused \cup Bytes(f) /\ UNCHANGED disk
    /\ served' = served + f.chunk
    /\ reply' = IF served' < f.length THEN reply
                ELSE IF refused' # {} THEN "ERROR" ELSE "IO"
    /\ UNCHANGED <<sector_size, pc, args, frag_offset, outcome>>

Calls == [api : {"handle"}, start : Starts, num : Counts, buf : Buffers]
         \cup [api : {"disk"}, start : Starts, num : Counts,
               buf : {b \in Buffers : b.w = 1}]

\* Lengths fastlz.compress may return: at most a byte more than it got.
LzLengths == 0 .. (AioBufferSize + 1)

Next ==
    \/ \E a \in Calls : Write(a)
    \/ \E c \in LzLengths : SendFragment(c)
    \/ FragmentFails \/ RecvReply \/ RecvFails
    \/ Serve

Spec == Init /\ [][Next]_vars

\* The loop goes on and the server works; nothing makes the timeout occur.
ServedSpec ==
    /\ Spec /\ WF_vars(\E c \in LzLengths : SendFragment(c))
    /\ WF_vars(~Packs /\ FragmentFails) /\ WF_vars(RecvReply) /\ WF_vars(Serve)
-----------------------------------------------------------------------------
(* Properties.                                                             *)

TypeOK ==
    /\ sector_size \in SectorSizes
    /\ pc \in {"idle", "loop", "reply", "returned", "raised"}
    /\ args \in Args /\ frag_offset \in Nat
    /\ outcome \in {"none", "ok", "ValueError", "ValueError of fastlz", "struct.error",
                    "OSError", "NfcProtocolError"}
    /\ toServer \in Seq(Fragment) /\ disk \subseteq Nat \X Int
    /\ served \in Nat /\ refused \subseteq Nat /\ reply \in {"none", "IO", "ERROR"}

\* The bytes B of the caller's buffer where the caller wants them, and all of
\* those the server has taken.
Wanted(B) == {<<DiskOffset + i, i>> : i \in B}
Served == 0 .. (served - 1)

\* A write that returns has put every byte of the sectors asked for in its
\* place, however it was cut and whichever chunks were compressed.
WrittenExactly == pc = "returned" => disk = Wanted(0 .. (Length - 1))

\* At every moment, and after a write that failed while its fragments were on
\* their way, the disk has changed by exactly the fragments that the server
\* has taken and stored: it takes them from the front, so that without a
\* refusal what is missing is the end, and each one that it refuses leaves a
\* hole of its own size and no more.
WrittenFromTheFront ==
    /\ disk = Wanted(Served \ refused)
    /\ Served \subseteq 0 .. (Length - 1)

\* Client and server count alike: the fragments in flight go on where the
\* server is and end where the loop is, each within the AIO buffer and none
\* longer than its chunk, and the reply is awaited once all are sent.
FragmentsTile ==
    LET n == Len(toServer)
        end(j) == IF j = 0 THEN served
                  ELSE toServer[j].frag_offset + toServer[j].chunk
    IN  /\ \A j \in 1 .. n :
              /\ toServer[j].frag_offset = end(j - 1)
              /\ toServer[j].chunk \in 1 .. AioBufferSize
              /\ toServer[j].extra_len <= toServer[j].chunk
        /\ end(n) = frag_offset
        /\ pc = "reply" => frag_offset = Length

\* On a disk with 512-byte sectors the handle accepts every byte buffer that
\* is long enough, larger ones too: the two checks of the length agree.
LongEnoughAccepted ==
    /\ args.api = "handle" /\ args.num >= 1 /\ args.buf.w = 1
    /\ sector_size = VIXDISKLIB_SECTOR_SIZE /\ args.buf.n >= Length
    => outcome # "ValueError"

\* A write ends even if the socket has no timeout: the server never waits for
\* bytes that the loop does not send while the loop waits for the reply.
WriteEnds == pc # "idle" ~> pc \in {"returned", "raised"}
=============================================================================
