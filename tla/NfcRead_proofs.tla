--------------------------- MODULE NfcRead_proofs ---------------------------
(***************************************************************************)
(* Theorems about NfcRead, for every sector size, buffer, AIO buffer,      *)
(* compression and set of frames that a non-conforming server may send.    *)
(***************************************************************************)
EXTENDS NfcRead, FiniteSetTheorems, WellFoundedInduction, TLAPS

\* A request that is not rejected has a length that fits the buffer.
LEMMA AcceptedRequest ==
    ASSUME NEW start \in Int, NEW num \in Int, NEW flag \in BOOLEAN,
           Rejection(start, num, flag) = "none"
    PROVE  /\ num * SectorSize \in Nat /\ num * SectorSize > 0
           /\ num * SectorSize <= BufLen
           /\ start * SectorSize \in Nat
<1>1. num >= 1 /\ ~(BufLen < num * SectorSize) /\ ~(start * SectorSize < 0)
  BY DEF Rejection
<1>2. num * SectorSize \in Int /\ start * SectorSize \in Int
  BY ReadConstants
<1>3. num * SectorSize > 0
  BY <1>1, ReadConstants
<1> QED
  BY <1>1, <1>2, <1>3, ReadConstants

\* The frames of an answer are reply frames.
LEMMA AnswerType ==
    ASSUME NEW len \in Nat, NEW C \in Cuts(len), NEW z \in Sizings(len, C)
    PROVE  Answer(len, C, z) \subseteq Frame
<1> SUFFICES ASSUME NEW p \in Pieces(len, C)
             PROVE  ReplyFrame(p, z[p]) \in Frame
  BY DEF Answer
<1>1. p[1] \in Nat /\ p[2] \in Nat /\ p[1] < p[2]
  <2>1. C \subseteq Nat
    BY DEF Cuts
  <2>2. C \cup {0} \subseteq Nat /\ C \cup {len} \subseteq Nat
    BY <2>1
  <2>3. p[1] \in C \cup {0} /\ p[2] \in C \cup {len} /\ p[1] < p[2]
    BY DEF Pieces
  <2> QED
    BY <2>2, <2>3, Zenon
<1>2. z[p] \in Nat
  BY DEF Sizings
<1> QED
  BY <1>1, <1>2 DEF ReplyFrame, Frame, NFC_COMPRESSION_NONE,
                    NFC_COMPRESSION_FASTLZ

\* A byte of an extra is a symbolic byte.
LEMMA FrameByteType ==
    ASSUME TypeOK, NEW k \in Nat
    PROVE  FrameByte(frame, k) \in Byte
  BY DEF TypeOK, FrameByte, LzByte, DiskByte, Byte, Frame

\* The argument checks raise nothing but these exceptions.
LEMMA RejectionType ==
    ASSUME NEW start, NEW num, NEW flag
    PROVE  Rejection(start, num, flag) \in Rejections \cup {"none"}
  BY DEF Rejection, Rejections

\* Nor do the checks on a payload.
LEMMA BodyErrorType ==
    ASSUME NEW f
    PROVE  BodyError(f) \in {"none", "NfcProtocolError", "struct.error"}
  BY DEF BodyError

\* The variables of readinto and the caller's buffer keep their types; in
\* particular buf never grows or shrinks under an in-place receive.
THEOREM TypeCorrect == Spec => []TypeOK
<1>1. Init => TypeOK
  BY ReadConstants DEF Init, TypeOK, NoFrame, Frame, Blank, Byte, Outcomes
<1>2. TypeOK /\ [Next]_vars => TypeOK'
  <2> SUFFICES ASSUME TypeOK, [Next]_vars PROVE TypeOK'
    OBVIOUS
  <2>1. ASSUME NEW start \in Starts, NEW num \in Counts, NEW flag \in BOOLEAN,
               ReadRejected(start, num, flag)
        PROVE  TypeOK'
    BY <2>1, RejectionType DEF TypeOK, ReadRejected, Raise, Outcomes, Rejections
  <2>2. ASSUME NEW start \in Starts, NEW num \in Counts, NEW flag \in BOOLEAN,
               ReadInto(start, num, flag)
        PROVE  TypeOK'
    <3>1. start \in Int /\ num \in Int
      BY ReadConstants
    <3>2. Rejection(start, num, FALSE) = "none"
      BY <2>2 DEF ReadInto
    <3>3. num * SectorSize \in Nat /\ start * SectorSize \in Nat
      BY <3>1, <3>2, AcceptedRequest
    <3>4. owed' \subseteq Frame
      BY <2>2, <3>3, AnswerType DEF ReadInto
    <3>5. req' \in [offset : Nat, length : Nat, skip : BOOLEAN]
      BY <2>2, <3>3 DEF ReadInto
    <3> QED
      BY <2>2, <3>4, <3>5 DEF TypeOK, ReadInto
  <2>3. CASE RecvHeader
    BY <2>3, ReadConstants DEF TypeOK, RecvHeader, Raise, Outcomes
  <2>4. CASE RecvBody
    <3>1. BodyError(frame) \in Outcomes
      BY BodyErrorType DEF Outcomes, Rejections
    <3>2. frame.dest \in Nat
      BY DEF TypeOK, Frame
    <3>3. seen' = seen \/ seen' = seen \cup {frame.dest}
      BY <2>4 DEF RecvBody
    <3>4. seen' \subseteq Nat
      BY <3>2, <3>3 DEF TypeOK
    <3>5. /\ pc' \in {"extra", "raised"} /\ have' \in {0, have}
          /\ outcome' \in {outcome, BodyError(frame)}
          /\ UNCHANGED <<req, owed, frame, buf, filled, wire_bytes,
                         packed_offset, fragments, got>>
      BY <2>4 DEF RecvBody, Raise
    <3> QED
      BY <3>1, <3>4, <3>5 DEF TypeOK
  <2>5. ASSUME NEW g \in 1 .. BufLen, RecvExtra(g) PROVE TypeOK'
    <3>1. Target(frame) \in Nat
      BY DEF TypeOK, Target, Frame
    <3>2. buf' \in [0 .. (BufLen - 1) -> Byte]
      BY <2>5, <3>1, FrameByteType, ReadConstants DEF TypeOK, RecvExtra
    <3>3. /\ have' = have + g
          /\ UNCHANGED <<pc, req, owed, frame, filled, wire_bytes, packed_offset,
                         fragments, seen, outcome, got>>
      BY <2>5 DEF RecvExtra
    <3>4. have' \in Nat
      <4>1. have \in Nat /\ g \in Nat
        BY ReadConstants DEF TypeOK
      <4> QED BY <3>3, <4>1
    <3> QED
      BY <3>2, <3>3, <3>4 DEF TypeOK
  <2>6. CASE FinishFragment
    <3>1. /\ frame.chunk \in Nat /\ frame.dest \in Nat
          /\ frame.ctype \in Nat /\ ExtraLen(frame) \in Nat
      BY DEF TypeOK, Frame, ExtraLen
    <3>2. buf' \in [0 .. (BufLen - 1) -> Byte]
      <4>1. \A i \in 0 .. (BufLen - 1) : DiskByte(req.offset + i) \in Byte
        BY ReadConstants DEF TypeOK, DiskByte, Byte
      <4>2. buf \in [0 .. (BufLen - 1) -> Byte]
        BY DEF TypeOK
      <4>3. buf' = [i \in 0 .. (BufLen - 1) |->
                       IF /\ ~Direct(frame)
                          /\ frame.dest <= i /\ i < frame.dest + frame.chunk
                       THEN DiskByte(req.offset + i) ELSE buf[i]]
        BY <2>6 DEF FinishFragment
      <4> QED BY <4>1, <4>2, <4>3
    <3>3. fragments' \in Seq(ReadFragment) /\ packed_offset' \in Nat
      <4>1. CASE req.skip
        <5> DEFINE r == [dest |-> frame.dest,
                         uncompressed_length |-> frame.chunk,
                         compression_type |-> frame.ctype,
                         offset |-> packed_offset, length |-> ExtraLen(frame)]
        <5>1. fragments' = Append(fragments, r)
          BY <2>6, <4>1 DEF FinishFragment
        <5>2. packed_offset' = packed_offset + ExtraLen(frame)
          BY <2>6, <4>1 DEF FinishFragment, PackedAfter
        <5>3. r \in ReadFragment
          BY <3>1 DEF TypeOK, ReadFragment
        <5> HIDE DEF r
        <5> QED
          BY <5>1, <5>2, <5>3, <3>1 DEF TypeOK
      <4>2. CASE ~req.skip
        BY <2>6, <4>2 DEF TypeOK, FinishFragment
      <4> QED
        BY <4>1, <4>2
    <3>4. wire_bytes' \in Nat /\ filled' \in Nat /\ got' \subseteq Nat \X Nat
      <4>1. wire_bytes' \in Nat /\ filled' \in Nat
        <5>1. /\ wire_bytes' = wire_bytes + ExtraLen(frame)
              /\ filled' = filled + frame.chunk
          BY <2>6 DEF FinishFragment, FilledAfter
        <5>2. wire_bytes \in Nat /\ filled \in Nat
          BY DEF TypeOK
        <5> QED
          BY <5>1, <5>2, <3>1
      <4>2. got' = got \cup {<<frame.dest, frame.chunk>>}
        BY <2>6 DEF FinishFragment
      <4>3. got' \subseteq Nat \X Nat
        BY <4>2, <3>1 DEF TypeOK
      <4> QED
        BY <4>1, <4>3
    <3> QED
      BY <2>6, <3>2, <3>3, <3>4 DEF TypeOK, FinishFragment, Outcomes
  <2>7. CASE DecompressError
    BY <2>7 DEF TypeOK, DecompressError, Raise, Outcomes
  <2>8. CASE RecvFails
    BY <2>8 DEF TypeOK, RecvFails, Raise, Outcomes
  <2>9. CASE UNCHANGED vars
    BY <2>9 DEF TypeOK, vars
  <2> QED
    BY <2>1, <2>2, <2>3, <2>4, <2>5, <2>6, <2>7, <2>8, <2>9 DEF Next
<1> QED
  BY <1>1, <1>2, PTL DEF Spec
-----------------------------------------------------------------------------
(* The inductive invariant behind the integrity of a read.                 *)

\* The bytes of the request that completed fragments cover.
Span(p) == p[1] .. (p[1] + p[2] - 1)
Covered == {i \in 0 .. (req.length - 1) : \E p \in got : i \in Span(p)}

Disjoint(S) == \A p, q \in S : Overlap(p, q) => p = q

\* Where the loop is, its counters agree with what it has checked.
Shape ==
    /\ req.length <= BufLen
    /\ pc = "idle" => filled = 0 /\ got = {} /\ req.length = 0
    /\ pc \in {"hdr", "body", "extra"} => filled < req.length
    /\ pc = "returned" => filled >= req.length
    /\ pc = "extra" =>
          /\ frame.chunk > 0 /\ frame.dest + frame.chunk <= req.length
          /\ frame.ctype \in {NFC_COMPRESSION_NONE, NFC_COMPRESSION_FASTLZ}
          /\ have <= ExtraLen(frame)
          /\ req.skip => packed_offset + ExtraLen(frame) <= req.length
          /\ frame.dest \in seen /\ \A p \in got : p[1] # frame.dest
    /\ \A p \in got : p[1] \in seen /\ p[2] > 0 /\ p[1] + p[2] <= req.length

\* Every byte of a completed fragment, and what has come of a raw one, is
\* in its place.
Landed ==
    ~req.skip =>
        /\ \A i \in Covered : buf[i] = DiskByte(req.offset + i)
        /\ pc = "extra" /\ frame.ctype = NFC_COMPRESSION_NONE =>
              \A i \in frame.dest .. (frame.dest + have - 1) :
                  buf[i] = DiskByte(req.offset + i)

\* filled counts the covered bytes, as long as no fragment overlaps another.
Counted == Disjoint(got) => Cardinality(Covered) = filled

ReadInv == TypeOK /\ Shape /\ BufferConfined /\ Landed /\ Counted

\* The lengths a frame gives are natural numbers.
LEMMA FrameFields ==
    ASSUME NEW f \in Frame
    PROVE  /\ f.dest \in Nat /\ f.chunk \in Nat /\ f.ctype \in Nat
           /\ f.clen \in Nat /\ f.ulen \in Nat /\ ExtraLen(f) \in Nat
  BY DEF Frame, ExtraLen

\* What a frame has passed when its extra is received.
LEMMA AcceptedBody ==
    ASSUME TypeOK, BodyError(frame) = "none"
    PROVE  /\ frame.chunk > 0 /\ frame.dest + frame.chunk <= req.length
           /\ frame.dest \notin seen
           /\ frame.ctype \in {NFC_COMPRESSION_NONE, NFC_COMPRESSION_FASTLZ}
           /\ ExtraLen(frame) > 0
           /\ req.skip => packed_offset + ExtraLen(frame) <= req.length
<1>1. /\ frame \in Frame /\ req.length \in Nat
      /\ packed_offset \in Nat /\ req.skip \in BOOLEAN
  BY DEF TypeOK
<1>2. /\ frame.dest \in Nat /\ frame.chunk \in Nat /\ frame.clen \in Nat
      /\ ExtraLen(frame) \in Nat
  BY <1>1, FrameFields
<1>3. ~BadChunk(frame)
  BY DEF BodyError
<1>4. /\ frame.chunk > 0 /\ frame.dest + frame.chunk <= req.length
      /\ frame.dest \notin seen
  BY <1>1, <1>2, <1>3 DEF BadChunk
<1>5. /\ frame.ctype \in {NFC_COMPRESSION_NONE, NFC_COMPRESSION_FASTLZ}
      /\ ~(frame.ctype = NFC_COMPRESSION_FASTLZ /\ frame.clen < 1)
      /\ ~(req.skip /\ packed_offset + ExtraLen(frame) > req.length)
  BY DEF BodyError
<1>6. ExtraLen(frame) > 0
  BY <1>2, <1>4, <1>5 DEF ExtraLen
<1> QED
  BY <1>1, <1>2, <1>4, <1>5, <1>6

\* The effect of a completed fragment on the counters.
LEMMA FinishEffect ==
    ASSUME FinishFragment
    PROVE  /\ pc = "extra" /\ pc' \in {"hdr", "returned"}
           /\ pc' = "hdr" => filled' < req.length
           /\ pc' = "returned" => filled' >= req.length
           /\ filled' = filled + frame.chunk
           /\ got' = got \cup {<<frame.dest, frame.chunk>>}
           /\ UNCHANGED <<req, owed, frame, have, seen>>
  BY DEF FinishFragment, FilledAfter

\* Shape, on the caller's request and the frame in hand, is inductive.
LEMMA ShapeStep == TypeOK /\ TypeOK' /\ Shape /\ [Next]_vars => Shape'
<1> SUFFICES ASSUME TypeOK, TypeOK', Shape, [Next]_vars PROVE Shape'
  OBVIOUS
<1>1. ASSUME NEW start \in Starts, NEW num \in Counts, NEW flag \in BOOLEAN,
             ReadRejected(start, num, flag)
      PROVE  Shape'
  BY <1>1 DEF Shape, ReadRejected, Raise
<1>2. ASSUME NEW start \in Starts, NEW num \in Counts, NEW flag \in BOOLEAN,
             ReadInto(start, num, flag)
      PROVE  Shape'
  <2>1. start \in Int /\ num \in Int
    BY ReadConstants
  <2>2. num * SectorSize > 0 /\ num * SectorSize <= BufLen
    BY <1>2, <2>1, AcceptedRequest DEF ReadInto
  <2>3. /\ req'.length = num * SectorSize /\ pc = "idle" /\ pc' = "hdr"
        /\ filled' = filled /\ got' = got
    BY <1>2 DEF ReadInto
  <2>4. filled = 0 /\ got = {}
    BY <2>3 DEF Shape
  <2> QED
    BY <2>2, <2>3, <2>4 DEF Shape
<1>3. CASE RecvHeader
  BY <1>3 DEF Shape, RecvHeader, Raise
<1>4. CASE RecvBody
  <2>1. CASE BodyError(frame) = "none"
    <3>1. /\ pc = "body" /\ pc' = "extra" /\ have' = 0
          /\ seen' = seen \cup {frame.dest}
          /\ UNCHANGED <<req, frame, filled, packed_offset, got>>
      BY <1>4, <2>1 DEF RecvBody
    <3>2. /\ frame.chunk > 0 /\ frame.dest + frame.chunk <= req.length
          /\ frame.dest \notin seen /\ ExtraLen(frame) > 0
          /\ frame.ctype \in {NFC_COMPRESSION_NONE, NFC_COMPRESSION_FASTLZ}
          /\ req.skip => packed_offset + ExtraLen(frame) <= req.length
      BY <2>1, AcceptedBody
    <3>3. \A p \in got : p[1] # frame.dest /\ p[1] \in seen'
      BY <3>1, <3>2 DEF Shape
    <3>4. ExtraLen(frame)' = ExtraLen(frame)
      BY <3>1 DEF ExtraLen
    <3>5. have' <= ExtraLen(frame)'
      BY <3>1, <3>2, <3>4, FrameFields DEF TypeOK
    <3> QED
      BY <3>1, <3>2, <3>3, <3>4, <3>5 DEF Shape
  <2>2. CASE BodyError(frame) # "none"
    BY <1>4, <2>2 DEF Shape, RecvBody, Raise
  <2> QED
    BY <2>1, <2>2
<1>5. ASSUME NEW g \in 1 .. BufLen, RecvExtra(g) PROVE Shape'
  <2>1. /\ pc = "extra" /\ have' = have + g /\ have + g <= ExtraLen(frame)
        /\ UNCHANGED <<pc, req, frame, filled, packed_offset, seen, got>>
    BY <1>5 DEF RecvExtra
  <2>2. ExtraLen(frame)' = ExtraLen(frame)
    BY <2>1 DEF ExtraLen
  <2> QED
    BY <2>1, <2>2 DEF Shape
<1>6. CASE FinishFragment
  <2>1. \A p \in got' : p[1] \in seen' /\ p[2] > 0 /\ p[1] + p[2] <= req'.length
    <3>1. frame.dest \in seen
      BY <1>6 DEF FinishFragment, Shape
    <3> QED
      BY <1>6, <3>1, FinishEffect DEF Shape
  <2> QED
    BY <1>6, <2>1, FinishEffect DEF Shape
<1>7. CASE DecompressError
  BY <1>7 DEF Shape, DecompressError, Raise
<1>8. CASE RecvFails
  BY <1>8 DEF Shape, RecvFails, Raise
<1>9. CASE UNCHANGED vars
  BY <1>9 DEF Shape, vars, ExtraLen
<1> QED
  BY <1>1, <1>2, <1>3, <1>4, <1>5, <1>6, <1>7, <1>8, <1>9 DEF Next

\* A receive into buf writes, in a decompressing read, only bytes that belong
\* where they are written, and never beyond the request.
LEMMA ExtraEffect ==
    ASSUME TypeOK, Shape, NEW g \in 1 .. BufLen, RecvExtra(g),
           NEW i \in 0 .. (BufLen - 1)
    PROVE  /\ \/ buf'[i] = buf[i]
              \/ /\ i < req.length
                 /\ req.skip \/ buf'[i] = DiskByte(req.offset + i)
           /\ /\ ~req.skip /\ frame.ctype = NFC_COMPRESSION_NONE
              /\ frame.dest + have <= i /\ i < frame.dest + have + g
              => buf'[i] = DiskByte(req.offset + i)
<1>1. /\ frame.dest \in Nat /\ frame.chunk \in Nat /\ ExtraLen(frame) \in Nat
      /\ packed_offset \in Nat /\ have \in Nat /\ BufLen \in Nat
      /\ req.length \in Nat /\ req.offset \in Nat /\ req.skip \in BOOLEAN
  BY FrameFields, ReadConstants DEF TypeOK
<1>2. /\ have + g <= ExtraLen(frame)
      /\ frame.chunk > 0 /\ frame.dest + frame.chunk <= req.length
      /\ req.skip => packed_offset + ExtraLen(frame) <= req.length
  BY DEF RecvExtra, Shape
<1>3. buf'[i] = IF /\ Direct(frame)
                   /\ Target(frame) + have <= i
                   /\ i < Target(frame) + have + g
                THEN FrameByte(frame, i - Target(frame)) ELSE buf[i]
  BY DEF RecvExtra
<1>4. CASE req.skip
  <2>1. Target(frame) = packed_offset
    BY <1>4 DEF Target
  <2> QED
    BY <1>1, <1>2, <1>3, <1>4, <2>1
<1>5. CASE ~req.skip /\ frame.ctype = NFC_COMPRESSION_NONE
  <2>1. Target(frame) = frame.dest /\ Direct(frame)
    BY <1>5 DEF Target, Direct
  <2>2. ExtraLen(frame) = frame.chunk
    BY <1>5 DEF ExtraLen, NFC_COMPRESSION_NONE, NFC_COMPRESSION_FASTLZ
  <2>3. FrameByte(frame, i - frame.dest)
            = DiskByte(req.offset + frame.dest + (i - frame.dest))
    BY <1>5 DEF FrameByte, NFC_COMPRESSION_NONE, NFC_COMPRESSION_FASTLZ
  <2>4. req.offset + frame.dest + (i - frame.dest) = req.offset + i
    BY <1>1
  <2> QED
    BY <1>1, <1>2, <1>3, <2>1, <2>2, <2>3, <2>4
<1>6. CASE ~req.skip /\ frame.ctype # NFC_COMPRESSION_NONE
  <2>1. ~Direct(frame)
    BY <1>6 DEF Direct
  <2> QED
    BY <1>3, <1>6, <2>1
<1> QED
  BY <1>4, <1>5, <1>6, <1>1

\* The same for the copy of a decompressed fragment.
LEMMA FinishBuf ==
    ASSUME TypeOK, Shape, FinishFragment, NEW i \in 0 .. (BufLen - 1)
    PROVE  /\ \/ buf'[i] = buf[i]
              \/ /\ i < req.length /\ ~req.skip
                 /\ buf'[i] = DiskByte(req.offset + i)
           /\ /\ ~req.skip /\ frame.ctype = NFC_COMPRESSION_FASTLZ
              /\ frame.dest <= i /\ i < frame.dest + frame.chunk
              => buf'[i] = DiskByte(req.offset + i)
<1>1. /\ frame.dest \in Nat /\ frame.chunk \in Nat /\ BufLen \in Nat
      /\ req.length \in Nat /\ frame.dest + frame.chunk <= req.length
  BY FrameFields, ReadConstants DEF TypeOK, Shape, FinishFragment
<1>2. buf'[i] = IF /\ ~Direct(frame)
                   /\ frame.dest <= i /\ i < frame.dest + frame.chunk
                THEN DiskByte(req.offset + i) ELSE buf[i]
  BY DEF FinishFragment
<1>3. frame.ctype = NFC_COMPRESSION_FASTLZ => (Direct(frame) <=> req.skip)
  BY DEF Direct, NFC_COMPRESSION_NONE, NFC_COMPRESSION_FASTLZ
<1>4. ~Direct(frame) => ~req.skip
  BY DEF Direct
<1> QED
  BY <1>1, <1>2, <1>3, <1>4

\* The actions that neither write the buffer nor complete a fragment.
Quiet ==
    \/ \E start \in Starts, num \in Counts, flag \in BOOLEAN :
          ReadRejected(start, num, flag)
    \/ RecvHeader \/ RecvBody \/ DecompressError \/ RecvFails
    \/ UNCHANGED vars

\* The other steps touch neither the buffer nor the accounting.
LEMMA QuietEffect ==
    ASSUME Quiet
    PROVE  /\ UNCHANGED <<req, buf, filled, got>>
           /\ pc' = "extra" => \/ have' = 0
                               \/ UNCHANGED <<pc, frame, have>>
  BY DEF Quiet, ReadRejected, RecvHeader, RecvBody, DecompressError, RecvFails,
         Raise, vars

\* No step writes outside the request or a byte at a wrong place.
LEMMA ConfinedStep ==
    TypeOK /\ Shape /\ BufferConfined /\ [Next]_vars => BufferConfined'
<1> SUFFICES ASSUME TypeOK, Shape, BufferConfined, [Next]_vars,
                    NEW i \in 0 .. (BufLen - 1)
             PROVE  \/ buf'[i] = Blank
                    \/ /\ i < req'.length
                       /\ req'.skip \/ buf'[i] = DiskByte(req'.offset + i)
  BY DEF BufferConfined
<1>1. CASE Quiet
  BY <1>1, QuietEffect DEF BufferConfined
<1>2. ASSUME NEW start \in Starts, NEW num \in Counts, NEW flag \in BOOLEAN,
             ReadInto(start, num, flag)
      PROVE  buf'[i] = Blank
  <2>1. pc = "idle" /\ buf' = buf
    BY <1>2 DEF ReadInto
  <2>2. req.length = 0
    BY <2>1 DEF Shape
  <2> QED
    BY <2>1, <2>2, ReadConstants DEF BufferConfined
<1>3. ASSUME NEW g \in 1 .. BufLen, RecvExtra(g)
      PROVE  \/ buf'[i] = Blank
             \/ /\ i < req'.length
                /\ req'.skip \/ buf'[i] = DiskByte(req'.offset + i)
  <2>1. req' = req
    BY <1>3 DEF RecvExtra
  <2> QED
    BY <1>3, <2>1, ExtraEffect DEF BufferConfined
<1>4. CASE FinishFragment
  <2>1. req' = req
    BY <1>4 DEF FinishFragment
  <2> QED
    BY <1>4, <2>1, FinishBuf DEF BufferConfined
<1> QED
  BY <1>1, <1>2, <1>3, <1>4 DEF Next, Quiet

\* A completed fragment adds its own span to the covered bytes.
LEMMA FinishCovers ==
    ASSUME TypeOK, Shape, FinishFragment
    PROVE  /\ Covered' = Covered \cup Span(<<frame.dest, frame.chunk>>)
           /\ Span(<<frame.dest, frame.chunk>>)
                = frame.dest .. (frame.dest + frame.chunk - 1)
<1> DEFINE new == <<frame.dest, frame.chunk>>
<1>1. /\ frame.dest \in Nat /\ frame.chunk \in Nat /\ req.length \in Nat
      /\ frame.dest + frame.chunk <= req.length
  BY FrameFields DEF TypeOK, Shape, FinishFragment
<1>2. Span(new) = frame.dest .. (frame.dest + frame.chunk - 1)
  BY DEF Span
<1>3. Span(new) \subseteq 0 .. (req.length - 1)
  BY <1>1, <1>2
<1>4. got' = got \cup {new} /\ req' = req
  BY FinishEffect
<1> HIDE DEF new
<1>5. Covered' = {i \in 0 .. (req.length - 1) :
                     \E p \in got \cup {new} : i \in Span(p)}
  BY <1>4 DEF Covered, Span
<1>6. Covered' = Covered \cup Span(new)
  BY <1>3, <1>5 DEF Covered
<1> QED
  BY <1>2, <1>6 DEF new

\* The covered bytes change only with the completed fragments.
LEMMA CoveredUnchanged ==
    ASSUME UNCHANGED <<req, got>>
    PROVE  Covered' = Covered
  BY DEF Covered, Span

\* Completed fragments stay in the buffer.
LEMMA LandedStep ==
    TypeOK /\ TypeOK' /\ Shape /\ Landed /\ [Next]_vars => Landed'
<1> SUFFICES ASSUME TypeOK, TypeOK', Shape, Landed, [Next]_vars, ~req'.skip
             PROVE  /\ \A i \in Covered' : buf'[i] = DiskByte(req'.offset + i)
                    /\ pc' = "extra" /\ frame'.ctype = NFC_COMPRESSION_NONE =>
                         \A i \in frame'.dest .. (frame'.dest + have' - 1) :
                             buf'[i] = DiskByte(req'.offset + i)
  BY DEF Landed
<1>1. Covered \subseteq 0 .. (BufLen - 1)
  <2>1. req.length <= BufLen
    BY DEF Shape
  <2>2. req.length \in Int /\ BufLen \in Nat
    BY ReadConstants DEF TypeOK
  <2>3. Covered \subseteq 0 .. (req.length - 1)
    BY DEF Covered
  <2> QED BY <2>1, <2>2, <2>3
<1>2. CASE Quiet
  <2>1. UNCHANGED <<req, buf, got>> /\ Covered' = Covered
    BY <1>2, QuietEffect, CoveredUnchanged
  <2>2. CASE have' = 0
    <3>1. frame' \in Frame
      BY DEF TypeOK
    <3>2. frame'.dest \in Nat
      BY <3>1 DEF Frame
    <3>3. frame'.dest .. (frame'.dest + have' - 1) = {}
      BY <2>2, <3>2
    <3> QED
      BY <2>1, <3>3 DEF Landed
  <2>3. CASE UNCHANGED <<pc, frame, have>>
    BY <2>1, <2>3 DEF Landed
  <2>4. CASE pc' # "extra"
    BY <2>1, <2>4 DEF Landed
  <2> QED
    BY <1>2, <2>2, <2>3, <2>4, QuietEffect
<1>3. ASSUME NEW start \in Starts, NEW num \in Counts, NEW flag \in BOOLEAN,
             ReadInto(start, num, flag)
      PROVE  Covered' = {} /\ pc' # "extra"
  <2>1. pc = "idle" /\ got' = got /\ pc' = "hdr"
    BY <1>3 DEF ReadInto
  <2> QED
    BY <2>1 DEF Covered, Shape
<1>4. ASSUME NEW g \in 1 .. BufLen, RecvExtra(g)
      PROVE  /\ \A i \in Covered' : buf'[i] = DiskByte(req'.offset + i)
             /\ pc' = "extra" /\ frame'.ctype = NFC_COMPRESSION_NONE =>
                  \A i \in frame'.dest .. (frame'.dest + have' - 1) :
                      buf'[i] = DiskByte(req'.offset + i)
  <2>1. /\ UNCHANGED <<pc, req, frame, got>> /\ have' = have + g
        /\ have + g <= ExtraLen(frame) /\ pc = "extra"
    BY <1>4 DEF RecvExtra
  <2>2. Covered' = Covered
    BY <2>1, CoveredUnchanged
  <2>3. \A i \in Covered : buf'[i] = DiskByte(req.offset + i)
    BY <1>1, <1>4, <2>1, ExtraEffect DEF Landed
  <2>4. ASSUME frame.ctype = NFC_COMPRESSION_NONE,
               NEW i \in frame.dest .. (frame.dest + have + g - 1)
        PROVE  buf'[i] = DiskByte(req.offset + i)
    <3>1. /\ frame.dest \in Nat /\ frame.chunk \in Nat /\ have \in Nat
          /\ req.length \in Nat /\ BufLen \in Nat /\ req.length <= BufLen
          /\ frame.dest + frame.chunk <= req.length
      BY <2>1, FrameFields, ReadConstants DEF TypeOK, Shape
    <3>2. ExtraLen(frame) = frame.chunk
      BY <2>4 DEF ExtraLen, NFC_COMPRESSION_NONE, NFC_COMPRESSION_FASTLZ
    <3>3. i \in 0 .. (BufLen - 1)
      BY <2>1, <3>1, <3>2
    <3>4. CASE i < frame.dest + have
      <4>1. i \in frame.dest .. (frame.dest + have - 1)
        BY <3>1, <3>4
      <4>2. buf[i] = DiskByte(req.offset + i)
        BY <2>1, <2>4, <4>1 DEF Landed
      <4> QED
        BY <1>4, <2>1, <3>3, <4>2, ExtraEffect
    <3>5. CASE i >= frame.dest + have
      <4>1. frame.dest + have <= i /\ i < frame.dest + have + g
        BY <3>1, <3>5
      <4> QED
        BY <1>4, <2>1, <2>4, <3>3, <4>1, ExtraEffect
    <3> QED
      BY <3>1, <3>4, <3>5
  <2> QED
    <3>1. frame.dest \in Nat /\ have \in Nat
      BY FrameFields DEF TypeOK
    <3>2. frame'.dest .. (frame'.dest + have' - 1)
            = frame.dest .. (frame.dest + have + g - 1)
      BY <2>1, <3>1
    <3> QED
      BY <2>1, <2>2, <2>3, <2>4, <3>2
<1>5. ASSUME FinishFragment, NEW i \in Covered'
      PROVE  buf'[i] = DiskByte(req'.offset + i)
  <2>1. UNCHANGED req /\ pc = "extra" /\ have = ExtraLen(frame)
    BY <1>5 DEF FinishFragment
  <2>2. i \in Covered \/ i \in frame.dest .. (frame.dest + frame.chunk - 1)
    BY <1>5, FinishCovers
  <2>3. /\ frame.dest \in Nat /\ frame.chunk \in Nat
        /\ req.length \in Nat /\ BufLen \in Nat /\ req.length <= BufLen
        /\ frame.dest + frame.chunk <= req.length
    BY <2>1, FrameFields, ReadConstants DEF TypeOK, Shape
  <2>4. i \in 0 .. (BufLen - 1)
    <3>1. frame.dest .. (frame.dest + frame.chunk - 1) \subseteq 0 .. (BufLen - 1)
      BY <2>3
    <3> QED
      BY <1>1, <2>2, <3>1
  <2>5. CASE i \in Covered
    BY <1>5, <2>1, <2>4, <2>5, FinishBuf DEF Landed
  <2>6. CASE /\ i \in frame.dest .. (frame.dest + frame.chunk - 1)
             /\ frame.ctype = NFC_COMPRESSION_FASTLZ
    BY <1>5, <2>1, <2>3, <2>4, <2>6, FinishBuf
  <2>7. CASE /\ i \in frame.dest .. (frame.dest + frame.chunk - 1)
             /\ frame.ctype = NFC_COMPRESSION_NONE
    <3>1. have = frame.chunk
      BY <2>1, <2>7 DEF ExtraLen, NFC_COMPRESSION_NONE, NFC_COMPRESSION_FASTLZ
    <3>2. buf[i] = DiskByte(req.offset + i)
      BY <2>1, <2>7, <3>1 DEF Landed
    <3> QED
      BY <1>5, <2>1, <2>4, <3>2, FinishBuf
  <2> QED
    BY <2>1, <2>2, <2>5, <2>6, <2>7 DEF Shape
<1>6. CASE FinishFragment
  BY <1>5, <1>6, FinishEffect
<1> QED
  BY <1>2, <1>3, <1>4, <1>6 DEF Next, Quiet

\* "filled" counts the bytes of the completed fragments.
LEMMA CountedStep ==
    TypeOK /\ Shape /\ Counted /\ [Next]_vars => Counted'
<1> SUFFICES ASSUME TypeOK, Shape, Counted, [Next]_vars, Disjoint(got')
             PROVE  Cardinality(Covered') = filled'
  BY DEF Counted, Disjoint, Overlap
<1>1. CASE UNCHANGED <<req, filled, got>>
  BY <1>1, CoveredUnchanged DEF Counted
<1>2. ASSUME NEW start \in Starts, NEW num \in Counts, NEW flag \in BOOLEAN,
             ReadInto(start, num, flag)
      PROVE  Cardinality(Covered') = filled'
  <2>1. got' = {} /\ filled' = 0
    BY <1>2 DEF ReadInto, Shape
  <2>2. Covered' = {}
    BY <2>1 DEF Covered
  <2> QED
    BY <2>1, <2>2, FS_EmptySet
<1>3. CASE FinishFragment
  <2> DEFINE new == <<frame.dest, frame.chunk>>
             span == frame.dest .. (frame.dest + frame.chunk - 1)
  <2>1. /\ got' = got \cup {new} /\ filled' = filled + frame.chunk
        /\ pc = "extra"
    BY <1>3, FinishEffect
  <2>2. Covered' = Covered \cup span
    BY <1>3, FinishCovers
  <2>3. /\ frame.dest \in Nat /\ frame.chunk \in Nat /\ frame.chunk > 0
        /\ req.length \in Nat /\ filled \in Nat
    BY <2>1, FrameFields DEF TypeOK, Shape
  <2>4. IsFiniteSet(span) /\ Cardinality(span) = frame.chunk
    <3>1. /\ frame.dest + frame.chunk - 1 \in Int /\ frame.dest \in Int
          /\ ~(frame.dest > frame.dest + frame.chunk - 1)
          /\ (frame.dest + frame.chunk - 1) - frame.dest + 1 = frame.chunk
      BY <2>3
    <3> QED
      BY <3>1, FS_Interval
  <2>5. IsFiniteSet(Covered)
    <3>1. IsFiniteSet(0 .. (req.length - 1))
      BY <2>3, FS_Interval
    <3>2. Covered \in SUBSET (0 .. (req.length - 1))
      BY DEF Covered
    <3> QED
      BY <3>1, <3>2, FS_Subset
  <2>6. Disjoint(got)
    BY <2>1 DEF Disjoint
  <2>7. Cardinality(Covered) = filled
    BY <2>6 DEF Counted
  <2>8. Covered \cap span = {}
    <3> SUFFICES ASSUME NEW i \in Covered, i \in span PROVE FALSE
      OBVIOUS
    <3>1. PICK p \in got : i \in Span(p)
      BY DEF Covered
    <3>2. p[1] \in Nat /\ p[2] \in Nat /\ i \in p[1] .. (p[1] + p[2] - 1)
      BY <3>1 DEF TypeOK, Span
    <3>3. p[1] < frame.dest + frame.chunk /\ frame.dest < p[1] + p[2]
      BY <2>3, <3>2
    <3>4. new[1] = frame.dest /\ new[2] = frame.chunk
      OBVIOUS
    <3>5. Overlap(p, new)
      BY <3>3, <3>4 DEF Overlap
    <3>6. p = new
      BY <2>1, <3>1, <3>5 DEF Disjoint
    <3> QED
      BY <2>1, <3>1, <3>4, <3>6 DEF Shape
  <2>9. Cardinality(Covered \cup span) = filled + frame.chunk
    <3> HIDE DEF span
    <3>1. Cardinality(Covered \cap span) = 0
      BY <2>8, FS_EmptySet
    <3>2. Cardinality(Covered \cup span)
            = Cardinality(Covered) + Cardinality(span)
              - Cardinality(Covered \cap span)
      BY <2>4, <2>5, FS_Union
    <3> QED
      BY <2>3, <2>4, <2>7, <3>1, <3>2
  <2> QED
    BY <2>1, <2>2, <2>9
<1>4. ASSUME NEW g \in 1 .. BufLen, RecvExtra(g)
      PROVE  UNCHANGED <<req, filled, got>>
  BY <1>4 DEF RecvExtra
<1> QED
  BY <1>1, <1>2, <1>3, <1>4, QuietEffect DEF Next, Quiet

\* The inductive invariant of readinto: the buffer holds exactly what the
\* completed fragments brought, and "filled" counts their bytes.
THEOREM ReadInvariant == Spec => []ReadInv
<1>1. Init => Shape /\ BufferConfined /\ Landed /\ Counted
  <2> SUFFICES ASSUME Init PROVE Shape /\ BufferConfined /\ Landed /\ Counted
    OBVIOUS
  <2>1. Covered = {}
    BY DEF Init, Covered
  <2>2. Counted
    BY <2>1, FS_EmptySet DEF Init, Counted
  <2>3. Shape
    BY ReadConstants DEF Init, Shape
  <2>4. BufferConfined
    BY DEF Init, BufferConfined
  <2>5. Landed
    BY <2>1 DEF Init, Landed
  <2> QED
    BY <2>2, <2>3, <2>4, <2>5
<1>2. /\ TypeOK /\ TypeOK' /\ [Next]_vars
      /\ Shape /\ BufferConfined /\ Landed /\ Counted
      => (Shape /\ BufferConfined /\ Landed /\ Counted)'
  BY ShapeStep, ConfinedStep, LandedStep, CountedStep
<1> QED
  BY <1>1, <1>2, TypeCorrect, PTL DEF Spec, ReadInv

\* Whatever the server sends, no byte past the requested length is written,
\* and a decompressing read never leaves a disk byte at a wrong place.
THEOREM BufferConfinedAlways == Spec => []BufferConfined
<1>1. ReadInv => BufferConfined
  BY DEF ReadInv
<1> QED
  BY <1>1, ReadInvariant, PTL

\* Whatever the server sends, a decompressing read that returns and accepted
\* no overlapping fragments has every byte of the request in its place.
THEOREM IntegrityIfDisjoint == Spec => []ReadIntegrityIfDisjoint
<1>1. ReadInv => ReadIntegrityIfDisjoint
  <2> SUFFICES ASSUME ReadInv, Disjoint(got), pc = "returned", ~req.skip
               PROVE  \A i \in 0 .. (req.length - 1) :
                         buf[i] = DiskByte(req.offset + i)
    BY DEF ReadIntegrityIfDisjoint, ReadIntegrity, Disjoint
  <2>1. Cardinality(Covered) = filled /\ filled >= req.length
    BY DEF ReadInv, Counted, Shape
  <2>2. req.length \in Nat /\ filled \in Nat
    BY DEF ReadInv, TypeOK
  <2>3. Covered = 0 .. (req.length - 1)
    <3>1. /\ IsFiniteSet(0 .. (req.length - 1))
          /\ Cardinality(0 .. (req.length - 1)) = req.length
      <4>1. /\ 0 \in Int /\ req.length - 1 \in Int
            /\ IF 0 > req.length - 1 THEN req.length = 0
               ELSE (req.length - 1) - 0 + 1 = req.length
        BY <2>2
      <4> QED
        BY <4>1, FS_Interval
    <3>2. Covered \in SUBSET (0 .. (req.length - 1))
      BY DEF Covered
    <3>3. Cardinality(Covered) <= Cardinality(0 .. (req.length - 1))
      BY <3>1, <3>2, FS_Subset
    <3>4. Cardinality(Covered) = Cardinality(0 .. (req.length - 1))
      BY <2>1, <2>2, <3>1, <3>3
    <3> QED
      BY <3>1, <3>2, <3>4, FS_Subset
  <2> QED
    BY <2>3 DEF ReadInv, Landed
<1> QED
  BY <1>1, ReadInvariant, PTL
-----------------------------------------------------------------------------
(* The conforming server: the pieces of an answer partition the request.   *)

\* A nonempty set of naturals has a least element.
LEMMA LeastElement ==
    ASSUME NEW S \in SUBSET Nat, S # {}
    PROVE  \E m \in S : \A k \in S : m <= k
<1> DEFINE R == OpToRel(<, Nat)
<1>1. IsWellFoundedOn(R, Nat)
  BY NatLessThanWellFounded
<1>2. R = {ss \in Nat \X Nat : ss[1] < ss[2]}
  BY DEF OpToRel
<1> HIDE DEF R
<1>3. PICK m \in S : \A k \in S : <<k, m>> \notin R
  BY <1>1, WFMin
<1>4. \A k \in S : ~(k < m)
  BY <1>2, <1>3
<1> QED
  BY <1>4

\* A nonempty bounded one has a greatest.
LEMMA GreatestElement ==
    ASSUME NEW S \in SUBSET Nat, S # {}, NEW b \in Nat, \A k \in S : k <= b
    PROVE  \E m \in S : \A k \in S : k <= m
<1> DEFINE T == {b - k : k \in S}
<1>1. T \in SUBSET Nat /\ T # {}
  <2>1. \A k \in S : b - k \in Nat
    OBVIOUS
  <2>2. PICK k \in S : TRUE
    OBVIOUS
  <2>3. b - k \in T
    OBVIOUS
  <2> QED
    BY <2>1, <2>3
<1>2. PICK t \in T : \A u \in T : t <= u
  BY <1>1, LeastElement
<1>3. PICK m \in S : t = b - m
  OBVIOUS
<1>4. \A k \in S : b - m <= b - k
  BY <1>2, <1>3
<1> QED
  BY <1>4

\* Every byte of the request lies in a piece.
LEMMA PiecesCover ==
    ASSUME NEW len \in Nat, NEW C \in SUBSET (1 .. (len - 1)),
           NEW i \in 0 .. (len - 1)
    PROVE  \E p \in Pieces(len, C) : p[1] <= i /\ i < p[2]
<1> DEFINE Lo == {c \in C \cup {0} : c <= i}
           Hi == {c \in C \cup {len} : i < c}
<1>1. PICK a \in Lo : \A c \in Lo : c <= a
  <2>1. Lo \subseteq Nat /\ i \in Nat /\ \A c \in Lo : c <= i
    <3>1. C \cup {0} \subseteq Nat
      OBVIOUS
    <3>2. i \in Nat
      OBVIOUS
    <3> QED
      BY <3>1, <3>2, Zenon
  <2>2. 0 \in Lo
    OBVIOUS
  <2> QED
    BY <2>1, <2>2, GreatestElement
<1>2. PICK b \in Hi : \A c \in Hi : b <= c
  <2>1. Hi \subseteq Nat
    <3>1. C \cup {len} \subseteq Nat
      OBVIOUS
    <3> QED
      BY <3>1
  <2>2. len \in Hi
    OBVIOUS
  <2> QED
    BY <2>1, <2>2, LeastElement
<1>3. a \in C \cup {0} /\ a <= i /\ b \in C \cup {len} /\ i < b
  OBVIOUS
<1>4. \A c \in C : c <= a \/ b <= c
  BY <1>1, <1>2
<1>5. a \in Nat /\ b \in Nat /\ a < b
  BY <1>3
<1> HIDE DEF Lo, Hi
<1>6. <<a, b>> \in Pieces(len, C)
  BY <1>3, <1>4, <1>5 DEF Pieces
<1> QED
  BY <1>3, <1>6

\* A piece is a nonempty range within the request.
LEMMA PieceBounds ==
    ASSUME NEW len \in Nat, NEW C \in SUBSET (1 .. (len - 1)),
           NEW p \in Pieces(len, C)
    PROVE  /\ p[1] \in Nat /\ p[2] \in Nat /\ p = <<p[1], p[2]>>
           /\ p[1] < p[2] /\ p[2] <= len
<1>1. /\ p[1] \in C \cup {0} /\ p[2] \in C \cup {len} /\ p[1] < p[2]
      /\ p = <<p[1], p[2]>>
  BY DEF Pieces
<1>2. \A c \in C \cup {0} : c \in Nat
  OBVIOUS
<1>3. \A c \in C \cup {len} : c \in Nat /\ c <= len
  OBVIOUS
<1> QED
  BY <1>1, <1>2, <1>3, Zenon

\* Two pieces that share a byte are the same piece.
LEMMA PiecesDisjoint ==
    ASSUME NEW len \in Nat, NEW C \in SUBSET (1 .. (len - 1)),
           NEW p \in Pieces(len, C), NEW q \in Pieces(len, C),
           p[1] < q[2], q[1] < p[2]
    PROVE  p = q
<1>1. /\ p[1] \in Nat /\ p[2] \in Nat /\ p = <<p[1], p[2]>>
      /\ p[1] < p[2] /\ p[2] <= len
      /\ q[1] \in Nat /\ q[2] \in Nat /\ q = <<q[1], q[2]>>
      /\ q[1] < q[2] /\ q[2] <= len
  BY PieceBounds
<1>2. /\ p[1] \in C \cup {0} /\ p[2] \in C \cup {len}
      /\ q[1] \in C \cup {0} /\ q[2] \in C \cup {len}
  BY DEF Pieces
<1>3. /\ \A c \in C : c <= p[1] \/ p[2] <= c
      /\ \A c \in C : c <= q[1] \/ q[2] <= c
  BY DEF Pieces
<1>4. p[1] <= q[1]
  BY <1>1, <1>2, <1>3
<1>5. q[1] <= p[1]
  BY <1>1, <1>2, <1>3
<1>6. p[2] <= q[2]
  BY <1>1, <1>2, <1>3
<1>7. q[2] <= p[2]
  BY <1>1, <1>2, <1>3
<1>8. p[1] = q[1] /\ p[2] = q[2]
  BY <1>1, <1>4, <1>5, <1>6, <1>7
<1> QED
  BY <1>1, <1>8, Zenon

Extent(f) == <<f.dest, f.chunk>>

\* So do the frames of an answer.
LEMMA AnswerPartitions ==
    ASSUME NEW len \in Nat, NEW C \in Cuts(len), NEW z \in Sizings(len, C)
    PROVE  LET S == Answer(len, C, z) IN
           /\ \A f \in S : f.chunk > 0 /\ f.dest + f.chunk <= len
           /\ \A f, g \in S : Overlap(Extent(f), Extent(g)) => f = g
           /\ \A i \in 0 .. (len - 1) : \E f \in S : i \in Span(Extent(f))
<1> DEFINE S == Answer(len, C, z)
<1>1. C \in SUBSET (1 .. (len - 1))
  BY DEF Cuts
<1>2. ASSUME NEW f \in S
      PROVE  \E p \in Pieces(len, C) :
                /\ f = ReplyFrame(p, z[p])
                /\ p[1] \in Nat /\ p[2] \in Nat /\ p[1] < p[2] /\ p[2] <= len
                /\ f.dest = p[1] /\ f.chunk = p[2] - p[1]
  <2>1. PICK p \in Pieces(len, C) : f = ReplyFrame(p, z[p])
    BY <1>2 DEF Answer
  <2>2. p[1] \in Nat /\ p[2] \in Nat /\ p[1] < p[2] /\ p[2] <= len
    BY <1>1, PieceBounds
  <2>3. f.dest = p[1] /\ f.chunk = p[2] - p[1]
    BY <2>1 DEF ReplyFrame
  <2> QED
    BY <2>1, <2>2, <2>3
<1>3. \A f \in S : f.chunk > 0 /\ f.dest + f.chunk <= len
  BY <1>2
<1>4. ASSUME NEW f \in S, NEW g \in S, Overlap(Extent(f), Extent(g))
      PROVE  f = g
  <2>1. PICK p \in Pieces(len, C) :
                /\ f = ReplyFrame(p, z[p])
                /\ p[1] \in Nat /\ p[2] \in Nat /\ p[1] < p[2] /\ p[2] <= len
                /\ f.dest = p[1] /\ f.chunk = p[2] - p[1]
    BY <1>2
  <2>2. PICK q \in Pieces(len, C) :
                /\ g = ReplyFrame(q, z[q])
                /\ q[1] \in Nat /\ q[2] \in Nat /\ q[1] < q[2] /\ q[2] <= len
                /\ g.dest = q[1] /\ g.chunk = q[2] - q[1]
    BY <1>2
  <2>3. f.dest < g.dest + g.chunk /\ g.dest < f.dest + f.chunk
    BY <1>4 DEF Overlap, Extent
  <2>4. p[1] < q[2] /\ q[1] < p[2]
    BY <2>1, <2>2, <2>3
  <2>5. p = q
    BY <1>1, <2>4, PiecesDisjoint
  <2> QED
    BY <2>1, <2>2, <2>5
<1>5. ASSUME NEW i \in 0 .. (len - 1)
      PROVE  \E f \in S : i \in Span(Extent(f))
  <2>1. PICK p \in Pieces(len, C) : p[1] <= i /\ i < p[2]
    BY <1>1, PiecesCover
  <2>2. p[1] \in Nat /\ p[2] \in Nat
    BY <1>1, PieceBounds
  <2>3. ReplyFrame(p, z[p]) \in S
    BY DEF Answer
  <2>4. Extent(ReplyFrame(p, z[p])) = <<p[1], p[2] - p[1]>>
    BY DEF ReplyFrame, Extent
  <2>5. i \in Span(<<p[1], p[2] - p[1]>>)
    BY <2>1, <2>2 DEF Span
  <2> QED
    BY <2>3, <2>4, <2>5
<1> QED
  BY <1>3, <1>4, <1>5

\* While the server conforms, the fragments accepted, the one being received
\* and those still owed are pairwise disjoint and make up the request.
Planned ==
    /\ \A f \in owed : f.chunk > 0 /\ f.dest + f.chunk <= req.length
    /\ \A f, g \in owed : Overlap(Extent(f), Extent(g)) => f = g
    /\ \A f \in owed, p \in got : ~Overlap(Extent(f), p)
    /\ Disjoint(got)
    /\ pc \in {"body", "extra"} =>
          /\ \A f \in owed : ~Overlap(Extent(f), Extent(frame))
          /\ \A p \in got : ~Overlap(Extent(frame), p)
    /\ pc # "raised" =>
          \A i \in 0 .. (req.length - 1) :
              \/ i \in Covered
              \/ \E f \in owed : i \in Span(Extent(f))
              \/ pc \in {"body", "extra"} /\ i \in Span(Extent(frame))

\* Overlap is symmetric.
LEMMA OverlapSymmetric ==
    ASSUME NEW p, NEW q
    PROVE  Overlap(p, q) <=> Overlap(q, p)
  BY DEF Overlap

\* Planned is preserved by every step of a conforming server and readinto.
LEMMA PlannedStep ==
    ASSUME LooseFrames = {}
    PROVE  TypeOK /\ Shape /\ Planned /\ [Next]_vars => Planned'
<1> SUFFICES ASSUME TypeOK, Shape, Planned, [Next]_vars PROVE Planned'
  OBVIOUS
<1>1. ASSUME UNCHANGED <<req, owed, frame, got>>,
             \/ pc' = "raised"
             \/ pc' = pc
             \/ pc = "body" /\ pc' = "extra"
      PROVE  Planned'
  <2>1. Covered' = Covered
    BY <1>1, CoveredUnchanged
  <2> QED
    BY <1>1, <2>1 DEF Planned, Disjoint, Extent, Overlap, Span
<1>2. ASSUME NEW start \in Starts, NEW num \in Counts, NEW flag \in BOOLEAN,
             ReadInto(start, num, flag)
      PROVE  Planned'
  <2> DEFINE len == num * SectorSize
  <2>1. start \in Int /\ num \in Int
    BY ReadConstants
  <2>2. len \in Nat
    BY <1>2, <2>1, AcceptedRequest DEF ReadInto
  <2>3. PICK C \in Cuts(len) :
            \E z \in Sizings(len, C) : owed' = Answer(len, C, z)
    BY <1>2 DEF ReadInto
  <2>4. pc = "idle" /\ pc' = "hdr" /\ got' = got /\ req'.length = len
    BY <1>2 DEF ReadInto
  <2>5. got' = {}
    BY <2>4 DEF Shape
  <2> HIDE DEF len
  <2>6. /\ \A f \in owed' : f.chunk > 0 /\ f.dest + f.chunk <= len
        /\ \A f, g \in owed' : Overlap(Extent(f), Extent(g)) => f = g
        /\ \A i \in 0 .. (len - 1) : \E f \in owed' : i \in Span(Extent(f))
    <3>1. PICK z \in Sizings(len, C) : owed' = Answer(len, C, z)
      BY <2>3
    <3> QED
      BY <2>2, <3>1, AnswerPartitions
  <2> QED
    BY <2>4, <2>5, <2>6 DEF Planned, Disjoint, Extent, Overlap, Span
<1>3. CASE RecvHeader
  <2>1. PICK f \in owed : frame' = f /\ owed' = owed \ {f}
    BY <1>3 DEF RecvHeader
  <2>2. pc = "hdr" /\ pc' \in {"body", "raised"} /\ UNCHANGED <<req, got>>
    BY <1>3 DEF RecvHeader, Raise
  <2>3. Covered' = Covered
    BY <2>2, CoveredUnchanged
  <2>4. \A g \in owed' : ~Overlap(Extent(g), Extent(f))
    BY <2>1 DEF Planned
  <2>5. \A p \in got : ~Overlap(Extent(f), p)
    BY DEF Planned
  <2>6. \A i \in 0 .. (req.length - 1) :
            \/ i \in Covered
            \/ \E g \in owed' : i \in Span(Extent(g))
            \/ i \in Span(Extent(f))
    BY <2>1, <2>2 DEF Planned
  <2>7. Extent(frame)' = Extent(f)
    BY <2>1 DEF Extent
  <2>8. /\ \A g \in owed' : g.chunk > 0 /\ g.dest + g.chunk <= req.length
        /\ \A g, h \in owed' : Overlap(Extent(g), Extent(h)) => g = h
        /\ \A g \in owed', p \in got : ~Overlap(Extent(g), p)
    BY <2>1 DEF Planned
  <2> QED
    BY <2>1, <2>2, <2>3, <2>4, <2>5, <2>6, <2>7, <2>8
    DEF Planned, Disjoint, Extent, Overlap, Span
<1>4. CASE FinishFragment
  <2> DEFINE new == Extent(frame)
  <2>1. /\ pc = "extra" /\ pc' \in {"hdr", "returned"}
        /\ got' = got \cup {new} /\ UNCHANGED <<req, owed>>
    BY <1>4, FinishEffect DEF Extent
  <2>2. Covered' = Covered \cup Span(new)
    BY <1>4, FinishCovers DEF Extent
  <2>3. /\ \A f \in owed : ~Overlap(Extent(f), new)
        /\ \A p \in got : ~Overlap(new, p) /\ ~Overlap(p, new)
    BY <2>1, OverlapSymmetric DEF Planned
  <2> HIDE DEF new
  <2>4. Disjoint(got')
    <3>1. Disjoint(got)
      BY DEF Planned
    <3> QED
      BY <2>1, <2>3, <3>1, Zenon DEF Disjoint
  <2>5. \A f \in owed, p \in got' : ~Overlap(Extent(f), p)
    BY <2>1, <2>3 DEF Planned
  <2>6. \A i \in 0 .. (req.length - 1) :
            i \in Covered' \/ \E f \in owed : i \in Span(Extent(f))
    BY <2>1, <2>2 DEF Planned, new
  <2> QED
    BY <2>1, <2>4, <2>5, <2>6 DEF Planned, Disjoint, Extent, Overlap, Span
<1>5. ASSUME NEW start \in Starts, NEW num \in Counts, NEW flag \in BOOLEAN,
             ReadRejected(start, num, flag)
      PROVE  Planned'
  BY <1>1, <1>5 DEF ReadRejected, Raise
<1>6. CASE RecvBody \/ DecompressError \/ RecvFails \/ UNCHANGED vars
  BY <1>1, <1>6 DEF RecvBody, DecompressError, RecvFails, Raise, vars
<1>7. ASSUME NEW g \in 1 .. BufLen, RecvExtra(g) PROVE Planned'
  BY <1>1, <1>7 DEF RecvExtra
<1> QED
  BY <1>2, <1>3, <1>4, <1>5, <1>6, <1>7 DEF Next

\* Hence it always holds with a conforming server.
LEMMA PlannedAlways ==
    ASSUME LooseFrames = {}
    PROVE  Spec => []Planned
<1>1. Init => Planned
  BY DEF Init, Planned, Disjoint, Covered
<1>2. ReadInv /\ Planned /\ [Next]_vars => Planned'
  BY PlannedStep DEF ReadInv
<1> QED
  BY <1>1, <1>2, ReadInvariant, PTL DEF Spec

\* A decompressing read from a conforming server returns exactly the bytes of
\* the disk, however the answer is cut, compressed and ordered.
THEOREM ConformingIntegrity ==
    ASSUME LooseFrames = {}
    PROVE  Spec => []ReadIntegrity
<1>1. Planned /\ ReadIntegrityIfDisjoint => ReadIntegrity
  BY DEF Planned, ReadIntegrityIfDisjoint, Disjoint
<1> QED
  BY <1>1, PlannedAlways, IntegrityIfDisjoint, PTL

\* With a conforming server, the loop waits only for fragments that are on
\* their way, and leaves none behind when it returns.
THEOREM AskedForAllAlways == Spec => []AskedForAll
<1>1. CASE LooseFrames = {}
  <2>1. ReadInv /\ Planned => AskedForAll
    <3> SUFFICES ASSUME ReadInv, Planned PROVE AskedForAll
      OBVIOUS
    <3>1. /\ Cardinality(Covered) = filled /\ req.length \in Nat
          /\ filled \in Nat
      BY DEF ReadInv, Counted, Planned, TypeOK
    <3>2. /\ IsFiniteSet(0 .. (req.length - 1))
          /\ Cardinality(0 .. (req.length - 1)) = req.length
      <4>1. /\ 0 \in Int /\ req.length - 1 \in Int
            /\ IF 0 > req.length - 1 THEN req.length = 0
               ELSE (req.length - 1) - 0 + 1 = req.length
        BY <3>1
      <4> QED
        BY <4>1, FS_Interval
    <3>3. Covered \in SUBSET (0 .. (req.length - 1))
      BY DEF Covered
    <3>4. pc = "hdr" => owed # {}
      <4> SUFFICES ASSUME pc = "hdr", owed = {} PROVE FALSE
        OBVIOUS
      <4>1. Covered = 0 .. (req.length - 1)
        BY <3>3 DEF Planned
      <4> QED
        BY <3>1, <3>2, <4>1 DEF ReadInv, Shape
    <3>5. pc = "returned" => owed = {}
      <4> SUFFICES ASSUME pc = "returned", NEW f \in owed PROVE FALSE
        OBVIOUS
      <4>1. Cardinality(Covered) <= req.length /\ filled >= req.length
        BY <3>2, <3>3, FS_Subset DEF ReadInv, Shape
      <4>2. Covered = 0 .. (req.length - 1)
        <5>1. Cardinality(0 .. (req.length - 1)) = Cardinality(Covered)
          BY <3>1, <3>2, <4>1
        <5> QED
          BY <3>2, <3>3, <5>1, FS_Subset
      <4>3. /\ f.dest \in Nat /\ f.chunk \in Nat /\ f.chunk > 0
            /\ f.dest + f.chunk <= req.length
        <5>1. f \in Frame
          BY DEF ReadInv, TypeOK
        <5> QED
          BY <5>1, FrameFields DEF Planned
      <4>4. f.dest \in Covered
        BY <3>1, <4>2, <4>3
      <4>5. PICK p \in got : f.dest \in Span(p)
        BY <4>4 DEF Covered
      <4>6. p[1] \in Nat /\ p[2] \in Nat
        BY DEF ReadInv, TypeOK
      <4>7. f.dest < p[1] + p[2] /\ p[1] < f.dest + f.chunk
        BY <4>3, <4>5, <4>6 DEF Span
      <4>8. Overlap(Extent(f), p)
        BY <4>7 DEF Overlap, Extent
      <4> QED
        BY <4>8 DEF Planned
    <3> QED
      BY <3>4, <3>5 DEF AskedForAll
  <2> QED
    BY <1>1, <2>1, ReadInvariant, PlannedAlways, PTL
<1>2. CASE LooseFrames # {}
  <2>1. AskedForAll
    BY <1>2 DEF AskedForAll
  <2> QED
    BY <2>1, PTL
<1> QED
  BY <1>1, <1>2
-----------------------------------------------------------------------------
(* A packing read: skip_decompression.                                     *)

\* A conforming server is honest about its frames: an extra is no longer than
\* what it decompresses to, and that is what the header says.
Honest(f) ==
    /\ f.ctype \in {NFC_COMPRESSION_NONE, NFC_COMPRESSION_FASTLZ}
    /\ f.ulen = f.chunk /\ ExtraLen(f) <= f.chunk
    /\ Compression = NFC_COMPRESSION_NONE => f.ctype = NFC_COMPRESSION_NONE

\* Byte k of the extra that entry r of the fragment table describes.
EntryByte(r, k) ==
    IF r.compression_type = NFC_COMPRESSION_FASTLZ
    THEN LzByte(req.offset + r.dest, r.uncompressed_length, r.length, k)
    ELSE DiskByte(req.offset + r.dest + k)

\* The extra is there, complete, in the packed part of the buffer.
Entry(r) ==
    /\ r.compression_type \in {NFC_COMPRESSION_NONE, NFC_COMPRESSION_FASTLZ}
    /\ r.length > 0 /\ r.offset + r.length <= packed_offset
    /\ r.compression_type = NFC_COMPRESSION_NONE => r.length = r.uncompressed_length
    /\ \A k \in 0 .. (r.length - 1) : buf[r.offset + k] = EntryByte(r, k)

\* The accounting of the loop, for a conforming server.
Accounted ==
    /\ \A f \in owed : Honest(f)
    /\ pc \in {"body", "extra"} => Honest(frame)
    /\ pc = "extra" => ExtraLen(frame) > 0
    /\ pc = "idle" => fragments = <<>> /\ packed_offset = 0 /\ wire_bytes = 0
    /\ wire_bytes <= filled
    /\ Compression = NFC_COMPRESSION_NONE => wire_bytes = filled
    /\ req.skip => packed_offset = wire_bytes

\* The fragment table tells of every completed fragment, and what has come of
\* the next extra stands behind the packed ones.
Packed ==
    req.skip =>
        /\ \A j \in 1 .. Len(fragments) : Entry(fragments[j])
        /\ \A p \in got : \E j \in 1 .. Len(fragments) :
              /\ fragments[j].dest = p[1]
              /\ fragments[j].uncompressed_length = p[2]
        /\ pc = "extra" =>
              \A k \in 0 .. (have - 1) : buf[packed_offset + k] = FrameByte(frame, k)

\* The frames of an answer are honest.
LEMMA HonestAnswer ==
    ASSUME NEW len \in Nat, NEW C \in Cuts(len), NEW z \in Sizings(len, C)
    PROVE  \A f \in Answer(len, C, z) : Honest(f)
<1> SUFFICES ASSUME NEW p \in Pieces(len, C) PROVE Honest(ReplyFrame(p, z[p]))
  BY DEF Answer
<1>1. PICK c : c = z[p]
  OBVIOUS
<1>2. p[1] \in Nat /\ p[2] \in Nat /\ p[1] < p[2]
  <2>1. C \in SUBSET (1 .. (len - 1))
    BY DEF Cuts
  <2> QED BY <2>1, PieceBounds
<1>3. /\ c \in Nat /\ c <= p[2] - p[1]
      /\ c # 0 => Compression = NFC_COMPRESSION_FASTLZ
  <2>1. c \in WireSizes(p) /\ c \in 0 .. len
    BY <1>1 DEF Sizings
  <2>2. CASE c = 0
    BY <1>2, <2>2
  <2>3. CASE c # 0
    BY <1>2, <2>1, <2>3 DEF WireSizes
  <2> QED BY <2>2, <2>3
<1>4. /\ ReplyFrame(p, c).chunk = p[2] - p[1] /\ ReplyFrame(p, c).ulen = p[2] - p[1]
      /\ ReplyFrame(p, c).ctype = IF c = 0 THEN NFC_COMPRESSION_NONE
                                  ELSE NFC_COMPRESSION_FASTLZ
      /\ ReplyFrame(p, c).clen = IF c = 0 THEN p[2] - p[1] ELSE c
  BY DEF ReplyFrame
<1>5. Honest(ReplyFrame(p, c))
  BY <1>2, <1>3, <1>4
  DEF Honest, ExtraLen, NFC_COMPRESSION_NONE, NFC_COMPRESSION_FASTLZ
<1> QED BY <1>1, <1>5

LEMMA AccountedStep ==
    ASSUME LooseFrames = {}
    PROVE  TypeOK /\ Shape /\ Accounted /\ [Next]_vars => Accounted'
<1> SUFFICES ASSUME TypeOK, Shape, Accounted, [Next]_vars PROVE Accounted'
  OBVIOUS
<1>1. ASSUME UNCHANGED <<req, frame, filled, wire_bytes, packed_offset, fragments>>,
             owed' \subseteq owed, pc' = pc \/ pc' = "raised"
      PROVE  Accounted'
  BY <1>1 DEF Accounted, Honest, ExtraLen
<1>2. ASSUME NEW start \in Starts, NEW num \in Counts, NEW flag \in BOOLEAN,
             ReadInto(start, num, flag)
      PROVE  Accounted'
  <2> DEFINE len == num * SectorSize
  <2>1. start \in Int /\ num \in Int
    BY ReadConstants
  <2>2. len \in Nat
    BY <1>2, <2>1, AcceptedRequest DEF ReadInto
  <2>3. \E C \in Cuts(len) : \E z \in Sizings(len, C) : owed' = Answer(len, C, z)
    BY <1>2 DEF ReadInto
  <2>4. pc = "idle" /\ pc' = "hdr"
        /\ UNCHANGED <<filled, wire_bytes, packed_offset, fragments>>
    BY <1>2 DEF ReadInto
  <2> HIDE DEF len
  <2>5. \A f \in owed' : Honest(f)
    BY <2>2, <2>3, HonestAnswer
  <2> QED
    BY <2>4, <2>5 DEF Accounted, Honest, ExtraLen
<1>3. CASE RecvHeader
  <2>1. PICK f \in owed : frame' = f /\ owed' = owed \ {f}
    BY <1>3 DEF RecvHeader
  <2>2. /\ pc' \in {"body", "raised"}
        /\ UNCHANGED <<req, filled, wire_bytes, packed_offset, fragments>>
    BY <1>3 DEF RecvHeader, Raise
  <2> QED
    BY <2>1, <2>2 DEF Accounted, Honest, ExtraLen
<1>4. CASE RecvBody
  <2>1. CASE BodyError(frame) = "none"
    <3>1. /\ pc = "body" /\ pc' = "extra"
          /\ UNCHANGED <<req, owed, frame, filled, wire_bytes, packed_offset, fragments>>
      BY <1>4, <2>1 DEF RecvBody
    <3>2. ExtraLen(frame) > 0
      BY <2>1, AcceptedBody
    <3> QED
      BY <3>1, <3>2 DEF Accounted, Honest, ExtraLen
  <2>2. CASE BodyError(frame) # "none"
    BY <1>1, <1>4, <2>2 DEF RecvBody, Raise
  <2> QED
    BY <2>1, <2>2
<1>5. CASE FinishFragment
  <2>1. /\ pc = "extra" /\ pc' \in {"hdr", "returned"} /\ UNCHANGED <<req, owed>>
        /\ filled' = filled + frame.chunk /\ wire_bytes' = wire_bytes + ExtraLen(frame)
        /\ req.skip => packed_offset' = packed_offset + ExtraLen(frame)
    BY <1>5 DEF FinishFragment, FilledAfter, PackedAfter
  <2>2. /\ frame.chunk \in Nat /\ ExtraLen(frame) \in Nat
        /\ filled \in Nat /\ wire_bytes \in Nat
    BY FrameFields DEF TypeOK
  <2>3. Honest(frame)
    BY <2>1 DEF Accounted
  <2>4. wire_bytes' <= filled'
    BY <2>1, <2>2, <2>3 DEF Accounted, Honest
  <2>5. Compression = NFC_COMPRESSION_NONE => wire_bytes' = filled'
    BY <2>1, <2>2, <2>3
    DEF Accounted, Honest, ExtraLen, NFC_COMPRESSION_NONE, NFC_COMPRESSION_FASTLZ
  <2>6. req.skip => packed_offset' = wire_bytes'
    BY <2>1 DEF Accounted
  <2> QED
    BY <2>1, <2>4, <2>5, <2>6 DEF Accounted, Honest, ExtraLen
<1>6. ASSUME NEW start \in Starts, NEW num \in Counts, NEW flag \in BOOLEAN,
             ReadRejected(start, num, flag)
      PROVE  Accounted'
  BY <1>1, <1>6 DEF ReadRejected, Raise
<1>7. CASE DecompressError \/ RecvFails \/ UNCHANGED vars
  BY <1>1, <1>7 DEF DecompressError, RecvFails, Raise, vars
<1>8. ASSUME NEW g \in 1 .. BufLen, RecvExtra(g) PROVE Accounted'
  BY <1>1, <1>8 DEF RecvExtra
<1> QED
  BY <1>2, <1>3, <1>4, <1>5, <1>6, <1>7, <1>8 DEF Next

\* What is packed is not overwritten by the extras that follow.
LEMMA PackedStep ==
    TypeOK /\ TypeOK' /\ Shape /\ Accounted /\ Packed /\ [Next]_vars => Packed'
<1> SUFFICES ASSUME TypeOK, TypeOK', Shape, Accounted, Packed, [Next]_vars, req'.skip
             PROVE  Packed'
  BY DEF Packed
<1>0. /\ fragments \in Seq(ReadFragment) /\ Len(fragments) \in Nat
      /\ packed_offset \in Nat /\ have \in Nat /\ req.length \in Nat
      /\ BufLen \in Nat /\ req.length <= BufLen
  BY ReadConstants DEF TypeOK, Shape
<1>1. ASSUME NEW j \in 1 .. Len(fragments)
      PROVE  /\ fragments[j].offset \in Nat /\ fragments[j].length \in Nat
             /\ fragments[j].dest \in Nat /\ fragments[j].uncompressed_length \in Nat
  <2>1. fragments[j] \in ReadFragment
    BY <1>0
  <2> QED BY <2>1 DEF ReadFragment
<1>2. ASSUME UNCHANGED <<req, buf, got, fragments, packed_offset>>,
             pc' = "extra" => have' = 0 \/ UNCHANGED <<pc, frame, have>>
      PROVE  Packed'
  <2>1. CASE pc' = "extra" /\ UNCHANGED <<pc, frame, have>>
    BY <1>2, <2>1 DEF Packed, Entry, EntryByte, FrameByte
  <2>2. CASE pc' # "extra"
    BY <1>2, <2>2 DEF Packed, Entry, EntryByte
  <2>3. CASE have' = 0
    <3>1. 0 .. (have' - 1) = {}
      BY <2>3
    <3> QED
      BY <1>2, <3>1 DEF Packed, Entry, EntryByte
  <2> QED BY <1>2, <2>1, <2>2, <2>3
<1>3. CASE Quiet
  <2>1. UNCHANGED <<fragments, packed_offset>>
    BY <1>3 DEF Quiet, ReadRejected, RecvHeader, RecvBody, DecompressError, RecvFails,
                Raise, vars
  <2> QED BY <1>2, <1>3, <2>1, QuietEffect
<1>4. ASSUME NEW start \in Starts, NEW num \in Counts, NEW flag \in BOOLEAN,
             ReadInto(start, num, flag)
      PROVE  Packed'
  <2>1. pc = "idle" /\ pc' = "hdr" /\ UNCHANGED <<got, fragments>>
    BY <1>4 DEF ReadInto
  <2>2. got' = {} /\ fragments' = <<>>
    BY <2>1 DEF Shape, Accounted
  <2>3. 1 .. Len(fragments') = {}
    BY <2>2
  <2> QED BY <2>1, <2>2, <2>3 DEF Packed
<1>5. ASSUME NEW g \in 1 .. BufLen, RecvExtra(g) PROVE Packed'
  <2>1. /\ pc = "extra" /\ have' = have + g /\ have + g <= ExtraLen(frame)
        /\ UNCHANGED <<pc, req, frame, got, fragments, packed_offset>> /\ req.skip
    BY <1>5 DEF RecvExtra
  <2>2. /\ ExtraLen(frame) \in Nat /\ packed_offset + ExtraLen(frame) <= req.length
    BY <2>1, FrameFields DEF TypeOK, Shape
  <2>3. \A i \in 0 .. (BufLen - 1) :
            buf'[i] = IF packed_offset + have <= i /\ i < packed_offset + have + g
                      THEN FrameByte(frame, i - packed_offset) ELSE buf[i]
    BY <1>5, <2>1 DEF RecvExtra, Direct, Target
  <2>4. ASSUME NEW j \in 1 .. Len(fragments) PROVE Entry(fragments[j])'
    <3>1. PICK r : r = fragments[j]
      OBVIOUS
    <3>2. /\ Entry(r) /\ r.offset \in Nat /\ r.length \in Nat
      BY <1>1, <2>1, <3>1 DEF Packed
    <3>3. ASSUME NEW k \in 0 .. (r.length - 1)
          PROVE  buf'[r.offset + k] = EntryByte(r, k)
      <4>1. r.offset + r.length <= packed_offset
        BY <3>2 DEF Entry
      <4>2. k \in Nat /\ r.offset + k < packed_offset /\ packed_offset <= BufLen
        <5>1. k \in Nat /\ r.offset + k < r.offset + r.length
          BY <3>2
        <5>2. packed_offset <= BufLen
          BY <1>0, <2>2
        <5> QED BY <1>0, <3>2, <4>1, <5>1, <5>2
      <4>3. /\ r.offset + k \in 0 .. (BufLen - 1)
            /\ ~(packed_offset + have <= r.offset + k)
        BY <1>0, <3>2, <4>2
      <4>4. buf'[r.offset + k] = buf[r.offset + k]
        BY <2>3, <4>3
      <4> QED BY <3>2, <4>4 DEF Entry
    <3>4. /\ r.compression_type \in {NFC_COMPRESSION_NONE, NFC_COMPRESSION_FASTLZ}
          /\ r.length > 0 /\ r.offset + r.length <= packed_offset'
          /\ r.compression_type = NFC_COMPRESSION_NONE
                => r.length = r.uncompressed_length
      BY <2>1, <3>2 DEF Entry
    <3> QED BY <2>1, <3>1, <3>3, <3>4 DEF Entry, EntryByte
  <2>5. ASSUME NEW k \in 0 .. (have' - 1)
        PROVE  buf'[packed_offset + k] = FrameByte(frame, k)
    <3>1. k \in Nat /\ k < have + g /\ packed_offset + k \in 0 .. (BufLen - 1)
      BY <1>0, <2>1, <2>2
    <3>2. CASE k < have
      <4>1. k \in 0 .. (have - 1) /\ ~(packed_offset + have <= packed_offset + k)
        BY <1>0, <3>1, <3>2
      <4>2. buf'[packed_offset + k] = buf[packed_offset + k]
        BY <2>3, <3>1, <4>1
      <4> QED BY <2>1, <4>1, <4>2 DEF Packed
    <3>3. CASE ~(k < have)
      <4>1. /\ packed_offset + have <= packed_offset + k
            /\ packed_offset + k < packed_offset + have + g
            /\ (packed_offset + k) - packed_offset = k
        BY <1>0, <3>1, <3>3
      <4> QED BY <2>3, <3>1, <4>1
    <3> QED BY <3>2, <3>3
  <2>6. \A k \in 0 .. (have' - 1) : buf'[packed_offset' + k] = FrameByte(frame, k)'
    BY <2>1, <2>5 DEF FrameByte
  <2>7. \A p \in got' : \E j \in 1 .. Len(fragments') :
            fragments'[j].dest = p[1] /\ fragments'[j].uncompressed_length = p[2]
    BY <2>1 DEF Packed
  <2>8. \A j \in 1 .. Len(fragments') : Entry(fragments[j])'
    BY <2>1, <2>4
  <2> QED BY <2>6, <2>7, <2>8 DEF Packed
<1>6. CASE FinishFragment
  <2>1. /\ pc = "extra" /\ pc' # "extra" /\ have = ExtraLen(frame) /\ req' = req
        /\ got' = got \cup {<<frame.dest, frame.chunk>>} /\ req.skip
    BY <1>6, FinishEffect DEF FinishFragment
  <2>2. PICK r : r = [dest |-> frame.dest, uncompressed_length |-> frame.chunk,
                      compression_type |-> frame.ctype, offset |-> packed_offset,
                      length |-> ExtraLen(frame)]
    OBVIOUS
  <2>3. /\ fragments' = Append(fragments, r)
        /\ packed_offset' = packed_offset + ExtraLen(frame)
    BY <1>6, <2>1, <2>2 DEF FinishFragment, PackedAfter
  <2>4. /\ frame.dest \in Nat /\ frame.chunk \in Nat /\ ExtraLen(frame) \in Nat
        /\ frame.ctype \in Nat /\ ExtraLen(frame) > 0 /\ Honest(frame)
        /\ packed_offset + ExtraLen(frame) <= req.length
    BY <2>1, FrameFields DEF TypeOK, Shape, Accounted
  <2>5. \A i \in 0 .. (BufLen - 1) : buf'[i] = buf[i]
    BY <1>6, <2>1 DEF FinishFragment, Direct
  <2>6. /\ r.dest = frame.dest /\ r.uncompressed_length = frame.chunk
        /\ r.compression_type = frame.ctype /\ r.offset = packed_offset
        /\ r.length = ExtraLen(frame) /\ r \in ReadFragment
    BY <1>0, <2>2, <2>4 DEF ReadFragment
  <2>7. /\ Len(fragments') = Len(fragments) + 1
        /\ \A j \in 1 .. Len(fragments) : fragments'[j] = fragments[j]
        /\ fragments'[Len(fragments) + 1] = r
    BY <1>0, <2>3, <2>6
  <2>8. ASSUME NEW s \in ReadFragment, Entry(s) PROVE Entry(s)'
    <3>1. /\ s.offset \in Nat /\ s.length \in Nat
          /\ s.offset + s.length <= packed_offset
      BY <2>8 DEF ReadFragment, Entry
    <3>2. s.offset + s.length <= packed_offset'
      BY <1>0, <2>3, <2>4, <3>1
    <3>3. ASSUME NEW k \in 0 .. (s.length - 1)
          PROVE  buf'[s.offset + k] = EntryByte(s, k)
      <4>1. s.offset + k \in 0 .. (BufLen - 1)
        <5>1. k \in Nat /\ s.offset + k < s.offset + s.length
          BY <3>1
        <5>2. packed_offset <= BufLen
          BY <1>0, <2>4
        <5> QED BY <1>0, <3>1, <5>1, <5>2
      <4> QED BY <2>5, <2>8, <4>1 DEF Entry
    <3> QED BY <2>1, <2>8, <3>2, <3>3 DEF Entry, EntryByte
  <2>9. Entry(r)'
    <3>1. /\ r.compression_type \in {NFC_COMPRESSION_NONE, NFC_COMPRESSION_FASTLZ}
          /\ r.length > 0
          /\ r.compression_type = NFC_COMPRESSION_NONE
                => r.length = r.uncompressed_length
      BY <2>4, <2>6
      DEF Honest, ExtraLen, NFC_COMPRESSION_NONE, NFC_COMPRESSION_FASTLZ
    <3>2. r.offset + r.length <= packed_offset'
      BY <1>0, <2>3, <2>4, <2>6
    <3>3. ASSUME NEW k \in 0 .. (r.length - 1)
          PROVE  buf'[r.offset + k] = EntryByte(r, k)
      <4>1. packed_offset + k \in 0 .. (BufLen - 1) /\ k \in 0 .. (have - 1)
        BY <1>0, <2>1, <2>4, <2>6
      <4>2. buf'[packed_offset + k] = FrameByte(frame, k)
        BY <2>1, <2>5, <4>1 DEF Packed
      <4>3. FrameByte(frame, k) = EntryByte(r, k)
        BY <2>4, <2>6 DEF FrameByte, EntryByte, Honest, ExtraLen
      <4> QED BY <2>6, <4>2, <4>3
    <3> QED BY <2>1, <3>1, <3>2, <3>3 DEF Entry, EntryByte
  <2>10. ASSUME NEW j \in 1 .. Len(fragments') PROVE Entry(fragments[j])'
    <3>1. CASE j = Len(fragments) + 1
      BY <2>7, <2>9, <3>1 DEF Entry, EntryByte
    <3>2. CASE j # Len(fragments) + 1
      <4>1. j \in 1 .. Len(fragments)
        BY <1>0, <2>7, <3>2
      <4>2. Entry(fragments[j]) /\ fragments[j] \in ReadFragment
        BY <1>0, <2>1, <4>1 DEF Packed
      <4>3. PICK s \in ReadFragment : s = fragments[j] /\ Entry(s)'
        BY <2>8, <4>2
      <4> QED BY <2>7, <4>1, <4>3 DEF Entry, EntryByte
    <3> QED BY <3>1, <3>2
  <2>11. ASSUME NEW p \in got'
         PROVE  \E j \in 1 .. Len(fragments') :
                   fragments'[j].dest = p[1] /\ fragments'[j].uncompressed_length = p[2]
    <3>1. CASE p = <<frame.dest, frame.chunk>>
      <4>1. Len(fragments) + 1 \in 1 .. Len(fragments')
        BY <1>0, <2>7
      <4>2. p[1] = frame.dest /\ p[2] = frame.chunk
        BY <3>1
      <4> QED BY <2>6, <2>7, <4>1, <4>2
    <3>2. CASE p \in got
      <4>1. PICK j \in 1 .. Len(fragments) :
                fragments[j].dest = p[1] /\ fragments[j].uncompressed_length = p[2]
        BY <2>1, <3>2 DEF Packed
      <4>2. j \in 1 .. Len(fragments') /\ fragments'[j] = fragments[j]
        BY <1>0, <2>7
      <4> QED BY <4>1, <4>2
    <3> QED BY <2>1, <3>1, <3>2
  <2> QED BY <2>1, <2>10, <2>11 DEF Packed
<1> QED
  BY <1>3, <1>4, <1>5, <1>6 DEF Next, Quiet

\* The invariant of a read from a conforming server.
ConformingInv == ReadInv /\ Planned /\ Accounted /\ Packed

LEMMA ConformingInvAlways ==
    ASSUME LooseFrames = {}
    PROVE  Spec => []ConformingInv
<1>1. Init => Accounted /\ Packed
  <2> SUFFICES ASSUME Init PROVE Accounted /\ Packed
    OBVIOUS
  <2>1. Len(fragments) = 0
    BY DEF Init
  <2> QED BY <2>1 DEF Init, Accounted, Packed
<1>2. /\ ReadInv /\ ReadInv' /\ Accounted /\ Packed /\ [Next]_vars
      => Accounted' /\ Packed'
  BY AccountedStep, PackedStep DEF ReadInv
<1> QED
  BY <1>1, <1>2, ReadInvariant, PlannedAlways, PTL DEF Spec, ConformingInv

\* When the loop ends, "filled" is exactly the length of the request.
LEMMA AllCovered ==
    ASSUME ReadInv, Planned, pc = "returned"
    PROVE  Covered = 0 .. (req.length - 1) /\ filled = req.length
<1>1. /\ Cardinality(Covered) = filled /\ filled >= req.length
      /\ req.length \in Nat /\ filled \in Nat
  BY DEF ReadInv, Counted, Planned, Shape, TypeOK
<1>2. /\ IsFiniteSet(0 .. (req.length - 1))
      /\ Cardinality(0 .. (req.length - 1)) = req.length
  <2>1. /\ 0 \in Int /\ req.length - 1 \in Int
        /\ IF 0 > req.length - 1 THEN req.length = 0
           ELSE (req.length - 1) - 0 + 1 = req.length
    BY <1>1
  <2> QED
    BY <2>1, FS_Interval
<1>3. Covered \in SUBSET (0 .. (req.length - 1))
  BY DEF Covered
<1>4. Cardinality(Covered) <= Cardinality(0 .. (req.length - 1))
  BY <1>2, <1>3, FS_Subset
<1>5. filled = req.length
  BY <1>1, <1>2, <1>4
<1> QED
  BY <1>1, <1>2, <1>3, <1>5, FS_Subset

\* A byte that an entry of the table covers is rebuilt from the extra.
LEMMA Rebuilt ==
    ASSUME TypeOK, Packed, req.skip, NEW i \in Nat, Unpackable(i)
    PROVE  Unpack(i) = DiskByte(req.offset + i)
<1>1. PICK F : F = {fragments[j] : j \in DOMAIN fragments}
  OBVIOUS
<1>2. PICK f : f = CHOOSE g \in F : g.dest <= i /\ i < g.dest + g.uncompressed_length
  OBVIOUS
<1>3. f \in F /\ f.dest <= i /\ i < f.dest + f.uncompressed_length
  <2>1. \E g \in F : g.dest <= i /\ i < g.dest + g.uncompressed_length
    BY <1>1 DEF Unpackable
  <2> QED BY <1>2, <2>1
<1>4. fragments \in Seq(ReadFragment) /\ req.offset \in Nat
  BY DEF TypeOK
<1>5. PICK j \in 1 .. Len(fragments) : f = fragments[j]
  BY <1>1, <1>3, <1>4
<1>6. Entry(f) /\ f \in ReadFragment
  BY <1>4, <1>5 DEF Packed
<1>7. /\ f.dest \in Nat /\ f.uncompressed_length \in Nat /\ f.offset \in Nat
      /\ f.length \in Nat
  BY <1>6 DEF ReadFragment
<1>8. PICK z0 : z0 = buf[f.offset]
  OBVIOUS
<1>9. Unpack(i) = IF f.compression_type = NFC_COMPRESSION_NONE
                  THEN buf[f.offset + (i - f.dest)]
                  ELSE IF /\ z0.z /\ z0.c = f.length /\ z0.n = f.uncompressed_length
                          /\ \A k \in 0 .. (f.length - 1) :
                                buf[f.offset + k] = [z0 EXCEPT !.k = k]
                  THEN DiskByte(z0.at + (i - f.dest)) ELSE Blank
  BY <1>1, <1>2, <1>8 DEF Unpack
<1>10. CASE f.compression_type = NFC_COMPRESSION_NONE
  <2>1. i - f.dest \in 0 .. (f.length - 1)
    BY <1>3, <1>6, <1>7, <1>10 DEF Entry
  <2>2. buf[f.offset + (i - f.dest)] = EntryByte(f, i - f.dest)
    BY <1>6, <2>1 DEF Entry
  <2>3. EntryByte(f, i - f.dest) = DiskByte(req.offset + f.dest + (i - f.dest))
    BY <1>10 DEF EntryByte, NFC_COMPRESSION_NONE, NFC_COMPRESSION_FASTLZ
  <2>4. req.offset + f.dest + (i - f.dest) = req.offset + i
    BY <1>4, <1>7
  <2> QED BY <1>9, <1>10, <2>2, <2>3, <2>4
<1>11. CASE f.compression_type = NFC_COMPRESSION_FASTLZ
  <2>1. \A k \in 0 .. (f.length - 1) :
            buf[f.offset + k]
                = LzByte(req.offset + f.dest, f.uncompressed_length, f.length, k)
    BY <1>6, <1>11 DEF Entry, EntryByte
  <2>2. 0 \in 0 .. (f.length - 1) /\ f.offset + 0 = f.offset
    BY <1>6, <1>7 DEF Entry
  <2>3. z0 = LzByte(req.offset + f.dest, f.uncompressed_length, f.length, 0)
    BY <1>8, <2>1, <2>2
  <2>4. /\ z0.z /\ z0.c = f.length /\ z0.n = f.uncompressed_length
        /\ z0.at = req.offset + f.dest
    BY <2>3 DEF LzByte
  <2>5. ASSUME NEW k \in 0 .. (f.length - 1)
        PROVE  LzByte(req.offset + f.dest, f.uncompressed_length, f.length, k)
                   = [z0 EXCEPT !.k = k]
    <3>1. /\ k \in Nat /\ req.offset + f.dest \in Int
      BY <1>4, <1>7
    <3>2. PICK b : b = LzByte(req.offset + f.dest, f.uncompressed_length, f.length, k)
      OBVIOUS
    <3>3. /\ b \in Byte /\ b.z = TRUE /\ b.at = req.offset + f.dest /\ b.c = f.length
          /\ b.n = f.uncompressed_length /\ b.k = k
      BY <1>7, <3>1, <3>2 DEF LzByte, Byte
    <3>4. z0 \in Byte /\ z0.z = TRUE
      BY <1>7, <2>3, <3>1 DEF LzByte, Byte
    <3>5. b = [z0 EXCEPT !.k = k]
      BY <2>4, <3>1, <3>3, <3>4 DEF Byte
    <3> QED BY <3>2, <3>5
  <2>6. Unpack(i) = DiskByte(z0.at + (i - f.dest))
    BY <1>9, <1>11, <2>1, <2>4, <2>5 DEF NFC_COMPRESSION_NONE, NFC_COMPRESSION_FASTLZ
  <2>7. z0.at + (i - f.dest) = req.offset + i
    BY <1>4, <1>7, <2>4
  <2> QED BY <2>6, <2>7
<1> QED BY <1>6, <1>10, <1>11 DEF Entry

\* The fragment table of a packing read that returned rebuilds the request.
LEMMA PackedIntact == ConformingInv => PackedIntegrity
<1> SUFFICES ASSUME ConformingInv, pc = "returned", req.skip,
                    NEW i \in 0 .. (req.length - 1)
             PROVE  Unpackable(i) /\ Unpack(i) = DiskByte(req.offset + i)
  BY DEF PackedIntegrity
<1>1. TypeOK /\ Packed /\ ReadInv /\ Planned
  BY DEF ConformingInv, ReadInv
<1>2. Covered = 0 .. (req.length - 1)
  BY <1>1, AllCovered
<1>3. PICK p \in got : i \in Span(p)
  BY <1>2 DEF Covered
<1>4. p[1] \in Nat /\ p[2] \in Nat /\ i \in Nat
  BY <1>1 DEF TypeOK
<1>5. p[1] <= i /\ i < p[1] + p[2]
  BY <1>3, <1>4 DEF Span
<1>6. PICK j \in 1 .. Len(fragments) :
          fragments[j].dest = p[1] /\ fragments[j].uncompressed_length = p[2]
  BY <1>1 DEF Packed
<1>7. j \in DOMAIN fragments
  BY <1>1 DEF TypeOK
<1>8. Unpackable(i)
  BY <1>5, <1>6, <1>7 DEF Unpackable
<1> QED BY <1>1, <1>4, <1>8, Rebuilt

\* A packing read from a conforming server returns a fragment table from which
\* every byte of the request can be rebuilt, however the answer is cut,
\* compressed and ordered.
THEOREM PackedIntegrityAlways ==
    ASSUME LooseFrames = {}
    PROVE  Spec => []PackedIntegrity
  BY ConformingInvAlways, PackedIntact, PTL

\* The lengths in the ReadResult are right: bytes filled, bytes on the wire and
\* packed bytes.
THEOREM ResultLengthsAlways ==
    ASSUME LooseFrames = {}
    PROVE  Spec => []ResultLengths
<1>1. ConformingInv => ResultLengths
  <2> SUFFICES ASSUME ConformingInv, pc = "returned"
               PROVE  /\ filled = req.length /\ wire_bytes <= req.length
                      /\ req.skip => packed_offset = wire_bytes
                      /\ Compression = NFC_COMPRESSION_NONE => wire_bytes = req.length
    BY DEF ResultLengths
  <2>1. filled = req.length
    BY AllCovered DEF ConformingInv
  <2> QED BY <2>1 DEF ConformingInv, Accounted
<1> QED BY <1>1, ConformingInvAlways, PTL
-----------------------------------------------------------------------------
(* The read as one step.                                                   *)

LEMMA ConformingReadIntact == ConformingInv => ReadIntegrity
<1> SUFFICES ASSUME ConformingInv, pc = "returned", ~req.skip,
                    NEW i \in 0 .. (req.length - 1)
             PROVE  buf[i] = DiskByte(req.offset + i)
  BY DEF ReadIntegrity
<1>1. Covered = 0 .. (req.length - 1)
  BY AllCovered DEF ConformingInv
<1> QED BY <1>1 DEF ConformingInv, ReadInv, Landed

\* Readinto against a conforming server implements SectorRead: sending the
\* request is Ask, the fragment that completes the length is Answer, whatever
\* raises is Fail, and the rest is invisible.
THEOREM ReadIsSectorRead ==
    ASSUME LooseFrames = {}
    PROVE  Spec => ImplementsSectorRead
<1>1. Init => Abstract!Init
  BY DEF Init, Abstract!Init
<1>2. ConformingInv => PackedIntegrity /\ ReadIntegrity
  BY PackedIntact, ConformingReadIntact
<1>3. ConformingInv /\ (PackedIntegrity /\ ReadIntegrity)' /\ [Next]_vars
      => [Abstract!Ask \/ Abstract!Answer \/ Abstract!Fail]_(Abstract!vars)
  <2> SUFFICES ASSUME ConformingInv, PackedIntegrity', ReadIntegrity', [Next]_vars
               PROVE  [Abstract!Ask \/ Abstract!Answer \/ Abstract!Fail]_(Abstract!vars)
    OBVIOUS
  <2>0. pc \in {"idle", "hdr", "body", "extra", "returned", "raised"}
    BY DEF ConformingInv, ReadInv, TypeOK
  <2>1. ASSUME pc \in {"idle", "hdr", "body", "extra"}, pc' = "raised", UNCHANGED req
        PROVE  Abstract!Fail
    BY <2>1 DEF Abstract!Fail
  <2>2. ASSUME pc \in {"hdr", "body", "extra"}, pc' \in {"hdr", "body", "extra"},
               UNCHANGED req
        PROVE  UNCHANGED Abstract!vars
    BY <2>2 DEF Abstract!vars
  <2>3. ASSUME NEW start \in Starts, NEW num \in Counts, NEW flag \in BOOLEAN,
               ReadInto(start, num, flag)
        PROVE  Abstract!Ask
    <3>1. start \in Int /\ num \in Int
      BY ReadConstants
    <3>2. num * SectorSize \in Nat \ {0} /\ start * SectorSize \in Nat
      <4>1. /\ num * SectorSize \in Nat /\ num * SectorSize > 0
            /\ start * SectorSize \in Nat
        BY <2>3, <3>1, AcceptedRequest DEF ReadInto
      <4> QED BY <4>1
    <3>3. /\ pc = "idle" /\ pc' = "hdr" /\ req'.length = num * SectorSize
          /\ req'.offset = start * SectorSize
      BY <2>3 DEF ReadInto
    <3> QED BY <3>2, <3>3 DEF Abstract!Ask
  <2>4. ASSUME FinishFragment, pc' = "returned" PROVE Abstract!Answer
    <3>1. pc = "extra" /\ UNCHANGED req
      BY <2>4 DEF FinishFragment
    <3>2. \A i \in 0 .. (req.length - 1) :
              (IF req'.skip THEN Unpack(i)' ELSE buf'[i]) = DiskByte(req.offset + i)
      BY <2>4, <3>1 DEF PackedIntegrity, ReadIntegrity
    <3> QED BY <2>4, <3>1, <3>2 DEF Abstract!Answer
  <2>5. CASE FinishFragment
    BY <2>2, <2>4, <2>5, FinishEffect
  <2>6. CASE RecvHeader \/ RecvBody
    BY <2>1, <2>2, <2>6 DEF RecvHeader, RecvBody, Raise
  <2>7. CASE DecompressError \/ RecvFails
    BY <2>1, <2>7 DEF DecompressError, RecvFails, Raise
  <2>8. ASSUME NEW start \in Starts, NEW num \in Counts, NEW flag \in BOOLEAN,
               ReadRejected(start, num, flag)
        PROVE  Abstract!Fail
    BY <2>1, <2>8 DEF ReadRejected, Raise
  <2>9. ASSUME NEW g \in 1 .. BufLen, RecvExtra(g) PROVE UNCHANGED Abstract!vars
    BY <2>2, <2>9 DEF RecvExtra
  <2>10. CASE UNCHANGED vars
    BY <2>10 DEF vars, Abstract!vars, Unpack
  <2> QED
    BY <2>3, <2>5, <2>6, <2>7, <2>8, <2>9, <2>10 DEF Next
<1> QED
  BY <1>1, <1>2, <1>3, ConformingInvAlways, PTL
  DEF Spec, ImplementsSectorRead, Abstract!Spec
=============================================================================
