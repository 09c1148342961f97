-------------------------- MODULE NfcWrite_proofs --------------------------
(***************************************************************************)
(* That a write which returns has put every byte in its place, and that    *)
(* the disk holds at any time the fragments that the server took and       *)
(* stored, whole and from the front: for every sector size, AIO buffer,    *)
(* request and result of the compression.                                  *)
(***************************************************************************)
EXTENDS NfcWrite, TLAPS

\* A fragment is what the loop makes: header and extra agree.
Sound(f) ==
    /\ f \in Fragment
    /\ f.disk_offset = DiskOffset /\ f.length = Length
    /\ f.chunk \in 1 .. AioBufferSize /\ f.extra_len <= f.chunk
    /\ f.lz = f.extra.lz /\ f.extra.n = f.chunk
    /\ f.extra_len = f.extra.size /\ f.extra.first = f.frag_offset

\* The fragments of q lead from byte a to byte b without a gap.
EndOf(f) == f.frag_offset + f.chunk
Tiles(q, a, b) ==
    /\ \A j \in 1 .. Len(q) :
          /\ q[j].frag_offset = IF j = 1 THEN a ELSE EndOf(q[j - 1])
          /\ EndOf(q[j]) <= b
    /\ b = IF Len(q) = 0 THEN a ELSE EndOf(q[Len(q)])

\* Where the loop is.
Progress ==
    /\ pc = "idle" => frag_offset = 0
    /\ pc = "loop" => frag_offset < Length
    /\ pc = "reply" => frag_offset = Length
    /\ pc = "returned" => reply = "IO"
    /\ frag_offset > 0 => frag_offset <= Length /\ DiskOffset \in Nat

\* What the server has made of it.
Answered ==
    /\ reply # "none" => served > 0 /\ served = Length
    /\ reply = "IO" => refused = {}

WriteInv ==
    /\ TypeOK /\ Progress /\ Answered
    /\ \A j \in 1 .. Len(toServer) : Sound(toServer[j])
    /\ Tiles(toServer, served, frag_offset)
    /\ disk = Wanted(Served \ refused) /\ refused \subseteq Served
-----------------------------------------------------------------------------
(* Lemmas about the parts.                                                 *)

LEMMA SectorSizeType == ASSUME TypeOK PROVE sector_size \in Nat /\ sector_size >= 1
<1>1. sector_size \in SectorSizes
  BY DEF TypeOK
<1>2. SectorSizes \subseteq Nat \ {0}
  BY WriteConstants
<1> QED BY <1>1, <1>2

LEMMA Numbers ==
    ASSUME TypeOK PROVE Length \in Int /\ DiskOffset \in Int
<1>1. args.num \in Int /\ args.start \in Int
  BY DEF TypeOK, Args
<1>2. sector_size \in Int
  BY SectorSizeType
<1> QED BY <1>1, <1>2 DEF Length, DiskOffset

LEMMA Positive ==
    ASSUME NEW a \in Int, NEW b \in Nat, a >= 1, b >= 1 PROVE a * b >= 1
BY SMT

LEMMA FragmentFields ==
    ASSUME NEW f \in Fragment
    PROVE  /\ f.frag_offset \in Nat /\ f.chunk \in Nat /\ f.length \in Nat
           /\ f.disk_offset \in Nat /\ f.extra_len \in Nat
BY DEF Fragment

LEMMA TilesAppend ==
    ASSUME NEW q \in Seq(Fragment), NEW a \in Nat, NEW b \in Nat, Tiles(q, a, b),
           NEW f \in Fragment, f.frag_offset = b
    PROVE  Tiles(Append(q, f), a, EndOf(f))
<1> DEFINE r == Append(q, f)
<1>1. /\ Len(r) = Len(q) + 1 /\ Len(q) \in Nat
      /\ r[Len(r)] = f /\ \A j \in 1 .. Len(q) : r[j] = q[j]
      /\ \A j \in 1 .. Len(q) : q[j] \in Fragment
  OBVIOUS
<1>2. EndOf(f) \in Nat /\ b <= EndOf(f)
      /\ \A j \in 1 .. Len(q) : EndOf(q[j]) \in Nat
  BY <1>1, FragmentFields DEF EndOf
<1> HIDE DEF r
<1>3. ASSUME NEW j \in 1 .. Len(r)
      PROVE  /\ r[j].frag_offset = IF j = 1 THEN a ELSE EndOf(r[j - 1])
             /\ EndOf(r[j]) <= EndOf(f)
  <2>1. CASE j \in 1 .. Len(q)
    <3>1. j # 1 => j - 1 \in 1 .. Len(q)
      BY <2>1
    <3>2. /\ q[j].frag_offset = (IF j = 1 THEN a ELSE EndOf(q[j - 1]))
          /\ EndOf(q[j]) <= b /\ EndOf(q[j]) \in Nat
      BY <1>2, <2>1 DEF Tiles
    <3>3. r[j] = q[j] /\ (j # 1 => r[j - 1] = q[j - 1])
      BY <1>1, <2>1, <3>1
    <3>4. EndOf(r[j]) <= EndOf(f)
      BY <1>2, <3>2, <3>3
    <3> QED BY <3>2, <3>3, <3>4
  <2>2. CASE j = Len(r)
    <3>1. r[j] = f /\ (j # 1 => r[j - 1] = q[Len(q)] /\ Len(q) # 0)
      BY <1>1, <2>2
    <3>2. j = 1 <=> Len(q) = 0
      BY <1>1, <2>2
    <3> QED BY <1>2, <2>2, <3>1, <3>2 DEF Tiles
  <2> QED BY <1>1, <2>1, <2>2
<1>4. EndOf(f) = IF Len(r) = 0 THEN a ELSE EndOf(r[Len(r)])
  BY <1>1
<1> QED BY <1>3, <1>4 DEF Tiles, r

LEMMA TilesTail ==
    ASSUME NEW q \in Seq(Fragment), q # <<>>, NEW a \in Nat, NEW b \in Nat,
           Tiles(q, a, b)
    PROVE  Tiles(Tail(q), EndOf(Head(q)), b)
<1> DEFINE r == Tail(q)
<1>1. /\ Len(q) \in Nat /\ Len(q) > 0 /\ Len(r) = Len(q) - 1 /\ Head(q) = q[1]
      /\ \A j \in 1 .. Len(r) : r[j] = q[j + 1]
  OBVIOUS
<1> HIDE DEF r
<1>2. ASSUME NEW j \in 1 .. Len(r)
      PROVE  /\ r[j].frag_offset = IF j = 1 THEN EndOf(Head(q)) ELSE EndOf(r[j - 1])
             /\ EndOf(r[j]) <= b
  <2>1. j + 1 \in 1 .. Len(q) /\ j + 1 # 1 /\ (j + 1) - 1 = j
    BY <1>1
  <2>2. r[j] = q[j + 1] /\ (j # 1 => r[j - 1] = q[j])
    BY <1>1
  <2> QED BY <1>1, <2>1, <2>2 DEF Tiles
<1>3. b = IF Len(r) = 0 THEN EndOf(Head(q)) ELSE EndOf(r[Len(r)])
  <2>1. b = EndOf(q[Len(q)])
    BY <1>1 DEF Tiles
  <2>2. CASE Len(r) = 0
    <3>1. Len(q) = 1
      BY <1>1, <2>2
    <3>2. Head(q) = q[1]
      BY <1>1
    <3> QED BY <2>1, <2>2, <3>1, <3>2
  <2>3. CASE Len(r) # 0
    <3>1. Len(r) \in 1 .. Len(r) /\ Len(r) + 1 = Len(q)
      BY <1>1, <2>3
    <3>2. r[Len(r)] = q[Len(q)]
      BY <1>1, <3>1
    <3> QED BY <2>1, <2>3, <3>2
  <2> QED BY <2>2, <2>3
<1> QED BY <1>2, <1>3 DEF Tiles, r

\* The server is never ahead of the loop.
LEMMA Behind ==
    ASSUME WriteInv
    PROVE  /\ served <= frag_offset
           /\ toServer = <<>> => served = frag_offset
           /\ toServer # <<>> => /\ Head(toServer) = toServer[1]
                                 /\ 1 \in 1 .. Len(toServer)
                                 /\ Sound(Head(toServer))
                                 /\ Head(toServer).frag_offset = served
                                 /\ EndOf(Head(toServer)) <= frag_offset
<1>1. toServer \in Seq(Fragment) /\ served \in Nat /\ frag_offset \in Nat
  BY DEF WriteInv, TypeOK
<1>2. toServer = <<>> => served = frag_offset
  BY <1>1 DEF WriteInv, Tiles
<1>3. ASSUME toServer # <<>>
      PROVE  /\ Head(toServer) = toServer[1] /\ 1 \in 1 .. Len(toServer)
             /\ Sound(Head(toServer)) /\ Head(toServer).frag_offset = served
             /\ EndOf(Head(toServer)) <= frag_offset
             /\ served <= frag_offset
  <2>1. Head(toServer) = toServer[1] /\ 1 \in 1 .. Len(toServer)
    BY <1>1, <1>3
  <2>2. Sound(toServer[1]) /\ toServer[1].frag_offset = served
        /\ EndOf(toServer[1]) <= frag_offset
    BY <2>1 DEF WriteInv, Tiles
  <2>3. toServer[1].chunk \in Nat
    BY <2>2, FragmentFields DEF Sound
  <2> QED BY <1>1, <2>1, <2>2, <2>3 DEF EndOf
<1> QED BY <1>1, <1>2, <1>3

\* What a fragment stores joins on to what is there.
LEMMA StoredJoins ==
    ASSUME TypeOK, NEW f, Sound(f), f.frag_offset = served, DiskOffset \in Nat,
           refused \subseteq Served, disk = Wanted(Served \ refused)
    PROVE  Overwrite(Stored(f)) = Wanted((0 .. (EndOf(f) - 1)) \ refused)
<1> DEFINE All == 0 .. (EndOf(f) - 1)
<1>1. served \in Nat /\ f.chunk \in Nat
  BY FragmentFields DEF TypeOK, Sound
<1>2. Stored(f) = {<<DiskOffset + served + i, served + i>> : i \in 0 .. (f.chunk - 1)}
  BY DEF Stored, Sound
<1>3. Stored(f) \subseteq Wanted(All \ refused)
  <2> SUFFICES ASSUME NEW i \in 0 .. (f.chunk - 1)
               PROVE  <<DiskOffset + served + i, served + i>> \in Wanted(All \ refused)
    BY <1>2
  <2>1. served + i \in All
    BY <1>1 DEF EndOf, Sound
  <2>2. DiskOffset + served + i = DiskOffset + (served + i)
    BY <1>1
  <2>3. served + i \notin refused
    BY <1>1 DEF Served
  <2> QED BY <2>1, <2>2, <2>3 DEF Wanted
<1>4. disk \subseteq Wanted(All \ refused)
  <2>1. \A i \in Served : i \in All
    BY <1>1 DEF EndOf, Sound, Served
  <2> QED BY <2>1 DEF Wanted
<1>5. ASSUME NEW d \in disk, NEW e \in Stored(f) PROVE e[1] # d[1]
  <2>1. PICK i \in 0 .. (served - 1) : d = <<DiskOffset + i, i>>
    BY DEF Wanted, Served
  <2>2. PICK k \in 0 .. (f.chunk - 1) : e = <<DiskOffset + served + k, served + k>>
    BY <1>2
  <2> QED BY <1>1, <2>1, <2>2
<1>6. Wanted(All \ refused) \subseteq disk \cup Stored(f)
  <2> SUFFICES ASSUME NEW i \in All, i \notin refused
               PROVE  <<DiskOffset + i, i>> \in disk \cup Stored(f)
    BY DEF Wanted
  <2>1. CASE i < served
    <3>1. i \in Served
      BY <1>1, <2>1 DEF Served
    <3> QED BY <3>1 DEF Wanted
  <2>2. CASE i >= served
    <3>1. i - served \in 0 .. (f.chunk - 1)
      BY <1>1, <2>2 DEF EndOf, Sound
    <3>2. DiskOffset + served + (i - served) = DiskOffset + i
          /\ served + (i - served) = i
      BY <1>1
    <3> QED BY <1>2, <3>1, <3>2
  <2> QED BY <1>1, <2>1, <2>2
<1> QED BY <1>3, <1>4, <1>5, <1>6 DEF Overwrite
-----------------------------------------------------------------------------
(* The invariant.                                                          *)

LEMMA WriteInvInit == Init => WriteInv
<1> SUFFICES ASSUME Init PROVE WriteInv
  OBVIOUS
<1>1. TypeOK
  <2>1. NoArgs \in Args
    BY DEF NoArgs, Args
  <2>2. toServer \in Seq(Fragment) /\ disk \subseteq Nat \X Int
    BY DEF Init
  <2> QED BY <2>1, <2>2 DEF Init, TypeOK
<1>2. Progress /\ Answered
  BY DEF Init, Progress, Answered
<1>3. Tiles(toServer, served, frag_offset)
  BY DEF Init, Tiles
<1>4. Wanted(Served \ refused) = {}
  BY DEF Init, Wanted, Served
<1> QED BY <1>1, <1>2, <1>3, <1>4 DEF Init, WriteInv

\* The parts of the invariant that an action on pc and outcome alone leaves as
\* they are.
LEMMA WriteInvFrame ==
    ASSUME WriteInv, UNCHANGED <<sector_size, args, frag_offset, toServer, disk,
                                 served, refused, reply>>,
           pc' \in {"idle", "loop", "reply", "returned", "raised"},
           outcome' \in {"none", "ok", "ValueError", "ValueError of fastlz",
                         "struct.error", "OSError", "NfcProtocolError"},
           Progress'
    PROVE  WriteInv'
<1>1. TypeOK'
  BY DEF WriteInv, TypeOK
<1>2. Answered'
  BY DEF WriteInv, Answered, Length
<1>3. \A j \in 1 .. Len(toServer') : Sound(toServer[j])'
  BY DEF WriteInv, Sound, Length, DiskOffset
<1>4. Tiles(toServer, served, frag_offset)'
  BY DEF WriteInv, Tiles, EndOf
<1>5. Wanted(Served \ refused)' = Wanted(Served \ refused) /\ Served' = Served
  BY DEF Wanted, DiskOffset, Served
<1> QED BY <1>1, <1>2, <1>3, <1>4, <1>5 DEF WriteInv

LEMMA WriteStep == ASSUME WriteInv, NEW a \in Calls, Write(a) PROVE WriteInv'
<1>1. /\ served = 0 /\ frag_offset = 0 /\ toServer = <<>> /\ reply = "none"
      /\ pc = "idle"
  <2>1. pc = "idle" /\ frag_offset = 0
    BY DEF Write, WriteInv, Progress
  <2>2. served \in Nat
    BY DEF WriteInv, TypeOK
  <2>3. toServer = <<>>
    <3> SUFFICES ASSUME toServer # <<>> PROVE FALSE
      OBVIOUS
    <3>1. Sound(Head(toServer)) /\ EndOf(Head(toServer)) <= 0
      BY <2>1, Behind
    <3> QED BY <3>1, FragmentFields DEF Sound, EndOf
  <2>4. served = 0
    BY <2>1, <2>3, Behind
  <2> QED BY <2>1, <2>3, <2>4 DEF WriteInv, Answered
<1>2. a \in Args /\ a.num \in Int
  BY WriteConstants DEF Calls, Args
<1>3. TypeOK'
  BY <1>2 DEF Write, WriteInv, TypeOK, Raise
<1>4. Progress'
  <2>1. CASE Accepted(a) /\ pc' = "loop"
    <3>1. sector_size \in Nat /\ sector_size >= 1 /\ a.num >= 1
      BY <2>1, SectorSizeType DEF WriteInv, Accepted
    <3>2. Length' >= 1
      BY <1>2, <3>1, Positive DEF Length, Write
    <3>3. frag_offset' = 0 /\ pc' = "loop"
      BY <1>1, <2>1 DEF Write
    <3>4. Length' \in Int
      BY <1>2, <3>1 DEF Length, Write
    <3> QED BY <3>2, <3>3, <3>4 DEF Progress
  <2>2. CASE pc' = "raised"
    BY <1>1, <2>2 DEF Progress, Write
  <2> QED BY <2>1, <2>2 DEF Write, Raise
<1>5. Answered'
  BY <1>1 DEF Answered, Write
<1>6. Tiles(toServer, served, frag_offset)'
  BY <1>1 DEF Tiles, Write
<1>7. /\ Wanted(Served \ refused)' = {} /\ disk' = {}
      /\ refused' = {} /\ Served' = {}
  BY <1>1 DEF Wanted, Write, WriteInv, Served
<1> QED BY <1>1, <1>3, <1>4, <1>5, <1>6, <1>7 DEF WriteInv, Write

LEMMA SendStep ==
    ASSUME WriteInv, NEW c \in LzLengths, SendFragment(c) PROVE WriteInv'
<1> DEFINE f == TheFragment(c)
<1>1. /\ Length \in Int /\ DiskOffset \in Nat /\ frag_offset \in Nat
      /\ frag_offset < Length /\ served \in Nat /\ toServer \in Seq(Fragment)
  <2>1. Length \in Int /\ DiskOffset \in Int
    BY Numbers DEF WriteInv
  <2>2. frag_offset \in Nat /\ served \in Nat /\ toServer \in Seq(Fragment)
    BY DEF WriteInv, TypeOK
  <2>3. DiskOffset \in Nat
    BY <2>1 DEF SendFragment, Packs
  <2> QED BY <2>1, <2>2, <2>3 DEF WriteInv, Progress, SendFragment
<1>2. Chunk \in 1 .. AioBufferSize /\ frag_offset + Chunk <= Length /\ c \in Nat
  BY <1>1, WriteConstants DEF Chunk, Smaller, LzLengths
<1>3. Shrinks(c) \in BOOLEAN /\ (Shrinks(c) => c < Chunk)
  BY DEF Shrinks
<1>4. f \in Fragment /\ Sound(f) /\ f.frag_offset = frag_offset /\ f.chunk = Chunk
  BY <1>1, <1>2, <1>3 DEF TheFragment, FragmentAt, Fragment, Sound
<1>5. /\ Length' = Length /\ DiskOffset' = DiskOffset
      /\ Wanted(Served \ refused)' = Wanted(Served \ refused) /\ Served' = Served
  BY DEF SendFragment, Length, DiskOffset, Wanted, Served
<1>6. frag_offset' = EndOf(f) /\ toServer' = Append(toServer, f)
  BY <1>4 DEF SendFragment, OffsetAfter, EndOf
<1> HIDE DEF f
<1>7. TypeOK'
  <2>1. frag_offset' \in Nat /\ toServer' \in Seq(Fragment)
    BY <1>1, <1>2, <1>4, <1>6 DEF EndOf
  <2> QED BY <2>1 DEF WriteInv, TypeOK, SendFragment
<1>8. Progress'
  <2>1. frag_offset' = frag_offset + Chunk /\ frag_offset' <= Length
    BY <1>2, <1>4, <1>6 DEF EndOf
  <2>2. pc' = IF frag_offset' >= Length THEN "reply" ELSE "loop"
    BY <1>5 DEF SendFragment, Done
  <2> QED BY <1>1, <1>2, <1>5, <2>1, <2>2 DEF Progress
<1>9. Answered'
  BY <1>5 DEF WriteInv, Answered, SendFragment
<1>10. ASSUME NEW j \in 1 .. Len(toServer') PROVE Sound(toServer[j])'
  <2>1. toServer'[j] = f \/ (j \in 1 .. Len(toServer) /\ toServer'[j] = toServer[j])
    BY <1>1, <1>6
  <2>2. Sound(toServer'[j])
    BY <1>4, <2>1 DEF WriteInv
  <2> QED BY <1>5, <2>2 DEF Sound
<1>11. Tiles(toServer, served, frag_offset)'
  BY <1>1, <1>4, <1>6, TilesAppend DEF WriteInv, SendFragment
<1>12. disk' = disk /\ served' = served /\ refused' = refused
  BY DEF SendFragment
<1> QED BY <1>5, <1>7, <1>8, <1>9, <1>10, <1>11, <1>12 DEF WriteInv

LEMMA ServeStep == ASSUME WriteInv, Serve PROVE WriteInv'
<1> DEFINE f == Head(toServer)
<1>1. /\ Length \in Int /\ frag_offset \in Nat /\ served \in Nat
      /\ toServer \in Seq(Fragment) /\ toServer # <<>>
  BY Numbers DEF WriteInv, TypeOK, Serve
<1>2. /\ Sound(f) /\ f.frag_offset = served /\ EndOf(f) <= frag_offset
      /\ f \in Fragment /\ f.chunk \in Nat /\ f.chunk >= 1 /\ f.length = Length
  BY <1>1, Behind, FragmentFields DEF Sound
<1>3. frag_offset > 0 /\ frag_offset <= Length /\ DiskOffset \in Nat
  BY <1>1, <1>2 DEF EndOf, WriteInv, Progress
<1>4. served' = EndOf(f) /\ served' \in Nat /\ served' > 0 /\ served' <= Length
  BY <1>1, <1>2, <1>3 DEF Serve, EndOf
<1>5. /\ Length' = Length /\ DiskOffset' = DiskOffset
      /\ Wanted(Served \ refused)' = Wanted(Served' \ refused')
      /\ Served' = 0 .. (served' - 1)
  BY DEF Serve, Length, DiskOffset, Wanted, Served
<1>6. toServer' = Tail(toServer) /\ toServer' \in Seq(Fragment)
  BY <1>1 DEF Serve
<1>7. /\ disk' = Wanted(Served' \ refused')
      /\ refused' \subseteq Served' /\ refused' \subseteq Nat
  <2>1. Served \subseteq Served' /\ Served \subseteq Nat
    BY <1>1, <1>2, <1>4, <1>5 DEF EndOf, Served
  <2>2. CASE disk' = Overwrite(Stored(f)) /\ UNCHANGED refused
    <3>1. /\ TypeOK /\ refused \subseteq Served /\ refused \subseteq Nat
          /\ disk = Wanted(Served \ refused)
      BY <2>1 DEF WriteInv
    <3>2. Overwrite(Stored(f)) = Wanted((0 .. (EndOf(f) - 1)) \ refused)
      BY <1>2, <1>3, <3>1, StoredJoins
    <3>3. Served' = 0 .. (EndOf(f) - 1)
      BY <1>4, <1>5
    <3> QED BY <2>1, <2>2, <3>1, <3>2, <3>3
  <2>3. CASE refused' = refused \cup Bytes(f) /\ UNCHANGED disk
    <3>1. Served' = Served \cup Bytes(f) /\ Bytes(f) \subseteq Nat
      BY <1>1, <1>2, <1>4, <1>5 DEF EndOf, Served, Bytes
    <3>2. Served \cap Bytes(f) = {}
      BY <1>1, <1>2 DEF Served, Bytes
    <3>3. Served' \ refused' = Served \ refused
      BY <2>3, <3>1, <3>2
    <3> QED BY <2>1, <2>3, <3>1, <3>3 DEF WriteInv
  <2> QED BY <2>2, <2>3 DEF Serve
<1>8. TypeOK'
  <2>1. disk' \subseteq Nat \X Int
    <3>1. \A i \in 0 .. (served' - 1) : <<DiskOffset + i, i>> \in Nat \X Int
      BY <1>3, <1>4
    <3> QED BY <1>5, <1>7, <3>1 DEF Wanted
  <2>2. reply' \in {"none", "IO", "ERROR"}
    BY DEF WriteInv, TypeOK, Serve
  <2> QED BY <1>4, <1>7, <1>6, <2>1, <2>2 DEF WriteInv, TypeOK, Serve
\* A reply that is there already says that all has been served.
<1>9. reply = "none"
  <2> SUFFICES ASSUME reply # "none" PROVE FALSE
    OBVIOUS
  <2>1. served = Length
    BY DEF WriteInv, Answered
  <2> QED BY <1>1, <1>2, <1>3, <2>1 DEF EndOf
<1>10. Answered'
  BY <1>1, <1>2, <1>4, <1>5, <1>9 DEF Serve, Answered
<1>11. Progress'
  BY <1>5, <1>9 DEF WriteInv, Progress, Serve
<1>12. ASSUME NEW j \in 1 .. Len(toServer') PROVE Sound(toServer[j])'
  <2>1. toServer'[j] = toServer[j + 1] /\ j + 1 \in 1 .. Len(toServer)
    BY <1>1, <1>6
  <2>2. Sound(toServer'[j])
    BY <2>1 DEF WriteInv
  <2> QED BY <1>5, <2>2 DEF Sound
<1>13. Tiles(toServer, served, frag_offset)'
  BY <1>1, <1>4, <1>6, TilesTail DEF WriteInv, Serve
<1> QED BY <1>5, <1>7, <1>8, <1>10, <1>11, <1>12, <1>13 DEF WriteInv

LEMMA WriteInvNext == WriteInv /\ [Next]_vars => WriteInv'
<1> SUFFICES ASSUME WriteInv, [Next]_vars PROVE WriteInv'
  OBVIOUS
<1>1. ASSUME NEW a \in Calls, Write(a) PROVE WriteInv'
  BY <1>1, WriteStep
<1>2. ASSUME NEW c \in LzLengths, SendFragment(c) PROVE WriteInv'
  BY <1>2, SendStep
<1>3. CASE FragmentFails
  <2>1. Progress'
    BY <1>3 DEF WriteInv, Progress, FragmentFails, Raise, Length, DiskOffset
  <2> QED BY <1>3, <2>1, WriteInvFrame DEF FragmentFails, Raise
<1>4. CASE RecvReply
  <2>1. Progress'
    BY <1>4 DEF WriteInv, Progress, RecvReply, Raise, Length, DiskOffset
  <2> QED BY <1>4, <2>1, WriteInvFrame DEF RecvReply, Raise
<1>5. CASE RecvFails
  <2>1. Progress'
    BY <1>5 DEF WriteInv, Progress, RecvFails, Raise, Length, DiskOffset
  <2> QED BY <1>5, <2>1, WriteInvFrame DEF RecvFails, Raise
<1>6. CASE Serve
  BY <1>6, ServeStep
<1>7. CASE UNCHANGED vars
  <2>1. Progress'
    BY <1>7 DEF vars, WriteInv, Progress, Length, DiskOffset
  <2>2. outcome' = outcome /\ pc' = pc
    BY <1>7 DEF vars
  <2>3. TypeOK
    BY DEF WriteInv
  <2> QED BY <1>7, <2>1, <2>2, <2>3, WriteInvFrame DEF vars, TypeOK
<1> QED BY <1>1, <1>2, <1>3, <1>4, <1>5, <1>6, <1>7 DEF Next
-----------------------------------------------------------------------------
(* The theorems.                                                           *)

LEMMA WriteInvAlways == Spec => []WriteInv
BY WriteInvInit, WriteInvNext, PTL DEF Spec

\* The variables of NfcDisk.write keep their types; a fragment that
\* struct.pack accepts has an unsigned offset.
THEOREM WriteTypeCorrect == Spec => []TypeOK
<1>1. WriteInv => TypeOK
  BY DEF WriteInv
<1> QED BY <1>1, WriteInvAlways, PTL

\* A write that returns has put all its bytes in their places, whatever
\* fastlz.compress made of the chunks.
THEOREM WriteIntegrity == Spec => []WrittenExactly
<1>1. WriteInv => WrittenExactly
  BY DEF WriteInv, WrittenExactly, Progress, Answered, Served
<1> QED BY <1>1, WriteInvAlways, PTL

\* NfcDisk.write changes the disk by whole fragments of its own bytes, taken from
\* the front: exactly those that the server took and did not refuse, at every
\* moment and however the write ends.
THEOREM FromTheFront == Spec => []WrittenFromTheFront
<1>1. WriteInv => WrittenFromTheFront
  <2> SUFFICES ASSUME WriteInv PROVE Served \subseteq 0 .. (Length - 1)
    BY DEF WriteInv, WrittenFromTheFront
  <2>1. Length \in Int /\ served \in Nat /\ frag_offset \in Nat
        /\ served <= frag_offset
    BY Numbers, Behind DEF WriteInv, TypeOK
  <2> QED BY <2>1 DEF WriteInv, Progress, Served
<1> QED BY <1>1, WriteInvAlways, PTL

\* The fragments on their way lead from where the server is to where the loop
\* is, and the reply is awaited when all are sent.
THEOREM FragmentsAlwaysTile == Spec => []FragmentsTile
<1>1. WriteInv => FragmentsTile
  <2> SUFFICES ASSUME WriteInv PROVE FragmentsTile
    OBVIOUS
  <2>1. toServer \in Seq(Fragment)
    BY DEF WriteInv, TypeOK
  <2>2. Len(toServer) \in Nat
    BY <2>1
  <2> QED BY <2>1, <2>2 DEF WriteInv, FragmentsTile, Tiles, EndOf, Sound, Progress
<1> QED BY <1>1, WriteInvAlways, PTL

\* The ValueError of NfcDisk.write comes from its check of the arguments.
CheckInv == TypeOK /\ (outcome = "ValueError" => pc = "raised" /\ ~Accepted(args))

LEMMA CheckInvNext == CheckInv /\ TypeOK' /\ [Next]_vars => CheckInv'
<1> SUFFICES ASSUME CheckInv, TypeOK', [Next]_vars,
                    outcome' = "ValueError"
             PROVE  pc' = "raised" /\ ~Accepted(args)'
  BY DEF CheckInv
<1>1. ASSUME NEW a \in Calls, Write(a) PROVE pc' = "raised" /\ ~Accepted(args)'
  BY <1>1 DEF CheckInv, Write, Raise, Accepted, DataLen
<1>2. ASSUME UNCHANGED <<sector_size, args>>, outcome' = outcome,
             pc = "raised" => pc' = pc
      PROVE  pc' = "raised" /\ ~Accepted(args)'
  BY <1>2 DEF CheckInv, Accepted, DataLen
<1>3. ASSUME NEW c \in LzLengths, SendFragment(c) PROVE UNCHANGED <<sector_size, args>>
             /\ outcome' = outcome /\ (pc = "raised" => pc' = pc)
  BY <1>3 DEF SendFragment
<1>4. ~FragmentFails /\ ~RecvReply /\ ~RecvFails
  BY DEF FragmentFails, RecvReply, RecvFails, Raise
<1>5. CASE Serve
  BY <1>2, <1>5 DEF Serve
<1>6. CASE UNCHANGED vars
  BY <1>2, <1>6 DEF vars
<1> QED BY <1>1, <1>2, <1>3, <1>4, <1>5, <1>6 DEF Next

\* Where the sectors have the size that VixDiskLibHandle.write takes them to
\* have, the slice it makes of any buffer of bytes that is long enough is
\* what NfcDisk.write expects.
THEOREM LongEnoughAlwaysAccepted == Spec => []LongEnoughAccepted
<1>1. Init => CheckInv
  BY WriteInvInit DEF Init, CheckInv, WriteInv
<1>2. CheckInv => LongEnoughAccepted
  <2> SUFFICES ASSUME CheckInv, args.api = "handle", args.num >= 1, args.buf.w = 1,
                      sector_size = VIXDISKLIB_SECTOR_SIZE, args.buf.n >= Length
               PROVE  Accepted(args)
    BY DEF CheckInv, LongEnoughAccepted
  <2>1. args.num \in Int /\ args.buf.n \in Nat
    BY DEF CheckInv, TypeOK, Args
  <2>2. sector_size \in Nat /\ sector_size >= 1
    BY SectorSizeType DEF CheckInv
  <2>3. Length \in Int /\ Length >= 1 /\ Length = args.num * VIXDISKLIB_SECTOR_SIZE
    BY <2>1, <2>2, Positive DEF Length
  <2>4. HandleLen(args.num, args.buf) = Length
    BY <2>1, <2>3 DEF HandleLen, Smaller
  <2> QED BY <2>4 DEF Accepted, DataLen, Length
<1> QED BY <1>1, <1>2, CheckInvNext, WriteTypeCorrect, PTL DEF Spec
=============================================================================
