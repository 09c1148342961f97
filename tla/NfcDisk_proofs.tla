--------------------------- MODULE NfcDisk_proofs ---------------------------
(***************************************************************************)
(* What a whole NfcDisk session guarantees, for a disk of any size, any    *)
(* number of operations and any of the faults: that no call takes the late *)
(* answer to another one, that acknowledged writes survive, that close     *)
(* releases the socket, and that the session implements BlockStore.        *)
(***************************************************************************)
EXTENDS NfcDisk, SequenceTheorems, FiniteSetTheorems, TLAPS

Busy == pc # "idle"

\* The elements of a queue.
Elems(q) == {q[i] : i \in 1 .. Len(q)}

\* What a write request will leave in its block.
Place(m) == m.start + m.frag
Value(m) == IF m.torn THEN Garbage ELSE m.op

\* Request k was sent after request m: for a later call, or as a later
\* fragment of the same write.
Before(m, k) ==
    \/ m.op < k.op
    \/ /\ m.op = k.op /\ m.kind = "write" /\ k.kind = "write"
       /\ m.start = k.start /\ m.n = k.n /\ m.frag < k.frag /\ ~m.torn
Ordered(q) == \A i, k \in 1 .. Len(q) : i < k => Before(q[i], q[k])

\* A request in flight: within the disk, with an id that has been used, and
\* if it is a write, known to the history.  If it belongs to the call in
\* progress, it is whole and what the call sends.
GoodRequest(m) ==
    /\ m.start + m.n <= NumBlocks /\ m.frag < m.n /\ m.op < op_id
    /\ m.kind = "write" => Value(m) \in maybe[Place(m)]
MyRequest(m) ==
    Busy /\ m.op = call.op =>
        /\ ~m.torn /\ m.kind = call.kind /\ m.start = call.start /\ m.n = call.n
        /\ m.kind = "write" => m.frag < sent

\* A reply owed or in flight: its id has been used, and if it reports that
\* something was closed, it was.
GoodReply(h) ==
    /\ h.op < op_id
    /\ h.type = "CLOSE_FILE" => ~fileOpen
    /\ h.type = "CLOSE_SESSION" => ~sessionOpen

\* If it belongs to the call in progress, the server has taken all requests
\* and the disk stands still; a write that succeeded is on it.
MyReplyGood(h) ==
    Busy /\ h.op = call.op =>
        /\ toServer = <<>>
        /\ call.kind = "read" /\ h.type = "IO" =>
              h.frag < call.n /\ h.block = call.start + h.frag
        /\ call.kind = "write" =>
              /\ pc = "reply"
              /\ h.type = "IO" => \A b \in Extent(call) : disk[b] = call.op
\* In flight it carries what the disk holds.
Sampled(h) ==
    pc = "read" /\ h.op = call.op /\ h.type = "IO" => h.val = disk[h.block]

\* The call in progress: its id is the newest, and how far it has come.
Underway ==
    Busy =>
        /\ op_id = call.op + 1
        /\ sent > 0 => call.op < OpLimit
        /\ call.start + call.n <= NumBlocks
        /\ pc = "read" => call.kind = "read"
        /\ pc = "write" => call.kind = "write" /\ sent < call.n
        /\ pc = "reply" => call.kind # "read"
        /\ call.kind \in {"CLOSE_FILE", "CLOSE_SESSION"} => closed
        /\ call.kind = "CLOSE_SESSION" => ~fileOpen

\* What a read has got so far: the fragments seen are filled in, and since
\* there was one, nothing can change the disk.
Reading ==
    pc = "read" =>
        /\ seen \subseteq 0 .. (call.n - 1)
        /\ seen # {} => toServer = <<>>
        /\ data = [b \in Blocks |-> IF b - call.start \in seen THEN disk[b]
                                    ELSE Garbage]

Closing == closed /\ sock = "open" => Busy /\ call.kind \notin {"read", "write"}

\* A receive can start inside a frame only if there is one.
InFrame == sync = "mid" => toClient # <<>>

DiskInv ==
    /\ TypeOK /\ Underway /\ Reading /\ Closing /\ InFrame
    /\ \A m \in Elems(toServer) : GoodRequest(m) /\ MyRequest(m)
    /\ Ordered(toServer)
    /\ \A h \in jobs : GoodReply(h) /\ MyReplyGood(h)
    /\ \A h \in Elems(toClient) : GoodReply(h) /\ MyReplyGood(h) /\ Sampled(h)
    /\ AckedWritesSurvive /\ NoStaleRead /\ OrderlyClose
-----------------------------------------------------------------------------
(* Queues.                                                                 *)

LEMMA EmptyElems == Elems(<<>>) = {}
BY DEF Elems

LEMMA AppendElems ==
    ASSUME NEW S, NEW q \in Seq(S), NEW m \in S
    PROVE  Append(q, m) \in Seq(S) /\ Elems(Append(q, m)) = Elems(q) \cup {m}
           /\ Append(q, m) # <<>> /\ Elems(q) \subseteq S
<1>1. /\ Append(q, m) \in Seq(S) /\ Len(Append(q, m)) = Len(q) + 1
      /\ Append(q, m)[Len(q) + 1] = m /\ Len(q) \in Nat
      /\ \A i \in 1 .. Len(q) : Append(q, m)[i] = q[i]
  OBVIOUS
<1>2. Elems(Append(q, m)) \subseteq Elems(q) \cup {m}
  BY <1>1 DEF Elems
<1>3. Elems(q) \cup {m} \subseteq Elems(Append(q, m))
  BY <1>1 DEF Elems
<1>4. Elems(q) \subseteq S
  BY DEF Elems
<1> QED BY <1>1, <1>2, <1>3, <1>4

LEMMA TailElems ==
    ASSUME NEW S, NEW q \in Seq(S), q # <<>>
    PROVE  /\ Head(q) \in S /\ Tail(q) \in Seq(S) /\ Elems(q) \subseteq S
           /\ Head(q) \in Elems(q) /\ Elems(Tail(q)) \subseteq Elems(q)
<1>1. /\ Head(q) \in S /\ Tail(q) \in Seq(S) /\ Len(q) \in Nat \ {0}
      /\ Head(q) = q[1] /\ Len(Tail(q)) = Len(q) - 1
      /\ \A i \in 1 .. Len(Tail(q)) : Tail(q)[i] = q[i + 1]
  OBVIOUS
<1>2. Elems(Tail(q)) \subseteq Elems(q)
  BY <1>1 DEF Elems
<1>3. Elems(q) \subseteq S /\ Head(q) \in Elems(q)
  BY <1>1 DEF Elems
<1> QED BY <1>1, <1>2, <1>3

LEMMA LongTail ==
    ASSUME NEW S, NEW q \in Seq(S), Len(q) > 1 PROVE Tail(q) # <<>>
<1> DEFINE t == Tail(q)
<1>1. t \in Seq(S) /\ Len(t) = Len(q) - 1 /\ Len(q) \in Nat
  OBVIOUS
<1> HIDE DEF t
<1>2. Len(t) # 0
  BY <1>1
<1> QED BY <1>1, <1>2, EmptySeq DEF t

LEMMA EmptyOrdered == Ordered(<<>>)
BY DEF Ordered

LEMMA AppendOrdered ==
    ASSUME NEW S, NEW q \in Seq(S), NEW m \in S, Ordered(q),
           \A k \in Elems(q) : Before(k, m)
    PROVE  Ordered(Append(q, m))
<1>1. /\ Len(Append(q, m)) = Len(q) + 1 /\ Append(q, m)[Len(q) + 1] = m
      /\ Len(q) \in Nat /\ \A i \in 1 .. Len(q) : Append(q, m)[i] = q[i]
  OBVIOUS
<1> DEFINE r == Append(q, m)
<1> HIDE DEF r
<1>2. ASSUME NEW i \in 1 .. Len(r), NEW k \in 1 .. Len(r), i < k
      PROVE  Before(r[i], r[k])
  <2>1. i \in 1 .. Len(q) /\ r[i] = q[i] /\ q[i] \in Elems(q)
    BY <1>1, <1>2 DEF r, Elems
  <2>2. CASE k \in 1 .. Len(q)
    <3>1. r[k] = q[k]
      BY <1>1, <2>2 DEF r
    <3> QED BY <1>2, <2>1, <2>2, <3>1 DEF Ordered
  <2>3. CASE k = Len(q) + 1
    <3>1. r[k] = m
      BY <1>1, <2>3 DEF r
    <3> QED BY <2>1, <3>1
  <2> QED BY <1>1, <2>2, <2>3 DEF r
<1> QED BY <1>2 DEF Ordered, r

LEMMA TailOrdered ==
    ASSUME NEW S, NEW q \in Seq(S), q # <<>>, Ordered(q)
    PROVE  /\ Ordered(Tail(q))
           /\ \A k \in Elems(Tail(q)) : Before(Head(q), k)
           /\ Elems(Tail(q)) = {} => Tail(q) = <<>>
<1>1. /\ Len(q) \in Nat \ {0} /\ Head(q) = q[1] /\ Len(Tail(q)) = Len(q) - 1
      /\ Tail(q) \in Seq(S)
      /\ \A i \in 1 .. Len(Tail(q)) : Tail(q)[i] = q[i + 1]
  OBVIOUS
<1> DEFINE t == Tail(q)
<1> HIDE DEF t
<1>2. \A i, k \in 1 .. Len(t) : i < k => Before(t[i], t[k])
  <2> SUFFICES ASSUME NEW i \in 1 .. Len(t), NEW k \in 1 .. Len(t), i < k
               PROVE  Before(t[i], t[k])
    OBVIOUS
  <2>1. t[i] = q[i + 1] /\ t[k] = q[k + 1]
        /\ i + 1 \in 1 .. Len(q) /\ k + 1 \in 1 .. Len(q) /\ i + 1 < k + 1
    BY <1>1 DEF t
  <2> QED BY <2>1 DEF Ordered
<1>3. ASSUME NEW e \in Elems(t) PROVE Before(q[1], e)
  <2>1. PICK i \in 1 .. Len(t) : e = t[i]
    BY DEF Elems
  <2>2. e = q[i + 1] /\ 1 \in 1 .. Len(q) /\ i + 1 \in 1 .. Len(q) /\ 1 < i + 1
    BY <1>1, <2>1 DEF t
  <2> QED BY <2>2 DEF Ordered
<1>4. Elems(t) = {} => t = <<>>
  <2>1. t \in Seq(S)
    BY <1>1 DEF t
  <2>2. t # <<>> => 1 \in 1 .. Len(t)
    BY <2>1
  <2> QED BY <2>2 DEF Elems
<1> QED BY <1>1, <1>2, <1>3, <1>4 DEF Ordered, t
-----------------------------------------------------------------------------
(* Types of the parts.                                                     *)

LEMMA Constants ==
    /\ NumBlocks \in Nat /\ NumBlocks >= 1 /\ OpLimit \in Nat /\ FirstOp = 4
    /\ OpLimit >= FirstOp /\ FirstOp \in Ops /\ Ops \subseteq Nat
    /\ 0 \in Blocks /\ 1 \in 1 .. NumBlocks /\ Blocks \subseteq Nat
    /\ Original \in Values /\ Garbage \in Values /\ Ops \subseteq Values
BY DiskConstants DEF FirstOp, Ops, Blocks, Values

LEMMA Defaults ==
    /\ NoCall \in Call /\ NoData \in [Blocks -> Values]
    /\ NoResult \in [kind : Kinds \cup {"none"}, ok : BOOLEAN,
                     blocks : SUBSET Blocks, data : [Blocks -> Values]]
<1>1. NoCall \in Call
  BY Constants DEF NoCall, Call, Kinds
<1>2. NoData \in [Blocks -> Values]
  BY Constants DEF NoData
<1> QED BY <1>1, <1>2 DEF NoResult

LEMMA CallFields ==
    ASSUME NEW c \in Call
    PROVE  /\ c.kind \in Kinds /\ c.op \in Ops /\ c.op \in Nat
           /\ c.start \in Blocks /\ c.start \in Nat
           /\ c.n \in 1 .. NumBlocks /\ c.n \in Nat /\ c.n >= 1
<1>1. c.kind \in Kinds /\ c.op \in Ops /\ c.start \in Blocks /\ c.n \in 1 .. NumBlocks
  BY DEF Call
<1> QED BY <1>1, Constants DEF Ops, Blocks

LEMMA ExtentType ==
    ASSUME NEW c \in Call, c.start + c.n <= NumBlocks
    PROVE  Extent(c) \subseteq Blocks
BY CallFields, Constants DEF Extent, Blocks

LEMMA RequestFields ==
    ASSUME NEW m \in Request
    PROVE  /\ m.kind \in Kinds \cup {"SESSION_COMPLETE"} /\ m.op \in Ops
           /\ m.op \in Nat /\ m.start \in Blocks /\ m.start \in Nat
           /\ m.n \in 1 .. NumBlocks /\ m.n \in Nat /\ m.n >= 1
           /\ m.frag \in Blocks /\ m.frag \in Nat /\ m.torn \in BOOLEAN
<1>1. /\ m.kind \in Kinds \cup {"SESSION_COMPLETE"} /\ m.op \in Ops
      /\ m.start \in Blocks /\ m.n \in 1 .. NumBlocks /\ m.frag \in Blocks
      /\ m.torn \in BOOLEAN
  BY DEF Request
<1>2. m.op \in Nat /\ m.start \in Nat /\ m.frag \in Nat /\ m.n \in Nat /\ m.n >= 1
  BY <1>1, Constants DEF Ops, Blocks
<1> QED BY <1>1, <1>2

LEMMA MessageType ==
    ASSUME NEW c \in Call, NEW f \in Blocks
    PROVE  LET m == Message(c, f) IN
           /\ m \in Request /\ m.kind = c.kind /\ m.op = c.op /\ m.start = c.start
           /\ m.n = c.n /\ m.frag = f /\ m.torn = FALSE
BY CallFields DEF Message, Request

LEMMA TornType ==
    ASSUME NEW m \in Request
    PROVE  LET t == [m EXCEPT !.torn = TRUE] IN
           /\ t \in Request /\ t.kind = m.kind /\ t.op = m.op /\ t.start = m.start
           /\ t.n = m.n /\ t.frag = m.frag /\ t.torn = TRUE
BY DEF Request

LEMMA TornRequest ==
    ASSUME NEW m \in Request
    PROVE  \E t \in Request :
              /\ t = [m EXCEPT !.torn = TRUE] /\ t.kind = m.kind /\ t.op = m.op
              /\ t.start = m.start /\ t.n = m.n /\ t.frag = m.frag /\ t.torn = TRUE
<1>1. PICK t : t = [m EXCEPT !.torn = TRUE]
  OBVIOUS
<1>2. /\ t \in Request /\ t.kind = m.kind /\ t.op = m.op /\ t.start = m.start
      /\ t.n = m.n /\ t.frag = m.frag /\ t.torn = TRUE
  BY <1>1 DEF Request
<1> QED BY <1>1, <1>2

LEMMA NextOpIdType ==
    ASSUME op_id \in Ops
    PROVE  /\ NextOpId \in Ops /\ op_id <= NextOpId
           /\ NextOpId = op_id + 1 /\ op_id < NextOpId
           /\ op_id \in Nat /\ NextOpId \in Nat
BY Constants DEF NextOpId, Ops

\* What ends a call: the variables of the client that no longer depend on it.
LEMMA EndedType ==
    ASSUME TypeOK, NEW c \in Call, NEW ok \in BOOLEAN, NEW d \in [Blocks -> Values],
           c.start + c.n <= NumBlocks, End(c, ok, d)
    PROVE  /\ pc' = "idle" /\ call' \in Call /\ sent' \in 0 .. NumBlocks
           /\ seen' \subseteq Blocks /\ data' \in [Blocks -> Values]
           /\ last' \in [kind : Kinds \cup {"none"}, ok : BOOLEAN,
                         blocks : SUBSET Blocks, data : [Blocks -> Values]]
           /\ last'.kind = c.kind /\ last'.ok = ok /\ last'.data = d
           /\ last'.blocks = IF ok THEN Extent(c) ELSE {}
           /\ sock' = IF c.kind \in {"read", "write"} THEN sock ELSE "closed"
           /\ sock' \in {"open", "closed"}
<1>1. /\ pc' = "idle" /\ call' = NoCall /\ sent' = 0 /\ seen' = {} /\ data' = NoData
      /\ last' = [kind |-> c.kind, ok |-> ok, data |-> d,
                  blocks |-> IF ok THEN Extent(c) ELSE {}]
      /\ sock' = IF c.kind \in {"read", "write"} THEN sock ELSE "closed"
  BY DEF End, Ended
<1>2. (IF ok THEN Extent(c) ELSE {}) \in SUBSET Blocks
  BY ExtentType
<1>3. c.kind \in Kinds /\ sock \in {"open", "closed"} /\ 0 \in 0 .. NumBlocks
  BY CallFields, Constants DEF TypeOK
<1> QED BY <1>1, <1>2, <1>3, Defaults
-----------------------------------------------------------------------------
(* A call ends, begins, or goes on: what all the actions of the client     *)
(* have in common.                                                         *)

\* Requests and replies that were good stay so when ids go up and the history
\* grows.
LEMMA StillGood ==
    ASSUME DiskInv, op_id' \in Ops, op_id <= op_id',
           UNCHANGED <<fileOpen, sessionOpen>>,
           \A b \in Blocks : maybe[b] \subseteq maybe'[b]
    PROVE  /\ \A m \in Elems(toServer) : GoodRequest(m)'
           /\ \A h \in jobs \cup Elems(toClient) : GoodReply(h)'
<1>0. op_id \in Nat /\ op_id' \in Nat
  BY Constants DEF DiskInv, TypeOK
<1>1. ASSUME NEW m \in Elems(toServer) PROVE GoodRequest(m)'
  <2>1. m \in Request /\ GoodRequest(m)
    BY AppendElems DEF DiskInv, TypeOK, Elems
  <2>2. Place(m) \in Blocks /\ m.op \in Nat
    BY <2>1, RequestFields, Constants DEF GoodRequest, Place, Blocks
  <2> QED BY <1>0, <2>1, <2>2 DEF GoodRequest
<1>2. ASSUME NEW h \in jobs \cup Elems(toClient) PROVE GoodReply(h)'
  <2>1. h \in Reply /\ GoodReply(h)
    BY DEF DiskInv, TypeOK, Elems
  <2>2. h.op \in Nat
    BY <2>1, Constants DEF Reply
  <2> QED BY <1>0, <2>1, <2>2 DEF GoodReply
<1> QED BY <1>1, <1>2

\* The client is idle again, whatever it did.
LEMMA IdleStep ==
    ASSUME DiskInv, pc' = "idle", TypeOK', op_id <= op_id',
           UNCHANGED <<jobs, fileOpen, sessionOpen>>,
           \A m \in Elems(toServer') : GoodRequest(m)',
           Ordered(toServer'),
           Elems(toClient') \subseteq Elems(toClient),
           sync' = "mid" => toClient' # <<>>,
           closed' => sock' = "closed",
           AckedWritesSurvive', NoStaleRead', OrderlyClose'
    PROVE  DiskInv'
<1>1. Underway' /\ Reading' /\ Closing' /\ InFrame'
  BY DEF Underway, Reading, Closing, InFrame, Busy
<1>2. op_id \in Nat /\ op_id' \in Nat
  BY Constants DEF DiskInv, TypeOK
<1>3. ASSUME NEW h \in jobs \cup Elems(toClient) PROVE GoodReply(h)'
  <2>1. h \in Reply /\ GoodReply(h)
    BY DEF DiskInv, TypeOK, Elems
  <2>2. h.op \in Nat
    BY <2>1, Constants DEF Reply
  <2> QED BY <1>2, <2>1, <2>2 DEF GoodReply
<1>4. \A m : MyRequest(m)' /\ MyReplyGood(m)' /\ Sampled(m)'
  BY DEF MyRequest, MyReplyGood, Sampled, Busy
<1>5. \A m \in Elems(toServer)' : GoodRequest(m)' /\ MyRequest(m)'
  BY <1>4 DEF Elems
<1>6. \A h \in jobs' : GoodReply(h)' /\ MyReplyGood(h)'
  BY <1>3, <1>4
<1>7. \A h \in Elems(toClient)' : GoodReply(h)' /\ MyReplyGood(h)' /\ Sampled(h)'
  BY <1>3, <1>4 DEF Elems
<1> QED BY <1>1, <1>5, <1>6, <1>7 DEF DiskInv, Ordered

\* A call raises; a part of request m may have gone out.
LEMMA FailStep ==
    ASSUME DiskInv, NEW c \in Call, c.start + c.n <= NumBlocks, Fail(c),
           NEW m \in Request,
           \/ toServer' = toServer
           \/ /\ toServer' = Append(toServer, m) /\ GoodRequest(m)'
              /\ \A k \in Elems(toServer) : Before(k, m),
           op_id' \in Ops, op_id <= op_id', closed' \in BOOLEAN,
           closed' => c.kind \notin {"read", "write"} \/ sock = "closed",
           toClient' \in Seq(Reply), Elems(toClient') \subseteq Elems(toClient),
           sync' \in {"frame", "mid"}, sync' = "mid" => toClient' # <<>>,
           maybe' \in [Blocks -> SUBSET Values],
           \A b \in Blocks : maybe[b] \subseteq maybe'[b],
           UNCHANGED <<linkUp, server, acked>>
    PROVE  DiskInv'
<1>0. UNCHANGED <<linkUp, disk, jobs, fileOpen, sessionOpen, acked>>
  BY DEF server
<1>1. /\ pc' = "idle" /\ call' \in Call /\ sent' \in 0 .. NumBlocks
      /\ seen' \subseteq Blocks /\ data' \in [Blocks -> Values]
      /\ last' \in [kind : Kinds \cup {"none"}, ok : BOOLEAN,
                    blocks : SUBSET Blocks, data : [Blocks -> Values]]
      /\ last'.kind = c.kind /\ last'.ok = FALSE /\ last'.blocks = {}
      /\ sock' = IF c.kind \in {"read", "write"} THEN sock ELSE "closed"
      /\ sock' \in {"open", "closed"}
  BY EndedType, Defaults DEF Fail, DiskInv
<1>2. /\ toServer \in Seq(Request) /\ toServer' \in Seq(Request)
      /\ \A k \in Elems(toServer') : GoodRequest(k)'
      /\ Ordered(toServer')
  <2>1. toServer \in Seq(Request) /\ Ordered(toServer)
    BY DEF DiskInv, TypeOK
  <2>2. \A k \in Elems(toServer) : GoodRequest(k)'
    BY <1>0, StillGood
  <2>3. CASE toServer' = toServer
    BY <2>1, <2>2, <2>3
  <2>4. CASE /\ toServer' = Append(toServer, m) /\ GoodRequest(m)'
             /\ \A k \in Elems(toServer) : Before(k, m)
    <3>1. toServer' \in Seq(Request) /\ Elems(toServer') = Elems(toServer) \cup {m}
      BY <2>1, <2>4, AppendElems
    <3>2. Ordered(toServer')
      BY <2>1, <2>4, AppendOrdered
    <3> QED BY <2>1, <2>2, <2>4, <3>1, <3>2
  <2> QED BY <2>3, <2>4
<1>3. TypeOK'
  BY <1>0, <1>1, <1>2 DEF DiskInv, TypeOK
<1>4. AckedWritesSurvive'
  BY <1>0 DEF DiskInv, AckedWritesSurvive, Known
<1>5. NoStaleRead' /\ OrderlyClose'
  BY <1>1 DEF NoStaleRead, OrderlyClose
<1> QED BY <1>0, <1>1, <1>2, <1>3, <1>4, <1>5, IdleStep

\* SendFails leaves the requests as they are or adds a torn one.
LEMMA SendFailsAdds ==
    ASSUME NEW c, NEW m, SendFails(c, m)
    PROVE  \/ toServer' = toServer
           \/ toServer' = Append(toServer, [m EXCEPT !.torn = TRUE]) /\ c.op < OpLimit
BY DEF SendFails

\* A call begins, with the id that is due, and may send its first request.
LEMMA BeginStep ==
    ASSUME DiskInv, NEW c \in Call, c.op = op_id, c.start + c.n <= NumBlocks,
           NEW p \in {"read", "write", "reply"}, Begin(c, p), op_id' = NextOpId,
           p = "read" <=> c.kind = "read", p = "write" <=> c.kind = "write",
           \/ toServer' = toServer
           \/ /\ toServer' = Append(toServer, Message(c, 0)) /\ op_id < OpLimit
              /\ c.kind # "write",
           closed' \in BOOLEAN,
           closed' => c.kind \notin {"read", "write"} \/ sock = "closed",
           c.kind \in {"CLOSE_FILE", "CLOSE_SESSION"} => closed',
           c.kind = "CLOSE_SESSION" => ~fileOpen,
           toClient' \in Seq(Reply), Elems(toClient') \subseteq Elems(toClient),
           sync' \in {"frame", "mid"}, sync' = "mid" => toClient' # <<>>,
           UNCHANGED <<linkUp, server, history>>
    PROVE  DiskInv'
<1>0. UNCHANGED <<linkUp, disk, jobs, fileOpen, sessionOpen, acked, maybe>>
  BY DEF server, history
<1>1. /\ pc' = p /\ call' = c /\ sent' = 0 /\ seen' = {} /\ data' = NoData
      /\ last' = NoResult /\ sock' = sock
  BY DEF Begin
<1>2. /\ op_id \in Nat /\ op_id' \in Ops /\ op_id <= op_id' /\ op_id' \in Nat
      /\ op_id' = op_id + 1 /\ op_id < op_id'
  BY NextOpIdType, Constants DEF DiskInv, TypeOK
<1>3. /\ c.kind \in Kinds /\ c.n \in 1 .. NumBlocks /\ c.n >= 1 /\ c.n \in Nat
      /\ c.start \in Nat
  BY CallFields
<1>4. toServer \in Seq(Request) /\ Elems(toServer) \subseteq Request
      /\ Ordered(toServer)
  BY DEF DiskInv, TypeOK, Elems
<1>5. \A m \in Elems(toServer) : m.op \in Nat /\ m.op < c.op /\ GoodRequest(m)'
  <2>1. \A m \in Elems(toServer) : m \in Request /\ GoodRequest(m)
    BY <1>4 DEF DiskInv
  <2>2. \A m \in Elems(toServer) : GoodRequest(m)'
    BY <1>0, <1>2, StillGood
  <2> QED BY <2>1, <2>2, RequestFields DEF GoodRequest
<1>6. \A h \in jobs \cup Elems(toClient) : h.op < c.op /\ h.op \in Nat /\ GoodReply(h)'
  <2>1. \A h \in jobs \cup Elems(toClient) : h \in Reply /\ GoodReply(h)
    BY DEF DiskInv, TypeOK, Elems
  <2>2. \A h \in jobs \cup Elems(toClient) : GoodReply(h)'
    BY <1>0, <1>2, StillGood
  <2>3. \A h \in jobs \cup Elems(toClient) : h.op \in Nat
    BY <2>1, Constants DEF Reply
  <2> QED BY <2>1, <2>2, <2>3 DEF GoodReply
<1>7. /\ toServer' \in Seq(Request) /\ Ordered(toServer')
      /\ \A m \in Elems(toServer') : GoodRequest(m)' /\ MyRequest(m)'
  <2>1. \A m \in Elems(toServer) : MyRequest(m)'
    BY <1>1, <1>2, <1>5 DEF MyRequest
  <2>2. CASE toServer' = toServer
    BY <1>4, <1>5, <2>1, <2>2
  <2>3. CASE /\ toServer' = Append(toServer, Message(c, 0)) /\ op_id < OpLimit
             /\ c.kind # "write"
    <3> DEFINE m == Message(c, 0)
    <3>1. /\ m \in Request /\ m.kind = c.kind /\ m.op = c.op /\ m.start = c.start
          /\ m.n = c.n /\ m.frag = 0 /\ m.torn = FALSE
      BY MessageType, Constants
    <3> HIDE DEF m
    <3>2. GoodRequest(m)' /\ MyRequest(m)'
      BY <1>1, <1>2, <1>3, <2>3, <3>1 DEF GoodRequest, MyRequest
    <3>3. \A k \in Elems(toServer) : Before(k, m)
      BY <1>5, <3>1 DEF Before
    <3>4. toServer' = Append(toServer, m)
      BY <2>3 DEF m
    <3>5. toServer' \in Seq(Request) /\ Elems(toServer') = Elems(toServer) \cup {m}
      BY <1>4, <3>1, <3>4, AppendElems
    <3>6. Ordered(toServer')
      BY <1>4, <3>1, <3>3, <3>4, AppendOrdered
    <3> QED BY <1>5, <2>1, <3>2, <3>5, <3>6
  <2> QED BY <2>2, <2>3
<1>8. TypeOK'
  <2>1. sent' \in 0 .. NumBlocks /\ seen' \subseteq Blocks
    BY <1>1, Constants
  <2> QED BY <1>0, <1>1, <1>2, <1>7, <2>1, Defaults DEF DiskInv, TypeOK
<1>9. Underway' /\ Closing' /\ InFrame'
  BY <1>0, <1>1, <1>2, <1>3, Constants DEF Underway, Closing, InFrame, Busy
<1>10. Reading'
  BY <1>1 DEF Reading, NoData
<1>11. \A h \in jobs \cup Elems(toClient) :
          GoodReply(h)' /\ MyReplyGood(h)' /\ Sampled(h)'
  BY <1>1, <1>2, <1>6 DEF MyReplyGood, Sampled
<1>12. AckedWritesSurvive'
  BY <1>0 DEF DiskInv, AckedWritesSurvive, Known
<1>13. NoStaleRead' /\ OrderlyClose'
  BY <1>1 DEF NoStaleRead, OrderlyClose, NoResult
<1>14. \A h \in jobs' : GoodReply(h)' /\ MyReplyGood(h)'
  BY <1>0, <1>11
<1>15. \A h \in Elems(toClient') : GoodReply(h)' /\ MyReplyGood(h)' /\ Sampled(h)'
  BY <1>11
<1> QED
  BY <1>7, <1>8, <1>9, <1>10, <1>12, <1>13, <1>14, <1>15 DEF DiskInv, Elems, Ordered

\* A call sends its only request, or fails to.
LEMMA SendStep ==
    ASSUME DiskInv, NEW c \in Call, c.op = op_id, c.start + c.n <= NumBlocks,
           NEW p \in {"read", "reply"}, op_id' = NextOpId,
           \/ SendOk(c, Message(c, 0)) /\ Begin(c, p)
           \/ SendFails(c, Message(c, 0)) /\ Fail(c),
           p = "read" <=> c.kind = "read", c.kind # "write",
           closed' \in BOOLEAN,
           closed' => c.kind \notin {"read", "write"} \/ sock = "closed",
           c.kind \in {"CLOSE_FILE", "CLOSE_SESSION"} => closed',
           c.kind = "CLOSE_SESSION" => ~fileOpen,
           toClient' \in Seq(Reply), Elems(toClient') \subseteq Elems(toClient),
           sync' \in {"frame", "mid"}, sync' = "mid" => toClient' # <<>>,
           UNCHANGED <<linkUp, server, history>>
    PROVE  DiskInv'
<1>1. CASE SendOk(c, Message(c, 0)) /\ Begin(c, p)
  <2>1. \/ toServer' = toServer
        \/ toServer' = Append(toServer, Message(c, 0)) /\ op_id < OpLimit
    BY <1>1 DEF SendOk
  <2> QED BY <1>1, <2>1, BeginStep
<1>2. CASE SendFails(c, Message(c, 0)) /\ Fail(c)
  <2> DEFINE t == [Message(c, 0) EXCEPT !.torn = TRUE]
  <2>1. /\ t \in Request /\ t.kind = c.kind /\ t.op = c.op /\ t.start = c.start
        /\ t.n = c.n /\ t.frag = 0
    <3> DEFINE m == Message(c, 0)
    <3>1. /\ m \in Request /\ m.kind = c.kind /\ m.op = c.op /\ m.start = c.start
          /\ m.n = c.n /\ m.frag = 0
      BY MessageType, Constants
    <3> HIDE DEF m
    <3>2. LET u == [m EXCEPT !.torn = TRUE] IN
          /\ u \in Request /\ u.kind = m.kind /\ u.op = m.op /\ u.start = m.start
          /\ u.n = m.n /\ u.frag = m.frag
      BY <3>1, TornType
    <3> QED BY <3>1, <3>2 DEF m
  <2>2. toServer' = toServer \/ (toServer' = Append(toServer, t) /\ op_id < OpLimit)
    BY <1>2, SendFailsAdds
  <2> HIDE DEF t
  <2>3. /\ op_id \in Nat /\ op_id' \in Ops /\ op_id <= op_id' /\ 0 < c.n
        /\ op_id < op_id'
    BY NextOpIdType, CallFields, Constants DEF DiskInv, TypeOK
  <2>4. op_id < OpLimit => GoodRequest(t)'
    BY <2>1, <2>3, Zenon DEF GoodRequest
  <2>5. \A k \in Elems(toServer) : Before(k, t)
    <3>1. \A k \in Elems(toServer) : GoodRequest(k)
      BY DEF DiskInv
    <3> QED BY <2>1, <3>1 DEF GoodRequest, Before
  <2>6. UNCHANGED <<maybe, acked>> /\ maybe' \in [Blocks -> SUBSET Values]
    BY DEF history, DiskInv, TypeOK
  <2> QED BY <1>2, <2>1, <2>2, <2>3, <2>4, <2>5, <2>6, FailStep
<1> QED BY <1>1, <1>2

\* Nothing is read from the socket.
LEMMA NothingReceived ==
    ASSUME DiskInv, UNCHANGED <<toClient, sync>>
    PROVE  /\ toClient' \in Seq(Reply) /\ Elems(toClient') \subseteq Elems(toClient)
           /\ sync' \in {"frame", "mid"} /\ (sync' = "mid" => toClient' # <<>>)
BY DEF DiskInv, TypeOK, InFrame

LEMMA IdleClosed ==
    ASSUME DiskInv, pc = "idle" PROVE closed \in BOOLEAN /\ (closed => sock = "closed")
BY DEF DiskInv, TypeOK, Closing, Busy

LEMMA ReadStep ==
    ASSUME DiskInv, NEW s \in Blocks, NEW n \in 1 .. NumBlocks, s + n <= NumBlocks,
           Read(s, n)
    PROVE  DiskInv'
<1> DEFINE c == [kind |-> "read", op |-> op_id, start |-> s, n |-> n]
<1>1. /\ c \in Call /\ c.op = op_id /\ c.start + c.n <= NumBlocks /\ c.kind = "read"
  BY DEF Call, Kinds, DiskInv, TypeOK
<1>2. /\ pc = "idle" /\ op_id' = NextOpId
      /\ \/ SendOk(c, Message(c, 0)) /\ Begin(c, "read")
         \/ SendFails(c, Message(c, 0)) /\ Fail(c)
      /\ UNCHANGED <<closed, toClient, sync, linkUp, server, history>>
  BY DEF Read
<1> HIDE DEF c
<1> QED BY <1>1, <1>2, NothingReceived, IdleClosed, SendStep

LEMMA CloseStep == ASSUME DiskInv, Close PROVE DiskInv'
<1> DEFINE c == [kind |-> "CLOSE_FILE", op |-> op_id, start |-> 0, n |-> 1]
<1>1. c \in Call /\ c.op = op_id /\ c.start + c.n <= NumBlocks /\ c.kind = "CLOSE_FILE"
  BY Constants DEF Call, Kinds, DiskInv, TypeOK
<1>2. /\ op_id' = NextOpId /\ closed' = TRUE
      /\ \/ SendOk(c, Message(c, 0)) /\ Begin(c, "reply")
         \/ SendFails(c, Message(c, 0)) /\ Fail(c)
      /\ UNCHANGED <<toClient, sync, linkUp, server, history>>
  BY DEF Close
<1> HIDE DEF c
<1> QED BY <1>1, <1>2, NothingReceived, SendStep

LEMMA WriteStep ==
    ASSUME DiskInv, NEW s \in Blocks, NEW n \in 1 .. NumBlocks, s + n <= NumBlocks,
           Write(s, n)
    PROVE  DiskInv'
<1> DEFINE c == [kind |-> "write", op |-> op_id, start |-> s, n |-> n]
<1>1. /\ c \in Call /\ c.op = op_id /\ c.start + c.n <= NumBlocks /\ c.kind = "write"
  BY DEF Call, Kinds, DiskInv, TypeOK
<1>2. /\ pc = "idle" /\ op_id' = NextOpId /\ Begin(c, "write")
      /\ UNCHANGED <<closed, toServer, toClient, sync, linkUp, server, history>>
  BY DEF Write, wire
<1> HIDE DEF c
<1> QED BY <1>1, <1>2, NothingReceived, IdleClosed, BeginStep

\* A frame is taken, in part or as a whole.
LEMMA Consumed ==
    ASSUME DiskInv, NEW h, toClient # <<>>, h = Head(toClient)
    PROVE  /\ h \in Reply /\ h \in Elems(toClient) /\ Tail(toClient) \in Seq(Reply)
           /\ Elems(Tail(toClient)) \subseteq Elems(toClient)
<1>1. toClient \in Seq(Reply)
  BY DEF DiskInv, TypeOK
<1> QED BY <1>1, TailElems

LEMMA ReplyConsumed ==
    ASSUME DiskInv, NEW h, NEW p, Receiving(p, h), ConsumeReply(h)
    PROVE  /\ h \in Reply /\ h \in Elems(toClient) /\ pc = p
           /\ toClient' \in Seq(Reply) /\ Elems(toClient') \subseteq Elems(toClient)
           /\ sync' \in {"frame", "mid"} /\ (sync' = "mid" => toClient' # <<>>)
<1>1. pc = p /\ sync = "frame" /\ toClient # <<>> /\ h = Head(toClient)
  BY DEF Receiving
<1>2. /\ h \in Reply /\ h \in Elems(toClient) /\ Tail(toClient) \in Seq(Reply)
      /\ Elems(Tail(toClient)) \subseteq Elems(toClient) /\ toClient \in Seq(Reply)
  BY <1>1, Consumed DEF DiskInv, TypeOK
<1> QED BY <1>1, <1>2 DEF ConsumeReply

\* The call in progress raises and sends nothing.
LEMMA GiveUp ==
    ASSUME DiskInv, Busy, Fail(call),
           toClient' \in Seq(Reply), Elems(toClient') \subseteq Elems(toClient),
           sync' \in {"frame", "mid"}, sync' = "mid" => toClient' # <<>>,
           UNCHANGED <<op_id, closed, toServer, linkUp, server, history>>
    PROVE  DiskInv'
<1>1. call \in Call /\ call.start + call.n <= NumBlocks /\ op_id \in Ops
      /\ op_id \in Nat /\ closed \in BOOLEAN
      /\ (closed => call.kind \notin {"read", "write"} \/ sock = "closed")
  BY Constants DEF DiskInv, TypeOK, Underway, Closing
<1>2. UNCHANGED <<acked, maybe>> /\ maybe' \in [Blocks -> SUBSET Values]
  BY DEF history, DiskInv, TypeOK
<1>3. Message(call, 0) \in Request
  BY <1>1, MessageType, Constants
<1>4. op_id' \in Ops /\ op_id <= op_id' /\ closed' \in BOOLEAN
  BY <1>1
<1> QED BY <1>1, <1>2, <1>3, <1>4, FailStep

LEMMA RejectStep ==
    ASSUME DiskInv, NEW h, RejectFragment(h) \/ RejectReply(h) PROVE DiskInv'
<1>1. CASE RejectFragment(h)
  <2>1. pc = "read" /\ toClient # <<>> /\ h = Head(toClient) /\ sync = "frame"
    BY <1>1 DEF RejectFragment, Receiving
  <2>2. /\ toClient' \in Seq(Reply) /\ Elems(toClient') \subseteq Elems(toClient)
        /\ sync' \in {"frame", "mid"} /\ (sync' = "mid" => toClient' # <<>>)
    BY <1>1, <2>1, Consumed DEF RejectFragment, DiskInv, TypeOK
  <2> QED BY <1>1, <2>1, <2>2, GiveUp DEF RejectFragment, Busy
<1>2. CASE RejectReply(h)
  BY <1>2, ReplyConsumed, GiveUp DEF RejectReply, Busy
<1> QED BY <1>1, <1>2

LEMMA RecvFailsStep ==
    ASSUME DiskInv, RecvMisaligned \/ RecvTimeout \/ RecvEof PROVE DiskInv'
<1>1. Busy /\ Fail(call) /\ UNCHANGED <<op_id, closed, toServer, linkUp, server, history>>
  BY DEF RecvMisaligned, RecvTimeout, RecvEof, Busy, wire
<1>2. toClient \in Seq(Reply) /\ sync \in {"frame", "mid"}
      /\ (sync = "mid" => toClient # <<>>)
  BY DEF DiskInv, TypeOK, InFrame
<1>3. CASE RecvMisaligned
  <2>1. toClient # <<>>
    BY <1>2, <1>3 DEF RecvMisaligned
  <2>2. Len(toClient) > 1 => Tail(toClient) # <<>>
    BY <1>2, LongTail
  <2>3. /\ toClient' \in Seq(Reply) /\ Elems(toClient') \subseteq Elems(toClient)
        /\ sync' \in {"frame", "mid"} /\ (sync' = "mid" => toClient' # <<>>)
    BY <1>2, <1>3, <2>1, <2>2, Consumed DEF RecvMisaligned
  <2> QED BY <1>1, <2>3, GiveUp
<1>4. CASE RecvTimeout
  <2>1. /\ toClient' = toClient
        /\ sync' \in {"frame", "mid"} /\ (sync' = "mid" => toClient' # <<>>)
    BY <1>2, <1>4 DEF RecvTimeout
  <2> QED BY <1>1, <1>2, <2>1, GiveUp
<1>5. CASE RecvEof
  BY <1>1, <1>5, NothingReceived, GiveUp DEF RecvEof, wire
<1> QED BY <1>3, <1>4, <1>5
-----------------------------------------------------------------------------
(* The other actions of the client.                                        *)

LEMMA AppendDiffers ==
    ASSUME NEW S, NEW q \in Seq(S), NEW m \in S PROVE Append(q, m) # q
<1>1. Len(Append(q, m)) = Len(q) + 1 /\ Len(q) \in Nat
  OBVIOUS
<1> QED BY <1>1

\* The fragment that write sends next.
LEMMA NextFragment ==
    ASSUME DiskInv, pc = "write"
    PROVE  /\ call \in Call /\ call.kind = "write" /\ call.start + call.n <= NumBlocks
           /\ sent \in Nat /\ sent < call.n /\ sent \in Blocks /\ sent + 1 \in 0 .. NumBlocks
           /\ call.start + sent \in Blocks /\ call.op \in Values
           /\ call.op \in Nat /\ call.n \in Nat /\ call.start \in Nat
           /\ op_id = call.op + 1
           /\ op_id \in Ops /\ op_id \in Nat
<1>1. /\ call \in Call /\ call.kind = "write" /\ call.start + call.n <= NumBlocks
      /\ sent \in 0 .. NumBlocks /\ sent < call.n /\ op_id \in Ops
      /\ op_id = call.op + 1
  BY DEF DiskInv, TypeOK, Underway, Busy
<1>2. call.op \in Ops /\ call.n \in 1 .. NumBlocks /\ call.start \in Nat
      /\ call.op \in Nat /\ call.n \in Nat
  BY <1>1, CallFields
<1>3. call.op \in Values /\ op_id \in Nat
  BY <1>1, <1>2, Constants
<1> QED BY <1>1, <1>2, <1>3, Constants DEF Blocks

\* No request in flight was sent after the ones of the write in progress.
LEMMA FragmentsBefore ==
    ASSUME DiskInv, pc = "write", call.op < OpLimit, NEW m \in Request,
           m.kind = "write", m.op = call.op, m.start = call.start, m.n = call.n,
           m.frag = sent
    PROVE  \A k \in Elems(toServer) : Before(k, m)
<1> SUFFICES ASSUME NEW k \in Elems(toServer) PROVE Before(k, m)
  OBVIOUS
<1>1. k \in Request /\ GoodRequest(k) /\ MyRequest(k)
  BY DEF DiskInv, TypeOK, Elems
<1>2. k.op \in Nat /\ k.op < op_id /\ op_id = call.op + 1 /\ call.op \in Nat
  BY <1>1, NextFragment, RequestFields DEF GoodRequest
<1>3. CASE k.op = call.op
  BY <1>1, <1>3, NextFragment DEF MyRequest, Busy, Before
<1>4. CASE k.op < call.op
  BY <1>4 DEF Before
<1> QED BY <1>2, <1>3, <1>4

LEMMA WriteFragmentStep == ASSUME DiskInv, WriteFragment PROVE DiskInv'
<1>0. pc = "write"
  BY DEF WriteFragment
<1>1. /\ call \in Call /\ call.kind = "write" /\ call.start + call.n <= NumBlocks
      /\ sent \in Nat /\ sent < call.n /\ sent \in Blocks /\ sent + 1 \in 0 .. NumBlocks
      /\ call.start + sent \in Blocks /\ call.op \in Values
      /\ call.op \in Nat /\ call.n \in Nat /\ call.start \in Nat
      /\ op_id = call.op + 1
      /\ op_id \in Ops /\ op_id \in Nat
  BY <1>0, NextFragment
<1>2. PICK m \in Request :
         /\ m = Message(call, sent) /\ m.kind = "write" /\ m.op = call.op
         /\ m.start = call.start /\ m.n = call.n /\ m.frag = sent /\ m.torn = FALSE
  <2> DEFINE x == Message(call, sent)
  <2>1. /\ x \in Request /\ x.kind = call.kind /\ x.op = call.op /\ x.start = call.start
        /\ x.n = call.n /\ x.frag = sent /\ x.torn = FALSE /\ x = Message(call, sent)
    BY <1>1, MessageType
  <2> HIDE DEF x
  <2> QED BY <1>1, <2>1
<1>7. PICK b \in Blocks : b = call.start + sent
  BY <1>1
<1>3. /\ toServer \in Seq(Request) /\ Ordered(toServer)
      /\ maybe \in [Blocks -> SUBSET Values] /\ closed \in BOOLEAN
      /\ (closed => sock = "closed")
  BY <1>0, <1>1 DEF DiskInv, TypeOK, Closing
<1>4. UNCHANGED <<op_id, closed, toClient, sync, linkUp, disk, jobs, fileOpen,
                  sessionOpen, acked>>
  BY DEF WriteFragment, server
<1>5. CASE /\ SendOk(call, m) /\ sent' = sent + 1
           /\ pc' = IF AllSent THEN "reply" ELSE "write"
           /\ maybe' = [maybe EXCEPT ![b] = @ \cup {call.op}]
           /\ UNCHANGED <<call, seen, data, last, sock>>
  <2>1. /\ toServer' = toServer \/ toServer' = Append(toServer, m)
        /\ call.op < OpLimit
    BY <1>5 DEF SendOk
  <2>2. /\ maybe' \in [Blocks -> SUBSET Values] /\ call.op \in maybe'[b]
        /\ \A e \in Blocks : maybe[e] \subseteq maybe'[e]
    BY <1>1, <1>3, <1>5
  <2>3. \A k \in Elems(toServer) : GoodRequest(k)' /\ MyRequest(k)'
    <3>1. ASSUME NEW k \in Elems(toServer) PROVE MyRequest(k)'
      <4>1. k \in Request /\ MyRequest(k)
        BY DEF DiskInv, TypeOK, Elems
      <4> QED BY <1>0, <1>1, <1>5, <4>1, RequestFields DEF MyRequest, Busy
    <3> QED BY <1>1, <1>4, <2>2, <3>1, StillGood
  <2>4. GoodRequest(m)' /\ MyRequest(m)'
    <3>1. /\ m.start + m.n <= NumBlocks /\ m.frag < m.n /\ m.op < op_id'
          /\ Place(m) = b /\ Value(m) = call.op /\ m.frag < sent'
      BY <1>1, <1>2, <1>7, <1>4, <1>5, <2>1 DEF Place, Value
    <3>2. GoodRequest(m)'
      BY <2>2, <3>1, Zenon DEF GoodRequest
    <3>3. MyRequest(m)'
      BY <1>1, <1>2, <1>5, <3>1, Zenon DEF MyRequest
    <3> QED BY <3>2, <3>3
  <2>5. /\ toServer' \in Seq(Request) /\ Ordered(toServer')
        /\ \A k \in Elems(toServer') : GoodRequest(k)' /\ MyRequest(k)'
    <3>1. CASE toServer' = toServer
      BY <1>3, <2>3, <3>1
    <3>2. CASE toServer' = Append(toServer, m)
      <4>1. toServer' \in Seq(Request) /\ Elems(toServer') = Elems(toServer) \cup {m}
        BY <1>2, <1>3, <3>2, AppendElems
      <4>2. \A k \in Elems(toServer) : Before(k, m)
        BY <1>0, <1>2, <2>1, FragmentsBefore
      <4>3. Ordered(toServer')
        BY <1>2, <1>3, <3>2, <4>2, AppendOrdered
      <4>4. ASSUME NEW k \in Elems(toServer') PROVE GoodRequest(k)' /\ MyRequest(k)'
        <5>1. k \in Elems(toServer) \/ k = m
          BY <4>1
        <5> QED BY <2>3, <2>4, <5>1
      <4> QED BY <4>1, <4>3, <4>4
    <3> QED BY <2>1, <3>1, <3>2
  <2>6. TypeOK'
    BY <1>1, <1>4, <1>5, <2>2, <2>5 DEF DiskInv, TypeOK
  <2>7. Underway'
    BY <1>0, <1>1, <1>4, <1>5, <2>1 DEF DiskInv, Underway, Busy, AllSent
  <2>8. Reading' /\ Closing' /\ InFrame'
    BY <1>0, <1>3, <1>4, <1>5 DEF DiskInv, Reading, Closing, InFrame
  <2>9. \A h \in jobs \cup Elems(toClient) :
           GoodReply(h)' /\ MyReplyGood(h)' /\ Sampled(h)'
    <3>1. \A h \in jobs \cup Elems(toClient) : h.op # call.op
      BY <1>0, <1>1 DEF DiskInv, MyReplyGood, Busy
    <3>2. \A h \in jobs \cup Elems(toClient) : GoodReply(h)'
      BY <1>1, <1>4, <2>2, StillGood
    <3> QED BY <1>5, <3>1, <3>2 DEF MyReplyGood, Sampled
  <2>10. AckedWritesSurvive'
    BY <1>4, <2>2 DEF DiskInv, AckedWritesSurvive, Known
  <2>11. NoStaleRead' /\ OrderlyClose'
    BY <1>4, <1>5 DEF DiskInv, NoStaleRead, OrderlyClose
  <2> QED
    BY <1>4, <2>5, <2>6, <2>7, <2>8, <2>9, <2>10, <2>11 DEF DiskInv, Elems, Ordered
<1>6. CASE /\ SendFails(call, m) /\ Fail(call)
           /\ maybe' = IF toServer' = toServer THEN maybe
                       ELSE [maybe EXCEPT ![b] = @ \cup {Garbage}]
  <2>2. PICK t \in Request :
           /\ t = [m EXCEPT !.torn = TRUE] /\ t.kind = "write" /\ t.op = call.op
           /\ t.start = call.start /\ t.n = call.n /\ t.frag = sent /\ t.torn = TRUE
    <3>1. PICK u \in Request :
             /\ u = [m EXCEPT !.torn = TRUE] /\ u.torn = TRUE
             /\ u.kind = m.kind /\ u.op = m.op /\ u.start = m.start
             /\ u.n = m.n /\ u.frag = m.frag
      BY TornRequest
    <3>2. /\ u.kind = "write" /\ u.op = call.op /\ u.start = call.start
          /\ u.n = call.n /\ u.frag = sent
      BY <1>2, <3>1
    <3> QED BY <3>1, <3>2, Zenon
  <2>1. toServer' = toServer \/ (toServer' = Append(toServer, t) /\ call.op < OpLimit)
    BY <1>6, <2>2, SendFailsAdds
  <2>3. /\ maybe' \in [Blocks -> SUBSET Values]
        /\ \A e \in Blocks : maybe[e] \subseteq maybe'[e]
        /\ toServer' # toServer => Garbage \in maybe'[b]
    BY <1>1, <1>3, <1>6, Constants
  <2>4. UNCHANGED <<linkUp, server, acked>>
    BY DEF WriteFragment
  <2>7. /\ toClient' \in Seq(Reply) /\ Elems(toClient') \subseteq Elems(toClient)
        /\ sync' \in {"frame", "mid"} /\ (sync' = "mid" => toClient' # <<>>)
        /\ op_id' \in Ops /\ op_id <= op_id' /\ closed' \in BOOLEAN
        /\ closed' => sock = "closed"
    BY <1>1, <1>3, <1>4, NothingReceived
  <2>5. CASE toServer' = toServer
    BY <1>1, <1>6, <2>2, <2>3, <2>4, <2>5, <2>7, FailStep
  <2>6. CASE toServer' = Append(toServer, t) /\ call.op < OpLimit
    <3>1. toServer' # toServer
      BY <1>3, <2>2, <2>6, AppendDiffers
    <3>2. GoodRequest(t)'
      <4>1. /\ t.start + t.n <= NumBlocks /\ t.frag < t.n /\ t.op < op_id'
            /\ Place(t) = b /\ Value(t) = Garbage
        BY <1>1, <1>7, <1>4, <2>2, <2>6 DEF Place, Value
      <4> QED BY <2>3, <3>1, <4>1, Zenon DEF GoodRequest
    <3>3. \A k \in Elems(toServer) : Before(k, t)
      BY <1>0, <2>2, <2>6, FragmentsBefore
    <3> QED
      BY <1>1, <1>6, <2>2, <2>3, <2>4, <2>6, <2>7, <3>2, <3>3, FailStep
  <2> QED BY <2>1, <2>5, <2>6
<1> QED BY <1>2, <1>7, <1>5, <1>6 DEF WriteFragment

\* All of a range has been seen when as many have been seen as it has.
LEMMA AllSeen ==
    ASSUME NEW n \in Nat, n >= 1, NEW S \in SUBSET (0 .. (n - 1)), Cardinality(S) = n
    PROVE  S = 0 .. (n - 1)
<1>1. IsFiniteSet(0 .. (n - 1)) /\ Cardinality(0 .. (n - 1)) = n
  BY FS_Interval
<1> QED BY <1>1, FS_Subset

\* What is known of a fragment that the read in progress accepts.
LEMMA MyFragmentIs ==
    ASSUME DiskInv, NEW h, Receiving("read", h), MyFragment(h)
    PROVE  /\ pc = "read" /\ toServer = <<>> /\ h.frag \in 0 .. (call.n - 1)
           /\ call.start + h.frag \in Blocks /\ h.val = disk[call.start + h.frag]
           /\ Tail(toClient) \in Seq(Reply) /\ sync = "frame"
           /\ Elems(Tail(toClient)) \subseteq Elems(toClient)
           /\ call \in Call /\ call.kind = "read" /\ call.start + call.n <= NumBlocks
           /\ call.n \in Nat /\ call.n >= 1 /\ call.start \in Nat
<1>1. /\ pc = "read" /\ sync = "frame" /\ toClient # <<>> /\ h = Head(toClient)
      /\ h.type = "IO" /\ h.op = call.op /\ h.frag < call.n
  BY DEF Receiving, MyFragment
<1>2. /\ h \in Reply /\ h \in Elems(toClient) /\ Tail(toClient) \in Seq(Reply)
      /\ Elems(Tail(toClient)) \subseteq Elems(toClient)
  BY <1>1, Consumed
<1>3. /\ call \in Call /\ call.kind = "read" /\ call.start + call.n <= NumBlocks
  BY <1>1 DEF DiskInv, TypeOK, Underway, Busy
<1>4. call.n \in Nat /\ call.n >= 1 /\ call.start \in Nat
  BY <1>3, CallFields
<1>5. MyReplyGood(h) /\ Sampled(h)
  BY <1>2 DEF DiskInv
<1>6. toServer = <<>> /\ h.block = call.start + h.frag /\ h.val = disk[h.block]
  BY <1>1, <1>3, <1>5 DEF MyReplyGood, Sampled, Busy
<1>7. h.frag \in 0 .. NumBlocks
  BY <1>2 DEF Reply
<1>8. h.frag \in 0 .. (call.n - 1) /\ call.start + h.frag \in Blocks
  BY <1>1, <1>3, <1>4, <1>7, Constants DEF Blocks
<1> QED BY <1>1, <1>2, <1>3, <1>4, <1>6, <1>8

\* The data of the read after it.
LEMMA FragmentPlaced ==
    ASSUME DiskInv, NEW h, Receiving("read", h), MyFragment(h)
    PROVE  [data EXCEPT ![call.start + h.frag] = h.val] =
               [b \in Blocks |-> IF b - call.start \in seen \cup {h.frag} THEN disk[b]
                                 ELSE Garbage]
<1>1. /\ pc = "read" /\ h.frag \in 0 .. (call.n - 1)
      /\ call.start + h.frag \in Blocks /\ h.val = disk[call.start + h.frag]
      /\ call.start \in Nat
  BY MyFragmentIs
<1>2. data = [b \in Blocks |-> IF b - call.start \in seen THEN disk[b] ELSE Garbage]
  BY <1>1 DEF DiskInv, Reading
<1>3. \A b \in Blocks : b - call.start = h.frag <=> b = call.start + h.frag
  BY <1>1, Constants DEF Blocks
<1> DEFINE p == call.start + h.frag
           old == [b \in Blocks |-> IF b - call.start \in seen THEN disk[b] ELSE Garbage]
           new == [b \in Blocks |-> IF b - call.start \in seen \cup {h.frag} THEN disk[b]
                                    ELSE Garbage]
<1>4. ASSUME NEW b \in Blocks PROVE [old EXCEPT ![p] = h.val][b] = new[b]
  <2>1. CASE b = p
    BY <1>1, <1>3, <2>1
  <2>2. CASE b # p
    <3>1. b - call.start # h.frag
      BY <1>3, <2>2
    <3> QED BY <2>2, <3>1
  <2> QED BY <2>1, <2>2
<1>5. [old EXCEPT ![p] = h.val] = new
  BY <1>4
<1> QED BY <1>2, <1>5

LEMMA RecvFragmentStep == ASSUME DiskInv, NEW h, RecvFragment(h) PROVE DiskInv'
<1> DEFINE d == [data EXCEPT ![call.start + h.frag] = h.val]
<1>0. Receiving("read", h) /\ MyFragment(h)
  BY DEF RecvFragment
<1>1. /\ pc = "read" /\ toServer = <<>> /\ h.frag \in 0 .. (call.n - 1)
      /\ Tail(toClient) \in Seq(Reply) /\ sync = "frame"
      /\ Elems(Tail(toClient)) \subseteq Elems(toClient)
      /\ call \in Call /\ call.kind = "read" /\ call.start + call.n <= NumBlocks
      /\ call.n \in Nat /\ call.n >= 1 /\ call.start \in Nat
  BY <1>0, MyFragmentIs
<1>2. /\ toClient' = Tail(toClient)
      /\ UNCHANGED <<op_id, closed, toServer, sync, linkUp, disk, jobs, fileOpen,
                     sessionOpen, acked, maybe>>
  BY DEF RecvFragment, server, history
<1>3. d = [b \in Blocks |-> IF b - call.start \in seen \cup {h.frag} THEN disk[b]
                            ELSE Garbage]
  BY <1>0, FragmentPlaced
<1> HIDE DEF d
<1>4. /\ seen \subseteq 0 .. (call.n - 1) /\ seen \cup {h.frag} \subseteq 0 .. (call.n - 1)
      /\ disk \in [Blocks -> Values]
  BY <1>1 DEF DiskInv, Reading, TypeOK
<1>5. d \in [Blocks -> Values]
  BY <1>3, <1>4, Constants
<1>6. \A m \in Elems(toServer) : GoodRequest(m) /\ MyRequest(m)
  BY DEF DiskInv
<1>7. op_id \in Ops /\ op_id \in Nat
  BY Constants DEF DiskInv, TypeOK
<1>8. CASE /\ seen' = seen \cup {h.frag} /\ data' = d
           /\ UNCHANGED <<pc, call, sent, last, sock>>
  <2>1. seen' \subseteq Blocks
    BY <1>1, <1>4, <1>8, CallFields, Constants DEF Blocks
  <2>2. TypeOK'
    BY <1>1, <1>2, <1>5, <1>8, <2>1 DEF DiskInv, TypeOK
  <2>3. Underway' /\ Closing' /\ InFrame'
    BY <1>1, <1>2, <1>8 DEF DiskInv, Underway, Closing, InFrame, Busy
  <2>4. Reading'
    BY <1>1, <1>2, <1>3, <1>4, <1>8 DEF Reading
  <2>5. \A k \in jobs \cup Elems(toClient) : GoodReply(k)' /\ MyReplyGood(k)'
    BY <1>2, <1>8 DEF DiskInv, GoodReply, MyReplyGood, Busy, Extent
  <2>6. \A k \in Elems(toClient) : Sampled(k)'
    BY <1>2, <1>8 DEF DiskInv, Sampled
  <2>7. \A m \in Elems(toServer) : GoodRequest(m)' /\ MyRequest(m)'
    BY <1>2, <1>8 DEF DiskInv, GoodRequest, MyRequest, Busy
  <2>8. AckedWritesSurvive' /\ NoStaleRead' /\ OrderlyClose'
    BY <1>1, <1>2, <1>8 DEF DiskInv, AckedWritesSurvive, NoStaleRead, OrderlyClose, Known
  <2>9. /\ \A k \in Elems(toServer)' : GoodRequest(k)' /\ MyRequest(k)'
        /\ Ordered(toServer)'
        /\ \A k \in jobs' : GoodReply(k)' /\ MyReplyGood(k)'
        /\ \A k \in Elems(toClient)' : GoodReply(k)' /\ MyReplyGood(k)' /\ Sampled(k)'
    BY <1>1, <1>2, <2>5, <2>6, <2>7 DEF DiskInv, Elems, Ordered
  <2> QED BY <2>2, <2>3, <2>4, <2>8, <2>9 DEF DiskInv
<1>9. CASE Cardinality(seen \cup {h.frag}) = call.n /\ End(call, TRUE, d)
  <2>1. seen \cup {h.frag} = 0 .. (call.n - 1)
    BY <1>1, <1>4, <1>9, AllSeen
  <2>2. /\ pc' = "idle" /\ call' \in Call /\ sent' \in 0 .. NumBlocks
        /\ seen' \subseteq Blocks /\ data' \in [Blocks -> Values]
        /\ last' \in [kind : Kinds \cup {"none"}, ok : BOOLEAN,
                      blocks : SUBSET Blocks, data : [Blocks -> Values]]
        /\ last'.kind = "read" /\ last'.data = d /\ last'.blocks = Extent(call)
        /\ sock' = sock /\ sock' \in {"open", "closed"}
    BY <1>1, <1>5, <1>9, EndedType DEF DiskInv
  <2>3. TypeOK'
    BY <1>1, <1>2, <2>2 DEF DiskInv, TypeOK
  <2>4. AckedWritesSurvive'
    BY <1>2 DEF DiskInv, AckedWritesSurvive, Known
  <2>5. ASSUME NEW b \in Extent(call) PROVE d[b] \in Known(b)
    <3>1. b \in Blocks /\ b - call.start \in 0 .. (call.n - 1)
      BY <1>1, ExtentType DEF Extent
    <3>2. d[b] = disk[b]
      BY <1>3, <2>1, <3>1
    <3> QED BY <3>1, <3>2 DEF DiskInv, AckedWritesSurvive
  <2>6. NoStaleRead' /\ OrderlyClose'
    BY <1>2, <2>2, <2>5 DEF NoStaleRead, OrderlyClose, Known
  <2>7. /\ \A m \in Elems(toServer') : GoodRequest(m)'
        /\ Ordered(toServer') /\ (closed' => sock' = "closed")
        /\ op_id <= op_id' /\ (sync' = "mid" => toClient' # <<>>)
    BY <1>1, <1>2, <1>7, <2>2, EmptyElems, EmptyOrdered DEF DiskInv, Closing, Busy
  <2> QED
    BY <1>1, <1>2, <2>2, <2>3, <2>4, <2>6, <2>7, IdleStep
<1> QED BY <1>8, <1>9 DEF RecvFragment, d

\* What is known when the reply to the call in progress has come.
LEMMA MyReplyIs ==
    ASSUME DiskInv, NEW h, Receiving("reply", h), MyReply(h), ConsumeReply(h)
    PROVE  /\ pc = "reply" /\ toServer = <<>> /\ h.op = call.op /\ h \in Reply
           /\ h.type = IF call.kind = "write" THEN "IO" ELSE call.kind
           /\ GoodReply(h) /\ MyReplyGood(h)
           /\ toClient' \in Seq(Reply) /\ Elems(toClient') \subseteq Elems(toClient)
           /\ sync' \in {"frame", "mid"} /\ (sync' = "mid" => toClient' # <<>>)
           /\ call \in Call /\ call.start + call.n <= NumBlocks
           /\ op_id \in Ops /\ op_id \in Nat /\ closed \in BOOLEAN
<1>1. /\ h \in Reply /\ h \in Elems(toClient) /\ pc = "reply"
      /\ toClient' \in Seq(Reply) /\ Elems(toClient') \subseteq Elems(toClient)
      /\ sync' \in {"frame", "mid"} /\ (sync' = "mid" => toClient' # <<>>)
  BY ReplyConsumed
<1>2. GoodReply(h) /\ MyReplyGood(h)
  BY <1>1 DEF DiskInv
<1>3. h.op = call.op /\ h.type = IF call.kind = "write" THEN "IO" ELSE call.kind
  BY DEF MyReply
<1>4. toServer = <<>>
  BY <1>1, <1>2, <1>3 DEF MyReplyGood, Busy
<1>5. /\ call \in Call /\ call.start + call.n <= NumBlocks
      /\ op_id \in Ops /\ op_id \in Nat /\ closed \in BOOLEAN
  BY <1>1, Constants DEF DiskInv, TypeOK, Underway, Busy
<1> QED BY <1>1, <1>2, <1>3, <1>4, <1>5

LEMMA WriteDoneStep == ASSUME DiskInv, NEW h, WriteDone(h) PROVE DiskInv'
<1>1. /\ call.kind = "write" /\ End(call, TRUE, NoData)
      /\ acked' = [b \in Blocks |-> IF b \in Extent(call) THEN call.op ELSE acked[b]]
      /\ maybe' = [b \in Blocks |-> IF b \in Extent(call) THEN {} ELSE maybe[b]]
      /\ UNCHANGED <<op_id, closed, toServer, linkUp, disk, jobs, fileOpen, sessionOpen>>
      /\ Receiving("reply", h) /\ MyReply(h) /\ ConsumeReply(h)
  BY DEF WriteDone, server
<1>2. /\ pc = "reply" /\ toServer = <<>> /\ h.op = call.op /\ h.type = "IO"
      /\ GoodReply(h) /\ MyReplyGood(h)
      /\ toClient' \in Seq(Reply) /\ Elems(toClient') \subseteq Elems(toClient)
      /\ sync' \in {"frame", "mid"} /\ (sync' = "mid" => toClient' # <<>>)
      /\ call \in Call /\ call.start + call.n <= NumBlocks
      /\ op_id \in Ops /\ op_id \in Nat /\ closed \in BOOLEAN
  BY <1>1, MyReplyIs
<1>3. \A b \in Extent(call) : disk[b] = call.op
  BY <1>1, <1>2 DEF MyReplyGood, Busy
<1>4. /\ pc' = "idle" /\ call' \in Call /\ sent' \in 0 .. NumBlocks
      /\ seen' \subseteq Blocks /\ data' \in [Blocks -> Values]
      /\ last' \in [kind : Kinds \cup {"none"}, ok : BOOLEAN,
                    blocks : SUBSET Blocks, data : [Blocks -> Values]]
      /\ last'.kind = "write" /\ sock' = sock /\ sock' \in {"open", "closed"}
  BY <1>1, <1>2, EndedType, Defaults DEF DiskInv
<1>5. call.op \in Values
  BY <1>2, CallFields, Constants
<1>6. acked' \in [Blocks -> Values] /\ maybe' \in [Blocks -> SUBSET Values]
  BY <1>1, <1>5 DEF DiskInv, TypeOK
<1>7. TypeOK'
  BY <1>1, <1>2, <1>4, <1>6 DEF DiskInv, TypeOK
<1>8. AckedWritesSurvive'
  BY <1>1, <1>3 DEF DiskInv, AckedWritesSurvive, Known
<1>9. NoStaleRead' /\ OrderlyClose'
  BY <1>4 DEF NoStaleRead, OrderlyClose
<1>10. /\ \A m \in Elems(toServer') : GoodRequest(m)'
       /\ Ordered(toServer') /\ (closed' => sock' = "closed") /\ op_id <= op_id'
  BY <1>1, <1>2, <1>4, EmptyElems, EmptyOrdered DEF DiskInv, Closing
<1> QED BY <1>1, <1>2, <1>4, <1>7, <1>8, <1>9, <1>10, IdleStep

LEMMA FileClosedStep == ASSUME DiskInv, NEW h, FileClosed(h) PROVE DiskInv'
<1> DEFINE c == [call EXCEPT !.kind = "CLOSE_SESSION", !.op = op_id]
<1>1. /\ Receiving("reply", h) /\ MyReply(h) /\ ConsumeReply(h)
      /\ call.kind = "CLOSE_FILE" /\ op_id' = NextOpId
      /\ \/ SendOk(c, Message(c, 0)) /\ Begin(c, "reply")
         \/ SendFails(c, Message(c, 0)) /\ Fail(c)
      /\ UNCHANGED <<closed, linkUp, server, history>>
  BY DEF FileClosed
<1>2. /\ pc = "reply" /\ h.type = "CLOSE_FILE" /\ GoodReply(h)
      /\ toClient' \in Seq(Reply) /\ Elems(toClient') \subseteq Elems(toClient)
      /\ sync' \in {"frame", "mid"} /\ (sync' = "mid" => toClient' # <<>>)
      /\ call \in Call /\ call.start + call.n <= NumBlocks
      /\ op_id \in Ops /\ closed \in BOOLEAN
  BY <1>1, MyReplyIs
<1>3. ~fileOpen /\ closed
  BY <1>1, <1>2 DEF GoodReply, DiskInv, Underway, Busy
<1>4. /\ c \in Call /\ c.op = op_id /\ c.start + c.n <= NumBlocks
      /\ c.kind = "CLOSE_SESSION"
  BY <1>2 DEF Call, Kinds
<1> HIDE DEF c
<1> QED BY <1>1, <1>2, <1>3, <1>4, SendStep

LEMMA SessionClosedStep == ASSUME DiskInv, NEW h, SessionClosed(h) PROVE DiskInv'
<1>1. /\ Receiving("reply", h) /\ MyReply(h) /\ ConsumeReply(h)
      /\ call.kind = "CLOSE_SESSION"
      /\ UNCHANGED <<op_id, closed, linkUp, disk, jobs, fileOpen, sessionOpen, acked,
                     maybe, server>>
  BY DEF SessionClosed, server, history
<1>2. /\ pc = "reply" /\ toServer = <<>> /\ h.type = "CLOSE_SESSION" /\ GoodReply(h)
      /\ toClient' \in Seq(Reply) /\ Elems(toClient') \subseteq Elems(toClient)
      /\ sync' \in {"frame", "mid"} /\ (sync' = "mid" => toClient' # <<>>)
      /\ call \in Call /\ call.start + call.n <= NumBlocks
      /\ op_id \in Ops /\ op_id \in Nat /\ closed \in BOOLEAN
  BY <1>1, MyReplyIs
<1>3. ~fileOpen /\ ~sessionOpen /\ call.op < op_id
  BY <1>1, <1>2, CallFields DEF GoodReply, DiskInv, Underway, Busy
<1>4. PICK m \in Request :
         /\ m = [Message(call, 0) EXCEPT !.kind = "SESSION_COMPLETE"]
         /\ m.kind = "SESSION_COMPLETE" /\ m.op = call.op /\ m.start = call.start
         /\ m.n = call.n /\ m.frag = 0 /\ m.torn = FALSE
  <2> DEFINE x == Message(call, 0)
  <2>1. /\ x \in Request /\ x.op = call.op /\ x.start = call.start
        /\ x.n = call.n /\ x.frag = 0 /\ x.torn = FALSE /\ x = Message(call, 0)
    BY <1>2, MessageType, Constants
  <2> HIDE DEF x
  <2>2. [x EXCEPT !.kind = "SESSION_COMPLETE"] \in Request
    BY <2>1 DEF Request
  <2> QED BY <2>1, <2>2 DEF Request
<1>5. \A k \in Elems(toServer) : Before(k, m)
  BY <1>2, EmptyElems
<1>6. ASSUME NEW k \in Request, k.kind = "SESSION_COMPLETE", k.op = call.op,
             k.start = call.start, k.n = call.n, k.frag = 0, call.op < OpLimit
      PROVE  GoodRequest(k)'
  <2>1. k.start + k.n <= NumBlocks /\ k.frag < k.n /\ k.op < op_id'
    BY <1>1, <1>2, <1>3, <1>6, RequestFields
  <2> QED BY <1>6, <2>1, Zenon DEF GoodRequest
<1>7. CASE SendOk(call, m) /\ End(call, TRUE, NoData)
  <2>1. (toServer' = toServer \/ toServer' = Append(toServer, m)) /\ call.op < OpLimit
    BY <1>7 DEF SendOk
  <2>2. /\ toServer' \in Seq(Request) /\ Ordered(toServer')
        /\ \A k \in Elems(toServer') : GoodRequest(k)'
    <3>1. toServer \in Seq(Request) /\ Ordered(toServer)
      BY DEF DiskInv, TypeOK
    <3>2. CASE toServer' = toServer
      BY <1>2, <3>1, <3>2, EmptyElems
    <3>3. CASE toServer' = Append(toServer, m)
      <4>1. Elems(toServer') = {m} /\ toServer' \in Seq(Request)
        <5>1. Elems(toServer) = {}
          BY <1>2, EmptyElems
        <5> QED BY <1>4, <3>1, <3>3, <5>1, AppendElems
      <4>2. Ordered(toServer')
        BY <1>5, <3>1, <3>3, AppendOrdered
      <4>3. GoodRequest(m)'
        BY <1>4, <1>6, <2>1
      <4> QED BY <4>1, <4>2, <4>3
    <3> QED BY <2>1, <3>2, <3>3
  <2>3. /\ pc' = "idle" /\ call' \in Call /\ sent' \in 0 .. NumBlocks
        /\ seen' \subseteq Blocks /\ data' \in [Blocks -> Values]
        /\ last' \in [kind : Kinds \cup {"none"}, ok : BOOLEAN,
                      blocks : SUBSET Blocks, data : [Blocks -> Values]]
        /\ last'.kind = "CLOSE_SESSION" /\ sock' = "closed"
        /\ sock' \in {"open", "closed"}
    BY <1>1, <1>2, <1>7, EndedType, Defaults DEF DiskInv
  <2>4. TypeOK'
    BY <1>1, <1>2, <2>2, <2>3 DEF DiskInv, TypeOK
  <2>5. AckedWritesSurvive'
    BY <1>1 DEF DiskInv, AckedWritesSurvive, Known
  <2>6. NoStaleRead' /\ OrderlyClose'
    BY <1>1, <1>3, <2>3 DEF NoStaleRead, OrderlyClose
  <2>7. op_id <= op_id'
    BY <1>1, <1>2
  <2> QED BY <1>1, <1>2, <2>2, <2>3, <2>4, <2>5, <2>6, <2>7, IdleStep
<1>8. CASE SendFails(call, m) /\ Fail(call)
  <2>1. PICK t \in Request :
           /\ t = [m EXCEPT !.torn = TRUE] /\ t.kind = m.kind /\ t.op = m.op
           /\ t.start = m.start /\ t.n = m.n /\ t.frag = m.frag
    BY <1>4, TornType
  <2>2. toServer' = toServer \/ (toServer' = Append(toServer, t) /\ call.op < OpLimit)
    BY <1>8, <2>1, SendFailsAdds
  <2>3. call.op < OpLimit => GoodRequest(t)'
    BY <1>4, <1>6, <2>1
  <2>4. \A k \in Elems(toServer) : Before(k, t)
    BY <1>2, EmptyElems
  <2>5. maybe' \in [Blocks -> SUBSET Values]
    BY <1>1 DEF DiskInv, TypeOK
  <2>6. op_id' \in Ops /\ op_id <= op_id' /\ closed' \in BOOLEAN
    BY <1>1, <1>2
  <2> QED BY <1>1, <1>2, <1>8, <2>1, <2>2, <2>3, <2>4, <2>5, <2>6, FailStep
<1> QED BY <1>4, <1>7, <1>8 DEF SessionClosed
-----------------------------------------------------------------------------
(* The server and the connection.                                          *)

\* The server takes a request.  As long as there was one to take, no reply to
\* the call in progress was out.
LEMMA TakeStep ==
    ASSUME DiskInv, toServer # <<>>, UNCHANGED <<client, toClient, sync, history>>,
           linkUp' \in BOOLEAN, toServer' \in Seq(Request), Ordered(toServer'),
           Elems(toServer') \subseteq Elems(toServer),
           disk' \in [Blocks -> Values],
           \A b \in Blocks : disk'[b] = disk[b] \/ disk'[b] \in maybe[b],
           fileOpen' \in BOOLEAN, fileOpen' => fileOpen,
           sessionOpen' \in BOOLEAN, sessionOpen' => sessionOpen,
           jobs' \subseteq Reply,
           \A j \in jobs' \ jobs : GoodReply(j)' /\ MyReplyGood(j)'
    PROVE  DiskInv'
<1>1. UNCHANGED <<op_id, closed, sock, pc, call, sent, seen, data, last, toClient, sync,
                  acked, maybe>>
  BY DEF client, history
<1>2. TypeOK'
  BY <1>1 DEF DiskInv, TypeOK
<1>3. Underway' /\ Closing' /\ InFrame'
  BY <1>1 DEF DiskInv, Underway, Closing, InFrame, Busy
<1>4. Reading'
  <2>1. pc = "read" => /\ seen = {}
                       /\ data = [b \in Blocks |-> IF b - call.start \in seen THEN disk[b]
                                                   ELSE Garbage]
    BY DEF DiskInv, Reading
  <2>2. pc = "read" => data = [b \in Blocks |-> Garbage]
    BY <2>1
  <2> QED BY <1>1, <2>1, <2>2 DEF Reading
<1>5. \A m \in Elems(toServer') : GoodRequest(m)' /\ MyRequest(m)'
  BY <1>1 DEF DiskInv, GoodRequest, MyRequest, Busy
<1>6. \A h \in jobs \cup Elems(toClient) : GoodReply(h)' /\ ~(Busy /\ h.op = call.op)
  BY <1>1 DEF DiskInv, GoodReply, MyReplyGood
<1>7. \A h \in jobs \cup Elems(toClient) : MyReplyGood(h)' /\ Sampled(h)'
  BY <1>1, <1>6 DEF MyReplyGood, Sampled, Busy
<1>8. AckedWritesSurvive' /\ NoStaleRead' /\ OrderlyClose'
  BY <1>1 DEF DiskInv, AckedWritesSurvive, NoStaleRead, OrderlyClose, Known
<1>9. \A h \in jobs' : GoodReply(h)' /\ MyReplyGood(h)'
  BY <1>6, <1>7
<1>10. \A h \in Elems(toClient') : GoodReply(h)' /\ MyReplyGood(h)' /\ Sampled(h)'
  BY <1>1, <1>6, <1>7
<1> QED
  BY <1>2, <1>3, <1>4, <1>5, <1>8, <1>9, <1>10 DEF DiskInv, Elems, Ordered

\* The first request of the queue.
LEMMA FirstRequest ==
    ASSUME DiskInv, toServer # <<>>, NEW m, m = Head(toServer)
    PROVE  /\ m \in Request /\ m \in Elems(toServer) /\ GoodRequest(m) /\ MyRequest(m)
           /\ Tail(toServer) \in Seq(Request) /\ Ordered(Tail(toServer))
           /\ Elems(Tail(toServer)) \subseteq Elems(toServer)
           /\ \A k \in Elems(Tail(toServer)) : Before(m, k)
           /\ Place(m) \in Blocks /\ m.op \in Nat /\ m.op < op_id
<1>1. toServer \in Seq(Request) /\ Ordered(toServer)
  BY DEF DiskInv, TypeOK
<1>2. /\ m \in Request /\ m \in Elems(toServer) /\ Tail(toServer) \in Seq(Request)
      /\ Elems(Tail(toServer)) \subseteq Elems(toServer)
  BY <1>1, TailElems
<1>3. Ordered(Tail(toServer)) /\ \A k \in Elems(Tail(toServer)) : Before(m, k)
  BY <1>1, TailOrdered
<1>4. GoodRequest(m) /\ MyRequest(m)
  BY <1>2 DEF DiskInv
<1>5. Place(m) \in Blocks /\ m.op \in Nat /\ m.op < op_id
  <2>1. m.start + m.n <= NumBlocks /\ m.frag < m.n /\ m.op < op_id
    BY <1>4 DEF GoodRequest
  <2>2. m.start \in Nat /\ m.n \in Nat /\ m.frag \in Nat /\ m.op \in Nat
    BY <1>2, RequestFields
  <2>3. NumBlocks \in Nat
    BY Constants
  <2> QED BY <2>1, <2>2, <2>3 DEF Place, Blocks
<1> QED BY <1>2, <1>3, <1>4, <1>5

\* If it is the last that the call in progress sends, it is the last of all.
LEMMA LastRequest ==
    ASSUME DiskInv, toServer # <<>>, Busy, NEW m, m = Head(toServer), m.op = call.op,
           m.kind = "write" => ~(m.frag < m.n - 1)
    PROVE  Tail(toServer) = <<>>
<1>1. /\ m \in Request /\ Tail(toServer) \in Seq(Request) /\ m.op \in Nat
      /\ m.op < op_id /\ Elems(Tail(toServer)) \subseteq Elems(toServer)
      /\ \A k \in Elems(Tail(toServer)) : Before(m, k)
  BY FirstRequest
<1>2. op_id = m.op + 1
  BY <1>1 DEF DiskInv, Underway
<1>3. ASSUME NEW k \in Elems(Tail(toServer)) PROVE FALSE
  <2>1. k \in Request /\ GoodRequest(k) /\ Before(m, k)
    <3>1. k \in Elems(toServer) /\ toServer \in Seq(Request) /\ Before(m, k)
      BY <1>1, <1>3 DEF DiskInv, TypeOK
    <3>2. Elems(toServer) \subseteq Request
      BY <3>1, TailElems
    <3>3. GoodRequest(k)
      BY <3>1 DEF DiskInv
    <3> QED BY <3>1, <3>2, <3>3
  <2>2. k.op \in Nat /\ k.frag \in Nat /\ k.n \in Nat /\ m.frag \in Nat /\ m.n \in Nat
    BY <1>1, <2>1, RequestFields
  <2>3. k.op < op_id /\ k.frag < k.n
    BY <2>1 DEF GoodRequest
  <2>4. ~(m.op < k.op)
    BY <1>1, <1>2, <2>2, <2>3
  <2>5. m.kind = "write" /\ m.n = k.n /\ m.frag < k.frag
    BY <2>1, <2>4 DEF Before
  <2> QED BY <2>2, <2>3, <2>5
<1>4. toServer \in Seq(Request) /\ Ordered(toServer)
  BY DEF DiskInv, TypeOK
<1> QED BY <1>3, <1>4, TailOrdered

LEMMA JobType ==
    ASSUME NEW m \in Request, m.start + m.n <= NumBlocks,
           NEW type \in {"IO", "CLOSE_FILE", "CLOSE_SESSION", "ERROR"},
           NEW f, f \in 0 .. (m.n - 1) \/ f = NumBlocks
    PROVE  LET j == Job(m, type, f) IN
           /\ j \in Reply /\ j.op = m.op /\ j.type = type /\ j.frag = f
           /\ f # NumBlocks => j.block = m.start + f
<1> DEFINE b == IF f = NumBlocks THEN m.start ELSE m.start + f
<1>1. b \in Blocks /\ f \in 0 .. NumBlocks /\ m.op \in Ops
  BY RequestFields, Constants DEF Blocks
<1>2. Original \in Values
  BY Constants
<1> QED BY <1>1, <1>2 DEF Job, Reply

LEMMA ServeStep == ASSUME DiskInv, Serve PROVE DiskInv'
<1>1. PICK m : m = Head(toServer)
  OBVIOUS
<1>2. /\ linkUp /\ toServer # <<>> /\ ~m.torn /\ toServer' = Tail(toServer)
      /\ ServeRead(m) \/ ServeWrite(m) \/ ServeClose(m)
      /\ UNCHANGED <<client, toClient, sync, linkUp, history>>
  BY <1>1 DEF Serve
<1>3. /\ m \in Request /\ m \in Elems(toServer) /\ GoodRequest(m) /\ MyRequest(m)
      /\ Tail(toServer) \in Seq(Request) /\ Ordered(Tail(toServer))
      /\ Elems(Tail(toServer)) \subseteq Elems(toServer)
      /\ Place(m) \in Blocks /\ m.op \in Nat /\ m.op < op_id
  BY <1>1, <1>2, FirstRequest
<1>4. /\ m.start + m.n <= NumBlocks /\ m.frag < m.n /\ m.n \in Nat /\ m.start \in Nat
      /\ m.frag \in Nat /\ m.op \in Values
  BY <1>3, RequestFields, Constants DEF GoodRequest
<1>5. /\ disk \in [Blocks -> Values] /\ jobs \subseteq Reply /\ fileOpen \in BOOLEAN
      /\ sessionOpen \in BOOLEAN /\ linkUp \in BOOLEAN /\ Underway
      /\ UNCHANGED <<op_id, pc, call>>
  BY <1>2 DEF DiskInv, TypeOK, client
<1>6. Busy /\ m.op = call.op =>
        /\ m.kind = call.kind /\ m.start = call.start /\ m.n = call.n
        /\ m.kind = "write" => m.frag < sent
  BY <1>3 DEF MyRequest
<1>7. CASE ServeRead(m)
  <2>1. Busy /\ m.op = call.op => toServer' = <<>> /\ call.kind = "read"
    BY <1>1, <1>2, <1>6, <1>7, LastRequest DEF ServeRead
  <2>2. ASSUME NEW j \in jobs' \ jobs
        PROVE  /\ j \in Reply /\ j.op = m.op
               /\ \/ j.type = "ERROR"
                  \/ /\ j.type = "IO" /\ j.frag < m.n /\ j.block = m.start + j.frag
    <3>1. CASE \E f \in 0 .. (m.n - 1) : j = Job(m, "IO", f)
      <4>1. PICK f \in 0 .. (m.n - 1) : j = Job(m, "IO", f)
        BY <3>1
      <4>2. f < m.n /\ f # NumBlocks
        BY <1>4, <4>1, Constants
      <4> QED BY <1>3, <1>4, <4>1, <4>2, JobType
    <3>2. CASE j = Job(m, "ERROR", NumBlocks)
      BY <1>3, <1>4, <3>2, JobType
    <3> QED BY <1>7, <3>1, <3>2 DEF ServeRead
  <2>3. \A j \in jobs' \ jobs : GoodReply(j)' /\ MyReplyGood(j)'
    BY <1>3, <1>5, <1>6, <2>1, <2>2 DEF GoodReply, MyReplyGood, Busy
  <2>4. jobs' \subseteq Reply
    BY <1>5, <2>2
  <2>5. UNCHANGED <<disk, fileOpen, sessionOpen>>
    BY <1>7 DEF ServeRead
  <2> QED BY <1>2, <1>3, <1>5, <2>3, <2>4, <2>5, TakeStep
<1>8. CASE ServeWrite(m)
  <2>1. /\ m.kind = "write" /\ UNCHANGED <<fileOpen, sessionOpen>>
        /\ disk' = disk \/ disk' = [disk EXCEPT ![Place(m)] = m.op]
        /\ jobs' = IF m.frag < m.n - 1 THEN jobs
                   ELSE jobs \cup {Job(m, IF \A e \in Extent(m) : disk'[e] = m.op
                                          THEN "IO" ELSE "ERROR", NumBlocks)}
    BY <1>8 DEF ServeWrite, Place
  <2>2. m.op \in maybe[Place(m)]
    BY <1>2, <1>3, <2>1 DEF GoodRequest, Value
  <2>3. /\ disk' \in [Blocks -> Values]
        /\ \A b \in Blocks : disk'[b] = disk[b] \/ disk'[b] \in maybe[b]
    BY <1>3, <1>4, <1>5, <2>1, <2>2
  <2>4. ASSUME NEW j \in jobs' \ jobs
        PROVE  /\ j \in Reply /\ j.op = m.op /\ ~(m.frag < m.n - 1)
               /\ j.type \in {"IO", "ERROR"}
               /\ j.type = "IO" => \A e \in Extent(m) : disk'[e] = m.op
    <3> DEFINE ty == IF \A e \in Extent(m) : disk'[e] = m.op THEN "IO" ELSE "ERROR"
    <3>1. j = Job(m, ty, NumBlocks) /\ ~(m.frag < m.n - 1)
      BY <2>1
    <3>2. ty \in {"IO", "ERROR"} /\ (ty = "IO" => \A e \in Extent(m) : disk'[e] = m.op)
      OBVIOUS
    <3> HIDE DEF ty
    <3>3. j \in Reply /\ j.op = m.op /\ j.type = ty
      BY <1>3, <1>4, <3>1, <3>2, JobType
    <3> QED BY <3>1, <3>2, <3>3
  <2>5. ASSUME NEW j \in jobs' \ jobs PROVE GoodReply(j)' /\ MyReplyGood(j)'
    <3>1. GoodReply(j)'
      BY <1>3, <1>5, <2>4 DEF GoodReply
    <3>2. ASSUME Busy, m.op = call.op
          PROVE  /\ toServer' = <<>> /\ call.kind = "write" /\ pc = "reply"
                 /\ Extent(call) = Extent(m)
      <4>1. toServer' = <<>>
        BY <1>1, <1>2, <2>4, <3>2, LastRequest
      <4>2. ~(m.frag < m.n - 1) /\ m.frag < sent /\ call.kind = "write"
        BY <1>6, <2>1, <2>4, <3>2
      <4>3. sent \in Nat
        BY Constants DEF DiskInv, TypeOK
      <4>4. ~(sent < call.n)
        BY <1>4, <1>6, <3>2, <4>2, <4>3
      <4>5. pc \in {"idle", "write", "read", "reply"}
        BY DEF DiskInv, TypeOK
      <4> QED BY <1>5, <1>6, <3>2, <4>1, <4>2, <4>4, <4>5 DEF Underway, Busy, Extent
    <3>3. MyReplyGood(j)'
      <4>1. call' = call /\ pc' = pc /\ j.op = m.op
        BY <1>5, <2>4
      <4>2. SUFFICES ASSUME Busy, m.op = call.op
                     PROVE  /\ toServer' = <<>> /\ call.kind = "write"
                            /\ pc = "reply"
                            /\ j.type = "IO" => \A b \in Extent(call) : disk'[b] = call.op
        BY <4>1 DEF MyReplyGood, Busy, Extent
      <4> QED BY <2>4, <3>2, <4>2
    <3> QED BY <3>1, <3>3
  <2>6. jobs' \subseteq Reply
    BY <1>5, <2>4
  <2> QED BY <1>2, <1>3, <1>5, <2>1, <2>3, <2>5, <2>6, TakeStep
<1>9. CASE ServeClose(m)
  <2>1. /\ m.kind \in {"CLOSE_FILE", "CLOSE_SESSION", "SESSION_COMPLETE"}
        /\ fileOpen' = (fileOpen /\ m.kind # "CLOSE_FILE")
        /\ sessionOpen' = (sessionOpen /\ m.kind # "CLOSE_SESSION")
        /\ jobs' = IF m.kind = "SESSION_COMPLETE" THEN jobs
                   ELSE jobs \cup {Job(m, m.kind, NumBlocks)}
        /\ disk' = disk
    BY <1>9 DEF ServeClose
  <2>2. ASSUME NEW j \in jobs' \ jobs
        PROVE  j \in Reply /\ j.op = m.op /\ j.type = m.kind
    <3>1. j = Job(m, m.kind, NumBlocks) /\ m.kind \in {"CLOSE_FILE", "CLOSE_SESSION"}
      BY <2>1
    <3> QED BY <1>3, <1>4, <3>1, JobType
  <2>3. Busy /\ m.op = call.op =>
          toServer' = <<>> /\ call.kind = m.kind
    BY <1>1, <1>2, <1>6, <2>1, LastRequest
  <2>4. \A j \in jobs' \ jobs : GoodReply(j)' /\ MyReplyGood(j)'
    BY <1>3, <1>5, <2>1, <2>2, <2>3 DEF GoodReply, MyReplyGood, Busy
  <2>5. jobs' \subseteq Reply
    BY <1>5, <2>2
  <2>6. /\ fileOpen' \in BOOLEAN /\ (fileOpen' => fileOpen)
        /\ sessionOpen' \in BOOLEAN /\ (sessionOpen' => sessionOpen)
    BY <1>5, <2>1
  <2> QED BY <1>2, <1>3, <1>5, <2>1, <2>4, <2>5, <2>6, TakeStep
<1> QED BY <1>2, <1>7, <1>8, <1>9

LEMMA ServeTornStep == ASSUME DiskInv, ServeTorn PROVE DiskInv'
<1>1. PICK m : m = Head(toServer)
  OBVIOUS
<1>2. /\ Len(toServer) > 1 /\ m.torn
      /\ disk' = IF m.kind = "write" THEN [disk EXCEPT ![Place(m)] = Garbage] ELSE disk
      /\ linkUp' = FALSE /\ toServer' = <<>> /\ jobs' = {}
      /\ UNCHANGED <<client, toClient, sync, fileOpen, sessionOpen, history>>
  BY <1>1 DEF ServeTorn, Place
<1>3. toServer # <<>>
  BY <1>2
<1>4. m \in Request /\ GoodRequest(m) /\ Place(m) \in Blocks
  BY <1>1, <1>3, FirstRequest
<1>5. m.kind = "write" => Garbage \in maybe[Place(m)]
  BY <1>2, <1>4 DEF GoodRequest, Value
<1>6. disk \in [Blocks -> Values] /\ fileOpen \in BOOLEAN /\ sessionOpen \in BOOLEAN
  BY DEF DiskInv, TypeOK
<1>7. /\ disk' \in [Blocks -> Values]
      /\ \A b \in Blocks : disk'[b] = disk[b] \/ disk'[b] \in maybe[b]
  BY <1>2, <1>4, <1>5, <1>6, Constants
<1>8. /\ toServer' \in Seq(Request) /\ Ordered(toServer')
      /\ Elems(toServer') \subseteq Elems(toServer)
  BY <1>2, EmptyElems, EmptyOrdered
<1> QED BY <1>2, <1>3, <1>6, <1>7, <1>8, TakeStep

LEMMA LinkDownStep == ASSUME DiskInv, LinkDown PROVE DiskInv'
<1>1. /\ toServer' = <<>> /\ jobs' = {} /\ linkUp' = FALSE
      /\ UNCHANGED <<op_id, closed, sock, pc, call, sent, seen, data, last, toClient, sync,
                     acked, maybe, disk, fileOpen, sessionOpen>>
  BY DEF LinkDown, client, history
<1>2. toServer' \in Seq(Request) /\ Ordered(toServer)' /\ Elems(toServer)' = {}
  BY <1>1, EmptyElems, EmptyOrdered DEF Elems, Ordered
<1>3. TypeOK'
  BY <1>1, <1>2 DEF DiskInv, TypeOK
<1>4. Underway' /\ Reading' /\ Closing' /\ InFrame'
  BY <1>1 DEF DiskInv, Underway, Reading, Closing, InFrame, Busy
<1>5. \A h \in Elems(toClient) : GoodReply(h)' /\ MyReplyGood(h)' /\ Sampled(h)'
  BY <1>1 DEF DiskInv, GoodReply, MyReplyGood, Sampled, Busy, Extent
<1>6. \A h \in Elems(toClient)' : GoodReply(h)' /\ MyReplyGood(h)' /\ Sampled(h)'
  BY <1>1, <1>5 DEF Elems
<1>7. AckedWritesSurvive' /\ NoStaleRead' /\ OrderlyClose'
  BY <1>1 DEF DiskInv, AckedWritesSurvive, NoStaleRead, OrderlyClose, Known
<1> QED BY <1>1, <1>2, <1>3, <1>4, <1>6, <1>7 DEF DiskInv

LEMMA SendReplyStep == ASSUME DiskInv, SendReply PROVE DiskInv'
<1>1. PICK j \in jobs :
         /\ jobs' = jobs \ {j}
         /\ toClient' = Append(toClient, IF j.frag = NumBlocks THEN j
                                         ELSE [j EXCEPT !.val = disk[j.block]])
  BY DEF SendReply
<1>2. PICK r : r = IF j.frag = NumBlocks THEN j ELSE [j EXCEPT !.val = disk[j.block]]
  OBVIOUS
<1>3. /\ toClient' = Append(toClient, r)
      /\ UNCHANGED <<op_id, closed, sock, pc, call, sent, seen, data, last, toServer, sync,
                     linkUp, acked, maybe, disk, fileOpen, sessionOpen>>
  BY <1>1, <1>2 DEF SendReply, client, history
<1>4. /\ toClient \in Seq(Reply) /\ j \in Reply /\ disk \in [Blocks -> Values]
      /\ GoodReply(j) /\ MyReplyGood(j)
  BY <1>1 DEF DiskInv, TypeOK
<1>5. /\ r \in Reply /\ r.type = j.type /\ r.op = j.op /\ r.frag = j.frag
      /\ r.block = j.block /\ (j.frag # NumBlocks => r.val = disk[j.block])
  BY <1>2, <1>4 DEF Reply
<1>6. /\ toClient' \in Seq(Reply) /\ Elems(toClient') = Elems(toClient) \cup {r}
      /\ toClient' # <<>>
  BY <1>3, <1>4, <1>5, AppendElems
<1>7. GoodReply(r)' /\ MyReplyGood(r)'
  BY <1>3, <1>4, <1>5 DEF GoodReply, MyReplyGood, Busy, Extent
<1>8. Sampled(r)'
  <2> SUFFICES ASSUME pc = "read", r.op = call.op, r.type = "IO"
               PROVE  r.val = disk[r.block]
    BY <1>3 DEF Sampled
  <2>1. call \in Call /\ call.kind = "read"
    BY DEF DiskInv, TypeOK, Underway, Busy
  <2>2. j.frag < call.n
    BY <1>4, <1>5, <2>1 DEF MyReplyGood, Busy
  <2>3. j.frag # NumBlocks
    BY <2>1, <2>2, CallFields, Constants
  <2> QED BY <1>5, <2>3
<1>9. \A h \in jobs \cup Elems(toClient) : GoodReply(h)' /\ MyReplyGood(h)'
  BY <1>3 DEF DiskInv, GoodReply, MyReplyGood, Busy, Extent
<1>10. \A h \in Elems(toClient) : Sampled(h)'
  BY <1>3 DEF DiskInv, Sampled
<1>11. \A m \in Elems(toServer) : GoodRequest(m)' /\ MyRequest(m)'
  BY <1>3 DEF DiskInv, GoodRequest, MyRequest, Busy
<1>12. TypeOK'
  BY <1>1, <1>3, <1>6 DEF DiskInv, TypeOK
<1>13. Underway' /\ Reading' /\ Closing' /\ InFrame'
  BY <1>3, <1>6 DEF DiskInv, Underway, Reading, Closing, InFrame, Busy
<1>14. AckedWritesSurvive' /\ NoStaleRead' /\ OrderlyClose'
  BY <1>3 DEF DiskInv, AckedWritesSurvive, NoStaleRead, OrderlyClose, Known
<1>15. /\ \A m \in Elems(toServer)' : GoodRequest(m)' /\ MyRequest(m)'
       /\ Ordered(toServer)'
  BY <1>3, <1>11 DEF DiskInv, Elems, Ordered
<1>16. \A h \in jobs' : GoodReply(h)' /\ MyReplyGood(h)'
  BY <1>1, <1>9
<1>17. \A h \in Elems(toClient') : GoodReply(h)' /\ MyReplyGood(h)' /\ Sampled(h)'
  BY <1>6, <1>7, <1>8, <1>9, <1>10
<1> QED BY <1>12, <1>13, <1>14, <1>15, <1>16, <1>17 DEF DiskInv, Elems
-----------------------------------------------------------------------------
(* The invariant holds throughout a session.                               *)

LEMMA DiskInvInit == Init => DiskInv
<1> SUFFICES ASSUME Init PROVE DiskInv
  OBVIOUS
<1>1. Elems(toServer) = {} /\ Elems(toClient) = {} /\ Ordered(toServer)
  BY EmptyElems, EmptyOrdered DEF Init
<1>2. TypeOK
  <2>1. sent \in 0 .. NumBlocks /\ seen \subseteq Blocks /\ op_id \in Ops
    BY Constants DEF Init
  <2>2. call \in Call /\ data \in [Blocks -> Values]
        /\ last \in [kind : Kinds \cup {"none"}, ok : BOOLEAN,
                     blocks : SUBSET Blocks, data : [Blocks -> Values]]
    BY Defaults DEF Init
  <2>3. /\ disk \in [Blocks -> Values] /\ acked \in [Blocks -> Values]
        /\ maybe \in [Blocks -> SUBSET Values]
    BY Constants DEF Init
  <2>4. toServer \in Seq(Request) /\ toClient \in Seq(Reply)
    BY DEF Init
  <2> QED BY <2>1, <2>2, <2>3, <2>4 DEF TypeOK, Init
<1>3. Underway /\ Reading /\ Closing /\ InFrame
  BY DEF Init, Underway, Reading, Closing, InFrame, Busy
<1>4. AckedWritesSurvive /\ NoStaleRead /\ OrderlyClose
  BY DEF Init, AckedWritesSurvive, NoStaleRead, OrderlyClose, Known, NoResult
<1> QED BY <1>1, <1>2, <1>3, <1>4 DEF DiskInv, Init

LEMMA DiskInvNext == DiskInv /\ [Next]_vars => DiskInv'
<1> SUFFICES ASSUME DiskInv, [Next]_vars PROVE DiskInv'
  OBVIOUS
<1>1. ASSUME NEW r \in Ranges, Read(r[1], r[2]) \/ Write(r[1], r[2]) PROVE DiskInv'
  <2>1. r[1] \in Blocks /\ r[2] \in 1 .. NumBlocks /\ r[1] + r[2] <= NumBlocks
    BY DEF Ranges
  <2> QED BY <1>1, <2>1, ReadStep, WriteStep
<1>2. ASSUME RecvStep PROVE DiskInv'
  BY <1>2, RecvFragmentStep, RejectStep, WriteDoneStep, FileClosedStep, SessionClosedStep,
     RecvFailsStep DEF RecvStep
<1>3. CASE UNCHANGED vars
  <2>1. UNCHANGED <<op_id, closed, sock, pc, call, sent, seen, data, last, toServer,
                    toClient, sync, linkUp, disk, jobs, fileOpen, sessionOpen, acked,
                    maybe>>
    BY <1>3 DEF vars, client, wire, server, history
  <2>2. TypeOK'
    BY <2>1 DEF DiskInv, TypeOK
  <2>3. Underway' /\ Reading' /\ Closing' /\ InFrame'
    BY <2>1 DEF DiskInv, Underway, Reading, Closing, InFrame, Busy
  <2>4. \A m \in Elems(toServer)' : GoodRequest(m)' /\ MyRequest(m)'
    BY <2>1 DEF DiskInv, Elems, GoodRequest, MyRequest, Busy
  <2>5. \A h \in jobs' \cup Elems(toClient)' : GoodReply(h)' /\ MyReplyGood(h)'
    BY <2>1 DEF DiskInv, Elems, GoodReply, MyReplyGood, Busy, Extent
  <2>6. \A h \in Elems(toClient)' : Sampled(h)'
    BY <2>1 DEF DiskInv, Elems, Sampled
  <2>7. AckedWritesSurvive' /\ NoStaleRead' /\ OrderlyClose' /\ Ordered(toServer)'
    BY <2>1 DEF DiskInv, AckedWritesSurvive, NoStaleRead, OrderlyClose, Known, Ordered
  <2> QED BY <2>2, <2>3, <2>4, <2>5, <2>6, <2>7 DEF DiskInv
<1> QED
  BY <1>1, <1>2, <1>3, WriteFragmentStep, CloseStep, ServeStep, ServeTornStep,
     SendReplyStep, LinkDownStep DEF Next

\* The inductive invariant of a session holds in every state of it.
THEOREM DiskInvAlways == Spec => []DiskInv
BY DiskInvInit, DiskInvNext, PTL DEF Spec

\* The state of the client, the connection and the server has its type.
THEOREM SessionTypeOK == Spec => []TypeOK
<1>1. DiskInv => TypeOK
  BY DEF DiskInv
<1> QED BY <1>1, DiskInvAlways, PTL

\* readinto takes only answers to its own request, by operation id: what it
\* returns is, block by block, the last acknowledged write or one that failed
\* since, whatever replies of earlier calls come late.
THEOREM ReadsAreNotStale == Spec => []NoStaleRead
<1>1. DiskInv => NoStaleRead
  BY DEF DiskInv
<1> QED BY <1>1, DiskInvAlways, PTL

\* A block written by a write that returned keeps its value until a later write
\* to it: requests left behind by calls that failed reach only their own blocks.
THEOREM WritesSurvive == Spec => []AckedWritesSurvive
<1>1. DiskInv => AckedWritesSurvive
  BY DEF DiskInv
<1> QED BY <1>1, DiskInvAlways, PTL

\* The finally clause of close: however it ends, the socket is released.
THEOREM CloseReleasesSocket == Spec => []CloseReleases
<1>1. DiskInv => CloseReleases
  BY DEF DiskInv, TypeOK, Closing, CloseReleases, Busy
<1> QED BY <1>1, DiskInvAlways, PTL

\* A close that returns has seen both replies, and they were not late ones of
\* other calls: file and session are closed on the server.
THEOREM CloseIsOrderly == Spec => []OrderlyClose
<1>1. DiskInv => OrderlyClose
  BY DEF DiskInv
<1> QED BY <1>1, DiskInvAlways, PTL
=============================================================================
