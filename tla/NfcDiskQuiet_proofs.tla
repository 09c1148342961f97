------------------------ MODULE NfcDiskQuiet_proofs ------------------------
(***************************************************************************)
(* A session that meets no timeout, no failed send and no read error stays *)
(* in step: between two calls nothing is under way, even when the server   *)
(* refuses writes and whatever the order of its answers.                   *)
(***************************************************************************)
EXTENDS NfcDisk_proofs

\* Nothing but write errors may go wrong.
NoLoss == FaultSet \subseteq {"writeerr"}

\* No reply is owed or under way.
NoReply == jobs = {} /\ toClient = <<>>

\* A read: its request is on the way, or the fragments that it has not seen are
\* owed or under way, none of them twice.
ReadInStep ==
    \/ toServer # <<>> /\ NoReply
    \/ /\ toServer = <<>>
       /\ \A h \in jobs \cup Elems(toClient) :
             h.type = "IO" /\ h.op = call.op /\ h.frag < call.n /\ h.frag \notin seen
       /\ \A j, k \in jobs : j.frag = k.frag => j = k
       /\ \A j \in jobs, h \in Elems(toClient) : j.frag # h.frag
       /\ \A i, k \in 1 .. Len(toClient) :
             i < k => toClient[i].frag # toClient[k].frag

\* The request that the server answers.
Final(m) == m.kind = "write" => m.frag = m.n - 1

\* A call that waits for its one reply: the request that it answers is the last
\* on the way, or the reply is owed, or it is under way.
ReplyInStep ==
    \/ toServer # <<>> /\ NoReply /\ Final(toServer[Len(toServer)])
    \/ /\ toServer = <<>> /\ toClient = <<>>
       /\ \E j \in jobs : jobs = {j} /\ j.frag = NumBlocks
    \/ /\ toServer = <<>> /\ jobs = {}
       /\ Len(toClient) = 1 /\ Head(toClient).frag = NumBlocks

InStep ==
    /\ linkUp /\ sync = "frame"
    /\ \A m \in Elems(toServer) : ~m.torn /\ (Busy => m.op = call.op)
    /\ pc = "idle" => toServer = <<>> /\ NoReply
    /\ pc = "write" => NoReply
    /\ pc = "read" => ReadInStep
    /\ pc = "reply" => ReplyInStep

\* The inductive invariant: in step as long as the socket is open.
QuietInv == NoLoss /\ sock = "open" => InStep
-----------------------------------------------------------------------------
LEMMA NoLossMeans ==
    ASSUME NoLoss
    PROVE  /\ "timeout" \notin FaultSet /\ "sendfail" \notin FaultSet
           /\ "linkdown" \notin FaultSet /\ "readerr" \notin FaultSet
BY DEF NoLoss

\* Then sendall fails only for an id that cannot be packed, and sends nothing.
LEMMA SendFailsQuietly ==
    ASSUME NoLoss, linkUp, sock = "open", NEW c, NEW m, SendFails(c, m)
    PROVE  toServer' = toServer /\ c.op >= OpLimit
BY NoLossMeans DEF SendFails

LEMMA NoElems ==
    ASSUME NEW S, NEW q \in Seq(S), Elems(q) = {} PROVE q = <<>>
<1>1. q # <<>> => 1 \in 1 .. Len(q)
  OBVIOUS
<1> QED BY <1>1 DEF Elems

\* A queue of one.
LEMMA Single ==
    ASSUME NEW S, NEW m \in S
    PROVE  LET q == Append(<<>>, m) IN
           /\ q # <<>> /\ Len(q) = 1 /\ q[Len(q)] = m /\ Head(q) = m
           /\ Elems(q) = {m}
<1> DEFINE q == Append(<<>>, m)
<1>1. Len(q) = 1 /\ q[1] = m /\ Head(q) = m /\ q # <<>>
  OBVIOUS
<1> HIDE DEF q
<1>2. Elems(q) = {m}
  BY <1>1 DEF Elems
<1> QED BY <1>1, <1>2 DEF q

LEMMA SingleTail ==
    ASSUME NEW S, NEW q \in Seq(S), Len(q) = 1 PROVE q # <<>> /\ Tail(q) = <<>>
<1>1. q # <<>>
  OBVIOUS
<1>2. Tail(q) \in Seq(S) /\ Len(Tail(q)) = 0
  BY <1>1
<1> QED BY <1>1, <1>2, EmptySeq

\* A call sends its one request with nothing else under way.
LEMMA AskInStep ==
    ASSUME DiskInv, NoLoss, sock = "open", linkUp, toServer = <<>>, jobs = {},
           toClient' = <<>>, sync' = "frame", UNCHANGED <<linkUp, jobs>>,
           NEW c \in Call, c.kind # "write", NEW p \in {"read", "reply"},
           \/ SendOk(c, Message(c, 0)) /\ Begin(c, p)
           \/ SendFails(c, Message(c, 0)) /\ Fail(c)
    PROVE  InStep'
<1>1. NoReply'
  BY DEF NoReply
<1>2. CASE SendOk(c, Message(c, 0)) /\ Begin(c, p)
  <2>1. PICK m \in Request :
           m = Message(c, 0) /\ m.kind = c.kind /\ m.op = c.op /\ m.torn = FALSE
    <3> DEFINE x == Message(c, 0)
    <3>1. x \in Request /\ x.kind = c.kind /\ x.op = c.op /\ x.torn = FALSE
          /\ x = Message(c, 0)
      BY MessageType, Constants
    <3> HIDE DEF x
    <3> QED BY <3>1
  <2>2. toServer' = Append(<<>>, m) /\ pc' = p /\ call' = c
    BY <1>2, <2>1 DEF SendOk, Begin
  <2>3. toServer' # <<>> /\ toServer'[Len(toServer')] = m /\ Elems(toServer') = {m}
    BY <2>1, <2>2, Single
  <2>4. \A k \in Elems(toServer') : ~k.torn /\ k.op = call'.op
    BY <2>1, <2>2, <2>3
  <2>5. ReadInStep' /\ ReplyInStep'
    BY <1>1, <2>1, <2>3 DEF ReadInStep, ReplyInStep, Final
  <2> QED BY <1>1, <2>2, <2>4, <2>5 DEF InStep, Elems
<1>3. CASE SendFails(c, Message(c, 0)) /\ Fail(c)
  <2>1. toServer' = <<>> /\ pc' = "idle"
    BY <1>3, SendFailsQuietly DEF Fail, End, Ended
  <2> QED BY <1>1, <2>1, EmptyElems DEF InStep, Elems
<1> QED BY <1>2, <1>3

LEMMA IdleQuiet ==
    ASSUME InStep, pc = "idle"
    PROVE  linkUp /\ sync = "frame" /\ toServer = <<>> /\ jobs = {} /\ toClient = <<>>
BY DEF InStep, NoReply

LEMMA ReadQuietly ==
    ASSUME DiskInv, NoLoss, sock = "open", InStep, NEW s \in Blocks,
           NEW n \in 1 .. NumBlocks, Read(s, n)
    PROVE  InStep'
<1> DEFINE c == [kind |-> "read", op |-> op_id, start |-> s, n |-> n]
<1>1. c \in Call /\ c.kind = "read"
  BY DEF Call, Kinds, DiskInv, TypeOK
<1>2. /\ pc = "idle"
      /\ \/ SendOk(c, Message(c, 0)) /\ Begin(c, "read")
         \/ SendFails(c, Message(c, 0)) /\ Fail(c)
      /\ UNCHANGED <<toClient, sync, linkUp, jobs>>
  BY DEF Read, server
<1> HIDE DEF c
<1> QED BY <1>1, <1>2, IdleQuiet, AskInStep

LEMMA CloseQuietly ==
    ASSUME DiskInv, NoLoss, sock = "open", InStep, Close PROVE InStep'
<1> DEFINE c == [kind |-> "CLOSE_FILE", op |-> op_id, start |-> 0, n |-> 1]
<1>1. c \in Call /\ c.kind = "CLOSE_FILE"
  BY Constants DEF Call, Kinds, DiskInv, TypeOK
<1>2. /\ pc = "idle"
      /\ \/ SendOk(c, Message(c, 0)) /\ Begin(c, "reply")
         \/ SendFails(c, Message(c, 0)) /\ Fail(c)
      /\ UNCHANGED <<toClient, sync, linkUp, jobs>>
  BY DEF Close, server
<1> HIDE DEF c
<1> QED BY <1>1, <1>2, IdleQuiet, AskInStep

LEMMA WriteQuietly ==
    ASSUME InStep, NEW s, NEW n, Write(s, n) PROVE InStep'
<1>1. /\ pc = "idle" /\ pc' = "write"
      /\ UNCHANGED <<toServer, toClient, sync, linkUp, jobs>>
  BY DEF Write, Begin, server, wire
<1>2. linkUp /\ sync = "frame" /\ toServer = <<>> /\ jobs = {} /\ toClient = <<>>
  BY <1>1, IdleQuiet
<1> QED BY <1>1, <1>2, EmptyElems DEF InStep, NoReply, Elems

LEMMA WriteFragmentQuietly ==
    ASSUME DiskInv, NoLoss, sock = "open", InStep, WriteFragment PROVE InStep'
<1>0. pc = "write" /\ UNCHANGED <<toClient, sync, linkUp, jobs>>
  BY DEF WriteFragment, server
<1>1. /\ call \in Call /\ call.kind = "write" /\ sent \in Nat /\ sent < call.n
      /\ sent \in Blocks /\ call.n \in Nat /\ call.op \in Nat
  BY <1>0, NextFragment
<1>2. PICK m \in Request :
         /\ m = Message(call, sent) /\ m.op = call.op /\ m.n = call.n
         /\ m.frag = sent /\ m.torn = FALSE
  <2> DEFINE x == Message(call, sent)
  <2>1. /\ x \in Request /\ x.op = call.op /\ x.n = call.n
        /\ x.frag = sent /\ x.torn = FALSE /\ x = Message(call, sent)
    BY <1>1, MessageType
  <2> HIDE DEF x
  <2> QED BY <2>1
<1>3. /\ linkUp /\ sync = "frame" /\ NoReply /\ NoReply' /\ toServer \in Seq(Request)
      /\ \A k \in Elems(toServer) : ~k.torn /\ k.op = call.op
  BY <1>0 DEF InStep, NoReply, Busy, DiskInv, TypeOK
<1>4. CASE /\ SendOk(call, m) /\ pc' = IF AllSent THEN "reply" ELSE "write"
           /\ UNCHANGED call
  <2>1. toServer' = Append(toServer, m)
    BY <1>3, <1>4 DEF SendOk
  <2>2. /\ toServer' # <<>> /\ Elems(toServer') = Elems(toServer) \cup {m}
        /\ toServer'[Len(toServer')] = m
    <3>1. toServer' # <<>> /\ Elems(toServer') = Elems(toServer) \cup {m}
      BY <1>2, <1>3, <2>1, AppendElems
    <3>2. Len(Append(toServer, m)) = Len(toServer) + 1
          /\ Append(toServer, m)[Len(toServer) + 1] = m
      BY <1>2, <1>3
    <3> QED BY <2>1, <3>1, <3>2
  <2>3. \A k \in Elems(toServer') : ~k.torn /\ k.op = call'.op
    BY <1>2, <1>3, <1>4, <2>2
  <2>4. pc' = "reply" => ReplyInStep'
    <3>1. AllSent => m.frag = m.n - 1
      BY <1>1, <1>2 DEF AllSent
    <3>2. pc' = "reply" => Final(m)
      BY <1>4, <3>1 DEF Final
    <3> QED BY <1>3, <2>2, <3>2 DEF ReplyInStep, Final
  <2> QED BY <1>0, <1>3, <1>4, <2>3, <2>4 DEF InStep, Elems
<1>5. CASE SendFails(call, m) /\ Fail(call)
  <2>1. toServer' = toServer /\ call.op >= OpLimit /\ pc' = "idle"
    BY <1>3, <1>5, SendFailsQuietly DEF Fail, End, Ended
  <2>2. ~(sent > 0)
    BY <1>0, <2>1, Constants, CallFields DEF DiskInv, TypeOK, Underway, Busy
  <2>3. \A k \in Elems(toServer) : k.frag \in Nat /\ k.frag < sent
    BY <1>0, <1>3, RequestFields, Constants DEF DiskInv, MyRequest, Underway, Busy, Elems
  <2>4. Elems(toServer) = {}
    BY <1>1, <2>2, <2>3
  <2>5. toServer = <<>>
    BY <1>3, <2>4, NoElems
  <2> QED BY <1>0, <1>3, <2>1, <2>5, EmptyElems DEF InStep, Elems
<1> QED BY <1>2, <1>4, <1>5 DEF WriteFragment
-----------------------------------------------------------------------------
(* Receiving.                                                              *)

\* A queue of frames that differ in a field: the first and the others.
LEMMA DistinctTail ==
    ASSUME NEW q \in Seq(Reply), q # <<>>,
           \A i, k \in 1 .. Len(q) : i < k => q[i].frag # q[k].frag
    PROVE  /\ \A h \in Elems(Tail(q)) : h.frag # Head(q).frag
           /\ \A i, k \in 1 .. Len(Tail(q)) : i < k => Tail(q)[i].frag # Tail(q)[k].frag
<1>1. /\ Len(q) \in Nat \ {0} /\ Head(q) = q[1] /\ Len(Tail(q)) = Len(q) - 1
      /\ \A i \in 1 .. Len(Tail(q)) : Tail(q)[i] = q[i + 1]
  OBVIOUS
<1> DEFINE t == Tail(q)
<1> HIDE DEF t
<1>2. ASSUME NEW i \in 1 .. Len(t), NEW k \in 1 .. Len(t), i < k
      PROVE  t[i].frag # t[k].frag
  <2>1. t[i] = q[i + 1] /\ t[k] = q[k + 1] /\ i + 1 \in 1 .. Len(q)
        /\ k + 1 \in 1 .. Len(q) /\ i + 1 < k + 1
    BY <1>1, <1>2 DEF t
  <2> QED BY <2>1
<1>3. ASSUME NEW h \in Elems(t) PROVE h.frag # q[1].frag
  <2>1. PICK i \in 1 .. Len(t) : h = t[i]
    BY DEF Elems
  <2>2. h = q[i + 1] /\ 1 \in 1 .. Len(q) /\ i + 1 \in 1 .. Len(q) /\ 1 < i + 1
    BY <1>1, <2>1 DEF t
  <2> QED BY <2>2
<1> QED BY <1>1, <1>2, <1>3 DEF t

LEMMA RecvFragmentQuietly ==
    ASSUME DiskInv, DiskInv', InStep, NEW h, RecvFragment(h) PROVE InStep'
<1>0. /\ Receiving("read", h) /\ MyFragment(h) /\ toClient' = Tail(toClient)
      /\ UNCHANGED <<toServer, sync, linkUp, jobs>>
  BY DEF RecvFragment, server
<1>1. /\ pc = "read" /\ toServer = <<>> /\ h.frag \in 0 .. (call.n - 1)
      /\ Elems(Tail(toClient)) \subseteq Elems(toClient)
      /\ call.n \in Nat /\ call.n >= 1 /\ toClient # <<>> /\ h = Head(toClient)
      /\ toClient \in Seq(Reply) /\ Tail(toClient) \in Seq(Reply)
  BY <1>0, MyFragmentIs DEF Receiving, DiskInv, TypeOK
<1>2. /\ linkUp /\ sync = "frame"
      /\ \A k \in jobs \cup Elems(toClient) :
            k.type = "IO" /\ k.op = call.op /\ k.frag < call.n /\ k.frag \notin seen
      /\ \A j, k \in jobs : j.frag = k.frag => j = k
      /\ \A j \in jobs, k \in Elems(toClient) : j.frag # k.frag
      /\ \A i, k \in 1 .. Len(toClient) :
            i < k => toClient[i].frag # toClient[k].frag
  BY <1>1 DEF InStep, ReadInStep
<1>3. /\ \A k \in Elems(toClient') : k.frag # h.frag
      /\ \A i, k \in 1 .. Len(toClient') :
            i < k => toClient'[i].frag # toClient'[k].frag
  BY <1>0, <1>1, <1>2, DistinctTail
<1>4. h \in Elems(toClient)
  BY <1>1, TailElems
<1>5. \A k \in jobs \cup Elems(toClient') :
         k.type = "IO" /\ k.op = call.op /\ k.frag < call.n /\ k.frag \notin seen \cup {h.frag}
  BY <1>0, <1>1, <1>2, <1>3, <1>4
<1>6. CASE seen' = seen \cup {h.frag} /\ UNCHANGED <<pc, call>>
  <2>1. ReadInStep'
    BY <1>0, <1>1, <1>2, <1>3, <1>5, <1>6 DEF ReadInStep, Elems
  <2> QED BY <1>0, <1>1, <1>2, <1>6, <2>1, EmptyElems DEF InStep, Elems
<1>7. CASE /\ Cardinality(seen \cup {h.frag}) = call.n
           /\ End(call, TRUE, [data EXCEPT ![call.start + h.frag] = h.val])
  <2>1. seen \cup {h.frag} \subseteq 0 .. (call.n - 1)
    BY <1>1 DEF DiskInv, Reading
  <2>2. seen \cup {h.frag} = 0 .. (call.n - 1)
    BY <1>1, <1>7, <2>1, AllSeen
  <2>3. \A k \in jobs \cup Elems(toClient') : k.frag \in Nat
    <3>1. jobs \cup Elems(toClient') \subseteq Reply
      BY <1>0, <1>1, TailElems DEF DiskInv, TypeOK
    <3> QED BY <3>1, Constants DEF Reply
  <2>4. \A k \in jobs \cup Elems(toClient') : k.frag \in 0 .. (call.n - 1)
    BY <1>1, <1>5, <2>3
  <2>5. jobs = {} /\ Elems(toClient') = {}
    BY <1>5, <2>2, <2>4
  <2>6. toClient' = <<>>
    BY <1>0, <1>1, <2>5, NoElems
  <2>7. pc' = "idle"
    BY <1>7 DEF End, Ended
  <2> QED BY <1>0, <1>1, <1>2, <2>5, <2>6, <2>7, EmptyElems DEF InStep, NoReply, Elems
<1> QED BY <1>6, <1>7 DEF RecvFragment

\* What has come is the one reply, and it is consumed as a whole.
LEMMA ReplyQuiet ==
    ASSUME DiskInv, InStep, NEW h, Receiving("reply", h), ConsumeReply(h)
    PROVE  /\ toServer = <<>> /\ jobs = {} /\ toClient' = <<>> /\ sync' = "frame"
           /\ linkUp
<1>1. /\ pc = "reply" /\ sync = "frame" /\ toClient # <<>> /\ h = Head(toClient)
      /\ toClient \in Seq(Reply) /\ linkUp
  BY DEF Receiving, DiskInv, TypeOK, InStep
<1>2. toServer = <<>> /\ jobs = {} /\ Len(toClient) = 1 /\ h.frag = NumBlocks
  BY <1>1 DEF InStep, ReplyInStep, NoReply
<1>3. Tail(toClient) = <<>>
  BY <1>1, <1>2, SingleTail
<1>4. ~(NumBlocks < NumBlocks)
  BY Constants
<1> QED BY <1>1, <1>2, <1>3, <1>4 DEF ConsumeReply

LEMMA ReplyEndsQuietly ==
    ASSUME DiskInv, InStep, NEW h, WriteDone(h) \/ RejectReply(h) PROVE InStep'
<1>1. /\ Receiving("reply", h) /\ ConsumeReply(h) /\ pc' = "idle"
      /\ UNCHANGED <<toServer, linkUp, jobs>>
  BY DEF WriteDone, RejectReply, Fail, End, Ended, server
<1>2. toServer = <<>> /\ jobs = {} /\ toClient' = <<>> /\ sync' = "frame" /\ linkUp
  BY <1>1, ReplyQuiet
<1> QED BY <1>1, <1>2, EmptyElems DEF InStep, NoReply, Elems

LEMMA FileClosedQuietly ==
    ASSUME DiskInv, NoLoss, sock = "open", InStep, NEW h, FileClosed(h) PROVE InStep'
<1> DEFINE c == [call EXCEPT !.kind = "CLOSE_SESSION", !.op = op_id]
<1>1. c \in Call /\ c.kind = "CLOSE_SESSION"
  BY DEF Call, Kinds, DiskInv, TypeOK
<1>2. /\ Receiving("reply", h) /\ ConsumeReply(h)
      /\ \/ SendOk(c, Message(c, 0)) /\ Begin(c, "reply")
         \/ SendFails(c, Message(c, 0)) /\ Fail(c)
      /\ UNCHANGED <<linkUp, jobs>>
  BY DEF FileClosed, server
<1> HIDE DEF c
<1>3. toServer = <<>> /\ jobs = {} /\ toClient' = <<>> /\ sync' = "frame" /\ linkUp
  BY <1>2, ReplyQuiet
<1> QED BY <1>1, <1>2, <1>3, AskInStep

LEMMA RecvQuietly ==
    ASSUME DiskInv, DiskInv', NoLoss, sock = "open", InStep, sock' = "open", RecvStep
    PROVE  InStep'
<1>1. ASSUME NEW h, RejectFragment(h) PROVE FALSE
  <2>1. /\ pc = "read" /\ toClient # <<>> /\ h = Head(toClient) /\ ~MyFragment(h)
        /\ toClient \in Seq(Reply)
    BY <1>1 DEF RejectFragment, Receiving, DiskInv, TypeOK
  <2>2. h \in Elems(toClient)
    BY <2>1, TailElems
  <2>3. h.type = "IO" /\ h.op = call.op /\ h.frag < call.n /\ h.frag \notin seen
    BY <2>1, <2>2 DEF InStep, ReadInStep, NoReply
  <2> QED BY <2>1, <2>3 DEF MyFragment
<1>2. ASSUME NEW h, SessionClosed(h) PROVE FALSE
  BY <1>2 DEF SessionClosed, Fail, End
<1>3. ASSUME RecvMisaligned \/ RecvTimeout \/ RecvEof PROVE FALSE
  BY <1>3, NoLossMeans DEF RecvMisaligned, RecvTimeout, RecvEof, InStep
<1> QED
  BY <1>1, <1>2, <1>3, RecvFragmentQuietly, ReplyEndsQuietly, FileClosedQuietly
  DEF RecvStep
-----------------------------------------------------------------------------
(* The server.                                                             *)

LEMMA ServeQuietly ==
    ASSUME DiskInv, NoLoss, sock = "open", InStep, Serve PROVE InStep'
<1>1. PICK m : m = Head(toServer)
  OBVIOUS
<1>2. /\ toServer # <<>> /\ ~m.torn /\ toServer' = Tail(toServer)
      /\ ServeRead(m) \/ ServeWrite(m) \/ ServeClose(m)
      /\ UNCHANGED <<pc, call, seen, toClient, sync, linkUp>>
  BY <1>1 DEF Serve, client
<1>3. /\ m \in Request /\ m \in Elems(toServer) /\ GoodRequest(m) /\ MyRequest(m)
      /\ Tail(toServer) \in Seq(Request)
      /\ Elems(Tail(toServer)) \subseteq Elems(toServer)
      /\ \A k \in Elems(Tail(toServer)) : Before(m, k)
  BY <1>1, <1>2, FirstRequest
<1>4. Busy /\ m.op = call.op /\ linkUp /\ sync = "frame"
      /\ \A k \in Elems(toServer) : ~k.torn /\ k.op = call.op
  BY <1>2, <1>3 DEF InStep, Busy
<1>5. /\ m.kind = call.kind /\ m.start = call.start /\ m.n = call.n
      /\ m.kind = "write" => m.frag < sent
  BY <1>3, <1>4 DEF MyRequest
<1>6. /\ m.start + m.n <= NumBlocks /\ m.frag < m.n /\ m.n \in Nat /\ m.frag \in Nat
  BY <1>3, RequestFields DEF GoodRequest
<1>7. \A k \in Elems(toServer') : ~k.torn /\ (Busy' => k.op = call'.op)
  BY <1>2, <1>3, <1>4
<1>8. Underway /\ sent \in Nat /\ pc \in {"idle", "write", "read", "reply"}
  BY Constants DEF DiskInv, TypeOK
<1>9. NoReply
  BY <1>2, <1>4, <1>8 DEF InStep, ReadInStep, ReplyInStep, Busy
<1>10. CASE pc = "read"
  <2>1. ServeRead(m) /\ m.kind = "read"
    BY <1>2, <1>5, <1>8, <1>10 DEF Underway, Busy, ServeWrite, ServeClose
  <2>2. toServer' = <<>>
    BY <1>1, <1>2, <1>4, <2>1, LastRequest
  <2>3. jobs' = {Job(m, "IO", f) : f \in 0 .. (m.n - 1)}
    BY <1>9, <2>1, NoLossMeans DEF ServeRead, NoReply
  <2>4. ASSUME NEW f \in 0 .. (m.n - 1)
        PROVE  LET j == Job(m, "IO", f) IN
               j.type = "IO" /\ j.op = call.op /\ j.frag = f /\ f < call.n
    BY <1>4, <1>5, <1>6 DEF Job
  <2>5. seen = {}
    BY <1>2, <1>10 DEF DiskInv, Reading
  <2>6. ASSUME NEW j \in jobs'
        PROVE  /\ j.type = "IO" /\ j.op = call.op /\ j.frag < call.n
               /\ j = Job(m, "IO", j.frag)
    <3>1. PICK f \in 0 .. (m.n - 1) : j = Job(m, "IO", f)
      BY <2>3
    <3> QED BY <2>4, <3>1
  <2>7. toClient' = <<>> /\ Elems(toClient') = {} /\ Len(toClient') = 0
    BY <1>2, <1>9, EmptyElems DEF NoReply
  <2>8. ReadInStep'
    <3>1. \A h \in jobs' \cup Elems(toClient') :
             h.type = "IO" /\ h.op = call'.op /\ h.frag < call'.n /\ h.frag \notin seen'
      BY <1>2, <2>5, <2>6, <2>7
    <3>2. \A j, k \in jobs' : j.frag = k.frag => j = k
      BY <2>6
    <3>3. \A i, k \in 1 .. Len(toClient') :
             i < k => toClient'[i].frag # toClient'[k].frag
      BY <2>7
    <3> QED BY <2>2, <2>7, <3>1, <3>2, <3>3 DEF ReadInStep, Elems
  <2> QED BY <1>2, <1>4, <1>7, <1>10, <2>8 DEF InStep, Elems, Busy
<1>11. CASE pc = "write"
  <2>1. m.kind = "write" /\ sent < m.n
    BY <1>5, <1>8, <1>11 DEF Underway, Busy
  <2>2. m.frag < m.n - 1
    BY <1>5, <1>6, <1>8, <2>1
  <2>3. jobs' = jobs
    BY <1>2, <2>1, <2>2 DEF ServeRead, ServeWrite, ServeClose
  <2> QED BY <1>2, <1>4, <1>7, <1>9, <1>11, <2>3 DEF InStep, NoReply, Elems, Busy
<1>12. CASE pc = "reply"
  <2>1. /\ m.kind \in {"write", "CLOSE_FILE", "CLOSE_SESSION"}
        /\ Final(toServer[Len(toServer)])
    <3>1. m.kind \in Kinds \ {"read"}
      BY <1>5, <1>8, <1>12, CallFields DEF Underway, Busy, DiskInv, TypeOK
    <3> QED BY <1>2, <1>12, <3>1 DEF InStep, ReplyInStep, Kinds
  <2>2. /\ toServer \in Seq(Request) /\ Len(toServer) \in Nat \ {0}
        /\ m = toServer[1] /\ Len(Tail(toServer)) = Len(toServer) - 1
        /\ \A i \in 1 .. Len(Tail(toServer)) : Tail(toServer)[i] = toServer[i + 1]
    BY <1>1, <1>2 DEF DiskInv, TypeOK
  <2>3. CASE Tail(toServer) = <<>>
    <3>1. Len(toServer) = 1
      <4>1. Len(Tail(toServer)) = 0
        BY <1>3, <2>3, EmptySeq
      <4>2. Len(toServer) - 1 = 0 /\ Len(toServer) \in Nat
        BY <2>2, <4>1
      <4> QED BY <4>2
    <3>2. Final(m)
      BY <2>1, <2>2, <3>1
    <3>3. \E ty : jobs' = {Job(m, ty, NumBlocks)}
      <4>1. CASE ServeWrite(m)
        <5>1. ~(m.frag < m.n - 1)
          BY <1>6, <3>2, <4>1 DEF Final, ServeWrite
        <5> QED BY <1>9, <4>1, <5>1 DEF ServeWrite, NoReply
      <4>2. CASE ServeClose(m)
        BY <1>9, <2>1, <4>2 DEF ServeClose, NoReply
      <4> QED BY <1>2, <2>1, <4>1, <4>2 DEF ServeRead
    <3>4. PICK ty : jobs' = {Job(m, ty, NumBlocks)}
      BY <3>3
    <3>5. Job(m, ty, NumBlocks).frag = NumBlocks
      BY DEF Job
    <3>6. \E j \in jobs' : jobs' = {j} /\ j.frag = NumBlocks
      BY <3>4, <3>5
    <3>7. ReplyInStep'
      BY <1>2, <1>9, <2>3, <3>6 DEF ReplyInStep, NoReply
    <3> QED BY <1>2, <1>4, <1>7, <1>12, <3>7 DEF InStep, Elems, Busy
  <2>4. CASE Tail(toServer) # <<>>
    <3> DEFINE t == Tail(toServer)
               e == t[Len(t)]
    <3>1. /\ Len(t) \in Nat \ {0} /\ Len(t) + 1 = Len(toServer) /\ Len(t) \in 1 .. Len(t)
      BY <1>3, <2>2, <2>4
    <3>2. e = toServer[Len(toServer)] /\ e \in Elems(t)
      BY <2>2, <3>1 DEF Elems
    <3> HIDE DEF t, e
    <3>3. e \in Request /\ e.op = call.op /\ Before(m, e) /\ Final(e)
      BY <1>3, <1>4, <2>1, <3>2 DEF t, DiskInv, TypeOK, Elems
    <3>4. ~(m.op < e.op)
      BY <1>3, <1>4, <3>3, RequestFields
    <3>5. m.kind = "write" /\ e.kind = "write" /\ m.n = e.n /\ m.frag < e.frag
      BY <3>3, <3>4 DEF Before
    <3>6. e.frag = e.n - 1
      BY <3>3, <3>5 DEF Final
    <3>7. m.frag < m.n - 1
      BY <3>5, <3>6
    <3>8. jobs' = jobs
      BY <1>2, <3>5, <3>7 DEF ServeRead, ServeWrite, ServeClose
    <3>9. ReplyInStep'
      BY <1>2, <1>9, <2>4, <3>3, <3>8 DEF ReplyInStep, NoReply, Final, t, e
    <3> QED BY <1>2, <1>4, <1>7, <1>12, <3>9 DEF InStep, Elems, Busy
  <2> QED BY <2>3, <2>4
<1> QED BY <1>4, <1>8, <1>10, <1>11, <1>12 DEF Busy

LEMMA SendReplyQuietly ==
    ASSUME DiskInv, InStep, SendReply PROVE InStep'
<1>1. PICK j \in jobs :
         /\ jobs' = jobs \ {j}
         /\ toClient' = Append(toClient, IF j.frag = NumBlocks THEN j
                                         ELSE [j EXCEPT !.val = disk[j.block]])
  BY DEF SendReply
<1>2. PICK r : r = IF j.frag = NumBlocks THEN j ELSE [j EXCEPT !.val = disk[j.block]]
  OBVIOUS
<1>3. /\ toClient' = Append(toClient, r)
      /\ UNCHANGED <<pc, call, seen, toServer, sync, linkUp>>
  BY <1>1, <1>2 DEF SendReply, client
<1>4. toClient \in Seq(Reply) /\ j \in Reply /\ disk \in [Blocks -> Values]
  BY <1>1 DEF DiskInv, TypeOK
<1>5. /\ r \in Reply /\ r.type = j.type /\ r.op = j.op /\ r.frag = j.frag
  BY <1>2, <1>4 DEF Reply
<1>6. pc \in {"read", "reply"} /\ linkUp /\ sync = "frame"
  BY <1>1 DEF InStep, NoReply, DiskInv, TypeOK
<1>7. \A m \in Elems(toServer)' : ~m.torn /\ (Busy' => m.op = call'.op)
  BY <1>3 DEF InStep, Elems, Busy
<1>8. CASE pc = "read"
  <2>1. /\ toServer = <<>>
        /\ \A h \in jobs \cup Elems(toClient) :
              h.type = "IO" /\ h.op = call.op /\ h.frag < call.n /\ h.frag \notin seen
        /\ \A i, k \in jobs : i.frag = k.frag => i = k
        /\ \A i \in jobs, h \in Elems(toClient) : i.frag # h.frag
        /\ \A i, k \in 1 .. Len(toClient) :
              i < k => toClient[i].frag # toClient[k].frag
    BY <1>1, <1>8 DEF InStep, ReadInStep, NoReply
  <2>2. Elems(toClient') = Elems(toClient) \cup {r}
    BY <1>3, <1>4, <1>5, AppendElems
  <2>3. \A h \in jobs' \cup Elems(toClient') :
           h.type = "IO" /\ h.op = call.op /\ h.frag < call.n /\ h.frag \notin seen
    BY <1>1, <1>5, <2>1, <2>2
  <2>4. \A i, k \in jobs' : i.frag = k.frag => i = k
    BY <1>1, <2>1
  <2>5. \A i \in jobs', h \in Elems(toClient') : i.frag # h.frag
    BY <1>1, <1>5, <2>1, <2>2
  <2>6. /\ Len(toClient') = Len(toClient) + 1 /\ Len(toClient) \in Nat
        /\ toClient'[Len(toClient) + 1] = r
        /\ \A i \in 1 .. Len(toClient) : toClient'[i] = toClient[i]
    BY <1>3, <1>4, <1>5
  <2>7. ASSUME NEW i \in 1 .. Len(toClient'), NEW k \in 1 .. Len(toClient'), i < k
        PROVE  toClient'[i].frag # toClient'[k].frag
    <3>1. /\ i \in 1 .. Len(toClient) /\ toClient'[i] = toClient[i]
          /\ toClient[i] \in Elems(toClient)
      BY <2>6, <2>7 DEF Elems
    <3>2. CASE k = Len(toClient) + 1
      BY <1>1, <1>5, <2>1, <2>6, <3>1, <3>2
    <3>3. CASE k \in 1 .. Len(toClient)
      BY <2>1, <2>6, <2>7, <3>1, <3>3
    <3> QED BY <2>6, <3>2, <3>3
  <2>8. ReadInStep'
    BY <1>3, <2>1, <2>3, <2>4, <2>5, <2>7 DEF ReadInStep, Elems
  <2> QED BY <1>3, <1>6, <1>7, <1>8, <2>8 DEF InStep
<1>9. CASE pc = "reply"
  <2>1. toServer = <<>> /\ toClient = <<>> /\ jobs = {j} /\ j.frag = NumBlocks
    BY <1>1, <1>9 DEF InStep, ReplyInStep, NoReply
  <2>2. jobs' = {} /\ r = j
    BY <1>1, <1>2, <2>1
  <2>3. Len(toClient') = 1 /\ Head(toClient') = j
    BY <1>3, <1>4, <2>1, <2>2, Single
  <2>4. ReplyInStep'
    BY <1>3, <2>1, <2>2, <2>3 DEF ReplyInStep
  <2> QED BY <1>3, <1>6, <1>7, <1>9, <2>4 DEF InStep
<1> QED BY <1>6, <1>8, <1>9
-----------------------------------------------------------------------------
LEMMA QuietInit == Init => QuietInv
<1> SUFFICES ASSUME Init PROVE InStep
  BY DEF QuietInv
<1>1. Elems(toServer) = {}
  BY EmptyElems DEF Init
<1> QED BY <1>1 DEF Init, InStep, NoReply

LEMMA QuietNext == DiskInv /\ DiskInv' /\ QuietInv /\ [Next]_vars => QuietInv'
<1> SUFFICES ASSUME DiskInv, DiskInv', QuietInv, [Next]_vars, NoLoss, sock' = "open"
             PROVE  InStep'
  BY DEF QuietInv, NoLoss
<1>1. sock = "open"
  <2>1. sock' \in {sock, "closed"}
    BY DEF Next, vars, client, Read, Write, WriteFragment, Close, RecvStep, RecvFragment,
       RejectFragment, WriteDone, FileClosed, SessionClosed, RejectReply, RecvMisaligned,
       RecvTimeout, RecvEof, Serve, ServeTorn, SendReply, LinkDown, Begin, Fail, End
  <2> QED BY <2>1
<1>2. InStep
  BY <1>1 DEF QuietInv
<1>3. ASSUME NEW r \in Ranges, Read(r[1], r[2]) \/ Write(r[1], r[2]) PROVE InStep'
  BY <1>1, <1>2, <1>3, ReadQuietly, WriteQuietly DEF Ranges
<1>4. ASSUME ServeTorn PROVE FALSE
  <2>1. toServer \in Seq(Request) /\ Len(toServer) > 1 /\ Head(toServer).torn
    BY <1>4 DEF ServeTorn, DiskInv, TypeOK
  <2>2. Head(toServer) \in Elems(toServer)
    BY <2>1, TailElems
  <2> QED BY <1>2, <2>1, <2>2 DEF InStep
<1>5. ASSUME LinkDown PROVE FALSE
  BY <1>5, NoLossMeans DEF LinkDown
<1>6. CASE UNCHANGED vars
  <2>1. UNCHANGED <<pc, call, seen, toServer, toClient, sync, linkUp, jobs>>
    BY <1>6 DEF vars, client, wire, server
  <2> QED BY <1>2, <2>1 DEF InStep, ReadInStep, ReplyInStep, NoReply, Busy, Elems, Final
<1> QED
  BY <1>1, <1>2, <1>3, <1>4, <1>5, <1>6, WriteFragmentQuietly, CloseQuietly, RecvQuietly,
     ServeQuietly, SendReplyQuietly DEF Next

\* Without timeouts, failed sends and read errors a call takes all the answers
\* it is owed: the next one starts on an empty connection, even after a write
\* that the server refused.
THEOREM StaysQuiescent == Spec => []Quiescent
<1>1. QuietInv => Quiescent
  BY DEF QuietInv, Quiescent, InStep, NoReply, NoLoss
<1> QED BY <1>1, QuietInit, QuietNext, DiskInvAlways, PTL DEF Spec
=============================================================================
