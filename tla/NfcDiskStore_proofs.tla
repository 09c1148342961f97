------------------------ MODULE NfcDiskStore_proofs ------------------------
(***************************************************************************)
(* An NfcDisk session implements BlockStore, for a disk of any size, any   *)
(* number of operations and any of the faults: every step of the client,   *)
(* the connection or the server is a step of the block store, or leaves it *)
(* as it is.                                                               *)
(***************************************************************************)
EXTENDS NfcDisk_proofs

\* What the write requests of a queue will leave on the disk, and where.
Pairs(q) == {<<Place(m), Value(m)>> : m \in {e \in Elems(q) : e.kind = "write"}}

\* What the block store has pending: the write requests under way.
Pend == {<<m.start + m.frag, IF m.torn THEN Garbage ELSE m.op>> :
            m \in {toServer[i] : i \in {j \in DOMAIN toServer :
                                          toServer[j].kind = "write"}}}

LEMMA PairsOf ==
    ASSUME NEW q \in Seq(Request)
    PROVE  {<<m.start + m.frag, IF m.torn THEN Garbage ELSE m.op>> :
               m \in {q[i] : i \in {j \in DOMAIN q : q[j].kind = "write"}}} = Pairs(q)
<1>1. DOMAIN q = 1 .. Len(q)
  OBVIOUS
<1>2. {q[i] : i \in {j \in DOMAIN q : q[j].kind = "write"}}
          = {e \in Elems(q) : e.kind = "write"}
  BY <1>1 DEF Elems
<1> QED BY <1>2 DEF Pairs, Place, Value

LEMMA PendIsPairs ==
    ASSUME DiskInv, DiskInv' PROVE Pend = Pairs(toServer) /\ Pend' = Pairs(toServer')
<1>1. toServer \in Seq(Request) /\ toServer' \in Seq(Request)
  BY DEF DiskInv, TypeOK
<1> QED BY <1>1, PairsOf DEF Pend

LEMMA AppendPairs ==
    ASSUME NEW q \in Seq(Request), NEW m \in Request
    PROVE  Pairs(Append(q, m)) =
               Pairs(q) \cup (IF m.kind = "write" THEN {<<Place(m), Value(m)>>} ELSE {})
<1>1. Elems(Append(q, m)) = Elems(q) \cup {m}
  BY AppendElems
<1> QED BY <1>1 DEF Pairs

\* What is pending changes only with the write requests under way.
LEMMA PendKept ==
    ASSUME DiskInv, DiskInv', NEW m \in Request, m.kind # "write",
           toServer' = toServer \/ toServer' = Append(toServer, m)
    PROVE  Pend' = Pend
<1>1. toServer \in Seq(Request)
  BY DEF DiskInv, TypeOK
<1> QED BY <1>1, PendIsPairs, AppendPairs

\* The result of a call that raises.
LEMMA FailedResult ==
    ASSUME NEW k
    PROVE  [NoResult EXCEPT !.kind = k]
               = [kind |-> k, ok |-> FALSE, data |-> NoData, blocks |-> {}]
<1> DEFINE R == [kind : {k, "none"}, ok : BOOLEAN, blocks : {{}}, data : {NoData}]
           r == [NoResult EXCEPT !.kind = k]
<1>1. NoResult \in R
  BY DEF NoResult
<1>2. r \in R
  BY <1>1
<1>3. r.kind = k /\ r.ok = FALSE /\ r.blocks = {} /\ r.data = NoData
  BY <1>1 DEF NoResult
<1> HIDE DEF r
<1>4. r = [kind |-> k, ok |-> FALSE, data |-> NoData, blocks |-> {}]
  BY <1>2, <1>3
<1> QED BY <1>4 DEF r

\* The steps of the block store, in the terms of the session.
LEMMA StoreBegins ==
    ASSUME pc' # "idle", call' \in Call, last' = NoResult, UNCHANGED <<disk, Pend>>
    PROVE  Store!Begin
BY DEF Store!Begin, Pend

LEMMA StoreFails ==
    ASSUME NEW c \in Call, Fail(c), call' \in Call, UNCHANGED <<disk, Pend>>
    PROVE  Store!Fail
<1>1. c.kind \in {"read", "write", "CLOSE_FILE", "CLOSE_SESSION"}
  BY CallFields DEF Kinds
<1>2. /\ pc' = "idle"
      /\ last' = [kind |-> c.kind, ok |-> FALSE, data |-> NoData, blocks |-> {}]
  BY DEF Fail, End, Ended
<1>3. [NoResult EXCEPT !.kind = c.kind]
          = [kind |-> c.kind, ok |-> FALSE, data |-> NoData, blocks |-> {}]
  BY FailedResult
<1> QED BY <1>1, <1>2, <1>3 DEF Store!Fail, Pend

LEMMA StoreReturns ==
    ASSUME pc # "idle", call \in Call, Pend = {}, NEW d, End(call, TRUE, d),
           call' \in Call,
           d = IF call.kind = "read"
               THEN [b \in Blocks |-> IF b \in Extent(call) THEN disk[b] ELSE Garbage]
               ELSE NoData,
           call.kind = "write" => \A b \in Extent(call) : disk[b] = call.op,
           UNCHANGED <<disk, Pend>>
    PROVE  Store!Return
<1>1. /\ pc' = "idle"
      /\ last' = [kind |-> call.kind, ok |-> TRUE, data |-> d, blocks |-> Extent(call)]
  BY DEF End, Ended
<1>2. NoResult.data = NoData
  BY DEF NoResult
<1> QED BY <1>1, <1>2 DEF Store!Return, Store!Extent, Extent, Pend

LEMMA StoreSettles ==
    ASSUME NEW b, NEW v, <<b, v>> \in Pend, Pend' \subseteq Pend \ {<<b, v>>},
           disk' = [disk EXCEPT ![b] = v], UNCHANGED <<pc, call, last>>
    PROVE  Store!Settle
BY DEF Store!Settle, Pend

LEMMA StoreDrops ==
    ASSUME Pend' \subseteq Pend, UNCHANGED <<disk, pc, call, last>>
    PROVE  Store!Drop
BY DEF Store!Drop, Pend

LEMMA StoreSubmits ==
    ASSUME pc # "idle", call.kind = "write", NEW b \in Extent(call), UNCHANGED disk,
           \/ /\ Pend' = Pend \cup {<<b, call.op>>} /\ pc' # "idle"
              /\ UNCHANGED <<call, last>>
           \/ /\ Pend' = Pend \cup {<<b, Garbage>>}
              /\ pc' = "idle" /\ call' \in Call
              /\ last' = [NoResult EXCEPT !.kind = "write"]
    PROVE  Store!Submit
BY DEF Store!Submit, Store!Extent, Extent, Pend
-----------------------------------------------------------------------------
(* Every step of the session is one of the store, or leaves it as it is.   *)

StoreStep ==
    \/ Store!Begin \/ Store!Submit \/ Store!Settle \/ Store!Drop \/ Store!Fail
    \/ Store!Return \/ UNCHANGED Store!vars

LEMMA StoreStutters == ASSUME UNCHANGED <<disk, Pend, pc, call, last>> PROVE StoreStep
BY DEF StoreStep, Store!vars, Pend

\* A call that sends one request, and no write, begins or fails.
LEMMA SendIsStoreStep ==
    ASSUME DiskInv, DiskInv', NEW c \in Call, c.kind # "write", NEW p, p # "idle",
           UNCHANGED disk,
           \/ SendOk(c, Message(c, 0)) /\ Begin(c, p)
           \/ SendFails(c, Message(c, 0)) /\ Fail(c)
    PROVE  StoreStep
<1> DEFINE m == Message(c, 0)
           t == [m EXCEPT !.torn = TRUE]
<1>1. m \in Request /\ m.kind = c.kind /\ t \in Request /\ t.kind = c.kind
  <2>1. m \in Request /\ m.kind = c.kind
    BY MessageType, Constants
  <2> HIDE DEF m
  <2> QED BY <2>1, TornType
<1>2. call' \in Call
  BY DEF DiskInv, TypeOK
<1>3. CASE SendOk(c, m) /\ Begin(c, p)
  <2>1. toServer' = toServer \/ toServer' = Append(toServer, m)
    BY <1>3 DEF SendOk
  <2> HIDE DEF m
  <2>2. Pend' = Pend
    BY <1>1, <2>1, PendKept
  <2>3. pc' # "idle" /\ last' = NoResult
    BY <1>3 DEF Begin
  <2> QED BY <1>2, <2>2, <2>3, StoreBegins DEF StoreStep
<1>4. CASE SendFails(c, m) /\ Fail(c)
  <2>1. toServer' = toServer \/ toServer' = Append(toServer, t)
    BY <1>4, SendFailsAdds
  <2> HIDE DEF m, t
  <2>2. Pend' = Pend
    BY <1>1, <2>1, PendKept
  <2> QED BY <1>2, <1>4, <2>2, StoreFails DEF StoreStep
<1> QED BY <1>3, <1>4

LEMMA ReadIsStoreStep ==
    ASSUME DiskInv, DiskInv', NEW s \in Blocks, NEW n \in 1 .. NumBlocks, Read(s, n)
    PROVE  StoreStep
<1> DEFINE c == [kind |-> "read", op |-> op_id, start |-> s, n |-> n]
<1>1. c \in Call /\ c.kind = "read"
  BY DEF Call, Kinds, DiskInv, TypeOK
<1>2. /\ \/ SendOk(c, Message(c, 0)) /\ Begin(c, "read")
         \/ SendFails(c, Message(c, 0)) /\ Fail(c)
      /\ UNCHANGED disk
  BY DEF Read, server
<1> HIDE DEF c
<1> QED BY <1>1, <1>2, SendIsStoreStep

LEMMA CloseIsStoreStep ==
    ASSUME DiskInv, DiskInv', Close PROVE StoreStep
<1> DEFINE c == [kind |-> "CLOSE_FILE", op |-> op_id, start |-> 0, n |-> 1]
<1>1. c \in Call /\ c.kind = "CLOSE_FILE"
  BY Constants DEF Call, Kinds, DiskInv, TypeOK
<1>2. /\ \/ SendOk(c, Message(c, 0)) /\ Begin(c, "reply")
         \/ SendFails(c, Message(c, 0)) /\ Fail(c)
      /\ UNCHANGED disk
  BY DEF Close, server
<1> HIDE DEF c
<1> QED BY <1>1, <1>2, SendIsStoreStep

LEMMA FileClosedIsStoreStep ==
    ASSUME DiskInv, DiskInv', NEW h, FileClosed(h) PROVE StoreStep
<1> DEFINE c == [call EXCEPT !.kind = "CLOSE_SESSION", !.op = op_id]
<1>1. c \in Call /\ c.kind = "CLOSE_SESSION"
  BY DEF Call, Kinds, DiskInv, TypeOK
<1>2. /\ \/ SendOk(c, Message(c, 0)) /\ Begin(c, "reply")
         \/ SendFails(c, Message(c, 0)) /\ Fail(c)
      /\ UNCHANGED disk
  BY DEF FileClosed, server
<1> HIDE DEF c
<1> QED BY <1>1, <1>2, SendIsStoreStep

LEMMA WriteIsStoreStep ==
    ASSUME DiskInv, DiskInv', NEW s, NEW n, Write(s, n) PROVE StoreStep
<1>1. /\ pc' = "write" /\ last' = NoResult /\ UNCHANGED <<disk, toServer>>
      /\ call' \in Call
  BY DEF Write, Begin, server, wire, DiskInv, TypeOK
<1>2. Pend' = Pend
  BY <1>1 DEF Pend
<1> QED BY <1>1, <1>2, StoreBegins DEF StoreStep

LEMMA FailIsStoreStep ==
    ASSUME DiskInv, DiskInv', Fail(call), UNCHANGED <<disk, toServer>> PROVE StoreStep
<1>1. call \in Call /\ call' \in Call
  BY DEF DiskInv, TypeOK
<1>2. Pend' = Pend
  BY DEF Pend
<1> QED BY <1>1, <1>2, StoreFails DEF StoreStep

LEMMA WriteFragmentIsStoreStep ==
    ASSUME DiskInv, DiskInv', WriteFragment PROVE StoreStep
<1>0. pc = "write" /\ UNCHANGED disk
  BY DEF WriteFragment, server
<1>1. /\ call \in Call /\ call.kind = "write" /\ sent \in Nat /\ sent < call.n
      /\ sent \in Blocks /\ call.n \in Nat /\ call.start \in Nat
  BY <1>0, NextFragment
<1>2. PICK m \in Request :
         /\ m = Message(call, sent) /\ m.kind = "write" /\ m.op = call.op
         /\ m.start = call.start /\ m.frag = sent /\ m.torn = FALSE
  <2> DEFINE x == Message(call, sent)
  <2>1. /\ x \in Request /\ x.kind = call.kind /\ x.op = call.op /\ x.start = call.start
        /\ x.frag = sent /\ x.torn = FALSE /\ x = Message(call, sent)
    BY <1>1, MessageType
  <2> HIDE DEF x
  <2> QED BY <1>1, <2>1
<1>3. PICK t \in Request :
         /\ t = [m EXCEPT !.torn = TRUE] /\ t.kind = "write"
         /\ t.start = call.start /\ t.frag = sent /\ t.torn = TRUE
  <2>1. PICK u \in Request :
           /\ u = [m EXCEPT !.torn = TRUE] /\ u.torn = TRUE
           /\ u.kind = m.kind /\ u.start = m.start /\ u.frag = m.frag
    BY TornRequest
  <2>2. u.kind = "write" /\ u.start = call.start /\ u.frag = sent
    BY <1>2, <2>1
  <2> QED BY <2>1, <2>2, Zenon
<1>4. PICK b : b = call.start + sent
  OBVIOUS
<1>5. b \in Extent(call)
  BY <1>1, <1>4 DEF Extent
<1>6. toServer \in Seq(Request) /\ call' \in Call
  BY DEF DiskInv, TypeOK
<1>7. Pend = Pairs(toServer) /\ Pend' = Pairs(toServer')
  BY PendIsPairs
<1>8. CASE /\ SendOk(call, m) /\ pc' = IF AllSent THEN "reply" ELSE "write"
           /\ UNCHANGED <<call, last>>
  <2>1. CASE toServer' = toServer
    <3>1. Pend' = Pend
      BY <1>7, <2>1
    <3>2. UNCHANGED Store!vars
      BY <1>0, <1>8, <3>1 DEF Store!vars, Pend
    <3> QED BY <3>2 DEF StoreStep
  <2>2. CASE toServer' = Append(toServer, m)
    <3>1. Pend' = Pend \cup {<<b, call.op>>}
      BY <1>2, <1>4, <1>6, <1>7, <2>2, AppendPairs DEF Place, Value
    <3> QED BY <1>0, <1>1, <1>5, <1>8, <3>1, StoreSubmits DEF StoreStep
  <2> QED BY <1>8, <2>1, <2>2 DEF SendOk
<1>9. CASE SendFails(call, m) /\ Fail(call)
  <2>1. CASE toServer' = toServer
    BY <1>0, <1>9, <2>1, FailIsStoreStep
  <2>2. CASE toServer' = Append(toServer, t)
    <3>1. Pend' = Pend \cup {<<b, Garbage>>}
      BY <1>3, <1>4, <1>6, <1>7, <2>2, AppendPairs DEF Place, Value
    <3>2. /\ pc' = "idle"
          /\ last' = [kind |-> "write", ok |-> FALSE, data |-> NoData, blocks |-> {}]
      BY <1>1, <1>9 DEF Fail, End, Ended
    <3>3. last' = [NoResult EXCEPT !.kind = "write"]
      BY <3>2, FailedResult
    <3> QED BY <1>0, <1>1, <1>5, <1>6, <3>1, <3>2, <3>3, StoreSubmits DEF StoreStep
  <2> QED BY <1>3, <1>9, <2>1, <2>2, SendFailsAdds
<1> QED BY <1>2, <1>8, <1>9 DEF WriteFragment

LEMMA RecvFragmentIsStoreStep ==
    ASSUME DiskInv, DiskInv', NEW h, RecvFragment(h) PROVE StoreStep
<1> DEFINE d == [data EXCEPT ![call.start + h.frag] = h.val]
<1>0. Receiving("read", h) /\ MyFragment(h) /\ UNCHANGED <<toServer, disk>>
  BY DEF RecvFragment, server
<1>1. /\ pc = "read" /\ toServer = <<>> /\ h.frag \in 0 .. (call.n - 1)
      /\ call \in Call /\ call.kind = "read" /\ call.start + call.n <= NumBlocks
      /\ call.n \in Nat /\ call.n >= 1 /\ call.start \in Nat
  BY <1>0, MyFragmentIs
<1>2. d = [b \in Blocks |-> IF b - call.start \in seen \cup {h.frag} THEN disk[b]
                            ELSE Garbage]
  BY <1>0, FragmentPlaced
<1> HIDE DEF d
<1>3. Pend = {} /\ Pend' = Pend
  BY <1>0, <1>1, EmptyElems, PendIsPairs DEF Pairs
<1>4. CASE UNCHANGED <<pc, call, last>>
  BY <1>0, <1>3, <1>4, StoreStutters
<1>5. CASE Cardinality(seen \cup {h.frag}) = call.n /\ End(call, TRUE, d)
  <2>1. seen \cup {h.frag} = 0 .. (call.n - 1)
    <3>1. seen \cup {h.frag} \subseteq 0 .. (call.n - 1)
      BY <1>1 DEF DiskInv, Reading
    <3> QED BY <1>1, <1>5, <3>1, AllSeen
  <2>2. ASSUME NEW b \in Blocks
        PROVE  b - call.start \in 0 .. (call.n - 1) <=> b \in Extent(call)
    <3>1. b \in Int /\ call.start \in Int /\ call.n \in Int
      BY <1>1, Constants DEF Blocks
    <3> QED BY <3>1 DEF Extent
  <2>3. d = [b \in Blocks |-> IF b \in Extent(call) THEN disk[b] ELSE Garbage]
    BY <1>2, <2>1, <2>2
  <2>4. call' \in Call
    BY DEF DiskInv, TypeOK
  <2> QED BY <1>0, <1>1, <1>3, <1>5, <2>3, <2>4, StoreReturns DEF StoreStep
<1> QED BY <1>4, <1>5 DEF RecvFragment, d

LEMMA WriteDoneIsStoreStep ==
    ASSUME DiskInv, DiskInv', NEW h, WriteDone(h) PROVE StoreStep
<1>1. /\ call.kind = "write" /\ End(call, TRUE, NoData) /\ UNCHANGED <<toServer, disk>>
      /\ Receiving("reply", h) /\ MyReply(h) /\ ConsumeReply(h)
  BY DEF WriteDone, server
<1>2. /\ pc = "reply" /\ toServer = <<>> /\ h.op = call.op /\ h.type = "IO"
      /\ MyReplyGood(h) /\ call \in Call
  BY <1>1, MyReplyIs
<1>3. \A b \in Extent(call) : disk[b] = call.op
  BY <1>1, <1>2 DEF MyReplyGood, Busy
<1>4. Pend = {} /\ Pend' = Pend
  BY <1>1, <1>2, EmptyElems, PendIsPairs DEF Pairs
<1>5. call' \in Call
  BY DEF DiskInv, TypeOK
<1> QED BY <1>1, <1>2, <1>3, <1>4, <1>5, StoreReturns DEF StoreStep

LEMMA SessionClosedIsStoreStep ==
    ASSUME DiskInv, DiskInv', NEW h, SessionClosed(h) PROVE StoreStep
<1>1. /\ Receiving("reply", h) /\ MyReply(h) /\ ConsumeReply(h)
      /\ call.kind = "CLOSE_SESSION" /\ UNCHANGED disk
  BY DEF SessionClosed, server
<1>2. pc = "reply" /\ toServer = <<>> /\ call \in Call
  BY <1>1, MyReplyIs
<1>3. PICK m \in Request :
         /\ m = [Message(call, 0) EXCEPT !.kind = "SESSION_COMPLETE"]
         /\ m.kind = "SESSION_COMPLETE"
  <2> DEFINE x == Message(call, 0)
  <2>1. x \in Request
    BY <1>2, MessageType, Constants
  <2> HIDE DEF x
  <2>2. [x EXCEPT !.kind = "SESSION_COMPLETE"] \in Request
    BY <2>1 DEF Request
  <2> QED BY <2>1, <2>2 DEF Request, x
<1>4. PICK t \in Request : t = [m EXCEPT !.torn = TRUE] /\ t.kind = m.kind
  BY <1>3, TornRequest
<1>5. call' \in Call
  BY DEF DiskInv, TypeOK
<1>6. CASE SendOk(call, m) /\ End(call, TRUE, NoData)
  <2>1. toServer' = toServer \/ toServer' = Append(toServer, m)
    BY <1>6 DEF SendOk
  <2>2. Pend' = Pend
    BY <1>3, <2>1, PendKept
  <2>3. Pend = {}
    BY <1>2, EmptyElems, PendIsPairs DEF Pairs
  <2> QED BY <1>1, <1>2, <1>5, <1>6, <2>2, <2>3, StoreReturns DEF StoreStep
<1>7. CASE SendFails(call, m) /\ Fail(call)
  <2>1. toServer' = toServer \/ toServer' = Append(toServer, t)
    BY <1>4, <1>7, SendFailsAdds
  <2>2. Pend' = Pend
    BY <1>3, <1>4, <2>1, PendKept
  <2> QED BY <1>1, <1>2, <1>5, <1>7, <2>2, StoreFails DEF StoreStep
<1> QED BY <1>3, <1>6, <1>7 DEF SessionClosed

LEMMA RecvIsStoreStep == ASSUME DiskInv, DiskInv', RecvStep PROVE StoreStep
<1>1. ASSUME NEW h, RejectFragment(h) \/ RejectReply(h) PROVE StoreStep
  BY <1>1, FailIsStoreStep DEF RejectFragment, RejectReply, server
<1>2. ASSUME RecvMisaligned \/ RecvTimeout \/ RecvEof PROVE StoreStep
  BY <1>2, FailIsStoreStep DEF RecvMisaligned, RecvTimeout, RecvEof, server, wire
<1> QED
  BY <1>1, <1>2, RecvFragmentIsStoreStep, WriteDoneIsStoreStep, FileClosedIsStoreStep,
     SessionClosedIsStoreStep DEF RecvStep

\* A request that the server takes is no longer pending: none behind it leaves
\* the same value in the same block.
LEMMA FirstPair ==
    ASSUME DiskInv, toServer # <<>>, NEW m, m = Head(toServer), m.kind = "write"
    PROVE  /\ <<Place(m), Value(m)>> \in Pairs(toServer)
           /\ Pairs(Tail(toServer)) \subseteq Pairs(toServer)
           /\ ~m.torn =>
                 Pairs(Tail(toServer)) \subseteq Pairs(toServer) \ {<<Place(m), m.op>>}
<1>1. /\ m \in Request /\ m \in Elems(toServer)
      /\ Elems(Tail(toServer)) \subseteq Elems(toServer) /\ Elems(toServer) \subseteq Request
      /\ \A k \in Elems(Tail(toServer)) : Before(m, k)
  BY FirstRequest DEF DiskInv, TypeOK, Elems
<1>2. <<Place(m), Value(m)>> \in Pairs(toServer)
  BY <1>1 DEF Pairs
<1>3. Pairs(Tail(toServer)) \subseteq Pairs(toServer)
  BY <1>1 DEF Pairs
<1>4. ASSUME NEW k \in Elems(Tail(toServer)), Place(k) = Place(m)
      PROVE  Value(k) # m.op
  <2>1. k \in Request /\ Before(m, k)
    BY <1>1
  <2>2. /\ k.op \in Nat /\ m.op \in Nat /\ m.op >= FirstOp /\ k.frag \in Nat
        /\ m.frag \in Nat /\ k.start \in Nat /\ m.start \in Nat
    BY <1>1, <2>1, RequestFields, Constants DEF Ops
  <2>3. m.op < k.op
    BY <1>4, <2>1, <2>2 DEF Before, Place
  <2> QED BY <2>2, <2>3 DEF Value, Garbage, FirstOp
<1>5. <<Place(m), m.op>> \notin Pairs(Tail(toServer))
  BY <1>4 DEF Pairs
<1> QED BY <1>2, <1>3, <1>5

LEMMA ServeIsStoreStep == ASSUME DiskInv, DiskInv', Serve PROVE StoreStep
<1>1. PICK m : m = Head(toServer)
  OBVIOUS
<1>2. /\ toServer # <<>> /\ ~m.torn /\ toServer' = Tail(toServer)
      /\ ServeRead(m) \/ ServeWrite(m) \/ ServeClose(m)
      /\ UNCHANGED <<pc, call, last>>
  BY <1>1 DEF Serve, client
<1>3. Pend = Pairs(toServer) /\ Pend' = Pairs(toServer')
  BY PendIsPairs
<1>4. CASE ServeRead(m) \/ ServeClose(m)
  <2>1. UNCHANGED disk
    BY <1>4 DEF ServeRead, ServeClose
  <2>2. Pend' \subseteq Pend
    BY <1>1, <1>2, <1>3, FirstRequest DEF Pairs
  <2> QED BY <1>2, <2>1, <2>2, StoreDrops DEF StoreStep
<1>5. CASE ServeWrite(m)
  <2>1. /\ m.kind = "write"
        /\ disk' = disk \/ disk' = [disk EXCEPT ![Place(m)] = m.op]
    BY <1>5 DEF ServeWrite, Place
  <2>2. /\ <<Place(m), m.op>> \in Pend /\ Pend' \subseteq Pend
        /\ Pend' \subseteq Pend \ {<<Place(m), m.op>>}
    BY <1>1, <1>2, <1>3, <2>1, FirstPair DEF Value
  <2>3. CASE disk' = disk
    BY <1>2, <2>2, <2>3, StoreDrops DEF StoreStep
  <2>4. CASE disk' = [disk EXCEPT ![Place(m)] = m.op]
    BY <1>2, <2>2, <2>4, StoreSettles DEF StoreStep
  <2> QED BY <2>1, <2>3, <2>4
<1> QED BY <1>2, <1>4, <1>5

LEMMA ServeTornIsStoreStep == ASSUME DiskInv, DiskInv', ServeTorn PROVE StoreStep
<1>1. PICK m : m = Head(toServer)
  OBVIOUS
<1>2. /\ Len(toServer) > 1 /\ m.torn
      /\ disk' = IF m.kind = "write" THEN [disk EXCEPT ![Place(m)] = Garbage] ELSE disk
      /\ toServer' = <<>> /\ UNCHANGED <<pc, call, last>>
  BY <1>1 DEF ServeTorn, Place, client
<1>3. toServer # <<>>
  BY <1>2
<1>4. Pend = Pairs(toServer) /\ Pend' = {}
  BY <1>2, EmptyElems, PendIsPairs DEF Pairs
<1>5. CASE m.kind = "write"
  <2>1. <<Place(m), Garbage>> \in Pend
    BY <1>1, <1>2, <1>3, <1>4, <1>5, FirstPair DEF Value
  <2> QED BY <1>2, <1>4, <1>5, <2>1, StoreSettles DEF StoreStep
<1>6. CASE m.kind # "write"
  BY <1>2, <1>4, <1>6, StoreDrops DEF StoreStep
<1> QED BY <1>5, <1>6

LEMMA LinkIsStoreStep ==
    ASSUME DiskInv, DiskInv', LinkDown \/ SendReply PROVE StoreStep
<1>1. /\ toServer' = <<>> \/ toServer' = toServer
      /\ UNCHANGED <<disk, pc, call, last>>
  BY DEF LinkDown, SendReply, client
<1>2. Pend' \subseteq Pend
  BY <1>1, EmptyElems, PendIsPairs DEF Pairs
<1> QED BY <1>1, <1>2, StoreDrops DEF StoreStep

LEMMA StoreInitially == Init => Store!Init
<1> SUFFICES ASSUME Init PROVE Store!Init
  OBVIOUS
<1>1. toServer = <<>> /\ toServer \in Seq(Request)
  BY DEF Init
<1>2. Pend = {}
  BY <1>1, PairsOf, EmptyElems DEF Pend, Pairs
<1>3. call \in Call
  BY Defaults DEF Init
<1> QED BY <1>2, <1>3 DEF Store!Init, Init, Pend

LEMMA StoreNext == DiskInv /\ DiskInv' /\ [Next]_vars => StoreStep
<1> SUFFICES ASSUME DiskInv, DiskInv', [Next]_vars PROVE StoreStep
  OBVIOUS
<1>1. ASSUME NEW r \in Ranges, Read(r[1], r[2]) \/ Write(r[1], r[2]) PROVE StoreStep
  BY <1>1, ReadIsStoreStep, WriteIsStoreStep DEF Ranges
<1>2. CASE UNCHANGED vars
  <2>1. UNCHANGED <<disk, toServer, pc, call, last>>
    BY <1>2 DEF vars, client, wire, server
  <2>2. Pend' = Pend
    BY <2>1 DEF Pend
  <2> QED BY <2>1, <2>2, StoreStutters
<1> QED
  BY <1>1, <1>2, WriteFragmentIsStoreStep, CloseIsStoreStep, RecvIsStoreStep,
     ServeIsStoreStep, ServeTornIsStoreStep, LinkIsStoreStep DEF Next

\* The session implements the block store: readinto returns the disk as it then
\* is, a write that returns is on it, and a call that returns has waited for
\* whatever calls that failed before it left on the way.
THEOREM SessionIsBlockStore == Spec => ImplementsBlockStore
<1>1. DiskInv /\ DiskInv' /\ [Next]_vars =>
        [Store!Begin \/ Store!Submit \/ Store!Settle \/ Store!Drop \/ Store!Fail
         \/ Store!Return]_Store!vars
  BY StoreNext DEF StoreStep
<1> QED BY <1>1, StoreInitially, DiskInvAlways, PTL DEF Spec, ImplementsBlockStore, Store!Spec
=============================================================================
