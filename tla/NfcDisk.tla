------------------------------ MODULE NfcDisk ------------------------------
(***************************************************************************)
(* A whole NfcDisk session (openvixdisklib/nfc_open.py) from the moment    *)
(* open_disk returns: reads, writes and the close that the caller issues   *)
(* one after the other on one socket, with replies that come late, calls   *)
(* that fail half way and are followed by more calls, and a server that    *)
(* works on its own.  One reply or request fragment carries one block; the *)
(* bytes inside a fragment are the business of NfcRead.                    *)
(*                                                                         *)
(* Two abstractions of the byte stream.  When a call gives up inside a     *)
(* reply, "sync" says that the next receive starts in the middle of a      *)
(* frame; sixteen bytes read there are taken not to start with the AIO     *)
(* magic.  A request whose sendall stopped half way is "torn": what the    *)
(* client sends next is read by the server as the rest of it.              *)
(***************************************************************************)
EXTENDS Integers, Sequences, FiniteSets

CONSTANTS
    NumBlocks,  \* size of the disk, in blocks
    OpLimit,    \* the first operation id that struct.pack("<I") refuses
    MaxOp,      \* bound: no read or write starts with a later operation id
    FaultSet    \* what may go wrong, a subset of Faults

Faults == {"timeout", "sendfail", "linkdown", "readerr", "writeerr"}

\* open_disk uses the operation ids 0 to 3.
FirstOp == 4

ASSUME DiskConstants ==
    /\ NumBlocks \in Nat \ {0}
    /\ OpLimit \in Nat /\ OpLimit >= FirstOp
    /\ MaxOp \in Nat
    /\ FaultSet \subseteq Faults

Blocks == 0 .. (NumBlocks - 1)
Ops == {n \in Nat : n >= FirstOp}

\* The value of a block names the write that put it there.
Original == 0
Garbage == 1
Values == {Original, Garbage} \cup Ops

VARIABLES
    \* the client: NfcDisk and the call in progress
    op_id, closed, sock, pc, call, sent, seen, data, last,
    \* the connection
    toServer, toClient, sync, linkUp,
    \* the server
    disk, jobs, fileOpen, sessionOpen,
    \* history: per block, the last acknowledged value and the values that
    \* writes not acknowledged since then may have left
    acked, maybe

client == <<op_id, closed, sock, pc, call, sent, seen, data, last>>
wire == <<toServer, toClient, sync, linkUp>>
server == <<disk, jobs, fileOpen, sessionOpen>>
history == <<acked, maybe>>
vars == <<client, wire, server, history>>

Kinds == {"read", "write", "CLOSE_FILE", "CLOSE_SESSION"}
Call == [kind : Kinds, op : Ops, start : Blocks, n : 1 .. NumBlocks]
Request == [kind : Kinds \cup {"SESSION_COMPLETE"}, op : Ops, start : Blocks,
            n : 1 .. NumBlocks, frag : Blocks, torn : BOOLEAN]
\* frag = NumBlocks: a reply that carries no block.
Reply == [type : {"IO", "CLOSE_FILE", "CLOSE_SESSION", "ERROR"}, op : Ops,
          frag : 0 .. NumBlocks, block : Blocks, val : Values]

\* Blocks of call or request c.
Extent(c) == c.start .. (c.start + c.n - 1)
-----------------------------------------------------------------------------
NoCall == [kind |-> "read", op |-> FirstOp, start |-> 0, n |-> 1]
NoData == [b \in Blocks |-> Garbage]
NoResult == [kind |-> "none", ok |-> FALSE, blocks |-> {}, data |-> NoData]

Init ==
    /\ op_id = FirstOp /\ closed = FALSE /\ sock = "open" /\ pc = "idle"
    /\ call = NoCall /\ sent = 0 /\ seen = {} /\ data = NoData
    /\ last = NoResult
    /\ toServer = <<>> /\ toClient = <<>> /\ sync = "frame" /\ linkUp = TRUE
    /\ disk = [b \in Blocks |-> Original]
    /\ jobs = {} /\ fileOpen = TRUE /\ sessionOpen = TRUE
    /\ acked = [b \in Blocks |-> Original]
    /\ maybe = [b \in Blocks |-> {}]

\* _next_op_id: a Python integer, which nothing keeps below the limit of the
\* field it is packed into (cut to that field, it would start again at 0).
OpIdWraps == (op_id + 1) % OpLimit
NextOpId == op_id + 1

\* Call c goes on at p, its local variables fresh.
Begin(c, p) ==
    /\ pc' = p /\ call' = c /\ sent' = 0 /\ seen' = {} /\ data' = NoData
    /\ last' = NoResult /\ UNCHANGED sock

\* It returns (with d, if it is a read) or raises, and its local variables
\* are gone.  The finally clause of close() closes the socket either way.
Ended(c, ok, d) ==
    /\ pc' = "idle" /\ call' = NoCall /\ sent' = 0 /\ seen' = {}
    /\ data' = NoData
    /\ last' = [kind |-> c.kind, ok |-> ok, data |-> d,
                blocks |-> IF ok THEN Extent(c) ELSE {}]
EndWithoutFinally(c, ok, d) ==
    /\ Ended(c, ok, d)
    /\ sock' = IF c.kind = "CLOSE_SESSION" /\ ok THEN "closed" ELSE sock
End(c, ok, d) ==
    /\ Ended(c, ok, d)
    /\ sock' = IF c.kind \in {"read", "write"} THEN sock ELSE "closed"
Fail(c) == End(c, FALSE, NoData)

\* sendall succeeds; on a connection that is gone the bytes are lost.
SendOk(c, m) ==
    /\ sock = "open" /\ c.op < OpLimit
    /\ toServer' = IF linkUp THEN Append(toServer, m) ELSE toServer

\* struct.error for the id, a closed socket, a broken connection, or a send
\* that times out before or after a part of the message is on its way (for
\* a write also FastLZ failing on the fragment, before it is sent).
SendFails(c, m) ==
    \/ /\ sock = "closed" \/ c.op >= OpLimit \/ ~linkUp
       /\ UNCHANGED toServer
    \/ /\ "sendfail" \in FaultSet
       /\ sock = "open" /\ c.op < OpLimit /\ linkUp
       /\ toServer' \in {toServer, Append(toServer, [m EXCEPT !.torn = TRUE])}

\* The request of call c that carries fragment f.
Message(c, f) == [kind |-> c.kind, op |-> c.op, start |-> c.start, n |-> c.n,
                  frag |-> f, torn |-> FALSE]

\* readinto sends its one request.
Read(s, n) ==
    LET c == [kind |-> "read", op |-> op_id, start |-> s, n |-> n] IN
    /\ pc = "idle" /\ op_id <= MaxOp
    /\ op_id' = NextOpId
    /\ \/ SendOk(c, Message(c, 0)) /\ Begin(c, "read")
       \/ SendFails(c, Message(c, 0)) /\ Fail(c)
    /\ UNCHANGED <<closed, toClient, sync, linkUp, server, history>>

\* write takes its operation id; its fragments follow.
Write(s, n) ==
    /\ pc = "idle" /\ op_id <= MaxOp
    /\ op_id' = NextOpId
    /\ Begin([kind |-> "write", op |-> op_id, start |-> s, n |-> n], "write")
    /\ UNCHANGED <<closed, wire, server, history>>

\* One turn of the fragment loop of write; after the last the reply is due.
AllSentEarly == sent + 2 >= call.n
AllSent == sent + 1 = call.n
WriteFragment ==
    LET b == call.start + sent
        m == Message(call, sent)
    IN
    /\ pc = "write"
    /\ \/ /\ SendOk(call, m)
          /\ sent' = sent + 1
          /\ pc' = IF AllSent THEN "reply" ELSE "write"
          /\ maybe' = [maybe EXCEPT ![b] = @ \cup {call.op}]
          /\ UNCHANGED <<call, seen, data, last, sock>>
       \/ /\ SendFails(call, m)
          /\ Fail(call)
          /\ maybe' = IF toServer' = toServer THEN maybe
                      ELSE [maybe EXCEPT ![b] = @ \cup {Garbage}]
    /\ UNCHANGED <<op_id, closed, toClient, sync, linkUp, server, acked>>

CloseNoFile ==
    LET c == [kind |-> "CLOSE_SESSION", op |-> op_id, start |-> 0, n |-> 1] IN
    /\ pc = "idle" /\ ~closed
    /\ closed' = TRUE /\ op_id' = NextOpId
    /\ \/ SendOk(c, Message(c, 0)) /\ Begin(c, "reply")
       \/ SendFails(c, Message(c, 0)) /\ Fail(c)
    /\ UNCHANGED <<toClient, sync, linkUp, server, history>>

\* close: the first time, the CLOSE_FILE round trip starts.
Close ==
    LET c == [kind |-> "CLOSE_FILE", op |-> op_id, start |-> 0, n |-> 1] IN
    /\ pc = "idle" /\ ~closed
    /\ closed' = TRUE /\ op_id' = NextOpId
    /\ \/ SendOk(c, Message(c, 0)) /\ Begin(c, "reply")
       \/ SendFails(c, Message(c, 0)) /\ Fail(c)
    /\ UNCHANGED <<toClient, sync, linkUp, server, history>>
-----------------------------------------------------------------------------
(* Receiving.  A call that gives up inside a frame leaves the rest of it.  *)

\* The call is waiting for a frame, and the next one to come is h.
Receiving(p, h) ==
    pc = p /\ sync = "frame" /\ toClient # <<>> /\ h = Head(toClient)

\* The header of a fragment names this read, and its dest is new.
AnyIoFragment(h) == h.type = "IO" /\ h.frag < call.n /\ h.frag \notin seen
MyFragment(h) ==
    h.type = "IO" /\ h.op = call.op /\ h.frag < call.n /\ h.frag \notin seen

\* The loop of readinto.
RecvFragment(h) ==
    LET d == [data EXCEPT ![call.start + h.frag] = h.val] IN
    /\ Receiving("read", h) /\ MyFragment(h)
    /\ toClient' = Tail(toClient)
    /\ \/ /\ Cardinality(seen \cup {h.frag}) < call.n
          /\ seen' = seen \cup {h.frag} /\ data' = d
          /\ UNCHANGED <<pc, call, sent, last, sock>>
       \/ /\ Cardinality(seen \cup {h.frag}) = call.n
          /\ End(call, TRUE, d)
    /\ UNCHANGED <<op_id, closed, toServer, sync, linkUp, server, history>>

\* _unpack_aio_hdr or the checks after it raise: only the header, or the
\* header and the payload, of the frame have been read.  Nothing is left
\* only of an error whose payload is empty.
RejectFragment(h) ==
    /\ Receiving("read", h) /\ ~MyFragment(h)
    /\ \/ sync' = "mid" /\ UNCHANGED toClient
       \/ h.type = "ERROR" /\ toClient' = Tail(toClient) /\ UNCHANGED sync
    /\ Fail(call)
    /\ UNCHANGED <<op_id, closed, toServer, linkUp, server, history>>

\* rtype and rop are those of the request.
AnyReply(h) == h.type # "ERROR"
MyReply(h) ==
    /\ h.type = IF call.kind = "write" THEN "IO" ELSE call.kind
    /\ h.op = call.op

\* _aio_recv_reply reads header and payload; what is left of the frame is
\* the data of a read fragment, if it is one.
ConsumeHeaderOfError(h) ==
    IF h.type = "ERROR" THEN UNCHANGED toClient /\ sync' = "mid"
    ELSE toClient' = Tail(toClient) /\ UNCHANGED sync
ConsumeReply(h) ==
    \/ h.frag = NumBlocks /\ toClient' = Tail(toClient) /\ UNCHANGED sync
    \/ h.frag < NumBlocks /\ UNCHANGED toClient /\ sync' = "mid"

\* The reply to a write: it returns.
WriteDone(h) ==
    /\ Receiving("reply", h) /\ call.kind = "write" /\ MyReply(h)
    /\ ConsumeReply(h)
    /\ acked' = [b \in Blocks |-> IF b \in Extent(call) THEN call.op ELSE acked[b]]
    /\ maybe' = [b \in Blocks |-> IF b \in Extent(call) THEN {} ELSE maybe[b]]
    /\ End(call, TRUE, NoData)
    /\ UNCHANGED <<op_id, closed, toServer, linkUp, server>>

\* The reply to CLOSE_FILE: the CLOSE_SESSION round trip follows.
FileClosed(h) ==
    LET c == [call EXCEPT !.kind = "CLOSE_SESSION", !.op = op_id] IN
    /\ Receiving("reply", h) /\ call.kind = "CLOSE_FILE" /\ MyReply(h)
    /\ ConsumeReply(h)
    /\ op_id' = NextOpId
    /\ \/ SendOk(c, Message(c, 0)) /\ Begin(c, "reply")
       \/ SendFails(c, Message(c, 0)) /\ Fail(c)
    /\ UNCHANGED <<closed, linkUp, server, history>>

\* The reply to CLOSE_SESSION: SESSION_COMPLETE is sent, close returns.
SessionClosed(h) ==
    LET m == [Message(call, 0) EXCEPT !.kind = "SESSION_COMPLETE"] IN
    /\ Receiving("reply", h) /\ call.kind = "CLOSE_SESSION" /\ MyReply(h)
    /\ ConsumeReply(h)
    /\ \/ SendOk(call, m) /\ End(call, TRUE, NoData)
       \/ SendFails(call, m) /\ Fail(call)
    /\ UNCHANGED <<op_id, closed, linkUp, server, history>>

RejectReply(h) ==
    /\ Receiving("reply", h) /\ ~MyReply(h)
    /\ ConsumeReply(h)
    /\ Fail(call)
    /\ UNCHANGED <<op_id, closed, toServer, linkUp, server, history>>

\* Sixteen bytes from the middle of a frame: a magic mismatch.  They end in
\* the same frame, with it, or in the next one.
RecvMisaligned ==
    /\ pc \in {"read", "reply"} /\ sync = "mid"
    /\ \/ UNCHANGED <<toClient, sync>>
       \/ toClient' = Tail(toClient) /\ sync' = "frame"
       \/ Len(toClient) > 1 /\ toClient' = Tail(toClient) /\ UNCHANGED sync
    /\ Fail(call)
    /\ UNCHANGED <<op_id, closed, toServer, linkUp, server, history>>

\* recv times out, possibly with a part of a frame read.
NoTimeout == FALSE /\ UNCHANGED vars
RecvTimeout ==
    /\ "timeout" \in FaultSet
    /\ pc \in {"read", "reply"}
    /\ sync' \in {sync} \cup (IF toClient = <<>> THEN {} ELSE {"mid"})
    /\ Fail(call)
    /\ UNCHANGED <<op_id, closed, toServer, toClient, linkUp, server, history>>

\* recv returns no bytes.
RecvEof ==
    /\ pc \in {"read", "reply"} /\ ~linkUp /\ toClient = <<>>
    /\ Fail(call)
    /\ UNCHANGED <<op_id, closed, wire, server, history>>

RecvStep ==
    \/ \E h \in {toClient[i] : i \in 1 .. Len(toClient)} :
          \/ RecvFragment(h) \/ RejectFragment(h) \/ WriteDone(h)
          \/ FileClosed(h) \/ SessionClosed(h) \/ RejectReply(h)
    \/ RecvMisaligned \/ RecvTimeout \/ RecvEof
-----------------------------------------------------------------------------
(* The server takes requests in order and owes replies ("jobs") that it    *)
(* may send in any order; a fragment carries the block as it then is.      *)

Job(m, type, f) ==
    [type |-> type, op |-> m.op, frag |-> f,
     block |-> IF f = NumBlocks THEN m.start ELSE m.start + f, val |-> Original]

ServeRead(m) ==
    /\ m.kind = "read"
    /\ \/ jobs' = jobs \cup {Job(m, "IO", f) : f \in 0 .. (m.n - 1)}
       \/ "readerr" \in FaultSet /\ jobs' = jobs \cup {Job(m, "ERROR", NumBlocks)}
    /\ UNCHANGED <<disk, fileOpen, sessionOpen>>

\* One reply to a write, after its last fragment.
ServeWrite(m) ==
    LET b == m.start + m.frag IN
    /\ m.kind = "write"
    /\ disk' \in {[disk EXCEPT ![b] = m.op]}
                 \cup (IF "writeerr" \in FaultSet THEN {disk} ELSE {})
    /\ jobs' = IF m.frag < m.n - 1 THEN jobs
               ELSE jobs \cup {Job(m, IF \A e \in Extent(m) : disk'[e] = m.op
                                      THEN "IO" ELSE "ERROR", NumBlocks)}
    /\ UNCHANGED <<fileOpen, sessionOpen>>

ServeClose(m) ==
    /\ m.kind \in {"CLOSE_FILE", "CLOSE_SESSION", "SESSION_COMPLETE"}
    /\ fileOpen' = (fileOpen /\ m.kind # "CLOSE_FILE")
    /\ sessionOpen' = (sessionOpen /\ m.kind # "CLOSE_SESSION")
    /\ jobs' = IF m.kind = "SESSION_COMPLETE" THEN jobs
               ELSE jobs \cup {Job(m, m.kind, NumBlocks)}
    /\ UNCHANGED disk

Serve ==
    LET m == Head(toServer) IN
    /\ linkUp /\ toServer # <<>> /\ ~m.torn
    /\ ServeRead(m) \/ ServeWrite(m) \/ ServeClose(m)
    /\ toServer' = Tail(toServer)
    /\ UNCHANGED <<client, toClient, sync, linkUp, history>>

\* A torn request swallows what follows: a write fragment puts it on the
\* disk, and the server then gives the connection up.
ServeTorn ==
    LET m == Head(toServer) IN
    /\ linkUp /\ Len(toServer) > 1 /\ m.torn
    /\ disk' = IF m.kind = "write"
               THEN [disk EXCEPT ![m.start + m.frag] = Garbage] ELSE disk
    /\ linkUp' = FALSE /\ toServer' = <<>> /\ jobs' = {}
    /\ UNCHANGED <<client, toClient, sync, fileOpen, sessionOpen, history>>

SendReply ==
    /\ linkUp
    /\ \E j \in jobs :
          /\ jobs' = jobs \ {j}
          /\ toClient' = Append(toClient,
                IF j.frag = NumBlocks THEN j
                ELSE [j EXCEPT !.val = disk[j.block]])
    /\ UNCHANGED <<client, toServer, sync, linkUp, disk, fileOpen, sessionOpen,
                   history>>

\* The connection breaks; requests and replies not yet delivered are lost.
LinkDown ==
    /\ "linkdown" \in FaultSet /\ linkUp
    /\ linkUp' = FALSE /\ toServer' = <<>> /\ jobs' = {}
    /\ UNCHANGED <<client, toClient, sync, disk, fileOpen, sessionOpen, history>>

Ranges == {r \in Blocks \X (1 .. NumBlocks) : r[1] + r[2] <= NumBlocks}

Next ==
    \/ \E r \in Ranges : Read(r[1], r[2]) \/ Write(r[1], r[2])
    \/ WriteFragment
    \/ Close
    \/ RecvStep
    \/ Serve \/ ServeTorn \/ SendReply \/ LinkDown

Spec == Init /\ [][Next]_vars

\* A call in progress goes on by itself: it sends, receives what has arrived
\* or runs into the timeout of the socket.
ClientSpec == Spec /\ WF_vars(WriteFragment) /\ WF_vars(RecvStep)

\* Moreover the server works off what it has got.
ServedSpec == ClientSpec /\ WF_vars(Serve) /\ WF_vars(SendReply)
-----------------------------------------------------------------------------
(* Properties.                                                             *)

TypeOK ==
    /\ op_id \in Ops /\ closed \in BOOLEAN /\ sock \in {"open", "closed"}
    /\ pc \in {"idle", "write", "read", "reply"}
    /\ call \in Call /\ sent \in 0 .. NumBlocks /\ seen \subseteq Blocks
    /\ data \in [Blocks -> Values]
    /\ last \in [kind : Kinds \cup {"none"}, ok : BOOLEAN,
                 blocks : SUBSET Blocks, data : [Blocks -> Values]]
    /\ toServer \in Seq(Request) /\ toClient \in Seq(Reply)
    /\ sync \in {"frame", "mid"} /\ linkUp \in BOOLEAN
    /\ disk \in [Blocks -> Values] /\ jobs \subseteq Reply
    /\ fileOpen \in BOOLEAN /\ sessionOpen \in BOOLEAN
    /\ acked \in [Blocks -> Values] /\ maybe \in [Blocks -> SUBSET Values]

\* What block b may hold as far as the caller knows.
Known(b) == {acked[b]} \cup maybe[b]

\* A read that returns shows, block by block, the last acknowledged write or
\* one that failed since: never the late answer to an earlier call.
NoStaleRead ==
    pc = "idle" /\ last.kind = "read" =>
        \A b \in last.blocks : last.data[b] \in Known(b)

\* A write that returned is on the disk, and stays there until a later write
\* to the block; failed calls and their leftovers harm only their own blocks.
AckedWritesSurvive == \A b \in Blocks : disk[b] \in Known(b)

\* However close() ends, the socket is released.
CloseReleases == closed /\ pc = "idle" => sock = "closed"

\* A close() that returns has really closed the disk on the server.
OrderlyClose ==
    last.kind = "CLOSE_SESSION" /\ last.ok => ~fileOpen /\ ~sessionOpen

\* Between two calls the session is in step: nothing is in flight, even
\* after a write that the server refused.
Quiescent ==
    FaultSet \subseteq {"writeerr"} /\ pc = "idle" /\ sock = "open" =>
        toServer = <<>> /\ toClient = <<>> /\ jobs = {} /\ sync = "frame"

\* close() is there to "Close the VMDK, the AIO session, and the classic NFC
\* session": while the connection lasts, it closes the AIO session.
CloseClosesSession ==
    closed /\ pc = "idle" /\ linkUp /\ op_id < OpLimit => ~sessionOpen

\* The session is a block store: what a call that returns says holds of the
\* whole disk, late effects of the calls that failed before it included.
Store == INSTANCE BlockStore WITH
    store <- disk, busy <- (pc # "idle"), cur <- call, Calls <- Call,
    pend <- {<<m.start + m.frag, IF m.torn THEN Garbage ELSE m.op>> :
                m \in {toServer[i] : i \in {j \in DOMAIN toServer :
                                              toServer[j].kind = "write"}}}
ImplementsBlockStore == Store!Spec

\* Every call returns or raises.
CallEnds == pc # "idle" ~> pc = "idle"
=============================================================================
