---------------------------- MODULE NfcHandshake ----------------------------
(***************************************************************************)
(* The conversation that turns a ticket into an open disk, message by      *)
(* message on one TCP connection: connect_authd (nfc_auth.py), then        *)
(* open_disk (nfc_open.py) with the take-over of the socket, _handshake,   *)
(* _aio_prepare and OPEN_FILE.  Some messages are answered and some are    *)
(* not, some are followed by bytes of announced length, and on the way the *)
(* connection changes between plain TCP and two TLS sessions.              *)
(*                                                                         *)
(* The client is a script of exchanges: it sends some messages, then waits *)
(* for one reply and checks it.  The server is external: it answers as the *)
(* client counts on, or refuses, and is confused by what it cannot read.   *)
(***************************************************************************)
EXTENDS Integers, Sequences

CONSTANTS
    NameLens,                \* lengths of client_name and op_id that occur
    NFC_PROTOCOL_VERSION,    \* the version the client offers
    AioBufferSize, NFC_SECTOR_SIZE,
    Versions,                \* versions a server may have
    FileReplies              \* fields of the OPEN_FILE replies that may come

Layers == {"tcp", "tls", "tls2"}
Kinds == {"line", "hello", "msg", "raw", "aio"}
FileReply == [size : Nat, type : Nat, sector : Nat]
NFC_DISK == 2
NoFile == [size |-> 0, type |-> 0, sector |-> 0]
Names == {"220", "200", "SESSION", "BANNER", "THUMBPRINT_SHA2", "PROXY", "TLS",
          "HANDSHAKE", "SESSION_PARAMS", "SESSION_PARAMS_REPLY", "VERSION",
          "CONNECTION_DATA", "SESSION_FEATURES", "AIO_SESSION_OPEN", "name",
          "OPEN_SESSION", "SET_SOCK_OPTS", "SET_RES_POOL", "OPEN_FILE", "ERROR"}

\* One message; "arg" is the number in it that matters.
Message == [layer : Layers, kind : Kinds, name : Names, arg : Nat, op : Nat,
            file : FileReply]

ASSUME HandshakeConstants ==
    /\ NameLens \subseteq Nat
    /\ NFC_PROTOCOL_VERSION \in Nat /\ AioBufferSize \in Nat \ {0}
    /\ NFC_SECTOR_SIZE \in Nat \ {0}
    /\ Versions \subseteq Nat /\ FileReplies \subseteq FileReply

VARIABLES
    opts,         \* the caller's: nfc_ssl, read_only, a thumbprint to check, names
    pc,           \* "run", "open" or "raised"
    step, sent,   \* the exchange the client is in, and what of it is sent
    op_id,        \* the next AIO operation id
    sector_size,  \* of the disk returned, 0 while there is none
    toServer, toClient,
    srv           \* the server

client == <<opts, pc, step, sent, op_id, sector_size>>
vars == <<client, toServer, toClient, srv>>

Options == [ssl : BOOLEAN, ro : BOOLEAN, pinned : BOOLEAN,
            name : NameLens, opname : NameLens]

Message0(layer, kind, name) ==
    [layer |-> layer, kind |-> kind, name |-> name, arg |-> 0, op |-> 0,
     file |-> NoFile]
With(m, n) == [m EXCEPT !.arg = n]

Line(name) == Message0("tls", "line", name)
Banner(name) == Message0("tcp", "line", name)
Hello == Message0("tcp", "hello", "TLS")
NfcLayer == IF opts.ssl THEN "tls2" ELSE "tcp"
Msg(name) == Message0(NfcLayer, "msg", name)
Raw(n) == With(Message0(NfcLayer, "raw", "name"), n)
Aio(name) == Message0(NfcLayer, "aio", name)
-----------------------------------------------------------------------------
(* The client's script.                                                    *)

Exchange(send, reply) == [send |-> send, reply |-> reply]

\* connect_authd: the banner, TLS, then the commands.  SESSION has no answer
\* of its own.  PROXY names an SSL service or not (arg), see VixHandle.
SessionEachAnswered == <<Exchange(<<Line("SESSION")>>, Line("220")),
                         Exchange(<<Line("BANNER")>>, Line("220"))>>
SessionExchange == <<Exchange(<<Line("SESSION"), Line("BANNER")>>, Line("220"))>>
AuthdScript ==
    <<Exchange(<<>>, Banner("220")), Exchange(<<Hello>>, Hello)>>
    \o SessionExchange \o
    <<Exchange(<<Line("THUMBPRINT_SHA2")>>, Line("200")),
      Exchange(<<With(Line("PROXY"), IF opts.ssl THEN 1 ELSE 0)>>, Line("200"))>>

\* takeover_authd_socket goes back to plain TCP; wrap_nfcssl_socket starts
\* the second TLS session on it.
TakeOverScript == IF opts.ssl THEN <<Exchange(<<Hello>>, Hello)>> ELSE <<>>

\* _handshake: the two names follow CONNECTION_DATA as they are.
ParamsEachAnswered ==
    <<Exchange(<<Msg("HANDSHAKE")>>, Msg("HANDSHAKE")),
      Exchange(<<Msg("SESSION_PARAMS")>>, Msg("SESSION_PARAMS_REPLY"))>>
ParamsExchange ==
    <<Exchange(<<Msg("HANDSHAKE"), Msg("SESSION_PARAMS")>>, Msg("SESSION_PARAMS_REPLY"))>>
HandshakeScript ==
    ParamsExchange \o
    <<Exchange(<<With(Msg("VERSION"), NFC_PROTOCOL_VERSION)>>, Msg("VERSION")),
      Exchange(<<With(Msg("CONNECTION_DATA"), opts.name + opts.opname),
                 Raw(opts.name), Raw(opts.opname), Msg("SESSION_FEATURES"),
                 Msg("AIO_SESSION_OPEN")>>, Msg("AIO_SESSION_OPEN"))>>

\* _aio_prepare, then OPEN_FILE with the flags for read_only (arg).
Roundtrip(m) == Exchange(<<m>>, m)
AioPrepareNoPool ==
    <<Roundtrip(With(Aio("OPEN_SESSION"), AioBufferSize)),
      Roundtrip(Aio("SET_SOCK_OPTS"))>>
AioPrepareScript ==
    <<Roundtrip(With(Aio("OPEN_SESSION"), AioBufferSize)),
      Roundtrip(Aio("SET_SOCK_OPTS")), Roundtrip(With(Aio("SET_RES_POOL"), 1))>>
OpenFileScript ==
    <<Roundtrip(With(Aio("OPEN_FILE"), IF opts.ro THEN 1 ELSE 0))>>

Script == AuthdScript \o TakeOverScript \o HandshakeScript
          \o AioPrepareScript \o OpenFileScript
Now == Script[step]
-----------------------------------------------------------------------------
(* The client.                                                             *)

Init ==
    /\ opts \in Options
    /\ pc = "run" /\ step = 1 /\ sent = 0 /\ op_id = 0 /\ sector_size = 0
    /\ toServer = <<>> /\ toClient = <<>>
    /\ srv = [stage |-> "greet", layer |-> "tcp", strings |-> 0, ticket |-> "none",
              cert |-> "none", ok |-> TRUE, version |-> 0, buf |-> 0, ro |-> 2,
              confused |-> FALSE]

\* The next message of the exchange; an empty name is no bytes at all, and
\* an AIO request takes the next operation id.
Send ==
    LET m == Now.send[sent + 1] IN
    /\ pc = "run" /\ sent < Len(Now.send)
    /\ sent' = sent + 1
    /\ toServer' = IF m.kind = "raw" /\ m.arg = 0 THEN toServer
                   ELSE Append(toServer, [m EXCEPT !.op = IF m.kind = "aio" THEN op_id ELSE 0])
    /\ op_id' = IF m.kind = "aio" THEN op_id + 1 ELSE op_id
    /\ UNCHANGED <<opts, pc, step, sector_size, toClient, srv>>

\* _parse_open_reply
OpenReplyOk(f) == f.size >= 40 /\ f.type = NFC_DISK
SectorSizeAsIs(f) == f.sector
SectorSize(f) == IF f.sector = 0 THEN NFC_SECTOR_SIZE ELSE f.sector

\* With a thumbprint in the ticket, authd's certificate has to be the one (arg
\* is 1 if it is); the second TLS session is not verified.
CertAny(m) == TRUE
CertOk(m) == m.kind = "hello" /\ step = 2 /\ opts.pinned => m.arg = 1

\* The checks on a reply: its code or type, for AIO its operation id, the
\* server's version, the file, the certificate.
Accepts(m) ==
    /\ m.layer = Now.reply.layer /\ m.kind = Now.reply.kind /\ m.name = Now.reply.name
    /\ m.kind = "aio" => m.op = op_id - 1
    /\ m.name = "VERSION" => m.arg >= 3
    /\ m.name = "OPEN_FILE" => OpenReplyOk(m.file)
    /\ CertOk(m)

\* OPEN_FILE was the last exchange.
LastExchange == step = Len(Script)

Receive ==
    LET m == Head(toClient) IN
    /\ pc = "run" /\ sent = Len(Now.send) /\ toClient # <<>>
    /\ toClient' = Tail(toClient)
    /\ \/ /\ Accepts(m) /\ ~LastExchange
          /\ step' = step + 1 /\ sent' = 0 /\ UNCHANGED <<pc, sector_size>>
       \/ /\ Accepts(m) /\ LastExchange
          /\ pc' = "open" /\ sector_size' = SectorSize(m.file)
          /\ UNCHANGED <<step, sent>>
       \/ ~Accepts(m) /\ pc' = "raised" /\ UNCHANGED <<step, sent, sector_size>>
    /\ UNCHANGED <<opts, op_id, toServer, srv>>

\* A send or a receive raises: timeout, end of stream, a line that is too
\* long, a name that is not ASCII.
Fail ==
    /\ pc = "run" /\ pc' = "raised"
    /\ UNCHANGED <<opts, step, sent, op_id, sector_size, toServer, toClient, srv>>
-----------------------------------------------------------------------------
(* The server.                                                             *)

\* It speaks first, and replies on the layer it has been spoken to.
Reply(m) == toClient' = Append(toClient, m)
Silent == UNCHANGED toClient

Greet ==
    /\ srv.stage = "greet" /\ srv' = [srv EXCEPT !.stage = "tls"]
    /\ \E n \in {"220", "ERROR"} : Reply(Banner(n))
    /\ UNCHANGED <<client, toServer>>

\* A message it can read: bytes of a name while there are some to come, or the
\* kind of message of its stage, in the right layer.
Readable(m) ==
    /\ m.layer = srv.layer
    /\ m.kind = IF srv.strings > 0 THEN "raw" ELSE
                CASE srv.stage = "tls" -> "hello"
                  [] srv.stage = "authd" -> "line"
                  [] srv.stage = "nfcssl" -> "hello"
                  [] srv.stage = "nfc" -> "msg"
                  [] srv.stage = "aio" -> "aio"
    /\ m.kind = "raw" => m.arg <= srv.strings

ServeHello(m) ==
    /\ m.kind = "hello"
    /\ \/ /\ srv.stage = "tls"
          /\ \E c \in {"ticket", "other"} :
                /\ srv' = [srv EXCEPT !.stage = "authd", !.layer = "tls", !.cert = c]
                /\ Reply(With(m, IF c = "ticket" THEN 1 ELSE 0))
       \/ /\ srv.stage = "nfcssl"
          /\ srv' = [srv EXCEPT !.stage = "nfc", !.layer = "tls2"] /\ Reply(m)

\* A bad ticket, or anything else it does not like, shows in the answer to a
\* later command.  PROXY hands the connection over.
ServeLine(m) ==
    /\ m.kind = "line"
    /\ \/ /\ m.name = "SESSION" /\ Silent
          /\ \E v \in {"valid", "bad"} : srv' = [srv EXCEPT !.ticket = v]
       \/ /\ m.name # "SESSION" /\ srv.ticket = "valid"
          /\ Reply([m EXCEPT !.name = IF m.name = "BANNER" THEN "220" ELSE "200"])
          /\ srv' = IF m.name # "PROXY" THEN srv
                    ELSE [srv EXCEPT !.layer = "tcp",
                             !.stage = IF m.arg = 1 THEN "nfcssl" ELSE "nfc"]
       \/ /\ m.name # "SESSION" /\ srv' = [srv EXCEPT !.ok = FALSE]
          /\ Reply([m EXCEPT !.name = "ERROR"])

AnswerTo(name) == IF name = "SESSION_PARAMS" THEN "SESSION_PARAMS_REPLY" ELSE name

ServeMsg(m) ==
    /\ m.kind = "msg"
    /\ \/ /\ m.name \in {"HANDSHAKE", "SESSION_FEATURES", "CONNECTION_DATA"} /\ Silent
          /\ srv' = [srv EXCEPT !.strings = IF m.name = "CONNECTION_DATA"
                                            THEN m.arg ELSE 0]
       \/ /\ m.name \in {"SESSION_PARAMS", "VERSION", "AIO_SESSION_OPEN"}
          /\ \E v \in IF m.name = "VERSION" THEN Versions ELSE {0} :
                /\ Reply([m EXCEPT !.name = AnswerTo(m.name), !.arg = v])
                /\ srv' = [srv EXCEPT
                      !.version = IF m.name = "VERSION" THEN v ELSE @,
                      !.stage = IF m.name = "AIO_SESSION_OPEN" THEN "aio" ELSE @]
       \/ /\ m.name \in {"SESSION_PARAMS", "VERSION", "AIO_SESSION_OPEN"}
          /\ Reply([m EXCEPT !.name = "ERROR"]) /\ srv' = [srv EXCEPT !.ok = FALSE]

ServeRaw(m) ==
    m.kind = "raw" /\ Silent /\ srv' = [srv EXCEPT !.strings = @ - m.arg]

ServeAio(m) ==
    /\ m.kind = "aio"
    /\ \/ \E f \in IF m.name = "OPEN_FILE" THEN FileReplies ELSE {NoFile} :
             /\ Reply([m EXCEPT !.file = f])
             /\ srv' = [srv EXCEPT
                   !.buf = IF m.name = "OPEN_SESSION" THEN m.arg ELSE @,
                   !.ro = IF m.name = "OPEN_FILE" THEN m.arg ELSE @]
       \/ Reply([m EXCEPT !.name = "ERROR"]) /\ srv' = [srv EXCEPT !.ok = FALSE]

Serve ==
    LET m == Head(toServer) IN
    /\ toServer # <<>> /\ srv.stage # "greet" /\ ~srv.confused
    /\ toServer' = Tail(toServer)
    /\ \/ /\ Readable(m)
          /\ ServeHello(m) \/ ServeLine(m) \/ ServeMsg(m) \/ ServeRaw(m) \/ ServeAio(m)
       \/ ~Readable(m) /\ srv' = [srv EXCEPT !.confused = TRUE] /\ Silent
    /\ UNCHANGED client

Next == Send \/ Receive \/ Fail \/ Greet \/ Serve

\* Both ends go on by themselves; no timeout is needed for it.
Spec == Init /\ [][Next]_vars
FairSpec == Spec /\ WF_vars(Send) /\ WF_vars(Receive) /\ WF_vars(Greet) /\ WF_vars(Serve)
-----------------------------------------------------------------------------
(* Properties.                                                             *)

\* Types.  An open disk, and no other, has a sector size: _parse_open_reply
\* never lets a zero through, with which every read would be an empty one.
TypeOK ==
    /\ opts \in Options
    /\ pc \in {"run", "open", "raised"}
    /\ step \in 1 .. Len(Script) /\ sent \in 0 .. Len(Now.send)
    /\ op_id \in Nat
    /\ sector_size \in Nat /\ (pc = "open" <=> sector_size > 0)
    /\ toServer \in Seq(Message) /\ toClient \in Seq(Message)
    /\ srv \in [stage : {"greet", "tls", "authd", "nfcssl", "nfc", "aio"},
                layer : Layers, strings : Nat, ticket : {"none", "valid", "bad"},
                cert : {"none", "ticket", "other"}, ok : BOOLEAN, version : Nat,
                buf : Nat, ro : 0 .. 2, confused : BOOLEAN]

\* Client and server never wait for each other, and never talk past each
\* other: while the client waits a reply is there or will be provoked by what
\* is on its way, and the server can read all it gets, in its layer and frame.
Conversing ==
    /\ ~srv.confused
    /\ pc = "run" /\ sent = Len(Now.send) =>
          toClient # <<>> \/ toServer # <<>> \/ srv.stage = "greet"

\* open_disk returns in the state that NfcDisk starts from: all replies have
\* been taken and no others are to come, four operation ids are used up, and
\* the sector size is not zero.
OpensInStep ==
    pc = "open" => /\ toServer = <<>> /\ toClient = <<>> /\ srv.strings = 0
                   /\ op_id = 4 /\ srv.stage = "aio" /\ srv.layer = NfcLayer
                   /\ sector_size > 0

\* A disk is open only if the server agreed to every step, with the options of
\* the caller, and the ticket has been shown only to the host it is for.
OpenJustified ==
    /\ pc = "open" =>
          /\ srv.ok /\ srv.ticket = "valid" /\ srv.version >= 3
          /\ srv.buf = AioBufferSize /\ srv.ro = (IF opts.ro THEN 1 ELSE 0)
    /\ opts.pinned /\ srv.ticket # "none" => srv.cert = "ticket"

\* The conversation ends, with an open disk or an exception.
ConversationEnds == pc = "run" ~> pc # "run"
=============================================================================
