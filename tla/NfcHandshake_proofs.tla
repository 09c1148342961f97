------------------------ MODULE NfcHandshake_proofs -------------------------
(***************************************************************************)
(* Client and server stay in step from the banner to OPEN_FILE, for names  *)
(* of any length, any server versions and any replies to OPEN_FILE.        *)
(*                                                                         *)
(* The invariant says where both are in the script: the server has read n  *)
(* messages of the exchange that the client is in, what is on its way are  *)
(* the messages n + 1 .. sent of it (empty names excepted), the server's   *)
(* stage, layer and announced bytes are those of that position, and there  *)
(* is a reply exactly when it has read them all.                           *)
(***************************************************************************)
EXTENDS NfcHandshake, SequenceTheorems, TLAPS

\* The exchanges, numbered as if the second TLS session were always there.
Exchanges ==
    <<Exchange(<<>>, Banner("220")),
      Exchange(<<Hello>>, Hello),
      Exchange(<<Line("SESSION"), Line("BANNER")>>, Line("220")),
      Exchange(<<Line("THUMBPRINT_SHA2")>>, Line("200")),
      Exchange(<<With(Line("PROXY"), IF opts.ssl THEN 1 ELSE 0)>>, Line("200")),
      Exchange(<<Hello>>, Hello),
      Exchange(<<Msg("HANDSHAKE"), Msg("SESSION_PARAMS")>>, Msg("SESSION_PARAMS_REPLY")),
      Exchange(<<With(Msg("VERSION"), NFC_PROTOCOL_VERSION)>>, Msg("VERSION")),
      Exchange(<<With(Msg("CONNECTION_DATA"), opts.name + opts.opname),
                 Raw(opts.name), Raw(opts.opname), Msg("SESSION_FEATURES"),
                 Msg("AIO_SESSION_OPEN")>>, Msg("AIO_SESSION_OPEN")),
      Roundtrip(With(Aio("OPEN_SESSION"), AioBufferSize)),
      Roundtrip(Aio("SET_SOCK_OPTS")),
      Roundtrip(With(Aio("SET_RES_POOL"), 1)),
      Roundtrip(With(Aio("OPEN_FILE"), IF opts.ro THEN 1 ELSE 0))>>

PlaceOf(k) == IF k <= 5 \/ opts.ssl THEN k ELSE k + 1
Place == PlaceOf(step)
NextPlace(x) == IF x = 5 /\ ~opts.ssl THEN 7 ELSE x + 1

\* Where the server is when it has read n messages of exchange x.
StageAt(x) ==
    IF x = 1 THEN "greet" ELSE IF x = 2 THEN "tls" ELSE IF x <= 5 THEN "authd"
    ELSE IF x = 6 THEN "nfcssl" ELSE IF x <= 9 THEN "nfc" ELSE "aio"
LayerAt(x) ==
    IF x <= 2 \/ x = 6 THEN "tcp" ELSE IF x <= 5 THEN "tls" ELSE NfcLayer
StringsAt(x, n) ==
    IF x # 9 THEN 0
    ELSE IF n = 1 THEN opts.name + opts.opname ELSE IF n = 2 THEN opts.opname ELSE 0

\* It has agreed to everything so far, and has the caller's options.
Ready(x, n) ==
    /\ srv.stage = StageAt(x) /\ srv.layer = LayerAt(x)
    /\ srv.strings = StringsAt(x, n) /\ srv.ok
    /\ x <= 3 /\ n = 0 => srv.ticket = "none"
    /\ x > 3 => srv.ticket = "valid"
    /\ x > 2 /\ opts.pinned => srv.cert = "ticket"
    /\ x > 8 => srv.version >= 3
    /\ x > 10 => srv.buf = AioBufferSize
    /\ x > 13 => srv.ro = (IF opts.ro THEN 1 ELSE 0)

\* q holds the messages n + 1 .. a of S, but for empty names; pos says which.
Empty(m) == m.kind = "raw" /\ m.arg = 0
Same(m, s) ==
    /\ m \in Message /\ m.layer = s.layer /\ m.kind = s.kind /\ m.name = s.name
    /\ m.arg = s.arg
Queue(S, a, n, q, pos) ==
    /\ pos \in Seq(Nat) /\ Len(pos) = Len(q)
    /\ \A i \in 1 .. Len(pos) :
          n < pos[i] /\ pos[i] <= a /\ Same(q[i], S[pos[i]]) /\ ~Empty(S[pos[i]])
    /\ \A i, k \in 1 .. Len(pos) : i < k => pos[i] < pos[k]
    /\ \A k \in 1 .. a : n < k => Empty(S[k]) \/ \E i \in 1 .. Len(pos) : pos[i] = k

ReplyName ==
    <<"220", "TLS", "220", "200", "200", "TLS", "SESSION_PARAMS_REPLY", "VERSION",
      "AIO_SESSION_OPEN", "OPEN_SESSION", "SET_SOCK_OPTS", "SET_RES_POOL", "OPEN_FILE">>

\* A reply that is accepted shows that the server is ready for what comes next.
Answered(x, r) ==
    /\ r.name = ReplyName[x] /\ (x = 8 => r.arg >= 3)
    /\ x = 2 /\ opts.pinned => r.arg = 1
    => Ready(NextPlace(x), 0)

\* The server has read n messages of the exchange that the client is in.
Talk(n, pos) ==
    /\ Queue(Now.send, sent, n, toServer, pos)
    /\ \/ /\ n < Len(Now.send) \/ srv.stage = "greet"
          /\ Ready(Place, n) /\ pc # "open" /\ (pc = "run" => toClient = <<>>)
       \/ /\ n = Len(Now.send) /\ srv.stage # "greet"
          /\ pc = "run" => Len(toClient) = 1 /\ Answered(Place, toClient[1])
          /\ pc = "open" => Place = 13 /\ toClient = <<>> /\ Ready(14, 0)

HandshakeInv ==
    /\ TypeOK /\ ~srv.confused
    /\ op_id = IF Place >= 10 THEN Place - 10 + sent ELSE 0
    /\ pc = "open" => sent = 1
    /\ opts.pinned /\ srv.ticket # "none" => srv.cert = "ticket"
    /\ \E n \in 0 .. sent, pos \in Seq(Nat) : Talk(n, pos)
-----------------------------------------------------------------------------
(* The script.                                                             *)


LEMMA Prefix ==
    ASSUME NEW S, NEW u \in Seq(S), NEW v \in Seq(S), NEW i \in 1 .. Len(u)
    PROVE  (u \o v) \in Seq(S) /\ i \in 1 .. Len(u \o v) /\ (u \o v)[i] = u[i]
<1>1. Len(u) \in Nat /\ Len(v) \in Nat
  OBVIOUS
<1>2. /\ (u \o v) \in Seq(S) /\ Len(u \o v) = Len(u) + Len(v)
      /\ \A k \in 1 .. Len(u) + Len(v) :
            (u \o v)[k] = IF k <= Len(u) THEN u[k] ELSE v[k - Len(u)]
  BY ConcatProperties
<1>3. i \in 1 .. Len(u) + Len(v)
  BY <1>1
<1> QED BY <1>2, <1>3

\* The script, exchange by exchange.
LEMMA ScriptAt ==
    ASSUME opts.ssl \in BOOLEAN
    PROVE  /\ Len(Script) = IF opts.ssl THEN 13 ELSE 12
           /\ \A k \in 1 .. Len(Script) : Script[k] = Exchanges[PlaceOf(k)]
<1>1. PICK e1, e2, e3, e4, e5, e6, e7, e8, e9, e10, e11, e12, e13 :
          Exchanges = <<e1, e2, e3, e4, e5, e6, e7, e8, e9, e10, e11, e12, e13>>
          /\ AuthdScript = <<e1, e2>> \o <<e3>> \o <<e4, e5>>
          /\ TakeOverScript = (IF opts.ssl THEN <<e6>> ELSE <<>>)
          /\ HandshakeScript = <<e7>> \o <<e8, e9>>
          /\ AioPrepareScript = <<e10, e11, e12>> /\ OpenFileScript = <<e13>>
  BY Zenon DEF Exchanges, AuthdScript, SessionExchange, TakeOverScript, HandshakeScript,
     ParamsExchange, AioPrepareScript, OpenFileScript
<1>2. /\ Exchanges[1] = e1 /\ Exchanges[2] = e2 /\ Exchanges[3] = e3 /\ Exchanges[4] = e4
      /\ Exchanges[5] = e5 /\ Exchanges[6] = e6 /\ Exchanges[7] = e7 /\ Exchanges[8] = e8
      /\ Exchanges[9] = e9 /\ Exchanges[10] = e10 /\ Exchanges[11] = e11
      /\ Exchanges[12] = e12 /\ Exchanges[13] = e13
  BY <1>1
<1>3. CASE opts.ssl
  <2>1. Script = (<<e1, e2>> \o <<e3>> \o <<e4, e5>>) \o <<e6>> \o (<<e7>> \o <<e8, e9>>)
                 \o <<e10, e11, e12>> \o <<e13>>
    BY <1>1, <1>3 DEF Script
  <2>2. /\ Len(Script) = 13
        /\ Script[1] = e1 /\ Script[2] = e2 /\ Script[3] = e3 /\ Script[4] = e4
        /\ Script[5] = e5 /\ Script[6] = e6 /\ Script[7] = e7 /\ Script[8] = e8
        /\ Script[9] = e9 /\ Script[10] = e10 /\ Script[11] = e11
        /\ Script[12] = e12 /\ Script[13] = e13
    <3>0. PICK s : s = Script
      OBVIOUS
    <3>1. Len(s) = 13 /\ s[1] = e1 /\ s[2] = e2 /\ s[3] = e3
      BY <2>1, <3>0
    <3>2. s[4] = e4 /\ s[5] = e5
      BY <2>1, <3>0
    <3>3. s[6] = e6
      <4>1. PICK S : {e1, e2, e3, e4, e5, e6, e7, e8, e9, e10, e11, e12, e13} \subseteq S
        OBVIOUS
      <4>2. PICK a : a = <<e1, e2>> \o <<e3>> \o <<e4, e5>>
        OBVIOUS
      <4>3. a \in Seq(S) /\ Len(a) = 5
        BY <4>1, <4>2
      <4>4. PICK o : o = <<e6>>
        OBVIOUS
      <4>5. o \in Seq(S) /\ Len(o) = 1 /\ o[1] = e6
        BY <4>1, <4>4
      <4>6. PICK b : b = a \o o
        OBVIOUS
      <4>7. /\ b \in Seq(S) /\ Len(b) = Len(a) + Len(o)
            /\ \A i \in 1 .. Len(a) + Len(o) :
                  b[i] = IF i <= Len(a) THEN a[i] ELSE o[i - Len(a)]
        BY <4>3, <4>5, <4>6, ConcatProperties
      <4>8. Len(b) = 6 /\ b[6] = o[6 - Len(a)] /\ 6 - Len(a) = 1
        BY <4>3, <4>5, <4>7
      <4>9. b[6] = e6
        BY <4>5, <4>8
      <4>10. PICK c, d, f : c = <<e7>> \o <<e8, e9>> /\ d = <<e10, e11, e12>> /\ f = <<e13>>
        OBVIOUS
      <4>11. c \in Seq(S) /\ d \in Seq(S) /\ f \in Seq(S)
        BY <4>1, <4>10
      <4>12. 6 \in 1 .. Len(b)
        BY <4>8
      <4>13. (b \o c) \in Seq(S) /\ 6 \in 1 .. Len(b \o c) /\ (b \o c)[6] = b[6]
        BY <4>7, <4>11, <4>12, Prefix
      <4>14. /\ ((b \o c) \o d) \in Seq(S) /\ 6 \in 1 .. Len((b \o c) \o d)
             /\ ((b \o c) \o d)[6] = b[6]
        BY <4>11, <4>13, Prefix
      <4>15. (((b \o c) \o d) \o f)[6] = b[6]
        BY <4>11, <4>14, Prefix
      <4>16. s = b \o c \o d \o f
        BY <2>1, <3>0, <4>2, <4>4, <4>6, <4>10
      <4> QED BY <4>9, <4>15, <4>16
    <3>4. s[7] = e7
      BY <2>1, <3>0
    <3>5. s[8] = e8
      BY <2>1, <3>0
    <3>6. s[9] = e9
      BY <2>1, <3>0
    <3>7. s[10] = e10
      BY <2>1, <3>0
    <3>8. s[11] = e11
      BY <2>1, <3>0
    <3>9. s[12] = e12
      BY <2>1, <3>0
    <3>10. s[13] = e13
      BY <2>1, <3>0
    <3> QED BY <3>0, <3>1, <3>2, <3>3, <3>4, <3>5, <3>6, <3>7, <3>8, <3>9, <3>10
  <2>3. \A k \in 1 .. 13 : PlaceOf(k) = k
    BY <1>3 DEF PlaceOf
  <2> QED BY <1>2, <1>3, <2>2, <2>3
<1>4. CASE ~opts.ssl
  <2>1. Script = (<<e1, e2>> \o <<e3>> \o <<e4, e5>>) \o <<>> \o (<<e7>> \o <<e8, e9>>)
                 \o <<e10, e11, e12>> \o <<e13>>
    BY <1>1, <1>4 DEF Script
  <2>2. /\ Len(Script) = 12
        /\ Script[1] = e1 /\ Script[2] = e2 /\ Script[3] = e3 /\ Script[4] = e4
        /\ Script[5] = e5 /\ Script[6] = e7 /\ Script[7] = e8
        /\ Script[8] = e9 /\ Script[9] = e10 /\ Script[10] = e11
        /\ Script[11] = e12 /\ Script[12] = e13
    <3>1. PICK s : s = Script
      OBVIOUS
    <3>2. /\ Len(s) = 12 /\ s[1] = e1 /\ s[2] = e2 /\ s[3] = e3 /\ s[4] = e4
          /\ s[5] = e5 /\ s[6] = e7 /\ s[7] = e8 /\ s[8] = e9 /\ s[9] = e10
          /\ s[10] = e11 /\ s[11] = e12 /\ s[12] = e13
      BY <2>1, <3>1
    <3> QED BY <3>1, <3>2
  <2>3. \A k \in 1 .. 12 : PlaceOf(k) = IF k <= 5 THEN k ELSE k + 1
    BY <1>4 DEF PlaceOf
  <2> QED BY <1>2, <1>4, <2>2, <2>3
<1> QED BY <1>3, <1>4
Is(m, l, k, name, n) ==
    m \in Message /\ m.layer = l /\ m.kind = k /\ m.name = name /\ m.arg = n

LEMMA MessageFields ==
    ASSUME NEW l \in Layers, NEW k \in Kinds, NEW name \in Names
    PROVE  Is(Message0(l, k, name), l, k, name, 0)
<1>1. NoFile \in FileReply
  BY DEF NoFile, FileReply
<1> QED BY <1>1 DEF Is, Message0, Message

LEMMA WithFields ==
    ASSUME NEW m, NEW l, NEW k, NEW name, NEW a, Is(m, l, k, name, a), NEW n \in Nat
    PROVE  Is(With(m, n), l, k, name, n)
BY DEF Is, With, Message

LEMMA NfcLayerType ==
    NfcLayer \in Layers
BY DEF NfcLayer, Layers

\* What a message of each sort is.
LEMMA MessageSorts ==
    ASSUME NEW name \in Names, NEW n \in Nat
    PROVE  /\ Is(Line(name), "tls", "line", name, 0)
           /\ Is(With(Line(name), n), "tls", "line", name, n)
           /\ Is(Banner(name), "tcp", "line", name, 0)
           /\ Is(Hello, "tcp", "hello", "TLS", 0)
           /\ Is(Msg(name), NfcLayer, "msg", name, 0)
           /\ Is(With(Msg(name), n), NfcLayer, "msg", name, n)
           /\ Is(Raw(n), NfcLayer, "raw", "name", n)
           /\ Is(Aio(name), NfcLayer, "aio", name, 0)
           /\ Is(With(Aio(name), n), NfcLayer, "aio", name, n)
<1>1. /\ Is(Message0("tls", "line", name), "tls", "line", name, 0)
      /\ Is(Message0("tcp", "line", name), "tcp", "line", name, 0)
      /\ Is(Message0("tcp", "hello", "TLS"), "tcp", "hello", "TLS", 0)
  BY MessageFields DEF Layers, Kinds, Names
<1>2. /\ Is(Message0(NfcLayer, "msg", name), NfcLayer, "msg", name, 0)
      /\ Is(Message0(NfcLayer, "raw", "name"), NfcLayer, "raw", "name", 0)
      /\ Is(Message0(NfcLayer, "aio", name), NfcLayer, "aio", name, 0)
  BY MessageFields, NfcLayerType DEF Kinds, Names
<1>3. /\ Is(With(Message0("tls", "line", name), n), "tls", "line", name, n)
      /\ Is(With(Message0(NfcLayer, "msg", name), n), NfcLayer, "msg", name, n)
      /\ Is(With(Message0(NfcLayer, "raw", "name"), n), NfcLayer, "raw", "name", n)
      /\ Is(With(Message0(NfcLayer, "aio", name), n), NfcLayer, "aio", name, n)
  BY <1>1, <1>2, WithFields
<1> QED BY <1>1, <1>2, <1>3 DEF Line, Banner, Hello, Msg, Raw, Aio

\* What is sent and awaited in each exchange.
LEMMA ExchangeTerms ==
    /\ Exchanges[1].send = <<>>
    /\ Exchanges[1].reply = Banner("220")
    /\ Exchanges[2].send = <<Hello>>
    /\ Exchanges[2].reply = Hello
    /\ Exchanges[3].send = <<Line("SESSION"), Line("BANNER")>>
    /\ Exchanges[3].reply = Line("220")
    /\ Exchanges[4].send = <<Line("THUMBPRINT_SHA2")>>
    /\ Exchanges[4].reply = Line("200")
    /\ Exchanges[5].send = <<With(Line("PROXY"), IF opts.ssl THEN 1 ELSE 0)>>
    /\ Exchanges[5].reply = Line("200")
    /\ Exchanges[6].send = <<Hello>>
    /\ Exchanges[6].reply = Hello
    /\ Exchanges[7].send = <<Msg("HANDSHAKE"), Msg("SESSION_PARAMS")>>
    /\ Exchanges[7].reply = Msg("SESSION_PARAMS_REPLY")
    /\ Exchanges[8].send = <<With(Msg("VERSION"), NFC_PROTOCOL_VERSION)>>
    /\ Exchanges[8].reply = Msg("VERSION")
    /\ Exchanges[9].send = <<With(Msg("CONNECTION_DATA"), opts.name + opts.opname),
                              Raw(opts.name), Raw(opts.opname), Msg("SESSION_FEATURES"),
                              Msg("AIO_SESSION_OPEN")>>
    /\ Exchanges[9].reply = Msg("AIO_SESSION_OPEN")
    /\ Exchanges[10].send = <<With(Aio("OPEN_SESSION"), AioBufferSize)>>
    /\ Exchanges[10].reply = With(Aio("OPEN_SESSION"), AioBufferSize)
    /\ Exchanges[11].send = <<Aio("SET_SOCK_OPTS")>>
    /\ Exchanges[11].reply = Aio("SET_SOCK_OPTS")
    /\ Exchanges[12].send = <<With(Aio("SET_RES_POOL"), 1)>>
    /\ Exchanges[12].reply = With(Aio("SET_RES_POOL"), 1)
    /\ Exchanges[13].send = <<With(Aio("OPEN_FILE"), IF opts.ro THEN 1 ELSE 0)>>
    /\ Exchanges[13].reply = With(Aio("OPEN_FILE"), IF opts.ro THEN 1 ELSE 0)
BY DEF Exchanges, Exchange, Roundtrip

LEMMA OneMessage ==
    ASSUME NEW s, NEW m \in Message, s = <<m>>
    PROVE  s \in Seq(Message) /\ Len(s) = 1 /\ s[1] = m
OBVIOUS

LEMMA ExchangeTable ==
    ASSUME opts \in Options
    PROVE  /\ Exchanges[1].send = <<>>
           /\ \A x \in 2 .. 13 :
                 /\ Exchanges[x].send \in Seq(Message)
                 /\ Len(Exchanges[x].send) = IF x \in {3, 7} THEN 2 ELSE IF x = 9 THEN 5 ELSE 1
           /\ Is(Exchanges[2].send[1], "tcp", "hello", "TLS", 0)
           /\ Is(Exchanges[3].send[1], "tls", "line", "SESSION", 0)
           /\ Is(Exchanges[3].send[2], "tls", "line", "BANNER", 0)
           /\ Is(Exchanges[4].send[1], "tls", "line", "THUMBPRINT_SHA2", 0)
           /\ Is(Exchanges[5].send[1], "tls", "line", "PROXY", IF opts.ssl THEN 1 ELSE 0)
           /\ Is(Exchanges[6].send[1], "tcp", "hello", "TLS", 0)
           /\ Is(Exchanges[7].send[1], NfcLayer, "msg", "HANDSHAKE", 0)
           /\ Is(Exchanges[7].send[2], NfcLayer, "msg", "SESSION_PARAMS", 0)
           /\ Is(Exchanges[8].send[1], NfcLayer, "msg", "VERSION", NFC_PROTOCOL_VERSION)
           /\ Is(Exchanges[9].send[1],
                 NfcLayer, "msg", "CONNECTION_DATA", opts.name + opts.opname)
           /\ Is(Exchanges[9].send[2], NfcLayer, "raw", "name", opts.name)
           /\ Is(Exchanges[9].send[3], NfcLayer, "raw", "name", opts.opname)
           /\ Is(Exchanges[9].send[4], NfcLayer, "msg", "SESSION_FEATURES", 0)
           /\ Is(Exchanges[9].send[5], NfcLayer, "msg", "AIO_SESSION_OPEN", 0)
           /\ Is(Exchanges[10].send[1], NfcLayer, "aio", "OPEN_SESSION", AioBufferSize)
           /\ Is(Exchanges[11].send[1], NfcLayer, "aio", "SET_SOCK_OPTS", 0)
           /\ Is(Exchanges[12].send[1], NfcLayer, "aio", "SET_RES_POOL", 1)
           /\ Is(Exchanges[13].send[1], NfcLayer, "aio", "OPEN_FILE", IF opts.ro THEN 1 ELSE 0)
           /\ \A x \in 1 .. 13 :
                 Exchanges[x].reply \in Message /\ Exchanges[x].reply.name = ReplyName[x]
<1>1. /\ opts.name \in Nat /\ opts.opname \in Nat /\ opts.name + opts.opname \in Nat
      /\ (IF opts.ssl THEN 1 ELSE 0) \in Nat /\ (IF opts.ro THEN 1 ELSE 0) \in Nat
      /\ NFC_PROTOCOL_VERSION \in Nat /\ AioBufferSize \in Nat /\ 0 \in Nat /\ 1 \in Nat
  <2>1. opts.name \in Nat /\ opts.opname \in Nat
    BY HandshakeConstants DEF Options
  <2>2. (IF opts.ssl THEN 1 ELSE 0) \in Nat /\ (IF opts.ro THEN 1 ELSE 0) \in Nat
    OBVIOUS
  <2>3. opts.name + opts.opname \in Nat /\ 0 \in Nat /\ 1 \in Nat
    BY <2>1
  <2>4. NFC_PROTOCOL_VERSION \in Nat /\ AioBufferSize \in Nat
    BY HandshakeConstants
  <2> QED BY <2>1, <2>2, <2>3, <2>4
<1>2. {"200", "220", "AIO_SESSION_OPEN", "BANNER", "CONNECTION_DATA", "HANDSHAKE",
       "OPEN_FILE", "OPEN_SESSION", "PROXY", "SESSION", "SESSION_FEATURES",
       "SESSION_PARAMS", "SESSION_PARAMS_REPLY", "SET_RES_POOL", "SET_SOCK_OPTS",
       "THUMBPRINT_SHA2", "TLS", "VERSION", "name"} \subseteq Names
  BY DEF Names
<1>3. Is(Hello, "tcp", "hello", "TLS", 0)
  BY <1>1, <1>2, MessageSorts
<1>4. /\ Exchanges[2].send \in Seq(Message) /\ Len(Exchanges[2].send) = 1
      /\ Is(Exchanges[2].send[1], "tcp", "hello", "TLS", 0)
  BY <1>3, ExchangeTerms, OneMessage DEF Is
<1>5. /\ Is(Line("SESSION"), "tls", "line", "SESSION", 0)
      /\ Is(Line("BANNER"), "tls", "line", "BANNER", 0)
  BY <1>1, <1>2, MessageSorts
<1>6. /\ Exchanges[3].send \in Seq(Message) /\ Len(Exchanges[3].send) = 2
      /\ Is(Exchanges[3].send[1], "tls", "line", "SESSION", 0)
      /\ Is(Exchanges[3].send[2], "tls", "line", "BANNER", 0)
  <2>1. PICK s : s = Exchanges[3].send
    OBVIOUS
  <2>2. PICK a, b : a = Line("SESSION") /\ b = Line("BANNER")
    OBVIOUS
  <2>3. s = <<a, b>>
    BY <2>1, <2>2, ExchangeTerms
  <2>4. {a, b} \subseteq Message
    BY <1>5, <2>2 DEF Is
  <2>5. s \in Seq(Message) /\ Len(s) = 2 /\ s[1] = a /\ s[2] = b
    BY <2>3, <2>4
  <2> QED BY <1>5, <2>1, <2>2, <2>5
<1>7. Is(Line("THUMBPRINT_SHA2"), "tls", "line", "THUMBPRINT_SHA2", 0)
  BY <1>1, <1>2, MessageSorts
<1>8. /\ Exchanges[4].send \in Seq(Message) /\ Len(Exchanges[4].send) = 1
      /\ Is(Exchanges[4].send[1], "tls", "line", "THUMBPRINT_SHA2", 0)
  BY <1>7, ExchangeTerms, OneMessage DEF Is
<1>9. Is(With(Line("PROXY"), IF opts.ssl THEN 1 ELSE 0),
         "tls", "line", "PROXY", IF opts.ssl THEN 1 ELSE 0)
  BY <1>1, <1>2, MessageSorts
<1>10. /\ Exchanges[5].send \in Seq(Message) /\ Len(Exchanges[5].send) = 1
       /\ Is(Exchanges[5].send[1], "tls", "line", "PROXY", IF opts.ssl THEN 1 ELSE 0)
  BY <1>9, ExchangeTerms, OneMessage DEF Is
<1>11. Is(Hello, "tcp", "hello", "TLS", 0)
  BY <1>1, <1>2, MessageSorts
<1>12. /\ Exchanges[6].send \in Seq(Message) /\ Len(Exchanges[6].send) = 1
       /\ Is(Exchanges[6].send[1], "tcp", "hello", "TLS", 0)
  BY <1>11, ExchangeTerms, OneMessage DEF Is
<1>13. /\ Is(Msg("HANDSHAKE"), NfcLayer, "msg", "HANDSHAKE", 0)
       /\ Is(Msg("SESSION_PARAMS"), NfcLayer, "msg", "SESSION_PARAMS", 0)
  BY <1>1, <1>2, MessageSorts
<1>14. /\ Exchanges[7].send \in Seq(Message) /\ Len(Exchanges[7].send) = 2
       /\ Is(Exchanges[7].send[1], NfcLayer, "msg", "HANDSHAKE", 0)
       /\ Is(Exchanges[7].send[2], NfcLayer, "msg", "SESSION_PARAMS", 0)
  <2>1. PICK s : s = Exchanges[7].send
    OBVIOUS
  <2>2. PICK a, b : a = Msg("HANDSHAKE") /\ b = Msg("SESSION_PARAMS")
    OBVIOUS
  <2>3. s = <<a, b>>
    BY <2>1, <2>2, ExchangeTerms
  <2>4. {a, b} \subseteq Message
    BY <1>13, <2>2 DEF Is
  <2>5. s \in Seq(Message) /\ Len(s) = 2 /\ s[1] = a /\ s[2] = b
    BY <2>3, <2>4
  <2> QED BY <1>13, <2>1, <2>2, <2>5
<1>15. Is(With(Msg("VERSION"), NFC_PROTOCOL_VERSION),
          NfcLayer, "msg", "VERSION", NFC_PROTOCOL_VERSION)
  BY <1>1, <1>2, MessageSorts
<1>16. /\ Exchanges[8].send \in Seq(Message) /\ Len(Exchanges[8].send) = 1
       /\ Is(Exchanges[8].send[1], NfcLayer, "msg", "VERSION", NFC_PROTOCOL_VERSION)
  BY <1>15, ExchangeTerms, OneMessage DEF Is
<1>17. /\ Is(With(Msg("CONNECTION_DATA"), opts.name + opts.opname),
             NfcLayer, "msg", "CONNECTION_DATA", opts.name + opts.opname)
       /\ Is(Raw(opts.name), NfcLayer, "raw", "name", opts.name)
       /\ Is(Raw(opts.opname), NfcLayer, "raw", "name", opts.opname)
       /\ Is(Msg("SESSION_FEATURES"), NfcLayer, "msg", "SESSION_FEATURES", 0)
       /\ Is(Msg("AIO_SESSION_OPEN"), NfcLayer, "msg", "AIO_SESSION_OPEN", 0)
  BY <1>1, <1>2, MessageSorts
<1>18. /\ Exchanges[9].send \in Seq(Message) /\ Len(Exchanges[9].send) = 5
       /\ Is(Exchanges[9].send[1], NfcLayer, "msg", "CONNECTION_DATA", opts.name + opts.opname)
       /\ Is(Exchanges[9].send[2], NfcLayer, "raw", "name", opts.name)
       /\ Is(Exchanges[9].send[3], NfcLayer, "raw", "name", opts.opname)
       /\ Is(Exchanges[9].send[4], NfcLayer, "msg", "SESSION_FEATURES", 0)
       /\ Is(Exchanges[9].send[5], NfcLayer, "msg", "AIO_SESSION_OPEN", 0)
  <2>1. PICK s : s = Exchanges[9].send
    OBVIOUS
  <2>2. PICK a, b, c, d, e :
           /\ a = With(Msg("CONNECTION_DATA"), opts.name + opts.opname)
           /\ b = Raw(opts.name) /\ c = Raw(opts.opname)
           /\ d = Msg("SESSION_FEATURES") /\ e = Msg("AIO_SESSION_OPEN")
    OBVIOUS
  <2>3. s = <<a, b, c, d, e>>
    BY <2>1, <2>2, ExchangeTerms
  <2>4. {a, b, c, d, e} \subseteq Message
    BY <1>17, <2>2 DEF Is
  <2>5. s \in Seq(Message) /\ Len(s) = 5
        /\ s[1] = a /\ s[2] = b /\ s[3] = c /\ s[4] = d /\ s[5] = e
    BY <2>3, <2>4
  <2> QED BY <1>17, <2>1, <2>2, <2>5
<1>19. Is(With(Aio("OPEN_SESSION"), AioBufferSize),
          NfcLayer, "aio", "OPEN_SESSION", AioBufferSize)
  BY <1>1, <1>2, MessageSorts
<1>20. /\ Exchanges[10].send \in Seq(Message) /\ Len(Exchanges[10].send) = 1
       /\ Is(Exchanges[10].send[1], NfcLayer, "aio", "OPEN_SESSION", AioBufferSize)
  BY <1>19, ExchangeTerms, OneMessage DEF Is
<1>21. Is(Aio("SET_SOCK_OPTS"), NfcLayer, "aio", "SET_SOCK_OPTS", 0)
  BY <1>1, <1>2, MessageSorts
<1>22. /\ Exchanges[11].send \in Seq(Message) /\ Len(Exchanges[11].send) = 1
       /\ Is(Exchanges[11].send[1], NfcLayer, "aio", "SET_SOCK_OPTS", 0)
  BY <1>21, ExchangeTerms, OneMessage DEF Is
<1>23. Is(With(Aio("SET_RES_POOL"), 1), NfcLayer, "aio", "SET_RES_POOL", 1)
  BY <1>1, <1>2, MessageSorts
<1>24. /\ Exchanges[12].send \in Seq(Message) /\ Len(Exchanges[12].send) = 1
       /\ Is(Exchanges[12].send[1], NfcLayer, "aio", "SET_RES_POOL", 1)
  BY <1>23, ExchangeTerms, OneMessage DEF Is
<1>25. Is(With(Aio("OPEN_FILE"), IF opts.ro THEN 1 ELSE 0),
          NfcLayer, "aio", "OPEN_FILE", IF opts.ro THEN 1 ELSE 0)
  BY <1>1, <1>2, MessageSorts
<1>26. /\ Exchanges[13].send \in Seq(Message) /\ Len(Exchanges[13].send) = 1
       /\ Is(Exchanges[13].send[1], NfcLayer, "aio", "OPEN_FILE", IF opts.ro THEN 1 ELSE 0)
  BY <1>25, ExchangeTerms, OneMessage DEF Is
<1>27. /\ Is(Banner("220"), "tcp", "line", "220", 0)
       /\ Is(Line("220"), "tls", "line", "220", 0) /\ Is(Line("200"), "tls", "line", "200", 0)
       /\ Is(Msg("SESSION_PARAMS_REPLY"), NfcLayer, "msg", "SESSION_PARAMS_REPLY", 0)
       /\ Is(Msg("VERSION"), NfcLayer, "msg", "VERSION", 0)
  BY <1>1, <1>2, MessageSorts
<1>28. Exchanges[1].reply \in Message /\ Exchanges[1].reply.name = ReplyName[1]
  BY <1>27, ExchangeTerms DEF Is, ReplyName
<1>29. Exchanges[2].reply \in Message /\ Exchanges[2].reply.name = ReplyName[2]
  BY <1>27, <1>3, ExchangeTerms DEF Is, ReplyName
<1>30. Exchanges[3].reply \in Message /\ Exchanges[3].reply.name = ReplyName[3]
  BY <1>27, <1>5, ExchangeTerms DEF Is, ReplyName
<1>31. Exchanges[4].reply \in Message /\ Exchanges[4].reply.name = ReplyName[4]
  BY <1>27, <1>7, ExchangeTerms DEF Is, ReplyName
<1>32. Exchanges[5].reply \in Message /\ Exchanges[5].reply.name = ReplyName[5]
  BY <1>27, <1>9, ExchangeTerms DEF Is, ReplyName
<1>33. Exchanges[6].reply \in Message /\ Exchanges[6].reply.name = ReplyName[6]
  BY <1>27, <1>11, ExchangeTerms DEF Is, ReplyName
<1>34. Exchanges[7].reply \in Message /\ Exchanges[7].reply.name = ReplyName[7]
  BY <1>27, <1>13, ExchangeTerms DEF Is, ReplyName
<1>35. Exchanges[8].reply \in Message /\ Exchanges[8].reply.name = ReplyName[8]
  BY <1>27, <1>15, ExchangeTerms DEF Is, ReplyName
<1>36. Exchanges[9].reply \in Message /\ Exchanges[9].reply.name = ReplyName[9]
  BY <1>27, <1>17, ExchangeTerms DEF Is, ReplyName
<1>37. Exchanges[10].reply \in Message /\ Exchanges[10].reply.name = ReplyName[10]
  BY <1>27, <1>19, ExchangeTerms DEF Is, ReplyName
<1>38. Exchanges[11].reply \in Message /\ Exchanges[11].reply.name = ReplyName[11]
  BY <1>27, <1>21, ExchangeTerms DEF Is, ReplyName
<1>39. Exchanges[12].reply \in Message /\ Exchanges[12].reply.name = ReplyName[12]
  BY <1>27, <1>23, ExchangeTerms DEF Is, ReplyName
<1>40. Exchanges[13].reply \in Message /\ Exchanges[13].reply.name = ReplyName[13]
  BY <1>27, <1>25, ExchangeTerms DEF Is, ReplyName
<1>41. \A x \in 1 .. 13 :
         Exchanges[x].reply \in Message /\ Exchanges[x].reply.name = ReplyName[x]
  <2> TAKE x \in 1 .. 13
  <2>1. \/ x = 1 \/ x = 2 \/ x = 3 \/ x = 4 \/ x = 5 \/ x = 6 \/ x = 7
        \/ x = 8 \/ x = 9 \/ x = 10 \/ x = 11 \/ x = 12 \/ x = 13
    OBVIOUS
  <2> QED BY <2>1, <1>28, <1>29, <1>30, <1>31, <1>32, <1>33, <1>34, <1>35, <1>36, <1>37,
     <1>38, <1>39, <1>40
<1>42. \A x \in 2 .. 13 :
         /\ Exchanges[x].send \in Seq(Message)
         /\ Len(Exchanges[x].send) = IF x \in {3, 7} THEN 2 ELSE IF x = 9 THEN 5 ELSE 1
  <2> TAKE x \in 2 .. 13
  <2>1. \/ x = 2 \/ x = 3 \/ x = 4 \/ x = 5 \/ x = 6 \/ x = 7
        \/ x = 8 \/ x = 9 \/ x = 10 \/ x = 11 \/ x = 12 \/ x = 13
    OBVIOUS
  <2> QED BY <2>1, <1>4, <1>6, <1>8, <1>10, <1>12, <1>14, <1>16, <1>18, <1>20, <1>22,
     <1>24, <1>26
<1> QED BY <1>4, <1>6, <1>8, <1>10, <1>12, <1>14, <1>16, <1>18, <1>20, <1>22, <1>24, <1>26,
     <1>41, <1>42, ExchangeTerms

LEMMA PlaceFacts ==
    ASSUME opts \in Options, step \in 1 .. Len(Script)
    PROVE  /\ Place \in 1 .. 13 /\ (Place = 6 => opts.ssl) /\ Now = Exchanges[Place]
           /\ LastExchange <=> Place = 13
           /\ ~LastExchange => /\ step + 1 \in 1 .. Len(Script)
                               /\ PlaceOf(step + 1) = NextPlace(Place)
                               /\ NextPlace(Place) \in 2 .. 13
                               /\ Script[step + 1] = Exchanges[NextPlace(Place)]
<1>1. opts.ssl \in BOOLEAN
  BY DEF Options
<1>2. /\ Len(Script) = IF opts.ssl THEN 13 ELSE 12
      /\ \A k \in 1 .. Len(Script) : Script[k] = Exchanges[PlaceOf(k)]
  BY <1>1, ScriptAt
<1>3. Place \in 1 .. 13 /\ (Place = 6 => opts.ssl) /\ (LastExchange <=> Place = 13)
  BY <1>1, <1>2 DEF Place, PlaceOf, LastExchange
<1>4. Now = Exchanges[Place]
  BY <1>2 DEF Now, Place
<1>5. ASSUME ~LastExchange
      PROVE  step + 1 \in 1 .. Len(Script) /\ PlaceOf(step + 1) = NextPlace(Place)
             /\ NextPlace(Place) \in 2 .. 13
  BY <1>1, <1>2, <1>5 DEF Place, PlaceOf, LastExchange, NextPlace
<1> QED BY <1>2, <1>3, <1>4, <1>5

LEMMA LastNotEmpty ==
    ASSUME opts \in Options, NEW x \in 2 .. 13
    PROVE  ~Empty(Exchanges[x].send[Len(Exchanges[x].send)])
<1>1. \/ x = 2 \/ x = 3 \/ x = 4 \/ x = 5 \/ x = 6 \/ x = 7 \/ x = 8
      \/ x = 9 \/ x = 10 \/ x = 11 \/ x = 12 \/ x = 13
  OBVIOUS
<1>2. /\ Exchanges[2].send[1].kind # "raw" /\ Exchanges[3].send[2].kind # "raw"
      /\ Exchanges[4].send[1].kind # "raw" /\ Exchanges[5].send[1].kind # "raw"
      /\ Exchanges[6].send[1].kind # "raw" /\ Exchanges[7].send[2].kind # "raw"
      /\ Exchanges[8].send[1].kind # "raw" /\ Exchanges[9].send[5].kind # "raw"
      /\ Exchanges[10].send[1].kind # "raw" /\ Exchanges[11].send[1].kind # "raw"
      /\ Exchanges[12].send[1].kind # "raw" /\ Exchanges[13].send[1].kind # "raw"
  BY ExchangeTable DEF Is
<1> QED BY <1>1, <1>2, ExchangeTable DEF Empty

\* The messages of the last four exchanges, and no others, take operation ids.
LEMMA AioKinds ==
    ASSUME opts \in Options, NEW x \in 2 .. 13, NEW j \in 1 .. Len(Exchanges[x].send)
    PROVE  Exchanges[x].send[j].kind = "aio" <=> x >= 10
<1>1. \/ x \in {2, 4, 5, 6, 8, 10, 11, 12, 13} /\ j = 1
      \/ x \in {3, 7} /\ j \in {1, 2}
      \/ x = 9 /\ j \in {1, 2, 3, 4, 5}
  <2>1. Len(Exchanges[x].send) = IF x \in {3, 7} THEN 2 ELSE IF x = 9 THEN 5 ELSE 1
    BY ExchangeTable
  <2> QED BY <2>1
<1>2. /\ Exchanges[2].send[1].kind = "hello" /\ Exchanges[3].send[1].kind = "line"
      /\ Exchanges[3].send[2].kind = "line" /\ Exchanges[4].send[1].kind = "line"
      /\ Exchanges[5].send[1].kind = "line" /\ Exchanges[6].send[1].kind = "hello"
      /\ Exchanges[7].send[1].kind = "msg" /\ Exchanges[7].send[2].kind = "msg"
      /\ Exchanges[8].send[1].kind = "msg" /\ Exchanges[9].send[1].kind = "msg"
      /\ Exchanges[9].send[2].kind = "raw" /\ Exchanges[9].send[3].kind = "raw"
      /\ Exchanges[9].send[4].kind = "msg" /\ Exchanges[9].send[5].kind = "msg"
      /\ Exchanges[10].send[1].kind = "aio" /\ Exchanges[11].send[1].kind = "aio"
      /\ Exchanges[12].send[1].kind = "aio" /\ Exchanges[13].send[1].kind = "aio"
  BY ExchangeTable DEF Is
<1>3. CASE x \in {3, 7} /\ j \in {1, 2}
  BY <1>2, <1>3
<1>4. CASE x = 9 /\ j \in {1, 2, 3, 4, 5}
  <2>1. Exchanges[9].send[j].kind \in {"msg", "raw"}
    BY <1>2, <1>4
  <2> QED BY <1>4, <2>1
<1>5. CASE x \in {2, 4, 5, 6, 8} /\ j = 1
  BY <1>2, <1>5
<1>6. CASE x \in {10, 11, 12, 13} /\ j = 1
  BY <1>2, <1>6
<1> QED BY <1>1, <1>3, <1>4, <1>5, <1>6

\* The script depends on the options only.
LEMMA ScriptStable ==
    opts' = opts => Script' = Script /\ Exchanges' = Exchanges
<1> SUFFICES ASSUME opts' = opts
             PROVE  Script' = Script /\ Exchanges' = Exchanges
  OBVIOUS
<1>1. NfcLayer' = NfcLayer
  BY DEF NfcLayer
<1>2. AuthdScript' = AuthdScript /\ TakeOverScript' = TakeOverScript
      /\ OpenFileScript' = OpenFileScript /\ AioPrepareScript' = AioPrepareScript
  BY Zenon, <1>1 DEF AuthdScript, TakeOverScript, OpenFileScript, AioPrepareScript,
     SessionExchange, Aio
<1>3. HandshakeScript' = HandshakeScript
  BY Zenon, <1>1 DEF HandshakeScript, ParamsExchange, Msg, Raw
<1>4. Exchanges' = Exchanges
  BY Zenon, <1>1 DEF Exchanges, Msg, Raw, Aio
<1> QED BY Zenon, <1>2, <1>3, <1>4 DEF Script
-----------------------------------------------------------------------------
(* What is on its way to the server.                                       *)

LEMMA QueueStart ==
    ASSUME NEW S
    PROVE  Queue(S, 0, 0, <<>>, <<>>)
BY DEF Queue

LEMMA QueueSkip ==
    ASSUME NEW S, NEW a \in Nat, NEW n \in 0 .. a, NEW q, NEW pos, Queue(S, a, n, q, pos),
           Empty(S[a + 1])
    PROVE  Queue(S, a + 1, n, q, pos)
<1>1. ASSUME NEW k \in 1 .. a + 1, n < k
      PROVE  Empty(S[k]) \/ \E i \in 1 .. Len(pos) : pos[i] = k
  <2>1. CASE k = a + 1
    BY <2>1
  <2>2. CASE k \in 1 .. a
    BY <1>1, <2>2 DEF Queue
  <2> QED BY <2>1, <2>2
<1>2. ASSUME NEW i \in 1 .. Len(pos)
      PROVE  n < pos[i] /\ pos[i] <= a + 1 /\ Same(q[i], S[pos[i]]) /\ ~Empty(S[pos[i]])
  <2>1. pos[i] \in Nat
    BY DEF Queue
  <2> QED BY <2>1 DEF Queue
<1> QED BY <1>1, <1>2 DEF Queue

LEMMA QueueSend ==
    ASSUME NEW S, NEW a \in Nat, NEW n \in 0 .. a, NEW q \in Seq(Message), NEW pos,
           Queue(S, a, n, q, pos), NEW m \in Message, Same(m, S[a + 1]), ~Empty(S[a + 1])
    PROVE  Queue(S, a + 1, n, Append(q, m), Append(pos, a + 1))
<1> DEFINE qq == Append(q, m)
           pp == Append(pos, a + 1)
<1>1. pos \in Seq(Nat) /\ Len(pos) \in Nat /\ Len(pos) = Len(q)
  BY DEF Queue
<1>2. pp \in Seq(Nat) /\ Len(pp) = Len(pos) + 1 /\ pp[Len(pos) + 1] = a + 1
      /\ \A i \in 1 .. Len(pos) : pp[i] = pos[i]
  BY <1>1
<1>3. Len(qq) = Len(pos) + 1 /\ qq[Len(pos) + 1] = m
      /\ \A i \in 1 .. Len(pos) : qq[i] = q[i]
  BY <1>1
<1> HIDE DEF qq, pp
<1>4. ASSUME NEW i \in 1 .. Len(pp)
      PROVE  n < pp[i] /\ pp[i] <= a + 1 /\ Same(qq[i], S[pp[i]]) /\ ~Empty(S[pp[i]])
  <2>1. CASE i = Len(pos) + 1
    BY <1>2, <1>3, <2>1
  <2>2. CASE i \in 1 .. Len(pos)
    <3>1. pos[i] \in Nat
      BY <1>1, <2>2
    <3>2. n < pos[i] /\ pos[i] <= a /\ Same(q[i], S[pos[i]]) /\ ~Empty(S[pos[i]])
      BY <2>2 DEF Queue
    <3>3. pp[i] = pos[i] /\ qq[i] = q[i]
      BY <1>2, <1>3, <2>2
    <3>4. pos[i] <= a + 1
      BY <3>1, <3>2
    <3> QED BY <3>2, <3>3, <3>4
  <2> QED BY <1>1, <1>2, <2>1, <2>2
<1>5. ASSUME NEW i \in 1 .. Len(pp), NEW k \in 1 .. Len(pp), i < k
      PROVE  pp[i] < pp[k]
  <2>1. i \in 1 .. Len(pos) /\ pos[i] \in Nat /\ pos[i] <= a
    <3>1. i \in 1 .. Len(pos)
      BY <1>1, <1>2, <1>5
    <3>2. pos[i] \in Nat
      BY <1>1, <3>1
    <3> QED BY <3>1, <3>2 DEF Queue
  <2>2. CASE k = Len(pos) + 1
    BY <1>2, <2>1, <2>2
  <2>3. CASE k \in 1 .. Len(pos)
    BY <1>2, <1>5, <2>1, <2>3 DEF Queue
  <2> QED BY <1>1, <1>2, <2>2, <2>3
<1>6. ASSUME NEW k \in 1 .. a + 1, n < k
      PROVE  Empty(S[k]) \/ \E i \in 1 .. Len(pp) : pp[i] = k
  <2>1. CASE k = a + 1
    <3>1. Len(pos) + 1 \in 1 .. Len(pp)
      BY <1>1, <1>2
    <3> QED BY <1>2, <2>1, <3>1
  <2>2. CASE k \in 1 .. a
    <3>1. CASE Empty(S[k])
      BY <3>1
    <3>2. CASE \E i \in 1 .. Len(pos) : pos[i] = k
      <4>1. PICK i \in 1 .. Len(pos) : pos[i] = k
        BY <3>2
      <4>2. i \in 1 .. Len(pp)
        BY <1>1, <1>2
      <4> QED BY <1>2, <4>1, <4>2
    <3> QED BY <1>6, <2>2, <3>1, <3>2 DEF Queue
  <2> QED BY <2>1, <2>2
<1>7. Len(pp) = Len(qq)
  BY <1>2, <1>3
<1> QED BY <1>2, <1>4, <1>5, <1>6, <1>7 DEF Queue, qq, pp

LEMMA QueueDone ==
    ASSUME NEW S, NEW a \in Nat, NEW q \in Seq(Message), NEW pos, Queue(S, a, a, q, pos)
    PROVE  q = <<>>
<1>1. pos \in Seq(Nat) /\ Len(pos) = Len(q) /\ Len(q) \in Nat
  BY DEF Queue
<1>2. ASSUME Len(pos) >= 1
      PROVE  FALSE
  <2>1. 1 \in 1 .. Len(pos)
    BY <1>1, <1>2
  <2>2. pos[1] \in Nat
    BY <1>1, <2>1
  <2> QED BY <2>1, <2>2 DEF Queue
<1> QED BY <1>1, <1>2, EmptySeq

\* The head of the queue is the next message that is not empty.
LEMMA QueueServe ==
    ASSUME NEW S, NEW a \in Nat, NEW n \in 0 .. a, NEW q \in Seq(Message), NEW pos,
           Queue(S, a, n, q, pos), q # <<>>
    PROVE  \E j \in n + 1 .. a, p \in Seq(Nat) :
               /\ Same(Head(q), S[j]) /\ ~Empty(S[j])
               /\ \A k \in n + 1 .. j - 1 : Empty(S[k])
               /\ Queue(S, a, j, Tail(q), p)
<1>1. pos \in Seq(Nat) /\ Len(pos) = Len(q) /\ Len(q) \in Nat /\ Len(q) >= 1
  <2>1. pos \in Seq(Nat) /\ Len(pos) = Len(q) /\ Len(q) \in Nat
    BY DEF Queue
  <2> QED BY <2>1, EmptySeq
<1>2. 1 \in 1 .. Len(pos) /\ pos[1] \in Nat
  BY <1>1
<1>3. PICK j \in Nat : j = pos[1]
  BY <1>2
<1>4. j \in n + 1 .. a /\ Same(q[1], S[j]) /\ ~Empty(S[j])
  BY <1>2, <1>3 DEF Queue
<1>5. Head(q) = q[1] /\ Tail(q) \in Seq(Message) /\ Len(Tail(q)) = Len(q) - 1
      /\ \A i \in 1 .. Len(q) - 1 : Tail(q)[i] = q[i + 1]
  BY <1>1
<1>6. PICK p : p = Tail(pos)
  OBVIOUS
<1>7. p \in Seq(Nat) /\ Len(p) = Len(pos) - 1 /\ \A i \in 1 .. Len(pos) - 1 : p[i] = pos[i + 1]
  BY <1>1, <1>6
<1>8. ASSUME NEW k \in n + 1 .. j - 1
      PROVE  Empty(S[k])
  <2>1. ASSUME NEW i \in 1 .. Len(pos), pos[i] = k
        PROVE  FALSE
    <3>1. i = 1 \/ 1 < i
      OBVIOUS
    <3> QED BY <1>2, <1>3, <2>1, <3>1 DEF Queue
  <2>2. k \in 1 .. a /\ n < k
    BY <1>4
  <2> QED BY <2>1, <2>2 DEF Queue
<1>9. Queue(S, a, j, Tail(q), p)
  <2>1. ASSUME NEW i \in 1 .. Len(p)
        PROVE  j < p[i] /\ p[i] <= a /\ Same(Tail(q)[i], S[p[i]]) /\ ~Empty(S[p[i]])
    <3>1. i + 1 \in 1 .. Len(pos) /\ 1 < i + 1 /\ i \in 1 .. Len(pos) - 1
      BY <1>1, <1>7
    <3>2. p[i] = pos[i + 1] /\ Tail(q)[i] = q[i + 1]
      BY <1>1, <1>5, <1>7, <3>1
    <3> QED BY <1>2, <1>3, <3>1, <3>2 DEF Queue
  <2>2. ASSUME NEW i \in 1 .. Len(p), NEW k \in 1 .. Len(p), i < k
        PROVE  p[i] < p[k]
    <3>1. Len(pos) \in Nat /\ Len(p) = Len(pos) - 1
      BY <1>1, <1>7
    <3>2. /\ i + 1 \in 1 .. Len(pos) /\ k + 1 \in 1 .. Len(pos) /\ i + 1 < k + 1
          /\ i \in 1 .. Len(pos) - 1 /\ k \in 1 .. Len(pos) - 1
      BY <2>2, <3>1
    <3>3. p[i] = pos[i + 1] /\ p[k] = pos[k + 1]
      BY <1>7, <3>2
    <3> QED BY <3>2, <3>3 DEF Queue
  <2>3. ASSUME NEW k \in 1 .. a, j < k
        PROVE  Empty(S[k]) \/ \E i \in 1 .. Len(p) : p[i] = k
    <3>1. n < k
      BY <1>4, <2>3
    <3>2. CASE \E i \in 1 .. Len(pos) : pos[i] = k
      <4>1. PICK i \in 1 .. Len(pos) : pos[i] = k
        BY <3>2
      <4>2. i # 1
        BY <1>3, <2>3, <4>1
      <4>3. Len(pos) \in Nat /\ Len(p) = Len(pos) - 1
        BY <1>1, <1>7
      <4>4. /\ i - 1 \in 1 .. Len(p) /\ i - 1 \in 1 .. Len(pos) - 1 /\ i - 1 + 1 = i
        BY <4>2, <4>3
      <4>5. p[i - 1] = pos[i]
        BY <1>7, <4>4
      <4> QED BY <4>1, <4>4, <4>5
    <3> QED BY <3>1, <3>2 DEF Queue
  <2>4. Len(p) = Len(Tail(q))
    BY <1>1, <1>5, <1>7
  <2> QED BY <1>7, <2>1, <2>2, <2>3, <2>4 DEF Queue
<1> QED BY <1>4, <1>5, <1>7, <1>8, <1>9
-----------------------------------------------------------------------------
(* The server reads message j of exchange x.                               *)

Servers == [stage : {"greet", "tls", "authd", "nfcssl", "nfc", "aio"},
            layer : Layers, strings : Nat, ticket : {"none", "valid", "bad"},
            cert : {"none", "ticket", "other"}, ok : BOOLEAN, version : Nat,
            buf : Nat, ro : 0 .. 2, confused : BOOLEAN]

PinnedOk == opts.pinned /\ srv.ticket # "none" => srv.cert = "ticket"
ServerOk == srv \in Servers /\ ~srv.confused /\ PinnedOk

Read(m) ==
    \/ /\ Readable(m)
       /\ ServeHello(m) \/ ServeLine(m) \/ ServeMsg(m) \/ ServeRaw(m) \/ ServeAio(m)
    \/ ~Readable(m) /\ srv' = [srv EXCEPT !.confused = TRUE] /\ Silent
Before(x, n) ==
    /\ opts \in Options /\ opts' = opts /\ ServerOk /\ Ready(x, n)
    /\ x \in 2 .. 13 /\ (x = 6 => opts.ssl)
Replied(x) ==
    \E r \in Message : toClient' = Append(toClient, r) /\ Answered(x, r)'

LEMMA ReadHello ==
    ASSUME NEW x \in {2, 6}, NEW m, Is(m, "tcp", "hello", "TLS", 0), Before(x, 0), Read(m)
    PROVE  ServerOk' /\ srv'.stage # "greet" /\ Replied(x)
<1>1. srv.stage = (IF x = 2 THEN "tls" ELSE "nfcssl") /\ srv.layer = "tcp" /\ srv.strings = 0
  BY DEF Before, Ready, StageAt, LayerAt, StringsAt
<1>2. m \in Message /\ m.layer = "tcp" /\ m.kind = "hello" /\ m.name = "TLS"
  BY DEF Is
<1>3. Readable(m)
  BY <1>1, <1>2 DEF Readable
<1>4. ServeHello(m)
  BY <1>2, <1>3 DEF Read, ServeLine, ServeMsg, ServeRaw, ServeAio
<1>5. CASE x = 2
  <2>1. PICK c \in {"ticket", "other"} :
           /\ srv' = [srv EXCEPT !.stage = "authd", !.layer = "tls", !.cert = c]
           /\ toClient' = Append(toClient, With(m, IF c = "ticket" THEN 1 ELSE 0))
    BY <1>1, <1>4, <1>5 DEF ServeHello, Reply
  <2>2. PICK a \in Nat : a = IF c = "ticket" THEN 1 ELSE 0
    OBVIOUS
  <2>3. PICK r : r = With(m, a)
    OBVIOUS
  <2>4. Is(r, "tcp", "hello", "TLS", a)
    BY <2>2, <2>3, WithFields
  <2>5. /\ srv' \in Servers /\ srv'.stage = "authd" /\ srv'.layer = "tls"
        /\ srv'.cert = c /\ srv'.strings = 0 /\ srv'.ticket = "none" /\ srv'.ok
        /\ ~srv'.confused
    <3>1. srv.ticket = "none" /\ srv.ok /\ srv \in Servers /\ ~srv.confused
      BY <1>5 DEF Before, Ready, ServerOk
    <3>2. srv' \in Servers
      BY <2>1, <3>1 DEF Servers, Layers
    <3> QED BY <1>1, <2>1, <3>1, <3>2 DEF Servers
  <2>6. Answered(2, r)'
    BY <2>2, <2>4, <2>5 DEF Before, Answered, Ready, NextPlace, StageAt, LayerAt,
       StringsAt, Is
  <2> QED BY <1>5, <2>1, <2>2, <2>3, <2>4, <2>5, <2>6 DEF ServerOk, PinnedOk, Replied, Is
<1>6. CASE x = 6
  <2>1. /\ srv' = [srv EXCEPT !.stage = "nfc", !.layer = "tls2"]
        /\ toClient' = Append(toClient, m)
    BY <1>1, <1>4, <1>6 DEF ServeHello, Reply
  <2>2. /\ srv' \in Servers /\ srv'.stage = "nfc" /\ srv'.layer = "tls2"
        /\ srv'.cert = srv.cert /\ srv'.strings = 0 /\ srv'.ticket = srv.ticket /\ srv'.ok
        /\ ~srv'.confused
    BY <1>1, <1>6, <2>1 DEF Before, ServerOk, Servers, Ready, Layers
  <2>3. srv.ticket = "valid" /\ (opts.pinned => srv.cert = "ticket") /\ opts.ssl
    BY <1>6 DEF Before, Ready
  <2>4. Ready(7, 0)'
    BY <2>2, <2>3 DEF Before, Ready, StageAt, LayerAt, StringsAt, NfcLayer
  <2>5. Answered(6, m)'
    BY <2>4 DEF Answered, NextPlace
  <2>6. PinnedOk'
    BY <2>2, <2>3 DEF Before, PinnedOk
  <2> QED BY <1>2, <1>6, <2>1, <2>2, <2>5, <2>6 DEF ServerOk, Replied
<1> QED BY <1>5, <1>6

\* A reply that is not the one awaited says nothing.
LEMMA Refused ==
    ASSUME NEW x \in 1 .. 13, NEW m \in Message
    PROVE  [m EXCEPT !.name = "ERROR"] \in Message /\ Answered(x, [m EXCEPT !.name = "ERROR"])'
<1>1. PICK r : r = [m EXCEPT !.name = "ERROR"]
  OBVIOUS
<1>2. r \in Message /\ r.name = "ERROR"
  BY <1>1 DEF Message, Names
<1>3. ReplyName[x] # "ERROR"
  <2>1. \/ x = 1 \/ x = 2 \/ x = 3 \/ x = 4 \/ x = 5 \/ x = 6 \/ x = 7
        \/ x = 8 \/ x = 9 \/ x = 10 \/ x = 11 \/ x = 12 \/ x = 13
    OBVIOUS
  <2> QED BY <2>1 DEF ReplyName
<1>4. Answered(x, r)'
  BY <1>2, <1>3 DEF Answered
<1> QED BY <1>1, <1>2, <1>4

LEMMA RefusedServer ==
    ASSUME ServerOk, opts' = opts, srv' = [srv EXCEPT !.ok = FALSE]
    PROVE  ServerOk' /\ srv'.stage = srv.stage
BY DEF ServerOk, Servers, PinnedOk

LEMMA ReadSession ==
    ASSUME NEW m, Is(m, "tls", "line", "SESSION", 0), Before(3, 0), Read(m)
    PROVE  ServerOk' /\ toClient' = toClient /\ Ready(3, 1)'
<1>1. srv.stage = "authd" /\ srv.layer = "tls" /\ srv.strings = 0
  BY DEF Before, Ready, StageAt, LayerAt, StringsAt
<1>2. m \in Message /\ m.layer = "tls" /\ m.kind = "line" /\ m.name = "SESSION"
  BY DEF Is
<1>3. Readable(m)
  BY <1>1, <1>2 DEF Readable
<1>4. ServeLine(m)
  BY <1>2, <1>3 DEF Read, ServeHello, ServeMsg, ServeRaw, ServeAio
<1>5. PICK v \in {"valid", "bad"} : srv' = [srv EXCEPT !.ticket = v] /\ toClient' = toClient
  BY <1>2, <1>4 DEF ServeLine, Silent
<1>6. /\ srv' \in Servers /\ srv'.stage = "authd" /\ srv'.layer = "tls"
      /\ srv'.strings = 0 /\ srv'.ok /\ ~srv'.confused /\ srv'.cert = srv.cert
  BY <1>1, <1>5 DEF Before, ServerOk, Servers, Ready
<1>7. opts'.pinned => srv'.cert = "ticket"
  BY <1>6 DEF Before, Ready
<1>8. Ready(3, 1)'
  BY <1>6, <1>7 DEF Ready, StageAt, LayerAt, StringsAt
<1> QED BY <1>5, <1>6, <1>7, <1>8 DEF ServerOk, PinnedOk

LEMMA ReadLine ==
    ASSUME NEW x \in 3 .. 5, NEW m, Before(x, IF x = 3 THEN 1 ELSE 0), Read(m),
           m.name = "PROXY" => m.arg = IF opts.ssl THEN 1 ELSE 0,
           m \in Message, m.layer = "tls", m.kind = "line",
           m.name = IF x = 3 THEN "BANNER" ELSE IF x = 4 THEN "THUMBPRINT_SHA2" ELSE "PROXY"
    PROVE  ServerOk' /\ srv'.stage # "greet" /\ Replied(x)
<1>1. srv.stage = "authd" /\ srv.layer = "tls" /\ srv.strings = 0
  BY DEF Before, Ready, StageAt, LayerAt, StringsAt
<1>2. Readable(m)
  BY <1>1 DEF Readable
<1>3. ServeLine(m) /\ m.name # "SESSION"
  BY <1>2 DEF Read, ServeHello, ServeMsg, ServeRaw, ServeAio
<1>4. CASE /\ srv.ticket = "valid"
           /\ Reply([m EXCEPT !.name = IF m.name = "BANNER" THEN "220" ELSE "200"])
           /\ srv' = IF m.name # "PROXY" THEN srv
                     ELSE [srv EXCEPT !.layer = "tcp",
                              !.stage = IF m.arg = 1 THEN "nfcssl" ELSE "nfc"]
  <2>1. PICK r : r = [m EXCEPT !.name = IF m.name = "BANNER" THEN "220" ELSE "200"]
    OBVIOUS
  <2>2. r \in Message
    BY <2>1 DEF Message, Names
  <2>3. toClient' = Append(toClient, r)
    BY <1>4, <2>1 DEF Reply
  <2>4. /\ srv' \in Servers /\ srv'.strings = 0 /\ srv'.ok /\ ~srv'.confused
        /\ srv'.cert = srv.cert /\ srv'.ticket = "valid"
    BY <1>1, <1>4 DEF Before, ServerOk, Servers, Ready, Layers
  <2>5. opts'.pinned => srv'.cert = "ticket"
    BY <2>4 DEF Before, Ready
  <2>6. CASE x \in 3 .. 4
    <3>1. srv' = srv /\ x # 5 /\ NextPlace(x)' = x + 1
      BY <1>4, <2>6 DEF NextPlace
    <3>2. srv'.stage = "authd" /\ srv'.layer = "tls"
      BY <1>1, <3>1
    <3>3. Ready(x + 1, 0)'
      BY <2>4, <2>5, <2>6, <3>2 DEF Ready, StageAt, LayerAt, StringsAt
    <3>4. Answered(x, r)'
      BY <3>1, <3>3 DEF Answered
    <3> QED BY <2>2, <2>3, <2>4, <2>5, <3>2, <3>4 DEF ServerOk, PinnedOk, Replied
  <2>7. CASE x = 5
    <3>1. /\ srv'.layer = "tcp" /\ srv'.stage = (IF opts.ssl THEN "nfcssl" ELSE "nfc")
          /\ opts' = opts
      BY <1>4, <2>7 DEF Before, ServerOk, Servers
    <3>2. CASE opts.ssl
      <4>1. NextPlace(5)' = 6
        BY <3>1, <3>2 DEF NextPlace
      <4>2. Ready(6, 0)'
        BY <2>4, <2>5, <3>1, <3>2 DEF Ready, StageAt, LayerAt, StringsAt
      <4>3. Answered(5, r)'
        BY <4>1, <4>2 DEF Answered
      <4> QED BY <2>2, <2>3, <2>4, <2>5, <2>7, <3>1, <4>3 DEF ServerOk, PinnedOk, Replied
    <3>3. CASE ~opts.ssl
      <4>1. NextPlace(5)' = 7
        BY <3>1, <3>3 DEF NextPlace
      <4>2. Ready(7, 0)'
        BY <2>4, <2>5, <3>1, <3>3 DEF Ready, StageAt, LayerAt, StringsAt, NfcLayer
      <4>3. Answered(5, r)'
        BY <4>1, <4>2 DEF Answered
      <4> QED BY <2>2, <2>3, <2>4, <2>5, <2>7, <3>1, <4>3 DEF ServerOk, PinnedOk, Replied
    <3> QED BY <3>2, <3>3
  <2> QED BY <2>6, <2>7
<1>5. CASE srv' = [srv EXCEPT !.ok = FALSE] /\ Reply([m EXCEPT !.name = "ERROR"])
  <2>1. x \in 1 .. 13
    OBVIOUS
  <2> QED BY <1>1, <1>5, <2>1, Refused, RefusedServer DEF Before, Replied, Reply
<1> QED BY <1>3, <1>4, <1>5 DEF ServeLine

LEMMA ReadSilentMsg ==
    ASSUME NEW x \in {7, 9}, NEW n \in 0 .. 3, NEW m, Before(x, n), Read(m),
           m \in Message, m.layer = NfcLayer, m.kind = "msg",
           \/ x = 7 /\ n = 0 /\ m.name = "HANDSHAKE"
           \/ x = 9 /\ n = 0 /\ m.name = "CONNECTION_DATA" /\ m.arg = opts.name + opts.opname
           \/ x = 9 /\ n = 3 /\ m.name = "SESSION_FEATURES"
    PROVE  ServerOk' /\ toClient' = toClient /\ Ready(x, n + 1)'
<1>1. srv.stage = "nfc" /\ srv.layer = NfcLayer /\ srv.strings = 0
  BY DEF Before, Ready, StageAt, LayerAt, StringsAt
<1>2. Readable(m)
  BY <1>1 DEF Readable
<1>3. ServeMsg(m)
  BY <1>2 DEF Read, ServeHello, ServeLine, ServeRaw, ServeAio
<1>4. PICK k : k = IF m.name = "CONNECTION_DATA" THEN m.arg ELSE 0
  OBVIOUS
<1>5. srv' = [srv EXCEPT !.strings = k] /\ toClient' = toClient
  BY <1>3, <1>4 DEF ServeMsg, Silent
<1>6. k \in Nat
  BY <1>4 DEF Message
<1>7. /\ srv' \in Servers /\ srv'.stage = "nfc" /\ srv'.layer = NfcLayer
      /\ srv'.strings = k /\ srv'.ok /\ ~srv'.confused
      /\ srv'.cert = srv.cert /\ srv'.ticket = srv.ticket /\ srv'.version = srv.version
  BY <1>1, <1>5, <1>6 DEF Before, ServerOk, Servers, Ready
<1>8. /\ srv.ticket = "valid" /\ (opts.pinned => srv.cert = "ticket") /\ opts' = opts
      /\ x > 8 => srv.version >= 3
  BY DEF Before, Ready
<1>9. NfcLayer' = NfcLayer
  BY <1>8 DEF NfcLayer
<1>10. k = StringsAt(x, n + 1)'
  BY <1>4, <1>8 DEF StringsAt
<1>11. Ready(x, n + 1)'
  BY <1>7, <1>8, <1>9, <1>10 DEF Ready, StageAt, LayerAt
<1> QED BY <1>5, <1>7, <1>8, <1>11 DEF ServerOk, PinnedOk

LEMMA ReadRaw ==
    ASSUME NEW n \in 1 .. 2, NEW m, Before(9, n), Read(m),
           m \in Message, m.layer = NfcLayer, m.kind = "raw", m.arg # 0,
           m.arg = IF n = 1 THEN opts.name ELSE opts.opname
    PROVE  ServerOk' /\ toClient' = toClient /\ Ready(9, n + 1)'
<1>1. srv.stage = "nfc" /\ srv.layer = NfcLayer /\ srv.strings = StringsAt(9, n)
  BY DEF Before, Ready, StageAt, LayerAt
<1>2. opts.name \in Nat /\ opts.opname \in Nat
  BY HandshakeConstants DEF Before, Options
<1>3. /\ srv.strings \in Nat /\ srv.strings > 0 /\ m.arg \in Nat /\ m.arg <= srv.strings
      /\ srv.strings - m.arg = StringsAt(9, n + 1) /\ srv.strings - m.arg \in Nat
  BY <1>1, <1>2 DEF StringsAt
<1>4. Readable(m)
  BY <1>1, <1>3 DEF Readable
<1>5. ServeRaw(m)
  BY <1>4 DEF Read, ServeHello, ServeLine, ServeMsg, ServeAio
<1>6. srv' = [srv EXCEPT !.strings = srv.strings - m.arg] /\ toClient' = toClient
  BY <1>5 DEF ServeRaw, Silent
<1>7. /\ srv' \in Servers /\ srv'.stage = "nfc" /\ srv'.layer = NfcLayer
      /\ srv'.strings = StringsAt(9, n + 1) /\ srv'.ok /\ ~srv'.confused
      /\ srv'.cert = srv.cert /\ srv'.ticket = srv.ticket /\ srv'.version = srv.version
  BY <1>1, <1>3, <1>6 DEF Before, ServerOk, Servers, Ready
<1>8. /\ srv.ticket = "valid" /\ (opts.pinned => srv.cert = "ticket") /\ opts' = opts
      /\ srv.version >= 3
  BY DEF Before, Ready
<1>9. NfcLayer' = NfcLayer /\ StringsAt(9, n + 1)' = StringsAt(9, n + 1)
  BY <1>8 DEF NfcLayer, StringsAt
<1>10. Ready(9, n + 1)'
  BY <1>7, <1>8, <1>9 DEF Ready, StageAt, LayerAt
<1> QED BY <1>6, <1>7, <1>8, <1>10 DEF ServerOk, PinnedOk

LEMMA ReadMsg ==
    ASSUME NEW x \in 7 .. 9, NEW n, Before(x, n), NEW m, Read(m),
           n = IF x = 7 THEN 1 ELSE IF x = 8 THEN 0 ELSE 4,
           m \in Message, m.layer = NfcLayer, m.kind = "msg",
           m.name = IF x = 7 THEN "SESSION_PARAMS"
                    ELSE IF x = 8 THEN "VERSION" ELSE "AIO_SESSION_OPEN"
    PROVE  ServerOk' /\ srv'.stage # "greet" /\ Replied(x)
<1>1. srv.stage = "nfc" /\ srv.layer = NfcLayer /\ srv.strings = 0
  BY DEF Before, Ready, StageAt, LayerAt, StringsAt
<1>2. Readable(m)
  BY <1>1 DEF Readable
<1>3. ServeMsg(m)
  BY <1>2 DEF Read, ServeHello, ServeLine, ServeRaw, ServeAio
<1>4. ASSUME NEW v \in IF m.name = "VERSION" THEN Versions ELSE {0},
             Reply([m EXCEPT !.name = AnswerTo(m.name), !.arg = v]),
             srv' = [srv EXCEPT
                       !.version = IF m.name = "VERSION" THEN v ELSE @,
                       !.stage = IF m.name = "AIO_SESSION_OPEN" THEN "aio" ELSE @]
      PROVE  ServerOk' /\ srv'.stage # "greet" /\ Replied(x)
  <2>1. v \in Nat
    BY HandshakeConstants
  <2>2. PICK r : r = [m EXCEPT !.name = AnswerTo(m.name), !.arg = v]
    OBVIOUS
  <2>3. AnswerTo(m.name) \in Names
    BY DEF AnswerTo, Names
  <2>4. r \in Message /\ r.arg = v
    BY <2>1, <2>2, <2>3 DEF Message
  <2>5. toClient' = Append(toClient, r)
    BY <1>4, <2>2 DEF Reply
  <2>6. /\ srv.ticket = "valid" /\ (opts.pinned => srv.cert = "ticket") /\ opts' = opts
        /\ (x > 8 => srv.version >= 3) /\ srv \in Servers /\ srv.ok /\ ~srv.confused
    BY DEF Before, Ready, ServerOk
  <2>7. /\ srv' \in Servers /\ srv'.stage = (IF x = 9 THEN "aio" ELSE "nfc")
        /\ srv'.layer = NfcLayer /\ srv'.strings = 0 /\ srv'.ok /\ ~srv'.confused
        /\ srv'.cert = srv.cert /\ srv'.ticket = srv.ticket
        /\ srv'.version = IF x = 8 THEN v ELSE srv.version
    <3>1. PICK w, g : /\ w = IF m.name = "VERSION" THEN v ELSE srv.version
                      /\ g = IF m.name = "AIO_SESSION_OPEN" THEN "aio" ELSE srv.stage
      OBVIOUS
    <3>2. w \in Nat /\ w = IF x = 8 THEN v ELSE srv.version
      BY <2>1, <2>6, <3>1 DEF Servers
    <3>3. g = IF x = 9 THEN "aio" ELSE "nfc"
      BY <1>1, <3>1
    <3>4. srv' = [srv EXCEPT !.version = w, !.stage = g]
      BY <1>4, <3>1
    <3>5. srv' \in Servers
      BY <2>6, <3>2, <3>3, <3>4 DEF Servers
    <3> QED BY <1>1, <2>6, <3>2, <3>3, <3>4, <3>5 DEF Servers
  <2>8. NfcLayer' = NfcLayer /\ NextPlace(x)' = x + 1
    BY <2>6 DEF NfcLayer, NextPlace
  <2>9. (x = 8 => v >= 3) => Ready(x + 1, 0)'
    BY <2>6, <2>7, <2>8 DEF Ready, StageAt, LayerAt, StringsAt
  <2>10. Answered(x, r)'
    BY <2>4, <2>8, <2>9 DEF Answered
  <2> QED BY <2>4, <2>5, <2>6, <2>7, <2>10 DEF ServerOk, PinnedOk, Replied
<1>5. CASE Reply([m EXCEPT !.name = "ERROR"]) /\ srv' = [srv EXCEPT !.ok = FALSE]
  <2>1. x \in 1 .. 13
    OBVIOUS
  <2> QED BY <1>1, <1>5, <2>1, Refused, RefusedServer DEF Before, Replied, Reply
<1>6. m.name \in {"SESSION_PARAMS", "VERSION", "AIO_SESSION_OPEN"}
  OBVIOUS
<1> QED BY <1>3, <1>4, <1>5, <1>6 DEF ServeMsg

LEMMA ReadAio ==
    ASSUME NEW x \in 10 .. 13, Before(x, 0), NEW m, Read(m),
           m \in Message, m.layer = NfcLayer, m.kind = "aio", m.name = ReplyName[x],
           x = 10 => m.arg = AioBufferSize,
           x = 13 => m.arg = IF opts.ro THEN 1 ELSE 0
    PROVE  ServerOk' /\ srv'.stage # "greet" /\ Replied(x)
<1>1. srv.stage = "aio" /\ srv.layer = NfcLayer /\ srv.strings = 0
  BY DEF Before, Ready, StageAt, LayerAt, StringsAt
<1>2. Readable(m)
  BY <1>1 DEF Readable
<1>3. ServeAio(m)
  BY <1>2 DEF Read, ServeHello, ServeLine, ServeRaw, ServeMsg
<1>4. ASSUME NEW f \in IF m.name = "OPEN_FILE" THEN FileReplies ELSE {NoFile},
             Reply([m EXCEPT !.file = f]),
             srv' = [srv EXCEPT
                       !.buf = IF m.name = "OPEN_SESSION" THEN m.arg ELSE @,
                       !.ro = IF m.name = "OPEN_FILE" THEN m.arg ELSE @]
      PROVE  ServerOk' /\ srv'.stage # "greet" /\ Replied(x)
  <2>1. f \in FileReply
    BY HandshakeConstants DEF NoFile, FileReply
  <2>2. PICK r : r = [m EXCEPT !.file = f]
    OBVIOUS
  <2>3. r \in Message
    BY <2>1, <2>2 DEF Message
  <2>4. toClient' = Append(toClient, r)
    BY <1>4, <2>2 DEF Reply
  <2>5. /\ srv.ticket = "valid" /\ (opts.pinned => srv.cert = "ticket") /\ opts' = opts
        /\ srv.version >= 3 /\ srv \in Servers /\ srv.ok /\ ~srv.confused
        /\ x > 10 => srv.buf = AioBufferSize
    BY DEF Before, Ready, ServerOk
  <2>6. /\ (m.name = "OPEN_SESSION") = (x = 10) /\ (m.name = "OPEN_FILE") = (x = 13)
    <3>1. x = 10 \/ x = 11 \/ x = 12 \/ x = 13
      OBVIOUS
    <3> QED BY <3>1 DEF ReplyName
  <2>7. m.arg \in Nat /\ (x = 13 => m.arg \in 0 .. 2)
    BY DEF Message
  <2>8. /\ srv' \in Servers /\ srv'.stage = "aio" /\ srv'.layer = NfcLayer
        /\ srv'.strings = 0 /\ srv'.ok /\ ~srv'.confused
        /\ srv'.cert = srv.cert /\ srv'.ticket = srv.ticket /\ srv'.version = srv.version
        /\ srv'.buf = (IF x = 10 THEN m.arg ELSE srv.buf)
        /\ srv'.ro = (IF x = 13 THEN m.arg ELSE srv.ro)
    BY <1>1, <1>4, <2>5, <2>6, <2>7 DEF Servers
  <2>9. NfcLayer' = NfcLayer /\ NextPlace(x)' = x + 1
    BY <2>5 DEF NfcLayer, NextPlace
  <2>10. Ready(x + 1, 0)'
    BY <2>5, <2>8, <2>9 DEF Ready, StageAt, LayerAt, StringsAt
  <2>11. Answered(x, r)'
    BY <2>9, <2>10 DEF Answered
  <2> QED BY <2>3, <2>4, <2>5, <2>8, <2>11 DEF ServerOk, PinnedOk, Replied
<1>5. CASE Reply([m EXCEPT !.name = "ERROR"]) /\ srv' = [srv EXCEPT !.ok = FALSE]
  <2>1. x \in 1 .. 13
    OBVIOUS
  <2> QED BY <1>1, <1>5, <2>1, Refused, RefusedServer DEF Before, Replied, Reply
<1> QED BY <1>3, <1>4, <1>5 DEF ServeAio

\* All in all: to the last message of an exchange there is a reply, and to no other.
LEMMA ReadAny ==
    ASSUME NEW x, NEW j, NEW m, Before(x, j - 1), j \in 1 .. Len(Exchanges[x].send),
           Same(m, Exchanges[x].send[j]), ~Empty(Exchanges[x].send[j]), Read(m)
    PROVE  /\ ServerOk'
           /\ j < Len(Exchanges[x].send) => Ready(x, j)' /\ toClient' = toClient
           /\ j = Len(Exchanges[x].send) => srv'.stage # "greet" /\ Replied(x)
<1>1. x \in 2 .. 13 /\ opts \in Options
  BY DEF Before
<1>2. PICK e : e = Exchanges[x].send
  OBVIOUS
<1>3. Len(e) = IF x \in {3, 7} THEN 2 ELSE IF x = 9 THEN 5 ELSE 1
  BY <1>1, <1>2, ExchangeTable
<1>4. m \in Message /\ \A l, k, name, n : Is(e[j], l, k, name, n) => Is(m, l, k, name, n)
  BY <1>2 DEF Is, Same
<1>5. CASE x \in {2, 6}
  <2>1. j = 1 /\ Len(e) = 1 /\ j - 1 = 0
    BY <1>2, <1>3, <1>5
  <2>2. Is(m, "tcp", "hello", "TLS", 0)
    BY <1>1, <1>2, <1>4, <1>5, <2>1, ExchangeTable
  <2>3. ServerOk' /\ srv'.stage # "greet" /\ Replied(x)
    BY <1>5, <2>1, <2>2, ReadHello
  <2> QED BY <1>2, <2>1, <2>3
<1>6. CASE x = 3
  <2>1. Len(e) = 2 /\ (j = 1 \/ j = 2)
    BY <1>2, <1>3, <1>6
  <2>2. CASE j = 1
    <3>1. Is(m, "tls", "line", "SESSION", 0) /\ j - 1 = 0
      <4>1. Is(Exchanges[3].send[1], "tls", "line", "SESSION", 0)
        BY <1>1, ExchangeTable
      <4>2. e[j] = Exchanges[3].send[1]
        BY <1>2, <1>6, <2>2
      <4> QED BY <1>4, <2>2, <4>1, <4>2
    <3>2. Before(3, 0)
      BY <1>6, <3>1
    <3>3. ServerOk' /\ toClient' = toClient /\ Ready(3, 1)'
      BY <3>1, <3>2, ReadSession
    <3>4. j < Len(e) /\ j # Len(e)
      BY <2>1, <2>2
    <3>5. Ready(x, j)'
      BY <1>6, <2>1, <2>2, <3>3
    <3> QED BY Zenon, <1>2, <3>3, <3>4, <3>5
  <2>3. CASE j = 2
    <3>1. Is(m, "tls", "line", "BANNER", 0) /\ j - 1 = 1
      BY <1>1, <1>2, <1>4, <1>6, <2>3, ExchangeTable
    <3>2. m.layer = "tls" /\ m.kind = "line" /\ m.name = "BANNER"
      BY <3>1 DEF Is
    <3>3. Before(3, 1)
      BY <1>6, <3>1
    <3>4. ServerOk' /\ srv'.stage # "greet" /\ Replied(3)
      BY <1>4, <3>2, <3>3, ReadLine
    <3>5. ~(j < Len(e))
      BY <2>1, <2>3
    <3>6. Replied(x)
      BY Zenon, <1>6, <3>4
    <3> QED BY Zenon, <1>2, <3>4, <3>5, <3>6
  <2> QED BY <2>1, <2>2, <2>3
<1>7. CASE x \in 4 .. 5
  <2>1. Len(e) = 1 /\ j = 1 /\ j - 1 = 0
    BY <1>2, <1>3, <1>7
  <2>2. \/ x = 4 /\ Is(m, "tls", "line", "THUMBPRINT_SHA2", 0)
        \/ x = 5 /\ Is(m, "tls", "line", "PROXY", IF opts.ssl THEN 1 ELSE 0)
    <3>1. x = 4 \/ x = 5
      BY <1>7
    <3>2. CASE x = 4
      BY <1>1, <1>2, <1>4, <2>1, <3>2, ExchangeTable
    <3>3. CASE x = 5
      BY <1>1, <1>2, <1>4, <2>1, <3>3, ExchangeTable
    <3> QED BY <3>1, <3>2, <3>3
  <2>3. /\ m.layer = "tls" /\ m.kind = "line"
        /\ m.name = IF x = 4 THEN "THUMBPRINT_SHA2" ELSE "PROXY"
        /\ m.name = "PROXY" => m.arg = IF opts.ssl THEN 1 ELSE 0
    BY <2>2 DEF Is
  <2>4. Before(x, 0) /\ x \in 3 .. 5 /\ x # 3
    BY <1>7, <2>1
  <2>5. ServerOk' /\ srv'.stage # "greet" /\ Replied(x)
    BY <1>4, <2>3, <2>4, ReadLine
  <2> QED BY <1>2, <2>1, <2>5
<1>8. CASE x = 7
  <2>1. Len(e) = 2 /\ (j = 1 \/ j = 2)
    BY <1>2, <1>3, <1>8
  <2>2. CASE j = 1
    <3>1. Is(m, NfcLayer, "msg", "HANDSHAKE", 0) /\ j - 1 = 0
      BY <1>1, <1>2, <1>4, <1>8, <2>2, ExchangeTable
    <3>2. m.layer = NfcLayer /\ m.kind = "msg" /\ m.name = "HANDSHAKE"
      BY <3>1 DEF Is
    <3>3. Before(7, 0)
      BY <1>8, <3>1
    <3>4. 0 \in 0 .. 3 /\ 0 + 1 = 1
      OBVIOUS
    <3>5. ServerOk' /\ toClient' = toClient /\ Ready(7, 0 + 1)'
      BY <1>4, <3>2, <3>3, <3>4, ReadSilentMsg
    <3>6. j < Len(e) /\ j # Len(e)
      BY <2>1, <2>2
    <3>7. Ready(x, j)'
      BY <1>8, <2>1, <2>2, <3>4, <3>5
    <3> QED BY Zenon, <1>2, <3>4, <3>5, <3>6, <3>7
  <2>3. CASE j = 2
    <3>1. Is(m, NfcLayer, "msg", "SESSION_PARAMS", 0) /\ j - 1 = 1
      BY <1>1, <1>2, <1>4, <1>8, <2>3, ExchangeTable
    <3>2. m.layer = NfcLayer /\ m.kind = "msg" /\ m.name = "SESSION_PARAMS"
      BY <3>1 DEF Is
    <3>3. Before(7, 1)
      BY <1>8, <3>1
    <3>4. ServerOk' /\ srv'.stage # "greet" /\ Replied(7)
      BY <1>4, <3>2, <3>3, ReadMsg
    <3>5. ~(j < Len(e))
      BY <2>1, <2>3
    <3>6. Replied(x)
      BY Zenon, <1>8, <3>4
    <3> QED BY Zenon, <1>2, <3>4, <3>5, <3>6
  <2> QED BY <2>1, <2>2, <2>3
<1>9. CASE x = 8
  <2>1. Len(e) = 1 /\ j = 1 /\ j - 1 = 0
    BY <1>2, <1>3, <1>9
  <2>2. Is(m, NfcLayer, "msg", "VERSION", NFC_PROTOCOL_VERSION)
    BY <1>1, <1>2, <1>4, <1>9, <2>1, ExchangeTable
  <2>3. m.layer = NfcLayer /\ m.kind = "msg" /\ m.name = "VERSION"
    BY <2>2 DEF Is
  <2>4. Before(8, 0)
    BY <1>9, <2>1
  <2>5. ServerOk' /\ srv'.stage # "greet" /\ Replied(8)
    BY <1>4, <2>3, <2>4, ReadMsg
  <2>6. ~(j < Len(e))
    BY <2>1
  <2>7. Replied(x)
    BY Zenon, <1>9, <2>5
  <2> QED BY Zenon, <1>2, <2>5, <2>6, <2>7
<1>10. CASE x = 9
  <2>1. Len(e) = 5 /\ (j = 1 \/ j = 2 \/ j = 3 \/ j = 4 \/ j = 5)
    BY <1>2, <1>3, <1>10
  <2>2. CASE j = 1
    <3>1. Is(m, NfcLayer, "msg", "CONNECTION_DATA", opts.name + opts.opname) /\ j - 1 = 0
      BY <1>1, <1>2, <1>4, <1>10, <2>2, ExchangeTable
    <3>2. /\ m.layer = NfcLayer /\ m.kind = "msg" /\ m.name = "CONNECTION_DATA"
          /\ m.arg = opts.name + opts.opname
      BY <3>1 DEF Is
    <3>3. Before(9, 0)
      BY <1>10, <3>1
    <3>4. 0 \in 0 .. 3 /\ 0 + 1 = 1
      OBVIOUS
    <3>5. ServerOk' /\ toClient' = toClient /\ Ready(9, 0 + 1)'
      BY <1>4, <3>2, <3>3, <3>4, ReadSilentMsg
    <3>6. j < Len(e) /\ j # Len(e)
      BY <2>1, <2>2
    <3>7. Ready(x, j)'
      BY <1>10, <2>1, <2>2, <3>4, <3>5
    <3> QED BY Zenon, <1>2, <3>4, <3>5, <3>6, <3>7
  <2>3. CASE j \in 2 .. 3
    <3>1. PICK n \in 1 .. 2 : n = j - 1
      BY <2>3
    <3>2. Is(m, NfcLayer, "raw", "name", IF n = 1 THEN opts.name ELSE opts.opname)
      <4>1. CASE j = 2
        BY <1>1, <1>2, <1>4, <1>10, <3>1, <4>1, ExchangeTable
      <4>2. CASE j = 3
        BY <1>1, <1>2, <1>4, <1>10, <3>1, <4>2, ExchangeTable
      <4> QED BY <2>1, <2>3, <4>1, <4>2
    <3>3. /\ m.layer = NfcLayer /\ m.kind = "raw"
          /\ m.arg = IF n = 1 THEN opts.name ELSE opts.opname
      BY <3>2 DEF Is
    <3>4. m.arg # 0
      BY <3>3 DEF Same, Empty
    <3>5. Before(9, n) /\ n + 1 = j
      BY <1>10, <2>3, <3>1
    <3>6. ServerOk' /\ toClient' = toClient /\ Ready(9, n + 1)'
      BY <1>4, <3>3, <3>4, <3>5, ReadRaw
    <3>7. Ready(9, j)'
      BY <3>5, <3>6
    <3>8. j < Len(e) /\ j # Len(e)
      BY <2>1, <2>3
    <3>9. Ready(x, j)'
      BY <1>10, <2>1, <2>3, <3>6, <3>7
    <3> QED BY Zenon, <1>2, <3>6, <3>7, <3>8, <3>9
  <2>4. CASE j = 4
    <3>1. Is(m, NfcLayer, "msg", "SESSION_FEATURES", 0) /\ j - 1 = 3
      BY <1>1, <1>2, <1>4, <1>10, <2>4, ExchangeTable
    <3>2. m.layer = NfcLayer /\ m.kind = "msg" /\ m.name = "SESSION_FEATURES"
      BY <3>1 DEF Is
    <3>3. Before(9, 3)
      BY <1>10, <3>1
    <3>4. 3 \in 0 .. 3 /\ 3 + 1 = 4
      OBVIOUS
    <3>5. ServerOk' /\ toClient' = toClient /\ Ready(9, 3 + 1)'
      BY <1>4, <3>2, <3>3, <3>4, ReadSilentMsg
    <3>6. j < Len(e) /\ j # Len(e)
      BY <2>1, <2>4
    <3>7. Ready(x, j)'
      BY <1>10, <2>1, <2>4, <3>4, <3>5
    <3> QED BY Zenon, <1>2, <3>4, <3>5, <3>6, <3>7
  <2>5. CASE j = 5
    <3>1. Is(m, NfcLayer, "msg", "AIO_SESSION_OPEN", 0) /\ j - 1 = 4
      BY <1>1, <1>2, <1>4, <1>10, <2>5, ExchangeTable
    <3>2. m.layer = NfcLayer /\ m.kind = "msg" /\ m.name = "AIO_SESSION_OPEN"
      BY <3>1 DEF Is
    <3>3. Before(9, 4)
      BY <1>10, <3>1
    <3>4. ServerOk' /\ srv'.stage # "greet" /\ Replied(9)
      BY <1>4, <3>2, <3>3, ReadMsg
    <3>5. ~(j < Len(e))
      BY <2>1, <2>5
    <3>6. Replied(x)
      BY Zenon, <1>10, <3>4
    <3> QED BY Zenon, <1>2, <3>4, <3>5, <3>6
  <2> QED BY <2>1, <2>2, <2>3, <2>4, <2>5
<1>11. CASE x \in 10 .. 13
  <2>1. Len(e) = 1 /\ j = 1 /\ j - 1 = 0
    BY <1>2, <1>3, <1>11
  <2>2. \/ x = 10 /\ Is(m, NfcLayer, "aio", "OPEN_SESSION", AioBufferSize)
        \/ x = 11 /\ Is(m, NfcLayer, "aio", "SET_SOCK_OPTS", 0)
        \/ x = 12 /\ Is(m, NfcLayer, "aio", "SET_RES_POOL", 1)
        \/ x = 13 /\ Is(m, NfcLayer, "aio", "OPEN_FILE", IF opts.ro THEN 1 ELSE 0)
    <3>1. x = 10 \/ x = 11 \/ x = 12 \/ x = 13
      BY <1>11
    <3>2. CASE x = 10
      BY <1>1, <1>2, <1>4, <2>1, <3>2, ExchangeTable
    <3>3. CASE x = 11
      BY <1>1, <1>2, <1>4, <2>1, <3>3, ExchangeTable
    <3>4. CASE x = 12
      BY <1>1, <1>2, <1>4, <2>1, <3>4, ExchangeTable
    <3>5. CASE x = 13
      BY <1>1, <1>2, <1>4, <2>1, <3>5, ExchangeTable
    <3> QED BY <3>1, <3>2, <3>3, <3>4, <3>5
  <2>3. /\ m.layer = NfcLayer /\ m.kind = "aio" /\ m.name = ReplyName[x]
        /\ x = 10 => m.arg = AioBufferSize
        /\ x = 13 => m.arg = IF opts.ro THEN 1 ELSE 0
    BY <2>2 DEF Is, ReplyName
  <2>4. Before(x, 0)
    BY <2>1
  <2>5. ServerOk' /\ srv'.stage # "greet" /\ Replied(x)
    BY <1>4, <1>11, <2>3, <2>4, ReadAio
  <2> QED BY <1>2, <2>1, <2>5
<1>12. x \in {2, 6} \/ x = 3 \/ x \in 4 .. 5 \/ x = 7 \/ x = 8 \/ x = 9 \/ x \in 10 .. 13
  BY <1>1
<1> QED BY <1>2, <1>5, <1>6, <1>7, <1>8, <1>9, <1>10, <1>11, <1>12
-----------------------------------------------------------------------------
(* The invariant is kept by every step.                                    *)

\* An empty name makes no difference to where the server is.
LEMMA ReadySkip ==
    ASSUME opts \in Options, NEW x \in 2 .. 13, NEW n \in Nat,
           NEW j \in n + 1 .. Len(Exchanges[x].send), Ready(x, n),
           \A k \in n + 1 .. j - 1 : Empty(Exchanges[x].send[k])
    PROVE  Ready(x, j - 1)
<1>1. j \in Nat /\ j > n
  OBVIOUS
<1>2. StringsAt(x, j - 1) = StringsAt(x, n)
  <2>1. CASE x # 9
    BY <2>1 DEF StringsAt
  <2>2. CASE x = 9
    <3>1. PICK e : e = Exchanges[9].send
      OBVIOUS
    <3>2. /\ e[1].kind = "msg" /\ e[4].kind = "msg"
          /\ e[2].arg = opts.name /\ e[3].arg = opts.opname /\ Len(e) = 5
      BY <3>1, ExchangeTable DEF Is
    <3>3. \A k \in n + 1 .. j - 1 : k # 1 /\ k # 4 /\ (k = 2 => opts.name = 0)
                                   /\ (k = 3 => opts.opname = 0)
      BY <2>2, <3>1, <3>2 DEF Empty
    <3>4. n \in 0 .. 4 /\ j \in n + 1 .. 5
      BY <2>2, <3>1, <3>2
    <3>5. opts.name \in Nat /\ opts.opname \in Nat
      BY HandshakeConstants DEF Options
    <3>6. n = 0 => j = 1
      <4>1. n = 0 /\ j # 1 => 1 \in n + 1 .. j - 1
        BY <3>4
      <4> QED BY <3>3, <4>1
    <3>7. n = 1 => j = 2 \/ (j = 3 /\ opts.name = 0)
                   \/ (j = 4 /\ opts.name = 0 /\ opts.opname = 0)
      <4>1. n = 1 => j # 5
        BY <3>3, <3>4
      <4>2. n = 1 /\ j = 3 => opts.name = 0
        BY <3>3, <3>4
      <4>3. n = 1 /\ j = 4 => opts.name = 0 /\ opts.opname = 0
        BY <3>3, <3>4
      <4> QED BY <3>4, <4>1, <4>2, <4>3
    <3>8. n = 2 => j = 3 \/ (j = 4 /\ opts.opname = 0)
      <4>1. n = 2 => j # 5
        BY <3>3, <3>4
      <4>2. n = 2 /\ j = 4 => opts.opname = 0
        BY <3>3, <3>4
      <4> QED BY <3>4, <4>1, <4>2
    <3>9. n >= 3 => j - 1 >= 3
      BY <3>4
    <3> QED BY <2>2, <3>4, <3>5, <3>6, <3>7, <3>8, <3>9 DEF StringsAt
  <2> QED BY <2>1, <2>2
<1>3. j - 1 = 0 => n = 0
  BY <1>1
<1> QED BY <1>2, <1>3 DEF Ready

LEMMA Frame ==
    ASSUME opts' = opts, step' = step
    PROVE  Script' = Script /\ Now' = Now /\ Place' = Place
<1>1. Script' = Script
  BY ScriptStable
<1> QED BY <1>1 DEF Now, Place, PlaceOf

LEMMA ServerFrame ==
    ASSUME opts' = opts, srv' = srv, NEW x, NEW n, NEW r
    PROVE  /\ Ready(x, n)' = Ready(x, n) /\ Answered(x, r)' = Answered(x, r)
           /\ PinnedOk' = PinnedOk
<1>1. Ready(x, n)' = Ready(x, n)
  BY Zenon DEF Ready, StageAt, LayerAt, StringsAt, NfcLayer
<1>2. Answered(x, r)' = Answered(x, r)
  BY Zenon DEF Answered, Ready, StageAt, LayerAt, StringsAt, NfcLayer, NextPlace
<1> QED BY Zenon, <1>1, <1>2 DEF PinnedOk

\* The exchange that the client is in.
LEMMA NowFacts ==
    ASSUME TypeOK
    PROVE  /\ Place \in 1 .. 13 /\ (Place = 6 => opts.ssl) /\ Now = Exchanges[Place]
           /\ Now.send \in Seq(Message) /\ Len(Now.send) \in Nat
           /\ Place = 1 <=> Len(Now.send) = 0
           /\ Place = 1 => Now.send = <<>>
           /\ Place >= 10 => Len(Now.send) = 1
           /\ sent \in Nat /\ sent <= Len(Now.send)
<1>1. opts \in Options /\ step \in 1 .. Len(Script) /\ sent \in 0 .. Len(Now.send)
  BY DEF TypeOK
<1>2. Place \in 1 .. 13 /\ (Place = 6 => opts.ssl) /\ Now = Exchanges[Place]
  BY <1>1, PlaceFacts
<1>3. CASE Place = 1
  <2>1. Now.send = <<>>
    BY <1>1, <1>2, <1>3, ExchangeTable
  <2>2. Now.send \in Seq(Message) /\ Len(Now.send) = 0
    BY <2>1
  <2> QED BY <1>1, <1>2, <1>3, <2>1, <2>2
<1>4. CASE Place \in 2 .. 13
  <2>1. /\ Now.send \in Seq(Message)
        /\ Len(Now.send) = IF Place \in {3, 7} THEN 2 ELSE IF Place = 9 THEN 5 ELSE 1
    BY <1>1, <1>2, <1>4, ExchangeTable
  <2>2. Len(Now.send) \in Nat /\ Len(Now.send) # 0 /\ (Place >= 10 => Len(Now.send) = 1)
    BY <1>4, <2>1
  <2> QED BY <1>1, <1>2, <1>4, <2>1, <2>2
<1> QED BY <1>2, <1>3, <1>4

LEMMA GreetPlace ==
    ASSUME NEW x \in 1 .. 13, NEW n, Ready(x, n)
    PROVE  srv.stage = "greet" <=> x = 1
BY DEF Ready, StageAt

LEMMA HandshakeInvInit ==
    Init => HandshakeInv
<1> SUFFICES ASSUME Init
             PROVE  HandshakeInv
  OBVIOUS
<1>1. opts \in Options /\ step = 1 /\ sent = 0 /\ opts.ssl \in BOOLEAN
  BY DEF Init, Options
<1>2. step \in 1 .. Len(Script) /\ Place = 1
  <2>1. Len(Script) = IF opts.ssl THEN 13 ELSE 12
    BY <1>1, ScriptAt
  <2> QED BY <1>1, <2>1 DEF Place, PlaceOf
<1>3. Now = Exchanges[1]
  BY <1>1, <1>2, PlaceFacts
<1>4. Now.send = <<>> /\ Len(Now.send) = 0
  BY <1>1, <1>3, ExchangeTable
<1>5. srv \in Servers
  BY DEF Init, Servers, Layers
<1>6. TypeOK
  <2>1. toServer \in Seq(Message) /\ toClient \in Seq(Message)
    BY DEF Init
  <2>2. pc \in {"run", "open", "raised"} /\ op_id \in Nat /\ sector_size \in Nat
    BY DEF Init
  <2>3. sent \in 0 .. Len(Now.send)
    BY <1>1, <1>4
  <2>4. pc = "run" /\ sector_size = 0
    BY DEF Init
  <2>5. sector_size \in Nat /\ (pc = "open" <=> sector_size > 0)
    BY <2>4
  <2> QED BY <1>1, <1>2, <1>5, <2>1, <2>2, <2>3, <2>4, <2>5 DEF TypeOK, Servers
<1>7. Ready(1, 0)
  BY DEF Init, Ready, StageAt, LayerAt, StringsAt
<1>8. Talk(0, <<>>)
  <2>1. Queue(Now.send, sent, 0, toServer, <<>>)
    BY <1>1, QueueStart DEF Init
  <2> QED BY <1>2, <1>7, <2>1 DEF Init, Talk
<1>9. \E n \in 0 .. sent, pos \in Seq(Nat) : Talk(n, pos)
  <2>1. 0 \in 0 .. sent /\ <<>> \in Seq(Nat)
    BY <1>1
  <2> QED BY <1>8, <2>1
<1> QED BY <1>1, <1>2, <1>6, <1>9 DEF Init, HandshakeInv

LEMMA HandshakeInvSend ==
    HandshakeInv /\ Send => HandshakeInv'
<1> SUFFICES ASSUME HandshakeInv, Send
             PROVE  HandshakeInv'
  OBVIOUS
<1>1. TypeOK /\ Send
  BY DEF HandshakeInv
<1>2. PICK n \in 0 .. sent, pos \in Seq(Nat) : Talk(n, pos)
  BY DEF HandshakeInv
<1>3. /\ opts' = opts /\ step' = step /\ pc' = pc /\ pc = "run" /\ sector_size' = sector_size
      /\ toClient' = toClient /\ srv' = srv /\ sent' = sent + 1 /\ sent < Len(Now.send)
  BY DEF Send
<1>4. Script' = Script /\ Now' = Now /\ Place' = Place
  BY <1>3, Frame
<1>5. /\ Place \in 1 .. 13 /\ Now.send \in Seq(Message) /\ Len(Now.send) \in Nat
      /\ Place = 1 <=> Len(Now.send) = 0
      /\ Place >= 10 => Len(Now.send) = 1
      /\ sent \in Nat /\ Now = Exchanges[Place]
  BY <1>1, NowFacts
<1>6. PICK S : S = Now.send
  OBVIOUS
<1>7. PICK m : m = S[sent + 1]
  OBVIOUS
<1>8. m \in Message /\ sent + 1 \in 1 .. Len(S)
  BY <1>3, <1>5, <1>6, <1>7
<1>9. PICK mm : mm = [m EXCEPT !.op = IF m.kind = "aio" THEN op_id ELSE 0]
  OBVIOUS
<1>10. op_id \in Nat /\ toServer \in Seq(Message) /\ toClient \in Seq(Message)
  BY <1>1 DEF TypeOK
<1>11. mm \in Message /\ Same(mm, m)
  BY <1>8, <1>9, <1>10 DEF Message, Same
<1>12. /\ toServer' = (IF Empty(m) THEN toServer ELSE Append(toServer, mm))
       /\ op_id' = IF m.kind = "aio" THEN op_id + 1 ELSE op_id
  BY <1>1, <1>6, <1>7, <1>9 DEF Send, Empty
<1>13. m.kind = "aio" <=> Place >= 10
  <2>1. opts \in Options
    BY <1>1 DEF TypeOK
  <2>2. m = Exchanges[Place].send[sent + 1] /\ sent + 1 \in 1 .. Len(Exchanges[Place].send)
    BY <1>5, <1>6, <1>7, <1>8
  <2>3. Place \in 2 .. 13
    BY <1>3, <1>5
  <2> QED BY <2>1, <2>2, <2>3, AioKinds
<1>14. toServer' \in Seq(Message)
  BY <1>10, <1>11, <1>12
<1>15. TypeOK'
  <2>1. sent' \in 0 .. Len(Now.send)
    BY <1>3, <1>5
  <2>2. op_id' \in Nat
    BY <1>10, <1>12
  <2> QED BY <1>1, <1>3, <1>4, <1>14, <2>1, <2>2 DEF TypeOK
<1>16. op_id' = (IF Place >= 10 THEN Place - 10 + (sent + 1) ELSE 0)
  <2>1. op_id = IF Place >= 10 THEN Place - 10 + sent ELSE 0
    BY DEF HandshakeInv
  <2> QED BY <1>5, <1>12, <1>13, <2>1
<1>17. \E p \in Seq(Nat) : Queue(S, sent + 1, n, toServer', p)
  <2>1. Queue(S, sent, n, toServer, pos)
    BY <1>2, <1>6 DEF Talk
  <2>2. CASE Empty(m)
    BY <1>5, <1>7, <1>12, <2>1, <2>2, QueueSkip
  <2>3. CASE ~Empty(m)
    <3>1. Queue(S, sent + 1, n, Append(toServer, mm), Append(pos, sent + 1))
      BY <1>5, <1>7, <1>10, <1>11, <2>1, <2>3, QueueSend
    <3>2. Append(pos, sent + 1) \in Seq(Nat)
      BY <1>5
    <3> QED BY <1>12, <2>3, <3>1, <3>2
  <2> QED BY <2>2, <2>3
<1>18. PICK p \in Seq(Nat) : Queue(S, sent + 1, n, toServer', p)
  BY <1>17
<1>19. Ready(Place, n) /\ toClient = <<>> /\ n < Len(Now.send)
  <2>1. n # Len(Now.send)
    BY <1>3, <1>5
  <2>2. Ready(Place, n) /\ toClient = <<>>
    BY <1>2, <1>3, <2>1 DEF Talk
  <2> QED BY <1>3, <1>5, <2>2
<1>20. Ready(Place, n)'
  <2>1. PICK x : x = Place
    OBVIOUS
  <2>2. Ready(x, n)'
    BY <1>3, <1>19, <2>1, ServerFrame
  <2> QED BY <1>4, <2>1, <2>2
<1>21. Talk(n, p)'
  <2>1. Queue(Now.send, sent, n, toServer, p)'
    BY <1>3, <1>4, <1>6, <1>18
  <2>2. (n < Len(Now.send))' /\ (pc # "open")' /\ (toClient = <<>>)'
    BY <1>3, <1>4, <1>19
  <2> QED BY <1>20, <2>1, <2>2 DEF Talk
<1>22. n \in 0 .. sent'
  BY <1>3, <1>5
<1>23. (\E k \in 0 .. sent, q \in Seq(Nat) : Talk(k, q))'
  BY <1>21, <1>22
<1>24. (~srv.confused)' /\ (opts.pinned /\ srv.ticket # "none" => srv.cert = "ticket")'
  BY <1>3 DEF HandshakeInv
<1> QED BY <1>3, <1>4, <1>15, <1>16, <1>23, <1>24 DEF HandshakeInv

LEMMA HandshakeInvFail ==
    HandshakeInv /\ Fail => HandshakeInv'
<1> SUFFICES ASSUME HandshakeInv, Fail
             PROVE  HandshakeInv'
  OBVIOUS
<1>1. PICK n \in 0 .. sent, pos \in Seq(Nat) : Talk(n, pos)
  BY DEF HandshakeInv
<1>2. /\ opts' = opts /\ step' = step /\ pc' = "raised" /\ pc = "run"
      /\ sector_size' = sector_size /\ op_id' = op_id /\ sent' = sent
      /\ toClient' = toClient /\ toServer' = toServer /\ srv' = srv
  BY DEF Fail
<1>3. Script' = Script /\ Now' = Now /\ Place' = Place
  BY <1>2, Frame
<1>4. TypeOK'
  BY <1>2, <1>3 DEF HandshakeInv, TypeOK
<1>5. Ready(Place, n) => Ready(Place, n)'
  <2>1. PICK x : x = Place
    OBVIOUS
  <2>2. Ready(x, n) => Ready(x, n)'
    BY <1>2, ServerFrame
  <2> QED BY <1>3, <2>1, <2>2
<1>6. Talk(n, pos)'
  <2>1. Queue(Now.send, sent, n, toServer, pos)'
    BY <1>1, <1>2, <1>3 DEF Talk
  <2> QED BY <1>1, <1>2, <1>3, <1>5, <2>1 DEF Talk
<1>7. (\E k \in 0 .. sent, q \in Seq(Nat) : Talk(k, q))'
  BY <1>2, <1>6
<1> QED BY <1>2, <1>3, <1>4, <1>7 DEF HandshakeInv

LEMMA HandshakeInvGreet ==
    HandshakeInv /\ Greet => HandshakeInv'
<1> SUFFICES ASSUME HandshakeInv, Greet
             PROVE  HandshakeInv'
  OBVIOUS
<1>1. PICK n \in 0 .. sent, pos \in Seq(Nat) : Talk(n, pos)
  BY DEF HandshakeInv
<1>2. TypeOK /\ ~srv.confused
  BY DEF HandshakeInv
<1>3. /\ opts' = opts /\ step' = step /\ pc' = pc
      /\ sector_size' = sector_size /\ op_id' = op_id /\ sent' = sent
      /\ toServer' = toServer
      /\ srv.stage = "greet" /\ srv' = [srv EXCEPT !.stage = "tls"]
  BY DEF Greet, client
<1>4. Script' = Script /\ Now' = Now /\ Place' = Place
  BY <1>3, Frame
<1>5. /\ Place \in 1 .. 13 /\ (Place = 1 <=> Len(Now.send) = 0)
      /\ sent \in Nat /\ sent <= Len(Now.send)
  BY <1>2, NowFacts
<1>6. Ready(Place, n) /\ pc # "open" /\ (pc = "run" => toClient = <<>>)
  BY <1>1, <1>3 DEF Talk
<1>7. Place = 1 /\ Len(Now.send) = 0 /\ n = 0 /\ sent = 0
  <2>1. Place = 1
    BY <1>3, <1>5, <1>6, GreetPlace
  <2> QED BY <1>5, <2>1
<1>8. PICK name \in {"220", "ERROR"} : toClient' = Append(toClient, Banner(name))
  BY DEF Greet, Reply
<1>9. PICK r : r = Banner(name)
  OBVIOUS
<1>10. r \in Message
  <2>1. name \in Names /\ 0 \in Nat
    BY DEF Names
  <2> QED BY <1>9, <2>1, MessageSorts DEF Is
<1>11. srv \in Servers /\ toClient \in Seq(Message)
  BY <1>2 DEF TypeOK, Servers
<1>12. /\ srv' \in Servers /\ srv'.stage = "tls" /\ srv'.layer = srv.layer
       /\ srv'.strings = srv.strings /\ srv'.ok = srv.ok /\ srv'.ticket = srv.ticket
       /\ srv'.cert = srv.cert /\ srv'.confused = srv.confused
  BY <1>3, <1>11 DEF Servers
<1>13. Ready(1, 0)
  BY <1>6, <1>7
<1>14. Ready(2, 0)'
  BY <1>12, <1>13 DEF Ready, StageAt, LayerAt, StringsAt
<1>15. Answered(1, r)'
  BY <1>14 DEF Answered, NextPlace
<1>16. toClient' \in Seq(Message)
  BY <1>8, <1>9, <1>10, <1>11
<1>17. TypeOK'
  BY <1>2, <1>3, <1>4, <1>12, <1>16 DEF TypeOK, Servers
<1>18. Talk(n, pos)'
  <2>1. Queue(Now.send, sent, n, toServer, pos)'
    BY <1>1, <1>3, <1>4 DEF Talk
  <2>2. pc = "run" => Len(toClient') = 1 /\ toClient'[1] = r
    BY <1>6, <1>8, <1>9
  <2>3. (n = Len(Now.send) /\ srv.stage # "greet")'
    BY <1>4, <1>7, <1>12
  <2>4. (pc = "run" => Len(toClient) = 1 /\ Answered(Place, toClient[1]))'
    <3>1. ASSUME pc = "run"
          PROVE  Answered(Place, toClient[1])'
      <4>1. toClient'[1] = r /\ Place' = 1
        BY <1>4, <1>7, <2>2, <3>1
      <4> QED BY <1>15, <4>1
    <3> QED BY <1>3, <2>2, <3>1
  <2> QED BY <1>3, <1>6, <2>1, <2>3, <2>4 DEF Talk
<1>19. (\E k \in 0 .. sent, q \in Seq(Nat) : Talk(k, q))'
  BY <1>3, <1>18
<1>20. (opts.pinned /\ srv.ticket # "none" => srv.cert = "ticket")'
  BY <1>3, <1>12 DEF HandshakeInv
<1> QED BY <1>2, <1>3, <1>4, <1>6, <1>12, <1>17, <1>19, <1>20 DEF HandshakeInv

\* While the client waits, the server has read all of the exchange, or the
\* reply is not there yet.
LEMMA HandshakeInvReceive ==
    HandshakeInv /\ Receive => HandshakeInv'
<1> SUFFICES ASSUME HandshakeInv, Receive
             PROVE  HandshakeInv'
  OBVIOUS
<1>1. PICK n \in 0 .. sent, pos \in Seq(Nat) : Talk(n, pos)
  BY DEF HandshakeInv
<1>2. TypeOK /\ ~srv.confused /\ op_id = IF Place >= 10 THEN Place - 10 + sent ELSE 0
  BY DEF HandshakeInv
<1>3. /\ opts' = opts /\ op_id' = op_id /\ toServer' = toServer /\ srv' = srv
      /\ pc = "run" /\ sent = Len(Now.send) /\ toClient # <<>> /\ toClient' = Tail(toClient)
  BY DEF Receive
<1>4. /\ Place \in 1 .. 13 /\ Now = Exchanges[Place] /\ Now.send \in Seq(Message)
      /\ (Place >= 10 => Len(Now.send) = 1) /\ sent \in Nat
  BY <1>2, NowFacts
<1>5. opts \in Options /\ step \in 1 .. Len(Script) /\ toServer \in Seq(Message)
      /\ toClient \in Seq(Message) /\ sector_size \in Nat /\ op_id \in Nat
  BY <1>2 DEF TypeOK
<1>6. n = Len(Now.send) /\ srv.stage # "greet" /\ Len(toClient) = 1
      /\ Answered(Place, toClient[1])
  BY <1>1, <1>3 DEF Talk
<1>7. PICK m : m = toClient[1]
  OBVIOUS
<1>8. Head(toClient) = m /\ toClient' = <<>> /\ m \in Message
  BY <1>3, <1>5, <1>6, <1>7
<1>9. toServer = <<>>
  <2>1. Queue(Now.send, sent, n, toServer, pos)
    BY <1>1 DEF Talk
  <2> QED BY <1>3, <1>4, <1>5, <1>6, <2>1, QueueDone
<1>10. Script' = Script
  BY <1>3, ScriptStable
<1>11. PICK x : x = Place
  OBVIOUS
<1>12. ASSUME Accepts(m)
       PROVE  Ready(NextPlace(x), 0)
  <2>1. Exchanges[x].reply.name = ReplyName[x]
    BY <1>4, <1>5, <1>11, ExchangeTable
  <2>2. m.name = ReplyName[x]
    BY <1>4, <1>11, <1>12, <2>1 DEF Accepts
  <2>3. x = 8 => m.arg >= 3
    <3>1. x = 8 => m.name = "VERSION"
      BY <2>2 DEF ReplyName
    <3> QED BY <1>12, <3>1 DEF Accepts
  <2>4. x = 2 /\ opts.pinned => m.arg = 1
    <3>1. x = 2 => step = 2
      BY <1>5, <1>11 DEF Place, PlaceOf
    <3>2. x = 2 => m.kind = "hello"
      <4>1. Exchanges[2].reply = Hello /\ Hello.kind = "hello"
        BY ExchangeTerms DEF Hello, Message0
      <4> QED BY <1>4, <1>11, <1>12, <4>1 DEF Accepts
    <3> QED BY <1>12, <3>1, <3>2 DEF Accepts, CertOk
  <2> QED BY <1>6, <1>7, <1>11, <2>2, <2>3, <2>4 DEF Answered
<1>13. PinnedOk'
  <2>1. PinnedOk
    BY DEF HandshakeInv, PinnedOk
  <2> QED BY <1>3, <2>1, ServerFrame
<1>14. CASE /\ Accepts(m) /\ ~LastExchange
            /\ step' = step + 1 /\ sent' = 0 /\ UNCHANGED <<pc, sector_size>>
  <2>1. /\ step + 1 \in 1 .. Len(Script) /\ PlaceOf(step + 1) = NextPlace(x)
        /\ NextPlace(x) \in 2 .. 13 /\ Script[step + 1] = Exchanges[NextPlace(x)]
    BY <1>5, <1>11, <1>14, PlaceFacts
  <2>2. PICK y \in 2 .. 13 : y = NextPlace(x)
    BY <2>1
  <2>3. Place' = y /\ Now' = Exchanges[y]
    <3>1. Place' = PlaceOf(step + 1)
      BY <1>3, <1>14 DEF Place, PlaceOf
    <3>2. Now' = Script[step + 1]
      BY <1>10, <1>14 DEF Now
    <3> QED BY <2>1, <2>2, <3>1, <3>2
  <2>4. Now'.send \in Seq(Message) /\ Len(Now'.send) \in Nat /\ Len(Now'.send) > 0
    <3>1. /\ Exchanges[y].send \in Seq(Message)
          /\ Len(Exchanges[y].send) = IF y \in {3, 7} THEN 2 ELSE IF y = 9 THEN 5 ELSE 1
      BY <1>5, ExchangeTable
    <3> QED BY <2>3, <3>1
  <2>5. TypeOK'
    <3>1. (sent \in 0 .. Len(Now.send))'
      BY <1>14, <2>4
    <3>2. (step \in 1 .. Len(Script))'
      BY <1>10, <1>14, <2>1
    <3>3. (toServer \in Seq(Message) /\ toClient \in Seq(Message))'
      <4>1. toServer' = <<>> /\ toClient' = <<>>
        BY <1>3, <1>8, <1>9
      <4>2. <<>> \in Seq(Message)
        OBVIOUS
      <4> QED BY <4>1, <4>2
    <3> QED BY <1>2, <1>3, <1>14, <3>1, <3>2, <3>3 DEF TypeOK
  <2>6. Ready(y, 0)'
    <3>1. Ready(y, 0)
      BY <1>12, <1>14, <2>2
    <3> QED BY <1>3, <3>1, ServerFrame
  <2>7. Talk(0, <<>>)'
    <3>1. Queue(Now.send, sent, 0, toServer, <<>>)'
      BY <1>3, <1>9, <1>14, QueueStart
    <3>2. Ready(Place, 0)'
      BY <2>3, <2>6
    <3>3. (0 < Len(Now.send) /\ pc # "open" /\ toClient = <<>>)'
      BY <1>3, <1>8, <1>14, <2>4
    <3> QED BY <3>1, <3>2, <3>3 DEF Talk
  <2>8. (\E k \in 0 .. sent, q \in Seq(Nat) : Talk(k, q))'
    <3>1. 0 \in 0 .. sent' /\ <<>> \in Seq(Nat)
      BY <1>14
    <3> QED BY <2>7, <3>1
  <2>9. (op_id = IF Place >= 10 THEN Place - 10 + sent ELSE 0)'
    <3>1. y = IF x = 5 /\ ~opts.ssl THEN 7 ELSE x + 1
      BY <2>2 DEF NextPlace
    <3>2. (y >= 10 => op_id = y - 10 + 0) /\ (y < 10 => op_id = 0)
      <4>1. op_id = (IF x >= 10 THEN x - 10 + sent ELSE 0) /\ (x >= 10 => sent = 1)
        BY <1>2, <1>3, <1>4, <1>11
      <4>2. x \in 1 .. 13
        BY <1>4, <1>11
      <4>3. CASE x >= 10
        BY <3>1, <4>1, <4>2, <4>3
      <4>4. CASE x < 10
        BY <3>1, <4>1, <4>2, <4>4
      <4> QED BY <4>2, <4>3, <4>4
    <3> QED BY <1>3, <1>14, <2>3, <3>2
  <2>10. (pc # "open")'
    BY <1>3, <1>14
  <2> QED BY <1>2, <1>3, <1>13, <2>5, <2>8, <2>9, <2>10 DEF HandshakeInv, PinnedOk
<1>15. ASSUME step' = step, sent' = sent,
              \/ /\ Accepts(m) /\ LastExchange
                 /\ pc' = "open" /\ sector_size' = SectorSize(m.file)
              \/ pc' = "raised" /\ sector_size' = sector_size
       PROVE  HandshakeInv'
  <2>1. Now' = Now /\ Place' = Place
    BY <1>3, <1>15, Frame
  <2>2. sector_size' \in Nat /\ (pc' = "open" => sector_size' > 0)
    <3>1. m.file.sector \in Nat
      BY <1>8 DEF Message, FileReply
    <3>2. SectorSize(m.file) \in Nat /\ SectorSize(m.file) > 0
      BY <3>1, HandshakeConstants DEF SectorSize
    <3> QED BY <1>5, <1>15, <3>2
  <2>3. TypeOK'
    <3>1. (toServer \in Seq(Message) /\ toClient \in Seq(Message))'
      <4>1. toServer' = <<>> /\ toClient' = <<>>
        BY <1>3, <1>8, <1>9
      <4>2. <<>> \in Seq(Message)
        OBVIOUS
      <4> QED BY <4>1, <4>2
    <3>2. pc' \in {"run", "open", "raised"}
      BY <1>15
    <3> QED BY <1>2, <1>3, <1>10, <1>15, <2>1, <2>2, <3>1, <3>2 DEF TypeOK
  <2>4. pc' = "open" => Place = 13 /\ sent = 1 /\ Ready(14, 0)'
    <3>1. ASSUME pc' = "open"
          PROVE  Place = 13 /\ sent = 1 /\ Ready(14, 0)'
      <4>1. Accepts(m) /\ LastExchange
        BY <1>15, <3>1
      <4>2. Place = 13
        BY <1>5, <4>1, PlaceFacts
      <4>3. sent = 1
        BY <1>3, <1>4, <4>2
      <4>4. Ready(14, 0)
        <5>1. NextPlace(x) = 14
          BY <1>11, <4>2 DEF NextPlace
        <5> QED BY <1>12, <4>1, <5>1
      <4> QED BY <1>3, <4>2, <4>3, <4>4, ServerFrame
    <3> QED BY <3>1
  <2>5. Talk(n, pos)'
    <3>1. Queue(Now.send, sent, n, toServer, pos)'
      <4>1. Queue(Now.send, sent, n, toServer, pos)
        BY <1>1 DEF Talk
      <4> QED BY <1>3, <1>15, <2>1, <4>1
    <3>2. (n = Len(Now.send) /\ srv.stage # "greet")'
      BY <1>3, <1>6, <2>1
    <3>3. (pc # "run")'
      BY <1>15
    <3>4. (pc = "open" => Place = 13 /\ toClient = <<>> /\ Ready(14, 0))'
      BY <1>8, <2>1, <2>4
    <3> QED BY <3>1, <3>2, <3>3, <3>4 DEF Talk
  <2>6. (\E k \in 0 .. sent, q \in Seq(Nat) : Talk(k, q))'
    BY <1>15, <2>5
  <2> QED BY <1>2, <1>3, <1>13, <1>15, <2>1, <2>2, <2>3, <2>4, <2>6 DEF HandshakeInv, PinnedOk
<1> QED BY <1>8, <1>14, <1>15 DEF Receive

LEMMA HandshakeInvServe ==
    HandshakeInv /\ Serve => HandshakeInv'
<1> SUFFICES ASSUME HandshakeInv, Serve
             PROVE  HandshakeInv'
  OBVIOUS
<1>1. PICK n \in 0 .. sent, pos \in Seq(Nat) : Talk(n, pos)
  BY DEF HandshakeInv
<1>2. TypeOK /\ ~srv.confused
  BY DEF HandshakeInv
<1>3. /\ opts' = opts /\ step' = step /\ pc' = pc /\ sent' = sent /\ op_id' = op_id
      /\ sector_size' = sector_size
      /\ toServer # <<>> /\ srv.stage # "greet" /\ toServer' = Tail(toServer)
  BY DEF Serve, client
<1>4. Script' = Script /\ Now' = Now /\ Place' = Place
  BY <1>3, Frame
<1>5. /\ Place \in 1 .. 13 /\ (Place = 6 => opts.ssl) /\ Now = Exchanges[Place]
      /\ Len(Now.send) \in Nat /\ (Place = 1 => Len(Now.send) = 0)
      /\ sent \in Nat /\ sent <= Len(Now.send)
  BY <1>2, NowFacts
<1>6. /\ opts \in Options /\ toServer \in Seq(Message) /\ toClient \in Seq(Message)
      /\ srv \in Servers
  BY <1>2 DEF TypeOK, Servers
<1>7. PICK S, x : S = Now.send /\ x = Place
  OBVIOUS
<1>8. PICK m : m = Head(toServer)
  OBVIOUS
<1>9. PICK j \in n + 1 .. sent, p \in Seq(Nat) :
         /\ Same(m, S[j]) /\ ~Empty(S[j])
         /\ \A k \in n + 1 .. j - 1 : Empty(S[k])
         /\ Queue(S, sent, j, Tail(toServer), p)
  <2>1. Queue(S, sent, n, toServer, pos)
    BY <1>1, <1>7 DEF Talk
  <2> QED BY <1>3, <1>5, <1>6, <1>8, <2>1, QueueServe
<1>10. x \in 2 .. 13 /\ j \in Nat /\ j \in n + 1 .. Len(S) /\ S = Exchanges[x].send /\ n \in Nat
  BY <1>5, <1>7
<1>11. n < Len(Now.send)
  BY <1>7, <1>10
<1>12. Ready(x, n) /\ pc # "open" /\ (pc = "run" => toClient = <<>>)
  BY <1>1, <1>3, <1>5, <1>7, <1>11 DEF Talk
<1>13. Before(x, j - 1)
  <2>1. Ready(x, j - 1)
    BY <1>6, <1>9, <1>10, <1>12, ReadySkip
  <2>2. ServerOk
    BY <1>6 DEF HandshakeInv, ServerOk, PinnedOk
  <2> QED BY <1>3, <1>5, <1>6, <1>7, <1>10, <2>1, <2>2 DEF Before
<1>14. Read(m)
  BY <1>8 DEF Serve, Read
<1>15. /\ ServerOk'
       /\ j < Len(S) => Ready(x, j)' /\ toClient' = toClient
       /\ j = Len(S) => srv'.stage # "greet" /\ Replied(x)
  <2>1. j \in 1 .. Len(S)
    BY <1>10
  <2> QED BY <1>9, <1>10, <1>13, <1>14, <2>1, ReadAny
<1>16. j \in 0 .. sent' /\ j <= Len(S)
  BY <1>3, <1>10
<1>17. toServer' \in Seq(Message)
  BY <1>3, <1>6
<1>18. Queue(Now.send, sent, j, toServer, p)'
  BY <1>3, <1>4, <1>7, <1>9
<1>19. CASE j < Len(S)
  <2>1. Ready(Place, j)'
    BY <1>4, <1>7, <1>15, <1>19
  <2>2. Talk(j, p)'
    BY <1>3, <1>4, <1>7, <1>12, <1>15, <1>18, <1>19, <2>1 DEF Talk
  <2>3. (\E k \in 0 .. sent, q \in Seq(Nat) : Talk(k, q))'
    BY <1>16, <2>2
  <2>4. srv' \in Servers /\ toClient' \in Seq(Message)
    BY <1>6, <1>15, <1>19 DEF ServerOk
  <2>5. TypeOK'
    BY <1>2, <1>3, <1>4, <1>17, <2>4 DEF TypeOK, Servers
  <2> QED BY <1>3, <1>4, <1>12, <1>15, <2>3, <2>5 DEF HandshakeInv, ServerOk, PinnedOk
<1>20. CASE j = Len(S)
  <2>1. PICK r \in Message : toClient' = Append(toClient, r) /\ Answered(x, r)'
    BY <1>15, <1>20 DEF Replied
  <2>2. pc = "run" => Len(toClient') = 1 /\ toClient'[1] = r
    BY <1>12, <2>1
  <2>3. (pc = "run" => Len(toClient) = 1 /\ Answered(Place, toClient[1]))'
    <3>1. ASSUME pc = "run"
          PROVE  Answered(Place, toClient[1])'
      <4>1. toClient'[1] = r /\ Place' = x
        BY <1>4, <1>7, <2>2, <3>1
      <4> QED BY <2>1, <4>1
    <3> QED BY <1>3, <2>2, <3>1
  <2>4. (j = Len(Now.send) /\ srv.stage # "greet" /\ pc # "open")'
    BY <1>3, <1>4, <1>7, <1>12, <1>15, <1>20
  <2>5. Talk(j, p)'
    BY <1>18, <2>3, <2>4 DEF Talk
  <2>6. (\E k \in 0 .. sent, q \in Seq(Nat) : Talk(k, q))'
    BY <1>16, <2>5
  <2>7. srv' \in Servers /\ toClient' \in Seq(Message)
    BY <1>6, <1>15, <2>1 DEF ServerOk
  <2>8. TypeOK'
    BY <1>2, <1>3, <1>4, <1>17, <2>7 DEF TypeOK, Servers
  <2> QED BY <1>3, <1>4, <1>12, <1>15, <2>6, <2>8 DEF HandshakeInv, ServerOk, PinnedOk
<1> QED BY <1>10, <1>16, <1>19, <1>20

LEMMA HandshakeInvAlways ==
    Spec => []HandshakeInv
<1>1. HandshakeInv /\ [Next]_vars => HandshakeInv'
  <2>1. ASSUME HandshakeInv, UNCHANGED vars
        PROVE  HandshakeInv'
    <3>1. /\ opts' = opts /\ step' = step /\ pc' = pc /\ sent' = sent /\ op_id' = op_id
          /\ sector_size' = sector_size /\ toServer' = toServer /\ toClient' = toClient
          /\ srv' = srv
      BY <2>1 DEF vars, client
    <3>2. Script' = Script /\ Now' = Now /\ Place' = Place
      BY <3>1, Frame
    <3>3. ASSUME NEW n, NEW pos, Talk(n, pos)
          PROVE  Talk(n, pos)'
      <4>1. PICK x : x = Place
        OBVIOUS
      <4>2. /\ Ready(x, n) => Ready(x, n)'
            /\ Ready(14, 0) => Ready(14, 0)'
            /\ \A r : Answered(x, r) => Answered(x, r)'
        BY <3>1, ServerFrame
      <4>3. /\ Ready(Place, n) => Ready(Place, n)'
            /\ Answered(Place, toClient[1]) => Answered(Place, toClient[1])'
        BY <3>1, <3>2, <4>1, <4>2
      <4>4. Queue(Now.send, sent, n, toServer, pos)'
        BY <3>1, <3>2, <3>3 DEF Talk
      <4>5. CASE /\ n < Len(Now.send) \/ srv.stage = "greet"
                 /\ Ready(Place, n) /\ pc # "open" /\ (pc = "run" => toClient = <<>>)
        BY Zenon, <3>1, <3>2, <4>3, <4>4, <4>5 DEF Talk
      <4>6. CASE /\ n = Len(Now.send) /\ srv.stage # "greet"
                 /\ pc = "run" => Len(toClient) = 1 /\ Answered(Place, toClient[1])
                 /\ pc = "open" => Place = 13 /\ toClient = <<>> /\ Ready(14, 0)
        <5>1. (n = Len(Now.send) /\ srv.stage # "greet")'
          BY <3>1, <3>2, <4>6
        <5>2. (pc = "run" => Len(toClient) = 1 /\ Answered(Place, toClient[1]))'
          BY <3>1, <4>3, <4>6
        <5>3. (pc = "open" => Place = 13 /\ toClient = <<>> /\ Ready(14, 0))'
          BY <3>1, <3>2, <4>2, <4>6
        <5> QED BY <4>4, <5>1, <5>2, <5>3 DEF Talk
      <4> QED BY <3>3, <4>5, <4>6 DEF Talk
    <3>4. TypeOK'
      BY <2>1, <3>1, <3>2 DEF HandshakeInv, TypeOK
    <3> QED BY <2>1, <3>1, <3>2, <3>3, <3>4 DEF HandshakeInv
  <2> QED BY <2>1, HandshakeInvSend, HandshakeInvReceive, HandshakeInvFail,
             HandshakeInvGreet, HandshakeInvServe DEF Next
<1> QED BY <1>1, HandshakeInvInit, PTL DEF Spec
-----------------------------------------------------------------------------
(* Theorems.                                                               *)

\* Every step of connect_authd and open_disk, and of a server that answers
\* them, keeps the types of the conversation; in particular an open disk, and
\* no other, has a sector size above zero, whatever sizes servers send.
THEOREM HandshakeTypeOK ==
    Spec => []TypeOK
<1>1. HandshakeInv => TypeOK
  BY DEF HandshakeInv
<1> QED BY <1>1, HandshakeInvAlways, PTL

\* The client waits for a reply only when the server owes one, and sends
\* nothing that the server cannot read: with names of any length, empty ones
\* included, over plain TCP or the second TLS session.
THEOREM AlwaysConversing ==
    Spec => []Conversing
<1>1. HandshakeInv => Conversing
  <2> SUFFICES ASSUME HandshakeInv
               PROVE  Conversing
    OBVIOUS
  <2>1. PICK n \in 0 .. sent, pos \in Seq(Nat) : Talk(n, pos)
    BY DEF HandshakeInv
  <2>2. TypeOK /\ ~srv.confused
    BY DEF HandshakeInv
  <2>3. /\ Place \in 1 .. 13 /\ Now = Exchanges[Place] /\ Len(Now.send) \in Nat
        /\ (Place = 1 => Len(Now.send) = 0)
    BY <2>2, NowFacts
  <2>4. opts \in Options /\ toServer \in Seq(Message) /\ toClient \in Seq(Message)
    BY <2>2 DEF TypeOK
  <2>5. ASSUME pc = "run", sent = Len(Now.send), srv.stage # "greet", toClient = <<>>
        PROVE  toServer # <<>>
    <3>1. n < Len(Now.send)
      BY <2>1, <2>5 DEF Talk
    <3>2. Place \in 2 .. 13
      BY <2>3, <3>1
    <3>3. ~Empty(Now.send[Len(Now.send)])
      BY <2>3, <2>4, <3>2, LastNotEmpty
    <3>4. sent \in 1 .. sent /\ n < sent
      BY <2>3, <2>5, <3>1
    <3>5. \E i \in 1 .. Len(pos) : pos[i] = sent
      BY <2>1, <2>5, <3>3, <3>4 DEF Talk, Queue
    <3>6. Len(pos) = Len(toServer)
      BY <2>1 DEF Talk, Queue
    <3> QED BY <3>5, <3>6
  <2> QED BY <2>2, <2>5 DEF Conversing
<1> QED BY <1>1, HandshakeInvAlways, PTL

\* open_disk returns with all replies taken, none to come, four operation
\* ids used and a sector size that is not zero.
THEOREM AlwaysOpensInStep ==
    Spec => []OpensInStep
<1>1. HandshakeInv => OpensInStep
  <2> SUFFICES ASSUME HandshakeInv, pc = "open"
               PROVE  /\ toServer = <<>> /\ toClient = <<>> /\ srv.strings = 0
                      /\ op_id = 4 /\ srv.stage = "aio" /\ srv.layer = NfcLayer
                      /\ sector_size > 0
    BY DEF OpensInStep
  <2>1. PICK n \in 0 .. sent, pos \in Seq(Nat) : Talk(n, pos)
    BY DEF HandshakeInv
  <2>2. /\ TypeOK /\ sent = 1 /\ sector_size > 0
        /\ op_id = IF Place >= 10 THEN Place - 10 + sent ELSE 0
    BY DEF HandshakeInv, TypeOK
  <2>3. Len(Now.send) \in Nat /\ sent <= Len(Now.send) /\ (Place >= 10 => Len(Now.send) = 1)
    BY <2>2, NowFacts
  <2>4. /\ Queue(Now.send, sent, n, toServer, pos) /\ n = Len(Now.send)
        /\ Place = 13 /\ toClient = <<>> /\ Ready(14, 0)
    BY <2>1 DEF Talk
  <2>5. n = sent /\ sent \in Nat
    BY <2>2, <2>3, <2>4
  <2>6. toServer = <<>>
    <3>1. toServer \in Seq(Message)
      BY <2>2 DEF TypeOK
    <3> QED BY <2>4, <2>5, <3>1, QueueDone
  <2>7. op_id = 4
    BY <2>2, <2>4
  <2>8. srv.strings = 0 /\ srv.stage = "aio" /\ srv.layer = NfcLayer
    BY <2>4 DEF Ready, StageAt, LayerAt, StringsAt
  <2> QED BY <2>2, <2>4, <2>6, <2>7, <2>8
<1> QED BY <1>1, HandshakeInvAlways, PTL

\* A disk is open only if the server agreed to every step, with the caller's
\* options; authd's certificate is checked before the ticket is shown.
THEOREM OpenAlwaysJustified ==
    Spec => []OpenJustified
<1>1. HandshakeInv => OpenJustified
  <2> SUFFICES ASSUME HandshakeInv
               PROVE  OpenJustified
    OBVIOUS
  <2>1. PICK n \in 0 .. sent, pos \in Seq(Nat) : Talk(n, pos)
    BY DEF HandshakeInv
  <2>2. ASSUME pc = "open"
        PROVE  /\ srv.ok /\ srv.ticket = "valid" /\ srv.version >= 3
               /\ srv.buf = AioBufferSize /\ srv.ro = (IF opts.ro THEN 1 ELSE 0)
    <3>1. Ready(14, 0)
      BY <2>1, <2>2 DEF Talk
    <3> QED BY <3>1 DEF Ready
  <2>3. opts.pinned /\ srv.ticket # "none" => srv.cert = "ticket"
    BY DEF HandshakeInv
  <2> QED BY <2>2, <2>3 DEF OpenJustified
<1> QED BY <1>1, HandshakeInvAlways, PTL
=============================================================================
