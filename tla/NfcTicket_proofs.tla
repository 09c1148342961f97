-------------------------- MODULE NfcTicket_proofs --------------------------
(***************************************************************************)
(* Three things about logins and tickets in any number of threads: that    *)
(* the NFC types are registered soundly, without a lock; that the password *)
(* goes only to a peer the caller accepts, although the certificate is     *)
(* checked on one connection and the login made on another; and that the   *)
(* device key a ticket is asked for is that of the disk with the VMDK,     *)
(* although the configuration that was searched may be old by then.        *)
(***************************************************************************)
EXTENDS NfcTicket, SequenceTheorems, TLAPS

\* The actions that change neither the types nor the login.
VmStep ==
    \/ \E i \in DOMAIN vm.devices : Snapshot(i) \/ DeleteSnapshot(i) \/ Detach(i)
    \/ \E h \in Hosts : Migrate(h)
CallStep(t) ==
    \/ FetchConfig(t) \/ Walk(t) \/ TakeHost(t) \/ FetchHost(t)
    \/ Issue(t) \/ Refuse(t) \/ Leave(t)

LEMMA Elsewhere ==
    VmStep \/ (\E t \in Threads : CallStep(t))
        => UNCHANGED loginVars /\ UNCHANGED typesVars
BY DEF VmStep, CallStep, FetchConfig, Walk, TakeHost, FetchHost, Issue, Refuse,
       Leave, Snapshot, DeleteSnapshot, SetChain, Detach, Migrate
-----------------------------------------------------------------------------
(* The types.                                                              *)

TypesInv == Types!TypesTypeOK /\ RegistrationSound

LEMMA TypesInvInit == Init => TypesInv
BY DEF Init, TypesInv, RegistrationSound, Types!TypesInit, Types!TypesTypeOK,
       Types!RegistrationSound, Types!Lines

\* The type once registered stays so, and a thread reaches "mark", "get" or
\* "service" only where it has found the type, or the flag that says so.
LEMMA TypesInvStep ==
    ASSUME TypesInv, NEW t \in Threads, Types!EnterService(t) \/ Types!TypesStep(t)
    PROVE  TypesInv'
<1> USE DEF TypesInv, RegistrationSound, Types!TypesTypeOK, Types!RegistrationSound,
            Types!Lines, Types!At, Types!Goto
<1>1. CASE Types!EnterService(t)
  BY <1>1 DEF Types!EnterService
<1>2. CASE Types!CheckFlag(t)
  BY <1>2 DEF Types!CheckFlag
<1>3. CASE Types!Lookup(t)
  BY <1>3 DEF Types!Lookup
<1>4. CASE Types!Create(t)
  BY <1>4 DEF Types!Create
<1>5. CASE Types!CreateReturns(t)
  BY <1>5 DEF Types!CreateReturns
<1>6. CASE Types!CreateRaises(t)
  BY <1>6 DEF Types!CreateRaises
<1>7. CASE Types!Mark(t)
  BY <1>7 DEF Types!Mark
<1>8. CASE Types!GetType(t)
  BY <1>8 DEF Types!GetType
<1> QED
  BY <1>1, <1>2, <1>3, <1>4, <1>5, <1>6, <1>7, <1>8 DEF Types!TypesStep

LEMMA TypesInvUnchanged == TypesInv /\ UNCHANGED typesVars => TypesInv'
BY DEF TypesInv, typesVars, RegistrationSound, Types!TypesTypeOK,
       Types!RegistrationSound

LEMMA TypesInvNext == TypesInv /\ [Next]_vars => TypesInv'
<1> SUFFICES ASSUME TypesInv, [Next]_vars PROVE TypesInv'
  OBVIOUS
<1>1. ASSUME NEW t \in Threads, NEW r \in Requests, GetNfcTicket(t, r)
      PROVE  TypesInv'
  BY <1>1, TypesInvStep DEF GetNfcTicket
<1>2. ASSUME NEW t \in Threads, Service(t) PROVE TypesInv'
  BY <1>2, TypesInvStep DEF Service
<1>3. CASE UNCHANGED typesVars
  BY <1>3, TypesInvUnchanged
<1>4. CASE UNCHANGED vars
  BY <1>4, TypesInvUnchanged DEF vars
<1> QED
  BY <1>1, <1>2, <1>3, <1>4, Elsewhere DEF Next, VmStep, CallStep

\* Whoever reads _NFC_TYPES_REGISTERED as set, or is past _register_nfc_types,
\* finds vim.NfcService: for any set of threads and whatever else happens.
THEOREM RegistrationAlwaysSound == Spec => []RegistrationSound
<1>1. TypesInv => RegistrationSound
  BY DEF TypesInv
<1> QED
  BY <1>1, TypesInvInit, TypesInvNext, PTL DEF Spec
-----------------------------------------------------------------------------
(* The login.                                                              *)

\* LoginAsAsked says nothing of the connection before the last: a thread that
\* is about to log in has agreed on an 8.x version.
LoginInv ==
    /\ LoginTypeOK /\ LoginAsAsked
    /\ \A t \in Threads : login[t].st = "login" => login[t].version.major = 8

LEMMA LoginInvInit == Init => LoginInv
BY DEF Init, LoginInit, NoLogin, NoThumbprint, NoVersion, Version, LoginInv,
       LoginTypeOK, LoginAsAsked

LEMMA LoginInvUnchanged == LoginInv /\ UNCHANGED loginVars => LoginInv'
BY DEF LoginInv, loginVars, LoginTypeOK, LoginAsAsked

\* A thread's new login record is good by itself.
Good(l) ==
    /\ l \in [st : {"out", "pin", "discover", "login", "in", "session", "mismatch",
                    "raised"},
              thumbprint : Thumbprint \cup {NoThumbprint}, untrusted : BOOLEAN,
              peer : Certs \cup {"none"}, version : Version]
    /\ l.st = "in" =>
          /\ l.thumbprint # NoThumbprint => l.peer = l.thumbprint.digest
          /\ l.thumbprint = NoThumbprint /\ ~l.untrusted => l.peer \in CaStore
          /\ l.version.major = 8
    /\ l.st = "mismatch" => l.peer # l.thumbprint.digest
    /\ l.st = "login" => l.version.major = 8

LEMMA LoginInvSet ==
    ASSUME LoginInv, NEW t \in Threads, NEW l, Good(l), SetLogin(t, l), UNCHANGED cert
    PROVE  LoginInv'
BY DEF LoginInv, LoginTypeOK, LoginAsAsked, Good, SetLogin

\* No login, whichever way it is labelled, is good.
LEMMA NoLoginType ==
    NoLogin \in [st : {"out"}, thumbprint : {NoThumbprint}, untrusted : BOOLEAN,
                peer : {"none"}, version : Version]
BY DEF NoLogin, NoVersion, Version

LEMMA NoLoginGood ==
    ASSUME NEW s \in {"raised", "session"} PROVE Good([NoLogin EXCEPT !.st = s])
BY NoLoginType DEF Good

\* Notation apart, a thumbprint is the digest: a mismatch is one of digests.
LEMMA SameDigest ==
    ASSUME NEW c \in Certs, NEW p \in Thumbprint \cup {NoThumbprint}, p.digest = c
    PROVE  normalize_thumbprint(format_thumbprint(c)) = normalize_thumbprint(p)
BY DEF normalize_thumbprint, format_thumbprint

LEMMA LoginInvStep ==
    ASSUME LoginInv, NEW t \in Threads, LoginStep(t) PROVE LoginInv'
<1> DEFINE l == login[t]
<1>0. cert \in Certs /\ Good(l) /\ l \in [st : {"out", "pin", "discover", "login",
         "in", "session", "mismatch", "raised"},
         thumbprint : Thumbprint \cup {NoThumbprint}, untrusted : BOOLEAN,
         peer : Certs \cup {"none"}, version : Version]
  BY DEF LoginInv, LoginTypeOK, LoginAsAsked, Good
<1>1. ASSUME NEW p \in Thumbprints, NEW u \in BOOLEAN, StartLogin(t, p, u)
      PROVE  LoginInv'
  <2> DEFINE k == [NoLogin EXCEPT
          !.st = IF p # NoThumbprint /\ ~u THEN "pin" ELSE "discover",
          !.thumbprint = p, !.untrusted = u]
  <2>1. Good(k)
    BY LoginConstants, NoLoginType DEF Good
  <2> QED
    BY <1>1, <2>1, LoginInvSet DEF StartLogin
<1>2. CASE PinCheck(t)
  <2> DEFINE same == normalize_thumbprint(get_ssl_cert_thumbprint)
                         = normalize_thumbprint(l.thumbprint)
             k == [l EXCEPT !.st = IF same THEN "discover" ELSE "mismatch",
                            !.peer = cert]
  <2>1. ~same => cert # l.thumbprint.digest
    BY <1>0, SameDigest DEF get_ssl_cert_thumbprint
  <2>2. Good(k)
    <3> HIDE DEF same
    <3> QED BY <1>0, <2>1 DEF Good
  <2> QED
    BY <1>2, <2>2, LoginInvSet DEF PinCheck
<1>3. ASSUME NEW served, Discover(t, served) PROVE LoginInv'
  <2>1. CASE SetLogin(t, [NoLogin EXCEPT !.st = "raised"])
    BY <1>3, <2>1, NoLoginGood, LoginInvSet DEF Discover
  <2>2. ASSUME NEW i \in preferred_api_versions,
               SetLogin(t, [l EXCEPT !.st = "login", !.version = ApiVersions[i]])
        PROVE  LoginInv'
    <3>1. ApiVersions[i] \in Version /\ ApiVersions[i].major = 8
      BY LoginConstants DEF preferred_api_versions
    <3>2. Good([l EXCEPT !.st = "login", !.version = ApiVersions[i]])
      BY <1>0, <3>1 DEF Good
    <3> QED
      BY <1>3, <2>2, <3>2, LoginInvSet DEF Discover
  <2> QED
    BY <1>3, <2>1, <2>2 DEF Discover
<1>4. CASE Login(t)
  <2>1. CASE LoginAccepts(l, cert)
    <3> DEFINE k == [l EXCEPT !.st = "in", !.peer = cert]
    <3>1. l.thumbprint = NoThumbprint /\ ~l.untrusted => cert \in CaStore
      BY <2>1 DEF LoginAccepts, ssl_client_context, skip_ca
    <3>2. Good(k)
      BY <1>0, <1>4, <2>1, <3>1 DEF Good, LoginAccepts, Login, LoginAt
    <3> QED
      BY <1>4, <2>1, <3>2, LoginInvSet DEF Login
  <2>2. CASE ~LoginAccepts(l, cert)
    BY <1>4, <2>2, NoLoginGood, LoginInvSet DEF Login
  <2> QED
    BY <2>1, <2>2
<1>5. CASE LoginFails(t)
  BY <1>5, NoLoginGood, LoginInvSet DEF LoginFails
<1> QED
  BY <1>1, <1>2, <1>3, <1>4, <1>5 DEF LoginStep

LEMMA LoginInvNext == LoginInv /\ [Next]_vars => LoginInv'
<1> SUFFICES ASSUME LoginInv, [Next]_vars PROVE LoginInv'
  OBVIOUS
<1>1. ASSUME NEW t \in Threads, LoginStep(t) PROVE LoginInv'
  BY <1>1, LoginInvStep
<1>2. ASSUME NEW t \in Threads, NEW r \in Requests, GetNfcTicket(t, r)
      PROVE  LoginInv'
  BY <1>2, NoLoginGood, LoginInvSet DEF GetNfcTicket
<1>3. ASSUME NEW c \in Certs, OtherCert(c) PROVE LoginInv'
  BY <1>3 DEF OtherCert, LoginInv, LoginTypeOK, LoginAsAsked
<1>4. CASE UNCHANGED loginVars
  BY <1>4, LoginInvUnchanged
<1>5. ASSUME NEW t \in Threads, Service(t) PROVE LoginInv'
  BY <1>5, <1>4 DEF Service
<1>6. CASE UNCHANGED vars
  BY <1>6, <1>4 DEF vars
<1> QED
  BY <1>1, <1>2, <1>3, <1>4, <1>5, <1>6, Elsewhere DEF Next, VmStep, CallStep

\* However the certificate presented changes between pin check, version
\* discovery and login, whoever is logged in sent the password to the peer
\* that connect_vim was asked for, and speaks an 8.x API.
THEOREM LoginAlwaysAsAsked == Spec => []LoginAsAsked
<1>1. LoginInv => LoginAsAsked
  BY DEF LoginInv
<1> QED
  BY <1>1, LoginInvInit, LoginInvNext, PTL DEF Spec
-----------------------------------------------------------------------------
(* The device key.                                                         *)

\* A device as it was when the threads started, but for snapshots: the same key
\* and, if it is a disk, a chain of files of the same disk down to its base.
VariantOf(d, o) ==
    /\ d.key = o.key /\ d.disk = o.disk
    /\ d.disk =>
          /\ d.chain # <<>> /\ d.chain[Len(d.chain)] = o.chain[Len(o.chain)]
          /\ \A j \in 1 .. Len(d.chain) : d.chain[j].disk = o.chain[Len(o.chain)].disk
Variants(q) ==
    \A k \in 1 .. Len(q) :
        \E o \in 1 .. Len(InitialDevices) : VariantOf(q[k], InitialDevices[o])

CallStates == {"idle", "service", "config", "walk", "host", "soap", "ticket", "raised",
               "ValueError"}
CallRecord ==
    [st : CallStates, req : Requests \cup {NoRequest}, devices : Seq(Device),
     i : Nat \ {0}, j : Nat \ {0}, key : Nat, host : Hosts \cup {NoHost},
     method : {"", "GetVmFiles", "RandomAccessOpenReadonly", "RandomAccessOpen"}]

\* How far the loops of _virtual_disk_key have come without finding the path.
Searched(c) ==
    /\ \A k \in 1 .. Len(c.devices) : k < c.i => ~Holds(c.devices[k], c.req.path)
    /\ c.i <= Len(c.devices) =>
          \A l \in 1 .. Len(c.devices[c.i].chain) :
              l < c.j => c.devices[c.i].chain[l] # c.req.path

Found(c) ==
    \E k \in 1 .. Len(c.devices) :
        c.devices[k].key = c.key /\ Holds(c.devices[k], c.req.path)

GoodCall(c) ==
    /\ c \in CallRecord /\ c.i <= Len(c.devices) + 1
    /\ Variants(c.devices)
    /\ c.st \in {"service", "config"} => c.i = 1 /\ c.j = 1
    /\ c.st = "host" => c.key # NoKey
    /\ c.st = "walk" => Searched(c)
    /\ c.req.key = NoKey /\ c.req.path # NoPath =>
          /\ c.st \in {"host", "soap", "ticket"} => Found(c)
          /\ c.st = "ValueError" =>
                \A k \in 1 .. Len(c.devices) : ~Holds(c.devices[k], c.req.path)

InService == Types!Lines \ {"out", "service", "raised"}

KeyInv ==
    /\ vm \in [devices : Seq(Device), host : Hosts] /\ Variants(vm.devices)
    /\ call \in [Threads -> CallRecord]
    /\ \A t \in Threads : GoodCall(call[t])
    /\ \A t \in Threads : call[t].st = "service" <=> reg[t] \in InService

LEMMA InitialVariants == InitialDevices \in Seq(Device) /\ Variants(InitialDevices)
<1>1. InitialDevices \in Seq(Device)
  BY TicketConstants
<1>2. ASSUME NEW k \in 1 .. Len(InitialDevices)
      PROVE  VariantOf(InitialDevices[k], InitialDevices[k])
  <2>1. k \in DOMAIN InitialDevices /\ InitialDevices[k].chain \in Seq(VMDK)
    <3>1. k \in DOMAIN InitialDevices /\ InitialDevices[k] \in Device
      BY <1>1
    <3> QED BY <3>1 DEF Device
  <2>2. DOMAIN InitialDevices[k].chain = 1 .. Len(InitialDevices[k].chain)
    BY <2>1
  <2> QED BY <2>1, <2>2, DeviceConstants DEF VariantOf
<1> QED BY <1>1, <1>2 DEF Variants

LEMMA NoCallType ==
    /\ NoCall \in CallRecord /\ NoCall.devices = <<>> /\ NoCall.i = 1 /\ NoCall.j = 1
    /\ NoCall.req = NoRequest /\ NoRequest.path = NoPath
<1>1. <<>> \in Seq(Device)
  OBVIOUS
<1> QED BY <1>1 DEF NoCall, CallRecord, CallStates, NoRequest, NoKey, NoHost

LEMMA NoCallGood ==
    LET c == [NoCall EXCEPT !.st = "raised"] IN
    /\ GoodCall(c) /\ c.st = "raised"
    /\ GoodCall(NoCall) /\ NoCall.st = "idle" /\ NoCall \in CallRecord
<1> DEFINE c == [NoCall EXCEPT !.st = "raised"]
<1>1. /\ c \in CallRecord /\ c.devices = <<>> /\ c.i = 1 /\ c.req = NoRequest
      /\ c.st = "raised"
  BY NoCallType DEF CallRecord, CallStates
<1> HIDE DEF c
<1>2. Len(c.devices) = 0
  BY <1>1
<1>3. Variants(c.devices)
  BY <1>2 DEF Variants
<1>4. GoodCall(c)
  BY <1>1, <1>2, <1>3, NoCallType DEF GoodCall
<1>5. NoCall.st = "idle" /\ NoCall \in CallRecord
  BY NoCallType DEF NoCall
<1>6. GoodCall(NoCall)
  <2>1. Variants(NoCall.devices) /\ Len(NoCall.devices) = 0
    BY NoCallType DEF Variants
  <2> QED BY <1>5, <2>1, NoCallType DEF GoodCall
<1> QED BY <1>1, <1>4, <1>5, <1>6 DEF c

LEMMA KeyInvInit == Init => KeyInv
<1> SUFFICES ASSUME Init PROVE KeyInv
  OBVIOUS
<1>1. /\ vm \in [devices : Seq(Device), host : Hosts] /\ vm.devices = InitialDevices
  BY InitialVariants DEF Init
<1>2. /\ call = [t \in Threads |-> NoCall] /\ \A t \in Threads : reg[t] = "out"
  BY DEF Init, Types!TypesInit
<1> QED BY <1>1, <1>2, NoCallGood, InitialVariants DEF KeyInv, InService

\* A thread's call goes on.
LEMMA KeyInvSet ==
    ASSUME KeyInv, NEW t \in Threads, NEW c, GoodCall(c), SetCall(t, c), UNCHANGED vm,
           c.st = "service" <=> reg'[t] \in InService,
           \A u \in Threads \ {t} : reg'[u] = reg[u]
    PROVE  KeyInv'
<1>1. c \in CallRecord
  BY DEF GoodCall
<1>2. call' = [call EXCEPT ![t] = c] /\ call \in [Threads -> CallRecord]
  BY DEF SetCall, KeyInv
<1>3. call' \in [Threads -> CallRecord]
  BY <1>1, <1>2
<1>4. \A u \in Threads : call'[u] = IF u = t THEN c ELSE call[u]
  BY <1>2
<1>5. \A u \in Threads : GoodCall(call'[u])
  BY <1>4 DEF KeyInv
<1>6. \A u \in Threads : call'[u].st = "service" <=> reg'[u] \in InService
  BY <1>4 DEF KeyInv
<1>7. vm' \in [devices : Seq(Device), host : Hosts] /\ Variants(vm'.devices)
  BY DEF KeyInv
<1> QED BY <1>3, <1>5, <1>6, <1>7 DEF KeyInv, GoodCall, Variants, InService

\* The steps that leave the registration alone.
LEMMA KeyInvCall ==
    ASSUME KeyInv, NEW t \in Threads, NEW c, GoodCall(c), SetCall(t, c),
           UNCHANGED <<vm, typesVars>>, call[t].st # "service", c.st # "service"
    PROVE  KeyInv'
<1>1. reg' = reg
  BY DEF typesVars
<1>2. reg[t] \notin InService
  BY DEF KeyInv
<1> QED BY <1>1, <1>2, KeyInvSet

LEMMA GetNfcTicketKey ==
    ASSUME KeyInv, Types!TypesTypeOK, NEW t \in Threads, NEW r \in Requests,
           GetNfcTicket(t, r)
    PROVE  KeyInv'
<1> DEFINE c == [NoCall EXCEPT !.st = "service", !.req = r]
<1>1. /\ c \in CallRecord /\ c.devices = <<>> /\ c.i = 1 /\ c.j = 1 /\ c.st = "service"
  BY NoCallType DEF CallRecord, CallStates
<1>2. SetCall(t, c) /\ Types!EnterService(t) /\ UNCHANGED vm
  BY DEF GetNfcTicket
<1> HIDE DEF c
<1>3. Variants(c.devices) /\ Len(c.devices) = 0
  BY <1>1 DEF Variants
<1>4. GoodCall(c)
  BY <1>1, <1>3 DEF GoodCall
<1>5. reg'[t] = "check" /\ \A u \in Threads \ {t} : reg'[u] = reg[u]
  BY <1>2 DEF Types!EnterService, Types!Goto, Types!TypesTypeOK
<1>6. reg'[t] \in InService
  BY <1>5 DEF InService, Types!Lines
<1> QED BY <1>1, <1>2, <1>4, <1>5, <1>6, KeyInvSet

LEMMA ServiceKey ==
    ASSUME KeyInv, Types!TypesTypeOK, NEW t \in Threads, Service(t)
    PROVE  KeyInv'
<1>1. /\ call[t].st = "service" /\ Types!TypesStep(t) /\ UNCHANGED vm
      /\ SetCall(t,
            CASE reg'[t] = "raised" -> [NoCall EXCEPT !.st = "raised"]
              [] reg'[t] = "service" -> [call[t] EXCEPT !.st = Route(call[t].req),
                                                        !.key = call[t].req.key]
              [] OTHER -> call[t])
  BY DEF Service, CallAt
<1>2. /\ \A u \in Threads \ {t} : reg'[u] = reg[u]
      /\ reg'[t] \in Types!Lines \ {"out"}
  BY <1>1 DEF Types!TypesStep, Types!CheckFlag, Types!Lookup, Types!Create,
     Types!CreateReturns, Types!CreateRaises, Types!Mark, Types!GetType, Types!Goto, Types!TypesTypeOK, Types!Lines
<1>3. GoodCall(call[t]) /\ call[t] \in CallRecord
  BY DEF KeyInv
<1>4. CASE reg'[t] = "raised"
  <2>1. SetCall(t, [NoCall EXCEPT !.st = "raised"])
    BY <1>1, <1>4
  <2> QED BY <1>1, <1>2, <1>4, <2>1, NoCallGood, KeyInvSet DEF InService
<1>5. CASE reg'[t] = "service"
  <2> DEFINE c == [call[t] EXCEPT !.st = Route(call[t].req), !.key = call[t].req.key]
  <2>1. SetCall(t, c)
    BY <1>1, <1>5
  <2>2. /\ Route(call[t].req) \in {"soap", "host", "ValueError", "config"}
        /\ Route(call[t].req) = "host" => call[t].req.key # NoKey
        /\ Route(call[t].req) \in {"soap", "ValueError"} => call[t].req.path = NoPath
    BY DEF Route
  <2>3. call[t].req \in Requests \cup {NoRequest}
    BY <1>3 DEF CallRecord
  <2>4. call[t].req.key \in Nat
    BY <2>3, TicketConstants DEF NoRequest, NoKey
  <2>5. /\ c \in CallRecord /\ c.st = Route(call[t].req) /\ c.key = call[t].req.key
        /\ c.req = call[t].req /\ c.devices = call[t].devices /\ c.i = call[t].i
        /\ c.j = call[t].j
    BY <1>3, <2>2, <2>4 DEF CallRecord, CallStates
  <2> HIDE DEF c
  <2>6. GoodCall(c)
    BY <1>1, <1>3, <2>2, <2>5 DEF GoodCall
  <2> QED BY <1>1, <1>2, <1>5, <2>1, <2>2, <2>5, <2>6, KeyInvSet DEF InService
<1>6. CASE reg'[t] \notin {"raised", "service"}
  <2>1. SetCall(t, call[t])
    BY <1>1, <1>6
  <2> QED BY <1>1, <1>2, <1>3, <1>6, <2>1, KeyInvSet DEF InService
<1> QED BY <1>4, <1>5, <1>6

LEMMA FetchConfigKey ==
    ASSUME KeyInv, NEW t \in Threads, FetchConfig(t) PROVE KeyInv'
<1> DEFINE c == [call[t] EXCEPT !.st = "walk", !.devices = vm.devices]
<1>1. /\ call[t].st = "config" /\ SetCall(t, c) /\ UNCHANGED <<vm, typesVars>>
  BY DEF FetchConfig, CallAt
<1>2. GoodCall(call[t]) /\ call[t] \in CallRecord /\ vm.devices \in Seq(Device)
      /\ Variants(vm.devices)
  BY DEF KeyInv
<1>3. /\ c \in CallRecord /\ c.st = "walk" /\ c.devices = vm.devices
      /\ c.i = 1 /\ c.j = 1
  <2>1. call[t].i = 1 /\ call[t].j = 1
    BY <1>1, <1>2 DEF GoodCall
  <2> QED BY <1>2, <2>1 DEF CallRecord, CallStates
<1> HIDE DEF c
<1>4. Len(c.devices) \in Nat
  BY <1>2, <1>3
<1>5. Searched(c)
  BY <1>3 DEF Searched
<1>6. GoodCall(c)
  BY <1>2, <1>3, <1>4, <1>5 DEF GoodCall
<1> QED BY <1>1, <1>3, <1>6, KeyInvCall

LEMMA WalkKey ==
    ASSUME KeyInv, NEW t \in Threads, Walk(t) PROVE KeyInv'
<1>1. PICK c : c = call[t]
  OBVIOUS
<1>2. /\ c.st = "walk" /\ UNCHANGED <<vm, typesVars>>
      /\ c.i > Len(c.devices) => SetCall(t, [c EXCEPT !.st = "ValueError"])
      /\ c.i <= Len(c.devices) =>
            LET d == c.devices[c.i] IN
            /\ ~d.disk \/ c.j > Len(d.chain) => SetCall(t, [c EXCEPT !.i = @ + 1, !.j = 1])
            /\ d.disk /\ c.j <= Len(d.chain) =>
                  SetCall(t, IF d.chain[c.j] = c.req.path
                             THEN [c EXCEPT !.st = "host", !.key = d.key]
                             ELSE [c EXCEPT !.j = @ + 1])
  <2>1. /\ CallAt(t, "walk") /\ UNCHANGED <<vm, typesVars>>
        /\ SetCall(t,
              CASE c.i > Len(c.devices) -> [c EXCEPT !.st = "ValueError"]
                [] c.i <= Len(c.devices)
                      /\ (~c.devices[c.i].disk \/ c.j > Len(c.devices[c.i].chain))
                      -> [c EXCEPT !.i = @ + 1, !.j = 1]
                [] c.i <= Len(c.devices) /\ c.devices[c.i].disk
                      /\ c.j <= Len(c.devices[c.i].chain)
                      -> IF c.devices[c.i].chain[c.j] = c.req.path
                         THEN [c EXCEPT !.st = "host", !.key = c.devices[c.i].key]
                         ELSE [c EXCEPT !.j = @ + 1])
    BY <1>1 DEF Walk, Backings, NotAttached
  <2>2. c.i \in Nat /\ c.j \in Nat /\ Len(c.devices) \in Nat
    <3>1. c \in CallRecord
      BY <1>1 DEF KeyInv
    <3>2. c.devices \in Seq(Device) /\ c.i \in Nat /\ c.j \in Nat
      BY <3>1 DEF CallRecord
    <3> QED BY <3>2
  <2>3. ASSUME c.i > Len(c.devices) PROVE SetCall(t, [c EXCEPT !.st = "ValueError"])
    <3>1. ~(c.i <= Len(c.devices))
      BY <2>2, <2>3
    <3> QED BY <2>1, <2>3, <3>1
  <2>4. ASSUME c.i <= Len(c.devices),
               ~c.devices[c.i].disk \/ c.j > Len(c.devices[c.i].chain)
        PROVE  SetCall(t, [c EXCEPT !.i = @ + 1, !.j = 1])
    <3>1. c.devices[c.i] \in Device
      <4>1. c \in CallRecord
        BY <1>1 DEF KeyInv
      <4>2. c.devices \in Seq(Device) /\ c.i \in Nat \ {0}
        BY <4>1 DEF CallRecord
      <4> QED BY <2>4, <4>2
    <3>2. c.devices[c.i].chain \in Seq(VMDK)
      BY <3>1 DEF Device
    <3>3. ~(c.i > Len(c.devices))
      BY <2>2, <2>4
    <3>4. ~(c.devices[c.i].disk /\ c.j <= Len(c.devices[c.i].chain))
      BY <2>2, <2>4, <3>2
    <3> QED BY <2>1, <2>4, <3>3, <3>4
  <2>5. ASSUME c.i <= Len(c.devices), c.devices[c.i].disk,
               c.j <= Len(c.devices[c.i].chain)
        PROVE  SetCall(t, IF c.devices[c.i].chain[c.j] = c.req.path
                          THEN [c EXCEPT !.st = "host", !.key = c.devices[c.i].key]
                          ELSE [c EXCEPT !.j = @ + 1])
    <3>1. c.devices[c.i] \in Device
      <4>1. c \in CallRecord
        BY <1>1 DEF KeyInv
      <4>2. c.devices \in Seq(Device) /\ c.i \in Nat \ {0}
        BY <4>1 DEF CallRecord
      <4> QED BY <2>5, <4>2
    <3>2. c.devices[c.i].chain \in Seq(VMDK)
      BY <3>1 DEF Device
    <3>3. ~(c.i > Len(c.devices)) /\ ~(c.j > Len(c.devices[c.i].chain))
      BY <2>2, <2>5, <3>2
    <3> QED BY <2>1, <2>5, <3>3
  <2> QED BY <1>1, <2>1, <2>3, <2>4, <2>5 DEF CallAt
<1>3. /\ GoodCall(c) /\ c \in CallRecord /\ Searched(c) /\ c.devices \in Seq(Device)
      /\ c.i \in Nat \ {0} /\ c.j \in Nat \ {0} /\ Len(c.devices) \in Nat
  <2>1. GoodCall(c) /\ c \in CallRecord
    BY <1>1 DEF KeyInv
  <2>2. c.devices \in Seq(Device) /\ c.i \in Nat \ {0} /\ c.j \in Nat \ {0}
    BY <2>1 DEF CallRecord
  <2> QED BY <1>2, <2>1, <2>2 DEF GoodCall
<1>4. CASE c.i > Len(c.devices)
  <2> DEFINE e == [c EXCEPT !.st = "ValueError"]
  <2>1. SetCall(t, e)
    BY <1>2, <1>4
  <2>2. /\ e \in CallRecord /\ e.st = "ValueError" /\ e.devices = c.devices
        /\ e.i = c.i /\ e.req = c.req
    BY <1>3 DEF CallRecord, CallStates
  <2> HIDE DEF e
  <2>3. \A k \in 1 .. Len(c.devices) : ~Holds(c.devices[k], c.req.path)
    BY <1>3, <1>4 DEF Searched
  <2>4. GoodCall(e)
    BY <1>3, <2>2, <2>3 DEF GoodCall
  <2> QED BY <1>1, <1>2, <2>1, <2>2, <2>4, KeyInvCall
<1>5. CASE c.i <= Len(c.devices)
  <2>1. PICK d \in Device : d = c.devices[c.i]
    BY <1>3, <1>5
  <2>2. d.chain \in Seq(VMDK) /\ d.key \in Nat \ {0} /\ Len(d.chain) \in Nat
        /\ DOMAIN d.chain = 1 .. Len(d.chain) /\ d.disk \in BOOLEAN
    BY <2>1 DEF Device
  <2>3. \A l \in 1 .. Len(d.chain) : l < c.j => d.chain[l] # c.req.path
    BY <1>3, <1>5, <2>1 DEF Searched
  <2>4. CASE ~d.disk \/ c.j > Len(d.chain)
    <3> DEFINE e == [c EXCEPT !.i = @ + 1, !.j = 1]
    <3>1. SetCall(t, e)
      BY <1>2, <1>5, <2>1, <2>4
    <3>2. /\ e \in CallRecord /\ e.st = "walk" /\ e.devices = c.devices
          /\ e.i = c.i + 1 /\ e.j = 1 /\ e.req = c.req
      <4>1. c.i + 1 \in Nat \ {0} /\ 1 \in Nat \ {0}
        BY <1>3
      <4> QED BY <1>2, <1>3, <4>1 DEF CallRecord
    <3> HIDE DEF e
    <3>3. ~Holds(d, c.req.path)
      <4>1. d.disk => \A l \in 1 .. Len(d.chain) : l < c.j
        BY <1>3, <2>2, <2>4
      <4> QED BY <2>2, <2>3, <4>1 DEF Holds
    <3>4. ASSUME NEW k \in 1 .. Len(c.devices), k < c.i + 1
          PROVE  ~Holds(c.devices[k], c.req.path)
      <4>1. CASE k = c.i
        BY <2>1, <3>3, <4>1
      <4>2. CASE k < c.i
        BY <1>3, <4>2 DEF Searched
      <4> QED BY <1>3, <3>4, <4>1, <4>2
    <3>5. Searched(e)
      BY <3>2, <3>4 DEF Searched
    <3>6. GoodCall(e)
      BY <1>3, <1>5, <3>2, <3>5 DEF GoodCall
    <3> QED BY <1>1, <1>2, <3>1, <3>2, <3>6, KeyInvCall
  <2>5. CASE d.disk /\ c.j <= Len(d.chain) /\ d.chain[c.j] = c.req.path
    <3> DEFINE e == [c EXCEPT !.st = "host", !.key = d.key]
    <3>1. SetCall(t, e)
      BY <1>2, <1>5, <2>1, <2>5
    <3>2. /\ e \in CallRecord /\ e.st = "host" /\ e.devices = c.devices
          /\ e.i = c.i /\ e.j = c.j /\ e.req = c.req /\ e.key = d.key
      BY <1>3, <2>2 DEF CallRecord, CallStates
    <3> HIDE DEF e
    <3>3. Holds(d, c.req.path)
      BY <1>3, <2>2, <2>5 DEF Holds
    <3>4. c.i \in 1 .. Len(c.devices)
      BY <1>3, <1>5
    <3>5. Found(e)
      BY <2>1, <3>2, <3>3, <3>4 DEF Found
    <3>6. GoodCall(e)
      BY <1>3, <2>2, <3>2, <3>5 DEF GoodCall, NoKey
    <3> QED BY <1>1, <1>2, <3>1, <3>2, <3>6, KeyInvCall
  <2>6. CASE d.disk /\ c.j <= Len(d.chain) /\ d.chain[c.j] # c.req.path
    <3> DEFINE e == [c EXCEPT !.j = @ + 1]
    <3>1. SetCall(t, e)
      BY <1>2, <1>5, <2>1, <2>6
    <3>2. /\ e \in CallRecord /\ e.st = "walk" /\ e.devices = c.devices
          /\ e.i = c.i /\ e.j = c.j + 1 /\ e.req = c.req
      <4>1. c.j + 1 \in Nat \ {0}
        BY <1>3
      <4> QED BY <1>2, <1>3, <4>1 DEF CallRecord
    <3> HIDE DEF e
    <3>3. \A l \in 1 .. Len(d.chain) : l < c.j + 1 => d.chain[l] # c.req.path
      BY <1>3, <2>2, <2>3, <2>6
    <3>4. Searched(e)
      BY <1>3, <2>1, <3>2, <3>3 DEF Searched
    <3>5. GoodCall(e)
      BY <1>3, <3>2, <3>4 DEF GoodCall
    <3> QED BY <1>1, <1>2, <3>1, <3>2, <3>5, KeyInvCall
  <2> QED BY <1>3, <2>2, <2>4, <2>5, <2>6
<1> QED BY <1>3, <1>4, <1>5

LEMMA SoapKey ==
    ASSUME KeyInv, NEW t \in Threads,
           TakeHost(t) \/ FetchHost(t) \/ Issue(t) \/ Refuse(t) \/ Leave(t)
    PROVE  KeyInv'
<1>1. GoodCall(call[t]) /\ call[t] \in CallRecord
      /\ vm \in [devices : Seq(Device), host : Hosts]
  BY DEF KeyInv
<1>2. CASE FetchHost(t)
  <2> DEFINE e == [call[t] EXCEPT !.st = "soap", !.host = vm.host]
  <2>1. call[t].st = "host" /\ SetCall(t, e) /\ UNCHANGED <<vm, typesVars>>
    BY <1>2 DEF FetchHost, CallAt
  <2>2. /\ e \in CallRecord /\ e.st = "soap" /\ e.devices = call[t].devices
        /\ e.i = call[t].i /\ e.req = call[t].req /\ e.key = call[t].key
    BY <1>1 DEF CallRecord, CallStates
  <2> HIDE DEF e
  <2>3. GoodCall(e)
    BY <1>1, <2>1, <2>2 DEF GoodCall, Found
  <2> QED BY <2>1, <2>2, <2>3, KeyInvCall
<1>3. CASE Issue(t)
  <2> DEFINE e == [call[t] EXCEPT !.st = "ticket", !.method = Method(call[t])]
  <2>1. call[t].st = "soap" /\ SetCall(t, e) /\ UNCHANGED <<vm, typesVars>>
    BY <1>3 DEF Issue, CallAt
  <2>2. Method(call[t]) \in {"GetVmFiles", "RandomAccessOpenReadonly", "RandomAccessOpen"}
    BY DEF Method
  <2>3. /\ e \in CallRecord /\ e.st = "ticket" /\ e.devices = call[t].devices
        /\ e.i = call[t].i /\ e.req = call[t].req /\ e.key = call[t].key
    BY <1>1, <2>2 DEF CallRecord, CallStates
  <2> HIDE DEF e
  <2>4. GoodCall(e)
    BY <1>1, <2>1, <2>3 DEF GoodCall, Found
  <2> QED BY <2>1, <2>3, <2>4, KeyInvCall
<1>4. CASE Refuse(t)
  BY <1>4, NoCallGood, KeyInvCall DEF Refuse, CallAt
<1>5. CASE Leave(t)
  BY <1>5, NoCallGood, KeyInvCall DEF Leave, CallAt
<1>6. CASE TakeHost(t)
  <2> DEFINE e == [call[t] EXCEPT !.st = "soap", !.host = call[t].req.host]
  <2>1. call[t].st = "host" /\ SetCall(t, e) /\ UNCHANGED <<vm, typesVars>>
    BY <1>6 DEF TakeHost, CallAt
  <2>2. call[t].req.host \in Hosts \cup {NoHost}
    <3>1. call[t].req \in Requests \cup {NoRequest}
      BY <1>1 DEF CallRecord
    <3> QED BY <3>1, TicketConstants DEF NoRequest
  <2>3. /\ e \in CallRecord /\ e.st = "soap" /\ e.devices = call[t].devices
        /\ e.i = call[t].i /\ e.req = call[t].req /\ e.key = call[t].key
    BY <1>1, <2>2 DEF CallRecord, CallStates
  <2> HIDE DEF e
  <2>4. GoodCall(e)
    BY <1>1, <2>1, <2>3 DEF GoodCall, Found
  <2> QED BY <2>1, <2>3, <2>4, KeyInvCall
<1> QED BY <1>2, <1>3, <1>4, <1>5, <1>6

\* The VM changes under the threads.
LEMMA KeyInvVm ==
    ASSUME KeyInv, vm' \in [devices : Seq(Device), host : Hosts],
           Variants(vm'.devices), UNCHANGED <<call, typesVars>>
    PROVE  KeyInv'
<1>1. call' = call /\ reg' = reg
  BY DEF typesVars
<1>2. /\ call' \in [Threads -> CallRecord]
      /\ \A t \in Threads : GoodCall(call'[t])
      /\ \A t \in Threads : call'[t].st = "service" <=> reg'[t] \in InService
  BY <1>1 DEF KeyInv
<1> QED BY <1>2 DEF KeyInv, GoodCall, Variants, InService

LEMMA SetChainKey ==
    ASSUME KeyInv, NEW i \in DOMAIN vm.devices, NEW ch \in Seq(VMDK), SetChain(i, ch),
           ch # <<>>, ch[Len(ch)] = vm.devices[i].chain[Len(vm.devices[i].chain)],
           \A j \in 1 .. Len(ch) :
               \E l \in 1 .. Len(vm.devices[i].chain) :
                   ch[j].disk = vm.devices[i].chain[l].disk
    PROVE  KeyInv'
<1>1. PICK q \in Seq(Device), h \in Hosts : vm = [devices |-> q, host |-> h]
  <2>1. vm \in [devices : Seq(Device), host : Hosts]
    BY DEF KeyInv
  <2> QED BY <2>1
<1>2. q = vm.devices /\ Variants(q) /\ i \in 1 .. Len(q) /\ q[i] \in Device
      /\ DOMAIN q = 1 .. Len(q)
  <2>1. q = vm.devices /\ Variants(vm.devices)
    BY <1>1 DEF KeyInv
  <2>2. DOMAIN q = 1 .. Len(q)
    BY <1>1
  <2>3. i \in 1 .. Len(q)
    BY <2>1, <2>2
  <2> QED BY <1>1, <2>1, <2>2, <2>3
<1> DEFINE d == [q[i] EXCEPT !.chain = ch]
<1>3. d \in Device /\ d.disk = q[i].disk /\ d.key = q[i].key /\ d.chain = ch
  BY <1>2 DEF Device
<1>4. vm' = [vm EXCEPT !.devices = [q EXCEPT ![i] = d]] /\ UNCHANGED <<call, typesVars>>
  BY <1>2 DEF SetChain
<1> HIDE DEF d
<1>5. PICK r : r = [q EXCEPT ![i] = d]
  OBVIOUS
<1>6. /\ r \in Seq(Device) /\ Len(r) = Len(q)
      /\ \A k \in 1 .. Len(q) : r[k] = IF k = i THEN d ELSE q[k]
  BY <1>1, <1>2, <1>3, <1>5, ExceptSeq
<1>7. vm' \in [devices : Seq(Device), host : Hosts] /\ vm'.devices = r
  BY <1>1, <1>4, <1>5, <1>6
<1>8. Variants(r)
  <2>1. PICK o \in 1 .. Len(InitialDevices) : VariantOf(q[i], InitialDevices[o])
    BY <1>2 DEF Variants
  <2>2. VariantOf(d, InitialDevices[o])
    BY <1>2, <1>3, <2>1 DEF VariantOf
  <2> QED BY <1>2, <1>6, <2>1, <2>2 DEF Variants
<1> QED BY <1>4, <1>7, <1>8, KeyInvVm

LEMMA VmKey ==
    ASSUME KeyInv, VmStep PROVE KeyInv'
<1>1. vm \in [devices : Seq(Device), host : Hosts] /\ vm.devices \in Seq(Device)
      /\ Variants(vm.devices)
  BY DEF KeyInv
<1>2. ASSUME NEW i \in DOMAIN vm.devices
      PROVE  vm.devices[i] \in Device /\ vm.devices[i].chain \in Seq(VMDK)
  <2>1. vm.devices[i] \in Device
    BY <1>1
  <2> QED BY <2>1 DEF Device
<1>3. ASSUME NEW i \in DOMAIN vm.devices, Snapshot(i) PROVE KeyInv'
  <2>1. PICK ch \in Seq(VMDK) : ch = vm.devices[i].chain
    BY <1>2
  <2>2. ch # <<>> /\ SetChain(i, <<[ch[1] EXCEPT !.n = @ + 1]>> \o ch)
    BY <1>3, <2>1 DEF Snapshot
  <2>3. Len(ch) \in Nat \ {0} /\ ch[1] \in VMDK
    BY <2>2, EmptySeq
  <2>4. PICK leaf \in VMDK : leaf = [ch[1] EXCEPT !.n = @ + 1] /\ leaf.disk = ch[1].disk
    <3>1. /\ [ch[1] EXCEPT !.n = @ + 1] \in VMDK
          /\ [ch[1] EXCEPT !.n = @ + 1].disk = ch[1].disk
      <4>1. ch[1].n + 1 \in Nat
        BY <2>3 DEF VMDK
      <4> QED BY <2>3, <4>1 DEF VMDK
    <3> QED BY <3>1
  <2>5. PICK new : new = <<leaf>> \o ch
    OBVIOUS
  <2>6. /\ new \in Seq(VMDK) /\ Len(new) = Len(ch) + 1 /\ new[1] = leaf
        /\ \A j \in 2 .. Len(new) : new[j] = ch[j - 1]
    BY <2>3, <2>5
  <2>7. new # <<>> /\ new[Len(new)] = ch[Len(ch)]
    BY <2>3, <2>6
  <2>8. ASSUME NEW j \in 1 .. Len(new)
        PROVE  \E l \in 1 .. Len(ch) : new[j].disk = ch[l].disk
    <3>1. CASE j = 1
      <4>1. 1 \in 1 .. Len(ch)
        BY <2>3
      <4>2. new[j] = leaf
        BY <2>6, <3>1
      <4>3. new[j].disk = ch[1].disk
        BY <2>4, <4>2
      <4> QED BY <4>1, <4>3
    <3>2. CASE j # 1
      <4>1. j \in 2 .. Len(new) /\ j - 1 \in 1 .. Len(ch)
        BY <2>3, <2>6, <3>2
      <4> QED BY <2>6, <4>1
    <3> QED BY <3>1, <3>2
  <2>9. SetChain(i, new)
    BY <2>2, <2>4, <2>5
  <2> QED BY <2>1, <2>6, <2>7, <2>8, <2>9, SetChainKey
<1>4. ASSUME NEW i \in DOMAIN vm.devices, DeleteSnapshot(i) PROVE KeyInv'
  <2>1. PICK ch \in Seq(VMDK) : ch = vm.devices[i].chain
    BY <1>2
  <2>2. Len(ch) > 1 /\ SetChain(i, Tail(ch))
    BY <1>4, <2>1 DEF DeleteSnapshot
  <2>3. ch # <<>> /\ Len(ch) \in Nat
    BY <2>2
  <2>4. /\ Tail(ch) \in Seq(VMDK) /\ Len(Tail(ch)) = Len(ch) - 1
        /\ \A j \in 1 .. Len(Tail(ch)) : Tail(ch)[j] = ch[j + 1]
    BY <2>3, HeadTailProperties
  <2>5. Tail(ch) # <<>> /\ Tail(ch)[Len(Tail(ch))] = ch[Len(ch)]
    <3>1. Len(Tail(ch)) \in 1 .. Len(Tail(ch)) /\ Len(Tail(ch)) + 1 = Len(ch)
      BY <2>2, <2>3, <2>4
    <3>2. Tail(ch)[Len(Tail(ch))] = ch[Len(ch)]
      BY <2>4, <3>1
    <3>3. Tail(ch) # <<>>
      <4>1. PICK tl \in Seq(VMDK) : tl = Tail(ch)
        BY <2>4
      <4>2. Len(tl) # 0
        BY <3>1, <4>1
      <4>3. tl # <<>>
        BY <4>2
      <4> QED BY <4>1, <4>3
    <3> QED BY <3>2, <3>3
  <2>6. ASSUME NEW j \in 1 .. Len(Tail(ch))
        PROVE  \E l \in 1 .. Len(ch) : Tail(ch)[j].disk = ch[l].disk
    <3>1. j \in Nat /\ j >= 1 /\ j <= Len(ch) - 1
      BY <2>3, <2>4
    <3>2. j + 1 \in 1 .. Len(ch)
      BY <2>3, <3>1
    <3>3. Tail(ch)[j].disk = ch[j + 1].disk
      BY <2>4
    <3> QED BY <3>2, <3>3, Zenon
  <2>7. PICK tl \in Seq(VMDK) : tl = Tail(ch)
    BY <2>4
  <2>8. /\ SetChain(i, tl) /\ tl # <<>>
        /\ tl[Len(tl)] = vm.devices[i].chain[Len(vm.devices[i].chain)]
    BY <2>1, <2>2, <2>5, <2>7
  <2>9. \A j \in 1 .. Len(tl) :
           \E l \in 1 .. Len(vm.devices[i].chain) :
               tl[j].disk = vm.devices[i].chain[l].disk
    BY <2>1, <2>6, <2>7
  <2> QED BY <2>8, <2>9, SetChainKey
<1>5. ASSUME NEW i \in DOMAIN vm.devices, Detach(i) PROVE KeyInv'
  <2>1. PICK q \in Seq(Device) : q = vm.devices
    BY <1>1
  <2>2. Len(q) \in Nat /\ i \in 1 .. Len(q)
    BY <2>1
  <2>3. PICK a, b, r : /\ a = SubSeq(q, 1, i - 1) /\ b = SubSeq(q, i + 1, Len(q))
                       /\ r = a \o b
    OBVIOUS
  <2>4. /\ a \in Seq(Device) /\ Len(a) = i - 1
        /\ \A k \in 1 .. Len(a) : a[k] = q[k]
    <3>1. 1 \in Int /\ i - 1 \in Int /\ \A k \in 1 .. i - 1 : q[k] \in Device
      BY <2>2
    <3>2. /\ a \in Seq(Device) /\ Len(a) = (IF 1 <= i - 1 THEN i - 1 - 1 + 1 ELSE 0)
          /\ \A k \in 1 .. i - 1 - 1 + 1 : a[k] = q[1 + k - 1]
      BY <2>3, <3>1, SubSeqProperties
    <3>3. Len(a) = i - 1
      BY <2>2, <3>2
    <3> QED BY <2>2, <3>2, <3>3
  <2>5. /\ b \in Seq(Device) /\ Len(b) = Len(q) - i
        /\ \A k \in 1 .. Len(b) : b[k] = q[i + k]
    <3>1. i + 1 \in Int /\ Len(q) \in Int /\ \A k \in i + 1 .. Len(q) : q[k] \in Device
      BY <2>2
    <3>2. /\ b \in Seq(Device)
          /\ Len(b) = (IF i + 1 <= Len(q) THEN Len(q) - (i + 1) + 1 ELSE 0)
          /\ \A k \in 1 .. Len(q) - (i + 1) + 1 : b[k] = q[i + 1 + k - 1]
      BY <2>3, <3>1, SubSeqProperties
    <3>3. Len(b) = Len(q) - i
      <4>1. /\ Len(q) - (i + 1) + 1 = Len(q) - i
            /\ i + 1 <= Len(q) \/ Len(q) - i = 0
        BY <2>2
      <4>2. Len(b) = IF i + 1 <= Len(q) THEN Len(q) - i ELSE 0
        BY <3>2, <4>1
      <4> QED BY <4>1, <4>2
    <3>4. ASSUME NEW k \in 1 .. Len(b) PROVE b[k] = q[i + k]
      <4>1. k \in 1 .. Len(q) - (i + 1) + 1 /\ i + 1 + k - 1 = i + k
        BY <2>2, <3>3
      <4>2. b[k] = q[i + 1 + k - 1]
        BY <3>2, <4>1
      <4> QED BY <4>1, <4>2
    <3> QED BY <3>2, <3>3, <3>4
  <2>6. /\ r \in Seq(Device) /\ Len(r) = Len(q) - 1
        /\ \A k \in 1 .. Len(r) : r[k] = IF k <= Len(a) THEN a[k] ELSE b[k - Len(a)]
    <3>1. /\ r \in Seq(Device) /\ Len(r) = Len(a) + Len(b)
          /\ \A k \in 1 .. Len(a) + Len(b) :
                r[k] = IF k <= Len(a) THEN a[k] ELSE b[k - Len(a)]
      <4>1. a \in Seq(Device) /\ b \in Seq(Device) /\ r = a \o b
        BY <2>3, <2>4, <2>5
      <4> QED BY <4>1, ConcatProperties
    <3>2. Len(a) + Len(b) = Len(q) - 1
      BY <2>2, <2>4, <2>5
    <3> QED BY <3>1, <3>2
  <2>7. \A k \in 1 .. Len(r) : \E l \in 1 .. Len(q) : r[k] = q[l]
    <3> TAKE k \in 1 .. Len(r)
    <3>1. CASE k <= Len(a)
      <4>1. k \in 1 .. Len(a) /\ k \in 1 .. Len(q)
        BY <2>2, <2>4, <3>1
      <4> QED BY <2>4, <2>6, <3>1, <4>1
    <3>2. CASE ~(k <= Len(a))
      <4>1. k - Len(a) \in 1 .. Len(b) /\ i + (k - Len(a)) \in 1 .. Len(q)
        BY <2>2, <2>4, <2>5, <2>6, <3>2
      <4>2. r[k] = b[k - Len(a)] /\ b[k - Len(a)] = q[i + (k - Len(a))]
        BY <2>5, <2>6, <3>2, <4>1
      <4> QED BY <4>1, <4>2
    <3> QED BY <3>1, <3>2
  <2>8. Variants(r)
    BY <1>1, <2>1, <2>7 DEF Variants
  <2>9. vm' = [vm EXCEPT !.devices = r] /\ UNCHANGED <<call, typesVars>>
    BY <1>5, <2>1, <2>3 DEF Detach
  <2>10. vm' \in [devices : Seq(Device), host : Hosts] /\ vm'.devices = r
    BY <1>1, <2>6, <2>9
  <2> QED BY <2>8, <2>9, <2>10, KeyInvVm
<1>6. ASSUME NEW h \in Hosts, Migrate(h) PROVE KeyInv'
  <2>1. vm' = [vm EXCEPT !.host = h] /\ UNCHANGED <<call, typesVars>>
    BY <1>6 DEF Migrate
  <2>2. vm' \in [devices : Seq(Device), host : Hosts] /\ vm'.devices = vm.devices
    BY <1>1, <2>1
  <2> QED BY <1>1, <2>1, <2>2, KeyInvVm
<1> QED BY <1>3, <1>4, <1>5, <1>6 DEF VmStep

\* Files of devices with one key, at whatever times, have one base.
LEMMA SameBase ==
    ASSUME NEW q \in Seq(Device), Variants(q), NEW k \in 1 .. Len(q),
           NEW p \in Seq(Device), Variants(p), NEW i \in 1 .. Len(p),
           NEW path \in VMDK, Holds(q[k], path), p[i].key = q[k].key
    PROVE  Holds(p[i], [path EXCEPT !.n = 0])
<1>1. PICK o \in 1 .. Len(InitialDevices) : VariantOf(q[k], InitialDevices[o])
  BY DEF Variants
<1>2. PICK u \in 1 .. Len(InitialDevices) : VariantOf(p[i], InitialDevices[u])
  BY DEF Variants
<1>3. DOMAIN InitialDevices = 1 .. Len(InitialDevices)
  BY InitialVariants
<1>4. u = o
  BY <1>1, <1>2, <1>3, DeviceConstants DEF VariantOf
<1>5. PICK d : d = InitialDevices[o]
  OBVIOUS
<1>6. d \in Device /\ d.chain \in Seq(VMDK)
  <2>1. d \in Device
    BY <1>5, InitialVariants
  <2> QED BY <2>1 DEF Device
<1>7. q[k].chain \in Seq(VMDK) /\ p[i].chain \in Seq(VMDK)
  <2>1. q[k] \in Device /\ p[i] \in Device
    OBVIOUS
  <2> QED BY <2>1 DEF Device
<1>8. d.disk /\ p[i].disk
  BY <1>1, <1>2, <1>4, <1>5 DEF VariantOf, Holds
<1>9. d.chain # <<>> /\ d.chain[Len(d.chain)].n = 0
  BY <1>3, <1>5, <1>8, DeviceConstants
<1>10. PICK b : b = d.chain[Len(d.chain)]
  OBVIOUS
<1>11. b \in VMDK /\ b.n = 0
  <2>1. Len(d.chain) \in 1 .. Len(d.chain)
    BY <1>6, <1>9, EmptySeq
  <2> QED BY <1>6, <1>9, <1>10, <2>1
<1>12. path.disk = b.disk
  <2>1. PICK j \in DOMAIN q[k].chain : q[k].chain[j] = path
    BY DEF Holds
  <2>2. j \in 1 .. Len(q[k].chain)
    BY <1>7, <2>1
  <2> QED BY <1>1, <1>5, <1>10, <2>1, <2>2 DEF VariantOf, Holds
<1>13. b = [path EXCEPT !.n = 0]
  BY <1>11, <1>12 DEF VMDK
<1>14. Len(p[i].chain) \in DOMAIN p[i].chain /\ p[i].chain[Len(p[i].chain)] = b
  <2>1. p[i].chain # <<>> /\ p[i].chain[Len(p[i].chain)] = b
    BY <1>2, <1>4, <1>5, <1>8, <1>10 DEF VariantOf
  <2> QED BY <1>7, <2>1, EmptySeq
<1> QED BY <1>8, <1>13, <1>14 DEF Holds

LEMMA KeyInvNext == TypesInv /\ KeyInv /\ [Next]_vars => KeyInv'
<1> SUFFICES ASSUME TypesInv, KeyInv, [Next]_vars PROVE KeyInv'
  OBVIOUS
<1>0. Types!TypesTypeOK
  BY DEF TypesInv
<1>1. CASE UNCHANGED <<vm, call, typesVars>>
  <2>1. vm' \in [devices : Seq(Device), host : Hosts] /\ Variants(vm'.devices)
    BY <1>1 DEF KeyInv
  <2> QED BY <1>1, <2>1, KeyInvVm
<1>2. ASSUME NEW t \in Threads, NEW r \in Requests, GetNfcTicket(t, r) PROVE KeyInv'
  BY <1>0, <1>2, GetNfcTicketKey
<1>3. ASSUME NEW t \in Threads, Service(t) PROVE KeyInv'
  BY <1>0, <1>3, ServiceKey
<1>4. ASSUME NEW t \in Threads, CallStep(t) PROVE KeyInv'
  BY <1>4, FetchConfigKey, WalkKey, SoapKey DEF CallStep
<1>5. CASE VmStep
  BY <1>5, VmKey
<1>6. CASE UNCHANGED vars
  BY <1>1, <1>6 DEF vars
<1> QED
  BY <1>1, <1>2, <1>3, <1>4, <1>5, <1>6 DEF Next, VmStep, CallStep

\* The three invariants together.
TicketInv == TypesInv /\ LoginInv /\ KeyInv

LEMMA TicketInvAlways == Spec => []TicketInv
<1>1. Init => TicketInv
  BY TypesInvInit, LoginInvInit, KeyInvInit DEF TicketInv
<1>2. TicketInv /\ [Next]_vars => TicketInv'
  BY TypesInvNext, LoginInvNext, KeyInvNext DEF TicketInv
<1> QED
  BY <1>1, <1>2, PTL DEF Spec

\* The state of logins, registration and calls has its type; in particular the
\* loops of _virtual_disk_key stay within the devices they copied, the host is
\* fetched only with a key in hand, and get_nfc_ticket waits in nfc_service
\* exactly while the registration is under way.
THEOREM TicketTypeOK == Spec => []TypeOK
<1>1. TicketInv => TypeOK
  <2> SUFFICES ASSUME TicketInv PROVE TypeOK
    OBVIOUS
  <2>1. LoginTypeOK /\ Types!TypesTypeOK /\ KeyInv
    BY DEF TicketInv, TypesInv, LoginInv
  <2>2. vm.devices \in Seq(Device) /\ vm.host \in Hosts
    BY <2>1 DEF KeyInv
  <2>3. ASSUME NEW t \in Threads, NEW c, c = call[t]
        PROVE  /\ c.st \in CallStates
               /\ c.req \in Requests \cup {NoRequest} /\ c.devices \in Seq(Device)
               /\ c.i \in 1 .. (Len(c.devices) + 1) /\ c.j \in Nat /\ c.key \in Nat
               /\ c.host \in Hosts \cup {NoHost} /\ (c.st = "host" => c.key # NoKey)
               /\ c.st = "service" <=> reg[t] \in InService
    <3>1. GoodCall(c) /\ c \in CallRecord /\ (c.st = "service" <=> reg[t] \in InService)
      BY <2>1, <2>3 DEF KeyInv
    <3>2. /\ c.st \in CallStates /\ c.req \in Requests \cup {NoRequest}
          /\ c.devices \in Seq(Device) /\ c.i \in Nat \ {0} /\ c.j \in Nat
          /\ c.key \in Nat /\ c.host \in Hosts \cup {NoHost}
      BY <3>1 DEF CallRecord
    <3>3. c.i \in 1 .. (Len(c.devices) + 1) /\ (c.st = "host" => c.key # NoKey)
      <4>1. c.i <= Len(c.devices) + 1 /\ (c.st = "host" => c.key # NoKey)
        BY <3>1 DEF GoodCall
      <4>2. c.devices \in Seq(Device) /\ c.i \in Nat \ {0}
        BY <3>2
      <4>3. Len(c.devices) \in Nat
        BY <4>2
      <4> QED BY <4>1, <4>2, <4>3
    <3> QED BY <3>1, <3>2, <3>3
  <2> QED BY <2>1, <2>2, <2>3 DEF TypeOK, CallStates, InService
<1> QED
  BY <1>1, TicketInvAlways, PTL

\* The key that get_nfc_ticket asks a ticket for is that of a disk which had the
\* VMDK when the configuration was read, and still names that disk: for any
\* devices, chains and threads, and whatever snapshots, detachments and
\* migrations come in between.
THEOREM KeyAlwaysJustified == Spec => []KeyJustified
<1>1. TicketInv => KeyJustified
  <2> SUFFICES ASSUME TicketInv, NEW t \in Threads, NEW c, c = call[t],
                      c.req.key = NoKey, c.req.path # NoPath
               PROVE  /\ c.st \in {"host", "soap", "ticket"} =>
                            /\ \E i \in DOMAIN c.devices :
                                  /\ c.devices[i].key = c.key
                                  /\ Holds(c.devices[i], c.req.path)
                            /\ \A i \in DOMAIN vm.devices : vm.devices[i].key = c.key =>
                                  Holds(vm.devices[i], [c.req.path EXCEPT !.n = 0])
                      /\ c.st = "ValueError" =>
                            \A i \in DOMAIN c.devices : ~Holds(c.devices[i], c.req.path)
    BY DEF KeyJustified
  <2>1. GoodCall(c) /\ c \in CallRecord /\ vm.devices \in Seq(Device)
        /\ Variants(vm.devices)
    BY DEF TicketInv, KeyInv
  <2>2. c.devices \in Seq(Device) /\ c.req \in Requests \cup {NoRequest}
    BY <2>1 DEF CallRecord
  <2>3. /\ DOMAIN c.devices = 1 .. Len(c.devices)
        /\ DOMAIN vm.devices = 1 .. Len(vm.devices)
    BY <2>1, <2>2
  <2>4. c.req.path \in VMDK
    <3>1. c.req # NoRequest
      BY NoCallType
    <3> QED BY <2>2, <3>1, TicketConstants
  <2>5. c.st = "ValueError" =>
            \A i \in DOMAIN c.devices : ~Holds(c.devices[i], c.req.path)
    BY <2>1, <2>3 DEF GoodCall
  <2>6. ASSUME c.st \in {"host", "soap", "ticket"}
        PROVE  /\ \E i \in DOMAIN c.devices :
                     c.devices[i].key = c.key /\ Holds(c.devices[i], c.req.path)
               /\ \A i \in DOMAIN vm.devices : vm.devices[i].key = c.key =>
                     Holds(vm.devices[i], [c.req.path EXCEPT !.n = 0])
    <3>1. PICK k \in 1 .. Len(c.devices) :
              c.devices[k].key = c.key /\ Holds(c.devices[k], c.req.path)
      BY <2>1, <2>6 DEF GoodCall, Found
    <3>2. Variants(c.devices)
      BY <2>1 DEF GoodCall
    <3>3. ASSUME NEW i \in DOMAIN vm.devices, vm.devices[i].key = c.key
          PROVE  Holds(vm.devices[i], [c.req.path EXCEPT !.n = 0])
      <4>1. i \in 1 .. Len(vm.devices)
        BY <2>3
      <4> QED BY <2>1, <2>2, <2>4, <3>1, <3>2, <3>3, <4>1, SameBase
    <3> QED BY <2>3, <3>1, <3>3
  <2> QED BY <2>5, <2>6
<1> QED
  BY <1>1, TicketInvAlways, PTL
=============================================================================
