----------------------------- MODULE VixHandle -----------------------------
(***************************************************************************)
(* From login to logout: what VixDiskLibHandle.connect and open            *)
(* (openvixdisklib.py), authenticate, get_nfc_ticket and connect_authd     *)
(* (nfc_auth.py) and open_disk (nfc_open.py) acquire on the way to an open *)
(* disk, and what each of their except and finally clauses releases.       *)
(*                                                                         *)
(* A slot is one use of open(): the ticket, the descriptor of the authd    *)
(* socket, the duplicate of it that carries NFC, and how far the exchange  *)
(* with the server has come.  The other API of the package, authenticate() *)
(* and open_disk() on the NfcAuthSession, uses one slot.  A failed connect *)
(* has acquired nothing and changes no variable: it has no action.         *)
(***************************************************************************)
EXTENDS Integers, Sequences

CONSTANTS
    Slots,       \* disks that may be open at the same time
    MaxTickets,  \* bound on the tickets issued
    ModeLists    \* transport_modes arguments that occur

\* transport_modes as it was passed: None (given = FALSE), or the elements of
\* a colon list; "file" stands for every mode that is not supported.
ModeNames == {"nbdssl", "nbd", "file"}
ModeList == [given : BOOLEAN, list : Seq(ModeNames)]
Default == [given |-> FALSE, list |-> <<>>]
Modes(list) == [given |-> TRUE, list |-> list]

ASSUME HandleConstants ==
    MaxTickets \in Nat /\ ModeLists \subseteq ModeList
    /\ \A m \in ModeLists : ~m.given => m.list = <<>>

VARIABLES
    conn,     \* the connection: in or out, through which API, its options
    sessions, \* VIM sessions logged in
    slot,     \* the slots
    issued,   \* tickets issued so far
    uses,     \* history: SESSION commands sent per ticket
    adrift    \* slots that left a duplicate open which no clause closes

vars == <<conn, sessions, slot, issued, uses, adrift>>

\* The stages of a slot, in the order of an open that succeeds.
\* In "dup" the descriptor is duplicated and nothing else is done with it.
AuthdStages == {"ticket", "tcp", "banner", "tls", "session", "thumbprint",
                "proxy"}
NfcStages == {"nfc", "aio", "file"}
Stages == AuthdStages \cup NfcStages
          \cup {"none", "authd", "dup", "wrap", "open", "closed"}

Services == {"", "vpxa-nfc", "vpxa-nfcssl"}
Layers == {"", "plain", "tls"}
Ticket == [id : 0 .. MaxTickets, rw : BOOLEAN, service : Services]
Slot == [st : Stages, ro : BOOLEAN, fds : SUBSET {"authd", "nfc"},
         ticket : Ticket, proxied : Layers, layer : Layers,
         flags : {"", "ro", "rw"}]

NoTicket == [id |-> 0, rw |-> FALSE, service |-> ""]
FreeSlot == [st |-> "none", ro |-> TRUE, fds |-> {}, ticket |-> NoTicket,
             proxied |-> "", layer |-> "", flags |-> ""]

NoConn == [in |-> FALSE, api |-> "handle", ro |-> TRUE, ssl |-> TRUE,
           modes |-> Default]

Init ==
    /\ conn = NoConn /\ sessions = 0
    /\ slot = [d \in Slots |-> FreeSlot]
    /\ issued = 0 /\ uses = [t \in 1 .. MaxTickets |-> 0]
    /\ adrift = {}

Set(d, s) == slot' = [slot EXCEPT ![d] = s]
Handle == conn.in /\ conn.api = "handle"
Session == conn.in /\ conn.api = "session"
-----------------------------------------------------------------------------
(* The connection.                                                         *)

\* The first element of the list that is supported.
select_transport(m) ==
    LET supported == {i \in DOMAIN m.list : m.list[i] \in {"nbdssl", "nbd"}}
    IN  IF ~m.given THEN "nbdssl"
        ELSE IF supported = {} THEN "NotImplementedError"
        ELSE m.list[CHOOSE i \in supported : \A j \in supported : i <= j]

\* vmx_spec: with or without a "=", before it "moref" in any case or another
\* word, and the name of the VM, maybe empty.
VmxSpecs == [eq : BOOLEAN, kind : {"moref", "other"}, value : {"", "vm"}]
parse_vm_moref(x) ==
    IF x.value = "" \/ (x.eq /\ x.kind # "moref") THEN "ValueError" ELSE x.value

\* connect: the transport and the VM are parsed, the management certificate
\* checked and the user logged in; the body of the with statement starts.
Connect(ro, modes, vmx_spec) ==
    /\ ~conn.in /\ \A d \in Slots : slot[d].st = "none"
    /\ select_transport(modes) # "NotImplementedError"
    /\ parse_vm_moref(vmx_spec) # "ValueError"
    /\ conn' = [in |-> TRUE, api |-> "handle", ro |-> ro, modes |-> modes,
                ssl |-> select_transport(modes) = "nbdssl"]
    /\ sessions' = sessions + 1
    /\ UNCHANGED <<slot, issued, uses, adrift>>

\* The end of that with statement, by return or exception: disconnect.
Disconnect ==
    /\ Handle /\ \A d \in Slots : slot[d].st = "none"
    /\ conn' = NoConn /\ sessions' = sessions - 1
    /\ UNCHANGED <<slot, issued, uses, adrift>>

\* authenticate: login, then the ticket and the authd handshake of slot d.
Authenticate(d, ro, ssl) ==
    /\ ~conn.in /\ \A e \in Slots : slot[e].st = "none"
    /\ conn' = [in |-> TRUE, api |-> "session", ro |-> ro, ssl |-> ssl,
                modes |-> IF ssl THEN Default ELSE Modes(<<"nbd">>)]
    /\ sessions' = sessions + 1
    /\ Set(d, [FreeSlot EXCEPT !.st = "ticket", !.ro = ro])
    /\ UNCHANGED <<issued, uses, adrift>>

\* NfcAuthSession.close: the authd socket is closed and the user logged out;
\* a disk opened on the session keeps its own descriptor.
SessionClose(d) ==
    /\ Session /\ slot[d].st \in {"authd", "open", "closed"}
    /\ conn' = NoConn /\ sessions' = sessions - 1
    /\ Set(d, IF slot[d].st = "open"
              THEN [slot[d] EXCEPT !.fds = @ \ {"authd"}] ELSE FreeSlot)
    /\ UNCHANGED <<issued, uses, adrift>>
-----------------------------------------------------------------------------
(* The ticket and the authd handshake.                                     *)

\* The bits of "flags" that matter, and the compression they ask for: one
\* algorithm at most, and only FASTLZ is supported.
Flags == {"READ_ONLY", "ZLIB", "FASTLZ", "SKIPZ"}
nfc_compression(flags) ==
    LET alg == flags \cap {"ZLIB", "FASTLZ", "SKIPZ"}
    IN  IF alg = {} THEN "NONE"
        ELSE IF alg = {"FASTLZ"} THEN "FASTLZ" ELSE "NotImplementedError"

\* open, up to its first remote call; unsupported compression flags and a
\* write through a read-only connection raise instead.
OpenUnguarded(d, flags) ==
    /\ Handle /\ slot[d].st = "none"
    /\ nfc_compression(flags) # "NotImplementedError"
    /\ Set(d, [FreeSlot EXCEPT !.st = "ticket", !.ro = "READ_ONLY" \in flags])
    /\ UNCHANGED <<conn, sessions, issued, uses, adrift>>
Open(d, flags) ==
    LET ro == "READ_ONLY" \in flags IN
    /\ Handle /\ slot[d].st = "none"
    /\ nfc_compression(flags) # "NotImplementedError"
    /\ ro \/ ~conn.ro
    /\ Set(d, [FreeSlot EXCEPT !.st = "ticket", !.ro = ro])
    /\ UNCHANGED <<conn, sessions, issued, uses, adrift>>

\* get_nfc_ticket: GetVmFiles, or RandomAccessOpen for a writable disk.
GetTicketAgain(d, service) ==
    /\ slot[d].st = "ticket" /\ issued < MaxTickets
    /\ issued' = IF issued = 0 THEN 1 ELSE issued
    /\ Set(d, [slot[d] EXCEPT !.st = "tcp",
               !.ticket = [id |-> issued', rw |-> ~slot[d].ro, service |-> service]])
    /\ UNCHANGED <<conn, sessions, uses, adrift>>
GetTicket(d, service) ==
    /\ slot[d].st = "ticket" /\ issued < MaxTickets
    /\ issued' = issued + 1
    /\ Set(d, [slot[d] EXCEPT !.st = "tcp",
               !.ticket = [id |-> issued', rw |-> ~slot[d].ro, service |-> service]])
    /\ UNCHANGED <<conn, sessions, uses, adrift>>

\* connect_authd: the TCP connection.
ConnectTcp(d) ==
    /\ slot[d].st = "tcp"
    /\ Set(d, [slot[d] EXCEPT !.st = "banner", !.fds = @ \cup {"authd"}])
    /\ UNCHANGED <<conn, sessions, issued, uses, adrift>>

\* The 220 banner and the TLS handshake, which keeps the descriptor.
StartTls(d) ==
    /\ slot[d].st = "banner"
    /\ Set(d, [slot[d] EXCEPT !.st = "tls"])
    /\ UNCHANGED <<conn, sessions, issued, uses, adrift>>

\* The certificate has been checked; SESSION and BANNER go out together, as
\* authd does not answer SESSION.
PresentTicket(d) ==
    /\ slot[d].st = "tls"
    /\ Set(d, [slot[d] EXCEPT !.st = "session"])
    /\ uses' = [uses EXCEPT ![slot[d].ticket.id] = @ + 1]
    /\ UNCHANGED <<conn, sessions, issued, adrift>>

\* BANNER is answered: THUMBPRINT_SHA2 is sent.
BannerReply(d) ==
    /\ slot[d].st = "session"
    /\ Set(d, [slot[d] EXCEPT !.st = "thumbprint"])
    /\ UNCHANGED <<conn, sessions, issued, uses, adrift>>

\* "ssl" is added to a name that does not end so.
nfcssl_service_name(service) ==
    IF service = "vpxa-nfc" THEN "vpxa-nfcssl" ELSE service

\* The service of the PROXY command; tickets may leave it out.
SslAlways(service) == "vpxa-nfcssl"
ProxyService(service) ==
    LET name == IF service = "" THEN "vpxa-nfc" ELSE service
    IN  IF conn.ssl THEN nfcssl_service_name(name) ELSE name

\* THUMBPRINT_SHA2 is answered: PROXY names the service, and with it what
\* the server will expect on the connection.
ThumbprintReply(d) ==
    /\ slot[d].st = "thumbprint"
    /\ Set(d, [slot[d] EXCEPT !.st = "proxy",
               !.proxied = IF ProxyService(slot[d].ticket.service) = "vpxa-nfcssl"
                           THEN "tls" ELSE "plain"])
    /\ UNCHANGED <<conn, sessions, issued, uses, adrift>>

ProxyReply(d) ==
    /\ slot[d].st = "proxy"
    /\ Set(d, [slot[d] EXCEPT !.st = "authd"])
    /\ UNCHANGED <<conn, sessions, issued, uses, adrift>>

\* An exception leaves get_nfc_ticket or connect_authd, with descriptors f
\* open: authenticate logs out, open() has nothing of its own to undo.
AuthdRaisesLogout(d, f) ==
    /\ Set(d, [FreeSlot EXCEPT !.fds = f])
    /\ sessions' = sessions - 1
    /\ conn' = IF Session THEN NoConn ELSE conn
    /\ UNCHANGED <<issued, uses, adrift>>
AuthdRaises(d, f) ==
    /\ Set(d, [FreeSlot EXCEPT !.fds = f])
    /\ IF Session THEN conn' = NoConn /\ sessions' = sessions - 1
       ELSE UNCHANGED <<conn, sessions>>
    /\ UNCHANGED <<issued, uses, adrift>>

\* There is no ticket, or no connection to authd.
TicketFails(d) ==
    /\ slot[d].st \in {"ticket", "tcp"}
    /\ AuthdRaises(d, slot[d].fds)

\* The banner or the TLS handshake fails: the first except clause.
BannerFails(d) ==
    /\ slot[d].st = "banner"
    /\ AuthdRaises(d, slot[d].fds \ {"authd"})

\* The certificate or an answer is not the expected one, or none comes: the
\* second except clause.
AuthdRefuses(d) ==
    /\ slot[d].st \in {"tls", "session", "thumbprint", "proxy"}
    /\ AuthdRaises(d, slot[d].fds \ {"authd"})
-----------------------------------------------------------------------------
(* open_disk.                                                              *)

\* The arguments pass, and takeover_authd_socket duplicates the descriptor of
\* the authd socket.  With the session API read_only is chosen anew.
DupShares(d, ro) ==
    /\ slot[d].st = "authd"
    /\ Handle => ro = slot[d].ro
    /\ Set(d, [slot[d] EXCEPT !.st = "dup", !.ro = ro])
    /\ UNCHANGED <<conn, sessions, issued, uses, adrift>>
Dup(d, ro) ==
    /\ slot[d].st = "authd"
    /\ Handle => ro = slot[d].ro
    /\ Set(d, [slot[d] EXCEPT !.st = "dup", !.ro = ro, !.fds = @ \cup {"nfc"}])
    /\ UNCHANGED <<conn, sessions, issued, uses, adrift>>

\* Timeout and TCP_NODELAY are set and, for nbdssl, a TLS context is made.
TakeOver(d) ==
    /\ slot[d].st = "dup"
    /\ Set(d, IF conn.ssl THEN [slot[d] EXCEPT !.st = "wrap"]
              ELSE [slot[d] EXCEPT !.st = "nfc", !.layer = "plain"])
    /\ UNCHANGED <<conn, sessions, issued, uses, adrift>>

\* wrap_nfcssl_socket: the second TLS session, on the duplicate.
Wrap(d) ==
    /\ slot[d].st = "wrap"
    /\ Set(d, [slot[d] EXCEPT !.st = "nfc", !.layer = "tls"])
    /\ UNCHANGED <<conn, sessions, issued, uses, adrift>>

\* _handshake: parameters, version (3 or later), connection data, features.
Handshake(d) ==
    /\ slot[d].st = "nfc"
    /\ Set(d, [slot[d] EXCEPT !.st = "aio"])
    /\ UNCHANGED <<conn, sessions, issued, uses, adrift>>

\* _aio_prepare, and OPEN_FILE with the flags for read_only.
AioPrepare(d) ==
    /\ slot[d].st = "aio"
    /\ Set(d, [slot[d] EXCEPT !.st = "file",
               !.flags = IF slot[d].ro THEN "ro" ELSE "rw"])
    /\ UNCHANGED <<conn, sessions, issued, uses, adrift>>

\* _parse_open_reply: the disk is open.
FileOpened(d) ==
    /\ slot[d].st = "file"
    /\ Set(d, [slot[d] EXCEPT !.st = "open"])
    /\ UNCHANGED <<conn, sessions, issued, uses, adrift>>

\* An exception leaves open_disk with descriptors f open: open() closes the
\* authd socket, a session keeps it for its own close.
OpenDiskRaises(d, f) ==
    /\ Set(d, IF Handle THEN [FreeSlot EXCEPT !.fds = f \ {"authd"}]
              ELSE [slot[d] EXCEPT !.st = "authd", !.fds = f,
                                   !.layer = "", !.flags = ""])
    /\ UNCHANGED <<conn, sessions, issued, uses>>

\* An argument is refused, or the descriptor cannot be duplicated.
OpenDiskRejected(d) ==
    /\ slot[d].st = "authd"
    /\ OpenDiskRaises(d, slot[d].fds) /\ UNCHANGED adrift

\* The duplicate cannot be set up.  This is before the try of open_disk and
\* that of wrap_nfcssl_socket: nobody closes it.
SetUpFails(d) ==
    /\ slot[d].st = "dup"
    /\ OpenDiskRaises(d, slot[d].fds \ {"nfc"})
    /\ adrift' = adrift \cup {d}

\* The second TLS session fails: the except clause of wrap_nfcssl_socket.
WrapFailsOpen(d) ==
    /\ slot[d].st = "wrap"
    /\ OpenDiskRaises(d, slot[d].fds) /\ UNCHANGED adrift
WrapFails(d) ==
    /\ slot[d].st = "wrap"
    /\ OpenDiskRaises(d, slot[d].fds \ {"nfc"}) /\ UNCHANGED adrift

\* A handshake or OPEN_FILE fails: the except clause of open_disk.
NfcFails(d) ==
    /\ slot[d].st \in NfcStages
    /\ OpenDiskRaises(d, slot[d].fds \ {"nfc"}) /\ UNCHANGED adrift

\* The interpreter finalises the socket object that an exception dropped.
Collect(d) ==
    /\ d \in adrift
    /\ adrift' = adrift \ {d}
    /\ UNCHANGED <<conn, sessions, slot, issued, uses>>

\* NfcDisk.close, whether its round trips succeed or not; for a handle,
\* VixDiskLibHandle.close goes on to the authd socket.
CloseDisk(d) ==
    /\ slot[d].st = "open"
    /\ Set(d, IF conn.in
              THEN [slot[d] EXCEPT !.st = "closed",
                       !.fds = IF Handle THEN {} ELSE @ \ {"nfc"}]
              ELSE FreeSlot)
    /\ UNCHANGED <<conn, sessions, issued, uses, adrift>>

\* The end of the with statement of open(): close runs (again, maybe).
EndOpen(d) ==
    /\ Handle /\ slot[d].st = "closed"
    /\ Set(d, [FreeSlot EXCEPT !.fds = slot[d].fds])
    /\ UNCHANGED <<conn, sessions, issued, uses, adrift>>

Fails(d) ==
    \/ TicketFails(d) \/ BannerFails(d) \/ AuthdRefuses(d)
    \/ OpenDiskRejected(d) \/ SetUpFails(d) \/ WrapFails(d) \/ NfcFails(d)

Next ==
    \/ \E ro \in BOOLEAN :
          \/ \E m \in ModeLists, x \in VmxSpecs : Connect(ro, m, x)
          \/ \E ssl \in BOOLEAN, d \in Slots : Authenticate(d, ro, ssl)
    \/ Disconnect
    \/ \E d \in Slots :
          \/ \E flags \in SUBSET Flags : Open(d, flags)
          \/ \E ro \in BOOLEAN : Dup(d, ro)
          \/ \E service \in Services : GetTicket(d, service)
          \/ ConnectTcp(d) \/ StartTls(d) \/ PresentTicket(d) \/ BannerReply(d)
          \/ ThumbprintReply(d) \/ ProxyReply(d)
          \/ TakeOver(d) \/ Wrap(d) \/ Handshake(d) \/ AioPrepare(d) \/ FileOpened(d)
          \/ Fails(d) \/ Collect(d)
          \/ CloseDisk(d) \/ EndOpen(d) \/ SessionClose(d)

Spec == Init /\ [][Next]_vars
-----------------------------------------------------------------------------
(* Properties.                                                             *)

TypeOK ==
    /\ conn \in [in : BOOLEAN, api : {"handle", "session"}, ro : BOOLEAN,
                 ssl : BOOLEAN, modes : ModeList]
    /\ sessions \in Nat
    /\ slot \in [Slots -> Slot]
    /\ issued \in 0 .. MaxTickets /\ uses \in [1 .. MaxTickets -> Nat]
    /\ adrift \subseteq Slots

\* Whichever of the steps raises, the clauses that the exception passes leave
\* no VIM session logged in once the connection is gone, and no descriptor to
\* a slot that is not in use; with no disk left open, none at all.  The one
\* exception are the duplicates that were not set up yet (adrift): they wait
\* for the interpreter.
NothingLeaked ==
    /\ ~conn.in => sessions = 0
    /\ \A d \in Slots : slot[d].st = "none" => slot[d].fds = {}
    /\ (~conn.in /\ \A d \in Slots : slot[d].st # "open")
          => \A d \in Slots : slot[d].fds = {}

\* A ticket is good for one SESSION: no open, repeated or concurrent, ever
\* presents one that was used before.
TicketsUsedOnce == \A t \in 1 .. MaxTickets : uses[t] <= 1

\* A connection made read-only never obtains a writable ticket nor opens the
\* disk for writing, and through a handle only the holder of a writable
\* ticket does.
ReadOnlyRespected ==
    Handle => \A d \in Slots :
        /\ slot[d].flags = "rw" => slot[d].ticket.rw
        /\ conn.ro => ~slot[d].ticket.rw

\* The caller's list names plain "nbd", and "nbdssl" not before it.
AskedPlain(m) ==
    \E i \in DOMAIN m.list :
        m.list[i] = "nbd" /\ \A j \in 1 .. (i - 1) : m.list[j] # "nbdssl"

\* NFC is spoken in the way the caller asked for at connect, plain or in a
\* second TLS session, and in the way PROXY announced, given that a ticket
\* does not name an SSL service when plain "nbd" is asked for.
LayersAgree ==
    conn.in => \A d \in Slots : slot[d].st \in NfcStages \cup {"open"} =>
        /\ slot[d].layer = "plain" <=> AskedPlain(conn.modes)
        /\ conn.ssl \/ slot[d].ticket.service # "vpxa-nfcssl"
           => slot[d].layer = slot[d].proxied

\* Whoever talks to the server or has a disk open has a descriptor of the TCP
\* connection: closing the session under an open disk closes the authd
\* socket, and the duplicate keeps the connection.
ConnectionHeld ==
    \A d \in Slots :
        slot[d].st \in (AuthdStages \ {"ticket", "tcp"}) \cup NfcStages
                       \cup {"authd", "dup", "wrap", "open"}
        => slot[d].fds # {}
=============================================================================
