-------------------------- MODULE VixHandle_proofs --------------------------
(***************************************************************************)
(* The safety properties of VixHandle, for any number of disks and tickets *)
(* and any transport_modes lists.                                          *)
(***************************************************************************)
EXTENDS VixHandle, NaturalsInduction, WellFoundedInduction, TLAPS

\* Stages in which the ticket is there and has not been presented.
Unpresented == {"tcp", "banner", "tls"}
\* Stages after the PROXY command, and those in which NFC is spoken.
Speaking == NfcStages \cup {"open"}
Proxied == {"proxy", "authd", "dup", "wrap"} \cup Speaking

\* The layer that PROXY announces for a ticket's service.
Announced(service) ==
    IF ProxyService(service) = "vpxa-nfcssl" THEN "tls" ELSE "plain"

\* The descriptors that belong to a stage, which each clause relies on.
FdsOk(st, fds) ==
    /\ st \in {"none", "ticket", "tcp"} => fds = {}
    /\ st \in {"banner", "tls", "session", "thumbprint", "proxy", "authd"}
          => fds = {"authd"}
    /\ st \in {"dup", "wrap", "nfc", "aio", "file"} => fds = {"authd", "nfc"}
    /\ st = "open" => "nfc" \in fds

\* TypeOK but for the duplicates that nobody closes.
Shape ==
    /\ conn \in [in : BOOLEAN, api : {"handle", "session"}, ro : BOOLEAN,
                 ssl : BOOLEAN, modes : ModeList]
    /\ sessions \in Nat
    /\ slot \in [Slots -> Slot]
    /\ issued \in 0 .. MaxTickets /\ uses \in [1 .. MaxTickets -> Nat]

\* What holds of a slot by itself, given the connection.
Good(s) ==
    /\ s \in Slot /\ FdsOk(s.st, s.fds)
    /\ s.st = "none" => s.ro /\ s.fds = {} /\ s.flags = "" /\ ~s.ticket.rw
    /\ ~conn.in => s.st \in {"none", "open"}
    /\ Handle =>
          /\ s.st = "closed" => s.fds = {}
          /\ conn.ro => s.ro
          /\ s.ticket.rw => ~s.ro
          /\ s.st \notin {"none", "ticket"} => (s.ticket.rw <=> ~s.ro)
          /\ s.flags = "rw" => ~s.ro /\ s.st \notin {"none", "ticket"}
    /\ conn.in =>
          /\ s.st = "wrap" => conn.ssl
          /\ s.st \in Proxied => s.proxied = Announced(s.ticket.service)
          /\ s.st \in Speaking => s.layer = IF conn.ssl THEN "tls" ELSE "plain"

Connected ==
    /\ sessions = IF conn.in THEN 1 ELSE 0
    /\ conn.in => (conn.ssl <=> ~AskedPlain(conn.modes))

\* An NfcAuthSession has one slot in use.
Alone ==
    Session => \A d, e \in Slots :
        slot[d].st # "none" /\ slot[e].st # "none" => d = e

\* A ticket that has not been presented is unused and in one slot only.
Tickets ==
    /\ \A t \in 1 .. MaxTickets :
          uses[t] \in {0, 1} /\ (t > issued => uses[t] = 0)
    /\ \A d \in Slots : slot[d].st \in Unpresented =>
          slot[d].ticket.id \in 1 .. issued /\ uses[slot[d].ticket.id] = 0
    /\ \A d, e \in Slots :
          slot[d].st \in Unpresented /\ slot[e].st \in Unpresented /\ d # e
          => slot[d].ticket.id # slot[e].ticket.id

HandleInv ==
    /\ Shape /\ Connected /\ Alone /\ Tickets
    /\ \A d \in Slots : Good(slot[d])
-----------------------------------------------------------------------------
(* The choice of the transport.                                            *)

\* A nonempty set of naturals has a least element.
LEMMA LeastIndex ==
    ASSUME NEW S \in SUBSET Nat, S # {}
    PROVE  \E m \in S : \A k \in S : m <= k
<1> DEFINE Less == OpToRel(<, Nat)
<1>1. IsWellFoundedOn(Less, Nat) /\ Less = {p \in Nat \X Nat : p[1] < p[2]}
  BY NatLessThanWellFounded DEF OpToRel
<1> HIDE DEF Less
<1>2. PICK m \in S : \A k \in S : <<k, m>> \notin Less
  BY <1>1, WFMin
<1>3. \A k \in S : ~(k < m)
  BY <1>1, <1>2
<1> QED
  BY <1>3

\* _select_transport picks nbdssl unless plain nbd is named, and first.
LEMMA TransportAsAsked ==
    ASSUME NEW m \in ModeLists, select_transport(m) # "NotImplementedError"
    PROVE  select_transport(m) = "nbdssl" <=> ~AskedPlain(m)
<1> DEFINE S == {i \in DOMAIN m.list : m.list[i] \in {"nbdssl", "nbd"}}
           first == CHOOSE i \in S : \A j \in S : i <= j
<1>1. m.list \in Seq(ModeNames) /\ (~m.given => m.list = <<>>)
  BY HandleConstants DEF ModeList
<1>2. DOMAIN m.list = 1 .. Len(m.list) /\ Len(m.list) \in Nat
  BY <1>1
<1>3. CASE ~m.given
  <2>1. DOMAIN m.list = {}
    BY <1>1, <1>3
  <2> QED BY <1>3, <2>1 DEF select_transport, AskedPlain
<1>4. CASE m.given
  <2>1. S # {} /\ select_transport(m) = m.list[first]
    BY <1>4 DEF select_transport
  <2>2. S \in SUBSET Nat
    BY <1>2
  <2>3. first \in S /\ \A j \in S : first <= j
    <3>1. \E i \in S : \A j \in S : i <= j
      BY <2>1, <2>2, LeastIndex
    <3> QED BY <3>1
  <2> HIDE DEF first
  <2>4. first \in 1 .. Len(m.list) /\ m.list[first] \in {"nbdssl", "nbd"}
    BY <1>2, <2>3
  <2>5. ASSUME m.list[first] = "nbd" PROVE AskedPlain(m)
    <3>1. \A j \in 1 .. (first - 1) : m.list[j] # "nbdssl"
      BY <1>2, <2>3, <2>4
    <3> QED BY <1>2, <2>4, <2>5, <3>1 DEF AskedPlain
  <2>6. ASSUME m.list[first] = "nbdssl", AskedPlain(m) PROVE FALSE
    <3>1. PICK i \in DOMAIN m.list :
             m.list[i] = "nbd" /\ \A j \in 1 .. (i - 1) : m.list[j] # "nbdssl"
      BY <2>6 DEF AskedPlain
    <3>2. i \in S /\ first <= i /\ first # i
      BY <2>3, <2>6, <3>1
    <3>3. first \in 1 .. (i - 1)
      BY <1>2, <2>4, <3>1, <3>2
    <3> QED BY <2>6, <3>1, <3>3
  <2> QED BY <2>1, <2>4, <2>5, <2>6
<1> QED BY <1>3, <1>4
-----------------------------------------------------------------------------
(* Steps of one slot.                                                      *)

LEMMA FreeIsGood == Good(FreeSlot)
<1>1. FreeSlot \in Slot
  BY HandleConstants DEF FreeSlot, Slot, Stages, AuthdStages, NfcStages, NoTicket,
                         Ticket, Services, Layers
<1>2. /\ FreeSlot.st = "none" /\ FreeSlot.ro = TRUE /\ FreeSlot.fds = {}
      /\ FreeSlot.flags = "" /\ FreeSlot.ticket.rw = FALSE
  BY DEF FreeSlot, NoTicket
<1> QED
  BY <1>1, <1>2 DEF Good, Proxied, Speaking, NfcStages, FdsOk

\* Slot d becomes s and nothing else changes.
LEMMA SlotStep ==
    ASSUME HandleInv, NEW d \in Slots, NEW s, Set(d, s), Good(s),
           UNCHANGED <<conn, sessions, issued, uses>>,
           Handle \/ ~conn.in \/ slot[d].st # "none",
           s.st \in Unpresented =>
               slot[d].st \in Unpresented /\ s.ticket = slot[d].ticket
    PROVE  HandleInv'
<1>1. slot' = [slot EXCEPT ![d] = s] /\ slot \in [Slots -> Slot] /\ s \in Slot
  BY DEF Set, HandleInv, Shape, Good
<1>2. slot'[d] = s /\ \A e \in Slots : e # d => slot'[e] = slot[e]
  BY <1>1
<1>3. Shape'
  BY <1>1 DEF HandleInv, Shape
<1>4. Connected'
  BY DEF HandleInv, Connected
<1>5. Alone'
  BY <1>2 DEF HandleInv, Alone, Handle, Session
<1>6. Tickets'
  BY <1>2 DEF HandleInv, Tickets
<1>7. ASSUME NEW e \in Slots PROVE Good(slot[e])'
  <2>1. Good(slot'[e])
    BY <1>2 DEF HandleInv
  <2> QED BY <2>1 DEF Good, Handle, Announced, ProxyService, FdsOk
<1> QED BY <1>3, <1>4, <1>5, <1>6, <1>7 DEF HandleInv

\* Facts of a slot in use that the steps below start from.
LEMMA InUse ==
    ASSUME HandleInv, NEW d \in Slots
    PROVE  /\ slot[d] \in Slot /\ Good(slot[d])
           /\ conn \in [in : BOOLEAN, api : {"handle", "session"}, ro : BOOLEAN,
                        ssl : BOOLEAN, modes : ModeList]
           /\ slot[d].st \notin {"none", "open"} => conn.in
BY DEF HandleInv, Shape, Good

\* A slot that goes on to another stage, with the same ticket and mode.
LEMMA StageStep ==
    ASSUME HandleInv, NEW d \in Slots, NEW s,
           s \in Slot, FdsOk(s.st, s.fds), s.ro = slot[d].ro, s.ticket = slot[d].ticket,
           slot[d].st \notin {"none", "ticket", "open"}, s.st \notin {"none", "ticket"},
           Handle => /\ s.st = "closed" => s.fds = {}
                     /\ s.flags = "rw" => ~s.ro,
           s.st = "wrap" => conn.ssl,
           s.st \in Proxied => s.proxied = Announced(s.ticket.service),
           s.st \in Speaking => s.layer = IF conn.ssl THEN "tls" ELSE "plain"
    PROVE  Good(s)
BY InUse DEF Good

LEMMA OpenStep ==
    ASSUME HandleInv, NEW d \in Slots, NEW flags \in SUBSET Flags, Open(d, flags)
    PROVE  HandleInv'
<1> DEFINE ro == "READ_ONLY" \in flags
           s == [FreeSlot EXCEPT !.st = "ticket", !.ro = ro]
<1>1. /\ FreeSlot \in Slot /\ FreeSlot.flags = "" /\ FreeSlot.ticket.rw = FALSE
      /\ FreeSlot.fds = {}
  BY FreeIsGood DEF Good, FreeSlot, NoTicket
<1>2. ro \in BOOLEAN /\ (conn.ro => ro) /\ Handle
  BY InUse DEF Open
<1> HIDE DEF ro
<1>3. /\ s \in Slot /\ s.st = "ticket" /\ s.ro = ro /\ s.flags = ""
      /\ s.ticket.rw = FALSE /\ s.fds = {}
  BY <1>1, <1>2 DEF Slot, Stages, AuthdStages
<1> HIDE DEF s
<1>4. Good(s)
  BY <1>2, <1>3 DEF Good, Handle, Proxied, Speaking, NfcStages, FdsOk
<1>5. Set(d, s) /\ UNCHANGED <<conn, sessions, issued, uses>>
  BY DEF Open, s, ro
<1> QED BY <1>2, <1>3, <1>4, <1>5, SlotStep DEF Unpresented

LEMMA GetTicketStep ==
    ASSUME HandleInv, NEW d \in Slots, NEW service \in Services, GetTicket(d, service)
    PROVE  HandleInv'
<1> DEFINE t == [id |-> issued', rw |-> ~slot[d].ro, service |-> service]
           s == [slot[d] EXCEPT !.st = "tcp", !.ticket = t]
<1>1. /\ slot[d].st = "ticket" /\ issued' = issued + 1 /\ slot' = [slot EXCEPT ![d] = s]
      /\ issued' \in 1 .. MaxTickets /\ issued \in 0 .. MaxTickets
      /\ UNCHANGED <<conn, sessions, uses>> /\ slot \in [Slots -> Slot]
      /\ uses \in [1 .. MaxTickets -> Nat]
  BY HandleConstants DEF GetTicket, Set, HandleInv, Shape
<1>2. slot[d] \in Slot /\ slot[d].ro \in BOOLEAN /\ conn.in
  BY <1>1, InUse DEF Slot
<1>3. t \in Ticket /\ t.id = issued' /\ t.rw = ~slot[d].ro
  BY <1>1, <1>2 DEF Ticket
<1> HIDE DEF t
<1>4. /\ s \in Slot /\ s.st = "tcp" /\ s.ticket = t /\ s.ro = slot[d].ro
      /\ s.flags = slot[d].flags /\ s.fds = slot[d].fds
  BY <1>2, <1>3 DEF Slot, Stages, AuthdStages
<1> HIDE DEF s
<1>5. Good(s)
  <2>1. FdsOk(s.st, s.fds)
    BY <1>1, <1>4, InUse DEF Good, FdsOk
  <2>2. s.st \notin {"none", "closed", "wrap", "open"} \cup Proxied \cup Speaking
    BY <1>4 DEF Proxied, Speaking, NfcStages
  <2>3. Handle => /\ conn.ro => s.ro
                  /\ (s.ticket.rw <=> ~s.ro) /\ (s.flags = "rw" => ~s.ro)
    BY <1>1, <1>2, <1>3, <1>4, InUse DEF Good
  <2> QED BY <1>2, <1>4, <2>1, <2>2, <2>3 DEF Good
<1>6. slot'[d] = s /\ \A e \in Slots : e # d => slot'[e] = slot[e]
  BY <1>1
<1>7. Shape'
  BY <1>1, <1>4 DEF HandleInv, Shape
<1>8. Connected' /\ Alone'
  BY <1>1, <1>6 DEF HandleInv, Connected, Alone, Session
<1>9. Tickets'
  BY <1>1, <1>3, <1>4, <1>6 DEF HandleInv, Tickets, Unpresented
<1>10. ASSUME NEW e \in Slots PROVE Good(slot[e])'
  <2>1. Good(slot'[e])
    BY <1>5, <1>6 DEF HandleInv
  <2> QED BY <1>1, <2>1 DEF Good, Handle, Announced, ProxyService, FdsOk
<1> QED BY <1>7, <1>8, <1>9, <1>10 DEF HandleInv

LEMMA PresentStep ==
    ASSUME HandleInv, NEW d \in Slots, PresentTicket(d) PROVE HandleInv'
<1> DEFINE s == [slot[d] EXCEPT !.st = "session"]
           id == slot[d].ticket.id
<1>1. /\ slot[d].st = "tls" /\ slot' = [slot EXCEPT ![d] = s]
      /\ uses' = [uses EXCEPT ![id] = @ + 1]
      /\ UNCHANGED <<conn, sessions, issued>> /\ slot \in [Slots -> Slot]
      /\ issued \in 0 .. MaxTickets /\ uses \in [1 .. MaxTickets -> Nat]
  BY DEF PresentTicket, Set, HandleInv, Shape
<1>2. slot[d] \in Slot /\ conn.in /\ id \in 1 .. issued /\ uses[id] = 0
  BY <1>1, InUse DEF HandleInv, Tickets, Unpresented
<1>3. /\ s \in Slot /\ s.st = "session" /\ s.ticket = slot[d].ticket
      /\ s.ro = slot[d].ro /\ s.flags = slot[d].flags /\ s.fds = slot[d].fds
  BY <1>2 DEF Slot, Stages, AuthdStages
<1> HIDE DEF s
<1>4. Good(s)
  <2>1. FdsOk(s.st, s.fds)
    BY <1>1, <1>3, InUse DEF Good, FdsOk
  <2>2. s.st \notin {"none", "closed", "wrap", "open"} \cup Proxied \cup Speaking
    BY <1>3 DEF Proxied, Speaking, NfcStages
  <2>3. Handle => /\ conn.ro => s.ro
                  /\ (s.ticket.rw <=> ~s.ro) /\ (s.flags = "rw" => ~s.ro)
    BY <1>1, <1>3, InUse DEF Good
  <2> QED BY <1>2, <1>3, <2>1, <2>2, <2>3 DEF Good
<1>5. slot'[d] = s /\ \A e \in Slots : e # d => slot'[e] = slot[e]
  BY <1>1
<1>6. /\ uses' \in [1 .. MaxTickets -> Nat] /\ uses'[id] = 1
      /\ \A t \in 1 .. MaxTickets : t # id => uses'[t] = uses[t]
  <2>1. id \in 1 .. MaxTickets /\ uses[id] = 0
    BY <1>1, <1>2, HandleConstants
  <2> HIDE DEF id
  <2> QED BY <1>1, <2>1
<1>7. Shape'
  BY <1>1, <1>3, <1>6 DEF HandleInv, Shape
<1>8. Connected' /\ Alone'
  BY <1>1, <1>5 DEF HandleInv, Connected, Alone, Session
<1>9. Tickets'
  <2>1. \A t \in 1 .. MaxTickets : uses'[t] \in {0, 1} /\ (t > issued => uses'[t] = 0)
    BY <1>1, <1>2, <1>6 DEF HandleInv, Tickets
  <2>2. ASSUME NEW e \in Slots, slot'[e].st \in Unpresented
        PROVE  e # d /\ slot'[e] = slot[e] /\ slot[e].ticket.id \in 1 .. issued
               /\ uses'[slot[e].ticket.id] = 0
    <3>1. e # d /\ slot'[e] = slot[e]
      BY <1>3, <1>5, <2>2 DEF Unpresented
    <3>2. slot[e].ticket.id # id
      BY <1>1, <2>2, <3>1 DEF HandleInv, Tickets, Unpresented
    <3> QED BY <1>1, <1>6, <2>2, <3>1, <3>2 DEF HandleInv, Tickets
  <2>3. \A e, g \in Slots :
           slot'[e].st \in Unpresented /\ slot'[g].st \in Unpresented /\ e # g
           => slot'[e].ticket.id # slot'[g].ticket.id
    BY <2>2 DEF HandleInv, Tickets
  <2> QED BY <1>1, <2>1, <2>2, <2>3 DEF Tickets
<1>10. ASSUME NEW e \in Slots PROVE Good(slot[e])'
  <2>1. Good(slot'[e])
    BY <1>4, <1>5 DEF HandleInv
  <2> QED BY <1>1, <2>1 DEF Good, Handle, Announced, ProxyService, FdsOk
<1> QED BY <1>7, <1>8, <1>9, <1>10 DEF HandleInv

\* A stage of the handshakes ends and the next begins.
LEMMA Onward ==
    ASSUME HandleInv, NEW d \in Slots, NEW k \in Slot, Set(d, k),
           UNCHANGED <<conn, sessions, issued, uses>>,
           FdsOk(k.st, k.fds),
           k.ro = slot[d].ro, k.ticket = slot[d].ticket, k.flags = slot[d].flags,
           k.proxied = slot[d].proxied, k.layer = slot[d].layer,
           slot[d].st \notin {"none", "ticket", "open"},
           k.st \notin {"none", "ticket", "closed"},
           k.st = "wrap" => conn.ssl,
           k.st \in Unpresented => slot[d].st \in Unpresented,
           k.st \in Proxied => slot[d].st \in Proxied,
           k.st \in Speaking => slot[d].st \in Speaking
    PROVE  HandleInv'
<1>1. slot[d] \in Slot /\ Good(slot[d]) /\ conn.in
  BY InUse
<1>2. Good(k)
  BY <1>1, StageStep DEF Good
<1> QED BY <1>2, SlotStep

LEMMA HandshakeSteps ==
    ASSUME HandleInv, NEW d \in Slots,
           \/ ConnectTcp(d) \/ StartTls(d) \/ BannerReply(d) \/ ProxyReply(d)
           \/ Handshake(d) \/ FileOpened(d)
    PROVE  HandleInv'
<1>1. slot[d] \in Slot /\ FdsOk(slot[d].st, slot[d].fds)
  BY InUse DEF Good
<1> USE DEF FdsOk, Stages, AuthdStages, NfcStages, Unpresented, Proxied, Speaking
<1>2. CASE ConnectTcp(d)
  <2> DEFINE k == [slot[d] EXCEPT !.st = "banner", !.fds = @ \cup {"authd"}]
  <2>1. /\ slot[d].st = "tcp" /\ Set(d, k)
        /\ UNCHANGED <<conn, sessions, issued, uses>>
    BY <1>2 DEF ConnectTcp
  <2>2. /\ k \in Slot /\ k.st = "banner" /\ k.ro = slot[d].ro
        /\ FdsOk(k.st, k.fds)
        /\ k.ticket = slot[d].ticket /\ k.flags = slot[d].flags
        /\ k.proxied = slot[d].proxied /\ k.layer = slot[d].layer
    BY <1>1, <2>1 DEF Slot
  <2> HIDE DEF k
  <2> QED BY <2>1, <2>2, Onward
<1>3. CASE BannerReply(d)
  <2> DEFINE k == [slot[d] EXCEPT !.st = "thumbprint"]
  <2>1. /\ slot[d].st = "session" /\ Set(d, k)
        /\ UNCHANGED <<conn, sessions, issued, uses>>
    BY <1>3 DEF BannerReply
  <2>2. /\ k \in Slot /\ k.st = "thumbprint" /\ k.ro = slot[d].ro
        /\ FdsOk(k.st, k.fds)
        /\ k.ticket = slot[d].ticket /\ k.flags = slot[d].flags
        /\ k.proxied = slot[d].proxied /\ k.layer = slot[d].layer
    BY <1>1, <2>1 DEF Slot
  <2> HIDE DEF k
  <2> QED BY <2>1, <2>2, Onward
<1>4. CASE ProxyReply(d)
  <2> DEFINE k == [slot[d] EXCEPT !.st = "authd"]
  <2>1. /\ slot[d].st = "proxy" /\ Set(d, k)
        /\ UNCHANGED <<conn, sessions, issued, uses>>
    BY <1>4 DEF ProxyReply
  <2>2. /\ k \in Slot /\ k.st = "authd" /\ k.ro = slot[d].ro
        /\ FdsOk(k.st, k.fds)
        /\ k.ticket = slot[d].ticket /\ k.flags = slot[d].flags
        /\ k.proxied = slot[d].proxied /\ k.layer = slot[d].layer
    BY <1>1, <2>1 DEF Slot
  <2> HIDE DEF k
  <2> QED BY <2>1, <2>2, Onward
<1>5. CASE Handshake(d)
  <2> DEFINE k == [slot[d] EXCEPT !.st = "aio"]
  <2>1. /\ slot[d].st = "nfc" /\ Set(d, k)
        /\ UNCHANGED <<conn, sessions, issued, uses>>
    BY <1>5 DEF Handshake
  <2>2. /\ k \in Slot /\ k.st = "aio" /\ k.ro = slot[d].ro
        /\ FdsOk(k.st, k.fds)
        /\ k.ticket = slot[d].ticket /\ k.flags = slot[d].flags
        /\ k.proxied = slot[d].proxied /\ k.layer = slot[d].layer
    BY <1>1, <2>1 DEF Slot
  <2> HIDE DEF k
  <2> QED BY <2>1, <2>2, Onward
<1>6. CASE FileOpened(d)
  <2> DEFINE k == [slot[d] EXCEPT !.st = "open"]
  <2>1. /\ slot[d].st = "file" /\ Set(d, k)
        /\ UNCHANGED <<conn, sessions, issued, uses>>
    BY <1>6 DEF FileOpened
  <2>2. /\ k \in Slot /\ k.st = "open" /\ k.ro = slot[d].ro
        /\ FdsOk(k.st, k.fds)
        /\ k.ticket = slot[d].ticket /\ k.flags = slot[d].flags
        /\ k.proxied = slot[d].proxied /\ k.layer = slot[d].layer
    BY <1>1, <2>1 DEF Slot
  <2> HIDE DEF k
  <2> QED BY <2>1, <2>2, Onward
<1>7. CASE StartTls(d)
  <2> DEFINE k == [slot[d] EXCEPT !.st = "tls"]
  <2>1. /\ slot[d].st = "banner" /\ Set(d, k)
        /\ UNCHANGED <<conn, sessions, issued, uses>>
    BY <1>7 DEF StartTls
  <2>2. /\ k \in Slot /\ k.st = "tls" /\ k.ro = slot[d].ro
        /\ FdsOk(k.st, k.fds)
        /\ k.ticket = slot[d].ticket /\ k.flags = slot[d].flags
        /\ k.proxied = slot[d].proxied /\ k.layer = slot[d].layer
    BY <1>1, <2>1 DEF Slot
  <2> HIDE DEF k
  <2> QED BY <2>1, <2>2, Onward
<1> QED BY <1>2, <1>3, <1>4, <1>5, <1>6, <1>7

LEMMA ThumbprintStep ==
    ASSUME HandleInv, NEW d \in Slots, ThumbprintReply(d) PROVE HandleInv'
<1> DEFINE s == [slot[d] EXCEPT !.st = "proxy",
                                !.proxied = Announced(slot[d].ticket.service)]
<1>1. slot[d] \in Slot /\ Good(slot[d]) /\ slot[d].st = "thumbprint"
  BY InUse DEF ThumbprintReply
<1>2. /\ s \in Slot /\ s.st = "proxy" /\ s.ro = slot[d].ro
      /\ s.ticket = slot[d].ticket /\ s.flags = slot[d].flags
      /\ s.proxied = Announced(s.ticket.service) /\ s.fds = slot[d].fds
  BY <1>1 DEF Slot, Stages, AuthdStages, Layers, Announced
<1>3. Set(d, s) /\ UNCHANGED <<conn, sessions, issued, uses>>
  BY DEF ThumbprintReply, Announced
<1> HIDE DEF s
<1>4. Good(s)
  BY <1>1, <1>2, StageStep DEF Good, Speaking, NfcStages, FdsOk
<1> QED BY <1>1, <1>2, <1>3, <1>4, SlotStep DEF Unpresented

LEMMA DupStep ==
    ASSUME HandleInv, NEW d \in Slots, NEW ro \in BOOLEAN, Dup(d, ro)
    PROVE  HandleInv'
<1> DEFINE s == [slot[d] EXCEPT !.st = "dup", !.ro = ro, !.fds = @ \cup {"nfc"}]
<1>1. /\ slot[d] \in Slot /\ Good(slot[d]) /\ slot[d].st = "authd" /\ conn.in
      /\ Handle => ro = slot[d].ro
  BY InUse DEF Dup
<1>2. Set(d, s) /\ UNCHANGED <<conn, sessions, issued, uses>>
  BY DEF Dup
<1>3. slot[d].fds = {"authd"}
  BY <1>1 DEF Good, FdsOk
<1>4. /\ s \in Slot /\ s.st = "dup" /\ s.ro = ro /\ s.fds = {"authd", "nfc"}
      /\ s.ticket = slot[d].ticket /\ s.flags = slot[d].flags
      /\ s.proxied = slot[d].proxied
  BY <1>1, <1>3 DEF Slot, Stages
<1> HIDE DEF s
<1>5. Good(s)
  BY <1>1, <1>4 DEF Good, Proxied, Speaking, NfcStages, FdsOk
<1> QED BY <1>1, <1>2, <1>4, <1>5, SlotStep DEF Unpresented

\* The duplicate gets its layer.
LEMMA LayerStep ==
    ASSUME HandleInv, NEW d \in Slots, slot[d].st \in {"dup", "wrap"},
           NEW layer \in Layers, layer = IF conn.ssl THEN "tls" ELSE "plain",
           Set(d, [slot[d] EXCEPT !.st = "nfc", !.layer = layer]),
           UNCHANGED <<conn, sessions, issued, uses>>
    PROVE  HandleInv'
<1> DEFINE s == [slot[d] EXCEPT !.st = "nfc", !.layer = layer]
<1>1. slot[d] \in Slot /\ Good(slot[d]) /\ conn.in
  BY InUse
<1>2. /\ s \in Slot /\ s.st = "nfc" /\ s.ro = slot[d].ro /\ s.layer = layer
      /\ s.ticket = slot[d].ticket /\ s.flags = slot[d].flags
      /\ s.proxied = slot[d].proxied /\ s.fds = slot[d].fds
  BY <1>1 DEF Slot, Stages, NfcStages
<1>3. Set(d, s)
  OBVIOUS
<1> HIDE DEF s
<1>4. Good(s)
  BY <1>1, <1>2 DEF Good, Proxied, Speaking, NfcStages, FdsOk
<1> QED BY <1>1, <1>2, <1>3, <1>4, SlotStep DEF Unpresented

LEMMA WrapStep ==
    ASSUME HandleInv, NEW d \in Slots, TakeOver(d) \/ Wrap(d),
           Wrap(d) => conn.ssl
    PROVE  HandleInv'
<1>1. "tls" \in Layers /\ "plain" \in Layers
  BY DEF Layers
<1>2. CASE Wrap(d)
  BY <1>1, <1>2, LayerStep DEF Wrap
<1>3. CASE TakeOver(d) /\ ~conn.ssl
  BY <1>1, <1>3, LayerStep DEF TakeOver
<1>4. CASE TakeOver(d) /\ conn.ssl
  <2> DEFINE k == [slot[d] EXCEPT !.st = "wrap"]
  <2>1. /\ slot[d].st = "dup" /\ Set(d, k)
        /\ UNCHANGED <<conn, sessions, issued, uses>>
    BY <1>4 DEF TakeOver
  <2>2. slot[d] \in Slot /\ Good(slot[d])
    BY InUse
  <2>3. /\ k \in Slot /\ k.st = "wrap" /\ k.ro = slot[d].ro /\ k.fds = slot[d].fds
        /\ k.ticket = slot[d].ticket /\ k.flags = slot[d].flags
        /\ k.proxied = slot[d].proxied /\ k.layer = slot[d].layer
    BY <2>2 DEF Slot, Stages
  <2> HIDE DEF k
  <2>4. FdsOk(k.st, k.fds)
    BY <2>1, <2>2, <2>3 DEF Good, FdsOk
  <2> QED BY <1>4, <2>1, <2>3, <2>4, Onward DEF Unpresented, Proxied, Speaking, NfcStages
<1> QED BY <1>2, <1>3, <1>4

LEMMA AioPrepareStep ==
    ASSUME HandleInv, NEW d \in Slots, AioPrepare(d) PROVE HandleInv'
<1> DEFINE flags == IF slot[d].ro THEN "ro" ELSE "rw"
           s == [slot[d] EXCEPT !.st = "file", !.flags = flags]
<1>1. slot[d] \in Slot /\ Good(slot[d]) /\ slot[d].st = "aio"
  BY InUse DEF AioPrepare
<1>2. flags \in {"ro", "rw"} /\ (flags = "rw" => ~slot[d].ro)
  OBVIOUS
<1>3. Set(d, s) /\ UNCHANGED <<conn, sessions, issued, uses>>
  BY DEF AioPrepare
<1> HIDE DEF flags
<1>4. /\ s \in Slot /\ s.st = "file" /\ s.ro = slot[d].ro /\ s.flags = flags
      /\ s.ticket = slot[d].ticket /\ s.layer = slot[d].layer
      /\ s.proxied = slot[d].proxied /\ s.fds = slot[d].fds
  BY <1>1, <1>2 DEF Slot, Stages, NfcStages
<1> HIDE DEF s
<1>5. Good(s)
  <2>1. FdsOk(s.st, s.fds) /\ conn.in
    BY <1>1, <1>4, InUse DEF Good, FdsOk
  <2>2. s.st \in Proxied /\ s.st \in Speaking
    BY <1>4 DEF Proxied, Speaking, NfcStages
  <2>3. slot[d].st \in Proxied /\ slot[d].st \in Speaking
    BY <1>1 DEF Proxied, Speaking, NfcStages
  <2>4. /\ s.proxied = Announced(s.ticket.service)
        /\ s.layer = IF conn.ssl THEN "tls" ELSE "plain"
    BY <1>1, <1>4, <2>1, <2>3 DEF Good
  <2>5. Handle => /\ conn.ro => s.ro
                  /\ (s.ticket.rw <=> ~s.ro) /\ (s.flags = "rw" => ~s.ro)
    BY <1>1, <1>2, <1>4 DEF Good
  <2> QED BY <1>4, <2>1, <2>2, <2>4, <2>5 DEF Good
<1> QED BY <1>1, <1>3, <1>4, <1>5, SlotStep DEF Unpresented

\* The slot is given up, the connection stays.
LEMMA FreeStep ==
    ASSUME HandleInv, NEW d \in Slots, Set(d, FreeSlot),
           UNCHANGED <<conn, sessions, issued, uses>>, slot[d].st # "none"
    PROVE  HandleInv'
<1>1. FreeSlot.st = "none"
  BY DEF FreeSlot
<1> QED BY <1>1, FreeIsGood, SlotStep DEF Unpresented

LEMMA FreeAgain == [FreeSlot EXCEPT !.fds = {}] = FreeSlot
<1>1. FreeSlot \in Slot /\ FreeSlot.fds = {}
  BY FreeIsGood DEF Good, FreeSlot
<1>2. ASSUME NEW k \in Slot, k.fds = {} PROVE [k EXCEPT !.fds = {}] = k
  BY <1>2 DEF Slot
<1> QED BY <1>1, <1>2

\* An exception has left open_disk, whose clauses have closed all but the
\* descriptor of authd.
LEMMA OpenDiskRaisesStep ==
    ASSUME HandleInv, NEW d \in Slots,
           slot[d].st \in {"authd", "dup", "wrap", "nfc", "aio", "file"},
           NEW f, f = {"authd"}, OpenDiskRaises(d, f)
    PROVE  HandleInv'
<1> DEFINE s == [slot[d] EXCEPT !.st = "authd", !.fds = f, !.layer = "", !.flags = ""]
<1>1. slot[d] \in Slot /\ Good(slot[d]) /\ conn.in
  BY InUse
<1>2. CASE Handle
  <2>1. f \ {"authd"} = {}
    OBVIOUS
  <2>2. Set(d, FreeSlot) /\ UNCHANGED <<conn, sessions, issued, uses>>
    BY <1>2, <2>1, FreeAgain DEF OpenDiskRaises
  <2> QED BY <2>2, FreeStep
<1>3. CASE ~Handle
  <2>1. Set(d, s) /\ UNCHANGED <<conn, sessions, issued, uses>>
    BY <1>3 DEF OpenDiskRaises
  <2>2. /\ s \in Slot /\ s.st = "authd" /\ s.ticket = slot[d].ticket
        /\ s.proxied = slot[d].proxied /\ s.fds = {"authd"}
    BY <1>1 DEF Slot, Stages, Layers
  <2> HIDE DEF s
  <2>3. Good(s)
    BY <1>1, <1>3, <2>2 DEF Good, Proxied, Speaking, NfcStages, FdsOk
  <2> QED BY <1>1, <2>1, <2>2, <2>3, SlotStep DEF Unpresented
<1> QED BY <1>2, <1>3

LEMMA OpenDiskFailsStep ==
    ASSUME HandleInv, NEW d \in Slots,
           OpenDiskRejected(d) \/ SetUpFails(d) \/ WrapFails(d) \/ NfcFails(d)
    PROVE  HandleInv'
<1>1. Good(slot[d])
  BY InUse
<1>2. CASE OpenDiskRejected(d)
  <2>1. slot[d].st = "authd" /\ slot[d].fds = {"authd"}
    BY <1>1, <1>2 DEF OpenDiskRejected, Good, FdsOk
  <2> QED BY <1>2, <2>1, OpenDiskRaisesStep DEF OpenDiskRejected
<1>3. CASE SetUpFails(d) \/ WrapFails(d) \/ NfcFails(d)
  <2>1. /\ slot[d].st \in {"dup", "wrap", "nfc", "aio", "file"}
        /\ OpenDiskRaises(d, slot[d].fds \ {"nfc"})
    BY <1>3 DEF SetUpFails, WrapFails, NfcFails, NfcStages
  <2>2. slot[d].fds \ {"nfc"} = {"authd"}
    BY <1>1, <2>1 DEF Good, FdsOk
  <2> QED BY <2>1, <2>2, OpenDiskRaisesStep
<1> QED BY <1>2, <1>3

LEMMA CloseDiskStep ==
    ASSUME HandleInv, NEW d \in Slots, CloseDisk(d) PROVE HandleInv'
<1> DEFINE fds == IF Handle THEN {} ELSE slot[d].fds \ {"nfc"}
           s == [slot[d] EXCEPT !.st = "closed", !.fds = fds]
<1>1. slot[d] \in Slot /\ Good(slot[d]) /\ slot[d].st = "open"
  BY InUse DEF CloseDisk
<1>2. CASE ~conn.in
  BY <1>1, <1>2, FreeStep DEF CloseDisk
<1>3. CASE conn.in
  <2>1. Set(d, s) /\ UNCHANGED <<conn, sessions, issued, uses>>
    BY <1>3 DEF CloseDisk
  <2>2. fds \in SUBSET {"authd", "nfc"} /\ (Handle => fds = {})
    BY <1>1 DEF Slot
  <2> HIDE DEF fds
  <2>3. /\ s \in Slot /\ s.st = "closed" /\ s.fds = fds /\ s.ro = slot[d].ro
        /\ s.ticket = slot[d].ticket /\ s.flags = slot[d].flags
    BY <1>1, <2>2 DEF Slot, Stages
  <2> HIDE DEF s
  <2>4. Good(s)
    BY <1>1, <1>3, <2>2, <2>3 DEF Good, Proxied, Speaking, NfcStages, FdsOk
  <2> QED BY <1>1, <2>1, <2>3, <2>4, SlotStep DEF Unpresented
<1> QED BY <1>2, <1>3

LEMMA EndOpenStep == ASSUME HandleInv, NEW d \in Slots, EndOpen(d) PROVE HandleInv'
<1> DEFINE s == [FreeSlot EXCEPT !.fds = slot[d].fds]
<1>1. slot[d].fds = {} /\ slot[d].st # "none"
  BY InUse DEF EndOpen, Good
<1>2. /\ FreeSlot \in Slot /\ FreeSlot.st = "none" /\ FreeSlot.ro
      /\ FreeSlot.flags = "" /\ ~FreeSlot.ticket.rw
  BY FreeIsGood DEF Good, FreeSlot
<1>3. /\ s \in Slot /\ s.st = "none" /\ s.ro /\ s.fds = {}
      /\ s.flags = "" /\ ~s.ticket.rw
  BY <1>1, <1>2 DEF Slot
<1>4. Set(d, s) /\ UNCHANGED <<conn, sessions, issued, uses>>
  BY DEF EndOpen
<1> HIDE DEF s
<1>5. Good(s)
  BY <1>3 DEF Good, Proxied, Speaking, NfcStages, FdsOk
<1> QED BY <1>1, <1>3, <1>4, <1>5, SlotStep DEF Unpresented
-----------------------------------------------------------------------------
(* Steps that change the connection.                                       *)

\* The connection becomes c while all slots are free.
LEMMA ConnStep ==
    ASSUME HandleInv, NEW c, conn' = c,
           c \in [in : BOOLEAN, api : {"handle", "session"}, ro : BOOLEAN,
                  ssl : BOOLEAN, modes : ModeList],
           sessions' = IF c.in THEN 1 ELSE 0,
           c.in => (c.ssl <=> ~AskedPlain(c.modes)),
           \A d \in Slots : slot[d].st = "none",
           UNCHANGED <<slot, issued, uses>>
    PROVE  HandleInv'
<1>1. Shape'
  BY DEF HandleInv, Shape
<1>2. Connected'
  BY DEF Connected, AskedPlain
<1>3. Alone' /\ Tickets'
  BY DEF HandleInv, Alone, Tickets
<1>4. ASSUME NEW d \in Slots PROVE Good(slot[d])'
  BY InUse DEF Good, Proxied, Speaking, NfcStages, FdsOk
<1> QED BY <1>1, <1>2, <1>3, <1>4 DEF HandleInv

LEMMA ConnectStep ==
    ASSUME HandleInv, NEW ro \in BOOLEAN, NEW m \in ModeLists, NEW x \in VmxSpecs,
           Connect(ro, m, x)
    PROVE  HandleInv'
<1> DEFINE ssl == select_transport(m) = "nbdssl"
           c == [in |-> TRUE, api |-> "handle", ro |-> ro, modes |-> m, ssl |-> ssl]
<1>1. ssl <=> ~AskedPlain(m)
  BY TransportAsAsked DEF Connect
<1>2. conn' = c /\ sessions' = 1
  BY DEF Connect, HandleInv, Connected
<1>3. m \in ModeList /\ ssl \in BOOLEAN
  BY HandleConstants
<1> HIDE DEF ssl
<1>4. c \in [in : BOOLEAN, api : {"handle", "session"}, ro : BOOLEAN, ssl : BOOLEAN,
            modes : ModeList] /\ c.in /\ c.ssl = ssl /\ c.modes = m
  BY <1>3
<1> HIDE DEF c
<1> QED BY <1>1, <1>2, <1>4, ConnStep DEF Connect

LEMMA NoConnType ==
    /\ NoConn \in [in : BOOLEAN, api : {"handle", "session"}, ro : BOOLEAN,
                   ssl : BOOLEAN, modes : ModeList]
    /\ ~NoConn.in
BY DEF NoConn, Default, ModeList

LEMMA DisconnectStep == ASSUME HandleInv, Disconnect PROVE HandleInv'
<1>1. sessions' = 0
  BY DEF Disconnect, Handle, HandleInv, Connected
<1> QED BY <1>1, NoConnType, ConnStep DEF Disconnect

LEMMA OneLessOne == 1 - 1 = 0
OBVIOUS

\* A session ends and slot d, the only one in use, becomes s.
LEMMA LogoutStep ==
    ASSUME HandleInv, NEW d \in Slots, Session, slot[d].st # "none",
           NEW s \in Slot, Set(d, s), s.st \in {"none", "open"},
           s.st = "none" => s.ro /\ s.fds = {} /\ s.flags = "" /\ ~s.ticket.rw,
           s.st = "open" => "nfc" \in s.fds,
           conn' = NoConn, sessions' = sessions - 1, UNCHANGED <<issued, uses>>
    PROVE  HandleInv'
<1>1. slot' = [slot EXCEPT ![d] = s] /\ slot \in [Slots -> Slot]
  BY DEF Set, HandleInv, Shape
<1>2. /\ slot'[d] = s
      /\ \A e \in Slots : e # d => slot'[e] = slot[e] /\ slot[e].st = "none"
  BY <1>1 DEF HandleInv, Alone
<1>3. sessions' = 0
  <2>1. sessions = 1
    BY Zenon DEF Session, HandleInv, Connected
  <2> QED BY <2>1, OneLessOne, Zenon
<1>4. Shape'
  <2>1. slot' \in [Slots -> Slot]
    BY <1>1
  <2>2. conn' \in [in : BOOLEAN, api : {"handle", "session"}, ro : BOOLEAN,
                   ssl : BOOLEAN, modes : ModeList]
    BY NoConnType
  <2>3. 0 \in Nat
    OBVIOUS
  <2> QED BY <1>3, <2>1, <2>2, <2>3, Zenon DEF HandleInv, Shape
<1>5. Connected' /\ Alone'
  BY <1>3, NoConnType DEF Connected, Alone, Session
<1>6. Tickets'
  BY <1>2 DEF HandleInv, Tickets, Unpresented
<1>7. ASSUME NEW e \in Slots PROVE Good(slot[e])'
  <2>1. ~conn'.in /\ ~Handle'
    BY NoConnType DEF Handle
  <2>2. /\ slot'[e] \in Slot /\ slot'[e].st \in {"none", "open"}
        /\ slot'[e].st = "none" => /\ slot'[e].ro /\ slot'[e].fds = {}
                                   /\ slot'[e].flags = "" /\ ~slot'[e].ticket.rw
        /\ slot'[e].st = "open" => "nfc" \in slot'[e].fds
    <3>1. CASE e = d
      BY <1>2, <3>1
    <3>2. CASE e # d
      <4>1. slot'[e] = slot[e] /\ slot[e].st = "none"
        BY <1>2, <3>2
      <4>2. slot[e] \in Slot /\ Good(slot[e])
        BY InUse
      <4> QED BY <4>1, <4>2 DEF Good
    <3> QED BY <3>1, <3>2
  <2> QED BY <2>1, <2>2 DEF Good, FdsOk
<1> QED BY <1>4, <1>5, <1>6, <1>7 DEF HandleInv

LEMMA FreeFields ==
    /\ FreeSlot \in Slot /\ FreeSlot.st = "none" /\ FreeSlot.ro
    /\ FreeSlot.fds = {} /\ FreeSlot.flags = "" /\ ~FreeSlot.ticket.rw
BY FreeIsGood DEF Good, FreeSlot

LEMMA AuthdFailsStep ==
    ASSUME HandleInv, NEW d \in Slots,
           TicketFails(d) \/ BannerFails(d) \/ AuthdRefuses(d)
    PROVE  HandleInv'
<1>1. Good(slot[d])
  BY InUse
<1>2. slot[d].st # "none" /\ AuthdRaises(d, {})
  <2>1. CASE TicketFails(d)
    <3>1. slot[d].st \in {"ticket", "tcp"} /\ slot[d].fds = {}
      BY <1>1, <2>1 DEF TicketFails, Good, FdsOk
    <3> QED BY <2>1, <3>1 DEF TicketFails
  <2>2. CASE BannerFails(d) \/ AuthdRefuses(d)
    <3>1. /\ slot[d].st \in {"banner", "tls", "session", "thumbprint", "proxy"}
          /\ AuthdRaises(d, slot[d].fds \ {"authd"})
      BY <2>2 DEF BannerFails, AuthdRefuses
    <3>2. slot[d].fds \ {"authd"} = {}
      BY <1>1, <3>1 DEF Good, FdsOk
    <3> QED BY <3>1, <3>2
  <2> QED BY <2>1, <2>2
<1>3. Set(d, FreeSlot) /\ UNCHANGED <<issued, uses>>
  BY <1>2, FreeAgain DEF AuthdRaises
<1>4. CASE Session
  <2>1. conn' = NoConn /\ sessions' = sessions - 1
    BY <1>2, <1>4 DEF AuthdRaises
  <2> QED BY <1>2, <1>3, <1>4, <2>1, FreeFields, LogoutStep
<1>5. CASE ~Session
  <2>1. UNCHANGED <<conn, sessions>>
    BY <1>2, <1>5 DEF AuthdRaises
  <2> QED BY <1>2, <1>3, <2>1, FreeStep
<1> QED BY <1>4, <1>5

LEMMA SessionCloseStep ==
    ASSUME HandleInv, NEW d \in Slots, SessionClose(d) PROVE HandleInv'
<1> DEFINE s == [slot[d] EXCEPT !.fds = @ \ {"authd"}]
<1>1. /\ slot[d] \in Slot /\ slot[d].st # "none" /\ Session
      /\ slot[d].st = "open" => "nfc" \in slot[d].fds
  BY InUse DEF SessionClose, Good, FdsOk
<1>2. CASE slot[d].st = "open"
  <2>1. s \in Slot /\ s.st = "open" /\ Set(d, s) /\ "nfc" \in s.fds
    BY <1>1, <1>2 DEF Slot, SessionClose
  <2> HIDE DEF s
  <2> QED BY <1>1, <2>1, LogoutStep DEF SessionClose
<1>3. CASE slot[d].st # "open"
  BY <1>1, <1>3, FreeFields, LogoutStep DEF SessionClose
<1> QED BY <1>2, <1>3

LEMMA NbdType == <<"nbd">> \in Seq(ModeNames)
<1>1. "nbd" \in ModeNames
  BY DEF ModeNames
<1>2. ASSUME NEW S, NEW e \in S PROVE <<e>> \in Seq(S)
  OBVIOUS
<1> QED BY <1>1, <1>2, Zenon

LEMMA AuthenticateStep ==
    ASSUME HandleInv, NEW d \in Slots, NEW ro \in BOOLEAN, NEW ssl \in BOOLEAN,
           Authenticate(d, ro, ssl)
    PROVE  HandleInv'
<1> DEFINE m == IF ssl THEN Default ELSE Modes(<<"nbd">>)
           c == [in |-> TRUE, api |-> "session", ro |-> ro, ssl |-> ssl, modes |-> m]
           s == [FreeSlot EXCEPT !.st = "ticket", !.ro = ro]
<1>1. m \in ModeList /\ (ssl <=> ~AskedPlain(m))
  <2>1. Default \in ModeList /\ ~AskedPlain(Default)
    BY DEF Default, ModeList, AskedPlain
  <2>2. Modes(<<"nbd">>) \in ModeList /\ AskedPlain(Modes(<<"nbd">>))
    <3>1. 1 \in DOMAIN <<"nbd">> /\ <<"nbd">>[1] = "nbd"
      OBVIOUS
    <3>2. \A j \in 1 .. (1 - 1) : <<"nbd">>[j] # "nbdssl"
      OBVIOUS
    <3>3. AskedPlain(Modes(<<"nbd">>))
      BY <3>1, <3>2 DEF Modes, AskedPlain
    <3> QED BY <3>3, NbdType DEF Modes, ModeList
  <2> QED BY <2>1, <2>2
<1>2. conn' = c /\ sessions' = 1 /\ Set(d, s) /\ UNCHANGED <<issued, uses>>
      /\ \A e \in Slots : slot[e].st = "none"
  BY DEF Authenticate, HandleInv, Connected
<1> HIDE DEF m
<1>3. /\ c \in [in : BOOLEAN, api : {"handle", "session"}, ro : BOOLEAN,
                ssl : BOOLEAN, modes : ModeList]
      /\ c.in /\ c.api = "session" /\ c.ssl = ssl /\ c.modes = m
  BY <1>1
<1> HIDE DEF c
<1>4. s \in Slot /\ s.st = "ticket" /\ s.fds = {}
  BY FreeFields DEF Slot, Stages, AuthdStages
<1> HIDE DEF s
<1>5. slot' = [slot EXCEPT ![d] = s] /\ slot \in [Slots -> Slot]
  BY <1>2 DEF Set, HandleInv, Shape
<1>6. slot'[d] = s /\ \A e \in Slots : e # d => slot'[e] = slot[e]
  BY <1>5
<1>7. Shape'
  BY <1>2, <1>3, <1>4, <1>5 DEF HandleInv, Shape
<1>8. Connected'
  BY <1>1, <1>2, <1>3 DEF Connected, AskedPlain
<1>9. Alone' /\ Tickets'
  BY <1>2, <1>4, <1>6 DEF HandleInv, Alone, Tickets, Unpresented
<1>10. ASSUME NEW e \in Slots PROVE Good(slot[e])'
  <2>1. conn'.in /\ conn'.api = "session"
    BY <1>2, <1>3
  <2>2. CASE e = d
    <3>1. s.st \notin {"none", "wrap"} \cup Proxied \cup Speaking
      BY <1>4 DEF Proxied, Speaking, NfcStages
    <3>2. FdsOk(s.st, s.fds)
      BY <1>4 DEF FdsOk
    <3> QED BY <1>4, <1>6, <2>1, <2>2, <3>1, <3>2 DEF Good, Handle, FdsOk
  <2>3. CASE e # d
    <3>1. /\ slot[e].st = "none" /\ slot'[e] = slot[e] /\ Good(slot[e])
          /\ slot[e] \in Slot
      BY <1>2, <1>6, <2>3, InUse
    <3>2. slot[e].st \notin {"wrap"} \cup Proxied \cup Speaking
      BY <3>1 DEF Proxied, Speaking, NfcStages
    <3> QED BY <2>1, <3>1, <3>2 DEF Good, Handle, FdsOk
  <2> QED BY <2>2, <2>3
<1> QED BY <1>7, <1>8, <1>9, <1>10 DEF HandleInv
-----------------------------------------------------------------------------
(* The theorems.                                                           *)

LEMMA HandleInvInit == Init => HandleInv
<1> SUFFICES ASSUME Init PROVE HandleInv
  OBVIOUS
<1>1. Shape
  <2>1. slot \in [Slots -> Slot]
    BY FreeFields DEF Init
  <2>2. issued \in 0 .. MaxTickets /\ uses \in [1 .. MaxTickets -> Nat]
        /\ sessions \in Nat
    BY HandleConstants DEF Init
  <2> QED BY <2>1, <2>2, NoConnType DEF Init, Shape
<1>2. Connected /\ Alone
  BY NoConnType DEF Init, Connected, Alone, Session
<1>3. Tickets
  BY FreeFields DEF Init, Tickets, Unpresented
<1> QED BY <1>1, <1>2, <1>3, FreeIsGood DEF Init, HandleInv

LEMMA HandleInvNext == HandleInv /\ [Next]_vars => HandleInv'
<1> SUFFICES ASSUME HandleInv, [Next]_vars PROVE HandleInv'
  OBVIOUS
<1>1. CASE UNCHANGED vars \/ \E d \in Slots : Collect(d)
  <2>1. UNCHANGED <<conn, sessions, slot, issued, uses>>
    BY <1>1 DEF vars, Collect
  <2>2. Shape' /\ Connected' /\ Alone' /\ Tickets'
    BY <2>1 DEF HandleInv, Shape, Connected, Alone, Tickets, Session, AskedPlain
  <2>3. ASSUME NEW e \in Slots PROVE Good(slot[e])'
    BY <2>1 DEF HandleInv, Good, Handle, Announced, ProxyService, FdsOk
  <2> QED BY <2>2, <2>3 DEF HandleInv
<1>2. ASSUME NEW d \in Slots, Wrap(d) PROVE conn.ssl
  BY <1>2, InUse DEF Wrap, Good
<1> QED
  BY <1>1, <1>2, ConnectStep, AuthenticateStep, DisconnectStep, OpenStep, DupStep,
     WrapStep, GetTicketStep, HandshakeSteps, PresentStep, ThumbprintStep, AioPrepareStep,
     AuthdFailsStep, OpenDiskFailsStep, CloseDiskStep, EndOpenStep, SessionCloseStep
     DEF Next, Fails

LEMMA HandleInvAlways == Spec => []HandleInv
BY HandleInvInit, HandleInvNext, PTL DEF Spec

\* Connection, slots and tickets keep their types.
THEOREM HandleTypeCorrect == Spec => []TypeOK
<1> DEFINE A == adrift \subseteq Slots
<1>1. Init => A
  BY DEF Init
<1>2. A /\ [Next]_vars => A'
  <2> SUFFICES ASSUME A, [Next]_vars PROVE A'
    OBVIOUS
  <2>1. CASE \E d \in Slots : SetUpFails(d) \/ Collect(d)
    BY <2>1 DEF SetUpFails, Collect
  <2>2. CASE ~\E d \in Slots : SetUpFails(d) \/ Collect(d)
    <3>1. adrift' = adrift
      BY <2>2 DEF Next, vars, Connect, Authenticate, Disconnect, Open, Dup,
         GetTicket, ConnectTcp, StartTls, PresentTicket, BannerReply,
         ThumbprintReply, ProxyReply, TakeOver, Wrap, Handshake, AioPrepare,
         FileOpened, Fails, TicketFails, BannerFails, AuthdRefuses, AuthdRaises,
         OpenDiskRejected, WrapFails, NfcFails, CloseDisk, EndOpen, SessionClose
    <3> QED BY <3>1
  <2> QED BY <2>1, <2>2
<1>3. HandleInv /\ A => TypeOK
  BY DEF HandleInv, Shape, TypeOK
<1> QED BY <1>1, <1>2, <1>3, HandleInvAlways, PTL DEF Spec

\* Wherever an exception starts, the except and finally clauses it passes, and
\* those of a normal end, close every descriptor that a slot owns and log the
\* VIM session out.  A duplicate that was not set up yet is owned by nobody.
THEOREM NothingEverLeaked == Spec => []NothingLeaked
<1>1. HandleInv => NothingLeaked
  BY DEF HandleInv, NothingLeaked, Connected, Good, FdsOk
<1> QED BY <1>1, HandleInvAlways, PTL

\* Each open gets a ticket of its own, and connect_authd presents it once.
THEOREM TicketsAlwaysUsedOnce == Spec => []TicketsUsedOnce
<1>1. HandleInv => TicketsUsedOnce
  BY DEF HandleInv, TicketsUsedOnce, Tickets
<1> QED BY <1>1, HandleInvAlways, PTL

\* Through a read-only connection no writable ticket is asked for, and no
\* disk is opened for writing without one.
THEOREM ReadOnlyAlwaysRespected == Spec => []ReadOnlyRespected
<1>1. HandleInv => ReadOnlyRespected
  BY DEF HandleInv, ReadOnlyRespected, Good, Handle
<1> QED BY <1>1, HandleInvAlways, PTL

\* open_disk speaks NFC on the layer that connect was asked for and that
\* connect_authd announced.
THEOREM LayersAlwaysAgree == Spec => []LayersAgree
<1>1. HandleInv => LayersAgree
  <2> SUFFICES ASSUME HandleInv, conn.in, NEW d \in Slots,
                      slot[d].st \in NfcStages \cup {"open"}
               PROVE  /\ slot[d].layer = "plain" <=> AskedPlain(conn.modes)
                      /\ conn.ssl \/ slot[d].ticket.service # "vpxa-nfcssl"
                         => slot[d].layer = slot[d].proxied
    BY DEF LayersAgree
  <2>1. /\ slot[d].layer = IF conn.ssl THEN "tls" ELSE "plain"
        /\ slot[d].proxied = Announced(slot[d].ticket.service)
    BY InUse DEF Good, Proxied, Speaking
  <2>2. slot[d].ticket.service \in Services /\ conn.ssl \in BOOLEAN
    BY InUse DEF Slot, Ticket
  <2>3. conn.ssl <=> ~AskedPlain(conn.modes)
    BY DEF HandleInv, Connected
  <2>4. Announced(slot[d].ticket.service) =
           IF conn.ssl \/ slot[d].ticket.service = "vpxa-nfcssl" THEN "tls" ELSE "plain"
    BY <2>2 DEF Announced, ProxyService, nfcssl_service_name, Services
  <2> QED BY <2>1, <2>2, <2>3, <2>4
<1> QED BY <1>1, HandleInvAlways, PTL

\* The duplicate that takeover_authd_socket makes keeps the connection of an
\* open disk when the session, and with it the authd socket, is closed.
THEOREM ConnectionAlwaysHeld == Spec => []ConnectionHeld
<1>1. HandleInv => ConnectionHeld
  BY DEF HandleInv, ConnectionHeld, Good, FdsOk, AuthdStages, NfcStages
<1> QED BY <1>1, HandleInvAlways, PTL
=============================================================================
