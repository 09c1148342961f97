----------------------------- MODULE NfcTicket -----------------------------
(***************************************************************************)
(* From the login to the NFC ticket, in several threads at once:           *)
(* connect_vim (VimLogin), nfc_service (NfcTypes), then get_nfc_ticket and *)
(* _virtual_disk_key (nfc_auth.py), which look for the key of the device   *)
(* whose chain of backings has the VMDK asked for.  Meanwhile the VM goes  *)
(* on: snapshots are taken and deleted, a disk is detached, it moves to    *)
(* another host.                                                           *)
(*                                                                         *)
(* A VMDK is the n-th delta of a disk, its base for n = 0.  vm.config is   *)
(* one fetch: the loop walks through a copy of the devices.                *)
(***************************************************************************)
EXTENDS VimLogin

CONSTANTS
    InitialDevices,  \* vm.config.hardware.device when the threads start
    MaxDeltas,       \* bound: deltas of a disk
    Hosts,           \* hosts the VM may run on
    Requests         \* read_only, disk_device_key, disk_path and host_for_access
                     \* that occur

VMDK == [disk : STRING, n : Nat]
NoPath == [disk |-> "", n |-> 0]
NoKey == 0
NoHost == ""
Device == [disk : BOOLEAN, key : Nat \ {0}, chain : Seq(VMDK)]

ASSUME TicketConstants ==
    /\ InitialDevices \in Seq(Device) /\ MaxDeltas \in Nat
    /\ Requests \subseteq
          [ro : BOOLEAN, key : Nat, path : VMDK, host : Hosts \cup {NoHost}]

\* vSphere's side of it: a key names one device, and the backings of a disk
\* are files of that disk, from the leaf down to the base.
ASSUME DeviceConstants ==
    /\ \A i, k \in DOMAIN InitialDevices :
          InitialDevices[i].key = InitialDevices[k].key => i = k
    /\ \A i \in DOMAIN InitialDevices : LET ch == InitialDevices[i].chain IN
          InitialDevices[i].disk =>
              /\ ch # <<>> /\ ch[Len(ch)].n = 0
              /\ \A j \in DOMAIN ch : ch[j].disk = ch[Len(ch)].disk

VARIABLES
    flag, registry, reg,  \* of NfcTypes
    vm,                   \* external: the VM's devices and its host
    call                  \* per thread, how far get_nfc_ticket has come

typesVars == <<flag, registry, reg>>
vars == <<loginVars, typesVars, vm, call>>

Types == INSTANCE NfcTypes

NoRequest == [ro |-> TRUE, key |-> NoKey, path |-> NoPath, host |-> NoHost]
NoCall == [st |-> "idle", req |-> NoRequest, devices |-> <<>>, i |-> 1, j |-> 1,
           key |-> NoKey, host |-> NoHost, method |-> ""]

Init ==
    /\ LoginInit /\ Types!TypesInit
    /\ vm \in [devices : {InitialDevices}, host : Hosts]
    /\ call = [t \in Threads |-> NoCall]

CallAt(t, st) == call[t].st = st
SetCall(t, c) == call' = [call EXCEPT ![t] = c]
-----------------------------------------------------------------------------
\* get_nfc_ticket begins with nfc_service; connect_vim is history.
GetNfcTicket(t, r) ==
    /\ LoginAt(t, "in") \/ LoginAt(t, "session")
    /\ CallAt(t, "idle")
    /\ Types!EnterService(t)
    /\ SetLogin(t, [NoLogin EXCEPT !.st = "session"])
    /\ SetCall(t, [NoCall EXCEPT !.st = "service", !.req = r])
    /\ UNCHANGED <<cert, vm>>

\* What comes next depends on what is known of the disk.
Route(r) ==
    IF r.ro /\ r.key = NoKey /\ r.path = NoPath THEN "soap"
    ELSE IF r.key # NoKey THEN "host"
    ELSE IF r.path = NoPath THEN "ValueError"
    ELSE "config"

Service(t) ==
    /\ CallAt(t, "service") /\ Types!TypesStep(t)
    /\ SetCall(t,
          CASE reg'[t] = "raised" -> [NoCall EXCEPT !.st = "raised"]
            [] reg'[t] = "service" -> [call[t] EXCEPT !.st = Route(call[t].req),
                                                      !.key = call[t].req.key]
            [] OTHER -> call[t])
    /\ UNCHANGED <<loginVars, vm>>

\* The one fetch of _virtual_disk_key.
FetchConfig(t) ==
    /\ CallAt(t, "config")
    /\ SetCall(t, [call[t] EXCEPT !.st = "walk", !.devices = vm.devices])
    /\ UNCHANGED <<loginVars, typesVars, vm>>

\* The backings of a device, from the leaf on.
LeafOnly(d) == SubSeq(d.chain, 1, 1)
Backings(d) == d.chain

\* The end of the loops.
NotAttachedReturns(c) == [c EXCEPT !.st = "host"]
NotAttached(c) == [c EXCEPT !.st = "ValueError"]

\* One turn of the loops: device i, backing j.
Walk(t) ==
    LET c == call[t]
        d == c.devices[c.i]
    IN
    /\ CallAt(t, "walk")
    /\ SetCall(t,
          CASE c.i > Len(c.devices) -> NotAttached(c)
            [] c.i <= Len(c.devices) /\ (~d.disk \/ c.j > Len(Backings(d)))
                  -> [c EXCEPT !.i = @ + 1, !.j = 1]
            [] c.i <= Len(c.devices) /\ d.disk /\ c.j <= Len(Backings(d))
                  -> IF Backings(d)[c.j] = c.req.path
                     THEN [c EXCEPT !.st = "host", !.key = d.key]
                     ELSE [c EXCEPT !.j = @ + 1])
    /\ UNCHANGED <<loginVars, typesVars, vm>>

\* host_for_access as the caller gave it.
TakeHost(t) ==
    /\ CallAt(t, "host") /\ call[t].req.host # NoHost
    /\ SetCall(t, [call[t] EXCEPT !.st = "soap", !.host = call[t].req.host])
    /\ UNCHANGED <<loginVars, typesVars, vm>>

\* host_for_access = vm.runtime.host, a fetch of its own.
FetchHost(t) ==
    /\ CallAt(t, "host") /\ call[t].req.host = NoHost
    /\ SetCall(t, [call[t] EXCEPT !.st = "soap", !.host = vm.host])
    /\ UNCHANGED <<loginVars, typesVars, vm>>

Method(c) ==
    IF Route(c.req) = "soap" THEN "GetVmFiles"
    ELSE IF c.req.ro THEN "RandomAccessOpenReadonly" ELSE "RandomAccessOpen"

\* The server takes the call: the key is one of the VM's disks, and the VM
\* runs, or still runs, on the host.
Takes(c) ==
    Method(c) # "GetVmFiles" =>
        /\ c.host = vm.host
        /\ \E i \in DOMAIN vm.devices : vm.devices[i].disk /\ vm.devices[i].key = c.key

Issue(t) ==
    /\ CallAt(t, "soap") /\ Takes(call[t])
    /\ SetCall(t, [call[t] EXCEPT !.st = "ticket", !.method = Method(call[t])])
    /\ UNCHANGED <<loginVars, typesVars, vm>>

\* A SOAP call raises.
Refuse(t) ==
    /\ \/ CallAt(t, "config") \/ CallAt(t, "soap")
       \/ CallAt(t, "host") /\ call[t].req.host = NoHost
    /\ SetCall(t, [NoCall EXCEPT !.st = "raised"])
    /\ UNCHANGED <<loginVars, typesVars, vm>>

\* The caller goes on with the ticket, or with the exception.
Leave(t) ==
    /\ CallAt(t, "ticket") \/ CallAt(t, "raised") \/ CallAt(t, "ValueError")
    /\ SetCall(t, NoCall)
    /\ UNCHANGED <<loginVars, typesVars, vm>>
-----------------------------------------------------------------------------
(* The VM.                                                                 *)

SetChain(i, ch) ==
    /\ vm.devices[i].disk
    /\ vm' = [vm EXCEPT !.devices[i].chain = ch]
    /\ UNCHANGED <<loginVars, typesVars, call>>

\* A snapshot: the device, under the same key, has a new delta as its leaf.
Snapshot(i) ==
    LET ch == vm.devices[i].chain IN
    /\ ch # <<>> /\ Len(ch) <= MaxDeltas
    /\ SetChain(i, <<[ch[1] EXCEPT !.n = @ + 1]>> \o ch)

\* Its deletion: the leaf is merged into its parent.
DeleteSnapshot(i) ==
    /\ Len(vm.devices[i].chain) > 1
    /\ SetChain(i, Tail(vm.devices[i].chain))

Detach(i) ==
    /\ vm' = [vm EXCEPT !.devices = SubSeq(@, 1, i - 1) \o SubSeq(@, i + 1, Len(@))]
    /\ UNCHANGED <<loginVars, typesVars, call>>

Migrate(h) ==
    /\ vm' = [vm EXCEPT !.host = h]
    /\ UNCHANGED <<loginVars, typesVars, call>>

Next ==
    \/ \E t \in Threads :
          \/ CallAt(t, "idle") /\ LoginStep(t) /\ UNCHANGED <<typesVars, vm, call>>
          \/ \E r \in Requests : GetNfcTicket(t, r)
          \/ Service(t) \/ FetchConfig(t) \/ Walk(t)
          \/ TakeHost(t) \/ FetchHost(t)
          \/ Issue(t) \/ Refuse(t) \/ Leave(t)
    \/ \E c \in Certs : OtherCert(c) /\ UNCHANGED <<typesVars, vm, call>>
    \/ \E i \in DOMAIN vm.devices : Snapshot(i) \/ DeleteSnapshot(i) \/ Detach(i)
    \/ \E h \in Hosts : Migrate(h)

Spec == Init /\ [][Next]_vars
-----------------------------------------------------------------------------
(* Properties.                                                             *)

TypeOK ==
    /\ LoginTypeOK /\ Types!TypesTypeOK
    /\ vm.devices \in Seq(Device) /\ vm.host \in Hosts
    /\ \A t \in Threads : LET c == call[t] IN
          /\ c.st \in {"idle", "service", "config", "walk", "host", "soap",
                       "ticket", "raised", "ValueError"}
          /\ c.req \in Requests \cup {NoRequest} /\ c.devices \in Seq(Device)
          /\ c.i \in 1 .. (Len(c.devices) + 1) /\ c.j \in Nat /\ c.key \in Nat
          /\ c.host \in Hosts \cup {NoHost} /\ (c.st = "host" => c.key # NoKey)
          /\ c.st = "service" <=> reg[t] \in Types!Lines \ {"out", "service", "raised"}

\* See NfcTypes: threads that make their first connection at the same time do
\* not trip over the registration.
RegistrationSound == Types!RegistrationSound

Holds(d, path) == d.disk /\ \E j \in DOMAIN d.chain : d.chain[j] = path

\* A key found for a path is that of a disk in whose chain, leaf or parent,
\* the VMDK was when the configuration was read, and only if no disk had it
\* is the path called not attached.  The copy that was searched may be old by
\* now: snapshots taken or deleted meanwhile do not make the key, nor a ticket
\* for it, another disk's.
KeyJustified ==
    \A t \in Threads : LET c == call[t] IN
    c.req.key = NoKey /\ c.req.path # NoPath =>
        /\ c.st \in {"host", "soap", "ticket"} =>
              /\ \E i \in DOMAIN c.devices :
                    c.devices[i].key = c.key /\ Holds(c.devices[i], c.req.path)
              /\ \A i \in DOMAIN vm.devices : vm.devices[i].key = c.key =>
                    Holds(vm.devices[i], [c.req.path EXCEPT !.n = 0])
        /\ c.st = "ValueError" =>
              \A i \in DOMAIN c.devices : ~Holds(c.devices[i], c.req.path)
=============================================================================
