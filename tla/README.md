# OpenVixDiskLib in TLA+

OpenVixDiskLib is a Python client for the disk protocol (NFC) of vSphere hosts.
It logs in to vCenter, gets a one-time ticket, presents it to `authd` on an ESXi
host, takes over that TCP connection and reads and writes sectors of a VMDK on
it. This directory models the parts that carry the logic, checks them with TLC
on small instances and proves their safety properties, and that a read and a
session implement their abstract specifications, with TLAPS.

## The system

| part | code | state | operations |
|---|---|---|---|
| one read | `NfcDisk.readinto`, `_recvn_into`, `_aio_extra_len`, `fastlz` | the caller's buffer, `filled`, `wire_bytes`, `packed_offset`, `fragments`, `seen` | send a request, place fragments, decompress or pack, return or raise |
| one session | `NfcDisk` | `_op_id`, `_closed`, `_sock`, the position in the reply stream | `read`/`readinto`, `write`, `close` |
| one write | `VixDiskLibHandle.write`, `NfcDisk.write`, `fastlz.compress` | `frag_offset`, the fragments under way | slice, check, send fragments raw or compressed, wait for one reply |
| handle | `VixDiskLibHandle`, `authenticate`, `NfcAuthSession`, `_select_transport`, `_parse_vm_moref`, `_nfc_compression` | VIM session, ticket, authd socket, NFC socket, read-only and transport options | `connect`, `open`, `close`, `disconnect`, `authenticate`, `NfcAuthSession.close` |
| handshakes | `connect_authd`, `takeover_authd_socket`, `_handshake`, `_aio_prepare`, `open_disk` | the TLS layer, the exchange reached, `_op_id` | some twenty messages, answered or not |
| login | `connect_vim`, `get_ssl_cert_thumbprint`, `_vim_preferred_api_versions` | the certificate seen, the API version | pin check, version discovery, login |
| type registration | `_register_nfc_types`, `nfc_service` | `_NFC_TYPES_REGISTERED`, pyVmomi's process-wide registry | check, then register |
| ticket | `get_nfc_ticket`, `_virtual_disk_key` | a copy of the VM's devices, the key, the host | look for the device of a VMDK, ask for the ticket |
| external | NFC server, authd, vCenter, pyVmomi, pyfastlz | disk contents, replies owed | modelled from how the client uses them |

The parts call each other from top to bottom: `open` calls `get_nfc_ticket`,
`connect_authd` and `open_disk`, which returns an `NfcDisk`; reads and writes
then share one socket with the server. There are no threads inside the package
and an `NfcDisk` has no lock: one thread per disk is assumed. What is concurrent
is the server, which fragments, reorders and delays, the VM, which is snapshotted
and migrated, and callers in several threads, which share the type registry.

What is hard: fragments in any order and any cut; a reply that comes after its
call has timed out and the next call is waiting; a call that stops inside a
message, in either direction, and so moves the stream out of step; a failure at
any of some twenty exchanges between login and an open disk, or one side waiting
for a message that the other does not send; values checked on one connection and
used on another; a registry filled without a lock; limits of unsigned fields. `PROJECT.json`
lists these hazards line by line, each with the properties that would catch it.

What makes each part correct:

- read: the bytes returned are those of the disk at the addresses asked for, or
  can be rebuilt from the packed form; nothing else of the buffer is touched;
  the call ends;
- session: no call accepts another call's answer; an acknowledged write is on
  the disk; between calls nothing is in flight; close releases the socket and,
  if it returns, has closed file and session; seen as a whole it is a block store
  in which what a failed call submitted may settle late;
- write: a write that returns has put every byte in its place, one that fails has
  stored the fragments that the server took, in order, and nothing else, and the two
  checks of the length agree;
- handle: every path out releases what it acquired; a ticket is used once;
  read-only is respected; both ends agree on the layer that NFC is spoken on; whoever
  still talks has a descriptor of the connection;
- handshakes: neither side waits for the other or misreads it, and a disk is open
  only if the server agreed to every step;
- login and ticket: the password goes to the peer the caller accepts, no thread
  uses the NFC types before they are registered, and the device key is that of the
  disk asked for.

## Modules

**NfcRead** is one call of `readinto`. Bytes are symbolic: "the byte of the disk
at address a" or "byte k of the FastLZ stream of n disk bytes". The locals of the
function are variables of the same names; `pc` says which receive the loop is in.
`ReadRejected`/`ReadInto` are the code before the loop (with the range checks of
`struct.pack`), `RecvHeader`, `RecvBody`, `RecvExtra` and `FinishFragment` are the
four parts of one turn of it, `DecompressError` and `RecvFails` its other ways
out. `ReadInto` also chooses how the server will answer (`Cuts`, `Sizings`): any
partition into pieces of at most `AioBufferSize` bytes, each raw or compressed.
`LooseFrames` are frames outside the protocol that may arrive at any time; with
`{}` the server conforms. Once a call has returned or raised the model stops, so
its runs do not check for deadlock.

**SectorRead** is what a caller expects: a read that fails, or yields the bytes of
the disk in one step. `NfcRead!ImplementsSectorRead` is the refinement; the
result is `buf`, or for `skip_decompression` what `fragments` lets the caller
rebuild (`Unpack`).

**MCNfcRead** holds the sets the runs of NfcRead use.

**NfcDisk** is the session after `open_disk`, with one block per fragment. The
client's calls (`Read`, `Write` and `WriteFragment`, `Close` with `FileClosed` and
`SessionClosed`) interleave with a server that takes requests in order and sends
the replies it owes in any order, sampling the disk when it sends. `FaultSet`
says what may go wrong: a receive that times out, possibly inside a frame; a send
that fails before or after a part went out; a lost connection; a read or write
that the server refuses. Two abstractions of the byte stream are made there.
`sync = "mid"` means that the next receive starts inside a frame; sixteen bytes
read there are assumed not to begin with the AIO magic (the code has no other
defence, see the hazards). A torn request swallows what is sent after it, and the
server gives the connection up. History variables `acked` and `maybe` record per
block the last acknowledged write and the unacknowledged ones since. What a
fragment of a write contains, and which writes are refused for their arguments, is
NfcWrite's; here a write is a number of blocks. Operation ids only grow, as the code's
do (`NextOpId`); from `OpLimit` on, which stands for 2^32, `struct.pack` raises in every
call that sends (`SendFails`). `MaxOp` bounds how many calls are explored.

**BlockStore** is what the session promises: a store of blocks, calls that return
or fail, and submitted blocks that settle later or never. A call that returns
says that nothing is left to settle. `NfcDisk!ImplementsBlockStore` is the
refinement, with the write requests under way as what is submitted.

**NfcWrite** is one call of `write`, through the handle (which slices the buffer to
`num_sectors * VIXDISKLIB_SECTOR_SIZE` elements) or on the disk. Byte i stands for
byte i of the caller's buffer, `disk` is the set of pairs of an address and the
byte stored there. `SendFragment(c)` is one turn of the loop; c is the length
that `fastlz.compress` returns, of which the code keeps the shorter.
`FragmentFails` is a socket that fails, a field that cannot be packed or the codec
raising; `Serve` is the server storing fragments in order, or refusing one (`refused`
collects the bytes it refused).

**VixHandle** follows the resources of the disks in `Slots` from login
to logout, through the `with` statements of `VixDiskLibHandle` or through
`authenticate`/`open_disk`. A slot's stage is the exchange it is waiting in; every
stage can fail. A slot records its ticket, its open descriptors, the layer that
PROXY announced and the layer that `open_disk` then speaks. Each clause that cleans
up is a definition of its own, and an exception passes through those around it:
`BannerFails` and `AuthdRefuses` are the two except clauses of `connect_authd`,
followed by `AuthdRaises`, that of `authenticate` (`open` has none there);
`WrapFails` is the one of `wrap_nfcssl_socket` and `NfcFails` that of `open_disk`,
followed by `OpenDiskRaises`, that of `open`. Between `os.dup` and these last two
there is a window without a clause: what fails there (`SetUpFails`) drops the
duplicate unclosed. The model puts the slot in `adrift` until the interpreter
finalises the socket object (`Collect`, external), and `NothingLeaked` says in its
comment that it does not speak of these. The parsers of the
arguments are operators (`select_transport`, `parse_vm_moref`, `nfc_compression`);
what they raise keeps `Connect` and `Open` from happening. Callers are assumed
to leave `with` blocks in the order they are nested (Python's doing) and to use
one connection at a time.

**NfcHandshake** is the conversation from the authd banner to the OPEN_FILE reply.
The client is a script of exchanges (`AuthdScript`, `TakeOverScript`,
`HandshakeScript`, `AioPrepareScript`, `OpenFileScript`): messages to send, then
one reply to wait for and check. A message has the layer (TCP, first or second TLS
session) and the framing it is sent with, and the server reads what fits the layer
and frame it expects. What does not fit confuses it for good.

**NfcTypes** is `_register_nfc_types` and `nfc_service`, one action for each line at
which another thread may run. `CreateManagedType` is pyVmomi's: at some moment of the
call the type becomes visible to `GetVmodlType` in all threads (`Create`), after which
it returns or raises. That what `GetVmodlType` finds is a whole type is assumed: the
code has nothing by which it could tell. **VimLogin** is `connect_vim` with its connections,
each of which may meet another certificate. **NfcTicket** extends VimLogin,
instantiates NfcTypes and adds `get_nfc_ticket`, with the host given by the caller
(`TakeHost`) or fetched (`FetchHost`), and `_virtual_disk_key`, whose walk
along devices and backings (`Walk`) runs on a copy of the configuration while
snapshots are taken and deleted, a disk is detached and the VM migrates.

**MCNfcWrite**, **MCVixHandle**, **MCNfcHandshake** and **MCNfcTicket** hold the sets
of their runs. **NfcRead_proofs**, **NfcWrite_proofs**, **NfcDisk_proofs**,
**NfcDiskStore_proofs**, **NfcDiskQuiet_proofs**, **NfcHandshake_proofs**,
**NfcTicket_proofs** and **VixHandle_proofs** hold the theorems.

How they fit together: VixHandle's stages are the exchanges of NfcHandshake and its
`GetTicket` is a call of NfcTicket's `get_nfc_ticket`; `OpensInStep` says that
NfcHandshake ends in the state NfcDisk starts from; a read or write that NfcDisk
counts in blocks is NfcRead or NfcWrite byte by byte. Each is checked separately,
as the product is out of TLC's reach.

Operators that stand directly before a definition and differ from it in one
respect (`TargetInOrder` before `Target`, `AnyReply` before `MyReply`) are
deliberately wrong versions of it. No specification uses them; `PROJECT.json`
lists them as mutants, and substituting one violates the property it is listed
for.

## Runs

| run | module | shows |
|---|---|---|
| `read_conforming` | MCNfcRead | integrity of decompressing and packing reads, result lengths, completion and the refinement of SectorRead, over every cut, size and order |
| `read_any_server` | MCNfcRead | with wrong, repeated and overlapping frames and a failing socket: the buffer is confined, a read of disjoint fragments is right, the call ends |
| `read_overlap` | MCNfcRead | **violated**: "until `length` bytes are filled" |
| `read_short_payload` | MCNfcRead | **violated**: malformed messages raise `NfcProtocolError` |
| `disk_in_step` | NfcDisk | when nothing fails but writes on the server: no leftovers between calls, a close that returns has closed, every call ends without a timeout |
| `disk_faults` | NfcDisk | with timeouts, torn sends and refused writes: no stale read, acknowledged writes survive, close releases the socket, and the session is a BlockStore |
| `disk_ends` | NfcDisk | with every fault of the connection and nothing assumed of the server: every call ends |
| `disk_read_error` | NfcDisk | **violated**: `close` closes the AIO session |
| `handle` | MCVixHandle | no leak through any except clause, tickets used once, read-only respected, layers agree, whoever talks holds a descriptor, also when a session is closed under its open disk |
| `write_bytes` | MCNfcWrite | bytes in their place, a failed write stores exactly the fragments the server took, fragments without gap or overlap, long enough buffers accepted, a write ends without a timeout |
| `handshake` | MCNfcHandshake | no mutual waiting, no misreading, an open disk is justified and in the state NfcDisk starts from, the conversation ends without a timeout |
| `ticket` | MCNfcTicket | sound registration in two threads, the password goes where it was meant to, the device key is the disk's |

Bounds. Reads: a 6-byte buffer of 2-byte sectors and pieces of at most 3 bytes
give requests of one and two sectors that are accepted, cut into up to four pieces
in every way, and requests that each check refuses (zero sectors, a negative start,
a length or offset past the unsigned limit, a buffer too small). `Loose` has one
frame for each field that can be wrong, a good one to be repeated and one that
overlaps it. Sessions: two blocks, so that a read or write has one or two
fragments, and two to four operation ids, so that a call that fails is followed by
others, the last of which meets the end of the ids (`OpLimit` stands for 2^32). With
`MaxOp = OpLimit` no call is started after that one; the caller may also stop earlier,
so these runs do not check for deadlock.
Handles: two slots and three tickets, so that two opens run interleaved and one is
repeated; transport lists with one, both, or no supported mode in either order.
Writes: the handle's constant is 2 bytes and the disk's sectors 1, 2 or 4, so that
the handle's slice is too long, right and too short; chunks of at most 3 bytes, of
which those below 2 are not compressed, give up to three fragments for lengths up
to 8; buffers of 0 to 12 elements of one or two bytes; counts and starts on both
sides of what is accepted and what can be packed. Handshakes: names of length 0, 4
and 7, servers of versions 2, 3 and 11, file replies that are good, lack the sector
size, are short or of another type. Tickets: two threads, a controller and two
disks of at most one delta each, two hosts, two certificates of which one is pinned
and the other in the CA store, requests by key with a host, by path of a base and of a
delta, and for everything.

Fairness. A receive ends with data or with the timeout that `connect_authd` gives
the socket and `takeover_authd_socket` carries over. The timeout is one of a single
`recv` and does not fire while bytes come, so what is weakly fair is the disjunction
(`RecvStep`: a receive gets something or fails), never the failure by itself: that a
call ends has to come from the loop, which must not go round without progress. The code
between two receives runs on (`ClientSpec`). Only where a property is about a healthy
session is the server fair too (`ServedSpec`). `WriteEnds` and `ConversationEnds` assume
both sides run and no timeout at all, so that they exclude everyone waiting on everyone.
VixHandle has no fairness: what an open waits for is in NfcHandshake.

## Findings

1. `readinto` rejects a repeated offset but not an overlap, and counts
   overlapping bytes twice: it can return with a hole in the buffer
   (`read_overlap`). `ReadIntegrityIfDisjoint`, proved, says that this is the only
   thing it relies on the server for.
2. A FastLZ reply payload of 36 to 39 bytes raises `struct.error`
   (`read_short_payload`).
3. A read that the server answers with an error leaves the error's payload in the
   stream; `close` then fails on it and the AIO session stays open on the server
   (`disk_read_error`). A write that is refused has no such effect
   (`Quiescent` in `disk_in_step`).

## Proofs

Eight modules hold theorems. Each is for all values of the constants that satisfy
the named assumption of the module it extends (sizes are positive, sets of
arguments have the right type).

`NfcRead_proofs` (from `ReadConstants`) proves:

- `TypeCorrect`: `Spec => []TypeOK`;
- `BufferConfinedAlways`: nothing past the requested length is written, and a
  decompressing read leaves no disk byte out of place, whatever the server sends;
- `IntegrityIfDisjoint`: against any server, a read that accepted no overlapping
  fragments and returns is right;
- `ConformingIntegrity` and `AskedForAllAlways`: with a server that keeps to the
  protocol every read that returns is right, and the loop neither waits for a
  fragment that is not coming nor leaves one behind;
- `PackedIntegrityAlways` and `ResultLengthsAlways`: with such a server a packing
  read can be unpacked to the bytes of the disk, and the lengths returned are right
  (also for sessions without compression, which `read_conforming` does not have);
- `ReadIsSectorRead`: with such a server, `readinto` implements SectorRead.

`ReadIntegrity` is not inductive: it says nothing until the call returns. `ReadInv`
adds that the bytes covered by completed fragments are in place (`Landed`), that
`filled` is their number as long as the fragments are disjoint (`Counted`), and
what the checks have established (`Shape`). At the return `filled >= length`, so
the covered bytes are as many as the request has and, being a subset of it, all of
it: a pigeonhole argument on cardinalities. For the conforming server `Planned`
says that the fragments completed, in hand and owed are disjoint and make up the
request. That the pieces of a cut cover it is shown with the greatest cut at or
below a byte and the least one above. For a packing read `ConformingInv` adds that
the frames promise no more bytes than they stand for (`Honest`), how
`packed_offset`, `wire_bytes` and `filled` are related (`Accounted`), and that every
completed fragment has an entry in the table and every entry describes a whole
extra that lies below `packed_offset` in the buffer (`Packed`), where no later
receive writes. The refinement then needs only that the last step of the loop is
the one that returns.

`NfcWrite_proofs` (from `WriteConstants`) proves the five safety properties of
`write_bytes`: `WriteTypeCorrect`, `WriteIntegrity`, `FromTheFront`,
`FragmentsAlwaysTile`, `LongEnoughAlwaysAccepted`. `WrittenExactly` speaks of the
end only; the inductive invariant `WriteInv` says where client and server are in
between: the fragments in flight lead from the byte the server has reached to the
byte the loop has reached (`Tiles`), each holds exactly the bytes its header names
(`Sound`), and the disk holds the bytes up to where the server is, without those it
has refused. Sending appends to the tiling, serving takes its head off.

`NfcDisk_proofs` (from `DiskConstants`) proves, for any number of blocks and
operation ids and any set of faults, `SessionTypeOK`, `ReadsAreNotStale`,
`WritesSurvive`, `CloseReleasesSocket` and `CloseIsOrderly`. All follow from one
inductive invariant, `DiskInv`. Requests are on their way in the order of their ids
(`Ordered`), each bears an id that has been given out and names blocks whose value
is in `maybe` (`GoodRequest`), and a request with the id of the call in progress is
one of its own. The point is `MyReplyGood`: once there is a reply of the call in
progress, owed or on its way, the server has taken all requests, late ones of failed
calls included. The disk therefore stands still while a read
collects its fragments, and what it has collected is the disk (`Reading`); and the
acknowledgement of a write means that nothing older can overwrite it.

`NfcDiskStore_proofs` proves `SessionIsBlockStore`: `Spec => ImplementsBlockStore`.
What is submitted is the set of blocks of the write requests on their way; `DiskInv`
gives that it is empty when a call returns. Serving a request settles its block, a
torn one settles with unknown contents and drops what follows, and a lost
connection drops all.

`NfcDiskQuiet_proofs` proves `StaysQuiescent`: if nothing is lost and no read is refused
(`NoLoss`, a condition on `FaultSet`), the connection is empty between calls.
`QuietInv` says what there is during one. For a read: the request, or replies to it
that are owed or on their way, each a different fragment that has not been seen. For
the others: the request that is answered, or its one reply, and never both, also
when the server refuses a write.

`NfcHandshake_proofs` (from `HandshakeConstants`) proves, for names of any length, any
server versions and any file replies, `HandshakeTypeOK`, `AlwaysConversing`,
`AlwaysOpensInStep` and `OpenAlwaysJustified`. `HandshakeInv` says that there is a
number n such that the server has read the first n messages of the exchange that the
client is in, what is on its way are the messages from there to the last one sent,
without the empty names (`Queue`), the server's stage, layer and the bytes it has
been announced are those of this position (`Ready`), and there is a reply exactly
when n is the last message. A reply that passes the client's checks implies that the
server is ready for the next exchange (`Answered`). One lemma for each sort of
message shows that the server can read it and what it does then.

`NfcTicket_proofs` proves, for any set of threads, `RegistrationAlwaysSound` (with the
invariant `TypesInv`: the registry never loses the type, and a thread gets past the
registration only where it found the type or the flag), `LoginAlwaysAsAsked` (from
`LoginConstants`; `LoginInv` adds the version that discovery has settled on before
the login; the pin check of the first connection is not needed, as the login is
pinned again). `TicketTypeOK` and `KeyAlwaysJustified` are for any devices and backing chains in which, as in
vSphere, a key names one device and the backings of a disk are files of that disk
down to its base (`DeviceConstants`). `KeyInv` says that every device in a list,
the VM's or the copy a thread holds, has the key and base of an initial one,
whatever snapshots have done to its chain, and what each search has excluded so far.

`VixHandle_proofs` (from `HandleConstants`) proves, for any number of disks and
tickets and transport lists of any length, `HandleTypeCorrect`,
`NothingEverLeaked`, `ConnectionAlwaysHeld`, `TicketsAlwaysUsedOnce`,
`ReadOnlyAlwaysRespected` and `LayersAlwaysAgree`. `HandleInv` adds that there is one VIM session exactly while
connected, that an `NfcAuthSession` has one slot in use (so that logging out cannot
strand another), that a ticket not yet presented is in one slot and unused, and for
each slot what its stage implies of its ticket, flags and layer (`Good`) and,
stage by stage, which descriptors are open (`FdsOk`). That the mode `_select_transport` picks is the one `AskedPlain` describes
needs the least index of a list, hence the well-founded order of the naturals.

Only model-checked: the liveness properties (`ReadCompletes`, `CallEnds`, `WriteEnds`,
`ConversationEnds`), which are out of the prover's reach, as fairness and
ENABLED are. Every invariant and every refinement that a run checks is proved.

One thing the proofs found: `Readable` of NfcHandshake was a CASE whose guards
overlapped while bytes of a name were to come. TLC takes the first that holds, but
CASE does not say so and `Conversing` did not follow; it is an IF now.

## Not modelled

- The contents of SOAP messages, the internals of TLS and of FastLZ: what the code
  relies on of them is modelled as external.
- A key that vCenter gives to another disk after the first is detached, between
  the look-up and the ticket: the code cannot see it, and the ticket then names what
  vCenter says it does.
- Disk content that looks like an AIO header to a receive that is out of step (see
  the hazards).
- Logging. When the interpreter finalises an object; exceptions that are not an
  `Exception` (`KeyboardInterrupt`), which pass the except clauses by.
- The integration, stress and performance tests, which need a lab and the native
  VDDK, and the probing samples, which are one-off scripts against it.

## Plan

What is modelled covers the package, and what the runs check of safety is proved.
What is left:

1. The steps that liveness rests on, as safety: for each call a measure that every
   step of a healthy session decreases, so that only fairness is left to TLC.
2. The composition: NfcHandshake ends (`OpensInStep`) in the state in which NfcDisk
   begins; VixHandle's stages as an abstraction of NfcHandshake's script.
