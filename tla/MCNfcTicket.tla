---------------------------- MODULE MCNfcTicket ----------------------------
(* An instance of NfcTicket for TLC.                                       *)
EXTENDS NfcTicket, TLC

Symmetry == Permutations(Threads)

\* c1 is self-signed and pinned, in lower case; the CA store has c2.
MCThumbprints ==
    {NoThumbprint, [digest |-> "c1", colons |-> FALSE, lower |-> TRUE]}
MCApiVersions == <<[major |-> 9, minor |-> 0], [major |-> 8, minor |-> 1]>>

\* A controller and two disks.
Base(d) == [disk |-> d, n |-> 0]
MCDevices ==
    <<[disk |-> FALSE, key |-> 1, chain |-> <<>>],
      [disk |-> TRUE, key |-> 2, chain |-> <<Base("b")>>],
      [disk |-> TRUE, key |-> 3, chain |-> <<Base("a")>>]>>

\* All files; the base and the first delta of a disk, for writing and for
\* reading; a key and a host; a writable request that names nothing.
Asks(ro, key, path, host) == [ro |-> ro, key |-> key, path |-> path, host |-> host]
MCRequests ==
    {Asks(TRUE, NoKey, NoPath, NoHost), Asks(FALSE, NoKey, Base("a"), NoHost),
     Asks(TRUE, NoKey, [disk |-> "a", n |-> 1], NoHost),
     Asks(FALSE, 3, Base("b"), "h2"), Asks(FALSE, NoKey, NoPath, NoHost)}
=============================================================================
