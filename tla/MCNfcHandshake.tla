--------------------------- MODULE MCNfcHandshake ---------------------------
(* An instance of NfcHandshake for TLC.                                    *)
EXTENDS NfcHandshake

\* A good reply with and without a sector size, a short one, another type.
MCFileReplies ==
    {[size |-> 60, type |-> NFC_DISK, sector |-> 512],
     [size |-> 60, type |-> NFC_DISK, sector |-> 0],
     [size |-> 39, type |-> NFC_DISK, sector |-> 0],
     [size |-> 60, type |-> 1, sector |-> 512]}
=============================================================================
