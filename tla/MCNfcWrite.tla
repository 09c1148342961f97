----------------------------- MODULE MCNfcWrite -----------------------------
(* An instance of NfcWrite for TLC.                                        *)
EXTENDS NfcWrite

\* A negative start and one past the largest offset cannot be packed.
MCStarts == {-1, 0, 1, UIntLimit * UIntLimit}
MCCounts == -1 .. 4
MCBuffers == [n : 0 .. 12, w : {1, 2}]
=============================================================================
