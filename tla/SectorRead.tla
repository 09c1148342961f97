----------------------------- MODULE SectorRead -----------------------------
(***************************************************************************)
(* What VixDiskLib_Read promises its caller: a read either fails or yields *)
(* in one step the bytes of the disk at the addresses asked for.           *)
(***************************************************************************)
EXTENDS Integers

CONSTANT DiskByte(_)  \* the byte of the disk at an address

VARIABLES phase, offset, length, result
vars == <<phase, offset, length, result>>

Init == phase = "idle" /\ offset = 0 /\ length = 0 /\ result = <<>>

\* A request for at least one byte.
Ask ==
    /\ phase = "idle" /\ phase' = "reading"
    /\ offset' \in Nat /\ length' \in Nat \ {0}
    /\ UNCHANGED result

Answer ==
    /\ phase = "reading" /\ phase' = "done"
    /\ result' = [i \in 0 .. (length - 1) |-> DiskByte(offset + i)]
    /\ UNCHANGED <<offset, length>>

Fail ==
    /\ phase \in {"idle", "reading"} /\ phase' = "failed"
    /\ UNCHANGED <<offset, length, result>>

Spec == Init /\ [][Ask \/ Answer \/ Fail]_vars
=============================================================================
