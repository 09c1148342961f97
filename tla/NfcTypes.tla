------------------------------ MODULE NfcTypes ------------------------------
(***************************************************************************)
(* nfc_service and _register_nfc_types (nfc_auth.py) as run by any number  *)
(* of threads: a flag of the module says that vim.NfcService is known to   *)
(* the type map of pyVmomi, which belongs to the whole process and may     *)
(* hold the type already.  There is no lock around check and registration. *)
(*                                                                         *)
(* External: a type that GetVmodlType finds is a whole one.  The code      *)
(* calls what it found and could not tell a half-made type from it.        *)
(***************************************************************************)
CONSTANT Threads

VARIABLES
    flag,      \* _NFC_TYPES_REGISTERED
    registry,  \* external: pyVmomi knows vim.NfcService
    reg        \* per thread, the line of the two functions it is at

Lines == {"out", "check", "lookup", "create", "created", "mark", "get", "service",
          "raised"}

TypesInit ==
    /\ flag = FALSE /\ registry \in BOOLEAN
    /\ reg = [t \in Threads |-> "out"]

At(t, line) == reg[t] = line
Goto(t, line) == reg' = [reg EXCEPT ![t] = line]

\* nfc_service is called, for the first time or again.
EnterService(t) ==
    /\ At(t, "out") \/ At(t, "service") \/ At(t, "raised")
    /\ Goto(t, "check") /\ UNCHANGED <<flag, registry>>

CheckFlag(t) ==
    /\ At(t, "check")
    /\ \/ flag /\ Goto(t, "get")
       \/ ~flag /\ Goto(t, "lookup")
    /\ UNCHANGED <<flag, registry>>

\* GetVmodlType, whose exception is suppressed; found, the flag is set.
LookupMarksFirst(t) ==
    /\ At(t, "lookup") /\ flag' = TRUE
    /\ \/ registry /\ Goto(t, "get")
       \/ ~registry /\ Goto(t, "create")
    /\ UNCHANGED registry
Lookup(t) ==
    /\ At(t, "lookup")
    /\ \/ registry /\ Goto(t, "mark")
       \/ ~registry /\ Goto(t, "create")
    /\ UNCHANGED <<flag, registry>>

\* CreateManagedType, which another thread may have called since: from some
\* moment of the call on GetVmodlType finds the type, in every thread.
Create(t) ==
    /\ At(t, "create") /\ registry' = TRUE
    /\ Goto(t, "created") /\ UNCHANGED flag

\* It returns, with the type there, once or twice registered.
CreateReturns(t) ==
    /\ At(t, "created")
    /\ Goto(t, "mark") /\ UNCHANGED <<flag, registry>>

\* It raises, before that moment or after it.
CreateRaises(t) ==
    /\ At(t, "create") \/ At(t, "created")
    /\ Goto(t, "raised") /\ UNCHANGED <<flag, registry>>

Mark(t) ==
    /\ At(t, "mark") /\ flag' = TRUE
    /\ Goto(t, "get") /\ UNCHANGED registry

\* GetVmodlType, this time not protected, and the service object.
GetType(t) ==
    /\ At(t, "get")
    /\ \/ registry /\ Goto(t, "service")
       \/ ~registry /\ Goto(t, "raised")
    /\ UNCHANGED <<flag, registry>>

TypesStep(t) ==
    \/ CheckFlag(t) \/ Lookup(t)
    \/ Create(t) \/ CreateReturns(t) \/ CreateRaises(t)
    \/ Mark(t) \/ GetType(t)

-----------------------------------------------------------------------------
TypesTypeOK ==
    flag \in BOOLEAN /\ registry \in BOOLEAN /\ reg \in [Threads -> Lines]

\* No thread trusts a registration that is not done: whoever reads the flag
\* as set, or is past the registration, finds the type, so that nfc_service
\* fails only where CreateManagedType does.
RegistrationSound ==
    /\ flag => registry
    /\ \A t \in Threads :
          reg[t] \in {"created", "mark", "get", "service"} => registry
=============================================================================
