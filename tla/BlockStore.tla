----------------------------- MODULE BlockStore -----------------------------
(***************************************************************************)
(* What a disk session promises its one caller: a store of blocks, and     *)
(* calls that return or fail.  A write is submitted block by block and     *)
(* what is submitted settles in the store later, or never.  A call that    *)
(* fails says nothing about that; a call that returns says that all there  *)
(* was has settled: its own blocks, if it is a write, and every leftover   *)
(* of calls that failed before.  A read returns the store as it then is.   *)
(***************************************************************************)
EXTENDS Integers

CONSTANTS
    Blocks, Original, Garbage,
    Calls,     \* records with a kind, an id, the first block and their number
    NoResult   \* the result of a call in progress

VARIABLES
    store,  \* the block contents
    pend,   \* <<block, value>> pairs submitted and neither settled nor lost
    busy,   \* a call is in progress,
    cur,    \* ... this one
    last    \* the result of the last call
vars == <<store, pend, busy, cur, last>>

Init ==
    /\ store = [b \in Blocks |-> Original]
    /\ pend = {} /\ busy = FALSE /\ cur \in Calls /\ last = NoResult

Extent(c) == c.start .. (c.start + c.n - 1)

\* A call begins, or another part of it.
Begin ==
    /\ busy' = TRUE /\ cur' \in Calls /\ last' = NoResult
    /\ UNCHANGED <<store, pend>>

\* The write in progress submits a block: its value or, in a send that is cut
\* short, something else.
Submit ==
    /\ busy /\ cur.kind = "write"
    /\ \E b \in Extent(cur) :
          \/ pend' = pend \cup {<<b, cur.op>>} /\ UNCHANGED <<busy, cur, last>>
          \/ /\ pend' = pend \cup {<<b, Garbage>>}
             /\ busy' = FALSE /\ cur' \in Calls
             /\ last' = [NoResult EXCEPT !.kind = "write"]
    /\ UNCHANGED store

\* Something submitted settles; a server that gives up may drop the rest.
Settle ==
    /\ \E p \in pend :
          /\ pend' \subseteq pend \ {p}
          /\ store' = [store EXCEPT ![p[1]] = p[2]]
    /\ UNCHANGED <<busy, cur, last>>

\* Something submitted is refused or lost.
Drop ==
    /\ pend' \subseteq pend
    /\ UNCHANGED <<store, busy, cur, last>>

Fail ==
    /\ busy' = FALSE /\ cur' \in Calls
    /\ \E k \in {"read", "write", "CLOSE_FILE", "CLOSE_SESSION"} :
          last' = [NoResult EXCEPT !.kind = k]
    /\ UNCHANGED <<store, pend>>

\* With nothing pending a read returns the store, and a write is in it.
Return ==
    /\ busy /\ busy' = FALSE /\ cur' \in Calls /\ pend = {}
    /\ last' = [kind |-> cur.kind, ok |-> TRUE, blocks |-> Extent(cur),
                data |-> IF cur.kind = "read"
                         THEN [b \in Blocks |-> IF b \in Extent(cur) THEN store[b]
                                                ELSE Garbage]
                         ELSE NoResult.data]
    /\ cur.kind = "write" => \A b \in Extent(cur) : store[b] = cur.op
    /\ UNCHANGED <<store, pend>>

Spec == Init /\ [][Begin \/ Submit \/ Settle \/ Drop \/ Fail \/ Return]_vars
=============================================================================
