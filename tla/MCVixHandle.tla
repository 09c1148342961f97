---------------------------- MODULE MCVixHandle ----------------------------
(* An instance of VixHandle for TLC.                                       *)
EXTENDS VixHandle

\* None, both modes, none that is supported, and lists that start with one
\* that is not or hold both.
MCModeLists ==
    {Default} \cup {Modes(l) : l \in {<<"nbd">>, <<"file">>, <<"file", "nbd">>,
        <<"file", "nbdssl", "nbd">>, <<"nbd", "nbdssl">>}}
=============================================================================
