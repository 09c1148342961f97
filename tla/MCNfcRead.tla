----------------------------- MODULE MCNfcRead -----------------------------
(* Instances of NfcRead for TLC.                                           *)
EXTENDS NfcRead

MCStarts == {-1, 0, 1, 13}
MCCounts == 0 .. 4

\* Frames from outside the protocol: one good fragment, which may so be
\* repeated, and each of its fields wrong in turn.
Good == ReplyFrame(<<0, 2>>, 0)
GoodLz == ReplyFrame(<<2, 4>>, 1)
None == {}
Loose ==
    {Good, GoodLz,
     [Good EXCEPT !.magic = FALSE], [Good EXCEPT !.type = "ERROR"],
     [Good EXCEPT !.own = FALSE], [Good EXCEPT !.rsize = 35],
     [Good EXCEPT !.chunk = 0], [Good EXCEPT !.dest = 3],
     [Good EXCEPT !.dest = 1],
     [Good EXCEPT !.ctype = 1], [GoodLz EXCEPT !.clen = 0],
     [GoodLz EXCEPT !.clen = 3], [GoodLz EXCEPT !.ulen = 0],
     [GoodLz EXCEPT !.ulen = 3], [GoodLz EXCEPT !.rsize = 38]}

\* A server whose second fragment overlaps the first instead of following it.
Overlapping == {[Good EXCEPT !.dest = 1]}

\* A FastLZ fragment whose payload stops before the compressed size.
ShortPayload == {[GoodLz EXCEPT !.rsize = 38]}
=============================================================================
