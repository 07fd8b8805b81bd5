----------------------------- MODULE MCWantPins -----------------------------
(* Instances of WantPins for TLC.                                          *)
EXTENDS WantPins

CONSTANTS r1, r2, r3

WantLine(o) == pkt_line(<<Want, Oid(o)>>)
Lines(s)    == [lines |-> s, cut |-> Len(Flat(s))]

(* One id; two, the second with capabilities and after a flush; two with   *)
(* the second cut off; an id inside a line's data, a want without an id    *)
(* and a line whose prefix is garbage; an id the upstream refuses.         *)
SomeBodies ==
    {Lines(<<WantLine(1), Flush>>),
     Lines(<<WantLine(3), Flush>>),
     Lines(<<WantLine(2), Flush, pkt_line(<<Want, Oid(3), Other>>)>>),
     [lines |-> <<WantLine(1), WantLine(2)>>, cut |-> 5],
     Lines(<<pkt_line(<<Other, Want, Oid(1)>>), pkt_line(<<Want, Other>>),
             pkt_line(<<>>), WantLine(2), <<Other>>, WantLine(3)>>),
     Lines(<<WantLine(1), WantLine(4)>>)}
=============================================================================
