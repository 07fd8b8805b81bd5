------------------------------ MODULE PktLine ------------------------------
(***************************************************************************)
(* Packet lines (pkt_line and parse_wants of src/git.rs).  A body is a     *)
(* sequence of cells: a length prefix (four bytes in the code), the text   *)
(* "want ", an object id, or anything else.  A prefix counts the cells of  *)
(* its line with its own; 0 stands for the lengths below four, the flush,  *)
(* delimiter and response-end packets.                                     *)
(***************************************************************************)
EXTENDS Naturals, Sequences

Prefix(n) == <<"len", n>>
Want      == <<"want", 0>>
Oid(o)    == <<"oid", o>>
Other     == <<"other", 0>>

pkt_line(payload) == <<Prefix(Len(payload) + 1)>> \o payload

Flush == <<Prefix(0)>>

(* The id that a line's payload asks for, if it does.                      *)
WantIn(payload) ==
    IF Len(payload) >= 2 /\ payload[1] = Want /\ payload[2][1] = "oid"
      THEN {payload[2][2]}
      ELSE {}

(* Mutant: "want " is looked for everywhere and not at a line's start.     *)
parse_wants_scan(body) ==
    {body[i][2] : i \in {j \in 2..Len(body) :
                            body[j - 1] = Want /\ body[j][1] = "oid"}}

(* Walk the lines: stop at what is no prefix, and at a truncated line.     *)
parse_wants(body) ==
    LET walk[pos \in 1..Len(body) + 1] ==
          IF pos > Len(body) \/ body[pos][1] # "len" THEN {}
          ELSE IF body[pos][2] < 1 THEN walk[pos + 1]
          ELSE LET end == pos + body[pos][2] IN
                 IF end > Len(body) + 1 THEN {}
                 ELSE WantIn(SubSeq(body, pos + 1, end - 1)) \cup walk[end]
    IN walk[1]

=============================================================================
