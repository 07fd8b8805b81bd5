---------------------------- MODULE MCUploadPack ----------------------------
(* Instances of UploadPack for TLC.                                        *)
EXTENDS UploadPack

CONSTANTS r1, r2, r3

(* Protocol v2 reads everything before it answers; a v0 negotiation may be *)
(* larger than the two pipes.  One body is over MaxDecoded.                *)
AnyBodies ==
    {[len |-> 3, chatty |-> TRUE], [len |-> 3, chatty |-> FALSE],
     [len |-> 4, chatty |-> FALSE]}

(* A v0 negotiation that does not fit into the pipes.                      *)
LargeBodies == {[len |-> 3, chatty |-> TRUE]}
=============================================================================
