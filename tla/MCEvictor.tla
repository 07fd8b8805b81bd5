----------------------------- MODULE MCEvictor -----------------------------
(* Instances of Evictor for TLC.                                           *)
EXTENDS Evictor

CONSTANTS m1, m2, b1

Symmetry == Permutations(Mirrors) \cup Permutations(Blobs)
=============================================================================
