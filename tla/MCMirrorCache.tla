--------------------------- MODULE MCMirrorCache ---------------------------
(* Instances of MirrorCache for TLC: which requests, and which faults.     *)
EXTENDS MirrorRefinement, TLC

CONSTANTS i1, i2, i3, u1

PromptFaults == FaultKinds \ {"late"}
LateFaults   == FaultKinds \ {"disk"}
LateDrop     == {"drop", "late"}

(* Requests of one kind are interchangeable. *)
Symmetry == Permutations(InfoRefs) \cup Permutations(UploadPacks)
=============================================================================
