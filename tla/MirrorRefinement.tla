-------------------------- MODULE MirrorRefinement --------------------------
(* MirrorCache implements BoundedStaleness: the copy is the mirror itself, *)
(* and a client waits from its arrival to its answer, wherever its request *)
(* is in between.                                                          *)
EXTENDS MirrorCache

Status(l) ==
    CASE l \in {"new", "ok"} -> l
      [] l \in Results \ {"ok"} -> "failed"
      [] OTHER -> "waiting"

Cache == INSTANCE BoundedStaleness WITH
           Clients <- InfoRefs,
           copy    <- mirror,
           status  <- [r \in InfoRefs |-> Status(pc[r])]

(* Whatever is interleaved, dropped, retried, evicted or crashed, what     *)
(* clients see of ensure_fresh and its callers is a cache of one whole     *)
(* copy that never goes back and is never shown older than fetch_ttl.      *)
Promised == Cache!Spec

=============================================================================
