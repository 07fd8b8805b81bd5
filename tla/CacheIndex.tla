----------------------------- MODULE CacheIndex -----------------------------
(***************************************************************************)
(* The in-memory index of the cache (CacheIndex in src/evict.rs): the LRU  *)
(* order and size of every tracked entry, the mirrors waiting to be        *)
(* measured, the running byte total and the Notify that wakes the evictor. *)
(* Each operation below runs under the state mutex, or is a call on the    *)
(* Notify, so it is one step of whoever calls it; module Evictor says who  *)
(* does, and when.                                                         *)
(***************************************************************************)
EXTENDS Integers, Sequences, FiniteSets, SequencesExt

CONSTANTS
    Mirrors,       \* cache keys of bare mirrors
    Blobs,         \* cache keys of LFS objects
    MaxBytes       \* max_bytes, the cap

Keys == Mirrors \cup Blobs

ASSUME KeysAssumption == Mirrors \cap Blobs = {} /\ IsFiniteSet(Keys)
ASSUME CapAssumption == MaxBytes \in Nat

VARIABLES
    lru,           \* keys in access order, least recently used first
    size,          \* a function on the tracked keys: their recorded sizes
    dirty,         \* mirrors whose size needs (re)measuring
    total,         \* sum of the sizes, maintained incrementally
    permit         \* the permit that Notify::notify_one stores

index == <<lru, size, dirty, total, permit>>

tracked == DOMAIN size

Before(s, j, k) == \E m, n \in 1..Len(s) : m < n /\ s[m] = j /\ s[n] = k

(* LruCache::pop of a set of keys: the others keep their order.            *)
Minus(s, S) ==
    CHOOSE t \in SetToSeqs(ToSet(s) \ S) :
        \A m, n \in 1..Len(t) : m < n => Before(s, t[m], t[n])

(* LruCache::get and put move the key to the most recently used end.       *)
Promote(s, k) == Append(Minus(s, {k}), k)

Put(f, k, n) == [j \in DOMAIN f \cup {k} |-> IF j = k THEN n ELSE f[j]]

Without(f, S) == Restrict(f, DOMAIN f \ S)

-----------------------------------------------------------------------------
(* Called by requests.                                                     *)

touch(k) ==
    /\ lru' = IF k \in tracked THEN Promote(lru, k) ELSE lru
    /\ UNCHANGED <<size, dirty, total, permit>>

(* Mutant: an object is marked for measurement like a mirror.              *)
record_blob_dirty(k, n) ==
    /\ lru' = Promote(lru, k)
    /\ size' = Put(size, k, n)
    /\ total' = (total - (IF k \in tracked THEN size[k] ELSE 0)) + n
    /\ dirty' = dirty \cup {k}
    /\ UNCHANGED permit

record_blob(k, n) ==
    /\ lru' = Promote(lru, k)
    /\ size' = Put(size, k, n)
    /\ total' = (total - (IF k \in tracked THEN size[k] ELSE 0)) + n
    /\ UNCHANGED <<dirty, permit>>

(* Mutant: a mirror is only measured after its clone.                      *)
mark_changed_once(k) ==
    /\ lru' = Promote(lru, k)
    /\ size' = IF k \in tracked THEN size ELSE Put(size, k, 0)
    /\ dirty' = IF k \in tracked THEN dirty ELSE dirty \cup {k}
    /\ UNCHANGED <<total, permit>>

mark_changed(k) ==
    /\ lru' = Promote(lru, k)
    /\ size' = IF k \in tracked THEN size ELSE Put(size, k, 0)
    /\ dirty' = dirty \cup {k}
    /\ UNCHANGED <<total, permit>>

(* What record_blob and mark_changed do last, with the mutex released.     *)
notify_one ==
    /\ permit' = TRUE
    /\ UNCHANGED <<lru, size, dirty, total>>

-----------------------------------------------------------------------------
(* Called by the evictor.                                                  *)

take_dirty ==
    /\ dirty' = {}
    /\ UNCHANGED <<lru, size, total, permit>>

(* Mutant: the old size stays in the total.                                *)
set_size_added(k, n) ==
    /\ IF k \in tracked
         THEN /\ total' = total + n
              /\ size' = [size EXCEPT ![k] = n]
         ELSE UNCHANGED <<total, size>>
    /\ UNCHANGED <<lru, dirty, permit>>

(* Mutant: the mark goes when the size is known, and with it the mark of a *)
(* change that came while the mirror was measured.                         *)
set_size_clears(k, n) ==
    /\ IF k \in tracked
         THEN /\ total' = (total - size[k]) + n
              /\ size' = [size EXCEPT ![k] = n]
         ELSE UNCHANGED <<total, size>>
    /\ dirty' = dirty \ {k}
    /\ UNCHANGED <<lru, permit>>

(* A measurement is not an access: the order stays.                        *)
set_size(k, n) ==
    /\ IF k \in tracked
         THEN /\ total' = (total - size[k]) + n
              /\ size' = [size EXCEPT ![k] = n]
         ELSE UNCHANGED <<total, size>>
    /\ UNCHANGED <<lru, dirty, permit>>

(* Bytes of the n least recently used entries.                             *)
OldestBytes(n) == SumFunctionOnSet(size, ToSet(SubSeq(lru, 1, n)))

(* How many entries are popped until the total is within the cap, or none  *)
(* is left.                                                                *)
Pops ==
    CHOOSE n \in 0..Len(lru) :
        /\ total - OldestBytes(n) <= MaxBytes \/ n = Len(lru)
        /\ \A m \in 0..(n - 1) : total - OldestBytes(m) > MaxBytes

Victims == SubSeq(lru, 1, Pops)

take_victims ==
    /\ lru' = SubSeq(lru, Pops + 1, Len(lru))
    /\ size' = Without(size, ToSet(Victims))
    /\ total' = total - OldestBytes(Pops)
    /\ UNCHANGED <<dirty, permit>>

(* Mutant: a dirty entry is dropped too.                                   *)
DroppableDirty(missing) == missing \cap tracked

(* The end of reconcile_missing: a dirty entry is left be, and one that    *)
(* has been popped meanwhile is passed over.                               *)
Droppable(missing) == (missing \ dirty) \cap tracked

drop_missing(missing) ==
    LET gone == Droppable(missing) IN
    /\ lru' = Minus(lru, gone)
    /\ size' = Without(size, gone)
    /\ total' = total - SumFunctionOnSet(size, gone)
    /\ UNCHANGED <<dirty, permit>>

-----------------------------------------------------------------------------
(* CacheIndex::new: the entries found on disk, oldest first; a permit is   *)
(* stored when they are over the cap.  Scan is the first state of an       *)
(* index, Rescan the step to a new one.                                    *)
OverCap(found) == SumFunction(found) > MaxBytes

Scan(order, found) ==
    /\ lru = order /\ size = found /\ dirty = {}
    /\ total = SumFunction(found) /\ permit = OverCap(found)

Rescan(order, found) ==
    /\ lru' = order /\ size' = found /\ dirty' = {}
    /\ total' = SumFunction(found) /\ permit' = OverCap(found)

IndexTypeOK ==
    /\ lru \in Seq(Keys)
    /\ tracked \subseteq Keys /\ size \in [tracked -> Nat]
    /\ dirty \subseteq Mirrors
    /\ total \in Nat
    /\ permit \in BOOLEAN

(* The running total is the sum of the recorded sizes (so no subtraction   *)
(* of u64s ever wraps), and the LRU list holds each tracked key once.      *)
IndexSound ==
    /\ total = SumFunction(size)
    /\ ToSet(lru) = tracked
    /\ Len(lru) = Cardinality(tracked)

=============================================================================
