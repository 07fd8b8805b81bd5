------------------------------ MODULE Evictor ------------------------------
(***************************************************************************)
(* The background evictor (run, maintain and reconcile_missing in          *)
(* src/evict.rs) beside the requests that fill the cache and record what   *)
(* they did in the index.  The evictor is one task: its awaits let         *)
(* requests run between any two of its steps, and so do other threads      *)
(* between two acquisitions of the index's mutex.                          *)
(*                                                                         *)
(* A mirror or LFS object on disk is its size.  How a clone, fetch or      *)
(* eviction of one mirror works inside its slot lock is module             *)
(* MirrorCache; here a writer holds the slot from WriteBegin until it has  *)
(* recorded the change.                                                    *)
(***************************************************************************)
EXTENDS CacheIndex

CONSTANTS
    MaxSize,       \* bound on the size of a mirror
    BlobBytes,     \* size of an LFS object, which is immutable
    Faults         \* what may go wrong, a subset of FaultKinds

(* drop: a request is dropped between changing the disk and recording it;  *)
(* operator: entries are deleted by hand; disk: a removal fails;           *)
(* crash: the process stops and is started again.                          *)
FaultKinds == {"drop", "operator", "disk", "crash"}

ASSUME EvictorAssumption ==
    MaxSize \in Nat /\ BlobBytes \in 1..MaxSize /\ Faults \subseteq FaultKinds

VARIABLES
    disk,          \* bytes on disk of each key, 0 when it is absent
    writer,        \* per key, the request holding its slot: see WriterStates
    at,            \* where the evictor task is
    batch,         \* keys still to be measured, or to be stat'ed
    sizes,         \* measured sizes that are not yet in the index
    victims,       \* victims still to be removed from disk
    missing,       \* keys whose stat said NotFound
    due,           \* the reconcile interval has elapsed
    shutdown,      \* the server has drained and sent the shutdown signal
    lost,          \* history: keys whose last write was dropped unrecorded, or
                   \* whose eviction failed, since the index was last told
    grown          \* history: mirrors that a failed fetch has changed since they
                   \* were last measured

task    == <<at, batch, sizes, victims, missing>>
history == <<lost, grown>>
vars    == <<index, disk, writer, task, due, shutdown, history>>

WriterStates == {"idle", "writing", "written", "recorded"}
Places == {"take_dirty", "measure", "evict", "select", "stat", "stopped"}

(* Every variable stays within its type; only mirrors become dirty.        *)
TypeOK ==
    /\ IndexTypeOK
    /\ disk \in [Keys -> 0..MaxSize]
    /\ writer \in [Keys -> WriterStates]
    /\ at \in Places
    /\ batch \subseteq Keys
    /\ DOMAIN sizes \subseteq Mirrors /\ sizes \in [DOMAIN sizes -> 0..MaxSize]
    /\ victims \in Seq(Keys)
    /\ missing \subseteq Keys
    /\ due \in BOOLEAN /\ shutdown \in BOOLEAN
    /\ lost \subseteq Keys /\ grown \subseteq Mirrors

NoSizes == [k \in {} |-> 0]

Present == {k \in Keys : disk[k] > 0}

(* What an entry that is there may weigh.                                  *)
Weights(k) == IF k \in Blobs THEN {BlobBytes} ELSE 1..MaxSize

Init ==
    /\ disk \in {d \in [Keys -> 0..MaxSize] :
                   \A k \in Keys : d[k] \in {0} \cup Weights(k)}
    /\ writer = [k \in Keys |-> "idle"]
    /\ \E order \in SetToSeqs(Present) : Scan(order, Restrict(disk, Present))
    /\ at = "take_dirty"
    /\ batch = {} /\ sizes = NoSizes /\ victims = <<>> /\ missing = {}
    /\ due = FALSE /\ shutdown = FALSE /\ lost = {} /\ grown = {}

-----------------------------------------------------------------------------
(* Requests.  The server has drained before shutdown is sent.              *)

(* Each request for a mirror touches it, and a hit touches an LFS object,  *)
(* which may be gone again by then.                                        *)
Touch(k) ==
    /\ ~shutdown
    /\ touch(k)
    /\ UNCHANGED <<disk, writer, task, due, shutdown, history>>

(* The slot is taken for a clone or fetch of a mirror, or the download of  *)
(* an object that is not there.                                            *)
WriteBegin(k) ==
    /\ ~shutdown
    /\ writer[k] = "idle"
    /\ k \in Blobs => disk[k] = 0
    /\ writer' = [writer EXCEPT ![k] = "writing"]
    /\ UNCHANGED <<index, disk, task, due, shutdown, history>>

(* The disk holds the new content, by rename or by git's own writes.       *)
WriteLand(k) ==
    /\ writer[k] = "writing"
    /\ \E n \in Weights(k) : disk' = [disk EXCEPT ![k] = n]
    /\ writer' = [writer EXCEPT ![k] = "written"]
    /\ UNCHANGED <<index, task, due, shutdown, history>>

(* The write fails and nobody tells the index.  A clone or download leaves *)
(* nothing under the key; a fetch, also of wants, leaves in its mirror the *)
(* packs and refs it had written.                                          *)
WriteFail(k) ==
    /\ writer[k] = "writing"
    /\ writer' = [writer EXCEPT ![k] = "idle"]
    /\ \/ UNCHANGED <<disk, grown>>
       \/ /\ k \in Mirrors /\ disk[k] > 0
          /\ \E n \in Weights(k) : disk' = [disk EXCEPT ![k] = n]
          /\ grown' = grown \cup {k}
    /\ UNCHANGED <<index, task, due, shutdown, lost>>

(* mark_changed or record_blob, with the slot still held.                  *)
WriteRecord(k) ==
    /\ writer[k] = "written"
    /\ IF k \in Blobs THEN record_blob(k, BlobBytes) ELSE mark_changed(k)
    /\ writer' = [writer EXCEPT ![k] = "recorded"]
    /\ lost' = lost \ {k}
    /\ UNCHANGED <<disk, task, due, shutdown, grown>>

(* The notify_one that ends either of them.                                *)
WriteNotify(k) ==
    /\ writer[k] = "recorded"
    /\ notify_one
    /\ writer' = [writer EXCEPT ![k] = "idle"]
    /\ UNCHANGED <<disk, task, due, shutdown, history>>

(* Dropped while it awaited the rename or the child that did the work.     *)
WriteDrop(k) ==
    /\ "drop" \in Faults
    /\ writer[k] = "written"
    /\ writer' = [writer EXCEPT ![k] = "idle"]
    /\ lost' = lost \cup {k}
    /\ UNCHANGED <<index, disk, task, due, shutdown, grown>>

OperatorDelete(k) ==
    /\ "operator" \in Faults
    /\ disk[k] > 0
    /\ disk' = [disk EXCEPT ![k] = 0]
    /\ UNCHANGED <<index, writer, task, due, shutdown, history>>

-----------------------------------------------------------------------------
(* maintain: measure what is dirty, record the sizes, evict.               *)

(* Mutant: the reconcile interval is created anew in every pass.           *)
TakeDirtyNewInterval ==
    /\ at = "take_dirty"
    /\ at' = "measure"
    /\ batch' = dirty
    /\ take_dirty
    /\ due' = FALSE
    /\ UNCHANGED <<disk, writer, sizes, victims, missing, shutdown, history>>

TakeDirty ==
    /\ at = "take_dirty"
    /\ at' = "measure"
    /\ batch' = dirty
    /\ take_dirty
    /\ UNCHANGED <<disk, writer, sizes, victims, missing, due, shutdown, history>>

Measure(k) ==
    /\ at = "measure"
    /\ k \in batch
    /\ batch' = batch \ {k}
    /\ sizes' = Put(sizes, k, disk[k])
    /\ grown' = grown \ {k}
    /\ UNCHANGED <<index, disk, writer, at, victims, missing, due, shutdown, lost>>

SetSize(k) ==
    /\ at = "measure" /\ batch = {}
    /\ k \in DOMAIN sizes
    /\ set_size(k, sizes[k])
    /\ sizes' = Without(sizes, {k})
    /\ UNCHANGED <<disk, writer, at, batch, victims, missing, due, shutdown, history>>

TakeVictims ==
    /\ at = "measure" /\ batch = {} /\ sizes = NoSizes
    /\ at' = "evict"
    /\ victims' = Victims
    /\ take_victims
    /\ UNCHANGED <<disk, writer, batch, sizes, missing, due, shutdown, history>>

(* An LFS object is unlinked as it is; a mirror is evicted under its slot  *)
(* lock.  A failure is logged and the entry stays on disk, untracked.      *)
EvictNext ==
    /\ at = "evict" /\ victims # <<>>
    /\ LET k == Head(victims) IN
         /\ k \in Mirrors => writer[k] = "idle"
         /\ \/ disk' = [disk EXCEPT ![k] = 0] /\ UNCHANGED lost
            \/ "disk" \in Faults /\ lost' = lost \cup {k} /\ UNCHANGED disk
    /\ victims' = Tail(victims)
    /\ UNCHANGED <<index, writer, at, batch, sizes, missing, due, shutdown, grown>>

(* Mutant: the permit is used up by the pass that has just ended.          *)
EvictDoneClears ==
    /\ at = "evict" /\ victims = <<>>
    /\ at' = "select"
    /\ permit' = FALSE
    /\ UNCHANGED <<lru, size, dirty, total, disk, writer, batch, sizes, victims,
                   missing, due, shutdown, history>>

EvictDone ==
    /\ at = "evict" /\ victims = <<>>
    /\ at' = "select"
    /\ UNCHANGED <<index, disk, writer, batch, sizes, victims, missing, due,
                   shutdown, history>>

-----------------------------------------------------------------------------
(* The biased select: shutdown, then the reconcile tick, then work.        *)

(* Mutant: shutdown is only looked at when nothing else is ready.          *)
StopWhenIdle ==
    /\ at = "select" /\ shutdown /\ ~due /\ ~permit
    /\ at' = "stopped"
    /\ UNCHANGED <<index, disk, writer, batch, sizes, victims, missing, due,
                   shutdown, history>>

Stop ==
    /\ at = "select" /\ shutdown
    /\ at' = "stopped"
    /\ UNCHANGED <<index, disk, writer, batch, sizes, victims, missing, due,
                   shutdown, history>>

(* reconcile_missing takes its snapshot of the tracked keys.               *)
ReconcileReady == ~shutdown /\ due

ReconcileBegin ==
    /\ at = "select" /\ ReconcileReady
    /\ due' = FALSE
    /\ at' = "stat"
    /\ batch' = tracked
    /\ UNCHANGED <<index, disk, writer, sizes, victims, missing, shutdown, history>>

WorkReady == ~shutdown /\ ~due /\ permit

Work ==
    /\ at = "select" /\ WorkReady
    /\ permit' = FALSE
    /\ at' = "take_dirty"
    /\ UNCHANGED <<lru, size, dirty, total, disk, writer, batch, sizes,
                   victims, missing, due, shutdown, history>>

Stat(k) ==
    /\ at = "stat"
    /\ k \in batch
    /\ batch' = batch \ {k}
    /\ missing' = IF disk[k] = 0 THEN missing \cup {k} ELSE missing
    /\ UNCHANGED <<index, disk, writer, at, sizes, victims, due, shutdown, history>>

ReconcileEnd ==
    /\ at = "stat" /\ batch = {}
    /\ drop_missing(missing)
    /\ missing' = {}
    /\ at' = "take_dirty"
    /\ UNCHANGED <<disk, writer, batch, sizes, victims, due, shutdown, history>>

-----------------------------------------------------------------------------
(* The interval's tick: a missed one is delayed, so at most one is due.    *)
IntervalTick ==
    /\ ~due /\ ~shutdown
    /\ due' = TRUE
    /\ UNCHANGED <<index, disk, writer, task, shutdown, history>>

(* main: axum has drained the requests, then tells the evictor.            *)
Shutdown ==
    /\ ~shutdown
    /\ \A k \in Keys : writer[k] = "idle"
    /\ shutdown' = TRUE
    /\ UNCHANGED <<index, disk, writer, task, due, history>>

(* A new process scans the disk and spawns its evictor.                    *)
Restart ==
    /\ "crash" \in Faults
    /\ \E order \in SetToSeqs(Present) : Rescan(order, Restrict(disk, Present))
    /\ writer' = [k \in Keys |-> "idle"]
    /\ at' = "take_dirty"
    /\ batch' = {} /\ sizes' = NoSizes /\ victims' = <<>> /\ missing' = {}
    /\ due' = FALSE /\ shutdown' = FALSE /\ lost' = {} /\ grown' = {}
    /\ UNCHANGED disk

-----------------------------------------------------------------------------
Writing(k) ==
    WriteLand(k) \/ WriteFail(k) \/ WriteRecord(k) \/ WriteNotify(k)

Maintain ==
    \/ TakeDirty \/ TakeVictims \/ EvictNext \/ EvictDone
    \/ \E k \in Keys : Measure(k) \/ SetSize(k)

Select ==
    \/ Stop \/ ReconcileBegin \/ Work \/ ReconcileEnd
    \/ \E k \in Keys : Stat(k)

Next ==
    \/ \E k \in Keys : Touch(k) \/ WriteBegin(k) \/ Writing(k) \/ WriteDrop(k)
                         \/ OperatorDelete(k)
    \/ Maintain \/ Select
    \/ IntervalTick \/ Shutdown \/ Restart

Spec == Init /\ [][Next]_vars

(* A write ends, the timer fires, the evictor task runs; the slot lock is  *)
(* first come first served, so the evictor gets it between two writers.    *)
Fairness ==
    /\ \A k \in Keys : WF_vars(Writing(k))
    /\ WF_vars(IntervalTick)
    /\ WF_vars(Maintain \/ Select)
    /\ SF_vars(EvictNext)

FairSpec == Spec /\ Fairness

-----------------------------------------------------------------------------
(* While there is something to measure or too much to keep, the evictor    *)
(* is on its way to it, or a permit will wake it ("no wakeup is lost"), or *)
(* the request that caused it is about to store one: take_dirty is still   *)
(* ahead for a dirty mirror, take_victims for an excess.                   *)
Awaited == permit \/ \E k \in Keys : writer[k] = "recorded"

NoWorkLost ==
    /\ dirty # {} => Awaited \/ at \in {"take_dirty", "stat"}
    /\ total > MaxBytes => Awaited \/ at \in {"take_dirty", "stat", "measure"}

(* A mirror on disk is in the index, or its request is about to put it     *)
(* there, or the evictor is about to remove it, or it is one of those that *)
(* "the next startup scan picks back up": its request was dropped before   *)
(* it could record the change, or its removal failed.  Whatever operators  *)
(* delete and whenever the process stops.                                  *)
Accounted(k) ==
    disk[k] > 0 =>
      k \in tracked \cup lost \cup ToSet(victims) \/ writer[k] = "written"

MirrorsTracked == \A k \in Mirrors : Accounted(k)

(* The same of LFS objects.                                                *)
BlobsTracked == \A k \in Blobs : Accounted(k)

(* What the cap is to cover: every mirror and every tracked object, but    *)
(* those that were lost and those that a failed fetch has changed.  These  *)
(* keep the size they had until the next pull that succeeds, or a restart. *)
Answerable == (Mirrors \cup tracked) \ (lost \cup grown)

WithinCap == SumFunctionOnSet(disk, Answerable) <= MaxBytes

(* When the evictor sleeps and nobody writes, what is on disk is within    *)
(* the cap: no order of writes, measurements, evictions and sweeps leaves  *)
(* the index with a size that is not the one on disk.                      *)
RestsWithinCap ==
    at = "select" /\ ~permit /\ (\A k \in Keys : writer[k] = "idle") => WithinCap

(* And a cache that is no longer written to does come to rest.             *)
Settles ==
    <>[](\A k \in Keys : writer[k] = "idle") => <>[](at = "stopped" \/ WithinCap)

(* An entry whose directory is gone does not stay in the index, however    *)
(* busy the other entries keep the evictor.                                *)
PhantomsDropped ==
    \A k \in Keys : (k \in tracked /\ disk[k] = 0 /\ ~shutdown)
                      ~> (k \notin tracked \/ disk[k] > 0 \/ shutdown)

(* The evictor ends after the shutdown signal, or a new process replaces it.*)
Stops == shutdown ~> (at = "stopped" \/ ~shutdown)

=============================================================================
