--------------------------- MODULE EvictorProofs ---------------------------
(***************************************************************************)
(* Proofs about Evictor, for any mirrors, objects, sizes, cap and faults.  *)
(***************************************************************************)
EXTENDS Evictor, CacheIndexProofs

(* Only mirrors are measured; sizes are recorded, victims removed and      *)
(* missing entries gathered within one pass.                               *)
Passing ==
    /\ at = "measure" => batch \subseteq Mirrors
    /\ at # "measure" => sizes = NoSizes
    /\ at # "evict" => victims = <<>>
    /\ at # "stat" => missing = {}

(* A mirror that came back after its stat is marked dirty, or will be, or  *)
(* its request was dropped: this is what drop_missing relies on.           *)
Returned(k) ==
    disk[k] > 0 => k \in dirty \cup lost \/ writer[k] = "written"

Spared == \A k \in missing \cap Mirrors : Returned(k)

IInv == TypeOK /\ Sound /\ Passing /\ Spared

-----------------------------------------------------------------------------
LEMMA DiskFacts ==
    ASSUME TypeOK
    PROVE  /\ \A k \in Keys : disk[k] \in Nat /\ Weights(k) \subseteq 1..MaxSize
           /\ Present \in SUBSET Keys
           /\ Restrict(disk, Present) \in [Present -> Nat]
           /\ BlobBytes \in Nat
<1>1. \A k \in Keys : disk[k] \in Nat /\ Weights(k) \subseteq 1..MaxSize
  BY EvictorAssumption DEF TypeOK, Weights
<1> QED
  BY <1>1, EvictorAssumption DEF Present, Restrict

(* The steps that change the index, each with the operation it calls.      *)
LEMMA NextSound ==
    ASSUME IInv, Next
    PROVE  Sound'
<1> USE DEF IInv
<1>1. ASSUME NEW k \in Keys, Touch(k) PROVE Sound'
  BY <1>1, TouchSound DEF Touch
<1>2. ASSUME NEW k \in Keys, WriteRecord(k) PROVE Sound'
  BY <1>2, DiskFacts, RecordBlobSound, MarkChangedSound DEF WriteRecord
<1>3. ASSUME NEW k \in Keys, SetSize(k) PROVE Sound'
  <2>1. sizes[k] \in Nat /\ set_size(k, sizes[k])
    BY <1>3, EvictorAssumption DEF SetSize, TypeOK
  <2> QED
    BY <2>1, SetSizeSound
<1>4. ASSUME TakeVictims PROVE Sound'
  BY <1>4, VictimsSound DEF TakeVictims
<1>5. ASSUME ReconcileEnd PROVE Sound'
  BY <1>5, DropSound DEF ReconcileEnd
<1>6. ASSUME Restart PROVE Sound'
  BY <1>6, DiskFacts, ScanSound DEF Restart
<1>7. ASSUME UNCHANGED <<lru, size, total>> PROVE Sound'
  BY <1>7 DEF Sound, tracked
<1>8. CASE \E k \in Keys : \/ WriteBegin(k) \/ WriteLand(k) \/ WriteFail(k)
                           \/ WriteNotify(k) \/ WriteDrop(k) \/ OperatorDelete(k)
                           \/ Measure(k) \/ Stat(k)
  BY <1>7, <1>8 DEF WriteBegin, WriteLand, WriteFail, WriteNotify, notify_one,
     WriteDrop, OperatorDelete, Measure, Stat, index
<1>9. CASE \/ TakeDirty \/ EvictNext \/ EvictDone \/ Stop \/ ReconcileBegin \/ Work
           \/ IntervalTick \/ Shutdown
  BY <1>7, <1>9 DEF TakeDirty, take_dirty, EvictNext, EvictDone, Stop,
     ReconcileBegin, Work, IntervalTick, Shutdown, index
<1> QED
  BY <1>1, <1>2, <1>3, <1>4, <1>5, <1>6, <1>8, <1>9
  DEF Next, Writing, Maintain, Select

-----------------------------------------------------------------------------
LEMMA NextType ==
    ASSUME IInv, Next
    PROVE  TypeOK'
<1> USE DEF IInv
<1>1. /\ lru' \in Seq(Keys) /\ total' \in Nat
      /\ tracked' \subseteq Keys /\ size' \in [tracked' -> Nat]
  <2>1. /\ tracked' \in SUBSET Keys /\ Lists(lru', tracked')
        /\ Sizing(size', tracked') /\ total' = SumFunction(size')
    BY NextSound DEF Sound
  <2>2. lru' \in Seq(Keys) /\ SumFunction(size') \in Nat
    BY <2>1, ListTypes
  <2> QED
    BY <2>1, <2>2 DEF Sizing
<1> USE DEF TypeOK, IndexTypeOK, WriterStates, Places, index, task, history
<1>2. ASSUME NEW k \in Keys,
             \/ Touch(k) \/ WriteBegin(k) \/ WriteNotify(k)
             \/ WriteDrop(k) \/ OperatorDelete(k)
      PROVE  TypeOK'
  <2>1. CASE Touch(k)
    BY <1>1, <2>1 DEF Touch, touch
  <2>2. CASE WriteBegin(k) \/ WriteDrop(k)
    BY <1>1, <2>2 DEF WriteBegin, WriteDrop
  <2>3. CASE WriteNotify(k)
    BY <1>1, <2>3 DEF WriteNotify, notify_one
  <2>4. CASE OperatorDelete(k)
    BY <1>1, <2>4, EvictorAssumption DEF OperatorDelete
  <2> QED
    BY <1>2, <2>1, <2>2, <2>3, <2>4
<1>3. ASSUME NEW k \in Keys, WriteLand(k) \/ WriteFail(k) PROVE TypeOK'
  <2>1. Weights(k) \subseteq 0..MaxSize
    BY DiskFacts
  <2> QED
    BY <1>1, <1>3, <2>1 DEF WriteLand, WriteFail
<1>4. ASSUME NEW k \in Keys, WriteRecord(k) PROVE TypeOK'
  BY <1>1, <1>4 DEF WriteRecord, record_blob, mark_changed, Keys
<1>5. ASSUME NEW k \in Keys, Measure(k) PROVE TypeOK'
  BY <1>1, <1>5 DEF Measure, Passing, Put
<1>6. ASSUME NEW k \in Keys, SetSize(k) PROVE TypeOK'
  BY <1>1, <1>6 DEF SetSize, set_size, Without, Restrict
<1>7. ASSUME NEW k \in Keys, Stat(k) PROVE TypeOK'
  BY <1>1, <1>7 DEF Stat
<1>8. ASSUME TakeDirty \/ EvictDone \/ Stop \/ ReconcileBegin \/ Work PROVE TypeOK'
  BY <1>1, <1>8 DEF TakeDirty, take_dirty, EvictDone, Stop, ReconcileBegin, Work,
     Keys, Sound
<1>9. ASSUME TakeVictims PROVE TypeOK'
  <2>1. Victims \in Seq(Keys)
    BY <1>9, VictimsSound DEF TakeVictims
  <2> QED
    BY <1>1, <1>9, <2>1 DEF TakeVictims, take_victims
<1>10. ASSUME EvictNext PROVE TypeOK'
  <2>1. Head(victims) \in Keys /\ Tail(victims) \in Seq(Keys)
    BY <1>10, HeadTailProperties DEF EvictNext
  <2>2. disk' \in [Keys -> 0..MaxSize] /\ lost' \subseteq Keys
    BY <1>10, <2>1, EvictorAssumption DEF EvictNext
  <2> QED
    BY <1>1, <1>10, <2>1, <2>2 DEF EvictNext
<1>11. ASSUME ReconcileEnd PROVE TypeOK'
  BY <1>1, <1>11 DEF ReconcileEnd, drop_missing
<1>12. ASSUME IntervalTick \/ Shutdown PROVE TypeOK'
  BY <1>1, <1>12 DEF IntervalTick, Shutdown
<1>13. ASSUME Restart PROVE TypeOK'
  <2>1. NoSizes \in [{} -> 0..MaxSize]
    BY DEF NoSizes
  <2>2. dirty' = {} /\ permit' \in BOOLEAN
    BY <1>13 DEF Restart, Rescan, OverCap
  <2>3. <<>> \in Seq(Keys)
    OBVIOUS
  <2> QED
    BY <1>1, <1>13, <2>1, <2>2, <2>3 DEF Restart
<1> QED
  BY <1>2, <1>3, <1>4, <1>5, <1>6, <1>7, <1>8, <1>9, <1>10, <1>11, <1>12, <1>13
  DEF Next, Writing, Maintain, Select

LEMMA NextPassing ==
    ASSUME IInv, Next
    PROVE  Passing'
<1> USE DEF IInv, TypeOK, IndexTypeOK, Passing, index, task, history
<1>1. ASSUME NEW k \in Keys,
             \/ Touch(k) \/ WriteBegin(k) \/ WriteLand(k) \/ WriteFail(k)
             \/ WriteRecord(k) \/ WriteNotify(k) \/ WriteDrop(k)
             \/ OperatorDelete(k) \/ Measure(k) \/ SetSize(k) \/ Stat(k)
      PROVE  Passing'
  BY <1>1 DEF Touch, WriteBegin, WriteLand, WriteFail, WriteRecord, WriteNotify,
     WriteDrop, OperatorDelete, Measure, SetSize, Stat
<1>2. ASSUME \/ TakeDirty \/ TakeVictims \/ EvictNext \/ EvictDone \/ Stop
             \/ ReconcileBegin \/ Work \/ ReconcileEnd
      PROVE  Passing'
  BY <1>2 DEF TakeDirty, TakeVictims, EvictNext, EvictDone, Stop, ReconcileBegin,
     Work, ReconcileEnd
<1>3. ASSUME IntervalTick \/ Shutdown \/ Restart PROVE Passing'
  BY <1>3 DEF IntervalTick, Shutdown, Restart
<1> QED
  BY <1>1, <1>2, <1>3 DEF Next, Writing, Maintain, Select

LEMMA NextSpared ==
    ASSUME IInv, Next
    PROVE  Spared'
<1> USE DEF IInv, TypeOK, IndexTypeOK, Passing, Spared, Returned, index, task, history
<1>1. ASSUME NEW k \in Keys,
             \/ Touch(k) \/ WriteBegin(k) \/ WriteFail(k)
             \/ WriteNotify(k) \/ WriteDrop(k) \/ OperatorDelete(k)
      PROVE  Spared'
  BY <1>1, DiskFacts DEF Touch, touch, WriteBegin, WriteFail, WriteNotify,
     notify_one, WriteDrop, OperatorDelete
<1>2. ASSUME NEW k \in Keys, WriteLand(k) PROVE Spared'
  BY <1>2, DiskFacts DEF WriteLand
<1>3. ASSUME NEW k \in Keys, WriteRecord(k) PROVE Spared'
  BY <1>3, KeysAssumption DEF WriteRecord, record_blob, mark_changed, Keys
<1>4. ASSUME NEW k \in Keys, Measure(k) \/ SetSize(k) PROVE Spared'
  BY <1>4 DEF Measure, SetSize
<1>5. ASSUME NEW k \in Keys, Stat(k) PROVE Spared'
  BY <1>5 DEF Stat
<1>6. ASSUME \/ TakeDirty \/ TakeVictims \/ EvictNext \/ EvictDone \/ Stop
             \/ ReconcileBegin \/ Work \/ ReconcileEnd
      PROVE  Spared'
  BY <1>6 DEF TakeDirty, TakeVictims, EvictNext, EvictDone, Stop, ReconcileBegin,
     Work, ReconcileEnd
<1>7. ASSUME IntervalTick \/ Shutdown \/ Restart PROVE Spared'
  BY <1>7 DEF IntervalTick, Shutdown, Restart
<1> QED
  BY <1>1, <1>2, <1>3, <1>4, <1>5, <1>6, <1>7 DEF Next, Writing, Maintain, Select

-----------------------------------------------------------------------------
LEMMA InitInvariant ==
    ASSUME Init
    PROVE  IInv
<1>1. disk \in [Keys -> 0..MaxSize] /\ Present \in SUBSET Keys
      /\ Restrict(disk, Present) \in [Present -> Nat]
  BY EvictorAssumption DEF Init, Present, Restrict
<1>2. PICK order \in SetToSeqs(Present) : Scan(order, Restrict(disk, Present))
  BY DEF Init
<1>3. Sound
  BY <1>1, <1>2, ScanSound
<1>4. lru \in Seq(Keys) /\ total \in Nat /\ tracked \subseteq Keys
      /\ size \in [tracked -> Nat]
  <2>1. /\ tracked \in SUBSET Keys /\ Lists(lru, tracked)
        /\ Sizing(size, tracked) /\ total = SumFunction(size)
    BY <1>3 DEF Sound
  <2>2. lru \in Seq(Keys) /\ SumFunction(size) \in Nat
    BY <2>1, ListTypes
  <2> QED
    BY <2>1, <2>2 DEF Sizing
<1>5. dirty = {} /\ permit \in BOOLEAN
  BY <1>2 DEF Scan, OverCap
<1>6. NoSizes \in [{} -> 0..MaxSize] /\ <<>> \in Seq(Keys)
  BY DEF NoSizes
<1>7. TypeOK
  BY <1>1, <1>4, <1>5, <1>6 DEF Init, TypeOK, IndexTypeOK, WriterStates, Places
<1> QED
  BY <1>3, <1>7 DEF Init, IInv, Passing, Spared

LEMMA Inductive ==
    ASSUME IInv, [Next]_vars
    PROVE  IInv'
<1>1. CASE Next
  BY <1>1, NextSound, NextType, NextPassing, NextSpared DEF IInv
<1>2. CASE UNCHANGED vars
  BY <1>2 DEF vars, index, task, history, IInv, TypeOK, IndexTypeOK, Sound, Passing, Spared,
     Returned, tracked
<1> QED
  BY <1>1, <1>2

LEMMA Invariance == Spec => []IInv
BY InitInvariant, Inductive, PTL DEF Spec

(* Every variable keeps its type, whatever fails: in particular only       *)
(* mirrors are ever marked dirty or measured.                              *)
THEOREM TypeCorrect == Spec => []TypeOK
<1>1. IInv => TypeOK
  BY DEF IInv
<1> QED
  BY <1>1, Invariance, PTL

(* The incremental total is the sum of the recorded sizes, so the u64      *)
(* subtractions of record_blob, set_size, take_victims and                 *)
(* reconcile_missing never wrap, and the LRU list holds each tracked key   *)
(* exactly once.                                                           *)
THEOREM IndexIsSound == Spec => []IndexSound
<1>1. IInv => IndexSound
  BY SoundFacts DEF IInv
<1> QED
  BY <1>1, Invariance, PTL

-----------------------------------------------------------------------------
(* No wakeup is lost.                                                      *)
LEMMA NextWork ==
    ASSUME IInv, NoWorkLost, Next
    PROVE  NoWorkLost'
<1> USE DEF IInv, TypeOK, IndexTypeOK, NoWorkLost, Awaited, index, task, history
<1>1. ASSUME NEW k \in Keys, Touch(k) PROVE NoWorkLost'
  BY <1>1 DEF Touch, touch
<1>2. ASSUME NEW k \in Keys,
             \/ WriteBegin(k) \/ WriteLand(k) \/ WriteFail(k) \/ WriteDrop(k)
      PROVE  NoWorkLost'
  <2>1. \A j \in Keys : writer[j] = "recorded" => writer'[j] = "recorded"
    BY <1>2 DEF WriteBegin, WriteLand, WriteFail, WriteDrop
  <2> QED
    BY <1>2, <2>1 DEF WriteBegin, WriteLand, WriteFail, WriteDrop
<1>3. ASSUME NEW k \in Keys, WriteRecord(k) PROVE NoWorkLost'
  <2>1. writer'[k] = "recorded"
    BY <1>3 DEF WriteRecord
  <2> QED
    BY <2>1
<1>4. ASSUME NEW k \in Keys, WriteNotify(k) PROVE NoWorkLost'
  BY <1>4 DEF WriteNotify, notify_one
<1>5. ASSUME NEW k \in Keys, OperatorDelete(k) \/ Measure(k) \/ Stat(k)
      PROVE  NoWorkLost'
  BY <1>5 DEF OperatorDelete, Measure, Stat
<1>6. ASSUME NEW k \in Keys, SetSize(k) PROVE NoWorkLost'
  BY <1>6 DEF SetSize, set_size
<1>7. ASSUME TakeDirty \/ EvictNext \/ EvictDone PROVE NoWorkLost'
  BY <1>7 DEF TakeDirty, take_dirty, EvictNext, EvictDone
<1>8. ASSUME TakeVictims PROVE NoWorkLost'
  <2>1. total' <= MaxBytes /\ total' \in Nat
    BY <1>8, VictimsSound, NextType DEF TakeVictims
  <2> QED
    BY <1>8, <2>1, CapAssumption DEF TakeVictims, take_victims
<1>9. ASSUME Stop \/ ReconcileBegin \/ Work \/ ReconcileEnd \/ Restart
      PROVE  NoWorkLost'
  BY <1>9 DEF Stop, ReconcileBegin, Work, ReconcileEnd, Restart
<1>10. ASSUME IntervalTick \/ Shutdown PROVE NoWorkLost'
  BY <1>10 DEF IntervalTick, Shutdown
<1> QED
  BY <1>1, <1>2, <1>3, <1>4, <1>5, <1>6, <1>7, <1>8, <1>9, <1>10
  DEF Next, Writing, Maintain, Select

(* While a mirror waits to be measured or the total is over the cap, the   *)
(* evictor is on its way to it, or a permit or a request about to store    *)
(* one will wake it: notify_one, the mutex and the biased select of run    *)
(* lose no wakeup, at any size of the cache.                               *)
THEOREM NoWakeupIsLost == Spec => []NoWorkLost
<1>1. Init => NoWorkLost
  BY DEF Init, NoWorkLost, Scan
<1>2. IInv /\ NoWorkLost /\ [Next]_vars => NoWorkLost'
  <2>1. ASSUME NoWorkLost, UNCHANGED vars PROVE NoWorkLost'
    BY <2>1 DEF NoWorkLost, Awaited, vars, index, task, history
  <2> QED
    BY <2>1, NextWork
<1> QED
  BY <1>1, <1>2, Invariance, PTL DEF Spec

-----------------------------------------------------------------------------
(* What the index, the evictor or a request does not account for was lost. *)
LEMMA NextAccounted ==
    ASSUME IInv, Next, NEW m \in Keys, Accounted(m),
           m \in Droppable(missing) => Returned(m) /\ m \notin dirty
    PROVE  Accounted(m)'
<1> USE DEF IInv, TypeOK, IndexTypeOK, index, task, history, Accounted
<1>1. ASSUME NEW k \in Keys,
             \/ Touch(k) \/ WriteBegin(k) \/ WriteFail(k) \/ WriteNotify(k)
             \/ WriteDrop(k) \/ Measure(k) \/ Stat(k)
      PROVE  Accounted(m)'
  BY <1>1 DEF Touch, touch, WriteBegin, WriteFail, WriteNotify, notify_one,
     WriteDrop, Measure, Stat, tracked
<1>2. ASSUME NEW k \in Keys, WriteLand(k) \/ OperatorDelete(k) PROVE Accounted(m)'
  BY <1>2 DEF WriteLand, OperatorDelete, tracked
<1>3. ASSUME NEW k \in Keys, WriteRecord(k) PROVE Accounted(m)'
  <2>1. tracked' = tracked \cup {k}
    BY <1>3, DiskFacts, RecordBlobSound, MarkChangedSound DEF WriteRecord
  <2> QED
    BY <1>3, <2>1 DEF WriteRecord
<1>4. ASSUME NEW k \in Keys, SetSize(k) PROVE Accounted(m)'
  <2>1. sizes[k] \in Nat /\ set_size(k, sizes[k])
    BY <1>4, EvictorAssumption DEF SetSize
  <2>2. tracked' = tracked
    BY <2>1, SetSizeSound
  <2> QED
    BY <1>4, <2>2 DEF SetSize
<1>5. ASSUME TakeDirty \/ EvictDone \/ Stop \/ ReconcileBegin \/ Work
             \/ IntervalTick \/ Shutdown
      PROVE  Accounted(m)'
  BY <1>5 DEF TakeDirty, take_dirty, EvictDone, Stop, ReconcileBegin, Work,
     IntervalTick, Shutdown, tracked
<1>6. ASSUME TakeVictims PROVE Accounted(m)'
  <2>1. tracked' = tracked \ ToSet(Victims)
    BY <1>6, VictimsSound DEF TakeVictims
  <2>2. victims' = Victims /\ ToSet(victims) = {}
    BY <1>6 DEF TakeVictims, Passing, ToSet
  <2> QED
    BY <1>6, <2>1, <2>2 DEF TakeVictims
<1>7. ASSUME EvictNext PROVE Accounted(m)'
  <2>1. victims # <<>> /\ victims' = Tail(victims)
    BY <1>7 DEF EvictNext
  <2>2. /\ Head(victims) \in Keys
        /\ ToSet(victims) = {Head(victims)} \cup ToSet(victims')
    BY <2>1, HeadTail
  <2>3. UNCHANGED tracked
    BY <1>7 DEF EvictNext, tracked
  <2>4. CASE m = Head(victims)
    BY <1>7, <2>3, <2>4 DEF EvictNext
  <2>5. CASE m # Head(victims)
    BY <1>7, <2>1, <2>2, <2>3, <2>5 DEF EvictNext
  <2> QED
    BY <2>4, <2>5
<1>8. ASSUME ReconcileEnd PROVE Accounted(m)'
  <2>1. tracked' = tracked \ Droppable(missing)
    BY <1>8, DropSound DEF ReconcileEnd
  <2> QED
    BY <1>8, <2>1 DEF ReconcileEnd, Returned
<1>9. ASSUME Restart PROVE Accounted(m)'
  <2>1. tracked' = Present
    BY <1>9 DEF Restart, Rescan, Restrict, tracked
  <2> QED
    BY <1>9, <2>1 DEF Restart, Present
<1> QED
  BY <1>1, <1>2, <1>3, <1>4, <1>5, <1>6, <1>7, <1>8, <1>9
  DEF Next, Writing, Maintain, Select

(* Every mirror on disk is in the index, about to be recorded by the       *)
(* request that wrote it, about to be removed by the evictor, or one of    *)
(* those whose request was dropped or whose removal failed: neither        *)
(* take_victims nor the drop of missing entries, raced by a clone, an      *)
(* operator or a restart, forgets one.                                     *)
THEOREM MirrorsAreTracked == Spec => []MirrorsTracked
<1>1. Init => MirrorsTracked
  BY DEF Init, MirrorsTracked, Accounted, Scan, Present, Restrict, tracked, Keys
<1>2. IInv /\ MirrorsTracked /\ [Next]_vars => MirrorsTracked'
  <2>1. ASSUME MirrorsTracked, UNCHANGED vars PROVE MirrorsTracked'
    BY <2>1 DEF MirrorsTracked, Accounted, vars, index, task, history, tracked
  <2>2. ASSUME IInv, MirrorsTracked, Next, NEW m \in Mirrors PROVE Accounted(m)'
    <3>1. m \in Droppable(missing) => Returned(m) /\ m \notin dirty
      BY <2>2 DEF IInv, Spared, Droppable
    <3>2. m \in Keys /\ Accounted(m)
      BY <2>2 DEF MirrorsTracked, Keys
    <3> QED
      BY <2>2, <3>1, <3>2, NextAccounted
  <2> QED
    BY <2>1, <2>2 DEF MirrorsTracked
<1> QED
  BY <1>1, <1>2, Invariance, PTL DEF Spec

-----------------------------------------------------------------------------
(* Sizes.  What the index holds of an entry is its size on disk, or the    *)
(* entry is gone, or was lost, or changed by a fetch that failed, or there *)
(* is someone who will put it right: the request that has just written it, *)
(* its dirty mark, or the pass that is measuring it.                       *)
Excused(k) ==
    disk[k] = 0 \/ k \in dirty \cup lost \cup grown \/ writer[k] = "written"

Recorded(k) ==
    k \in tracked =>
      \/ size[k] = disk[k] \/ Excused(k)
      \/ at = "measure" /\ k \in batch \cup DOMAIN sizes

Measured(k) ==
    at = "measure" /\ k \in DOMAIN sizes => sizes[k] = disk[k] \/ Excused(k)

Weighed ==
    /\ \A k \in Blobs : disk[k] \in {0, BlobBytes}
    /\ \A k \in Keys : Recorded(k) /\ Measured(k)

LEMMA NextImmutable ==
    ASSUME IInv, Next, \A k \in Blobs : disk[k] \in {0, BlobBytes}
    PROVE  \A k \in Blobs : disk'[k] \in {0, BlobBytes}
<1> USE DEF IInv, TypeOK, index, task, history
<1>0. \A k \in Blobs : k \in Keys /\ k \notin Mirrors /\ Weights(k) = {BlobBytes}
  BY KeysAssumption DEF Keys, Weights
<1>1. ASSUME NEW k \in Keys, WriteLand(k) \/ WriteFail(k) \/ OperatorDelete(k)
      PROVE  \A b \in Blobs : disk'[b] \in {0, BlobBytes}
  BY <1>0, <1>1 DEF WriteLand, WriteFail, OperatorDelete
<1>2. ASSUME EvictNext PROVE \A b \in Blobs : disk'[b] \in {0, BlobBytes}
  BY <1>0, <1>2 DEF EvictNext
<1>3. CASE \E k \in Keys : \/ Touch(k) \/ WriteBegin(k) \/ WriteRecord(k)
                           \/ WriteNotify(k) \/ WriteDrop(k) \/ Measure(k)
                           \/ SetSize(k) \/ Stat(k)
  BY <1>3 DEF Touch, WriteBegin, WriteRecord, WriteNotify, WriteDrop, Measure,
     SetSize, Stat
<1>4. CASE \/ TakeDirty \/ TakeVictims \/ EvictDone \/ Stop \/ ReconcileBegin \/ Work
           \/ ReconcileEnd \/ IntervalTick \/ Shutdown \/ Restart
  BY <1>4 DEF TakeDirty, TakeVictims, EvictDone, Stop, ReconcileBegin, Work,
     ReconcileEnd, IntervalTick, Shutdown, Restart
<1> QED
  BY <1>1, <1>2, <1>3, <1>4 DEF Next, Writing, Maintain, Select

LEMMA NextWeighed ==
    ASSUME IInv, Next, Weighed, NEW m \in Keys
    PROVE  Recorded(m)' /\ Measured(m)'
<1> USE DEF IInv, TypeOK, IndexTypeOK, index, task, history, Recorded, Measured,
     Excused, tracked
<1>0. Recorded(m) /\ Measured(m)
  BY DEF Weighed
<1>1. ASSUME NEW k \in Keys, Touch(k) \/ WriteBegin(k) \/ WriteNotify(k) \/ Stat(k)
      PROVE  Recorded(m)' /\ Measured(m)'
  BY <1>0, <1>1 DEF Touch, touch, WriteBegin, WriteNotify, notify_one, Stat
<1>2. ASSUME NEW k \in Keys, WriteLand(k) \/ WriteDrop(k) \/ OperatorDelete(k)
      PROVE  Recorded(m)' /\ Measured(m)'
  BY <1>0, <1>2 DEF WriteLand, WriteDrop, OperatorDelete
<1>3. ASSUME NEW k \in Keys, WriteFail(k) PROVE Recorded(m)' /\ Measured(m)'
  BY <1>0, <1>3 DEF WriteFail
<1>4. ASSUME NEW k \in Keys, WriteRecord(k) PROVE Recorded(m)' /\ Measured(m)'
  <2>1. CASE k \in Mirrors
    BY <1>0, <1>4, <2>1, KeysAssumption DEF WriteRecord, mark_changed, Put
  <2>2. CASE k \in Blobs
    <3>1. k \notin Mirrors /\ disk[k] \in {0, BlobBytes}
      BY <2>2, KeysAssumption DEF Weighed
    <3> QED
      BY <1>0, <1>4, <2>2, <3>1 DEF WriteRecord, record_blob, Put
  <2> QED
    BY <2>1, <2>2 DEF Keys
<1>5. ASSUME TakeDirty PROVE Recorded(m)' /\ Measured(m)'
  BY <1>0, <1>5 DEF TakeDirty, take_dirty, Passing, NoSizes
<1>6. ASSUME NEW k \in Keys, Measure(k) PROVE Recorded(m)' /\ Measured(m)'
  BY <1>0, <1>6 DEF Measure, Put
<1>7. ASSUME NEW k \in Keys, SetSize(k) PROVE Recorded(m)' /\ Measured(m)'
  BY <1>0, <1>7 DEF SetSize, set_size, Without, Restrict
<1>8. ASSUME TakeVictims PROVE Recorded(m)' /\ Measured(m)'
  BY <1>0, <1>8 DEF TakeVictims, take_victims, Without, Restrict, NoSizes
<1>9. ASSUME EvictNext PROVE Recorded(m)' /\ Measured(m)'
  BY <1>0, <1>9 DEF EvictNext
<1>10. ASSUME EvictDone \/ Stop \/ ReconcileBegin \/ Work \/ IntervalTick \/ Shutdown
       PROVE  Recorded(m)' /\ Measured(m)'
  BY <1>0, <1>10 DEF EvictDone, Stop, ReconcileBegin, Work, IntervalTick, Shutdown
<1>11. ASSUME ReconcileEnd PROVE Recorded(m)' /\ Measured(m)'
  BY <1>0, <1>11 DEF ReconcileEnd, drop_missing, Without, Restrict
<1>12. ASSUME Restart PROVE Recorded(m)' /\ Measured(m)'
  BY <1>12 DEF Restart, Rescan, Restrict
<1> QED
  BY <1>1, <1>2, <1>3, <1>4, <1>5, <1>6, <1>7, <1>8, <1>9, <1>10, <1>11, <1>12
  DEF Next, Writing, Maintain, Select

LEMMA SizesWeighed == Spec => []Weighed
<1>1. Init => Weighed
  BY KeysAssumption
  DEF Init, Weighed, Weights, Scan, Restrict, Recorded, Measured, Excused, tracked, Keys
<1>2. IInv /\ Weighed /\ [Next]_vars => Weighed'
  <2>1. ASSUME Weighed, UNCHANGED vars PROVE Weighed'
    BY <2>1 DEF Weighed, Recorded, Measured, Excused, vars, index, task, history,
       tracked
  <2>2. ASSUME IInv, Weighed, Next PROVE Weighed'
    BY <2>2, NextImmutable, NextWeighed DEF Weighed
  <2> QED
    BY <2>1, <2>2
<1> QED
  BY <1>1, <1>2, Invariance, PTL DEF Spec

(* With the evictor asleep and nobody writing no mirror is dirty, so each  *)
(* answerable entry weighs what the index says, and a mirror that the      *)
(* index does not know is not on disk.                                     *)
LEMMA RestingSizes ==
    ASSUME IInv, NoWorkLost, MirrorsTracked, Weighed,
           at = "select", ~permit, \A k \in Keys : writer[k] = "idle"
    PROVE  WithinCap
<1> USE DEF IInv, TypeOK, IndexTypeOK
<1>1. dirty = {} /\ total <= MaxBytes
  BY CapAssumption DEF NoWorkLost, Awaited
<1>2. \A k \in Answerable : disk[k] <= IF k \in tracked THEN size[k] ELSE 0
  <2> TAKE k \in Answerable
  <2>1. k \in Keys /\ disk[k] \in Nat /\ k \notin lost \cup grown /\ writer[k] = "idle"
    BY DiskFacts DEF Answerable, Keys
  <2>2. CASE k \in tracked
    <3>1. size[k] = disk[k] \/ disk[k] = 0
      BY <1>1, <2>1, <2>2 DEF Weighed, Recorded, Excused
    <3>2. size[k] \in Nat
      BY <2>2
    <3> QED
      BY <2>1, <2>2, <3>1, <3>2
  <2>3. CASE k \notin tracked
    <3>1. k \in Mirrors /\ ToSet(victims) = {}
      BY <2>3 DEF Answerable, Passing, ToSet
    <3>2. ~(disk[k] > 0)
      BY <2>1, <2>3, <3>1 DEF MirrorsTracked, Accounted
    <3> QED
      BY <2>1, <2>3, <3>2
  <2> QED
    BY <2>2, <2>3
<1>3. /\ IsFiniteSet(Answerable) /\ Counts(disk, Answerable)
      /\ IsFiniteSet(tracked) /\ Counts(size, tracked)
  <2>1. Answerable \subseteq Keys /\ tracked \subseteq Keys
    BY DEF Answerable, Keys
  <2> QED
    BY <2>1, KeysAssumption, FS_Subset, DiskFacts DEF Counts
<1>4. SumFunctionOnSet(disk, Answerable) <= SumFunctionOnSet(size, tracked)
  BY <1>2, <1>3, SumBelow
<1>5. SumFunctionOnSet(size, tracked) = total
  BY DEF Sound, SumFunction, tracked
<1>6. SumFunctionOnSet(disk, Answerable) \in Nat
  BY <1>3, SumRemove
<1> QED
  BY <1>1, <1>4, <1>5, <1>6, CapAssumption DEF WithinCap

(* When the evictor sleeps and nobody writes, the bytes on disk are within *)
(* the cap, at any size of the cache and whatever fails: a change that     *)
(* comes while its mirror is measured, evicted or swept is not measured    *)
(* too early.  Left out are only the entries whose request was dropped or  *)
(* whose removal failed, and mirrors that a failed fetch has changed.      *)
THEOREM RestIsWithinCap == Spec => []RestsWithinCap
<1>1. IInv /\ NoWorkLost /\ MirrorsTracked /\ Weighed => RestsWithinCap
  BY RestingSizes DEF RestsWithinCap
<1> QED
  BY <1>1, Invariance, NoWakeupIsLost, MirrorsAreTracked, SizesWeighed, PTL

-----------------------------------------------------------------------------
(* Objects, when nobody deletes them by hand.  An LFS object is never      *)
(* dirty, so nothing but this protects it from drop_missing: one that is   *)
(* tracked is on disk, one that is being downloaded is neither tracked nor *)
(* a victim, and so none is found missing.                                 *)
Kept(k) ==
    /\ k \in tracked => disk[k] > 0 /\ k \notin ToSet(victims)
    /\ k \in ToSet(victims) => disk[k] > 0
    /\ writer[k] \in {"writing", "written"} =>
         k \notin tracked \cup ToSet(victims)
    /\ writer[k] = "written" => disk[k] > 0
    /\ k \notin missing

Objects ==
    /\ at = "stat" => batch \subseteq tracked
    /\ Once(victims)
    /\ \A k \in Blobs : Kept(k)

LEMMA NextObjects ==
    ASSUME IInv, Objects, Next, "operator" \notin Faults
    PROVE  Objects'
<1> USE DEF IInv, TypeOK, IndexTypeOK, Objects, Kept, index, task, history
<1>0. \A k \in Blobs : k \in Keys /\ k \notin Mirrors /\ disk[k] \in Nat
  BY KeysAssumption, DiskFacts DEF Keys
<1>1. ASSUME NEW k \in Keys,
             \/ Touch(k) \/ WriteBegin(k) \/ WriteFail(k) \/ WriteNotify(k)
             \/ WriteDrop(k) \/ Measure(k)
      PROVE  Objects'
  BY <1>0, <1>1 DEF Touch, touch, WriteBegin, WriteFail, WriteNotify, notify_one,
     WriteDrop, Measure, tracked
<1>2. ASSUME NEW k \in Keys, WriteLand(k) PROVE Objects'
  <2>1. \A n \in Weights(k) : n > 0
    BY DiskFacts
  <2> QED
    BY <1>0, <1>2, <2>1 DEF WriteLand, tracked
<1>3. ASSUME NEW k \in Keys, WriteRecord(k) PROVE Objects'
  <2>1. tracked' = tracked \cup {k}
    BY <1>3, DiskFacts, RecordBlobSound, MarkChangedSound DEF WriteRecord
  <2> QED
    BY <1>0, <1>3, <2>1 DEF WriteRecord
<1>4. ASSUME NEW k \in Keys, SetSize(k) PROVE Objects'
  <2>1. sizes[k] \in Nat /\ set_size(k, sizes[k])
    BY <1>4, EvictorAssumption DEF SetSize
  <2>2. tracked' = tracked
    BY <2>1, SetSizeSound
  <2> QED
    BY <1>0, <1>4, <2>2 DEF SetSize
<1>5. ASSUME NEW k \in Keys, Stat(k) PROVE Objects'
  BY <1>0, <1>5 DEF Stat, tracked
<1>6. ASSUME TakeDirty \/ EvictDone \/ Stop \/ ReconcileBegin \/ Work
             \/ IntervalTick \/ Shutdown
      PROVE  Objects'
  BY <1>0, <1>6 DEF TakeDirty, take_dirty, EvictDone, Stop, ReconcileBegin, Work,
     IntervalTick, Shutdown, tracked
<1>7. ASSUME TakeVictims PROVE Objects'
  <2>1. /\ tracked' = tracked \ ToSet(Victims) /\ Once(Victims)
        /\ ToSet(Victims) \subseteq tracked
    BY <1>7, VictimsSound DEF TakeVictims
  <2> QED
    BY <1>0, <1>7, <2>1 DEF TakeVictims
<1>8. ASSUME EvictNext PROVE Objects'
  <2>1. victims # <<>> /\ victims' = Tail(victims) /\ UNCHANGED tracked
    BY <1>8 DEF EvictNext, tracked
  <2>2. /\ Head(victims) \in Keys /\ Once(victims')
        /\ ToSet(victims) = {Head(victims)} \cup ToSet(victims')
        /\ Head(victims) \notin ToSet(victims')
    BY <2>1, HeadTail
  <2> QED
    BY <1>0, <1>8, <2>1, <2>2 DEF EvictNext
<1>9. ASSUME ReconcileEnd PROVE Objects'
  <2>1. tracked' = tracked \ Droppable(missing)
    BY <1>9, DropSound DEF ReconcileEnd
  <2> QED
    BY <1>0, <1>9, <2>1 DEF ReconcileEnd
<1>10. ASSUME Restart PROVE Objects'
  <2>1. tracked' = Present
    BY <1>10 DEF Restart, Rescan, Restrict, tracked
  <2> QED
    BY <1>0, <1>10, <2>1 DEF Restart, Present, ToSet, Once
<1> QED
  BY <1>1, <1>2, <1>3, <1>4, <1>5, <1>6, <1>7, <1>8, <1>9, <1>10
  DEF Next, Writing, Maintain, Select, OperatorDelete

(* What run evictor_blob refutes holds as long as nobody deletes objects   *)
(* by hand: the re-download during the sweep of reconcile_missing is the   *)
(* only way in which the index forgets an object that record_blob told it  *)
(* of.                                                                     *)
THEOREM BlobsAreTracked ==
    ASSUME "operator" \notin Faults
    PROVE  Spec => []BlobsTracked
<1>1. Init => Objects /\ BlobsTracked
  BY KeysAssumption DEF Init, Objects, Kept, BlobsTracked, Accounted, Scan, Present,
     Restrict, tracked, Keys, ToSet, Once
<1>2. IInv /\ Objects /\ BlobsTracked /\ [Next]_vars => (Objects /\ BlobsTracked)'
  <2>1. ASSUME Objects, BlobsTracked, UNCHANGED vars
        PROVE  (Objects /\ BlobsTracked)'
    BY <2>1 DEF Objects, Kept, BlobsTracked, Accounted, vars, index, task, history, tracked
  <2>2. ASSUME IInv, Objects, BlobsTracked, Next, NEW b \in Blobs
        PROVE  Accounted(b)'
    <3>1. b \notin Droppable(missing)
      BY <2>2 DEF Objects, Kept, Droppable
    <3>2. b \in Keys /\ Accounted(b)
      BY <2>2 DEF BlobsTracked, Keys
    <3> QED
      BY <2>2, <3>1, <3>2, NextAccounted
  <2> QED
    BY <2>1, <2>2, NextObjects DEF BlobsTracked
<1> QED
  BY <1>1, <1>2, Invariance, PTL DEF Spec

=============================================================================
