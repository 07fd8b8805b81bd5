------------------------- MODULE MirrorCacheProofs -------------------------
(***************************************************************************)
(* Proofs about MirrorCache, for any number of requests, any fetch_ttl and *)
(* retry limit and any bounds on time and pushes.                          *)
(***************************************************************************)
EXTENDS MirrorCache, TLAPS

-----------------------------------------------------------------------------
(* The parts that the actions are built from.                              *)

(* Goto moves one request and no other.                                     *)
LEMMA GotoFacts ==
    ASSUME TypeOK, NEW r \in Requests, NEW l \in PcStates, Goto(r, l)
    PROVE  /\ pc' \in [Requests -> PcStates]
           /\ pc'[r] = l
           /\ \A q \in Requests : q # r => pc'[q] = pc[q]
BY DEF TypeOK, Goto

(* Release frees the lock and resets the locals of one request.             *)
LEMMA ReleaseFacts ==
    ASSUME TypeOK, NEW r \in Requests, Release(r)
    PROVE  /\ holder' = Free /\ started'[r] <= clock
           /\ started' \in [Requests -> 0..MaxTime]
           /\ attempt' \in [Requests -> 0..MaxRetries]
           /\ got' \in [Requests -> 0..MaxPush]
           /\ \A q \in Requests : q # r => /\ started'[q] = started[q]
                                           /\ attempt'[q] = attempt[q]
                                           /\ got'[q] = got[q]
BY NumbersAssumption DEF TypeOK, Release

(* Keep leaves the lock and the locals as they are, and typed.              *)
LEMMA KeepFacts ==
    ASSUME TypeOK, Keep
    PROVE  /\ holder' = holder /\ started' = started
           /\ attempt' = attempt /\ got' = got
           /\ holder' \in Requests \cup {Free, Evictor}
           /\ started' \in [Requests -> 0..MaxTime]
           /\ attempt' \in [Requests -> 0..MaxRetries]
           /\ got' \in [Requests -> 0..MaxPush]
BY DEF TypeOK, Keep, request

(* A successful rename gives the mirror a typed value.                      *)
LEMMA MoveFacts ==
    ASSUME TypeOK, MoveStaging
    PROVE  mirror' \in -2..MaxPush /\ staging' \in -2..MaxPush
BY NumbersAssumption DEF TypeOK, MoveStaging, Absent

(* Where a dead or failed fetch leaves the refs is still a version.        *)
LEMMA PartlyFacts ==
    ASSUME TypeOK, NEW r \in Requests, NEW v \in Partly(r)
    PROVE  v \in -2..MaxPush /\ (mirror # Absent => v \in -1..MaxPush)
BY NumbersAssumption DEF TypeOK, Partly, Half, Absent

-----------------------------------------------------------------------------
(***************************************************************************)
(* Types.  A request sleeps in a backoff only while it has a retry left,   *)
(* which is what keeps the attempts within the table of delays.            *)
(***************************************************************************)
Backoff == {"clone_backoff", "fetch_backoff"}

RetryLeft == \A r \in Requests : pc[r] \in Backoff => DelayLeft(r)

(* No step takes a variable out of its type.                                *)
LEMMA NextType == TypeOK /\ RetryLeft /\ [Next]_vars => TypeOK'
<1> SUFFICES ASSUME TypeOK, RetryLeft, [Next]_vars PROVE TypeOK'
  OBVIOUS
<1> USE DEF world, slot, disk, request, history
<1>1. CASE Tick
  <2>1. clock' \in 0..MaxTime /\ upAt' \in [0..MaxTime -> 0..MaxPush]
    BY <1>1, NumbersAssumption DEF TypeOK, Tick
  <2>2. QED
    BY <1>1, <2>1 DEF TypeOK, Tick
<1>2. CASE Push
  <2>1. clock' \in 0..MaxTime /\ upAt' \in [0..MaxTime -> 0..MaxPush]
    <3>1. clock \in 0..MaxTime /\ upAt \in [0..MaxTime -> 0..MaxPush]
      BY DEF TypeOK
    <3>2. upAt[clock] + 1 \in 0..MaxPush
      BY <1>2, <3>1, NumbersAssumption DEF Push, upstream
    <3>3. QED
      BY <1>2, <3>1, <3>2 DEF Push
  <2>2. QED
    BY <1>2, <2>1 DEF TypeOK, Push
<1>3. ASSUME NEW r \in Requests, Arrive(r) PROVE TypeOK'
  <2>1. pc' \in [Requests -> PcStates]
    BY <1>3, GotoFacts DEF Arrive, PcStates
  <2>2. owed' \in [InfoRefs -> 0..MaxPush]
    BY <1>3, NumbersAssumption DEF TypeOK, Arrive
  <2>3. QED
    BY <1>3, <2>1, <2>2 DEF TypeOK, Arrive
<1>4. ASSUME NEW r \in Requests, Acquire(r) PROVE TypeOK'
  <2>1. pc' \in [Requests -> PcStates]
    BY <1>4 DEF TypeOK, Acquire, Goto, PcStates, Holding, Pulling
  <2>2. /\ started' \in [Requests -> 0..MaxTime]
        /\ attempt' \in [Requests -> 0..MaxRetries]
        /\ holder' \in Requests \cup {Free, Evictor}
    BY <1>4, NumbersAssumption DEF TypeOK, Acquire
  <2>3. QED
    BY <1>4, <2>1, <2>2 DEF TypeOK, Acquire
<1>5. ASSUME NEW r \in Requests, CleanStaging(r) PROVE TypeOK'
  <2>1. pc' \in [Requests -> PcStates]
    BY <1>5, GotoFacts
       DEF CleanStaging, BadGateway, PcStates, Holding, Pulling, Results
  <2>2. /\ holder' \in Requests \cup {Free, Evictor}
        /\ started' \in [Requests -> 0..MaxTime]
        /\ attempt' \in [Requests -> 0..MaxRetries]
        /\ got' \in [Requests -> 0..MaxPush]
    BY <1>5, ReleaseFacts, KeepFacts DEF CleanStaging, BadGateway
  <2>3. staging' \in -2..MaxPush
    BY <1>5, NumbersAssumption DEF TypeOK, CleanStaging, Absent
  <2>4. QED
    BY <1>5, <2>1, <2>2, <2>3 DEF TypeOK, CleanStaging
<1>6. ASSUME NEW r \in Requests, CloneReads(r) PROVE TypeOK'
  <2>1. pc' \in [Requests -> PcStates]
    BY <1>6, GotoFacts DEF CloneReads, PcStates, Holding, Pulling
  <2>2. got' \in [Requests -> 0..MaxPush] /\ staging' \in -2..MaxPush
    BY <1>6, NumbersAssumption DEF TypeOK, CloneReads, upstream, Half
  <2>3. QED
    BY <1>6, <2>1, <2>2 DEF TypeOK, CloneReads
<1>7. ASSUME NEW r \in Requests, CloneExits(r) PROVE TypeOK'
  <2>1. pc' \in [Requests -> PcStates]
    BY <1>7, GotoFacts DEF CloneExits, PcStates, Holding, Pulling
  <2>2. staging' \in -2..MaxPush
    BY <1>7, NumbersAssumption DEF TypeOK, CloneExits
  <2>3. QED
    BY <1>7, <2>1, <2>2 DEF TypeOK, CloneExits
<1>8. ASSUME NEW r \in Requests, CloneFails(r) PROVE TypeOK'
  <2>1. pc' \in [Requests -> PcStates]
    BY <1>8, GotoFacts DEF CloneFails, PcStates, Holding, Pulling
  <2>2. staging' \in -2..MaxPush
    BY <1>8, NumbersAssumption DEF TypeOK, CloneFails, Absent
  <2>3. QED
    BY <1>8, <2>1, <2>2 DEF TypeOK, CloneFails
<1>9. ASSUME NEW r \in Requests, WipeStaging(r) PROVE TypeOK'
  <2>1. pc' \in [Requests -> PcStates]
    BY <1>9, GotoFacts
    DEF WipeStaging, RetryOrBail, BadGateway, PcStates, Holding, Pulling, Results
  <2>2. /\ holder' \in Requests \cup {Free, Evictor}
        /\ started' \in [Requests -> 0..MaxTime]
        /\ attempt' \in [Requests -> 0..MaxRetries]
        /\ got' \in [Requests -> 0..MaxPush]
    BY <1>9, ReleaseFacts, KeepFacts DEF WipeStaging, RetryOrBail, BadGateway
  <2>3. staging' \in -2..MaxPush
    BY <1>9, NumbersAssumption DEF TypeOK, WipeStaging, Absent
  <2>4. QED
    BY <1>9, <2>1, <2>2, <2>3 DEF TypeOK, WipeStaging
<1>10. ASSUME NEW r \in Requests, Retry(r) PROVE TypeOK'
  <2>1. pc' \in [Requests -> PcStates]
    BY <1>10, GotoFacts DEF Retry, PcStates, Holding, Pulling
  <2>2. attempt' \in [Requests -> 0..MaxRetries]
    <3>1. attempt \in [Requests -> 0..MaxRetries]
      BY DEF TypeOK
    <3>2. attempt[r] + 1 \in 0..MaxRetries
      BY <1>10, <3>1, NumbersAssumption DEF RetryLeft, Backoff, DelayLeft, Retry
    <3>3. QED
      BY <1>10, <3>1, <3>2 DEF Retry
  <2>3. QED
    BY <1>10, <2>1, <2>2 DEF TypeOK, Retry
<1>11. ASSUME NEW r \in Requests, RenameIntoPlace(r) PROVE TypeOK'
  <2>1. pc' \in [Requests -> PcStates]
    BY <1>11, GotoFacts
    DEF RenameIntoPlace, PullDone, BadGateway, PcStates, Holding, Results
  <2>2. /\ holder' \in Requests \cup {Free, Evictor}
        /\ started' \in [Requests -> 0..MaxTime]
        /\ attempt' \in [Requests -> 0..MaxRetries]
        /\ got' \in [Requests -> 0..MaxPush]
    BY <1>11, ReleaseFacts, KeepFacts DEF RenameIntoPlace, BadGateway
  <2>3. mirror' \in -2..MaxPush /\ staging' \in -2..MaxPush
    BY <1>11, MoveFacts DEF TypeOK, RenameIntoPlace
  <2>4. last' \in -1..MaxTime /\ pulled' \in -1..MaxTime
    <3>1. /\ last \in -1..MaxTime /\ pulled \in -1..MaxTime
          /\ started[r] \in 0..MaxTime
      BY DEF TypeOK
    <3>2. QED
      BY <1>11, <3>1, NumbersAssumption DEF RenameIntoPlace, PullDone, Stamp
  <2>5. QED
    BY <1>11, <2>1, <2>2, <2>3, <2>4 DEF TypeOK, RenameIntoPlace
<1>12. ASSUME NEW r \in Requests, FetchReads(r) PROVE TypeOK'
  <2>1. pc' \in [Requests -> PcStates]
    BY <1>12, GotoFacts DEF FetchReads, PcStates, Holding, Pulling
  <2>2. got' \in [Requests -> 0..MaxPush]
    BY <1>12, NumbersAssumption DEF TypeOK, FetchReads, upstream
  <2>3. QED
    BY <1>12, <2>1, <2>2 DEF TypeOK, FetchReads
<1>13. ASSUME NEW r \in Requests, FetchExits(r) PROVE TypeOK'
  <2>1. pc' \in [Requests -> PcStates]
    BY <1>13, GotoFacts DEF FetchExits, PullDone, PcStates, Holding
  <2>2. /\ mirror' \in -2..MaxPush
        /\ last' \in -1..MaxTime /\ pulled' \in -1..MaxTime
    BY <1>13, NumbersAssumption DEF TypeOK, FetchExits, PullDone, Stamp
  <2>3. QED
    BY <1>13, <2>1, <2>2 DEF TypeOK, FetchExits
<1>14. ASSUME NEW r \in Requests, FetchFails(r) PROVE TypeOK'
  <2>1. pc' \in [Requests -> PcStates]
    BY <1>14, GotoFacts
    DEF FetchFails, RetryOrBail, BadGateway, PcStates, Holding, Pulling, Results
  <2>2. /\ holder' \in Requests \cup {Free, Evictor}
        /\ started' \in [Requests -> 0..MaxTime]
        /\ attempt' \in [Requests -> 0..MaxRetries]
        /\ got' \in [Requests -> 0..MaxPush]
    BY <1>14, ReleaseFacts, KeepFacts DEF FetchFails, RetryOrBail, BadGateway
  <2>3. mirror' \in -2..MaxPush
    BY <1>14, PartlyFacts DEF TypeOK, FetchFails
  <2>4. QED
    BY <1>14, <2>1, <2>2, <2>3 DEF TypeOK, FetchFails
<1>15. ASSUME NEW r \in Requests, EnsureWantedOids(r) PROVE TypeOK'
  <2>1. pc' \in [Requests -> PcStates]
    BY <1>15, GotoFacts DEF EnsureWantedOids, PcStates
  <2>2. QED
    BY <1>15, <2>1, ReleaseFacts DEF TypeOK, EnsureWantedOids
<1>16. ASSUME NEW r \in Requests, Serve(r) PROVE TypeOK'
  <2>1. pc' \in [Requests -> PcStates]
    BY <1>16, GotoFacts DEF Serve, PcStates, Results
  <2>2. shown' \in [InfoRefs -> -1..MaxPush]
    <3>1. CASE mirror = Absent
      BY <1>16, <3>1 DEF TypeOK, Serve
    <3>2. CASE mirror # Absent
      <4>1. PICK v \in {mirror} \cup UNION {Partly(s) :
                          s \in {q \in Requests : pc[q] = "fetching"}} :
               shown' = [q \in InfoRefs |-> IF q = r THEN v ELSE shown[q]]
        BY <1>16, <3>2 DEF Serve
      <4>2. mirror \in -1..MaxPush
        BY <3>2, NumbersAssumption DEF TypeOK, Absent
      <4>3. v \in -1..MaxPush
        BY <3>2, <4>2, PartlyFacts
      <4>4. QED
        BY <4>1, <4>3 DEF TypeOK
    <3>3. QED
      BY <3>1, <3>2
  <2>3. QED
    BY <1>16, <2>1, <2>2 DEF TypeOK, Serve
<1>17. ASSUME NEW r \in Requests, Drop(r) PROVE TypeOK'
  <2>1. pc' \in [Requests -> PcStates]
    BY <1>17, GotoFacts DEF Drop, PcStates, Results
  <2>2. /\ holder' \in Requests \cup {Free, Evictor}
        /\ started' \in [Requests -> 0..MaxTime]
        /\ attempt' \in [Requests -> 0..MaxRetries]
        /\ got' \in [Requests -> 0..MaxPush]
    BY <1>17, ReleaseFacts, KeepFacts DEF Drop
  <2>3. mirror' \in -2..MaxPush /\ staging' \in -2..MaxPush
    <3>1. CASE pc[r] = "fetching" /\ KillFetch(r)
      BY <3>1, PartlyFacts DEF TypeOK, KillFetch
    <3>2. CASE staging' = Absent /\ mirror' = mirror
      BY <3>2, NumbersAssumption DEF TypeOK, Absent
    <3>3. CASE MoveStaging
      BY <3>3, MoveFacts
    <3>4. CASE mirror' = mirror /\ staging' = staging
      BY <3>4 DEF TypeOK
    <3>5. QED
      BY <1>17, <3>1, <3>2, <3>3, <3>4 DEF Drop, LeaveBehind
  <2>4. /\ reflock' \in {"none", "stale"} /\ trash' \in {Absent, Half}
        /\ late' \subseteq {"clean", "rename"}
    BY <1>17
       DEF TypeOK, Drop, KillFetch, LockAfterKill, LeaveBehind, MoveStaging
  <2>5. QED
    BY <1>17, <2>1, <2>2, <2>3, <2>4 DEF TypeOK, Drop
<1>18. CASE LateClean
  <2>1. staging' \in -2..MaxPush /\ late' \subseteq {"clean", "rename"}
    BY <1>18, NumbersAssumption DEF TypeOK, LateClean, Absent
  <2>2. QED
    BY <1>18, <2>1 DEF TypeOK, LateClean
<1>19. CASE LateRename
  <2>1. /\ mirror' \in -2..MaxPush /\ staging' \in -2..MaxPush
        /\ late' \subseteq {"clean", "rename"}
    BY <1>19, NumbersAssumption DEF TypeOK, LateRename, MoveStaging, Absent
  <2>2. QED
    BY <1>19, <2>1 DEF TypeOK, LateRename
<1>20. CASE EvictBegin
  BY <1>20 DEF TypeOK, EvictBegin, EvictorStates
<1>21. CASE EvictLock
  BY <1>21 DEF TypeOK, EvictLock, EvictorStates
<1>22. CASE EvictClear
  BY <1>22 DEF TypeOK, EvictClear, EvictorStates
<1>23. CASE EvictRename
  <2>1. mirror' \in -2..MaxPush /\ pulled' \in -1..MaxTime
    BY <1>23, NumbersAssumption DEF TypeOK, EvictRename, Absent, Never
  <2>2. /\ reflock' \in {"none", "stale"} /\ trash' \in {Absent, Half}
        /\ evictor' \in EvictorStates
    BY <1>23 DEF TypeOK, EvictRename, EvictorStates
  <2>3. QED
    BY <1>23, <2>1, <2>2 DEF TypeOK, EvictRename
<1>24. CASE EvictEnd
  BY <1>24 DEF TypeOK, EvictEnd, EvictorStates
<1>25. CASE Crash
  <2>1. pc' \in [Requests -> PcStates] /\ evictor' \in EvictorStates
    BY <1>25 DEF TypeOK, Crash, PcStates, Results, EvictorStates
  <2>2. /\ started' \in [Requests -> 0..MaxTime]
        /\ attempt' \in [Requests -> 0..MaxRetries]
        /\ got' \in [Requests -> 0..MaxPush]
        /\ last' \in -1..MaxTime /\ pulled' \in -1..MaxTime
    BY <1>25, NumbersAssumption DEF Crash, Never
  <2>3. mirror' \in -2..MaxPush /\ reflock' \in {"none", "stale"}
    BY <1>25, PartlyFacts DEF TypeOK, Crash, LockAfterKill
  <2>4. QED
    BY <1>25, <2>1, <2>2, <2>3 DEF TypeOK, Crash
<1>26. CASE UNCHANGED vars
  BY <1>26 DEF TypeOK, vars
<1>27. QED
  BY <1>1, <1>2, <1>3, <1>4, <1>5, <1>6, <1>7, <1>8, <1>9, <1>10, <1>11,
     <1>12, <1>13, <1>14, <1>15, <1>16, <1>17, <1>18, <1>19, <1>20, <1>21,
     <1>22, <1>23, <1>24, <1>25, <1>26 DEF Next, Proceed, Evict

(* A request only sleeps before a retry when a delay is left.               *)
LEMMA NextRetryLeft == TypeOK /\ RetryLeft /\ [Next]_vars => RetryLeft'
<1> SUFFICES ASSUME TypeOK, RetryLeft, [Next]_vars PROVE RetryLeft'
  OBVIOUS
<1> USE DEF RetryLeft, Backoff, DelayLeft, PcStates, Holding, Pulling, Results,
            world, slot, disk, request, history
<1>1. CASE Tick
  BY <1>1 DEF Tick
<1>2. CASE Push
  BY <1>2 DEF Push
<1>3. ASSUME NEW r \in Requests, Arrive(r) PROVE RetryLeft'
  BY <1>3, GotoFacts, ReleaseFacts, KeepFacts DEF Arrive
<1>4. ASSUME NEW r \in Requests, Acquire(r) PROVE RetryLeft'
  BY <1>4, NumbersAssumption DEF TypeOK, Goto, Acquire
<1>5. ASSUME NEW r \in Requests, CleanStaging(r) PROVE RetryLeft'
  BY <1>5, GotoFacts, ReleaseFacts, KeepFacts DEF CleanStaging, BadGateway
<1>6. ASSUME NEW r \in Requests, CloneReads(r) PROVE RetryLeft'
  BY <1>6, GotoFacts, ReleaseFacts, KeepFacts DEF CloneReads
<1>7. ASSUME NEW r \in Requests, CloneExits(r) PROVE RetryLeft'
  BY <1>7, GotoFacts, ReleaseFacts, KeepFacts DEF CloneExits
<1>8. ASSUME NEW r \in Requests, CloneFails(r) PROVE RetryLeft'
  BY <1>8, GotoFacts, ReleaseFacts, KeepFacts DEF CloneFails
<1>9. ASSUME NEW r \in Requests, WipeStaging(r) PROVE RetryLeft'
  BY <1>9, GotoFacts, ReleaseFacts, KeepFacts
     DEF WipeStaging, RetryOrBail, BadGateway
<1>10. ASSUME NEW r \in Requests, Retry(r) PROVE RetryLeft'
  <2>1. pc'[r] \in {"clean", "fetch"}
        /\ \A q \in Requests : q # r => pc'[q] = pc[q]
    BY <1>10, GotoFacts DEF Retry
  <2>2. \A q \in Requests : q # r => attempt'[q] = attempt[q]
    <3>1. attempt \in [Requests -> 0..MaxRetries]
      BY DEF TypeOK
    <3>2. QED
      BY <1>10, <3>1 DEF Retry
  <2>3. QED
    BY <2>1, <2>2
<1>11. ASSUME NEW r \in Requests, RenameIntoPlace(r) PROVE RetryLeft'
  BY <1>11, GotoFacts, ReleaseFacts, KeepFacts
     DEF RenameIntoPlace, PullDone, BadGateway
<1>12. ASSUME NEW r \in Requests, FetchReads(r) PROVE RetryLeft'
  BY <1>12, GotoFacts, ReleaseFacts, KeepFacts DEF FetchReads
<1>13. ASSUME NEW r \in Requests, FetchExits(r) PROVE RetryLeft'
  BY <1>13, GotoFacts, ReleaseFacts, KeepFacts DEF FetchExits, PullDone
<1>14. ASSUME NEW r \in Requests, FetchFails(r) PROVE RetryLeft'
  BY <1>14, GotoFacts, ReleaseFacts, KeepFacts
     DEF FetchFails, RetryOrBail, BadGateway
<1>15. ASSUME NEW r \in Requests, EnsureWantedOids(r) PROVE RetryLeft'
  BY <1>15, GotoFacts, ReleaseFacts, KeepFacts DEF EnsureWantedOids
<1>16. ASSUME NEW r \in Requests, Serve(r) PROVE RetryLeft'
  BY <1>16, GotoFacts, ReleaseFacts, KeepFacts DEF Serve
<1>17. ASSUME NEW r \in Requests, Drop(r) PROVE RetryLeft'
  BY <1>17, GotoFacts, ReleaseFacts, KeepFacts DEF Drop
<1>18. CASE LateClean
  BY <1>18 DEF LateClean
<1>19. CASE LateRename
  BY <1>19 DEF LateRename
<1>20. CASE EvictBegin
  BY <1>20 DEF EvictBegin
<1>21. CASE EvictLock
  BY <1>21 DEF EvictLock
<1>22. CASE EvictClear
  BY <1>22 DEF EvictClear
<1>23. CASE EvictRename
  BY <1>23 DEF EvictRename
<1>24. CASE EvictEnd
  BY <1>24 DEF EvictEnd
<1>25. CASE Crash
  BY <1>25 DEF TypeOK, Crash
<1>26. CASE UNCHANGED vars
  BY <1>26 DEF vars
<1>27. QED
  BY <1>1, <1>2, <1>3, <1>4, <1>5, <1>6, <1>7, <1>8, <1>9, <1>10, <1>11,
     <1>12, <1>13, <1>14, <1>15, <1>16, <1>17, <1>18, <1>19, <1>20, <1>21,
     <1>22, <1>23, <1>24, <1>25, <1>26 DEF Next, Proceed, Evict

(* The type invariant holds: no state of the slot, the directories or a    *)
(* request leaves its type, and run_upstream never outruns its table of    *)
(* retry delays.                                                           *)
THEOREM TypeCorrect == Spec => []TypeOK
<1>1. Init => TypeOK /\ RetryLeft
  BY NumbersAssumption
  DEF Init, TypeOK, RetryLeft, Backoff, PcStates, Holding, Pulling,
      EvictorStates, Never, Absent
<1>2. QED
  BY <1>1, NextType, NextRetryLeft, PTL DEF Spec

-----------------------------------------------------------------------------
(***************************************************************************)
(* The slot lock.  Who is inside the critical section is its holder; two   *)
(* that are inside are the same holder.                                    *)
(***************************************************************************)
Locked ==
    /\ \A r \in Requests : pc[r] \in Holding => holder = r
    /\ evictor \in {"locked", "renaming"} => holder = Evictor

(* Every step keeps the places and the lock in agreement.                   *)
LEMMA NextLocked == TypeOK /\ Locked /\ [Next]_vars => Locked'
<1> SUFFICES ASSUME TypeOK, Locked, [Next]_vars PROVE Locked'
  OBVIOUS
<1> USE DEF Locked, PcStates, Holding, Pulling, Results,
            world, slot, disk, request, history
<1>1. CASE Tick
  BY <1>1, RequestsAssumption DEF Tick
<1>2. CASE Push
  BY <1>2, RequestsAssumption DEF Push
<1>3. ASSUME NEW r \in Requests, Arrive(r) PROVE Locked'
  BY <1>3, GotoFacts, ReleaseFacts, KeepFacts, RequestsAssumption
  DEF Arrive
<1>4. ASSUME NEW r \in Requests, Acquire(r) PROVE Locked'
  BY <1>4, RequestsAssumption DEF TypeOK, Goto, Acquire
<1>5. ASSUME NEW r \in Requests, CleanStaging(r) PROVE Locked'
  BY <1>5, GotoFacts, ReleaseFacts, KeepFacts, RequestsAssumption
  DEF CleanStaging, BadGateway
<1>6. ASSUME NEW r \in Requests, CloneReads(r) PROVE Locked'
  BY <1>6, GotoFacts, ReleaseFacts, KeepFacts, RequestsAssumption
  DEF CloneReads
<1>7. ASSUME NEW r \in Requests, CloneExits(r) PROVE Locked'
  BY <1>7, GotoFacts, ReleaseFacts, KeepFacts, RequestsAssumption
  DEF CloneExits
<1>8. ASSUME NEW r \in Requests, CloneFails(r) PROVE Locked'
  BY <1>8, GotoFacts, ReleaseFacts, KeepFacts, RequestsAssumption
  DEF CloneFails
<1>9. ASSUME NEW r \in Requests, WipeStaging(r) PROVE Locked'
  BY <1>9, GotoFacts, ReleaseFacts, KeepFacts, RequestsAssumption
  DEF WipeStaging, RetryOrBail, BadGateway
<1>10. ASSUME NEW r \in Requests, Retry(r) PROVE Locked'
  BY <1>10, GotoFacts, ReleaseFacts, KeepFacts, RequestsAssumption
  DEF Retry
<1>11. ASSUME NEW r \in Requests, RenameIntoPlace(r) PROVE Locked'
  BY <1>11, GotoFacts, ReleaseFacts, KeepFacts, RequestsAssumption
  DEF RenameIntoPlace, PullDone, BadGateway
<1>12. ASSUME NEW r \in Requests, FetchReads(r) PROVE Locked'
  BY <1>12, GotoFacts, ReleaseFacts, KeepFacts, RequestsAssumption
  DEF FetchReads
<1>13. ASSUME NEW r \in Requests, FetchExits(r) PROVE Locked'
  BY <1>13, GotoFacts, ReleaseFacts, KeepFacts, RequestsAssumption
  DEF FetchExits, PullDone
<1>14. ASSUME NEW r \in Requests, FetchFails(r) PROVE Locked'
  BY <1>14, GotoFacts, ReleaseFacts, KeepFacts, RequestsAssumption
  DEF FetchFails, RetryOrBail, BadGateway
<1>15. ASSUME NEW r \in Requests, EnsureWantedOids(r) PROVE Locked'
  BY <1>15, GotoFacts, ReleaseFacts, KeepFacts, RequestsAssumption
  DEF EnsureWantedOids
<1>16. ASSUME NEW r \in Requests, Serve(r) PROVE Locked'
  BY <1>16, GotoFacts, ReleaseFacts, KeepFacts, RequestsAssumption
  DEF Serve
<1>17. ASSUME NEW r \in Requests, Drop(r) PROVE Locked'
  BY <1>17, GotoFacts, ReleaseFacts, KeepFacts, RequestsAssumption
  DEF Drop
<1>18. CASE LateClean
  BY <1>18, RequestsAssumption DEF LateClean
<1>19. CASE LateRename
  BY <1>19, RequestsAssumption DEF LateRename
<1>20. CASE EvictBegin
  BY <1>20, RequestsAssumption DEF EvictBegin
<1>21. CASE EvictLock
  BY <1>21, RequestsAssumption DEF EvictLock
<1>22. CASE EvictClear
  BY <1>22, RequestsAssumption DEF EvictClear
<1>23. CASE EvictRename
  BY <1>23, RequestsAssumption DEF EvictRename
<1>24. CASE EvictEnd
  BY <1>24, RequestsAssumption DEF EvictEnd
<1>25. CASE Crash
  BY <1>25 DEF TypeOK, Crash
<1>26. CASE UNCHANGED vars
  BY <1>26 DEF vars
<1>27. QED
  BY <1>1, <1>2, <1>3, <1>4, <1>5, <1>6, <1>7, <1>8, <1>9, <1>10, <1>11,
     <1>12, <1>13, <1>14, <1>15, <1>16, <1>17, <1>18, <1>19, <1>20, <1>21,
     <1>22, <1>23, <1>24, <1>25, <1>26 DEF Next, Proceed, Evict

(* So they always agree.                                                    *)
LEMMA LockCorrect == Spec => []Locked
<1>1. Init => Locked
  BY DEF Init, Locked, Holding, Pulling
<1>2. QED
  BY <1>1, NextLocked, TypeCorrect, PTL DEF Spec

(* The slot lock serialises: no two requests, and no request and the       *)
(* evictor, are in the critical section at once, with requests dropped at  *)
(* any await, operations left on the blocking pool and restarts.           *)
THEOREM SlotSerialises == Spec => []Serialised
<1>1. Locked => Serialised
  BY RequestsAssumption DEF Locked, Serialised
<1>2. QED
  BY <1>1, LockCorrect, PTL

-----------------------------------------------------------------------------
(* Only the holder of the lock, or a late operation that removes it,       *)
(* touches the staging directory.                                          *)
LEMMA NextClean ==
    TypeOK /\ Locked /\ CloneStartsClean /\ [Next]_vars => CloneStartsClean'
<1> SUFFICES ASSUME TypeOK, Locked, CloneStartsClean, [Next]_vars
             PROVE  CloneStartsClean'
  OBVIOUS
<1> USE DEF Locked, CloneStartsClean, PcStates, Holding, Pulling, Results,
            world, slot, disk, request, history
<1>1. CASE Tick
  BY <1>1 DEF Tick
<1>2. CASE Push
  BY <1>2 DEF Push
<1>3. ASSUME NEW r \in Requests, Arrive(r) PROVE CloneStartsClean'
  BY <1>3, GotoFacts DEF Arrive
<1>4. ASSUME NEW r \in Requests, Acquire(r) PROVE CloneStartsClean'
  BY <1>4 DEF TypeOK, Goto, Acquire
<1>5. ASSUME NEW r \in Requests, CleanStaging(r) PROVE CloneStartsClean'
  BY <1>5, GotoFacts DEF CleanStaging, BadGateway
<1>6. ASSUME NEW r \in Requests, CloneReads(r) PROVE CloneStartsClean'
  BY <1>6, GotoFacts DEF CloneReads
<1>7. ASSUME NEW r \in Requests, CloneExits(r) PROVE CloneStartsClean'
  BY <1>7, GotoFacts DEF CloneExits
<1>8. ASSUME NEW r \in Requests, CloneFails(r) PROVE CloneStartsClean'
  BY <1>8, GotoFacts DEF CloneFails
<1>9. ASSUME NEW r \in Requests, WipeStaging(r) PROVE CloneStartsClean'
  BY <1>9, GotoFacts DEF WipeStaging, RetryOrBail, BadGateway
<1>10. ASSUME NEW r \in Requests, Retry(r) PROVE CloneStartsClean'
  BY <1>10, GotoFacts DEF Retry
<1>11. ASSUME NEW r \in Requests, RenameIntoPlace(r) PROVE CloneStartsClean'
  BY <1>11, GotoFacts
     DEF RenameIntoPlace, PullDone, BadGateway, MoveStaging, CanRename
<1>12. ASSUME NEW r \in Requests, FetchReads(r) PROVE CloneStartsClean'
  BY <1>12, GotoFacts DEF FetchReads
<1>13. ASSUME NEW r \in Requests, FetchExits(r) PROVE CloneStartsClean'
  BY <1>13, GotoFacts DEF FetchExits, PullDone
<1>14. ASSUME NEW r \in Requests, FetchFails(r) PROVE CloneStartsClean'
  BY <1>14, GotoFacts DEF FetchFails, RetryOrBail, BadGateway
<1>15. ASSUME NEW r \in Requests, EnsureWantedOids(r) PROVE CloneStartsClean'
  BY <1>15, GotoFacts DEF EnsureWantedOids
<1>16. ASSUME NEW r \in Requests, Serve(r) PROVE CloneStartsClean'
  BY <1>16, GotoFacts DEF Serve
<1>17. ASSUME NEW r \in Requests, Drop(r) PROVE CloneStartsClean'
  BY <1>17, GotoFacts DEF Drop, KillFetch, LeaveBehind, MoveStaging, CanRename
<1>18. CASE LateClean
  BY <1>18 DEF LateClean
<1>19. CASE LateRename
  BY <1>19 DEF LateRename, MoveStaging
<1>20. CASE EvictBegin
  BY <1>20 DEF EvictBegin
<1>21. CASE EvictLock
  BY <1>21 DEF EvictLock
<1>22. CASE EvictClear
  BY <1>22 DEF EvictClear
<1>23. CASE EvictRename
  BY <1>23 DEF EvictRename
<1>24. CASE EvictEnd
  BY <1>24 DEF EvictEnd
<1>25. CASE Crash
  BY <1>25 DEF TypeOK, Crash
<1>26. CASE UNCHANGED vars
  BY <1>26 DEF vars
<1>27. QED
  BY <1>1, <1>2, <1>3, <1>4, <1>5, <1>6, <1>7, <1>8, <1>9, <1>10, <1>11,
     <1>12, <1>13, <1>14, <1>15, <1>16, <1>17, <1>18, <1>19, <1>20, <1>21,
     <1>22, <1>23, <1>24, <1>25, <1>26 DEF Next, Proceed, Evict

(* Every git clone starts on an absent staging directory, also after       *)
(* clones that were dropped, failed or cut short by a restart.             *)
THEOREM ClonesStartClean == Spec => []CloneStartsClean
<1>1. Init => CloneStartsClean
  BY DEF Init, CloneStartsClean
<1>2. QED
  BY <1>1, NextClean, TypeCorrect, LockCorrect, PTL DEF Spec

-----------------------------------------------------------------------------
(***************************************************************************)
(* The staging discipline, when no operation outlives its request: what is *)
(* renamed into place is a clone whose git child exited with success.      *)
(***************************************************************************)
Whole ==
    /\ late = {}
    /\ MirrorWhole
    /\ \A r \in Requests :
         /\ pc[r] = "rename" => staging = got[r]
         /\ pc[r] \in {"fetch", "fetching", "fetch_backoff"} => mirror # Absent

(* An unfinished fetch leaves a whole mirror whole, and no older.           *)
LEMMA PartlyNotHalf ==
    ASSUME TypeOK, MirrorWhole, mirror # Absent,
           NEW r \in Requests, NEW v \in Partly(r)
    PROVE  v \in 0..MaxPush /\ mirror <= v /\ v <= got[r]
BY NumbersAssumption DEF TypeOK, MirrorWhole, Partly, Half, Absent

(* No step makes a mirror, or a clone about to be renamed, incomplete.      *)
LEMMA NextWhole ==
    ASSUME "late" \notin Faults
    PROVE  TypeOK /\ Locked /\ Whole /\ [Next]_vars => Whole'
<1> SUFFICES ASSUME TypeOK, Locked, Whole, [Next]_vars PROVE Whole'
  OBVIOUS
<1> USE DEF Locked, Whole, MirrorWhole, Half, Absent, PcStates, Holding,
            Pulling, Results, world, slot, disk, request, history
<1>1. CASE Tick
  BY <1>1 DEF Tick
<1>2. CASE Push
  BY <1>2 DEF Push
<1>3. ASSUME NEW r \in Requests, Arrive(r) PROVE Whole'
  BY <1>3, GotoFacts, ReleaseFacts, KeepFacts DEF Arrive
<1>4. ASSUME NEW r \in Requests, Acquire(r) PROVE Whole'
  BY <1>4 DEF TypeOK, Goto, Acquire
<1>5. ASSUME NEW r \in Requests, CleanStaging(r) PROVE Whole'
  BY <1>5, GotoFacts, ReleaseFacts, KeepFacts DEF CleanStaging, BadGateway
<1>6. ASSUME NEW r \in Requests, CloneReads(r) PROVE Whole'
  <2>1. /\ pc'[r] = "cloning"
        /\ \A q \in Requests : q # r => pc'[q] = pc[q]
    BY <1>6, GotoFacts DEF CloneReads
  <2>2. \A q \in Requests : q # r => got'[q] = got[q]
    <3>1. got \in [Requests -> 0..MaxPush]
      BY DEF TypeOK
    <3>2. QED
      BY <1>6, <3>1 DEF CloneReads
  <2>3. QED
    BY <1>6, <2>1, <2>2 DEF CloneReads
<1>7. ASSUME NEW r \in Requests, CloneExits(r) PROVE Whole'
  BY <1>7, GotoFacts, ReleaseFacts, KeepFacts DEF CloneExits
<1>8. ASSUME NEW r \in Requests, CloneFails(r) PROVE Whole'
  BY <1>8, GotoFacts, ReleaseFacts, KeepFacts DEF CloneFails
<1>9. ASSUME NEW r \in Requests, WipeStaging(r) PROVE Whole'
  BY <1>9, GotoFacts, ReleaseFacts, KeepFacts
     DEF WipeStaging, RetryOrBail, BadGateway
<1>10. ASSUME NEW r \in Requests, Retry(r) PROVE Whole'
  BY <1>10, GotoFacts, ReleaseFacts, KeepFacts DEF Retry
<1>11. ASSUME NEW r \in Requests, RenameIntoPlace(r) PROVE Whole'
  <2>1. mirror' # Half
    BY <1>11 DEF TypeOK, RenameIntoPlace, MoveStaging
  <2>2. /\ pc'[r] \in {"wants", "bad_gateway"}
        /\ \A q \in Requests : q # r => pc'[q] = pc[q]
    BY <1>11, GotoFacts DEF RenameIntoPlace, PullDone, BadGateway
  <2>3. QED
    BY <1>11, <2>1, <2>2 DEF RenameIntoPlace
<1>12. ASSUME NEW r \in Requests, FetchReads(r) PROVE Whole'
  <2>1. /\ pc'[r] = "fetching"
        /\ \A q \in Requests : q # r => pc'[q] = pc[q]
    BY <1>12, GotoFacts DEF FetchReads
  <2>2. \A q \in Requests : q # r => got'[q] = got[q]
    <3>1. got \in [Requests -> 0..MaxPush]
      BY DEF TypeOK
    <3>2. QED
      BY <1>12, <3>1 DEF FetchReads
  <2>3. QED
    BY <1>12, <2>1, <2>2 DEF FetchReads
<1>13. ASSUME NEW r \in Requests, FetchExits(r) PROVE Whole'
  <2>1. mirror' # Half /\ mirror' # Absent
    BY <1>13 DEF TypeOK, FetchExits
  <2>2. QED
    BY <1>13, <2>1, GotoFacts DEF FetchExits, PullDone
<1>14. ASSUME NEW r \in Requests, FetchFails(r) PROVE Whole'
  <2>1. mirror' # Half /\ mirror' # Absent
    BY <1>14, PartlyNotHalf DEF FetchFails
  <2>2. QED
    BY <1>14, <2>1, GotoFacts, ReleaseFacts, KeepFacts
    DEF FetchFails, RetryOrBail, BadGateway
<1>15. ASSUME NEW r \in Requests, EnsureWantedOids(r) PROVE Whole'
  BY <1>15, GotoFacts, ReleaseFacts, KeepFacts DEF EnsureWantedOids
<1>16. ASSUME NEW r \in Requests, Serve(r) PROVE Whole'
  BY <1>16, GotoFacts, ReleaseFacts, KeepFacts DEF Serve
<1>17. ASSUME NEW r \in Requests, Drop(r) PROVE Whole'
  <2>1. /\ pc'[r] # "rename"
        /\ \A q \in Requests : q # r => pc'[q] = pc[q] /\ got'[q] = got[q]
    BY <1>17, GotoFacts, ReleaseFacts, KeepFacts DEF Drop
  <2>2. late' = {}
    BY <1>17 DEF Drop, KillFetch, LeaveBehind
  <2>3. mirror' # Half
    <3>1. CASE pc[r] = "fetching" /\ KillFetch(r)
      BY <3>1, PartlyNotHalf DEF KillFetch
    <3>2. CASE pc[r] = "rename" /\ MoveStaging
      BY <3>2 DEF TypeOK, MoveStaging
    <3>3. CASE mirror' = mirror
      BY <3>3
    <3>4. QED
      BY <1>17, <3>1, <3>2, <3>3 DEF Drop, LeaveBehind
  <2>4. \A q \in Requests : q # r /\ pc[q] = "rename" => staging' = staging
    BY <1>17 DEF Drop, KillFetch, LeaveBehind, CanRename, MoveStaging
  <2>5. \A q \in Requests :
           q # r /\ pc[q] \in {"fetch", "fetching", "fetch_backoff"}
             => mirror' = mirror
    BY <1>17 DEF Drop, KillFetch, LeaveBehind, CanRename, MoveStaging
  <2>6. QED
    BY <1>17, <2>1, <2>2, <2>3, <2>4, <2>5, GotoFacts DEF Drop
<1>18. CASE LateClean
  BY <1>18 DEF LateClean
<1>19. CASE LateRename
  BY <1>19 DEF LateRename
<1>20. CASE EvictBegin
  BY <1>20 DEF EvictBegin
<1>21. CASE EvictLock
  BY <1>21 DEF EvictLock
<1>22. CASE EvictClear
  BY <1>22 DEF EvictClear
<1>23. CASE EvictRename
  BY <1>23, RequestsAssumption DEF EvictRename
<1>24. CASE EvictEnd
  BY <1>24 DEF EvictEnd
<1>25. CASE Crash
  <2>1. mirror' # Half
    BY <1>25, PartlyNotHalf DEF Crash
  <2>2. \A r \in Requests : pc'[r] \in {"new"} \cup Results
    BY <1>25 DEF Crash
  <2>3. QED
    BY <1>25, <2>1, <2>2 DEF Crash
<1>26. CASE UNCHANGED vars
  BY <1>26 DEF vars
<1>27. QED
  BY <1>1, <1>2, <1>3, <1>4, <1>5, <1>6, <1>7, <1>8, <1>9, <1>10, <1>11,
     <1>12, <1>13, <1>14, <1>15, <1>16, <1>17, <1>18, <1>19, <1>20, <1>21,
     <1>22, <1>23, <1>24, <1>25, <1>26 DEF Next, Proceed, Evict

(* So mirrors are always whole when no operation is left behind.            *)
LEMMA WholeCorrect == ASSUME "late" \notin Faults PROVE Spec => []Whole
<1>1. Init => Whole
  BY DEF Init, Whole, MirrorWhole, Half, Absent
<1>2. QED
  BY <1>1, NextWhole, TypeCorrect, LockCorrect, PTL DEF Spec

(* A mirror that is there is complete, through failed, dropped and crashed *)
(* clones, as long as no blocking-pool operation outlives the request that *)
(* awaited it.                                                             *)
THEOREM MirrorsAreWhole ==
    ASSUME "late" \notin Faults PROVE Spec => []MirrorWhole
<1>1. Whole => MirrorWhole
  BY DEF Whole
<1>2. QED
  BY <1>1, WholeCorrect, PTL

-----------------------------------------------------------------------------
(***************************************************************************)
(* Leftovers of evictions: the trash directory is removed before a mirror  *)
(* is renamed to it, so only a failing disk makes the rename fail.         *)
(***************************************************************************)
Tidy ==
    /\ LeftoverHarmless
    /\ evictor = "renaming" => trash = Absent

(* The trash directory and the evictor change in evict and on a restart.   *)
LEMMA EvictFrame ==
    [Next]_vars => EvictBegin \/ Evict \/ Crash \/ UNCHANGED <<trash, evictor>>
<1> USE DEF disk
<1>1. Tick => UNCHANGED <<trash, evictor>>
  BY DEF Tick, MoveStaging
<1>2. Push => UNCHANGED <<trash, evictor>>
  BY DEF Push, MoveStaging
<1>3. ASSUME NEW r \in Requests, Arrive(r) PROVE UNCHANGED <<trash, evictor>>
  BY <1>3 DEF Arrive
<1>4. ASSUME NEW r \in Requests, Acquire(r) PROVE UNCHANGED <<trash, evictor>>
  BY <1>4 DEF Acquire
<1>5. ASSUME NEW r \in Requests, CleanStaging(r)
      PROVE  UNCHANGED <<trash, evictor>>
  BY <1>5 DEF CleanStaging
<1>6. ASSUME NEW r \in Requests, CloneReads(r)
      PROVE  UNCHANGED <<trash, evictor>>
  BY <1>6 DEF CloneReads
<1>7. ASSUME NEW r \in Requests, CloneExits(r)
      PROVE  UNCHANGED <<trash, evictor>>
  BY <1>7 DEF CloneExits
<1>8. ASSUME NEW r \in Requests, CloneFails(r)
      PROVE  UNCHANGED <<trash, evictor>>
  BY <1>8 DEF CloneFails
<1>9. ASSUME NEW r \in Requests, WipeStaging(r)
      PROVE  UNCHANGED <<trash, evictor>>
  BY <1>9 DEF WipeStaging
<1>10. ASSUME NEW r \in Requests, Retry(r) PROVE UNCHANGED <<trash, evictor>>
  BY <1>10 DEF Retry
<1>11. ASSUME NEW r \in Requests, RenameIntoPlace(r)
       PROVE  UNCHANGED <<trash, evictor>>
  BY <1>11 DEF RenameIntoPlace, MoveStaging
<1>12. ASSUME NEW r \in Requests, FetchReads(r)
       PROVE  UNCHANGED <<trash, evictor>>
  BY <1>12 DEF FetchReads
<1>13. ASSUME NEW r \in Requests, FetchExits(r)
       PROVE  UNCHANGED <<trash, evictor>>
  BY <1>13 DEF FetchExits
<1>14. ASSUME NEW r \in Requests, FetchFails(r)
       PROVE  UNCHANGED <<trash, evictor>>
  BY <1>14 DEF FetchFails
<1>15. ASSUME NEW r \in Requests, EnsureWantedOids(r)
       PROVE  UNCHANGED <<trash, evictor>>
  BY <1>15 DEF EnsureWantedOids
<1>16. ASSUME NEW r \in Requests, Serve(r) PROVE UNCHANGED <<trash, evictor>>
  BY <1>16 DEF Serve
<1>17. ASSUME NEW r \in Requests, Drop(r) PROVE UNCHANGED <<trash, evictor>>
  BY <1>17 DEF Drop, KillFetch, LeaveBehind, MoveStaging
<1>18. LateClean => UNCHANGED <<trash, evictor>>
  BY DEF LateClean, MoveStaging
<1>19. LateRename => UNCHANGED <<trash, evictor>>
  BY DEF LateRename, MoveStaging
<1>20. QED
  BY <1>1, <1>2, <1>3, <1>4, <1>5, <1>6, <1>7, <1>8, <1>9, <1>10, <1>11,
     <1>12, <1>13, <1>14, <1>15, <1>16, <1>17, <1>18, <1>19
     DEF Next, Proceed, vars

(* An eviction finds the trash name free: it does not fail on what an      *)
(* eviction that crashed or failed to remove its trash left behind.        *)
THEOREM LeftoversAreHarmless ==
    ASSUME "disk" \notin Faults PROVE Spec => []LeftoverHarmless
<1>1. Init => Tidy
  BY DEF Init, Tidy, LeftoverHarmless
<1>2. Tidy /\ [Next]_vars => Tidy'
  <2> SUFFICES ASSUME Tidy, [Next]_vars PROVE Tidy'
    OBVIOUS
  <2> USE DEF Tidy, LeftoverHarmless
  <2>1. CASE EvictBegin
    BY <2>1 DEF EvictBegin
  <2>2. CASE EvictLock
    BY <2>2 DEF EvictLock
  <2>3. CASE EvictClear
    BY <2>3 DEF EvictClear
  <2>4. CASE EvictRename
    BY <2>4 DEF EvictRename
  <2>5. CASE EvictEnd
    BY <2>5 DEF EvictEnd
  <2>6. CASE Crash
    BY <2>6 DEF Crash
  <2>7. CASE UNCHANGED <<trash, evictor>>
    BY <2>7
  <2>8. QED
    BY EvictFrame, <2>1, <2>2, <2>3, <2>4, <2>5, <2>6, <2>7 DEF Evict
<1>3. Tidy => LeftoverHarmless
  BY DEF Tidy
<1>4. QED
  BY <1>1, <1>2, <1>3, PTL DEF Spec

-----------------------------------------------------------------------------
(***************************************************************************)
(* Coalescing: the stamp the lock guards is the start of the mirror's last *)
(* pull, whenever there was one.                                           *)
(***************************************************************************)
Stamped == pulled \in {Never, last}

(* The stamp changes when a pull ends, an eviction forgets it, or all is   *)
(* lost.                                                                   *)
LEMMA NextStamped == Stamped /\ [Next]_vars => Stamped'
<1> SUFFICES ASSUME Stamped, [Next]_vars PROVE Stamped'
  OBVIOUS
<1> USE DEF Stamped, slot, history
<1>1. CASE Tick
  BY <1>1 DEF Tick
<1>2. CASE Push
  BY <1>2 DEF Push
<1>3. ASSUME NEW r \in Requests, Arrive(r) PROVE Stamped'
  BY <1>3 DEF Arrive
<1>4. ASSUME NEW r \in Requests, Acquire(r) PROVE Stamped'
  BY <1>4 DEF Acquire
<1>5. ASSUME NEW r \in Requests, CleanStaging(r) PROVE Stamped'
  BY <1>5 DEF CleanStaging
<1>6. ASSUME NEW r \in Requests, CloneReads(r) PROVE Stamped'
  BY <1>6 DEF CloneReads
<1>7. ASSUME NEW r \in Requests, CloneExits(r) PROVE Stamped'
  BY <1>7 DEF CloneExits
<1>8. ASSUME NEW r \in Requests, CloneFails(r) PROVE Stamped'
  BY <1>8 DEF CloneFails
<1>9. ASSUME NEW r \in Requests, WipeStaging(r) PROVE Stamped'
  BY <1>9 DEF WipeStaging
<1>10. ASSUME NEW r \in Requests, Retry(r) PROVE Stamped'
  BY <1>10 DEF Retry
<1>11. ASSUME NEW r \in Requests, RenameIntoPlace(r) PROVE Stamped'
  BY <1>11 DEF RenameIntoPlace, PullDone, Stamp
<1>12. ASSUME NEW r \in Requests, FetchReads(r) PROVE Stamped'
  BY <1>12 DEF FetchReads
<1>13. ASSUME NEW r \in Requests, FetchExits(r) PROVE Stamped'
  BY <1>13 DEF FetchExits, PullDone, Stamp
<1>14. ASSUME NEW r \in Requests, FetchFails(r) PROVE Stamped'
  BY <1>14 DEF FetchFails
<1>15. ASSUME NEW r \in Requests, EnsureWantedOids(r) PROVE Stamped'
  BY <1>15 DEF EnsureWantedOids
<1>16. ASSUME NEW r \in Requests, Serve(r) PROVE Stamped'
  BY <1>16 DEF Serve
<1>17. ASSUME NEW r \in Requests, Drop(r) PROVE Stamped'
  BY <1>17 DEF Drop
<1>18. CASE LateClean
  BY <1>18 DEF LateClean
<1>19. CASE LateRename
  BY <1>19 DEF LateRename
<1>20. CASE EvictBegin
  BY <1>20 DEF EvictBegin
<1>21. CASE EvictLock
  BY <1>21 DEF EvictLock
<1>22. CASE EvictClear
  BY <1>22 DEF EvictClear
<1>23. CASE EvictRename
  BY <1>23 DEF EvictRename
<1>24. CASE EvictEnd
  BY <1>24 DEF EvictEnd
<1>25. CASE Crash
  BY <1>25 DEF Crash
<1>26. CASE UNCHANGED vars
  BY <1>26 DEF vars
<1>27. QED
  BY <1>1, <1>2, <1>3, <1>4, <1>5, <1>6, <1>7, <1>8, <1>9, <1>10, <1>11,
     <1>12, <1>13, <1>14, <1>15, <1>16, <1>17, <1>18, <1>19, <1>20, <1>21,
     <1>22, <1>23, <1>24, <1>25, <1>26 DEF Next, Proceed, Evict

(* A fetch begins in one action only, and it looks at the stamp there.     *)
LEMMA FetchBegins ==
    ASSUME TypeOK, [Next]_vars, NEW r \in Requests,
           pc[r] = "queued", pc'[r] = "fetch"
    PROVE  Acquire(r) /\ Stale(r)
<1> USE DEF PcStates, Holding, Pulling, Results
<1>1. CASE Tick
  BY <1>1 DEF Tick
<1>2. CASE Push
  BY <1>2 DEF Push
<1>3. ASSUME NEW q \in Requests, Arrive(q) PROVE FALSE
  BY <1>3, GotoFacts DEF Arrive
<1>4. ASSUME NEW q \in Requests, Acquire(q) PROVE Acquire(r) /\ Stale(r)
  BY <1>4 DEF TypeOK, Acquire, Goto
<1>5. ASSUME NEW q \in Requests, CleanStaging(q) PROVE FALSE
  BY <1>5, GotoFacts DEF CleanStaging, BadGateway
<1>6. ASSUME NEW q \in Requests, CloneReads(q) PROVE FALSE
  BY <1>6, GotoFacts DEF CloneReads
<1>7. ASSUME NEW q \in Requests, CloneExits(q) PROVE FALSE
  BY <1>7, GotoFacts DEF CloneExits
<1>8. ASSUME NEW q \in Requests, CloneFails(q) PROVE FALSE
  BY <1>8, GotoFacts DEF CloneFails
<1>9. ASSUME NEW q \in Requests, WipeStaging(q) PROVE FALSE
  BY <1>9, GotoFacts DEF WipeStaging, RetryOrBail, BadGateway
<1>10. ASSUME NEW q \in Requests, Retry(q) PROVE FALSE
  BY <1>10, GotoFacts DEF Retry
<1>11. ASSUME NEW q \in Requests, RenameIntoPlace(q) PROVE FALSE
  BY <1>11, GotoFacts DEF RenameIntoPlace, PullDone, BadGateway
<1>12. ASSUME NEW q \in Requests, FetchReads(q) PROVE FALSE
  BY <1>12, GotoFacts DEF FetchReads
<1>13. ASSUME NEW q \in Requests, FetchExits(q) PROVE FALSE
  BY <1>13, GotoFacts DEF FetchExits, PullDone
<1>14. ASSUME NEW q \in Requests, FetchFails(q) PROVE FALSE
  BY <1>14, GotoFacts DEF FetchFails, RetryOrBail, BadGateway
<1>15. ASSUME NEW q \in Requests, EnsureWantedOids(q) PROVE FALSE
  BY <1>15, GotoFacts DEF EnsureWantedOids
<1>16. ASSUME NEW q \in Requests, Serve(q) PROVE FALSE
  BY <1>16, GotoFacts DEF Serve
<1>17. ASSUME NEW q \in Requests, Drop(q) PROVE FALSE
  BY <1>17, GotoFacts DEF Drop
<1>18. CASE LateClean
  BY <1>18 DEF LateClean
<1>19. CASE LateRename
  BY <1>19 DEF LateRename
<1>20. CASE EvictBegin
  BY <1>20 DEF EvictBegin
<1>21. CASE EvictLock
  BY <1>21 DEF EvictLock
<1>22. CASE EvictClear
  BY <1>22 DEF EvictClear
<1>23. CASE EvictRename
  BY <1>23 DEF EvictRename
<1>24. CASE EvictEnd
  BY <1>24 DEF EvictEnd
<1>25. CASE Crash
  BY <1>25 DEF TypeOK, Crash
<1>26. CASE UNCHANGED vars
  BY <1>26 DEF vars
<1>27. QED
  BY <1>1, <1>2, <1>3, <1>4, <1>5, <1>6, <1>7, <1>8, <1>9, <1>10, <1>11,
     <1>12, <1>13, <1>14, <1>15, <1>16, <1>17, <1>18, <1>19, <1>20, <1>21,
     <1>22, <1>23, <1>24, <1>25, <1>26
     DEF Next, Proceed, Evict

(* A living mirror is not pulled again within fetch_ttl of the start of    *)
(* its last pull, however many requests arrive together.                   *)
THEOREM PullsCoalesce == Spec => Coalesced
<1> DEFINE Apart == \A r \in Requests :
               pc[r] = "queued" /\ pc'[r] = "fetch"
                 => pulled = Never \/ clock - pulled >= Ttl
<1>1. Init => Stamped
  BY DEF Init, Stamped
<1>2. TypeOK /\ Stamped /\ [Next]_vars => [Apart]_vars
  BY FetchBegins DEF Stamped, Stale
<1>3. QED
  BY <1>1, <1>2, NextStamped, TypeCorrect, PTL DEF Spec, Coalesced

-----------------------------------------------------------------------------
(***************************************************************************)
(* Freshness.  A pull reads the upstream after its start stamp, so it      *)
(* holds everything the upstream had before the stamp (PullFresh); so does *)
(* the mirror with respect to the stamp under the lock (MirrorFresh); and  *)
(* a request that is not stale is owed only what is older than that stamp  *)
(* (OwedOld).                                                              *)
(***************************************************************************)
Reading == {"cloning", "rename", "fetching"}

UpMonotone ==
    \A s, t \in 0..MaxTime : s <= t /\ t <= clock => upAt[s] <= upAt[t]

Stamps ==
    /\ last <= clock
    /\ \A r \in Requests : /\ started[r] <= clock
                           /\ pc[r] \in Pulling => last <= started[r]

PullFresh ==
    \A r \in Requests : pc[r] \in Reading =>
        /\ got[r] <= upAt[clock]
        /\ \A t \in 0..MaxTime : t < started[r] => upAt[t] <= got[r]
        /\ pc[r] = "fetching" => mirror <= got[r]

MirrorFresh ==
    mirror # Absent =>
        /\ mirror <= upAt[clock]
        /\ \A t \in 0..MaxTime : t < last => upAt[t] <= mirror

OwedOld ==
    \A r \in InfoRefs :
        owed[r] = 0 \/ (clock >= Ttl /\ owed[r] <= upAt[clock - Ttl])

OwedPull ==
    \A r \in InfoRefs : \A q \in Requests :
        pc[q] \in Reading /\ (q = r \/ pc[r] = "serve") => owed[r] <= got[q]

OwedServe ==
    \A r \in InfoRefs :
        pc[r] \in {"wants", "serve"} /\ mirror # Absent => owed[r] <= mirror

(* Time and the upstream only move by themselves.                          *)
LEMMA WorldFrame == [Next]_vars => Tick \/ Push \/ UNCHANGED <<clock, upAt>>
<1> USE DEF world
<1>1. ASSUME NEW r \in Requests, Arrive(r) PROVE UNCHANGED <<clock, upAt>>
  BY <1>1 DEF Arrive
<1>2. ASSUME NEW r \in Requests, Acquire(r) PROVE UNCHANGED <<clock, upAt>>
  BY <1>2 DEF Acquire
<1>3. ASSUME NEW r \in Requests, CleanStaging(r) PROVE UNCHANGED <<clock, upAt>>
  BY <1>3 DEF CleanStaging
<1>4. ASSUME NEW r \in Requests, CloneReads(r) PROVE UNCHANGED <<clock, upAt>>
  BY <1>4 DEF CloneReads
<1>5. ASSUME NEW r \in Requests, CloneExits(r) PROVE UNCHANGED <<clock, upAt>>
  BY <1>5 DEF CloneExits
<1>6. ASSUME NEW r \in Requests, CloneFails(r) PROVE UNCHANGED <<clock, upAt>>
  BY <1>6 DEF CloneFails
<1>7. ASSUME NEW r \in Requests, WipeStaging(r) PROVE UNCHANGED <<clock, upAt>>
  BY <1>7 DEF WipeStaging
<1>8. ASSUME NEW r \in Requests, Retry(r) PROVE UNCHANGED <<clock, upAt>>
  BY <1>8 DEF Retry
<1>9. ASSUME NEW r \in Requests, RenameIntoPlace(r)
      PROVE  UNCHANGED <<clock, upAt>>
  BY <1>9 DEF RenameIntoPlace
<1>10. ASSUME NEW r \in Requests, FetchReads(r) PROVE UNCHANGED <<clock, upAt>>
  BY <1>10 DEF FetchReads
<1>11. ASSUME NEW r \in Requests, FetchExits(r) PROVE UNCHANGED <<clock, upAt>>
  BY <1>11 DEF FetchExits
<1>12. ASSUME NEW r \in Requests, FetchFails(r) PROVE UNCHANGED <<clock, upAt>>
  BY <1>12 DEF FetchFails
<1>13. ASSUME NEW r \in Requests, EnsureWantedOids(r)
       PROVE  UNCHANGED <<clock, upAt>>
  BY <1>13 DEF EnsureWantedOids
<1>14. ASSUME NEW r \in Requests, Serve(r) PROVE UNCHANGED <<clock, upAt>>
  BY <1>14 DEF Serve
<1>15. ASSUME NEW r \in Requests, Drop(r) PROVE UNCHANGED <<clock, upAt>>
  BY <1>15 DEF Drop
<1>16. LateClean => UNCHANGED <<clock, upAt>>
  BY DEF LateClean
<1>17. LateRename => UNCHANGED <<clock, upAt>>
  BY DEF LateRename
<1>18. EvictBegin => UNCHANGED <<clock, upAt>>
  BY DEF EvictBegin
<1>19. EvictLock => UNCHANGED <<clock, upAt>>
  BY DEF EvictLock
<1>20. EvictClear => UNCHANGED <<clock, upAt>>
  BY DEF EvictClear
<1>21. EvictRename => UNCHANGED <<clock, upAt>>
  BY DEF EvictRename
<1>22. EvictEnd => UNCHANGED <<clock, upAt>>
  BY DEF EvictEnd
<1>23. Crash => UNCHANGED <<clock, upAt>>
  BY DEF Crash
<1>24. QED
  BY <1>1, <1>2, <1>3, <1>4, <1>5, <1>6, <1>7, <1>8, <1>9, <1>10, <1>11,
     <1>12, <1>13, <1>14, <1>15, <1>16, <1>17, <1>18, <1>19, <1>20, <1>21,
     <1>22, <1>23
     DEF Next, Proceed, Evict, vars

(* The record of the upstream stays monotone.                               *)
LEMMA NextUpMonotone == TypeOK /\ UpMonotone /\ [Next]_vars => UpMonotone'
<1> SUFFICES ASSUME TypeOK, UpMonotone, [Next]_vars PROVE UpMonotone'
  OBVIOUS
<1>0. clock \in 0..MaxTime /\ upAt \in [0..MaxTime -> 0..MaxPush]
  BY DEF TypeOK
<1> USE NumbersAssumption DEF UpMonotone
<1>1. CASE Tick
  BY <1>0, <1>1 DEF Tick
<1>2. CASE Push
  <2>1. clock' = clock /\ upAt'[clock] = upAt[clock] + 1
        /\ \A t \in 0..MaxTime : t # clock => upAt'[t] = upAt[t]
    BY <1>0, <1>2 DEF Push
  <2>2. \A t \in 0..MaxTime : upAt[t] \in Int
    BY <1>0
  <2>3. QED
    BY <1>0, <2>1, <2>2
<1>3. CASE UNCHANGED <<clock, upAt>>
  BY <1>3
<1>4. QED
  BY <1>1, <1>2, <1>3, WorldFrame

(* Stamps stay in the past and in order.                                    *)
LEMMA NextStamps == TypeOK /\ Locked /\ Stamps /\ [Next]_vars => Stamps'
<1> SUFFICES ASSUME TypeOK, Locked, Stamps, [Next]_vars PROVE Stamps'
  OBVIOUS
<1> USE DEF Locked, Stamps, PcStates, Holding, Pulling, Results,
            world, slot, disk, request, history
<1>1. CASE Tick
  BY <1>1 DEF TypeOK, Tick
<1>2. CASE Push
  BY <1>2 DEF Push
<1>3. ASSUME NEW r \in Requests, Arrive(r) PROVE Stamps'
  BY <1>3, GotoFacts DEF Arrive
<1>4. ASSUME NEW r \in Requests, Acquire(r) PROVE Stamps'
  BY <1>4 DEF TypeOK, Goto, Acquire
<1>5. ASSUME NEW r \in Requests, CleanStaging(r) PROVE Stamps'
  <2>1. \A q \in Requests :
           started'[q] <= clock /\ (q # r => started'[q] = started[q])
    BY <1>5, ReleaseFacts, KeepFacts DEF CleanStaging, BadGateway
  <2>2. \A q \in Requests :
           pc'[q] \in Pulling => started'[q] = started[q] /\ pc[q] \in Pulling
    BY <1>5, <2>1, GotoFacts, KeepFacts DEF CleanStaging, BadGateway
  <2>3. QED
    BY <1>5, <2>1, <2>2 DEF CleanStaging
<1>6. ASSUME NEW r \in Requests, CloneReads(r) PROVE Stamps'
  BY <1>6, GotoFacts DEF CloneReads
<1>7. ASSUME NEW r \in Requests, CloneExits(r) PROVE Stamps'
  BY <1>7, GotoFacts DEF CloneExits
<1>8. ASSUME NEW r \in Requests, CloneFails(r) PROVE Stamps'
  BY <1>8, GotoFacts DEF CloneFails
<1>9. ASSUME NEW r \in Requests, WipeStaging(r) PROVE Stamps'
  <2>1. \A q \in Requests :
           started'[q] <= clock /\ (q # r => started'[q] = started[q])
    BY <1>9, ReleaseFacts, KeepFacts DEF WipeStaging, RetryOrBail, BadGateway
  <2>2. \A q \in Requests :
           pc'[q] \in Pulling => started'[q] = started[q] /\ pc[q] \in Pulling
    BY <1>9, <2>1, GotoFacts, KeepFacts DEF WipeStaging, RetryOrBail, BadGateway
  <2>3. QED
    BY <1>9, <2>1, <2>2 DEF WipeStaging
<1>10. ASSUME NEW r \in Requests, Retry(r) PROVE Stamps'
  BY <1>10, GotoFacts DEF Retry
<1>11. ASSUME NEW r \in Requests, RenameIntoPlace(r) PROVE Stamps'
  <2>1. \A q \in Requests : pc'[q] \notin Pulling
    BY <1>11, GotoFacts DEF RenameIntoPlace, PullDone, BadGateway
  <2>2. \A q \in Requests : started'[q] <= clock
    BY <1>11, ReleaseFacts, KeepFacts DEF RenameIntoPlace, BadGateway
  <2>3. last' <= clock /\ clock' = clock
    BY <1>11 DEF RenameIntoPlace, PullDone, Stamp
  <2>4. QED
    BY <2>1, <2>2, <2>3
<1>12. ASSUME NEW r \in Requests, FetchReads(r) PROVE Stamps'
  BY <1>12, GotoFacts DEF FetchReads
<1>13. ASSUME NEW r \in Requests, FetchExits(r) PROVE Stamps'
  <2>1. \A q \in Requests : pc'[q] \notin Pulling
    BY <1>13, GotoFacts DEF FetchExits, PullDone
  <2>2. \A q \in Requests : started'[q] <= clock
    BY <1>13, ReleaseFacts, KeepFacts DEF FetchExits, BadGateway
  <2>3. last' <= clock /\ clock' = clock
    BY <1>13 DEF FetchExits, PullDone, Stamp
  <2>4. QED
    BY <2>1, <2>2, <2>3
<1>14. ASSUME NEW r \in Requests, FetchFails(r) PROVE Stamps'
  <2>1. \A q \in Requests :
           started'[q] <= clock /\ (q # r => started'[q] = started[q])
    BY <1>14, ReleaseFacts, KeepFacts DEF FetchFails, RetryOrBail, BadGateway
  <2>2. \A q \in Requests :
           pc'[q] \in Pulling => started'[q] = started[q] /\ pc[q] \in Pulling
    BY <1>14, <2>1, GotoFacts, KeepFacts DEF FetchFails, RetryOrBail, BadGateway
  <2>3. QED
    BY <1>14, <2>1, <2>2 DEF FetchFails
<1>15. ASSUME NEW r \in Requests, EnsureWantedOids(r) PROVE Stamps'
  <2>1. \A q \in Requests :
           started'[q] <= clock /\ (q # r => started'[q] = started[q])
    BY <1>15, ReleaseFacts, KeepFacts DEF EnsureWantedOids
  <2>2. \A q \in Requests :
           pc'[q] \in Pulling => started'[q] = started[q] /\ pc[q] \in Pulling
    BY <1>15, <2>1, GotoFacts, KeepFacts DEF EnsureWantedOids
  <2>3. QED
    BY <1>15, <2>1, <2>2 DEF EnsureWantedOids
<1>16. ASSUME NEW r \in Requests, Serve(r) PROVE Stamps'
  BY <1>16, GotoFacts DEF Serve
<1>17. ASSUME NEW r \in Requests, Drop(r) PROVE Stamps'
  <2>1. \A q \in Requests :
           started'[q] <= clock /\ (q # r => started'[q] = started[q])
    BY <1>17, ReleaseFacts, KeepFacts DEF Drop
  <2>2. \A q \in Requests :
           pc'[q] \in Pulling => started'[q] = started[q] /\ pc[q] \in Pulling
    BY <1>17, <2>1, GotoFacts, KeepFacts DEF Drop
  <2>3. QED
    BY <1>17, <2>1, <2>2 DEF Drop
<1>18. CASE LateClean
  BY <1>18 DEF LateClean
<1>19. CASE LateRename
  BY <1>19 DEF LateRename
<1>20. CASE EvictBegin
  BY <1>20 DEF EvictBegin
<1>21. CASE EvictLock
  BY <1>21 DEF EvictLock
<1>22. CASE EvictClear
  BY <1>22 DEF EvictClear
<1>23. CASE EvictRename
  BY <1>23 DEF EvictRename
<1>24. CASE EvictEnd
  BY <1>24 DEF EvictEnd
<1>25. CASE Crash
  BY <1>25, NumbersAssumption DEF TypeOK, Crash, Never
<1>26. CASE UNCHANGED vars
  BY <1>26 DEF vars
<1>27. QED
  BY <1>1, <1>2, <1>3, <1>4, <1>5, <1>6, <1>7, <1>8, <1>9, <1>10, <1>11,
     <1>12, <1>13, <1>14, <1>15, <1>16, <1>17, <1>18, <1>19, <1>20, <1>21,
     <1>22, <1>23, <1>24, <1>25, <1>26 DEF Next, Proceed, Evict

(* A request that has read the upstream has just done so, or goes on with  *)
(* what it read; the mirror it fetches into does not change meanwhile.     *)
LEMMA ReadingFrame ==
    ASSUME TypeOK, Locked, Whole, [Next]_vars, NEW r \in Requests, pc'[r] \in Reading
    PROVE  /\ started'[r] = started[r]
           /\ \/ /\ pc[r] \in {"clone", "fetch"}
                 /\ got'[r] = upAt[clock]
                 /\ UNCHANGED <<clock, upAt, mirror>>
              \/ /\ pc[r] \in Reading
                 /\ got'[r] = got[r]
                 /\ pc'[r] = "fetching" => pc[r] = "fetching" /\ mirror' = mirror
<1> DEFINE Goal == /\ started'[r] = started[r]
                   /\ \/ /\ pc[r] \in {"clone", "fetch"}
                         /\ got'[r] = upAt[clock]
                         /\ UNCHANGED <<clock, upAt, mirror>>
                      \/ /\ pc[r] \in Reading
                         /\ got'[r] = got[r]
                         /\ pc'[r] = "fetching"
                              => pc[r] = "fetching" /\ mirror' = mirror
<1> USE DEF Locked, Whole, Reading, PcStates, Holding, Pulling, Results,
            world, slot, disk, request, history
<1>1. CASE Tick
  BY <1>1 DEF Tick
<1>2. CASE Push
  BY <1>2 DEF Push
<1>3. ASSUME NEW q \in Requests, Arrive(q) PROVE Goal
  BY <1>3, GotoFacts, ReleaseFacts, KeepFacts DEF Arrive
<1>4. ASSUME NEW q \in Requests, Acquire(q) PROVE Goal
  BY <1>4 DEF TypeOK, Goto, Acquire
<1>5. ASSUME NEW q \in Requests, CleanStaging(q) PROVE Goal
  BY <1>5, GotoFacts, ReleaseFacts, KeepFacts DEF CleanStaging, BadGateway
<1>6. ASSUME NEW q \in Requests, CloneReads(q) PROVE Goal
  <2>1. got'[q] = upstream /\ \A p \in Requests : p # q => got'[p] = got[p]
    <3>1. got \in [Requests -> 0..MaxPush]
      BY DEF TypeOK
    <3>2. QED
      BY <1>6, <3>1 DEF CloneReads
  <2>2. QED
    BY <1>6, <2>1, GotoFacts DEF CloneReads, upstream
<1>7. ASSUME NEW q \in Requests, CloneExits(q) PROVE Goal
  BY <1>7, GotoFacts, ReleaseFacts, KeepFacts DEF CloneExits
<1>8. ASSUME NEW q \in Requests, CloneFails(q) PROVE Goal
  BY <1>8, GotoFacts, ReleaseFacts, KeepFacts DEF CloneFails
<1>9. ASSUME NEW q \in Requests, WipeStaging(q) PROVE Goal
  BY <1>9, GotoFacts, ReleaseFacts, KeepFacts
     DEF WipeStaging, RetryOrBail, BadGateway
<1>10. ASSUME NEW q \in Requests, Retry(q) PROVE Goal
  BY <1>10, GotoFacts, ReleaseFacts, KeepFacts DEF Retry
<1>11. ASSUME NEW q \in Requests, RenameIntoPlace(q) PROVE Goal
  BY <1>11, GotoFacts, ReleaseFacts, KeepFacts
     DEF RenameIntoPlace, PullDone, BadGateway, MoveStaging
<1>12. ASSUME NEW q \in Requests, FetchReads(q) PROVE Goal
  <2>1. got'[q] = upstream /\ \A p \in Requests : p # q => got'[p] = got[p]
    <3>1. got \in [Requests -> 0..MaxPush]
      BY DEF TypeOK
    <3>2. QED
      BY <1>12, <3>1 DEF FetchReads
  <2>2. QED
    BY <1>12, <2>1, GotoFacts DEF FetchReads, upstream
<1>13. ASSUME NEW q \in Requests, FetchExits(q) PROVE Goal
  BY <1>13, GotoFacts, ReleaseFacts, KeepFacts DEF FetchExits, PullDone
<1>14. ASSUME NEW q \in Requests, FetchFails(q) PROVE Goal
  BY <1>14, GotoFacts, ReleaseFacts, KeepFacts
     DEF FetchFails, RetryOrBail, BadGateway
<1>15. ASSUME NEW q \in Requests, EnsureWantedOids(q) PROVE Goal
  BY <1>15, GotoFacts, ReleaseFacts, KeepFacts DEF EnsureWantedOids
<1>16. ASSUME NEW q \in Requests, Serve(q) PROVE Goal
  BY <1>16, GotoFacts, ReleaseFacts, KeepFacts DEF Serve
<1>17. ASSUME NEW q \in Requests, Drop(q) PROVE Goal
  BY <1>17, GotoFacts, ReleaseFacts, KeepFacts
     DEF Drop, KillFetch, LeaveBehind, MoveStaging, CanRename
<1>18. CASE LateClean
  BY <1>18 DEF LateClean
<1>19. CASE LateRename
  BY <1>19 DEF LateRename
<1>20. CASE EvictBegin
  BY <1>20 DEF EvictBegin
<1>21. CASE EvictLock
  BY <1>21 DEF EvictLock
<1>22. CASE EvictClear
  BY <1>22 DEF EvictClear
<1>23. CASE EvictRename
  BY <1>23, RequestsAssumption DEF EvictRename
<1>24. CASE EvictEnd
  BY <1>24 DEF EvictEnd
<1>25. CASE Crash
  BY <1>25 DEF TypeOK, Crash
<1>26. CASE UNCHANGED vars
  BY <1>26 DEF vars
<1>27. QED
  BY <1>1, <1>2, <1>3, <1>4, <1>5, <1>6, <1>7, <1>8, <1>9, <1>10, <1>11,
     <1>12, <1>13, <1>14, <1>15, <1>16, <1>17, <1>18, <1>19, <1>20, <1>21,
     <1>22, <1>23, <1>24, <1>25, <1>26
     DEF Next, Proceed, Evict

(* How the mirror and the stamp change: not at all, by its removal, to     *)
(* what a pull has read, or some way towards it.                           *)
MirrorSteps ==
    \/ mirror' = mirror /\ last' \in {last, Never}
    \/ mirror' = Absent /\ last' = last
    \/ \E q \in Requests :
          /\ pc[q] \in {"rename", "fetching"}
          /\ pc[q] = "rename" => mirror = Absent
          /\ mirror' = got[q]
          /\ last' \in {last, started[q]}
          /\ UNCHANGED <<clock, upAt>>
    \/ \E q \in Requests :
          /\ pc[q] = "fetching"
          /\ mirror # Absent /\ mirror' \in 0..MaxPush
          /\ mirror <= mirror' /\ mirror' <= got[q]
          /\ last' \in {last, Never}
          /\ UNCHANGED <<clock, upAt>>

(* Every step changes the mirror in one of the ways of MirrorSteps.         *)
LEMMA MirrorFrame ==
    ASSUME TypeOK, Whole, [Next]_vars PROVE MirrorSteps
<1> USE DEF Whole, MirrorSteps, world, slot, disk, request, history
<1>1. CASE Tick
  BY <1>1 DEF Tick
<1>2. CASE Push
  BY <1>2 DEF Push
<1>3. ASSUME NEW q \in Requests, Arrive(q) PROVE MirrorSteps
  BY <1>3 DEF Arrive
<1>4. ASSUME NEW q \in Requests, Acquire(q) PROVE MirrorSteps
  BY <1>4 DEF Acquire
<1>5. ASSUME NEW q \in Requests, CleanStaging(q) PROVE MirrorSteps
  BY <1>5 DEF CleanStaging
<1>6. ASSUME NEW q \in Requests, CloneReads(q) PROVE MirrorSteps
  BY <1>6 DEF CloneReads
<1>7. ASSUME NEW q \in Requests, CloneExits(q) PROVE MirrorSteps
  BY <1>7 DEF CloneExits
<1>8. ASSUME NEW q \in Requests, CloneFails(q) PROVE MirrorSteps
  BY <1>8 DEF CloneFails
<1>9. ASSUME NEW q \in Requests, WipeStaging(q) PROVE MirrorSteps
  BY <1>9 DEF WipeStaging
<1>10. ASSUME NEW q \in Requests, Retry(q) PROVE MirrorSteps
  BY <1>10 DEF Retry
<1>11. ASSUME NEW q \in Requests, RenameIntoPlace(q) PROVE MirrorSteps
  BY <1>11 DEF RenameIntoPlace, CanRename, PullDone, Stamp, MoveStaging
<1>12. ASSUME NEW q \in Requests, FetchReads(q) PROVE MirrorSteps
  BY <1>12 DEF FetchReads
<1>13. ASSUME NEW q \in Requests, FetchExits(q) PROVE MirrorSteps
  BY <1>13 DEF FetchExits, PullDone, Stamp
<1>14. ASSUME NEW q \in Requests, FetchFails(q) PROVE MirrorSteps
  <2>1. CASE pc[q] = "fetching"
    BY <1>14, <2>1, PartlyNotHalf DEF FetchFails
  <2>2. CASE pc[q] # "fetching"
    BY <1>14, <2>2 DEF FetchFails
  <2>3. QED
    BY <2>1, <2>2
<1>15. ASSUME NEW q \in Requests, EnsureWantedOids(q) PROVE MirrorSteps
  BY <1>15 DEF EnsureWantedOids
<1>16. ASSUME NEW q \in Requests, Serve(q) PROVE MirrorSteps
  BY <1>16 DEF Serve
<1>17. ASSUME NEW q \in Requests, Drop(q) PROVE MirrorSteps
  <2>1. CASE pc[q] = "fetching" /\ KillFetch(q)
    BY <1>17, <2>1, PartlyNotHalf DEF Drop, KillFetch
  <2>2. CASE pc[q] = "rename" /\ CanRename /\ MoveStaging
    BY <1>17, <2>2 DEF Drop, CanRename, MoveStaging
  <2>3. CASE mirror' = mirror
    BY <1>17, <2>3 DEF Drop
  <2>4. QED
    BY <1>17, <2>1, <2>2, <2>3 DEF Drop, LeaveBehind
<1>18. CASE LateClean
  BY <1>18 DEF LateClean
<1>19. CASE LateRename
  BY <1>19 DEF LateRename
<1>20. CASE EvictBegin
  BY <1>20 DEF EvictBegin
<1>21. CASE EvictLock
  BY <1>21 DEF EvictLock
<1>22. CASE EvictClear
  BY <1>22 DEF EvictClear
<1>23. CASE EvictRename
  BY <1>23 DEF EvictRename
<1>24. CASE EvictEnd
  BY <1>24 DEF EvictEnd
<1>25. CASE Crash
  BY <1>25, PartlyNotHalf DEF Crash
<1>26. CASE UNCHANGED vars
  BY <1>26 DEF vars
<1>27. QED
  BY <1>1, <1>2, <1>3, <1>4, <1>5, <1>6, <1>7, <1>8, <1>9, <1>10, <1>11,
     <1>12, <1>13, <1>14, <1>15, <1>16, <1>17, <1>18, <1>19, <1>20, <1>21,
     <1>22, <1>23, <1>24, <1>25, <1>26
     DEF Next, Proceed, Evict

(* How a request comes to be answered: it found the mirror fresh, or it    *)
(* has pulled it.                                                          *)
LEMMA WantsFrame ==
    ASSUME TypeOK, Whole, [Next]_vars, NEW r \in Requests,
           pc'[r] \in {"wants", "serve"}
    PROVE  \/ pc[r] \in {"wants", "serve"}
           \/ mirror # Absent /\ mirror' = mirror /\ ~Stale(r)
           \/ pc[r] \in {"rename", "fetching"} /\ mirror' = got[r]
<1> DEFINE Goal == \/ pc[r] \in {"wants", "serve"}
                   \/ mirror # Absent /\ mirror' = mirror /\ ~Stale(r)
                   \/ pc[r] \in {"rename", "fetching"} /\ mirror' = got[r]
<1> USE DEF Whole, PcStates, Holding, Pulling, Results, disk
<1>1. CASE Tick
  BY <1>1 DEF Tick
<1>2. CASE Push
  BY <1>2 DEF Push
<1>3. ASSUME NEW q \in Requests, Arrive(q) PROVE Goal
  BY <1>3, GotoFacts DEF Arrive
<1>4. ASSUME NEW q \in Requests, Acquire(q) PROVE Goal
  BY <1>4 DEF TypeOK, Goto, Acquire
<1>5. ASSUME NEW q \in Requests, CleanStaging(q) PROVE Goal
  BY <1>5, GotoFacts DEF CleanStaging, BadGateway
<1>6. ASSUME NEW q \in Requests, CloneReads(q) PROVE Goal
  BY <1>6, GotoFacts DEF CloneReads
<1>7. ASSUME NEW q \in Requests, CloneExits(q) PROVE Goal
  BY <1>7, GotoFacts DEF CloneExits
<1>8. ASSUME NEW q \in Requests, CloneFails(q) PROVE Goal
  BY <1>8, GotoFacts DEF CloneFails
<1>9. ASSUME NEW q \in Requests, WipeStaging(q) PROVE Goal
  BY <1>9, GotoFacts DEF WipeStaging, RetryOrBail, BadGateway
<1>10. ASSUME NEW q \in Requests, Retry(q) PROVE Goal
  BY <1>10, GotoFacts DEF Retry
<1>11. ASSUME NEW q \in Requests, RenameIntoPlace(q) PROVE Goal
  BY <1>11, GotoFacts DEF RenameIntoPlace, PullDone, BadGateway, MoveStaging
<1>12. ASSUME NEW q \in Requests, FetchReads(q) PROVE Goal
  BY <1>12, GotoFacts DEF FetchReads
<1>13. ASSUME NEW q \in Requests, FetchExits(q) PROVE Goal
  BY <1>13, GotoFacts DEF FetchExits, PullDone
<1>14. ASSUME NEW q \in Requests, FetchFails(q) PROVE Goal
  BY <1>14, GotoFacts DEF FetchFails, RetryOrBail, BadGateway
<1>15. ASSUME NEW q \in Requests, EnsureWantedOids(q) PROVE Goal
  BY <1>15, GotoFacts DEF EnsureWantedOids
<1>16. ASSUME NEW q \in Requests, Serve(q) PROVE Goal
  BY <1>16, GotoFacts DEF Serve
<1>17. ASSUME NEW q \in Requests, Drop(q) PROVE Goal
  BY <1>17, GotoFacts DEF Drop
<1>18. CASE LateClean
  BY <1>18 DEF LateClean
<1>19. CASE LateRename
  BY <1>19 DEF LateRename
<1>20. CASE EvictBegin
  BY <1>20 DEF EvictBegin
<1>21. CASE EvictLock
  BY <1>21 DEF EvictLock
<1>22. CASE EvictClear
  BY <1>22 DEF EvictClear
<1>23. CASE EvictRename
  BY <1>23 DEF EvictRename
<1>24. CASE EvictEnd
  BY <1>24 DEF EvictEnd
<1>25. CASE Crash
  BY <1>25 DEF TypeOK, Crash
<1>26. CASE UNCHANGED vars
  BY <1>26 DEF vars
<1>27. QED
  BY <1>1, <1>2, <1>3, <1>4, <1>5, <1>6, <1>7, <1>8, <1>9, <1>10, <1>11,
     <1>12, <1>13, <1>14, <1>15, <1>16, <1>17, <1>18, <1>19, <1>20, <1>21,
     <1>22, <1>23, <1>24, <1>25, <1>26
     DEF Next, Proceed, Evict

(* What a request is owed is settled when it arrives.                      *)
LEMMA OwedFrame ==
    ASSUME TypeOK, [Next]_vars
    PROVE  owed' = owed \/ \E q \in Requests : Arrive(q)
<1> DEFINE Goal == owed' = owed \/ \E q \in Requests : Arrive(q)
<1> USE DEF history
<1>1. CASE Tick
  BY <1>1 DEF Tick
<1>2. CASE Push
  BY <1>2 DEF Push
<1>3. ASSUME NEW q \in Requests, Arrive(q) PROVE Goal
  BY <1>3, GotoFacts DEF Arrive
<1>4. ASSUME NEW q \in Requests, Acquire(q) PROVE Goal
  BY <1>4 DEF Acquire
<1>5. ASSUME NEW q \in Requests, CleanStaging(q) PROVE Goal
  BY <1>5 DEF CleanStaging
<1>6. ASSUME NEW q \in Requests, CloneReads(q) PROVE Goal
  BY <1>6 DEF CloneReads
<1>7. ASSUME NEW q \in Requests, CloneExits(q) PROVE Goal
  BY <1>7 DEF CloneExits
<1>8. ASSUME NEW q \in Requests, CloneFails(q) PROVE Goal
  BY <1>8 DEF CloneFails
<1>9. ASSUME NEW q \in Requests, WipeStaging(q) PROVE Goal
  BY <1>9 DEF WipeStaging
<1>10. ASSUME NEW q \in Requests, Retry(q) PROVE Goal
  BY <1>10 DEF Retry
<1>11. ASSUME NEW q \in Requests, RenameIntoPlace(q) PROVE Goal
  BY <1>11 DEF RenameIntoPlace
<1>12. ASSUME NEW q \in Requests, FetchReads(q) PROVE Goal
  BY <1>12 DEF FetchReads
<1>13. ASSUME NEW q \in Requests, FetchExits(q) PROVE Goal
  BY <1>13 DEF FetchExits
<1>14. ASSUME NEW q \in Requests, FetchFails(q) PROVE Goal
  BY <1>14 DEF FetchFails
<1>15. ASSUME NEW q \in Requests, EnsureWantedOids(q) PROVE Goal
  BY <1>15 DEF EnsureWantedOids
<1>16. ASSUME NEW q \in Requests, Serve(q) PROVE Goal
  BY <1>16 DEF Serve
<1>17. ASSUME NEW q \in Requests, Drop(q) PROVE Goal
  BY <1>17 DEF Drop
<1>18. CASE LateClean
  BY <1>18 DEF LateClean
<1>19. CASE LateRename
  BY <1>19 DEF LateRename
<1>20. CASE EvictBegin
  BY <1>20 DEF EvictBegin
<1>21. CASE EvictLock
  BY <1>21 DEF EvictLock
<1>22. CASE EvictClear
  BY <1>22 DEF EvictClear
<1>23. CASE EvictRename
  BY <1>23 DEF EvictRename
<1>24. CASE EvictEnd
  BY <1>24 DEF EvictEnd
<1>25. CASE Crash
  BY <1>25 DEF Crash
<1>26. CASE UNCHANGED vars
  BY <1>26 DEF vars
<1>27. QED
  BY <1>1, <1>2, <1>3, <1>4, <1>5, <1>6, <1>7, <1>8, <1>9, <1>10, <1>11,
     <1>12, <1>13, <1>14, <1>15, <1>16, <1>17, <1>18, <1>19, <1>20, <1>21,
     <1>22, <1>23, <1>24, <1>25, <1>26
     DEF Next, Proceed, Evict

(* An answer shows the mirror, perhaps with some of its refs on the move.  *)
LEMMA OkFrame ==
    ASSUME TypeOK, [Next]_vars, NEW r \in InfoRefs, pc'[r] = "ok"
    PROVE  \/ pc[r] = "ok" /\ shown'[r] = shown[r]
           \/ /\ pc[r] = "serve" /\ mirror # Absent
              /\ \/ shown'[r] = mirror
                 \/ \E p \in Requests : pc[p] = "fetching" /\ shown'[r] \in Partly(p)
<1> DEFINE Goal ==
      \/ pc[r] = "ok" /\ shown'[r] = shown[r]
      \/ /\ pc[r] = "serve" /\ mirror # Absent
         /\ \/ shown'[r] = mirror
            \/ \E p \in Requests : pc[p] = "fetching" /\ shown'[r] \in Partly(p)
<1>0. r \in Requests
  BY DEF Requests
<1> USE <1>0 DEF PcStates, Holding, Pulling, Results, history
<1>1. CASE Tick
  BY <1>1 DEF Tick
<1>2. CASE Push
  BY <1>2 DEF Push
<1>3. ASSUME NEW q \in Requests, Arrive(q) PROVE Goal
  BY <1>3, GotoFacts DEF Arrive
<1>4. ASSUME NEW q \in Requests, Acquire(q) PROVE Goal
  BY <1>4 DEF TypeOK, Goto, Acquire
<1>5. ASSUME NEW q \in Requests, CleanStaging(q) PROVE Goal
  BY <1>5, GotoFacts DEF CleanStaging, BadGateway
<1>6. ASSUME NEW q \in Requests, CloneReads(q) PROVE Goal
  BY <1>6, GotoFacts DEF CloneReads
<1>7. ASSUME NEW q \in Requests, CloneExits(q) PROVE Goal
  BY <1>7, GotoFacts DEF CloneExits
<1>8. ASSUME NEW q \in Requests, CloneFails(q) PROVE Goal
  BY <1>8, GotoFacts DEF CloneFails
<1>9. ASSUME NEW q \in Requests, WipeStaging(q) PROVE Goal
  BY <1>9, GotoFacts DEF WipeStaging, RetryOrBail, BadGateway
<1>10. ASSUME NEW q \in Requests, Retry(q) PROVE Goal
  BY <1>10, GotoFacts DEF Retry
<1>11. ASSUME NEW q \in Requests, RenameIntoPlace(q) PROVE Goal
  BY <1>11, GotoFacts DEF RenameIntoPlace, PullDone, BadGateway
<1>12. ASSUME NEW q \in Requests, FetchReads(q) PROVE Goal
  BY <1>12, GotoFacts DEF FetchReads
<1>13. ASSUME NEW q \in Requests, FetchExits(q) PROVE Goal
  BY <1>13, GotoFacts DEF FetchExits, PullDone
<1>14. ASSUME NEW q \in Requests, FetchFails(q) PROVE Goal
  BY <1>14, GotoFacts DEF FetchFails, RetryOrBail, BadGateway
<1>15. ASSUME NEW q \in Requests, EnsureWantedOids(q) PROVE Goal
  BY <1>15, GotoFacts DEF EnsureWantedOids
<1>16. ASSUME NEW q \in Requests, Serve(q) PROVE Goal
  <2>1. CASE q = r
    <3>1. pc[r] = "serve" /\ mirror # Absent
      BY <1>16, <2>1, GotoFacts DEF Serve
    <3>2. PICK v \in {mirror} \cup UNION {Partly(p) :
                       p \in {x \in Requests : pc[x] = "fetching"}} :
             shown' = [x \in InfoRefs |-> IF x = r THEN v ELSE shown[x]]
      BY <1>16, <2>1, <3>1 DEF Serve
    <3>3. shown'[r] = v
      BY <3>2
    <3>4. QED
      BY <3>1, <3>2, <3>3
  <2>2. CASE q # r
    <3>1. pc[r] = "ok"
      BY <1>16, <2>2, GotoFacts DEF Serve
    <3>2. shown'[r] = shown[r]
      BY <1>16, <2>2 DEF TypeOK, Serve
    <3>3. QED
      BY <3>1, <3>2
  <2>3. QED
    BY <2>1, <2>2
<1>17. ASSUME NEW q \in Requests, Drop(q) PROVE Goal
  BY <1>17, GotoFacts DEF Drop
<1>18. CASE LateClean
  BY <1>18 DEF LateClean
<1>19. CASE LateRename
  BY <1>19 DEF LateRename
<1>20. CASE EvictBegin
  BY <1>20 DEF EvictBegin
<1>21. CASE EvictLock
  BY <1>21 DEF EvictLock
<1>22. CASE EvictClear
  BY <1>22 DEF EvictClear
<1>23. CASE EvictRename
  BY <1>23 DEF EvictRename
<1>24. CASE EvictEnd
  BY <1>24 DEF EvictEnd
<1>25. CASE Crash
  BY <1>25 DEF TypeOK, Crash
<1>26. CASE UNCHANGED vars
  BY <1>26 DEF vars
<1>27. QED
  BY <1>1, <1>2, <1>3, <1>4, <1>5, <1>6, <1>7, <1>8, <1>9, <1>10, <1>11,
     <1>12, <1>13, <1>14, <1>15, <1>16, <1>17, <1>18, <1>19, <1>20, <1>21,
     <1>22, <1>23, <1>24, <1>25, <1>26
     DEF Next, Proceed, Evict

(* Only the end of ensure_fresh leads to an answer.                        *)
LEMMA ServeFrame ==
    ASSUME TypeOK, [Next]_vars, NEW r \in Requests, pc'[r] = "serve"
    PROVE  pc[r] \in {"wants", "serve"}
<1> DEFINE Goal == pc[r] \in {"wants", "serve"}
<1> USE DEF PcStates, Holding, Pulling, Results
<1>1. CASE Tick
  BY <1>1 DEF Tick
<1>2. CASE Push
  BY <1>2 DEF Push
<1>3. ASSUME NEW q \in Requests, Arrive(q) PROVE Goal
  BY <1>3, GotoFacts DEF Arrive
<1>4. ASSUME NEW q \in Requests, Acquire(q) PROVE Goal
  BY <1>4 DEF TypeOK, Goto, Acquire
<1>5. ASSUME NEW q \in Requests, CleanStaging(q) PROVE Goal
  BY <1>5, GotoFacts DEF CleanStaging, BadGateway
<1>6. ASSUME NEW q \in Requests, CloneReads(q) PROVE Goal
  BY <1>6, GotoFacts DEF CloneReads
<1>7. ASSUME NEW q \in Requests, CloneExits(q) PROVE Goal
  BY <1>7, GotoFacts DEF CloneExits
<1>8. ASSUME NEW q \in Requests, CloneFails(q) PROVE Goal
  BY <1>8, GotoFacts DEF CloneFails
<1>9. ASSUME NEW q \in Requests, WipeStaging(q) PROVE Goal
  BY <1>9, GotoFacts DEF WipeStaging, RetryOrBail, BadGateway
<1>10. ASSUME NEW q \in Requests, Retry(q) PROVE Goal
  BY <1>10, GotoFacts DEF Retry
<1>11. ASSUME NEW q \in Requests, RenameIntoPlace(q) PROVE Goal
  BY <1>11, GotoFacts DEF RenameIntoPlace, PullDone, BadGateway, MoveStaging
<1>12. ASSUME NEW q \in Requests, FetchReads(q) PROVE Goal
  BY <1>12, GotoFacts DEF FetchReads
<1>13. ASSUME NEW q \in Requests, FetchExits(q) PROVE Goal
  BY <1>13, GotoFacts DEF FetchExits, PullDone
<1>14. ASSUME NEW q \in Requests, FetchFails(q) PROVE Goal
  BY <1>14, GotoFacts DEF FetchFails, RetryOrBail, BadGateway
<1>15. ASSUME NEW q \in Requests, EnsureWantedOids(q) PROVE Goal
  BY <1>15, GotoFacts DEF EnsureWantedOids
<1>16. ASSUME NEW q \in Requests, Serve(q) PROVE Goal
  BY <1>16, GotoFacts DEF Serve
<1>17. ASSUME NEW q \in Requests, Drop(q) PROVE Goal
  BY <1>17, GotoFacts DEF Drop
<1>18. CASE LateClean
  BY <1>18 DEF LateClean
<1>19. CASE LateRename
  BY <1>19 DEF LateRename
<1>20. CASE EvictBegin
  BY <1>20 DEF EvictBegin
<1>21. CASE EvictLock
  BY <1>21 DEF EvictLock
<1>22. CASE EvictClear
  BY <1>22 DEF EvictClear
<1>23. CASE EvictRename
  BY <1>23 DEF EvictRename
<1>24. CASE EvictEnd
  BY <1>24 DEF EvictEnd
<1>25. CASE Crash
  BY <1>25 DEF TypeOK, Crash
<1>26. CASE UNCHANGED vars
  BY <1>26 DEF vars
<1>27. QED
  BY <1>1, <1>2, <1>3, <1>4, <1>5, <1>6, <1>7, <1>8, <1>9, <1>10, <1>11,
     <1>12, <1>13, <1>14, <1>15, <1>16, <1>17, <1>18, <1>19, <1>20, <1>21,
     <1>22, <1>23, <1>24, <1>25, <1>26
     DEF Next, Proceed, Evict

(* With the steps known, each part of the freshness argument is preserved. *)
FreshInv ==
    /\ UpMonotone /\ Stamps /\ PullFresh /\ MirrorFresh
    /\ OwedOld /\ OwedPull /\ OwedServe /\ Fresh

(* The numbers among the variables, for the steps that compare them.       *)
LEMMA Numbers ==
    ASSUME TypeOK
    PROVE  /\ clock \in 0..MaxTime /\ last \in -1..MaxTime
           /\ mirror \in -2..MaxPush
           /\ \A t \in 0..MaxTime : upAt[t] \in 0..MaxPush
           /\ \A r \in Requests : /\ started[r] \in 0..MaxTime
                                  /\ got[r] \in 0..MaxPush
           /\ \A r \in InfoRefs : owed[r] \in 0..MaxPush
  BY DEF TypeOK

(* What the upstream had is still there after any step.                    *)
LEMMA UpKept ==
    ASSUME TypeOK, [Next]_vars
    PROVE  /\ clock' \in 0..MaxTime /\ clock <= clock'
           /\ \A t \in 0..MaxTime : upAt'[t] \in 0..MaxPush
           /\ upAt[clock] <= upAt'[clock']
           /\ \A t \in 0..MaxTime : t < clock => upAt'[t] = upAt[t]
<1> USE NumbersAssumption DEF TypeOK
<1>1. CASE Tick
  BY <1>1 DEF Tick
<1>2. CASE Push
  BY <1>2 DEF Push, upstream
<1>3. CASE UNCHANGED <<clock, upAt>>
  BY <1>3
<1>4. QED
  BY <1>1, <1>2, <1>3, WorldFrame

(* A pull has read all that the upstream had before its start.              *)
LEMMA NextPullFresh ==
    ASSUME TypeOK, TypeOK', Locked, Whole, FreshInv, [Next]_vars
    PROVE  PullFresh'
<1> SUFFICES ASSUME NEW r \in Requests, pc'[r] \in Reading
             PROVE  /\ got'[r] <= upAt'[clock']
                    /\ \A t \in 0..MaxTime : t < started'[r] => upAt'[t] <= got'[r]
                    /\ pc'[r] = "fetching" => mirror' <= got'[r]
  BY DEF PullFresh
<1>1. started'[r] = started[r] /\ started[r] <= clock
  BY ReadingFrame DEF FreshInv, Stamps
<1>2. CASE pc[r] \in {"clone", "fetch"} /\ got'[r] = upAt[clock]
             /\ UNCHANGED <<clock, upAt, mirror>>
  <2>1. \A t \in 0..MaxTime : t < started[r] => upAt[t] <= upAt[clock]
    BY <1>1, Numbers, NumbersAssumption DEF FreshInv, UpMonotone
  <2>2. mirror <= upAt[clock]
    <3>1. mirror # Absent => mirror <= upAt[clock]
      BY DEF FreshInv, MirrorFresh
    <3>2. QED
      BY <3>1, Numbers, NumbersAssumption DEF Absent
  <2>3. upAt[clock] <= upAt[clock]
    BY Numbers, NumbersAssumption
  <2>4. QED
    BY <1>1, <1>2, <2>1, <2>2, <2>3
<1>3. CASE pc[r] \in Reading /\ got'[r] = got[r]
             /\ (pc'[r] = "fetching" => pc[r] = "fetching" /\ mirror' = mirror)
  <2>1. /\ got[r] <= upAt[clock]
        /\ \A t \in 0..MaxTime : t < started[r] => upAt[t] <= got[r]
        /\ pc[r] = "fetching" => mirror <= got[r]
    BY <1>3 DEF FreshInv, PullFresh
  <2>2. got[r] <= upAt'[clock']
    BY <2>1, UpKept, Numbers, NumbersAssumption
  <2>3. \A t \in 0..MaxTime : t < started[r] => upAt'[t] = upAt[t]
    BY <1>1, UpKept, Numbers, NumbersAssumption
  <2>4. QED
    BY <1>1, <1>3, <2>1, <2>2, <2>3
<1>4. QED
  BY <1>2, <1>3, ReadingFrame

(* The mirror holds all that the upstream had before its stamp.             *)
LEMMA NextMirrorFresh ==
    ASSUME TypeOK, TypeOK', Locked, Whole, FreshInv, [Next]_vars
    PROVE  MirrorFresh'
<1> SUFFICES ASSUME mirror' # Absent
             PROVE  /\ mirror' <= upAt'[clock']
                    /\ \A t \in 0..MaxTime : t < last' => upAt'[t] <= mirror'
  BY DEF MirrorFresh, Absent
<1> USE NumbersAssumption DEF Never
<1>1. last <= clock
  BY DEF FreshInv, Stamps
<1>2. CASE mirror' = mirror /\ last' \in {last, Never}
  <2>1. /\ mirror <= upAt[clock]
        /\ \A t \in 0..MaxTime : t < last => upAt[t] <= mirror
    BY <1>2 DEF FreshInv, MirrorFresh
  <2>2. mirror <= upAt'[clock']
    BY <2>1, UpKept, Numbers, NumbersAssumption
  <2>3. \A t \in 0..MaxTime : t < last' => t < last /\ upAt'[t] = upAt[t]
    BY <1>1, <1>2, UpKept, Numbers, NumbersAssumption
  <2>4. QED
    BY <1>2, <2>1, <2>2, <2>3
<1>3. ASSUME NEW q \in Requests, pc[q] \in {"rename", "fetching"},
             mirror' = got[q], last' \in {last, started[q]},
             UNCHANGED <<clock, upAt>>
      PROVE  /\ mirror' <= upAt'[clock']
             /\ \A t \in 0..MaxTime : t < last' => upAt'[t] <= mirror'
  <2>1. /\ got[q] <= upAt[clock]
        /\ \A t \in 0..MaxTime : t < started[q] => upAt[t] <= got[q]
    BY <1>3 DEF FreshInv, PullFresh, Reading
  <2>2. last <= started[q]
    BY <1>3 DEF FreshInv, Stamps, Pulling
  <2>3. \A t \in 0..MaxTime : t < last' => t < started[q]
    BY <1>3, <2>2, Numbers, NumbersAssumption
  <2>4. QED
    BY <1>3, <2>1, <2>3
<1>4. ASSUME NEW q \in Requests, pc[q] = "fetching", mirror # Absent,
             mirror' \in 0..MaxPush,
             mirror <= mirror', mirror' <= got[q], last' \in {last, Never},
             UNCHANGED <<clock, upAt>>
      PROVE  /\ mirror' <= upAt'[clock']
             /\ \A t \in 0..MaxTime : t < last' => upAt'[t] <= mirror'
  <2>1. got[q] <= upAt[clock]
    BY <1>4 DEF FreshInv, PullFresh, Reading
  <2>2. \A t \in 0..MaxTime : t < last => upAt[t] <= mirror
    BY <1>4 DEF FreshInv, MirrorFresh
  <2>3. mirror' <= upAt[clock]
    BY <1>4, <2>1, Numbers, NumbersAssumption
  <2>4. \A t \in 0..MaxTime : t < last' => upAt[t] <= mirror'
    BY <1>4, <2>2, Numbers, NumbersAssumption
  <2>5. QED
    BY <1>4, <2>3, <2>4
<1>5. QED
  BY <1>2, <1>3, <1>4, MirrorFrame DEF MirrorSteps

(* Nothing is owed that the upstream does not have.                        *)
LEMMA OwedNow ==
    ASSUME TypeOK, UpMonotone, OwedOld, NEW r \in InfoRefs
    PROVE  owed[r] <= upAt[clock]
<1>1. CASE owed[r] = 0
  BY <1>1, NumbersAssumption DEF TypeOK
<1>2. CASE clock >= Ttl /\ owed[r] <= upAt[clock - Ttl]
  <2>1. clock - Ttl \in 0..MaxTime /\ clock - Ttl <= clock
    BY <1>2, NumbersAssumption DEF TypeOK
  <2>2. upAt[clock - Ttl] <= upAt[clock]
    BY <2>1 DEF UpMonotone, TypeOK
  <2>3. QED
    BY <1>2, <2>1, <2>2, Numbers, NumbersAssumption
<1>3. QED
  BY <1>1, <1>2 DEF OwedOld

(* What is owed was at the upstream at least Ttl ago.                       *)
LEMMA NextOwedOld ==
    ASSUME TypeOK, TypeOK', FreshInv, [Next]_vars PROVE OwedOld'
<1> SUFFICES ASSUME NEW r \in InfoRefs
             PROVE  owed'[r] = 0 \/ (clock' >= Ttl /\ owed'[r] <= upAt'[clock' - Ttl])
  BY DEF OwedOld
<1>1. owed[r] = 0 \/ (clock >= Ttl /\ owed[r] <= upAt[clock - Ttl])
  BY DEF FreshInv, OwedOld
<1>2. CASE Tick
  <2>1. owed' = owed /\ clock' = clock + 1
    BY <1>2 DEF Tick, history
  <2>2. upAt'[clock + 1] = upAt[clock]
        /\ \A t \in 0..MaxTime : t <= clock => upAt'[t] = upAt[t]
    BY <1>2, NumbersAssumption DEF Tick, TypeOK
  <2>3. ASSUME clock >= Ttl
        PROVE  upAt[clock - Ttl] <= upAt'[(clock + 1) - Ttl]
    <3>1. CASE Ttl = 0
      BY <2>2, <3>1, Numbers, NumbersAssumption
    <3>2. CASE Ttl # 0
      <4>1. /\ clock - Ttl \in 0..MaxTime /\ (clock + 1) - Ttl \in 0..MaxTime
            /\ clock - Ttl <= (clock + 1) - Ttl /\ (clock + 1) - Ttl <= clock
        BY <2>3, <3>2, Numbers, NumbersAssumption
      <4>2. upAt[clock - Ttl] <= upAt[(clock + 1) - Ttl]
        BY <4>1 DEF FreshInv, UpMonotone
      <4>3. QED
        BY <2>2, <4>1, <4>2
    <3>3. QED
      BY <3>1, <3>2
  <2>4. CASE clock >= Ttl /\ owed[r] <= upAt[clock - Ttl]
    <3>1. /\ clock - Ttl \in 0..MaxTime /\ (clock + 1) - Ttl \in 0..MaxTime
          /\ clock + 1 >= Ttl
      BY <1>2, <2>4, Numbers, NumbersAssumption DEF Tick
    <3>2. /\ owed[r] \in Int /\ upAt[clock - Ttl] \in Int
          /\ upAt'[(clock + 1) - Ttl] \in Int
      BY <3>1, UpKept, Numbers
    <3>3. QED
      BY <2>1, <2>3, <2>4, <3>1, <3>2
  <2>5. QED
    BY <1>1, <2>1, <2>4
<1>3. CASE Push
  <2>1. owed' = owed /\ clock' = clock
    BY <1>3 DEF Push, history
  <2>2. ASSUME clock >= Ttl
        PROVE  upAt[clock - Ttl] <= upAt'[clock - Ttl]
    <3>1. clock - Ttl \in 0..MaxTime
      BY <2>2, Numbers, NumbersAssumption
    <3>2. upAt'[clock - Ttl] \in {upAt[clock - Ttl], upAt[clock - Ttl] + 1}
      BY <1>3, <3>1 DEF Push, TypeOK
    <3>3. QED
      BY <3>1, <3>2, Numbers
  <2>3. CASE clock >= Ttl /\ owed[r] <= upAt[clock - Ttl]
    <3>1. clock - Ttl \in 0..MaxTime
      BY <2>3, Numbers, NumbersAssumption
    <3>2. /\ owed[r] \in Int /\ upAt[clock - Ttl] \in Int
          /\ upAt'[clock - Ttl] \in Int
      BY <3>1, UpKept, Numbers
    <3>3. QED
      BY <2>1, <2>2, <2>3, <3>2
  <2>4. QED
    BY <1>1, <2>1, <2>3
<1>4. CASE UNCHANGED <<clock, upAt>>
  <2>1. CASE owed' = owed
    BY <1>1, <1>4, <2>1
  <2>2. ASSUME NEW q \in Requests, Arrive(q)
        PROVE  owed'[r] = 0 \/ (clock' >= Ttl /\ owed'[r] <= upAt'[clock' - Ttl])
    <3>1. owed'[r] = owed[r] \/ (clock >= Ttl /\ owed'[r] = upAt[clock - Ttl])
      BY <2>2 DEF Arrive
    <3>2. clock >= Ttl => upAt[clock - Ttl] <= upAt[clock - Ttl]
      BY Numbers, NumbersAssumption
    <3>3. QED
      BY <1>1, <1>4, <3>1, <3>2
  <2>3. QED
    BY <2>1, <2>2, OwedFrame
<1>5. QED
  BY <1>2, <1>3, <1>4, WorldFrame

(* A request that is reading, or being answered, has arrived long ago.     *)
LEMMA OwedKept ==
    ASSUME TypeOK, [Next]_vars, NEW r \in InfoRefs, pc'[r] # "queued"
    PROVE  owed'[r] = owed[r]
<1>1. r \in Requests
  BY DEF Requests
<1>2. ASSUME NEW q \in Requests, Arrive(q) PROVE owed'[r] = owed[r]
  <2>1. q # r
    BY <1>1, <1>2, GotoFacts DEF Arrive, PcStates
  <2>2. QED
    BY <1>2, <2>1 DEF Arrive
<1>3. QED
  BY <1>2, OwedFrame

(* A pull reads at least what its request, or one being served, is owed.    *)
LEMMA NextOwedPull ==
    ASSUME TypeOK, TypeOK', Locked, Whole, FreshInv, [Next]_vars PROVE OwedPull'
<1> SUFFICES ASSUME NEW r \in InfoRefs, NEW q \in Requests, pc'[q] \in Reading,
                    q = r \/ pc'[r] = "serve"
             PROVE  owed'[r] <= got'[q]
  BY DEF OwedPull
<1>1. owed'[r] = owed[r]
  BY OwedKept DEF Reading
<1>2. CASE got'[q] = upAt[clock]
  BY <1>1, <1>2, OwedNow DEF FreshInv
<1>3. CASE pc[q] \in Reading /\ got'[q] = got[q]
  <2>1. CASE q = r
    BY <1>1, <1>3, <2>1 DEF FreshInv, OwedPull
  <2>2. CASE q # r /\ pc'[r] = "serve"
    <3>1. r \in Requests
      BY DEF Requests
    <3>2. pc[r] # "wants" /\ pc[r] # "rename" /\ pc[r] # "fetching"
      BY <1>3, <2>2, <3>1 DEF Locked, Reading, Holding, Pulling
    <3>3. pc[r] = "serve"
      BY <2>2, <3>1, <3>2, ServeFrame
    <3>4. QED
      BY <1>1, <1>3, <3>3 DEF FreshInv, OwedPull
  <2>3. QED
    BY <2>1, <2>2
<1>4. QED
  BY <1>2, <1>3, ReadingFrame

(* From the lock to the answer the mirror holds what is owed.               *)
LEMMA NextOwedServe ==
    ASSUME TypeOK, TypeOK', Locked, Whole, FreshInv, [Next]_vars
    PROVE  OwedServe'
<1> SUFFICES ASSUME NEW r \in InfoRefs, pc'[r] \in {"wants", "serve"},
                    mirror' # Absent
             PROVE  owed'[r] <= mirror'
  BY DEF OwedServe, Absent
<1>0. r \in Requests
  BY DEF Requests
<1>1. owed'[r] = owed[r]
  BY OwedKept
<1>2. CASE pc[r] \in {"wants", "serve"}
  <2>1. mirror # Absent => owed[r] <= mirror
    BY <1>2 DEF FreshInv, OwedServe
  <2>2. CASE mirror' = mirror
    BY <1>1, <2>1, <2>2
  <2>3. ASSUME NEW q \in Requests, pc[q] \in {"rename", "fetching"}, mirror' = got[q]
        PROVE  owed[r] <= mirror'
    <3>1. pc[r] = "serve"
      BY <1>0, <1>2, <2>3 DEF Locked, Holding, Pulling
    <3>2. QED
      BY <2>3, <3>1 DEF FreshInv, OwedPull, Reading
  <2>4. ASSUME mirror # Absent, mirror' \in 0..MaxPush, mirror <= mirror'
        PROVE  owed[r] <= mirror'
    BY <2>1, <2>4, Numbers, NumbersAssumption
  <2>5. QED
    BY <1>1, <2>2, <2>3, <2>4, MirrorFrame DEF MirrorSteps
<1>3. CASE mirror # Absent /\ mirror' = mirror /\ ~Stale(r)
  <2>1. last # Never /\ ~(clock - last >= Ttl)
    BY <1>3 DEF Stale
  <2>2. \A t \in 0..MaxTime : t < last => upAt[t] <= mirror
    BY <1>3 DEF FreshInv, MirrorFresh
  <2>3. CASE owed[r] = 0
    BY <1>1, <1>3, <2>3, Numbers, NumbersAssumption
       DEF Whole, MirrorWhole, Half, Absent
  <2>4. CASE clock >= Ttl /\ owed[r] <= upAt[clock - Ttl]
    <3>1. clock - Ttl \in 0..MaxTime /\ clock - Ttl < last
      BY <2>1, <2>4, Numbers, NumbersAssumption
    <3>2. upAt[clock - Ttl] <= mirror
      BY <2>2, <3>1
    <3>3. QED
      BY <1>1, <1>3, <2>4, <3>1, <3>2, Numbers
  <2>5. QED
    BY <2>3, <2>4 DEF FreshInv, OwedOld
<1>4. CASE pc[r] \in {"rename", "fetching"} /\ mirror' = got[r]
  BY <1>0, <1>1, <1>4 DEF FreshInv, OwedPull, Reading
<1>5. QED
  BY <1>0, <1>2, <1>3, <1>4, WantsFrame

(* An answer shows what was owed.                                           *)
LEMMA NextFresh ==
    ASSUME TypeOK, TypeOK', Locked, Whole, FreshInv, [Next]_vars PROVE Fresh'
<1> SUFFICES ASSUME NEW r \in InfoRefs, pc'[r] = "ok"
             PROVE  owed'[r] <= shown'[r]
  BY DEF Fresh
<1>1. owed'[r] = owed[r]
  BY OwedKept
<1>2. CASE pc[r] = "ok" /\ shown'[r] = shown[r]
  BY <1>1, <1>2 DEF FreshInv, Fresh
<1>3. CASE pc[r] = "serve" /\ mirror # Absent
  <2>1. owed[r] <= mirror
    BY <1>3 DEF FreshInv, OwedServe
  <2>2. CASE shown'[r] = mirror
    BY <1>1, <2>1, <2>2
  <2>3. ASSUME NEW p \in Requests, shown'[r] \in Partly(p)
        PROVE  owed'[r] <= shown'[r]
    <3>1. shown'[r] \in 0..MaxPush /\ mirror <= shown'[r]
      BY <1>3, <2>3, PartlyNotHalf DEF Whole
    <3>2. QED
      BY <1>1, <2>1, <3>1, Numbers
  <2>4. QED
    BY <1>2, <2>2, <2>3, OkFrame
<1>4. QED
  BY <1>2, <1>3, OkFrame

(* The freshness argument as a whole.                                      *)
LEMMA FreshCorrect == ASSUME "late" \notin Faults PROVE Spec => []FreshInv
<1>1. Init => FreshInv
  <2> USE NumbersAssumption DEF Init
  <2>1. Init => UpMonotone
    BY DEF UpMonotone
  <2>2. Init => Stamps
    BY DEF Stamps, Never, Pulling
  <2>3. Init => PullFresh /\ MirrorFresh
    BY DEF PullFresh, MirrorFresh, Reading
  <2>4. Init => OwedOld /\ OwedPull /\ OwedServe /\ Fresh
    BY DEF OwedOld, OwedPull, OwedServe, Fresh, Reading, Requests
  <2>5. QED
    BY <2>1, <2>2, <2>3, <2>4 DEF FreshInv
<1>2. TypeOK /\ TypeOK' /\ Locked /\ Whole /\ FreshInv /\ [Next]_vars
        => FreshInv'
  BY NextUpMonotone, NextStamps, NextPullFresh, NextMirrorFresh, NextOwedOld,
     NextOwedPull, NextOwedServe, NextFresh DEF FreshInv
<1>3. QED
  BY <1>1, <1>2, TypeCorrect, LockCorrect, WholeCorrect, PTL DEF Spec

(* The refs an info/refs answer shows are no older than fetch_ttl before   *)
(* the request arrived, however long it queued, whoever pulled for it and  *)
(* whatever was dropped, retried, evicted or restarted meanwhile, as long  *)
(* as no blocking-pool operation outlives its request.                     *)
THEOREM AnswersAreFresh == ASSUME "late" \notin Faults PROVE Spec => []Fresh
<1>1. FreshInv => Fresh
  BY DEF FreshInv
<1>2. QED
  BY <1>1, FreshCorrect, PTL

-----------------------------------------------------------------------------
(***************************************************************************)
(* Who goes without an answer.  Without a size cap a mirror that is there  *)
(* stays there: fetches, killed ones too, move it on, and a rename needs   *)
(* an absent one.                                                          *)
(***************************************************************************)
Kept ==
    /\ evictor = "idle"
    /\ \A r \in Requests :
         /\ pc[r] \in {"fetch", "fetching", "fetch_backoff", "wants",
                       "serve"} => mirror # Absent
         /\ pc[r] # "unserved"

(* No step takes the mirror from a request that is to be served from it.   *)
LEMMA NextKept ==
    ASSUME "evict" \notin Faults
    PROVE  TypeOK /\ Kept /\ [Next]_vars => Kept'
<1> SUFFICES ASSUME TypeOK, Kept, [Next]_vars PROVE Kept'
  OBVIOUS
<1> USE DEF Kept, PcStates, Holding, Pulling, Results, Half, Absent,
            world, slot, disk, request, history
<1>1. CASE Tick
  BY <1>1 DEF Tick
<1>2. CASE Push
  BY <1>2 DEF Push
<1>3. ASSUME NEW r \in Requests, Arrive(r) PROVE Kept'
  BY <1>3, GotoFacts DEF Arrive
<1>4. ASSUME NEW r \in Requests, Acquire(r) PROVE Kept'
  BY <1>4 DEF TypeOK, Goto, Acquire
<1>5. ASSUME NEW r \in Requests, CleanStaging(r) PROVE Kept'
  BY <1>5, GotoFacts DEF CleanStaging, BadGateway
<1>6. ASSUME NEW r \in Requests, CloneReads(r) PROVE Kept'
  BY <1>6, GotoFacts DEF CloneReads
<1>7. ASSUME NEW r \in Requests, CloneExits(r) PROVE Kept'
  BY <1>7, GotoFacts DEF CloneExits
<1>8. ASSUME NEW r \in Requests, CloneFails(r) PROVE Kept'
  BY <1>8, GotoFacts DEF CloneFails
<1>9. ASSUME NEW r \in Requests, WipeStaging(r) PROVE Kept'
  BY <1>9, GotoFacts DEF WipeStaging, RetryOrBail, BadGateway
<1>10. ASSUME NEW r \in Requests, Retry(r) PROVE Kept'
  BY <1>10, GotoFacts DEF Retry
<1>11. ASSUME NEW r \in Requests, RenameIntoPlace(r) PROVE Kept'
  BY <1>11, GotoFacts
     DEF RenameIntoPlace, PullDone, BadGateway, MoveStaging, CanRename
<1>12. ASSUME NEW r \in Requests, FetchReads(r) PROVE Kept'
  BY <1>12, GotoFacts DEF FetchReads
<1>13. ASSUME NEW r \in Requests, FetchExits(r) PROVE Kept'
  <2>1. mirror' # Absent
    BY <1>13 DEF TypeOK, FetchExits
  <2> QED
    BY <1>13, <2>1, GotoFacts DEF FetchExits, PullDone
<1>14. ASSUME NEW r \in Requests, FetchFails(r) PROVE Kept'
  <2>1. mirror' # Absent
    BY <1>14, PartlyFacts DEF FetchFails
  <2> QED
    BY <1>14, <2>1, GotoFacts DEF FetchFails, RetryOrBail, BadGateway
<1>15. ASSUME NEW r \in Requests, EnsureWantedOids(r) PROVE Kept'
  BY <1>15, GotoFacts DEF EnsureWantedOids
<1>16. ASSUME NEW r \in Requests, Serve(r) PROVE Kept'
  BY <1>16, GotoFacts DEF Serve
<1>17. ASSUME NEW r \in Requests, Drop(r) PROVE Kept'
  <2>1. mirror # Absent => mirror' # Absent
    <3>1. CASE pc[r] = "fetching" /\ KillFetch(r)
      BY <3>1, PartlyFacts DEF KillFetch
    <3>2. CASE CanRename \/ mirror' = mirror
      BY <3>2 DEF CanRename
    <3> QED
      BY <1>17, <3>1, <3>2 DEF Drop, LeaveBehind
  <2> QED
    BY <1>17, <2>1, GotoFacts DEF Drop
<1>18. CASE LateClean
  BY <1>18 DEF LateClean
<1>19. CASE LateRename
  BY <1>19 DEF LateRename, MoveStaging, CanRename
<1>20. CASE EvictBegin
  BY <1>20 DEF EvictBegin
<1>21. CASE EvictLock
  BY <1>21 DEF EvictLock
<1>22. CASE EvictClear
  BY <1>22 DEF EvictClear
<1>23. CASE EvictRename
  BY <1>23 DEF EvictRename
<1>24. CASE EvictEnd
  BY <1>24 DEF EvictEnd
<1>25. CASE Crash
  BY <1>25 DEF TypeOK, Crash
<1>26. CASE UNCHANGED vars
  BY <1>26 DEF vars
<1> QED
  BY <1>1, <1>2, <1>3, <1>4, <1>5, <1>6, <1>7, <1>8, <1>9, <1>10, <1>11,
     <1>12, <1>13, <1>14, <1>15, <1>16, <1>17, <1>18, <1>19, <1>20, <1>21,
     <1>22, <1>23, <1>24, <1>25, <1>26
     DEF Next, Proceed, Evict

(* "Never a correctness concern" is true of a cache without a size cap: no *)
(* request finds its mirror gone, whatever fails, is dropped or comes late.*)
THEOREM UnevictedAreServed ==
    ASSUME "evict" \notin Faults PROVE Spec => []EvictionHarmless
<1>1. Init => Kept
  BY DEF Init, Kept
<1>2. Kept => EvictionHarmless
  BY DEF Kept, EvictionHarmless
<1> QED
  BY <1>1, <1>2, NextKept, TypeCorrect, PTL DEF Spec

-----------------------------------------------------------------------------
(***************************************************************************)
(* With an upstream and a disk that never fail, and nothing left on the    *)
(* blocking pool, a clone always succeeds.                                 *)
(***************************************************************************)
Healthy ==
    \A r \in Requests :
      /\ pc[r] \notin {"wipe", "clone_backoff", "fetch_backoff"}
      /\ pc[r] \in {"clean", "clone", "cloning", "rename"} => mirror = Absent
      /\ pc[r] = "cloning" => staging = Half

(* What drops and restarts leave behind does not disturb the next clone.   *)
LEMMA NextHealthy ==
    ASSUME Faults \cap {"upstream", "disk", "late"} = {}
    PROVE  TypeOK /\ Locked /\ Whole /\ CloneStartsClean /\ Healthy /\ [Next]_vars
             => Healthy'
<1> SUFFICES ASSUME TypeOK, Locked, Whole, CloneStartsClean, Healthy, [Next]_vars
             PROVE  Healthy'
  OBVIOUS
<1> USE DEF Locked, Whole, CloneStartsClean, Healthy, PcStates,
            Holding, Pulling, Results, Half, Absent, world, slot, disk, request, history
<1>1. CASE Tick
  BY <1>1 DEF Tick
<1>2. CASE Push
  BY <1>2 DEF Push
<1>3. ASSUME NEW r \in Requests, Arrive(r) PROVE Healthy'
  BY <1>3, GotoFacts DEF Arrive
<1>4. ASSUME NEW r \in Requests, Acquire(r) PROVE Healthy'
  BY <1>4 DEF TypeOK, Goto, Acquire
<1>5. ASSUME NEW r \in Requests, CleanStaging(r) PROVE Healthy'
  BY <1>5, GotoFacts DEF CleanStaging, BadGateway
<1>6. ASSUME NEW r \in Requests, CloneReads(r) PROVE Healthy'
  BY <1>6, GotoFacts DEF CloneReads
<1>7. ASSUME NEW r \in Requests, CloneExits(r) PROVE Healthy'
  BY <1>7, GotoFacts DEF CloneExits
<1>8. ASSUME NEW r \in Requests, CloneFails(r) PROVE Healthy'
  BY <1>8, GotoFacts DEF CloneFails
<1>9. ASSUME NEW r \in Requests, WipeStaging(r) PROVE Healthy'
  BY <1>9, GotoFacts DEF WipeStaging, RetryOrBail, BadGateway
<1>10. ASSUME NEW r \in Requests, Retry(r) PROVE Healthy'
  BY <1>10, GotoFacts DEF Retry
<1>11. ASSUME NEW r \in Requests, RenameIntoPlace(r) PROVE Healthy'
  BY <1>11, GotoFacts
     DEF RenameIntoPlace, PullDone, BadGateway, MoveStaging, CanRename
<1>12. ASSUME NEW r \in Requests, FetchReads(r) PROVE Healthy'
  BY <1>12, GotoFacts DEF FetchReads
<1>13. ASSUME NEW r \in Requests, FetchExits(r) PROVE Healthy'
  BY <1>13, GotoFacts DEF FetchExits, PullDone
<1>14. ASSUME NEW r \in Requests, FetchFails(r) PROVE Healthy'
  BY <1>14, GotoFacts DEF FetchFails, RetryOrBail, BadGateway
<1>15. ASSUME NEW r \in Requests, EnsureWantedOids(r) PROVE Healthy'
  BY <1>15, GotoFacts DEF EnsureWantedOids
<1>16. ASSUME NEW r \in Requests, Serve(r) PROVE Healthy'
  BY <1>16, GotoFacts DEF Serve
<1>17. ASSUME NEW r \in Requests, Drop(r) PROVE Healthy'
  BY <1>17, GotoFacts DEF Drop, KillFetch, LeaveBehind, MoveStaging, CanRename
<1>18. CASE LateClean
  BY <1>18 DEF LateClean
<1>19. CASE LateRename
  BY <1>19 DEF LateRename, MoveStaging, CanRename
<1>20. CASE EvictBegin
  BY <1>20 DEF EvictBegin
<1>21. CASE EvictLock
  BY <1>21 DEF EvictLock
<1>22. CASE EvictClear
  BY <1>22 DEF EvictClear
<1>23. CASE EvictRename
  BY <1>23, RequestsAssumption DEF EvictRename
<1>24. CASE EvictEnd
  BY <1>24 DEF EvictEnd
<1>25. CASE Crash
  BY <1>25 DEF TypeOK, Crash
<1>26. CASE UNCHANGED vars
  BY <1>26 DEF vars
<1> QED
  BY <1>1, <1>2, <1>3, <1>4, <1>5, <1>6, <1>7, <1>8, <1>9, <1>10, <1>11,
     <1>12, <1>13, <1>14, <1>15, <1>16, <1>17, <1>18, <1>19, <1>20, <1>21,
     <1>22, <1>23, <1>24, <1>25, <1>26
     DEF Next, Proceed, Evict

(* A request that is answered 502 has met a ref's .lock file in its way.   *)
LocksAlone ==
    [][\A r \in Requests :
         pc[r] # "bad_gateway" /\ pc'[r] = "bad_gateway" => Blocked(r)]_vars

(* How far "self-managing" holds: with an upstream and a disk that never   *)
(* fail, requests dropped, mirrors evicted and restarts make no later      *)
(* request fail, but for the .lock file of a fetch that was killed.        *)
THEOREM OnlyLocksFail ==
    ASSUME Faults \cap {"upstream", "disk", "late"} = {} PROVE Spec => LocksAlone
<1> DEFINE Met == \A r \in Requests :
                    pc[r] # "bad_gateway" /\ pc'[r] = "bad_gateway" => Blocked(r)
<1>0. Spec => []Whole
  <2>1. "late" \notin Faults
    OBVIOUS
  <2> QED
    BY <2>1, WholeCorrect
<1>1. Init => Healthy
  BY DEF Init, Healthy
<1>2. Spec => []Healthy
  BY <1>0, <1>1, NextHealthy, TypeCorrect, LockCorrect, ClonesStartClean, PTL
     DEF Spec
<1>3. ASSUME TypeOK, Whole, Healthy, [Next]_vars PROVE Met
  <2> USE <1>3 DEF Whole, Healthy, PcStates, Holding, Pulling, Results, Half,
              Absent, world, slot, disk, request, history
  <2>1. CASE Tick
    BY <2>1 DEF Tick
  <2>2. CASE Push
    BY <2>2 DEF Push
  <2>3. ASSUME NEW r \in Requests, Arrive(r) PROVE Met
    BY <2>3, GotoFacts DEF Arrive
  <2>4. ASSUME NEW r \in Requests, Acquire(r) PROVE Met
    BY <2>4 DEF TypeOK, Goto, Acquire
  <2>5. ASSUME NEW r \in Requests, CleanStaging(r) PROVE Met
    BY <2>5, GotoFacts DEF CleanStaging, BadGateway
  <2>6. ASSUME NEW r \in Requests, CloneReads(r) PROVE Met
    BY <2>6, GotoFacts DEF CloneReads
  <2>7. ASSUME NEW r \in Requests, CloneExits(r) PROVE Met
    BY <2>7, GotoFacts DEF CloneExits
  <2>8. ASSUME NEW r \in Requests, CloneFails(r) PROVE Met
    BY <2>8, GotoFacts DEF CloneFails
  <2>9. ASSUME NEW r \in Requests, WipeStaging(r) PROVE Met
    BY <2>9, GotoFacts DEF WipeStaging, RetryOrBail, BadGateway
  <2>10. ASSUME NEW r \in Requests, Retry(r) PROVE Met
    BY <2>10, GotoFacts DEF Retry
  <2>11. ASSUME NEW r \in Requests, RenameIntoPlace(r) PROVE Met
    <3>1. CanRename
      BY <2>11 DEF TypeOK, RenameIntoPlace, CanRename
    <3> QED
      BY <2>11, <3>1, GotoFacts DEF RenameIntoPlace, PullDone
  <2>12. ASSUME NEW r \in Requests, FetchReads(r) PROVE Met
    BY <2>12, GotoFacts DEF FetchReads
  <2>13. ASSUME NEW r \in Requests, FetchExits(r) PROVE Met
    BY <2>13, GotoFacts DEF FetchExits, PullDone
  <2>14. ASSUME NEW r \in Requests, FetchFails(r) PROVE Met
    <3>1. Blocked(r)
      BY <2>14 DEF FetchFails, MirrorWhole
    <3> QED
      BY <2>14, <3>1, GotoFacts DEF FetchFails, RetryOrBail, BadGateway
  <2>15. ASSUME NEW r \in Requests, EnsureWantedOids(r) PROVE Met
    BY <2>15, GotoFacts DEF EnsureWantedOids
  <2>16. ASSUME NEW r \in Requests, Serve(r) PROVE Met
    BY <2>16, GotoFacts DEF Serve
  <2>17. ASSUME NEW r \in Requests, Drop(r) PROVE Met
    BY <2>17, GotoFacts
       DEF Drop, KillFetch, LeaveBehind, MoveStaging, CanRename
  <2>18. CASE LateClean
    BY <2>18 DEF LateClean
  <2>19. CASE LateRename
    BY <2>19 DEF LateRename, MoveStaging, CanRename
  <2>20. CASE EvictBegin
    BY <2>20 DEF EvictBegin
  <2>21. CASE EvictLock
    BY <2>21 DEF EvictLock
  <2>22. CASE EvictClear
    BY <2>22 DEF EvictClear
  <2>23. CASE EvictRename
    BY <2>23 DEF EvictRename
  <2>24. CASE EvictEnd
    BY <2>24 DEF EvictEnd
  <2>25. CASE Crash
    BY <2>25 DEF TypeOK, Crash
  <2>26. CASE UNCHANGED vars
    BY <2>26 DEF vars
  <2> QED
      BY <2>1, <2>2, <2>3, <2>4, <2>5, <2>6, <2>7, <2>8, <2>9, <2>10, <2>11,
       <2>12, <2>13, <2>14, <2>15, <2>16, <2>17, <2>18, <2>19, <2>20, <2>21,
       <2>22, <2>23, <2>24, <2>25, <2>26
       DEF Next, Proceed, Evict
<1>4. Spec => [][Met]_vars
  BY <1>0, <1>2, <1>3, TypeCorrect, PTL DEF Spec
<1> QED
  BY <1>4 DEF LocksAlone

=============================================================================
