----------------------- MODULE MirrorRefinementProofs -----------------------
(***************************************************************************)
(* Proof that MirrorCache implements BoundedStaleness, for any number of   *)
(* requests, any fetch_ttl and retry limit and any bounds on time and      *)
(* pushes, as long as no blocking-pool operation outlives its request.     *)
(***************************************************************************)
EXTENDS MirrorRefinement, MirrorCacheProofs

Failed  == {"bad_gateway", "unserved", "dropped"}
Waiting == PcStates \ ({"new", "ok"} \cup Failed)

(* What the client of a request at each place sees.                        *)
LEMMA StatusFacts ==
    /\ Status("new") = "new" /\ Status("ok") = "ok"
    /\ \A l \in Failed : Status(l) = "failed"
    /\ \A l \in Waiting : Status(l) = "waiting"
BY DEF Status, Failed, Waiting, Results, PcStates, Holding, Pulling

(* A step after which every client sees what it saw, or is sent away, and  *)
(* the mirror is what it was or has advanced, is one that the promise      *)
(* allows.                                                                 *)
Quiet ==
    /\ UNCHANGED <<clock, upAt, owed, shown>>
    /\ \A q \in InfoRefs :
         \/ Status(pc'[q]) = Status(pc[q])
         \/ Status(pc[q]) = "waiting" /\ Status(pc'[q]) = "failed"

LEMMA QuietAllowed ==
    ASSUME Quiet, mirror' \in Cache!Advances \cup {mirror}
    PROVE  Cache!Next
<1> DEFINE S == {q \in InfoRefs : /\ Status(pc[q]) = "waiting"
                                  /\ Status(pc'[q]) = "failed"}
<1>1. Cache!GiveUp(S)
  BY DEF Cache!GiveUp, Quiet
<1>2. S \in SUBSET InfoRefs
  OBVIOUS
<1> QED
  BY <1>1, <1>2 DEF Cache!Next

(* What a request at work does, short of an answer, its client sees as     *)
(* waiting, or as the end of it.                                           *)
LEMMA GotoQuiet ==
    ASSUME TypeOK, NEW r \in Requests, pc[r] \in Waiting,
           NEW l \in Waiting \cup Failed, Goto(r, l),
           UNCHANGED <<clock, upAt, owed, shown>>
    PROVE  Quiet
<1>1. l \in PcStates
  BY DEF Waiting, Failed, PcStates, Results
<1>2. /\ pc'[r] = l /\ \A q \in Requests : q # r => pc'[q] = pc[q]
  BY <1>1, GotoFacts
<1>3. /\ Status(pc[r]) = "waiting"
      /\ Status(pc'[r]) = "waiting" \/ Status(pc'[r]) = "failed"
  BY <1>2, StatusFacts
<1>4. InfoRefs \subseteq Requests
  BY DEF Requests
<1> QED
  BY <1>2, <1>3, <1>4 DEF Quiet

(* A step that leaves the requests alone.                                  *)
LEMMA PcQuiet ==
    ASSUME UNCHANGED <<clock, upAt, owed, shown, pc>> PROVE Quiet
BY DEF Quiet

(* A mirror that is still there after a step has not gone back, and holds  *)
(* no more than the upstream.                                              *)
LEMMA MirrorAdvances ==
    ASSUME TypeOK, Whole, FreshInv, [Next]_vars,
           mirror' = mirror \/ mirror' # Absent
    PROVE  mirror' \in Cache!Advances \cup {mirror}
<1> USE NumbersAssumption DEF Absent, Cache!Absent
<1>1. upAt[clock] \in 0..MaxPush /\ mirror \in -2..MaxPush
      /\ \A q \in Requests : got[q] \in 0..MaxPush
  BY Numbers
<1>2. ASSUME NEW q \in Requests, pc[q] \in {"rename", "fetching"}
      PROVE  got[q] <= upAt[clock] /\ (pc[q] = "fetching" => mirror <= got[q])
  BY <1>2 DEF FreshInv, PullFresh, Reading
<1>3. ASSUME NEW v \in 0..upAt[clock], mirror = Absent \/ mirror <= v
      PROVE  v \in Cache!Advances
  BY <1>1, <1>3 DEF Cache!Advances, Cache!upstream
<1>4. ASSUME NEW q \in Requests, pc[q] \in {"rename", "fetching"},
             pc[q] = "rename" => mirror = Absent, mirror' = got[q]
      PROVE  mirror' \in Cache!Advances
  BY <1>1, <1>2, <1>3, <1>4
<1>5. ASSUME NEW q \in Requests, pc[q] = "fetching", mirror' \in 0..MaxPush,
             mirror <= mirror', mirror' <= got[q]
      PROVE  mirror' \in Cache!Advances
  BY <1>1, <1>2, <1>3, <1>5
<1> QED
  BY <1>4, <1>5, MirrorFrame DEF MirrorSteps

-----------------------------------------------------------------------------
(* Every step of a request under the lock is quiet.                        *)
LEMMA RequestQuiet ==
    ASSUME TypeOK, NEW r \in Requests,
           \/ Acquire(r) \/ CleanStaging(r) \/ CloneReads(r) \/ CloneExits(r)
           \/ CloneFails(r) \/ WipeStaging(r) \/ Retry(r) \/ RenameIntoPlace(r)
           \/ FetchReads(r) \/ FetchExits(r) \/ FetchFails(r) \/ EnsureWantedOids(r)
    PROVE  Quiet
<1> USE DEF Waiting, Failed, PcStates, Holding, Pulling, Results, world, history
<1>1. CASE Acquire(r)
  <2>1. \E l \in {"clean", "fetch", "wants"} : Goto(r, l)
    BY <1>1 DEF Acquire
  <2> QED
    BY <1>1, <2>1, GotoQuiet DEF Acquire
<1>2. CASE CleanStaging(r)
  BY <1>2, GotoQuiet DEF CleanStaging, BadGateway
<1>3. CASE CloneReads(r)
  BY <1>3, GotoQuiet DEF CloneReads
<1>4. CASE CloneExits(r)
  BY <1>4, GotoQuiet DEF CloneExits
<1>5. CASE CloneFails(r)
  BY <1>5, GotoQuiet DEF CloneFails
<1>6. CASE WipeStaging(r)
  BY <1>6, GotoQuiet DEF WipeStaging, RetryOrBail, BadGateway
<1>7. CASE Retry(r)
  BY <1>7, GotoQuiet DEF Retry
<1>8. CASE RenameIntoPlace(r)
  BY <1>8, GotoQuiet DEF RenameIntoPlace, MoveStaging, PullDone, BadGateway
<1>9. CASE FetchReads(r)
  BY <1>9, GotoQuiet DEF FetchReads
<1>10. CASE FetchExits(r)
  BY <1>10, GotoQuiet DEF FetchExits, PullDone
<1>11. CASE FetchFails(r)
  BY <1>11, GotoQuiet DEF FetchFails, RetryOrBail, BadGateway
<1>12. CASE EnsureWantedOids(r)
  BY <1>12, GotoQuiet DEF EnsureWantedOids
<1> QED
  BY <1>1, <1>2, <1>3, <1>4, <1>5, <1>6, <1>7, <1>8, <1>9, <1>10, <1>11, <1>12

(* An answer shows a version between what is owed and what there is.       *)
LEMMA ServeAllowed ==
    ASSUME TypeOK, TypeOK', Locked, Whole, FreshInv, [Next]_vars,
           NEW r \in Requests, Serve(r)
    PROVE  Cache!Next
<1>1. /\ pc[r] = "serve" /\ UNCHANGED <<clock, upAt, mirror, owed>>
  BY DEF Serve, world, disk
<1>2. pc[r] \in Waiting /\ Status(pc[r]) = "waiting"
  BY <1>1, StatusFacts DEF Waiting, Failed, PcStates
<1>3. CASE mirror = Absent
  <2>1. Goto(r, "unserved") /\ UNCHANGED shown
    BY <1>3 DEF Serve
  <2>2. Quiet
    BY <1>1, <1>2, <2>1, GotoQuiet DEF Failed
  <2> QED
    BY <1>1, <2>2, QuietAllowed
<1>4. CASE mirror # Absent
  <2>1. Goto(r, "ok")
    BY <1>4 DEF Serve
  <2>2. PICK v : shown' = [q \in InfoRefs |-> IF q = r THEN v ELSE shown[q]]
    BY <1>4 DEF Serve
  <2>3. pc'[r] = "ok" /\ \A q \in Requests : q # r => pc'[q] = pc[q]
    BY <2>1, GotoFacts DEF PcStates, Results
  <2>4. CASE r \in InfoRefs
    <3>1. shown'[r] = v
      BY <2>2, <2>4
    <3>2. owed[r] <= v
      BY <1>1, <2>3, <2>4, <3>1, NextFresh DEF Fresh
    <3>3. v <= upAt[clock] /\ v \in Int
      <4>1. CASE v = mirror
        BY <1>4, <4>1, Numbers DEF FreshInv, MirrorFresh
      <4>2. ASSUME NEW p \in Requests, pc[p] = "fetching", v \in Partly(p)
            PROVE  v <= upAt[clock] /\ v \in Int
        <5>1. v \in 0..MaxPush /\ v <= got[p]
          BY <1>4, <4>2, PartlyNotHalf DEF Whole
        <5>2. got[p] <= upAt[clock]
          BY <4>2 DEF FreshInv, PullFresh, Reading
        <5> QED
          BY <5>1, <5>2, Numbers, NumbersAssumption
      <4> QED
        BY <1>1, <2>3, <2>4, <3>1, <4>1, <4>2, OkFrame
    <3>4. v \in owed[r]..Cache!upstream
      BY <2>4, <3>2, <3>3, Numbers DEF Cache!upstream
    <3>5. shown' = [shown EXCEPT ![r] = v]
      BY <2>2 DEF TypeOK
    <3>6. [q \in InfoRefs |-> Status(pc'[q])]
            = [[q \in InfoRefs |-> Status(pc[q])] EXCEPT ![r] = "ok"]
      <4>1. Status(pc'[r]) = "ok"
        BY <2>3, StatusFacts
      <4>2. \A q \in InfoRefs : q # r => Status(pc'[q]) = Status(pc[q])
        BY <2>3 DEF Requests
      <4> QED
        BY <4>1, <4>2
    <3>7. mirror # Cache!Absent
      BY <1>4 DEF Absent, Cache!Absent
    <3>8. Cache!Answer(r)
      BY <1>1, <1>2, <2>4, <3>4, <3>5, <3>6, <3>7 DEF Cache!Answer
    <3> QED
      BY <2>4, <3>8 DEF Cache!Next
  <2>5. CASE r \notin InfoRefs
    <3>1. shown' = shown
      BY <2>2, <2>5 DEF TypeOK
    <3>2. Quiet
      BY <1>1, <2>3, <2>5, <3>1 DEF Quiet, Requests
    <3> QED
      BY <1>1, <3>2, QuietAllowed
  <2> QED
    BY <2>4, <2>5
<1> QED
  BY <1>3, <1>4

(* An arrival fixes what its client is owed; that of an upload-pack is not *)
(* seen.                                                                   *)
LEMMA ArriveAllowed ==
    ASSUME TypeOK, NEW r \in Requests, Arrive(r) PROVE Cache!Next
<1>1. /\ pc[r] = "new" /\ Goto(r, "queued")
      /\ owed' = [q \in InfoRefs |-> IF q = r /\ clock >= Ttl
                                     THEN upAt[clock - Ttl] ELSE owed[q]]
      /\ UNCHANGED <<clock, upAt, mirror, shown>>
  BY DEF Arrive, world, disk
<1>2. pc'[r] = "queued" /\ \A q \in Requests : q # r => pc'[q] = pc[q]
  BY <1>1, GotoFacts DEF PcStates
<1>3. CASE r \in InfoRefs
  <2>1. owed' = [owed EXCEPT ![r] = IF clock >= Ttl THEN upAt[clock - Ttl] ELSE @]
    BY <1>1 DEF TypeOK
  <2>2. [q \in InfoRefs |-> Status(pc'[q])]
          = [[q \in InfoRefs |-> Status(pc[q])] EXCEPT ![r] = "waiting"]
    <3>1. Status(pc'[r]) = "waiting"
      BY <1>2, StatusFacts DEF Waiting, Failed, PcStates
    <3>2. \A q \in InfoRefs : q # r => Status(pc'[q]) = Status(pc[q])
      BY <1>2 DEF Requests
    <3> QED
      BY <3>1, <3>2
  <2>3. Status(pc[r]) = "new"
    BY <1>1, StatusFacts
  <2>4. Cache!Ask(r)
    BY <1>1, <1>3, <2>1, <2>2, <2>3 DEF Cache!Ask
  <2> QED
    BY <1>3, <2>4 DEF Cache!Next
<1>4. CASE r \notin InfoRefs
  <2>1. owed' = owed
    BY <1>1, <1>4 DEF TypeOK
  <2>2. Quiet
    BY <1>1, <1>2, <1>4, <2>1 DEF Quiet, Requests
  <2> QED
    BY <1>1, <2>2, QuietAllowed
<1> QED
  BY <1>3, <1>4

(* Every step of MirrorCache is one that the promise allows, or one that   *)
(* its clients do not see.                                                 *)
LEMMA StepAllowed ==
    ASSUME TypeOK, TypeOK', Locked, Whole, Whole', FreshInv, [Next]_vars
    PROVE  [Cache!Next]_(Cache!vars)
<1> USE DEF world, disk, history
<1>1. ASSUME Quiet, mirror' = mirror \/ mirror' # Absent PROVE Cache!Next
  BY <1>1, MirrorAdvances, QuietAllowed
<1>2. CASE Tick
  <2>1. Cache!Tick
    BY <1>2 DEF Tick, Cache!Tick
  <2> QED
    BY <2>1 DEF Cache!Next
<1>3. CASE Push
  <2>1. Cache!Push
    BY <1>3 DEF Push, upstream, Cache!Push, Cache!upstream
  <2> QED
    BY <2>1 DEF Cache!Next
<1>4. ASSUME NEW r \in Requests, Arrive(r) PROVE Cache!Next
  BY <1>4, ArriveAllowed
<1>5. ASSUME NEW r \in Requests,
             \/ Acquire(r) \/ CleanStaging(r) \/ CloneReads(r) \/ CloneExits(r)
             \/ CloneFails(r) \/ WipeStaging(r) \/ Retry(r) \/ FetchReads(r)
             \/ EnsureWantedOids(r)
      PROVE  Cache!Next
  <2>1. mirror' = mirror
    BY <1>5 DEF Acquire, CleanStaging, CloneReads, CloneExits, CloneFails,
                WipeStaging, Retry, FetchReads, EnsureWantedOids
  <2> QED
    BY <1>1, <1>5, <2>1, RequestQuiet
<1>6. ASSUME NEW r \in Requests, RenameIntoPlace(r) PROVE Cache!Next
  <2>1. mirror' = mirror \/ mirror' # Absent
    BY <1>6 DEF RenameIntoPlace, CanRename, MoveStaging
  <2> QED
    BY <1>1, <1>6, <2>1, RequestQuiet
<1>7. ASSUME NEW r \in Requests, FetchExits(r) PROVE Cache!Next
  <2>1. mirror' # Absent
    BY <1>7, Numbers DEF FetchExits, Absent
  <2> QED
    BY <1>1, <1>7, <2>1, RequestQuiet
<1>8. ASSUME NEW r \in Requests, pc[r] = "fetching", NEW v \in Partly(r)
      PROVE  v # Absent
  <2>1. mirror # Absent /\ MirrorWhole
    BY <1>8 DEF Whole
  <2> QED
    BY <1>8, <2>1, PartlyNotHalf DEF Absent
<1>9. ASSUME NEW r \in Requests, FetchFails(r) PROVE Cache!Next
  <2>1. mirror' = mirror \/ mirror' # Absent
    BY <1>8, <1>9 DEF FetchFails
  <2> QED
    BY <1>1, <1>9, <2>1, RequestQuiet
<1>10. ASSUME NEW r \in Requests, Serve(r) PROVE Cache!Next
  BY <1>10, ServeAllowed
<1>11. ASSUME NEW r \in Requests, Drop(r) PROVE Cache!Next
  <2>1. pc[r] \in Waiting
    BY <1>11 DEF Drop, TypeOK, Waiting, Failed, Results
  <2>2. Quiet
    BY <1>11, <2>1, GotoQuiet DEF Drop, Failed
  <2>3. mirror' = mirror \/ mirror' # Absent
    BY <1>8, <1>11 DEF Drop, KillFetch, LeaveBehind, CanRename, MoveStaging
  <2> QED
    BY <1>1, <2>2, <2>3
<1>12. CASE LateClean \/ LateRename
  BY <1>12 DEF LateClean, LateRename, Whole
<1>13. CASE EvictBegin \/ EvictLock \/ EvictClear \/ EvictEnd
  <2>1. UNCHANGED <<clock, upAt, owed, shown, pc, mirror>>
    BY <1>13 DEF EvictBegin, EvictLock, EvictClear, EvictEnd
  <2> QED
    BY <1>1, <2>1, PcQuiet
<1>14. CASE EvictRename
  <2>1. UNCHANGED <<clock, upAt, owed, shown, pc>>
    BY <1>14 DEF EvictRename
  <2>2. CASE mirror' = mirror
    BY <1>1, <2>1, <2>2, PcQuiet
  <2>3. CASE mirror' = Absent
    <3>1. Cache!Discard
      BY <2>1, <2>3 DEF Cache!Discard, Cache!Absent, Absent
    <3> QED
      BY <3>1 DEF Cache!Next
  <2> QED
    BY <1>14, <2>2, <2>3 DEF EvictRename
<1>15. CASE Crash
  <2>1. ASSUME NEW q \in InfoRefs
        PROVE  \/ Status(pc'[q]) = Status(pc[q])
               \/ Status(pc[q]) = "waiting" /\ Status(pc'[q]) = "failed"
    <3>1. q \in Requests /\ pc[q] \in PcStates
      BY DEF TypeOK, Requests
    <3>2. CASE pc[q] \in {"new"} \cup Results
      BY <1>15, <3>1, <3>2 DEF Crash
    <3>3. CASE pc[q] \notin {"new"} \cup Results
      <4>1. pc'[q] = "dropped"
        BY <1>15, <3>1, <3>3 DEF Crash
      <4>2. pc[q] \in Waiting
        BY <3>1, <3>3 DEF Waiting, Failed, Results
      <4> QED
        BY <4>1, <4>2, StatusFacts DEF Failed
    <3> QED
      BY <3>2, <3>3
  <2>2. Quiet
    BY <1>15, <2>1 DEF Crash, Quiet
  <2>3. mirror' = mirror \/ mirror' # Absent
    BY <1>8, <1>15 DEF Crash
  <2> QED
    BY <1>1, <2>2, <2>3
<1>16. CASE UNCHANGED vars
  <2>1. UNCHANGED <<clock, upAt, owed, shown, pc, mirror>>
    BY <1>16 DEF vars
  <2> QED
    BY <1>1, <2>1, PcQuiet
<1> QED
  BY <1>2, <1>3, <1>4, <1>5, <1>6, <1>7, <1>9, <1>10, <1>11, <1>12, <1>13,
     <1>14, <1>15, <1>16 DEF Next, Proceed, Evict

(* Whatever is interleaved, dropped, retried, evicted or crashed, what the *)
(* clients see of ensure_fresh and its callers is what the abstract cache  *)
(* allows: one whole copy that advances with the upstream, and answers     *)
(* that are at most fetch_ttl older than the question.                     *)
THEOREM PromiseKept == ASSUME "late" \notin Faults PROVE Spec => Promised
<1>1. Init => Cache!Init
  <2> SUFFICES ASSUME Init PROVE Cache!Init
    OBVIOUS
  <2>1. [r \in InfoRefs |-> Status(pc[r])] = [r \in InfoRefs |-> "new"]
    BY StatusFacts DEF Init, Requests
  <2> QED
    BY <2>1 DEF Init, Cache!Init, Absent, Cache!Absent
<1>2. TypeOK /\ TypeOK' /\ Locked /\ Whole /\ Whole' /\ FreshInv /\ [Next]_vars
        => [Cache!Next]_(Cache!vars)
  BY StepAllowed
<1> QED
  BY <1>1, <1>2, TypeCorrect, LockCorrect, WholeCorrect, FreshCorrect, PTL
     DEF Spec, Promised, Cache!Spec

=============================================================================
