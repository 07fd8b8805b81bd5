-------------------------- MODULE UploadPackProofs --------------------------
(***************************************************************************)
(* Proofs about UploadPack, for any requests and bodies, any limits, any   *)
(* capacity of the pipes and any faults.                                   *)
(***************************************************************************)
EXTENDS UploadPack, FiniteSetTheorems, TLAPS

-----------------------------------------------------------------------------
(* Types.                                                                  *)

(* A body that passes the decoder is the body that was sent.               *)
LEMMA DecodeWhole ==
    ASSUME NEW n \in Nat, ~(Decode(n) > MaxDecoded)
    PROVE  Decode(n) = n /\ n <= MaxDecoded
BY UploadPackAssumption DEF Decode

(* No step takes a variable out of its type: every write to a pipe finds   *)
(* room in it, every read something to take.                               *)
LEMMA NextType == TypeOK /\ [Next]_vars => TypeOK'
<1> SUFFICES ASSUME TypeOK, [Next]_vars PROVE TypeOK'
  OBVIOUS
<1> USE UploadPackAssumption DEF pipes, process, history, InHandler, Results
<1>1. ASSUME NEW r \in Requests, Enter(r) PROVE TypeOK'
  <2> DEFINE decoded == Decode(body[r].len)
  <2>1. body[r].len \in Nat
    BY DEF TypeOK
  <2>2. CASE decoded > MaxDecoded
    BY <1>1, <2>2 DEF TypeOK, Enter
  <2>3. CASE ~(decoded > MaxDecoded)
    <3>1. decoded = body[r].len
      BY <2>1, <2>3, DecodeWhole
    <3>2. /\ pc' = [pc EXCEPT ![r] = "permit"]
          /\ left' = [left EXCEPT ![r] = body[r].len]
          /\ UNCHANGED <<body, inq, outq, process, reaper, permits, history>>
      BY <1>1, <2>3, <3>1 DEF Enter
    <3>3. body[r].len \in 0..MaxDecoded
      BY <2>1, <2>3, DecodeWhole
    <3> QED
      BY <2>1, <3>2, <3>3 DEF TypeOK
  <2> QED
    BY <2>2, <2>3
<1>2. ASSUME NEW r \in Requests, Refuse(r) PROVE TypeOK'
  BY <1>2 DEF TypeOK, Refuse
<1>3. ASSUME NEW r \in Requests, Spawn(r) PROVE TypeOK'
  BY <1>3 DEF TypeOK, Spawn
<1>4. ASSUME NEW r \in Requests, SpawnFails(r) PROVE TypeOK'
  BY <1>4 DEF TypeOK, SpawnFails
<1>5. ASSUME NEW r \in Requests, Write(r) PROVE TypeOK'
  <2>1. left[r] - 1 \in 0..MaxDecoded /\ left[r] - 1 <= body[r].len
    BY <1>5 DEF TypeOK, Write
  <2>2. inq[r] + 1 \in 0..PipeCap
    BY <1>5 DEF TypeOK, Write
  <2> QED
    BY <1>5, <2>1, <2>2 DEF TypeOK, Write
<1>6. ASSUME NEW r \in Requests, WriteFails(r) PROVE TypeOK'
  BY <1>6 DEF TypeOK, WriteFails
<1>7. ASSUME NEW r \in Requests, StartStream(r) PROVE TypeOK'
  BY <1>7 DEF TypeOK, StartStream
<1>8. ASSUME NEW r \in Requests, Read(r) PROVE TypeOK'
  <2>1. outq[r] - 1 \in 0..PipeCap
    BY <1>8 DEF TypeOK, Read
  <2> QED
    BY <1>8, <2>1 DEF TypeOK, Read
<1>9. ASSUME NEW r \in Requests, Eof(r) PROVE TypeOK'
  BY <1>9 DEF TypeOK, Eof
<1>10. ASSUME NEW r \in Requests, ClientGone(r) PROVE TypeOK'
  BY <1>10 DEF TypeOK, ClientGone
<1>11. ASSUME NEW r \in Requests, ChildReads(r) PROVE TypeOK'
  <2>1. inq[r] - 1 \in 0..PipeCap
    BY <1>11 DEF TypeOK, ChildReads
  <2>2. outq' \in [Requests -> 0..PipeCap]
    <3>1. outq[r] < PipeCap => outq[r] + 1 \in 0..PipeCap
      BY DEF TypeOK
    <3> QED
      BY <1>11, <3>1 DEF TypeOK, ChildReads
  <2> QED
    BY <1>11, <2>1, <2>2 DEF TypeOK, ChildReads
<1>12. ASSUME NEW r \in Requests, ChildPacks(r) PROVE TypeOK'
  BY <1>12 DEF TypeOK, ChildPacks
<1>13. ASSUME NEW r \in Requests, HelperEnds(r) PROVE TypeOK'
  BY <1>13 DEF TypeOK, HelperEnds
<1>14. ASSUME NEW r \in Requests, ChildSends(r) PROVE TypeOK'
  <2>1. outq[r] + 1 \in 0..PipeCap /\ pack[r] - 1 \in 0..PackLen
    BY <1>14 DEF TypeOK, ChildSends
  <2> QED
    BY <1>14, <2>1 DEF TypeOK, ChildSends
<1>15. ASSUME NEW r \in Requests, ChildCloses(r) PROVE TypeOK'
  BY <1>15 DEF TypeOK, ChildCloses
<1>16. ASSUME NEW r \in Requests, Dies(r) PROVE TypeOK'
  BY <1>16 DEF TypeOK, Dies
<1>17. ASSUME NEW r \in Requests, Reap(r) PROVE TypeOK'
  BY <1>17 DEF TypeOK, Reap
<1>18. ASSUME NEW r \in Requests, Select(r) PROVE TypeOK'
  BY <1>18 DEF TypeOK, Select
<1>19. ASSUME NEW r \in Requests, Kill(r) PROVE TypeOK'
  <2>1. signal' \in [Requests -> {"none", "group", "leader"}]
    BY <1>19 DEF TypeOK, Kill
  <2>2. helper' \in [Requests -> {"none", "packing"}]
    BY <1>19 DEF TypeOK, Kill
  <2>3. refused' \subseteq Requests
    BY <1>19 DEF TypeOK, Kill
  <2> QED
    BY <1>19, <2>1, <2>2, <2>3 DEF TypeOK, Kill
<1>20. CASE UNCHANGED vars
  BY <1>20 DEF TypeOK, vars
<1> QED
  BY <1>1, <1>2, <1>3, <1>4, <1>5, <1>6, <1>7, <1>8, <1>9, <1>10, <1>11, <1>12,
     <1>13, <1>14, <1>15, <1>16, <1>17, <1>18, <1>19, <1>20
     DEF Next, Handler, Git, Reaper, ChildExits, ChildSigpipe, ChildFails

(* Every variable stays within its type; no pipe ever overflows, and what  *)
(* is written to git is within the decoding limit, and no more of the      *)
(* request than there is.                                                  *)
THEOREM TypeCorrect == Spec => []TypeOK
<1>1. Init => TypeOK
  BY UploadPackAssumption DEF Init, TypeOK
<1> QED
  BY <1>1, NextType, PTL DEF Spec

-----------------------------------------------------------------------------
(***************************************************************************)
(* The reaper is with the child from its spawn to its end, the child leads *)
(* its group, and only one whose stream was dropped is killed.             *)
(***************************************************************************)
Tended ==
    \A r \in Requests :
      /\ pc[r] \in {"new", "permit"} => child[r] = "none"
      /\ child[r] = "none" <=> reaper[r] = "none"
      /\ child[r] = "reaped" <=> reaper[r] = "done"
      /\ child[r] # "none" => r \in grouped
      /\ reaper[r] = "kill" => ServedDropped(r)
      /\ signal[r] # "none" => ServedDropped(r)

(* pack-objects runs for a child that runs, or the signal to its group was *)
(* refused: the kill reaches it, because Spawn has made the group.         *)
Helping ==
    \A r \in Requests :
      helper[r] = "packing" =>
        /\ job[r] = "packing"
        /\ child[r] = "running" \/ r \in refused

(* How far the request has come through decoder and pipe: the child does   *)
(* not go on to packing while stdin is open.                               *)
Passed ==
    \A r \in Requests :
      /\ pc[r] \in {"new", "permit", "writing"} => job[r] = "reading"
      /\ pc[r] \in {"permit", "writing", "streaming"} => body[r].len <= MaxDecoded
      /\ pc[r] = "streaming" => left[r] = 0
      /\ pc[r] = "streaming" /\ job[r] # "reading" => inq[r] = 0

(* No step takes the reaper away from its child.                           *)
LEMMA NextTended == TypeOK /\ Tended /\ [Next]_vars => Tended'
<1> SUFFICES ASSUME TypeOK, Tended, [Next]_vars PROVE Tended'
  OBVIOUS
<1> USE DEF pipes, process, history, InHandler, Results
<1>1. ASSUME NEW r \in Requests, Enter(r) PROVE Tended'
  BY <1>1 DEF TypeOK, Tended, ServedDropped, Enter
<1>2. ASSUME NEW r \in Requests, Refuse(r) PROVE Tended'
  BY <1>2 DEF TypeOK, Tended, ServedDropped, Refuse
<1>3. ASSUME NEW r \in Requests, Spawn(r) PROVE Tended'
  BY <1>3 DEF TypeOK, Tended, ServedDropped, Spawn
<1>4. ASSUME NEW r \in Requests, SpawnFails(r) PROVE Tended'
  BY <1>4 DEF TypeOK, Tended, ServedDropped, SpawnFails
<1>5. ASSUME NEW r \in Requests, Write(r) PROVE Tended'
  BY <1>5 DEF TypeOK, Tended, ServedDropped, Write
<1>6. ASSUME NEW r \in Requests, WriteFails(r) PROVE Tended'
  BY <1>6 DEF TypeOK, Tended, ServedDropped, WriteFails
<1>7. ASSUME NEW r \in Requests, StartStream(r) PROVE Tended'
  BY <1>7 DEF TypeOK, Tended, ServedDropped, StartStream
<1>8. ASSUME NEW r \in Requests, Read(r) PROVE Tended'
  BY <1>8 DEF TypeOK, Tended, ServedDropped, Read
<1>9. ASSUME NEW r \in Requests, Eof(r) PROVE Tended'
  BY <1>9 DEF TypeOK, Tended, ServedDropped, Eof
<1>10. ASSUME NEW r \in Requests, ClientGone(r) PROVE Tended'
  BY <1>10 DEF TypeOK, Tended, ServedDropped, ClientGone
<1>11. ASSUME NEW r \in Requests, ChildReads(r) PROVE Tended'
  BY <1>11 DEF TypeOK, Tended, ServedDropped, ChildReads
<1>12. ASSUME NEW r \in Requests, ChildPacks(r) PROVE Tended'
  BY <1>12 DEF TypeOK, Tended, ServedDropped, ChildPacks
<1>13. ASSUME NEW r \in Requests, HelperEnds(r) PROVE Tended'
  BY <1>13 DEF TypeOK, Tended, ServedDropped, HelperEnds
<1>14. ASSUME NEW r \in Requests, ChildSends(r) PROVE Tended'
  BY <1>14 DEF TypeOK, Tended, ServedDropped, ChildSends
<1>15. ASSUME NEW r \in Requests, ChildCloses(r) PROVE Tended'
  BY <1>15 DEF TypeOK, Tended, ServedDropped, ChildCloses
<1>16. ASSUME NEW r \in Requests, child[r] = "running", Dies(r) PROVE Tended'
  BY <1>16 DEF TypeOK, Tended, ServedDropped, Dies
<1>17. ASSUME NEW r \in Requests, Reap(r) PROVE Tended'
  BY <1>17 DEF TypeOK, Tended, ServedDropped, Reap
<1>18. ASSUME NEW r \in Requests, Select(r) PROVE Tended'
  BY <1>18 DEF TypeOK, Tended, ServedDropped, ServedSent, Select
<1>19. ASSUME NEW r \in Requests, Kill(r) PROVE Tended'
  BY <1>19 DEF TypeOK, Tended, ServedDropped, Kill
<1>20. CASE UNCHANGED vars
  BY <1>20 DEF TypeOK, Tended, ServedDropped, vars
<1> QED
  BY <1>1, <1>2, <1>3, <1>4, <1>5, <1>6, <1>7, <1>8, <1>9, <1>10, <1>11, <1>12,
     <1>13, <1>14, <1>15, <1>16, <1>17, <1>18, <1>19, <1>20
     DEF Next, Handler, Git, Reaper, ChildExits, ChildSigpipe, ChildFails

(* No step leaves pack-objects behind, but a kill that fails.              *)
LEMMA NextHelping ==
    TypeOK /\ Tended /\ Helping /\ [Next]_vars => Helping'
<1> SUFFICES ASSUME TypeOK, Tended, Helping, [Next]_vars PROVE Helping'
  OBVIOUS
<1> USE DEF pipes, process, history, InHandler, Results
<1>1. ASSUME NEW r \in Requests, Enter(r) PROVE Helping'
  BY <1>1 DEF TypeOK, Tended, Helping, Enter
<1>2. ASSUME NEW r \in Requests, Refuse(r) PROVE Helping'
  BY <1>2 DEF TypeOK, Tended, Helping, Refuse
<1>3. ASSUME NEW r \in Requests, Spawn(r) PROVE Helping'
  BY <1>3 DEF TypeOK, Tended, Helping, Spawn
<1>4. ASSUME NEW r \in Requests, SpawnFails(r) PROVE Helping'
  BY <1>4 DEF TypeOK, Tended, Helping, SpawnFails
<1>5. ASSUME NEW r \in Requests, Write(r) PROVE Helping'
  BY <1>5 DEF TypeOK, Tended, Helping, Write
<1>6. ASSUME NEW r \in Requests, WriteFails(r) PROVE Helping'
  BY <1>6 DEF TypeOK, Tended, Helping, WriteFails
<1>7. ASSUME NEW r \in Requests, StartStream(r) PROVE Helping'
  BY <1>7 DEF TypeOK, Tended, Helping, StartStream
<1>8. ASSUME NEW r \in Requests, Read(r) PROVE Helping'
  BY <1>8 DEF TypeOK, Tended, Helping, Read
<1>9. ASSUME NEW r \in Requests, Eof(r) PROVE Helping'
  BY <1>9 DEF TypeOK, Tended, Helping, Eof
<1>10. ASSUME NEW r \in Requests, ClientGone(r) PROVE Helping'
  BY <1>10 DEF TypeOK, Tended, Helping, ClientGone
<1>11. ASSUME NEW r \in Requests, ChildReads(r) PROVE Helping'
  BY <1>11 DEF TypeOK, Tended, Helping, ChildReads
<1>12. ASSUME NEW r \in Requests, ChildPacks(r) PROVE Helping'
  BY <1>12 DEF TypeOK, Tended, Helping, ChildPacks
<1>13. ASSUME NEW r \in Requests, HelperEnds(r) PROVE Helping'
  BY <1>13 DEF TypeOK, Tended, Helping, HelperEnds
<1>14. ASSUME NEW r \in Requests, ChildSends(r) PROVE Helping'
  BY <1>14 DEF TypeOK, Tended, Helping, ChildSends
<1>15. ASSUME NEW r \in Requests, ChildCloses(r) PROVE Helping'
  BY <1>15 DEF TypeOK, Tended, Helping, ChildCloses
<1>16. ASSUME NEW r \in Requests, child[r] = "running", Dies(r) PROVE Helping'
  BY <1>16 DEF TypeOK, Tended, Helping, Dies
<1>17. ASSUME NEW r \in Requests, Reap(r) PROVE Helping'
  BY <1>17 DEF TypeOK, Tended, Helping, Reap
<1>18. ASSUME NEW r \in Requests, Select(r) PROVE Helping'
  BY <1>18 DEF TypeOK, Tended, Helping, Select
<1>19. ASSUME NEW r \in Requests, Kill(r) PROVE Helping'
  BY <1>19 DEF TypeOK, Tended, Helping, Kill
<1>20. CASE UNCHANGED vars
  BY <1>20 DEF TypeOK, Tended, Helping, vars
<1> QED
  BY <1>1, <1>2, <1>3, <1>4, <1>5, <1>6, <1>7, <1>8, <1>9, <1>10, <1>11, <1>12,
     <1>13, <1>14, <1>15, <1>16, <1>17, <1>18, <1>19, <1>20
     DEF Next, Handler, Git, Reaper, ChildExits, ChildSigpipe, ChildFails

(* No step cuts the request short.                                         *)
LEMMA NextPassed ==
    TypeOK /\ Tended /\ Helping /\ Passed /\ [Next]_vars => Passed'
<1> SUFFICES ASSUME TypeOK, Tended, Helping, Passed, [Next]_vars PROVE Passed'
  OBVIOUS
<1> USE UploadPackAssumption DEF pipes, process, history, InHandler, Results
<1>1. ASSUME NEW r \in Requests, Enter(r) PROVE Passed'
  BY <1>1 DEF TypeOK, Tended, Helping, Passed, Decode, Enter
<1>2. ASSUME NEW r \in Requests, Refuse(r) PROVE Passed'
  BY <1>2 DEF TypeOK, Tended, Helping, Passed, Refuse
<1>3. ASSUME NEW r \in Requests, Spawn(r) PROVE Passed'
  BY <1>3 DEF TypeOK, Tended, Helping, Passed, Spawn
<1>4. ASSUME NEW r \in Requests, SpawnFails(r) PROVE Passed'
  BY <1>4 DEF TypeOK, Tended, Helping, Passed, SpawnFails
<1>5. ASSUME NEW r \in Requests, Write(r) PROVE Passed'
  BY <1>5 DEF TypeOK, Tended, Helping, Passed, Write
<1>6. ASSUME NEW r \in Requests, WriteFails(r) PROVE Passed'
  BY <1>6 DEF TypeOK, Tended, Helping, Passed, WriteFails
<1>7. ASSUME NEW r \in Requests, StartStream(r) PROVE Passed'
  BY <1>7 DEF TypeOK, Tended, Helping, Passed, StartStream
<1>8. ASSUME NEW r \in Requests, Read(r) PROVE Passed'
  BY <1>8 DEF TypeOK, Tended, Helping, Passed, Read
<1>9. ASSUME NEW r \in Requests, Eof(r) PROVE Passed'
  BY <1>9 DEF TypeOK, Tended, Helping, Passed, Eof
<1>10. ASSUME NEW r \in Requests, ClientGone(r) PROVE Passed'
  BY <1>10 DEF TypeOK, Tended, Helping, Passed, ClientGone
<1>11. ASSUME NEW r \in Requests, ChildReads(r) PROVE Passed'
  BY <1>11 DEF TypeOK, Tended, Helping, Passed, ChildReads
<1>12. ASSUME NEW r \in Requests, ChildPacks(r) PROVE Passed'
  BY <1>12 DEF TypeOK, Tended, Helping, Passed, StdinOpen, ChildPacks
<1>13. ASSUME NEW r \in Requests, HelperEnds(r) PROVE Passed'
  BY <1>13 DEF TypeOK, Tended, Helping, Passed, HelperEnds
<1>14. ASSUME NEW r \in Requests, ChildSends(r) PROVE Passed'
  BY <1>14 DEF TypeOK, Tended, Helping, Passed, ChildSends
<1>15. ASSUME NEW r \in Requests, ChildCloses(r) PROVE Passed'
  BY <1>15 DEF TypeOK, Tended, Helping, Passed, ChildCloses
<1>16. ASSUME NEW r \in Requests, child[r] = "running", Dies(r) PROVE Passed'
  BY <1>16 DEF TypeOK, Tended, Helping, Passed, Dies
<1>17. ASSUME NEW r \in Requests, Reap(r) PROVE Passed'
  BY <1>17 DEF TypeOK, Tended, Helping, Passed, Reap
<1>18. ASSUME NEW r \in Requests, Select(r) PROVE Passed'
  BY <1>18 DEF TypeOK, Tended, Helping, Passed, Select
<1>19. ASSUME NEW r \in Requests, Kill(r) PROVE Passed'
  BY <1>19 DEF TypeOK, Tended, Helping, Passed, Kill
<1>20. CASE UNCHANGED vars
  BY <1>20 DEF TypeOK, Tended, Helping, Passed, vars
<1> QED
  BY <1>1, <1>2, <1>3, <1>4, <1>5, <1>6, <1>7, <1>8, <1>9, <1>10, <1>11, <1>12,
     <1>13, <1>14, <1>15, <1>16, <1>17, <1>18, <1>19, <1>20
     DEF Next, Handler, Git, Reaper, ChildExits, ChildSigpipe, ChildFails

(* Every child that is not reaped has a permit, and the semaphore keeps    *)
(* its count.                                                              *)
Counted ==
    /\ Unreaped \subseteq permits
    /\ IsFiniteSet(permits)
    /\ MaxUploadPacks > 0 => Cardinality(permits) <= MaxUploadPacks

(* Only Spawn, Reap and Kill have to do with who is counted.               *)
LEMMA CountFrame ==
    ASSUME TypeOK, Tended, [Next]_vars
    PROVE  \/ \E r \in Requests : Spawn(r)
           \/ \E r \in Requests : Reap(r)
           \/ Unreaped' = Unreaped /\ permits' = permits
<1> USE DEF pipes, process, history
<1>1. ASSUME NEW r \in Requests, child[r] \in {"running", "zombie"},
             child' = [child EXCEPT ![r] = "zombie"], UNCHANGED permits
      PROVE  Unreaped' = Unreaped /\ permits' = permits
  BY <1>1 DEF TypeOK, Unreaped
<1>2. ASSUME NEW r \in Requests, child[r] = "running", Dies(r)
      PROVE  Unreaped' = Unreaped /\ permits' = permits
  BY <1>1, <1>2 DEF Dies
<1>3. ASSUME NEW r \in Requests, Kill(r)
      PROVE  Unreaped' = Unreaped /\ permits' = permits
  <2>1. child[r] \in {"running", "zombie"}
    BY <1>3 DEF Kill, Tended, TypeOK
  <2> QED
    BY <1>1, <1>3, <2>1 DEF Kill
<1>4. ASSUME UNCHANGED <<child, permits>>
      PROVE  Unreaped' = Unreaped /\ permits' = permits
  BY <1>4 DEF Unreaped
<1> QED
  BY <1>2, <1>3, <1>4
     DEF Next, vars, Handler, Git, Reaper, ChildExits, ChildSigpipe, ChildFails,
         Enter, Refuse, SpawnFails, Write, WriteFails, StartStream, Read, Eof, ClientGone,
         ChildReads, ChildPacks, HelperEnds, ChildSends, ChildCloses, Select

(* A child is spawned under the cap, and its permit goes when it is reaped. *)
LEMMA NextCounted ==
    TypeOK /\ Tended /\ Counted /\ [Next]_vars => Counted'
<1> SUFFICES ASSUME TypeOK, Tended, Counted, [Next]_vars PROVE Counted'
  OBVIOUS
<1> USE UploadPackAssumption DEF Counted
<1>1. ASSUME NEW r \in Requests, Spawn(r) PROVE Counted'
  <2>1. permits' = permits \cup {r} /\ Unreaped' = Unreaped \cup {r}
    BY <1>1 DEF TypeOK, Spawn, Unreaped
  <2>2. MaxUploadPacks > 0 => Cardinality(permits) < MaxUploadPacks
    BY <1>1 DEF Spawn, Below
  <2>3. Cardinality(permits) \in Nat
    BY FS_CardinalityType
  <2>4. /\ IsFiniteSet(permits \cup {r})
        /\ Cardinality(permits \cup {r})
             = IF r \in permits THEN Cardinality(permits) ELSE Cardinality(permits) + 1
    BY FS_AddElement
  <2> QED
    BY <2>1, <2>2, <2>3, <2>4
<1>2. ASSUME NEW r \in Requests, Reap(r) PROVE Counted'
  <2>1. permits' = permits \ {r} /\ Unreaped' = Unreaped \ {r}
    BY <1>2 DEF TypeOK, Reap, Unreaped
  <2>2. IsFiniteSet(permits') /\ Cardinality(permits') <= Cardinality(permits)
    BY <2>1, FS_Subset
  <2>3. Cardinality(permits) \in Nat /\ Cardinality(permits') \in Nat
    BY <2>2, FS_CardinalityType
  <2> QED
    BY <2>1, <2>2, <2>3
<1>3. CASE Unreaped' = Unreaped /\ permits' = permits
  BY <1>3
<1> QED
  BY <1>1, <1>2, <1>3, CountFrame

-----------------------------------------------------------------------------
IInv == TypeOK /\ Tended /\ Helping /\ Passed /\ Counted

LEMMA InvCorrect == Spec => []IInv
<1>1. Init => IInv
  <2> SUFFICES ASSUME Init PROVE IInv
    OBVIOUS
  <2>1. TypeOK
    BY UploadPackAssumption DEF Init, TypeOK
  <2>2. Tended /\ Helping /\ Passed
    BY DEF Init, Tended, Helping, Passed, ServedDropped
  <2>3. Counted
    BY FS_EmptySet, UploadPackAssumption DEF Init, Counted, Unreaped
  <2> QED
    BY <2>1, <2>2, <2>3 DEF IInv
<1>2. IInv /\ [Next]_vars => IInv'
  BY NextType, NextTended, NextHelping, NextPassed, NextCounted DEF IInv
<1> QED
  BY <1>1, <1>2, PTL DEF Spec

(* "the cap covers the whole pack": the permit moves into the reaper, so   *)
(* there are never more children than max_upload_packs, whoever hangs up   *)
(* and wherever.                                                           *)
THEOREM PacksAreCapped == Spec => []PacksCapped
<1>1. IInv => PacksCapped
  <2> SUFFICES ASSUME IInv, MaxUploadPacks > 0
               PROVE  Cardinality(Unreaped) <= MaxUploadPacks
    BY DEF PacksCapped
  <2>1. /\ IsFiniteSet(permits) /\ Unreaped \in SUBSET permits
        /\ Cardinality(permits) <= MaxUploadPacks
    BY DEF IInv, Counted
  <2>2. IsFiniteSet(Unreaped) /\ Cardinality(Unreaped) <= Cardinality(permits)
    BY <2>1, FS_Subset
  <2>3. Cardinality(Unreaped) \in Nat /\ Cardinality(permits) \in Nat
    BY <2>1, <2>2, FS_CardinalityType
  <2> QED
    BY <2>1, <2>2, <2>3, UploadPackAssumption
<1> QED
  BY <1>1, InvCorrect, PTL

(* process_group(0) at the spawn, the kill of the group and the permit     *)
(* that stays with the reaper together see to it that no pack-objects goes *)
(* on when its request has no permit any more, wherever the client hangs   *)
(* up and git fails, unless the system refused the signal.                 *)
THEOREM NothingIsLeftPacking == Spec => []NothingLeftPacking
<1>1. IInv => NothingLeftPacking
  <2> SUFFICES ASSUME IInv, NEW r \in Requests, helper[r] = "packing"
               PROVE  r \in permits \cup refused
    BY DEF NothingLeftPacking
  <2>1. child[r] = "running" \/ r \in refused
    BY DEF IInv, Helping
  <2>2. child[r] = "running" => r \in permits
    BY DEF IInv, Counted, Unreaped
  <2> QED
    BY <2>1, <2>2
<1> QED
  BY <1>1, InvCorrect, PTL

(* The race between the child's exit and served never ends in a kill of a  *)
(* child whose client read to the end.                                     *)
THEOREM AttentiveAreNotKilled == Spec => []AttentiveNotKilled
<1>1. IInv => AttentiveNotKilled
  BY DEF IInv, Tended, ServedDropped, AttentiveNotKilled
<1> QED
  BY <1>1, InvCorrect, PTL

(* decode_body and write_all between them hand git the whole request, or   *)
(* nobody is left to see what it makes of a part.                          *)
THEOREM RequestsArriveWhole == Spec => []RequestWhole
<1>1. IInv => RequestWhole
  BY DEF IInv, Passed, StdoutOpen, RequestWhole
<1> QED
  BY <1>1, InvCorrect, PTL

-----------------------------------------------------------------------------
(* While the handler writes, nobody reads the output: what the child has   *)
(* acknowledged, what it has not read and what is still to be written add  *)
(* up to no more than the request.                                         *)
Conserved ==
    \A r \in Requests :
      /\ pc[r] \in {"new", "permit"} => inq[r] = 0 /\ outq[r] = 0
      /\ pc[r] \in {"permit", "writing"} => left[r] + inq[r] + outq[r] <= body[r].len

(* No step makes more of the request than there is.                        *)
LEMMA NextConserved ==
    TypeOK /\ Tended /\ Passed /\ Conserved /\ [Next]_vars => Conserved'
<1> SUFFICES ASSUME TypeOK, Tended, Passed, Conserved, [Next]_vars
             PROVE  Conserved'
  OBVIOUS
<1> USE UploadPackAssumption DEF pipes, process, history, InHandler, Results
<1>1. ASSUME NEW r \in Requests, Enter(r) PROVE Conserved'
  BY <1>1 DEF TypeOK, Tended, Passed, Conserved, Enter, Decode
<1>2. ASSUME NEW r \in Requests, Refuse(r) PROVE Conserved'
  BY <1>2 DEF TypeOK, Tended, Passed, Conserved, Refuse
<1>3. ASSUME NEW r \in Requests, Spawn(r) PROVE Conserved'
  BY <1>3 DEF TypeOK, Tended, Passed, Conserved, Spawn
<1>4. ASSUME NEW r \in Requests, SpawnFails(r) PROVE Conserved'
  BY <1>4 DEF TypeOK, Tended, Passed, Conserved, SpawnFails
<1>5. ASSUME NEW r \in Requests, Write(r) PROVE Conserved'
  BY <1>5 DEF TypeOK, Tended, Passed, Conserved, Write
<1>6. ASSUME NEW r \in Requests, WriteFails(r) PROVE Conserved'
  BY <1>6 DEF TypeOK, Tended, Passed, Conserved, WriteFails
<1>7. ASSUME NEW r \in Requests, StartStream(r) PROVE Conserved'
  BY <1>7 DEF TypeOK, Tended, Passed, Conserved, StartStream
<1>8. ASSUME NEW r \in Requests, Read(r) PROVE Conserved'
  BY <1>8 DEF TypeOK, Tended, Passed, Conserved, Read
<1>9. ASSUME NEW r \in Requests, Eof(r) PROVE Conserved'
  BY <1>9 DEF TypeOK, Tended, Passed, Conserved, Eof
<1>10. ASSUME NEW r \in Requests, ClientGone(r) PROVE Conserved'
  BY <1>10 DEF TypeOK, Tended, Passed, Conserved, ClientGone
<1>11. ASSUME NEW r \in Requests, ChildReads(r) PROVE Conserved'
  BY <1>11 DEF TypeOK, Tended, Passed, Conserved, ChildReads
<1>12. ASSUME NEW r \in Requests, ChildPacks(r) PROVE Conserved'
  BY <1>12 DEF TypeOK, Tended, Passed, Conserved, ChildPacks
<1>13. ASSUME NEW r \in Requests, HelperEnds(r) PROVE Conserved'
  BY <1>13 DEF TypeOK, Tended, Passed, Conserved, HelperEnds
<1>14. ASSUME NEW r \in Requests, ChildSends(r) PROVE Conserved'
  BY <1>14 DEF TypeOK, Tended, Passed, Conserved, ChildSends
<1>15. ASSUME NEW r \in Requests, ChildCloses(r) PROVE Conserved'
  BY <1>15 DEF TypeOK, Tended, Passed, Conserved, ChildCloses
<1>16. ASSUME NEW r \in Requests, child[r] = "running", Dies(r) PROVE Conserved'
  BY <1>16 DEF TypeOK, Tended, Passed, Conserved, Dies
<1>17. ASSUME NEW r \in Requests, Reap(r) PROVE Conserved'
  BY <1>17 DEF TypeOK, Tended, Passed, Conserved, Reap
<1>18. ASSUME NEW r \in Requests, Select(r) PROVE Conserved'
  BY <1>18 DEF TypeOK, Tended, Passed, Conserved, Select
<1>19. ASSUME NEW r \in Requests, Kill(r) PROVE Conserved'
  BY <1>19 DEF TypeOK, Tended, Passed, Conserved, Kill
<1>20. CASE UNCHANGED vars
  BY <1>20 DEF Conserved, vars
<1> QED
  BY <1>1, <1>2, <1>3, <1>4, <1>5, <1>6, <1>7, <1>8, <1>9, <1>10, <1>11, <1>12, 
     <1>13, <1>14, <1>15, <1>16, <1>17, <1>18, <1>19, <1>20
     DEF Next, Handler, Git, Reaper, ChildExits, ChildSigpipe, ChildFails

(* "The request is small and buffered" is safe to say of a negotiation     *)
(* that fits into the two pipes: writing it to the end then never waits    *)
(* for a child that waits for its output to be read, whatever max_decoded  *)
(* and whoever else is served.                                             *)
THEOREM SmallNeverStuck ==
    ASSUME \A b \in Bodies : b.chatty => b.len <= 2 * PipeCap
    PROVE  Spec => []NeverStuck
<1>1. Init => Conserved
  BY DEF Init, Conserved
<1>2. Spec => []Conserved
  <2>1. IInv /\ Conserved /\ [Next]_vars => Conserved'
    BY NextConserved DEF IInv
  <2> QED
    BY <1>1, <2>1, InvCorrect, PTL DEF Spec
<1>3. IInv /\ Conserved => NeverStuck
  <2> SUFFICES ASSUME IInv, Conserved, NEW r \in Requests,
                      pc[r] = "writing", left[r] > 0, inq[r] = PipeCap,
                      body[r].chatty, outq[r] = PipeCap
               PROVE  FALSE
    BY DEF NeverStuck, Stuck
  <2>1. left[r] \in Nat /\ body[r] \in Bodies /\ body[r].len \in Nat
    BY UploadPackAssumption DEF IInv, TypeOK
  <2>2. left[r] + PipeCap + PipeCap <= body[r].len
    BY DEF Conserved
  <2>3. body[r].len <= 2 * PipeCap
    BY <2>1
  <2> QED
    BY <2>1, <2>2, <2>3, UploadPackAssumption
<1> QED
  BY <1>2, <1>3, InvCorrect, PTL

=============================================================================
