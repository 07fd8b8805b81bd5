-------------------------- MODULE BoundedStaleness --------------------------
(***************************************************************************)
(* What the mirror cache promises the clients of one repository, without   *)
(* locks, staging directories, retries and faults: a copy of the upstream  *)
(* that comes, goes and only ever moves forward, and answers that are at   *)
(* most Ttl older than the question (the fetch_ttl of src/git.rs).         *)
(* MirrorRefinement shows that MirrorCache implements it.                  *)
(***************************************************************************)
EXTENDS Integers

CONSTANTS Clients, Ttl, MaxTime, MaxPush

VARIABLES
    clock,
    upAt,      \* upAt[t]: version of the upstream at (the end of) tick t
    copy,      \* the version that is cached, Absent when there is none
    status,    \* per client
    owed,      \* per client: the oldest version its answer may show
    shown      \* per client: the version it was shown

vars == <<clock, upAt, copy, status, owed, shown>>

Absent   == -2
upstream == upAt[clock]

Init ==
    /\ clock = 0 /\ upAt = [t \in 0..MaxTime |-> 0]
    /\ copy = Absent
    /\ status = [c \in Clients |-> "new"]
    /\ owed = [c \in Clients |-> 0]
    /\ shown = [c \in Clients |-> 0]

Tick ==
    /\ clock < MaxTime
    /\ clock' = clock + 1
    /\ upAt' = [upAt EXCEPT ![clock + 1] = upAt[clock]]
    /\ UNCHANGED <<copy, status, owed, shown>>

Push ==
    /\ upstream < MaxPush
    /\ upAt' = [upAt EXCEPT ![clock] = @ + 1]
    /\ UNCHANGED <<clock, copy, status, owed, shown>>

(* The copy may be made, and it may advance, up to what the upstream has.  *)
Advances == (IF copy = Absent THEN 0 ELSE copy)..upstream

Refresh ==
    /\ copy' \in Advances
    /\ UNCHANGED <<clock, upAt, status, owed, shown>>

Discard ==
    /\ copy' = Absent
    /\ UNCHANGED <<clock, upAt, status, owed, shown>>

Ask(c) ==
    /\ status[c] = "new"
    /\ status' = [status EXCEPT ![c] = "waiting"]
    /\ owed' = [owed EXCEPT ![c] = IF clock >= Ttl THEN upAt[clock - Ttl] ELSE @]
    /\ UNCHANGED <<clock, upAt, copy, shown>>

Answer(c) ==
    /\ status[c] = "waiting"
    /\ copy # Absent
    /\ status' = [status EXCEPT ![c] = "ok"]
    /\ \E v \in owed[c]..upstream : shown' = [shown EXCEPT ![c] = v]
    /\ UNCHANGED <<clock, upAt, copy, owed>>

(* Clients that wait may be sent away, and what was being done for them    *)
(* may still show in the copy.                                             *)
GiveUp(S) ==
    /\ \A c \in S : status[c] = "waiting"
    /\ status' = [c \in Clients |-> IF c \in S THEN "failed" ELSE status[c]]
    /\ copy' \in Advances \cup {copy}
    /\ UNCHANGED <<clock, upAt, owed, shown>>

Next ==
    \/ Tick \/ Push \/ Refresh \/ Discard
    \/ \E c \in Clients : Ask(c) \/ Answer(c)
    \/ \E S \in SUBSET Clients : GiveUp(S)

Spec == Init /\ [][Next]_vars

=============================================================================
