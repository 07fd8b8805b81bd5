---------------------------- MODULE MirrorCache ----------------------------
(***************************************************************************)
(* One repository of the git mirror cache (src/git.rs): the slot lock, the *)
(* mirror directory with its staging and trash siblings, the upstream it   *)
(* is pulled from, the requests that use it and the evictor that removes   *)
(* it.  Every name has its own slot, so repositories do not interact       *)
(* through this code and one of them is enough.                            *)
(*                                                                         *)
(* The content of the mirror is a version number: how many pushes of the   *)
(* upstream it holds.  The eviction index (touch, mark_changed) is the     *)
(* subject of module Evictor, and what ensure_wanted_oids does to the pins *)
(* is one step here that holds the lock.                                   *)
(***************************************************************************)
EXTENDS Integers

CONSTANTS
    InfoRefs,      \* GET info/refs requests: refresh the mirror when stale
    UploadPacks,   \* POST git-upload-pack requests: clone when absent, only
    Ttl,           \* fetch_ttl, in ticks of the clock
    MaxRetries,    \* MAX_UPSTREAM_RETRIES
    Faults,        \* what may go wrong, a subset of FaultKinds
    MaxTime,       \* bound on the clock
    MaxPush,       \* bound on the pushes to the upstream
    Free, Evictor  \* holders of the slot lock that are not requests

Requests == InfoRefs \cup UploadPacks

(* drop: hyper drops a request whose client went away, at an await;        *)
(* late: a blocking-pool operation outlives the request that awaited it;   *)
(* upstream: git fails against the upstream; disk: a local file operation  *)
(* fails; crash: the container stops, its children included; evict: a size *)
(* cap is set, so the evictor runs.                                        *)
FaultKinds == {"drop", "late", "upstream", "disk", "crash", "evict"}

ASSUME RequestsAssumption ==
    /\ InfoRefs \cap UploadPacks = {}
    /\ Free \notin Requests /\ Evictor \notin Requests /\ Free # Evictor
ASSUME NumbersAssumption ==
    Ttl \in Nat /\ MaxRetries \in Nat /\ MaxTime \in Nat /\ MaxPush \in Nat
ASSUME FaultsAssumption == Faults \subseteq FaultKinds

Never  == -1       \* None, for an Option<Instant>
Absent == -2       \* a directory without HEAD
Half   == -1       \* HEAD is there, refs or objects are missing

VARIABLES
    clock,     \* Instant::now()
    upAt,      \* upAt[t]: version of the upstream at (the end of) tick t
    holder,    \* who holds slot.fetch_lock
    last,      \* the Option<Instant> the lock guards: start of the last pull
    mirror,    \* the cache_dir: Absent, Half populated, or its version
    staging,   \* the .__incoming__ sibling that clones are made in
    reflock,   \* "stale" when a killed fetch left a .lock file in the mirror
    trash,     \* the .__evicting__ sibling: Absent, or Half when it exists
    late,      \* operations on the blocking pool that nobody awaits any more
    evictor,   \* where evict() is
    pc,        \* where each request is
    started,   \* per request: the start stamp taken under the lock
    attempt,   \* per request: retries used by run_upstream
    got,       \* per request: upstream version its git child has read
    owed,      \* history: the version the request may not be shown less than
    shown,     \* history: the version its answer shows
    pulled     \* history: start of the last pull this mirror really had

world    == <<clock, upAt>>
slot     == <<holder, last>>
disk     == <<mirror, staging, reflock, trash, late>>
request  == <<started, attempt, got>>
history  == <<owed, shown, pulled>>
vars     == <<world, slot, disk, evictor, pc, request, history>>

upstream == upAt[clock]

Pulling   == {"clean", "clone", "cloning", "wipe", "clone_backoff", "rename",
              "fetch", "fetching", "fetch_backoff"}
Holding   == Pulling \cup {"wants"}
Results   == {"ok", "bad_gateway", "unserved", "dropped"}
EvictorStates == {"idle", "waiting", "locked", "renaming", "removing", "failed"}
PcStates  == {"new", "queued", "serve"} \cup Holding \cup Results

(***************************************************************************)
(* Every variable stays within its type; retries stay within MaxRetries,   *)
(* so run_upstream's unreachable! is never reached.                        *)
(***************************************************************************)
TypeOK ==
    /\ clock \in 0..MaxTime
    /\ upAt \in [0..MaxTime -> 0..MaxPush]
    /\ holder \in Requests \cup {Free, Evictor}
    /\ last \in -1..MaxTime
    /\ mirror \in -2..MaxPush /\ staging \in -2..MaxPush
    /\ reflock \in {"none", "stale"} /\ trash \in {Absent, Half}
    /\ late \subseteq {"clean", "rename"}
    /\ evictor \in EvictorStates
    /\ pc \in [Requests -> PcStates]
    /\ started \in [Requests -> 0..MaxTime]
    /\ attempt \in [Requests -> 0..MaxRetries]
    /\ got \in [Requests -> 0..MaxPush]
    /\ owed \in [InfoRefs -> 0..MaxPush]
    /\ shown \in [InfoRefs -> -1..MaxPush]
    /\ pulled \in -1..MaxTime

Init ==
    /\ clock = 0 /\ upAt = [t \in 0..MaxTime |-> 0]
    /\ holder = Free /\ last = Never
    /\ mirror = Absent /\ staging = Absent
    /\ reflock = "none" /\ trash = Absent /\ late = {}
    /\ evictor = "idle"
    /\ pc = [r \in Requests |-> "new"]
    /\ started = [r \in Requests |-> 0]
    /\ attempt = [r \in Requests |-> 0]
    /\ got = [r \in Requests |-> 0]
    /\ owed = [r \in InfoRefs |-> 0]
    /\ shown = [r \in InfoRefs |-> 0]
    /\ pulled = Never

Goto(r, l) == pc' = [pc EXCEPT ![r] = l]

-----------------------------------------------------------------------------
(* The environment: time, and pushes to the upstream.                      *)

Tick ==
    /\ clock < MaxTime
    /\ clock' = clock + 1
    /\ upAt' = [upAt EXCEPT ![clock + 1] = upAt[clock]]
    /\ UNCHANGED <<slot, disk, evictor, pc, request, history>>

Push ==
    /\ upstream < MaxPush
    /\ upAt' = [upAt EXCEPT ![clock] = @ + 1]
    /\ UNCHANGED <<clock, slot, disk, evictor, pc, request, history>>

-----------------------------------------------------------------------------
(* ensure_fresh: a request queues on the slot lock.  What it is owed is    *)
(* what the upstream held Ttl ago: the staleness fetch_ttl grants.         *)

Arrive(r) ==
    /\ pc[r] = "new"
    /\ Goto(r, "queued")
    /\ owed' = [q \in InfoRefs |->
                  IF q = r /\ clock >= Ttl THEN upAt[clock - Ttl] ELSE owed[q]]
    /\ UNCHANGED <<world, slot, disk, evictor, request, shown, pulled>>

(* Mutant: a mirror is stale one tick too early.                           *)
StaleEarly(r) ==
    /\ r \in InfoRefs
    /\ last = Never \/ clock - last >= Ttl - 1

(* Mutant: a mirror that is exactly Ttl old counts as fresh.               *)
StaleLate(r) ==
    /\ r \in InfoRefs
    /\ last = Never \/ clock - last > Ttl

(* want_fetch and the age of the last pull; a zero fetch_ttl is always     *)
(* stale, which the comparison already says.                               *)
Stale(r) ==
    /\ r \in InfoRefs
    /\ last = Never \/ clock - last >= Ttl

(* The first step under the lock: the start stamp, then HEAD.exists()      *)
(* and the age decide between clone, fetch and a cached answer.            *)
Acquire(r) ==
    /\ pc[r] = "queued"
    /\ holder = Free
    /\ holder' = r
    /\ started' = [started EXCEPT ![r] = clock]
    /\ attempt' = [attempt EXCEPT ![r] = 0]
    /\ Goto(r, IF mirror = Absent THEN "clean"
               ELSE IF Stale(r) THEN "fetch" ELSE "wants")
    /\ UNCHANGED <<world, last, disk, evictor, got, history>>

(* The guard is dropped; the locals of ensure_fresh and run_upstream end.  *)
Release(r) ==
    /\ holder' = Free
    /\ started' = [started EXCEPT ![r] = 0]
    /\ attempt' = [attempt EXCEPT ![r] = 0]
    /\ got' = [got EXCEPT ![r] = 0]

Keep == UNCHANGED <<holder, request>>

(* Any error of clone_mirror or fetch leaves ensure_fresh by `?`, which    *)
(* drops the guard, and the handler answers 502.                           *)
BadGateway(r) ==
    /\ Goto(r, "bad_gateway")
    /\ Release(r)

(* Mutant: the pull is dated by its end instead of its start.              *)
StampAtEnd(r) == clock

(* *last = Some(started), after the pull has succeeded.                    *)
Stamp(r) == started[r]

PullDone(r) ==
    /\ Goto(r, "wants")
    /\ last' = Stamp(r)
    /\ pulled' = started[r]

(* Mutant: one retry more than there are delays.                           *)
DelayLeftInclusive(r) == attempt[r] <= MaxRetries

(* UPSTREAM_RETRY_DELAYS.get(attempt): a delay is left.                    *)
DelayLeft(r) == attempt[r] < MaxRetries

(* A failed attempt: sleep and try again after a transient failure, if a   *)
(* delay is left; else, and after a permanent failure or a signal, bail.   *)
RetryOrBail(r, backoff) ==
    \/ /\ "upstream" \in Faults
       /\ DelayLeft(r)
       /\ Goto(r, backoff)
       /\ Keep
    \/ BadGateway(r)

-----------------------------------------------------------------------------
(* clone_mirror: clean the staging directory, clone into it, rename it.    *)

(* Mutant: clean_staging only after a failed attempt, not before one.      *)
CleanStagingSkipped(r) ==
    /\ pc[r] = "clean"
    /\ Goto(r, "clone")
    /\ Keep
    /\ UNCHANGED <<world, last, disk, evictor, history>>

(* create_dir_all of the parent and clean_staging before an attempt.       *)
CleanStaging(r) ==
    /\ pc[r] = "clean"
    /\ \/ /\ staging' = Absent
          /\ Goto(r, "clone")
          /\ Keep
       \/ /\ "disk" \in Faults
          /\ BadGateway(r)
          /\ UNCHANGED staging
    /\ UNCHANGED <<world, last, mirror, reflock, trash, late, evictor, history>>

(* git clone refuses a destination that exists, else it creates it (HEAD   *)
(* first) and reads the upstream's refs.                                   *)
CloneReads(r) ==
    /\ pc[r] = "clone"
    /\ staging = Absent
    /\ staging' = Half
    /\ got' = [got EXCEPT ![r] = upstream]
    /\ Goto(r, "cloning")
    /\ UNCHANGED <<world, slot, mirror, reflock, trash, late, evictor,
                   started, attempt, history>>

CloneExits(r) ==
    /\ pc[r] = "cloning"
    /\ staging = Half
    /\ staging' = got[r]
    /\ Goto(r, "rename")
    /\ UNCHANGED <<world, slot, mirror, reflock, trash, late, evictor,
                   request, history>>

(* Mutant: the exit status of git clone is not looked at.                  *)
CloneFailsUnseen(r) ==
    /\ \/ pc[r] \in {"clone", "cloning"} /\ "upstream" \in Faults
       \/ pc[r] = "clone" /\ staging # Absent
       \/ pc[r] = "cloning" /\ staging # Half
    /\ staging' \in {staging, Absent}
    /\ Goto(r, "rename")
    /\ UNCHANGED <<world, slot, mirror, reflock, trash, late, evictor,
                   request, history>>

(* A failure status: the upstream's fault, or the destination was not what *)
(* git left there.  git removes what it cloned, unless it cannot.          *)
CloneFails(r) ==
    /\ \/ pc[r] \in {"clone", "cloning"} /\ "upstream" \in Faults
       \/ pc[r] = "clone" /\ staging # Absent
       \/ pc[r] = "cloning" /\ staging # Half
    /\ staging' \in {staging, Absent}
    /\ Goto(r, "wipe")
    /\ UNCHANGED <<world, slot, mirror, reflock, trash, late, evictor,
                   request, history>>

(* clean_staging after a failed attempt, then the retry decision.          *)
WipeStaging(r) ==
    /\ pc[r] = "wipe"
    /\ \/ /\ staging' = Absent
          /\ RetryOrBail(r, "clone_backoff")
       \/ /\ "disk" \in Faults
          /\ BadGateway(r)
          /\ UNCHANGED staging
    /\ UNCHANGED <<world, last, mirror, reflock, trash, late, evictor, history>>

(* Mutant: the attempts are not counted.                                   *)
RetryUncounted(r) ==
    /\ \/ pc[r] = "clone_backoff" /\ Goto(r, "clean")
       \/ pc[r] = "fetch_backoff" /\ Goto(r, "fetch")
    /\ UNCHANGED <<world, slot, disk, evictor, request, history>>

(* The end of the backoff sleep; the lock is held throughout.              *)
Retry(r) ==
    /\ \/ pc[r] = "clone_backoff" /\ Goto(r, "clean")
       \/ pc[r] = "fetch_backoff" /\ Goto(r, "fetch")
    /\ attempt' = [attempt EXCEPT ![r] = @ + 1]
    /\ UNCHANGED <<world, slot, disk, evictor, started, got, history>>

(* rename(2) of a directory: it needs the source, and an absent target.    *)
CanRename == staging # Absent /\ mirror = Absent

MoveStaging ==
    /\ mirror' = staging
    /\ staging' = Absent

RenameIntoPlace(r) ==
    /\ pc[r] = "rename"
    /\ \/ /\ CanRename
          /\ MoveStaging
          /\ PullDone(r)
          /\ Keep
       \/ /\ ~CanRename \/ "disk" \in Faults
          /\ BadGateway(r)
          /\ UNCHANGED <<mirror, staging, last, pulled>>
    /\ UNCHANGED <<world, reflock, trash, late, evictor, owed, shown>>

-----------------------------------------------------------------------------
(* fetch: read the upstream's refs, then update the mirror's one by one.   *)

FetchReads(r) ==
    /\ pc[r] = "fetch"
    /\ got' = [got EXCEPT ![r] = upstream]
    /\ Goto(r, "fetching")
    /\ UNCHANGED <<world, slot, disk, evictor, started, attempt, history>>

(* A stale .lock file is in the way of a ref that has to move.             *)
Blocked(r) == reflock = "stale" /\ got[r] # mirror

(* Where a fetch that does not finish can leave the refs. *)
Partly(r) == IF mirror = Half THEN {Half} ELSE mirror..got[r]

FetchExits(r) ==
    /\ pc[r] = "fetching"
    /\ ~Blocked(r)
    /\ mirror' = got[r]
    /\ PullDone(r)
    /\ UNCHANGED <<world, holder, staging, reflock, trash, late,
                   evictor, request, owed, shown>>

(* The refs that git had already moved stay moved.  ".lock" is among the   *)
(* permanent errors of transient_upstream_error.                           *)
FetchFails(r) ==
    /\ \/ pc[r] \in {"fetch", "fetching"} /\ "upstream" \in Faults
       \/ pc[r] = "fetching" /\ (Blocked(r) \/ mirror = Half)
    /\ mirror' \in IF pc[r] = "fetching" THEN Partly(r) ELSE {mirror}
    /\ RetryOrBail(r, "fetch_backoff")
    /\ UNCHANGED <<world, last, staging, reflock, trash, late, evictor, history>>

-----------------------------------------------------------------------------
(* The end of ensure_fresh, and the answer, which does not hold the lock.  *)

EnsureWantedOids(r) ==
    /\ pc[r] = "wants"
    /\ Goto(r, "serve")
    /\ Release(r)
    /\ UNCHANGED <<world, last, disk, evictor, history>>

(* advertise_refs or upload_pack_rpc: git upload-pack on the mirror's path *)
(* as it is now; a fetch may be moving its refs meanwhile.                 *)
Serve(r) ==
    /\ pc[r] = "serve"
    /\ IF mirror = Absent
         THEN Goto(r, "unserved") /\ UNCHANGED shown
         ELSE /\ Goto(r, "ok")
              /\ \E v \in {mirror} \cup UNION {Partly(s) :
                            s \in {q \in Requests : pc[q] = "fetching"}} :
                    shown' = [q \in InfoRefs |-> IF q = r THEN v ELSE shown[q]]
    /\ UNCHANGED <<world, slot, disk, evictor, request, owed, pulled>>

-----------------------------------------------------------------------------
(* A fetch whose git child is killed: some refs have moved, and the one    *)
(* that was moving keeps its .lock file.                                   *)
LockAfterKill(r) == {reflock} \cup {l \in {"stale"} : got[r] # mirror}

KillFetch(r) ==
    /\ mirror' \in Partly(r)
    /\ reflock' \in LockAfterKill(r)
    /\ UNCHANGED <<staging, trash, late>>

(* A file operation that was awaited: not begun, done, or left behind on   *)
(* the blocking pool, which runs it all the same.                          *)
LeaveBehind(op) ==
    /\ "late" \in Faults
    /\ late' = late \cup {op}
    /\ UNCHANGED <<mirror, staging, reflock, trash>>

(* The request's future is dropped where it awaits: its guard goes, its    *)
(* git child is killed (kill_on_drop), nothing is stamped.                 *)
Drop(r) ==
    /\ "drop" \in Faults
    /\ pc[r] \notin {"new"} \cup Results
    /\ Goto(r, "dropped")
    /\ IF pc[r] \in Holding THEN Release(r) ELSE Keep
    /\ \/ pc[r] = "fetching" /\ KillFetch(r)
       \/ pc[r] # "fetching" /\ UNCHANGED disk
       \/ /\ pc[r] \in {"clean", "wipe"}
          /\ staging' = Absent
          /\ UNCHANGED <<mirror, reflock, trash, late>>
       \/ pc[r] \in {"clean", "wipe"} /\ LeaveBehind("clean")
       \/ /\ pc[r] = "rename"
          /\ CanRename
          /\ MoveStaging
          /\ UNCHANGED <<reflock, trash, late>>
       \/ pc[r] = "rename" /\ LeaveBehind("rename")
    /\ UNCHANGED <<world, last, evictor, history>>

LateClean ==
    /\ "clean" \in late
    /\ staging' = Absent
    /\ late' = late \ {"clean"}
    /\ UNCHANGED <<world, slot, mirror, reflock, trash, evictor,
                   pc, request, history>>

LateRename ==
    /\ "rename" \in late
    /\ IF CanRename THEN MoveStaging ELSE UNCHANGED <<mirror, staging>>
    /\ late' = late \ {"rename"}
    /\ UNCHANGED <<world, slot, reflock, trash, evictor, pc, request,
                   history>>

-----------------------------------------------------------------------------
(* evict: the evictor has chosen this mirror as a victim.                  *)

EvictBegin ==
    /\ "evict" \in Faults
    /\ evictor = "idle"
    /\ evictor' = "waiting"
    /\ UNCHANGED <<world, slot, disk, pc, request, history>>

(* Mutant: the evictor does not wait for the slot lock.                    *)
EvictUnlocked ==
    /\ evictor = "waiting"
    /\ evictor' = IF mirror = Absent THEN "idle" ELSE "locked"
    /\ UNCHANGED <<world, slot, disk, pc, request, history>>

EvictLock ==
    /\ evictor = "waiting"
    /\ holder = Free
    /\ IF mirror = Absent
         THEN evictor' = "idle" /\ UNCHANGED holder
         ELSE evictor' = "locked" /\ holder' = Evictor
    /\ UNCHANGED <<world, last, disk, pc, request, history>>

(* Mutant: what a crashed eviction left is not removed.                    *)
EvictUncleared ==
    /\ evictor = "locked"
    /\ evictor' = "renaming"
    /\ UNCHANGED <<world, slot, disk, pc, request, history>>

(* Remove what a crashed eviction left under the trash name; an error is   *)
(* ignored.                                                                *)
EvictClear ==
    /\ evictor = "locked"
    /\ evictor' = "renaming"
    /\ trash' \in {Absent} \cup {t \in {trash} : "disk" \in Faults}
    /\ UNCHANGED <<world, slot, mirror, staging, reflock, late, pc, request,
                   history>>

(* Rename the mirror to the trash name and free the lock; an error goes to *)
(* the evictor, which logs it and leaves the mirror.                       *)
EvictRename ==
    /\ evictor = "renaming"
    /\ holder' = Free
    /\ \/ /\ trash = Absent
          /\ evictor' = "removing"
          /\ mirror' = Absent
          /\ reflock' = "none"
          /\ trash' = Half
          /\ pulled' = Never
       \/ /\ trash # Absent \/ "disk" \in Faults
          /\ evictor' = "failed"
          /\ UNCHANGED <<mirror, reflock, trash, pulled>>
    /\ UNCHANGED <<world, last, staging, late, pc, request, owed, shown>>

(* The slow removal, without the lock; its error is ignored.  A failed     *)
(* eviction has only been logged.                                          *)
EvictEnd ==
    /\ \/ /\ evictor = "removing"
          /\ trash' \in {Absent} \cup {t \in {Half} : "disk" \in Faults}
       \/ evictor = "failed" /\ UNCHANGED trash
    /\ evictor' = "idle"
    /\ UNCHANGED <<world, slot, mirror, staging, reflock, late, pc,
                   request, history>>

-----------------------------------------------------------------------------
(* The container stops and starts again: memory is lost, the disk is not.  *)
Crash ==
    /\ "crash" \in Faults
    /\ pc' = [r \in Requests |-> IF pc[r] \in {"new"} \cup Results
                                 THEN pc[r] ELSE "dropped"]
    /\ holder' = Free /\ last' = Never /\ pulled' = Never
    /\ evictor' = "idle"
    /\ late' = {}
    /\ IF \E r \in Requests : pc[r] = "fetching"
         THEN \E r \in Requests :
                /\ pc[r] = "fetching"
                /\ mirror' \in Partly(r)
                /\ reflock' \in LockAfterKill(r)
         ELSE UNCHANGED <<mirror, reflock>>
    /\ started' = [r \in Requests |-> 0]
    /\ attempt' = [r \in Requests |-> 0]
    /\ got' = [r \in Requests |-> 0]
    /\ UNCHANGED <<world, staging, trash, owed, shown>>

-----------------------------------------------------------------------------
(* The steps a request takes by itself once it has the lock.               *)
Proceed(r) ==
    \/ CleanStaging(r) \/ CloneReads(r) \/ CloneExits(r) \/ CloneFails(r)
    \/ WipeStaging(r) \/ Retry(r) \/ RenameIntoPlace(r)
    \/ FetchReads(r) \/ FetchExits(r) \/ FetchFails(r)
    \/ EnsureWantedOids(r) \/ Serve(r)

Evict == EvictLock \/ EvictClear \/ EvictRename \/ EvictEnd

Next ==
    \/ Tick \/ Push
    \/ \E r \in Requests : Arrive(r) \/ Acquire(r) \/ Proceed(r) \/ Drop(r)
    \/ LateClean \/ LateRename
    \/ EvictBegin \/ Evict
    \/ Crash

Spec == Init /\ [][Next]_vars

(* The lock is tokio's, first come first served, so nobody waits for ever; *)
(* git children and file operations are taken to end.  No fairness on what *)
(* the clients, the upstream and the faults do.                            *)
Fairness ==
    /\ \A r \in Requests : WF_vars(Proceed(r)) /\ SF_vars(Acquire(r))
    /\ WF_vars(EvictClear) /\ WF_vars(EvictRename) /\ WF_vars(EvictEnd)
    /\ SF_vars(EvictLock)

FairSpec == Spec /\ Fairness

-----------------------------------------------------------------------------
(* At most one of the requests and the evictor is in the critical section  *)
(* that clones, fetches or renames the mirror (RepoSlot's "mutual-exclusion*)
(* point"), whatever is dropped, delayed or restarted.                     *)
Serialised ==
    /\ \A r, s \in Requests : pc[r] \in Holding /\ pc[s] \in Holding => r = s
    /\ evictor \in {"locked", "renaming"}
         => \A r \in Requests : pc[r] \notin Holding

(* A git clone always starts on an absent staging directory, whatever an   *)
(* earlier clone that was dropped, failed or crashed had left there.       *)
CloneStartsClean == \A r \in Requests : pc[r] = "clone" => staging = Absent

(* A mirror that is there is complete: clone_mirror's staging discipline.  *)
MirrorWhole == mirror # Half

(* An eviction does not fail on what a crashed or failed one left behind.  *)
LeftoverHarmless == evictor # "failed"

(* The refs an info/refs request is shown are no older than fetch_ttl      *)
(* before it arrived, however long it queued behind somebody else's pull.  *)
Fresh == \A r \in InfoRefs : pc[r] = "ok" => owed[r] <= shown[r]

(* A mirror is not pulled again within fetch_ttl of the start of its last  *)
(* pull: a burst of requests costs the upstream one pull.                  *)
Coalesced ==
    [][\A r \in Requests :
         pc[r] = "queued" /\ pc'[r] = "fetch"
           => pulled = Never \/ clock - pulled >= Ttl]_vars

(* Every request that queues on the slot is answered, or dropped.          *)
Answered == \A r \in Requests : (pc[r] = "queued") ~> (pc[r] \in Results)

(* "eviction is a cache-management concern only, never a correctness one": *)
(* no request fails because its mirror was removed.                        *)
EvictionHarmless == \A r \in Requests : pc[r] # "unserved"

(* With an upstream and a disk that never fail, no request is answered     *)
(* 502: the cache is "self-managing", with nothing to repair by hand.      *)
HealthyNeverFails == \A r \in Requests : pc[r] # "bad_gateway"

=============================================================================
