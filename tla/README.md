# git-cache-proxy in TLA+

A verification development for git-cache-proxy, a read-through cache for git
over HTTP. It models the parts of `src/` whose correctness depends on the order
of concurrent steps, checks them with TLC on small instances, shows that the
mirror lifecycle implements an abstract cache with bounded staleness, and proves
with TLAPS, for every size of instance, that refinement and all the safety
properties that the passing runs check.

## The system

A client's `git fetch` reaches the proxy as `GET <repo>/info/refs` followed by
`POST <repo>/git-upload-pack`. The proxy keeps a bare mirror of each repository
under its cache root. The first request clones it, an `info/refs` request
fetches when the last pull is older than `fetch_ttl`, and `git upload-pack`
then serves the mirror. LFS objects are cached as files beside the mirrors. With a size
cap set, a background task evicts the least recently used entries.

| Component | State | Operations | Hard part |
|---|---|---|---|
| Mirror lifecycle (`git.rs`) | per repository: the slot lock and the start of the last pull it guards; on disk the mirror, its `.__incoming__` staging and `.__evicting__` trash siblings | `ensure_fresh`, `clone_mirror`, `fetch`, `run_upstream` (retries), `clean_staging`, `evict` | requests queue on the lock for as long as a pull takes; a request may be dropped at any await; file operations run on a blocking pool that a drop does not stop; crashes leave staging, trash and ref lock files |
| Cache index (`evict.rs`) | LRU order, recorded sizes, dirty set, running total, a `Notify` permit | `new`, `touch`, `record_blob`, `mark_changed`, `take_dirty`, `set_size`, `take_victims`, `reconcile_missing` | the total is kept incrementally in a `u64`; every caller interleaves with the evictor |
| Evictor (`evict.rs`) | where the task is, its batch, victims and missing list, the reconcile interval, the shutdown signal | `run`, `maintain`, `reconcile_missing` | works on snapshots that requests and operators invalidate; biased select; lost wakeups |
| LFS store (`lfs.rs`) | a slot per object, the files | `ensure_object`, `fetch_object`, `batch`, href rewriting | download, verify, rename and record is several steps |
| Want-by-SHA pins (`git.rs`) | pins under a reserved ref namespace | `ensure_wanted_oids`, `missing_oids`, `prune_wants` | caps, pruning order, a fetch that is not killed with its request |
| Upload-pack streaming (`git.rs`) | semaphore permit, child, pipes, reaper task | `upload_pack_rpc`, `reap_upload_pack`, `kill_group`, `TimedReader` | two pipes and one task; client gone; exactly one release |
| Handlers (`server.rs`) | none of their own | `handle_git`, `info_refs`, `upload_pack`, LFS routes, `readyz` | the mirror is served after the lock is released |
| Paths (`repo.rs`), parsing, error classification (`git.rs`) | none | `resolve`, `parse_wants`, `transient_upstream_error` | pure functions with boundaries |
| Start and shutdown (`main.rs`) | none | scan, spawn, drain, signal, wait | order of the steps |
| Metrics, configuration, chart, benchmarks | counters, settings | | nothing the properties depend on |

How they interact: the handlers call `ensure_fresh` and then serve. A pull that
succeeds calls `mark_changed`, a stored LFS object `record_blob`, every
request `touch`; the first two wake the evictor. The evictor calls
`GitCache::evict`, which takes the same slot lock as the requests. `main` drains
the server before it signals the evictor.

What makes each correct:

- Mirror: pulls and evictions of one repository exclude one another; a mirror
  that is visible is complete; an answer is no staler than `fetch_ttl`; a burst
  costs one pull; leftovers of crashed or dropped work never block later work;
  everybody who queues is answered.
- Index and evictor: the total is the sum of the sizes; what is on disk is
  tracked; work is never forgotten; the cap holds when the cache is quiet;
  phantoms go away; shutdown ends the task.
- Streaming: the caps count every git process until it is reaped; a client that
  leaves takes its packing with it and one that stays is never cut off; permits
  come back; the child is given the request whole.
- Pins: the wants that are parsed are those that were sent; pins stay within
  their cap and the newest stay; a want within the cap is served.
- LFS store: only verified content becomes visible; a link of the batch API leads
  back to its object; a burst downloads once; temporary files are cleaned up.
- Paths: no request reaches another repository's staging or trash directory, or
  the LFS store.

`PROJECT.json` lists the hazards of this code at their lines, with the
properties that cover each.

## Modules

| Module | What it is |
|---|---|
| `MirrorCache` | one repository: requests, slot lock, mirror, staging, trash, upstream, evictor |
| `BoundedStaleness` | what a client may rely on: the abstract specification of `MirrorCache` |
| `MirrorRefinement` | the mapping from `MirrorCache` to `BoundedStaleness` |
| `MirrorCacheProofs` | theorems about `MirrorCache` and their proofs |
| `MirrorRefinementProofs` | the proof that `MirrorCache` implements `BoundedStaleness` |
| `CacheIndex` | the operations of the index, each the part of a caller's step that runs under the index mutex |
| `Evictor` | the evictor task and the requests that use the index; extends `CacheIndex` |
| `CacheIndexProofs` | lemmas about sums of sizes, the LRU list and the operations of the index |
| `EvictorProofs` | theorems about `Evictor` and the index, from those lemmas |
| `UploadPack` | upload-pack requests under both limits, their git children, pipes and reapers |
| `UploadPackProofs` | theorems about `UploadPack` and their proofs |
| `PktLine` | packet lines and `parse_wants` |
| `WantPins` | want-by-SHA requests on one mirror, its objects and pins; extends `PktLine` |
| `WantPinsProofs` | theorems about `WantPins` and their proofs |
| `RepoPaths` | request paths, dispatch, repository names and directories |
| `RepoPathsProofs` | theorems about `RepoPaths` and their proofs |
| `LfsStore` | the LFS batch API, object requests and the object store; extends `RepoPaths` |
| `LfsStoreProofs` | theorems about `LfsStore` and their proofs |
| `MCMirrorCache`, `MCEvictor`, `MCUploadPack`, `MCWantPins`, `MCLfsStore` | instances for TLC |

The component modules contain small mutated copies of some definitions, marked
"Mutant". They are not part of the specification. Each shows, for one property,
a plausible mistake in the code that would make TLC report it.

### MirrorCache and git.rs

Each repository name has its own slot, so one repository is modelled. Its
content is a version: the number of upstream pushes it holds. `Absent` is a
directory without `HEAD`; `Half` is one with `HEAD` whose refs or objects are
missing. A request's `pc` names where it is in the code:

| `pc` | Code |
|---|---|
| `queued` | waiting for `fetch_lock` in `ensure_fresh` |
| `clean`, `wipe` | `clean_staging` before an attempt and after a failed one |
| `clone`, `cloning` | before and after `git clone` has read the upstream |
| `fetch`, `fetching` | the same for `git fetch` |
| `clone_backoff`, `fetch_backoff` | the sleep in `run_upstream` |
| `rename` | the staging directory is renamed into place |
| `wants` | `ensure_wanted_oids`, the last step under the lock |
| `serve` | lock released, `git upload-pack` not yet started |
| `ok`, `bad_gateway`, `unserved`, `dropped` | answered; 502; no mirror to serve; client gone |

The faults are a constant, so that each run says which of them it allows:

- `drop`: the request's future is dropped at an await. The lock is released, a
  running git child is killed, an awaited file operation has happened or not.
- `late`: an awaited file operation of a dropped request is with a thread of the
  blocking pool that stalls, and happens later (`LateClean`, `LateRename`). The
  pool's queue is first in first out, so a later request's operations overtake it
  only once a thread has taken it.
- `upstream`: git fails, transiently or not. `disk`: a file operation fails.
- `crash`: the container stops, its git children too; the disk stays as it is.
- `evict`: a size cap is set, so the evictor picks this mirror now and then.

A fetch moves refs one by one, so one that fails or is killed leaves the mirror
anywhere between the old and the new version, and `Serve` during a fetch may
show any of them. A killed fetch may leave a `.lock` file on the ref it was
moving (`reflock`); a later fetch that has to move a ref may then fail.

`owed`, `shown` and `pulled` are history variables: what `fetch_ttl` promises
the request when it arrives, what its answer shows, and when the mirror that is
there was last pulled.

### CacheIndex, Evictor and evict.rs

An operator of `CacheIndex` keeps the name of the Rust method and is what that
method does under the index mutex. The `notify_one` at the end of `record_blob` and
`mark_changed` comes after the mutex is released and is a step of its own.
`take_victims` is stated by its result: the shortest prefix of the LRU order
whose removal brings the total within the cap. So is taking keys out of the LRU
list (`Minus`): what is left, in the order it had.

In `Evictor` an entry on disk is its size (0 when absent). A writer stands for
a clone, a fetch or an LFS download; it holds the slot from `WriteBegin` until
it has recorded the change. The evictor's place `at` follows `run` and
`maintain`; `Measure`, `SetSize`, `Stat` and `EvictNext` handle one entry at a
time, so requests, an operator's deletions and the interval interleave with them.
`ReconcileReady` and `WorkReady` are the branches of the biased select.

`lost` and `grown` are history variables. `lost` has the entries that the code itself
gives up on, because a write was dropped before it was recorded or because an
eviction failed; every other mirror on disk must be in the index. `grown` has the
mirrors that a failed fetch or want-fetch has changed since they were last measured:
`fetch` and `ensure_wanted_oids` return before `mark_changed`, with packs and refs
already on disk (`WriteFail`). The index keeps the old size of such a mirror until
its next pull that succeeds, or a restart, so a cache can be quiet and over the cap
by what failed fetches left. `RestsWithinCap` and `Settles` exempt these two kinds of
entries and say that there is no third: the sum in them is over the sizes on disk,
not over those that the index holds.

### BoundedStaleness and MirrorRefinement

The abstract cache has a copy that may appear, advance up to the upstream's
version and disappear, and clients who ask, wait, and are answered or sent away.
An answer shows a version between what the upstream held a TTL before the
question and what it holds now. There are no locks, retries, directories or
faults. The mapping takes the mirror for the copy; a client waits from its
arrival to its answer wherever its request is in between. One abstract step
(`GiveUp`) sends any set of clients away while the copy may advance, because a
crash or a killed fetch does both at once.

### UploadPack

One request is a handler, then a response stream (`pc`), a git child with its
helper `pack-objects`, two pipes of capacity `PipeCap` in units, and a reaper.
`StdinOpen` and `StdoutOpen` say which ends of the pipes this process still holds;
the oneshot channel is sent when the stream reached EOF and dropped otherwise, so
it is a function of `pc`. A `chatty` body is one of protocol v0 or v1, whose haves
git acknowledges while it reads; under v2 it reads to the end first. A client may
hang up at every await. `grouped` has the requests whose child leads a process group
of its own, which `Spawn` arranges; only such a child's helper is reached by
`kill_group`. `signal` records what a kill reached, and `refused` the children whose
group the system refused to signal, so that `Kill` fell back to the leader alone.
`NothingLeftPacking` excuses nothing but that refusal: a leader-only kill for any other
reason (no group, or code that signals only the child) leaves a helper that packs
after the permit has gone back, and violates it.

`Stuck` is the embrace of the two pipes that run `upload_pack_stuck` finds: the handler
waits to write, the child waits to acknowledge. `Answered` and `PermitReturns` name it
as the one thing that may keep a request or its permit for ever.

### PktLine and WantPins

A body is a sequence of cells: length prefix, the text `want `, an object id,
anything else. `parse_wants` walks it like the code. Its reference in
`WantsParsed` is the list of lines the client sent and where the body was cut.
An object id is a number, a larger one being newer. A dropped request leaves its
want-fetch or its `update-ref` running without the lock (`orphans`). git writes refs
one by one, so a want-fetch that fails, or an orphaned one that ends, may leave some of
its pins (`LandPart`), and no prune follows a failure. `excused` remembers that pins were
added which no prune has seen yet, `excess` the requests that lacked more ids than
the cap allows.

### RepoPaths and LfsStore

A path is the sequence of its components; a component is its text and the
reserved marker it contains, if any, so "contains a marker" and "ends with a
marker" become one test. `Route` is the order of the conditions in `handle_git`.

A client of `LfsStore` posts a batch request, is told a link and follows it
through `Route` and `lfs_object_from_path`, or comes without a size (`Bare`).
`Recheck` to `Rename` run under the object's slot; `Open` and `OpenFails` do not. A file is
"right" when it hashes to its id. `met` records which faults a request met, so
that `LinksLead` can demand that a followed link fails for no other reason.

## Runs

| Run | Instance | Checks |
|---|---|---|
| `mirror_faults` | 2 `info/refs`, 1 upload-pack, TTL 1, 1 retry, 2 ticks, 1 push; all faults but `late` | `TypeOK`, `MirrorWhole`, `Fresh`, `Coalesced`, `Promised` |
| `mirror_live` | 2 `info/refs`, 1 tick, 1 push; all faults but `disk`; fairness | `Serialised`, `CloneStartsClean`, `LeftoverHarmless`, `Answered` |
| `evictor_safe` | a mirror of up to 2 bytes and an object, cap 2; every fault | `TypeOK`, `IndexSound`, `NoWorkLost`, `MirrorsTracked`, `RestsWithinCap` |
| `evictor_live` | the same with cap 1; an operator deletes entries; fairness | `Settles`, `PhantomsDropped`, `Stops` |
| `upload_pack` | 2 requests, both limits 1, pipes of 1, v0 and v2 bodies of 3, a v2 body of 4, decoding limit 3; every fault; fairness | `TypeOK`, `PacksCapped`, `NothingLeftPacking`, `AttentiveNotKilled`, `RequestWhole`, `Answered`, `PermitReturns` |
| `wants` | 2 requests over 6 bodies, 4 ids of which the upstream serves 3, cap 1; every fault; fairness | `TypeOK`, `WantsParsed`, `PinsCapped`, `WantsServed`, `PrunedAreOldest`, `Answered` |
| `lfs` | 3 clients of 1 object, 2 spellings of the endpoint; every fault; fairness | `TypeOK`, `OnlyVerified`, `LinksLead`, `TempsOwned`, `OneDownload`, `Answered` |

Five runs show where the code does not do what a comment or the documentation
says:

| Run | Property | What TLC finds |
|---|---|---|
| `mirror_evicted` | `EvictionHarmless` | The slot lock is free between `ensure_fresh` and `git upload-pack`. A mirror evicted there makes the request fail, where `evict.rs:14` and `README.md:134` say that eviction is never a correctness concern. |
| `mirror_half` | `MirrorWhole` | A dropped request's rename, already with a thread of the blocking pool that stalls, moves the next request's half-made clone into place; `git.rs:327` says that a crashed clone never leaves such a mirror. It needs two requests and a stall long enough for the second clone to begin. |
| `mirror_reflock` | `HealthyNeverFails` | A fetch that `kill_on_drop` kills while it moves a ref leaves that ref's `.lock` file. The next fetch that has to move the ref fails, `.lock` errors are classified as permanent, and nothing in the proxy removes the file; `README.md:131` calls the cache self-managing. |
| `evictor_blob` | `BlobsTracked` | `reconcile_missing` spares an entry that was stored again only when it is dirty (`evict.rs:223`), which an LFS object never is; one that is downloaded again during the sweep is dropped from the index. |
| `upload_pack_stuck` | `NeverStuck` | A v0 or v1 negotiation that does not fit into the two pipes: git stops reading because nobody reads its acknowledgements, and `write_all` waits for git. The handler, a permit and a place under the concurrency limit are held until the client hangs up; `git.rs:264` calls the request small. git 2.39 behaves this way with 300 KB of haves. |

### Bounds

Two requests already queue behind one another; the third is needed for one that
pulls, one that is dropped or served in between and one that judges the result.
Time must pass the TTL twice for a pull to begin, end late and still be trusted.
One retry has a first attempt, a repeated one and a refused one. One push tells
stale from fresh. In the evictor two entries suffice for an LRU order with a
victim and a survivor, and for one to be evicted while the other is written or
measured. In `upload_pack` the second request is the one that the first one's
permit or place could block, and a pipe of one unit is full as soon as it holds
anything. A v0 body of three fills both pipes and has a unit left, so `Stuck` does
happen in this run, and the second request queues behind it until its client hangs up;
the body of four is one over the decoding limit. In `wants` a cap of one makes every second pin a pin too many, and two
requests give an orphaned child beside a prune. In `lfs` the third client is the
one that queues behind a holder that fails and a successor that downloads. The
request sets of `mirror_faults` are symmetric; runs with liveness use no symmetry.
Deadlock checking is off because the runs end: requests are finite, time is
bounded, and the evictor stops. Waiting for ever is what `Answered` excludes.

### Fairness

`FairSpec` of `MirrorCache` assumes that a request which holds the lock proceeds
(weak fairness): git children end and file operations return. The code has no timeout
on either, so this is an assumption about the environment. The lock is tokio's
mutex, which is first come first served, so a queued request or evictor gets it
if it is free again and again (strong fairness). Clients, pushes, ticks, drops
and crashes have no fairness. `FairSpec` of `Evictor` assumes that a write ends,
the interval fires and the evictor task runs, and, by the same FIFO lock, that
an eviction gets its slot between writers. `UploadPack` assumes that git and the
tasks run and that a client which stays reads on, and strong fairness for both
semaphores, which tokio serves in order; nobody has to hang up or fail. `WantPins`
and `LfsStore` assume that commands, downloads and file operations end, and the
first come first served lock. Neither `git` nor the LFS download has a timeout in
the code (only connecting has), so that they end is an assumption there too.

## Proofs

Every theorem holds for all values of the constants that satisfy the named
assumptions of the component's module: any sets of requests, keys, objects and
bodies, any TTL, cap, limit and bound, and any set of faults unless "needs" says
otherwise. Each component has one inductive invariant, a conjunction of named
parts; a lemma per part has one step per action. TLC has checked each part on the
instances of the runs.

| Module | Theorem | States | Needs |
|---|---|---|---|
| `MirrorCacheProofs` | `TypeCorrect` | `Spec => []TypeOK` | |
| | `SlotSerialises` | `Spec => []Serialised` | |
| | `ClonesStartClean` | `Spec => []CloneStartsClean` | |
| | `MirrorsAreWhole` | `Spec => []MirrorWhole` | no `late` |
| | `LeftoversAreHarmless` | `Spec => []LeftoverHarmless` | no `disk` |
| | `PullsCoalesce` | `Spec => Coalesced` | |
| | `AnswersAreFresh` | `Spec => []Fresh` | no `late` |
| | `UnevictedAreServed` | `Spec => []EvictionHarmless` | no `evict` |
| | `OnlyLocksFail` | `Spec => LocksAlone` | no `upstream`, `disk`, `late` |
| `MirrorRefinementProofs` | `PromiseKept` | `Spec => Promised` | no `late` |
| `EvictorProofs` | `TypeCorrect` | `Spec => []TypeOK` | |
| | `IndexIsSound` | `Spec => []IndexSound` | |
| | `NoWakeupIsLost` | `Spec => []NoWorkLost` | |
| | `MirrorsAreTracked` | `Spec => []MirrorsTracked` | |
| | `BlobsAreTracked` | `Spec => []BlobsTracked` | no `operator` |
| | `RestIsWithinCap` | `Spec => []RestsWithinCap` | |
| `UploadPackProofs` | `TypeCorrect` | `Spec => []TypeOK` | |
| | `PacksAreCapped` | `Spec => []PacksCapped` | |
| | `NothingIsLeftPacking` | `Spec => []NothingLeftPacking` | |
| | `AttentiveAreNotKilled` | `Spec => []AttentiveNotKilled` | |
| | `RequestsArriveWhole` | `Spec => []RequestWhole` | |
| | `SmallNeverStuck` | `Spec => []NeverStuck` | a v0 or v1 body has at most `2 * PipeCap` units |
| `WantPinsProofs` | `TypeCorrect` | `Spec => []TypeOK` | |
| | `WantsAreParsed` | `Spec => []WantsParsed` | |
| | `PinsAreCapped` | `Spec => []PinsCapped` | |
| | `WantsAreServed` | `Spec => []WantsServed` | |
| | `OnlyOldPinsGo` | `Spec => PrunedAreOldest` | |
| `LfsStoreProofs` | `TypeCorrect` | `Spec => []TypeOK` | |
| | `StoredIsVerified` | `Spec => []OnlyVerified` | |
| | `LinksLeadBack` | `Spec => []LinksLead` | |
| | `TempsAreOwned` | `Spec => []TempsOwned` | |
| | `DownloadsAreSingle` | `Spec => OneDownload` | |
| `RepoPathsProofs` | `RequestsStayOut`, `SiblingsDistinct` | facts about all accepted names | |

The premises are needed. `mirror_half` is the counterexample for `late`. When
removals may fail, an eviction does meet the trash it could not clear.
`evictor_blob` is the one for `operator`, `mirror_evicted` the one for `evict`, and
`upload_pack_stuck` the one for a negotiation larger than both pipes. `mirror_reflock`
shows the one case that `OnlyLocksFail` leaves. So each violation run has a theorem
beside it that says how far the statement it refutes does hold.

### Mirror

From `RequestsAssumption`, `NumbersAssumption` and `FaultsAssumption`.

- `TypeOK` is not inductive by itself: the retry counter stays in range because
  a request in a backoff still has a delay left (`RetryLeft`).
- `Locked` ties `pc` and the evictor's place to `holder`; `Serialised` follows
  because `holder` has one value.
- `CloneStartsClean` uses `Locked`: only the request itself changes the staging
  directory between its cleaning and its clone, except for late operations,
  and those only ever remove it.
- `Whole` adds that a staging directory is complete when its request is about
  to rename it; no operation left behind on the pool may be pending.
- `Tidy` says that the trash is empty when the evictor is about to rename.
- `Stamped`: the recorded start is the start of the last pull this mirror had,
  or there was none. With `FetchBegins`, that a fetch only begins on a stale
  mirror, it gives the action property.
- `FreshInv` is the freshness argument. The upstream never goes back
  (`UpMonotone`); stamps lie in the past and a pull in progress is at least as
  recent as the recorded one (`Stamps`); a pull has read everything the upstream
  had before its start (`PullFresh`), so a mirror holds everything from before
  its recorded start (`MirrorFresh`). A request is owed what the upstream had a
  TTL before it arrived (`OwedOld`). If the mirror is not stale when the request
  gets the lock, the recorded start is less than a TTL ago, so the mirror holds
  what is owed; if it is stale the request pulls and reads all of it
  (`OwedPull`). From there to the answer the mirror only grows, is evicted, or is
  replaced by a later pull (`OwedServe`).
- `Kept`: without a size cap nothing takes a mirror away. A request that fetches
  or is about to be served found one or put it there, and fetches, killed ones
  too, only move it on; so none goes unserved.
- `Healthy`: with an upstream and a disk that never fail, no request is ever in a
  backoff or cleans up after a failure, a clone works for an absent mirror, and it
  finds its staging directory as it made it. With `Whole`, the only way left to a
  502 is a fetch that meets a ref's `.lock` file (`LocksAlone`).

Frame lemmas (`WorldFrame`, `ReadingFrame`, `MirrorFrame`, `OwedFrame`,
`ServeFrame`, `OkFrame`) state once what any step can do to a part of the state.

The refinement follows from `Locked`, `Whole` and `FreshInv`. Most steps are
quiet (`Quiet`): every client sees what it saw or is sent away. `QuietAllowed`
shows once that a quiet step whose mirror stays or advances, to at most the
upstream's version, is a step of `BoundedStaleness`; the bound on the mirror
comes from `FreshInv`. `StepAllowed` goes through the actions. For an answer the
abstract specification asks for what `OwedServe` says.

### Index and evictor

From `KeysAssumption`, `CapAssumption` and `EvictorAssumption`; keys are finite.

`IndexSound` relates an incremental total to a sum over all entries, and each
update of the total needs a fact about sums. The community modules define the sum
by a recursive function over the subsets of the set, adding the elements in an
order that CHOOSE picks. `CacheIndexProofs` shows that there is such a function
(`SumsExist`), that two of them agree (`SumsAgree`), and that any element may be
taken out first (`SumRemove`); from these follow the sums after an insertion
(`PutSum`) and a removal of several entries (`WithoutSum`). These are inductions
over data. The library's induction rules take a predicate as a parameter, which
the provers cannot instantiate; `SubsetInduction` takes a set of subsets in its
place and follows from the existence of minimal elements (`WFMin`), and the
predicate is then a set comprehension. The same is done for lists:
`MinusLists`, `PromoteLists` and `CutLists` say which keys are left and that none
is there twice.

`Sound` is `IndexSound` with the types of the index, and each operation keeps it.
`Passing` says that victims and missing entries exist only within a pass and that
only mirrors are measured. `MirrorsTracked` is not inductive without `Spared`: a
mirror found missing that is on disk again has been marked dirty, or is about to
be, so `drop_missing` leaves it alone. For an LFS object there is no such mark.
`Objects` is what holds of it in place of one: a tracked object is on disk, and
one that is being downloaded is neither tracked nor a victim, so a sweep never finds
it missing, unless an operator deletes it.

`RestIsWithinCap` goes from sizes on disk to the index's total. `Weighed`: what the
index holds of an entry is its size on disk (`Recorded`), or the entry is gone, lost or
grown, or somebody will put it right: the request that has just written it, its dirty
mark, or the pass that measures it (`Measured` says the same of the sizes that pass has
taken). An object never changes its size, so the index need not measure one. At
rest nobody is left to put anything right and nothing is dirty (`NoWorkLost`), so every
answerable entry on disk is tracked (`MirrorsTracked`) with its size on disk; `SumBelow`, that a
sum over fewer and no larger terms is no larger, gives a sum of at most the total, which
`NoWorkLost` keeps within the cap.

### Upload-pack

From `UploadPackAssumption`.

`Tended`: a child has its reaper and a process group of its own from the spawn to the
end, and only a child whose stream was dropped is signalled; this is
`AttentiveNotKilled`. `Helping`: a helper works for a running child, or the system
refused the signal to its group. `Passed` follows the request through decoder and
pipe. `Counted`: every unreaped child has a permit and there are no more permits than
the semaphore has. `NothingLeftPacking` is `Helping` with `Counted`. `Conserved` bounds what is still to be
written, unread and acknowledged together by the length of the body, so a body that
fits into both pipes cannot fill both.

### Want pins

From `WantPinsAssumption`, `OidsAssumption` (ids are finite in number) and
`BodiesAssumption`: a body is lines as long as their prefixes say, up to a cut. That
is how any body can be written; behind a cell that is no prefix everything is one
line.

`WantsAreParsed` rests on `LinesParsed`, about `parse_wants` alone. `Flat` and the
walk of `parse_wants` are recursive functions: `UpsExist` and `WalksExist` show that
there are functions with their equations. `WalkFinds` is the argument: by induction
from the last line back, the walk that stands at the end of a line finds the wants of
the whole lines after it. A line that is cut off, or has no prefix, ends the walk and
the list (`NoneFound`); another one adds its want to both (`OneFound`), and the
code's slice of it is the line's data (`SameLine`). `Climb` and `Descend` are the
inductions, about a set of numbers, for the reason given above.

`Locked` is the slot lock. `Stored`: when a request's turn ends, its wants are in
the mirror, or it met a failed command, lacked more than the cap or asked for what the
upstream refuses. `PartFacts` is what a fetch that fails can do to objects and pins. `Capping`: without an excuse the pins are within the cap, or the prune
that brings them there is under way. `Spares`: every pin that a request or an
orphaned child is about to delete has `MaxWants` newer ones; these stay
because a deletion never takes a pin with fewer newer ones, whoever makes it. That
the newest `MaxWants` ids of a set exist, and have that many members, is the lemma
the cardinality arguments rest on.

### LFS store

From `LfsStoreAssumption`, `OidsAssumption` (an object id is none of git's words)
and `RepoAssumption` (the repository has a name that does not go through
`info/lfs/objects` itself, and the batch paths are spellings of its endpoint).

`Slots`: who works on an object holds its slot. `Verified`: what is about to be
renamed, by a request or late, has been hashed. `Missing`: past the second check the
object is not there, but for a late rename. `Clean`: who owns a temporary file.
`Linked`: a link is the object's own path, which `Route` and `lfs_object_from_path`
take back to that object; this is a fact about sequences of any length. `Blamed`: a
client with a link fails only for a fault it met.

### Paths

`RequestsStayOut`: no name that `resolve` accepts is, or lies inside, a staging
directory, a trash directory or the LFS store, because every one of those paths has
a marked component where an accepted name has an unmarked one. `SiblingsDistinct`:
different names have different staging and trash directories, which are also not
each other's and not LFS objects. Together they are why one lock per name is
enough for the directories that clones and evictions work in.

### Only model-checked

The liveness properties (`Answered`, `Settles`, `PhantomsDropped`, `Stops`,
`PermitReturns`), since fairness and ENABLED are outside the prover's reach, and the
counterexamples of the violation runs.

## Not modelled

- Metrics, logging, configuration, the chart, the image and the benchmarks: no
  decision depends on them.
- git itself, tokio, the file system and the upstream are modelled by what the
  code relies on, and those definitions are marked external in `PROJECT.json`.
- `transient_upstream_error`: a search for substrings of git's diagnostics. Either
  outcome is taken for any failure, except that `.lock` is permanent.
- The bearer-token check, `advertise_base` and the probe and metrics endpoints:
  stateless functions of headers and I/O.
- JSON and headers of the LFS API: an entry has a download action or not, a
  request succeeds or not.
- A kill that reaches only git's leader process during a clone: a lingering
  helper may make the removal of the staging directory fail, which is a `disk`
  fault here.
- A mirror being served while it is evicted: files already open stay readable,
  so `Serve` is one step at the moment `git upload-pack` opens the mirror.
- Want-by-SHA under protocol v0 and v1, where git refuses a hidden ref.
- Repositories nested in one another's paths, which `resolve` accepts and no
  upstream has.

## Plan

Done: all the modules above, their runs, the refinement, every safety property of
the passing runs as a theorem, and for each violation run a theorem that says how
far the statement it refutes does hold.

Left: liveness stays with TLC. The longer step lemmas could share more of their
case analysis.
