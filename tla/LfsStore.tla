------------------------------ MODULE LfsStore ------------------------------
(***************************************************************************)
(* The LFS object store (src/lfs.rs with the handlers lfs_batch and        *)
(* lfs_object of src/server.rs): clients ask the batch API where an object *)
(* is and follow the link, or come with one they have kept; requests fill  *)
(* the content-addressed store through temporary files, one download per   *)
(* object at a time; the evictor unlinks objects without asking.           *)
(*                                                                         *)
(* What the size cap makes of record_blob and touch is module Evictor.     *)
(***************************************************************************)
EXTENDS RepoPaths

CONSTANTS
    Requests,      \* each is one client that wants one object
    Oids,          \* valid object ids
    BatchPaths,    \* where clients post batch requests
    Repo,          \* the repository that all of these paths name
    Faults,        \* what may go wrong, a subset of FaultKinds
    Free           \* no request: a slot that nobody holds

(* drop: hyper drops a request at an await; upstream: a request to it      *)
(* fails, or the download breaks off; corrupt: it sends something else;    *)
(* disk: a local file operation fails; evict: an object is unlinked;       *)
(* crash: the process stops and starts again.                              *)
FaultKinds == {"drop", "upstream", "corrupt", "disk", "evict", "crash"}

ASSUME LfsStoreAssumption == Free \notin Requests /\ Faults \subseteq FaultKinds

(* valid_lfs_oid: 64 hexadecimal digits, so no id is one of git's words.   *)
ASSUME OidsAssumption ==
    Oids \subseteq STRING /\ Oids \cap {"git-receive-pack", "refs"} = {}

(* The repository has a name, which does not itself go through             *)
(* info/lfs/objects.                                                       *)
ASSUME RepoAssumption ==
    /\ Repo \in Seq(Components) /\ Repo # <<>> /\ Repo[1] # Empty
    /\ \A i \in 2..Len(Repo) - 2 : SubSeq(Repo, i, i + 2) # LfsMarker
    /\ \A path \in BatchPaths : lfs_batch_repo(path) = {Repo}

VARIABLES
    wanted,    \* per client: the id it asks for
    link,      \* per client: the path it was told, <<>> before
    size,      \* per client: "given" when the link says how large it is
    pc,        \* where each request is
    store,     \* per id: the object file, "none" when it is absent
    holder,    \* per id: who holds its slot
    temp,      \* per request: its temporary file
    late,      \* requests dropped while their rename was on its way
    shown,     \* history, per client: what the file it is served holds
    excused,   \* history: ids whose file the check may have overlooked
    linked,    \* history: clients whose link is from the batch API
    met        \* history, per request: the faults it met

client  == <<wanted, link, size>>
history == <<shown, excused, linked, met>>
vars    == <<client, pc, store, holder, temp, late, history>>

Holding == {"recheck", "rebatch", "download", "hash", "rename"}
Results == {"served", "bad_gateway", "not_found", "error", "forbidden",
            "unavailable", "dropped"}
Contents == {"none", "part", "wrong", "right"}

(* Every variable stays within its type; a slot is held by a request that  *)
(* is at work on its object.                                               *)
TypeOK ==
    /\ wanted \in [Requests -> Oids]
    /\ size \in [Requests -> {"none", "given"}]
    /\ pc \in [Requests -> {"new", "get", "queued", "open"} \cup Holding \cup Results]
    /\ store \in [Oids -> Contents]
    /\ holder \in [Oids -> Requests \cup {Free}]
    /\ \A o \in Oids : holder[o] # Free =>
         wanted[holder[o]] = o /\ pc[holder[o]] \in Holding
    /\ temp \in [Requests -> Contents]
    /\ late \subseteq Requests
    /\ shown \in [Requests -> Contents]
    /\ excused \subseteq Oids /\ linked \subseteq Requests
    /\ met \in [Requests -> SUBSET FaultKinds]

Init ==
    /\ wanted \in [Requests -> Oids]
    /\ link = [r \in Requests |-> <<>>]
    /\ size = [r \in Requests |-> "none"]
    /\ pc = [r \in Requests |-> "new"]
    /\ store = [o \in Oids |-> "none"]
    /\ holder = [o \in Oids |-> Free]
    /\ temp = [r \in Requests |-> "none"]
    /\ late = {}
    /\ shown = [r \in Requests |-> "none"]
    /\ excused = {} /\ linked = {}
    /\ met = [r \in Requests |-> {}]

Goto(r, l) == pc' = [pc EXCEPT ![r] = l]
Object(r)  == store[wanted[r]]

Meet(r, fault) ==
    /\ fault \in Faults
    /\ met' = [met EXCEPT ![r] = @ \cup {fault}]
    /\ UNCHANGED <<shown, excused, linked>>

-----------------------------------------------------------------------------
(* The batch API.                                                          *)

(* Mutant: an entry for which the upstream gives no size gets none.        *)
RewriteUnsized(repo, oid, sized) ==
    [path |-> <<Empty>> \o repo \o LfsMarker \o <<Plain(oid)>>,
     size |-> IF sized THEN "given" ELSE "none"]

(* rewrite_download_hrefs: the object's own path at this proxy, with the   *)
(* size, 0 where the upstream gives none.                                  *)
Rewrite(repo, oid, sized) ==
    [path |-> <<Empty>> \o repo \o LfsMarker \o <<Plain(oid)>>,
     size |-> "given"]

(* The upstream answers with a download action for the object.             *)
Batch(r) ==
    /\ pc[r] = "new"
    /\ \E path \in BatchPaths, sized \in BOOLEAN :
         /\ Route("POST", path, "none", Oids) = "lfs_batch"
         /\ \E repo \in lfs_batch_repo(path) :
              LET href == Rewrite(repo, wanted[r], sized) IN
                /\ link' = [link EXCEPT ![r] = href.path]
                /\ size' = [size EXCEPT ![r] = href.size]
    /\ linked' = linked \cup {r}
    /\ Goto(r, "get")
    /\ UNCHANGED <<wanted, store, holder, temp, late, shown, excused, met>>

(* is_lfs_upload: the proxy is read-only.                                  *)
BatchUpload(r) ==
    /\ pc[r] = "new"
    /\ Goto(r, "forbidden")
    /\ UNCHANGED <<client, store, holder, temp, late, history>>

(* An entry with an error, or without a download action, is left as it is: *)
(* there is nothing to follow.                                             *)
BatchUnavailable(r) ==
    /\ pc[r] = "new"
    /\ Goto(r, "unavailable")
    /\ UNCHANGED <<client, store, holder, temp, late, history>>

BatchFails(r) ==
    /\ pc[r] = "new"
    /\ Goto(r, "bad_gateway") /\ Meet(r, "upstream")
    /\ UNCHANGED <<client, store, holder, temp, late>>

(* A client that has the path, and no size, from elsewhere.                *)
Bare(r) ==
    /\ pc[r] = "new"
    /\ link' = [link EXCEPT ![r] = Rewrite(Repo, wanted[r], TRUE).path]
    /\ Goto(r, "get")
    /\ UNCHANGED <<wanted, size, store, holder, temp, late, history>>

-----------------------------------------------------------------------------
(* ensure_object.                                                          *)

(* try_exists; an error counts as absent.                                  *)
Seen(r) == {Object(r) # "none"} \cup {s \in {FALSE} : "disk" \in Faults}

(* Route the request; a hit needs no lock.                                 *)
Get(r) ==
    /\ pc[r] = "get"
    /\ IF Route("GET", link[r], "none", Oids) # "lfs_object"
         THEN Goto(r, "not_found")
         ELSE \E seen \in Seen(r) : Goto(r, IF seen THEN "open" ELSE "queued")
    /\ UNCHANGED <<client, store, holder, temp, late, history>>

Acquire(r) ==
    /\ pc[r] = "queued" /\ holder[wanted[r]] = Free
    /\ holder' = [holder EXCEPT ![wanted[r]] = r]
    /\ Goto(r, "recheck")
    /\ UNCHANGED <<client, store, temp, late, history>>

Release(r) == holder' = [holder EXCEPT ![wanted[r]] = Free]

(* Mutant: what was missing before the lock is taken for missing after it. *)
RecheckSkipped(r) ==
    /\ pc[r] = "recheck"
    /\ IF size[r] = "none"
         THEN Goto(r, "bad_gateway") /\ Release(r)
         ELSE Goto(r, "rebatch") /\ UNCHANGED holder
    /\ UNCHANGED <<client, store, temp, late, history>>

(* Another request may have stored it in the meantime.                     *)
Recheck(r) ==
    /\ pc[r] = "recheck"
    /\ \E seen \in Seen(r) :
         /\ excused' = IF seen \/ Object(r) = "none" THEN excused
                       ELSE excused \cup {wanted[r]}
         /\ IF seen THEN Goto(r, "open") /\ Release(r)
            ELSE IF size[r] = "none" THEN Goto(r, "bad_gateway") /\ Release(r)
            ELSE Goto(r, "rebatch") /\ UNCHANGED holder
    /\ UNCHANGED <<client, store, temp, late, shown, linked, met>>

(* download_action and tmp_path; then the file is created.                 *)
Rebatch(r) ==
    /\ pc[r] = "rebatch"
    /\ Goto(r, "download")
    /\ temp' = [temp EXCEPT ![r] = "part"]
    /\ UNCHANGED <<client, store, holder, late, history>>

(* Mutant: the error path does not free the slot.                          *)
RebatchFailsKeeps(r) ==
    /\ pc[r] = "rebatch"
    /\ Goto(r, "bad_gateway")
    /\ Meet(r, "upstream") \/ Meet(r, "disk")
    /\ UNCHANGED <<client, store, holder, temp, late>>

RebatchFails(r) ==
    /\ pc[r] = "rebatch"
    /\ Goto(r, "bad_gateway") /\ Release(r)
    /\ Meet(r, "upstream") \/ Meet(r, "disk")
    /\ UNCHANGED <<client, store, temp, late>>

Download(r) ==
    /\ pc[r] = "download"
    /\ \E c \in {"right"} \cup {w \in {"wrong"} : "corrupt" \in Faults} :
         temp' = [temp EXCEPT ![r] = c]
    /\ Goto(r, "hash")
    /\ UNCHANGED <<client, store, holder, late, history>>

(* A failed removal of the temporary file is ignored.                      *)
Discard(r, fault) ==
    \/ temp' = [temp EXCEPT ![r] = "none"] /\ Meet(r, fault)
    \/ UNCHANGED temp /\ Meet(r, "disk")

(* Mutant: a download that broke off leaves its file.                      *)
DownloadFailsLeft(r) ==
    /\ pc[r] = "download"
    /\ Goto(r, "bad_gateway") /\ Release(r)
    /\ Meet(r, "upstream")
    /\ UNCHANGED <<client, store, temp, late>>

(* The transfer breaks off, or the file cannot be written.                 *)
DownloadFails(r) ==
    /\ pc[r] = "download"
    /\ Discard(r, "upstream")
    /\ Goto(r, "bad_gateway") /\ Release(r)
    /\ UNCHANGED <<client, store, late>>

(* Mutant: the content is not compared with the id.                        *)
HashUnchecked(r) ==
    /\ pc[r] = "hash"
    /\ Goto(r, "rename")
    /\ UNCHANGED <<client, store, holder, temp, late, history>>

(* sha256_file: what does not hash to the id is removed.                   *)
Hash(r) ==
    /\ pc[r] = "hash"
    /\ \/ temp[r] = "right" /\ Goto(r, "rename") /\ UNCHANGED <<holder, temp, history>>
       \/ /\ temp[r] # "right" /\ Goto(r, "bad_gateway")
          /\ Release(r) /\ Discard(r, "corrupt")
    /\ UNCHANGED <<client, store, late>>

(* Reading the file, creating the shard or the rename fails: the file      *)
(* stays under its temporary name.                                         *)
StoreFails(r) ==
    /\ pc[r] \in {"hash", "rename"}
    /\ Goto(r, "bad_gateway") /\ Release(r) /\ Meet(r, "disk")
    /\ UNCHANGED <<client, store, temp, late>>

Move(r) ==
    /\ store' = [store EXCEPT ![wanted[r]] = temp[r]]
    /\ temp' = [temp EXCEPT ![r] = "none"]

Rename(r) ==
    /\ pc[r] = "rename"
    /\ Move(r)
    /\ Goto(r, "open") /\ Release(r)
    /\ UNCHANGED <<client, late, history>>

(* lfs_file_response opens what ensure_object found, without the slot.     *)
Open(r) ==
    /\ pc[r] = "open"
    /\ Goto(r, IF Object(r) = "none" THEN "error" ELSE "served")
    /\ shown' = [shown EXCEPT ![r] = Object(r)]
    /\ UNCHANGED <<client, store, holder, temp, late, excused, linked, met>>

(* It cannot be opened, or not be measured, for another reason.            *)
OpenFails(r) ==
    /\ pc[r] = "open"
    /\ Goto(r, "error") /\ Meet(r, "disk")
    /\ UNCHANGED <<client, store, holder, temp, late>>

-----------------------------------------------------------------------------
(* Mutant: the slot is freed by code that a dropped request does not reach.*)
DropKeeps(r) ==
    /\ "drop" \in Faults
    /\ pc[r] \in {"get", "queued", "open"} \cup Holding
    /\ Goto(r, "dropped")
    /\ UNCHANGED <<client, store, holder, temp, late, history>>

(* A dropped request frees its slot and leaves its file; a rename that is  *)
(* already with the blocking pool may still be done.                       *)
Drop(r) ==
    /\ "drop" \in Faults
    /\ pc[r] \in {"get", "queued", "open"} \cup Holding
    /\ Goto(r, "dropped")
    /\ holder' = [o \in Oids |-> IF holder[o] = r THEN Free ELSE holder[o]]
    /\ late' \in {late} \cup {late \cup {q} : q \in {r} \cap
                                {s \in Requests : pc[s] = "rename"}}
    /\ UNCHANGED <<client, store, temp, history>>

LateRename(r) ==
    /\ r \in late
    /\ Move(r)
    /\ late' = late \ {r}
    /\ excused' = excused \cup {wanted[r]}
    /\ UNCHANGED <<client, pc, holder, shown, linked, met>>

(* maintain: remove_file, without the slot.                                *)
Evict(o) ==
    /\ "evict" \in Faults
    /\ store[o] # "none"
    /\ store' = [store EXCEPT ![o] = "none"]
    /\ met' = [r \in Requests |-> IF wanted[r] = o /\ pc[r] = "open"
                                  THEN met[r] \cup {"evict"} ELSE met[r]]
    /\ UNCHANGED <<client, pc, holder, temp, late, shown, excused, linked>>

(* main removes the directory of temporary files before it serves.         *)
Restart ==
    /\ "crash" \in Faults
    /\ pc' = [r \in Requests |-> IF pc[r] \in {"new"} \cup Results
                                 THEN pc[r] ELSE "dropped"]
    /\ holder' = [o \in Oids |-> Free]
    /\ temp' = [r \in Requests |-> "none"]
    /\ late' = {}
    /\ UNCHANGED <<client, store, history>>

-----------------------------------------------------------------------------
Proceed(r) ==
    \/ Get(r) \/ Recheck(r) \/ Rebatch(r) \/ RebatchFails(r)
    \/ Download(r) \/ DownloadFails(r) \/ Hash(r) \/ StoreFails(r)
    \/ Rename(r) \/ Open(r) \/ OpenFails(r)

Next ==
    \/ \E r \in Requests :
         \/ Batch(r) \/ BatchUpload(r) \/ BatchUnavailable(r)
         \/ BatchFails(r) \/ Bare(r)
         \/ Acquire(r) \/ Proceed(r) \/ Drop(r) \/ LateRename(r)
    \/ \E o \in Oids : Evict(o)
    \/ Restart

Spec == Init /\ [][Next]_vars

(* The slot is first come first served; downloads and file operations end. *)
Fairness ==
    \A r \in Requests : WF_vars(Proceed(r)) /\ SF_vars(Acquire(r))

FairSpec == Spec /\ Fairness

-----------------------------------------------------------------------------
(* Nothing is stored or served but what hashes to the id it is asked by,   *)
(* whatever the upstream sends and wherever a request or the process stops.*)
OnlyVerified ==
    /\ \A o \in Oids : store[o] \in {"none", "right"}
    /\ \A r \in Requests : pc[r] = "served" => shown[r] = "right"

(* A link that the batch API hands out leads back to the same object of    *)
(* the same repository, and following it fails only for a fault that the   *)
(* request met: it brings the size that a miss needs.                      *)
LinksLead ==
    \A r \in linked :
      /\ lfs_object_from_path(link[r], Oids) = {[repo |-> Repo, oid |-> wanted[r]]}
      /\ pc[r] \in {"not_found", "bad_gateway", "error"} => met[r] # {}

(* "collapses a burst of concurrent misses for one object into a single    *)
(* upstream download": no request downloads what is already there, unless  *)
(* the check failed or the rename of a dropped request came late.          *)
OneDownload ==
    [][\A r \in Requests :
         pc[r] = "rename" /\ pc'[r] = "open" =>
           Object(r) = "none" \/ wanted[r] \in excused]_vars

(* Temporary files do not pile up: one that is left belongs to a request   *)
(* at work, or to one that was dropped or met a disk error in this process.*)
TempsOwned ==
    \A r \in Requests :
      temp[r] # "none" => pc[r] \in Holding \cup {"dropped"} \/ "disk" \in met[r]

(* Every request that queues on the slot is answered, or dropped.          *)
Answered == \A r \in Requests : (pc[r] = "queued") ~> (pc[r] \in Results)

=============================================================================
