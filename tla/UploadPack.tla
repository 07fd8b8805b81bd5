---------------------------- MODULE UploadPack ----------------------------
(***************************************************************************)
(* Serving POST git-upload-pack (upload_pack_rpc, reap_upload_pack and     *)
(* TimedReader in src/git.rs, under the concurrency limit and behind       *)
(* decode_body of src/server.rs): the handler, the child git upload-pack   *)
(* and its helper pack-objects, the two pipes between them, the client     *)
(* that reads the stream, and the detached task that reaps the child.      *)
(*                                                                         *)
(* Bytes are counted in units of which a pipe holds PipeCap.  What         *)
(* ensure_fresh does before is the subject of modules MirrorCache and      *)
(* WantPins.                                                               *)
(***************************************************************************)
EXTENDS Naturals, FiniteSets

CONSTANTS
    Requests,          \* each is one POST git-upload-pack
    Bodies,            \* what clients send: records [len, chatty]
    MaxDecoded,        \* max_decoded_body
    MaxConcurrent,     \* max_concurrent_requests, 0 for unlimited
    MaxUploadPacks,    \* max_upload_packs, 0 for unlimited
    PipeCap,           \* capacity of a pipe
    PackLen,           \* length of the packfile
    Faults             \* what may go wrong, a subset of FaultKinds

(* gone: the client hangs up and hyper drops the request or the stream;    *)
(* spawn: git cannot be started; child: git fails on the request;          *)
(* kill: the system refuses a signal to the process group, or has none.    *)
FaultKinds == {"gone", "spawn", "child", "kill"}

ASSUME UploadPackAssumption ==
    /\ Bodies \subseteq [len : Nat, chatty : BOOLEAN]
    /\ {MaxDecoded, MaxConcurrent, MaxUploadPacks, PackLen} \subseteq Nat
    /\ PipeCap \in Nat \ {0}
    /\ Faults \subseteq FaultKinds

VARIABLES
    pc,        \* where the handler, and after it the response stream, is
    body,      \* the decoded request; a chatty child (protocol v0 and v1)
               \* acknowledges what it reads while it reads
    left,      \* of the body, what write_all has not written yet
    inq, outq, \* what the pipes to and from the child hold
    child,     \* git upload-pack
    job,       \* what the child is doing
    pack,      \* of the packfile, what the child has not written yet
    helper,    \* pack-objects, in the process group of the child
    grouped,   \* requests whose child leads a process group of its own
    reaper,    \* the task reap_upload_pack
    permits,   \* requests whose permit of the semaphore is not returned
    signal,    \* history: what a kill has reached
    refused    \* history: requests for whose group the system refused a signal

pipes   == <<left, inq, outq>>
process == <<child, job, pack, helper, grouped>>
history == <<signal, refused>>
vars    == <<pc, body, pipes, process, reaper, permits, history>>

Results == {"served", "failed", "bad_request", "gone"}
InHandler == {"permit", "writing"}

(* Every variable stays within its type: no pipe holds more than it can,   *)
(* and what is written to git is within the decoding limit.                *)
TypeOK ==
    /\ pc \in [Requests -> {"new", "streaming"} \cup InHandler \cup Results]
    /\ body \in [Requests -> Bodies]
    /\ left \in [Requests -> 0..MaxDecoded]
    /\ \A r \in Requests : left[r] <= body[r].len
    /\ inq \in [Requests -> 0..PipeCap] /\ outq \in [Requests -> 0..PipeCap]
    /\ child \in [Requests -> {"none", "running", "zombie", "reaped"}]
    /\ job \in [Requests -> {"reading", "packing", "sending", "closed"}]
    /\ pack \in [Requests -> 0..PackLen]
    /\ helper \in [Requests -> {"none", "packing"}]
    /\ reaper \in [Requests -> {"none", "select", "kill", "wait", "done"}]
    /\ signal \in [Requests -> {"none", "group", "leader"}]
    /\ {grouped, permits, refused} \subseteq SUBSET Requests

Init ==
    /\ pc = [r \in Requests |-> "new"]
    /\ body \in [Requests -> Bodies]
    /\ left = [r \in Requests |-> 0]
    /\ inq = [r \in Requests |-> 0] /\ outq = [r \in Requests |-> 0]
    /\ child = [r \in Requests |-> "none"]
    /\ job = [r \in Requests |-> "reading"]
    /\ pack = [r \in Requests |-> PackLen]
    /\ helper = [r \in Requests |-> "none"]
    /\ reaper = [r \in Requests |-> "none"]
    /\ signal = [r \in Requests |-> "none"]
    /\ grouped = {} /\ permits = {} /\ refused = {}

(* Mutant: drop(stdin) is missing, the stream keeps it.                    *)
StdinOpenStreaming(r) == pc[r] \in {"writing", "streaming"}

(* The ends of the pipes that this process holds.  The handler drops both  *)
(* when it fails or is dropped, the stream drops stdout.                   *)
StdinOpen(r)  == pc[r] = "writing"
StdoutOpen(r) == pc[r] \in {"writing", "streaming"}

(* The oneshot channel: sent at EOF, closed unsent when its sender goes    *)
(* with the handler or with the stream.                                    *)
ServedSent(r)    == pc[r] = "served"
ServedDropped(r) == pc[r] \in {"failed", "gone"}

Below(n, limit) == limit = 0 \/ n < limit

-----------------------------------------------------------------------------
(* The handler.                                                            *)

(* Mutant: the decoder stops at the limit, so what is over looks whole.    *)
DecodeTruncated(n) == IF n > MaxDecoded THEN MaxDecoded ELSE n

(* decode_body: read at most one unit past the limit.                      *)
Decode(n) == IF n > MaxDecoded THEN MaxDecoded + 1 ELSE n

(* Mutant: within_limit is not asked, and what was decoded is passed on.   *)
EnterUnchecked(r) ==
    /\ pc[r] = "new"
    /\ Below(Cardinality({q \in Requests : pc[q] \in InHandler}), MaxConcurrent)
    /\ pc' = [pc EXCEPT ![r] = "permit"]
    /\ left' = [left EXCEPT ![r] = Decode(body[r].len)]
    /\ UNCHANGED <<body, inq, outq, process, reaper, permits, history>>

(* The concurrency limit lets the request in; within_limit judges it.      *)
Enter(r) ==
    /\ pc[r] = "new"
    /\ Below(Cardinality({q \in Requests : pc[q] \in InHandler}), MaxConcurrent)
    /\ LET decoded == Decode(body[r].len) IN
         IF decoded > MaxDecoded
           THEN pc' = [pc EXCEPT ![r] = "bad_request"] /\ UNCHANGED left
           ELSE /\ pc' = [pc EXCEPT ![r] = "permit"]
                /\ left' = [left EXCEPT ![r] = decoded]
    /\ UNCHANGED <<body, inq, outq, process, reaper, permits, history>>

(* The body cannot be read or decoded, or the path names no repository.    *)
Refuse(r) ==
    /\ pc[r] = "new"
    /\ Below(Cardinality({q \in Requests : pc[q] \in InHandler}), MaxConcurrent)
    /\ pc' = [pc EXCEPT ![r] = "bad_request"]
    /\ UNCHANGED <<body, pipes, process, reaper, permits, history>>

(* Mutant: process_group(0) is missing, git stays in the server's group.   *)
SpawnUngrouped(r) ==
    /\ pc[r] = "permit"
    /\ Below(Cardinality(permits), MaxUploadPacks)
    /\ pc' = [pc EXCEPT ![r] = "writing"]
    /\ permits' = permits \cup {r}
    /\ child' = [child EXCEPT ![r] = "running"]
    /\ reaper' = [reaper EXCEPT ![r] = "select"]
    /\ UNCHANGED <<body, pipes, job, pack, helper, grouped, history>>

(* The permit is there: git is spawned at the head of a process group of   *)
(* its own, and the reaper with it, in one step without an await.          *)
Spawn(r) ==
    /\ pc[r] = "permit"
    /\ Below(Cardinality(permits), MaxUploadPacks)
    /\ pc' = [pc EXCEPT ![r] = "writing"]
    /\ permits' = permits \cup {r}
    /\ child' = [child EXCEPT ![r] = "running"]
    /\ grouped' = grouped \cup {r}
    /\ reaper' = [reaper EXCEPT ![r] = "select"]
    /\ UNCHANGED <<body, pipes, job, pack, helper, history>>

(* The permit goes with the handler's other locals.                        *)
SpawnFails(r) ==
    /\ "spawn" \in Faults
    /\ pc[r] = "permit"
    /\ Below(Cardinality(permits), MaxUploadPacks)
    /\ pc' = [pc EXCEPT ![r] = "failed"]
    /\ UNCHANGED <<body, pipes, process, reaper, permits, history>>

(* write_all: as much as the pipe takes, while the child lives.            *)
Write(r) ==
    /\ pc[r] = "writing" /\ left[r] > 0
    /\ child[r] = "running" /\ inq[r] < PipeCap
    /\ left' = [left EXCEPT ![r] = @ - 1]
    /\ inq' = [inq EXCEPT ![r] = @ + 1]
    /\ UNCHANGED <<pc, body, outq, process, reaper, permits, history>>

(* EPIPE.                                                                  *)
WriteFails(r) ==
    /\ pc[r] = "writing" /\ left[r] > 0
    /\ child[r] # "running"
    /\ pc' = [pc EXCEPT ![r] = "failed"]
    /\ UNCHANGED <<body, pipes, process, reaper, permits, history>>

(* Mutant: the permit goes with the handler and not with the reaper.       *)
StartStreamReleases(r) ==
    /\ pc[r] = "writing" /\ left[r] = 0
    /\ pc' = [pc EXCEPT ![r] = "streaming"]
    /\ permits' = permits \ {r}
    /\ UNCHANGED <<body, pipes, process, reaper, history>>

(* drop(stdin) and the response: the handler is done, and leaves the       *)
(* concurrency limit, before the first byte is read.                       *)
StartStream(r) ==
    /\ pc[r] = "writing" /\ left[r] = 0
    /\ pc' = [pc EXCEPT ![r] = "streaming"]
    /\ UNCHANGED <<body, pipes, process, reaper, permits, history>>

Read(r) ==
    /\ pc[r] = "streaming" /\ outq[r] > 0
    /\ outq' = [outq EXCEPT ![r] = @ - 1]
    /\ UNCHANGED <<pc, body, left, inq, process, reaper, permits, history>>

(* poll_read returns nothing: finish() sends on the oneshot channel.       *)
Eof(r) ==
    /\ pc[r] = "streaming" /\ outq[r] = 0
    /\ child[r] # "running" \/ job[r] = "closed"
    /\ pc' = [pc EXCEPT ![r] = "served"]
    /\ UNCHANGED <<body, pipes, process, reaper, permits, history>>

(* The client hangs up: the handler is dropped at an await, or the stream. *)
ClientGone(r) ==
    /\ "gone" \in Faults
    /\ pc[r] \in {"new", "streaming"} \cup InHandler
    /\ pc' = [pc EXCEPT ![r] = "gone"]
    /\ UNCHANGED <<body, pipes, process, reaper, permits, history>>

-----------------------------------------------------------------------------
(* git upload-pack --stateless-rpc and pack-objects, which upload-pack     *)
(* takes with it when it fails, but not when it is killed.                 *)

Dies(r) ==
    /\ child' = [child EXCEPT ![r] = "zombie"]
    /\ helper' = [helper EXCEPT ![r] = "none"]
    /\ UNCHANGED <<pc, body, pipes, job, pack, grouped, reaper, permits,
                   history>>

ChildReads(r) ==
    /\ child[r] = "running" /\ job[r] = "reading" /\ inq[r] > 0
    /\ inq' = [inq EXCEPT ![r] = @ - 1]
    /\ IF body[r].chatty
         THEN /\ StdoutOpen(r) /\ outq[r] < PipeCap
              /\ outq' = [outq EXCEPT ![r] = @ + 1]
         ELSE UNCHANGED outq
    /\ UNCHANGED <<pc, body, left, process, reaper, permits, history>>

(* At the end of its input it starts pack-objects, which counts and        *)
(* compresses for long before it writes anything.                          *)
ChildPacks(r) ==
    /\ child[r] = "running" /\ job[r] = "reading"
    /\ inq[r] = 0 /\ ~StdinOpen(r)
    /\ job' = [job EXCEPT ![r] = "packing"]
    /\ helper' = [helper EXCEPT ![r] = "packing"]
    /\ UNCHANGED <<pc, body, pipes, child, pack, grouped, reaper, permits,
                   history>>

(* pack-objects has its pack, or writes to a pipe that nobody reads.       *)
HelperEnds(r) ==
    /\ helper[r] = "packing"
    /\ helper' = [helper EXCEPT ![r] = "none"]
    /\ job' = [job EXCEPT ![r] = "sending"]
    /\ UNCHANGED <<pc, body, pipes, child, pack, grouped, reaper, permits,
                   history>>

ChildSends(r) ==
    /\ child[r] = "running" /\ job[r] = "sending" /\ pack[r] > 0
    /\ StdoutOpen(r) /\ outq[r] < PipeCap
    /\ outq' = [outq EXCEPT ![r] = @ + 1]
    /\ pack' = [pack EXCEPT ![r] = @ - 1]
    /\ UNCHANGED <<pc, body, left, inq, child, job, helper, grouped, reaper,
                   permits, history>>

(* An exiting process closes its end of stdout before it can be waited for.*)
ChildCloses(r) ==
    /\ child[r] = "running" /\ job[r] = "sending" /\ pack[r] = 0
    /\ job' = [job EXCEPT ![r] = "closed"]
    /\ UNCHANGED <<pc, body, pipes, child, pack, helper, grouped, reaper,
                   permits, history>>

ChildExits(r) == child[r] = "running" /\ job[r] = "closed" /\ Dies(r)

(* SIGPIPE, which only a process that writes can get.                      *)
ChildSigpipe(r) ==
    /\ child[r] = "running" /\ ~StdoutOpen(r)
    /\ \/ job[r] = "sending" /\ pack[r] > 0
       \/ job[r] = "reading" /\ body[r].chatty /\ inq[r] > 0
    /\ Dies(r)

ChildFails(r) ==
    /\ "child" \in Faults
    /\ child[r] = "running"
    /\ Dies(r)

-----------------------------------------------------------------------------
(* reap_upload_pack: a biased select of the child's end and served.        *)

(* Mutant: the permit is only returned for a stream that was served.       *)
ReapServedOnly(r) ==
    /\ reaper[r] \in {"select", "wait"} /\ child[r] = "zombie"
    /\ child' = [child EXCEPT ![r] = "reaped"]
    /\ reaper' = [reaper EXCEPT ![r] = "done"]
    /\ permits' = IF ServedDropped(r) THEN permits ELSE permits \ {r}
    /\ UNCHANGED <<pc, body, pipes, job, pack, helper, grouped, history>>

(* Reaping ends the task, which returns the permit.                        *)
Reap(r) ==
    /\ reaper[r] \in {"select", "wait"} /\ child[r] = "zombie"
    /\ child' = [child EXCEPT ![r] = "reaped"]
    /\ reaper' = [reaper EXCEPT ![r] = "done"]
    /\ permits' = permits \ {r}
    /\ UNCHANGED <<pc, body, pipes, job, pack, helper, grouped, history>>

(* Mutant: whatever served says, the child is killed.                      *)
SelectKills(r) ==
    /\ reaper[r] = "select" /\ child[r] = "running"
    /\ ServedSent(r) \/ ServedDropped(r)
    /\ reaper' = [reaper EXCEPT ![r] = "kill"]
    /\ UNCHANGED <<pc, body, pipes, process, permits, history>>

(* served fires while the child still runs.                                *)
Select(r) ==
    /\ reaper[r] = "select" /\ child[r] = "running"
    /\ \/ ServedSent(r) /\ reaper' = [reaper EXCEPT ![r] = "wait"]
       \/ ServedDropped(r) /\ reaper' = [reaper EXCEPT ![r] = "kill"]
    /\ UNCHANGED <<pc, body, pipes, process, permits, history>>

(* kill_group, and if that fails the child alone.  There is no group to    *)
(* signal when the child was not made to lead one.                         *)
Kill(r) ==
    /\ reaper[r] = "kill"
    /\ reaper' = [reaper EXCEPT ![r] = "wait"]
    /\ child' = [child EXCEPT ![r] = "zombie"]
    /\ \/ /\ r \in grouped
          /\ signal' = [signal EXCEPT ![r] = "group"]
          /\ helper' = [helper EXCEPT ![r] = "none"]
          /\ UNCHANGED refused
       \/ /\ "kill" \in Faults \/ r \notin grouped
          /\ refused' = refused \cup ({r} \cap grouped)
          /\ signal' = [signal EXCEPT ![r] = "leader"]
          /\ UNCHANGED helper
    /\ UNCHANGED <<pc, body, pipes, job, pack, grouped, permits>>

-----------------------------------------------------------------------------
Handler(r) ==
    \/ Spawn(r) \/ Write(r) \/ WriteFails(r) \/ StartStream(r)
    \/ Read(r) \/ Eof(r)

Git(r) ==
    \/ ChildReads(r) \/ ChildPacks(r) \/ HelperEnds(r) \/ ChildSends(r)
    \/ ChildCloses(r) \/ ChildExits(r) \/ ChildSigpipe(r)

Reaper(r) == Reap(r) \/ Select(r) \/ Kill(r)

Next ==
    \E r \in Requests :
      \/ Enter(r) \/ Refuse(r) \/ Handler(r) \/ SpawnFails(r) \/ ClientGone(r)
      \/ Git(r) \/ ChildFails(r)
      \/ Reaper(r)

Spec == Init /\ [][Next]_vars

(* Both semaphores are first come first served; a client that stays reads  *)
(* on; git and the tasks run.  Nobody has to hang up or fail.              *)
Fairness ==
    \A r \in Requests :
      /\ SF_vars(Enter(r)) /\ SF_vars(Spawn(r))
      /\ WF_vars(Handler(r)) /\ WF_vars(Git(r)) /\ WF_vars(Reaper(r))

FairSpec == Spec /\ Fairness

-----------------------------------------------------------------------------
(* "the cap covers the whole pack": never more git processes than the cap, *)
(* from the spawn to the reaping, whatever became of their requests.       *)
Unreaped == {r \in Requests : child[r] \in {"running", "zombie"}}

PacksCapped == MaxUploadPacks > 0 => Cardinality(Unreaped) <= MaxUploadPacks

(* pack-objects does not go on "packing for nobody": it runs under the     *)
(* permit of its request, so that the cap covers it too, unless the system *)
(* refused the signal that was to end it.                                  *)
NothingLeftPacking ==
    \A r \in Requests : helper[r] = "packing" => r \in permits \cup refused

(* A child whose client stayed to the end is never killed, though served   *)
(* and the child's exit race each other.                                   *)
AttentiveNotKilled == \A r \in Requests : pc[r] = "served" => signal[r] = "none"

(* What upload-pack packs for is the request the client sent, whole: never *)
(* a body cut at the decoding limit or by a pipe.                          *)
RequestWhole ==
    \A r \in Requests :
      job[r] # "reading" /\ StdoutOpen(r)
        => left[r] = 0 /\ inq[r] = 0 /\ body[r].len <= MaxDecoded

(* The deadly embrace of the two pipes: the handler waits for room to      *)
(* write the request, the child for room to acknowledge what it has read,  *)
(* and nobody reads before the request is written.                         *)
Stuck(r) ==
    /\ pc[r] = "writing" /\ left[r] > 0 /\ inq[r] = PipeCap
    /\ child[r] = "running" /\ body[r].chatty /\ outq[r] = PipeCap

(* Every request comes to an end, though clients hang up and git fails: no *)
(* order of the two limits, the pipes, the kill and the reaping blocks it, *)
(* but for the embrace of the pipes, of its own request or of another that *)
(* keeps its permit and its place.  That is the one thing that can: a      *)
(* request that is still there when the other has hung up is owed its end  *)
(* anew.                                                                   *)
Answered ==
    \A r \in Requests :
      (pc[r] \notin Results) ~> (pc[r] \in Results \/ \E q \in Requests : Stuck(q))

(* Every child is reaped and its permit returned, unless it is held in the *)
(* embrace of the pipes; once the client has hung up, even then.           *)
PermitReturns ==
    \A r \in Requests : (r \in permits) ~> (r \notin permits \/ Stuck(r))

(* The negotiation "is small and buffered": writing it to the end never    *)
(* waits for a child that is itself waiting for its output to be read.     *)
NeverStuck == \A r \in Requests : ~Stuck(r)

=============================================================================
