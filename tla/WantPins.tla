------------------------------ MODULE WantPins ------------------------------
(***************************************************************************)
(* Serving a commit by its bare SHA (ensure_wanted_oids, missing_oids and  *)
(* prune_wants of src/git.rs): upload-pack requests take the slot lock of  *)
(* one mirror, fetch the wanted objects it lacks, pin them under           *)
(* refs/proxy-wants, prune the pins to the cap, and are served without the *)
(* lock.  The mirror is there throughout: its life is module MirrorCache.  *)
(*                                                                         *)
(* An object id is a number; a larger one has a later creator date, refs   *)
(* of one date being sorted by name.                                       *)
(***************************************************************************)
EXTENDS PktLine, FiniteSets

CONSTANTS
    Requests,      \* each is one POST git-upload-pack
    Bodies,        \* what clients send: records [lines, cut], see Bytes
    Oids,          \* commits that no ref of the mirror reaches
    Offered,       \* those of them that the upstream serves by SHA
    MaxWants,      \* max_wants, 0 for unlimited
    Faults,        \* what may go wrong, a subset of FaultKinds
    Free           \* no request: the lock is free

(* drop: hyper drops a request at an await; upstream: the want-fetch fails;*)
(* local: a git command in the mirror fails.                               *)
FaultKinds == {"drop", "upstream", "local"}

ASSUME WantPinsAssumption ==
    /\ Oids \subseteq Nat /\ Offered \subseteq Oids
    /\ MaxWants \in Nat /\ Free \notin Requests
    /\ Faults \subseteq FaultKinds

(* The request as it arrives: its lines, cut off after so many cells.      *)
Flat(lines) ==
    LET upto[i \in 0..Len(lines)] == IF i = 0 THEN <<>>
                                     ELSE upto[i - 1] \o lines[i]
    IN upto[Len(lines)]
Bytes(b) == SubSeq(Flat(b.lines), 1, b.cut)

(* Ids have a fixed length, so there are finitely many, and Oids has all   *)
(* that clients send.                                                      *)
ASSUME OidsAssumption == IsFiniteSet(Oids)

Cells == ({"len"} \X Nat) \cup {Want, Other} \cup ({"oid"} \X Oids)

(* Any body is such lines: each as long as its prefix says, but for the    *)
(* last, which may be cut off, and for what follows a cell that ought to   *)
(* be a prefix and is none.                                                *)
ASSUME BodiesAssumption ==
    \A b \in Bodies :
      /\ b.lines \in Seq(Seq(Cells) \ {<<>>})
      /\ \A i \in 1..Len(b.lines) :
           LET head == b.lines[i][1] IN
             head[1] = "len" =>
               Len(b.lines[i]) = IF head[2] = 0 THEN 1 ELSE head[2]
      /\ b.cut \in 0..Len(Flat(b.lines))

VARIABLES
    body,      \* what each request sends
    wants,     \* the ids it wants, once ensure_wanted_oids has parsed it
    holder,    \* who holds slot.fetch_lock
    objects,   \* ids in the mirror's object store
    pins,      \* ids with a ref under PROXY_WANTS_NS
    pc,        \* where each request is
    asked,     \* per request: the ids its want-fetch asks the upstream for
    doomed,    \* per request: the pins its prune deletes
    orphans,   \* git children that go on after their request was dropped
    excused,   \* history: pins were added without a prune that saw them
    excess,    \* history: requests that lacked more ids than the cap
    trouble    \* history: requests for which a git command failed

input  == <<body, wants>>
mirror == <<objects, pins>>
denied == <<excess, trouble>>
vars   == <<input, holder, mirror, pc, asked, doomed, orphans, excused, denied>>

Holding == {"check", "fetch", "list", "delete"}
Results == {"packed", "rejected", "dropped"}

Over(n) == MaxWants > 0 /\ n > MaxWants

(* Every variable stays within its type; only objects that are there are   *)
(* pinned.                                                                 *)
TypeOK ==
    /\ body \in [Requests -> Bodies] /\ wants \in [Requests -> SUBSET Oids]
    /\ holder \in Requests \cup {Free}
    /\ objects \subseteq Oids /\ pins \subseteq objects
    /\ pc \in [Requests -> {"new", "queued", "serve"} \cup Holding \cup Results]
    /\ asked \in [Requests -> SUBSET Oids]
    /\ doomed \in [Requests -> SUBSET Oids]
    /\ orphans \subseteq [does : {"fetch", "delete"}, oids : SUBSET Oids]
    /\ excused \in BOOLEAN
    /\ excess \subseteq Requests /\ trouble \subseteq Requests

(* A mirror that earlier requests have left pins, and unpinned objects, in.*)
Init ==
    /\ body \in [Requests -> Bodies] /\ wants = [r \in Requests |-> {}]
    /\ holder = Free
    /\ objects \in SUBSET Offered
    /\ pins \in {p \in SUBSET objects : ~Over(Cardinality(p))}
    /\ pc = [r \in Requests |-> "new"]
    /\ asked = [r \in Requests |-> {}]
    /\ doomed = [r \in Requests |-> {}]
    /\ orphans = {} /\ excused = FALSE /\ excess = {} /\ trouble = {}

-----------------------------------------------------------------------------
Arrive(r) ==
    /\ pc[r] = "new"
    /\ pc' = [pc EXCEPT ![r] = "queued"]
    /\ UNCHANGED <<input, holder, mirror, asked, doomed, orphans, excused, denied>>

Acquire(r) ==
    /\ pc[r] = "queued" /\ holder = Free
    /\ holder' = r
    /\ pc' = [pc EXCEPT ![r] = "check"]
    /\ wants' = [wants EXCEPT ![r] = parse_wants(Bytes(body[r]))]
    /\ UNCHANGED <<body, mirror, asked, doomed, orphans, excused, denied>>

(* ensure_fresh returns, whatever became of the wants: errors are logged.  *)
Return(r) ==
    /\ holder' = Free
    /\ pc' = [pc EXCEPT ![r] = "serve"]

(* Mutant: one id fewer is fetched than may be pinned.                     *)
CappedShort(missing) ==
    {m \in SUBSET missing :
       Cardinality(m) = IF MaxWants > 0 /\ Cardinality(missing) >= MaxWants
                          THEN MaxWants - 1 ELSE Cardinality(missing)}

(* The ids come out of a HashSet, so truncate may leave any of them.       *)
Capped(missing) ==
    {m \in SUBSET missing :
       Cardinality(m) = IF Over(Cardinality(missing))
                          THEN MaxWants ELSE Cardinality(missing)}

(* cat-file says which wanted ids are missing.                             *)
Check(r) ==
    /\ pc[r] = "check"
    /\ LET missing == wants[r] \ objects IN
         IF missing = {}
           THEN Return(r) /\ UNCHANGED asked
           ELSE /\ pc' = [pc EXCEPT ![r] = "fetch"]
                /\ \E m \in Capped(missing) : asked' = [asked EXCEPT ![r] = m]
                /\ UNCHANGED holder
    /\ excess' = excess \cup {q \in {r} : Over(Cardinality(wants[r] \ objects))}
    /\ UNCHANGED <<input, mirror, doomed, orphans, excused, trouble>>

CheckFails(r) ==
    /\ "local" \in Faults
    /\ pc[r] = "check" /\ wants[r] # {}
    /\ Return(r)
    /\ trouble' = trouble \cup {r}
    /\ UNCHANGED <<input, mirror, asked, doomed, orphans, excused, excess>>

(* Mutant: the refs are written although the objects were not stored.      *)
LandUnstored(oids) ==
    /\ pins' = pins \cup oids
    /\ UNCHANGED objects

(* One fetch for all of them: every id is stored and pinned.               *)
Land(oids) ==
    /\ objects' = objects \cup oids
    /\ pins' = pins \cup oids

(* A fetch that fails leaves nothing, or fails so late that the objects    *)
(* are stored and some of the refs, which git writes one by one.  No prune *)
(* follows it.                                                             *)
LandPart(oids) ==
    \/ UNCHANGED <<mirror, excused>>
    \/ /\ oids \subseteq Offered
       /\ objects' = objects \cup oids
       /\ \E p \in SUBSET oids :
            pins' = pins \cup p /\ excused' = (excused \/ p # {})

(* The upstream refuses an id, or a fetch meets a failure.                 *)
MayFail(oids) == oids \subseteq Offered => "upstream" \in Faults

(* Mutant: the pins are not pruned after a fetch.                          *)
FetchExitsUnpruned(r) ==
    /\ pc[r] = "fetch" /\ asked[r] \subseteq Offered
    /\ Land(asked[r])
    /\ Return(r)
    /\ UNCHANGED <<input, asked, doomed, orphans, excused, denied>>

FetchExits(r) ==
    /\ pc[r] = "fetch" /\ asked[r] \subseteq Offered
    /\ Land(asked[r])
    /\ IF MaxWants = 0
         THEN Return(r)
         ELSE pc' = [pc EXCEPT ![r] = "list"] /\ UNCHANGED holder
    /\ UNCHANGED <<input, asked, doomed, orphans, excused, denied>>

(* Mutant: the error is returned with the lock still held.                 *)
FetchFailsHolding(r) ==
    /\ pc[r] = "fetch" /\ MayFail(asked[r])
    /\ LandPart(asked[r])
    /\ pc' = [pc EXCEPT ![r] = "serve"]
    /\ trouble' = trouble \cup {r}
    /\ UNCHANGED <<input, holder, asked, doomed, orphans, excess>>

FetchFails(r) ==
    /\ pc[r] = "fetch" /\ MayFail(asked[r])
    /\ LandPart(asked[r])
    /\ Return(r)
    /\ trouble' = trouble \cup {r}
    /\ UNCHANGED <<input, asked, doomed, orphans, excess>>

(* Mutant: the listing is in ascending order.                              *)
BeyondCapAscending(listed) ==
    {p \in listed : Cardinality({q \in listed : q < p}) >= MaxWants}

(* refs[max_wants..] of for-each-ref --sort=-creatordate.                  *)
BeyondCap(listed) ==
    {p \in listed : Cardinality({q \in listed : q > p}) >= MaxWants}

(* prune_wants lists the pins and picks the ones beyond the cap.           *)
PruneList(r) ==
    /\ pc[r] = "list"
    /\ IF Over(Cardinality(pins))
         THEN /\ pc' = [pc EXCEPT ![r] = "delete"]
              /\ doomed' = [doomed EXCEPT ![r] = BeyondCap(pins)]
              /\ UNCHANGED holder
         ELSE Return(r) /\ UNCHANGED doomed
    /\ excused' = (orphans # {} /\ excused)
    /\ UNCHANGED <<input, mirror, asked, orphans, denied>>

(* update-ref --stdin, one transaction.                                    *)
PruneDelete(r) ==
    /\ pc[r] = "delete"
    /\ pins' = pins \ doomed[r]
    /\ Return(r)
    /\ UNCHANGED <<input, objects, asked, doomed, orphans, excused, denied>>

(* "a failed prune is not worth failing the request over"                  *)
PruneFails(r) ==
    /\ "local" \in Faults
    /\ pc[r] \in {"list", "delete"}
    /\ Return(r)
    /\ excused' = TRUE
    /\ UNCHANGED <<input, mirror, asked, doomed, orphans, denied>>

(* git upload-pack, without the lock: protocol v2 serves what is stored.   *)
Serve(r) ==
    /\ pc[r] = "serve"
    /\ pc' = [pc EXCEPT ![r] = IF wants[r] \subseteq objects
                                 THEN "packed" ELSE "rejected"]
    /\ UNCHANGED <<input, holder, mirror, asked, doomed, orphans, excused, denied>>

-----------------------------------------------------------------------------
(* The request is dropped at an await.  The children of the want-fetch and *)
(* of the prune are not killed with it, and run on without the lock.       *)
Child(r) ==
    CASE pc[r] = "fetch"  -> {[does |-> "fetch", oids |-> asked[r]]}
      [] pc[r] = "delete" -> {[does |-> "delete", oids |-> doomed[r]]}
      [] OTHER            -> {}

Drop(r) ==
    /\ "drop" \in Faults
    /\ pc[r] \in {"queued", "serve"} \cup Holding
    /\ pc' = [pc EXCEPT ![r] = "dropped"]
    /\ holder' = IF holder = r THEN Free ELSE holder
    /\ orphans' = orphans \cup Child(r)
    /\ excused' = (excused \/ pc[r] \in {"fetch", "list", "delete"})
    /\ UNCHANGED <<input, mirror, asked, doomed, denied>>

OrphanEnds(o) ==
    /\ orphans' = orphans \ {o}
    /\ \/ /\ o.does = "fetch" /\ o.oids \subseteq Offered
          /\ Land(o.oids) /\ UNCHANGED excused
       \/ o.does = "fetch" /\ MayFail(o.oids) /\ LandPart(o.oids)
       \/ o.does = "delete" /\ pins' = pins \ o.oids /\ UNCHANGED <<objects, excused>>
    /\ UNCHANGED <<input, holder, pc, asked, doomed, denied>>

-----------------------------------------------------------------------------
Proceed(r) ==
    \/ Check(r) \/ FetchExits(r) \/ FetchFails(r)
    \/ PruneList(r) \/ PruneDelete(r) \/ Serve(r)

Next ==
    \/ \E r \in Requests :
         Arrive(r) \/ Acquire(r) \/ Proceed(r) \/ CheckFails(r) \/ PruneFails(r)
           \/ Drop(r)
    \/ \E o \in orphans : OrphanEnds(o)

Spec == Init /\ [][Next]_vars

(* The lock is first come first served, git commands end.                  *)
Fairness ==
    \A r \in Requests : SF_vars(Acquire(r)) /\ WF_vars(Proceed(r))

FairSpec == Spec /\ Fairness

-----------------------------------------------------------------------------
(* The wants the code sees are those of the lines that arrived whole, and  *)
(* nothing inside a line's data is mistaken for one.                       *)
Whole(b) == {i \in 1..Len(b.lines) :
               /\ Len(Flat(SubSeq(b.lines, 1, i))) <= b.cut
               /\ \A j \in 1..i : b.lines[j][1][1] = "len"}

WantsParsed ==
    \A r \in Requests :
      LET b == body[r] IN
        pc[r] = "check" =>
          wants[r] = UNION {WantIn(Tail(b.lines[i])) : i \in Whole(b)}

(* "Cap how many want-by-SHA pins a mirror keeps": when nobody is at work  *)
(* there are no more pins than max_wants.  Excused are requests dropped or *)
(* failing between the first ref that the fetch writes and the prune, but  *)
(* only until the next prune, which makes up for all of them.              *)
PinsCapped == holder = Free /\ ~excused => ~Over(Cardinality(pins))

(* A pin that goes has at least max_wants newer ones that stay, also when  *)
(* it is deleted late by a child of a dropped request.                     *)
PrunedAreOldest ==
    [][\A p \in pins \ pins' :
         Cardinality({q \in pins' : q > p}) >= MaxWants]_vars

(* "not our ref" is the answer only to a request that asks for something   *)
(* the upstream refuses, or for more than the cap of what the mirror       *)
(* lacks, or met a failed command.                                         *)
WantsServed ==
    \A r \in Requests :
      pc[r] = "rejected" =>
        r \in excess \cup trouble \/ ~(wants[r] \subseteq Offered)

(* Every request that queues on the slot is served, rejected or dropped.   *)
Answered == \A r \in Requests : (pc[r] = "queued") ~> (pc[r] \in Results)

=============================================================================
