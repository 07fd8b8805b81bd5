--------------------------- MODULE LfsStoreProofs ---------------------------
(***************************************************************************)
(* Proofs about LfsStore, for any number of requests and objects and any   *)
(* faults.                                                                 *)
(***************************************************************************)
EXTENDS LfsStore, SequenceTheorems, TLAPS

-----------------------------------------------------------------------------
(* Links.                                                                  *)

(* The path that Rewrite gives an object of the repository, and what such  *)
(* a path is made of.                                                      *)
Href(o) == <<Empty>> \o Repo \o LfsMarker \o <<Plain(o)>>

Words == {"", "info", "lfs", "objects"}
Parts == Components \cup {Plain(t) : t \in Words \cup Oids}

LEMMA MarkerFacts ==
    /\ LfsMarker \in Seq(Parts) /\ Len(LfsMarker) = 3
    /\ LfsMarker[1] = Plain("info") /\ LfsMarker[2] = Plain("lfs")
    /\ LfsMarker[3] = Plain("objects")
<1> DEFINE t == <<"info", "lfs", "objects">>
<1>1. Len(t) = 3 /\ t[1] = "info" /\ t[2] = "lfs" /\ t[3] = "objects"
  OBVIOUS
<1>2. LfsMarker = [i \in 1..Len(t) |-> Plain(t[i])]
  BY DEF LfsMarker, Path
<1> HIDE DEF t
<1>3. LfsMarker = [i \in 1..3 |-> Plain(t[i])]
  BY <1>1, <1>2
<1>4. \A i \in 1..3 : Plain(t[i]) \in Parts
  <2>1. \A i \in 1..3 : i = 1 \/ i = 2 \/ i = 3
    OBVIOUS
  <2>2. Plain("info") \in Parts /\ Plain("lfs") \in Parts /\ Plain("objects") \in Parts
    BY DEF Parts, Words
  <2> QED
    BY <1>1, <2>1, <2>2
<1>5. LfsMarker \in [1..3 -> Parts]
  BY <1>3, <1>4
<1>6. LfsMarker \in Seq(Parts)
  BY <1>5, SeqDef
<1>7. Len(LfsMarker) = 3
  BY <1>5
<1> QED
  BY <1>1, <1>3, <1>6, <1>7

LEMMA RepoParts == Repo \in Seq(Parts)
<1>1. Components \subseteq Parts
  BY DEF Parts
<1> QED
  BY <1>1, RepoAssumption, SeqMonotonic

(* What is where in the path of an object.                                 *)
LEMMA HrefFacts ==
    ASSUME NEW o \in Oids
    PROVE  /\ Href(o) \in Seq(Parts)
           /\ Len(Repo) \in Nat \ {0} /\ Len(Href(o)) = Len(Repo) + 5
           /\ Href(o)[1] = Empty
           /\ \A i \in 1..Len(Repo) : Href(o)[i + 1] = Repo[i]
           /\ Href(o)[Len(Repo) + 2] = Plain("info")
           /\ Href(o)[Len(Repo) + 3] = Plain("lfs")
           /\ Href(o)[Len(Repo) + 4] = Plain("objects")
           /\ Href(o)[Len(Repo) + 5] = Plain(o)
<1>1. Plain(o) \in Parts /\ Empty \in Parts
  BY DEF Empty, Parts, Words
<1>2. Repo \in Seq(Parts)
  BY RepoParts
<1>3. Len(Repo) \in Nat \ {0}
  BY <1>2, RepoAssumption
<1> DEFINE n == Len(Repo)
           a == <<Empty>> \o Repo
           b == a \o LfsMarker
           c == b \o <<Plain(o)>>
<1> HIDE DEF n
<1>4. a \in Seq(Parts) /\ Len(a) = n + 1 /\ a[1] = Empty
      /\ \A i \in 1..n : a[i + 1] = Repo[i]
  BY <1>1, <1>2, <1>3 DEF n
<1> HIDE DEF a
<1>5. n \in Nat
  BY <1>3 DEF n
<1>6. b \in Seq(Parts) /\ Len(b) = n + 4
      /\ (\A i \in 1..n + 1 : b[i] = a[i])
      /\ (\A i \in 1..3 : b[n + 1 + i] = LfsMarker[i])
  <2>1. b \in Seq(Parts) /\ Len(b) = Len(a) + Len(LfsMarker)
    BY <1>4, MarkerFacts, ConcatProperties
  <2>2. \A i \in 1..Len(a) + Len(LfsMarker) :
          b[i] = IF i <= Len(a) THEN a[i] ELSE LfsMarker[i - Len(a)]
    BY <1>4, MarkerFacts, ConcatProperties
  <2> HIDE DEF b
  <2>3. Len(a) = n + 1 /\ Len(LfsMarker) = 3
    BY <1>4, MarkerFacts
  <2>4. \A i \in 1..n + 1 : b[i] = a[i]
    BY <1>5, <2>2, <2>3
  <2>5. ASSUME NEW i \in 1..3 PROVE b[n + 1 + i] = LfsMarker[i]
    <3> DEFINE k == n + 1 + i
    <3>1. k \in 1..Len(a) + Len(LfsMarker) /\ ~(k <= Len(a)) /\ k - Len(a) = i
      BY <1>5, <2>3
    <3> HIDE DEF k
    <3>2. b[k] = LfsMarker[k - Len(a)]
      BY <2>2, <3>1
    <3> QED
      BY <3>1, <3>2 DEF k
  <2> QED
    BY <1>5, <2>1, <2>3, <2>4, <2>5
<1> HIDE DEF b
<1>7. c \in Seq(Parts) /\ Len(c) = n + 5
      /\ (\A i \in 1..n + 4 : c[i] = b[i]) /\ c[n + 5] = Plain(o)
  BY <1>1, <1>5, <1>6
<1>8. Href(o) = c
  BY DEF Href, a, b, c
<1> HIDE DEF c
<1>9. ASSUME NEW i \in 1..n PROVE c[i + 1] = Repo[i]
  <2>1. i + 1 \in 1..n + 1 /\ i + 1 \in 1..n + 4
    BY <1>5
  <2>2. c[i + 1] = b[i + 1] /\ b[i + 1] = a[i + 1]
    BY <1>6, <1>7, <2>1
  <2> QED
    BY <1>4, <2>2
<1>10. /\ c[n + 2] = Plain("info") /\ c[n + 3] = Plain("lfs")
       /\ c[n + 4] = Plain("objects")
  <2>1. /\ b[n + 1 + 1] = LfsMarker[1] /\ b[n + 1 + 2] = LfsMarker[2]
        /\ b[n + 1 + 3] = LfsMarker[3]
    BY <1>6
  <2>2. n + 1 + 1 = n + 2 /\ n + 1 + 2 = n + 3 /\ n + 1 + 3 = n + 4
    BY <1>5
  <2>3. n + 2 \in 1..n + 4 /\ n + 3 \in 1..n + 4 /\ n + 4 \in 1..n + 4
    BY <1>5
  <2>4. c[n + 2] = b[n + 2] /\ c[n + 3] = b[n + 3] /\ c[n + 4] = b[n + 4]
    BY <1>7, <2>3
  <2> QED
    BY <2>1, <2>2, <2>4, MarkerFacts
<1>11. c[1] = Empty
  BY <1>4, <1>5, <1>6, <1>7
<1> QED
  BY <1>3, <1>7, <1>8, <1>9, <1>10, <1>11 DEF n

(* The leading slash is trimmed, and nothing else.                         *)
LEMMA TrimHref ==
    ASSUME NEW o \in Oids
    PROVE  TrimStart(Href(o)) = SubSeq(Href(o), 2, Len(Href(o)))
<1> DEFINE p == Href(o)
<1>1. p \in Seq(Parts) /\ Len(p) \in Nat /\ Len(p) >= 6 /\ p[1] = Empty /\ p[2] # Empty
  <2>1. Len(Repo) \in Nat \ {0} /\ Len(p) = Len(Repo) + 5 /\ p[1] = Empty
        /\ p \in Seq(Parts)
    BY HrefFacts
  <2>2. p[1 + 1] = Repo[1]
    BY <2>1, HrefFacts
  <2> QED
    BY <2>1, <2>2, RepoAssumption
<1> HIDE DEF p
<1>2. 2 \in Filled(p) /\ \A j \in Filled(p) : 2 <= j
  BY <1>1 DEF Filled
<1>3. First(Filled(p)) = 2
  <2>1. \A i \in Filled(p) : (\A j \in Filled(p) : i <= j) => i = 2
    BY <1>2, <1>1 DEF Filled
  <2> QED
    BY <1>2, <2>1 DEF First
<1>4. Filled(p) # {}
  BY <1>2
<1> QED
  BY <1>3, <1>4 DEF TrimStart, p

MarkerAt(p, i) ==
    p[i] = Plain("info") /\ p[i + 1] = Plain("lfs") /\ p[i + 2] = Plain("objects")

(* Where the marker is in a path, component by component.                  *)
LEMMA MarkerIs ==
    ASSUME NEW p \in Seq(Parts), NEW i \in 1..Len(p) - 2
    PROVE  SubSeq(p, i, i + 2) = LfsMarker <=> MarkerAt(p, i)
<1>1. /\ SubSeq(p, i, i + 2) \in Seq(Parts) /\ Len(SubSeq(p, i, i + 2)) = 3
      /\ SubSeq(p, i, i + 2)[1] = p[i] /\ SubSeq(p, i, i + 2)[2] = p[i + 1]
      /\ SubSeq(p, i, i + 2)[3] = p[i + 2]
  OBVIOUS
<1> DEFINE s == SubSeq(p, i, i + 2)
<1>2. s \in Seq(Parts) /\ Len(s) = 3 /\ s[1] = p[i] /\ s[2] = p[i + 1] /\ s[3] = p[i + 2]
  BY <1>1
<1> HIDE DEF s
<1>3. (\A j \in 1..3 : s[j] = LfsMarker[j])
        <=> s[1] = LfsMarker[1] /\ s[2] = LfsMarker[2] /\ s[3] = LfsMarker[3]
  <2>1. \A j \in 1..3 : j = 1 \/ j = 2 \/ j = 3
    OBVIOUS
  <2> QED
    BY <2>1
<1>4. s = LfsMarker <=> \A j \in 1..3 : s[j] = LfsMarker[j]
  BY <1>2, MarkerFacts, SeqEqual
<1>5. s = LfsMarker <=> MarkerAt(p, i)
  BY <1>2, <1>3, <1>4, MarkerFacts DEF MarkerAt
<1> QED
  BY <1>5 DEF s

(* An object's link leads back to it: lfs_object_from_path undoes Rewrite. *)
LEMMA HrefLeads ==
    ASSUME NEW o \in Oids
    PROVE  lfs_object_from_path(Href(o), Oids) = {[repo |-> Repo, oid |-> o]}
<1> DEFINE n == Len(Repo)
           p == SubSeq(Href(o), 2, Len(Href(o)))
<1>1. n \in Nat \ {0}
  BY HrefFacts
<1>2. /\ p \in Seq(Parts) /\ Len(p) = n + 4
      /\ \A i \in 1..n + 4 : p[i] = Href(o)[i + 1]
  <2>1. Href(o) \in Seq(Parts) /\ Len(Href(o)) = n + 5
    BY HrefFacts
  <2> QED
    BY <1>1, <2>1
<1> HIDE DEF p, n
<1>3. /\ \A i \in 1..n : p[i] = Repo[i]
      /\ p[n + 1] = Plain("info") /\ p[n + 2] = Plain("lfs")
      /\ p[n + 3] = Plain("objects") /\ p[n + 4] = Plain(o)
  <2>1. \A i \in 1..n : p[i] = Repo[i]
    BY <1>1, <1>2, HrefFacts DEF n
  <2>2. /\ p[n + 1] = Href(o)[n + 2] /\ p[n + 2] = Href(o)[n + 3]
        /\ p[n + 3] = Href(o)[n + 4] /\ p[n + 4] = Href(o)[n + 5]
    BY <1>1, <1>2
  <2> QED
    BY <2>1, <2>2, HrefFacts DEF n
<1>4. ASSUME NEW i \in 2..n + 1
      PROVE  SubSeq(p, i, i + 2) = LfsMarker <=> MarkerAt(p, i)
  <2>1. i \in 1..Len(p) - 2
    BY <1>1, <1>2
  <2> QED
    BY <1>2, <2>1, MarkerIs
<1>5. ASSUME NEW i \in 2..n PROVE ~MarkerAt(p, i)
  <2>1. CASE i <= n - 2
    <3>1. i \in 2..n - 2 /\ i \in 1..Len(Repo) - 2
      BY <1>1, <2>1 DEF n
    <3>2. SubSeq(Repo, i, i + 2) # LfsMarker
      BY <3>1, RepoAssumption DEF n
    <3>3. ~MarkerAt(Repo, i)
      BY <3>1, <3>2, RepoParts, MarkerIs
    <3>4. p[i] = Repo[i] /\ p[i + 1] = Repo[i + 1] /\ p[i + 2] = Repo[i + 2]
      BY <1>1, <1>3, <3>1
    <3> QED
      BY <3>3, <3>4 DEF MarkerAt
  <2>2. CASE i = n - 1
    <3>1. p[i + 2] = Plain("info")
      BY <1>1, <1>3, <2>2
    <3> QED
      BY <3>1 DEF MarkerAt, Plain
  <2>3. CASE i = n
    <3>1. p[i + 1] = Plain("info")
      BY <1>1, <1>3, <2>3
    <3> QED
      BY <3>1 DEF MarkerAt, Plain
  <2> QED
    BY <1>1, <2>1, <2>2, <2>3
<1>6. MarkerAt(p, n + 1)
  <2>1. n + 1 + 1 = n + 2 /\ n + 1 + 2 = n + 3
    BY <1>1
  <2> QED
    BY <1>3, <2>1 DEF MarkerAt
<1>7. MarkersIn(p) = {n + 1}
  <2>1. MarkersIn(p) = {i \in 2..n + 1 : SubSeq(p, i, i + 2) = LfsMarker}
    <3>1. Len(p) - Len(LfsMarker) = n + 1
      BY <1>1, <1>2, MarkerFacts
    <3>2. \A i \in 2..n + 1 : i + Len(LfsMarker) - 1 = i + 2
      BY <1>1, MarkerFacts
    <3> QED
      BY <3>1, <3>2 DEF MarkersIn
  <2>2. \A i \in 2..n + 1 : i \in 2..n \/ i = n + 1
    BY <1>1
  <2>3. n + 1 \in 2..n + 1
    BY <1>1
  <2> QED
    BY <1>4, <1>5, <1>6, <2>1, <2>2, <2>3
<1>8. SubSeq(p, 1, n) = Repo
  <2>1. Repo \in Seq(Parts) /\ Len(Repo) = n
    BY RepoParts DEF n
  <2>2. SubSeq(p, 1, n) \in Seq(Parts) /\ Len(SubSeq(p, 1, n)) = n
        /\ \A i \in 1..n : SubSeq(p, 1, n)[i] = p[i]
    BY <1>1, <1>2
  <2> QED
    BY <1>3, <2>1, <2>2, SeqEqual
<1>9. TrimStart(Href(o)) = p
  BY TrimHref DEF p
<1>10. p[Len(p)] = Plain(o) /\ p[Len(p)].text = o /\ p[Len(p)] \in {Plain(q) : q \in Oids}
  BY <1>2, <1>3 DEF Plain
<1> DEFINE at  == {i \in MarkersIn(p) : \A j \in MarkersIn(p) : i <= j}
           hit == {j \in at : /\ Len(p) = j + Len(LfsMarker)
                              /\ p[Len(p)] \in {Plain(q) : q \in Oids}}
<1>11. at = {n + 1}
  BY <1>1, <1>7
<1>12. hit = {n + 1}
  <2>1. Len(p) = n + 1 + Len(LfsMarker)
    BY <1>1, <1>2, MarkerFacts
  <2> HIDE DEF at
  <2> QED
    BY <1>10, <1>11, <2>1
<1> DEFINE Found(i) == [repo |-> SubSeq(p, 1, i - 1), oid |-> p[Len(p)].text]
<1>13. lfs_object_from_path(Href(o), Oids) = {Found(i) : i \in hit}
  BY <1>9 DEF lfs_object_from_path
<1>14. {Found(i) : i \in hit} = {Found(n + 1)}
  <2> HIDE DEF Found, hit
  <2> QED
    BY <1>12
<1>15. (n + 1) - 1 = n
  BY <1>1
<1>16. Found(n + 1) = [repo |-> Repo, oid |-> o]
  <2>1. SubSeq(p, 1, (n + 1) - 1) = Repo
    BY <1>8, <1>15
  <2>2. p[Len(p)].text = o
    BY <1>10
  <2> QED
    BY <2>1, <2>2
<1> HIDE DEF Found
<1> QED
  BY <1>13, <1>14, <1>16, Zenon

(* What a path ends in.                                                    *)
LEMMA SuffixLast ==
    ASSUME NEW S, NEW p \in Seq(S), NEW T, NEW s \in Seq(T), Len(s) >= 1,
           HasSuffix(p, s)
    PROVE  p[Len(p)] = s[Len(s)]
<1>1. Len(p) \in Nat /\ Len(s) \in Nat /\ Len(s) <= Len(p)
      /\ SubSeq(p, Len(p) - Len(s) + 1, Len(p)) = s
  BY DEF HasSuffix
<1>2. SubSeq(p, Len(p) - Len(s) + 1, Len(p))[Len(s)] = p[Len(p)]
  BY <1>1
<1> QED
  BY <1>1, <1>2

(* git's endpoints end in words that are no object ids.                    *)
LEMMA EndpointFacts ==
    /\ GitReceive \in Seq({Plain("git-receive-pack")}) /\ Len(GitReceive) = 1
    /\ GitReceive[1] = Plain("git-receive-pack")
    /\ InfoRefs \in Seq({Plain("info"), Plain("refs")}) /\ Len(InfoRefs) = 2
    /\ InfoRefs[2] = Plain("refs")
<1>1. /\ GitReceive \in [1..1 -> {Plain("git-receive-pack")}] /\ Len(GitReceive) = 1
      /\ GitReceive[1] = Plain("git-receive-pack")
  <2> DEFINE t == <<"git-receive-pack">>
  <2>1. Len(t) = 1 /\ t[1] = "git-receive-pack" /\ \A i \in 1..1 : i = 1
    OBVIOUS
  <2>2. GitReceive = [i \in 1..Len(t) |-> Plain(t[i])]
    BY DEF GitReceive, Path
  <2> HIDE DEF t
  <2> QED
    BY <2>1, <2>2
<1>2. /\ InfoRefs \in [1..2 -> {Plain("info"), Plain("refs")}] /\ Len(InfoRefs) = 2
      /\ InfoRefs[2] = Plain("refs")
  <2> DEFINE t == <<"info", "refs">>
  <2>1. Len(t) = 2 /\ t[1] = "info" /\ t[2] = "refs" /\ \A i \in 1..2 : i = 1 \/ i = 2
    OBVIOUS
  <2>2. InfoRefs = [i \in 1..Len(t) |-> Plain(t[i])]
    BY DEF InfoRefs, Path
  <2> HIDE DEF t
  <2>3. InfoRefs = [i \in 1..2 |-> Plain(t[i])]
    BY <2>1, <2>2
  <2> QED
    BY <2>1, <2>3
<1>3. GitReceive \in Seq({Plain("git-receive-pack")})
  BY <1>1, SeqDef
<1>4. InfoRefs \in Seq({Plain("info"), Plain("refs")})
  BY <1>2, SeqDef
<1> QED
  BY <1>1, <1>2, <1>3, <1>4

(* handle_git takes such a path for what it is.                            *)
LEMMA HrefRouted ==
    ASSUME NEW o \in Oids
    PROVE  Route("GET", Href(o), "none", Oids) = "lfs_object"
<1>1. Href(o) \in Seq(Parts) /\ Href(o)[Len(Href(o))] = Plain(o)
  BY HrefFacts
<1>2. o # "git-receive-pack" /\ o # "refs"
  BY OidsAssumption
<1>3. ~HasSuffix(Href(o), GitReceive)
  <2>1. Plain(o) # Plain("git-receive-pack")
    BY <1>2 DEF Plain
  <2>2. Len(GitReceive) >= 1 /\ GitReceive[Len(GitReceive)] = Plain("git-receive-pack")
    BY EndpointFacts
  <2>3. HasSuffix(Href(o), GitReceive) =>
          Href(o)[Len(Href(o))] = GitReceive[Len(GitReceive)]
    BY <1>1, <2>2, EndpointFacts, SuffixLast
  <2> QED
    BY <1>1, <2>1, <2>2, <2>3
<1>4. ~HasSuffix(Href(o), InfoRefs)
  <2>1. Plain(o) # Plain("refs")
    BY <1>2 DEF Plain
  <2>2. Len(InfoRefs) >= 1 /\ InfoRefs[Len(InfoRefs)] = Plain("refs")
    BY EndpointFacts
  <2>3. HasSuffix(Href(o), InfoRefs) => Href(o)[Len(Href(o))] = InfoRefs[Len(InfoRefs)]
    BY <1>1, <2>2, EndpointFacts, SuffixLast
  <2> QED
    BY <1>1, <2>1, <2>2, <2>3
<1>5. lfs_object_from_path(Href(o), Oids) # {}
  BY HrefLeads
<1> QED
  BY <1>3, <1>4, <1>5 DEF Route

-----------------------------------------------------------------------------
(* Types.                                                                  *)

(* What comes of a request's first look at the store.                      *)
LEMMA GetLooks ==
    ASSUME NEW r \in Requests, Get(r)
    PROVE  /\ pc[r] = "get"
           /\ \/ /\ Route("GET", link[r], "none", Oids) # "lfs_object"
                 /\ pc' = [pc EXCEPT ![r] = "not_found"]
              \/ Object(r) # "none" /\ pc' = [pc EXCEPT ![r] = "open"]
              \/ pc' = [pc EXCEPT ![r] = "queued"]
           /\ UNCHANGED <<client, store, holder, temp, late, history>>
<1> DEFINE routed == Route("GET", link[r], "none", Oids) = "lfs_object"
<1>1. routed => \E seen \in Seen(r) :
                  pc' = [pc EXCEPT ![r] = IF seen THEN "open" ELSE "queued"]
  BY DEF Get, Goto
<1>2. ~routed => pc' = [pc EXCEPT ![r] = "not_found"]
  BY DEF Get, Goto
<1>3. pc[r] = "get" /\ UNCHANGED <<client, store, holder, temp, late, history>>
  BY DEF Get
<1>4. \A seen \in Seen(r) : seen => Object(r) # "none"
  BY DEF Seen
<1> HIDE DEF routed
<1> QED
  BY <1>1, <1>2, <1>3, <1>4 DEF routed

(* A request that meets a fault has met one.                               *)
LEMMA MeetBlames ==
    ASSUME TypeOK, NEW r \in Requests, NEW fault, Meet(r, fault)
    PROVE  /\ met'[r] # {} /\ \A q \in Requests \ {r} : met'[q] = met[q]
           /\ UNCHANGED linked
BY DEF TypeOK, Meet

(* No step takes a variable out of its type; whoever leaves its work frees *)
(* the slot it holds.                                                      *)
LEMMA NextType == TypeOK /\ [Next]_vars => TypeOK'
<1> SUFFICES ASSUME TypeOK, [Next]_vars PROVE TypeOK'
  OBVIOUS
<1> USE LfsStoreAssumption
    DEF client, history, Goto, Holding, Results, Contents, FaultKinds
<1>1. ASSUME NEW r \in Requests, Batch(r) PROVE TypeOK'
  BY <1>1 DEF TypeOK, Batch, Rewrite
<1>2. ASSUME NEW r \in Requests, BatchUpload(r) PROVE TypeOK'
  BY <1>2 DEF TypeOK, BatchUpload
<1>3. ASSUME NEW r \in Requests, BatchUnavailable(r) PROVE TypeOK'
  BY <1>3 DEF TypeOK, BatchUnavailable
<1>4. ASSUME NEW r \in Requests, BatchFails(r) PROVE TypeOK'
  BY <1>4 DEF TypeOK, BatchFails, Meet
<1>5. ASSUME NEW r \in Requests, Bare(r) PROVE TypeOK'
  BY <1>5 DEF TypeOK, Bare, Rewrite
<1>6. ASSUME NEW r \in Requests, Get(r) PROVE TypeOK'
  BY <1>6, GetLooks DEF TypeOK
<1>7. ASSUME NEW r \in Requests, Acquire(r) PROVE TypeOK'
  BY <1>7 DEF TypeOK, Acquire
<1>8. ASSUME NEW r \in Requests, Recheck(r) PROVE TypeOK'
  BY <1>8 DEF TypeOK, Recheck, Release, Seen, Object
<1>9. ASSUME NEW r \in Requests, Rebatch(r) PROVE TypeOK'
  BY <1>9 DEF TypeOK, Rebatch
<1>10. ASSUME NEW r \in Requests, RebatchFails(r) PROVE TypeOK'
  BY <1>10 DEF TypeOK, RebatchFails, Meet, Release
<1>11. ASSUME NEW r \in Requests, Download(r) PROVE TypeOK'
  BY <1>11 DEF TypeOK, Download
<1>12. ASSUME NEW r \in Requests, DownloadFails(r) PROVE TypeOK'
  BY <1>12 DEF TypeOK, DownloadFails, Discard, Meet, Release
<1>13. ASSUME NEW r \in Requests, Hash(r) PROVE TypeOK'
  BY <1>13 DEF TypeOK, Hash, Discard, Meet, Release
<1>14. ASSUME NEW r \in Requests, StoreFails(r) PROVE TypeOK'
  BY <1>14 DEF TypeOK, StoreFails, Meet, Release
<1>15. ASSUME NEW r \in Requests, Rename(r) PROVE TypeOK'
  BY <1>15 DEF TypeOK, Rename, Move, Release
<1>16. ASSUME NEW r \in Requests, Open(r) PROVE TypeOK'
  BY <1>16 DEF TypeOK, Open, Object
<1>17. ASSUME NEW r \in Requests, Drop(r) PROVE TypeOK'
  BY <1>17 DEF TypeOK, Drop
<1>18. ASSUME NEW r \in Requests, LateRename(r) PROVE TypeOK'
  BY <1>18 DEF TypeOK, LateRename, Move
<1>19. ASSUME NEW o \in Oids, Evict(o) PROVE TypeOK'
  BY <1>19 DEF TypeOK, Evict
<1>20. CASE Restart
  BY <1>20 DEF TypeOK, Restart
<1>21. CASE UNCHANGED vars
  BY <1>21 DEF TypeOK, vars
<1>22. ASSUME NEW r \in Requests, OpenFails(r) PROVE TypeOK'
  BY <1>22 DEF TypeOK, OpenFails, Object, Meet
<1> QED
  BY <1>1, <1>2, <1>3, <1>4, <1>5, <1>6, <1>7, <1>8, <1>9, <1>10, <1>11,
     <1>12, <1>13, <1>14, <1>15, <1>16, <1>17, <1>18, <1>19, <1>20, <1>21,
     <1>22
     DEF Next, Proceed

(* Every variable stays within its type, and a slot is held only by a      *)
(* request that is at work on its object, however requests end.            *)
THEOREM TypeCorrect == Spec => []TypeOK
<1>1. Init => TypeOK
  BY LfsStoreAssumption DEF Init, TypeOK, Contents, FaultKinds
<1> QED
  BY <1>1, NextType, PTL DEF Spec

-----------------------------------------------------------------------------
(***************************************************************************)
(* The inductive invariant, part by part.                                  *)
(***************************************************************************)

(* Who is at work on an object holds its slot.                             *)
Slots == \A r \in Requests : pc[r] \in Holding => holder[wanted[r]] = r

(* What is about to be renamed has been hashed, by its request or before   *)
(* that one was dropped.                                                   *)
Verified ==
    /\ OnlyVerified
    /\ \A r \in Requests : pc[r] = "rename" => temp[r] = "right"
    /\ \A r \in late : pc[r] = "dropped" /\ temp[r] = "right"

(* Past the second check the object is missing, and nobody else stores it  *)
(* while the slot is held, but for a late rename.                          *)
Missing ==
    \A r \in Requests : pc[r] \in Holding \ {"recheck"} =>
      Object(r) = "none" \/ wanted[r] \in excused

(* A request has no temporary file before its download and after its       *)
(* rename.                                                                 *)
Clean ==
    /\ TempsOwned
    /\ \A r \in Requests :
         pc[r] \in {"new", "get", "queued", "recheck", "rebatch", "open"} =>
           temp[r] = "none"

(* A link from the batch API is the object's own and comes with a size.    *)
Linked ==
    /\ link \in [Requests -> {<<>>} \cup {Href(o) : o \in Oids}]
    /\ \A r \in Requests :
         /\ r \in linked \/ pc[r] = "get" => link[r] = Href(wanted[r])
         /\ r \in linked => pc[r] # "new" /\ size[r] = "given"

(* A file that was found is there until the evictor takes it, and a client *)
(* with such a link fails for a fault alone.                               *)
Blamed ==
    \A r \in Requests :
      /\ pc[r] = "open" => Object(r) # "none" \/ met[r] # {}
      /\ r \in linked /\ pc[r] \in {"not_found", "bad_gateway", "error"} =>
           met[r] # {}

(* A request keeps its slot until it is done: nobody else frees it or      *)
(* takes it over.                                                          *)
LEMMA NextSlots == TypeOK /\ Slots /\ [Next]_vars => Slots'
<1> SUFFICES ASSUME TypeOK, Slots, [Next]_vars PROVE Slots'
  OBVIOUS
<1> USE LfsStoreAssumption
    DEF client, history, Goto, Holding, Results, Contents, FaultKinds
<1>1. ASSUME NEW r \in Requests, Batch(r) PROVE Slots'
  BY <1>1 DEF TypeOK, Slots, Batch, Rewrite
<1>2. ASSUME NEW r \in Requests, BatchUpload(r) PROVE Slots'
  BY <1>2 DEF TypeOK, Slots, BatchUpload
<1>3. ASSUME NEW r \in Requests, BatchUnavailable(r) PROVE Slots'
  BY <1>3 DEF TypeOK, Slots, BatchUnavailable
<1>4. ASSUME NEW r \in Requests, BatchFails(r) PROVE Slots'
  BY <1>4 DEF TypeOK, Slots, BatchFails, Meet
<1>5. ASSUME NEW r \in Requests, Bare(r) PROVE Slots'
  BY <1>5 DEF TypeOK, Slots, Bare, Rewrite
<1>6. ASSUME NEW r \in Requests, Get(r) PROVE Slots'
  BY <1>6, GetLooks DEF TypeOK, Slots
<1>7. ASSUME NEW r \in Requests, Acquire(r) PROVE Slots'
  BY <1>7, LfsStoreAssumption DEF TypeOK, Slots, Acquire
<1>8. ASSUME NEW r \in Requests, Recheck(r) PROVE Slots'
  BY <1>8 DEF TypeOK, Slots, Recheck, Release, Seen, Object
<1>9. ASSUME NEW r \in Requests, Rebatch(r) PROVE Slots'
  BY <1>9 DEF TypeOK, Slots, Rebatch
<1>10. ASSUME NEW r \in Requests, RebatchFails(r) PROVE Slots'
  BY <1>10 DEF TypeOK, Slots, RebatchFails, Meet, Release
<1>11. ASSUME NEW r \in Requests, Download(r) PROVE Slots'
  BY <1>11 DEF TypeOK, Slots, Download
<1>12. ASSUME NEW r \in Requests, DownloadFails(r) PROVE Slots'
  BY <1>12 DEF TypeOK, Slots, DownloadFails, Discard, Meet, Release
<1>13. ASSUME NEW r \in Requests, Hash(r) PROVE Slots'
  BY <1>13 DEF TypeOK, Slots, Hash, Discard, Meet, Release
<1>14. ASSUME NEW r \in Requests, StoreFails(r) PROVE Slots'
  BY <1>14 DEF TypeOK, Slots, StoreFails, Meet, Release
<1>15. ASSUME NEW r \in Requests, Rename(r) PROVE Slots'
  BY <1>15 DEF TypeOK, Slots, Rename, Move, Release
<1>16. ASSUME NEW r \in Requests, Open(r) PROVE Slots'
  BY <1>16 DEF TypeOK, Slots, Open, Object
<1>17. ASSUME NEW r \in Requests, Drop(r) PROVE Slots'
  BY <1>17 DEF TypeOK, Slots, Drop
<1>18. ASSUME NEW r \in Requests, LateRename(r) PROVE Slots'
  BY <1>18 DEF TypeOK, Slots, LateRename, Move
<1>19. ASSUME NEW o \in Oids, Evict(o) PROVE Slots'
  BY <1>19 DEF TypeOK, Slots, Evict
<1>20. CASE Restart
  BY <1>20 DEF TypeOK, Slots, Restart
<1>21. CASE UNCHANGED vars
  BY <1>21 DEF TypeOK, Slots, vars
<1>22. ASSUME NEW r \in Requests, OpenFails(r) PROVE Slots'
  BY <1>22 DEF TypeOK, Slots, OpenFails, Object, Meet
<1> QED
  BY <1>1, <1>2, <1>3, <1>4, <1>5, <1>6, <1>7, <1>8, <1>9, <1>10, <1>11,
     <1>12, <1>13, <1>14, <1>15, <1>16, <1>17, <1>18, <1>19, <1>20, <1>21,
     <1>22
     DEF Next, Proceed

(* Only what was hashed comes into the store.                              *)
LEMMA NextVerified == TypeOK /\ Verified /\ [Next]_vars => Verified'
<1> SUFFICES ASSUME TypeOK, Verified, [Next]_vars PROVE Verified'
  OBVIOUS
<1> USE LfsStoreAssumption
    DEF client, history, Goto, Holding, Results, Contents, FaultKinds
<1>1. ASSUME NEW r \in Requests, Batch(r) PROVE Verified'
  BY <1>1 DEF TypeOK, Verified, OnlyVerified, Batch, Rewrite
<1>2. ASSUME NEW r \in Requests, BatchUpload(r) PROVE Verified'
  BY <1>2 DEF TypeOK, Verified, OnlyVerified, BatchUpload
<1>3. ASSUME NEW r \in Requests, BatchUnavailable(r) PROVE Verified'
  BY <1>3 DEF TypeOK, Verified, OnlyVerified, BatchUnavailable
<1>4. ASSUME NEW r \in Requests, BatchFails(r) PROVE Verified'
  BY <1>4 DEF TypeOK, Verified, OnlyVerified, BatchFails, Meet
<1>5. ASSUME NEW r \in Requests, Bare(r) PROVE Verified'
  BY <1>5 DEF TypeOK, Verified, OnlyVerified, Bare, Rewrite
<1>6. ASSUME NEW r \in Requests, Get(r) PROVE Verified'
  BY <1>6, GetLooks DEF TypeOK, Verified, OnlyVerified
<1>7. ASSUME NEW r \in Requests, Acquire(r) PROVE Verified'
  BY <1>7 DEF TypeOK, Verified, OnlyVerified, Acquire
<1>8. ASSUME NEW r \in Requests, Recheck(r) PROVE Verified'
  BY <1>8 DEF TypeOK, Verified, OnlyVerified, Recheck, Release, Seen, Object
<1>9. ASSUME NEW r \in Requests, Rebatch(r) PROVE Verified'
  BY <1>9 DEF TypeOK, Verified, OnlyVerified, Rebatch
<1>10. ASSUME NEW r \in Requests, RebatchFails(r) PROVE Verified'
  BY <1>10 DEF TypeOK, Verified, OnlyVerified, RebatchFails, Meet, Release
<1>11. ASSUME NEW r \in Requests, Download(r) PROVE Verified'
  BY <1>11 DEF TypeOK, Verified, OnlyVerified, Download
<1>12. ASSUME NEW r \in Requests, DownloadFails(r) PROVE Verified'
  BY <1>12 DEF TypeOK, Verified, OnlyVerified, DownloadFails, Discard, Meet, Release
<1>13. ASSUME NEW r \in Requests, Hash(r) PROVE Verified'
  BY <1>13 DEF TypeOK, Verified, OnlyVerified, Hash, Discard, Meet, Release
<1>14. ASSUME NEW r \in Requests, StoreFails(r) PROVE Verified'
  BY <1>14 DEF TypeOK, Verified, OnlyVerified, StoreFails, Meet, Release
<1>15. ASSUME NEW r \in Requests, Rename(r) PROVE Verified'
  BY <1>15 DEF TypeOK, Verified, OnlyVerified, Rename, Move, Release
<1>16. ASSUME NEW r \in Requests, Open(r) PROVE Verified'
  BY <1>16 DEF TypeOK, Verified, OnlyVerified, Open, Object
<1>17. ASSUME NEW r \in Requests, Drop(r) PROVE Verified'
  BY <1>17 DEF TypeOK, Verified, OnlyVerified, Drop
<1>18. ASSUME NEW r \in Requests, LateRename(r) PROVE Verified'
  BY <1>18 DEF TypeOK, Verified, OnlyVerified, LateRename, Move
<1>19. ASSUME NEW o \in Oids, Evict(o) PROVE Verified'
  BY <1>19 DEF TypeOK, Verified, OnlyVerified, Evict
<1>20. CASE Restart
  BY <1>20 DEF TypeOK, Verified, OnlyVerified, Restart
<1>21. CASE UNCHANGED vars
  BY <1>21 DEF TypeOK, Verified, OnlyVerified, vars
<1>22. ASSUME NEW r \in Requests, OpenFails(r) PROVE Verified'
  BY <1>22 DEF TypeOK, Verified, OnlyVerified, OpenFails, Object, Meet
<1> QED
  BY <1>1, <1>2, <1>3, <1>4, <1>5, <1>6, <1>7, <1>8, <1>9, <1>10, <1>11,
     <1>12, <1>13, <1>14, <1>15, <1>16, <1>17, <1>18, <1>19, <1>20, <1>21,
     <1>22
     DEF Next, Proceed

(* Nobody stores an object behind the back of the slot's holder.           *)
LEMMA NextMissing == TypeOK /\ Slots /\ Missing /\ [Next]_vars => Missing'
<1> SUFFICES ASSUME TypeOK, Slots, Missing, [Next]_vars PROVE Missing'
  OBVIOUS
<1> USE LfsStoreAssumption
    DEF client, history, Goto, Holding, Results, Contents, FaultKinds
<1>1. ASSUME NEW r \in Requests, Batch(r) PROVE Missing'
  BY <1>1 DEF TypeOK, Slots, Missing, Object, Batch, Rewrite
<1>2. ASSUME NEW r \in Requests, BatchUpload(r) PROVE Missing'
  BY <1>2 DEF TypeOK, Slots, Missing, Object, BatchUpload
<1>3. ASSUME NEW r \in Requests, BatchUnavailable(r) PROVE Missing'
  BY <1>3 DEF TypeOK, Slots, Missing, Object, BatchUnavailable
<1>4. ASSUME NEW r \in Requests, BatchFails(r) PROVE Missing'
  BY <1>4 DEF TypeOK, Slots, Missing, Object, BatchFails, Meet
<1>5. ASSUME NEW r \in Requests, Bare(r) PROVE Missing'
  BY <1>5 DEF TypeOK, Slots, Missing, Object, Bare, Rewrite
<1>6. ASSUME NEW r \in Requests, Get(r) PROVE Missing'
  BY <1>6, GetLooks DEF TypeOK, Missing, Object
<1>7. ASSUME NEW r \in Requests, Acquire(r) PROVE Missing'
  BY <1>7 DEF TypeOK, Slots, Missing, Object, Acquire
<1>8. ASSUME NEW r \in Requests, Recheck(r) PROVE Missing'
  BY <1>8 DEF TypeOK, Slots, Missing, Object, Recheck, Release, Seen
<1>9. ASSUME NEW r \in Requests, Rebatch(r) PROVE Missing'
  BY <1>9 DEF TypeOK, Slots, Missing, Object, Rebatch
<1>10. ASSUME NEW r \in Requests, RebatchFails(r) PROVE Missing'
  BY <1>10 DEF TypeOK, Slots, Missing, Object, RebatchFails, Meet, Release
<1>11. ASSUME NEW r \in Requests, Download(r) PROVE Missing'
  BY <1>11 DEF TypeOK, Slots, Missing, Object, Download
<1>12. ASSUME NEW r \in Requests, DownloadFails(r) PROVE Missing'
  BY <1>12 DEF TypeOK, Slots, Missing, Object, DownloadFails, Discard, Meet, Release
<1>13. ASSUME NEW r \in Requests, Hash(r) PROVE Missing'
  BY <1>13 DEF TypeOK, Slots, Missing, Object, Hash, Discard, Meet, Release
<1>14. ASSUME NEW r \in Requests, StoreFails(r) PROVE Missing'
  BY <1>14 DEF TypeOK, Slots, Missing, Object, StoreFails, Meet, Release
<1>15. ASSUME NEW r \in Requests, Rename(r) PROVE Missing'
  BY <1>15 DEF TypeOK, Slots, Missing, Object, Rename, Move, Release
<1>16. ASSUME NEW r \in Requests, Open(r) PROVE Missing'
  BY <1>16 DEF TypeOK, Slots, Missing, Object, Open
<1>17. ASSUME NEW r \in Requests, Drop(r) PROVE Missing'
  BY <1>17 DEF TypeOK, Slots, Missing, Object, Drop
<1>18. ASSUME NEW r \in Requests, LateRename(r) PROVE Missing'
  BY <1>18 DEF TypeOK, Slots, Missing, Object, LateRename, Move
<1>19. ASSUME NEW o \in Oids, Evict(o) PROVE Missing'
  BY <1>19 DEF TypeOK, Slots, Missing, Object, Evict
<1>20. CASE Restart
  BY <1>20 DEF TypeOK, Slots, Missing, Object, Restart
<1>21. CASE UNCHANGED vars
  BY <1>21 DEF TypeOK, Slots, Missing, Object, vars
<1>22. ASSUME NEW r \in Requests, OpenFails(r) PROVE Missing'
  BY <1>22 DEF TypeOK, Slots, Missing, Object, OpenFails, Meet
<1> QED
  BY <1>1, <1>2, <1>3, <1>4, <1>5, <1>6, <1>7, <1>8, <1>9, <1>10, <1>11,
     <1>12, <1>13, <1>14, <1>15, <1>16, <1>17, <1>18, <1>19, <1>20, <1>21,
     <1>22
     DEF Next, Proceed

(* Every way out of a download removes its file, or has an excuse.         *)
LEMMA NextClean == TypeOK /\ Verified /\ Clean /\ [Next]_vars => Clean'
<1> SUFFICES ASSUME TypeOK, Verified, Clean, [Next]_vars PROVE Clean'
  OBVIOUS
<1> USE LfsStoreAssumption
    DEF client, history, Goto, Holding, Results, Contents, FaultKinds
<1>1. ASSUME NEW r \in Requests, Batch(r) PROVE Clean'
  BY <1>1 DEF TypeOK, Verified, Clean, TempsOwned, Batch, Rewrite
<1>2. ASSUME NEW r \in Requests, BatchUpload(r) PROVE Clean'
  BY <1>2 DEF TypeOK, Verified, Clean, TempsOwned, BatchUpload
<1>3. ASSUME NEW r \in Requests, BatchUnavailable(r) PROVE Clean'
  BY <1>3 DEF TypeOK, Verified, Clean, TempsOwned, BatchUnavailable
<1>4. ASSUME NEW r \in Requests, BatchFails(r) PROVE Clean'
  BY <1>4 DEF TypeOK, Verified, Clean, TempsOwned, BatchFails, Meet
<1>5. ASSUME NEW r \in Requests, Bare(r) PROVE Clean'
  BY <1>5 DEF TypeOK, Verified, Clean, TempsOwned, Bare, Rewrite
<1>6. ASSUME NEW r \in Requests, Get(r) PROVE Clean'
  BY <1>6, GetLooks DEF TypeOK, Clean, TempsOwned
<1>7. ASSUME NEW r \in Requests, Acquire(r) PROVE Clean'
  BY <1>7 DEF TypeOK, Verified, Clean, TempsOwned, Acquire
<1>8. ASSUME NEW r \in Requests, Recheck(r) PROVE Clean'
  BY <1>8 DEF TypeOK, Verified, Clean, TempsOwned, Recheck, Release, Seen, Object
<1>9. ASSUME NEW r \in Requests, Rebatch(r) PROVE Clean'
  BY <1>9 DEF TypeOK, Verified, Clean, TempsOwned, Rebatch
<1>10. ASSUME NEW r \in Requests, RebatchFails(r) PROVE Clean'
  BY <1>10 DEF TypeOK, Verified, Clean, TempsOwned, RebatchFails, Meet, Release
<1>11. ASSUME NEW r \in Requests, Download(r) PROVE Clean'
  BY <1>11 DEF TypeOK, Verified, Clean, TempsOwned, Download
<1>12. ASSUME NEW r \in Requests, DownloadFails(r) PROVE Clean'
  BY <1>12 DEF TypeOK, Verified, Clean, TempsOwned, DownloadFails, Discard, Meet, Release
<1>13. ASSUME NEW r \in Requests, Hash(r) PROVE Clean'
  BY <1>13 DEF TypeOK, Verified, Clean, TempsOwned, Hash, Discard, Meet, Release
<1>14. ASSUME NEW r \in Requests, StoreFails(r) PROVE Clean'
  BY <1>14 DEF TypeOK, Verified, Clean, TempsOwned, StoreFails, Meet, Release
<1>15. ASSUME NEW r \in Requests, Rename(r) PROVE Clean'
  BY <1>15 DEF TypeOK, Verified, Clean, TempsOwned, Rename, Move, Release
<1>16. ASSUME NEW r \in Requests, Open(r) PROVE Clean'
  BY <1>16 DEF TypeOK, Verified, Clean, TempsOwned, Open, Object
<1>17. ASSUME NEW r \in Requests, Drop(r) PROVE Clean'
  BY <1>17 DEF TypeOK, Verified, Clean, TempsOwned, Drop
<1>18. ASSUME NEW r \in Requests, LateRename(r) PROVE Clean'
  BY <1>18 DEF TypeOK, Verified, Clean, TempsOwned, LateRename, Move
<1>19. ASSUME NEW o \in Oids, Evict(o) PROVE Clean'
  BY <1>19 DEF TypeOK, Verified, Clean, TempsOwned, Evict
<1>20. CASE Restart
  BY <1>20 DEF TypeOK, Verified, Clean, TempsOwned, Restart
<1>21. CASE UNCHANGED vars
  BY <1>21 DEF TypeOK, Verified, Clean, TempsOwned, vars
<1>22. ASSUME NEW r \in Requests, OpenFails(r) PROVE Clean'
  BY <1>22 DEF TypeOK, Verified, Clean, TempsOwned, OpenFails, Object, Meet
<1> QED
  BY <1>1, <1>2, <1>3, <1>4, <1>5, <1>6, <1>7, <1>8, <1>9, <1>10, <1>11,
     <1>12, <1>13, <1>14, <1>15, <1>16, <1>17, <1>18, <1>19, <1>20, <1>21,
     <1>22
     DEF Next, Proceed

(* Links stay what they are.                                              *)
LEMMA NextLinked == TypeOK /\ Linked /\ [Next]_vars => Linked'
<1> SUFFICES ASSUME TypeOK, Linked, [Next]_vars PROVE Linked'
  OBVIOUS
<1> USE LfsStoreAssumption
    DEF client, history, Goto, Holding, Results, Contents, FaultKinds
<1>1. ASSUME NEW r \in Requests, Batch(r) PROVE Linked'
  <2>1. PICK path \in BatchPaths, sized \in BOOLEAN :
          \E repo \in lfs_batch_repo(path) :
            /\ link' = [link EXCEPT ![r] = Rewrite(repo, wanted[r], sized).path]
            /\ size' = [size EXCEPT ![r] = Rewrite(repo, wanted[r], sized).size]
    BY <1>1 DEF Batch
  <2>2. /\ link' = [link EXCEPT ![r] = Rewrite(Repo, wanted[r], sized).path]
        /\ size' = [size EXCEPT ![r] = Rewrite(Repo, wanted[r], sized).size]
    <3>1. lfs_batch_repo(path) = {Repo}
      BY RepoAssumption
    <3>2. \A repo \in lfs_batch_repo(path) : repo = Repo
      BY <3>1
    <3> QED
      BY <2>1, <3>2
  <2>3. /\ link' = [link EXCEPT ![r] = Href(wanted[r])]
        /\ size' = [size EXCEPT ![r] = "given"]
    BY <2>2 DEF Rewrite, Href
  <2> QED
    BY <1>1, <2>3 DEF TypeOK, Linked, Batch
<1>2. ASSUME NEW r \in Requests, BatchUpload(r) PROVE Linked'
  BY <1>2 DEF TypeOK, Linked, BatchUpload
<1>3. ASSUME NEW r \in Requests, BatchUnavailable(r) PROVE Linked'
  BY <1>3 DEF TypeOK, Linked, BatchUnavailable
<1>4. ASSUME NEW r \in Requests, BatchFails(r) PROVE Linked'
  BY <1>4 DEF TypeOK, Linked, BatchFails, Meet
<1>5. ASSUME NEW r \in Requests, Bare(r) PROVE Linked'
  <2>1. link' = [link EXCEPT ![r] = Href(wanted[r])]
    BY <1>5 DEF Bare, Rewrite, Href
  <2>2. link' \in [Requests -> {<<>>} \cup {Href(o) : o \in Oids}]
    BY <2>1 DEF TypeOK, Linked
  <2>3. \A q \in Requests : link'[q] = IF q = r THEN Href(wanted[r]) ELSE link[q]
    BY <2>1 DEF Linked
  <2>4. /\ r \notin linked /\ pc' = [pc EXCEPT ![r] = "get"]
        /\ UNCHANGED <<wanted, size, linked>>
    BY <1>5 DEF Linked, Bare
  <2> QED
    BY <2>2, <2>3, <2>4 DEF TypeOK, Linked
<1>6. ASSUME NEW r \in Requests, Get(r) PROVE Linked'
  BY <1>6, GetLooks DEF TypeOK, Linked
<1>7. ASSUME NEW r \in Requests, Acquire(r) PROVE Linked'
  BY <1>7 DEF TypeOK, Linked, Acquire
<1>8. ASSUME NEW r \in Requests, Recheck(r) PROVE Linked'
  BY <1>8 DEF TypeOK, Linked, Recheck, Release, Seen, Object
<1>9. ASSUME NEW r \in Requests, Rebatch(r) PROVE Linked'
  BY <1>9 DEF TypeOK, Linked, Rebatch
<1>10. ASSUME NEW r \in Requests, RebatchFails(r) PROVE Linked'
  BY <1>10 DEF TypeOK, Linked, RebatchFails, Meet, Release
<1>11. ASSUME NEW r \in Requests, Download(r) PROVE Linked'
  BY <1>11 DEF TypeOK, Linked, Download
<1>12. ASSUME NEW r \in Requests, DownloadFails(r) PROVE Linked'
  BY <1>12 DEF TypeOK, Linked, DownloadFails, Discard, Meet, Release
<1>13. ASSUME NEW r \in Requests, Hash(r) PROVE Linked'
  BY <1>13 DEF TypeOK, Linked, Hash, Discard, Meet, Release
<1>14. ASSUME NEW r \in Requests, StoreFails(r) PROVE Linked'
  BY <1>14 DEF TypeOK, Linked, StoreFails, Meet, Release
<1>15. ASSUME NEW r \in Requests, Rename(r) PROVE Linked'
  BY <1>15 DEF TypeOK, Linked, Rename, Move, Release
<1>16. ASSUME NEW r \in Requests, Open(r) PROVE Linked'
  BY <1>16 DEF TypeOK, Linked, Open, Object
<1>17. ASSUME NEW r \in Requests, Drop(r) PROVE Linked'
  BY <1>17 DEF TypeOK, Linked, Drop
<1>18. ASSUME NEW r \in Requests, LateRename(r) PROVE Linked'
  BY <1>18 DEF TypeOK, Linked, LateRename, Move
<1>19. ASSUME NEW o \in Oids, Evict(o) PROVE Linked'
  BY <1>19 DEF TypeOK, Linked, Evict
<1>20. CASE Restart
  BY <1>20 DEF TypeOK, Linked, Restart
<1>21. CASE UNCHANGED vars
  BY <1>21 DEF TypeOK, Linked, vars
<1>22. ASSUME NEW r \in Requests, OpenFails(r) PROVE Linked'
  BY <1>22 DEF TypeOK, Linked, OpenFails, Object, Meet
<1> QED
  BY <1>1, <1>2, <1>3, <1>4, <1>5, <1>6, <1>7, <1>8, <1>9, <1>10, <1>11,
     <1>12, <1>13, <1>14, <1>15, <1>16, <1>17, <1>18, <1>19, <1>20, <1>21,
     <1>22
     DEF Next, Proceed

(* No step fails a linked request without a fault.                         *)
LEMMA NextBlamed == TypeOK /\ Verified /\ Linked /\ Blamed /\ [Next]_vars => Blamed'
<1> SUFFICES ASSUME TypeOK, Verified, Linked, Blamed, [Next]_vars PROVE Blamed'
  OBVIOUS
<1> USE LfsStoreAssumption
    DEF client, history, Goto, Holding, Results, Contents, FaultKinds
<1>1. ASSUME NEW r \in Requests, Batch(r) PROVE Blamed'
  BY <1>1 DEF TypeOK, Linked, Blamed, Object, Batch, Rewrite
<1>2. ASSUME NEW r \in Requests, BatchUpload(r) PROVE Blamed'
  BY <1>2 DEF TypeOK, Linked, Blamed, Object, BatchUpload
<1>3. ASSUME NEW r \in Requests, BatchUnavailable(r) PROVE Blamed'
  BY <1>3 DEF TypeOK, Linked, Blamed, Object, BatchUnavailable
<1>4. ASSUME NEW r \in Requests, BatchFails(r) PROVE Blamed'
  BY <1>4 DEF TypeOK, Linked, Blamed, Object, BatchFails, Meet
<1>5. ASSUME NEW r \in Requests, Bare(r) PROVE Blamed'
  BY <1>5 DEF TypeOK, Linked, Blamed, Object, Bare, Rewrite
<1>6. ASSUME NEW r \in Requests, Get(r) PROVE Blamed'
  <2>1. Route("GET", link[r], "none", Oids) = "lfs_object"
    BY <1>6, GetLooks, HrefRouted DEF TypeOK, Linked
  <2> QED
    BY <1>6, <2>1, GetLooks DEF TypeOK, Blamed, Object
<1>7. ASSUME NEW r \in Requests, Acquire(r) PROVE Blamed'
  BY <1>7 DEF TypeOK, Linked, Blamed, Object, Acquire
<1>8. ASSUME NEW r \in Requests, Recheck(r) PROVE Blamed'
  <2>1. PICK seen \in Seen(r) :
          IF seen THEN Goto(r, "open")
          ELSE IF size[r] = "none" THEN Goto(r, "bad_gateway")
          ELSE Goto(r, "rebatch")
    BY <1>8 DEF Recheck
  <2>2. seen => Object(r) # "none"
    BY DEF Seen
  <2>3. UNCHANGED <<wanted, size, store, linked, met>>
    BY <1>8 DEF Recheck
  <2> QED
    BY <2>1, <2>2, <2>3 DEF TypeOK, Linked, Blamed, Object
<1>9. ASSUME NEW r \in Requests, Rebatch(r) PROVE Blamed'
  BY <1>9 DEF TypeOK, Linked, Blamed, Object, Rebatch
<1>10. ASSUME NEW r \in Requests, RebatchFails(r) PROVE Blamed'
  BY <1>10, MeetBlames DEF TypeOK, Blamed, Object, RebatchFails
<1>11. ASSUME NEW r \in Requests, Download(r) PROVE Blamed'
  BY <1>11 DEF TypeOK, Linked, Blamed, Object, Download
<1>12. ASSUME NEW r \in Requests, DownloadFails(r) PROVE Blamed'
  BY <1>12, MeetBlames DEF TypeOK, Blamed, Object, DownloadFails, Discard
<1>13. ASSUME NEW r \in Requests, Hash(r) PROVE Blamed'
  BY <1>13, MeetBlames DEF TypeOK, Blamed, Object, Hash, Discard
<1>14. ASSUME NEW r \in Requests, StoreFails(r) PROVE Blamed'
  BY <1>14, MeetBlames DEF TypeOK, Blamed, Object, StoreFails
<1>15. ASSUME NEW r \in Requests, Rename(r) PROVE Blamed'
  BY <1>15 DEF TypeOK, Verified, Blamed, Object, Rename, Move, Release
<1>16. ASSUME NEW r \in Requests, Open(r) PROVE Blamed'
  BY <1>16 DEF TypeOK, Linked, Blamed, Object, Open
<1>17. ASSUME NEW r \in Requests, Drop(r) PROVE Blamed'
  BY <1>17 DEF TypeOK, Linked, Blamed, Object, Drop
<1>18. ASSUME NEW r \in Requests, LateRename(r) PROVE Blamed'
  BY <1>18 DEF TypeOK, Verified, Blamed, Object, LateRename, Move
<1>19. ASSUME NEW o \in Oids, Evict(o) PROVE Blamed'
  BY <1>19 DEF TypeOK, Linked, Blamed, Object, Evict
<1>20. CASE Restart
  BY <1>20 DEF TypeOK, Linked, Blamed, Object, Restart
<1>21. CASE UNCHANGED vars
  BY <1>21 DEF TypeOK, Linked, Blamed, Object, vars
<1>22. ASSUME NEW r \in Requests, OpenFails(r) PROVE Blamed'
  BY <1>22, MeetBlames DEF TypeOK, Linked, Blamed, Object, OpenFails
<1> QED
  BY <1>1, <1>2, <1>3, <1>4, <1>5, <1>6, <1>7, <1>8, <1>9, <1>10, <1>11,
     <1>12, <1>13, <1>14, <1>15, <1>16, <1>17, <1>18, <1>19, <1>20, <1>21,
     <1>22
     DEF Next, Proceed

-----------------------------------------------------------------------------
(* Each part needs only the types and parts before it; together they hold  *)
(* of every state.                                                         *)
IInv == TypeOK /\ Slots /\ Verified /\ Missing /\ Clean /\ Linked /\ Blamed

(* They hold at first, and every step keeps them.                          *)
LEMMA Inductive == Spec => []IInv
<1>1. Init => IInv
  <2> SUFFICES ASSUME Init PROVE IInv
    OBVIOUS
  <2>1. TypeOK
    BY LfsStoreAssumption DEF Init, TypeOK, Contents, FaultKinds
  <2>2. Slots /\ Verified /\ Missing /\ Clean /\ Blamed
    BY DEF Init, Slots, Verified, OnlyVerified, Missing, Clean, TempsOwned, Blamed,
       Object, Holding
  <2>3. Linked
    BY DEF Init, Linked
  <2> QED
    BY <2>1, <2>2, <2>3 DEF IInv
<1>2. IInv /\ [Next]_vars => IInv'
  BY NextType, NextSlots, NextVerified, NextMissing, NextClean, NextLinked, NextBlamed
     DEF IInv
<1> QED
  BY <1>1, <1>2, PTL DEF Spec

(* Nothing is stored or served but what hashes to the id it is asked by,   *)
(* whatever the upstream sends, and wherever a request is dropped, a disk  *)
(* operation fails or the process stops.                                   *)
THEOREM StoredIsVerified == Spec => []OnlyVerified
<1>1. IInv => OnlyVerified
  BY DEF IInv, Verified
<1> QED
  BY <1>1, Inductive, PTL

(* A link of the batch API, for any repository and any id, leads back to   *)
(* the object it was given for, and fails only for a fault that the        *)
(* request met.                                                            *)
THEOREM LinksLeadBack == Spec => []LinksLead
<1>1. ASSUME IInv PROVE LinksLead
  <2>1. linked \subseteq Requests /\ \A r \in Requests : wanted[r] \in Oids
    BY <1>1 DEF IInv, TypeOK
  <2>2. ASSUME NEW r \in linked
        PROVE  lfs_object_from_path(link[r], Oids) = {[repo |-> Repo, oid |-> wanted[r]]}
    <3>1. link[r] = Href(wanted[r])
      BY <1>1, <2>1 DEF IInv, Linked
    <3> QED
      BY <2>1, <3>1, HrefLeads
  <2>3. \A r \in linked : pc[r] \in {"not_found", "bad_gateway", "error"} => met[r] # {}
    BY <1>1, <2>1 DEF IInv, Blamed
  <2> QED
    BY <2>2, <2>3 DEF LinksLead
<1> QED
  BY <1>1, Inductive, PTL

(* Temporary files do not pile up while the process runs: every path       *)
(* through ensure_object but a disk error and a drop removes its own.      *)
THEOREM TempsAreOwned == Spec => []TempsOwned
<1>1. IInv => TempsOwned
  BY DEF IInv, Clean
<1> QED
  BY <1>1, Inductive, PTL

(* "single upstream download": who comes to rename a download finds no     *)
(* object there, but for the two exceptions that excused records.          *)
THEOREM DownloadsAreSingle == Spec => OneDownload
<1> DEFINE Single == \A r \in Requests :
                       pc[r] = "rename" /\ pc'[r] = "open" =>
                         Object(r) = "none" \/ wanted[r] \in excused
<1>1. IInv => Single
  BY DEF IInv, Missing, Holding
<1>2. IInv /\ [Next]_vars => [Single]_vars
  BY <1>1
<1>3. [][Single]_vars => OneDownload
  BY PTL DEF OneDownload
<1> QED
  BY <1>2, <1>3, Inductive, PTL DEF Spec

=============================================================================
