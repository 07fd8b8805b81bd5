--------------------------- MODULE RepoPathsProofs ---------------------------
(* Theorems about RepoPaths: which directories of the cache root can meet. *)
EXTENDS RepoPaths, TLAPS

Names == {n \in Seq(Components) : Resolves(n)}

(* What Sibling does to a name: it marks the last component.               *)
Marked(d, n, s) ==
    /\ Len(n) \in Nat \ {0}
    /\ d \in Seq(Components)
    /\ Len(d) = Len(n)
    /\ d[Len(n)].text = n[Len(n)].text /\ d[Len(n)].mark = s
    /\ \A i \in 1..Len(n) - 1 : d[i] = n[i]

LEMMA SiblingFacts ==
    ASSUME NEW n \in Names, NEW s \in Markers
    PROVE  Marked(Sibling(n, s), n, s)
<1>1. n \in Seq(Components) /\ n # <<>> /\ Len(n) \in Nat \ {0}
  BY DEF Names, Resolves
<1>2. n[Len(n)] \in Components
  BY <1>1
<1>3. [text |-> n[Len(n)].text, mark |-> s] \in Components
  BY <1>2 DEF Components
<1>4. Sibling(n, s) = [n EXCEPT ![Len(n)] = [text |-> n[Len(n)].text, mark |-> s]]
  BY DEF Sibling
<1> HIDE DEF Components
<1> QED
  BY <1>1, <1>3, <1>4 DEF Marked

(* No component of an accepted name carries a reserved marker.             *)
LEMMA NamesUnmarked ==
    ASSUME NEW n \in Names, NEW i \in 1..Len(n)
    PROVE  n[i].mark = "none"
BY DEF Names, Resolves

LEMMA MarkersMarked == "none" \notin Markers /\ Incoming \in Markers /\ Evicting \in Markers
                         /\ LfsDir \in Markers /\ Incoming # Evicting
BY DEF Markers, Incoming, Evicting, LfsDir

(* The first component that differs keeps one path out of another.         *)
LEMMA OutsideAt ==
    ASSUME NEW S, NEW T, NEW p \in Seq(S), NEW d \in Seq(T), NEW i \in 1..Len(d),
           i <= Len(p) => p[i] # d[i]
    PROVE  ~Within(p, d)
<1> SUFFICES ASSUME Within(p, d) PROVE FALSE
  OBVIOUS
<1>1. i <= Len(p) /\ SubSeq(p, 1, Len(d)) = d /\ Len(d) <= Len(p)
  BY DEF Within
<1>2. SubSeq(p, 1, Len(d))[i] = p[i]
  BY <1>1
<1> QED
  BY <1>1, <1>2

(* "so a request can never resolve onto another repo's in-flight clone     *)
(* directory", nor a mirror mid-eviction, nor the LFS store: no name that  *)
(* resolve accepts is, or is inside, one of these directories.             *)
THEOREM RequestsStayOut ==
    ASSUME NEW n \in Names, NEW m \in Names
    PROVE  /\ ~Within(cache_dir(m), staging_dir(n))
           /\ ~Within(cache_dir(m), trash_dir(n))
           /\ ~Within(cache_dir(m), <<LfsTop>>)
<1>1. ASSUME NEW s \in Markers PROVE ~Within(m, Sibling(n, s))
  <2> DEFINE d == Sibling(n, s)
  <2>1. Marked(d, n, s)
    BY SiblingFacts
  <2>2. m \in Seq(Components) /\ d \in Seq(Components) /\ Len(m) \in Nat
    BY <2>1 DEF Names, Marked
  <2> HIDE DEF d
  <2>3. Len(n) \in 1..Len(d) /\ d[Len(n)].mark # "none"
    BY <2>1, MarkersMarked DEF Marked
  <2>4. Len(n) <= Len(m) => m[Len(n)].mark = "none"
    BY <2>2, <2>3, NamesUnmarked
  <2>5. Len(n) <= Len(m) => m[Len(n)] # d[Len(n)]
    BY <2>3, <2>4
  <2>6. ~Within(m, d)
    BY <2>2, <2>3, <2>5, OutsideAt
  <2> QED
    BY <2>6 DEF d
<1>2. ~Within(m, <<LfsTop>>)
  <2>1. m \in Seq(Components) /\ Len(m) \in Nat
    BY DEF Names
  <2>2. 1 <= Len(m) => m[1].mark = "none"
    BY NamesUnmarked, <2>1
  <2>3. LfsTop.mark # "none"
    BY MarkersMarked DEF LfsTop
  <2> DEFINE d == <<LfsTop>>
  <2>4. d \in Seq({LfsTop}) /\ Len(d) = 1 /\ d[1] = LfsTop
    OBVIOUS
  <2> HIDE DEF d
  <2>5. 1 \in 1..Len(d) /\ (1 <= Len(m) => m[1] # d[1])
    BY <2>2, <2>3, <2>4
  <2>6. ~Within(m, d)
    BY <2>1, <2>4, <2>5, OutsideAt
  <2> QED
    BY <2>6 DEF d
<1> QED
  BY <1>1, <1>2, MarkersMarked DEF cache_dir, staging_dir, trash_dir

(* Two repositories never clone or evict through the same directory, and   *)
(* no clone meets an eviction or the LFS store: a slot per name is enough. *)
THEOREM SiblingsDistinct ==
    ASSUME NEW n \in Names, NEW m \in Names
    PROVE  /\ staging_dir(n) = staging_dir(m) => n = m
           /\ trash_dir(n) = trash_dir(m) => n = m
           /\ staging_dir(n) # trash_dir(m)
           /\ \A shard, oid \in STRING :
                lfs_object_path(shard, oid) \notin {staging_dir(n), trash_dir(n)}
<1>1. ASSUME NEW s \in Markers, NEW d, Marked(d, n, s), Marked(d, m, s)
      PROVE  n = m
  <2>1. Len(n) = Len(m) /\ Len(n) \in Nat \ {0}
    BY <1>1 DEF Marked
  <2>2. n \in Seq(Components) /\ m \in Seq(Components)
    BY DEF Names
  <2>3. n[Len(n)] = m[Len(n)]
    <3>1. n[Len(n)] \in Components /\ m[Len(n)] \in Components
      BY <2>1, <2>2
    <3>2. n[Len(n)].text = m[Len(n)].text
      BY <1>1, <2>1 DEF Marked
    <3>3. Len(n) \in 1..Len(n) /\ Len(n) \in 1..Len(m)
      BY <2>1
    <3>4. n[Len(n)].mark = m[Len(n)].mark
      BY <3>3, NamesUnmarked
    <3> QED
      BY <3>1, <3>2, <3>4 DEF Components
  <2>4. \A i \in 1..Len(n) - 1 : n[i] = m[i]
    BY <1>1, <2>1 DEF Marked
  <2>5. \A i \in 1..Len(n) : n[i] = m[i]
    BY <2>1, <2>3, <2>4
  <2> QED
    BY <2>1, <2>2, <2>5
<1>2. ASSUME NEW s \in Markers, Sibling(n, s) = Sibling(m, s)
      PROVE  n = m
  <2>1. Marked(Sibling(n, s), n, s) /\ Marked(Sibling(n, s), m, s)
    BY <1>2, SiblingFacts
  <2> QED
    BY <2>1, <1>1
<1>3. Sibling(n, Incoming) # Sibling(m, Evicting)
  <2> SUFFICES ASSUME NEW d, Marked(d, n, Incoming), Marked(d, m, Evicting)
               PROVE  FALSE
    <3>1. Marked(Sibling(n, Incoming), n, Incoming)
      BY SiblingFacts, MarkersMarked
    <3>2. Marked(Sibling(m, Evicting), m, Evicting)
      BY SiblingFacts, MarkersMarked
    <3> QED
      BY <3>1, <3>2
  <2> QED
    BY MarkersMarked DEF Marked
<1>4. ASSUME NEW s \in Markers, NEW shard \in STRING, NEW oid \in STRING
      PROVE  lfs_object_path(shard, oid) # Sibling(n, s)
  <2> DEFINE d == lfs_object_path(shard, oid)
  <2>1. Len(d) = 3 /\ d[3].mark = "none"
    BY DEF lfs_object_path, Plain
  <2>2. Marked(d, n, s) => d[3].mark = s
    BY <2>1 DEF Marked
  <2>3. Marked(Sibling(n, s), n, s)
    BY SiblingFacts
  <2> QED
    BY <2>1, <2>2, <2>3, MarkersMarked
<1> QED
  BY <1>2, <1>3, <1>4, MarkersMarked DEF staging_dir, trash_dir
=============================================================================
