--------------------------- MODULE WantPinsProofs ---------------------------
(***************************************************************************)
(* Proofs about WantPins, for any requests and bodies, any cap and any     *)
(* faults.                                                                 *)
(***************************************************************************)
EXTENDS WantPins, FiniteSetTheorems, SequenceTheorems, WellFoundedInduction, TLAPS

-----------------------------------------------------------------------------
(* Sets of ids.                                                            *)

(* Every set of ids has a newest one: else the sets of newer ones would    *)
(* shrink for ever.                                                        *)
LEMMA NewestId ==
    ASSUME NEW S \in SUBSET Oids, S # {}
    PROVE  \E p \in S : \A q \in S : q <= p
<1> DEFINE Newer(p) == {q \in S : q > p}
           T == {Newer(p) : p \in S}
<1>1. IsFiniteSet(S) /\ S \subseteq Nat
  BY FS_Subset, OidsAssumption, WantPinsAssumption
<1>2. T \subseteq SUBSET S /\ T # {}
  OBVIOUS
<1>3. IsWellFoundedOn(StrictSubsetOrdering(S), SUBSET S)
  BY <1>1, FS_StrictSubsetOrderingWellFounded, FS_FiniteSubsetsOfFinite
<1>4. PICK x \in T : \A y \in T : ~(<<y, x>> \in StrictSubsetOrdering(S))
  <2> HIDE DEF T
  <2> QED
    BY <1>2, <1>3, WFMin
<1>5. PICK p \in S : x = Newer(p)
  BY <1>4
<1>6. ASSUME NEW q \in S, ~(q <= p) PROVE FALSE
  <2>1. p \in Nat /\ q \in Nat /\ \A y \in S : y \in Nat
    BY <1>1
  <2>2. \A y \in S : y > q => y > p
    BY <1>6, <2>1
  <2>3. q \in Newer(p) /\ q \notin Newer(q)
    BY <1>6, <2>1
  <2>4. Newer(q) \subseteq Newer(p)
    BY <2>2
  <2>5. Newer(q) \in T /\ Newer(q) \in SUBSET S /\ Newer(p) \in SUBSET S
    OBVIOUS
  <2> HIDE DEF Newer, T
  <2>6. <<Newer(q), Newer(p)>> \in StrictSubsetOrdering(S)
    BY <2>3, <2>4, <2>5 DEF StrictSubsetOrdering
  <2> QED
    BY <1>4, <1>5, <2>5, <2>6
<1> QED
  BY <1>6

(* And an oldest one.                                                      *)
LEMMA OldestId ==
    ASSUME NEW S \in SUBSET Oids, S # {}
    PROVE  \E p \in S : \A q \in S : p <= q
<1> DEFINE Older(p) == {q \in S : q < p}
           T == {Older(p) : p \in S}
<1>1. IsFiniteSet(S) /\ S \subseteq Nat
  BY FS_Subset, OidsAssumption, WantPinsAssumption
<1>2. T \subseteq SUBSET S /\ T # {}
  OBVIOUS
<1>3. IsWellFoundedOn(StrictSubsetOrdering(S), SUBSET S)
  BY <1>1, FS_StrictSubsetOrderingWellFounded, FS_FiniteSubsetsOfFinite
<1>4. PICK x \in T : \A y \in T : ~(<<y, x>> \in StrictSubsetOrdering(S))
  <2> HIDE DEF T
  <2> QED
    BY <1>2, <1>3, WFMin
<1>5. PICK p \in S : x = Older(p)
  BY <1>4
<1>6. ASSUME NEW q \in S, ~(p <= q) PROVE FALSE
  <2>1. p \in Nat /\ q \in Nat /\ \A y \in S : y \in Nat
    BY <1>1
  <2>2. \A y \in S : y < q => y < p
    BY <1>6, <2>1
  <2>3. q \in Older(p) /\ q \notin Older(q)
    BY <1>6, <2>1
  <2>4. Older(q) \subseteq Older(p)
    BY <2>2
  <2>5. Older(q) \in T /\ Older(q) \in SUBSET S /\ Older(p) \in SUBSET S
    OBVIOUS
  <2> HIDE DEF Older, T
  <2>6. <<Older(q), Older(p)>> \in StrictSubsetOrdering(S)
    BY <2>3, <2>4, <2>5 DEF StrictSubsetOrdering
  <2> QED
    BY <1>4, <1>5, <2>5, <2>6
<1> QED
  BY <1>6

(* Sets of ids are finite, and a larger one has no fewer.                  *)
LEMMA Sizes ==
    ASSUME NEW S \in SUBSET Oids
    PROVE  /\ IsFiniteSet(S) /\ Cardinality(S) \in Nat
           /\ \A T \in SUBSET S : Cardinality(T) \in Nat
                                  /\ Cardinality(T) <= Cardinality(S)
                                  /\ (Cardinality(T) = Cardinality(S) => T = S)
<1>1. IsFiniteSet(S) /\ Cardinality(S) \in Nat
  BY FS_Subset, FS_CardinalityType, OidsAssumption
<1>2. ASSUME NEW T \in SUBSET S
      PROVE  /\ Cardinality(T) \in Nat /\ Cardinality(T) <= Cardinality(S)
             /\ (Cardinality(T) = Cardinality(S) => T = S)
  BY <1>1, <1>2, FS_Subset, FS_CardinalityType
<1> QED
  BY <1>1, <1>2

(* What prune_wants leaves is within the cap: the oldest that stays has    *)
(* fewer than max_wants newer ones, and all the others are among them.     *)
LEMMA PruneLeaves ==
    ASSUME NEW S \in SUBSET Oids, MaxWants > 0
    PROVE  ~Over(Cardinality(S \ BeyondCap(S)))
<1> DEFINE Newer(p) == {q \in S : q > p}
           K == S \ BeyondCap(S)
<1>1. Cardinality(K) \in Nat /\ K \subseteq S /\ S \subseteq Nat
  BY Sizes, WantPinsAssumption
<1>2. \A p \in K : ~(Cardinality(Newer(p)) >= MaxWants)
  BY DEF BeyondCap
<1>3. CASE K = {}
  BY <1>3, FS_EmptySet, WantPinsAssumption DEF Over
<1>4. CASE K # {}
  <2>1. PICK p \in K : \A q \in K : p <= q
    <3> HIDE DEF K
    <3> QED
      BY <1>1, <1>4, OldestId
  <2>2. Newer(p) \in SUBSET Oids
    OBVIOUS
  <2>3. Cardinality(Newer(p)) \in Nat /\ IsFiniteSet(Newer(p))
    BY <2>2, Sizes
  <2>4. p \notin Newer(p)
    BY <1>1
  <2>5. Cardinality(Newer(p) \cup {p}) = Cardinality(Newer(p)) + 1
    BY <2>3, <2>4, FS_AddElement
  <2>6. ASSUME NEW q \in K PROVE q \in Newer(p) \cup {p}
    <3>1. q \in S /\ q \in Nat /\ p \in Nat /\ p <= q
      BY <1>1, <2>1
    <3> QED
      BY <3>1
  <2>7. Newer(p) \cup {p} \in SUBSET Oids
    OBVIOUS
  <2>8. Cardinality(K) <= Cardinality(Newer(p) \cup {p})
    BY <2>6, <2>7, Sizes
  <2>9. ~(Cardinality(Newer(p)) >= MaxWants)
    BY <1>2
  <2> HIDE DEF K, Newer
  <2> QED
    BY <1>1, <2>3, <2>5, <2>8, <2>9, WantPinsAssumption DEF Over, K
<1> QED
  BY <1>3, <1>4

(* Deleting the doomed pins of one prune leaves max_wants newer pins for   *)
(* each of them, and for each doomed by another prune: the newest pin that *)
(* goes had that many newer ones, which all stay.                          *)
LEMMA DeleteSpares ==
    ASSUME NEW S \in SUBSET Oids, NEW D \in SUBSET Oids, NEW E \in SUBSET Oids,
           \A p \in D : Cardinality({q \in S : q > p}) >= MaxWants,
           \A p \in E : Cardinality({q \in S : q > p}) >= MaxWants
    PROVE  \A p \in D : Cardinality({q \in S \ E : q > p}) >= MaxWants
<1> TAKE p \in D
<1> DEFINE A == {q \in S : q > p}
           B == {q \in S \ E : q > p}
<1>1. p \in Nat /\ S \subseteq Nat /\ E \subseteq Nat /\ MaxWants \in Nat
  BY WantPinsAssumption
<1>2. Cardinality(A) >= MaxWants
  OBVIOUS
<1>3. CASE A \cap E = {}
  <2>1. A = B
    BY <1>3
  <2> QED
    BY <1>2, <2>1
<1>4. CASE A \cap E # {}
  <2>1. A \cap E \in SUBSET Oids
    OBVIOUS
  <2>2. PICK m \in A \cap E : \A q \in A \cap E : q <= m
    <3> HIDE DEF A
    <3> QED
      BY <1>4, <2>1, NewestId
  <2> DEFINE C == {q \in S : q > m}
  <2>3. m \in E /\ m \in Nat /\ m > p
    BY <1>1, <2>2
  <2>4. Cardinality(C) >= MaxWants
    BY <2>3
  <2>5. ASSUME NEW q \in C PROVE q \in B
    <3>1. q \in S /\ q \in Nat /\ q > m
      BY <1>1
    <3>2. q > p
      BY <1>1, <2>3, <3>1
    <3>3. ~(q <= m)
      BY <2>3, <3>1
    <3>4. q \notin E
      BY <2>2, <3>1, <3>2, <3>3
    <3> QED
      BY <3>1, <3>2, <3>4
  <2>6. B \in SUBSET Oids /\ C \in SUBSET B
    BY <2>5
  <2> HIDE DEF B, C
  <2>7. Cardinality(B) \in Nat /\ Cardinality(C) \in Nat
        /\ Cardinality(C) <= Cardinality(B)
    BY <2>6, Sizes
  <2>8. Cardinality(B) >= MaxWants
    BY <1>1, <2>4, <2>7
  <2> QED
    BY <2>8 DEF B
<1> QED
  BY <1>3, <1>4

(* More pins leave no fewer newer ones.                                    *)
LEMMA LandSpares ==
    ASSUME NEW S \in SUBSET Oids, NEW T \in SUBSET Oids, S \subseteq T, NEW p,
           Cardinality({q \in S : q > p}) >= MaxWants
    PROVE  Cardinality({q \in T : q > p}) >= MaxWants
<1> DEFINE A == {q \in S : q > p}
           B == {q \in T : q > p}
<1>1. B \in SUBSET Oids /\ A \in SUBSET B
  OBVIOUS
<1>2. Cardinality(A) >= MaxWants /\ MaxWants \in Nat
  BY WantPinsAssumption
<1> HIDE DEF A, B
<1>3. Cardinality(B) \in Nat /\ Cardinality(A) \in Nat
      /\ Cardinality(A) <= Cardinality(B)
  BY <1>1, Sizes
<1>4. Cardinality(B) >= MaxWants
  BY <1>2, <1>3
<1> QED
  BY <1>4 DEF B

(* What is fetched of the missing ids is all of them, unless there are     *)
(* more than the cap.                                                      *)
LEMMA CappedFacts ==
    ASSUME NEW missing \in SUBSET Oids, NEW m \in Capped(missing)
    PROVE  m \in SUBSET Oids /\ (Over(Cardinality(missing)) \/ m = missing)
<1>1. m \in SUBSET missing
  BY DEF Capped
<1>2. ~Over(Cardinality(missing)) => Cardinality(m) = Cardinality(missing)
  BY DEF Capped
<1>3. Cardinality(m) = Cardinality(missing) => m = missing
  BY <1>1, Sizes
<1> QED
  BY <1>1, <1>2, <1>3

(* What a failed fetch leaves is stored and of the right type, and pins    *)
(* that it leaves are excused.                                             *)
LEMMA PartFacts ==
    ASSUME TypeOK, NEW oids \in SUBSET Oids, LandPart(oids)
    PROVE  /\ objects \subseteq objects' /\ objects' \subseteq Oids
           /\ pins \subseteq pins' /\ pins' \subseteq objects'
           /\ excused' \in BOOLEAN /\ (excused => excused')
           /\ excused' \/ pins' = pins
<1>1. CASE UNCHANGED <<mirror, excused>>
  BY <1>1 DEF TypeOK, mirror
<1>2. CASE ~UNCHANGED <<mirror, excused>>
  <2>1. /\ objects' = objects \cup oids
        /\ \E p \in SUBSET oids :
             pins' = pins \cup p /\ excused' = (excused \/ p # {})
    BY <1>2 DEF LandPart
  <2>2. PICK p \in SUBSET oids :
          pins' = pins \cup p /\ excused' = (excused \/ p # {})
    BY <2>1
  <2>3. p = {} => pins' = pins
    BY <2>2
  <2>4. excused' \in BOOLEAN /\ (excused => excused') /\ (p # {} => excused')
    BY <2>2
  <2> QED
    BY <2>1, <2>2, <2>3, <2>4 DEF TypeOK
<1> QED
  BY <1>1, <1>2

(* The orphan that a dropped request leaves is one of its git children.    *)
LEMMA ChildFacts ==
    ASSUME NEW r \in Requests, NEW o \in Child(r)
    PROVE  \/ pc[r] = "fetch" /\ o.does = "fetch" /\ o.oids = asked[r]
              /\ o = [does |-> "fetch", oids |-> asked[r]]
           \/ pc[r] = "delete" /\ o.does = "delete" /\ o.oids = doomed[r]
              /\ o = [does |-> "delete", oids |-> doomed[r]]
<1>1. CASE pc[r] = "fetch"
  <2>1. Child(r) = {[does |-> "fetch", oids |-> asked[r]]}
    BY <1>1, Zenon DEF Child
  <2> QED
    BY <1>1, <2>1
<1>2. CASE pc[r] = "delete"
  <2>1. Child(r) = {[does |-> "delete", oids |-> doomed[r]]}
    BY <1>2, SMT DEF Child
  <2> QED
    BY <1>2, <2>1
<1>3. CASE pc[r] # "fetch" /\ pc[r] # "delete"
  <2>1. Child(r) = {}
    BY <1>3 DEF Child
  <2> QED
    BY <2>1
<1> QED
  BY <1>1, <1>2, <1>3

-----------------------------------------------------------------------------
(* Induction up to n, about a set of numbers.                              *)
LEMMA Climb ==
    ASSUME NEW n \in Nat, NEW Q, 0 \in Q,
           \A i \in 0..n : i < n /\ i \in Q => i + 1 \in Q
    PROVE  \A i \in 0..n : i \in Q
<1> DEFINE T == {i \in 0..n : i \notin Q}
<1> SUFFICES ASSUME T # {} PROVE FALSE
  OBVIOUS
<1>1. PICK x \in T : \A y \in T : ~(<<y, x>> \in OpToRel(<, Nat))
  <2>1. T \subseteq Nat
    OBVIOUS
  <2> HIDE DEF T
  <2> QED
    BY <2>1, WFMin, NatLessThanWellFounded
<1>2. x # 0 /\ x - 1 \in 0..n
  OBVIOUS
<1>3. <<x - 1, x>> \in OpToRel(<, Nat)
  BY <1>2 DEF OpToRel
<1>4. x - 1 \in Q
  BY <1>1, <1>2, <1>3
<1> QED
  BY <1>2, <1>4

(* The same from n down.                                                   *)
LEMMA Descend ==
    ASSUME NEW n \in Nat, NEW Q, n \in Q,
           \A i \in 0..n : i < n /\ i + 1 \in Q => i \in Q
    PROVE  \A i \in 0..n : i \in Q
<1> DEFINE U == {i \in 0..n : n - i \in Q}
<1>1. 0 \in U
  OBVIOUS
<1>2. ASSUME NEW i \in 0..n, i < n, i \in U PROVE i + 1 \in U
  <2>1. n - i \in Q /\ n - (i + 1) \in 0..n /\ n - (i + 1) < n
    BY <1>2
  <2>2. (n - (i + 1)) + 1 = n - i
    BY <1>2
  <2> QED
    BY <1>2, <2>1, <2>2
<1>3. \A i \in 0..n : i \in U
  <2> HIDE DEF U
  <2> QED
    BY <1>1, <1>2, Climb
<1>4. ASSUME NEW i \in 0..n PROVE i \in Q
  <2>1. n - i \in U /\ n - (n - i) = i
    BY <1>3
  <2> QED
    BY <2>1
<1> QED
  BY <1>4

-----------------------------------------------------------------------------
(* Lines.  Flat is a recursive function of the number of lines; up is one  *)
(* when Ups holds.                                                         *)
Ups(up, lines) ==
    up = [i \in 0..Len(lines) |-> IF i = 0 THEN <<>> ELSE up[i - 1] \o lines[i]]

(* Flat takes one of them.                                                 *)
LEMMA FlatIsUp ==
    ASSUME NEW lines
    PROVE  Flat(lines) = (CHOOSE up : Ups(up, lines))[Len(lines)]
BY DEF Flat, Ups

(* There is one: one for the first i lines gives one for the first i + 1.  *)
LEMMA UpsExist ==
    ASSUME NEW C, NEW lines \in Seq(C)
    PROVE  \E up : Ups(up, lines)
<1> DEFINE N == Len(lines)
           Part(up, i) == up = [j \in 0..i |-> IF j = 0 THEN <<>>
                                               ELSE up[j - 1] \o lines[j]]
           Q == {i \in 0..N : \E up : Part(up, i)}
<1>1. N \in Nat
  OBVIOUS
<1>2. 0 \in Q
  <2> DEFINE none == [j \in 0..0 |-> <<>>]
  <2>1. Part(none, 0)
    OBVIOUS
  <2> HIDE DEF Part, none
  <2> QED
    BY <1>1, <2>1
<1>3. ASSUME NEW i \in 0..N, i < N, i \in Q PROVE i + 1 \in Q
  <2>1. PICK up : Part(up, i)
    BY <1>3
  <2> DEFINE new == [j \in 0..i + 1 |-> IF j = i + 1 THEN up[i] \o lines[i + 1]
                                        ELSE up[j]]
  <2>2. ASSUME NEW j \in 0..i + 1
        PROVE  new[j] = IF j = 0 THEN <<>> ELSE new[j - 1] \o lines[j]
    <3>1. CASE j = i + 1
      <4>1. j # 0 /\ j - 1 = i /\ i \in 0..i + 1 /\ i # i + 1
        BY <1>3, <3>1
      <4> QED
        BY <3>1, <4>1
    <3>2. CASE j # i + 1
      <4>1. j \in 0..i /\ (j # 0 => j - 1 \in 0..i + 1 /\ j - 1 # i + 1)
        BY <1>3, <3>2
      <4>2. up[j] = IF j = 0 THEN <<>> ELSE up[j - 1] \o lines[j]
        BY <2>1, <4>1
      <4> QED
        BY <3>2, <4>1, <4>2
    <3> QED
      BY <3>1, <3>2
  <2>3. Part(new, i + 1)
    <3>1. new = [j \in 0..i + 1 |-> new[j]]
      OBVIOUS
    <3> HIDE DEF new
    <3> QED
      BY <2>2, <3>1
  <2>4. i + 1 \in 0..N
    BY <1>1, <1>3
  <2> HIDE DEF Part, new, N
  <2> QED
    BY <2>3, <2>4
<1>4. N \in Q
  <2> HIDE DEF Q
  <2>1. \A i \in 0..N : i \in Q
    BY <1>1, <1>2, <1>3, Climb
  <2> QED
    BY <1>1, <2>1
<1> QED
  BY <1>4 DEF Ups

(* What the function does, line by line; n lines there are.                *)
Flattens(up, lines, n) ==
    /\ up[0] = <<>>
    /\ \A i \in 1..n : /\ lines[i] \in Seq(Cells) /\ up[i - 1] \in Seq(Cells)
                       /\ up[i] \in Seq(Cells) /\ up[i] = up[i - 1] \o lines[i]

(* Its value for each number of lines.                                     *)
LEMMA UpSteps ==
    ASSUME NEW lines, NEW up, Ups(up, lines)
    PROVE  \A i \in 0..Len(lines) :
             up[i] = IF i = 0 THEN <<>> ELSE up[i - 1] \o lines[i]
<1> DEFINE F(i) == IF i = 0 THEN <<>> ELSE up[i - 1] \o lines[i]
<1>1. up = [i \in 0..Len(lines) |-> F(i)]
  BY DEF Ups
<1> HIDE DEF F
<1>2. \A i \in 0..Len(lines) : up[i] = F(i)
  BY <1>1
<1> QED
  BY <1>2 DEF F

(* The lines flatten to a sequence of cells.                               *)
LEMMA UpFlattens ==
    ASSUME NEW lines \in Seq(Seq(Cells)), NEW up, Ups(up, lines)
    PROVE  Flattens(up, lines, Len(lines))
<1> DEFINE N == Len(lines)
           Q == {i \in 0..N : up[i] \in Seq(Cells)}
<1>1. N \in Nat /\ \A i \in 1..N : lines[i] \in Seq(Cells)
  BY LenProperties, ElementOfSeq
<1>2. \A i \in 0..N : up[i] = IF i = 0 THEN <<>> ELSE up[i - 1] \o lines[i]
  BY UpSteps
<1> HIDE DEF N
<1>3. up[0] = <<>> /\ \A i \in 1..N : up[i] = up[i - 1] \o lines[i]
  <2>1. 0 \in 0..N /\ \A i \in 1..N : i \in 0..N /\ i # 0
    BY <1>1
  <2> QED
    BY <1>2, <2>1, Zenon
<1>4. 0 \in Q
  <2>1. up[0] \in Seq(Cells)
    BY <1>3, EmptySeq
  <2> QED
    BY <1>1, <2>1
<1>5. ASSUME NEW i \in 0..N, i < N, i \in Q PROVE i + 1 \in Q
  <2>1. i + 1 \in 1..N /\ (i + 1) - 1 = i /\ i + 1 \in 0..N
    BY <1>1, <1>5
  <2>2. up[i + 1] = up[i] \o lines[i + 1] /\ lines[i + 1] \in Seq(Cells)
    BY <1>1, <1>3, <2>1
  <2>3. up[i + 1] \in Seq(Cells)
    BY <1>5, <2>2, ConcatProperties
  <2> QED
    BY <2>1, <2>3
<1>6. \A i \in 0..N : i \in Q
  <2> HIDE DEF Q
  <2> QED
    BY <1>1, <1>4, <1>5, Climb
<1>7. ASSUME NEW i \in 1..N
      PROVE  up[i - 1] \in Seq(Cells) /\ up[i] \in Seq(Cells)
  <2>1. i - 1 \in 0..N /\ i \in 0..N
    BY <1>1
  <2> QED
    BY <1>6, <2>1
<1> QED
  BY <1>1, <1>3, <1>7 DEF Flattens, N

(* Two such functions agree.                                               *)
LEMMA UpAgree ==
    ASSUME NEW k \in Nat, NEW n \in Nat, k <= n, NEW a, NEW b, NEW part, NEW lines,
           Flattens(a, part, k), Flattens(b, lines, n),
           \A i \in 1..k : part[i] = lines[i]
    PROVE  a[k] = b[k]
<1> DEFINE Q == {i \in 0..k : a[i] = b[i]}
<1>1. 0 \in Q
  BY DEF Flattens
<1>2. ASSUME NEW i \in 0..k, i < k, i \in Q PROVE i + 1 \in Q
  <2>1. i + 1 \in 1..k /\ i + 1 \in 1..n /\ (i + 1) - 1 = i /\ i + 1 \in 0..k
    BY <1>2
  <2>2. a[i + 1] = a[i] \o part[i + 1] /\ b[i + 1] = b[i] \o lines[i + 1]
    BY <2>1 DEF Flattens
  <2>3. a[i] = b[i] /\ part[i + 1] = lines[i + 1]
    BY <1>2, <2>1
  <2> QED
    BY <2>1, <2>2, <2>3
<1>3. k \in Q
  <2> HIDE DEF Q
  <2>1. \A i \in 0..k : i \in Q
    BY <1>1, <1>2, Climb
  <2> QED
    BY <2>1
<1> QED
  BY <1>3

(* So the first k lines end where up says.                                 *)
LEMMA FlatPart ==
    ASSUME NEW lines \in Seq(Seq(Cells)), NEW up, Ups(up, lines),
           NEW k \in 0..Len(lines)
    PROVE  Flat(SubSeq(lines, 1, k)) = up[k]
<1> DEFINE part == SubSeq(lines, 1, k)
           u == CHOOSE a : Ups(a, part)
<1>0. Len(lines) \in Nat /\ k \in Nat /\ k <= Len(lines) /\ k \in Int
  BY LenProperties
<1>1. part \in Seq(Seq(Cells)) /\ Len(part) = k /\ \A i \in 1..k : part[i] = lines[i]
  <2>1. \A i \in 1..k : lines[i] \in Seq(Cells)
    BY <1>0, ElementOfSeq
  <2>2. /\ part \in Seq(Seq(Cells))
        /\ Len(part) = IF 1 <= k THEN k - 1 + 1 ELSE 0
        /\ \A i \in 1..k - 1 + 1 : part[i] = lines[1 + i - 1]
    BY <1>0, <2>1, SubSeqProperties
  <2> HIDE DEF part
  <2>3. Len(part) = k /\ k - 1 + 1 = k /\ \A i \in 1..k : 1 + i - 1 = i
    BY <1>0, <2>2
  <2> QED
    BY <2>2, <2>3
<1> HIDE DEF part
<1>2. Ups(u, part)
  BY <1>1, UpsExist
<1> HIDE DEF u
<1>3. Flattens(u, part, k) /\ Flattens(up, lines, Len(lines))
  BY <1>1, <1>2, UpFlattens
<1>4. u[k] = up[k]
  <2> DEFINE N == Len(lines)
  <2>1. k \in Nat /\ N \in Nat /\ k <= N
    BY <1>0
  <2>2. Flattens(u, part, k) /\ Flattens(up, lines, N)
    BY <1>3
  <2>3. \A i \in 1..k : part[i] = lines[i]
    BY <1>1
  <2> HIDE DEF N
  <2> QED
    BY <2>1, <2>2, <2>3, UpAgree
<1> QED
  BY <1>1, <1>4, FlatIsUp DEF u, part

(* What is appended leaves what is there, and comes after it.              *)
LEMMA Appended ==
    ASSUME NEW s \in Seq(Cells), NEW t \in Seq(Cells), NEW x, x = s \o t
    PROVE  /\ Len(s) \in Nat /\ Len(t) \in Nat /\ Len(x) = Len(s) + Len(t)
           /\ \A p \in 1..Len(s) : x[p] = s[p]
           /\ \A p \in 1..Len(t) : x[Len(s) + p] = t[p]
OBVIOUS

Laid(up, lines, i) ==
    /\ Len(up[i - 1]) \in Nat /\ Len(lines[i]) \in Nat
    /\ Len(up[i]) = Len(up[i - 1]) + Len(lines[i])
    /\ \A p \in 1..Len(up[i - 1]) : up[i][p] = up[i - 1][p]
    /\ \A p \in 1..Len(lines[i]) : up[i][Len(up[i - 1]) + p] = lines[i][p]

(* Every line is laid after the lines before it.                           *)
LEMMA LineFacts ==
    ASSUME NEW n, NEW lines, NEW up, Flattens(up, lines, n)
    PROVE  \A i \in 1..n : Laid(up, lines, i)
<1> TAKE i \in 1..n
<1> DEFINE s == up[i - 1]
           t == lines[i]
           x == up[i]
<1>1. s \in Seq(Cells) /\ t \in Seq(Cells) /\ x = s \o t
  BY DEF Flattens
<1> HIDE DEF s, t, x
<1>2. /\ Len(s) \in Nat /\ Len(t) \in Nat /\ Len(x) = Len(s) + Len(t)
      /\ \A p \in 1..Len(s) : x[p] = s[p]
      /\ \A p \in 1..Len(t) : x[Len(s) + p] = t[p]
  BY <1>1, Appended
<1> QED
  BY <1>2 DEF s, t, x, Laid

(* And more lines only add to it.                                          *)
LEMMA UpExtends ==
    ASSUME NEW n \in Nat, NEW lines, NEW up, Flattens(up, lines, n),
           NEW i \in 0..n, NEW k \in i..n
    PROVE  /\ Len(up[i]) \in Nat /\ Len(up[k]) \in Nat
           /\ Len(up[i]) <= Len(up[k])
           /\ \A p \in 1..Len(up[i]) : up[k][p] = up[i][p]
<1> DEFINE Grown(j) == /\ Len(up[i + j]) \in Nat /\ Len(up[i]) <= Len(up[i + j])
                       /\ \A p \in 1..Len(up[i]) : up[i + j][p] = up[i][p]
           Q == {j \in 0..n - i : Grown(j)}
<1>0. n - i \in Nat /\ k - i \in 0..n - i /\ i + (k - i) = k /\ i + 0 = i
  OBVIOUS
<1>1. Len(up[i]) \in Nat
  <2>1. CASE i = 0
    BY <2>1 DEF Flattens
  <2>2. CASE i # 0
    BY <2>2 DEF Flattens
  <2> QED
    BY <2>1, <2>2
<1>2. 0 \in Q
  BY <1>0, <1>1
<1>3. ASSUME NEW j \in 0..n - i, j < n - i, j \in Q
      PROVE  j + 1 \in Q
  <2> DEFINE m == i + (j + 1)
             old == up[i + j]
  <2>1. m \in 1..n /\ m - 1 = i + j /\ j + 1 \in 0..n - i
    BY <1>3
  <2>2. /\ Len(old) \in Nat /\ Len(lines[m]) \in Nat
        /\ Len(up[m]) = Len(old) + Len(lines[m])
        /\ \A p \in 1..Len(old) : up[m][p] = old[p]
    <3>1. up[m - 1] = old
      BY <2>1
    <3> HIDE DEF m, old
    <3>2. Laid(up, lines, m)
      BY <2>1, LineFacts
    <3> QED
      BY <3>1, <3>2 DEF Laid
  <2>3. Len(up[i]) <= Len(old) /\ \A p \in 1..Len(up[i]) : old[p] = up[i][p]
    BY <1>3
  <2> HIDE DEF m, old
  <2>4. Len(up[m]) \in Nat /\ Len(up[i]) <= Len(up[m])
    BY <1>1, <2>2, <2>3
  <2>5. \A p \in 1..Len(up[i]) : p \in 1..Len(old)
    BY <1>1, <2>2, <2>3
  <2>6. \A p \in 1..Len(up[i]) : up[m][p] = up[i][p]
    BY <2>2, <2>3, <2>5
  <2>7. Grown(j + 1)
    BY <2>4, <2>6 DEF m
  <2> QED
    BY <2>1, <2>7
<1>4. Grown(k - i)
  <2> HIDE DEF Q
  <2>1. \A j \in 0..n - i : j \in Q
    BY <1>0, <1>2, <1>3, Climb
  <2> QED
    BY <1>0, <2>1 DEF Q
<1> QED
  BY <1>0, <1>1, <1>4

-----------------------------------------------------------------------------
(* The walk.  parse_wants is a recursive function of the position: Turn is *)
(* one turn of its loop, Line what it does with a line's prefix.           *)
Line(walk, s, pos, len) ==
    IF len < 1 THEN walk[pos + 1]
    ELSE LET end == pos + len IN
           IF end > Len(s) + 1 THEN {}
           ELSE WantIn(SubSeq(s, pos + 1, end - 1)) \cup walk[end]

Turn(walk, s, pos) ==
    IF pos > Len(s) \/ s[pos][1] # "len" THEN {} ELSE Line(walk, s, pos, s[pos][2])

Walks(walk, s) == walk = [pos \in 1..Len(s) + 1 |-> Turn(walk, s, pos)]

(* parse_wants takes one such function.                                    *)
LEMMA ParseIsWalk ==
    ASSUME NEW s
    PROVE  parse_wants(s) = (CHOOSE walk : Walks(walk, s))[1]
BY DEF parse_wants, Walks, Turn, Line

(* A turn ends the walk, or handles a line.                                *)
LEMMA TurnCases ==
    ASSUME NEW walk, NEW s, NEW pos
    PROVE  /\ pos > Len(s) \/ s[pos][1] # "len" => Turn(walk, s, pos) = {}
           /\ \A len : ~(pos > Len(s)) /\ s[pos] = <<"len", len>> =>
                Turn(walk, s, pos) = Line(walk, s, pos, len)
BY DEF Turn

(* A prefix holds a number, an id cell one of the ids.                     *)
LEMMA CellFacts ==
    \A c \in Cells : /\ c[1] = "len" => c[2] \in Nat /\ c = <<"len", c[2]>>
                     /\ c[1] = "oid" => c[2] \in Oids
BY DEF Cells, Want, Other

(* A turn looks only ahead, since every line has a prefix at least.        *)
LEMMA TurnAhead ==
    ASSUME NEW s \in Seq(Cells), NEW pos \in 1..Len(s) + 1, NEW a, NEW b,
           \A q \in pos + 1..Len(s) + 1 : a[q] = b[q]
    PROVE  Turn(a, s, pos) = Turn(b, s, pos)
<1>1. Len(s) \in Nat
  BY LenProperties
<1>2. CASE pos > Len(s) \/ s[pos][1] # "len"
  BY <1>2 DEF Turn
<1>3. CASE ~(pos > Len(s) \/ s[pos][1] # "len")
  <2> DEFINE v == s[pos][2]
  <2>1. v \in Nat
    <3>1. pos \in 1..Len(s)
      BY <1>1, <1>3
    <3>2. s[pos] \in Cells
      BY <3>1, ElementOfSeq
    <3> QED
      BY <1>3, <3>2, CellFacts
  <2> HIDE DEF v
  <2>2. /\ v < 1 => pos + 1 \in pos + 1..Len(s) + 1
        /\ ~(v < 1) /\ ~(pos + v > Len(s) + 1) => pos + v \in pos + 1..Len(s) + 1
    BY <1>1, <1>3, <2>1
  <2>3. /\ v < 1 => a[pos + 1] = b[pos + 1]
        /\ ~(v < 1) /\ ~(pos + v > Len(s) + 1) => a[pos + v] = b[pos + v]
    BY <2>2
  <2> QED
    BY <1>3, <2>3 DEF Turn, Line, v
<1> QED
  BY <1>2, <1>3

(* So there is such a function: one for the positions after k + 1 gives    *)
(* one for those after k.                                                  *)
LEMMA WalksExist ==
    ASSUME NEW s \in Seq(Cells)
    PROVE  \E walk : Walks(walk, s)
<1> DEFINE N == Len(s)
           Part(w, k) == w = [pos \in k + 1..N + 1 |-> Turn(w, s, pos)]
           Q == {k \in 0..N : \E w : Part(w, k)}
<1>1. N \in Nat
  BY LenProperties
<1>2. N \in Q
  <2> DEFINE none == [pos \in N + 1..N + 1 |-> {}]
  <2>1. \A pos \in N + 1..N + 1 : Turn(none, s, pos) = {}
    BY <1>1 DEF Turn
  <2>2. Part(none, N)
    <3> HIDE DEF N
    <3> QED
      BY <2>1
  <2> HIDE DEF Part, none, N
  <2> QED
    BY <1>1, <2>2
<1>3. ASSUME NEW k \in 0..N, k < N, k + 1 \in Q PROVE k \in Q
  <2>1. PICK w : Part(w, k + 1)
    BY <1>3
  <2> DEFINE new == [pos \in k + 1..N + 1 |-> IF pos = k + 1 THEN Turn(w, s, pos)
                                              ELSE w[pos]]
  <2>2. ASSUME NEW pos \in k + 1..N + 1 PROVE new[pos] = Turn(new, s, pos)
    <3>1. pos \in 1..N + 1 /\ pos \in Nat
      BY <1>1, <1>3
    <3>2. ASSUME NEW q \in pos + 1..N + 1 PROVE new[q] = w[q]
      <4>1. q \in k + 1..N + 1 /\ q # k + 1
        BY <1>1, <1>3, <3>1
      <4> QED
        BY <4>1
    <3>3. new[pos] = Turn(w, s, pos)
      <4>1. CASE pos = k + 1
        BY <4>1
      <4>2. CASE pos # k + 1
        <5>1. pos \in (k + 1) + 1..N + 1
          BY <1>1, <1>3, <4>2
        <5>2. w[pos] = Turn(w, s, pos)
          BY <2>1, <5>1
        <5> QED
          BY <4>2, <5>2
      <4> QED
        BY <4>1, <4>2
    <3> HIDE DEF new
    <3>4. Turn(new, s, pos) = Turn(w, s, pos)
      BY <3>1, <3>2, TurnAhead
    <3> QED
      BY <3>3, <3>4
  <2>3. Part(new, k)
    <3>1. new = [pos \in k + 1..N + 1 |-> new[pos]]
      OBVIOUS
    <3> HIDE DEF new
    <3> QED
      BY <2>2, <3>1
  <2> HIDE DEF Part, new, N
  <2> QED
    BY <2>3
<1>4. 0 \in Q
  <2> HIDE DEF Q
  <2>1. \A k \in 0..N : k \in Q
    BY <1>1, <1>2, <1>3, Descend
  <2> QED
    BY <1>1, <2>1
<1> QED
  BY <1>4 DEF Walks

-----------------------------------------------------------------------------
(* The lines that the walk reads from the end of line i on, and what it    *)
(* finds in them.                                                          *)
Reach(up, lines, n, cut, i) ==
    {j \in i + 1..n : /\ Len(up[j]) <= cut
                      /\ \A k \in i + 1..j : lines[k][1][1] = "len"}

Found(up, lines, n, cut, i) ==
    UNION {WantIn(Tail(lines[j])) : j \in Reach(up, lines, n, cut, i)}

(* Nothing is found when the next line is cut off or has no prefix.        *)
LEMMA NoneFound ==
    ASSUME NEW n \in Nat, NEW lines, NEW up, Flattens(up, lines, n), NEW cut \in Nat,
           NEW i \in 0..n, i < n => cut < Len(up[i + 1]) \/ lines[i + 1][1][1] # "len"
    PROVE  Found(up, lines, n, cut, i) = {}
<1> SUFFICES ASSUME NEW j \in Reach(up, lines, n, cut, i) PROVE FALSE
  BY DEF Found
<1>1. /\ j \in i + 1..n /\ Len(up[j]) <= cut
      /\ \A k \in i + 1..j : lines[k][1][1] = "len"
  BY DEF Reach
<1>2. i < n /\ i + 1 \in 0..n /\ i + 1 \in i + 1..j /\ j \in i + 1..n
  BY <1>1
<1>3. Len(up[i + 1]) \in Nat /\ Len(up[j]) \in Nat /\ Len(up[i + 1]) <= Len(up[j])
  BY <1>2, UpExtends
<1> QED
  BY <1>1, <1>2, <1>3

(* Otherwise the next line's want is found, and what comes after it.       *)
LEMMA OneFound ==
    ASSUME NEW n \in Nat, NEW lines, NEW up, NEW cut \in Nat,
           NEW i \in 0..n, i < n, Len(up[i + 1]) <= cut, lines[i + 1][1][1] = "len"
    PROVE  Found(up, lines, n, cut, i) =
             WantIn(Tail(lines[i + 1])) \cup Found(up, lines, n, cut, i + 1)
<1>1. Reach(up, lines, n, cut, i) = {i + 1} \cup Reach(up, lines, n, cut, i + 1)
  <2>1. ASSUME NEW j \in i + 1..n, j # i + 1
        PROVE  (\A k \in i + 1..j : lines[k][1][1] = "len") <=>
                 (\A k \in (i + 1) + 1..j : lines[k][1][1] = "len")
    <3>1. \A k : k \in i + 1..j <=> k = i + 1 \/ k \in (i + 1) + 1..j
      BY <2>1
    <3> QED
      BY <3>1
  <2>2. \A j : j \in i + 1..n <=> j = i + 1 \/ j \in (i + 1) + 1..n
    OBVIOUS
  <2>3. \A j \in (i + 1) + 1..n : j # i + 1
    OBVIOUS
  <2>4. \A k \in i + 1..i + 1 : k = i + 1
    OBVIOUS
  <2> QED
    BY <2>1, <2>2, <2>3, <2>4, Zenon DEF Reach
<1> QED
  BY <1>1, Zenon DEF Found

(* A line as its prefix says.                                              *)
Formed(l) ==
    /\ l # <<>>
    /\ l[1][1] = "len" => Len(l) = IF l[1][2] = 0 THEN 1 ELSE l[1][2]

(* Where s has a whole line, the code's slice of it is the line's data.    *)
LEMMA SameLine ==
    ASSUME NEW l \in Seq(Cells), l # <<>>, NEW s \in Seq(Cells), NEW pos \in Nat \ {0},
           pos + Len(l) <= Len(s) + 1, \A p \in 1..Len(l) : s[pos - 1 + p] = l[p]
    PROVE  SubSeq(s, pos + 1, (pos + Len(l)) - 1) = Tail(l)
<1> DEFINE t == Tail(l)
           x == SubSeq(s, pos + 1, (pos + Len(l)) - 1)
<1>1. Len(l) \in Nat \ {0} /\ Len(s) \in Nat
  BY EmptySeq, LenProperties
<1>2. t \in Seq(Cells) /\ Len(t) = Len(l) - 1 /\ \A p \in 1..Len(t) : t[p] = l[p + 1]
  BY HeadTailProperties
<1>3. \A p \in pos + 1..(pos + Len(l)) - 1 : s[p] \in Cells
  <2>1. \A p \in pos + 1..(pos + Len(l)) - 1 : p \in 1..Len(s)
    BY <1>1
  <2> QED
    BY <2>1, ElementOfSeq
<1>4. /\ x \in Seq(Cells) /\ Len(x) = Len(l) - 1
      /\ \A p \in 1..Len(x) : x[p] = s[pos + p]
  <2> DEFINE m == pos + 1
             n == (pos + Len(l)) - 1
             k == Len(l)
  <2>1. m \in Int /\ n \in Int /\ n - m + 1 = Len(l) - 1
    BY <1>1
  <2> HIDE DEF k
  <2>2. (IF m <= (pos + k) - 1 THEN ((pos + k) - 1) - m + 1 ELSE 0) = k - 1
    <3>1. k \in Nat \ {0}
      BY <1>1 DEF k
    <3> QED
      BY <3>1
  <2>3. \A p \in 1..Len(l) - 1 : m + p - 1 = pos + p
    OBVIOUS
  <2>4. /\ x \in Seq(Cells) /\ Len(x) = IF m <= n THEN n - m + 1 ELSE 0
        /\ \A p \in 1..n - m + 1 : x[p] = s[m + p - 1]
    BY <1>3, <2>1, SubSeqProperties
  <2> HIDE DEF m, n, x
  <2>5. Len(x) = Len(l) - 1
    BY <2>2, <2>4, Zenon DEF m, n, k
  <2> QED
    BY <2>1, <2>3, <2>4, <2>5
<1>5. ASSUME NEW p \in 1..Len(x) PROVE x[p] = t[p]
  <2>1. p + 1 \in 1..Len(l) /\ pos - 1 + (p + 1) = pos + p /\ p \in 1..Len(t)
    BY <1>1, <1>2, <1>4
  <2>2. s[pos - 1 + (p + 1)] = l[p + 1]
    BY <2>1
  <2> QED
    BY <1>2, <1>4, <2>1, <2>2
<1> HIDE DEF x, t
<1>6. x = t
  BY <1>2, <1>4, <1>5, SeqEqual
<1> QED
  BY <1>6 DEF x, t

(* s is what the cut leaves of the first n lines.                          *)
Cuts(s, cut, up, n) ==
    /\ cut \in Nat /\ cut <= Len(up[n])
    /\ s \in Seq(Cells) /\ Len(s) = cut /\ \A p \in 1..cut : s[p] = up[n][p]

Walked(walk, s, cut) == \A pos \in 1..cut + 1 : walk[pos] = Turn(walk, s, pos)

AllFormed(lines, n) == \A i \in 1..n : Formed(lines[i])

(* From the end of each line that is there the walk finds what there is in *)
(* the lines after it.                                                     *)
LEMMA WalkFinds ==
    ASSUME NEW n \in Nat, NEW lines, NEW up, NEW cut, NEW s, NEW walk,
           Flattens(up, lines, n), AllFormed(lines, n), Cuts(s, cut, up, n),
           Walked(walk, s, cut)
    PROVE  \A i \in 0..n : Len(up[i]) <= cut =>
             walk[Len(up[i]) + 1] = Found(up, lines, n, cut, i)
<1> DEFINE P(i) == Len(up[i]) <= cut =>
                     walk[Len(up[i]) + 1] = Found(up, lines, n, cut, i)
           Q == {i \in 0..n : P(i)}
<1>0. /\ \A i \in 1..n : Formed(lines[i])
      /\ cut \in Nat /\ cut <= Len(up[n])
      /\ s \in Seq(Cells) /\ Len(s) = cut /\ \A p \in 1..cut : s[p] = up[n][p]
      /\ \A pos \in 1..cut + 1 : walk[pos] = Turn(walk, s, pos)
  BY DEF AllFormed, Cuts, Walked
<1>9. \A i \in 0..n : Len(up[i]) \in Nat
  BY UpExtends
<1> USE <1>0, <1>9
<1>1. n \in Q
  <2> SUFFICES ASSUME Len(up[n]) <= cut
               PROVE  walk[Len(up[n]) + 1] = Found(up, lines, n, cut, n)
    OBVIOUS
  <2>1. Len(up[n]) = cut
    BY <1>0
  <2>2. walk[cut + 1] = {}
    <3>1. cut + 1 \in 1..cut + 1 /\ cut + 1 > Len(s)
      OBVIOUS
    <3> QED
      BY <3>1, TurnCases
  <2>3. Found(up, lines, n, cut, n) = {}
    BY NoneFound
  <2> QED
    BY <2>1, <2>2, <2>3
<1>2. ASSUME NEW i \in 0..n, i < n, i + 1 \in Q PROVE i \in Q
  <2> SUFFICES ASSUME Len(up[i]) <= cut
               PROVE  walk[Len(up[i]) + 1] = Found(up, lines, n, cut, i)
    OBVIOUS
  <2> DEFINE m == i + 1
             l == lines[m]
             before == Len(up[i])
             after == Len(up[m])
             pos == before + 1
  <2>1. m \in 1..n /\ m - 1 = i /\ m \in 0..n /\ n \in m..n
    BY <1>2
  <2>2. Laid(up, lines, m) /\ l \in Seq(Cells) /\ Formed(l)
    BY <2>1, LineFacts DEF Flattens
  <2>3. /\ before \in Nat /\ after = before + Len(l)
        /\ \A p \in 1..Len(l) : up[m][before + p] = l[p]
    BY <2>1, <2>2 DEF Laid
  <2>4. Len(l) \in Nat \ {0}
    BY <2>2, EmptySeq DEF Formed
  <2>5. \A p \in 1..after : up[n][p] = up[m][p]
    BY <2>1, UpExtends
  <2> HIDE DEF m, l, before, after, pos
  <2>6. /\ pos \in Nat \ {0} /\ pos \in 1..cut + 1 /\ pos + Len(l) = after + 1
        /\ pos - 1 = before
    BY <2>3, <2>4 DEF pos, before
  <2>7. \A p \in 1..Len(l) : pos - 1 + p <= cut => s[pos - 1 + p] = l[p]
    <3> TAKE p \in 1..Len(l)
    <3> HAVE pos - 1 + p <= cut
    <3>1. pos - 1 + p \in 1..cut /\ pos - 1 + p \in 1..after /\ pos - 1 + p = before + p
      BY <2>3, <2>4, <2>6
    <3> QED
      BY <2>3, <2>5, <3>1
  <2>8. pos <= cut => s[pos] = l[1]
    <3>1. pos - 1 + 1 = pos /\ 1 \in 1..Len(l)
      BY <2>4, <2>6
    <3> QED
      BY <2>7, <3>1
  <2>9. walk[pos] = Turn(walk, s, pos)
    BY <2>6
  <2> DEFINE v == l[1][2]
  <2>10. l[1][1] = "len" => /\ v \in Nat /\ l[1] = <<"len", v>>
                            /\ Len(l) = IF v = 0 THEN 1 ELSE v
    <3>1. l[1] \in Cells
      BY <2>2, <2>4, ElementOfSeq
    <3> QED
      BY <2>2, <3>1, CellFacts DEF Formed
  <2> HIDE DEF v
  <2>11. CASE cut < after \/ l[1][1] # "len"
    <3>1. Found(up, lines, n, cut, i) = {}
      BY <1>2, <2>11, NoneFound DEF m, l, after
    <3>2. Turn(walk, s, pos) = {}
      <4>1. CASE pos > cut
        BY <4>1, TurnCases
      <4>2. CASE pos <= cut /\ l[1][1] # "len"
        BY <2>8, <4>2, TurnCases
      <4>3. CASE pos <= cut /\ l[1][1] = "len"
        <5>1. v \in Nat /\ v # 0 /\ v = Len(l)
          <6>1. cut < after /\ v \in Nat /\ Len(l) = IF v = 0 THEN 1 ELSE v
            BY <2>10, <2>11, <4>3
          <6>2. Len(l) # 1
            BY <2>3, <2>4, <2>6, <4>3, <6>1
          <6> QED
            BY <6>1, <6>2
        <5>2. ~(v < 1) /\ pos + v > cut + 1 /\ ~(pos > cut)
          BY <2>3, <2>4, <2>6, <2>11, <4>3, <5>1
        <5>3. s[pos] = <<"len", v>>
          BY <2>8, <2>10, <4>3
        <5> QED
          BY <5>2, <5>3, TurnCases DEF Line
      <4> QED
        BY <2>6, <4>1, <4>2, <4>3
    <3> QED
      BY <2>9, <3>1, <3>2 DEF pos, before
  <2>12. CASE after <= cut /\ l[1][1] = "len"
    <3>1. Found(up, lines, n, cut, i) = WantIn(Tail(l)) \cup Found(up, lines, n, cut, m)
      BY <1>2, <2>12, OneFound DEF m, l, after
    <3>2. walk[after + 1] = Found(up, lines, n, cut, m)
      BY <1>2, <2>12 DEF m, after
    <3>3. ~(pos > Len(s)) /\ s[pos] = <<"len", v>>
      <4>1. pos <= cut
        BY <2>3, <2>4, <2>6, <2>12
      <4> QED
        BY <2>6, <2>8, <2>10, <2>12, <4>1
    <3>4. Turn(walk, s, pos) = WantIn(Tail(l)) \cup walk[after + 1]
      <4>1. v \in Nat /\ Len(l) = IF v = 0 THEN 1 ELSE v
        BY <2>10, <2>12
      <4>3. CASE v = 0
        <5>1. v < 1 /\ pos + 1 = after + 1 /\ Len(l) = 1
          BY <2>6, <4>1, <4>3
        <5>2. Len(Tail(l)) = 0
          BY <2>2, <5>1, HeadTailProperties DEF Formed
        <5>3. WantIn(Tail(l)) = {}
          BY <5>2 DEF WantIn
        <5> QED
          BY <3>3, <5>1, <5>3, TurnCases DEF Line
      <4>4. CASE v # 0
        <5>1. ~(v < 1) /\ v = Len(l) /\ pos + v = after + 1 /\ ~(pos + v > Len(s) + 1)
          BY <2>3, <2>4, <2>6, <2>12, <4>1, <4>4
        <5>2. SubSeq(s, pos + 1, (pos + v) - 1) = Tail(l)
          <6>1. \A p \in 1..Len(l) : s[pos - 1 + p] = l[p]
            <7>1. \A p \in 1..Len(l) : pos - 1 + p <= cut
              BY <2>3, <2>4, <2>6, <2>12
            <7> QED
              BY <2>7, <7>1
          <6>2. pos + Len(l) <= Len(s) + 1
            BY <2>3, <2>4, <2>6, <2>12
          <6>3. SubSeq(s, pos + 1, (pos + Len(l)) - 1) = Tail(l)
            BY <2>2, <2>6, <6>1, <6>2, SameLine DEF Formed
          <6> QED
            BY <5>1, <6>3
        <5>3. Turn(walk, s, pos) = Line(walk, s, pos, v)
          BY <3>3, TurnCases
        <5> QED
          BY <5>1, <5>2, <5>3 DEF Line
      <4> QED
        BY <4>3, <4>4
    <3> QED
      BY <2>9, <3>1, <3>2, <3>4 DEF pos, before
  <2> QED
    BY <2>3, <2>4, <2>11, <2>12
<1>3. \A i \in 0..n : i \in Q
  <2> HIDE DEF Q
  <2> QED
    BY <1>1, <1>2, Descend
<1> QED
  BY <1>3

(* What parse_wants returns of a body, whatever its lines and its cut: the *)
(* wants of its whole lines, which are ids.                                *)
LEMMA LinesParsed ==
    ASSUME NEW b \in Bodies
    PROVE  /\ parse_wants(Bytes(b)) = UNION {WantIn(Tail(b.lines[i])) : i \in Whole(b)}
           /\ parse_wants(Bytes(b)) \subseteq Oids
<1> DEFINE lines == b.lines
           n == Len(lines)
           cut == b.cut
           up == CHOOSE u : Ups(u, lines)
           s == Bytes(b)
           walk == CHOOSE w : Walks(w, s)
<1>1. /\ lines \in Seq(Seq(Cells) \ {<<>>})
      /\ \A i \in 1..n : LET head == lines[i][1] IN
           head[1] = "len" => Len(lines[i]) = IF head[2] = 0 THEN 1 ELSE head[2]
      /\ cut \in 0..Len(Flat(lines)) /\ s = SubSeq(Flat(lines), 1, cut)
  BY BodiesAssumption DEF Bytes
<1>2. Whole(b) = {i \in 1..n : /\ Len(Flat(SubSeq(lines, 1, i))) <= cut
                               /\ \A j \in 1..i : lines[j][1][1] = "len"}
  BY DEF Whole
<1> HIDE DEF lines, cut, s
<1>3. lines \in Seq(Seq(Cells)) /\ n \in Nat
  <2>1. Seq(Cells) \ {<<>>} \subseteq Seq(Cells)
    OBVIOUS
  <2> QED
    BY <1>1, <2>1, SeqMonotonic, LenProperties
<1>4. \A i \in 1..n : lines[i] \in Seq(Cells) \ {<<>>}
  BY <1>1, ElementOfSeq
<1>5. Ups(up, lines)
  BY <1>3, UpsExist
<1> HIDE DEF up
<1>6. Flattens(up, lines, n)
  BY <1>3, <1>5, UpFlattens
<1>7. \A i \in 1..n : Formed(lines[i])
  BY <1>1, <1>4 DEF Formed
<1>8. Flat(lines) = up[n]
  BY FlatIsUp DEF up
<1>9. \A i \in 0..n : Flat(SubSeq(lines, 1, i)) = up[i]
  BY <1>3, <1>5, FlatPart
<1> HIDE DEF n
<1>10. up[n] \in Seq(Cells)
  <2>1. CASE n = 0
    BY <1>6, <2>1, EmptySeq DEF Flattens
  <2>2. CASE n # 0
    <3>1. n \in 1..n
      BY <1>3, <2>2
    <3> QED
      BY <1>6, <3>1 DEF Flattens
  <2> QED
    BY <2>1, <2>2
<1>11. cut \in Nat /\ cut <= Len(up[n]) /\ Len(up[n]) \in Nat
  <2>1. Len(up[n]) \in Nat
    BY <1>10, LenProperties
  <2> QED
    BY <1>1, <1>8, <2>1
<1>12. s \in Seq(Cells) /\ Len(s) = cut /\ \A p \in 1..cut : s[p] = up[n][p]
  <2> DEFINE f == up[n]
  <2>1. s = SubSeq(f, 1, cut) /\ f \in Seq(Cells)
    BY <1>1, <1>8, <1>10
  <2> HIDE DEF f
  <2>2. cut \in 0..Len(f)
    BY <1>11 DEF f
  <2>3. s \in Seq(Cells) /\ Len(s) = cut /\ \A p \in 1..cut : s[p] = f[p]
    BY <2>1, <2>2
  <2> QED
    BY <2>3 DEF f
<1>13. Walks(walk, s)
  BY <1>12, WalksExist
<1>14. parse_wants(s) = walk[1]
  BY ParseIsWalk
<1> HIDE DEF walk
<1>15. \A pos \in 1..cut + 1 : walk[pos] = Turn(walk, s, pos)
  BY <1>12, <1>13 DEF Walks
<1>16. walk[Len(up[0]) + 1] = Found(up, lines, n, cut, 0)
  <2>1. 0 \in 0..n /\ Len(up[0]) <= cut
    BY <1>3, <1>6, <1>11 DEF Flattens
  <2>2. Cuts(s, cut, up, n) /\ AllFormed(lines, n) /\ Walked(walk, s, cut)
    BY <1>7, <1>11, <1>12, <1>15 DEF Cuts, AllFormed, Walked
  <2>3. \A i \in 0..n : Len(up[i]) <= cut =>
          walk[Len(up[i]) + 1] = Found(up, lines, n, cut, i)
    BY <1>3, <1>6, <2>2, WalkFinds
  <2> QED
    BY <2>1, <2>3, Zenon
<1>17. Len(up[0]) + 1 = 1
  BY <1>6 DEF Flattens
<1>18. Whole(b) = Reach(up, lines, n, cut, 0)
  <2>1. 0 + 1 = 1 /\ \A i \in 1..n : i \in 0..n
    BY <1>3
  <2>2. \A i \in 1..n : Flat(SubSeq(lines, 1, i)) = up[i]
    BY <1>9, <2>1
  <2>3. Reach(up, lines, n, cut, 0) =
          {i \in 1..n : Len(up[i]) <= cut /\ \A j \in 1..i : lines[j][1][1] = "len"}
    BY <2>1 DEF Reach
  <2> QED
    BY <1>2, <2>2, <2>3, Zenon
<1>19. parse_wants(s) = UNION {WantIn(Tail(lines[i])) : i \in Whole(b)}
  BY <1>14, <1>16, <1>17, <1>18 DEF Found
<1>20. ASSUME NEW i \in Whole(b) PROVE WantIn(Tail(lines[i])) \subseteq Oids
  <2> DEFINE l == lines[i]
  <2>1. l \in Seq(Cells) /\ l # <<>>
    BY <1>2, <1>4
  <2> HIDE DEF l
  <2>2. Tail(l) \in Seq(Cells)
    BY <2>1, HeadTailProperties
  <2>3. \A t \in Seq(Cells) : WantIn(t) \subseteq Oids
    BY CellFacts DEF WantIn
  <2> QED
    BY <2>2, <2>3 DEF l
<1> QED
  BY <1>19, <1>20 DEF s, lines

-----------------------------------------------------------------------------
(* Types.                                                                  *)

(* No step takes a variable out of its type, or pins what is not stored.   *)
LEMMA NextType == TypeOK /\ [Next]_vars => TypeOK'
<1> SUFFICES ASSUME TypeOK, [Next]_vars PROVE TypeOK'
  OBVIOUS
<1> USE WantPinsAssumption DEF input, mirror, denied, Return, Holding, Results
<1>1. ASSUME NEW r \in Requests, Arrive(r) PROVE TypeOK'
  BY <1>1 DEF TypeOK, Arrive
<1>2. ASSUME NEW r \in Requests, Acquire(r) PROVE TypeOK'
  <2>1. parse_wants(Bytes(body[r])) \in SUBSET Oids
    BY LinesParsed DEF TypeOK
  <2> QED
    BY <1>2, <2>1 DEF TypeOK, Acquire
<1>3. ASSUME NEW r \in Requests, Check(r) PROVE TypeOK'
  <2>1. wants[r] \ objects \in SUBSET Oids
    BY DEF TypeOK
  <2>2. \A m \in Capped(wants[r] \ objects) : m \in SUBSET Oids
    BY <2>1, CappedFacts
  <2>3. \/ asked' = asked
        \/ \E m \in Capped(wants[r] \ objects) : asked' = [asked EXCEPT ![r] = m]
    BY <1>3 DEF Check
  <2>4. asked \in [Requests -> SUBSET Oids]
    BY DEF TypeOK
  <2>5. \A m \in SUBSET Oids : [asked EXCEPT ![r] = m] \in [Requests -> SUBSET Oids]
    BY <2>4
  <2>6. asked' \in [Requests -> SUBSET Oids]
    BY <2>2, <2>3, <2>4, <2>5, Zenon
  <2>7. excess' \subseteq Requests
    BY <1>3 DEF TypeOK, Check
  <2> QED
    BY <1>3, <2>6, <2>7 DEF TypeOK, Check
<1>4. ASSUME NEW r \in Requests, CheckFails(r) PROVE TypeOK'
  BY <1>4 DEF TypeOK, CheckFails
<1>5. ASSUME NEW r \in Requests, FetchExits(r) PROVE TypeOK'
  BY <1>5 DEF TypeOK, FetchExits, Land
<1>6. ASSUME NEW r \in Requests, FetchFails(r) PROVE TypeOK'
  <2>1. asked[r] \in SUBSET Oids
    BY DEF TypeOK
  <2>2. /\ objects' \subseteq Oids /\ pins' \subseteq objects'
        /\ excused' \in BOOLEAN
    BY <1>6, <2>1, PartFacts DEF FetchFails
  <2> QED
    BY <1>6, <2>2 DEF TypeOK, FetchFails
<1>7. ASSUME NEW r \in Requests, PruneList(r) PROVE TypeOK'
  <2>1. BeyondCap(pins) \in SUBSET Oids
    BY DEF TypeOK, BeyondCap
  <2> QED
    BY <1>7, <2>1 DEF TypeOK, PruneList
<1>8. ASSUME NEW r \in Requests, PruneDelete(r) PROVE TypeOK'
  BY <1>8 DEF TypeOK, PruneDelete
<1>9. ASSUME NEW r \in Requests, PruneFails(r) PROVE TypeOK'
  BY <1>9 DEF TypeOK, PruneFails
<1>10. ASSUME NEW r \in Requests, Serve(r) PROVE TypeOK'
  BY <1>10 DEF TypeOK, Serve
<1>11. ASSUME NEW r \in Requests, Drop(r) PROVE TypeOK'
  <2>1. Child(r) \subseteq [does : {"fetch", "delete"}, oids : SUBSET Oids]
    BY ChildFacts DEF TypeOK
  <2> QED
    BY <1>11, <2>1 DEF TypeOK, Drop
<1>12. ASSUME NEW o \in orphans, OrphanEnds(o) PROVE TypeOK'
  <2>1. o.oids \in SUBSET Oids
    BY DEF TypeOK
  <2>2. /\ objects' \subseteq Oids /\ pins' \subseteq objects'
        /\ excused' \in BOOLEAN
    <3>1. CASE LandPart(o.oids)
      BY <2>1, <3>1, PartFacts
    <3>2. CASE ~LandPart(o.oids)
      BY <1>12, <2>1, <3>2 DEF TypeOK, OrphanEnds, Land
    <3> QED
      BY <3>1, <3>2
  <2> QED
    BY <1>12, <2>2 DEF TypeOK, OrphanEnds
<1>13. CASE UNCHANGED vars
  BY <1>13 DEF TypeOK, vars
<1> QED
  BY <1>1, <1>2, <1>3, <1>4, <1>5, <1>6, <1>7, <1>8, <1>9, <1>10, <1>11,
     <1>12, <1>13 DEF Next, Proceed

(* Every variable stays within its type, and a pin always has its object.  *)
THEOREM TypeCorrect == Spec => []TypeOK
<1>1. Init => TypeOK
  BY WantPinsAssumption DEF Init, TypeOK
<1> QED
  BY <1>1, NextType, PTL DEF Spec

-----------------------------------------------------------------------------
(***************************************************************************)
(* The inductive invariant, part by part.                                  *)
(***************************************************************************)

(* Who is at work on the pins holds the slot lock.                         *)
Locked == \A r \in Requests : pc[r] \in Holding => holder = r

(* What is known of a request's wants when its turn under the lock ends:   *)
(* they are stored, or there is a reason why they may not be.              *)
Excuse(r) == r \in excess \cup trouble

Stored ==
    \A r \in Requests :
      /\ pc[r] = "fetch" => wants[r] \subseteq objects \cup asked[r] \/ Excuse(r)
      /\ pc[r] \in {"list", "delete", "serve"} => wants[r] \subseteq objects \/ Excuse(r)
      /\ pc[r] = "rejected" => Excuse(r)

(* An orphan is always excused; without an excuse the pins are within the  *)
(* cap, or the prune that brings them there is under way.                  *)
Capping ==
    /\ orphans # {} => excused
    /\ ~excused /\ (\A r \in Requests : pc[r] \notin {"list", "delete"}) =>
         ~Over(Cardinality(pins))
    /\ ~excused => \A r \in Requests :
         pc[r] = "delete" => ~Over(Cardinality(pins \ doomed[r]))

(* Every pin that is about to be deleted, by a request or by an orphan,    *)
(* has max_wants newer ones.                                               *)
Spared(doom) == \A p \in doom : Cardinality({q \in pins : q > p}) >= MaxWants

Spares ==
    /\ \A r \in Requests : pc[r] = "delete" => Spared(doomed[r])
    /\ \A o \in orphans : o.does = "delete" => Spared(o.oids)

(* A request keeps the lock until its turn ends.                           *)
LEMMA NextLocked == TypeOK /\ Locked /\ [Next]_vars => Locked'
<1> SUFFICES ASSUME TypeOK, Locked, [Next]_vars PROVE Locked'
  OBVIOUS
<1> USE WantPinsAssumption DEF input, mirror, denied, Return, Holding, Results
<1>1. ASSUME NEW r \in Requests, Arrive(r) PROVE Locked'
  BY <1>1 DEF TypeOK, Locked, Arrive
<1>2. ASSUME NEW r \in Requests, Acquire(r) PROVE Locked'
  BY <1>2 DEF TypeOK, Locked, Acquire
<1>3. ASSUME NEW r \in Requests, Check(r) PROVE Locked'
  BY <1>3 DEF TypeOK, Locked, Check
<1>4. ASSUME NEW r \in Requests, CheckFails(r) PROVE Locked'
  BY <1>4 DEF TypeOK, Locked, CheckFails
<1>5. ASSUME NEW r \in Requests, FetchExits(r) PROVE Locked'
  BY <1>5 DEF TypeOK, Locked, FetchExits, Land
<1>6. ASSUME NEW r \in Requests, FetchFails(r) PROVE Locked'
  BY <1>6 DEF TypeOK, Locked, FetchFails
<1>7. ASSUME NEW r \in Requests, PruneList(r) PROVE Locked'
  BY <1>7 DEF TypeOK, Locked, PruneList
<1>8. ASSUME NEW r \in Requests, PruneDelete(r) PROVE Locked'
  BY <1>8 DEF TypeOK, Locked, PruneDelete
<1>9. ASSUME NEW r \in Requests, PruneFails(r) PROVE Locked'
  BY <1>9 DEF TypeOK, Locked, PruneFails
<1>10. ASSUME NEW r \in Requests, Serve(r) PROVE Locked'
  BY <1>10 DEF TypeOK, Locked, Serve
<1>11. ASSUME NEW r \in Requests, Drop(r) PROVE Locked'
  BY <1>11 DEF TypeOK, Locked, Drop, Child
<1>12. ASSUME NEW o \in orphans, OrphanEnds(o) PROVE Locked'
  BY <1>12 DEF TypeOK, Locked, OrphanEnds
<1>13. CASE UNCHANGED vars
  BY <1>13 DEF TypeOK, Locked, vars
<1> QED
  BY <1>1, <1>2, <1>3, <1>4, <1>5, <1>6, <1>7, <1>8, <1>9, <1>10, <1>11,
     <1>12, <1>13 DEF Next, Proceed

(* Wants that are stored stay stored; the others have an excuse.           *)
LEMMA NextStored == TypeOK /\ Stored /\ [Next]_vars => Stored'
<1> SUFFICES ASSUME TypeOK, Stored, [Next]_vars PROVE Stored'
  OBVIOUS
<1> USE WantPinsAssumption DEF input, mirror, denied, Return, Holding, Results
<1>1. ASSUME NEW r \in Requests, Arrive(r) PROVE Stored'
  BY <1>1 DEF TypeOK, Stored, Excuse, Arrive
<1>2. ASSUME NEW r \in Requests, Acquire(r) PROVE Stored'
  BY <1>2 DEF TypeOK, Stored, Excuse, Acquire
<1>3. ASSUME NEW r \in Requests, Check(r) PROVE Stored'
  <2> DEFINE missing == wants[r] \ objects
  <2>1. CASE missing = {}
    BY <1>3, <2>1 DEF TypeOK, Stored, Excuse, Check
  <2>2. CASE missing # {}
    <3>1. PICK m \in Capped(missing) : asked' = [asked EXCEPT ![r] = m]
      BY <1>3, <2>2 DEF Check
    <3>2. missing \in SUBSET Oids
      BY DEF TypeOK
    <3>3. Over(Cardinality(missing)) \/ m = missing
      BY <3>1, <3>2, CappedFacts
    <3>4. /\ pc' = [pc EXCEPT ![r] = "fetch"]
          /\ excess \subseteq excess'
          /\ Over(Cardinality(missing)) => r \in excess'
          /\ UNCHANGED <<wants, objects, trouble>>
      BY <1>3, <2>2 DEF Check
    <3> QED
      BY <3>1, <3>3, <3>4 DEF TypeOK, Stored, Excuse
  <2> QED
    BY <2>1, <2>2
<1>4. ASSUME NEW r \in Requests, CheckFails(r) PROVE Stored'
  BY <1>4 DEF TypeOK, Stored, Excuse, CheckFails
<1>5. ASSUME NEW r \in Requests, FetchExits(r) PROVE Stored'
  BY <1>5 DEF TypeOK, Stored, Excuse, FetchExits, Land
<1>6. ASSUME NEW r \in Requests, FetchFails(r) PROVE Stored'
  <2>1. asked[r] \in SUBSET Oids
    BY DEF TypeOK
  <2>2. objects \subseteq objects'
    BY <1>6, <2>1, PartFacts DEF FetchFails
  <2> QED
    BY <1>6, <2>2 DEF TypeOK, Stored, Excuse, FetchFails
<1>7. ASSUME NEW r \in Requests, PruneList(r) PROVE Stored'
  BY <1>7 DEF TypeOK, Stored, Excuse, PruneList
<1>8. ASSUME NEW r \in Requests, PruneDelete(r) PROVE Stored'
  BY <1>8 DEF TypeOK, Stored, Excuse, PruneDelete
<1>9. ASSUME NEW r \in Requests, PruneFails(r) PROVE Stored'
  BY <1>9 DEF TypeOK, Stored, Excuse, PruneFails
<1>10. ASSUME NEW r \in Requests, Serve(r) PROVE Stored'
  BY <1>10 DEF TypeOK, Stored, Excuse, Serve
<1>11. ASSUME NEW r \in Requests, Drop(r) PROVE Stored'
  BY <1>11 DEF TypeOK, Stored, Excuse, Drop, Child
<1>12. ASSUME NEW o \in orphans, OrphanEnds(o) PROVE Stored'
  <2>1. o.oids \in SUBSET Oids
    BY DEF TypeOK
  <2>2. objects \subseteq objects'
    <3>1. CASE LandPart(o.oids)
      BY <2>1, <3>1, PartFacts
    <3>2. CASE ~LandPart(o.oids)
      BY <1>12, <3>2 DEF OrphanEnds, Land
    <3> QED
      BY <3>1, <3>2
  <2> QED
    BY <1>12, <2>2 DEF TypeOK, Stored, Excuse, OrphanEnds
<1>13. CASE UNCHANGED vars
  BY <1>13 DEF TypeOK, Stored, Excuse, vars
<1> QED
  BY <1>1, <1>2, <1>3, <1>4, <1>5, <1>6, <1>7, <1>8, <1>9, <1>10, <1>11,
     <1>12, <1>13 DEF Next, Proceed

(* A fetch is followed by a prune, or by an excuse.                        *)
LEMMA NextCapping == TypeOK /\ Locked /\ Capping /\ [Next]_vars => Capping'
<1> SUFFICES ASSUME TypeOK, Locked, Capping, [Next]_vars PROVE Capping'
  OBVIOUS
<1> USE WantPinsAssumption DEF input, mirror, denied, Return, Holding, Results
<1>1. ASSUME NEW r \in Requests, Arrive(r) PROVE Capping'
  BY <1>1 DEF TypeOK, Locked, Capping, Arrive
<1>2. ASSUME NEW r \in Requests, Acquire(r) PROVE Capping'
  BY <1>2 DEF TypeOK, Locked, Capping, Acquire
<1>3. ASSUME NEW r \in Requests, Check(r) PROVE Capping'
  BY <1>3 DEF TypeOK, Locked, Capping, Check
<1>4. ASSUME NEW r \in Requests, CheckFails(r) PROVE Capping'
  BY <1>4 DEF TypeOK, Locked, Capping, CheckFails
<1>5. ASSUME NEW r \in Requests, FetchExits(r) PROVE Capping'
  <2>1. CASE MaxWants = 0
    BY <1>5, <2>1 DEF TypeOK, Locked, Capping, FetchExits, Over
  <2>2. CASE MaxWants # 0
    BY <1>5, <2>2 DEF TypeOK, Locked, Capping, FetchExits
  <2> QED
    BY <2>1, <2>2
<1>6. ASSUME NEW r \in Requests, FetchFails(r) PROVE Capping'
  <2>1. asked[r] \in SUBSET Oids
    BY DEF TypeOK
  <2>2. (excused => excused') /\ (excused' \/ pins' = pins)
    BY <1>6, <2>1, PartFacts DEF FetchFails
  <2>3. /\ pc[r] = "fetch" /\ pc' = [pc EXCEPT ![r] = "serve"]
        /\ UNCHANGED <<orphans, doomed>>
    BY <1>6 DEF FetchFails
  <2>4. CASE excused'
    BY <2>4 DEF Capping
  <2>5. CASE ~excused'
    BY <2>2, <2>3, <2>5 DEF TypeOK, Capping
  <2> QED
    BY <2>4, <2>5
<1>7. ASSUME NEW r \in Requests, PruneList(r) PROVE Capping'
  <2>1. \A q \in Requests : pc[q] \in {"list", "delete"} => q = r
    BY <1>7 DEF Locked, PruneList
  <2>2. CASE Over(Cardinality(pins))
    <3>1. MaxWants > 0 /\ pins \in SUBSET Oids
      BY <2>2 DEF TypeOK, Over
    <3>2. ~Over(Cardinality(pins \ BeyondCap(pins)))
      BY <3>1, PruneLeaves
    <3>3. /\ pc' = [pc EXCEPT ![r] = "delete"]
          /\ doomed' = [doomed EXCEPT ![r] = BeyondCap(pins)]
          /\ excused' = (orphans # {} /\ excused) /\ UNCHANGED <<pins, orphans>>
      BY <1>7, <2>2 DEF PruneList
    <3>4. \A q \in Requests : pc'[q] = "delete" => q = r
      BY <2>1, <3>3 DEF TypeOK
    <3>5. pc'[r] = "delete" /\ doomed'[r] = BeyondCap(pins)
      BY <3>3 DEF TypeOK
    <3> QED
      BY <3>2, <3>3, <3>4, <3>5 DEF Capping
  <2>3. CASE ~Over(Cardinality(pins))
    <3>1. /\ pc' = [pc EXCEPT ![r] = "serve"]
          /\ excused' = (orphans # {} /\ excused) /\ UNCHANGED <<pins, orphans>>
      BY <1>7, <2>3 DEF PruneList
    <3>2. \A q \in Requests : pc'[q] # "delete"
      BY <2>1, <3>1 DEF TypeOK
    <3> QED
      BY <2>3, <3>1, <3>2 DEF Capping
  <2> QED
    BY <2>2, <2>3
<1>8. ASSUME NEW r \in Requests, PruneDelete(r) PROVE Capping'
  BY <1>8 DEF TypeOK, Locked, Capping, PruneDelete
<1>9. ASSUME NEW r \in Requests, PruneFails(r) PROVE Capping'
  BY <1>9 DEF TypeOK, Locked, Capping, PruneFails
<1>10. ASSUME NEW r \in Requests, Serve(r) PROVE Capping'
  BY <1>10 DEF TypeOK, Locked, Capping, Serve
<1>11. ASSUME NEW r \in Requests, Drop(r) PROVE Capping'
  <2>1. CASE pc[r] \in {"fetch", "list", "delete"}
    BY <1>11, <2>1 DEF Capping, Drop
  <2>2. CASE pc[r] \notin {"fetch", "list", "delete"}
    <3>1. Child(r) = {}
      BY <2>2, ChildFacts
    <3>2. pc' = [pc EXCEPT ![r] = "dropped"] /\ orphans' = orphans
          /\ excused' = excused /\ UNCHANGED <<pins, doomed>>
      BY <1>11, <2>2, <3>1 DEF Drop, TypeOK
    <3> QED
      BY <2>2, <3>2 DEF TypeOK, Capping
  <2> QED
    BY <2>1, <2>2
<1>12. ASSUME NEW o \in orphans, OrphanEnds(o) PROVE Capping'
  <2>1. o.oids \in SUBSET Oids /\ excused
    BY <1>12 DEF TypeOK, Capping
  <2>2. excused'
    <3>1. CASE LandPart(o.oids)
      BY <2>1, <3>1, PartFacts
    <3>2. CASE ~LandPart(o.oids)
      BY <1>12, <2>1, <3>2 DEF OrphanEnds
    <3> QED
      BY <3>1, <3>2
  <2> QED
    BY <2>2 DEF Capping
<1>13. CASE UNCHANGED vars
  BY <1>13 DEF TypeOK, Locked, Capping, vars
<1> QED
  BY <1>1, <1>2, <1>3, <1>4, <1>5, <1>6, <1>7, <1>8, <1>9, <1>10, <1>11,
     <1>12, <1>13 DEF Next, Proceed

(* No pin that is about to go loses its max_wants newer ones.              *)
LEMMA NextSpares == TypeOK /\ Spares /\ [Next]_vars => Spares'
<1> SUFFICES ASSUME TypeOK, Spares, [Next]_vars PROVE Spares'
  OBVIOUS
<1> USE WantPinsAssumption DEF input, mirror, denied, Return, Holding, Results
<1>1. ASSUME NEW r \in Requests, Arrive(r) PROVE Spares'
  BY <1>1 DEF TypeOK, Spares, Spared, Arrive
<1>2. ASSUME NEW r \in Requests, Acquire(r) PROVE Spares'
  BY <1>2 DEF TypeOK, Spares, Spared, Acquire
<1>3. ASSUME NEW r \in Requests, Check(r) PROVE Spares'
  BY <1>3 DEF TypeOK, Spares, Spared, Check
<1>4. ASSUME NEW r \in Requests, CheckFails(r) PROVE Spares'
  BY <1>4 DEF TypeOK, Spares, Spared, CheckFails
<1>5. ASSUME NEW r \in Requests, FetchExits(r) PROVE Spares'
  <2>1. pins \in SUBSET Oids /\ pins' \in SUBSET Oids /\ pins \subseteq pins'
    BY <1>5 DEF TypeOK, FetchExits, Land
  <2>2. \A p : Cardinality({q \in pins : q > p}) >= MaxWants =>
               Cardinality({q \in pins' : q > p}) >= MaxWants
    BY <2>1, LandSpares
  <2>3. /\ \A q \in Requests : pc'[q] = "delete" => pc[q] = "delete"
        /\ UNCHANGED <<doomed, orphans>>
    BY <1>5 DEF TypeOK, FetchExits
  <2> QED
    BY <2>2, <2>3 DEF Spares, Spared
<1>6. ASSUME NEW r \in Requests, FetchFails(r) PROVE Spares'
  <2>1. asked[r] \in SUBSET Oids
    BY DEF TypeOK
  <2>2. pins \in SUBSET Oids /\ pins' \in SUBSET Oids /\ pins \subseteq pins'
    BY <1>6, <2>1, PartFacts DEF TypeOK, FetchFails
  <2>3. \A p : Cardinality({q \in pins : q > p}) >= MaxWants =>
               Cardinality({q \in pins' : q > p}) >= MaxWants
    BY <2>2, LandSpares
  <2>4. /\ \A q \in Requests : pc'[q] = "delete" => pc[q] = "delete"
        /\ UNCHANGED <<doomed, orphans>>
    BY <1>6 DEF TypeOK, FetchFails
  <2> QED
    BY <2>3, <2>4 DEF Spares, Spared
<1>7. ASSUME NEW r \in Requests, PruneList(r) PROVE Spares'
  <2>1. \A q \in Requests :
          pc'[q] = "delete" => \/ pc[q] = "delete" /\ doomed'[q] = doomed[q]
                               \/ doomed'[q] = BeyondCap(pins)
    BY <1>7 DEF TypeOK, PruneList
  <2>2. Spared(BeyondCap(pins))
    BY DEF Spared, BeyondCap
  <2>3. UNCHANGED <<pins, orphans>>
    BY <1>7 DEF PruneList
  <2> QED
    BY <2>1, <2>2, <2>3 DEF Spares, Spared
<1>8. ASSUME NEW r \in Requests, PruneDelete(r) PROVE Spares'
  <2>1. pins \in SUBSET Oids /\ doomed[r] \in SUBSET Oids /\ Spared(doomed[r])
    BY <1>8 DEF TypeOK, Spares, PruneDelete
  <2>2. pins' = pins \ doomed[r] /\ UNCHANGED <<doomed, orphans>>
    BY <1>8 DEF PruneDelete
  <2>3. ASSUME NEW doom \in SUBSET Oids, Spared(doom) PROVE Spared(doom)'
    <3>1. /\ \A p \in doom : Cardinality({q \in pins : q > p}) >= MaxWants
          /\ \A p \in doomed[r] : Cardinality({q \in pins : q > p}) >= MaxWants
      BY <2>1, <2>3 DEF Spared
    <3>2. \A p \in doom : Cardinality({q \in pins \ doomed[r] : q > p}) >= MaxWants
      BY <2>1, <3>1, DeleteSpares
    <3> QED
      BY <2>2, <3>2 DEF Spared
  <2>4. \A q \in Requests : pc'[q] = "delete" => pc[q] = "delete"
    BY <1>8 DEF TypeOK, PruneDelete
  <2>5. /\ \A q \in Requests : doomed[q] \in SUBSET Oids
        /\ \A o \in orphans : o.oids \in SUBSET Oids
    BY DEF TypeOK
  <2> QED
    BY <2>2, <2>3, <2>4, <2>5 DEF Spares
<1>9. ASSUME NEW r \in Requests, PruneFails(r) PROVE Spares'
  BY <1>9 DEF TypeOK, Spares, Spared, PruneFails
<1>10. ASSUME NEW r \in Requests, Serve(r) PROVE Spares'
  BY <1>10 DEF TypeOK, Spares, Spared, Serve
<1>11. ASSUME NEW r \in Requests, Drop(r) PROVE Spares'
  <2>1. \A q \in Requests : pc'[q] = "delete" => pc[q] = "delete"
    BY <1>11 DEF TypeOK, Drop
  <2>2. ASSUME NEW o \in Child(r), o.does = "delete" PROVE Spared(o.oids)
    BY <2>2, ChildFacts DEF Spares
  <2>3. orphans' = orphans \cup Child(r) /\ UNCHANGED <<pins, doomed>>
    BY <1>11 DEF Drop
  <2> QED
    BY <2>1, <2>2, <2>3 DEF Spares, Spared
<1>12. ASSUME NEW o \in orphans, OrphanEnds(o) PROVE Spares'
  <2>1. o.oids \in SUBSET Oids /\ pins \in SUBSET Oids
    BY DEF TypeOK
  <2>2. UNCHANGED <<pc, doomed>> /\ orphans' = orphans \ {o}
    BY <1>12 DEF OrphanEnds
  <2>3. ASSUME NEW doom \in SUBSET Oids, Spared(doom) PROVE Spared(doom)'
    <3>1. CASE o.does = "fetch"
      <4>1. pins' \in SUBSET Oids /\ pins \subseteq pins'
        <5>1. CASE LandPart(o.oids)
          BY <2>1, <5>1, PartFacts
        <5>2. CASE ~LandPart(o.oids)
          BY <1>12, <2>1, <3>1, <5>2 DEF OrphanEnds, Land
        <5> QED
          BY <5>1, <5>2
      <4>2. \A p : Cardinality({q \in pins : q > p}) >= MaxWants =>
                   Cardinality({q \in pins' : q > p}) >= MaxWants
        BY <2>1, <4>1, LandSpares
      <4> QED
        BY <2>3, <4>2 DEF Spared
    <3>2. CASE o.does = "delete"
      <4>1. pins' = pins \ o.oids
        BY <1>12, <3>2 DEF OrphanEnds
      <4>2. Spared(o.oids)
        BY <3>2 DEF Spares
      <4>3. /\ \A p \in doom : Cardinality({q \in pins : q > p}) >= MaxWants
            /\ \A p \in o.oids : Cardinality({q \in pins : q > p}) >= MaxWants
        BY <2>3, <4>2 DEF Spared
      <4>4. \A p \in doom : Cardinality({q \in pins \ o.oids : q > p}) >= MaxWants
        BY <2>1, <4>3, DeleteSpares
      <4> QED
        BY <4>1, <4>4 DEF Spared
    <3> QED
      BY <3>1, <3>2 DEF TypeOK
  <2>4. /\ \A q \in Requests : doomed[q] \in SUBSET Oids
        /\ \A c \in orphans : c.oids \in SUBSET Oids
    BY DEF TypeOK
  <2> QED
    BY <2>2, <2>3, <2>4 DEF Spares
<1>13. CASE UNCHANGED vars
  BY <1>13 DEF TypeOK, Spares, Spared, vars
<1> QED
  BY <1>1, <1>2, <1>3, <1>4, <1>5, <1>6, <1>7, <1>8, <1>9, <1>10, <1>11,
     <1>12, <1>13 DEF Next, Proceed

-----------------------------------------------------------------------------
(* Together the parts hold of every state.                                 *)
IInv == TypeOK /\ Locked /\ Stored /\ Capping /\ Spares

(* They hold at first, and every step keeps them.                          *)
LEMMA Inductive == Spec => []IInv
<1>1. Init => IInv
  <2> SUFFICES ASSUME Init PROVE IInv
    OBVIOUS
  <2>1. TypeOK
    BY WantPinsAssumption DEF Init, TypeOK
  <2>2. Locked /\ Stored /\ Capping /\ Spares
    BY DEF Init, Locked, Holding, Stored, Capping, Spares
  <2> QED
    BY <2>1, <2>2 DEF IInv
<1>2. IInv /\ [Next]_vars => IInv'
  BY NextType, NextLocked, NextStored, NextCapping, NextSpares DEF IInv
<1> QED
  BY <1>1, <1>2, PTL DEF Spec

(* What the code sees of a request is what was sent: the ids of the want   *)
(* lines that arrived whole, before the first line without a prefix, and   *)
(* nothing from inside a line's data, for any body.                        *)
THEOREM WantsAreParsed == Spec => []WantsParsed
<1> DEFINE Sent(b) == UNION {WantIn(Tail(b.lines[i])) : i \in Whole(b)}
           Parsed == \A r \in Requests : pc[r] = "check" => wants[r] = Sent(body[r])
<1>1. WantsParsed <=> Parsed
  BY DEF WantsParsed
<1>2. \A b \in Bodies : parse_wants(Bytes(b)) = Sent(b)
  BY LinesParsed
<1> HIDE DEF Sent
<1>3. Init => Parsed
  BY DEF Init
<1>4. ASSUME TypeOK, Parsed, [Next]_vars PROVE Parsed'
  <2> USE <1>4 DEF input, mirror, denied, Return, Holding
  <2>1. ASSUME NEW r \in Requests, Acquire(r) PROVE Parsed'
    <3>1. body[r] \in Bodies /\ body' = body
      BY <2>1 DEF TypeOK, Acquire
    <3>2. wants' = [wants EXCEPT ![r] = Sent(body[r])]
      BY <1>2, <2>1, <3>1 DEF Acquire
    <3> QED
      BY <2>1, <3>1, <3>2 DEF TypeOK, Acquire
  <2>2. ASSUME NEW r \in Requests,
               \/ Arrive(r) \/ Check(r) \/ CheckFails(r) \/ FetchExits(r)
               \/ FetchFails(r) \/ PruneList(r) \/ PruneDelete(r) \/ PruneFails(r)
               \/ Serve(r) \/ Drop(r)
        PROVE  Parsed'
    <3>1. /\ body' = body /\ wants' = wants
          /\ \E l : pc' = [pc EXCEPT ![r] = l] /\ l # "check"
      BY <2>2 DEF Arrive, Check, CheckFails, FetchExits, FetchFails, PruneList,
                  PruneDelete, PruneFails, Serve, Drop
    <3> QED
      BY <3>1 DEF TypeOK
  <2>3. ASSUME NEW o \in orphans, OrphanEnds(o) PROVE Parsed'
    BY <2>3 DEF OrphanEnds
  <2>4. CASE UNCHANGED vars
    BY <2>4 DEF vars
  <2> QED
    BY <2>1, <2>2, <2>3, <2>4 DEF Next, Proceed
<1>5. Spec => []Parsed
  BY <1>3, <1>4, TypeCorrect, PTL DEF Spec
<1> QED
  BY <1>1, <1>5, PTL

(* "Cap how many want-by-SHA pins a mirror keeps": whenever the lock is    *)
(* free there are at most max_wants, for any interleaving of fetches and   *)
(* prunes; a drop or failure in between is made up for by the next prune.  *)
THEOREM PinsAreCapped == Spec => []PinsCapped
<1>1. ASSUME IInv, holder = Free, ~excused PROVE ~Over(Cardinality(pins))
  <2>1. \A r \in Requests : pc[r] \notin Holding
    BY <1>1, WantPinsAssumption DEF IInv, Locked
  <2> QED
    BY <1>1, <2>1 DEF IInv, Capping, Holding
<1>2. IInv => PinsCapped
  BY <1>1 DEF PinsCapped
<1> QED
  BY <1>2, Inductive, PTL

(* A request whose wants the upstream offers, and of which the mirror      *)
(* lacks no more than the cap, is not rejected unless a git command failed *)
(* for it.                                                                 *)
THEOREM WantsAreServed == Spec => []WantsServed
<1>1. IInv => WantsServed
  BY DEF IInv, Stored, Excuse, WantsServed
<1> QED
  BY <1>1, Inductive, PTL

(* A prune takes none of the newest max_wants pins, not even when its      *)
(* update-ref runs on after the request was dropped, beside the fetches    *)
(* and prunes of others.                                                   *)
THEOREM OnlyOldPinsGo == Spec => PrunedAreOldest
<1> DEFINE Kept == \A p \in pins \ pins' :
                     Cardinality({q \in pins' : q > p}) >= MaxWants
<1>1. ASSUME TypeOK, NEW doom \in SUBSET Oids, Spared(doom), pins' = pins \ doom
      PROVE  Kept
  <2>1. pins \in SUBSET Oids
    BY <1>1 DEF TypeOK
  <2>2. \A p \in doom : Cardinality({q \in pins : q > p}) >= MaxWants
    BY <1>1 DEF Spared
  <2>3. \A p \in doom : Cardinality({q \in pins \ doom : q > p}) >= MaxWants
    BY <2>1, <2>2, DeleteSpares
  <2> QED
    BY <1>1, <2>3
<1>2. ASSUME pins \subseteq pins' PROVE Kept
  BY <1>2
<1>3. ASSUME IInv, [Next]_vars PROVE Kept
  <2> USE <1>3 DEF IInv, input, mirror, denied
  <2>1. ASSUME NEW r \in Requests, PruneDelete(r) PROVE Kept
    <3>1. doomed[r] \in SUBSET Oids /\ Spared(doomed[r]) /\ pins' = pins \ doomed[r]
      BY <2>1 DEF TypeOK, Spares, PruneDelete
    <3> QED
      BY <1>1, <3>1
  <2>2. ASSUME NEW o \in orphans, OrphanEnds(o) PROVE Kept
    <3>1. CASE o.does = "delete"
      <4>1. o.oids \in SUBSET Oids /\ Spared(o.oids) /\ pins' = pins \ o.oids
        BY <2>2, <3>1 DEF TypeOK, Spares, OrphanEnds
      <4> QED
        BY <1>1, <4>1
    <3>2. CASE o.does # "delete"
      <4>1. pins \subseteq pins'
        <5>1. o.oids \in SUBSET Oids
          BY DEF TypeOK
        <5>2. CASE LandPart(o.oids)
          BY <5>1, <5>2, PartFacts
        <5>3. CASE ~LandPart(o.oids)
          BY <2>2, <3>2, <5>3 DEF OrphanEnds, Land
        <5> QED
          BY <5>2, <5>3
      <4> QED
        BY <1>2, <4>1
    <3> QED
      BY <3>1, <3>2
  <2>3. ASSUME NEW r \in Requests,
               \/ Arrive(r) \/ Acquire(r) \/ Check(r) \/ CheckFails(r)
               \/ FetchExits(r) \/ FetchFails(r) \/ PruneList(r)
               \/ PruneFails(r) \/ Serve(r) \/ Drop(r)
        PROVE  Kept
    <3>1. pins \subseteq pins'
      <4>1. CASE FetchFails(r)
        <5>1. asked[r] \in SUBSET Oids
          BY DEF TypeOK
        <5> QED
          BY <4>1, <5>1, PartFacts DEF FetchFails
      <4>2. CASE ~FetchFails(r)
        BY <2>3, <4>2 DEF Arrive, Acquire, Check, CheckFails, FetchExits, Land,
           PruneList, PruneFails, Serve, Drop
      <4> QED
        BY <4>1, <4>2
    <3> QED
      BY <1>2, <3>1
  <2>4. CASE UNCHANGED vars
    <3>1. pins \subseteq pins'
      BY <2>4 DEF vars
    <3> QED
      BY <1>2, <3>1
  <2> HIDE DEF Kept
  <2> QED
    BY <2>1, <2>2, <2>3, <2>4 DEF Next, Proceed
<1>4. IInv /\ [Next]_vars => [Kept]_vars
  BY <1>3
<1>5. [][Kept]_vars => PrunedAreOldest
  BY PTL DEF PrunedAreOldest
<1> QED
  BY <1>4, <1>5, Inductive, PTL DEF Spec

=============================================================================
