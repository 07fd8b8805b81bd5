-------------------------- MODULE CacheIndexProofs --------------------------
(***************************************************************************)
(* Lemmas about the operations of CacheIndex, for any keys and any cap:    *)
(* what a sum over a set of keys is, what taking keys out of the LRU list  *)
(* leaves, which entries take_victims pops.  Module EvictorProofs uses     *)
(* them.                                                                   *)
(***************************************************************************)
EXTENDS CacheIndex, FiniteSetTheorems, SequenceTheorems, TLAPS

-----------------------------------------------------------------------------
LEMMA SubsetsWellFounded ==
    ASSUME NEW S, IsFiniteSet(S)
    PROVE  IsWellFoundedOn(StrictSubsetOrdering(S), SUBSET S)
BY FS_StrictSubsetOrderingWellFounded, FS_FiniteSubsetsOfFinite

(* Induction over the subsets of a finite set, about a set of them: one    *)
(* that holds a set when it holds all its strict subsets holds them all.   *)
LEMMA SubsetInduction ==
    ASSUME NEW S, IsFiniteSet(S), NEW Q,
           \A s \in SUBSET S : (\A r \in SUBSET s : r # s => r \in Q) => s \in Q
    PROVE  \A s \in SUBSET S : s \in Q
<1> DEFINE T == {s \in SUBSET S : s \notin Q}
<1> SUFFICES ASSUME T # {} PROVE FALSE
  OBVIOUS
<1>1. IsWellFoundedOn(StrictSubsetOrdering(S), SUBSET S)
  BY SubsetsWellFounded
<1>2. PICK x \in T : \A y \in T : ~(<<y, x>> \in StrictSubsetOrdering(S))
  <2>1. T \subseteq SUBSET S
    OBVIOUS
  <2> HIDE DEF T
  <2> QED
    BY <1>1, <2>1, WFMin
<1>3. ASSUME NEW r \in SUBSET x, r # x PROVE r \in Q
  <2>1. <<r, x>> \in StrictSubsetOrdering(S)
    BY <1>2, <1>3 DEF StrictSubsetOrdering
  <2> QED
    BY <1>2, <1>3, <2>1
<1> QED
  BY <1>2, <1>3

-----------------------------------------------------------------------------
(* Sums.  SumFunctionOnSet is a fold, and the fold a recursive function    *)
(* over the subsets of the set; sum is one, for the set S, when Sums holds.*)
Chosen(s) == CHOOSE x \in s : TRUE

Sums(sum, f, S) ==
    sum = [s \in SUBSET S |->
             IF s = {} THEN 0 ELSE f[Chosen(s)] + sum[s \ {Chosen(s)}]]

Value(f, S) == (CHOOSE sum : Sums(sum, f, S))[S]

LEMMA FoldIsValue ==
    ASSUME NEW f, NEW S
    PROVE  SumFunctionOnSet(f, S) = Value(f, S)
BY DEF SumFunctionOnSet, FoldFunctionOnSet, MapThenFoldSet, Value, Sums, Chosen

LEMMA ChosenIn ==
    ASSUME NEW s, s # {}
    PROVE  Chosen(s) \in s /\ s \ {Chosen(s)} \in SUBSET s /\ s \ {Chosen(s)} # s
BY DEF Chosen

(* Two such functions agree where both are defined.                        *)
LEMMA SumsAgree ==
    ASSUME NEW f, NEW S, IsFiniteSet(S), NEW A, NEW B, NEW a, NEW b,
           S \subseteq A, S \subseteq B, Sums(a, f, A), Sums(b, f, B)
    PROVE  a[S] = b[S]
<1> DEFINE Q == {s \in SUBSET S : a[s] = b[s]}
<1>1. ASSUME NEW s \in SUBSET S, \A r \in SUBSET s : r # s => r \in Q
      PROVE  s \in Q
  <2>1. /\ a[s] = IF s = {} THEN 0 ELSE f[Chosen(s)] + a[s \ {Chosen(s)}]
        /\ b[s] = IF s = {} THEN 0 ELSE f[Chosen(s)] + b[s \ {Chosen(s)}]
    <3>1. s \in SUBSET A /\ s \in SUBSET B
      BY <1>1
    <3> QED
      BY <3>1 DEF Sums
  <2>2. s # {} => s \ {Chosen(s)} \in Q
    BY <1>1, ChosenIn
  <2> QED
    BY <1>1, <2>1, <2>2
<1>2. \A s \in SUBSET S : s \in Q
  <2> HIDE DEF Q
  <2> QED
    BY <1>1, SubsetInduction
<1> QED
  BY <1>2

(* For a finite set there is one.                                          *)
LEMMA SumsExist ==
    ASSUME NEW f, NEW S, IsFiniteSet(S)
    PROVE  \E sum : Sums(sum, f, S)
<1> DEFINE Q == {s \in SUBSET S : \E sum : Sums(sum, f, s)}
<1>1. ASSUME NEW x \in SUBSET S, \A r \in SUBSET x : r # x => r \in Q
      PROVE  x \in Q
  <2> DEFINE Rest(s) == s \ {Chosen(s)}
             step == [s \in SUBSET x |->
                        IF s = {} THEN 0 ELSE f[Chosen(s)] + Value(f, Rest(s))]
  <2>1. ASSUME NEW s \in SUBSET x, s # x
        PROVE  Value(f, s) = IF s = {} THEN 0 ELSE f[Chosen(s)] + Value(f, Rest(s))
    <3>0. IsFiniteSet(s) /\ \A r \in SUBSET s : IsFiniteSet(r)
      BY FS_Subset
    <3>1. \A r \in SUBSET s : \E sum : Sums(sum, f, r)
      BY <1>1, <2>1
    <3> DEFINE a == CHOOSE sum : Sums(sum, f, s)
               b == CHOOSE sum : Sums(sum, f, Rest(s))
    <3>2. Sums(a, f, s) /\ Sums(b, f, Rest(s))
      BY <3>1
    <3>3. Value(f, s) = a[s] /\ Value(f, Rest(s)) = b[Rest(s)]
      BY DEF Value
    <3>4. a[Rest(s)] = b[Rest(s)]
      <4>1. Rest(s) \subseteq s /\ IsFiniteSet(Rest(s))
        BY <3>0
      <4> HIDE DEF a, b, Rest
      <4> QED
        BY <3>2, <4>1, SumsAgree
    <3>5. a[s] = IF s = {} THEN 0 ELSE f[Chosen(s)] + a[Rest(s)]
      BY <3>2 DEF Sums
    <3> QED
      BY <3>3, <3>4, <3>5
  <2>2. ASSUME NEW s \in SUBSET x, s # {}
        PROVE  step[Rest(s)] = Value(f, Rest(s))
    <3>1. Rest(s) \in SUBSET x /\ Rest(s) # x
      BY <2>2, ChosenIn
    <3>2. Value(f, Rest(s)) =
            IF Rest(s) = {} THEN 0
            ELSE f[Chosen(Rest(s))] + Value(f, Rest(Rest(s)))
      BY <2>1, <3>1
    <3> QED
      BY <3>1, <3>2
  <2>3. Sums(step, f, x)
    <3>1. \A s \in SUBSET x :
            (IF s = {} THEN 0 ELSE f[Chosen(s)] + Value(f, Rest(s)))
              = (IF s = {} THEN 0 ELSE f[Chosen(s)] + step[Rest(s)])
      BY <2>2
    <3> QED
      BY <3>1 DEF Sums
  <2> QED
    BY <1>1, <2>3
<1>2. \A s \in SUBSET S : s \in Q
  <2> HIDE DEF Q
  <2> QED
    BY <1>1, SubsetInduction
<1> QED
  BY <1>2

(* The recursion that SumFunctionOnSet satisfies.                          *)
LEMMA SumStep ==
    ASSUME NEW f, NEW S, IsFiniteSet(S)
    PROVE  SumFunctionOnSet(f, S) =
             IF S = {} THEN 0
             ELSE f[Chosen(S)] + SumFunctionOnSet(f, S \ {Chosen(S)})
<1> DEFINE R == S \ {Chosen(S)}
           a == CHOOSE sum : Sums(sum, f, S)
           b == CHOOSE sum : Sums(sum, f, R)
<1>1. IsFiniteSet(R) /\ R \subseteq S /\ R \subseteq R
  BY FS_Subset
<1>2. Sums(a, f, S) /\ Sums(b, f, R)
  <2>1. \E sum : Sums(sum, f, S)
    BY SumsExist
  <2>2. \E sum : Sums(sum, f, R)
    <3> HIDE DEF R
    <3> QED
      BY <1>1, SumsExist
  <2> QED
    BY <2>1, <2>2
<1>3. a[R] = b[R]
  <2> HIDE DEF a, b, R
  <2> QED
    BY ONLY <1>1, <1>2, SumsAgree
<1>4. a[S] = IF S = {} THEN 0 ELSE f[Chosen(S)] + a[R]
  BY <1>2 DEF Sums
<1>5. SumFunctionOnSet(f, S) = a[S] /\ SumFunctionOnSet(f, R) = b[R]
  BY FoldIsValue DEF Value
<1> QED
  BY <1>3, <1>4, <1>5

Counts(f, S) == \A k \in S : f[k] \in Nat

(* The recursion may start with any element.                               *)
LEMMA SumRemove ==
    ASSUME NEW f, NEW S, IsFiniteSet(S), Counts(f, S)
    PROVE  /\ SumFunctionOnSet(f, S) \in Nat
           /\ \A k \in S :
                SumFunctionOnSet(f, S) = f[k] + SumFunctionOnSet(f, S \ {k})
<1> DEFINE Sum(s) == SumFunctionOnSet(f, s)
           Q == {s \in SUBSET S : Sum(s) \in Nat
                                  /\ \A k \in s : Sum(s) = f[k] + Sum(s \ {k})}
<1>1. ASSUME NEW s \in SUBSET S, \A r \in SUBSET s : r # s => r \in Q
      PROVE  s \in Q
  <2> DEFINE c == Chosen(s)
  <2>1. Sum(s) = IF s = {} THEN 0 ELSE f[c] + Sum(s \ {c})
    BY SumStep, FS_Subset
  <2>2. CASE s = {}
    BY <2>1, <2>2
  <2>3. CASE s # {}
    <3>1. c \in s /\ s \ {c} \in SUBSET s /\ s \ {c} # s
      BY <2>3, ChosenIn
    <3> HIDE DEF c
    <3>2. /\ Sum(s \ {c}) \in Nat
          /\ \A k \in s \ {c} : Sum(s \ {c}) = f[k] + Sum((s \ {c}) \ {k})
      BY <1>1, <3>1
    <3>3. ASSUME NEW k \in s, k # c
          PROVE  Sum(s) = f[k] + Sum(s \ {k})
      <4>1. s \ {k} \in Q /\ (s \ {c}) \ {k} \in Q
        BY <1>1, <3>3
      <4>2. c \in s \ {k} /\ (s \ {k}) \ {c} = (s \ {c}) \ {k}
        BY <3>1, <3>3
      <4>3. Sum(s \ {k}) = f[c] + Sum((s \ {c}) \ {k})
        BY <4>1, <4>2
      <4>4. Sum(s \ {c}) = f[k] + Sum((s \ {c}) \ {k})
        BY <3>2, <3>3
      <4>5. f[k] \in Nat /\ f[c] \in Nat /\ Sum((s \ {c}) \ {k}) \in Nat
        BY <3>1, <4>1 DEF Counts
      <4> HIDE DEF Sum
      <4> QED
        BY <2>1, <2>3, <4>3, <4>4, <4>5
    <3>4. Sum(s) = f[c] + Sum(s \ {c}) /\ f[c] \in Nat
      BY <2>1, <2>3, <3>1 DEF Counts
    <3>5. Sum(s) \in Nat
      <4> HIDE DEF Sum
      <4> QED
        BY <3>2, <3>4
    <3> HIDE DEF Sum
    <3> QED
      BY <3>3, <3>4, <3>5
  <2> QED
    BY <2>2, <2>3
<1>2. \A s \in SUBSET S : s \in Q
  <2> HIDE DEF Q
  <2> QED
    BY <1>1, SubsetInduction
<1> QED
  BY <1>2

(* Only the values on the set matter.                                      *)
LEMMA SumSame ==
    ASSUME NEW f, NEW g, NEW S, IsFiniteSet(S), \A k \in S : f[k] = g[k]
    PROVE  SumFunctionOnSet(f, S) = SumFunctionOnSet(g, S)
<1> DEFINE Q == {s \in SUBSET S : SumFunctionOnSet(f, s) = SumFunctionOnSet(g, s)}
<1>1. ASSUME NEW s \in SUBSET S, \A r \in SUBSET s : r # s => r \in Q
      PROVE  s \in Q
  <2>1. IsFiniteSet(s)
    BY FS_Subset
  <2>2. CASE s = {}
    BY <2>1, <2>2, SumStep
  <2>3. CASE s # {}
    <3>1. Chosen(s) \in s /\ s \ {Chosen(s)} \in Q
      BY <1>1, <2>3, ChosenIn
    <3>2. f[Chosen(s)] = g[Chosen(s)]
      BY <3>1
    <3>3. /\ SumFunctionOnSet(f, s)
               = f[Chosen(s)] + SumFunctionOnSet(f, s \ {Chosen(s)})
          /\ SumFunctionOnSet(g, s)
               = g[Chosen(s)] + SumFunctionOnSet(g, s \ {Chosen(s)})
      BY <2>1, <2>3, SumStep
    <3> QED
      BY <3>1, <3>2, <3>3
  <2> QED
    BY <2>2, <2>3
<1>2. \A s \in SUBSET S : s \in Q
  <2> HIDE DEF Q
  <2> QED
    BY <1>1, SubsetInduction
<1> QED
  BY <1>2

(* A part and the rest sum up to the whole.                                *)
LEMMA SumSplit ==
    ASSUME NEW f, NEW S, IsFiniteSet(S), Counts(f, S),
           NEW R \in SUBSET S
    PROVE  /\ SumFunctionOnSet(f, S) \in Nat
           /\ SumFunctionOnSet(f, R) \in Nat
           /\ SumFunctionOnSet(f, S \ R) \in Nat
           /\ SumFunctionOnSet(f, S)
                = SumFunctionOnSet(f, R) + SumFunctionOnSet(f, S \ R)
<1> DEFINE Sum(s) == SumFunctionOnSet(f, s)
           Q == {s \in SUBSET S : Sum(S) = Sum(s) + Sum(S \ s)}
<1>1. ASSUME NEW s \in SUBSET S
      PROVE  /\ IsFiniteSet(s) /\ Sum(s) \in Nat
             /\ \A k \in s : Sum(s) = f[k] + Sum(s \ {k})
  <2>1. IsFiniteSet(s) /\ Counts(f, s)
    BY FS_Subset DEF Counts
  <2> QED
    BY <2>1, SumRemove
<1>2. ASSUME NEW s \in SUBSET S, \A r \in SUBSET s : r # s => r \in Q
      PROVE  s \in Q
  <2>1. CASE s = {}
    <3>1. Sum(s) = 0 /\ S \ s = S /\ Sum(S) \in Nat
      BY <1>1, <2>1, SumStep
    <3> HIDE DEF Sum
    <3>2. Sum(S) = Sum(s) + Sum(S \ s)
      BY <3>1
    <3> QED
      BY <3>2
  <2>2. CASE s # {}
    <3>1. PICK k \in s : TRUE
      BY <2>2
    <3>2. s \ {k} \in Q
      BY <1>2
    <3>3. S \ s \in SUBSET S /\ S \ (s \ {k}) \in SUBSET S /\ s \ {k} \in SUBSET S
      OBVIOUS
    <3>4. k \in S \ (s \ {k}) /\ (S \ (s \ {k})) \ {k} = S \ s /\ f[k] \in Nat
      BY DEF Counts
    <3>5. Sum(S \ (s \ {k})) = f[k] + Sum(S \ s)
      BY <1>1, <3>3, <3>4
    <3>6. Sum(s) = f[k] + Sum(s \ {k})
      BY <1>1
    <3>7. Sum(S) = Sum(s \ {k}) + Sum(S \ (s \ {k}))
      BY <3>2
    <3>8. Sum(S \ s) \in Nat /\ Sum(s \ {k}) \in Nat
      BY <1>1, <3>3
    <3> HIDE DEF Sum
    <3>9. Sum(S) = Sum(s) + Sum(S \ s)
      BY <3>4, <3>5, <3>6, <3>7, <3>8
    <3> QED
      BY <3>9
  <2> QED
    BY <2>1, <2>2
<1>3. \A s \in SUBSET S : s \in Q
  <2> HIDE DEF Q
  <2> QED
    BY <1>2, SubsetInduction
<1>4. Sum(S) \in Nat /\ Sum(R) \in Nat /\ Sum(S \ R) \in Nat
  BY <1>1
<1> QED
  BY <1>3, <1>4

(* A sum over no more keys, of no larger values, is no larger.             *)
LEMMA SumBelow ==
    ASSUME NEW f, NEW g, NEW S, NEW R, IsFiniteSet(S), IsFiniteSet(R),
           Counts(f, S), Counts(g, R),
           \A k \in S : f[k] <= IF k \in R THEN g[k] ELSE 0
    PROVE  SumFunctionOnSet(f, S) <= SumFunctionOnSet(g, R)
<1> DEFINE Sum(h, s) == SumFunctionOnSet(h, s)
           Q == {s \in SUBSET S : Sum(f, s) <= Sum(g, s \cap R)}
<1>1. ASSUME NEW s \in SUBSET S
      PROVE  /\ IsFiniteSet(s) /\ Sum(f, s) \in Nat
             /\ \A k \in s : Sum(f, s) = f[k] + Sum(f, s \ {k})
  <2>1. IsFiniteSet(s) /\ Counts(f, s)
    BY FS_Subset DEF Counts
  <2> QED
    BY <2>1, SumRemove
<1>2. ASSUME NEW s \in SUBSET R
      PROVE  /\ IsFiniteSet(s) /\ Sum(g, s) \in Nat
             /\ \A k \in s : Sum(g, s) = g[k] + Sum(g, s \ {k})
  <2>1. IsFiniteSet(s) /\ Counts(g, s)
    BY FS_Subset DEF Counts
  <2> QED
    BY <2>1, SumRemove
<1>3. ASSUME NEW s \in SUBSET S, \A r \in SUBSET s : r # s => r \in Q
      PROVE  s \in Q
  <2>1. CASE s = {}
    <3>1. Sum(f, s) = 0 /\ Sum(g, s \cap R) = 0
      <4>1. s \cap R = {}
        BY <2>1
      <4> QED
        BY <1>1, <2>1, <4>1, SumStep
    <3> QED
      BY <3>1
  <2>2. CASE s # {}
    <3>1. PICK k \in s : TRUE
      BY <2>2
    <3>2. s \ {k} \in Q
      BY <1>3
    <3>3. Sum(f, s \ {k}) <= Sum(g, (s \ {k}) \cap R)
      BY <3>2
    <3>4. /\ Sum(f, s) = f[k] + Sum(f, s \ {k})
          /\ Sum(f, s \ {k}) \in Nat /\ f[k] \in Nat
      BY <1>1 DEF Counts
    <3>5. Sum(g, (s \ {k}) \cap R) \in Nat
      BY <1>2
    <3>6. CASE k \in R
      <4>1. (s \ {k}) \cap R = (s \cap R) \ {k}
        OBVIOUS
      <4>2. /\ Sum(g, s \cap R) = g[k] + Sum(g, (s \cap R) \ {k})
            /\ g[k] \in Nat /\ f[k] <= g[k]
        BY <1>2, <3>6 DEF Counts
      <4>3. Sum(g, s \cap R) = g[k] + Sum(g, (s \ {k}) \cap R)
        BY <4>1, <4>2, Zenon
      <4> HIDE DEF Sum, Q
      <4>4. Sum(f, s) <= Sum(g, s \cap R)
        BY ONLY <3>3, <3>4, <3>5, <4>2, <4>3
      <4> USE DEF Q
      <4> QED
        BY <4>4
    <3>7. CASE k \notin R
      <4>1. (s \ {k}) \cap R = s \cap R
        BY <3>7
      <4>2. f[k] <= 0
        BY <3>7
      <4>3. Sum(f, s \ {k}) <= Sum(g, s \cap R) /\ Sum(g, s \cap R) \in Nat
        BY <3>3, <3>5, <4>1, Zenon
      <4> HIDE DEF Sum, Q
      <4>4. Sum(f, s) <= Sum(g, s \cap R)
        BY ONLY <3>4, <4>2, <4>3
      <4> USE DEF Q
      <4> QED
        BY <4>4
    <3> QED
      BY <3>6, <3>7
  <2> QED
    BY <2>1, <2>2
<1>4. \A s \in SUBSET S : s \in Q
  <2> HIDE DEF Q
  <2> QED
    BY <1>3, SubsetInduction
<1>5. Sum(f, S) <= Sum(g, S \cap R)
  BY <1>4
<1>6. /\ Sum(g, R) \in Nat /\ Sum(g, S \cap R) \in Nat
      /\ Sum(g, R \ (S \cap R)) \in Nat
      /\ Sum(g, R) = Sum(g, S \cap R) + Sum(g, R \ (S \cap R))
  <2>1. S \cap R \in SUBSET R
    OBVIOUS
  <2> QED
    BY <2>1, SumSplit
<1>7. Sum(f, S) \in Nat
  BY <1>1
<1> HIDE DEF Sum
<1>8. Sum(f, S) <= Sum(g, R)
  BY <1>5, <1>6, <1>7
<1> QED
  BY <1>8 DEF Sum

-----------------------------------------------------------------------------
(* Lists: the LRU list holds the tracked keys, each once.                  *)
Lists(s, D) ==
    /\ s \in Seq(D)
    /\ \A k \in D : \E n \in 1..Len(s) : s[n] = k
    /\ \A m, n \in 1..Len(s) : s[m] = s[n] => m = n

LEMMA ListFacts ==
    ASSUME NEW s, NEW D, Lists(s, D)
    PROVE  /\ Len(s) \in Nat /\ s \in [1..Len(s) -> D]
           /\ ToSet(s) = D
           /\ IsFiniteSet(D) /\ Cardinality(D) = Len(s)
<1>1. Len(s) \in Nat /\ s \in [1..Len(s) -> D] /\ DOMAIN s = 1..Len(s)
  BY LenProperties DEF Lists
<1>2. ToSet(s) = D
  BY <1>1 DEF Lists, ToSet
<1>3. s \in Bijection(1..Len(s), D)
  BY <1>1 DEF Lists, Bijection, Injection, IsInjective, Surjection
<1>4. ExistsBijection(1..Len(s), D)
  BY <1>3 DEF ExistsBijection
<1> QED
  BY <1>1, <1>2, <1>4, FS_NatBijection, FS_CountingElements

(* SetToSeqs is the set of the lists of a finite set.                      *)
LEMMA SeqsAreLists ==
    ASSUME NEW D, IsFiniteSet(D), NEW s
    PROVE  s \in SetToSeqs(D) <=> Lists(s, D)
<1> DEFINE c == Cardinality(D)
<1>1. c \in Nat
  BY FS_CardinalityType
<1>2. ASSUME s \in SetToSeqs(D) PROVE Lists(s, D)
  <2>1. s \in [1..c -> D] /\ \A m, n \in 1..c : m # n => s[m] # s[n]
    BY <1>2 DEF SetToSeqs
  <2>2. s \in Injection(1..c, D)
    BY <2>1 DEF Injection, IsInjective
  <2>3. IsFiniteSet(1..c) /\ Cardinality(1..c) = c
    BY <1>1, FS_Interval
  <2>4. s \in Surjection(1..c, D)
    BY <2>2, <2>3, FS_Injection
  <2>5. s \in Seq(D) /\ Len(s) = c
    BY <1>1, <2>1, SeqDef
  <2> QED
    BY <2>1, <2>4, <2>5 DEF Lists, Surjection
<1>3. ASSUME Lists(s, D) PROVE s \in SetToSeqs(D)
  BY <1>3, ListFacts DEF SetToSeqs, Lists
<1> QED
  BY <1>2, <1>3

(* Lists of fewer keys, in the order of s.                                 *)
Ordered(t, s) == \A m, n \in 1..Len(t) : m < n => Before(s, t[m], t[n])

LEMMA DropOne ==
    ASSUME NEW s, NEW t, NEW D, Lists(t, D), Ordered(t, s), NEW k \in D
    PROVE  \E u : Lists(u, D \ {k}) /\ Ordered(u, s)
<1>1. Len(t) \in Nat /\ t \in [1..Len(t) -> D]
  BY ListFacts
<1>2. PICK p \in 1..Len(t) : t[p] = k
  BY DEF Lists
<1> DEFINE len == Len(t) - 1
           Old(n) == IF n < p THEN n ELSE n + 1
           u == [n \in 1..len |-> t[Old(n)]]
<1>3. len \in Nat
  BY <1>1, <1>2
<1>4. ASSUME NEW n \in 1..len
      PROVE  Old(n) \in 1..Len(t) /\ Old(n) # p
  BY <1>1, <1>2
<1>5. \A n \in 1..len : u[n] \in D \ {k}
  BY <1>1, <1>2, <1>4 DEF Lists
<1>6. u \in [1..len -> D \ {k}]
  BY <1>5
<1>7. u \in Seq(D \ {k}) /\ Len(u) = len
  <2> HIDE DEF u
  <2> QED
    BY <1>3, <1>6, SeqDef
<1>8. ASSUME NEW j \in D \ {k} PROVE \E n \in 1..len : u[n] = j
  <2>1. PICK m \in 1..Len(t) : t[m] = j
    BY <1>8 DEF Lists
  <2>2. m # p
    BY <1>2, <1>8, <2>1
  <2>3. CASE m < p
    <3>1. m \in 1..len /\ Old(m) = m
      BY <1>1, <2>3
    <3> QED
      BY <2>1, <3>1
  <2>4. CASE m > p
    <3>1. m - 1 \in 1..len /\ Old(m - 1) = m
      BY <1>1, <2>4
    <3> QED
      BY <2>1, <3>1
  <2> QED
    BY <2>2, <2>3, <2>4
<1>9. ASSUME NEW m \in 1..len, NEW n \in 1..len
      PROVE  (u[m] = u[n] => m = n) /\ (m < n => Before(s, u[m], u[n]))
  <2>1. u[m] = t[Old(m)] /\ u[n] = t[Old(n)]
    OBVIOUS
  <2>2. Old(m) \in 1..Len(t) /\ Old(n) \in 1..Len(t)
    BY <1>4
  <2>3. (Old(m) = Old(n) => m = n) /\ (m < n => Old(m) < Old(n))
    BY <1>1, <1>2
  <2> HIDE DEF u, Old
  <2>4. t[Old(m)] = t[Old(n)] => Old(m) = Old(n)
    BY <2>2 DEF Lists
  <2>5. Old(m) < Old(n) => Before(s, t[Old(m)], t[Old(n)])
    BY <2>2 DEF Ordered
  <2> QED
    BY <2>1, <2>3, <2>4, <2>5
<1> HIDE DEF u, len
<1>10. Lists(u, D \ {k})
  BY <1>7, <1>8, <1>9 DEF Lists
<1>11. Ordered(u, s)
  BY <1>7, <1>9 DEF Ordered
<1> QED
  BY <1>10, <1>11

(* Popping keys leaves a list of the others.                               *)
LEMMA MinusLists ==
    ASSUME NEW s, NEW D, Lists(s, D), NEW S
    PROVE  Lists(Minus(s, S), D \ S)
<1> DEFINE Q == {G \in SUBSET D : \E t : Lists(t, D \ G) /\ Ordered(t, s)}
<1>1. IsFiniteSet(D) /\ ToSet(s) = D /\ Len(s) \in Nat
  BY ListFacts
<1>2. ASSUME NEW G \in SUBSET D, \A r \in SUBSET G : r # G => r \in Q
      PROVE  G \in Q
  <2>1. CASE G = {}
    <3>1. Ordered(s, s)
      BY <1>1 DEF Ordered, Before
    <3>2. D \ G = D
      BY <2>1
    <3> QED
      BY <3>1, <3>2
  <2>2. CASE G # {}
    <3>1. PICK k \in G : TRUE
      BY <2>2
    <3>2. G \ {k} \in Q
      BY <1>2
    <3>3. PICK t : Lists(t, D \ (G \ {k})) /\ Ordered(t, s)
      BY <3>2
    <3>4. k \in D \ (G \ {k}) /\ (D \ (G \ {k})) \ {k} = D \ G
      OBVIOUS
    <3> QED
      BY <3>3, <3>4, DropOne
  <2> QED
    BY <2>1, <2>2
<1>3. \A G \in SUBSET D : G \in Q
  <2> HIDE DEF Q
  <2> QED
    BY <1>1, <1>2, SubsetInduction
<1>4. D \cap S \in Q
  BY <1>3
<1>5. D \ (D \cap S) = D \ S /\ IsFiniteSet(D \ S)
  BY <1>1, FS_Subset
<1>6. \E t \in SetToSeqs(D \ S) : Ordered(t, s)
  BY <1>4, <1>5, SeqsAreLists
<1>7. Minus(s, S) \in SetToSeqs(D \ S)
  BY <1>1, <1>6 DEF Minus, Ordered
<1> QED
  BY <1>5, <1>7, SeqsAreLists

LEMMA PromoteLists ==
    ASSUME NEW s, NEW D, Lists(s, D), NEW k
    PROVE  Lists(Promote(s, k), D \cup {k})
<1> DEFINE t == Minus(s, {k})
           u == Append(t, k)
           E == D \cup {k}
<1>1. Lists(t, D \ {k})
  BY MinusLists
<1> HIDE DEF t
<1>2. Len(t) \in Nat /\ t \in [1..Len(t) -> D \ {k}] /\ t \in Seq(E)
  <2>1. t \in Seq(D \ {k}) /\ D \ {k} \subseteq E
    BY <1>1 DEF Lists
  <2> QED
    BY <1>1, <2>1, ListFacts, SeqMonotonic
<1>3. u \in Seq(E) /\ Len(u) = Len(t) + 1
  BY <1>2
<1>4. \A n \in 1..Len(u) : u[n] = IF n <= Len(t) THEN t[n] ELSE k
  BY <1>2
<1> HIDE DEF u
<1>5. ASSUME NEW j \in E PROVE \E n \in 1..Len(u) : u[n] = j
  <2>1. CASE j = k
    BY <1>2, <1>3, <1>4, <2>1
  <2>2. CASE j # k
    <3>1. PICK n \in 1..Len(t) : t[n] = j
      BY <1>1, <1>5, <2>2 DEF Lists
    <3> QED
      BY <1>2, <1>3, <1>4, <3>1
  <2> QED
    BY <2>1, <2>2
<1>6. ASSUME NEW m \in 1..Len(u), NEW n \in 1..Len(u), u[m] = u[n]
      PROVE  m = n
  <2>1. \A i \in 1..Len(t) : t[i] # k
    BY <1>2
  <2>2. \A i, j \in 1..Len(t) : t[i] = t[j] => i = j
    BY <1>1 DEF Lists
  <2> QED
    BY <1>2, <1>3, <1>4, <1>6, <2>1, <2>2
<1>7. Lists(u, E)
  BY <1>3, <1>5, <1>6 DEF Lists
<1> QED
  BY <1>7 DEF u, t, Promote

Once(s) == \A m, n \in 1..Len(s) : s[m] = s[n] => m = n

(* Cutting the n oldest off.                                               *)
LEMMA CutLists ==
    ASSUME NEW s, NEW D, Lists(s, D), NEW n \in 0..Len(s)
    PROVE  /\ SubSeq(s, 1, n) \in Seq(D) /\ ToSet(SubSeq(s, 1, n)) \subseteq D
           /\ Lists(SubSeq(s, n + 1, Len(s)), D \ ToSet(SubSeq(s, 1, n)))
           /\ (n = Len(s) => ToSet(SubSeq(s, 1, n)) = D)
           /\ Once(SubSeq(s, 1, n))
<1> DEFINE a == SubSeq(s, 1, n)
           b == SubSeq(s, n + 1, Len(s))
           E == D \ ToSet(a)
<1>1. Len(s) \in Nat /\ s \in [1..Len(s) -> D] /\ n \in Nat /\ n <= Len(s)
  BY ListFacts
<1>2. /\ a \in Seq(D) /\ Len(a) = n
      /\ \A i \in 1..n : a[i] = s[i]
  <2>1. \A i \in 1..n : s[i] \in D
    BY <1>1
  <2> QED
    BY <1>1, <2>1, SubSeqProperties
<1>3. ToSet(a) = {s[i] : i \in 1..n}
  <2>1. DOMAIN a = 1..n
    BY <1>2, LenProperties
  <2> HIDE DEF a
  <2> QED
    BY <1>2, <2>1 DEF ToSet
<1>4. ASSUME NEW i \in (n + 1)..Len(s) PROVE s[i] \in E
  <2>1. s[i] \in D /\ i \in 1..Len(s) /\ \A j \in 1..n : j \in 1..Len(s) /\ j # i
    BY <1>1, <1>4
  <2>2. \A j \in 1..n : s[j] # s[i]
    BY <2>1 DEF Lists
  <2> QED
    BY <1>3, <2>1, <2>2
<1>5. /\ b \in Seq(E) /\ Len(b) = Len(s) - n
      /\ \A i \in 1..(Len(s) - n) : b[i] = s[n + i]
  <2>1. n + 1 \in Int /\ Len(s) \in Int
    BY <1>1
  <2>2. /\ b \in Seq(E)
        /\ Len(b) = IF n + 1 <= Len(s) THEN Len(s) - (n + 1) + 1 ELSE 0
        /\ \A i \in 1..(Len(s) - (n + 1) + 1) : b[i] = s[(n + 1) + i - 1]
    <3> HIDE DEF E
    <3> QED
      BY <1>4, <2>1, SubSeqProperties
  <2> HIDE DEF b, E
  <2>3. Len(b) = Len(s) - n
    <3> DEFINE len == Len(s)
    <3>1. /\ len \in Nat /\ n \in Nat /\ n <= len
          /\ Len(b) = IF n + 1 <= len THEN len - (n + 1) + 1 ELSE 0
      BY <1>1, <2>2
    <3> HIDE DEF len
    <3>2. Len(b) = len - n
      BY ONLY <3>1
    <3> QED
      BY <3>2 DEF len
  <2>4. ASSUME NEW i \in 1..(Len(s) - n) PROVE b[i] = s[n + i]
    <3>1. i \in 1..(Len(s) - (n + 1) + 1) /\ (n + 1) + i - 1 = n + i
      BY <1>1
    <3> QED
      BY <2>2, <3>1
  <2> QED
    BY <2>2, <2>3, <2>4
<1>6. ASSUME NEW k \in E PROVE \E i \in 1..Len(b) : b[i] = k
  <2>1. PICK j \in 1..Len(s) : s[j] = k
    BY DEF Lists
  <2>2. j \notin 1..n
    BY <1>3, <1>6, <2>1
  <2>3. j - n \in 1..(Len(s) - n) /\ n + (j - n) = j
    BY <1>1, <2>1, <2>2
  <2> HIDE DEF b
  <2> QED
    BY <1>5, <2>1, <2>3
<1> HIDE DEF a, b
<1>7. ASSUME NEW i \in 1..Len(b), NEW j \in 1..Len(b), b[i] = b[j]
      PROVE  i = j
  <2>1. b[i] = s[n + i] /\ b[j] = s[n + j]
    BY <1>5
  <2>2. i \in Nat /\ j \in Nat
        /\ n + i \in 1..Len(s) /\ n + j \in 1..Len(s)
    BY ONLY <1>1, <1>5, <1>7
  <2>3. n + i = n + j
    BY <1>7, <2>1, <2>2 DEF Lists
  <2> QED
    BY <1>1, <2>2, <2>3
<1>8. ASSUME n = Len(s) PROVE ToSet(a) = D
  <2>1. \A k \in D : \E i \in 1..n : s[i] = k
    BY <1>8 DEF Lists
  <2>2. \A i \in 1..n : s[i] \in D
    BY <1>1
  <2> QED
    BY <1>3, <2>1, <2>2
<1>9. Lists(b, E)
  BY <1>5, <1>6, <1>7 DEF Lists
<1>10. Once(a)
  <2>1. \A i \in 1..n : i \in 1..Len(s)
    BY <1>1
  <2> QED
    BY <1>2, <2>1 DEF Once, Lists
<1> QED
  BY <1>1, <1>2, <1>3, <1>8, <1>9, <1>10 DEF a, b

-----------------------------------------------------------------------------
(* Sizes: entering and dropping entries.                                   *)
Sizing(f, D) == f \in [D -> Nat]

LEMMA PutSum ==
    ASSUME NEW D, IsFiniteSet(D), NEW f, Sizing(f, D), NEW k, NEW n \in Nat
    PROVE  /\ Sizing(Put(f, k, n), D \cup {k})
           /\ SumFunction(f) \in Nat
           /\ SumFunction(Put(f, k, n))
                = (SumFunction(f) - (IF k \in D THEN f[k] ELSE 0)) + n
<1> DEFINE g == Put(f, k, n)
           E == D \cup {k}
<1>0. f \in [D -> Nat]
  BY DEF Sizing
<1>1. g \in [E -> Nat] /\ g[k] = n /\ \A j \in D \ {k} : g[j] = f[j]
  BY <1>0 DEF Put
<1>2. IsFiniteSet(E) /\ IsFiniteSet(D \ {k}) /\ E \ {k} = D \ {k}
  BY FS_AddElement, FS_Subset
<1>3. SumFunction(f) = SumFunctionOnSet(f, D)
      /\ SumFunction(g) = SumFunctionOnSet(g, E)
  BY <1>0, <1>1 DEF SumFunction
<1> HIDE DEF g
<1>4. SumFunctionOnSet(g, E) = n + SumFunctionOnSet(g, D \ {k})
  <2>1. Counts(g, E)
    BY <1>1 DEF Counts
  <2> QED
    BY <1>1, <1>2, <2>1, SumRemove
<1>5. SumFunctionOnSet(g, D \ {k}) = SumFunctionOnSet(f, D \ {k})
  BY <1>1, <1>2, SumSame
<1>6. /\ SumFunctionOnSet(f, D) \in Nat /\ SumFunctionOnSet(f, D \ {k}) \in Nat
      /\ k \in D => SumFunctionOnSet(f, D) = f[k] + SumFunctionOnSet(f, D \ {k})
  <2>1. Counts(f, D) /\ Counts(f, D \ {k})
    BY <1>0 DEF Counts
  <2> QED
    BY <1>2, <2>1, SumRemove
<1>7. CASE k \in D
  <2>1. f[k] \in Nat
    BY <1>0, <1>7
  <2> QED
    BY <1>1, <1>3, <1>4, <1>5, <1>6, <1>7, <2>1 DEF g, Sizing
<1>8. CASE k \notin D
  <2>1. D \ {k} = D /\ (IF k \in D THEN f[k] ELSE 0) = 0
    BY <1>8
  <2>2. SumFunction(g) = n + SumFunction(f) /\ SumFunction(f) \in Nat
    BY <1>3, <1>4, <1>5, <1>6, <2>1
  <2> QED
    BY <1>1, <2>1, <2>2 DEF g, Sizing
<1> QED
  BY <1>7, <1>8

LEMMA WithoutSum ==
    ASSUME NEW D, IsFiniteSet(D), NEW f, Sizing(f, D), NEW S \in SUBSET D
    PROVE  /\ Sizing(Without(f, S), D \ S)
           /\ SumFunctionOnSet(f, S) \in Nat
           /\ SumFunction(Without(f, S)) \in Nat
           /\ SumFunction(Without(f, S))
                = SumFunction(f) - SumFunctionOnSet(f, S)
<1> DEFINE g == Without(f, S)
<1>0. f \in [D -> Nat]
  BY DEF Sizing
<1>1. g \in [D \ S -> Nat] /\ \A k \in D \ S : g[k] = f[k]
  BY <1>0 DEF Without, Restrict
<1>2. SumFunction(f) = SumFunctionOnSet(f, D)
      /\ SumFunction(g) = SumFunctionOnSet(g, D \ S)
  BY <1>0, <1>1 DEF SumFunction
<1> HIDE DEF g
<1>3. SumFunctionOnSet(g, D \ S) = SumFunctionOnSet(f, D \ S)
  BY <1>1, FS_Subset, SumSame
<1>4. /\ SumFunctionOnSet(f, D) \in Nat /\ SumFunctionOnSet(f, S) \in Nat
      /\ SumFunctionOnSet(f, D \ S) \in Nat
      /\ SumFunctionOnSet(f, D)
           = SumFunctionOnSet(f, S) + SumFunctionOnSet(f, D \ S)
  <2>1. Counts(f, D)
    BY <1>0 DEF Counts
  <2> QED
    BY <2>1, SumSplit
<1> QED
  BY <1>1, <1>2, <1>3, <1>4 DEF g, Sizing

-----------------------------------------------------------------------------
(* The index is sound: IndexSound with its types, the list's in the form   *)
(* the operations preserve.                                                *)
Sound ==
    /\ tracked \subseteq Keys
    /\ Sizing(size, tracked)
    /\ Lists(lru, tracked)
    /\ total = SumFunction(size)

LEMMA ListTypes ==
    ASSUME NEW D \in SUBSET Keys, NEW s, Lists(s, D), NEW f, Sizing(f, D)
    PROVE  /\ IsFiniteSet(D) /\ ToSet(s) = D /\ Len(s) = Cardinality(D)
           /\ s \in Seq(Keys) /\ SumFunction(f) \in Nat
<1>1. IsFiniteSet(D) /\ ToSet(s) = D /\ Len(s) = Cardinality(D)
  BY ListFacts
<1>2. SumFunction(f) \in Nat
  BY <1>1, PutSum
<1>3. s \in Seq(Keys)
  BY SeqMonotonic DEF Lists
<1> QED
  BY <1>1, <1>2, <1>3

LEMMA SoundFacts ==
    ASSUME Sound
    PROVE  IsFiniteSet(tracked) /\ total \in Nat /\ IndexSound
BY ListTypes DEF Sound, IndexSound

LEMMA PutTracked ==
    ASSUME Sound, NEW k, NEW n \in Nat
    PROVE  /\ Sizing(Put(size, k, n), tracked \cup {k})
           /\ SumFunction(Put(size, k, n))
                = (total - (IF k \in tracked THEN size[k] ELSE 0)) + n
<1>1. IsFiniteSet(tracked) /\ Sizing(size, tracked)
  BY SoundFacts DEF Sound
<1>2. /\ Sizing(Put(size, k, n), tracked \cup {k})
      /\ SumFunction(Put(size, k, n))
           = (SumFunction(size) - (IF k \in tracked THEN size[k] ELSE 0)) + n
  BY <1>1, PutSum
<1>3. total = SumFunction(size)
  BY DEF Sound
<1> QED
  BY <1>2, <1>3

LEMMA WithoutTracked ==
    ASSUME Sound, NEW S \in SUBSET tracked
    PROVE  /\ Sizing(Without(size, S), tracked \ S)
           /\ SumFunctionOnSet(size, S) \in Nat
           /\ SumFunction(Without(size, S)) \in Nat
           /\ SumFunction(Without(size, S)) = total - SumFunctionOnSet(size, S)
<1>1. IsFiniteSet(tracked) /\ Sizing(size, tracked)
  BY SoundFacts DEF Sound
<1>2. /\ Sizing(Without(size, S), tracked \ S)
      /\ SumFunctionOnSet(size, S) \in Nat
      /\ SumFunction(Without(size, S)) \in Nat
      /\ SumFunction(Without(size, S))
           = SumFunction(size) - SumFunctionOnSet(size, S)
  BY <1>1, WithoutSum
<1>3. total = SumFunction(size)
  BY DEF Sound
<1> QED
  BY <1>2, <1>3

LEMMA TouchSound ==
    ASSUME Sound, NEW k, touch(k)
    PROVE  Sound'
<1>1. tracked' = tracked /\ size' = size /\ total' = total
  BY DEF touch, tracked
<1>2. Lists(lru', tracked)
  <2>1. CASE k \in tracked
    <3>1. tracked \cup {k} = tracked
      BY <2>1
    <3> QED
      BY <2>1, <3>1, PromoteLists DEF touch, Sound
  <2>2. CASE k \notin tracked
    BY <2>2 DEF touch, Sound
  <2> QED
    BY <2>1, <2>2
<1> QED
  BY <1>1, <1>2 DEF Sound

LEMMA RecordBlobSound ==
    ASSUME Sound, NEW k \in Keys, NEW n \in Nat, record_blob(k, n)
    PROVE  Sound' /\ tracked' = tracked \cup {k}
<1>1. IsFiniteSet(tracked)
  BY SoundFacts
<1>2. /\ size' = Put(size, k, n) /\ lru' = Promote(lru, k)
      /\ total' = (total - (IF k \in tracked THEN size[k] ELSE 0)) + n
  BY DEF record_blob
<1>3. /\ Sizing(size', tracked \cup {k})
      /\ SumFunction(size') = total'
  BY <1>2, PutTracked
<1>4. tracked' = tracked \cup {k}
  BY <1>3 DEF tracked, Sizing
<1>5. Lists(lru', tracked \cup {k})
  BY <1>2, PromoteLists DEF Sound
<1> QED
  BY <1>3, <1>4, <1>5 DEF Sound

LEMMA MarkChangedSound ==
    ASSUME Sound, NEW k \in Keys, mark_changed(k)
    PROVE  Sound' /\ tracked' = tracked \cup {k}
<1>1. IsFiniteSet(tracked) /\ total \in Nat
  BY SoundFacts
<1>2. /\ size' = IF k \in tracked THEN size ELSE Put(size, k, 0)
      /\ lru' = Promote(lru, k) /\ total' = total
  BY DEF mark_changed
<1>3. Sizing(size', tracked \cup {k}) /\ SumFunction(size') = total'
  <2>1. CASE k \in tracked
    <3>1. tracked \cup {k} = tracked
      BY <2>1
    <3> QED
      BY <1>2, <2>1, <3>1 DEF Sound
  <2>2. CASE k \notin tracked
    <3>1. /\ Sizing(Put(size, k, 0), tracked \cup {k})
          /\ SumFunction(Put(size, k, 0)) = (total - 0) + 0
      BY <2>2, PutTracked
    <3> QED
      BY <1>1, <1>2, <2>2, <3>1
  <2> QED
    BY <2>1, <2>2
<1>4. tracked' = tracked \cup {k}
  BY <1>3 DEF tracked, Sizing
<1>5. Lists(lru', tracked \cup {k})
  BY <1>2, PromoteLists DEF Sound
<1> QED
  BY <1>3, <1>4, <1>5 DEF Sound

LEMMA SetSizeSound ==
    ASSUME Sound, NEW k, NEW n \in Nat, set_size(k, n)
    PROVE  Sound' /\ tracked' = tracked
<1>1. CASE k \in tracked
  <2>1. size' = Put(size, k, n) /\ lru' = lru
        /\ total' = (total - size[k]) + n
    BY <1>1 DEF set_size, Put, Sound, Sizing, tracked
  <2>2. IsFiniteSet(tracked) /\ tracked \cup {k} = tracked
    BY <1>1, SoundFacts
  <2>3. /\ Sizing(Put(size, k, n), tracked \cup {k})
        /\ SumFunction(Put(size, k, n))
             = (total - (IF k \in tracked THEN size[k] ELSE 0)) + n
    BY PutTracked
  <2>4. Sizing(size', tracked) /\ SumFunction(size') = total'
    BY <1>1, <2>1, <2>2, <2>3
  <2>5. tracked' = tracked
    BY <2>4 DEF tracked, Sizing
  <2> QED
    BY <2>1, <2>4, <2>5 DEF Sound
<1>2. CASE k \notin tracked
  BY <1>2 DEF set_size, Sound, tracked
<1> QED
  BY <1>1, <1>2

LEMMA DropSound ==
    ASSUME Sound, NEW S, drop_missing(S)
    PROVE  Sound' /\ tracked' = tracked \ Droppable(S)
<1> DEFINE gone == Droppable(S)
<1>1. /\ lru' = Minus(lru, gone) /\ size' = Without(size, gone)
      /\ total' = total - SumFunctionOnSet(size, gone)
  BY DEF drop_missing
<1>2. gone \in SUBSET tracked
  BY DEF Droppable
<1> HIDE DEF gone
<1>4. Sizing(size', tracked \ gone) /\ SumFunction(size') = total'
  BY <1>1, <1>2, WithoutTracked
<1>5. tracked' = tracked \ gone
  BY <1>4 DEF tracked, Sizing
<1>6. Lists(lru', tracked \ gone)
  BY <1>1, MinusLists DEF Sound
<1> QED
  BY <1>4, <1>5, <1>6 DEF Sound, gone

(* The first n at which popping stops is in the list, and what is left is  *)
(* within the cap: when nothing is left, the total is 0.                   *)
LEMMA PopsFacts ==
    ASSUME Sound
    PROVE  /\ Pops \in 0..Len(lru)
           /\ total - OldestBytes(Pops) \in Nat
           /\ total - OldestBytes(Pops) <= MaxBytes
<1> DEFINE Stop(n) == total - OldestBytes(n) <= MaxBytes \/ n = Len(lru)
           T == {n \in 0..Len(lru) : Stop(n)}
           R == OpToRel(<, Nat)
<1>1. IsFiniteSet(tracked) /\ total \in Nat /\ Len(lru) \in Nat
  BY SoundFacts, ListFacts DEF Sound
<1>2. ASSUME NEW n \in 0..Len(lru)
      PROVE  /\ OldestBytes(n) \in Nat /\ total - OldestBytes(n) \in Nat
             /\ (n = Len(lru) => total - OldestBytes(n) = 0)
  <2> DEFINE S == ToSet(SubSeq(lru, 1, n))
  <2>1. S \in SUBSET tracked /\ (n = Len(lru) => S = tracked)
    BY CutLists DEF Sound
  <2>2. OldestBytes(n) = SumFunctionOnSet(size, S)
    BY DEF OldestBytes
  <2>3. SumFunction(size) = SumFunctionOnSet(size, tracked)
    BY DEF SumFunction, tracked
  <2> HIDE DEF S
  <2>4. /\ SumFunctionOnSet(size, S) \in Nat
        /\ SumFunction(Without(size, S)) \in Nat
        /\ SumFunction(Without(size, S))
             = total - SumFunctionOnSet(size, S)
    BY <2>1, WithoutTracked
  <2>5. OldestBytes(n) \in Nat /\ total - OldestBytes(n) \in Nat
    BY <2>2, <2>4
  <2>6. n = Len(lru) => OldestBytes(n) = total
    BY <2>1, <2>2, <2>3 DEF Sound
  <2> QED
    BY <1>1, <2>5, <2>6
<1>3. T \subseteq Nat /\ T # {}
  BY <1>1
<1>4. PICK p \in T : \A m \in T : ~(<<m, p>> \in R)
  <2>1. IsWellFoundedOn(R, Nat)
    BY NatLessThanWellFounded
  <2> HIDE DEF R, T
  <2> QED
    BY <1>3, <2>1, WFMin
<1>5. ASSUME NEW m \in 0..(p - 1) PROVE total - OldestBytes(m) > MaxBytes
  <2>0. p \in 0..Len(lru)
    BY <1>4
  <2>1. m \in 0..Len(lru) /\ m < p /\ m \in Nat /\ p \in Nat
    <3> DEFINE len == Len(lru)
    <3>1. len \in Nat /\ p \in 0..len
      BY <1>1, <2>0
    <3> HIDE DEF len
    <3>2. m \in 0..len /\ m < p /\ m \in Nat /\ p \in Nat
      BY ONLY <1>5, <3>1
    <3> QED
      BY <3>2 DEF len
  <2>2. <<m, p>> \in R
    BY <2>1 DEF OpToRel
  <2>3. ~Stop(m)
    BY <1>4, <2>1, <2>2
  <2> QED
    BY <1>2, <2>1, <2>3, CapAssumption
<1>6. \E n \in 0..Len(lru) :
        /\ total - OldestBytes(n) <= MaxBytes \/ n = Len(lru)
        /\ \A m \in 0..(n - 1) : total - OldestBytes(m) > MaxBytes
  BY <1>4, <1>5
<1>7. /\ Pops \in 0..Len(lru)
      /\ total - OldestBytes(Pops) <= MaxBytes \/ Pops = Len(lru)
  BY <1>6 DEF Pops
<1>8. /\ total - OldestBytes(Pops) \in Nat
      /\ (Pops = Len(lru) => total - OldestBytes(Pops) = 0)
  BY <1>2, <1>7
<1> QED
  BY <1>7, <1>8, CapAssumption

LEMMA VictimsSound ==
    ASSUME Sound, take_victims
    PROVE  /\ Sound' /\ total' <= MaxBytes
           /\ Victims \in Seq(Keys) /\ Once(Victims)
           /\ ToSet(Victims) \subseteq tracked
           /\ tracked' = tracked \ ToSet(Victims)
<1> DEFINE gone == ToSet(Victims)
<1>1. /\ Pops \in 0..Len(lru) /\ total - OldestBytes(Pops) \in Nat
      /\ total - OldestBytes(Pops) <= MaxBytes
  BY PopsFacts
<1>2. /\ Victims \in Seq(tracked) /\ gone \subseteq tracked /\ Once(Victims)
      /\ Lists(SubSeq(lru, Pops + 1, Len(lru)), tracked \ gone)
  BY <1>1, CutLists DEF Victims, Sound
<1>3. OldestBytes(Pops) = SumFunctionOnSet(size, gone)
  BY DEF OldestBytes, Victims
<1>4. /\ lru' = SubSeq(lru, Pops + 1, Len(lru))
      /\ size' = Without(size, gone) /\ total' = total - OldestBytes(Pops)
  BY DEF take_victims
<1> HIDE DEF gone
<1>6. Sizing(size', tracked \ gone) /\ SumFunction(size') = total'
  BY <1>2, <1>3, <1>4, WithoutTracked
<1>7. tracked' = tracked \ gone
  BY <1>6 DEF tracked, Sizing
<1>8. Victims \in Seq(Keys)
  BY <1>2, SeqMonotonic DEF Sound
<1> QED
  BY <1>1, <1>2, <1>4, <1>6, <1>7, <1>8 DEF Sound, gone

(* Removing the first of a list.                                           *)
LEMMA HeadTail ==
    ASSUME NEW s \in Seq(Keys), s # <<>>
    PROVE  /\ Head(s) \in Keys /\ Tail(s) \in Seq(Keys)
           /\ ToSet(s) = {Head(s)} \cup ToSet(Tail(s))
           /\ Once(s) => Once(Tail(s)) /\ Head(s) \notin ToSet(Tail(s))
<1> DEFINE t == Tail(s)
<1>1. /\ Len(s) \in Nat /\ Len(s) > 0 /\ DOMAIN s = 1..Len(s)
      /\ Head(s) \in Keys /\ t \in Seq(Keys) /\ Head(s) = s[1]
      /\ Len(t) = Len(s) - 1 /\ DOMAIN t = 1..(Len(s) - 1)
      /\ \A i \in 1..(Len(s) - 1) : t[i] = s[i + 1]
  BY HeadTailProperties, EmptySeq, LenProperties
<1> HIDE DEF t
<1>2. ASSUME NEW i \in 1..Len(s) PROVE s[i] \in {Head(s)} \cup ToSet(t)
  <2>1. CASE i = 1
    BY <1>1, <2>1
  <2>2. CASE i # 1
    <3>1. i - 1 \in 1..(Len(s) - 1) /\ (i - 1) + 1 = i
      BY <1>1, <2>2
    <3> QED
      BY <1>1, <3>1 DEF ToSet
  <2> QED
    BY <2>1, <2>2
<1>3. ASSUME NEW i \in 1..(Len(s) - 1)
      PROVE  i + 1 \in 1..Len(s) /\ i + 1 # 1 /\ t[i] = s[i + 1]
  BY <1>1
<1>4. 1 \in 1..Len(s)
  BY <1>1
<1>5. ToSet(s) = {Head(s)} \cup ToSet(t)
  BY <1>1, <1>2, <1>3, <1>4 DEF ToSet
<1>6. ASSUME Once(s) PROVE Once(t) /\ Head(s) \notin ToSet(t)
  <2>1. Head(s) \notin ToSet(t)
    BY <1>1, <1>3, <1>4, <1>6 DEF ToSet, Once
  <2>2. ASSUME NEW i \in 1..Len(t), NEW j \in 1..Len(t), t[i] = t[j]
        PROVE  i = j
    <3>1. i + 1 = j + 1
      BY <1>1, <1>3, <1>6, <2>2 DEF Once
    <3> QED
      BY <1>1, <3>1
  <2> QED
    BY <2>1, <2>2 DEF Once
<1> QED
  BY <1>1, <1>5, <1>6 DEF t

(* A startup scan.                                                         *)
LEMMA ScanSound ==
    ASSUME NEW D \in SUBSET Keys, NEW f \in [D -> Nat], NEW s \in SetToSeqs(D)
    PROVE  (Scan(s, f) => Sound) /\ (Rescan(s, f) => Sound')
<1>1. Lists(s, D)
  BY FS_Subset, KeysAssumption, SeqsAreLists
<1> QED
  BY <1>1 DEF Scan, Rescan, Sound, Sizing, tracked

=============================================================================
