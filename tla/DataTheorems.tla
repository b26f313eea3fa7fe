--------------------------- MODULE DataTheorems ---------------------------
(***************************************************************************)
(* Facts about finite sets, sums and sequences that the proofs of several  *)
(* components share. The induction principles are stated about sets, not   *)
(* about predicates, and rest on the least element of a well-founded set.  *)
(***************************************************************************)
EXTENDS Integers, Sequences, FiniteSets, SequencesExt, FiniteSetTheorems,
        WellFoundedInduction, TLAPS

\* Induction on the subsets of a finite set: what holds of a set when it holds of
\* all its proper subsets holds of each.
LEMMA FiniteInduction ==
  ASSUME NEW S, IsFiniteSet(S), NEW G,
         \A T \in SUBSET S : (\A U \in (SUBSET T) \ {T} : U \in G) => T \in G
  PROVE  \A T \in SUBSET S : T \in G
<1>. DEFINE Bad == {T \in SUBSET S : T \notin G}
<1>1. SUFFICES ASSUME Bad # {} PROVE FALSE
  OBVIOUS
<1>2. IsWellFoundedOn(StrictSubsetOrdering(S), FiniteSubsetsOf(S))
  BY FS_StrictSubsetOrderingWellFounded
<1>3. FiniteSubsetsOf(S) = SUBSET S
  BY FS_FiniteSubsetsOfFinite
<1>4. Bad \subseteq FiniteSubsetsOf(S)
  BY <1>3
<1>5. PICK T \in Bad : \A U \in Bad : ~(<<U, T>> \in StrictSubsetOrdering(S))
  <2>. HIDE DEF Bad
  <2>. QED BY <1>1, <1>2, <1>4, WFMin
<1>6. \A U \in (SUBSET T) \ {T} : U \in SUBSET S /\ <<U, T>> \in StrictSubsetOrdering(S)
  BY <1>3 DEF StrictSubsetOrdering
<1>. QED BY <1>5, <1>6

\* A set of natural numbers that is not empty has a least one.
LEMMA NatLeast ==
  ASSUME NEW T, T \subseteq Nat, T # {}
  PROVE  \E n \in T : \A m \in T : n <= m
<1>. DEFINE R == OpToRel(<, Nat)
<1>1. IsWellFoundedOn(R, Nat)
  BY NatLessThanWellFounded
<1>2. \A x, y \in Nat : <<y, x>> \in R <=> y < x
  BY DEF OpToRel
<1>. HIDE DEF R
<1>3. PICK n \in T : \A m \in T : ~(<<m, n>> \in R)
  BY <1>1, WFMin
<1>4. ASSUME NEW m \in T PROVE n <= m
  <2>1. n \in Nat /\ m \in Nat
    OBVIOUS
  <2>2. ~(m < n)
    BY <1>2, <1>3, <2>1
  <2>. QED BY <2>1, <2>2
<1>. QED BY <1>4

\* Induction on the natural numbers.
LEMMA NatInductive ==
  ASSUME NEW G, 0 \in G, \A n \in Nat : n \in G => n + 1 \in G
  PROVE  \A n \in Nat : n \in G
<1>. DEFINE Bad == {n \in Nat : n \notin G}
<1>1. SUFFICES ASSUME Bad # {} PROVE FALSE
  OBVIOUS
<1>2. PICK n \in Bad : \A m \in Bad : n <= m
  <2>. Bad \subseteq Nat
    OBVIOUS
  <2>. HIDE DEF Bad
  <2>. QED BY <1>1, NatLeast
<1>3. n \in Nat /\ n # 0 /\ n \notin G
  BY <1>2
<1>4. n - 1 \in Nat /\ n - 1 \in G
  BY <1>2, <1>3
<1>. QED BY <1>3, <1>4

\* A finite set of numbers has a first part of every size up to its own.
LEMMA FirstPart ==
  ASSUME NEW F \in SUBSET Nat, IsFiniteSet(F)
  PROVE  \A k \in Nat : k <= Cardinality(F) =>
           \E P \in SUBSET F : /\ Cardinality(P) = k
                             /\ \A p \in P, q \in F \ P : p < q
<1>. DEFINE Part(P, k) == Cardinality(P) = k /\ \A p \in P, q \in F \ P : p < q
            G == {k \in Nat : k <= Cardinality(F) => \E P \in SUBSET F : Part(P, k)}
<1>0. Cardinality(F) \in Nat
  BY FS_CardinalityType
<1>1. 0 \in G
  <2>1. Part({}, 0)
    BY FS_EmptySet
  <2>. HIDE DEF Part
  <2>. QED BY <2>1
<1>2. ASSUME NEW k \in Nat, k \in G PROVE k + 1 \in G
  <2>1. SUFFICES ASSUME k + 1 <= Cardinality(F) PROVE \E P \in SUBSET F : Part(P, k + 1)
    OBVIOUS
  <2>2. PICK P \in SUBSET F : Part(P, k)
    <3>. k <= Cardinality(F)
      BY <1>0, <2>1
    <3>. HIDE DEF Part
    <3>. QED BY <1>2
  <2>3. F \ P # {}
    <3>1. Cardinality(P) # Cardinality(F)
      BY <1>0, <2>1, <2>2
    <3>2. P # F
      BY <3>1
    <3>. QED BY <3>2
  <2>4. PICK x \in F \ P : \A q \in F \ P : x <= q
    BY <2>3, NatLeast
  <2>5. Cardinality(P \cup {x}) = k + 1
    <3>1. IsFiniteSet(P)
      BY FS_Subset
    <3>. QED BY <2>2, <2>4, <3>1, FS_AddElement
  <2>6. ASSUME NEW p \in P \cup {x}, NEW q \in F \ (P \cup {x}) PROVE p < q
    BY <2>2, <2>4
  <2>7. Part(P \cup {x}, k + 1)
    BY <2>5, <2>6
  <2>. HIDE DEF Part
  <2>. QED BY <2>4, <2>7
<1>3. \A k \in Nat : k \in G
  <2>. HIDE DEF G
  <2>. QED BY <1>1, <1>2, NatInductive
<1>. QED BY <1>3

\* What MapThenFoldSet() of the community modules does, step by step.
First(s) == CHOOSE x \in s : TRUE

SumStep(f, g, s) == IF s = {} THEN 0 ELSE f[First(s)] + g[s \ {First(s)}]

IsSumOn(f, g, S) == g = [s \in SUBSET S |-> SumStep(f, g, s)]

\* A sum is the value, for the whole set, of the function the fold is defined by.
LEMMA SumIsFold ==
  ASSUME NEW f, NEW S
  PROVE  SumFunctionOnSet(f, S) = (CHOOSE g : IsSumOn(f, g, S))[S]
BY DEF SumFunctionOnSet, FoldFunctionOnSet, MapThenFoldSet, IsSumOn, SumStep, First

\* The element a fold takes first is one of the set.
LEMMA FirstIn == \A s : s # {} => First(s) \in s
BY DEF First

\* The function that the fold is defined by exists: it is built up by the size of
\* the subsets.
LEMMA SumExists ==
  ASSUME NEW f, NEW S, IsFiniteSet(S)
  PROVE  \E g : IsSumOn(f, g, S)
<1>. DEFINE Small(n) == {s \in SUBSET S : Cardinality(s) <= n}
            G == {n \in Nat : \E g : g = [s \in Small(n) |-> SumStep(f, g, s)]}
<1>0. \A s \in SUBSET S : IsFiniteSet(s) /\ Cardinality(s) \in Nat
  BY FS_Subset, FS_CardinalityType
<1>1. 0 \in G
  <2>. DEFINE g == [s \in Small(0) |-> 0]
  <2>1. \A s \in Small(0) : s = {}
    BY <1>0, FS_EmptySet
  <2>2. g = [s \in Small(0) |-> SumStep(f, g, s)]
    BY <2>1 DEF SumStep
  <2>. QED BY <2>2
<1>2. ASSUME NEW n \in Nat, n \in G PROVE n + 1 \in G
  <2>1. PICK h : h = [s \in Small(n) |-> SumStep(f, h, s)]
    BY <1>2
  <2>. DEFINE g == [s \in Small(n + 1) |-> SumStep(f, h, s)]
  <2>2. ASSUME NEW s \in Small(n + 1), s # {}
        PROVE  s \ {First(s)} \in Small(n)
    <3>1. First(s) \in s
      BY <2>2, FirstIn
    <3>2. Cardinality(s \ {First(s)}) = Cardinality(s) - 1
      BY <1>0, <3>1, FS_RemoveElement
    <3>. QED BY <1>0, <3>2
  <2>3. \A s \in Small(n) : s \in Small(n + 1) /\ h[s] = g[s]
    BY <1>0, <2>1
  <2>4. ASSUME NEW s \in Small(n + 1) PROVE SumStep(f, h, s) = SumStep(f, g, s)
    <3>1. CASE s = {}
      BY <3>1 DEF SumStep
    <3>2. CASE s # {}
      <4>1. h[s \ {First(s)}] = g[s \ {First(s)}]
        BY <3>2, <2>2, <2>3
      <4>. QED BY <3>2, <4>1 DEF SumStep
    <3>. QED BY <3>1, <3>2
  <2>5. g = [s \in Small(n + 1) |-> SumStep(f, g, s)]
    BY <2>4
  <2>. HIDE DEF g
  <2>. QED BY <2>5
<1>3. Cardinality(S) \in G
  <2>. HIDE DEF G
  <2>1. Cardinality(S) \in Nat
    BY <1>0
  <2>. QED BY <1>1, <1>2, <2>1, NatInductive
<1>4. Small(Cardinality(S)) = SUBSET S
  BY FS_Subset
<1>. QED BY <1>3, <1>4 DEF IsSumOn

\* It does not depend on the set whose subsets it is given for.
LEMMA SumUnique ==
  ASSUME NEW f, NEW S, NEW T, T \subseteq S, IsFiniteSet(T),
         NEW g, NEW h, IsSumOn(f, g, S), IsSumOn(f, h, T)
  PROVE  \A s \in SUBSET T : g[s] = h[s]
<1>. DEFINE G == {s \in SUBSET T : g[s] = h[s]}
<1>1. ASSUME NEW s \in SUBSET T, \A U \in (SUBSET s) \ {s} : U \in G
      PROVE  s \in G
  <2>1. g[s] = SumStep(f, g, s) /\ h[s] = SumStep(f, h, s)
    BY DEF IsSumOn
  <2>2. CASE s = {}
    BY <2>1, <2>2 DEF SumStep
  <2>3. CASE s # {}
    <3>1. s \ {First(s)} \in (SUBSET s) \ {s}
      BY <2>3, FirstIn
    <3>2. g[s \ {First(s)}] = h[s \ {First(s)}]
      BY <1>1, <3>1
    <3>. QED BY <2>1, <3>2 DEF SumStep
  <2>. QED BY <2>2, <2>3
<1>2. \A s \in SUBSET T : s \in G
  <2>. HIDE DEF G
  <2>. QED BY <1>1, FiniteInduction
<1>. QED BY <1>2

\* A sum is its first term and the sum of the others.
LEMMA SumRec ==
  ASSUME NEW f, NEW S, IsFiniteSet(S)
  PROVE  SumFunctionOnSet(f, S) =
           IF S = {} THEN 0
           ELSE f[First(S)] + SumFunctionOnSet(f, S \ {First(S)})
<1>. DEFINE g == CHOOSE g : IsSumOn(f, g, S)
            T == S \ {First(S)}
            h == CHOOSE h : IsSumOn(f, h, T)
<1>1. IsFiniteSet(T)
  BY FS_RemoveElement
<1>2. IsSumOn(f, g, S) /\ IsSumOn(f, h, T)
  BY <1>1, SumExists
<1>3. SumFunctionOnSet(f, S) = g[S] /\ SumFunctionOnSet(f, T) = h[T]
  BY SumIsFold
<1>4. T \subseteq S
  OBVIOUS
<1>. HIDE DEF g, h
<1>5. g[T] = h[T]
  <2>. HIDE DEF T
  <2>. QED BY <1>1, <1>2, <1>4, SumUnique
<1>6. g[S] = SumStep(f, g, S)
  BY <1>2 DEF IsSumOn
<1>. QED BY <1>3, <1>5, <1>6 DEF SumStep

\* The sum of no terms.
LEMMA SumEmpty == ASSUME NEW f PROVE SumFunctionOnSet(f, {}) = 0
<1>1. IsFiniteSet({})
  BY FS_EmptySet
<1>. QED BY <1>1, SumRec

\* A sum of integers is an integer.
LEMMA SumType ==
  ASSUME NEW D, NEW f \in [D -> Int], NEW S, S \subseteq D, IsFiniteSet(S)
  PROVE  SumFunctionOnSet(f, S) \in Int
<1>. DEFINE G == {s \in SUBSET S : SumFunctionOnSet(f, s) \in Int}
<1>1. ASSUME NEW s \in SUBSET S, \A U \in (SUBSET s) \ {s} : U \in G
      PROVE  s \in G
  <2>1. IsFiniteSet(s)
    BY FS_Subset
  <2>2. CASE s = {}
    BY <2>2, SumEmpty
  <2>3. CASE s # {}
    <3>1. First(s) \in s
      BY <2>3, FirstIn
    <3>2. SumFunctionOnSet(f, s \ {First(s)}) \in Int
      BY <1>1, <3>1
    <3>3. f[First(s)] \in Int
      BY <3>1
    <3>. QED BY <2>1, <2>3, <3>2, <3>3, SumRec
  <2>. QED BY <2>2, <2>3
<1>2. \A s \in SUBSET S : s \in G
  <2>. HIDE DEF G
  <2>. QED BY <1>1, FiniteInduction
<1>. QED BY <1>2

\* Any new term may be added last: the order of a fold does not matter.
LEMMA SumAdd ==
  ASSUME NEW D, NEW f \in [D -> Int], NEW S, S \subseteq D, IsFiniteSet(S),
         NEW x \in D \ S
  PROVE  SumFunctionOnSet(f, S \cup {x}) = f[x] + SumFunctionOnSet(f, S)
<1>. DEFINE G == {s \in SUBSET S :
                    \A y \in D \ s : SumFunctionOnSet(f, s \cup {y})
                                      = f[y] + SumFunctionOnSet(f, s)}
<1>1. ASSUME NEW s \in SUBSET S, \A U \in (SUBSET s) \ {s} : U \in G
      PROVE  s \in G
  <2>. SUFFICES ASSUME NEW y \in D \ s
       PROVE  SumFunctionOnSet(f, s \cup {y}) = f[y] + SumFunctionOnSet(f, s)
    OBVIOUS
  <2>. DEFINE t == s \cup {y}
              z == First(t)
              u == s \ {z}
  <2>1. IsFiniteSet(s) /\ IsFiniteSet(t) /\ IsFiniteSet(u)
    BY FS_Subset, FS_AddElement, FS_RemoveElement
  <2>2. z \in t /\ t # {}
    BY FirstIn
  <2>3. SumFunctionOnSet(f, t) = f[z] + SumFunctionOnSet(f, t \ {z})
    <3>. HIDE DEF t
    <3>. QED BY <2>1, <2>2, SumRec
  <2>. HIDE DEF z
  <2>4. CASE z = y
    <3>1. t \ {z} = s
      BY <2>4
    <3>. QED BY <2>3, <2>4, <3>1
  <2>5. CASE z # y
    <3>1. z \in s /\ u \in G /\ y \in D \ u /\ z \in D \ u
      <4>1. z \in s
        BY <2>2, <2>5
      <4>2. u \in (SUBSET s) \ {s}
        BY <4>1
      <4>3. u \in G
        BY <1>1, <4>2
      <4>. QED BY <4>1, <4>3
    <3>2. t \ {z} = u \cup {y} /\ s = u \cup {z}
      BY <3>1, <2>5
    <3>3. SumFunctionOnSet(f, u \cup {y}) = f[y] + SumFunctionOnSet(f, u)
      BY <3>1
    <3>4. SumFunctionOnSet(f, u \cup {z}) = f[z] + SumFunctionOnSet(f, u)
      BY <3>1
    <3>5. SumFunctionOnSet(f, u) \in Int
      BY <2>1, SumType
    <3>6. f[y] \in Int /\ f[z] \in Int
      BY <3>1
    <3>7. SumFunctionOnSet(f, t) = f[z] + (f[y] + SumFunctionOnSet(f, u))
      BY <2>3, <3>2, <3>3
    <3>8. SumFunctionOnSet(f, s) = f[z] + SumFunctionOnSet(f, u)
      BY <3>2, <3>4
    <3>. HIDE DEF u
    <3>. QED BY <3>5, <3>6, <3>7, <3>8
  <2>. QED BY <2>4, <2>5
<1>2. \A s \in SUBSET S : s \in G
  <2>. HIDE DEF G
  <2>. QED BY <1>1, FiniteInduction
<1>. QED BY <1>2

\* Any term may be taken out of a sum.
LEMMA SumRemove ==
  ASSUME NEW D, NEW f \in [D -> Int], NEW S, S \subseteq D, IsFiniteSet(S),
         NEW x \in S
  PROVE  SumFunctionOnSet(f, S) = f[x] + SumFunctionOnSet(f, S \ {x})
<1>1. IsFiniteSet(S \ {x})
  BY FS_RemoveElement
<1>2. (S \ {x}) \cup {x} = S
  OBVIOUS
<1>. DEFINE T == S \ {x}
<1>3. T \subseteq D /\ x \in D \ T /\ IsFiniteSet(T) /\ T \cup {x} = S
  BY <1>1, <1>2
<1>. HIDE DEF T
<1>4. SumFunctionOnSet(f, T \cup {x}) = f[x] + SumFunctionOnSet(f, T)
  BY <1>3, SumAdd
<1>. QED BY <1>3, <1>4 DEF T

\* A sum depends only on its terms.
LEMMA SumCong ==
  ASSUME NEW f, NEW g, NEW S, IsFiniteSet(S), \A x \in S : f[x] = g[x]
  PROVE  SumFunctionOnSet(f, S) = SumFunctionOnSet(g, S)
<1>. DEFINE G == {s \in SUBSET S : SumFunctionOnSet(f, s) = SumFunctionOnSet(g, s)}
<1>1. ASSUME NEW s \in SUBSET S, \A U \in (SUBSET s) \ {s} : U \in G
      PROVE  s \in G
  <2>1. IsFiniteSet(s)
    BY FS_Subset
  <2>2. CASE s = {}
    BY <2>1, <2>2, SumRec
  <2>3. CASE s # {}
    <3>1. First(s) \in s
      BY <2>3, FirstIn
    <3>2. s \ {First(s)} \in G
      BY <1>1, <3>1
    <3>3. f[First(s)] = g[First(s)]
      BY <3>1
    <3>4. SumFunctionOnSet(f, s) = f[First(s)] + SumFunctionOnSet(f, s \ {First(s)})
      BY <2>1, <2>3, SumRec
    <3>5. SumFunctionOnSet(g, s) = g[First(s)] + SumFunctionOnSet(g, s \ {First(s)})
      BY <2>1, <2>3, SumRec
    <3>. QED BY <3>2, <3>3, <3>4, <3>5
  <2>. QED BY <2>2, <2>3
<1>2. \A s \in SUBSET S : s \in G
  <2>. HIDE DEF G
  <2>. QED BY <1>1, FiniteInduction
<1>. QED BY <1>2

\* A sum of natural numbers is one.
LEMMA SumNat ==
  ASSUME NEW D, NEW f \in [D -> Nat], NEW S, S \subseteq D, IsFiniteSet(S)
  PROVE  SumFunctionOnSet(f, S) \in Nat
<1>. DEFINE G == {s \in SUBSET S : SumFunctionOnSet(f, s) \in Nat}
<1>1. ASSUME NEW s \in SUBSET S, \A U \in (SUBSET s) \ {s} : U \in G
      PROVE  s \in G
  <2>1. IsFiniteSet(s)
    BY FS_Subset
  <2>2. CASE s = {}
    BY <2>2, SumEmpty
  <2>3. CASE s # {}
    <3>1. First(s) \in s
      BY <2>3, FirstIn
    <3>2. SumFunctionOnSet(f, s \ {First(s)}) \in Nat
      BY <1>1, <3>1
    <3>3. f[First(s)] \in Nat
      BY <3>1
    <3>. QED BY <2>1, <2>3, <3>2, <3>3, SumRec
  <2>. QED BY <2>2, <2>3
<1>2. \A s \in SUBSET S : s \in G
  <2>. HIDE DEF G
  <2>. QED BY <1>1, FiniteInduction
<1>. QED BY <1>2

-----------------------------------------------------------------------------
\* The elements of a sequence, by index.
LEMMA InRange ==
  ASSUME NEW S, NEW s \in Seq(S)
  PROVE  /\ DOMAIN s = 1..Len(s) /\ Len(s) \in Nat /\ Range(s) \subseteq S
         /\ \A i \in 1..Len(s) : s[i] \in Range(s)
         /\ \A x \in Range(s) : \E i \in 1..Len(s) : s[i] = x
BY DEF Range

\* Append() adds its element, and repeats none if it is new.
LEMMA AppendRange ==
  ASSUME NEW S, NEW s \in Seq(S), NEW x \in S
  PROVE  /\ Append(s, x) \in Seq(S)
         /\ Range(Append(s, x)) = Range(s) \cup {x}
         /\ IsInjective(s) /\ x \notin Range(s) => IsInjective(Append(s, x))
<1>1. /\ Append(s, x) \in Seq(S) /\ Len(Append(s, x)) = Len(s) + 1
      /\ DOMAIN Append(s, x) = 1..(Len(s) + 1) /\ DOMAIN s = 1..Len(s) /\ Len(s) \in Nat
      /\ \A i \in 1..(Len(s) + 1) : Append(s, x)[i] = IF i = Len(s) + 1 THEN x ELSE s[i]
  OBVIOUS
<1>2. Range(Append(s, x)) = Range(s) \cup {x}
  BY <1>1 DEF Range
<1>3. ASSUME IsInjective(s), x \notin Range(s) PROVE IsInjective(Append(s, x))
  BY <1>1, <1>3 DEF Range, IsInjective
<1>. QED BY <1>1, <1>2, <1>3

\* Tail() takes the first element away.
LEMMA TailRange ==
  ASSUME NEW S, NEW s \in Seq(S), s # <<>>
  PROVE  /\ Head(s) \in S /\ Tail(s) \in Seq(S)
         /\ Range(s) = Range(Tail(s)) \cup {Head(s)}
         /\ IsInjective(s) => IsInjective(Tail(s)) /\ Head(s) \notin Range(Tail(s))
<1>1. /\ Len(s) \in Nat \ {0} /\ DOMAIN s = 1..Len(s) /\ Head(s) = s[1]
      /\ Tail(s) \in Seq(S) /\ DOMAIN Tail(s) = 1..(Len(s) - 1)
      /\ \A i \in 1..(Len(s) - 1) : Tail(s)[i] = s[i + 1]
      /\ Head(s) \in S
  OBVIOUS
<1>2. ASSUME NEW i \in 1..Len(s) PROVE i = 1 \/ (i - 1 \in 1..(Len(s) - 1) /\ Tail(s)[i - 1] = s[i])
  BY <1>1
<1>3. Range(s) = Range(Tail(s)) \cup {Head(s)}
  <2>1. ASSUME NEW x \in Range(s) PROVE x \in Range(Tail(s)) \cup {Head(s)}
    <3>1. PICK i \in 1..Len(s) : s[i] = x
      BY InRange
    <3>2. CASE i = 1
      BY <1>1, <3>1, <3>2
    <3>3. CASE i # 1
      <4>1. i - 1 \in DOMAIN Tail(s) /\ Tail(s)[i - 1] = x
        BY <1>1, <1>2, <3>1, <3>3
      <4>. QED BY <4>1 DEF Range
    <3>. QED BY <3>2, <3>3
  <2>2. Head(s) \in Range(s)
    BY <1>1 DEF Range
  <2>3. ASSUME NEW x \in Range(Tail(s)) PROVE x \in Range(s)
    <3>1. PICK i \in 1..(Len(s) - 1) : Tail(s)[i] = x
      BY <1>1 DEF Range
    <3>2. i + 1 \in DOMAIN s /\ s[i + 1] = x
      BY <1>1, <3>1
    <3>. QED BY <3>2 DEF Range
  <2>. QED BY <2>1, <2>2, <2>3
<1>4. ASSUME IsInjective(s) PROVE IsInjective(Tail(s)) /\ Head(s) \notin Range(Tail(s))
  BY <1>1, <1>4 DEF Range, IsInjective
<1>. QED BY <1>1, <1>3, <1>4

\* A concatenation, by index.
LEMMA ConcatIndex ==
  ASSUME NEW S, NEW s \in Seq(S), NEW t \in Seq(S)
  PROVE  /\ Len(s) \in Nat /\ Len(t) \in Nat
         /\ s \o t \in Seq(S) /\ Len(s \o t) = Len(s) + Len(t)
         /\ DOMAIN (s \o t) = 1..(Len(s) + Len(t))
         /\ \A i \in 1..(Len(s) + Len(t)) :
              (s \o t)[i] = IF i <= Len(s) THEN s[i] ELSE t[i - Len(s)]
OBVIOUS

\* A concatenation has the elements of both, none twice if they are apart.
LEMMA ConcatRange ==
  ASSUME NEW S, NEW s \in Seq(S), NEW t \in Seq(S)
  PROVE  /\ s \o t \in Seq(S) /\ Len(s \o t) = Len(s) + Len(t)
         /\ Range(s \o t) = Range(s) \cup Range(t)
         /\ IsInjective(s) /\ IsInjective(t) /\ Range(s) \cap Range(t) = {}
              => IsInjective(s \o t)
<1>1. /\ Len(s) \in Nat /\ Len(t) \in Nat /\ DOMAIN s = 1..Len(s) /\ DOMAIN t = 1..Len(t)
      /\ s \o t \in Seq(S) /\ Len(s \o t) = Len(s) + Len(t)
      /\ DOMAIN (s \o t) = 1..(Len(s) + Len(t))
      /\ \A i \in 1..(Len(s) + Len(t)) :
           (s \o t)[i] = IF i <= Len(s) THEN s[i] ELSE t[i - Len(s)]
  OBVIOUS
<1>2. \A i \in 1..Len(s) : i \in 1..(Len(s) + Len(t)) /\ (s \o t)[i] = s[i]
  BY <1>1
<1>3. \A i \in 1..Len(t) : i + Len(s) \in 1..(Len(s) + Len(t)) /\ (s \o t)[i + Len(s)] = t[i]
  BY <1>1
<1>4. \A i \in 1..(Len(s) + Len(t)) : (s \o t)[i] \in Range(s) \cup Range(t)
  BY <1>1 DEF Range
<1>5. Range(s \o t) = Range(s) \cup Range(t)
  <2>1. ASSUME NEW x \in Range(s \o t) PROVE x \in Range(s) \cup Range(t)
    <3>1. PICK i \in 1..(Len(s) + Len(t)) : (s \o t)[i] = x
      BY <1>1 DEF Range
    <3>. QED BY <1>4, <3>1
  <2>2. ASSUME NEW x \in Range(s) PROVE x \in Range(s \o t)
    <3>1. PICK i \in 1..Len(s) : s[i] = x
      BY InRange
    <3>2. i \in DOMAIN (s \o t) /\ (s \o t)[i] = x
      BY <1>1, <1>2, <3>1
    <3>. QED BY <3>2 DEF Range
  <2>3. ASSUME NEW x \in Range(t) PROVE x \in Range(s \o t)
    <3>1. PICK i \in 1..Len(t) : t[i] = x
      BY InRange
    <3>2. i + Len(s) \in DOMAIN (s \o t) /\ (s \o t)[i + Len(s)] = x
      BY <1>1, <1>3, <3>1
    <3>. QED BY <3>2 DEF Range
  <2>. QED BY <2>1, <2>2, <2>3
<1>6. ASSUME IsInjective(s), IsInjective(t), Range(s) \cap Range(t) = {} PROVE IsInjective(s \o t)
  <2>. SUFFICES ASSUME NEW i \in 1..(Len(s) + Len(t)), NEW j \in 1..(Len(s) + Len(t)),
                       (s \o t)[i] = (s \o t)[j]
       PROVE  i = j
    BY <1>1 DEF IsInjective
  <2>1. CASE i <= Len(s) /\ j <= Len(s)
    BY <1>1, <1>6, <2>1 DEF IsInjective
  <2>2. CASE i > Len(s) /\ j > Len(s)
    BY <1>1, <1>6, <2>2 DEF IsInjective
  <2>3. CASE i <= Len(s) /\ j > Len(s)
    <3>1. (s \o t)[i] \in Range(s) /\ (s \o t)[j] \in Range(t)
      <4>1. i \in 1..Len(s) /\ j - Len(s) \in 1..Len(t)
        BY <1>1, <2>3
      <4>2. (s \o t)[i] = s[i] /\ (s \o t)[j] = t[j - Len(s)]
        BY <1>1, <2>3
      <4>. QED BY <4>1, <4>2, InRange
    <3>. QED BY <1>6, <3>1
  <2>4. CASE i > Len(s) /\ j <= Len(s)
    <3>1. (s \o t)[j] \in Range(s) /\ (s \o t)[i] \in Range(t)
      <4>1. j \in 1..Len(s) /\ i - Len(s) \in 1..Len(t)
        BY <1>1, <2>4
      <4>2. (s \o t)[j] = s[j] /\ (s \o t)[i] = t[i - Len(s)]
        BY <1>1, <2>4
      <4>. QED BY <4>1, <4>2, InRange
    <3>. QED BY <1>6, <3>1
  <2>. QED BY <1>1, <2>1, <2>2, <2>3, <2>4
<1>. QED BY <1>1, <1>5, <1>6

\* RemoveAt() takes one element out.
LEMMA RemoveAtRange ==
  ASSUME NEW S, NEW s \in Seq(S), NEW k \in 1..Len(s)
  PROVE  /\ RemoveAt(s, k) \in Seq(S) /\ Len(RemoveAt(s, k)) = Len(s) - 1
         /\ IsInjective(s) => /\ IsInjective(RemoveAt(s, k))
                              /\ Range(RemoveAt(s, k)) = Range(s) \ {s[k]}
<1>. DEFINE t == RemoveAt(s, k)
<1>1. /\ Len(s) \in Nat \ {0} /\ DOMAIN s = 1..Len(s)
      /\ t \in Seq(S) /\ Len(t) = Len(s) - 1 /\ DOMAIN t = 1..(Len(s) - 1)
      /\ \A i \in 1..(Len(s) - 1) : t[i] = IF i < k THEN s[i] ELSE s[i + 1]
  <2>1. SubSeq(s, 1, k - 1) \in Seq(S) /\ SubSeq(s, k + 1, Len(s)) \in Seq(S)
    OBVIOUS
  <2>2. /\ Len(SubSeq(s, 1, k - 1)) = k - 1 /\ Len(SubSeq(s, k + 1, Len(s))) = Len(s) - k
    OBVIOUS
  <2>3. /\ \A i \in 1..(k - 1) : SubSeq(s, 1, k - 1)[i] = s[i]
        /\ \A i \in 1..(Len(s) - k) : SubSeq(s, k + 1, Len(s))[i] = s[k + i]
    OBVIOUS
  <2>. DEFINE a == SubSeq(s, 1, k - 1)
              b == SubSeq(s, k + 1, Len(s))
  <2>4. Len(s) \in Nat \ {0} /\ DOMAIN s = 1..Len(s) /\ k \in Nat /\ k <= Len(s)
    OBVIOUS
  <2>5. t = a \o b
    BY DEF RemoveAt
  <2>. HIDE DEF a, b, t
  <2>6. a \in Seq(S) /\ b \in Seq(S) /\ Len(a) = k - 1 /\ Len(b) = Len(s) - k
    BY <2>1, <2>2 DEF a, b
  <2>7. /\ t \in Seq(S) /\ Len(t) = Len(s) - 1 /\ DOMAIN t = 1..(Len(s) - 1)
        /\ \A i \in 1..(Len(s) - 1) : t[i] = IF i <= k - 1 THEN a[i] ELSE b[i - (k - 1)]
    <3>1. Len(a) + Len(b) = Len(s) - 1
      BY <2>4, <2>6
    <3>2. /\ a \o b \in Seq(S) /\ Len(a \o b) = Len(a) + Len(b)
          /\ DOMAIN (a \o b) = 1..(Len(a) + Len(b))
          /\ \A i \in 1..(Len(a) + Len(b)) :
               (a \o b)[i] = IF i <= Len(a) THEN a[i] ELSE b[i - Len(a)]
      BY <2>6, ConcatIndex
    <3>. QED BY <2>5, <2>6, <3>1, <3>2
  <2>8. ASSUME NEW i \in 1..(Len(s) - 1) PROVE t[i] = IF i < k THEN s[i] ELSE s[i + 1]
    <3>1. CASE i < k
      BY <2>3, <2>4, <2>7, <3>1 DEF a
    <3>2. CASE i >= k
      <4>1. i - (k - 1) \in 1..(Len(s) - k) /\ k + (i - (k - 1)) = i + 1
        BY <2>4, <3>2
      <4>2. b[i - (k - 1)] = s[k + (i - (k - 1))]
        BY <2>3, <4>1 DEF b
      <4>. QED BY <2>4, <2>7, <3>2, <4>1, <4>2
    <3>. QED BY <2>4, <3>1, <3>2
  <2>. QED BY <2>4, <2>7, <2>8
<1>. HIDE DEF t
<1>2. ASSUME IsInjective(s) PROVE IsInjective(t)
  <2>. SUFFICES ASSUME NEW i \in 1..(Len(s) - 1), NEW j \in 1..(Len(s) - 1), t[i] = t[j]
       PROVE  i = j
    BY <1>1 DEF IsInjective
  <2>. DEFINE p(n) == IF n < k THEN n ELSE n + 1
  <2>1. p(i) \in 1..Len(s) /\ p(j) \in 1..Len(s) /\ s[p(i)] = s[p(j)]
    BY <1>1
  <2>2. p(i) = p(j)
    BY <1>1, <1>2, <2>1 DEF IsInjective
  <2>. QED BY <1>1, <2>2
<1>3. ASSUME IsInjective(s) PROVE Range(t) = Range(s) \ {s[k]}
  <2>1. ASSUME NEW i \in 1..(Len(s) - 1) PROVE t[i] \in Range(s) \ {s[k]}
    <3>1. CASE i < k
      BY <1>1, <1>3, <3>1 DEF IsInjective, Range
    <3>2. CASE i >= k
      BY <1>1, <1>3, <3>2 DEF IsInjective, Range
    <3>. QED BY <1>1, <3>1, <3>2
  <2>2. ASSUME NEW i \in 1..Len(s), i # k PROVE s[i] \in Range(t)
    <3>1. CASE i < k
      BY <1>1, <3>1 DEF Range
    <3>2. CASE i > k
      <4>1. i - 1 \in 1..(Len(s) - 1) /\ t[i - 1] = s[i]
        BY <1>1, <3>2
      <4>. QED BY <1>1, <4>1 DEF Range
    <3>. QED BY <1>1, <2>2, <3>1, <3>2
  <2>. QED BY <1>1, <2>1, <2>2 DEF Range
<1>. QED BY <1>1, <1>2, <1>3 DEF t
=============================================================================
