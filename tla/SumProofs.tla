----------------------------- MODULE SumProofs -----------------------------
(***************************************************************************)
(* Proofs about the modules that add up: the token budget of TokenPacer,   *)
(* for any threads, models, ceilings and estimates, the metrics of         *)
(* RetrievalEval, for any questions, labels, stores and cut-offs, and      *)
(* four of Computations: the threshold, for any scores and candidates, the *)
(* local evaluator and token F1, for any texts, and the cost report, for   *)
(* any volume.                                                             *)
(*                                                                         *)
(* Induction over finite sets comes first, stated of sets instead of       *)
(* predicates, and from it what the sums of the community modules are.     *)
(***************************************************************************)
EXTENDS TokenPacer, RetrievalEval, Computations,
        FiniteSetTheorems, SequenceTheorems, WellFoundedInduction, TLAPS

-----------------------------------------------------------------------------
(* Induction.                                                              *)

\* Every non-empty set of naturals has a least element.
LEMMA LeastNatural ==
    ASSUME NEW S \in SUBSET Nat, S # {}
    PROVE  \E m \in S : \A k \in S : m <= k
<1> DEFINE R == { p \in Nat \X Nat : p[1] < p[2] }
<1>1. IsWellFoundedOn(R, Nat)
  BY NatLessThanWellFounded DEF OpToRel
<1>2. PICK m \in S : \A k \in S : ~ (<<k, m>> \in R)
  BY <1>1, WFMin
<1>3. ASSUME NEW k \in S PROVE m <= k
  <2>1. <<k, m>> \in Nat \X Nat /\ <<k, m>>[1] = k /\ <<k, m>>[2] = m
    OBVIOUS
  <2>2. QED
    BY <1>2, <2>1
<1>4. QED
  BY <1>3

\* Induction over the naturals, of a set instead of a predicate.
LEMMA NaturalInduction ==
    ASSUME NEW S, 0 \in S, \A n \in Nat : n \in S => n + 1 \in S
    PROVE  Nat \subseteq S
<1>1. SUFFICES ASSUME Nat \ S # {} PROVE FALSE
  OBVIOUS
<1>2. PICK m \in Nat \ S : \A k \in Nat \ S : m <= k
  BY <1>1, LeastNatural
<1>3. m # 0 /\ m - 1 \in Nat /\ m - 1 \notin Nat \ S
  BY <1>2
<1>4. QED
  BY <1>2, <1>3

\* Induction over the subsets of a finite set: what holds of a set once it holds
\* of the set without any one of its elements holds of all.
LEMMA SubsetInduction ==
    ASSUME NEW S, IsFiniteSet(S), NEW P, {} \in P,
           \A T \in SUBSET S : T # {} /\ (\A x \in T : T \ {x} \in P) => T \in P
    PROVE  SUBSET S \subseteq P
<1> DEFINE N == { n \in Nat : \A T \in SUBSET S : Cardinality(T) = n => T \in P }
<1>1. 0 \in N
  BY FS_Subset, FS_EmptySet
<1>2. ASSUME NEW n \in Nat, n \in N PROVE n + 1 \in N
  <2>1. SUFFICES ASSUME NEW T \in SUBSET S, Cardinality(T) = n + 1 PROVE T \in P
    OBVIOUS
  <2>2. IsFiniteSet(T) /\ T # {}
    BY <2>1, FS_Subset, FS_EmptySet
  <2>3. ASSUME NEW x \in T PROVE T \ {x} \in P
    <3>1. Cardinality(T \ {x}) = Cardinality(T) - 1
      BY <2>2, FS_RemoveElement
    <3>2. Cardinality(T \ {x}) = n
      BY <2>1, <3>1
    <3>3. QED
      BY <1>2, <3>2
  <2>4. QED
    BY <2>2, <2>3
<1>3. Nat \subseteq N
  <2> HIDE DEF N
  <2>1. QED
    BY <1>1, <1>2, NaturalInduction
<1>4. \A T \in SUBSET S : Cardinality(T) \in Nat
  BY FS_Subset, FS_CardinalityType
<1>5. QED
  BY <1>3, <1>4

-----------------------------------------------------------------------------
(* Sums.                                                                   *)

\* The element a sum takes first.
Choice(s) == CHOOSE x \in s : TRUE

\* The recursion by which SumFunctionOnSet sums.
Summing(f, g, D) ==
    g = [s \in D |-> IF s = {} THEN 0
                     ELSE f[Choice(s)] + g[s \ {Choice(s)}]]

\* A sum is what its recursion gives.
LEMMA SumUnfold ==
    ASSUME NEW f, NEW S
    PROVE  SumFunctionOnSet(f, S) = (CHOOSE g : Summing(f, g, SUBSET S))[S]
BY DEF SumFunctionOnSet, FoldFunctionOnSet, MapThenFoldSet, Summing, Choice

\* The recursion is well founded.
LEMMA SummingExists ==
    ASSUME NEW f, NEW S, IsFiniteSet(S)
    PROVE  \E g : Summing(f, g, SUBSET S)
<1> DEFINE Small(n) == { T \in SUBSET S : Cardinality(T) <= n }
           N == { n \in Nat : \E g : Summing(f, g, Small(n)) }
<1>0. \A T \in SUBSET S : IsFiniteSet(T) /\ Cardinality(T) \in Nat /\ Cardinality(T) <= Cardinality(S)
  BY FS_Subset, FS_CardinalityType
<1>1. 0 \in N
  <2>1. \A T \in Small(0) : T = {}
    BY <1>0, FS_EmptySet
  <2>2. Summing(f, [s \in Small(0) |-> 0], Small(0))
    BY <2>1 DEF Summing
  <2>3. QED
    BY <2>2
<1>2. ASSUME NEW n \in Nat, n \in N PROVE n + 1 \in N
  <2>1. PICK g : Summing(f, g, Small(n))
    BY <1>2
  <2> DEFINE h == [s \in Small(n + 1) |->
                     IF s \in Small(n) THEN g[s] ELSE f[Choice(s)] + g[s \ {Choice(s)}]]
  <2>2. ASSUME NEW s \in Small(n + 1), s # {}
        PROVE  s \ {Choice(s)} \in Small(n)
    <3>1. Choice(s) \in s
      BY <2>2 DEF Choice
    <3>2. Cardinality(s \ {Choice(s)}) = Cardinality(s) - 1
      BY <1>0, <3>1, FS_RemoveElement
    <3>3. QED
      BY <1>0, <3>2
  <2>3. \A s \in Small(n) : s \in Small(n + 1)
    BY <1>0
  <2>4. {} \in Small(n)
    BY FS_EmptySet
  <2>5. ASSUME NEW s \in Small(n + 1)
        PROVE  h[s] = IF s = {} THEN 0 ELSE f[Choice(s)] + h[s \ {Choice(s)}]
    <3>1. CASE s = {}
      BY <2>1, <2>3, <2>4, <3>1 DEF Summing
    <3>2. CASE s # {} /\ s \in Small(n)
      <4>1. g[s] = f[Choice(s)] + g[s \ {Choice(s)}]
        BY <2>1, <3>2 DEF Summing
      <4>2. s \ {Choice(s)} \in Small(n) /\ s \ {Choice(s)} \in Small(n + 1)
        BY <2>2, <2>3, <3>2
      <4> HIDE DEF Small
      <4>3. QED
        BY <3>2, <4>1, <4>2
    <3>3. CASE s # {} /\ s \notin Small(n)
      <4>2. s \ {Choice(s)} \in Small(n) /\ s \ {Choice(s)} \in Small(n + 1)
        BY <2>2, <2>3, <3>3
      <4> HIDE DEF Small
      <4>3. QED
        BY <3>3, <4>2
    <3>4. QED
      BY <3>1, <3>2, <3>3
  <2>6. Summing(f, h, Small(n + 1))
    <3> HIDE DEF Small
    <3>1. h = [s \in Small(n + 1) |-> h[s]]
      OBVIOUS
    <3> HIDE DEF h
    <3>2. QED
      BY <2>5, <3>1 DEF Summing
  <2>7. \E k : Summing(f, k, Small(n + 1))
    BY <2>6
  <2> HIDE DEF Small
  <2>8. QED
    BY <2>7
<1>3. Cardinality(S) \in N
  <2>1. Nat \subseteq N
    <3> HIDE DEF N
    <3>1. QED
      BY <1>1, <1>2, NaturalInduction
  <2>2. QED
    BY <1>0, <2>1
<1>4. Small(Cardinality(S)) = SUBSET S
  BY <1>0
<1>5. QED
  BY <1>3, <1>4

\* The sum of a part does not depend on the set it is summed in.
LEMMA SummingAgrees ==
    ASSUME NEW f, NEW S, NEW T \in SUBSET S, NEW g, NEW h, IsFiniteSet(S),
           Summing(f, g, SUBSET S), Summing(f, h, SUBSET T)
    PROVE  g[T] = h[T]
<1> DEFINE P == { U \in SUBSET T : g[U] = h[U] }
<1>1. {} \in P
  BY DEF Summing
<1>2. ASSUME NEW U \in SUBSET T, U # {}, \A x \in U : U \ {x} \in P
      PROVE  U \in P
  <2>1. Choice(U) \in U
    BY <1>2 DEF Choice
  <2>2. g[U] = f[Choice(U)] + g[U \ {Choice(U)}]
    BY <1>2 DEF Summing
  <2>3. h[U] = f[Choice(U)] + h[U \ {Choice(U)}]
    BY <1>2 DEF Summing
  <2>4. g[U \ {Choice(U)}] = h[U \ {Choice(U)}]
    BY <1>2, <2>1
  <2>5. QED
    BY <2>2, <2>3, <2>4
<1>3. IsFiniteSet(T)
  BY FS_Subset
<1>4. SUBSET T \subseteq P
  <2> HIDE DEF P
  <2>1. QED
    BY <1>1, <1>2, <1>3, SubsetInduction
<1>5. QED
  BY <1>4

\* So a sum follows its recursion.
LEMMA SummedBy ==
    ASSUME NEW f, NEW S, IsFiniteSet(S)
    PROVE  \E g : Summing(f, g, SUBSET S) /\ SumFunctionOnSet(f, S) = g[S]
<1>1. PICK g : g = CHOOSE h : Summing(f, h, SUBSET S)
  OBVIOUS
<1>2. Summing(f, g, SUBSET S)
  BY <1>1, SummingExists
<1>3. QED
  BY <1>1, <1>2, SumUnfold

\* The sum of nothing is zero.
LEMMA SumOfNone == \A f : SumFunctionOnSet(f, {}) = 0
<1> SUFFICES ASSUME NEW f PROVE SumFunctionOnSet(f, {}) = 0
  OBVIOUS
<1>1. PICK g : Summing(f, g, SUBSET {}) /\ SumFunctionOnSet(f, {}) = g[{}]
  BY SummedBy, FS_EmptySet
<1>2. QED
  BY <1>1 DEF Summing

\* A sum is the element taken first and the sum of the rest.
LEMMA SumByChoice ==
    ASSUME NEW f, NEW S, IsFiniteSet(S), S # {}
    PROVE  SumFunctionOnSet(f, S) = f[Choice(S)] + SumFunctionOnSet(f, S \ {Choice(S)})
<1>1. PICK T \in SUBSET S : T = S \ {Choice(S)}
  OBVIOUS
<1>2. IsFiniteSet(T)
  BY FS_Subset
<1>3. PICK g : Summing(f, g, SUBSET S) /\ SumFunctionOnSet(f, S) = g[S]
  BY SummedBy
<1>4. PICK h : Summing(f, h, SUBSET T) /\ SumFunctionOnSet(f, T) = h[T]
  BY <1>2, SummedBy
<1>5. g[S] = f[Choice(S)] + g[T]
  BY <1>1, <1>3 DEF Summing
<1>6. g[T] = h[T]
  BY <1>3, <1>4, SummingAgrees
<1>7. QED
  BY <1>1, <1>3, <1>4, <1>5, <1>6

\* A sum of integers is an integer.
LEMMA SumType ==
    ASSUME NEW S, IsFiniteSet(S), NEW f, \A x \in S : f[x] \in Int
    PROVE  SumFunctionOnSet(f, S) \in Int
<1> DEFINE P == { T \in SUBSET S : SumFunctionOnSet(f, T) \in Int }
<1>1. {} \in P
  BY SumOfNone
<1>2. ASSUME NEW T \in SUBSET S, T # {}, \A x \in T : T \ {x} \in P PROVE T \in P
  <2>1. Choice(T) \in T /\ IsFiniteSet(T)
    BY <1>2, FS_Subset DEF Choice
  <2>2. SumFunctionOnSet(f, T) = f[Choice(T)] + SumFunctionOnSet(f, T \ {Choice(T)})
    BY <1>2, <2>1, SumByChoice
  <2>3. SumFunctionOnSet(f, T \ {Choice(T)}) \in Int
    BY <1>2, <2>1
  <2>4. QED
    BY <2>1, <2>2, <2>3
<1>3. SUBSET S \subseteq P
  <2> HIDE DEF P
  <2>1. QED
    BY <1>1, <1>2, SubsetInduction
<1>4. QED
  BY <1>3

\* Any element may be the first.
LEMMA SumByAny ==
    ASSUME NEW S, IsFiniteSet(S), NEW f, \A x \in S : f[x] \in Int
    PROVE  \A x \in S :
              SumFunctionOnSet(f, S) = f[x] + SumFunctionOnSet(f, S \ {x})
<1> DEFINE P == { T \in SUBSET S :
                    \A x \in T :
                      SumFunctionOnSet(f, T) = f[x] + SumFunctionOnSet(f, T \ {x}) }
<1>1. {} \in P
  OBVIOUS
<1>2. ASSUME NEW T \in SUBSET S, T # {}, \A x \in T : T \ {x} \in P PROVE T \in P
  <2>1. IsFiniteSet(T)
    BY FS_Subset
  <2>2. Choice(T) \in T
    BY <1>2 DEF Choice
  <2>3. PICK c \in T : SumFunctionOnSet(f, T) = f[c] + SumFunctionOnSet(f, T \ {c})
    BY <1>2, <2>1, <2>2, SumByChoice
  <2>4. ASSUME NEW x \in T, x # c
        PROVE  SumFunctionOnSet(f, T) = f[x] + SumFunctionOnSet(f, T \ {x})
    <3>1. SumFunctionOnSet(f, T \ {c}) = f[x] + SumFunctionOnSet(f, (T \ {c}) \ {x})
      BY <1>2, <2>4
    <3>2. SumFunctionOnSet(f, T \ {x}) = f[c] + SumFunctionOnSet(f, (T \ {x}) \ {c})
      BY <1>2, <2>4
    <3>3. SumFunctionOnSet(f, (T \ {c}) \ {x}) = SumFunctionOnSet(f, (T \ {x}) \ {c})
      <4>1. (T \ {c}) \ {x} = (T \ {x}) \ {c}
        OBVIOUS
      <4>2. QED
        BY <4>1, Zenon
    <3>4. IsFiniteSet((T \ {x}) \ {c})
      BY <2>1, FS_Subset
    <3>5. SumFunctionOnSet(f, (T \ {x}) \ {c}) \in Int
      BY <3>4, SumType
    <3>6. f[x] \in Int /\ f[c] \in Int
      OBVIOUS
    <3>7. QED
      BY <2>3, <3>1, <3>2, <3>3, <3>5, <3>6
  <2>5. QED
    BY <2>3, <2>4
<1>3. SUBSET S \subseteq P
  <2> HIDE DEF P
  <2>1. QED
    BY <1>1, <1>2, SubsetInduction
<1>4. QED
  BY <1>3

\* A sum is no larger when no value is.
LEMMA SumMonotone ==
    ASSUME NEW S, IsFiniteSet(S), NEW f, NEW g,
           \A x \in S : f[x] \in Int /\ g[x] \in Int /\ f[x] <= g[x]
    PROVE  SumFunctionOnSet(f, S) <= SumFunctionOnSet(g, S)
<1> DEFINE P == { T \in SUBSET S : SumFunctionOnSet(f, T) <= SumFunctionOnSet(g, T) }
<1>1. {} \in P
  BY SumOfNone
<1>2. ASSUME NEW T \in SUBSET S, T # {}, \A x \in T : T \ {x} \in P PROVE T \in P
  <2>1. IsFiniteSet(T)
    BY FS_Subset
  <2>2. PICK c \in T : TRUE
    BY <1>2
  <2>3. /\ SumFunctionOnSet(f, T) = f[c] + SumFunctionOnSet(f, T \ {c})
        /\ SumFunctionOnSet(g, T) = g[c] + SumFunctionOnSet(g, T \ {c})
    BY <2>1, SumByAny
  <2>4. IsFiniteSet(T \ {c})
    BY <2>1, FS_Subset
  <2>5. SumFunctionOnSet(f, T \ {c}) \in Int /\ SumFunctionOnSet(g, T \ {c}) \in Int
    BY <2>4, SumType
  <2>6. SumFunctionOnSet(f, T \ {c}) <= SumFunctionOnSet(g, T \ {c})
    BY <1>2
  <2>7. f[c] \in Int /\ g[c] \in Int /\ f[c] <= g[c]
    OBVIOUS
  <2>8. QED
    BY <2>3, <2>5, <2>6, <2>7
<1>3. SUBSET S \subseteq P
  <2> HIDE DEF P
  <2>1. QED
    BY <1>1, <1>2, SubsetInduction
<1>4. QED
  BY <1>3

\* A sum depends on the values of its elements only.
LEMMA SumExtensional ==
    ASSUME NEW S, IsFiniteSet(S), NEW f, NEW g,
           \A x \in S : f[x] \in Int /\ g[x] = f[x]
    PROVE  SumFunctionOnSet(f, S) = SumFunctionOnSet(g, S)
<1>1. /\ SumFunctionOnSet(f, S) <= SumFunctionOnSet(g, S)
      /\ SumFunctionOnSet(g, S) <= SumFunctionOnSet(f, S)
  BY SumMonotone
<1>2. SumFunctionOnSet(f, S) \in Int /\ SumFunctionOnSet(g, S) \in Int
  BY SumType
<1>3. QED
  BY <1>1, <1>2

\* The sum of a set is that of a part and that of the rest.
LEMMA SumOfParts ==
    ASSUME NEW S, IsFiniteSet(S), NEW f, \A x \in S : f[x] \in Int, NEW R
    PROVE  SumFunctionOnSet(f, S)
              = SumFunctionOnSet(f, S \cap R) + SumFunctionOnSet(f, S \ R)
<1> DEFINE P == { T \in SUBSET S :
                    SumFunctionOnSet(f, T)
                        = SumFunctionOnSet(f, T \cap R) + SumFunctionOnSet(f, T \ R) }
<1>1. {} \in P
  BY SumOfNone
<1>2. ASSUME NEW T \in SUBSET S, T # {}, \A x \in T : T \ {x} \in P PROVE T \in P
  <2>1. IsFiniteSet(T) /\ IsFiniteSet(T \cap R) /\ IsFiniteSet(T \ R)
    BY FS_Subset
  <2>2. PICK c \in T : TRUE
    BY <1>2
  <2>3. IsFiniteSet((T \ {c}) \cap R) /\ IsFiniteSet((T \ {c}) \ R) /\ f[c] \in Int
    BY FS_Subset
  <2>4. /\ SumFunctionOnSet(f, (T \ {c}) \cap R) \in Int
        /\ SumFunctionOnSet(f, (T \ {c}) \ R) \in Int
    BY <2>3, SumType
  <2>5. SumFunctionOnSet(f, T) = f[c] + SumFunctionOnSet(f, T \ {c})
    BY <2>1, SumByAny
  <2>6. SumFunctionOnSet(f, T \ {c})
            = SumFunctionOnSet(f, (T \ {c}) \cap R) + SumFunctionOnSet(f, (T \ {c}) \ R)
    BY <1>2
  <2>7. CASE c \in R
    <3>1. /\ c \in T \cap R
          /\ SumFunctionOnSet(f, (T \ {c}) \cap R) = SumFunctionOnSet(f, (T \cap R) \ {c})
          /\ SumFunctionOnSet(f, (T \ {c}) \ R) = SumFunctionOnSet(f, T \ R)
      <4>1. (T \ {c}) \cap R = (T \cap R) \ {c} /\ (T \ {c}) \ R = T \ R /\ c \in T \cap R
        BY <2>7
      <4>2. QED
        BY <4>1, Zenon
    <3>2. SumFunctionOnSet(f, T \cap R) = f[c] + SumFunctionOnSet(f, (T \cap R) \ {c})
      BY <2>1, <3>1, SumByAny
    <3>3. SumFunctionOnSet(f, T)
            = SumFunctionOnSet(f, T \cap R) + SumFunctionOnSet(f, T \ R)
      BY <2>3, <2>4, <2>5, <2>6, <3>1, <3>2
    <3>4. QED
      BY <3>3
  <2>8. CASE c \notin R
    <3>1. /\ c \in T \ R
          /\ SumFunctionOnSet(f, (T \ {c}) \cap R) = SumFunctionOnSet(f, T \cap R)
          /\ SumFunctionOnSet(f, (T \ {c}) \ R) = SumFunctionOnSet(f, (T \ R) \ {c})
      <4>1. (T \ {c}) \cap R = T \cap R /\ (T \ {c}) \ R = (T \ R) \ {c} /\ c \in T \ R
        BY <2>8
      <4>2. QED
        BY <4>1, Zenon
    <3>2. SumFunctionOnSet(f, T \ R) = f[c] + SumFunctionOnSet(f, (T \ R) \ {c})
      BY <2>1, <3>1, SumByAny
    <3>3. SumFunctionOnSet(f, T)
            = SumFunctionOnSet(f, T \cap R) + SumFunctionOnSet(f, T \ R)
      BY <2>3, <2>4, <2>5, <2>6, <3>1, <3>2
    <3>4. QED
      BY <3>3
  <2>9. QED
    BY <2>7, <2>8
<1>3. SUBSET S \subseteq P
  <2> HIDE DEF P
  <2>1. QED
    BY <1>1, <1>2, SubsetInduction
<1>4. QED
  BY <1>3

\* A sum of naturals is a natural.
LEMMA SumIsNatural ==
    ASSUME NEW S, IsFiniteSet(S), NEW f, \A x \in S : f[x] \in Nat
    PROVE  SumFunctionOnSet(f, S) \in Nat
<1> DEFINE P == { T \in SUBSET S : SumFunctionOnSet(f, T) \in Nat }
<1>1. {} \in P
  BY SumOfNone
<1>2. ASSUME NEW T \in SUBSET S, T # {}, \A x \in T : T \ {x} \in P PROVE T \in P
  <2>1. IsFiniteSet(T)
    BY FS_Subset
  <2>2. PICK c \in T : SumFunctionOnSet(f, T) = f[c] + SumFunctionOnSet(f, T \ {c})
    BY <1>2, <2>1, SumByAny
  <2>3. SumFunctionOnSet(f, T \ {c}) \in Nat /\ f[c] \in Nat
    BY <1>2
  <2>4. QED
    BY <2>2, <2>3
<1>3. SUBSET S \subseteq P
  <2> HIDE DEF P
  <2>1. QED
    BY <1>1, <1>2, SubsetInduction
<1>4. QED
  BY <1>3

\* The image of a finite set, and how many elements it has.
LEMMA ImageCounts ==
    ASSUME NEW S, IsFiniteSet(S), NEW h
    PROVE  /\ IsFiniteSet({ h[x] : x \in S })
           /\ (\A x, y \in S : h[x] = h[y] => x = y)
                 => Cardinality({ h[x] : x \in S }) = Cardinality(S)
<1>1. PICK T : T = { h[x] : x \in S }
  OBVIOUS
<1>2. PICK f : f = [x \in S |-> h[x]]
  OBVIOUS
<1>3. f \in Surjection(S, T)
  BY <1>1, <1>2 DEF Surjection
<1>4. /\ IsFiniteSet(T)
      /\ Cardinality(T) = Cardinality(S) <=> f \in Injection(S, T)
  BY <1>3, FS_Surjection
<1>5. (\A x, y \in S : h[x] = h[y] => x = y) => f \in Injection(S, T)
  BY <1>1, <1>2 DEF Injection, IsInjective
<1>6. QED
  BY <1>1, <1>4, <1>5

\* A sum is the same over the image of its elements.
LEMMA SumOfImage ==
    ASSUME NEW S, IsFiniteSet(S), NEW f, NEW g, NEW h,
           \A x \in S : f[x] \in Int /\ g[h[x]] = f[x],
           \A x, y \in S : h[x] = h[y] => x = y
    PROVE  SumFunctionOnSet(g, { h[x] : x \in S }) = SumFunctionOnSet(f, S)
<1> DEFINE Image(T) == { h[x] : x \in T }
           P == { T \in SUBSET S : SumFunctionOnSet(g, Image(T)) = SumFunctionOnSet(f, T) }
<1>1. {} \in P
  <2>1. Image({}) = {}
    OBVIOUS
  <2>2. SumFunctionOnSet(g, Image({})) = SumFunctionOnSet(f, {})
    BY <2>1, SumOfNone
  <2>3. QED
    BY <2>2
<1>2. ASSUME NEW T \in SUBSET S, T # {}, \A x \in T : T \ {x} \in P PROVE T \in P
  <2>1. IsFiniteSet(T) /\ IsFiniteSet(Image(T))
    BY FS_Subset, ImageCounts
  <2>2. PICK c \in T : TRUE
    BY <1>2
  <2>3. \A y \in Image(T) : g[y] \in Int
    OBVIOUS
  <2>4. /\ SumFunctionOnSet(f, T) = f[c] + SumFunctionOnSet(f, T \ {c})
        /\ SumFunctionOnSet(g, Image(T)) = g[h[c]] + SumFunctionOnSet(g, Image(T) \ {h[c]})
    <3>1. h[c] \in Image(T)
      OBVIOUS
    <3> HIDE DEF Image
    <3>2. QED
      BY <2>1, <2>3, <3>1, SumByAny
  <2>5. SumFunctionOnSet(g, Image(T) \ {h[c]}) = SumFunctionOnSet(g, Image(T \ {c}))
    <3>1. Image(T) \ {h[c]} = Image(T \ {c})
      OBVIOUS
    <3> HIDE DEF Image
    <3>2. QED
      BY <3>1, Zenon
  <2>6. SumFunctionOnSet(g, Image(T \ {c})) = SumFunctionOnSet(f, T \ {c}) /\ g[h[c]] = f[c]
    BY <1>2
  <2>7. SumFunctionOnSet(g, Image(T)) = SumFunctionOnSet(f, T)
    <3> HIDE DEF Image
    <3>1. QED
      BY <2>4, <2>5, <2>6
  <2>8. QED
    BY <2>7
<1>3. SUBSET S \subseteq P
  <2> HIDE DEF P
  <2>1. QED
    BY <1>1, <1>2, SubsetInduction
<1>4. QED
  BY <1>3

\* A sum with one value changed.
LEMMA SumChanged ==
    ASSUME NEW S, IsFiniteSet(S), NEW f, NEW g, NEW x \in S,
           \A y \in S : f[y] \in Int /\ g[y] \in Int,
           \A y \in S \ {x} : g[y] = f[y]
    PROVE  SumFunctionOnSet(g, S) - g[x] = SumFunctionOnSet(f, S) - f[x]
<1>1. IsFiniteSet(S \ {x})
  BY FS_Subset
<1>2. /\ SumFunctionOnSet(f, S) = f[x] + SumFunctionOnSet(f, S \ {x})
      /\ SumFunctionOnSet(g, S) = g[x] + SumFunctionOnSet(g, S \ {x})
  BY SumByAny
<1>3. SumFunctionOnSet(f, S \ {x}) = SumFunctionOnSet(g, S \ {x})
  BY <1>1, SumExtensional
<1>4. SumFunctionOnSet(f, S \ {x}) \in Int /\ SumFunctionOnSet(g, S \ {x}) \in Int
  BY <1>1, SumType
<1>5. f[x] \in Int /\ g[x] \in Int
  OBVIOUS
<1>6. QED
  BY <1>2, <1>3, <1>4, <1>5

\* The sum of a part of naturals is no larger than the whole.
LEMMA SumOfPart ==
    ASSUME NEW S, IsFiniteSet(S), NEW f, \A x \in S : f[x] \in Nat, NEW T \in SUBSET S
    PROVE  SumFunctionOnSet(f, T) <= SumFunctionOnSet(f, S)
<1>1. IsFiniteSet(T) /\ IsFiniteSet(S \ T)
  BY FS_Subset
<1>2. SumFunctionOnSet(f, S) = SumFunctionOnSet(f, S \cap T) + SumFunctionOnSet(f, S \ T)
  <2>1. \A x \in S : f[x] \in Int
    OBVIOUS
  <2>2. QED
    BY <2>1, SumOfParts
<1>3. SumFunctionOnSet(f, S \cap T) = SumFunctionOnSet(f, T)
  <2>1. S \cap T = T
    OBVIOUS
  <2>2. QED
    BY <2>1, Zenon
<1>4. SumFunctionOnSet(f, T) \in Nat /\ SumFunctionOnSet(f, S \ T) \in Nat
  BY <1>1, SumIsNatural
<1>5. QED
  BY <1>2, <1>3, <1>4

\* Nothing but zeros sum to zero.
LEMMA SumOfZeros ==
    ASSUME NEW S, IsFiniteSet(S), NEW z, \A x \in S : z[x] = 0
    PROVE  SumFunctionOnSet(z, S) = 0
<1> DEFINE P == { T \in SUBSET S : SumFunctionOnSet(z, T) = 0 }
<1>1. {} \in P
  BY SumOfNone
<1>2. ASSUME NEW T \in SUBSET S, T # {}, \A x \in T : T \ {x} \in P
      PROVE  T \in P
  <2>1. IsFiniteSet(T) /\ \A x \in T : z[x] \in Int /\ z[x] = 0
    BY FS_Subset
  <2>2. PICK c \in T : SumFunctionOnSet(z, T) = z[c] + SumFunctionOnSet(z, T \ {c})
    BY <1>2, <2>1, SumByAny
  <2>3. QED
    BY <1>2, <2>1, <2>2
<1>3. SUBSET S \subseteq P
  <2> HIDE DEF P
  <2>1. QED
    BY <1>1, <1>2, SubsetInduction
<1>4. QED
  BY <1>3

-----------------------------------------------------------------------------
(* Smallest and largest.                                                   *)

\* A finite set of integers has a least element.
LEMMA LeastInteger ==
    ASSUME NEW S \in SUBSET Int, IsFiniteSet(S), S # {}
    PROVE  Min(S) \in S /\ \A x \in S : Min(S) <= x
<1> DEFINE P == { T \in SUBSET S : T = {} \/ \E m \in T : \A x \in T : m <= x }
<1>1. {} \in P
  OBVIOUS
<1>2. ASSUME NEW T \in SUBSET S, T # {}, \A x \in T : T \ {x} \in P
      PROVE  T \in P
  <2>1. PICK y \in T : TRUE
    BY <1>2
  <2>2. CASE T \ {y} = {}
    BY <2>1, <2>2
  <2>3. CASE T \ {y} # {}
    <3>1. PICK m \in T \ {y} : \A x \in T \ {y} : m <= x
      BY <1>2, <2>1, <2>3
    <3>2. CASE m <= y
      BY <2>1, <3>1, <3>2
    <3>3. CASE ~(m <= y)
      <4>1. \A x \in T : y <= x
        BY <2>1, <3>1, <3>3
      <4>2. QED
        BY <2>1, <4>1
    <3>4. QED
      BY <3>2, <3>3
  <2>4. QED
    BY <2>2, <2>3
<1>3. S \in P
  <2> HIDE DEF P
  <2>1. QED
    BY <1>1, <1>2, SubsetInduction
<1>4. QED
  BY <1>3 DEF Min

\* What is least is the minimum.
LEMMA MinIs ==
    ASSUME NEW S \in SUBSET Int, NEW m \in S, \A x \in S : m <= x
    PROVE  Min(S) = m
<1>1. PICK k : k = Min(S)
  OBVIOUS
<1>2. k \in S /\ \A x \in S : k <= x
  BY <1>1 DEF Min
<1>3. k \in Int /\ m \in Int /\ k <= m /\ m <= k
  BY <1>2
<1>4. QED
  BY <1>1, <1>3

\* A finite set of integers has a largest element.
LEMMA LargestInteger ==
    ASSUME NEW S \in SUBSET Int, IsFiniteSet(S), S # {}
    PROVE  Max(S) \in S /\ \A x \in S : x <= Max(S)
<1>1. PICK h : h = [x \in S |-> -x]
  OBVIOUS
<1>2. PICK N : N = { h[x] : x \in S }
  OBVIOUS
<1>3. N \in SUBSET Int /\ N # {} /\ IsFiniteSet(N)
  <2>1. IsFiniteSet(N)
    BY <1>2, ImageCounts
  <2>2. \A x \in S : h[x] \in Int
    BY <1>1
  <2>3. QED
    BY <1>2, <2>1, <2>2
<1>4. PICK m \in N : \A x \in N : m <= x
  BY <1>3, LeastInteger
<1>5. -m \in S /\ \A x \in S : x <= -m
  BY <1>1, <1>2, <1>4
<1>6. \A x \in S : -m >= x
  BY <1>3, <1>4, <1>5
<1>7. Max(S) \in S /\ \A x \in S : Max(S) >= x
  BY <1>5, <1>6 DEF Max
<1>8. QED
  BY <1>7

\* The elements of a sequence are finitely many.
LEMMA ElementsAreFinite ==
    ASSUME NEW X, NEW s \in Seq(X)
    PROVE  /\ DOMAIN s = 1..Len(s) /\ Len(s) \in Nat /\ IsFiniteSet(DOMAIN s)
           /\ \A i \in DOMAIN s : s[i] \in X
           /\ ToSet(s) \in SUBSET X /\ IsFiniteSet(ToSet(s))
           /\ s # <<>> => ToSet(s) # {} /\ 1 \in DOMAIN s
<1>1. /\ DOMAIN s = 1..Len(s) /\ Len(s) \in Nat
      /\ \A i \in DOMAIN s : s[i] \in X
      /\ s # <<>> => 1 \in DOMAIN s
  OBVIOUS
<1>2. IsFiniteSet(DOMAIN s)
  BY <1>1, FS_Interval
<1>3. IsFiniteSet({ s[i] : i \in DOMAIN s })
  BY <1>2, ImageCounts
<1>4. QED
  BY <1>1, <1>2, <1>3 DEF ToSet

-----------------------------------------------------------------------------
(* Reservations.                                                           *)

TokensOf(e) == [i \in DOMAIN e |-> e[i].tokens]

\* The tokens of the entries younger than an age.
Younger(e, a) == SumFunctionOnSet(TokensOf(e), { i \in DOMAIN e : e[i].age < a })

\* The oldest first.
Ordered(e) == \A i, j \in DOMAIN e : i < j => e[j].age <= e[i].age

\* What a part of some entries adds up to is a number of tokens.
LEMMA EntriesSum ==
    ASSUME NEW e \in Seq(Entries), NEW S \in SUBSET DOMAIN e
    PROVE  /\ IsFiniteSet(S)
           /\ \A i \in DOMAIN e : TokensOf(e)[i] \in Nat /\ e[i].age \in 0..Minute
           /\ SumFunctionOnSet(TokensOf(e), S) \in Nat
<1>1. DOMAIN e = 1..Len(e) /\ Len(e) \in Nat
  OBVIOUS
<1>2. IsFiniteSet(S)
  <2>1. IsFiniteSet(1..Len(e))
    BY <1>1, FS_Interval
  <2>2. QED
    BY <1>1, <2>1, FS_Subset
<1>3. \A i \in DOMAIN e : TokensOf(e)[i] \in Nat /\ e[i].age \in 0..Minute
  <2>1. \A i \in DOMAIN e : e[i] \in Entries
    BY <1>1
  <2>2. QED
    BY <2>1 DEF Entries, TokensOf
<1>4. QED
  BY <1>2, <1>3, SumIsNatural

\* Ages and sizes are numbers.
LEMMA AgesAreNumbers ==
    ASSUME NEW e \in Seq(Entries), NEW i \in DOMAIN e
    PROVE  /\ e[i].age \in Int /\ 0 <= e[i].age /\ e[i].age <= Minute
           /\ TokensOf(e)[i] \in Nat
<1>1. e[i].age \in 0..Minute /\ TokensOf(e)[i] \in Nat
  BY EntriesSum
<1>2. QED
  BY <1>1, PacingAssumption

\* So is what is younger than an age.
LEMMA YoungerIsNatural ==
    ASSUME NEW e \in Seq(Entries), NEW a
    PROVE  Younger(e, a) \in Nat
BY EntriesSum DEF Younger

\* So is what there is, which is summed over all places.
LEMMA TotalIsNatural ==
    ASSUME NEW e \in Seq(Entries)
    PROVE  Total(e) \in Nat /\ Total(e) = SumFunctionOnSet(TokensOf(e), DOMAIN e)
<1>1. Total(e) = SumFunctionOnSet(TokensOf(e), DOMAIN e)
  BY DEF Total, SumFunction, TokensOf
<1>2. QED
  BY <1>1, EntriesSum

\* More is younger than a greater age, and all is what there is.
LEMMA YoungerGrows ==
    ASSUME NEW e \in Seq(Entries), NEW a \in Int, NEW b \in Int, a <= b
    PROVE  Younger(e, a) <= Younger(e, b)
<1>1. PICK S : S = { i \in DOMAIN e : e[i].age < b }
  OBVIOUS
<1>2. PICK T : T = { i \in DOMAIN e : e[i].age < a }
  OBVIOUS
<1>3. T \in SUBSET S
  <2>1. \A i \in DOMAIN e : e[i].age \in Int
    BY AgesAreNumbers
  <2>2. QED
    BY <1>1, <1>2, <2>1
<1>4. IsFiniteSet(S) /\ \A i \in S : TokensOf(e)[i] \in Nat
  BY <1>1, EntriesSum
<1>5. SumFunctionOnSet(TokensOf(e), T) <= SumFunctionOnSet(TokensOf(e), S)
  BY <1>3, <1>4, SumOfPart
<1>6. QED
  BY <1>1, <1>2, <1>5 DEF Younger

\* What is younger is part of all there is, or all of it.
LEMMA YoungerIsPart ==
    ASSUME NEW e \in Seq(Entries), NEW a \in Int
    PROVE  /\ Younger(e, a) <= Total(e)
           /\ (\A i \in DOMAIN e : e[i].age < a) => Younger(e, a) = Total(e)
<1>1. PICK T : T = { i \in DOMAIN e : e[i].age < a }
  OBVIOUS
<1>2. T \in SUBSET DOMAIN e
  BY <1>1
<1>3. SumFunctionOnSet(TokensOf(e), T) <= SumFunctionOnSet(TokensOf(e), DOMAIN e)
  BY <1>2, EntriesSum, SumOfPart
<1>4. (\A i \in DOMAIN e : e[i].age < a) => T = DOMAIN e
  BY <1>1
<1>5. QED
  BY <1>1, <1>3, <1>4, TotalIsNatural DEF Younger

\* A new entry is younger than every age but zero.
LEMMA YoungerAppend ==
    ASSUME NEW e \in Seq(Entries), NEW a \in 1..Minute, NEW n \in Nat
    PROVE  Younger(Append(e, [age |-> 0, tokens |-> n]), a) = Younger(e, a) + n
<1>1. PICK k : k = Len(e) + 1
  OBVIOUS
<1>2. PICK g : g = Append(e, [age |-> 0, tokens |-> n])
  OBVIOUS
<1>3. /\ DOMAIN e = 1..Len(e) /\ Len(e) \in Nat /\ k \notin DOMAIN e
      /\ DOMAIN g = DOMAIN e \cup {k}
      /\ g[k] = [age |-> 0, tokens |-> n]
      /\ \A i \in DOMAIN e : g[i] = e[i]
  BY <1>1, <1>2
<1>4. g \in Seq(Entries)
  BY <1>2, PacingAssumption DEF Entries
<1>5. PICK S : S = { i \in DOMAIN g : g[i].age < a }
  OBVIOUS
<1>6. PICK T : T = { i \in DOMAIN e : e[i].age < a }
  OBVIOUS
<1>7. S \ {k} = T /\ k \in S
  BY <1>3, <1>5, <1>6
<1>8. IsFiniteSet(S) /\ IsFiniteSet(T) /\ \A i \in S : TokensOf(g)[i] \in Int
  <2>1. S \in SUBSET DOMAIN g /\ T \in SUBSET DOMAIN e
    BY <1>5, <1>6
  <2>2. IsFiniteSet(S) /\ \A i \in DOMAIN g : TokensOf(g)[i] \in Nat
    BY <1>4, <2>1, EntriesSum
  <2>3. IsFiniteSet(T)
    BY <2>1, EntriesSum
  <2>4. QED
    BY <2>1, <2>2, <2>3
<1>9. SumFunctionOnSet(TokensOf(g), S)
        = TokensOf(g)[k] + SumFunctionOnSet(TokensOf(g), S \ {k})
  BY <1>7, <1>8, SumByAny
<1>10. SumFunctionOnSet(TokensOf(g), T) = SumFunctionOnSet(TokensOf(e), T)
  <2>0. \A i \in DOMAIN e : TokensOf(e)[i] \in Int
    BY AgesAreNumbers
  <2>1. \A i \in T : TokensOf(g)[i] = TokensOf(e)[i] /\ TokensOf(e)[i] \in Int
    BY <1>3, <1>6, <2>0 DEF TokensOf
  <2>2. QED
    BY <1>8, <2>1, SumExtensional
<1>11. TokensOf(g)[k] = n
  BY <1>3 DEF TokensOf
<1>12. SumFunctionOnSet(TokensOf(e), T) \in Nat
  BY <1>6, EntriesSum
<1>13. SumFunctionOnSet(TokensOf(g), S \ {k}) = SumFunctionOnSet(TokensOf(g), T)
  BY <1>7, Zenon
<1>14. Younger(g, a) = SumFunctionOnSet(TokensOf(g), S)
  BY <1>5 DEF Younger
<1>15. Younger(e, a) = SumFunctionOnSet(TokensOf(e), T)
  BY <1>6 DEF Younger
<1>16. QED
  BY <1>2, <1>9, <1>10, <1>11, <1>12, <1>13, <1>14, <1>15

\* A tick makes every entry older, until it is a minute old.
LEMMA OlderEntries ==
    ASSUME NEW e \in Seq(Entries)
    PROVE  /\ Older(e) \in Seq(Entries)
           /\ DOMAIN Older(e) = DOMAIN e
           /\ \A i \in DOMAIN e :
                /\ Older(e)[i].age = IF e[i].age < Minute THEN e[i].age + 1 ELSE e[i].age
                /\ Older(e)[i].tokens = e[i].tokens
<1>1. DOMAIN e = 1..Len(e) /\ Len(e) \in Nat
  OBVIOUS
<1>2. ASSUME NEW i \in DOMAIN e
      PROVE  /\ Older(e)[i] \in Entries
             /\ Older(e)[i].age = IF e[i].age < Minute THEN e[i].age + 1 ELSE e[i].age
             /\ Older(e)[i].tokens = e[i].tokens
  <2>1. e[i] \in Entries
    BY <1>1
  <2>2. Older(e)[i] = [e[i] EXCEPT !.age = IF @ < Minute THEN @ + 1 ELSE @]
    BY DEF Older
  <2>3. e[i].age \in Int /\ 0 <= e[i].age /\ e[i].age <= Minute /\ Minute \in Nat
    BY AgesAreNumbers, PacingAssumption
  <2>4. CASE e[i].age < Minute
    <3>1. Older(e)[i] = [e[i] EXCEPT !.age = @ + 1]
      BY <2>2, <2>4
    <3>2. QED
      BY <2>1, <2>3, <2>4, <3>1 DEF Entries
  <2>5. CASE ~ (e[i].age < Minute)
    <3>1. Older(e)[i] = [e[i] EXCEPT !.age = @]
      BY <2>2, <2>5
    <3>2. QED
      BY <2>1, <2>3, <2>5, <3>1 DEF Entries
  <2>6. QED
    BY <2>4, <2>5
<1>3. DOMAIN Older(e) = DOMAIN e
  BY DEF Older
<1>4. Older(e) = [i \in 1..Len(e) |-> Older(e)[i]]
  BY <1>1 DEF Older
<1>5. Older(e) \in [1..Len(e) -> Entries]
  BY <1>1, <1>2, <1>4
<1>6. QED
  BY <1>1, <1>2, <1>3, <1>5

\* A tick makes what was younger than an age younger than the next one.
LEMMA YoungerOlder ==
    ASSUME NEW e \in Seq(Entries), NEW a \in 0..(Minute - 1)
    PROVE  Younger(Older(e), a + 1) = Younger(e, a)
<1>1. PICK T : T = { i \in DOMAIN e : e[i].age < a }
  OBVIOUS
<1>2. T = { i \in DOMAIN Older(e) : Older(e)[i].age < a + 1 }
  <2>1. DOMAIN Older(e) = DOMAIN e /\ a \in Int /\ Minute \in Int /\ a < Minute
    BY OlderEntries, PacingAssumption
  <2>2. ASSUME NEW i \in DOMAIN e
        PROVE  Older(e)[i].age < a + 1 <=> e[i].age < a
    <3>1. e[i].age \in Int /\ e[i].age <= Minute
      BY AgesAreNumbers
    <3>2. Older(e)[i].age = IF e[i].age < Minute THEN e[i].age + 1 ELSE e[i].age
      BY OlderEntries
    <3>3. QED
      BY <2>1, <3>1, <3>2
  <2>3. QED
    BY <1>1, <2>1, <2>2
<1>3. TokensOf(Older(e)) = TokensOf(e)
  BY OlderEntries DEF TokensOf
<1>4. QED
  BY <1>1, <1>2, <1>3 DEF Younger

\* Nothing is younger than no age.
LEMMA NoneYounger ==
    ASSUME NEW e \in Seq(Entries)
    PROVE  Younger(e, 0) = 0
<1>1. \A i \in DOMAIN e : ~ (e[i].age < 0)
  BY AgesAreNumbers
<1>2. { i \in DOMAIN e : e[i].age < 0 } = {}
  BY <1>1
<1>3. QED
  BY <1>2, SumOfNone DEF Younger

\* What is popped is a minute old, and what comes first afterwards is not.
LEMMA LivePops ==
    ASSUME NEW e \in Seq(Entries)
    PROVE  \E k \in 1..(Len(e) + 1) :
              /\ Live(e) \in Seq(Entries)
              /\ Len(Live(e)) = Len(e) + 1 - k
              /\ \A i \in 1..Len(Live(e)) : Live(e)[i] = e[i + k - 1]
              /\ \A i \in 1..(k - 1) : ~ (e[i].age < Minute)
              /\ k <= Len(e) => e[k].age < Minute
<1>1. DOMAIN e = 1..Len(e) /\ Len(e) \in Nat
  OBVIOUS
<1>2. PICK live : live = { i \in DOMAIN e : e[i].age < Minute }
  OBVIOUS
<1>3. CASE live = {}
  <2>1. Live(e) = <<>>
    BY <1>2, <1>3 DEF Live
  <2>2. \A i \in 1..Len(e) : ~ (e[i].age < Minute)
    BY <1>1, <1>2, <1>3
  <2>3. Len(e) + 1 \in 1..(Len(e) + 1)
    BY <1>1
  <2>4. Live(e) \in Seq(Entries) /\ Len(Live(e)) = 0
    BY <2>1
  <2>5. QED
    BY <1>1, <2>2, <2>3, <2>4
<1>4. CASE live # {}
  <2>1. live \in SUBSET Nat
    BY <1>1, <1>2
  <2>2. PICK k : k = Min(live)
    OBVIOUS
  <2>3. k \in live /\ \A i \in live : k <= i
    BY <1>4, <2>1, <2>2, LeastNatural DEF Min
  <2>4. Live(e) = SubSeq(e, k, Len(e))
    BY <1>2, <1>4, <2>2 DEF Live
  <2>5. k \in 1..Len(e) /\ e[k].age < Minute
    BY <1>1, <1>2, <2>3
  <2>6. /\ Live(e) \in Seq(Entries)
        /\ Len(Live(e)) = Len(e) + 1 - k
        /\ \A i \in 1..Len(Live(e)) : Live(e)[i] = e[i + k - 1]
    BY <1>1, <2>4, <2>5
  <2>7. \A i \in 1..(k - 1) : ~ (e[i].age < Minute)
    BY <1>1, <1>2, <2>3, <2>5
  <2>8. k \in 1..(Len(e) + 1)
    BY <1>1, <2>5
  <2>9. QED
    BY <2>5, <2>6, <2>7, <2>8
<1>5. QED
  BY <1>3, <1>4

\* Popping takes nothing that is less than a minute old.
LEMMA YoungerLive ==
    ASSUME NEW e \in Seq(Entries), NEW a \in 0..Minute
    PROVE  Younger(Live(e), a) = Younger(e, a)
<1>1. PICK l : l = Live(e)
  OBVIOUS
<1>2. PICK k \in 1..(Len(e) + 1) :
        /\ l \in Seq(Entries)
        /\ Len(l) = Len(e) + 1 - k
        /\ \A i \in 1..Len(l) : l[i] = e[i + k - 1]
        /\ \A i \in 1..(k - 1) : ~ (e[i].age < Minute)
        /\ k <= Len(e) => e[k].age < Minute
  BY <1>1, LivePops
<1>3. /\ DOMAIN e = 1..Len(e) /\ Len(e) \in Nat
      /\ DOMAIN l = 1..Len(l) /\ Len(l) \in Nat /\ k \in Nat
      /\ a \in Int /\ Minute \in Int /\ a <= Minute
  BY <1>2, PacingAssumption
<1>4. PICK S : S = { i \in DOMAIN l : l[i].age < a }
  OBVIOUS
<1>5. PICK T : T = { i \in DOMAIN e : e[i].age < a }
  OBVIOUS
<1>6. PICK h : h = [i \in DOMAIN l |-> i + k - 1]
  OBVIOUS
<1>7. { h[i] : i \in S } = T
  <2>1. ASSUME NEW i \in S PROVE h[i] \in T
    <3>1. i \in Int /\ 1 <= i /\ i <= Len(l) /\ l[i] = e[i + k - 1] /\ l[i].age < a
      <4>1. i \in DOMAIN l /\ l[i].age < a
        BY <1>4
      <4>2. i \in 1..Len(l)
        BY <1>3, <4>1
      <4>3. l[i] = e[i + k - 1]
        BY <1>2, <4>2
      <4>4. i \in Int /\ 1 <= i /\ i <= Len(l)
        BY <1>3, <4>2
      <4>5. QED
        BY <4>1, <4>3, <4>4
    <3>2. i <= Len(e) + 1 - k /\ 1 <= k
      BY <1>2, <3>1
    <3>3. i + k - 1 \in DOMAIN e /\ h[i] = i + k - 1
      BY <1>3, <1>4, <1>6, <3>1, <3>2
    <3>4. QED
      BY <1>5, <3>1, <3>3
  <2>2. ASSUME NEW j \in T PROVE \E i \in S : h[i] = j
    <3>1. e[j].age \in Int /\ e[j].age < Minute
      BY <1>3, <1>5, AgesAreNumbers
    <3>2. j \in Int /\ k <= j /\ j <= Len(e)
      BY <1>2, <1>3, <1>5, <3>1
    <3>3. j - k + 1 \in 1..Len(l)
      BY <1>2, <1>3, <3>2
    <3>4. l[j - k + 1] = e[j]
      <4>1. l[j - k + 1] = e[(j - k + 1) + k - 1]
        BY <1>2, <3>3
      <4>2. (j - k + 1) + k - 1 = j
        BY <1>3, <3>2
      <4>3. QED
        BY <4>1, <4>2
    <3>5. j - k + 1 \in S
      BY <1>3, <1>4, <1>5, <3>3, <3>4
    <3>6. h[j - k + 1] = j
      BY <1>3, <1>6, <3>2, <3>3
    <3>7. QED
      BY <3>5, <3>6
  <2>3. QED
    BY <2>1, <2>2
<1>8. IsFiniteSet(S) /\ S \in SUBSET DOMAIN l
  BY <1>2, <1>4, EntriesSum
<1>9. \A i \in S : TokensOf(l)[i] \in Int /\ TokensOf(e)[h[i]] = TokensOf(l)[i]
  <2>1. ASSUME NEW i \in S
        PROVE  TokensOf(l)[i] \in Int /\ TokensOf(e)[h[i]] = TokensOf(l)[i]
    <3>1. i \in DOMAIN l /\ h[i] = i + k - 1 /\ l[i] = e[i + k - 1]
      BY <1>2, <1>3, <1>6, <1>8
    <3>2. h[i] \in DOMAIN e
      BY <1>5, <1>7
    <3>3. TokensOf(l)[i] \in Nat
      BY <1>2, <3>1, AgesAreNumbers
    <3>4. QED
      BY <3>1, <3>2, <3>3 DEF TokensOf
  <2>2. QED
    BY <2>1
<1>10. \A x, y \in S : h[x] = h[y] => x = y
  BY <1>3, <1>6, <1>8
<1>11. SumFunctionOnSet(TokensOf(e), { h[i] : i \in S }) = SumFunctionOnSet(TokensOf(l), S)
  BY <1>8, <1>9, <1>10, SumOfImage
<1>12. SumFunctionOnSet(TokensOf(e), { h[i] : i \in S }) = SumFunctionOnSet(TokensOf(e), T)
  BY <1>7, Zenon
<1>13. QED
  BY <1>1, <1>4, <1>5, <1>11, <1>12 DEF Younger

\* Popping keeps the order, and all that is left is less than a minute old.
LEMMA LiveIsOrdered ==
    ASSUME NEW e \in Seq(Entries), Ordered(e)
    PROVE  Ordered(Live(e)) /\ \A i \in DOMAIN Live(e) : Live(e)[i].age < Minute
<1>1. PICK l : l = Live(e)
  OBVIOUS
<1>2. PICK k \in 1..(Len(e) + 1) :
        /\ l \in Seq(Entries)
        /\ Len(l) = Len(e) + 1 - k
        /\ \A i \in 1..Len(l) : l[i] = e[i + k - 1]
        /\ \A i \in 1..(k - 1) : ~ (e[i].age < Minute)
        /\ k <= Len(e) => e[k].age < Minute
  BY <1>1, LivePops
<1>3. /\ DOMAIN e = 1..Len(e) /\ Len(e) \in Nat
      /\ DOMAIN l = 1..Len(l) /\ Len(l) \in Nat /\ k \in Nat /\ Minute \in Int
  BY <1>2, PacingAssumption
<1>4. ASSUME NEW i \in DOMAIN l
      PROVE  i + k - 1 \in DOMAIN e /\ l[i] = e[i + k - 1] /\ k <= Len(e) /\ k <= i + k - 1
  <2>1. i \in Int /\ 1 <= i /\ i <= Len(l) /\ l[i] = e[i + k - 1]
    BY <1>2, <1>3
  <2>2. i <= Len(e) + 1 - k /\ 1 <= k
    BY <1>2, <2>1
  <2>3. i + k - 1 \in Int /\ 1 <= i + k - 1 /\ i + k - 1 <= Len(e) /\ k <= Len(e)
    BY <1>3, <2>1, <2>2
  <2>4. QED
    BY <1>3, <2>1, <2>2, <2>3
<1>5. ASSUME NEW i \in DOMAIN l, NEW j \in DOMAIN l, i < j
      PROVE  l[j].age <= l[i].age
  <2>1. i + k - 1 < j + k - 1
    BY <1>3, <1>5
  <2>2. QED
    BY <1>4, <2>1 DEF Ordered
<1>6. ASSUME NEW i \in DOMAIN l
      PROVE  l[i].age < Minute
  <2>1. k \in DOMAIN e /\ e[k].age < Minute
    BY <1>2, <1>3, <1>4
  <2>2. CASE i + k - 1 = k
    BY <1>4, <2>1, <2>2
  <2>3. CASE k < i + k - 1
    <3>1. e[i + k - 1].age <= e[k].age
      BY <1>4, <2>1, <2>3 DEF Ordered
    <3>2. e[i + k - 1].age \in Int /\ e[k].age \in Int
      BY <1>4, <2>1, AgesAreNumbers
    <3>3. QED
      BY <1>3, <1>4, <2>1, <3>1, <3>2
  <2>4. QED
    BY <1>3, <1>4, <2>2, <2>3
<1>7. QED
  BY <1>1, <1>5, <1>6 DEF Ordered

\* A new entry is the youngest.
LEMMA AppendIsOrdered ==
    ASSUME NEW e \in Seq(Entries), Ordered(e), NEW n \in Nat
    PROVE  /\ Append(e, [age |-> 0, tokens |-> n]) \in Seq(Entries)
           /\ Ordered(Append(e, [age |-> 0, tokens |-> n]))
           /\ (\A i \in DOMAIN e : e[i].age < Minute)
                => \A i \in DOMAIN Append(e, [age |-> 0, tokens |-> n]) :
                      Append(e, [age |-> 0, tokens |-> n])[i].age < Minute
<1>1. PICK g : g = Append(e, [age |-> 0, tokens |-> n])
  OBVIOUS
<1>2. /\ DOMAIN e = 1..Len(e) /\ Len(e) \in Nat
      /\ DOMAIN g = DOMAIN e \cup {Len(e) + 1}
      /\ g[Len(e) + 1] = [age |-> 0, tokens |-> n]
      /\ \A i \in DOMAIN e : g[i] = e[i]
      /\ Minute \in Nat \ {0}
  BY <1>1, PacingAssumption
<1>3. g \in Seq(Entries)
  BY <1>1, PacingAssumption DEF Entries
<1>4. \A i \in DOMAIN e : e[i].age \in Int /\ 0 <= e[i].age
  BY AgesAreNumbers
<1>5. ASSUME NEW i \in DOMAIN g, NEW j \in DOMAIN g, i < j
      PROVE  g[j].age <= g[i].age
  <2>1. i \in DOMAIN e
    BY <1>2, <1>5
  <2>2. CASE j \in DOMAIN e
    BY <1>2, <1>5, <2>1, <2>2 DEF Ordered
  <2>3. CASE j = Len(e) + 1
    BY <1>2, <1>4, <2>1, <2>3
  <2>4. QED
    BY <1>2, <2>2, <2>3
<1>6. ASSUME \A i \in DOMAIN e : e[i].age < Minute, NEW i \in DOMAIN g
      PROVE  g[i].age < Minute
  BY <1>2, <1>6
<1>7. QED
  BY <1>1, <1>3, <1>5, <1>6 DEF Ordered

\* A tick keeps the order.
LEMMA OlderIsOrdered ==
    ASSUME NEW e \in Seq(Entries), Ordered(e)
    PROVE  Ordered(Older(e))
<1>1. ASSUME NEW i \in DOMAIN e, NEW j \in DOMAIN e, i < j
      PROVE  Older(e)[j].age <= Older(e)[i].age
  <2>1. /\ e[i].age \in Int /\ e[j].age \in Int
        /\ e[i].age <= Minute /\ e[j].age <= Minute /\ Minute \in Int
    BY AgesAreNumbers, PacingAssumption
  <2>2. e[j].age <= e[i].age
    BY <1>1 DEF Ordered
  <2>3. /\ Older(e)[i].age = IF e[i].age < Minute THEN e[i].age + 1 ELSE e[i].age
        /\ Older(e)[j].age = IF e[j].age < Minute THEN e[j].age + 1 ELSE e[j].age
    BY OlderEntries
  <2>4. QED
    BY <2>1, <2>2, <2>3
<1>2. QED
  BY <1>1, OlderEntries DEF Ordered

-----------------------------------------------------------------------------
(* Token pacing.                                                           *)

\* What a thread has reserved with a model and not sent yet.
PendingOf(q) ==
    [t \in Threads |->
        IF pc[t] = "send" /\ model[t] = q THEN Reserved(q, tokens[t]) ELSE 0]

Pending(q) == SumFunctionOnSet(PendingOf(q), Threads)

\* Windows and histories are kept oldest first, the history of a minute only.
OldestFirst ==
    \A m \in Models :
        /\ Ordered(window[m]) /\ Ordered(sent[m])
        /\ \A i \in DOMAIN sent[m] : sent[m][i].age < Minute

\* A paced model's window holds what was sent and what is about to be, at every
\* age, and no more of it than the budget is less than a minute old.
Accounted(q) ==
    Ceiling[q] > 0 =>
        /\ Younger(window[q], Minute) <= Budget(q)
        /\ \A a \in 1..Minute :
              Younger(sent[q], a) + Pending(q) = Younger(window[q], a)

\* What a sleeper was held back by is not a minute old before it is due.
HeldBack(t) ==
    pc[t] = "asleep" =>
        /\ Ceiling[model[t]] > 0
        /\ left[t] > 0 =>
              Younger(window[model[t]], Minute - left[t] + 1)
                  + Reserved(model[t], tokens[t]) > Budget(model[t])

PacerInv ==
    /\ TypeOK
    /\ OldestFirst
    /\ \A q \in Models : Accounted(q)
    /\ \A t \in Threads : HeldBack(t)

\* A budget is at least one token, and nothing reserved is larger.
LEMMA BudgetIsPositive ==
    ASSUME NEW m \in Models, NEW n \in Nat
    PROVE  /\ Budget(m) \in Nat \ {0}
           /\ Reserved(m, n) \in Nat /\ Reserved(m, n) <= Budget(m)
<1>1. Ceiling[m] \in Nat
  BY PacingAssumption
<1>2. (Ceiling[m] * 3) \div 4 \in Int
  BY <1>1
<1>3. Budget(m) \in Nat \ {0}
  BY <1>2 DEF Budget
<1>4. QED
  BY <1>3 DEF Reserved

\* What is pending is a number of tokens.
LEMMA PendingIsNatural ==
    ASSUME TypeOK, NEW q \in Models
    PROVE  Pending(q) \in Nat /\ \A t \in Threads : PendingOf(q)[t] \in Nat
<1>1. \A t \in Threads : tokens[t] \in Nat
  BY DEF TypeOK
<1>2. \A t \in Threads : PendingOf(q)[t] \in Nat
  BY <1>1, BudgetIsPositive DEF PendingOf
<1>3. QED
  BY <1>2, PacingAssumption, SumIsNatural DEF Pending

\* Live and older entries are entries.
LEMMA EntriesStay ==
    ASSUME NEW e \in Seq(Entries)
    PROVE  Live(e) \in Seq(Entries) /\ Older(e) \in Seq(Entries) /\ Live(Older(e)) \in Seq(Entries)
BY LivePops, OlderEntries

\* The initial state has the invariant's type.
LEMMA PacerTypesInit == Init => TypeOK
BY PacingAssumption DEF Init, TypeOK

\* Every step keeps the types.
LEMMA PacerTypesStep == TypeOK /\ [Next]_vars => TypeOK'
<1> SUFFICES ASSUME TypeOK, [Next]_vars PROVE TypeOK'
  OBVIOUS
<1>0. Minute \in Nat \ {0} /\ MaxCalls \in Nat /\ Estimates \subseteq Nat \ {0} /\ None \notin Models
  BY PacingAssumption
<1>1. ASSUME NEW t \in Threads, NEW m \in Models, NEW n \in Estimates, Begin(t, m, n)
      PROVE  TypeOK'
  BY <1>0, <1>1 DEF TypeOK, Begin, Goto
<1>2. ASSUME NEW t \in Threads, Unpaced(t) PROVE TypeOK'
  BY <1>2 DEF TypeOK, Unpaced, Goto, call
<1>3. ASSUME NEW t \in Threads, Reserve(t) PROVE TypeOK'
  <2>1. model[t] \in Models /\ tokens[t] \in Nat
    BY <1>3 DEF TypeOK, Reserve
  <2>2. [age |-> 0, tokens |-> Reserved(model[t], tokens[t])] \in Entries
    BY <1>0, <2>1, BudgetIsPositive DEF Entries
  <2>3. Live(window[model[t]]) \in Seq(Entries)
    BY <2>1, EntriesStay DEF TypeOK
  <2>4. Append(Live(window[model[t]]), [age |-> 0, tokens |-> Reserved(model[t], tokens[t])])
          \in Seq(Entries)
    BY <2>2, <2>3
  <2>5. QED
    BY <1>3, <2>1, <2>4 DEF TypeOK, Reserve, Goto, call
<1>4. ASSUME NEW t \in Threads, Sleep(t) PROVE TypeOK'
  <2>1. model[t] \in Models
    BY <1>4 DEF TypeOK, Sleep
  <2>2. PICK l : l = Live(window[model[t]])
    OBVIOUS
  <2>3. l \in Seq(Entries)
    BY <2>1, <2>2, EntriesStay DEF TypeOK
  <2>4. l # <<>>
    BY <1>4, <2>2 DEF Sleep, Fits
  <2>5. 1 \in DOMAIN l /\ Head(l) = l[1]
    BY <2>3, <2>4
  <2>6. Head(l).age \in Int /\ 0 <= Head(l).age /\ Head(l).age <= Minute
    BY <2>3, <2>5, AgesAreNumbers
  <2>7. Minute - Head(l).age \in 0..Minute
    BY <1>0, <2>6
  <2>8. QED
    BY <1>4, <2>1, <2>2, <2>3, <2>7 DEF TypeOK, Sleep, Goto, call
<1>5. ASSUME NEW t \in Threads, Wake(t) PROVE TypeOK'
  BY <1>5 DEF TypeOK, Wake, Goto, call
<1>6. ASSUME NEW t \in Threads, Send(t) PROVE TypeOK'
  <2>1. model[t] \in Models /\ tokens[t] \in Nat
    BY <1>6 DEF TypeOK, Send
  <2>2. [age |-> 0, tokens |-> Reserved(model[t], tokens[t])] \in Entries
    BY <1>0, <2>1, BudgetIsPositive DEF Entries
  <2>3. Append(sent[model[t]], [age |-> 0, tokens |-> Reserved(model[t], tokens[t])])
          \in Seq(Entries)
    BY <2>1, <2>2 DEF TypeOK
  <2>4. QED
    BY <1>6, <2>1, <2>3 DEF TypeOK, Send, Goto, call
<1>7. ASSUME NEW t \in Threads, End(t) PROVE TypeOK'
  BY <1>0, <1>7 DEF TypeOK, End, Goto
<1>8. ASSUME NEW t \in Threads, Retry(t) PROVE TypeOK'
  BY <1>8 DEF TypeOK, Retry, Goto
<1>9. ASSUME Tick PROVE TypeOK'
  <2>1. \A m \in Models : Older(window[m]) \in Seq(Entries) /\ Live(Older(sent[m])) \in Seq(Entries)
    BY EntriesStay DEF TypeOK
  <2>2. window' \in [Models -> Seq(Entries)] /\ sent' \in [Models -> Seq(Entries)]
    BY <1>9, <2>1 DEF Tick
  <2>3. left' \in [Threads -> 0..Minute]
    BY <1>0, <1>9 DEF Tick, TypeOK
  <2>4. QED
    BY <1>9, <2>2, <2>3 DEF TypeOK, Tick, call
<1>10. ASSUME UNCHANGED vars PROVE TypeOK'
  BY <1>10 DEF TypeOK, vars
<1>11. QED
  BY <1>1, <1>2, <1>3, <1>4, <1>5, <1>6, <1>7, <1>8, <1>9, <1>10 DEF Next, Step

\* Every step keeps the order.
LEMMA OldestFirstStep == TypeOK /\ OldestFirst /\ [Next]_vars => OldestFirst'
<1> SUFFICES ASSUME TypeOK, OldestFirst, [Next]_vars, NEW q \in Models
             PROVE  /\ Ordered(window'[q]) /\ Ordered(sent'[q])
                    /\ \A i \in DOMAIN sent'[q] : sent'[q][i].age < Minute
  BY DEF OldestFirst
<1>0. /\ window[q] \in Seq(Entries) /\ sent[q] \in Seq(Entries)
      /\ Ordered(window[q]) /\ Ordered(sent[q])
      /\ \A i \in DOMAIN sent[q] : sent[q][i].age < Minute
  BY DEF TypeOK, OldestFirst
<1>1. CASE UNCHANGED <<window, sent>>
  BY <1>0, <1>1
<1>2. ASSUME NEW t \in Threads, Reserve(t)
      PROVE  Ordered(window'[q]) /\ sent' = sent
  <2>1. CASE q = model[t]
    <3>1. tokens[t] \in Nat
      BY DEF TypeOK
    <3>2. Reserved(q, tokens[t]) \in Nat
      BY <3>1, BudgetIsPositive
    <3>3. Live(window[q]) \in Seq(Entries) /\ Ordered(Live(window[q]))
      BY <1>0, EntriesStay, LiveIsOrdered
    <3>4. window'[q] = Append(Live(window[q]), [age |-> 0, tokens |-> Reserved(q, tokens[t])])
      BY <1>2, <2>1 DEF Reserve, TypeOK
    <3>5. QED
      BY <1>2, <3>2, <3>3, <3>4, AppendIsOrdered DEF Reserve
  <2>2. CASE q # model[t]
    BY <1>0, <1>2, <2>2 DEF Reserve, TypeOK
  <2>3. QED
    BY <2>1, <2>2
<1>3. ASSUME NEW t \in Threads, Sleep(t)
      PROVE  Ordered(window'[q]) /\ sent' = sent
  <2>1. window'[q] = Live(window[q]) \/ window'[q] = window[q]
    BY <1>3 DEF Sleep, TypeOK
  <2>2. QED
    BY <1>0, <1>3, <2>1, LiveIsOrdered DEF Sleep
<1>4. ASSUME NEW t \in Threads, Send(t)
      PROVE  /\ window' = window /\ Ordered(sent'[q])
             /\ \A i \in DOMAIN sent'[q] : sent'[q][i].age < Minute
  <2>1. CASE q = model[t]
    <3>1. tokens[t] \in Nat
      BY DEF TypeOK
    <3>2. Reserved(q, tokens[t]) \in Nat
      BY <3>1, BudgetIsPositive
    <3>3. sent'[q] = Append(sent[q], [age |-> 0, tokens |-> Reserved(q, tokens[t])])
      BY <1>4, <2>1 DEF Send, TypeOK
    <3>4. QED
      BY <1>0, <1>4, <3>2, <3>3, AppendIsOrdered DEF Send
  <2>2. CASE q # model[t]
    BY <1>0, <1>4, <2>2 DEF Send, TypeOK
  <2>3. QED
    BY <2>1, <2>2
<1>5. ASSUME Tick
      PROVE  /\ Ordered(window'[q]) /\ Ordered(sent'[q])
             /\ \A i \in DOMAIN sent'[q] : sent'[q][i].age < Minute
  <2>1. window'[q] = Older(window[q]) /\ sent'[q] = Live(Older(sent[q]))
    BY <1>5 DEF Tick
  <2>2. Older(sent[q]) \in Seq(Entries) /\ Ordered(Older(sent[q])) /\ Ordered(Older(window[q]))
    BY <1>0, EntriesStay, OlderIsOrdered
  <2>3. QED
    BY <2>1, <2>2, LiveIsOrdered
<1>6. QED
  BY <1>0, <1>1, <1>2, <1>3, <1>4, <1>5
     DEF Next, Step, vars, Begin, Unpaced, Wake, End, Retry

\* A step that reserves and sends nothing leaves what is pending.
LEMMA PendingStays ==
    ASSUME NEW q,
           \A t \in Threads :
               (pc'[t] = "send" <=> pc[t] = "send")
               /\ (pc[t] = "send" => model'[t] = model[t] /\ tokens'[t] = tokens[t])
    PROVE  Pending(q)' = Pending(q)
<1>1. PendingOf(q)' = PendingOf(q)
  BY DEF PendingOf
<1>2. QED
  BY <1>1 DEF Pending

\* A thread that goes to send adds its reservation, where it is paced.
LEMMA PendingGrows ==
    ASSUME TypeOK, TypeOK', NEW q \in Models, NEW t \in Threads,
           pc[t] # "send", pc'[t] = "send", model' = model, tokens' = tokens,
           \A u \in Threads \ {t} : pc'[u] = pc[u]
    PROVE  Pending(q)' = Pending(q)
                + (IF model[t] = q THEN Reserved(q, tokens[t]) ELSE 0)
<1>1. PICK f : f = PendingOf(q)
  OBVIOUS
<1>2. PICK g : g = PendingOf(q)'
  OBVIOUS
<1>3. \A u \in Threads : f[u] \in Int
  BY <1>1, PendingIsNatural
<1>4. \A u \in Threads \ {t} : g[u] = f[u]
  BY <1>1, <1>2 DEF PendingOf
<1>5. f[t] = 0 /\ g[t] = IF model[t] = q THEN Reserved(q, tokens[t]) ELSE 0
  BY <1>1, <1>2 DEF PendingOf
<1>6. g[t] \in Int
  BY <1>5, BudgetIsPositive DEF TypeOK
<1>7. \A u \in Threads : g[u] \in Int
  BY <1>3, <1>4, <1>6
<1>8. SumFunctionOnSet(g, Threads) - g[t] = SumFunctionOnSet(f, Threads) - f[t]
  BY <1>3, <1>4, <1>7, PacingAssumption, SumChanged
<1>9. SumFunctionOnSet(g, Threads) \in Int /\ SumFunctionOnSet(f, Threads) \in Int
  BY <1>3, <1>7, PacingAssumption, SumType
<1>10. SumFunctionOnSet(g, Threads) = SumFunctionOnSet(f, Threads) + g[t]
  BY <1>5, <1>6, <1>8, <1>9
<1>11. QED
  BY <1>1, <1>2, <1>5, <1>10 DEF Pending

\* A thread that sends takes its reservation away.
LEMMA PendingShrinks ==
    ASSUME TypeOK, TypeOK', NEW q \in Models, NEW t \in Threads,
           pc[t] = "send", pc'[t] # "send", model' = model, tokens' = tokens,
           \A u \in Threads \ {t} : pc'[u] = pc[u]
    PROVE  Pending(q) = Pending(q)'
                + (IF model[t] = q THEN Reserved(q, tokens[t]) ELSE 0)
<1>1. PICK f : f = PendingOf(q)
  OBVIOUS
<1>2. PICK g : g = PendingOf(q)'
  OBVIOUS
<1>3. \A u \in Threads : f[u] \in Int
  BY <1>1, PendingIsNatural
<1>4. \A u \in Threads \ {t} : g[u] = f[u]
  BY <1>1, <1>2 DEF PendingOf
<1>5. g[t] = 0 /\ f[t] = IF model[t] = q THEN Reserved(q, tokens[t]) ELSE 0
  BY <1>1, <1>2 DEF PendingOf
<1>7. \A u \in Threads : g[u] \in Int
  BY <1>3, <1>4, <1>5
<1>8. SumFunctionOnSet(g, Threads) - g[t] = SumFunctionOnSet(f, Threads) - f[t]
  BY <1>3, <1>4, <1>7, PacingAssumption, SumChanged
<1>9. SumFunctionOnSet(g, Threads) \in Int /\ SumFunctionOnSet(f, Threads) \in Int /\ f[t] \in Int
  BY <1>3, <1>7, PacingAssumption, SumType
<1>10. SumFunctionOnSet(f, Threads) = SumFunctionOnSet(g, Threads) + f[t]
  BY <1>5, <1>8, <1>9
<1>11. QED
  BY <1>1, <1>2, <1>5, <1>10 DEF Pending

\* No more is less than a minute old than the whole of what is left.
LEMMA YoungerIsLive ==
    ASSUME NEW e \in Seq(Entries), Ordered(e)
    PROVE  Younger(e, Minute) = Total(Live(e)) /\ Total(Live(e)) \in Nat
<1>1. Minute \in 0..Minute /\ Minute \in Int
  BY PacingAssumption
<1>2. Live(e) \in Seq(Entries) /\ \A i \in DOMAIN Live(e) : Live(e)[i].age < Minute
  BY EntriesStay, LiveIsOrdered
<1>3. Younger(Live(e), Minute) = Total(Live(e))
  BY <1>1, <1>2, YoungerIsPart
<1>4. QED
  BY <1>1, <1>2, <1>3, YoungerLive, TotalIsNatural

\* A step that leaves a model's window, history and pending reservations.
LEMMA AccountStays ==
    ASSUME NEW q, Accounted(q), window'[q] = window[q], sent'[q] = sent[q],
           Pending(q)' = Pending(q)
    PROVE  Accounted(q)'
<1>1. Younger(window[q], Minute)' = Younger(window[q], Minute)
  BY DEF Younger, TokensOf
<1>2. \A a \in 1..Minute : Younger(window[q], a)' = Younger(window[q], a)
                           /\ Younger(sent[q], a)' = Younger(sent[q], a)
  BY DEF Younger, TokensOf
<1>3. Budget(q)' = Budget(q)
  BY DEF Budget
<1>4. QED
  BY <1>1, <1>2, <1>3 DEF Accounted

\* The account is kept by every step.
LEMMA AccountStep ==
    ASSUME TypeOK, TypeOK', OldestFirst, \A m \in Models : Accounted(m), [Next]_vars,
           NEW q \in Models
    PROVE  Accounted(q)'
<1> DEFINE W == window[q]
           S == sent[q]
<1>0. /\ W \in Seq(Entries) /\ S \in Seq(Entries) /\ Ordered(W) /\ Accounted(q)
      /\ Minute \in Nat \ {0} /\ Minute \in 1..Minute /\ Minute \in 0..Minute
  BY PacingAssumption DEF TypeOK, OldestFirst
<1>1. SUFFICES ASSUME Ceiling[q] > 0
               PROVE  /\ Younger(window'[q], Minute) <= Budget(q)
                      /\ \A a \in 1..Minute :
                            Younger(sent'[q], a) + Pending(q)' = Younger(window'[q], a)
  BY DEF Accounted
<1>2. /\ Younger(W, Minute) <= Budget(q)
      /\ \A a \in 1..Minute : Younger(S, a) + Pending(q) = Younger(W, a)
  BY <1>0, <1>1 DEF Accounted
<1>3. /\ Pending(q) \in Nat /\ Budget(q) \in Nat
      /\ \A a : Younger(W, a) \in Nat /\ Younger(S, a) \in Nat
  BY <1>0, PendingIsNatural, BudgetIsPositive, YoungerIsNatural
<1>4. \A t \in Threads : tokens[t] \in Nat /\ Reserved(q, tokens[t]) \in Nat
  BY BudgetIsPositive DEF TypeOK
<1>5. \A a \in 1..Minute : Younger(Live(W), a) = Younger(W, a)
  BY <1>0, YoungerLive
<1> HIDE DEF W, S
<1>6. ASSUME window'[q] = W, sent'[q] = S, Pending(q)' = Pending(q)
      PROVE  /\ Younger(window'[q], Minute) <= Budget(q)
             /\ \A a \in 1..Minute :
                   Younger(sent'[q], a) + Pending(q)' = Younger(window'[q], a)
  BY <1>2, <1>6
<1>7. ASSUME NEW t \in Threads, Unpaced(t)
      PROVE  window'[q] = W /\ sent'[q] = S /\ Pending(q)' = Pending(q)
  <2>1. /\ pc[t] # "send" /\ pc'[t] = "send" /\ model' = model /\ tokens' = tokens
        /\ \A u \in Threads \ {t} : pc'[u] = pc[u]
    BY <1>7 DEF Unpaced, Goto, call, TypeOK
  <2>2. model[t] # q
    BY <1>1, <1>7 DEF Unpaced
  <2>3. Pending(q)' = Pending(q) + 0
    BY <2>1, <2>2, PendingGrows
  <2>4. QED
    BY <1>3, <1>7, <2>3 DEF Unpaced, W, S
<1>8. ASSUME NEW t \in Threads, Reserve(t)
      PROVE  /\ Younger(window'[q], Minute) <= Budget(q)
             /\ \A a \in 1..Minute :
                   Younger(sent'[q], a) + Pending(q)' = Younger(window'[q], a)
  <2>1. /\ pc[t] # "send" /\ pc'[t] = "send" /\ model' = model /\ tokens' = tokens
        /\ \A u \in Threads \ {t} : pc'[u] = pc[u]
        /\ sent'[q] = S
    BY <1>8 DEF Reserve, Goto, call, TypeOK, S
  <2>2. CASE model[t] # q
    <3>1. Pending(q)' = Pending(q) + 0
      BY <2>1, <2>2, PendingGrows
    <3>2. window'[q] = W
      BY <1>8, <2>2 DEF Reserve, TypeOK, W
    <3>3. QED
      BY <1>3, <1>6, <2>1, <3>1, <3>2
  <2>3. CASE model[t] = q
    <3>1. PICK n : n = Reserved(q, tokens[t])
      OBVIOUS
    <3>2. n \in Nat /\ n <= Budget(q)
      BY <1>4, <3>1, BudgetIsPositive
    <3>3. Pending(q)' = Pending(q) + n
      BY <2>1, <2>3, <3>1, PendingGrows
    <3>4. window'[q] = Append(Live(W), [age |-> 0, tokens |-> n])
      BY <1>8, <2>3, <3>1 DEF Reserve, TypeOK, W
    <3>5. Live(W) \in Seq(Entries)
      BY <1>0, EntriesStay
    <3>6. \A a \in 1..Minute : Younger(window'[q], a) = Younger(W, a) + n
      <4>1. \A a \in 1..Minute : Younger(window'[q], a) = Younger(Live(W), a) + n
        BY <3>2, <3>4, <3>5, YoungerAppend
      <4>2. QED
        BY <1>5, <4>1
    <3>7. Younger(W, Minute) + n <= Budget(q)
      <4>1. Live(W) = <<>> \/ Total(Live(W)) + n <= Budget(q)
        BY <1>8, <2>3, <3>1 DEF Reserve, Fits, W
      <4>2. Younger(W, Minute) = Total(Live(W))
        BY <1>0, YoungerIsLive
      <4>3. CASE Live(W) = <<>>
        <5>1. Total(Live(W)) = 0
          <6>1. DOMAIN Live(W) = {}
            BY <4>3
          <6>2. QED
            BY <3>5, <6>1, TotalIsNatural, SumOfNone
        <5>2. QED
          BY <3>2, <4>2, <5>1
      <4>4. QED
        BY <4>1, <4>2, <4>3
    <3>8. Younger(window'[q], Minute) <= Budget(q)
      BY <1>0, <3>6, <3>7
    <3>9. \A a \in 1..Minute :
             Younger(sent'[q], a) + Pending(q)' = Younger(window'[q], a)
      BY <1>2, <1>3, <2>1, <3>2, <3>3, <3>6
    <3>10. QED
      BY <3>8, <3>9
  <2>4. QED
    BY <2>2, <2>3
<1>9. ASSUME NEW t \in Threads, Sleep(t)
      PROVE  /\ Younger(window'[q], Minute) <= Budget(q)
             /\ \A a \in 1..Minute :
                   Younger(sent'[q], a) + Pending(q)' = Younger(window'[q], a)
  <2>1. Pending(q)' = Pending(q)
    BY <1>9, PendingStays DEF Sleep, Goto, call, TypeOK
  <2>2. sent'[q] = S
    BY <1>9 DEF Sleep, S
  <2>3. window'[q] = W \/ window'[q] = Live(W)
    BY <1>9 DEF Sleep, TypeOK, W
  <2>4. QED
    BY <1>0, <1>2, <1>5, <1>6, <2>1, <2>2, <2>3
<1>10. ASSUME NEW t \in Threads, Send(t)
      PROVE  /\ Younger(window'[q], Minute) <= Budget(q)
             /\ \A a \in 1..Minute :
                   Younger(sent'[q], a) + Pending(q)' = Younger(window'[q], a)
  <2>1. /\ pc[t] = "send" /\ pc'[t] # "send" /\ model' = model /\ tokens' = tokens
        /\ \A u \in Threads \ {t} : pc'[u] = pc[u]
        /\ window'[q] = W
    BY <1>10 DEF Send, Goto, call, TypeOK, W
  <2>2. Pending(q)' \in Nat
    <3>1. PICK g : g = PendingOf(q)'
      OBVIOUS
    <3>2. \A u \in Threads : g[u] \in Nat
      BY <1>4, <2>1, <3>1 DEF PendingOf
    <3>3. SumFunctionOnSet(g, Threads) \in Nat
      BY <3>2, PacingAssumption, SumIsNatural
    <3>4. QED
      BY <3>1, <3>3 DEF Pending
  <2>3. CASE model[t] # q
    <3>1. Pending(q) = Pending(q)' + 0
      BY <2>1, <2>3, PendingShrinks
    <3>2. sent'[q] = S
      BY <1>10, <2>3 DEF Send, TypeOK, S
    <3>3. QED
      BY <1>6, <2>1, <2>2, <3>1, <3>2
  <2>4. CASE model[t] = q
    <3>1. PICK n : n = Reserved(q, tokens[t])
      OBVIOUS
    <3>2. n \in Nat
      BY <1>4, <3>1
    <3>3. Pending(q) = Pending(q)' + n
      BY <2>1, <2>4, <3>1, PendingShrinks
    <3>4. sent'[q] = Append(S, [age |-> 0, tokens |-> n])
      BY <1>10, <2>4, <3>1 DEF Send, TypeOK, S
    <3>5. \A a \in 1..Minute : Younger(sent'[q], a) = Younger(S, a) + n
      <4>1. S \in Seq(Entries)
        BY <1>0 DEF S
      <4>2. QED
        BY <3>2, <3>4, <4>1, YoungerAppend
    <3>6. QED
      BY <1>2, <1>3, <2>1, <2>2, <3>2, <3>3, <3>5
  <2>5. QED
    BY <2>3, <2>4
<1>11. ASSUME Tick
      PROVE  /\ Younger(window'[q], Minute) <= Budget(q)
             /\ \A a \in 1..Minute :
                   Younger(sent'[q], a) + Pending(q)' = Younger(window'[q], a)
  <2>1. window'[q] = Older(W) /\ sent'[q] = Live(Older(S))
    BY <1>11 DEF Tick, W, S
  <2>2. Pending(q)' = Pending(q)
    BY <1>11, PendingStays DEF Tick, call
  <2>3. Pending(q) = 0
    <3>1. \A t \in Threads : PendingOf(q)[t] = 0
      BY <1>11 DEF Tick, PendingOf
    <3>2. PICK z : z = [t \in Threads |-> 0]
      OBVIOUS
    <3>3. PendingOf(q) = z
      BY <3>1, <3>2 DEF PendingOf
    <3>4. SumFunctionOnSet(z, Threads) = 0
      BY <3>2, PacingAssumption, SumOfZeros
    <3>5. QED
      BY <3>3, <3>4 DEF Pending
  <2>4. ASSUME NEW a \in 1..Minute
        PROVE  /\ a - 1 \in 0..Minute
               /\ Younger(window'[q], a) = Younger(W, a - 1)
               /\ Younger(sent'[q], a) = Younger(S, a - 1)
    <3>1. a - 1 \in 0..(Minute - 1) /\ a - 1 + 1 = a /\ a \in 0..Minute /\ a - 1 \in 0..Minute
      BY <1>0
    <3>2. W \in Seq(Entries) /\ S \in Seq(Entries) /\ Older(S) \in Seq(Entries)
      BY <1>0, EntriesStay DEF W, S
    <3>3. Younger(Older(W), a - 1 + 1) = Younger(W, a - 1)
      BY <3>1, <3>2, YoungerOlder
    <3>4. Younger(Older(S), a - 1 + 1) = Younger(S, a - 1)
      BY <3>1, <3>2, YoungerOlder
    <3>5. Younger(Live(Older(S)), a) = Younger(Older(S), a)
      BY <3>1, <3>2, YoungerLive
    <3>6. QED
      BY <2>1, <3>1, <3>3, <3>4, <3>5
  <2>5. ASSUME NEW a \in 1..Minute
        PROVE  Younger(S, a - 1) + 0 = Younger(W, a - 1)
    <3>1. CASE a = 1
      BY <1>0, <3>1, NoneYounger DEF W, S
    <3>2. CASE a # 1
      <4>1. a - 1 \in 1..Minute
        BY <1>0, <3>2
      <4>2. QED
        BY <1>2, <2>3, <4>1
    <3>3. QED
      BY <3>1, <3>2
  <2>6. Younger(window'[q], Minute) <= Budget(q)
    <3>1. Younger(window'[q], Minute) = Younger(W, Minute - 1)
      BY <1>0, <2>4
    <3>2. Minute - 1 \in Int /\ Minute \in Int /\ Minute - 1 <= Minute
      BY <1>0
    <3>3. Younger(W, Minute - 1) <= Younger(W, Minute)
      BY <1>0, <3>2, YoungerGrows DEF W
    <3>4. QED
      BY <1>2, <1>3, <3>1, <3>3
  <2>7. \A a \in 1..Minute :
           Younger(sent'[q], a) + Pending(q)' = Younger(window'[q], a)
    BY <2>2, <2>3, <2>4, <2>5
  <2>8. QED
    BY <2>6, <2>7
<1>12. ASSUME NEW t \in Threads,
              \/ \E m \in Models, n \in Estimates : Begin(t, m, n)
              \/ Wake(t) \/ End(t) \/ Retry(t)
       PROVE  window'[q] = W /\ sent'[q] = S /\ Pending(q)' = Pending(q)
  <2>1. window'[q] = W /\ sent'[q] = S
    BY <1>12 DEF Begin, Wake, End, Retry, W, S
  <2>2. \A u \in Threads :
          /\ pc'[u] = "send" <=> pc[u] = "send"
          /\ pc[u] = "send" => model'[u] = model[u] /\ tokens'[u] = tokens[u]
    <3> USE DEF Goto, call, TypeOK
    <3>1. CASE \E m \in Models, n \in Estimates : Begin(t, m, n)
      BY <3>1 DEF Begin
    <3>2. CASE Wake(t) \/ Retry(t)
      BY <3>2 DEF Wake, Retry
    <3>3. CASE End(t)
      BY <3>3 DEF End
    <3>4. QED
      BY <1>12, <3>1, <3>2, <3>3
  <2>3. QED
    BY <2>1, <2>2, PendingStays
<1>13. ASSUME UNCHANGED vars
       PROVE  window'[q] = W /\ sent'[q] = S /\ Pending(q)' = Pending(q)
  BY <1>13, PendingStays DEF vars, W, S
<1>14. QED
  BY <1>6, <1>7, <1>8, <1>9, <1>10, <1>11, <1>12, <1>13 DEF Next, Step

\* Whoever is held back stays so until it is due.
LEMMA HeldBackStep ==
    ASSUME TypeOK, TypeOK', OldestFirst, \A u \in Threads : HeldBack(u), [Next]_vars,
           NEW t \in Threads
    PROVE  HeldBack(t)'
<1> DEFINE m == model[t]
           W == window[m]
           Held(w, l) == l > 0 => Younger(w, Minute - l + 1)
                                    + Reserved(m, tokens[t]) > Budget(m)
<1>1. SUFFICES ASSUME pc'[t] = "asleep"
               PROVE  /\ Ceiling[model'[t]] > 0
                      /\ left'[t] > 0 =>
                            Younger(window'[model'[t]], Minute - left'[t] + 1)
                                + Reserved(model'[t], tokens'[t]) > Budget(model'[t])
  BY DEF HeldBack
<1>2. /\ Minute \in Nat \ {0} /\ tokens[t] \in Nat
      /\ left[t] \in Int /\ 0 <= left[t] /\ left[t] <= Minute
  BY PacingAssumption DEF TypeOK
<1>3. CASE pc[t] = "asleep"
  <2>1. m \in Models /\ W \in Seq(Entries)
    BY <1>3 DEF TypeOK
  <2>2. Ceiling[m] > 0 /\ Held(W, left[t])
    BY <1>3 DEF HeldBack
  <2>3. model'[t] = m /\ tokens'[t] = tokens[t]
    <3> USE <1>1, <1>3 DEF TypeOK, call, Goto
    <3>1. ASSUME NEW u \in Threads, NEW o \in Models, NEW n \in Estimates, Begin(u, o, n)
          PROVE  model'[t] = m /\ tokens'[t] = tokens[t]
      BY <3>1 DEF Begin
    <3>2. ASSUME NEW u \in Threads, Unpaced(u) \/ Wake(u) \/ Send(u) \/ Retry(u)
          PROVE  model'[t] = m /\ tokens'[t] = tokens[t]
      BY <3>2 DEF Unpaced, Wake, Send, Retry
    <3>3. ASSUME NEW u \in Threads, Reserve(u) \/ Sleep(u)
          PROVE  model'[t] = m /\ tokens'[t] = tokens[t]
      BY <3>3 DEF Reserve, Sleep
    <3>4. ASSUME NEW u \in Threads, End(u)
          PROVE  model'[t] = m /\ tokens'[t] = tokens[t]
      BY <3>4 DEF End
    <3>5. CASE Tick \/ UNCHANGED vars
      BY <3>5 DEF Tick, vars
    <3>6. QED
      BY <3>1, <3>2, <3>3, <3>4, <3>5 DEF Next, Step
  <2>4. SUFFICES Held(window'[m], left'[t])
    BY <2>2, <2>3
  <2>5. /\ Reserved(m, tokens[t]) \in Nat /\ Budget(m) \in Nat
        /\ \A a : Younger(W, a) \in Nat
    BY <1>2, <2>1, BudgetIsPositive, YoungerIsNatural
  <2>6. ASSUME window'[m] \in {W, Live(W)}, left'[t] = left[t]
        PROVE  Held(window'[m], left'[t])
    <3>1. SUFFICES ASSUME left[t] > 0
                   PROVE  Younger(window'[m], Minute - left[t] + 1)
                            + Reserved(m, tokens[t]) > Budget(m)
      BY <2>6
    <3>2. Minute - left[t] + 1 \in 0..Minute
      BY <1>2, <3>1
    <3>3. Younger(Live(W), Minute - left[t] + 1) = Younger(W, Minute - left[t] + 1)
      BY <2>1, <3>2, YoungerLive
    <3> HIDE DEF W, m
    <3>4. QED
      BY <2>2, <2>6, <3>1, <3>3
  <2>7. ASSUME NEW u \in Threads,
               \/ \E o \in Models, n \in Estimates : Begin(u, o, n)
               \/ Unpaced(u) \/ Wake(u) \/ Send(u) \/ End(u) \/ Retry(u)
        PROVE  window'[m] \in {W, Live(W)} /\ left'[t] = left[t]
    BY <2>7 DEF Begin, Unpaced, Wake, Send, End, Retry
  <2>8. ASSUME NEW u \in Threads, Sleep(u)
        PROVE  window'[m] \in {W, Live(W)} /\ left'[t] = left[t]
    <3>1. u # t
      BY <1>3, <2>8 DEF Sleep
    <3>2. QED
      BY <2>1, <2>8, <3>1 DEF Sleep, TypeOK
  <2>9. ASSUME NEW u \in Threads, Reserve(u)
        PROVE  Held(window'[m], left'[t])
    <3>1. left'[t] = left[t]
      BY <2>9 DEF Reserve
    <3>2. CASE model[u] # m
      <4>1. window'[m] = W
        BY <2>1, <2>9, <3>2 DEF Reserve, TypeOK
      <4>2. QED
        BY <2>6, <3>1, <4>1
    <3>3. CASE model[u] = m
      <4>1. PICK n : n = Reserved(m, tokens[u])
        OBVIOUS
      <4>2. n \in Nat
        BY <2>1, <4>1, BudgetIsPositive DEF TypeOK
      <4>3. window'[m] = Append(Live(W), [age |-> 0, tokens |-> n])
        BY <2>1, <2>9, <3>3, <4>1 DEF Reserve, TypeOK
      <4>4. SUFFICES ASSUME left[t] > 0
                     PROVE  Younger(window'[m], Minute - left[t] + 1)
                              + Reserved(m, tokens[t]) > Budget(m)
        BY <3>1
      <4>5. Minute - left[t] + 1 \in 0..Minute /\ Minute - left[t] + 1 \in 1..Minute
        BY <1>2, <4>4
      <4>6. Live(W) \in Seq(Entries)
        BY <2>1, EntriesStay
      <4>7. Younger(window'[m], Minute - left[t] + 1)
              = Younger(Live(W), Minute - left[t] + 1) + n
        BY <4>2, <4>3, <4>5, <4>6, YoungerAppend
      <4>8. Younger(Live(W), Minute - left[t] + 1) = Younger(W, Minute - left[t] + 1)
        BY <2>1, <4>5, YoungerLive
      <4>9. Younger(W, Minute - left[t] + 1) + Reserved(m, tokens[t]) > Budget(m)
        BY <2>2, <4>4
      <4> HIDE DEF W, m
      <4>10. QED
        BY <2>5, <4>2, <4>7, <4>8, <4>9
    <3>4. QED
      BY <3>2, <3>3
  <2>10. ASSUME Tick
         PROVE  Held(window'[m], left'[t])
    <3>1. window'[m] = Older(W) /\ left'[t] = IF left[t] > 0 THEN left[t] - 1 ELSE 0
      BY <2>1, <2>10 DEF Tick
    <3>2. SUFFICES ASSUME left'[t] > 0
                   PROVE  Younger(Older(W), Minute - left'[t] + 1)
                            + Reserved(m, tokens[t]) > Budget(m)
      BY <3>1
    <3>3. /\ left[t] > 0 /\ Minute - left[t] + 1 \in 0..(Minute - 1)
          /\ Minute - left'[t] + 1 = (Minute - left[t] + 1) + 1
      BY <1>2, <3>1, <3>2
    <3>4. Younger(Older(W), (Minute - left[t] + 1) + 1) = Younger(W, Minute - left[t] + 1)
      BY <2>1, <3>3, YoungerOlder
    <3>5. Younger(Older(W), Minute - left'[t] + 1) = Younger(W, Minute - left[t] + 1)
      BY <3>3, <3>4
    <3> HIDE DEF W, m
    <3>6. QED
      BY <2>2, <3>3, <3>5
  <2>11. ASSUME UNCHANGED vars
         PROVE  window'[m] \in {W, Live(W)} /\ left'[t] = left[t]
    BY <2>11 DEF vars
  <2> HIDE DEF W, m, Held
  <2>12. QED
    BY <2>6, <2>7, <2>8, <2>9, <2>10, <2>11 DEF Next, Step
<1>4. CASE pc[t] # "asleep"
  <2>1. Sleep(t)
    <3> USE <1>1, <1>4 DEF TypeOK, call, Goto
    <3>1. ~\E u \in Threads, o \in Models, n \in Estimates : Begin(u, o, n)
      BY DEF Begin
    <3>2. ~\E u \in Threads : Unpaced(u) \/ Reserve(u)
      BY DEF Unpaced, Reserve
    <3>3. ~\E u \in Threads : Wake(u) \/ Send(u)
      BY DEF Wake, Send
    <3>4. ~\E u \in Threads : End(u) \/ Retry(u)
      BY DEF End, Retry
    <3>5. ~Tick /\ ~UNCHANGED vars
      BY DEF Tick, vars
    <3>6. \A u \in Threads : Sleep(u) => u = t
      BY DEF Sleep
    <3>7. QED
      BY <3>1, <3>2, <3>3, <3>4, <3>5, <3>6 DEF Next, Step
  <2>2. PICK l : l = Live(W)
    OBVIOUS
  <2>3. m \in Models /\ W \in Seq(Entries) /\ Ordered(W) /\ Ceiling[m] > 0
    BY <2>1 DEF Sleep, TypeOK, OldestFirst
  <2>4. /\ model'[t] = m /\ tokens'[t] = tokens[t] /\ window'[m] = l
        /\ left'[t] = Minute - Head(l).age
    BY <2>1, <2>2, <2>3 DEF Sleep, call, TypeOK
  <2>5. l # <<>> /\ ~ (Total(l) + Reserved(m, tokens[t]) <= Budget(m))
    BY <2>1, <2>2 DEF Sleep, Fits
  <2>6. /\ l \in Seq(Entries) /\ Ordered(l)
        /\ \A i \in DOMAIN l : l[i].age < Minute
    BY <2>2, <2>3, EntriesStay, LiveIsOrdered
  <2>7. 1 \in DOMAIN l /\ Head(l) = l[1] /\ \A i \in DOMAIN l : i = 1 \/ 1 < i
    BY <2>5, <2>6
  <2>8. /\ l[1].age \in Int /\ \A i \in DOMAIN l : l[i].age \in Int
    BY <2>6, <2>7, AgesAreNumbers
  <2>9. \A i \in DOMAIN l : l[i].age < l[1].age + 1
    BY <2>6, <2>7, <2>8 DEF Ordered
  <2>10. Minute - left'[t] + 1 = l[1].age + 1 /\ l[1].age + 1 \in Int
    BY <1>2, <2>4, <2>7, <2>8
  <2>11. Younger(l, l[1].age + 1) = Total(l)
    BY <2>6, <2>9, <2>10, YoungerIsPart
  <2>12. Total(l) \in Nat /\ Reserved(m, tokens[t]) \in Nat /\ Budget(m) \in Nat
    BY <1>2, <2>3, <2>6, TotalIsNatural, BudgetIsPositive
  <2>13. Younger(l, Minute - left'[t] + 1) = Total(l)
    BY <2>10, <2>11
  <2> HIDE DEF W, m
  <2>14. QED
    BY <2>3, <2>4, <2>5, <2>12, <2>13
<1>5. QED
  BY <1>3, <1>4

\* Nothing is reserved, sent or waited for at first.
LEMMA PacerInvInit == Init => PacerInv
<1> SUFFICES ASSUME Init PROVE PacerInv
  OBVIOUS
<1>1. TypeOK
  BY PacerTypesInit
<1>2. OldestFirst
  BY DEF Init, OldestFirst, Ordered
<1>3. ASSUME NEW q \in Models PROVE Accounted(q)
  <2>1. \A a : Younger(<<>>, a) = 0
    <3>1. \A a : { i \in DOMAIN <<>> : <<>>[i].age < a } = {}
      OBVIOUS
    <3>2. QED
      BY <3>1, SumOfNone DEF Younger
  <2>2. window[q] = <<>> /\ sent[q] = <<>>
    BY DEF Init
  <2>3. Pending(q) = 0
    <3>1. PICK z : z = PendingOf(q)
      OBVIOUS
    <3>2. \A t \in Threads : z[t] = 0
      BY <3>1 DEF Init, PendingOf
    <3>3. SumFunctionOnSet(z, Threads) = 0
      BY <3>2, PacingAssumption, SumOfZeros
    <3>4. QED
      BY <3>1, <3>3 DEF Pending
  <2>4. Budget(q) \in Nat
    BY BudgetIsPositive
  <2>5. QED
    BY <2>1, <2>2, <2>3, <2>4 DEF Accounted
<1>4. \A t \in Threads : HeldBack(t)
  BY DEF Init, HeldBack
<1>5. QED
  BY <1>1, <1>2, <1>3, <1>4 DEF PacerInv

\* Every step keeps the invariant.
LEMMA PacerInvStep == PacerInv /\ [Next]_vars => PacerInv'
<1> SUFFICES ASSUME PacerInv, [Next]_vars PROVE PacerInv'
  OBVIOUS
<1>1. TypeOK'
  BY PacerTypesStep DEF PacerInv
<1>2. OldestFirst'
  BY OldestFirstStep DEF PacerInv
<1>3. \A q \in Models : Accounted(q)'
  BY <1>1, AccountStep DEF PacerInv
<1>4. \A t \in Threads : HeldBack(t)'
  BY <1>1, HeldBackStep DEF PacerInv
<1>5. QED
  BY <1>1, <1>2, <1>3, <1>4 DEF PacerInv

\* So every reachable state has it.
LEMMA PacerInvHolds == Spec => []PacerInv
BY PacerInvInit, PacerInvStep, PTL DEF Spec

\* Every variable of the pacing has its type, for any threads, models, ceilings
\* and sizes.
THEOREM PacerTypes == Spec => []TypeOK
<1>1. PacerInv => TypeOK
  BY DEF PacerInv
<1>2. QED
  BY <1>1, PacerInvHolds, PTL

\* No minute sees more sent to a model than its budget, retries included, however
\* many threads share its window (_throttle under the attempts of complete).
THEOREM SentStaysWithinBudget == Spec => []SentWithinBudget
<1>1. PacerInv => SentWithinBudget
  <2> SUFFICES ASSUME PacerInv, NEW m \in Models, Ceiling[m] > 0
               PROVE  Total(sent[m]) <= Budget(m)
    BY DEF SentWithinBudget
  <2>1. Minute \in 1..Minute /\ Minute \in Int
    BY PacingAssumption
  <2>2. sent[m] \in Seq(Entries) /\ window[m] \in Seq(Entries)
    BY DEF PacerInv, TypeOK
  <2>3. Younger(sent[m], Minute) = Total(sent[m])
    BY <2>1, <2>2, YoungerIsPart DEF PacerInv, OldestFirst
  <2>4. /\ Younger(window[m], Minute) <= Budget(m)
        /\ Younger(sent[m], Minute) + Pending(m) = Younger(window[m], Minute)
    BY <2>1 DEF PacerInv, Accounted
  <2>5. /\ Pending(m) \in Nat /\ Budget(m) \in Nat
        /\ Younger(window[m], Minute) \in Nat /\ Total(sent[m]) \in Nat
    BY <2>2, PendingIsNatural, BudgetIsPositive, YoungerIsNatural, TotalIsNatural DEF PacerInv
  <2>6. QED
    BY <2>3, <2>4, <2>5
<1>2. QED
  BY <1>1, PacerInvHolds, PTL

\* Until a sleeper is due its request does not fit, whatever the other threads
\* reserve, pop or send meanwhile (the wait that _throttle computes under its lock
\* and spends after releasing it).
THEOREM NobodySleepsInVain == Spec => []SleepsForAReason
<1>1. PacerInv => SleepsForAReason
  <2> SUFFICES ASSUME PacerInv, NEW t \in Threads, pc[t] = "asleep", left[t] > 0
               PROVE  ~ Fits(model[t], tokens[t])
    BY DEF SleepsForAReason
  <2>1. PICK m \in Models : m = model[t]
    BY DEF PacerInv, TypeOK
  <2>2. window[m] \in Seq(Entries) /\ tokens[t] \in Nat /\ Minute \in Nat
        /\ left[t] \in Int /\ left[t] <= Minute
    BY PacingAssumption DEF PacerInv, TypeOK
  <2>3. PICK l : l = Live(window[m])
    OBVIOUS
  <2>4. PICK a : a = Minute - left[t] + 1
    OBVIOUS
  <2>5. a \in 0..Minute /\ a \in Int
    BY <2>2, <2>4
  <2>6. Younger(window[m], a) + Reserved(m, tokens[t]) > Budget(m)
    BY <2>1, <2>4 DEF PacerInv, HeldBack
  <2>7. l \in Seq(Entries)
    BY <2>2, <2>3, EntriesStay
  <2>8. Younger(window[m], a) <= Total(l)
    <3>1. Younger(l, a) = Younger(window[m], a)
      BY <2>2, <2>3, <2>5, YoungerLive
    <3>2. Younger(l, a) <= Total(l)
      BY <2>5, <2>7, YoungerIsPart
    <3>3. QED
      BY <3>1, <3>2
  <2>9. /\ Total(l) \in Nat /\ Younger(window[m], a) \in Nat
        /\ Budget(m) \in Nat /\ Reserved(m, tokens[t]) \in Nat
        /\ Reserved(m, tokens[t]) <= Budget(m)
    BY <2>2, <2>7, TotalIsNatural, YoungerIsNatural, BudgetIsPositive
  <2>10. ~ (Total(l) + Reserved(m, tokens[t]) <= Budget(m))
    BY <2>6, <2>8, <2>9
  <2>11. l # <<>>
    <3>1. SUFFICES ASSUME l = <<>> PROVE FALSE
      OBVIOUS
    <3>2. DOMAIN l = {}
      BY <3>1
    <3>3. Total(l) = 0
      BY <2>7, <3>2, TotalIsNatural, SumOfNone
    <3>4. QED
      BY <2>9, <2>10, <3>3
  <2>12. QED
    BY <2>1, <2>3, <2>10, <2>11 DEF Fits
<1>2. QED
  BY <1>1, PacerInvHolds, PTL

-----------------------------------------------------------------------------
(* Bounds of sums, and fractions.                                          *)

\* As many times the same number.
LEMMA SumOfSame ==
    ASSUME NEW S, IsFiniteSet(S), NEW c \in Int, NEW z, \A x \in S : z[x] = c
    PROVE  SumFunctionOnSet(z, S) = c * Cardinality(S)
<1> DEFINE P == { T \in SUBSET S : SumFunctionOnSet(z, T) = c * Cardinality(T) }
<1>1. {} \in P
  BY SumOfNone, FS_EmptySet
<1>2. ASSUME NEW T \in SUBSET S, T # {}, \A x \in T : T \ {x} \in P
      PROVE  T \in P
  <2>1. IsFiniteSet(T) /\ \A x \in T : z[x] \in Int /\ z[x] = c
    BY FS_Subset
  <2>2. PICK x \in T : SumFunctionOnSet(z, T) = z[x] + SumFunctionOnSet(z, T \ {x})
    BY <1>2, <2>1, SumByAny
  <2>3. Cardinality(T) \in Nat /\ Cardinality(T \ {x}) = Cardinality(T) - 1
    BY <2>1, FS_RemoveElement, FS_CardinalityType
  <2>4. SumFunctionOnSet(z, T \ {x}) = c * (Cardinality(T) - 1)
    BY <1>2, <2>3
  <2>5. SumFunctionOnSet(z, T) = c + c * (Cardinality(T) - 1)
    BY <2>1, <2>2, <2>4
  <2>6. c + c * (Cardinality(T) - 1) = c * Cardinality(T)
    BY <2>3
  <2>7. QED
    BY <2>5, <2>6
<1>3. SUBSET S \subseteq P
  <2> HIDE DEF P
  <2>1. QED
    BY <1>1, <1>2, SubsetInduction
<1>4. QED
  BY <1>3

\* A sum lies between its size times a lower and an upper bound of its values.
LEMMA SumBounds ==
    ASSUME NEW S, IsFiniteSet(S), NEW f, NEW c \in Int, \A x \in S : f[x] \in Int
    PROVE  /\ (\A x \in S : f[x] <= c) => SumFunctionOnSet(f, S) <= c * Cardinality(S)
           /\ (\A x \in S : c <= f[x]) => c * Cardinality(S) <= SumFunctionOnSet(f, S)
<1>1. PICK z : z = [x \in S |-> c]
  OBVIOUS
<1>2. \A x \in S : z[x] = c /\ z[x] \in Int
  BY <1>1
<1>3. SumFunctionOnSet(z, S) = c * Cardinality(S)
  BY <1>2, SumOfSame
<1>4. (\A x \in S : f[x] <= c) => SumFunctionOnSet(f, S) <= SumFunctionOnSet(z, S)
  <2>1. ASSUME \A x \in S : f[x] <= c
        PROVE  \A x \in S : f[x] \in Int /\ z[x] \in Int /\ f[x] <= z[x]
    BY <1>2, <2>1
  <2>2. QED
    BY <2>1, SumMonotone
<1>5. (\A x \in S : c <= f[x]) => SumFunctionOnSet(z, S) <= SumFunctionOnSet(f, S)
  <2>1. ASSUME \A x \in S : c <= f[x]
        PROVE  \A x \in S : z[x] \in Int /\ f[x] \in Int /\ z[x] <= f[x]
    BY <1>2, <2>1
  <2>2. QED
    BY <2>1, SumMonotone
<1>6. QED
  BY <1>3, <1>4, <1>5

\* What a quotient is.
LEMMA Quotient ==
    ASSUME NEW a \in Nat, NEW d \in Nat \ {0}
    PROVE  /\ a \div d \in Nat
           /\ d * (a \div d) <= a /\ a < d * (a \div d) + d
BY Z3

\* A number is the quotient when it is between.
LEMMA QuotientIs ==
    ASSUME NEW a \in Nat, NEW d \in Nat \ {0}, NEW x \in Nat,
           d * x <= a, a < d * x + d
    PROVE  a \div d = x
<1>1. PICK y \in Nat : y = a \div d
  BY Quotient
<1>2. d * y <= a /\ a < d * y + d
  BY <1>1, Quotient
<1>3. ~ (x < y)
  <2>1. SUFFICES ASSUME x + 1 <= y PROVE FALSE
    OBVIOUS
  <2>2. d * (x + 1) <= d * y
    BY <2>1
  <2>3. d * (x + 1) = d * x + d
    OBVIOUS
  <2>4. QED
    BY <1>2, <2>2, <2>3
<1>4. ~ (y < x)
  <2>1. SUFFICES ASSUME y + 1 <= x PROVE FALSE
    OBVIOUS
  <2>2. d * (y + 1) <= d * x
    BY <2>1
  <2>3. d * (y + 1) = d * y + d
    OBVIOUS
  <2>4. QED
    BY <1>2, <2>2, <2>3
<1>5. QED
  BY <1>1, <1>3, <1>4

\* A quotient grows with what is divided.
LEMMA QuotientGrows ==
    ASSUME NEW a \in Nat, NEW b \in Nat, NEW d \in Nat \ {0}, a <= b
    PROVE  a \div d <= b \div d
<1>1. PICK x \in Nat, y \in Nat : x = a \div d /\ y = b \div d
  BY Quotient
<1>2. d * x <= a /\ b < d * y + d
  BY <1>1, Quotient
<1>3. SUFFICES ASSUME y + 1 <= x PROVE FALSE
  BY <1>1
<1>4. d * (y + 1) <= d * x
  BY <1>3
<1>5. d * (y + 1) = d * y + d
  OBVIOUS
<1>6. QED
  BY <1>2, <1>4, <1>5

\* A fraction of a divisor of One is exact.
LEMMA ExactFraction ==
    ASSUME NEW c \in Nat, NEW d \in Nat \ {0}, One % d = 0
    PROVE  Fraction(c, d) \in Nat /\ Fraction(c, d) * d = c * One
<1>1. One \in Nat \ {0}
  BY FractionAssumption
<1>2. PICK e \in Nat : One = d * e
  <2>1. One = d * (One \div d) + (One % d)
    BY <1>1, Z3
  <2>2. One \div d \in Nat
    BY <1>1, Quotient
  <2>3. PICK e \in Nat : e = One \div d
    BY <2>2
  <2>4. QED
    BY <1>1, <2>1, <2>3
<1>3. c * One = d * (c * e) /\ c * e \in Nat /\ c * One \in Nat
  BY <1>1, <1>2
<1>4. Fraction(c, d) = c * e
  BY <1>3, QuotientIs DEF Fraction
<1>5. QED
  BY <1>3, <1>4

-----------------------------------------------------------------------------
(* The metrics of one question.                                            *)

\* The ranks of the first k results that are labelled.
Hits(r, labels, k) == { i \in 1..Smaller(k, Len(r)) : r[i] \in labels }

\* Every result is at one rank only.
Repeatless(r) == \A i, j \in DOMAIN r : r[i] = r[j] => i = j

\* What is scored at a cut-off are the first results of the store's whole order,
\* since no cut-off is beyond the depth that was fetched.
LEMMA ScoredArePrefix ==
    ASSUME NEW X, NEW r \in Seq(X), NEW labels, NEW k \in 1..Depth
    PROVE  /\ RelevantRanks(Retrieve(r), labels, k) = Hits(r, labels, k)
           /\ Found(Retrieve(r), labels, k) = { r[i] : i \in Hits(r, labels, k) }
<1>1. PICK n \in Nat : n = Len(r) /\ DOMAIN r = 1..n
  OBVIOUS
<1>2. Depth \in Nat \ {0} /\ k \in Nat /\ 1 <= k /\ k <= Depth
  BY DepthAssumption
<1>3. PICK d \in Nat : d = Smaller(Depth, n) /\ d <= n
  BY <1>1, <1>2 DEF Smaller
<1>4. PICK h : h = Retrieve(r)
  OBVIOUS
<1>5. h = SubSeq(r, 1, d)
  BY <1>1, <1>3, <1>4 DEF Retrieve, TopK
<1>6. h \in Seq(X) /\ Len(h) = d /\ \A i \in 1..d : h[i] = r[i]
  BY <1>1, <1>3, <1>5
<1>7. PICK m \in Nat : m = Smaller(k, n) /\ m = Smaller(k, d) /\ m <= d
  BY <1>1, <1>2, <1>3 DEF Smaller
<1>8. PICK p : p = TopK(h, k)
  OBVIOUS
<1>9. p = SubSeq(h, 1, m)
  BY <1>6, <1>7, <1>8 DEF TopK
<1>10. DOMAIN p = 1..m /\ \A i \in 1..m : p[i] = r[i] /\ h[i] = r[i]
  BY <1>3, <1>6, <1>7, <1>9
<1>11. Hits(r, labels, k) = { i \in 1..m : r[i] \in labels }
  BY <1>1, <1>7 DEF Hits
<1>12. RelevantRanks(h, labels, k) = { i \in 1..m : r[i] \in labels }
  BY <1>8, <1>10 DEF RelevantRanks
<1>13. Found(h, labels, k) = { r[i] : i \in Hits(r, labels, k) }
  <2>1. ToSet(p) = { r[i] : i \in 1..m }
    BY <1>10 DEF ToSet
  <2>2. Found(h, labels, k) = { r[i] : i \in 1..m } \cap labels
    BY <1>8, <2>1 DEF Found
  <2>3. QED
    BY <1>11, <2>2
<1>14. QED
  BY <1>4, <1>11, <1>12, <1>13

\* How many are found, and what limits it.
LEMMA HitsCount ==
    ASSUME NEW X, NEW r \in Seq(X), Repeatless(r), NEW labels, NEW k \in 1..Depth
    PROVE  /\ Hits(r, labels, k) \in SUBSET (1..k)
           /\ Hits(r, labels, k) \in SUBSET DOMAIN r
           /\ IsFiniteSet(Hits(r, labels, k))
           /\ Cardinality(Hits(r, labels, k)) \in Nat
           /\ Cardinality(Hits(r, labels, k)) <= k
           /\ Cardinality({ r[i] : i \in Hits(r, labels, k) }) = Cardinality(Hits(r, labels, k))
           /\ IsFiniteSet(labels) => Cardinality(Hits(r, labels, k)) <= Cardinality(labels)
<1>1. PICK H : H = Hits(r, labels, k)
  OBVIOUS
<1>2. k \in Nat /\ Len(r) \in Nat /\ DOMAIN r = 1..Len(r)
  BY DepthAssumption
<1>3. H \in SUBSET (1..k) /\ H \in SUBSET DOMAIN r
  BY <1>1, <1>2 DEF Hits, Smaller
<1>4. IsFiniteSet(1..k) /\ Cardinality(1..k) = k
  BY <1>2, FS_Interval
<1>5. IsFiniteSet(H) /\ Cardinality(H) \in Nat /\ Cardinality(H) <= k
  BY <1>3, <1>4, FS_Subset, FS_CardinalityType
<1>6. \A x, y \in H : r[x] = r[y] => x = y
  BY <1>3 DEF Repeatless
<1>7. Cardinality({ r[i] : i \in H }) = Cardinality(H)
  BY <1>5, <1>6, ImageCounts
<1>8. ASSUME IsFiniteSet(labels) PROVE Cardinality(H) <= Cardinality(labels)
  <2>1. { r[i] : i \in H } \in SUBSET labels
    BY <1>1 DEF Hits
  <2>2. QED
    BY <1>7, <1>8, <2>1, FS_Subset
<1>9. QED
  BY <1>1, <1>3, <1>5, <1>7, <1>8

\* Looking further keeps what was found, and adds what comes later only.
LEMMA HitsGrow ==
    ASSUME NEW X, NEW r \in Seq(X), NEW labels,
           NEW k \in 1..Depth, NEW l \in 1..Depth, k <= l
    PROVE  /\ Hits(r, labels, k) \in SUBSET Hits(r, labels, l)
           /\ \A i \in Hits(r, labels, l) : i \in Hits(r, labels, k) \/ k < i
<1>1. k \in Nat /\ l \in Nat /\ Len(r) \in Nat
  BY DepthAssumption
<1>2. QED
  BY <1>1 DEF Hits, Smaller

\* The smallest of a set of naturals.
LEMMA MinIsLeast ==
    ASSUME NEW S \in SUBSET Nat, S # {}
    PROVE  Min(S) \in S /\ \A x \in S : Min(S) <= x
BY LeastNatural DEF Min

-----------------------------------------------------------------------------
(* Gains.                                                                  *)

\* What a rank counts.
LEMMA Discounts ==
    /\ Depth \in Nat \ {0} /\ One \in Nat \ {0}
    /\ \A i \in 1..Depth :
          Discount[i] \in Nat /\ Depth <= Discount[i] /\ Discount[i] <= One
    /\ \A i, j \in 1..Depth : i < j => Discount[j] < Discount[i]
<1>1. Depth \in Nat \ {0} /\ One \in Nat \ {0} /\ Discount \in [1..Depth -> Depth..One]
  BY DepthAssumption, FractionAssumption
<1>2. \A i \in 1..Depth : Discount[i] \in Depth..One
  BY <1>1
<1>3. QED
  BY <1>1, <1>2, FractionAssumption

\* A part of the ranks has a gain.
LEMMA GainIsNatural ==
    ASSUME NEW H \in SUBSET (1..Depth)
    PROVE  /\ IsFiniteSet(H) /\ Cardinality(H) \in Nat /\ Gain(H) \in Nat
           /\ Gain(H) <= One * Cardinality(H)
           /\ H # {} => Depth <= Gain(H)
<1>1. IsFiniteSet(H) /\ Cardinality(H) \in Nat
  <2>1. IsFiniteSet(1..Depth)
    BY DepthAssumption, FS_Interval
  <2>2. QED
    BY <2>1, FS_Subset, FS_CardinalityType
<1>2. \A i \in H : Discount[i] \in Nat /\ Discount[i] \in Int
                    /\ Depth <= Discount[i] /\ Discount[i] <= One
  BY Discounts
<1>3. Gain(H) \in Nat
  BY <1>1, <1>2, SumIsNatural DEF Gain
<1>4. One \in Int /\ Depth \in Nat \ {0}
  BY Discounts
<1>5. Gain(H) <= One * Cardinality(H)
  BY <1>1, <1>2, <1>4, SumBounds DEF Gain
<1>6. ASSUME H # {} PROVE Depth <= Gain(H)
  <2>1. PICK i \in H : TRUE
    BY <1>6
  <2>2. Gain(H) = Discount[i] + SumFunctionOnSet(Discount, H \ {i})
    BY <1>1, <1>2, SumByAny DEF Gain
  <2>3. SumFunctionOnSet(Discount, H \ {i}) \in Nat
    BY <1>1, <1>2, FS_Subset, SumIsNatural
  <2>4. QED
    BY <1>2, <1>4, <2>2, <2>3
<1>7. QED
  BY <1>1, <1>3, <1>5, <1>6

\* The first m ranks gain more than any others of which there are no more.
LEMMA FirstRanksGainMost ==
    ASSUME NEW m \in 1..Depth, NEW H \in SUBSET (1..Depth), Cardinality(H) <= m,
           H # 1..m
    PROVE  Gain(H) < Gain(1..m)
<1>1. PICK A : A = 1..m
  OBVIOUS
<1>2. m \in Nat /\ 1 <= m /\ m <= Depth /\ Depth \in Nat
  BY DepthAssumption
<1>3. A \in SUBSET (1..Depth) /\ Cardinality(A) = m
  BY <1>1, <1>2, FS_Interval
<1>4. IsFiniteSet(A) /\ IsFiniteSet(H) /\ Cardinality(H) \in Nat
  BY <1>3, GainIsNatural
<1>5. PICK c \in Nat : c = Discount[m] /\ 1 <= c
  BY <1>2, Discounts
<1>6. /\ \A i \in A : Discount[i] \in Int /\ c <= Discount[i]
      /\ \A i \in H : Discount[i] \in Int
      /\ \A i \in H \ A : Discount[i] <= c - 1
  <2>1. ASSUME NEW i \in A PROVE Discount[i] \in Int /\ c <= Discount[i]
    <3>1. i \in 1..Depth /\ (i = m \/ i < m)
      BY <1>1, <1>2, <1>3
    <3>2. QED
      BY <1>5, <3>1, Discounts
  <2>2. ASSUME NEW i \in H \ A PROVE Discount[i] <= c - 1
    <3>1. i \in 1..Depth /\ m < i
      BY <1>1, <1>2
    <3>2. Discount[i] < c /\ Discount[i] \in Int
      BY <1>5, <3>1, Discounts
    <3>3. QED
      BY <3>2
  <2>3. \A i \in H : Discount[i] \in Int
    BY Discounts
  <2>4. QED
    BY <2>1, <2>2, <2>3
<1>7. /\ IsFiniteSet(A \ H) /\ IsFiniteSet(H \ A) /\ IsFiniteSet(A \cap H)
      /\ Cardinality(A \ H) = m - Cardinality(A \cap H)
      /\ Cardinality(H \ A) = Cardinality(H) - Cardinality(A \cap H)
      /\ Cardinality(A \ H) \in Nat /\ Cardinality(H \ A) \in Nat
      /\ Cardinality(A \cap H) \in Nat
  <2>1. H \cap A = A \cap H
    OBVIOUS
  <2>2. Cardinality(H \cap A) = Cardinality(A \cap H)
    BY <2>1, Zenon
  <2>3. IsFiniteSet(A \ H) /\ IsFiniteSet(H \ A) /\ IsFiniteSet(A \cap H)
    BY <1>4, FS_Subset
  <2>4. /\ Cardinality(A \ H) = Cardinality(A) - Cardinality(A \cap H)
        /\ Cardinality(H \ A) = Cardinality(H) - Cardinality(H \cap A)
    BY <1>4, FS_Difference
  <2>5. QED
    BY <1>3, <2>2, <2>3, <2>4, FS_CardinalityType
<1>8. Cardinality(H \ A) <= Cardinality(A \ H)
  BY <1>2, <1>4, <1>7
<1>9. A \ H # {}
  <2>1. SUFFICES ASSUME A \in SUBSET H PROVE FALSE
    OBVIOUS
  <2>2. Cardinality(A) <= Cardinality(H) /\ (Cardinality(H) = Cardinality(A) => H = A)
    BY <1>4, <2>1, FS_Subset
  <2>3. QED
    BY <1>1, <1>2, <1>3, <1>4, <2>2
<1>10. 1 <= Cardinality(A \ H)
  BY <1>7, <1>9, FS_EmptySet
<1>11. SumFunctionOnSet(Discount, H \ A) <= (c - 1) * Cardinality(H \ A)
  <2>1. c - 1 \in Int /\ \A i \in H \ A : Discount[i] \in Int
    BY <1>5, <1>6
  <2>2. QED
    BY <1>6, <1>7, <2>1, SumBounds
<1>12. c * Cardinality(A \ H) <= SumFunctionOnSet(Discount, A \ H)
  <2>1. c \in Int /\ \A i \in A \ H : Discount[i] \in Int /\ c <= Discount[i]
    BY <1>5, <1>6
  <2>2. QED
    BY <1>7, <2>1, SumBounds
<1>13. /\ Gain(A) = SumFunctionOnSet(Discount, A \cap H) + SumFunctionOnSet(Discount, A \ H)
       /\ Gain(H) = SumFunctionOnSet(Discount, A \cap H) + SumFunctionOnSet(Discount, H \ A)
  <2>1. Gain(H) = SumFunctionOnSet(Discount, H \cap A) + SumFunctionOnSet(Discount, H \ A)
    BY <1>4, <1>6, SumOfParts DEF Gain
  <2>2. Gain(A) = SumFunctionOnSet(Discount, A \cap H) + SumFunctionOnSet(Discount, A \ H)
    BY <1>4, <1>6, SumOfParts DEF Gain
  <2>3. A \cap H = H \cap A
    OBVIOUS
  <2>4. SumFunctionOnSet(Discount, A \cap H) = SumFunctionOnSet(Discount, H \cap A)
    BY <2>3, Zenon
  <2>5. QED
    BY <2>1, <2>2, <2>4
<1>14. /\ SumFunctionOnSet(Discount, A \cap H) \in Int
       /\ SumFunctionOnSet(Discount, A \ H) \in Int
       /\ SumFunctionOnSet(Discount, H \ A) \in Int
  <2>1. /\ \A i \in A \cap H : Discount[i] \in Int
        /\ \A i \in A \ H : Discount[i] \in Int
        /\ \A i \in H \ A : Discount[i] \in Int
    BY <1>6
  <2>2. QED
    BY <1>7, <2>1, SumType
<1>15. (c - 1) * Cardinality(H \ A) < c * Cardinality(A \ H)
  <2>1. PICK u \in Nat, v \in Nat : u = Cardinality(H \ A) /\ v = Cardinality(A \ H)
    BY <1>7
  <2>2. u <= v /\ 1 <= v
    BY <1>8, <1>10, <2>1
  <2>3. (c - 1) * u <= (c - 1) * v
    BY <1>5, <2>2
  <2>4. (c - 1) * v = c * v - v
    OBVIOUS
  <2>5. (c - 1) * u \in Int /\ c * v \in Int
    OBVIOUS
  <2>6. QED
    BY <2>1, <2>2, <2>3, <2>4, <2>5
<1>16. (c - 1) * Cardinality(H \ A) \in Int /\ c * Cardinality(A \ H) \in Int
  BY <1>7
<1>17. QED
  BY <1>1, <1>11, <1>12, <1>13, <1>14, <1>15, <1>16

-----------------------------------------------------------------------------
(* The scores of one question.                                             *)

\* What the denominators of a question's metrics are.
LEMMA Denominators ==
    ASSUME NEW labels \in SUBSET Chunks, labels # {}, NEW k \in Sweep
    PROVE  /\ IsFiniteSet(labels) /\ Cardinality(labels) \in Nat \ {0}
           /\ One % Cardinality(labels) = 0
           /\ k \in Nat \ {0} /\ k \in 1..Depth /\ One % k = 0
           /\ Smaller(Cardinality(labels), k) \in 1..k
           /\ Smaller(Cardinality(labels), k) \in 1..Depth
           /\ Smaller(Cardinality(labels), k) <= Cardinality(labels)
<1>1. IsFiniteSet(labels) /\ Cardinality(labels) <= Cardinality(Chunks)
  BY ChunksAssumption, FS_Subset
<1>2. Cardinality(labels) \in Nat \ {0} /\ Cardinality(Chunks) \in Nat
  BY <1>1, ChunksAssumption, FS_CardinalityType, FS_EmptySet
<1>3. One % Cardinality(labels) = 0
  BY <1>1, <1>2, FractionAssumption
<1>4. k \in 1..Depth /\ Depth \in Nat /\ One % k = 0
  BY DepthAssumption, FractionAssumption
<1>5. QED
  BY <1>1, <1>2, <1>3, <1>4 DEF Smaller

\* A question's scores are those of the ranks at which something labelled is.
LEMMA ScoresOfHits ==
    ASSUME NEW X, NEW r \in Seq(X), NEW labels \in SUBSET Chunks, NEW k \in Sweep,
           Repeatless(r), Len(r) <= Cardinality(Chunks), labels # {}
    PROVE  LET row == EvaluateQuery(Retrieve(r), labels, k)
               H   == Hits(r, labels, k)
           IN  /\ row.hitRate \in Nat /\ row.recall \in Nat /\ row.mrr \in Nat
               /\ row.recall = Fraction(Cardinality(H), Cardinality(labels))
               /\ row.recall * Cardinality(labels) = One * Cardinality(H)
               /\ row.precision * k = One * Cardinality(H)
               /\ H = {} => row.hitRate = 0 /\ row.mrr = 0
               /\ H # {} => /\ row.hitRate = One
                            /\ row.mrr = One \div Min(H)
                            /\ row.mrr * Min(H) = One
<1>1. PICK row : row = EvaluateQuery(Retrieve(r), labels, k)
  OBVIOUS
<1>2. PICK H : H = Hits(r, labels, k)
  OBVIOUS
<1>3. /\ k \in 1..Depth /\ k \in Nat \ {0} /\ One % k = 0
      /\ Cardinality(labels) \in Nat \ {0} /\ One % Cardinality(labels) = 0
  BY Denominators
<1>4. One \in Nat \ {0}
  BY FractionAssumption
<1>5. PICK F : F = Found(Retrieve(r), labels, k)
  OBVIOUS
<1>6. /\ H \in SUBSET (1..k) /\ H \in SUBSET DOMAIN r /\ Cardinality(H) \in Nat
      /\ F = { r[i] : i \in H } /\ Cardinality(F) = Cardinality(H)
      /\ RelevantRanks(Retrieve(r), labels, k) = H
  BY <1>2, <1>3, <1>5, HitsCount, ScoredArePrefix
<1>7. /\ row.hitRate = IF F # {} THEN One ELSE 0
      /\ row.recall = Fraction(Cardinality(H), Cardinality(labels))
      /\ row.precision = Fraction(Cardinality(H), k)
      /\ row.mrr = IF H = {} THEN 0 ELSE One \div Min(H)
  BY <1>1, <1>5, <1>6
     DEF EvaluateQuery, HitRate, RecallAtK, ContextPrecision, ReciprocalRank
<1>8. F = {} <=> H = {}
  BY <1>6
<1>9. /\ row.recall \in Nat
      /\ row.recall * Cardinality(labels) = Cardinality(H) * One
      /\ row.precision * k = Cardinality(H) * One
  BY <1>3, <1>6, <1>7, ExactFraction
<1>10. ASSUME H # {}
       PROVE  row.mrr \in Nat /\ row.mrr * Min(H) = One
  <2>1. PICK m : m = Min(H)
    OBVIOUS
  <2>2. m \in H
    BY <1>3, <1>6, <1>10, <2>1, MinIsLeast
  <2>3. Len(r) \in Nat /\ DOMAIN r = 1..Len(r) /\ Cardinality(Chunks) \in Nat
    BY ChunksAssumption, FS_CardinalityType
  <2>4. m \in 1..Cardinality(Chunks) /\ m \in Nat \ {0}
    <3>1. m \in 1..Len(r)
      BY <1>6, <2>2, <2>3
    <3>2. m \in Int /\ 1 <= m /\ m <= Len(r)
      BY <2>3, <3>1
    <3>3. QED
      BY <2>3, <3>2
  <2>5. One % m = 0
    BY <2>4, FractionAssumption
  <2>6. Fraction(1, m) \in Nat /\ Fraction(1, m) * m = 1 * One
    BY <2>4, <2>5, ExactFraction
  <2>7. Fraction(1, m) = One \div m
    BY <1>4 DEF Fraction
  <2>8. QED
    BY <1>4, <1>7, <1>10, <2>1, <2>6, <2>7
<1>11. Cardinality(H) * One = One * Cardinality(H)
  BY <1>4, <1>6
<1>12. QED
  BY <1>1, <1>2, <1>4, <1>7, <1>8, <1>9, <1>10, <1>11

\* nDCG is nothing for no hit, something for any, and One exactly when the
\* labelled chunks that fit come first.
LEMMA NdcgOfHits ==
    ASSUME NEW X, NEW r \in Seq(X), NEW labels \in SUBSET Chunks, NEW k \in Sweep,
           Repeatless(r), labels # {}
    PROVE  LET row  == EvaluateQuery(Retrieve(r), labels, k)
               H    == Hits(r, labels, k)
               fits == Smaller(Cardinality(labels), k)
           IN  /\ H = {} => row.ndcg = 0
               /\ H # {} => row.ndcg > 0
               /\ row.ndcg = One <=> Cardinality(Hits(r, labels, fits)) = fits
<1>1. PICK row : row = EvaluateQuery(Retrieve(r), labels, k)
  OBVIOUS
<1>2. PICK H : H = Hits(r, labels, k)
  OBVIOUS
<1>3. PICK m : m = Smaller(Cardinality(labels), k)
  OBVIOUS
<1>4. /\ k \in 1..Depth /\ k \in Nat \ {0} /\ m \in 1..k /\ m \in 1..Depth
      /\ IsFiniteSet(labels) /\ Cardinality(labels) \in Nat \ {0}
  BY <1>3, Denominators
<1>5. /\ One \in Nat \ {0} /\ Depth \in Nat \ {0} /\ Len(r) \in Nat
      /\ m \in Nat /\ k \in Nat /\ 1 <= m /\ m <= k /\ k <= Depth /\ m <= Depth
      /\ IsFiniteSet(1..m) /\ Cardinality(1..m) = m
  <2>1. One \in Nat \ {0} /\ Depth \in Nat \ {0} /\ Len(r) \in Nat
    BY Discounts
  <2>2. m \in Nat /\ k \in Nat /\ 1 <= m /\ m <= k /\ k <= Depth
    BY <1>4, <2>1
  <2>3. IsFiniteSet(1..m) /\ Cardinality(1..m) = IF 1 > m THEN 0 ELSE m - 1 + 1
    BY <2>2, FS_Interval
  <2>4. QED
    BY <2>1, <2>2, <2>3
<1>6. /\ H \in SUBSET (1..Depth) /\ H \in SUBSET (1..k) /\ Cardinality(H) \in Nat
      /\ Cardinality(H) <= k /\ Cardinality(H) <= Cardinality(labels)
  <2>1. /\ H \in SUBSET (1..k) /\ Cardinality(H) \in Nat
        /\ Cardinality(H) <= k /\ Cardinality(H) <= Cardinality(labels)
    BY <1>2, <1>4, HitsCount
  <2>2. \A i \in 1..k : i \in 1..Depth
    BY <1>5
  <2>3. QED
    BY <2>1, <2>2
<1>7. Cardinality(H) <= m
  BY <1>3, <1>6 DEF Smaller
<1>8. RelevantRanks(Retrieve(r), labels, k) = H
  BY <1>2, <1>4, ScoredArePrefix
<1>9. row.ndcg = (Gain(H) * One) \div Gain(1..m)
  BY <1>1, <1>3, <1>8 DEF EvaluateQuery, NdcgAtK, DcgAtK, Fraction
<1>10. PICK g \in Nat : g = Gain(H) /\ (H # {} => Depth <= g) /\ (H = {} => g = 0)
  <2>1. H = {} => Gain(H) = 0
    BY SumOfNone DEF Gain
  <2>2. QED
    BY <1>6, <2>1, GainIsNatural
<1>11. PICK full \in Nat \ {0} : full = Gain(1..m) /\ full <= One * m
  <2>1. PICK A : A = 1..m
    OBVIOUS
  <2>2. A \in SUBSET (1..Depth) /\ A # {} /\ Cardinality(A) = m
    <3>1. \A x \in 1..m : x \in 1..Depth
      BY <1>5
    <3>2. 1 \in 1..m
      BY <1>5
    <3>3. QED
      BY <1>5, <2>1, <3>1, <3>2
  <2>3. Gain(A) \in Nat /\ Gain(A) <= One * m /\ Depth <= Gain(A)
    BY <2>2, GainIsNatural
  <2>4. Gain(A) \in Nat \ {0}
    BY <1>5, <2>3
  <2>5. QED
    BY <2>1, <2>3, <2>4
<1>12. row.ndcg = (g * One) \div full
  BY <1>9, <1>10, <1>11
<1>13. g * One \in Nat
  BY <1>5
<1>14. ASSUME H = {} PROVE row.ndcg = 0
  BY <1>5, <1>10, <1>12, <1>14, QuotientIs
<1>15. ASSUME H # {} PROVE row.ndcg > 0
  <2>1. One * m <= One * Depth /\ One * Depth <= g * One
    <3>1. m <= Depth /\ Depth <= g
      BY <1>5, <1>10, <1>15
    <3>2. One * Depth = Depth * One
      BY <1>5
    <3>3. QED
      BY <1>5, <3>1, <3>2
  <2>2. full <= g * One
    BY <1>5, <1>11, <1>13, <2>1
  <2>3. full \div full <= (g * One) \div full
    BY <1>13, <2>2, QuotientGrows
  <2>4. full \div full = 1
    BY QuotientIs
  <2>5. (g * One) \div full \in Nat
    BY <1>13, Quotient
  <2>6. QED
    BY <1>12, <2>3, <2>4, <2>5
<1>16. row.ndcg = One <=> H = 1..m
  <2>1. ASSUME H = 1..m PROVE row.ndcg = One
    <3>1. g = full
      BY <1>10, <1>11, <2>1
    <3>2. full * One <= g * One /\ g * One < full * One + full
      BY <1>5, <3>1
    <3>3. QED
      BY <1>5, <1>12, <1>13, <3>2, QuotientIs
  <2>2. ASSUME H # 1..m PROVE row.ndcg # One
    <3>1. g < full
      BY <1>4, <1>6, <1>7, <1>10, <1>11, <2>2, FirstRanksGainMost
    <3>2. SUFFICES ASSUME row.ndcg = One PROVE FALSE
      OBVIOUS
    <3>3. full * One <= g * One
      BY <1>12, <1>13, <3>2, Quotient
    <3>4. (g + 1) * One <= full * One
      BY <1>5, <3>1
    <3>5. (g + 1) * One = g * One + One
      BY <1>5
    <3>6. QED
      BY <1>5, <1>13, <3>3, <3>4, <3>5
  <2>3. QED
    BY <2>1, <2>2
<1>17. Cardinality(Hits(r, labels, m)) = m <=> H = 1..m
  <2>1. /\ Hits(r, labels, m) \in SUBSET (1..m)
        /\ IsFiniteSet(1..m) /\ Cardinality(1..m) = m
    BY <1>4, <1>5, HitsCount
  <2>2. Cardinality(Hits(r, labels, m)) = m => Hits(r, labels, m) = 1..m
    BY <2>1, FS_Subset
  <2>3. Hits(r, labels, m) \in SUBSET H
    BY <1>2, <1>4, <1>5, HitsGrow
  <2>4. ASSUME Hits(r, labels, m) = 1..m PROVE H = 1..m
    <3>1. 1..m \in SUBSET H /\ IsFiniteSet(H)
      BY <1>6, <2>3, <2>4, GainIsNatural
    <3>2. Cardinality(1..m) <= Cardinality(H) /\ (Cardinality(H) = Cardinality(1..m) => H = 1..m)
      BY <3>1, FS_Subset
    <3>3. QED
      BY <1>5, <1>6, <1>7, <2>1, <3>2
  <2>5. ASSUME H = 1..m PROVE Hits(r, labels, m) = 1..m
    <3>1. \A i \in 1..m : i \in H
      BY <2>5
    <3>2. \A i \in H : i \in 1..Len(r) /\ r[i] \in labels
      BY <1>2, <1>5 DEF Hits, Smaller
    <3>3. ASSUME NEW i \in 1..m PROVE i \in Hits(r, labels, m)
      <4>1. i \in 1..Smaller(m, Len(r))
        BY <1>5, <3>1, <3>2 DEF Smaller
      <4>2. QED
        BY <3>1, <3>2, <4>1 DEF Hits
    <3>4. QED
      BY <2>1, <3>3
  <2>6. QED
    BY <2>1, <2>2, <2>4, <2>5
<1>18. QED
  BY <1>1, <1>2, <1>3, <1>14, <1>15, <1>16, <1>17

\* Looking further lowers none of these scores.
LEMMA ScoresGrow ==
    ASSUME NEW X, NEW r \in Seq(X), NEW labels \in SUBSET Chunks,
           NEW k \in Sweep, NEW l \in Sweep, NEW name \in {"hitRate", "recall", "mrr"},
           Repeatless(r), Len(r) <= Cardinality(Chunks), labels # {}, k < l
    PROVE  EvaluateQuery(Retrieve(r), labels, k)[name]
              <= EvaluateQuery(Retrieve(r), labels, l)[name]
<1>1. PICK a : a = EvaluateQuery(Retrieve(r), labels, k)
  OBVIOUS
<1>2. PICK b : b = EvaluateQuery(Retrieve(r), labels, l)
  OBVIOUS
<1>3. PICK G : G = Hits(r, labels, k)
  OBVIOUS
<1>4. PICK H : H = Hits(r, labels, l)
  OBVIOUS
<1>5. /\ k \in 1..Depth /\ l \in 1..Depth /\ k \in Nat /\ l \in Nat
      /\ Cardinality(labels) \in Nat \ {0} /\ One \in Nat \ {0}
  BY Denominators, Discounts
<1>6. G \in SUBSET H /\ \A i \in H : i \in G \/ k < i
  BY <1>3, <1>4, <1>5, HitsGrow
<1>7. /\ G \in SUBSET (1..k) /\ H \in SUBSET (1..l) /\ IsFiniteSet(H)
      /\ Cardinality(G) \in Nat /\ Cardinality(H) \in Nat
  BY <1>3, <1>4, <1>5, HitsCount
<1>8. /\ a.hitRate \in Nat /\ a.recall \in Nat /\ a.mrr \in Nat
      /\ a.recall = Fraction(Cardinality(G), Cardinality(labels))
      /\ G = {} => a.hitRate = 0 /\ a.mrr = 0
      /\ G # {} => a.hitRate = One /\ a.mrr = One \div Min(G)
  BY <1>1, <1>3, ScoresOfHits
<1>9. /\ b.hitRate \in Nat /\ b.recall \in Nat /\ b.mrr \in Nat
      /\ b.recall = Fraction(Cardinality(H), Cardinality(labels))
      /\ H = {} => b.hitRate = 0 /\ b.mrr = 0
      /\ H # {} => b.hitRate = One /\ b.mrr = One \div Min(H)
  BY <1>2, <1>4, ScoresOfHits
<1>10. a.hitRate <= b.hitRate
  BY <1>5, <1>6, <1>8, <1>9
<1>11. a.recall <= b.recall
  <2>1. Cardinality(G) <= Cardinality(H)
    BY <1>6, <1>7, FS_Subset
  <2>2. Cardinality(G) * One <= Cardinality(H) * One
    BY <1>5, <1>7, <2>1
  <2>3. Cardinality(G) * One \in Nat /\ Cardinality(H) * One \in Nat
    BY <1>5, <1>7
  <2>4. QED
    BY <1>5, <1>8, <1>9, <2>2, <2>3, QuotientGrows DEF Fraction
<1>12. a.mrr <= b.mrr
  <2>1. CASE G = {}
    BY <1>8, <1>9, <2>1
  <2>2. CASE G # {}
    <3>1. G \in SUBSET Nat /\ H \in SUBSET Nat /\ H # {}
      <4>1. H \in SUBSET Nat
        BY <1>5, <1>7
      <4>2. QED
        BY <1>6, <2>2, <4>1
    <3>2. Min(G) \in G /\ \A x \in G : Min(G) <= x
      BY <2>2, <3>1, MinIsLeast
    <3>3. Min(H) \in H /\ \A x \in H : Min(H) <= x
      BY <3>1, MinIsLeast
    <3>4. Min(H) <= Min(G)
      BY <1>6, <3>2, <3>3
    <3>5. Min(G) \in 1..k /\ Min(H) \in Nat /\ Min(G) \in Nat
      BY <1>7, <3>1, <3>2, <3>3
    <3>6. Min(H) \in G
      BY <1>5, <1>6, <3>3, <3>4, <3>5
    <3>7. Min(G) = Min(H)
      BY <3>2, <3>4, <3>5, <3>6
    <3>8. QED
      BY <1>8, <1>9, <2>2, <3>1, <3>7
  <2>3. QED
    BY <2>1, <2>2
<1>13. QED
  BY <1>1, <1>2, <1>10, <1>11, <1>12

-----------------------------------------------------------------------------
(* The run.                                                                *)

\* Orders in which a store may return its chunks.
Orders == UNION { [1..Cardinality(s) -> s] : s \in SUBSET Chunks }

Queries == [relevant : SUBSET Chunks, ranking : Orders, judgeable : BOOLEAN]

\* Scores of a question.
ScoreRows ==
    { EvaluateQuery(Retrieve(r), l, k) : r \in Orders, l \in SUBSET Chunks, k \in 1..Depth }

SeqsOK ==
    /\ stored \subseteq Chunks
    /\ perQuestion \in Seq(Queries)
    /\ judgeable \in Seq(ScoreRows)
    /\ sweep \in [Sweep -> Seq(ScoreRows)]

\* A score for every ranked question, at every cut-off.
Scored ==
    /\ IsFiniteSet(Ranked)
    /\ Len(judgeable) = Cardinality(Ranked)
    /\ \A k \in Sweep : Len(sweep[k]) = Cardinality(Ranked)
    /\ PrimaryK \in Sweep => judgeable = sweep[PrimaryK]

\* The scores at a question's place are its own.
ScoredAs(i) ==
    /\ perQuestion[i].ranking \in Rankings
    /\ Place(i) \in 1..Cardinality(Ranked)
    /\ \A k \in Sweep :
          sweep[k][Place(i)] = EvaluateQuery(Retrieve(perQuestion[i].ranking),
                                             perQuestion[i].relevant, k)

\* Every ranked question has its place, and every place a question.
Placed ==
    /\ \A i \in Ranked : ScoredAs(i)
    /\ \A p \in 1..Cardinality(Ranked) : \E i \in Ranked : Place(i) = p

\* The section, once there, is of the scores there are.
Reported ==
    /\ stage = "run" => section = Null
    /\ section # Null =>
          /\ section.nRanked = Len(judgeable)
          /\ section.kSweep = [k \in Sweep |-> Aggregate(sweep[k])]

RetrievalInv ==
    /\ SeqsOK
    /\ Scored
    /\ Placed
    /\ Reported
    /\ EveryQuestionCounted

\* A ranking of what is stored is an order.
LEMMA RankingsAreOrders ==
    ASSUME stored \subseteq Chunks, NEW r \in Rankings
    PROVE  r \in Orders
BY DEF Rankings, Orders

\* A summary counts its values.
LEMMA SummariseCounts == \A values : Summarise(values).n = Len(values)
BY DEF Summarise

\* A column has a value for each row.
LEMMA ColumnOfRows ==
    ASSUME NEW rows \in Seq(ScoreRows), NEW name \in MetricNames
    PROVE  /\ DOMAIN Column(rows, name) = 1..Len(rows)
           /\ Len(Column(rows, name)) = Len(rows)
           /\ \A i \in 1..Len(rows) : Column(rows, name)[i] = rows[i][name]
<1> DEFINE col == Column(rows, name)
           S == { rows[i][name] : i \in DOMAIN rows }
<1>1. Len(rows) \in Nat /\ DOMAIN rows = 1..Len(rows)
  OBVIOUS
<1>2. col = [i \in 1..Len(rows) |-> rows[i][name]]
  BY <1>1 DEF Column
<1>3. col \in Seq(S) /\ Len(col) = Len(rows)
  <2>1. \A i \in 1..Len(rows) : rows[i][name] \in S
    BY <1>1
  <2> HIDE DEF S
  <2>2. col \in [1..Len(rows) -> S]
    BY <1>2, <2>1
  <2> HIDE DEF col
  <2>3. QED
    BY <1>1, <2>2
<1>4. QED
  BY <1>2, <1>3

\* A mean is of as many values as there are rows.
LEMMA AggregateCounts ==
    ASSUME NEW rows \in Seq(ScoreRows), NEW name \in MetricNames
    PROVE  Aggregate(rows)[name].n = Len(rows)
<1>1. Aggregate(rows)[name] = Summarise(Column(rows, name))
  BY DEF Aggregate
<1>2. QED
  BY <1>1, ColumnOfRows, SummariseCounts

\* A mean over some rows is their sum divided by their number.
LEMMA MeanOfRows ==
    ASSUME NEW rows \in Seq(ScoreRows), NEW name \in MetricNames, Len(rows) # 0
    PROVE  Aggregate(rows)[name].mean
              = SumFunctionOnSet(Column(rows, name), 1..Len(rows)) \div Len(rows)
<1>1. PICK col : col = Column(rows, name)
  OBVIOUS
<1>2. Aggregate(rows)[name] = Summarise(col)
  BY <1>1 DEF Aggregate
<1>3. DOMAIN col = 1..Len(rows) /\ Len(col) = Len(rows) /\ col # <<>>
  BY <1>1, ColumnOfRows
<1>4. SumFunction(col) = SumFunctionOnSet(col, 1..Len(rows))
  BY <1>3 DEF SumFunction
<1>5. Summarise(col).mean = SumFunction(col) \div Len(col)
  BY <1>3 DEF Summarise
<1>6. QED
  BY <1>1, <1>2, <1>3, <1>4, <1>5

\* One question more is ranked if something is relevant to it, and has the next
\* place; the others keep theirs.
LEMMA RankedGrows ==
    ASSUME SeqsOK, IsFiniteSet(Ranked), NEW q \in Queries,
           perQuestion' = Append(perQuestion, q)
    PROVE  /\ IsFiniteSet(Ranked') /\ Cardinality(Ranked) \in Nat
           /\ q.relevant = {} => Ranked' = Ranked
           /\ q.relevant # {} =>
                 /\ Ranked' = Ranked \cup {Len(perQuestion) + 1}
                 /\ Cardinality(Ranked') = Cardinality(Ranked) + 1
                 /\ \A i : i = Len(perQuestion) + 1 =>
                       perQuestion'[i] = q /\ Place(i)' = Cardinality(Ranked) + 1
           /\ \A i \in Ranked :
                 perQuestion'[i] = perQuestion[i] /\ Place(i)' = Place(i)
<1> DEFINE next == Len(perQuestion) + 1
<1>1. /\ Len(perQuestion) \in Nat /\ DOMAIN perQuestion = 1..Len(perQuestion)
      /\ DOMAIN perQuestion' = 1..next
      /\ \A i \in 1..Len(perQuestion) : perQuestion'[i] = perQuestion[i]
      /\ perQuestion'[next] = q
  BY DEF SeqsOK
<1>2. ASSUME q.relevant = {} PROVE Ranked' = Ranked
  BY <1>1, <1>2 DEF Ranked
<1>3. ASSUME q.relevant # {} PROVE Ranked' = Ranked \cup {next}
  BY <1>1, <1>3 DEF Ranked
<1>4. /\ next \notin Ranked /\ next \in Int
      /\ \A i \in Ranked : i \in 1..Len(perQuestion) /\ i \in Int /\ i < next
  BY <1>1 DEF Ranked
<1>5. ASSUME q.relevant # {}
      PROVE  IsFiniteSet(Ranked') /\ Cardinality(Ranked') = Cardinality(Ranked) + 1
  BY <1>3, <1>4, <1>5, FS_AddElement
<1>6. Cardinality(Ranked) \in Nat
  BY FS_CardinalityType
<1> HIDE DEF next
<1>7. ASSUME NEW i \in Ranked
      PROVE  perQuestion'[i] = perQuestion[i] /\ Place(i)' = Place(i)
  <2>1. { j \in Ranked' : j <= i } = { j \in Ranked : j <= i }
    <3>1. CASE q.relevant = {}
      BY <1>2, <3>1
    <3>2. CASE q.relevant # {}
      <4>1. ~ (next <= i)
        BY <1>4
      <4>2. QED
        BY <1>3, <3>2, <4>1
    <3>3. QED
      BY <3>1, <3>2
  <2>2. Place(i)' = Place(i)
    BY <2>1 DEF Place
  <2>3. QED
    BY <1>1, <1>4, <2>2
<1>8. ASSUME q.relevant # {}, NEW i, i = next
      PROVE  perQuestion'[i] = q /\ Place(i)' = Cardinality(Ranked) + 1
  <2>1. { j \in Ranked' : j <= i } = Ranked'
    BY <1>3, <1>4, <1>8
  <2>2. Place(i)' = Cardinality(Ranked')
    BY <2>1 DEF Place
  <2>3. QED
    BY <1>1, <1>5, <1>8, <2>2
<1>9. QED
  BY <1>1, <1>2, <1>3, <1>5, <1>6, <1>7, <1>8 DEF next

\* A question is asked before the section is there.
LEMMA AskStep ==
    ASSUME RetrievalInv, NEW relevant \in SUBSET Chunks, NEW ranking \in Rankings,
           Ask(relevant, ranking)
    PROVE  /\ perQuestion' \in Seq(Queries) /\ stored' = stored /\ stored \subseteq Chunks
           /\ Reported' /\ EveryQuestionCounted'
           /\ IsFiniteSet(Ranked') /\ Cardinality(Ranked) \in Nat
           /\ relevant = {} => Ranked' = Ranked
           /\ relevant # {} =>
                 /\ Ranked' = Ranked \cup {Len(perQuestion) + 1}
                 /\ Cardinality(Ranked') = Cardinality(Ranked) + 1
                 /\ \A i : i = Len(perQuestion) + 1 =>
                       /\ perQuestion'[i].relevant = relevant
                       /\ perQuestion'[i].ranking = ranking
                       /\ Place(i)' = Cardinality(Ranked) + 1
           /\ \A i \in Ranked :
                 perQuestion'[i] = perQuestion[i] /\ Place(i)' = Place(i)
<1> DEFINE q == [relevant |-> relevant, ranking |-> ranking, judgeable |-> relevant # {}]
<1>1. q \in Queries /\ q.relevant = relevant /\ q.ranking = ranking
  BY RankingsAreOrders DEF RetrievalInv, SeqsOK, Queries
<1>2. perQuestion' = Append(perQuestion, q) /\ stored' = stored
  BY DEF Ask
<1> HIDE DEF q
<1>3. section' = Null /\ SeqsOK /\ IsFiniteSet(Ranked)
  BY DEF RetrievalInv, Reported, Scored, Ask
<1>4. Reported' /\ EveryQuestionCounted'
  BY <1>3 DEF Reported, EveryQuestionCounted
<1>5. perQuestion' \in Seq(Queries) /\ stored \subseteq Chunks
  BY <1>1, <1>2, <1>3 DEF SeqsOK
<1>6. QED
  BY <1>1, <1>2, <1>3, <1>4, <1>5, RankedGrows

\* A question nothing is relevant to leaves the scores.
LEMMA ExcludeStep ==
    ASSUME RetrievalInv, NEW ranking \in Rankings, Exclude(ranking)
    PROVE  RetrievalInv'
<1>1. Ask({}, ranking) /\ UNCHANGED <<judgeable, sweep>>
  BY DEF Exclude
<1>2. Ranked' = Ranked
  BY <1>1, AskStep
<1>3. Scored'
  BY <1>1, <1>2 DEF RetrievalInv, Scored
<1>4. SeqsOK'
  BY <1>1, AskStep DEF RetrievalInv, SeqsOK
<1>5. \A i \in Ranked : perQuestion'[i] = perQuestion[i] /\ Place(i)' = Place(i)
  BY <1>1, AskStep
<1>6. Rankings' = Rankings
  BY <1>1 DEF Ask, Rankings
<1>7. Placed'
  <2>1. ASSUME NEW i \in Ranked PROVE ScoredAs(i)'
    <3>1. ScoredAs(i)
      BY DEF RetrievalInv, Placed
    <3>2. QED
      BY <1>1, <1>2, <1>5, <1>6, <3>1 DEF ScoredAs
  <2>2. \A p \in 1..Cardinality(Ranked) : \E i \in Ranked : Place(i)' = p
    BY <1>5 DEF RetrievalInv, Placed
  <2>3. QED
    BY <1>2, <2>1, <2>2 DEF Placed
<1>8. QED
  BY <1>1, <1>3, <1>4, <1>7, AskStep DEF RetrievalInv

\* A scored question's score goes to its place at every cut-off.
LEMMA ScoreStep ==
    ASSUME RetrievalInv, NEW ranking \in Rankings,
           NEW relevant \in (SUBSET Chunks) \ {{}}, Score(relevant, ranking)
    PROVE  RetrievalInv'
<1> DEFINE row(k) == EvaluateQuery(Retrieve(ranking), relevant, k)
           n == Cardinality(Ranked)
<1>1. /\ Ask(relevant, ranking) /\ relevant \in SUBSET Chunks /\ relevant # {}
      /\ judgeable' = Append(judgeable, row(PrimaryK))
      /\ sweep' = [k \in Sweep |-> Append(sweep[k], row(k))]
  BY DEF Score
<1>2. ranking \in Orders
  BY RankingsAreOrders DEF RetrievalInv, SeqsOK
<1>3. \A k \in Sweep \cup {PrimaryK} : row(k) \in ScoreRows
  BY <1>1, <1>2, DepthAssumption DEF ScoreRows
<1> HIDE DEF row
<1>4. judgeable' \in Seq(ScoreRows) /\ Len(judgeable') = Len(judgeable) + 1
  BY <1>1, <1>3 DEF RetrievalInv, SeqsOK
<1>5. ASSUME NEW k \in Sweep
      PROVE  /\ sweep'[k] = Append(sweep[k], row(k))
             /\ sweep'[k] \in Seq(ScoreRows)
             /\ Len(sweep'[k]) = Len(sweep[k]) + 1
             /\ sweep'[k][n + 1] = row(k)
             /\ \A p \in 1..n : sweep'[k][p] = sweep[k][p]
  <2>1. sweep[k] \in Seq(ScoreRows) /\ row(k) \in ScoreRows /\ Len(sweep[k]) = n
    BY <1>3 DEF RetrievalInv, SeqsOK, Scored
  <2>2. sweep'[k] = Append(sweep[k], row(k))
    BY <1>1
  <2> HIDE DEF n
  <2>3. QED
    BY <2>1, <2>2
<1>6. sweep' \in [Sweep -> Seq(ScoreRows)]
  BY <1>1, <1>5
<1>7. /\ IsFiniteSet(Ranked') /\ Cardinality(Ranked') = n + 1 /\ n \in Nat
      /\ Ranked' = Ranked \cup {Len(perQuestion) + 1}
      /\ \A i : i = Len(perQuestion) + 1 =>
            /\ perQuestion'[i].relevant = relevant
            /\ perQuestion'[i].ranking = ranking
            /\ Place(i)' = n + 1
      /\ \A i \in Ranked : perQuestion'[i] = perQuestion[i] /\ Place(i)' = Place(i)
  BY <1>1, AskStep
<1>8. Scored'
  BY <1>1, <1>4, <1>5, <1>7 DEF RetrievalInv, Scored
<1>9. Rankings' = Rankings
  BY <1>1 DEF Ask, Rankings
<1>10. ASSUME NEW i \in Ranked PROVE ScoredAs(i)'
  <2>1. ScoredAs(i)
    BY DEF RetrievalInv, Placed
  <2>2. perQuestion'[i] = perQuestion[i] /\ Place(i)' = Place(i) /\ Place(i) \in 1..n
    BY <1>7, <2>1 DEF ScoredAs
  <2>3. Place(i)' \in 1..Cardinality(Ranked')
    BY <1>7, <2>2
  <2>4. \A k \in Sweep : sweep'[k][Place(i)'] = sweep[k][Place(i)]
    BY <1>5, <2>2
  <2>5. QED
    BY <1>9, <2>1, <2>2, <2>3, <2>4 DEF ScoredAs
<1>11. ASSUME NEW i, i = Len(perQuestion) + 1 PROVE ScoredAs(i)'
  <2>1. /\ perQuestion'[i].relevant = relevant /\ perQuestion'[i].ranking = ranking
        /\ Place(i)' = n + 1
    BY <1>7, <1>11
  <2>2. Place(i)' \in 1..Cardinality(Ranked')
    BY <1>7, <2>1
  <2>3. \A k \in Sweep :
          sweep'[k][Place(i)'] = EvaluateQuery(Retrieve(ranking), relevant, k)
    BY <1>5, <2>1 DEF row
  <2>4. QED
    BY <1>9, <2>1, <2>2, <2>3 DEF ScoredAs
<1>12. Placed'
  <2>1. \A i \in Ranked' : ScoredAs(i)'
    BY <1>7, <1>10, <1>11
  <2>2. ASSUME NEW p \in 1..(n + 1) PROVE \E i \in Ranked' : Place(i)' = p
    <3>1. CASE p = n + 1
      BY <1>7, <3>1
    <3>2. CASE p \in 1..n
      <4>1. PICK i \in Ranked : Place(i) = p
        BY <3>2 DEF RetrievalInv, Placed
      <4>2. QED
        BY <1>7, <4>1
    <3>3. QED
      BY <1>7, <3>1, <3>2
  <2>3. QED
    BY <1>7, <2>1, <2>2 DEF Placed
<1>13. QED
  BY <1>1, <1>4, <1>6, <1>8, <1>12, AskStep DEF RetrievalInv, SeqsOK

\* The section counts what was scored.
LEMMA FinishStep ==
    ASSUME RetrievalInv, Finish
    PROVE  RetrievalInv'
<1>1. UNCHANGED <<stored, perQuestion, judgeable, sweep>> /\ stage' = "print"
  BY DEF Finish
<1>2. SeqsOK' /\ Scored' /\ Ranked' = Ranked
  BY <1>1 DEF RetrievalInv, SeqsOK, Scored, Ranked
<1>3. Placed'
  BY <1>1, <1>2 DEF RetrievalInv, Placed, ScoredAs, Place, Rankings
<1>4. /\ section'.nRanked = Len(judgeable)
      /\ section'.nFallback = NumQuestions - Len(judgeable)
      /\ section'.aggregate = Aggregate(judgeable)
      /\ section'.kSweep = [k \in Sweep |-> Aggregate(sweep[k])]
      /\ NumQuestions = Len(perQuestion)
  BY DEF Finish
<1>5. ASSUME NEW k \in Sweep, NEW name \in MetricNames
      PROVE  section'.kSweep[k][name].n = Cardinality(Ranked)
  BY <1>4, AggregateCounts DEF RetrievalInv, SeqsOK, Scored
<1>6. Len(judgeable) \in Nat /\ Len(perQuestion) \in Nat
  BY DEF RetrievalInv, SeqsOK
<1>7. section'.nRanked + section'.nFallback = Len(perQuestion)
  BY <1>4, <1>6
<1>8. PrimaryK \in Sweep => section'.aggregate = section'.kSweep[PrimaryK]
  BY <1>4 DEF RetrievalInv, Scored
<1>9. section'.nRanked = Cardinality(Ranked)
  BY <1>4 DEF RetrievalInv, Scored
<1>10. EveryQuestionCounted'
  BY <1>1, <1>2, <1>5, <1>7, <1>8, <1>9 DEF EveryQuestionCounted
<1>11. Reported'
  BY <1>1, <1>4 DEF Reported
<1>12. QED
  BY <1>2, <1>3, <1>10, <1>11 DEF RetrievalInv

\* Every step keeps the invariant.
LEMMA RetrievalStep ==
    ASSUME RetrievalInv, [RetrievalNext]_retrievalVars
    PROVE  RetrievalInv'
<1>1. CASE /\ UNCHANGED <<stored, perQuestion, judgeable, sweep, section>>
           /\ stage' = "run" => stage = "run"
  <2>1. Ranked' = Ranked
    BY <1>1 DEF Ranked
  <2>2. Rankings' = Rankings
    BY <1>1 DEF Rankings
  <2>3. \A i : Place(i)' = Place(i)
    BY <2>1 DEF Place
  <2>4. SeqsOK' /\ Scored'
    BY <1>1, <2>1 DEF RetrievalInv, SeqsOK, Scored
  <2>5. Placed'
    BY <1>1, <2>1, <2>2, <2>3 DEF RetrievalInv, Placed, ScoredAs
  <2>6. Reported'
    BY <1>1 DEF RetrievalInv, Reported
  <2>7. EveryQuestionCounted'
    BY <1>1, <2>1 DEF RetrievalInv, EveryQuestionCounted
  <2>8. QED
    BY <2>4, <2>5, <2>6, <2>7 DEF RetrievalInv
<1>2. CASE RetrievalFails \/ Report \/ UNCHANGED retrievalVars
  BY <1>1, <1>2 DEF RetrievalFails, Report, retrievalVars
<1>3. QED
  BY <1>2, ExcludeStep, ScoreStep, FinishStep DEF RetrievalNext

\* So every reachable state has it.
LEMMA RetrievalInvHolds == RetrievalSpec => []RetrievalInv
<1>1. RetrievalInit => RetrievalInv
  <2>1. SUFFICES ASSUME RetrievalInit PROVE RetrievalInv
    OBVIOUS
  <2>2. Ranked = {}
    BY <2>1 DEF RetrievalInit, Ranked
  <2>3. Placed
    BY <2>2, FS_EmptySet DEF Placed
  <2>4. Scored /\ SeqsOK /\ Reported /\ EveryQuestionCounted
    BY <2>1, <2>2, FS_EmptySet
       DEF RetrievalInit, Scored, SeqsOK, Reported, EveryQuestionCounted
  <2>5. QED
    BY <2>3, <2>4 DEF RetrievalInv
<1>2. RetrievalInv /\ [RetrievalNext]_retrievalVars => RetrievalInv'
  BY RetrievalStep
<1>3. QED
  BY <1>1, <1>2, PTL DEF RetrievalSpec

\* The means are over every question something is relevant to, and the rest is
\* counted beside them, for any data set, store and depth (run, aggregate).
THEOREM NoneLeftOut == RetrievalSpec => []EveryQuestionCounted
<1>1. RetrievalInv => EveryQuestionCounted
  BY DEF RetrievalInv
<1>2. QED
  BY <1>1, RetrievalInvHolds, PTL

\* A ranked question's order is of all the store's chunks, each once, and what was
\* found for it is what its ranks say.
LEMMA RankedQuestion ==
    ASSUME NEW i \in Ranked, RetrievalInv
    PROVE  \E q, r :
              /\ q = perQuestion[i] /\ r = q.ranking
              /\ q.relevant \in SUBSET Chunks /\ q.relevant # {}
              /\ r \in Seq(stored) /\ Repeatless(r) /\ Len(r) <= Cardinality(Chunks)
              /\ \A k \in Nat :
                    /\ FoundBy(q, k) = { r[x] : x \in Hits(r, q.relevant, k) }
                    /\ { RankOf(q, c) : c \in FoundBy(q, k) } = Hits(r, q.relevant, k)
<1>1. PICK q : q = perQuestion[i]
  OBVIOUS
<1>2. PICK r : r = q.ranking
  OBVIOUS
<1>3. q \in Queries /\ q.relevant # {}
  BY <1>1 DEF RetrievalInv, SeqsOK, Ranked
<1>4. q.relevant \in SUBSET Chunks
  BY <1>3 DEF Queries
<1>5. r \in Rankings
  BY <1>1, <1>2 DEF RetrievalInv, Placed, ScoredAs
<1>6. PICK n : n = Cardinality(stored)
  OBVIOUS
<1>7. r \in [1..n -> stored] /\ ToSet(r) = stored
  BY <1>5, <1>6 DEF Rankings
<1>8. IsFiniteSet(stored) /\ n \in Nat /\ n <= Cardinality(Chunks)
  BY <1>6, ChunksAssumption, FS_Subset, FS_CardinalityType DEF RetrievalInv, SeqsOK
<1>9. r \in Seq(stored) /\ Len(r) = n /\ DOMAIN r = 1..n
  BY <1>7, <1>8
<1>10. Repeatless(r)
  <2>1. r \in Surjection(1..n, stored)
    BY <1>7, <1>9 DEF ToSet, Surjection
  <2>2. IsFiniteSet(1..n) /\ Cardinality(1..n) = n
    BY <1>8, FS_Interval
  <2>3. r \in Injection(1..n, stored)
    BY <1>6, <2>1, <2>2, FS_SurjSameCardinalityImpliesInj
  <2>4. QED
    BY <1>9, <2>3 DEF Injection, IsInjective, Repeatless
<1>11. ASSUME NEW x \in 1..n PROVE RankOf(q, r[x]) = x
  <2>1. \A j \in DOMAIN q.ranking : q.ranking[j] = r[x] => j = x
    BY <1>2, <1>9, <1>10 DEF Repeatless
  <2>2. x \in DOMAIN q.ranking /\ q.ranking[x] = r[x]
    BY <1>2, <1>9
  <2>3. QED
    BY <2>1, <2>2 DEF RankOf
<1>12. ASSUME NEW k \in Nat
       PROVE  /\ FoundBy(q, k) = { r[x] : x \in Hits(r, q.relevant, k) }
              /\ { RankOf(q, c) : c \in FoundBy(q, k) } = Hits(r, q.relevant, k)
  <2>1. PICK H : H = Hits(r, q.relevant, k)
    OBVIOUS
  <2>2. \A x : x \in H <=> x \in 1..n /\ x <= k /\ r[x] \in q.relevant
    BY <1>8, <1>9, <2>1 DEF Hits, Smaller
  <2>3. \A x \in H : RankOf(q, r[x]) = x /\ r[x] \in FoundBy(q, k)
    <3>1. ASSUME NEW x \in H PROVE RankOf(q, r[x]) = x /\ r[x] \in FoundBy(q, k)
      <4>1. x \in 1..n /\ x <= k /\ r[x] \in q.relevant
        BY <2>2
      <4>2. RankOf(q, r[x]) = x /\ r[x] \in stored
        BY <1>7, <1>11, <4>1
      <4>3. QED
        BY <4>1, <4>2 DEF FoundBy
    <3>2. QED
      BY <3>1
  <2>4. \A c \in FoundBy(q, k) : \E x \in H : c = r[x]
    <3>1. ASSUME NEW c \in FoundBy(q, k) PROVE \E x \in H : c = r[x]
      <4>1. c \in q.relevant /\ c \in stored /\ RankOf(q, c) <= k
        BY DEF FoundBy
      <4>2. PICK x \in 1..n : c = r[x]
        BY <1>7, <1>9, <4>1 DEF ToSet
      <4>3. x <= k
        BY <1>11, <4>1, <4>2
      <4>4. QED
        BY <2>2, <4>1, <4>2, <4>3
    <3>2. QED
      BY <3>1
  <2>5. FoundBy(q, k) = { r[x] : x \in H }
    BY <2>3, <2>4
  <2>6. { RankOf(q, c) : c \in FoundBy(q, k) } = H
    BY <2>3, <2>4
  <2>7. QED
    BY <2>1, <2>5, <2>6
<1>13. QED
  BY <1>1, <1>2, <1>3, <1>4, <1>8, <1>9, <1>10, <1>12

\* A question's scores at every cut-off of the sweep, taken from one retrieval at
\* the full depth, are those of the store's whole order, for any store, labels,
\* depth and sweep (run and evaluate_query).
THEOREM ScoresAlwaysMatchTheStore == RetrievalSpec => []ScoresMatchTheStore
<1>1. RetrievalInv => ScoresMatchTheStore
  <2> SUFFICES ASSUME RetrievalInv, NEW i \in Ranked, NEW k \in Sweep
               PROVE  LET q   == perQuestion[i]
                          row == sweep[k][Place(i)]
                          by  == FoundBy(q, k)
                      IN  /\ row.recall * Cardinality(q.relevant) = One * Cardinality(by)
                          /\ row.precision * k = One * Cardinality(by)
                          /\ by = {} => row.hitRate = 0 /\ row.mrr = 0 /\ row.ndcg = 0
                          /\ by # {} =>
                                /\ row.hitRate = One
                                /\ row.mrr * Min({ RankOf(q, c) : c \in by }) = One
                                /\ row.ndcg > 0
    BY DEF ScoresMatchTheStore
  <2>0. PICK q, r :
           /\ q = perQuestion[i] /\ r = q.ranking
           /\ q.relevant \in SUBSET Chunks /\ q.relevant # {}
           /\ r \in Seq(stored) /\ Repeatless(r) /\ Len(r) <= Cardinality(Chunks)
           /\ \A m \in Nat :
                 /\ FoundBy(q, m) = { r[x] : x \in Hits(r, q.relevant, m) }
                 /\ { RankOf(q, c) : c \in FoundBy(q, m) } = Hits(r, q.relevant, m)
    BY RankedQuestion
  <2>1. q = perQuestion[i] /\ r = q.ranking
    BY <2>0
  <2>2. /\ q.relevant \in SUBSET Chunks /\ q.relevant # {}
        /\ r \in Seq(stored) /\ Repeatless(r) /\ Len(r) <= Cardinality(Chunks)
    BY <2>0
  <2>3. PICK by : by = FoundBy(q, k)
    OBVIOUS
  <2>4. PICK row : row = EvaluateQuery(Retrieve(r), q.relevant, k)
    OBVIOUS
  <2>5. PICK H : H = Hits(r, q.relevant, k)
    OBVIOUS
  <2>6. sweep[k][Place(i)] = row
    BY <2>1, <2>4 DEF RetrievalInv, Placed, ScoredAs
  <2>7. k \in Nat /\ k \in 1..Depth
    BY DepthAssumption
  <2>8. by = { r[x] : x \in H } /\ { RankOf(q, c) : c \in by } = H
    BY <2>0, <2>3, <2>5, <2>7
  <2>9. Cardinality(by) = Cardinality(H) /\ (by = {} <=> H = {})
    <3>1. Cardinality({ r[x] : x \in H }) = Cardinality(H)
      BY <2>2, <2>5, <2>7, HitsCount
    <3>2. QED
      BY <2>8, <3>1
  <2>10. /\ row.recall * Cardinality(q.relevant) = One * Cardinality(H)
         /\ row.precision * k = One * Cardinality(H)
         /\ H = {} => row.hitRate = 0 /\ row.mrr = 0
         /\ H # {} => row.hitRate = One /\ row.mrr * Min(H) = One
    <3>1. LET score == EvaluateQuery(Retrieve(r), q.relevant, k)
              found == Hits(r, q.relevant, k)
          IN  /\ score.recall * Cardinality(q.relevant) = One * Cardinality(found)
              /\ score.precision * k = One * Cardinality(found)
              /\ found = {} => score.hitRate = 0 /\ score.mrr = 0
              /\ found # {} => score.hitRate = One /\ score.mrr * Min(found) = One
      BY <2>2, ScoresOfHits
    <3>2. QED
      BY <2>4, <2>5, <3>1
  <2>11. /\ H = {} => row.ndcg = 0
         /\ H # {} => row.ndcg > 0
    BY <2>2, <2>4, <2>5, NdcgOfHits
  <2>12. Min({ RankOf(q, c) : c \in by }) = Min(H)
    BY <2>8, Zenon
  <2>13. QED
    BY <2>1, <2>3, <2>6, <2>9, <2>10, <2>11, <2>12
<1>2. QED
  BY <1>1, RetrievalInvHolds, PTL

\* nDCG is One exactly when the labelled chunks that fit the cut-off come first,
\* for any discounts that fall with the rank (ndcg_at_k).
THEOREM OnlyPerfectRankingsScoreOne == RetrievalSpec => []PerfectRankingsScoreOne
<1>1. RetrievalInv => PerfectRankingsScoreOne
  <2> SUFFICES ASSUME RetrievalInv, NEW i \in Ranked, NEW k \in Sweep
               PROVE  LET q    == perQuestion[i]
                          fits == Smaller(Cardinality(q.relevant), k)
                      IN  sweep[k][Place(i)].ndcg = One
                              <=> Cardinality(FoundBy(q, fits)) = fits
    BY DEF PerfectRankingsScoreOne
  <2>1. PICK q, r :
           /\ q = perQuestion[i] /\ r = q.ranking
           /\ q.relevant \in SUBSET Chunks /\ q.relevant # {}
           /\ r \in Seq(stored) /\ Repeatless(r) /\ Len(r) <= Cardinality(Chunks)
           /\ \A m \in Nat :
                 /\ FoundBy(q, m) = { r[x] : x \in Hits(r, q.relevant, m) }
                 /\ { RankOf(q, c) : c \in FoundBy(q, m) } = Hits(r, q.relevant, m)
    BY RankedQuestion
  <2>2. /\ q.relevant \in SUBSET Chunks /\ q.relevant # {}
        /\ r \in Seq(stored) /\ Repeatless(r)
    BY <2>1
  <2>3. PICK row : row = EvaluateQuery(Retrieve(r), q.relevant, k)
    OBVIOUS
  <2>4. sweep[k][Place(i)] = row
    BY <2>1, <2>3 DEF RetrievalInv, Placed, ScoredAs
  <2>6. PICK fits : fits = Smaller(Cardinality(q.relevant), k)
    OBVIOUS
  <2>7. fits \in 1..Depth /\ fits \in Nat
    BY <2>2, <2>6, Denominators, Discounts
  <2>8. Cardinality(FoundBy(q, fits)) = Cardinality(Hits(r, q.relevant, fits))
    <3>1. Cardinality({ r[x] : x \in Hits(r, q.relevant, fits) })
            = Cardinality(Hits(r, q.relevant, fits))
      BY <2>2, <2>7, HitsCount
    <3>2. FoundBy(q, fits) = { r[x] : x \in Hits(r, q.relevant, fits) }
      BY <2>1, <2>7
    <3>3. QED
      BY <3>1, <3>2
  <2>9. row.ndcg = One <=> Cardinality(Hits(r, q.relevant, fits)) = fits
    BY <2>2, <2>3, <2>6, NdcgOfHits
  <2>10. QED
    BY <2>1, <2>4, <2>6, <2>8, <2>9
<1>2. QED
  BY <1>1, RetrievalInvHolds, PTL

\* Every row of the sweep is a question's, at both cut-offs.
LEMMA RowsGrow ==
    ASSUME NEW k \in Sweep, NEW l \in Sweep, NEW name \in {"hitRate", "recall", "mrr"},
           NEW p \in DOMAIN sweep[k], RetrievalInv, k < l
    PROVE  /\ sweep[k][p][name] \in Nat /\ sweep[l][p][name] \in Nat
           /\ sweep[k][p][name] <= sweep[l][p][name]
<1>1. p \in 1..Cardinality(Ranked)
  BY DEF RetrievalInv, Scored, SeqsOK
<1>2. PICK i \in Ranked : Place(i) = p
  BY <1>1 DEF RetrievalInv, Placed
<1>3. PICK q, r :
        /\ q = perQuestion[i] /\ r = q.ranking
        /\ q.relevant \in SUBSET Chunks /\ q.relevant # {}
        /\ r \in Seq(stored) /\ Repeatless(r) /\ Len(r) <= Cardinality(Chunks)
  BY RankedQuestion
<1>5. /\ sweep[k][p] = EvaluateQuery(Retrieve(r), q.relevant, k)
      /\ sweep[l][p] = EvaluateQuery(Retrieve(r), q.relevant, l)
  BY <1>2, <1>3 DEF RetrievalInv, Placed, ScoredAs
<1>6. /\ q.relevant \in SUBSET Chunks /\ q.relevant # {}
      /\ r \in Seq(stored) /\ Repeatless(r) /\ Len(r) <= Cardinality(Chunks)
  BY <1>3
<1>7. /\ EvaluateQuery(Retrieve(r), q.relevant, k).hitRate \in Nat
      /\ EvaluateQuery(Retrieve(r), q.relevant, k).recall \in Nat
      /\ EvaluateQuery(Retrieve(r), q.relevant, k).mrr \in Nat
  BY <1>6, ScoresOfHits
<1>8. /\ EvaluateQuery(Retrieve(r), q.relevant, l).hitRate \in Nat
      /\ EvaluateQuery(Retrieve(r), q.relevant, l).recall \in Nat
      /\ EvaluateQuery(Retrieve(r), q.relevant, l).mrr \in Nat
  BY <1>6, ScoresOfHits
<1>9. sweep[k][p][name] <= sweep[l][p][name]
  BY <1>5, <1>6, ScoresGrow
<1>10. QED
  BY <1>5, <1>7, <1>8, <1>9

\* Along the sweep recall, hit rate and reciprocal rank only grow, question by
\* question and in the means, for any questions, stores and cut-offs (k_sweep).
THEOREM DeeperNeverHurtsAnyone == RetrievalSpec => []DeeperNeverHurts
<1>1. RetrievalInv => DeeperNeverHurts
  <2> SUFFICES ASSUME RetrievalInv, NEW k \in Sweep, NEW l \in Sweep, k < l,
                      NEW name \in {"hitRate", "recall", "mrr"}
               PROVE  /\ \A i \in DOMAIN sweep[k] : sweep[k][i][name] <= sweep[l][i][name]
                      /\ section # Null /\ section.nRanked > 0
                           => section.kSweep[k][name].mean <= section.kSweep[l][name].mean
    BY DEF DeeperNeverHurts
  <2>1. \A i \in DOMAIN sweep[k] : sweep[k][i][name] <= sweep[l][i][name]
    BY RowsGrow
  <2>2. ASSUME section # Null, section.nRanked > 0
        PROVE  section.kSweep[k][name].mean <= section.kSweep[l][name].mean
    <3>1. PICK n \in Nat \ {0} : n = Cardinality(Ranked)
      BY <2>2, FS_CardinalityType DEF RetrievalInv, Scored, Reported
    <3>2. /\ sweep[k] \in Seq(ScoreRows) /\ sweep[l] \in Seq(ScoreRows)
          /\ Len(sweep[k]) = n /\ Len(sweep[l]) = n /\ name \in MetricNames
      BY <3>1 DEF RetrievalInv, SeqsOK, Scored, MetricNames
    <3>3. PICK f : f = Column(sweep[k], name)
      OBVIOUS
    <3>4. PICK g : g = Column(sweep[l], name)
      OBVIOUS
    <3>5. \A i \in 1..n : f[i] = sweep[k][i][name] /\ g[i] = sweep[l][i][name]
      BY <3>2, <3>3, <3>4, ColumnOfRows
    <3>6. \A i \in 1..n : f[i] \in Nat /\ g[i] \in Nat /\ f[i] <= g[i]
      <4>1. DOMAIN sweep[k] = 1..n
        BY <3>2
      <4>2. \A i \in 1..n :
              /\ sweep[k][i][name] \in Nat /\ sweep[l][i][name] \in Nat
              /\ sweep[k][i][name] <= sweep[l][i][name]
        BY <4>1, RowsGrow
      <4>3. QED
        BY <3>5, <4>2
    <3>7. \A i \in 1..n : f[i] \in Int /\ g[i] \in Int /\ f[i] <= g[i]
      BY <3>6
    <3>8. IsFiniteSet(1..n)
      BY <3>1, FS_Interval
    <3>9. /\ SumFunctionOnSet(f, 1..n) \in Nat /\ SumFunctionOnSet(g, 1..n) \in Nat
          /\ SumFunctionOnSet(f, 1..n) <= SumFunctionOnSet(g, 1..n)
      BY <3>6, <3>7, <3>8, SumIsNatural, SumMonotone
    <3>10. SumFunctionOnSet(f, 1..n) \div n <= SumFunctionOnSet(g, 1..n) \div n
      BY <3>9, QuotientGrows
    <3>11. /\ Aggregate(sweep[k])[name].mean = SumFunctionOnSet(f, 1..n) \div n
           /\ Aggregate(sweep[l])[name].mean = SumFunctionOnSet(g, 1..n) \div n
      BY <3>2, <3>3, <3>4, MeanOfRows
    <3>12. /\ section.kSweep[k] = Aggregate(sweep[k])
           /\ section.kSweep[l] = Aggregate(sweep[l])
      BY <2>2 DEF RetrievalInv, Reported
    <3>13. QED
      BY <3>10, <3>11, <3>12
  <2>3. QED
    BY <2>1, <2>2
<1>2. QED
  BY <1>1, RetrievalInvHolds, PTL

-----------------------------------------------------------------------------
(* Calibration.                                                            *)

\* What is counted is a number of them.
LEMMA ErrorsAreCounted ==
    ASSUME NEW s \in Seq(Int), NEW t \in Int
    PROVE  /\ FalseRefusals(s, t) \in Nat /\ FalseAnswers(s, t) \in Nat
           /\ FalseRefusals(s, t) = Quantify(DOMAIN s, LAMBDA i : Refuses(s[i], t))
           /\ FalseAnswers(s, t) = Quantify(DOMAIN s, LAMBDA i : ~Refuses(s[i], t))
<1>1. IsFiniteSet(DOMAIN s) /\ \A i \in DOMAIN s : s[i] \in Int
  BY ElementsAreFinite
<1>2. { i \in DOMAIN s : s[i] >= t } = { i \in DOMAIN s : ~(s[i] < t) }
  BY <1>1
<1>3. \A T \in SUBSET DOMAIN s : Cardinality(T) \in Nat
  BY <1>1, FS_Subset, FS_CardinalityType
<1>4. { i \in DOMAIN s : s[i] >= t } \in SUBSET DOMAIN s
      /\ { i \in DOMAIN s : s[i] < t } \in SUBSET DOMAIN s
  OBVIOUS
<1>5. QED
  BY <1>2, <1>3, <1>4 DEF FalseRefusals, FalseAnswers, Quantify, Refuses

\* The best is one of them, and none is better.
LEMMA FirstBestIsBest ==
    ASSUME NEW S \in SUBSET Int, IsFiniteSet(S), S # {}, NEW score \in [S -> Int]
    PROVE  /\ FirstBest(S, score) \in S
           /\ \A u \in S : score[u] <= score[FirstBest(S, score)]
<1>1. PICK V : V = { score[t] : t \in S }
  OBVIOUS
<1>2. V \in SUBSET Int /\ V # {} /\ IsFiniteSet(V)
  BY <1>1, ImageCounts
<1>3. PICK best \in V : \A x \in V : x <= best
  BY <1>2, LargestInteger
<1>4. PICK B : B = { t \in S : \A u \in S : score[u] <= score[t] }
  OBVIOUS
<1>5. B # {} /\ B \in SUBSET S
  BY <1>1, <1>3, <1>4
<1>6. B \in SUBSET Int /\ IsFiniteSet(B)
  BY <1>5, FS_Subset
<1>7. Min(B) \in B
  BY <1>5, <1>6, LeastInteger
<1>8. QED
  BY <1>4, <1>7 DEF FirstBest

\* The distance to the nearest score of either class is that of the lowest and the
\* highest.
LEMMA NearestScores ==
    ASSUME NEW ins \in Seq(Int) \ {<<>>}, NEW outs \in Seq(Int) \ {<<>>}, NEW t \in Int
    PROVE  /\ Margin(ins, outs, t) \in Int
           /\ Margin(ins, outs, t) = Min({ ins[i] - t : i \in DOMAIN ins }
                                         \cup { t - outs[i] : i \in DOMAIN outs })
<1>1. /\ \A i \in DOMAIN ins : ins[i] \in Int
      /\ \A i \in DOMAIN outs : outs[i] \in Int
      /\ ToSet(ins) \in SUBSET Int /\ IsFiniteSet(ToSet(ins)) /\ ToSet(ins) # {}
      /\ ToSet(outs) \in SUBSET Int /\ IsFiniteSet(ToSet(outs)) /\ ToSet(outs) # {}
  BY ElementsAreFinite
<1>2. PICK low : low = Min(ToSet(ins))
  OBVIOUS
<1>3. PICK high : high = Max(ToSet(outs))
  OBVIOUS
<1>4. /\ low \in ToSet(ins) /\ \A x \in ToSet(ins) : low <= x
      /\ high \in ToSet(outs) /\ \A x \in ToSet(outs) : x <= high
  BY <1>1, <1>2, <1>3, LeastInteger, LargestInteger
<1>5. /\ low \in Int /\ high \in Int
      /\ \E i \in DOMAIN ins : ins[i] = low
      /\ \E i \in DOMAIN outs : outs[i] = high
      /\ \A i \in DOMAIN ins : low <= ins[i]
      /\ \A i \in DOMAIN outs : outs[i] <= high
  BY <1>1, <1>4 DEF ToSet
<1>6. PICK m : m = IF low - t <= t - high THEN low - t ELSE t - high
  OBVIOUS
<1>7. Min({low - t, t - high}) = m /\ m \in Int
  <2>1. /\ {low - t, t - high} \in SUBSET Int /\ m \in {low - t, t - high}
        /\ \A x \in {low - t, t - high} : m <= x
    BY <1>5, <1>6
  <2>2. QED
    BY <2>1, MinIs
<1>8. PICK D : D = { ins[i] - t : i \in DOMAIN ins } \cup { t - outs[i] : i \in DOMAIN outs }
  OBVIOUS
<1>9. Min(D) = m
  <2>1. D \in SUBSET Int
    BY <1>1, <1>8
  <2>2. m \in D
    BY <1>5, <1>6, <1>8
  <2>3. \A i \in DOMAIN ins : m <= ins[i] - t
    BY <1>1, <1>5, <1>6
  <2>4. \A i \in DOMAIN outs : m <= t - outs[i]
    BY <1>1, <1>5, <1>6
  <2>5. \A x \in D : m <= x
    BY <1>8, <2>3, <2>4
  <2>6. QED
    BY <2>1, <2>2, <2>5, MinIs
<1>10. QED
  BY <1>2, <1>3, <1>7, <1>8, <1>9 DEF Margin

\* What the choice is, in terms of the sweep.
LEMMA ChoiceIsBest ==
    ASSUME NEW ins \in Seq(Int) \ {<<>>}, NEW outs \in Seq(Int) \ {<<>>}
    PROVE  LET tau == ChosenTau(ins, outs)
               eligible == { t \in ToSet(Candidates) : WithinBudget(ins, t) }
           IN  /\ tau \in ToSet(Candidates)
               /\ eligible = {} => \A t \in ToSet(Candidates) :
                                      FalseRefusals(ins, tau) <= FalseRefusals(ins, t)
               /\ eligible # {} =>
                    /\ tau \in eligible
                    /\ \A t \in eligible :
                         /\ Errors(ins, outs, tau) <= Errors(ins, outs, t)
                         /\ Errors(ins, outs, tau) = Errors(ins, outs, t)
                              => Margin(ins, outs, t) <= Margin(ins, outs, tau)
<1>1. PICK all : all = ToSet(Candidates)
  OBVIOUS
<1>2. all \in SUBSET Int /\ IsFiniteSet(all) /\ all # {}
  BY <1>1, CandidatesAssumption, ElementsAreFinite
<1>3. PICK eligible : eligible = { t \in all : WithinBudget(ins, t) }
  OBVIOUS
<1>4. PICK tau : tau = ChosenTau(ins, outs)
  OBVIOUS
<1>5. \A t \in all : /\ FalseRefusals(ins, t) \in Nat /\ Errors(ins, outs, t) \in Nat
                     /\ Margin(ins, outs, t) \in Int
  <2> SUFFICES ASSUME NEW t \in all
               PROVE  /\ FalseRefusals(ins, t) \in Nat /\ Errors(ins, outs, t) \in Nat
                      /\ Margin(ins, outs, t) \in Int
    OBVIOUS
  <2>1. t \in Int
    BY <1>2
  <2>2. FalseRefusals(ins, t) \in Nat /\ FalseAnswers(outs, t) \in Nat
    BY <2>1, ErrorsAreCounted
  <2>3. Margin(ins, outs, t) \in Int
    BY <2>1, NearestScores
  <2>4. QED
    BY <2>2, <2>3 DEF Errors
<1>6. CASE eligible = {}
  <2>1. PICK score : score = [t \in all |-> -FalseRefusals(ins, t)]
    OBVIOUS
  <2>2. tau = FirstBest(all, score)
    BY <1>1, <1>3, <1>4, <1>6, <2>1 DEF ChosenTau
  <2>3. score \in [all -> Int]
    BY <1>5, <2>1
  <2>4. tau \in all /\ \A u \in all : score[u] <= score[tau]
    BY <1>2, <2>2, <2>3, FirstBestIsBest
  <2>5. \A u \in all : FalseRefusals(ins, tau) <= FalseRefusals(ins, u)
    BY <1>5, <2>1, <2>4
  <2>6. QED
    BY <1>1, <1>3, <1>4, <1>6, <2>4, <2>5
<1>7. CASE eligible # {}
  <2>1. PICK top : top = { t \in eligible : \A u \in eligible :
                             Errors(ins, outs, t) <= Errors(ins, outs, u) }
    OBVIOUS
  <2>2. PICK errors : errors = [t \in eligible |-> -Errors(ins, outs, t)]
    OBVIOUS
  <2>3. eligible \in SUBSET Int /\ IsFiniteSet(eligible) /\ errors \in [eligible -> Int]
    <3>1. eligible \in SUBSET all
      BY <1>3
    <3>2. \A t \in eligible : -Errors(ins, outs, t) \in Int
      BY <1>5, <3>1
    <3>3. QED
      BY <1>2, <2>2, <3>1, <3>2, FS_Subset
  <2>4. PICK least \in eligible : \A u \in eligible : errors[u] <= errors[least]
    BY <1>7, <2>3, FirstBestIsBest
  <2>5. \A u \in eligible : Errors(ins, outs, least) <= Errors(ins, outs, u)
    BY <1>3, <1>5, <2>2, <2>4
  <2>6. top # {} /\ top \in SUBSET eligible
    BY <2>1, <2>5
  <2>7. PICK score : score = [t \in top |-> Margin(ins, outs, t)]
    OBVIOUS
  <2>8. score \in [top -> Int] /\ top \in SUBSET Int /\ IsFiniteSet(top)
    BY <1>3, <1>5, <2>3, <2>6, <2>7, FS_Subset
  <2>9. tau = FirstBest(top, score)
    BY <1>1, <1>3, <1>4, <1>7, <2>1, <2>7 DEF ChosenTau
  <2>10. tau \in top /\ \A u \in top : score[u] <= score[tau]
    BY <2>6, <2>8, <2>9, FirstBestIsBest
  <2>11. tau \in eligible /\ tau \in all
    BY <1>3, <2>6, <2>10
  <2>12. ASSUME NEW t \in eligible
         PROVE  /\ Errors(ins, outs, tau) <= Errors(ins, outs, t)
                /\ Errors(ins, outs, tau) = Errors(ins, outs, t)
                     => Margin(ins, outs, t) <= Margin(ins, outs, tau)
    <3>1. \A u \in eligible : Errors(ins, outs, tau) <= Errors(ins, outs, u)
      BY <2>1, <2>10
    <3>2. ASSUME Errors(ins, outs, tau) = Errors(ins, outs, t) PROVE t \in top
      BY <2>1, <3>1, <3>2
    <3>3. QED
      BY <2>7, <2>10, <3>1, <3>2
  <2>13. QED
    BY <1>1, <1>3, <1>4, <1>7, <2>11, <2>12
<1>8. QED
  BY <1>6, <1>7

\* What has been returned is what was computed of the input.
ReturnInv ==
    /\ input \in Inputs
    /\ output # NotYet => output.kind = input.kind
    /\ output.kind \in {"none", "normalize", "split", "calibrate", "f1", "local", "cost"}
    /\ output.kind = "normalize" => output.value = NormalizeText(input.pages)
    /\ output.kind = "split" =>
          output.value = SplitText(input.text, input.window[1], input.window[2])
    /\ output.kind = "cost" =>
          output.value = [scales |-> [v \in Scales |-> ScaleCost(v, input.queries)],
                          sensitivity |-> [m \in {1, 10, 100} |-> SensitivityRow(10000, m)]]
    /\ output.kind = "calibrate" => output.value = ChosenTau(input.inScores, input.outScores)
    /\ output.kind = "f1" => output.value = TokenF1(input.prediction, input.gold)
    /\ output.kind = "local" => \E relevance \in Int :
          output.value = JudgeAnswerLocally(input.answer, input.context, relevance)

LEMMA ReturnInvHolds == ComputationsSpec => []ReturnInv
<1>1. ComputationsInit => ReturnInv
  BY DEF ComputationsInit, ReturnInv, NotYet
<1>2. ReturnInv /\ [ComputationsNext]_computationsVars => ReturnInv'
  <2> SUFFICES ASSUME ReturnInv, [ComputationsNext]_computationsVars PROVE ReturnInv'
    OBVIOUS
  <2>1. CASE Calibrate
    BY <2>1 DEF Calibrate, Asked, Return, ReturnInv
  <2>2. CASE ScoreAnswer
    BY <2>2 DEF ScoreAnswer, Asked, Return, ReturnInv
  <2>3. ASSUME NEW relevance \in {34, 35, 80}, Judge(relevance) PROVE ReturnInv'
    BY <2>3 DEF Judge, Asked, Return, ReturnInv
  <2>4. CASE Normalize
    BY <2>4 DEF Normalize, Asked, Return, ReturnInv
  <2>5. CASE Split
    BY <2>5 DEF Split, Asked, Return, ReturnInv
  <2>6. CASE Compare
    BY <2>6 DEF Compare, Asked, Return, ReturnInv
  <2>7. CASE UNCHANGED computationsVars
    BY <2>7 DEF computationsVars, ReturnInv
  <2>8. QED
    BY <2>1, <2>2, <2>3, <2>4, <2>5, <2>6, <2>7 DEF ComputationsNext
<1>3. QED
  BY <1>1, <1>2, PTL DEF ComputationsSpec

\* Whatever the probes score and the candidates are, the chosen threshold makes the
\* gate err as little as any candidate within the budget of false refusals, as far
\* from both classes as any that errs as little, and when none is within the budget
\* it refuses least (calibrate_threshold.main).
THEOREM ThresholdIsBest == ComputationsSpec => []ChosenTauIsBest
<1>1. ReturnInv => ChosenTauIsBest
  <2> SUFFICES ASSUME ReturnInv, output.kind = "calibrate" PROVE ChosenTauIsBest
    BY DEF ChosenTauIsBest
  <2>1. input.kind = "calibrate" /\ output.value = ChosenTau(input.inScores, input.outScores)
    BY DEF ReturnInv, NotYet
  <2>2. input.inScores \in InScores /\ input.outScores \in OutScores
    BY <2>1 DEF ReturnInv, Inputs
  <2>3. PICK ins, outs, tau :
           ins = input.inScores /\ outs = input.outScores /\ tau = output.value
    OBVIOUS
  <2>4. ins \in Seq(Int) \ {<<>>} /\ outs \in Seq(Int) \ {<<>>}
    BY <2>2, <2>3, ScoresAssumption
  <2>5. PICK all : all = ToSet(Candidates)
    OBVIOUS
  <2>6. \A t \in all : t \in Int
    BY <2>5, CandidatesAssumption, ElementsAreFinite
  <2>7. \A t \in all :
           /\ Wrong(t).refused = FalseRefusals(ins, t)
           /\ Wrong(t).answered = FalseAnswers(outs, t)
           /\ Apart(t) = Margin(ins, outs, t)
    <3> SUFFICES ASSUME NEW t \in all
                 PROVE  /\ Wrong(t).refused = FalseRefusals(ins, t)
                        /\ Wrong(t).answered = FalseAnswers(outs, t)
                        /\ Apart(t) = Margin(ins, outs, t)
      OBVIOUS
    <3>1. t \in Int
      BY <2>6
    <3>2. Wrong(t).refused = FalseRefusals(ins, t)
      BY <2>3, <2>4, <3>1, ErrorsAreCounted DEF Wrong
    <3>3. Wrong(t).answered = FalseAnswers(outs, t)
      BY <2>3, <2>4, <3>1, ErrorsAreCounted DEF Wrong
    <3>4. Apart(t) = Margin(ins, outs, t)
      BY <2>3, <2>4, <3>1, NearestScores DEF Apart
    <3>5. QED
      BY <3>2, <3>3, <3>4
  <2>8. \A t \in all :
           /\ Affordable(t) <=> WithinBudget(ins, t)
           /\ Wrong(t).refused + Wrong(t).answered = Errors(ins, outs, t)
    BY <2>3, <2>7 DEF Affordable, WithinBudget, Errors
  <2>9. PICK affordable : affordable = { t \in all : Affordable(t) }
    OBVIOUS
  <2>10. affordable = { t \in all : WithinBudget(ins, t) }
    BY <2>8, <2>9
  <2>11. /\ tau \in all
         /\ affordable = {} => \A t \in all : FalseRefusals(ins, tau) <= FalseRefusals(ins, t)
         /\ affordable # {} =>
              /\ tau \in affordable
              /\ \A t \in affordable :
                   /\ Errors(ins, outs, tau) <= Errors(ins, outs, t)
                   /\ Errors(ins, outs, tau) = Errors(ins, outs, t)
                        => Margin(ins, outs, t) <= Margin(ins, outs, tau)
    BY <2>1, <2>3, <2>4, <2>5, <2>10, ChoiceIsBest
  <2>12. affordable = {} => \A t \in all : Wrong(tau).refused <= Wrong(t).refused
    BY <2>7, <2>11
  <2>13. ASSUME affordable # {}, NEW t \in affordable
         PROVE  /\ Wrong(tau).refused + Wrong(tau).answered
                     <= Wrong(t).refused + Wrong(t).answered
                /\ Wrong(tau).refused + Wrong(tau).answered
                     = Wrong(t).refused + Wrong(t).answered => Apart(t) <= Apart(tau)
    <3>1. t \in all
      BY <2>9
    <3>2. QED
      BY <2>7, <2>8, <2>11, <2>13, <3>1
  <2>14. QED
    BY <2>3, <2>5, <2>9, <2>11, <2>12, <2>13 DEF ChosenTauIsBest
<1>2. QED
  BY <1>1, ReturnInvHolds, PTL

-----------------------------------------------------------------------------
(* Sequences without some of their elements.                               *)

\* Induction over sequences, of a set instead of a predicate.
LEMMA SequenceInduction ==
    ASSUME NEW X, NEW P, <<>> \in P,
           \A s \in Seq(X) : \A x \in X : s \in P => Append(s, x) \in P
    PROVE  Seq(X) \subseteq P
<1> DEFINE N == { n \in Nat : \A s \in Seq(X) : Len(s) = n => s \in P }
<1>1. 0 \in N
  OBVIOUS
<1>2. ASSUME NEW n \in Nat, n \in N PROVE n + 1 \in N
  <2> SUFFICES ASSUME NEW s \in Seq(X), Len(s) = n + 1 PROVE s \in P
    OBVIOUS
  <2>1. PICK t \in Seq(X), x \in X : s = Append(t, x)
    BY SequenceEmptyOrAppend
  <2>2. Len(t) = n
    BY <2>1, AppendProperties
  <2>3. QED
    BY <1>2, <2>1, <2>2
<1>3. Nat \subseteq N
  <2> HIDE DEF N
  <2>1. QED
    BY <1>1, <1>2, NaturalInduction
<1>4. \A s \in Seq(X) : Len(s) \in Nat
  OBVIOUS
<1>5. QED
  BY <1>3, <1>4

\* What is kept of `s` at the places `u`, given what is kept without the last.
Kept(s, D, g, u) ==
    IF u = {} THEN <<>>
    ELSE IF s[Max(u)] \in D THEN g[u \ {Max(u)}]
    ELSE Append(g[u \ {Max(u)}], s[Max(u)])

\* The recursion by which Without drops.
Keeping(s, D, g, U) == g = [u \in U |-> Kept(s, D, g, u)]

\* The last of some places.
LEMMA LastPlace ==
    ASSUME NEW n \in Nat, NEW u \in SUBSET (1..n), u # {}
    PROVE  /\ Max(u) \in u /\ \A i \in u : i <= Max(u)
           /\ u \ {Max(u)} \in SUBSET (1..n)
           /\ n \in u => Max(u) = n
<1>1. u \in SUBSET Int /\ IsFiniteSet(u)
  <2>1. IsFiniteSet(1..n)
    BY FS_Interval
  <2>2. IsFiniteSet(u)
    BY <2>1, FS_Subset
  <2>3. QED
    BY <2>2
<1>2. Max(u) \in u /\ \A i \in u : i <= Max(u)
  BY <1>1, LargestInteger
<1>3. ASSUME n \in u PROVE Max(u) = n
  <2>1. Max(u) \in 1..n /\ n <= Max(u)
    BY <1>2, <1>3
  <2>2. QED
    BY <2>1
<1>4. QED
  BY <1>2, <1>3

\* The recursion has a solution.
LEMMA KeepingExists ==
    ASSUME NEW s, NEW D, NEW n \in Nat
    PROVE  \E g : Keeping(s, D, g, SUBSET (1..n))
<1> DEFINE N == { k \in Nat : \E g : Keeping(s, D, g, SUBSET (1..k)) }
<1>1. 0 \in N
  <2>1. PICK U : U = SUBSET (1..0)
    OBVIOUS
  <2>2. \A u \in U : u = {}
    BY <2>1
  <2>3. PICK g : g = [u \in U |-> <<>>]
    OBVIOUS
  <2>4. \A u \in U : Kept(s, D, g, u) = <<>>
    BY <2>2 DEF Kept
  <2>5. Keeping(s, D, g, U)
    BY <2>3, <2>4 DEF Keeping
  <2>6. QED
    BY <2>1, <2>5
<1>2. ASSUME NEW k \in Nat, k \in N PROVE k + 1 \in N
  <2>1. PICK g : Keeping(s, D, g, SUBSET (1..k))
    BY <1>2
  <2>2. PICK h : h = [u \in SUBSET (1..(k + 1)) |->
                        IF k + 1 \in u THEN Kept(s, D, g, u) ELSE g[u]]
    OBVIOUS
  <2>3. ASSUME NEW u \in SUBSET (1..(k + 1)) PROVE h[u] = Kept(s, D, h, u)
    <3>1. CASE u = {}
      BY <2>1, <2>2, <3>1 DEF Keeping, Kept
    <3>2. CASE u # {}
      <4>1. PICK m : m = Max(u)
        OBVIOUS
      <4>2. PICK v : v = u \ {m}
        OBVIOUS
      <4>3. /\ v \in SUBSET (1..(k + 1)) /\ m \in 1..(k + 1)
            /\ k + 1 \in u => m = k + 1
        <5>1. k + 1 \in Nat
          OBVIOUS
        <5>2. QED
          BY <3>2, <4>1, <4>2, <5>1, LastPlace
      <4>4. v \in SUBSET (1..k) /\ k + 1 \notin v
        BY <4>2, <4>3
      <4>5. h[v] = g[v]
        BY <2>2, <4>3, <4>4
      <4>6. Kept(s, D, h, u) = Kept(s, D, g, u)
        BY <4>1, <4>2, <4>5 DEF Kept
      <4>7. CASE k + 1 \in u
        BY <2>2, <4>6, <4>7
      <4>8. CASE k + 1 \notin u
        <5>1. u \in SUBSET (1..k)
          BY <4>8
        <5>2. g[u] = Kept(s, D, g, u)
          BY <2>1, <5>1 DEF Keeping
        <5>3. QED
          BY <2>2, <4>6, <4>8, <5>2
      <4>9. QED
        BY <4>7, <4>8
    <3>3. QED
      BY <3>1, <3>2
  <2>4. Keeping(s, D, h, SUBSET (1..(k + 1)))
    BY <2>2, <2>3 DEF Keeping
  <2>5. QED
    BY <2>4
<1>3. QED
  <2> HIDE DEF N
  <2>1. n \in N
    BY <1>1, <1>2, NaturalInduction
  <2>2. QED
    BY <2>1 DEF N

\* A sequence of something.
IsList(s) == \E n \in Nat : DOMAIN s = 1..n

\* Where a sequence goes on as another, so does what is kept of it.
LEMMA KeepingAgrees ==
    ASSUME NEW s, NEW t, NEW D, NEW g, NEW h, IsList(s),
           Keeping(s, D, g, SUBSET DOMAIN s), Keeping(t, D, h, SUBSET DOMAIN t),
           DOMAIN s \subseteq DOMAIN t, \A i \in DOMAIN s : s[i] = t[i]
    PROVE  g[DOMAIN s] = h[DOMAIN s]
<1>1. PICK n \in Nat : DOMAIN s = 1..n
  BY DEF IsList
<1> DEFINE N == { k \in Nat : k <= n => g[1..k] = h[1..k] }
<1>2. 0 \in N
  <2>1. PICK none : none = 1..0
    OBVIOUS
  <2>2. none = {} /\ none \in SUBSET DOMAIN s /\ none \in SUBSET DOMAIN t
    BY <2>1
  <2>3. g[none] = <<>> /\ h[none] = <<>>
    BY <2>2 DEF Keeping, Kept
  <2>4. QED
    BY <2>1, <2>3
<1>3. ASSUME NEW k \in Nat, k \in N PROVE k + 1 \in N
  <2> SUFFICES ASSUME k + 1 <= n PROVE g[1..(k + 1)] = h[1..(k + 1)]
    OBVIOUS
  <2>1. PICK u : u = 1..(k + 1)
    OBVIOUS
  <2>2. PICK m : m = k + 1
    OBVIOUS
  <2>3. m \in Nat /\ u \in SUBSET (1..m) /\ u # {} /\ m \in u
    BY <2>1, <2>2
  <2>4. Max(u) = m
    BY <2>3, LastPlace
  <2>5. u \ {m} = 1..k
    BY <2>1, <2>2
  <2>6. g[1..k] = h[1..k]
    BY <1>3
  <2>7. u \subseteq DOMAIN s
    BY <1>1, <2>1
  <2>8. s[m] = t[m]
    BY <2>3, <2>7
  <2>9. Kept(s, D, g, u) = Kept(t, D, h, u)
    BY <2>4, <2>5, <2>6, <2>8 DEF Kept
  <2>10. g[u] = Kept(s, D, g, u) /\ h[u] = Kept(t, D, h, u)
    BY <2>7 DEF Keeping
  <2>11. QED
    BY <2>1, <2>9, <2>10
<1>4. QED
  <2> HIDE DEF N
  <2>1. n \in N
    BY <1>2, <1>3, NaturalInduction
  <2>2. QED
    BY <1>1, <2>1 DEF N

\* Without is what its recursion gives.
LEMMA WithoutUnfold ==
    ASSUME NEW s, NEW D
    PROVE  Without(s, D) = (CHOOSE g : Keeping(s, D, g, SUBSET DOMAIN s))[DOMAIN s]
BY DEF Without, FoldLeft, MapThenFoldSet, Keeping, Kept

\* So is it of any sequence.
LEMMA WithoutBy ==
    ASSUME NEW X, NEW s \in Seq(X), NEW D
    PROVE  /\ IsList(s)
           /\ \E g : Keeping(s, D, g, SUBSET DOMAIN s) /\ Without(s, D) = g[DOMAIN s]
<1>1. DOMAIN s = 1..Len(s) /\ Len(s) \in Nat
  OBVIOUS
<1>2. PICK g : g = CHOOSE h : Keeping(s, D, h, SUBSET DOMAIN s)
  OBVIOUS
<1>3. Keeping(s, D, g, SUBSET DOMAIN s)
  BY <1>1, <1>2, KeepingExists
<1>4. QED
  BY <1>1, <1>2, <1>3, WithoutUnfold DEF IsList

\* Without an element at a time.
LEMMA WithoutAppend ==
    ASSUME NEW X, NEW s \in Seq(X), NEW x \in X, NEW D
    PROVE  /\ Without(<<>>, D) = <<>>
           /\ Without(Append(s, x), D)
                 = IF x \in D THEN Without(s, D) ELSE Append(Without(s, D), x)
<1>1. Without(<<>>, D) = <<>>
  <2>1. <<>> \in Seq(X) /\ DOMAIN <<>> = {}
    OBVIOUS
  <2>2. PICK none : none = <<>>
    OBVIOUS
  <2>3. PICK g : Keeping(none, D, g, SUBSET DOMAIN none) /\ Without(none, D) = g[DOMAIN none]
    BY <2>1, <2>2, WithoutBy
  <2>4. QED
    BY <2>1, <2>2, <2>3 DEF Keeping, Kept
<1>2. PICK t : t = Append(s, x)
  OBVIOUS
<1>3. PICK m : m = Len(s) + 1
  OBVIOUS
<1>4. /\ t \in Seq(X) /\ m \in Nat /\ m >= 1 /\ DOMAIN t = 1..m /\ t[m] = x
      /\ DOMAIN s = 1..(m - 1) /\ \A i \in DOMAIN s : s[i] = t[i]
  <2>1. /\ t \in Seq(X) /\ Len(t) = Len(s) + 1 /\ t[Len(s) + 1] = x
        /\ \A i \in 1..Len(s) : s[i] = t[i]
    BY <1>2, AppendProperties
  <2>2. DOMAIN s = 1..Len(s) /\ Len(s) \in Nat /\ DOMAIN t = 1..Len(t)
    BY <2>1, LenProperties
  <2>3. QED
    BY <1>3, <2>1, <2>2
<1>5. PICK g : Keeping(s, D, g, SUBSET DOMAIN s) /\ Without(s, D) = g[DOMAIN s]
  BY WithoutBy
<1>6. PICK h : Keeping(t, D, h, SUBSET DOMAIN t) /\ Without(t, D) = h[DOMAIN t]
  BY <1>4, WithoutBy
<1>7. DOMAIN s \subseteq DOMAIN t
  BY <1>4
<1>8. g[DOMAIN s] = h[DOMAIN s]
  <2>1. IsList(s)
    BY WithoutBy
  <2>2. \A i \in DOMAIN s : s[i] = t[i]
    BY <1>4
  <2>3. QED
    BY <1>5, <1>6, <1>7, <2>1, <2>2, KeepingAgrees
<1>9. PICK u : u = DOMAIN t
  OBVIOUS
<1>10. u \in SUBSET (1..m) /\ u # {} /\ m \in u /\ u \ {m} = DOMAIN s
  BY <1>4, <1>9
<1>11. Max(u) = m
  BY <1>4, <1>10, LastPlace
<1>12. h[u] = Kept(t, D, h, u)
  BY <1>6, <1>9 DEF Keeping
<1>13. h[u] = IF x \in D THEN h[DOMAIN s] ELSE Append(h[DOMAIN s], x)
  BY <1>4, <1>10, <1>11, <1>12 DEF Kept
<1>14. QED
  BY <1>1, <1>2, <1>5, <1>6, <1>8, <1>9, <1>13

\* The elements of a sequence and one more.
LEMMA AppendedElements ==
    ASSUME NEW X, NEW s \in Seq(X), NEW x \in X
    PROVE  ToSet(Append(s, x)) = ToSet(s) \cup {x}
<1>1. PICK t : t = Append(s, x)
  OBVIOUS
<1>2. PICK n : n = Len(s)
  OBVIOUS
<1>3. /\ n \in Nat /\ DOMAIN s = 1..n /\ DOMAIN t = 1..(n + 1) /\ t[n + 1] = x
      /\ \A i \in 1..n : t[i] = s[i]
  <2>1. t \in Seq(X) /\ Len(t) = n + 1 /\ t[n + 1] = x /\ \A i \in 1..n : t[i] = s[i]
    BY <1>1, <1>2, AppendProperties
  <2>2. DOMAIN s = 1..n /\ n \in Nat /\ DOMAIN t = 1..Len(t)
    BY <1>2, <2>1, LenProperties
  <2>3. QED
    BY <2>1, <2>2
<1>4. ToSet(t) \subseteq ToSet(s) \cup {x}
  <2> SUFFICES ASSUME NEW i \in DOMAIN t PROVE t[i] \in ToSet(s) \cup {x}
    BY DEF ToSet
  <2>1. i \in 1..n \/ i = n + 1
    BY <1>3
  <2>2. QED
    BY <1>3, <2>1 DEF ToSet
<1>5. ToSet(s) \subseteq ToSet(t)
  <2> SUFFICES ASSUME NEW i \in DOMAIN s PROVE s[i] \in ToSet(t)
    BY DEF ToSet
  <2>1. i \in DOMAIN t /\ t[i] = s[i]
    BY <1>3
  <2>2. QED
    BY <2>1 DEF ToSet
<1>6. x \in ToSet(t)
  BY <1>3 DEF ToSet
<1>7. QED
  BY <1>1, <1>4, <1>5, <1>6

\* What is left has none of the dropped and all of the others.
LEMMA WithoutElements ==
    ASSUME NEW X, NEW D
    PROVE  \A s \in Seq(X) :
              Without(s, D) \in Seq(X \ D) /\ ToSet(Without(s, D)) = ToSet(s) \ D
<1> DEFINE P == { s \in Seq(X) : Without(s, D) \in Seq(X \ D)
                                  /\ ToSet(Without(s, D)) = ToSet(s) \ D }
<1>1. <<>> \in P
  <2>1. PICK none : none = <<>>
    OBVIOUS
  <2>2. none \in Seq(X) /\ none \in Seq(X \ D) /\ DOMAIN none = {}
    BY <2>1
  <2>3. Without(none, D) = none
    <3>1. CASE X = {}
      <4>1. PICK g : Keeping(none, D, g, SUBSET DOMAIN none) /\ Without(none, D) = g[DOMAIN none]
        BY <2>2, WithoutBy
      <4>2. QED
        BY <2>1, <2>2, <4>1 DEF Keeping, Kept
    <3>2. CASE X # {}
      <4>1. PICK x \in X : TRUE
        BY <3>2
      <4>2. QED
        BY <2>1, <2>2, <4>1, WithoutAppend
    <3>3. QED
      BY <3>1, <3>2
  <2>4. ToSet(none) = {}
    BY <2>2 DEF ToSet
  <2>5. QED
    BY <2>1, <2>2, <2>3, <2>4
<1>2. ASSUME NEW s \in Seq(X), NEW x \in X, s \in P PROVE Append(s, x) \in P
  <2>1. Append(s, x) \in Seq(X) /\ ToSet(Append(s, x)) = ToSet(s) \cup {x}
    BY AppendProperties, AppendedElements
  <2>2. PICK w : w = Without(s, D)
    OBVIOUS
  <2>3. w \in Seq(X \ D) /\ ToSet(w) = ToSet(s) \ D
    BY <1>2, <2>2
  <2>4. CASE x \in D
    <3>1. Without(Append(s, x), D) = w
      BY <2>2, <2>4, WithoutAppend
    <3>2. QED
      BY <2>1, <2>3, <2>4, <3>1
  <2>5. CASE x \notin D
    <3>1. Without(Append(s, x), D) = Append(w, x)
      BY <2>2, <2>5, WithoutAppend
    <3>2. Append(w, x) \in Seq(X \ D) /\ ToSet(Append(w, x)) = ToSet(w) \cup {x}
      <4>1. x \in X \ D
        BY <2>5
      <4>2. QED
        BY <2>3, <4>1, AppendProperties, AppendedElements
    <3>3. QED
      BY <2>1, <2>3, <2>5, <3>1, <3>2
  <2>6. QED
    BY <2>4, <2>5
<1>3. Seq(X) \subseteq P
  <2> HIDE DEF P
  <2>1. QED
    BY <1>1, <1>2, SequenceInduction
<1>4. QED
  BY <1>3

\* The sum of `F` along a sequence.
Along(F, s) == SumFunctionOnSet([i \in DOMAIN s |-> F[s[i]]], DOMAIN s)

\* It is a number.
LEMMA AlongIsInteger ==
    ASSUME NEW X, NEW F \in [X -> Int], NEW s \in Seq(X)
    PROVE  Along(F, s) \in Int
<1>1. IsFiniteSet(DOMAIN s) /\ \A i \in DOMAIN s : s[i] \in X
  BY ElementsAreFinite
<1>2. PICK f : f = [i \in DOMAIN s |-> F[s[i]]]
  OBVIOUS
<1>3. \A i \in DOMAIN s : f[i] \in Int
  BY <1>1, <1>2
<1>4. SumFunctionOnSet(f, DOMAIN s) \in Int
  BY <1>1, <1>3, SumType
<1>5. QED
  BY <1>2, <1>4 DEF Along

\* One more element adds what it counts.
LEMMA AlongAppend ==
    ASSUME NEW X, NEW F \in [X -> Int], NEW s \in Seq(X), NEW x \in X
    PROVE  Along(F, <<>>) = 0 /\ Along(F, Append(s, x)) = Along(F, s) + F[x]
<1>1. Along(F, <<>>) = 0
  <2>1. PICK none : none = <<>>
    OBVIOUS
  <2>2. DOMAIN none = {}
    BY <2>1
  <2>3. Along(F, none) = 0
    BY <2>2, SumOfNone DEF Along
  <2>4. QED
    BY <2>1, <2>3
<1>2. PICK t : t = Append(s, x)
  OBVIOUS
<1>3. PICK m : m = Len(s) + 1
  OBVIOUS
<1>4. /\ t \in Seq(X) /\ m \in DOMAIN t /\ t[m] = x /\ DOMAIN t \ {m} = DOMAIN s
      /\ \A i \in DOMAIN s : t[i] = s[i] /\ s[i] \in X
  <2>1. /\ t \in Seq(X) /\ Len(t) = Len(s) + 1 /\ t[Len(s) + 1] = x
        /\ \A i \in 1..Len(s) : t[i] = s[i]
    BY <1>2, AppendProperties
  <2>2. DOMAIN s = 1..Len(s) /\ Len(s) \in Nat /\ DOMAIN t = 1..Len(t)
    BY <2>1, LenProperties
  <2>3. QED
    BY <1>3, <2>1, <2>2
<1>5. PICK f : f = [i \in DOMAIN t |-> F[t[i]]]
  OBVIOUS
<1>6. PICK g : g = [i \in DOMAIN s |-> F[s[i]]]
  OBVIOUS
<1>7. IsFiniteSet(DOMAIN t) /\ IsFiniteSet(DOMAIN s) /\ \A i \in DOMAIN t : t[i] \in X
  BY <1>4, ElementsAreFinite
<1>8. \A i \in DOMAIN t : f[i] \in Int
  BY <1>5, <1>7
<1>9. SumFunctionOnSet(f, DOMAIN t) = f[m] + SumFunctionOnSet(f, DOMAIN s)
  <2>1. PICK S : S = DOMAIN t
    OBVIOUS
  <2>2. m \in S /\ IsFiniteSet(S) /\ \A i \in S : f[i] \in Int
    BY <1>4, <1>7, <1>8, <2>1
  <2>3. SumFunctionOnSet(f, S) = f[m] + SumFunctionOnSet(f, S \ {m})
    BY <2>2, SumByAny
  <2>4. QED
    BY <1>4, <2>1, <2>3
<1>10. \A i \in DOMAIN s : g[i] \in Int /\ f[i] = g[i]
  BY <1>4, <1>5, <1>6
<1>11. SumFunctionOnSet(g, DOMAIN s) = SumFunctionOnSet(f, DOMAIN s)
  BY <1>7, <1>10, SumExtensional
<1>12. f[m] = F[x]
  BY <1>4, <1>5
<1>13. Along(F, t) = SumFunctionOnSet(f, DOMAIN t) /\ Along(F, s) = SumFunctionOnSet(g, DOMAIN s)
  BY <1>5, <1>6 DEF Along
<1>14. F[x] \in Int /\ SumFunctionOnSet(g, DOMAIN s) \in Int
  BY <1>7, <1>10, SumType
<1>15. QED
  BY <1>1, <1>2, <1>9, <1>11, <1>12, <1>13, <1>14

\* What is dropped counts nothing.
Masked(F, D) == [x \in DOMAIN F |-> IF x \in D THEN 0 ELSE F[x]]

\* The sum without them is the sum of what they do not count in.
LEMMA AlongWithout ==
    ASSUME NEW X, NEW D, NEW F \in [X -> Int]
    PROVE  \A s \in Seq(X) : Along(F, Without(s, D)) = Along(Masked(F, D), s)
<1> DEFINE P == { s \in Seq(X) : Along(F, Without(s, D)) = Along(Masked(F, D), s) }
<1>1. Masked(F, D) \in [X -> Int]
  BY DEF Masked
<1>2. PICK G : G = Masked(F, D)
  OBVIOUS
<1>3. <<>> \in P
  <2>1. CASE X = {}
    <3>1. PICK none : none = <<>>
      OBVIOUS
    <3>2. none \in Seq(X) /\ DOMAIN none = {}
      BY <3>1
    <3>3. ToSet(none) = {} /\ Without(none, D) \in Seq(X \ D)
      BY <3>2, WithoutElements DEF ToSet
    <3>4. Without(none, D) = none
      BY <2>1, <3>1, <3>3
    <3>5. Along(F, none) = 0 /\ Along(Masked(F, D), none) = 0
      BY <3>2, SumOfNone DEF Along
    <3>6. QED
      BY <3>1, <3>2, <3>4, <3>5
  <2>2. CASE X # {}
    <3>1. PICK x \in X : TRUE
      BY <2>2
    <3>2. <<>> \in Seq(X)
      OBVIOUS
    <3>3. Without(<<>>, D) = <<>>
      BY <3>1, <3>2, WithoutAppend
    <3>4. Along(F, <<>>) = 0 /\ Along(Masked(F, D), <<>>) = 0
      BY <1>1, <3>1, <3>2, AlongAppend
    <3>5. QED
      BY <3>2, <3>3, <3>4
  <2>3. QED
    BY <2>1, <2>2
<1>4. ASSUME NEW s \in Seq(X), NEW x \in X, s \in P PROVE Append(s, x) \in P
  <2>1. Append(s, x) \in Seq(X)
    BY AppendProperties
  <2>2. PICK w : w = Without(s, D)
    OBVIOUS
  <2>3. w \in Seq(X) /\ Along(F, w) = Along(G, s)
    <3>1. w \in Seq(X \ D)
      BY <2>2, WithoutElements
    <3>2. w \in Seq(X)
      BY <3>1, SeqMonotonic
    <3>3. QED
      BY <1>2, <1>4, <2>2, <3>2
  <2>4. Along(G, Append(s, x)) = Along(G, s) + G[x]
    BY <1>1, <1>2, AlongAppend
  <2>5. Along(F, Append(w, x)) = Along(F, w) + F[x]
    BY <2>3, AlongAppend
  <2>6. Along(G, s) \in Int
    BY <1>1, <1>2, AlongIsInteger
  <2>7. G[x] = IF x \in D THEN 0 ELSE F[x]
    BY <1>2 DEF Masked
  <2>8. Without(Append(s, x), D) = IF x \in D THEN w ELSE Append(w, x)
    BY <2>2, WithoutAppend
  <2>9. Along(F, Without(Append(s, x), D)) = Along(G, Append(s, x))
    BY <2>3, <2>4, <2>5, <2>6, <2>7, <2>8
  <2>10. QED
    BY <1>2, <2>1, <2>9
<1>5. Seq(X) \subseteq P
  <2> HIDE DEF P
  <2>1. QED
    BY <1>3, <1>4, SequenceInduction
<1>6. QED
  BY <1>5

\* The order does not count.
LEMMA AlongReverse ==
    ASSUME NEW X, NEW F \in [X -> Int], NEW s \in Seq(X)
    PROVE  /\ Reverse(s) \in Seq(X) /\ ToSet(Reverse(s)) = ToSet(s)
           /\ Along(F, Reverse(s)) = Along(F, s)
<1>1. PICK r : r = Reverse(s)
  OBVIOUS
<1>2. PICK n : n = Len(s)
  OBVIOUS
<1>3. n \in Nat /\ DOMAIN s = 1..n /\ IsFiniteSet(DOMAIN s) /\ \A i \in 1..n : s[i] \in X
  BY <1>2, ElementsAreFinite
<1>4. \A i \in 1..n : (n - i) + 1 \in 1..n /\ (n - ((n - i) + 1)) + 1 = i
  BY <1>3
<1>5. r \in Seq(X) /\ DOMAIN r = 1..n /\ \A i \in 1..n : r[i] = s[(n - i) + 1]
  BY <1>1, <1>2, <1>3, <1>4 DEF Reverse
<1>6. ToSet(r) = ToSet(s)
  <2>1. ASSUME NEW i \in 1..n PROVE r[i] \in ToSet(s) /\ s[i] \in ToSet(r)
    <3>1. PICK j \in 1..n : j = (n - i) + 1 /\ (n - j) + 1 = i
      BY <1>4
    <3>2. r[i] = s[j] /\ r[j] = s[i]
      BY <1>5, <3>1
    <3>3. QED
      BY <1>3, <1>5, <3>2 DEF ToSet
  <2>2. QED
    BY <1>3, <1>5, <2>1 DEF ToSet
<1>7. PICK h : h = [i \in 1..n |-> (n - i) + 1]
  OBVIOUS
<1>8. { h[i] : i \in DOMAIN s } = DOMAIN r
  <2>1. \A i \in 1..n : h[i] \in 1..n /\ h[h[i]] = i
    BY <1>4, <1>7
  <2>2. ASSUME NEW j \in 1..n PROVE \E i \in 1..n : h[i] = j
    BY <2>1
  <2>3. { h[i] : i \in 1..n } = 1..n
    BY <2>1, <2>2
  <2>4. QED
    BY <1>3, <1>5, <2>3
<1>9. PICK f : f = [i \in DOMAIN s |-> F[s[i]]]
  OBVIOUS
<1>10. PICK g : g = [i \in DOMAIN r |-> F[r[i]]]
  OBVIOUS
<1>11. \A i \in DOMAIN s : f[i] \in Int /\ g[h[i]] = f[i]
  <2> SUFFICES ASSUME NEW i \in 1..n PROVE f[i] \in Int /\ g[h[i]] = f[i]
    BY <1>3
  <2>1. PICK j \in 1..n : j = (n - i) + 1 /\ (n - j) + 1 = i
    BY <1>4
  <2>2. h[i] = j /\ r[j] = s[i]
    BY <1>5, <1>7, <2>1
  <2>3. g[j] = F[s[i]]
    BY <1>5, <1>10, <2>2
  <2>4. QED
    BY <1>3, <1>9, <2>2, <2>3
<1>12. \A i, j \in DOMAIN s : h[i] = h[j] => i = j
  BY <1>3, <1>7
<1>13. SumFunctionOnSet(g, { h[i] : i \in DOMAIN s }) = SumFunctionOnSet(f, DOMAIN s)
  <2>1. PICK S : S = DOMAIN s
    OBVIOUS
  <2>2. /\ IsFiniteSet(S) /\ \A i \in S : f[i] \in Int /\ g[h[i]] = f[i]
        /\ \A i, j \in S : h[i] = h[j] => i = j
    BY <1>3, <1>11, <1>12, <2>1
  <2>3. SumFunctionOnSet(g, { h[i] : i \in S }) = SumFunctionOnSet(f, S)
    BY <2>2, SumOfImage
  <2>4. QED
    BY <2>1, <2>3
<1>14. Along(F, r) = Along(F, s)
  BY <1>8, <1>9, <1>10, <1>13 DEF Along
<1>15. QED
  BY <1>1, <1>5, <1>6, <1>14

\* There are n numbers up to n.
LEMMA IntervalSize ==
    ASSUME NEW n \in Nat
    PROVE  IsFiniteSet(1..n) /\ Cardinality(1..n) = n
<1>1. n \in Int /\ 1 \in Int
  OBVIOUS
<1>2. IsFiniteSet(1..n) /\ Cardinality(1..n) = IF 1 > n THEN 0 ELSE n - 1 + 1
  BY <1>1, FS_Interval
<1>3. QED
  BY <1>2

\* Between a least and a most for each.
LEMMA AlongBounds ==
    ASSUME NEW X, NEW F \in [X -> Int], NEW s \in Seq(X), NEW c \in Int
    PROVE  /\ (\A x \in ToSet(s) : F[x] <= c) => Along(F, s) <= c * Len(s)
           /\ (\A x \in ToSet(s) : c <= F[x]) => c * Len(s) <= Along(F, s)
<1>1. /\ IsFiniteSet(DOMAIN s) /\ \A i \in DOMAIN s : s[i] \in X
      /\ DOMAIN s = 1..Len(s) /\ Len(s) \in Nat
  BY ElementsAreFinite
<1>2. Cardinality(DOMAIN s) = Len(s)
  <2>1. PICK n \in Nat : n = Len(s)
    BY <1>1
  <2>2. Cardinality(1..n) = n
    BY <2>1, IntervalSize
  <2>3. QED
    BY <1>1, <2>1, <2>2, SMTT(30)
<1>3. PICK f : f = [i \in DOMAIN s |-> F[s[i]]]
  OBVIOUS
<1>4. \A i \in DOMAIN s : f[i] \in Int /\ f[i] = F[s[i]] /\ s[i] \in ToSet(s)
  BY <1>1, <1>3 DEF ToSet
<1>5. /\ (\A i \in DOMAIN s : f[i] <= c)
            => SumFunctionOnSet(f, DOMAIN s) <= c * Cardinality(DOMAIN s)
      /\ (\A i \in DOMAIN s : c <= f[i])
            => c * Cardinality(DOMAIN s) <= SumFunctionOnSet(f, DOMAIN s)
  BY <1>1, <1>4, SumBounds
<1>6. Along(F, s) = SumFunctionOnSet(f, DOMAIN s)
  BY <1>3 DEF Along
<1>7. ASSUME \A x \in ToSet(s) : F[x] <= c PROVE Along(F, s) <= c * Len(s)
  BY <1>2, <1>4, <1>5, <1>6, <1>7
<1>8. ASSUME \A x \in ToSet(s) : c <= F[x] PROVE c * Len(s) <= Along(F, s)
  BY <1>2, <1>4, <1>5, <1>6, <1>8
<1>9. QED
  BY <1>7, <1>8

\* More for each is more in all, the same for each the same.
LEMMA AlongMonotone ==
    ASSUME NEW X, NEW F \in [X -> Int], NEW G \in [X -> Int], NEW s \in Seq(X),
           \A x \in ToSet(s) : F[x] <= G[x]
    PROVE  Along(F, s) <= Along(G, s)
<1>1. IsFiniteSet(DOMAIN s) /\ \A i \in DOMAIN s : s[i] \in X
  BY ElementsAreFinite
<1>2. PICK f : f = [i \in DOMAIN s |-> F[s[i]]]
  OBVIOUS
<1>3. PICK g : g = [i \in DOMAIN s |-> G[s[i]]]
  OBVIOUS
<1>4. ASSUME NEW i \in DOMAIN s PROVE f[i] \in Int /\ g[i] \in Int /\ f[i] <= g[i]
  <2>1. s[i] \in ToSet(s) /\ s[i] \in X
    BY <1>1 DEF ToSet
  <2>2. QED
    BY <1>2, <1>3, <2>1
<1>5. SumFunctionOnSet(f, DOMAIN s) <= SumFunctionOnSet(g, DOMAIN s)
  BY <1>1, <1>4, SumMonotone
<1>6. QED
  BY <1>2, <1>3, <1>5 DEF Along

-----------------------------------------------------------------------------
(* The local evaluator.                                                    *)

\* What counts one for each counts the length.
LEMMA AlongOnes ==
    ASSUME NEW X, NEW F \in [X -> Int], \A x \in X : F[x] = 1, NEW s \in Seq(X)
    PROVE  Along(F, s) = Len(s)
<1>1. \A x \in ToSet(s) : F[x] <= 1 /\ 1 <= F[x]
  BY ElementsAreFinite
<1>2. Along(F, s) <= 1 * Len(s) /\ 1 * Len(s) <= Along(F, s)
  BY <1>1, AlongBounds
<1>3. Len(s) \in Nat /\ Along(F, s) \in Int
  BY AlongIsInteger
<1>4. QED
  BY <1>2, <1>3

\* A text without the short units.
LEMMA SentencesAre ==
    ASSUME NEW text \in Seq(Units), NEW k \in Nat
    PROVE  /\ Sentences(text, k) \in Seq(Units)
           /\ ToSet(Sentences(text, k)) = { u \in ToSet(text) : Size[u] >= k }
           /\ Sentences(text, k) = <<>> <=> { u \in ToSet(text) : Size[u] >= k } = {}
           /\ \A u \in Units : Sentences(Append(text, u), k)
                 = IF Size[u] < k THEN Sentences(text, k) ELSE Append(Sentences(text, k), u)
<1>1. PICK D : D = { u \in Units : Size[u] < k }
  OBVIOUS
<1>2. PICK w : w = Sentences(text, k)
  OBVIOUS
<1>3. w = Without(text, D)
  BY <1>1, <1>2 DEF Sentences
<1>4. w \in Seq(Units \ D) /\ ToSet(w) = ToSet(text) \ D
  BY <1>3, WithoutElements
<1>5. w \in Seq(Units)
  <2>1. Units \ D \subseteq Units
    OBVIOUS
  <2>2. QED
    BY <1>4, <2>1, SeqMonotonic
<1>6. ToSet(text) \ D = { u \in ToSet(text) : Size[u] >= k }
  <2>1. ToSet(text) \subseteq Units
    BY ElementsAreFinite
  <2>2. \A u \in Units : Size[u] \in Nat
    BY ClosenessAssumption
  <2>3. QED
    BY <1>1, <2>1, <2>2
<1>7. w = <<>> <=> ToSet(w) = {}
  <2>1. w # <<>> => ToSet(w) # {}
    BY <1>5, ElementsAreFinite
  <2>2. ASSUME w = <<>> PROVE ToSet(w) = {}
    <3>1. DOMAIN w = {}
      BY <2>2
    <3>2. QED
      BY <3>1 DEF ToSet
  <2>3. QED
    BY <2>1, <2>2
<1>8. ASSUME NEW u \in Units
      PROVE  Sentences(Append(text, u), k) = IF Size[u] < k THEN w ELSE Append(w, u)
  <2>1. Sentences(Append(text, u), k) = Without(Append(text, u), D)
    BY <1>1 DEF Sentences
  <2>2. Without(Append(text, u), D) = IF u \in D THEN w ELSE Append(w, u)
    BY <1>3, WithoutAppend
  <2>3. u \in D <=> Size[u] < k
    BY <1>1
  <2>4. QED
    BY <2>1, <2>2, <2>3
<1>9. QED
  BY <1>2, <1>4, <1>5, <1>6, <1>7, <1>8

\* The best support there is in some grounds.
LEMMA SupportIs ==
    ASSUME NEW grounds \in Seq(Units), grounds # <<>>, NEW u \in Units
    PROVE  /\ BestSupport(u, grounds) \in (-100)..100
           /\ \A c \in ToSet(grounds) : Closeness[<<u, c>>] <= BestSupport(u, grounds)
           /\ \E c \in ToSet(grounds) : BestSupport(u, grounds) = Closeness[<<u, c>>]
<1>1. PICK G : G = ToSet(grounds)
  OBVIOUS
<1>2. G # {} /\ G \in SUBSET Units /\ IsFiniteSet(G)
  BY <1>1, ElementsAreFinite
<1>3. PICK f : f = [c \in G |-> Closeness[<<u, c>>]]
  OBVIOUS
<1>4. PICK V : V = { f[c] : c \in G }
  OBVIOUS
<1>5. V = { Closeness[<<u, c>>] : c \in G }
  BY <1>3, <1>4
<1>6. \A c \in G : f[c] \in (-100)..100 /\ f[c] \in Int
  <2> SUFFICES ASSUME NEW c \in G PROVE f[c] \in (-100)..100 /\ f[c] \in Int
    OBVIOUS
  <2>1. <<u, c>> \in Units \X Units
    BY <1>2
  <2>2. PICK x : x = Closeness[<<u, c>>]
    OBVIOUS
  <2>3. x \in (-100)..100
    BY <2>1, <2>2, ClosenessAssumption
  <2>4. x \in Int
    BY <2>3
  <2>5. QED
    BY <1>3, <2>2, <2>3, <2>4
<1>7. V \in SUBSET Int /\ V # {} /\ IsFiniteSet(V)
  <2>1. IsFiniteSet(V)
    BY <1>2, <1>4, ImageCounts
  <2>3. V \in SUBSET Int
    BY <1>4, <1>6
  <2>4. V # {}
    BY <1>2, <1>4
  <2>5. QED
    BY <2>1, <2>3, <2>4
<1>8. Max(V) \in V /\ \A x \in V : x <= Max(V)
  BY <1>7, LargestInteger
<1>9. BestSupport(u, grounds) = Max(V)
  BY <1>1, <1>5 DEF BestSupport
<1>10. QED
  BY <1>1, <1>3, <1>4, <1>6, <1>8, <1>9

\* How the grounds support each unit.
SupportIn(grounds) == [u \in Units |-> BestSupport(u, grounds)]

\* A support is a number.
LEMMA SupportIsInteger ==
    ASSUME NEW grounds \in Seq(Units), grounds # <<>>
    PROVE  SupportIn(grounds) \in [Units -> Int]
<1>1. ASSUME NEW u \in Units PROVE BestSupport(u, grounds) \in Int
  <2>1. PICK x : x = BestSupport(u, grounds)
    OBVIOUS
  <2>2. x \in (-100)..100
    BY <2>1, SupportIs
  <2>3. x \in Int
    BY <2>2
  <2>4. QED
    BY <2>1, <2>3
<1>2. QED
  BY <1>1 DEF SupportIn

\* The scores are that of the mean support.
LEMMA FaithfulnessIs ==
    ASSUME NEW answer \in Seq(Units), NEW context \in Seq(Units), NEW relevance
    PROVE  LET claims  == Sentences(answer, 15)
               grounds == Sentences(context, 10)
               judged == JudgeAnswerLocally(answer, context, relevance)
           IN  /\ judged.faithfulness
                    = IF claims = <<>> \/ grounds = <<>> THEN 1
                      ELSE ToScore(Along(SupportIn(grounds), claims), Len(claims))
               /\ claims = <<>> => judged.relevance = 1
<1>1. PICK claims : claims = Sentences(answer, 15)
  OBVIOUS
<1>2. PICK grounds : grounds = Sentences(context, 10)
  OBVIOUS
<1>3. PICK judged : judged = JudgeAnswerLocally(answer, context, relevance)
  OBVIOUS
<1>4. PICK sum : sum = SumFunction([i \in DOMAIN claims |-> BestSupport(claims[i], grounds)])
  OBVIOUS
<1>5. sum = Along(SupportIn(grounds), claims)
  <2>1. claims \in Seq(Units)
    BY <1>1, SentencesAre
  <2>2. \A i \in DOMAIN claims : claims[i] \in Units
    BY <2>1, ElementsAreFinite
  <2>3. [i \in DOMAIN claims |-> BestSupport(claims[i], grounds)]
          = [i \in DOMAIN claims |-> SupportIn(grounds)[claims[i]]]
    BY <2>2 DEF SupportIn
  <2>4. QED
    BY <1>4, <2>3 DEF SumFunction, Along
<1>6. /\ claims = <<>> => judged.faithfulness = 1 /\ judged.relevance = 1
      /\ claims # <<>> => judged.faithfulness
           = IF grounds = <<>> THEN 1 ELSE ToScore(sum, Len(claims))
  BY <1>1, <1>2, <1>3, <1>4 DEF JudgeAnswerLocally
<1>7. QED
  BY <1>1, <1>2, <1>3, <1>5, <1>6

\* What a mean scores.
LEMMA ScoresAre ==
    ASSUME NEW a \in Int, NEW n \in Nat \ {0}
    PROVE  /\ ToScore(a, n) \in 1..5
           /\ a >= 80 * n => ToScore(a, n) = 5
           /\ a >= 65 * n => ToScore(a, n) >= 4
           /\ a < 35 * n => ToScore(a, n) = 1
           /\ \A b \in Int : a <= b => ToScore(a, n) <= ToScore(b, n)
           /\ ToScore(a, n) <= ToScore(a + 100, n + 1)
BY DEF ToScore

\* Products grow with a factor.
LEMMA ProductGrows ==
    ASSUME NEW s \in Int, NEW c \in Int, NEW n \in Nat \ {0}, c <= s
    PROVE  c * n <= s * n
<1>1. PICK d \in Nat : s = c + d
  <2>1. s - c \in Nat /\ s = c + (s - c)
    OBVIOUS
  <2>2. QED
    BY <2>1
<1>2. d * n \in Nat
  OBVIOUS
<1>3. s * n = c * n + d * n
  BY <1>1
<1>4. QED
  BY <1>2, <1>3

\* What is below the mean lowers it.
LEMMA WeakestLowers ==
    ASSUME NEW a \in Int, NEW n \in Nat \ {0}, NEW s \in Int, s * n <= a
    PROVE  ToScore(a + s, n + 1) <= ToScore(a, n)
<1>1. ASSUME NEW c \in {80, 65, 50, 35}, a < c * n PROVE a + s < c * (n + 1)
  <2>1. s < c
    BY <1>1, ProductGrows
  <2>2. c * (n + 1) = c * n + c /\ c * n \in Int /\ c \in Int
    BY <1>1
  <2>3. QED
    BY <1>1, <2>1, <2>2
<1>2. /\ a < 80 * n => a + s < 80 * (n + 1)
      /\ a < 65 * n => a + s < 65 * (n + 1)
      /\ a < 50 * n => a + s < 50 * (n + 1)
      /\ a < 35 * n => a + s < 35 * (n + 1)
  BY <1>1
<1>3. QED
  BY <1>2 DEF ToScore

\* More context supports no unit less.
LEMMA SupportGrows ==
    ASSUME NEW grounds \in Seq(Units), grounds # <<>>, NEW more \in Seq(Units),
           ToSet(grounds) \subseteq ToSet(more), NEW u \in Units
    PROVE  SupportIn(grounds)[u] <= SupportIn(more)[u]
<1>1. more # <<>>
  <2>1. ToSet(grounds) # {}
    BY ElementsAreFinite
  <2>2. ASSUME more = <<>> PROVE FALSE
    <3>1. DOMAIN more = {}
      BY <2>2
    <3>2. QED
      BY <2>1, <3>1 DEF ToSet
  <2>3. QED
    BY <2>2
<1>2. PICK c \in ToSet(grounds) : BestSupport(u, grounds) = Closeness[<<u, c>>]
  BY SupportIs
<1>3. Closeness[<<u, c>>] <= BestSupport(u, more)
  BY <1>1, <1>2, SupportIs
<1>4. QED
  BY <1>2, <1>3 DEF SupportIn

\* The order of neither text counts.
LEMMA ReversedScoresSame ==
    ASSUME NEW answer \in Seq(Units), NEW context \in Seq(Units)
    PROVE  Faithfulness(Reverse(answer), Reverse(context)) = Faithfulness(answer, context)
<1>1. PICK back : back = Reverse(answer)
  OBVIOUS
<1>2. PICK text : text = Reverse(context)
  OBVIOUS
<1>3. /\ back \in Seq(Units) /\ ToSet(back) = ToSet(answer)
      /\ text \in Seq(Units) /\ ToSet(text) = ToSet(context)
  <2>1. PICK F : F = [u \in Units |-> 1]
    OBVIOUS
  <2>2. F \in [Units -> Int]
    BY <2>1
  <2>3. QED
    BY <1>1, <1>2, <2>2, AlongReverse
<1>4. PICK claims, grounds :
         claims = Sentences(answer, 15) /\ grounds = Sentences(context, 10)
  OBVIOUS
<1>5. PICK claims2, grounds2 :
         claims2 = Sentences(back, 15) /\ grounds2 = Sentences(text, 10)
  OBVIOUS
<1>6. /\ claims \in Seq(Units) /\ claims2 \in Seq(Units)
      /\ grounds \in Seq(Units) /\ grounds2 \in Seq(Units)
      /\ ToSet(grounds2) = ToSet(grounds)
      /\ grounds2 = <<>> <=> grounds = <<>>
      /\ claims2 = <<>> <=> claims = <<>>
  <2>1. /\ claims \in Seq(Units) /\ claims2 \in Seq(Units)
        /\ ToSet(grounds) = { u \in ToSet(context) : Size[u] >= 10 }
        /\ ToSet(grounds2) = { u \in ToSet(text) : Size[u] >= 10 }
    BY <1>3, <1>4, <1>5, SentencesAre
  <2>2. grounds \in Seq(Units) /\ grounds2 \in Seq(Units)
    BY <1>3, <1>4, <1>5, SentencesAre
  <2>3. /\ grounds = <<>> <=> { u \in ToSet(context) : Size[u] >= 10 } = {}
        /\ grounds2 = <<>> <=> { u \in ToSet(text) : Size[u] >= 10 } = {}
    BY <1>3, <1>4, <1>5, SentencesAre
  <2>4. /\ claims = <<>> <=> { u \in ToSet(answer) : Size[u] >= 15 } = {}
        /\ claims2 = <<>> <=> { u \in ToSet(back) : Size[u] >= 15 } = {}
    BY <1>3, <1>4, <1>5, SentencesAre
  <2>5. QED
    BY <1>3, <2>1, <2>2, <2>3, <2>4
<1>7. SupportIn(grounds2) = SupportIn(grounds)
  BY <1>6 DEF SupportIn, BestSupport
<1>8. ASSUME NEW F \in [Units -> Int] PROVE Along(F, claims2) = Along(F, claims)
  <2>1. PICK D : D = { u \in Units : Size[u] < 15 }
    OBVIOUS
  <2>2. claims = Without(answer, D) /\ claims2 = Without(back, D)
    BY <1>4, <1>5, <2>1 DEF Sentences
  <2>3. Along(F, claims) = Along(Masked(F, D), answer)
        /\ Along(F, claims2) = Along(Masked(F, D), back)
    <3>1. Along(F, Without(answer, D)) = Along(Masked(F, D), answer)
      BY AlongWithout
    <3>2. Along(F, Without(back, D)) = Along(Masked(F, D), back)
      BY <1>3, AlongWithout
    <3>3. QED
      BY <2>2, <3>1, <3>2
  <2>4. Masked(F, D) \in [Units -> Int]
    BY DEF Masked
  <2>5. Along(Masked(F, D), back) = Along(Masked(F, D), answer)
    BY <1>1, <2>4, AlongReverse
  <2>6. QED
    BY <2>3, <2>5
<1>9. Len(claims2) = Len(claims)
  <2>1. PICK F : F = [u \in Units |-> 1]
    OBVIOUS
  <2>2. F \in [Units -> Int] /\ \A u \in Units : F[u] = 1
    BY <2>1
  <2>3. Along(F, claims2) = Len(claims2) /\ Along(F, claims) = Len(claims)
    BY <1>6, <2>2, AlongOnes
  <2>4. QED
    BY <1>8, <2>2, <2>3
<1>10. ASSUME grounds # <<>>
       PROVE  Along(SupportIn(grounds2), claims2) = Along(SupportIn(grounds), claims)
  <2>1. SupportIn(grounds) \in [Units -> Int]
    BY <1>6, <1>10, SupportIsInteger
  <2>2. QED
    BY <1>7, <1>8, <2>1
<1>11. /\ Faithfulness(answer, context)
            = IF claims = <<>> \/ grounds = <<>> THEN 1
              ELSE ToScore(Along(SupportIn(grounds), claims), Len(claims))
       /\ Faithfulness(back, text)
            = IF claims2 = <<>> \/ grounds2 = <<>> THEN 1
              ELSE ToScore(Along(SupportIn(grounds2), claims2), Len(claims2))
  BY <1>3, <1>4, <1>5, FaithfulnessIs DEF Faithfulness
<1>12. QED
  BY <1>1, <1>2, <1>6, <1>9, <1>10, <1>11

\* What the property says of the answer's own score.
LEMMA OwnScore ==
    ASSUME NEW claims \in Seq(Units), NEW grounds \in Seq(Units),
           claims # <<>>, grounds # <<>>,
           NEW score, score = ToScore(Along(SupportIn(grounds), claims), Len(claims))
    PROVE  /\ score \in 1..5
           /\ ToSet(claims) \subseteq ToSet(grounds) => score = 5
           /\ (\A u \in ToSet(claims) : ~\E g \in ToSet(grounds) : Closeness[<<u, g>>] >= 35)
                 => score = 1
           /\ (\A u \in ToSet(claims) : \E g \in ToSet(grounds) : Closeness[<<u, g>>] >= 65)
                 => score >= 4
<1>1. PICK F : F = SupportIn(grounds)
  OBVIOUS
<1>2. F \in [Units -> Int] /\ \A u \in Units : F[u] = BestSupport(u, grounds)
  BY <1>1, SupportIsInteger DEF SupportIn
<1>3. PICK sum : sum = Along(F, claims)
  OBVIOUS
<1>4. PICK n : n = Len(claims)
  OBVIOUS
<1>5. sum \in Int /\ n \in Nat \ {0}
  <2>1. sum \in Int
    BY <1>2, <1>3, AlongIsInteger
  <2>2. n \in Nat \ {0}
    BY <1>4
  <2>3. QED
    BY <2>1, <2>2
<1>6. ToSet(claims) \subseteq Units /\ ToSet(grounds) \subseteq Units
  BY ElementsAreFinite
<1>7. \A u \in ToSet(claims) :
         /\ F[u] \in (-100)..100
         /\ \A g \in ToSet(grounds) : Closeness[<<u, g>>] <= F[u]
         /\ \E g \in ToSet(grounds) : F[u] = Closeness[<<u, g>>]
  <2> SUFFICES ASSUME NEW u \in ToSet(claims)
               PROVE  /\ F[u] \in (-100)..100
                      /\ \A g \in ToSet(grounds) : Closeness[<<u, g>>] <= F[u]
                      /\ \E g \in ToSet(grounds) : F[u] = Closeness[<<u, g>>]
    OBVIOUS
  <2>1. u \in Units
    BY <1>6
  <2>2. QED
    BY <1>2, <2>1, SupportIs
<1>8. \A c \in Int : /\ (\A u \in ToSet(claims) : F[u] <= c) => sum <= c * n
                     /\ (\A u \in ToSet(claims) : c <= F[u]) => c * n <= sum
  BY <1>2, <1>3, <1>4, AlongBounds
<1>9. score = ToScore(sum, n)
  BY <1>1, <1>3, <1>4
<1>10. ASSUME ToSet(claims) \subseteq ToSet(grounds) PROVE score = 5
  <2>1. ASSUME NEW u \in ToSet(claims) PROVE 100 <= F[u]
    <3>1. Closeness[<<u, u>>] = 100
      BY <1>6, ClosenessAssumption
    <3>2. u \in ToSet(grounds)
      BY <1>10
    <3>3. QED
      BY <1>7, <3>1, <3>2
  <2>2. 100 * n <= sum
    BY <1>8, <2>1
  <2>3. sum >= 80 * n
    BY <1>5, <2>2
  <2>4. QED
    BY <1>5, <1>9, <2>3, ScoresAre
<1>11. ASSUME \A u \in ToSet(claims) : ~\E g \in ToSet(grounds) : Closeness[<<u, g>>] >= 35
       PROVE  score = 1
  <2>1. ASSUME NEW u \in ToSet(claims) PROVE F[u] <= 34
    <3>1. PICK g \in ToSet(grounds) : F[u] = Closeness[<<u, g>>]
      BY <1>7
    <3>2. PICK x : x = F[u]
      OBVIOUS
    <3>3. ~(x >= 35) /\ x \in (-100)..100
      BY <1>7, <1>11, <3>1, <3>2
    <3>4. x <= 34
      BY <3>3
    <3>5. QED
      BY <3>2, <3>4
  <2>2. sum <= 34 * n
    BY <1>8, <2>1
  <2>3. sum < 35 * n
    BY <1>5, <2>2
  <2>4. QED
    BY <1>5, <1>9, <2>3, ScoresAre
<1>12. ASSUME \A u \in ToSet(claims) : \E g \in ToSet(grounds) : Closeness[<<u, g>>] >= 65
       PROVE  score >= 4
  <2>1. ASSUME NEW u \in ToSet(claims) PROVE 65 <= F[u]
    <3>1. PICK g \in ToSet(grounds) : Closeness[<<u, g>>] >= 65
      BY <1>12
    <3>2. PICK x : x = F[u]
      OBVIOUS
    <3>3. PICK y : y = Closeness[<<u, g>>]
      OBVIOUS
    <3>4. y <= x /\ x \in (-100)..100 /\ y >= 65
      BY <1>7, <3>1, <3>2, <3>3
    <3>5. y \in (-100)..100
      <4>1. u \in Units /\ g \in Units
        BY <1>6
      <4>2. <<u, g>> \in Units \X Units
        BY <4>1
      <4>3. QED
        BY <3>3, <4>2, ClosenessAssumption
    <3>6. 65 <= x
      BY <3>4, <3>5
    <3>7. QED
      BY <3>2, <3>6
  <2>2. 65 * n <= sum
    BY <1>8, <2>1
  <2>3. sum >= 65 * n
    BY <1>5, <2>2
  <2>4. QED
    BY <1>5, <1>9, <2>3, ScoresAre
<1>13. score \in 1..5
  BY <1>5, <1>9, ScoresAre
<1>14. QED
  BY <1>10, <1>11, <1>12, <1>13

\* More context never lowers the score.
LEMMA MoreContext ==
    ASSUME NEW answer \in Seq(Units), NEW context \in Seq(Units), NEW u \in Units
    PROVE  Faithfulness(answer, context) <= Faithfulness(answer, Append(context, u))
<1>1. PICK claims, grounds :
         claims = Sentences(answer, 15) /\ grounds = Sentences(context, 10)
  OBVIOUS
<1>2. PICK text : text = Append(context, u)
  OBVIOUS
<1>3. PICK more : more = Sentences(text, 10)
  OBVIOUS
<1>4. text \in Seq(Units) /\ ToSet(text) = ToSet(context) \cup {u}
  BY <1>2, AppendProperties, AppendedElements
<1>5. claims \in Seq(Units) /\ grounds \in Seq(Units) /\ more \in Seq(Units)
  BY <1>1, <1>3, <1>4, SentencesAre
<1>6. ToSet(grounds) \subseteq ToSet(more)
  <2>1. /\ ToSet(grounds) = { v \in ToSet(context) : Size[v] >= 10 }
        /\ ToSet(more) = { v \in ToSet(text) : Size[v] >= 10 }
    BY <1>1, <1>3, <1>4, SentencesAre
  <2>2. QED
    BY <1>4, <2>1
<1>7. PICK low : low = Faithfulness(answer, context)
  OBVIOUS
<1>8. PICK high : high = Faithfulness(answer, text)
  OBVIOUS
<1>9. /\ low = IF claims = <<>> \/ grounds = <<>> THEN 1
               ELSE ToScore(Along(SupportIn(grounds), claims), Len(claims))
      /\ high = IF claims = <<>> \/ more = <<>> THEN 1
                ELSE ToScore(Along(SupportIn(more), claims), Len(claims))
  BY <1>1, <1>3, <1>4, <1>7, <1>8, FaithfulnessIs DEF Faithfulness
<1>10. CASE claims = <<>>
  BY <1>2, <1>7, <1>8, <1>9, <1>10
<1>11. CASE claims # <<>> /\ grounds = <<>>
  <2>1. low = 1
    BY <1>9, <1>11
  <2>2. high \in 1..5
    <3>1. CASE more = <<>>
      BY <1>9, <3>1
    <3>2. CASE more # <<>>
      BY <1>5, <1>9, <1>11, <3>2, OwnScore
    <3>3. QED
      BY <3>1, <3>2
  <2>3. QED
    BY <1>2, <1>7, <1>8, <2>1, <2>2
<1>12. CASE claims # <<>> /\ grounds # <<>>
  <2>1. more # <<>>
    <3>1. ToSet(grounds) # {}
      BY <1>5, <1>12, ElementsAreFinite
    <3>2. ASSUME more = <<>> PROVE FALSE
      <4>1. DOMAIN more = {}
        BY <3>2
      <4>2. QED
        BY <1>6, <3>1, <4>1 DEF ToSet
    <3>3. QED
      BY <3>2
  <2>2. PICK F : F = SupportIn(grounds)
    OBVIOUS
  <2>3. PICK G : G = SupportIn(more)
    OBVIOUS
  <2>4. F \in [Units -> Int] /\ G \in [Units -> Int]
    BY <1>5, <1>12, <2>1, <2>2, <2>3, SupportIsInteger
  <2>5. \A x \in ToSet(claims) : F[x] <= G[x]
    <3>1. ToSet(claims) \subseteq Units
      BY <1>5, ElementsAreFinite
    <3>2. \A x \in Units : F[x] <= G[x]
      BY <1>5, <1>6, <1>12, <2>2, <2>3, SupportGrows
    <3>3. QED
      BY <3>1, <3>2
  <2>6. Along(F, claims) <= Along(G, claims)
    BY <1>5, <2>4, <2>5, AlongMonotone
  <2>7. Along(F, claims) \in Int /\ Along(G, claims) \in Int
    BY <1>5, <2>4, AlongIsInteger
  <2>8. Len(claims) \in Nat \ {0}
    BY <1>5, <1>12
  <2>9. ToScore(Along(F, claims), Len(claims)) <= ToScore(Along(G, claims), Len(claims))
    BY <2>6, <2>7, <2>8, ScoresAre
  <2>10. low <= high
    BY <1>9, <1>12, <2>1, <2>2, <2>3, <2>9
  <2>11. QED
    BY <1>2, <1>7, <1>8, <2>10
<1>13. QED
  BY <1>10, <1>11, <1>12

\* What one more unit of the answer does to the score.
LEMMA OneMoreUnit ==
    ASSUME NEW answer \in Seq(Units), NEW context \in Seq(Units), NEW u \in Units,
           NEW claims, claims = Sentences(answer, 15),
           NEW grounds, grounds = Sentences(context, 10),
           NEW low, low = Faithfulness(answer, context),
           NEW next, next = Faithfulness(Append(answer, u), context)
    PROVE  /\ Size[u] < 15 => next = low
           /\ claims # <<>> /\ u \in ToSet(grounds) /\ Size[u] >= 15 => next >= low
           /\ /\ grounds # <<>> /\ claims # <<>> /\ Size[u] >= 15
              /\ \A c \in ToSet(claims) : BestSupport(u, grounds) <= BestSupport(c, grounds)
              => next <= low
<1>1. PICK longer : longer = Sentences(Append(answer, u), 15)
  OBVIOUS
<1>2. PICK said : said = Append(answer, u)
  OBVIOUS
<1>3. said \in Seq(Units)
  BY <1>2, AppendProperties
<1>4. longer = IF Size[u] < 15 THEN claims ELSE Append(claims, u)
  BY <1>1, SentencesAre
<1>5. claims \in Seq(Units) /\ grounds \in Seq(Units)
  BY SentencesAre
<1>6. /\ low = IF claims = <<>> \/ grounds = <<>> THEN 1
               ELSE ToScore(Along(SupportIn(grounds), claims), Len(claims))
      /\ next = IF longer = <<>> \/ grounds = <<>> THEN 1
                ELSE ToScore(Along(SupportIn(grounds), longer), Len(longer))
  <2>1. low = IF claims = <<>> \/ grounds = <<>> THEN 1
              ELSE ToScore(Along(SupportIn(grounds), claims), Len(claims))
    BY FaithfulnessIs DEF Faithfulness
  <2>2. next = JudgeAnswerLocally(said, context, 0).faithfulness
    BY <1>2 DEF Faithfulness
  <2>3. longer = Sentences(said, 15)
    BY <1>1, <1>2
  <2>4. next = IF longer = <<>> \/ grounds = <<>> THEN 1
               ELSE ToScore(Along(SupportIn(grounds), longer), Len(longer))
    BY <1>3, <2>2, <2>3, FaithfulnessIs
  <2>5. QED
    BY <2>1, <2>4
<1>7. ASSUME Size[u] < 15 PROVE next = low
  BY <1>4, <1>6, <1>7
<1>8. PICK size : size = Size[u]
  OBVIOUS
<1>9. size \in Nat
  BY <1>8, ClosenessAssumption
<1>10. PICK F : F = SupportIn(grounds)
  OBVIOUS
<1>11. PICK a : a = Along(F, claims)
  OBVIOUS
<1>12. PICK n : n = Len(claims)
  OBVIOUS
<1>13. ASSUME grounds # <<>>, claims # <<>>, size >= 15
       PROVE  /\ F \in [Units -> Int] /\ F[u] = BestSupport(u, grounds)
              /\ a \in Int /\ n \in Nat \ {0} /\ low = ToScore(a, n)
              /\ next = ToScore(a + F[u], n + 1)
  <2>1. F \in [Units -> Int] /\ F[u] = BestSupport(u, grounds)
    BY <1>5, <1>10, <1>13, SupportIsInteger DEF SupportIn
  <2>2. a \in Int
    BY <1>5, <1>11, <2>1, AlongIsInteger
  <2>3. n \in Nat \ {0}
    BY <1>5, <1>12, <1>13
  <2>4. low = ToScore(a, n)
    BY <1>6, <1>10, <1>11, <1>12, <1>13
  <2>5. ~(size < 15)
    BY <1>9, <1>13
  <2>6. longer = Append(claims, u)
    BY <1>4, <1>8, <2>5
  <2>7. longer # <<>> /\ Len(longer) = n + 1
    BY <1>5, <1>12, <2>6, AppendProperties
  <2>8. Along(F, longer) = a + F[u]
    BY <1>5, <1>11, <2>1, <2>6, AlongAppend
  <2>9. next = ToScore(a + F[u], n + 1)
    BY <1>6, <1>10, <1>13, <2>7, <2>8
  <2>10. QED
    BY <2>1, <2>2, <2>3, <2>4, <2>9
<1>14. ASSUME claims # <<>>, u \in ToSet(grounds), size >= 15 PROVE next >= low
  <2>1. grounds # <<>>
    <3>1. ASSUME grounds = <<>> PROVE FALSE
      <4>1. DOMAIN grounds = {}
        BY <3>1
      <4>2. QED
        BY <1>14, <4>1 DEF ToSet
    <3>2. QED
      BY <3>1
  <2>2. PICK s : s = BestSupport(u, grounds)
    OBVIOUS
  <2>3. s \in (-100)..100 /\ Closeness[<<u, u>>] <= s
    BY <1>5, <1>14, <2>1, <2>2, SupportIs
  <2>4. Closeness[<<u, u>>] = 100
    BY ClosenessAssumption
  <2>5. s = 100
    BY <2>3, <2>4
  <2>6. a \in Int /\ n \in Nat \ {0} /\ low = ToScore(a, n) /\ next = ToScore(a + 100, n + 1)
    BY <1>13, <1>14, <2>1, <2>2, <2>5
  <2>7. ToScore(a, n) <= ToScore(a + 100, n + 1) /\ ToScore(a, n) \in 1..5
    BY <2>6, ScoresAre
  <2>8. ToScore(a + 100, n + 1) \in 1..5
    <3>1. a + 100 \in Int /\ n + 1 \in Nat \ {0}
      BY <2>6
    <3>2. QED
      BY <3>1, ScoresAre
  <2>9. QED
    BY <2>6, <2>7, <2>8
<1>15. ASSUME grounds # <<>>, claims # <<>>, size >= 15,
              \A c \in ToSet(claims) : BestSupport(u, grounds) <= BestSupport(c, grounds)
       PROVE  next <= low
  <2>1. PICK s : s = F[u]
    OBVIOUS
  <2>2. /\ F \in [Units -> Int] /\ s = BestSupport(u, grounds)
        /\ a \in Int /\ n \in Nat \ {0} /\ low = ToScore(a, n) /\ next = ToScore(a + s, n + 1)
    BY <1>13, <1>15, <2>1
  <2>3. s \in Int
    BY <2>1, <2>2
  <2>4. ToSet(claims) \subseteq Units
    BY <1>5, ElementsAreFinite
  <2>5. \A c \in Units : F[c] = BestSupport(c, grounds)
    BY <1>10 DEF SupportIn
  <2>6. \A c \in ToSet(claims) : s <= F[c]
    BY <1>15, <2>2, <2>4, <2>5
  <2>7. s * n <= a
    BY <1>5, <1>11, <1>12, <2>2, <2>3, <2>6, AlongBounds
  <2>8. ToScore(a + s, n + 1) <= ToScore(a, n)
    BY <2>2, <2>3, <2>7, WeakestLowers
  <2>9. QED
    BY <2>2, <2>8
<1>16. QED
  BY <1>7, <1>8, <1>14, <1>15

\* Whatever the texts, the units, their sizes and how close they are, the local
\* faithfulness of an answer with usable context, or without a claim, follows the
\* support of the claims (judge_answer_locally).
THEOREM LocalScoreIsSupport == ComputationsSpec => []LocalScoreFollowsSupport
<1>1. ReturnInv => LocalScoreFollowsSupport
  <2> SUFFICES ASSUME ReturnInv, output.kind = "local" PROVE LocalScoreFollowsSupport
    BY DEF LocalScoreFollowsSupport
  <2>1. PICK answer : answer = input.answer
    OBVIOUS
  <2>2. PICK context : context = input.context
    OBVIOUS
  <2>3. PICK relevance \in Int : output.value = JudgeAnswerLocally(answer, context, relevance)
    BY <2>1, <2>2 DEF ReturnInv
  <2>4. answer \in Seq(Units) /\ context \in Seq(Units)
    <3>1. input.kind = "local"
      BY DEF ReturnInv, NotYet
    <3>2. input.answer \in Claims /\ input.context \in Grounds
      BY <3>1 DEF ReturnInv, Inputs
    <3>3. QED
      BY <2>1, <2>2, <3>2, SentencesAssumption
  <2>5. PICK claims : claims = Sentences(answer, 15)
    OBVIOUS
  <2>6. PICK grounds : grounds = Sentences(context, 10)
    OBVIOUS
  <2>7. PICK said : said = { u \in ToSet(answer) : Size[u] >= 15 }
    OBVIOUS
  <2>8. PICK known : known = { u \in ToSet(context) : Size[u] >= 10 }
    OBVIOUS
  <2>9. /\ claims \in Seq(Units) /\ ToSet(claims) = said
        /\ claims = <<>> <=> said = {}
    BY <2>4, <2>5, <2>7, SentencesAre
  <2>10. /\ grounds \in Seq(Units) /\ ToSet(grounds) = known
         /\ grounds = <<>> <=> known = {}
    BY <2>4, <2>6, <2>8, SentencesAre
  <2>11. PICK score : score = output.value.faithfulness
    OBVIOUS
  <2>12. /\ score = IF claims = <<>> \/ grounds = <<>> THEN 1
                    ELSE ToScore(Along(SupportIn(grounds), claims), Len(claims))
         /\ claims = <<>> => output.value.relevance = 1
    BY <2>3, <2>4, <2>5, <2>6, <2>11, FaithfulnessIs
  <2>13. score = Faithfulness(answer, context)
    BY <2>4, <2>5, <2>6, <2>12, FaithfulnessIs DEF Faithfulness
  <2>14. output.value.relevance = 1 \/ said # {}
    BY <2>9, <2>12
  <2>15. /\ said \subseteq known /\ said # {} => score = 5
         /\ (\A u \in said : ~\E g \in known : Closeness[<<u, g>>] >= 35) => score = 1
         /\ (\A u \in said : \E g \in known : Closeness[<<u, g>>] >= 65) /\ said # {}
               => score >= 4
    <3>1. CASE claims = <<>>
      BY <2>9, <2>12, <3>1
    <3>2. CASE claims # <<>> /\ grounds = <<>>
      BY <2>9, <2>10, <2>12, <3>2
    <3>3. CASE claims # <<>> /\ grounds # <<>>
      <4>1. /\ ToSet(claims) \subseteq ToSet(grounds) => score = 5
            /\ (\A u \in ToSet(claims) : ~\E g \in ToSet(grounds) : Closeness[<<u, g>>] >= 35)
                  => score = 1
            /\ (\A u \in ToSet(claims) : \E g \in ToSet(grounds) : Closeness[<<u, g>>] >= 65)
                  => score >= 4
        BY <2>9, <2>10, <2>12, <3>3, OwnScore
      <4>2. QED
        BY <2>9, <2>10, <4>1
    <3>4. QED
      BY <3>1, <3>2, <3>3
  <2>16. ASSUME NEW u \in Units
         PROVE  /\ score <= Faithfulness(answer, Append(context, u))
                /\ Size[u] < 15 => Faithfulness(Append(answer, u), context) = score
                /\ said # {} /\ u \in known /\ Size[u] >= 15 =>
                      Faithfulness(Append(answer, u), context) >= score
                /\ /\ known # {} /\ said # {} /\ Size[u] >= 15
                   /\ \A c \in said : Max({ Closeness[<<u, g>>] : g \in known })
                                         <= Max({ Closeness[<<c, g>>] : g \in known })
                   => Faithfulness(Append(answer, u), context) <= score
    <3>1. score <= Faithfulness(answer, Append(context, u))
      BY <2>4, <2>13, MoreContext
    <3>2. PICK next : next = Faithfulness(Append(answer, u), context)
      OBVIOUS
    <3>3. /\ Size[u] < 15 => next = score
          /\ claims # <<>> /\ u \in ToSet(grounds) /\ Size[u] >= 15 => next >= score
          /\ /\ grounds # <<>> /\ claims # <<>> /\ Size[u] >= 15
             /\ \A c \in ToSet(claims) : BestSupport(u, grounds) <= BestSupport(c, grounds)
             => next <= score
      BY <2>4, <2>5, <2>6, <2>13, <3>2, OneMoreUnit
    <3>4. \A c : BestSupport(c, grounds) = Max({ Closeness[<<c, g>>] : g \in known })
      BY <2>10 DEF BestSupport
    <3>5. said # {} /\ u \in known /\ Size[u] >= 15 => next >= score
      BY <2>9, <2>10, <3>3
    <3>6. ASSUME known # {}, said # {}, Size[u] >= 15,
                 \A c \in said : Max({ Closeness[<<u, g>>] : g \in known })
                                    <= Max({ Closeness[<<c, g>>] : g \in known })
          PROVE  next <= score
      <4>1. \A c \in ToSet(claims) : BestSupport(u, grounds) <= BestSupport(c, grounds)
        BY <2>9, <3>4, <3>6
      <4>2. grounds # <<>> /\ claims # <<>>
        BY <2>9, <2>10, <3>6
      <4>3. QED
        BY <3>3, <3>6, <4>1, <4>2
    <3>7. QED
      BY <3>1, <3>2, <3>3, <3>5, <3>6
  <2>17. score = Faithfulness(Reverse(answer), Reverse(context))
    BY <2>4, <2>13, ReversedScoresSame
  <2>18. QED
    BY <2>1, <2>2, <2>7, <2>8, <2>11, <2>14, <2>15, <2>16, <2>17
       DEF LocalScoreFollowsSupport
<1>2. QED
  BY <1>1, ReturnInvHolds, PTL

-----------------------------------------------------------------------------
(* The text metrics.                                                       *)

\* Where a token is.
Spots(t, s) == { i \in DOMAIN s : s[i] = t }

\* How often a token occurs, also after one more of some token.
LEMMA TimesAre ==
    ASSUME NEW X, NEW s \in Seq(X), NEW t
    PROVE  /\ Times(t, s) = Cardinality(Spots(t, s)) /\ IsFiniteSet(Spots(t, s))
           /\ Times(t, s) \in Nat
           /\ Times(t, s) # 0 <=> t \in ToSet(s)
           /\ \A x \in X : Times(t, Append(s, x)) = Times(t, s) + IF t = x THEN 1 ELSE 0
<1>1. PICK dom : dom = DOMAIN s
  OBVIOUS
<1>2. IsFiniteSet(dom)
  BY <1>1, ElementsAreFinite
<1>3. PICK S : S = Spots(t, s)
  OBVIOUS
<1>4. IsFiniteSet(S)
  <2>1. S \in SUBSET dom
    BY <1>1, <1>3 DEF Spots
  <2>2. QED
    BY <1>2, <2>1, FS_Subset
<1>5. Times(t, s) = Cardinality(S)
  BY <1>3 DEF Times, Quantify, Spots
<1>6. Cardinality(S) \in Nat /\ (Cardinality(S) = 0 <=> S = {})
  BY <1>4, FS_CardinalityType, FS_EmptySet
<1>7. S # {} <=> t \in ToSet(s)
  BY <1>3 DEF Spots, ToSet
<1>8. ASSUME NEW x \in X
      PROVE  Times(t, Append(s, x)) = Cardinality(S) + IF t = x THEN 1 ELSE 0
  <2>1. PICK r : r = Append(s, x)
    OBVIOUS
  <2>2. PICK m : m = Len(s) + 1
    OBVIOUS
  <2>3. /\ m \notin dom /\ DOMAIN r = dom \cup {m} /\ r[m] = x
        /\ \A i \in dom : r[i] = s[i]
    <3>1. /\ r \in Seq(X) /\ Len(r) = Len(s) + 1 /\ r[Len(s) + 1] = x
          /\ \A i \in 1..Len(s) : r[i] = s[i]
      BY <2>1, AppendProperties
    <3>2. DOMAIN s = 1..Len(s) /\ Len(s) \in Nat /\ DOMAIN r = 1..Len(r)
      BY <3>1, LenProperties
    <3>3. QED
      BY <1>1, <2>2, <3>1, <3>2
  <2>4. PICK R : R = Spots(t, r)
    OBVIOUS
  <2>5. Times(t, r) = Cardinality(R)
    BY <2>4 DEF Times, Quantify, Spots
  <2>6. R = IF t = x THEN S \cup {m} ELSE S
    BY <1>1, <1>3, <2>3, <2>4 DEF Spots
  <2>7. m \notin S
    BY <1>1, <1>3, <2>3 DEF Spots
  <2>8. Cardinality(S \cup {m}) = Cardinality(S) + 1
    BY <1>4, <2>7, FS_AddElement
  <2>9. QED
    BY <1>6, <2>1, <2>5, <2>6, <2>8
<1>9. QED
  BY <1>3, <1>4, <1>5, <1>6, <1>7, <1>8

\* Every place has its token: the counts add up to the length.
LEMMA CountsAddUp ==
    ASSUME NEW X, NEW s \in Seq(X), NEW T, IsFiniteSet(T), ToSet(s) \subseteq T,
           NEW f, \A t \in T : f[t] = Times(t, s)
    PROVE  SumFunctionOnSet(f, T) = Len(s)
<1>1. PICK dom : dom = DOMAIN s
  OBVIOUS
<1>2. IsFiniteSet(dom) /\ Cardinality(dom) = Len(s)
  BY <1>1, ElementsAreFinite, IntervalSize
<1>3. \A t \in T : f[t] \in Int
  <2> SUFFICES ASSUME NEW t \in T PROVE f[t] \in Int
    OBVIOUS
  <2>1. Times(t, s) \in Nat
    BY TimesAre
  <2>2. QED
    BY <2>1
<1> DEFINE In(U) == { i \in dom : s[i] \in U }
           P == { U \in SUBSET T : SumFunctionOnSet(f, U) = Cardinality(In(U)) }
<1>4. {} \in P
  <2>1. In({}) = {}
    OBVIOUS
  <2>2. QED
    BY <2>1, SumOfNone, FS_EmptySet
<1>5. ASSUME NEW U \in SUBSET T, U # {}, \A x \in U : U \ {x} \in P
      PROVE  U \in P
  <2>1. PICK x \in U : TRUE
    BY <1>5
  <2>2. IsFiniteSet(U) /\ \A t \in U : f[t] \in Int
    BY <1>3, FS_Subset
  <2>3. SumFunctionOnSet(f, U) = f[x] + SumFunctionOnSet(f, U \ {x})
    BY <2>1, <2>2, SumByAny
  <2>4. PICK A : A = Spots(x, s)
    OBVIOUS
  <2>5. PICK B : B = In(U \ {x})
    OBVIOUS
  <2>6. A \cup B = In(U) /\ A \cap B = {}
    BY <1>1, <2>1, <2>4, <2>5 DEF Spots
  <2>7. IsFiniteSet(A) /\ f[x] = Cardinality(A)
    <3>1. Times(x, s) = Cardinality(Spots(x, s)) /\ IsFiniteSet(Spots(x, s))
      BY TimesAre
    <3>2. QED
      BY <2>1, <2>4, <3>1
  <2>8. IsFiniteSet(B)
    <3>1. B \in SUBSET dom
      BY <2>5
    <3>2. QED
      BY <1>2, <3>1, FS_Subset
  <2>9. Cardinality(In(U)) = Cardinality(A) + Cardinality(B) - Cardinality(A \cap B)
    BY <2>6, <2>7, <2>8, FS_Union
  <2>10. Cardinality(A \cap B) = 0
    BY <2>6, FS_EmptySet
  <2>11. Cardinality(A) \in Nat /\ Cardinality(B) \in Nat
    BY <2>7, <2>8, FS_CardinalityType
  <2>12. SumFunctionOnSet(f, U \ {x}) = Cardinality(B)
    BY <1>5, <2>1, <2>5
  <2>13. SumFunctionOnSet(f, U) = Cardinality(In(U))
    BY <2>3, <2>7, <2>9, <2>10, <2>11, <2>12
  <2>14. QED
    BY <2>13
<1>6. SumFunctionOnSet(f, T) = Cardinality(In(T))
  <2>1. T \in P
    <3> HIDE DEF P
    <3>1. QED
      BY <1>4, <1>5, SubsetInduction
  <2>2. QED
    BY <2>1
<1>7. In(T) = dom
  BY <1>1 DEF ToSet
<1>8. QED
  BY <1>2, <1>6, <1>7

\* Where nothing is more and the sums are the same, everything is the same.
LEMMA SameSumSameParts ==
    ASSUME NEW S, IsFiniteSet(S), NEW f, NEW g,
           \A x \in S : f[x] \in Int /\ g[x] \in Int /\ f[x] <= g[x],
           SumFunctionOnSet(f, S) = SumFunctionOnSet(g, S)
    PROVE  \A x \in S : f[x] = g[x]
<1> SUFFICES ASSUME NEW x \in S PROVE f[x] = g[x]
  OBVIOUS
<1>1. SumFunctionOnSet(f, S) = f[x] + SumFunctionOnSet(f, S \ {x})
  BY SumByAny
<1>2. SumFunctionOnSet(g, S) = g[x] + SumFunctionOnSet(g, S \ {x})
  BY SumByAny
<1>3. PICK R : R = S \ {x}
  OBVIOUS
<1>4. IsFiniteSet(R) /\ \A y \in R : f[y] \in Int /\ g[y] \in Int /\ f[y] <= g[y]
  BY <1>3, FS_Subset
<1>5. SumFunctionOnSet(f, R) <= SumFunctionOnSet(g, R)
  BY <1>4, SumMonotone
<1>6. SumFunctionOnSet(f, R) \in Int /\ SumFunctionOnSet(g, R) \in Int
  BY <1>4, SumType
<1>7. f[x] \in Int /\ g[x] \in Int /\ f[x] <= g[x]
  OBVIOUS
<1>8. PICK a : a = SumFunctionOnSet(f, R)
  OBVIOUS
<1>9. PICK b : b = SumFunctionOnSet(g, R)
  OBVIOUS
<1>10. PICK p : p = f[x]
  OBVIOUS
<1>11. PICK q : q = g[x]
  OBVIOUS
<1>12. p \in Int /\ q \in Int /\ p <= q /\ a \in Int /\ b \in Int /\ a <= b
  BY <1>5, <1>6, <1>7, <1>8, <1>9, <1>10, <1>11
<1>13. p + a = q + b
  BY <1>1, <1>2, <1>3, <1>8, <1>9, <1>10, <1>11
<1>14. p = q
  BY <1>12, <1>13
<1>15. QED
  BY <1>10, <1>11, <1>14

\* What two answers share of a token.
Shared(t, pred, gold) ==
    IF Times(t, pred) <= Times(t, gold) THEN Times(t, pred) ELSE Times(t, gold)

\* The overlap is the sum of what is shared over all tokens.
LEMMA OverlapIs ==
    ASSUME NEW X, NEW pred \in Seq(X), NEW gold \in Seq(X),
           NEW T, IsFiniteSet(T), ToSet(pred) \cup ToSet(gold) \subseteq T,
           NEW m, \A t \in T : m[t] = Shared(t, pred, gold)
    PROVE  Overlap(pred, gold) = SumFunctionOnSet(m, T)
<1>1. PICK C : C = ToSet(pred) \cap ToSet(gold)
  OBVIOUS
<1>2. PICK f : f = [t \in C |-> Min({Times(t, pred), Times(t, gold)})]
  OBVIOUS
<1>3. C \subseteq T /\ T \cap C = C /\ IsFiniteSet(C) /\ IsFiniteSet(T \ C)
  <2>1. C \subseteq T
    BY <1>1
  <2>2. QED
    BY <2>1, FS_Subset
<1>4. Overlap(pred, gold) = SumFunctionOnSet(f, C)
  BY <1>1, <1>2 DEF Overlap, SumFunction
<1>5. \A t \in T : m[t] \in Int
  <2> SUFFICES ASSUME NEW t \in T PROVE m[t] \in Int
    OBVIOUS
  <2>1. Times(t, pred) \in Nat /\ Times(t, gold) \in Nat
    BY TimesAre
  <2>2. QED
    BY <2>1 DEF Shared
<1>6. \A t \in C : f[t] = m[t]
  <2> SUFFICES ASSUME NEW t \in C PROVE f[t] = m[t]
    OBVIOUS
  <2>1. PICK a : a = Times(t, pred)
    OBVIOUS
  <2>2. PICK b : b = Times(t, gold)
    OBVIOUS
  <2>3. a \in Nat /\ b \in Nat
    BY <2>1, <2>2, TimesAre
  <2>4. PICK c : c = IF a <= b THEN a ELSE b
    OBVIOUS
  <2>5. {a, b} \in SUBSET Int /\ c \in {a, b} /\ \A x \in {a, b} : c <= x
    BY <2>3, <2>4
  <2>6. Min({a, b}) = c
    BY <2>5, MinIs
  <2>7. t \in T
    BY <1>3
  <2>8. QED
    BY <1>2, <2>1, <2>2, <2>4, <2>6, <2>7 DEF Shared
<1>7. SumFunctionOnSet(m, C) = SumFunctionOnSet(f, C)
  <2>1. \A t \in C : m[t] \in Int /\ f[t] = m[t]
    BY <1>3, <1>5, <1>6
  <2>2. QED
    BY <1>3, <2>1, SumExtensional
<1>8. SumFunctionOnSet(m, T \ C) = 0
  <2>1. ASSUME NEW t \in T \ C PROVE m[t] = 0
    <3>1. PICK a : a = Times(t, pred)
      OBVIOUS
    <3>2. PICK b : b = Times(t, gold)
      OBVIOUS
    <3>3. /\ a \in Nat /\ b \in Nat
          /\ a # 0 <=> t \in ToSet(pred)
          /\ b # 0 <=> t \in ToSet(gold)
      BY <3>1, <3>2, TimesAre
    <3>4. a = 0 \/ b = 0
      BY <1>1, <2>1, <3>3
    <3>5. m[t] = IF a <= b THEN a ELSE b
      BY <3>1, <3>2 DEF Shared
    <3>6. QED
      BY <3>3, <3>4, <3>5
  <2>2. QED
    BY <1>3, <2>1, SumOfZeros
<1>9. SumFunctionOnSet(m, T) = SumFunctionOnSet(m, T \cap C) + SumFunctionOnSet(m, T \ C)
  BY <1>5, SumOfParts
<1>10. SumFunctionOnSet(m, C) \in Int
  <2>1. \A t \in C : m[t] \in Int
    BY <1>3, <1>5
  <2>2. QED
    BY <1>3, <2>1, SumType
<1>11. SumFunctionOnSet(m, T) = SumFunctionOnSet(m, C)
  <2>1. PICK z : z = SumFunctionOnSet(m, C)
    OBVIOUS
  <2>2. SumFunctionOnSet(m, T) = z + 0
    BY <1>3, <1>8, <1>9, <2>1
  <2>3. z \in Int
    BY <1>10, <2>1
  <2>4. QED
    BY <2>1, <2>2, <2>3
<1>12. QED
  BY <1>4, <1>7, <1>11

\* No more is shared than either has, and all of both only when they have the same.
LEMMA OverlapFacts ==
    ASSUME NEW X, NEW pred \in Seq(X), NEW gold \in Seq(X)
    PROVE  /\ Overlap(pred, gold) \in Nat
           /\ Overlap(pred, gold) <= Len(pred) /\ Overlap(pred, gold) <= Len(gold)
           /\ (Overlap(pred, gold) = Len(pred) /\ Overlap(pred, gold) = Len(gold))
                <=> \A t \in ToSet(pred) \cup ToSet(gold) : Times(t, pred) = Times(t, gold)
<1>1. PICK o : o = Overlap(pred, gold)
  OBVIOUS
<1>2. PICK T : T = ToSet(pred) \cup ToSet(gold)
  OBVIOUS
<1>3. PICK m : m = [t \in T |-> Shared(t, pred, gold)]
  OBVIOUS
<1>4. PICK p : p = [t \in T |-> Times(t, pred)]
  OBVIOUS
<1>5. PICK g : g = [t \in T |-> Times(t, gold)]
  OBVIOUS
<1>6. IsFiniteSet(T)
  <2>1. IsFiniteSet(ToSet(pred)) /\ IsFiniteSet(ToSet(gold))
    BY ElementsAreFinite
  <2>2. QED
    BY <1>2, <2>1, FS_Union
<1>7. \A t \in T : /\ p[t] \in Nat /\ g[t] \in Nat
                   /\ m[t] = IF p[t] <= g[t] THEN p[t] ELSE g[t]
  <2> SUFFICES ASSUME NEW t \in T
               PROVE  /\ p[t] \in Nat /\ g[t] \in Nat
                      /\ m[t] = IF p[t] <= g[t] THEN p[t] ELSE g[t]
    OBVIOUS
  <2>1. Times(t, pred) \in Nat /\ Times(t, gold) \in Nat
    BY TimesAre
  <2>2. QED
    BY <1>3, <1>4, <1>5, <2>1 DEF Shared
<1>8. \A t \in T : m[t] \in Nat /\ m[t] <= p[t] /\ m[t] <= g[t]
  BY <1>7
<1>9. SumFunctionOnSet(m, T) = o
  <2>1. \A t \in T : m[t] = Shared(t, pred, gold)
    BY <1>3
  <2>2. ToSet(pred) \cup ToSet(gold) \subseteq T
    BY <1>2
  <2>3. QED
    BY <1>6, <1>1, <2>1, <2>2, OverlapIs
<1>10. SumFunctionOnSet(p, T) = Len(pred) /\ SumFunctionOnSet(g, T) = Len(gold)
  <2>1. (\A t \in T : p[t] = Times(t, pred)) /\ (\A t \in T : g[t] = Times(t, gold))
    BY <1>4, <1>5
  <2>2. ToSet(pred) \subseteq T /\ ToSet(gold) \subseteq T
    BY <1>2
  <2>3. QED
    BY <1>6, <2>1, <2>2, CountsAddUp
<1>11. SumFunctionOnSet(m, T) <= SumFunctionOnSet(p, T)
      /\ SumFunctionOnSet(m, T) <= SumFunctionOnSet(g, T)
  <2>1. \A t \in T : m[t] \in Int /\ p[t] \in Int /\ g[t] \in Int
    BY <1>7, <1>8
  <2>2. QED
    BY <1>6, <1>8, <2>1, SumMonotone
<1>12. SumFunctionOnSet(m, T) \in Nat
  BY <1>6, <1>8, SumIsNatural
<1>13. ASSUME o = Len(pred), o = Len(gold), NEW t \in T
       PROVE  Times(t, pred) = Times(t, gold)
  <2>1. \A x \in T : m[x] \in Int /\ p[x] \in Int /\ g[x] \in Int
    BY <1>7, <1>8
  <2>2. SumFunctionOnSet(m, T) = SumFunctionOnSet(p, T)
    BY <1>9, <1>10, <1>13
  <2>3. SumFunctionOnSet(m, T) = SumFunctionOnSet(g, T)
    BY <1>9, <1>10, <1>13
  <2>4. m[t] = p[t]
    <3>1. \A x \in T : m[x] \in Int /\ p[x] \in Int /\ m[x] <= p[x]
      BY <1>8, <2>1
    <3>2. \A x \in T : m[x] = p[x]
      BY <1>6, <2>2, <3>1, SameSumSameParts
    <3>3. QED
      BY <3>2
  <2>5. m[t] = g[t]
    <3>1. \A x \in T : m[x] \in Int /\ g[x] \in Int /\ m[x] <= g[x]
      BY <1>8, <2>1
    <3>2. \A x \in T : m[x] = g[x]
      BY <1>6, <2>3, <3>1, SameSumSameParts
    <3>3. QED
      BY <3>2
  <2>6. QED
    BY <1>4, <1>5, <2>4, <2>5
<1>14. ASSUME \A t \in T : Times(t, pred) = Times(t, gold)
       PROVE  o = Len(pred) /\ o = Len(gold)
  <2>1. \A t \in T : p[t] = g[t]
    BY <1>4, <1>5, <1>14
  <2>2. \A t \in T : m[t] \in Int /\ p[t] = m[t] /\ g[t] = m[t]
    BY <1>7, <1>8, <2>1
  <2>3. SumFunctionOnSet(m, T) = SumFunctionOnSet(p, T)
    BY <1>6, <2>2, SumExtensional
  <2>4. SumFunctionOnSet(m, T) = SumFunctionOnSet(g, T)
    BY <1>6, <2>2, SumExtensional
  <2>5. QED
    BY <1>9, <1>10, <2>3, <2>4
<1>15. QED
  BY <1>9, <1>10, <1>11, <1>12, <1>13, <1>14, <1>1, <1>2

\* The last of these alone.
LEMMA AllIsShared ==
    ASSUME NEW X, NEW pred \in Seq(X), NEW gold \in Seq(X)
    PROVE  (Overlap(pred, gold) = Len(pred) /\ Overlap(pred, gold) = Len(gold))
             <=> \A t \in ToSet(pred) \cup ToSet(gold) : Times(t, pred) = Times(t, gold)
BY OverlapFacts

\* Another occurrence of what the gold has no more of shares nothing more.
LEMMA RepeatedSharesNothing ==
    ASSUME NEW X, NEW pred \in Seq(X), NEW gold \in Seq(X),
           NEW x \in ToSet(pred) \cup ToSet(gold), Times(x, pred) >= Times(x, gold)
    PROVE  Overlap(Append(pred, x), gold) = Overlap(pred, gold)
<1>1. PICK T : T = ToSet(pred) \cup ToSet(gold)
  OBVIOUS
<1>2. T \subseteq X /\ IsFiniteSet(T)
  <2>1. /\ IsFiniteSet(ToSet(pred)) /\ IsFiniteSet(ToSet(gold))
        /\ ToSet(pred) \subseteq X /\ ToSet(gold) \subseteq X
    BY ElementsAreFinite
  <2>2. QED
    BY <1>1, <2>1, FS_Union
<1>3. PICK more : more = Append(pred, x)
  OBVIOUS
<1>4. x \in X /\ more \in Seq(X) /\ ToSet(more) = ToSet(pred) \cup {x}
  <2>1. x \in X
    BY <1>1, <1>2
  <2>2. QED
    BY <1>3, <2>1, AppendProperties, AppendedElements
<1>5. ToSet(more) \cup ToSet(gold) \subseteq T /\ ToSet(pred) \cup ToSet(gold) \subseteq T
  BY <1>1, <1>4
<1>6. PICK m : m = [t \in T |-> Shared(t, pred, gold)]
  OBVIOUS
<1>7. ASSUME NEW t \in T PROVE m[t] = Shared(t, more, gold)
  <2>1. PICK a : a = Times(t, pred)
    OBVIOUS
  <2>2. PICK b : b = Times(t, gold)
    OBVIOUS
  <2>3. PICK c : c = Times(t, more)
    OBVIOUS
  <2>4. a \in Nat /\ b \in Nat /\ c = a + IF t = x THEN 1 ELSE 0
    BY <1>3, <1>4, <2>1, <2>2, <2>3, TimesAre
  <2>5. t = x => a >= b
    BY <2>1, <2>2
  <2>6. (IF a <= b THEN a ELSE b) = (IF c <= b THEN c ELSE b)
    BY <2>4, <2>5
  <2>7. QED
    BY <1>6, <2>1, <2>2, <2>3, <2>6 DEF Shared
<1>8. \A t \in T : m[t] = Shared(t, pred, gold)
  BY <1>6
<1>9. Overlap(pred, gold) = SumFunctionOnSet(m, T)
  BY <1>2, <1>5, <1>8, OverlapIs
<1>10. Overlap(more, gold) = SumFunctionOnSet(m, T)
  BY <1>2, <1>4, <1>5, <1>7, OverlapIs
<1>11. QED
  BY <1>3, <1>9, <1>10

\* An answer without citations and articles, and with one more token.
LEMMA NormalizedAre ==
    ASSUME NEW X, NEW answer \in Seq(X)
    PROVE  /\ NormalizeAnswer(answer) \in Seq(X)
           /\ ToSet(NormalizeAnswer(answer)) \cap (Citations \cup Articles) = {}
           /\ \A t \in X : NormalizeAnswer(Append(answer, t))
                 = IF t \in Citations \cup Articles THEN NormalizeAnswer(answer)
                   ELSE Append(NormalizeAnswer(answer), t)
<1>1. PICK D : D = Citations \cup Articles
  OBVIOUS
<1>2. PICK w : w = NormalizeAnswer(answer)
  OBVIOUS
<1>3. w = Without(answer, D)
  BY <1>1, <1>2 DEF NormalizeAnswer
<1>4. w \in Seq(X \ D) /\ ToSet(w) = ToSet(answer) \ D
  BY <1>3, WithoutElements
<1>5. w \in Seq(X)
  <2>1. X \ D \subseteq X
    OBVIOUS
  <2>2. QED
    BY <1>4, <2>1, SeqMonotonic
<1>6. ASSUME NEW t \in X
      PROVE  NormalizeAnswer(Append(answer, t)) = IF t \in D THEN w ELSE Append(w, t)
  <2>1. NormalizeAnswer(Append(answer, t)) = Without(Append(answer, t), D)
    BY <1>1 DEF NormalizeAnswer
  <2>2. QED
    BY <1>3, <2>1, WithoutAppend
<1>7. QED
  BY <1>1, <1>2, <1>4, <1>5, <1>6

\* The score of two normalised answers.
LEMMA F1Is ==
    ASSUME NEW prediction, NEW gold,
           NEW pred, pred = NormalizeAnswer(prediction),
           NEW wanted, wanted = NormalizeAnswer(gold)
    PROVE  TokenF1(prediction, gold)
              = IF pred = <<>> \/ wanted = <<>>
                THEN IF pred = wanted THEN <<1, 1>> ELSE <<0, 1>>
                ELSE << 2 * Overlap(pred, wanted), Len(pred) + Len(wanted) >>
BY DEF TokenF1, FullMark, NoMark

\* Between nothing and the full mark, which only the same tokens earn.
LEMMA FullMarkForTheSame ==
    ASSUME NEW X, NEW prediction \in Seq(X), NEW gold \in Seq(X),
           NEW f1, f1 = TokenF1(prediction, gold),
           NEW pred, pred = NormalizeAnswer(prediction),
           NEW wanted, wanted = NormalizeAnswer(gold)
    PROVE  /\ AtMost(NoMark, f1) /\ AtMost(f1, FullMark)
           /\ Same(f1, FullMark) <=> \A t \in ToSet(pred) \cup ToSet(wanted) :
                                        Times(t, pred) = Times(t, wanted)
           /\ pred = wanted => Same(f1, FullMark)
<1>1. pred \in Seq(X) /\ wanted \in Seq(X)
  BY NormalizedAre
<1>2. PICK a, b : a = f1[1] /\ b = f1[2]
  OBVIOUS
<1>3. /\ AtMost(NoMark, f1) <=> 0 * b <= a * 1
      /\ AtMost(f1, FullMark) <=> a * 1 <= 1 * b
      /\ Same(f1, FullMark) <=> a * 1 = 1 * b
  BY <1>2 DEF AtMost, Same, NoMark, FullMark
<1>4. PICK T : T = ToSet(pred) \cup ToSet(wanted)
  OBVIOUS
<1>5. CASE pred = <<>> \/ wanted = <<>>
  <2>1. CASE pred = wanted
    <3>1. a = 1 /\ b = 1
      <4>1. f1 = <<1, 1>>
        BY <1>5, <2>1, F1Is
      <4>2. QED
        BY <1>2, <4>1
    <3>2. \A t \in T : Times(t, pred) = Times(t, wanted)
      BY <2>1
    <3>3. QED
      BY <1>3, <1>4, <3>1, <3>2
  <2>2. CASE pred # wanted
    <3>1. a = 0 /\ b = 1
      <4>1. f1 = <<0, 1>>
        BY <1>5, <2>2, F1Is
      <4>2. QED
        BY <1>2, <4>1
    <3>2. ASSUME NEW s \in Seq(X), NEW none, none = <<>>, s # <<>>
          PROVE  \E t \in ToSet(s) : Times(t, s) # Times(t, none)
      <4>1. none \in Seq(X) /\ ToSet(none) = {}
        <5>1. DOMAIN none = {} /\ none \in Seq(X)
          BY <3>2
        <5>2. QED
          BY <5>1 DEF ToSet
      <4>2. PICK t \in ToSet(s) : TRUE
        BY <3>2, ElementsAreFinite
      <4>3. Times(t, s) # 0 <=> t \in ToSet(s)
        BY TimesAre
      <4>4. Times(t, none) # 0 <=> t \in ToSet(none)
        BY <4>1, TimesAre
      <4>5. QED
        BY <4>1, <4>2, <4>3, <4>4
    <3>3. ~ \A t \in T : Times(t, pred) = Times(t, wanted)
      <4>1. CASE pred = <<>>
        <5>1. PICK t \in ToSet(wanted) : Times(t, wanted) # Times(t, pred)
          BY <1>1, <2>2, <3>2, <4>1
        <5>2. QED
          BY <1>4, <5>1
      <4>2. CASE wanted = <<>>
        <5>1. PICK t \in ToSet(pred) : Times(t, pred) # Times(t, wanted)
          BY <1>1, <2>2, <3>2, <4>2
        <5>2. QED
          BY <1>4, <5>1
      <4>3. QED
        BY <1>5, <4>1, <4>2
    <3>4. QED
      BY <1>3, <1>4, <2>2, <3>1, <3>3
  <2>3. QED
    BY <2>1, <2>2
<1>6. CASE pred # <<>> /\ wanted # <<>>
  <2>1. PICK o : o = Overlap(pred, wanted)
    OBVIOUS
  <2>2. PICK p, w : p = Len(pred) /\ w = Len(wanted)
    OBVIOUS
  <2>3. p \in Nat /\ w \in Nat
    BY <1>1, <2>2
  <2>4. /\ o \in Nat /\ o <= p /\ o <= w
        /\ (o = p /\ o = w) <=> \A t \in T : Times(t, pred) = Times(t, wanted)
    <3>1. /\ o \in Nat /\ o <= Len(pred) /\ o <= Len(wanted)
      BY <1>1, <2>1, OverlapFacts
    <3>2. (o = Len(pred) /\ o = Len(wanted))
             <=> \A t \in T : Times(t, pred) = Times(t, wanted)
      <4>1. (Overlap(pred, wanted) = Len(pred) /\ Overlap(pred, wanted) = Len(wanted))
               <=> \A t \in ToSet(pred) \cup ToSet(wanted) :
                      Times(t, pred) = Times(t, wanted)
        BY <1>1, AllIsShared
      <4>2. QED
        BY <1>4, <2>1, <4>1
    <3>3. QED
      BY <2>2, <3>1, <3>2
  <2>5. a = 2 * o /\ b = p + w
    <3>1. f1 = << 2 * o, p + w >>
      BY <1>6, <2>1, <2>2, F1Is
    <3>2. QED
      BY <1>2, <3>1
  <2>6. AtMost(NoMark, f1) /\ AtMost(f1, FullMark)
    BY <1>3, <2>3, <2>4, <2>5
  <2>7. Same(f1, FullMark) <=> (o = p /\ o = w)
    BY <1>3, <2>3, <2>4, <2>5
  <2>8. ASSUME pred = wanted PROVE \A t \in T : Times(t, pred) = Times(t, wanted)
    BY <2>8
  <2>9. QED
    BY <1>4, <2>4, <2>6, <2>7, <2>8
<1>7. QED
  BY <1>5, <1>6

\* A fraction falls as its denominator grows.
LEMMA LargerDenominator ==
    ASSUME NEW a \in Nat, NEW b \in Nat
    PROVE  a * b <= a * (b + 1)
<1>1. a * (b + 1) = a * b + a /\ a * b \in Nat
  OBVIOUS
<1>2. QED
  BY <1>1

\* What one more token of the prediction does to the score.
LEMMA OneMoreToken ==
    ASSUME NEW X, NEW prediction \in Seq(X), NEW gold \in Seq(X), NEW t \in X,
           NEW f1, f1 = TokenF1(prediction, gold),
           NEW next, next = TokenF1(Append(prediction, t), gold),
           NEW pred, pred = NormalizeAnswer(prediction),
           NEW wanted, wanted = NormalizeAnswer(gold)
    PROVE  /\ t \in Citations => next = f1
           /\ t \in ToSet(pred) \cup ToSet(wanted) /\ Times(t, pred) >= Times(t, wanted)
                 => AtMost(next, f1)
<1>1. pred \in Seq(X) /\ wanted \in Seq(X)
  BY NormalizedAre
<1>2. PICK said : said = Append(prediction, t)
  OBVIOUS
<1>3. PICK more : more = NormalizeAnswer(said)
  OBVIOUS
<1>4. more = IF t \in Citations \cup Articles THEN pred ELSE Append(pred, t)
  BY <1>2, <1>3, NormalizedAre
<1>5. ASSUME t \in Citations PROVE next = f1
  <2>1. NormalizeAnswer(said) = NormalizeAnswer(prediction)
    BY <1>3, <1>4, <1>5
  <2>2. TokenF1(said, gold) = TokenF1(prediction, gold)
    BY <2>1 DEF TokenF1
  <2>3. QED
    BY <1>2, <2>2
<1>6. ASSUME t \in ToSet(pred) \cup ToSet(wanted), Times(t, pred) >= Times(t, wanted)
      PROVE  AtMost(next, f1)
  <2>1. t \notin Citations \cup Articles
    <3>1. /\ ToSet(pred) \cap (Citations \cup Articles) = {}
          /\ ToSet(wanted) \cap (Citations \cup Articles) = {}
      BY NormalizedAre
    <3>2. QED
      BY <1>6, <3>1
  <2>2. more = Append(pred, t)
    BY <1>4, <2>1
  <2>3. more # <<>> /\ Len(more) = Len(pred) + 1 /\ more \in Seq(X)
    <3>1. PICK s : s = Append(pred, t)
      OBVIOUS
    <3>2. s \in Seq(X) /\ Len(s) = Len(pred) + 1 /\ Len(pred) \in Nat
      BY <1>1, <3>1
    <3>3. s # <<>>
      BY <3>2
    <3>4. QED
      BY <2>2, <3>1, <3>2, <3>3
  <2>4. next = TokenF1(said, gold)
    BY <1>2
  <2>5. pred # <<>>
    <3>1. ASSUME pred = <<>> PROVE FALSE
      <4>1. PICK m, n : m = Times(t, pred) /\ n = Times(t, wanted)
        OBVIOUS
      <4>2. /\ m \in Nat /\ (m # 0 <=> t \in ToSet(pred))
            /\ n \in Nat /\ (n # 0 <=> t \in ToSet(wanted))
        BY <1>1, <4>1, TimesAre
      <4>3. ToSet(pred) = {}
        <5>1. DOMAIN pred = {}
          BY <3>1
        <5>2. QED
          BY <5>1 DEF ToSet
      <4>4. m = 0 /\ n # 0
        BY <1>6, <4>2, <4>3
      <4>5. m >= n
        BY <1>6, <4>1
      <4>6. QED
        BY <4>2, <4>4, <4>5
    <3>2. QED
      BY <3>1
  <2>6. CASE wanted = <<>>
    <3>1. f1[1] = 0 /\ f1[2] = 1
      <4>1. f1 = <<0, 1>>
        BY <2>5, <2>6, F1Is
      <4>2. QED
        BY <4>1
    <3>2. next[1] = 0 /\ next[2] = 1
      <4>1. next = <<0, 1>>
        BY <1>3, <2>3, <2>4, <2>6, F1Is
      <4>2. QED
        BY <4>1
    <3>3. QED
      BY <3>1, <3>2 DEF AtMost
  <2>7. CASE wanted # <<>>
    <3>1. PICK o : o = Overlap(pred, wanted)
      OBVIOUS
    <3>2. PICK l : l = Len(pred) + Len(wanted)
      OBVIOUS
    <3>3. Overlap(more, wanted) = o
      BY <1>1, <1>6, <2>2, <3>1, RepeatedSharesNothing
    <3>4. Len(more) + Len(wanted) = l + 1 /\ l \in Nat
      BY <1>1, <2>3, <3>2
    <3>5. o \in Nat
      BY <1>1, <3>1, OverlapFacts
    <3>6. f1[1] = 2 * o /\ f1[2] = l
      <4>1. f1 = << 2 * o, l >>
        BY <2>5, <2>7, <3>1, <3>2, F1Is
      <4>2. QED
        BY <4>1
    <3>7. next[1] = 2 * o /\ next[2] = l + 1
      <4>1. next = << 2 * Overlap(more, wanted), Len(more) + Len(wanted) >>
        BY <1>3, <2>3, <2>4, <2>7, F1Is
      <4>2. QED
        BY <3>3, <3>4, <4>1
    <3>8. (2 * o) * l <= (2 * o) * (l + 1)
      <4>1. 2 * o \in Nat
        BY <3>5
      <4>2. QED
        BY <3>4, <4>1, LargerDenominator
    <3>9. QED
      BY <3>6, <3>7, <3>8 DEF AtMost
  <2>8. QED
    BY <2>6, <2>7
<1>7. QED
  BY <1>5, <1>6

\* Whatever the tokens of the answers are, F1 rewards each only as often as the gold
\* has it, and full marks are for the same tokens (token_f1).
THEOREM F1IsContent == ComputationsSpec => []F1RewardsContentOnce
<1>1. ReturnInv => F1RewardsContentOnce
  <2> SUFFICES ASSUME ReturnInv, output.kind = "f1" PROVE F1RewardsContentOnce
    BY DEF F1RewardsContentOnce
  <2>1. PICK prediction, gold : prediction = input.prediction /\ gold = input.gold
    OBVIOUS
  <2>2. PICK f1 : f1 = output.value
    OBVIOUS
  <2>3. f1 = TokenF1(prediction, gold)
    BY <2>1, <2>2 DEF ReturnInv
  <2>4. PICK X : X = ToSet(prediction) \cup ToSet(gold) \cup Citations
    OBVIOUS
  <2>5. prediction \in Seq(X) /\ gold \in Seq(X)
    <3>1. input.kind = "f1"
      BY DEF ReturnInv, NotYet
    <3>2. prediction \in Answers /\ gold \in Answers
      BY <2>1, <3>1 DEF ReturnInv, Inputs
    <3>3. prediction \in Seq(ToSet(prediction)) /\ gold \in Seq(ToSet(gold))
      BY <3>2, AnswersAssumption
    <3>4. ToSet(prediction) \subseteq X /\ ToSet(gold) \subseteq X
      BY <2>4
    <3>5. QED
      BY <3>3, <3>4, SeqMonotonic
  <2>6. PICK pred : pred = NormalizeAnswer(prediction)
    OBVIOUS
  <2>7. PICK wanted : wanted = NormalizeAnswer(gold)
    OBVIOUS
  <2>8. PICK every : every = ToSet(pred) \cup ToSet(wanted)
    OBVIOUS
  <2>9. /\ AtMost(NoMark, f1) /\ AtMost(f1, FullMark)
        /\ Same(f1, FullMark) <=> \A t \in every : Times(t, pred) = Times(t, wanted)
        /\ pred = wanted => Same(f1, FullMark)
    BY <2>3, <2>5, <2>6, <2>7, <2>8, FullMarkForTheSame
  <2>10. ExactMatch(prediction, gold) = FullMark => pred = wanted
    BY <2>6, <2>7 DEF ExactMatch, FullMark, NoMark
  <2>11. every \subseteq X
    <3>1. pred \in Seq(X) /\ wanted \in Seq(X)
      BY <2>5, <2>6, <2>7, NormalizedAre
    <3>2. QED
      BY <2>8, <3>1, ElementsAreFinite
  <2>12. ASSUME NEW t \in every, Times(t, pred) >= Times(t, wanted)
         PROVE  AtMost(TokenF1(Append(prediction, t), gold), f1)
    <3>1. t \in X
      BY <2>11
    <3>2. PICK next : next = TokenF1(Append(prediction, t), gold)
      OBVIOUS
    <3>3. AtMost(next, f1)
      BY <2>3, <2>5, <2>6, <2>7, <2>8, <2>12, <3>1, <3>2, OneMoreToken
    <3>4. QED
      BY <3>2, <3>3
  <2>13. ASSUME NEW t \in Citations
         PROVE  Same(TokenF1(Append(prediction, t), gold), f1)
    <3>1. t \in X
      BY <2>4
    <3>2. PICK next : next = TokenF1(Append(prediction, t), gold)
      OBVIOUS
    <3>3. next = f1
      BY <2>3, <2>5, <2>6, <2>7, <3>1, <3>2, OneMoreToken
    <3>4. QED
      BY <3>2, <3>3 DEF Same
  <2>14. QED
    BY <2>1, <2>2, <2>6, <2>7, <2>8, <2>9, <2>10, <2>12, <2>13 DEF F1RewardsContentOnce
<1>2. QED
  BY <1>1, ReturnInvHolds, PTL

-----------------------------------------------------------------------------
(* The cost report.                                                        *)

\* Storage and prices at the three scales of the report.
LEMMA CostsAtScale ==
    /\ StorageGB(100) = 208 /\ StorageGB(1000) = 2082 /\ StorageGB(10000) = 20824
    /\ EmbeddedLow(100) = 84 /\ EmbeddedHigh(100) = 84
    /\ EmbeddedLow(1000) = 12213 /\ EmbeddedHigh(1000) = 12213
    /\ EmbeddedLow(10000) = 37143 /\ EmbeddedHigh(10000) = 87143
<1>1. StorageGB(100) = 208 /\ StorageGB(1000) = 2082 /\ StorageGB(10000) = 20824
  BY DEF StorageGB, MilliGiB, BytesPerVector, VectorBytes, MetadataBytes
<1>2. DiskAndBackup(100) = 84 /\ DiskAndBackup(1000) = 213 /\ DiskAndBackup(10000) = 2143
  <2>1. /\ Bigger(208, 1000) = 1000 /\ Bigger(2082, 1000) = 2082
        /\ Bigger(20824, 1000) = 20824
    BY DEF Bigger
  <2>2. /\ (1000 * 80) \div 1000 = 80 /\ (208 * 23) \div 1000 = 4
        /\ (2082 * 80) \div 1000 = 166 /\ (2082 * 23) \div 1000 = 47
        /\ (20824 * 80) \div 1000 = 1665 /\ (20824 * 23) \div 1000 = 478
    OBVIOUS
  <2>3. QED
    BY <1>1, <2>1, <2>2 DEF DiskAndBackup
<1>3. ComputeLow(100) = 0 /\ ComputeLow(1000) = 12000 /\ ComputeLow(10000) = 35000
  <2>1. ASSUME NEW v \in Scales
        PROVE  ComputeLow(v) = IF v = 100 THEN 0 ELSE IF v = 1000 THEN 12000 ELSE 35000
    <3>1. v = 100 \/ v = 1000 \/ v = 10000
      BY DEF Scales
    <3>2. CASE v = 100
      BY <3>2 DEF ComputeLow
    <3>3. CASE v = 1000
      BY <3>3 DEF ComputeLow
    <3>4. CASE v = 10000
      BY <3>4 DEF ComputeLow
    <3>5. QED
      BY <3>1, <3>2, <3>3, <3>4
  <2>2. QED
    BY <2>1 DEF Scales
<1>4. /\ ComputeHigh(100) = 0 /\ ComputeHigh(1000) = 12000 /\ ComputeHigh(10000) = 85000
  BY <1>3 DEF ComputeHigh
<1>5. \A v : /\ EmbeddedLow(v) = DiskAndBackup(v) + ComputeLow(v)
            /\ EmbeddedHigh(v) = DiskAndBackup(v) + ComputeHigh(v)
  BY DEF EmbeddedLow, EmbeddedHigh
<1>6. QED
  BY <1>1, <1>2, <1>3, <1>4, <1>5

\* Provisioned capacity with quantized vectors.
QuantizedCost(v) == ResourceHourCost(v, TRUE)

LEMMA CapacityAtScale == QuantizedCost(10000) = 326652
<1>1. MilliGiB(10000, VectorBytes) = 14305 /\ MilliGiB(10000, MetadataBytes) = 6519
  BY DEF MilliGiB, VectorBytes, MetadataBytes
<1>2. 14305 \div 4 = 3576 /\ (3576 * 912) \div 10 = 326131 /\ (6519 * 80) \div 1000 = 521
  OBVIOUS
<1>3. QED
  BY <1>1, <1>2 DEF QuantizedCost, ResourceHourCost

\* What a volume of queries costs in reads and storage.
UsesUp(v, queries, units, reads, storage) ==
    /\ units \in Nat /\ reads \in Nat /\ storage \in Nat
    /\ reads = (units * queries) \div 1000
    /\ \/ units = 250 /\ storage = 68
       \/ units = 2082 /\ storage = 687
       \/ units = 20824 /\ storage = 6871
    /\ v = 10000 => units = 20824
    /\ ServerlessUsage(v, queries, 1800) = (reads * 1800) \div 100 + storage
    /\ ServerlessUsage(v, queries, 825) = (reads * 825) \div 100 + storage

LEMMA UsageIs ==
    ASSUME NEW v \in Scales, NEW queries \in Nat
    PROVE  \E units, reads, storage : UsesUp(v, queries, units, reads, storage)
<1>1. v = 100 \/ v = 1000 \/ v = 10000
  BY DEF Scales
<1>2. PICK units : units = ReadUnitsPerQuery(v)
  OBVIOUS
<1>3. PICK gb : gb = StorageGB(v)
  OBVIOUS
<1>4. /\ \/ units = 250 /\ gb = 208
         \/ units = 2082 /\ gb = 2082
         \/ units = 20824 /\ gb = 20824
      /\ v = 10000 => units = 20824
  <2>1. (gb = 208 \/ gb = 2082 \/ gb = 20824) /\ (v = 10000 => gb = 20824)
    BY <1>1, <1>3, CostsAtScale
  <2>2. units = Bigger(gb, 250)
    BY <1>2, <1>3 DEF ReadUnitsPerQuery
  <2>3. QED
    BY <2>1, <2>2 DEF Bigger
<1>5. PICK reads : reads = (units * queries) \div 1000
  OBVIOUS
<1>6. reads \in Nat /\ units \in Nat
  <2>1. CASE units = 250
    BY <1>5, <2>1
  <2>2. CASE units = 2082
    BY <1>5, <2>2
  <2>3. CASE units = 20824
    BY <1>5, <2>3
  <2>4. QED
    BY <1>4, <2>1, <2>2, <2>3
<1>7. PICK storage : storage = (gb * 330) \div 1000
  OBVIOUS
<1>8. (208 * 330) \div 1000 = 68 /\ (2082 * 330) \div 1000 = 687 /\ (20824 * 330) \div 1000 = 6871
  OBVIOUS
<1>9. /\ storage \in Nat
      /\ \/ units = 250 /\ storage = 68
         \/ units = 2082 /\ storage = 687
         \/ units = 20824 /\ storage = 6871
  BY <1>4, <1>7, <1>8
<1>10. /\ ServerlessUsage(v, queries, 1800) = (reads * 1800) \div 100 + storage
       /\ ServerlessUsage(v, queries, 825) = (reads * 825) \div 100 + storage
  BY <1>2, <1>3, <1>5, <1>7 DEF ServerlessUsage
<1>11. UsesUp(v, queries, units, reads, storage)
  BY <1>4, <1>5, <1>6, <1>9, <1>10 DEF UsesUp
<1>12. QED
  BY <1>11

\* Up to the floor's volume, usage stays below the floor at either price.
LEMMA UsageBelowFloor ==
    ASSUME NEW v \in Scales, NEW queries \in Nat, queries <= FloorVolume
    PROVE  /\ ServerlessUsage(v, queries, 1800) < ServerlessFloor
           /\ ServerlessBilled(v, queries) = ServerlessFloor
<1>1. PICK units, reads, storage : UsesUp(v, queries, units, reads, storage)
  BY UsageIs
<1>2. /\ units \in Nat /\ reads \in Nat /\ storage \in Nat
      /\ reads = (units * queries) \div 1000
      /\ \/ units = 250 /\ storage = 68
         \/ units = 2082 /\ storage = 687
         \/ units = 20824 /\ storage = 6871
      /\ ServerlessUsage(v, queries, 1800) = (reads * 1800) \div 100 + storage
      /\ ServerlessUsage(v, queries, 825) = (reads * 825) \div 100 + storage
  BY <1>1 DEF UsesUp
<1>3. queries <= 115
  BY DEF FloorVolume
<1>4. reads <= 2394
  <2>1. CASE units = 250
    BY <1>2, <1>3, <2>1
  <2>2. CASE units = 2082
    BY <1>2, <1>3, <2>2
  <2>3. CASE units = 20824
    BY <1>2, <1>3, <2>3
  <2>4. QED
    BY <1>2, <2>1, <2>2, <2>3
<1>5. /\ (reads * 1800) \div 100 \in Nat /\ (reads * 1800) \div 100 <= 43092
      /\ (reads * 825) \div 100 \in Nat /\ (reads * 825) \div 100 <= 43092
  BY <1>2, <1>4
<1>6. QED
  BY <1>2, <1>5 DEF ServerlessFloor, ServerlessBilled, Bigger

\* Beyond it the largest scale outgrows the floor; and where its bill, at the
\* lower price, outgrows the embedded one.
LEMMA LargestScale ==
    ASSUME NEW queries \in Nat
    PROVE  /\ ServerlessUsage(10000, queries, 1800) < ServerlessFloor => queries <= FloorVolume
           /\ ServerlessBilled(10000, queries) \in Nat
           /\ 50000 <= ServerlessBilled(10000, queries)
           /\ ServerlessBilled(10000, queries) <= 87143 <=> queries <= WashVolume
<1>1. 10000 \in Scales
  BY DEF Scales
<1>2. PICK units, reads, storage : UsesUp(10000, queries, units, reads, storage)
  BY <1>1, UsageIs
<1>3. /\ reads \in Nat /\ reads = (20824 * queries) \div 1000
      /\ ServerlessUsage(10000, queries, 1800) = (reads * 1800) \div 100 + 6871
      /\ ServerlessUsage(10000, queries, 825) = (reads * 825) \div 100 + 6871
  BY <1>2 DEF UsesUp
<1>4. queries > 115 => reads >= 2415
  BY <1>3
<1>5. queries <= 467 => reads <= 9724
  BY <1>3
<1>6. queries > 467 => reads >= 9745
  BY <1>3
<1>7. reads >= 2415 => (reads * 1800) \div 100 + 6871 >= 50000
  BY <1>3
<1>8. (reads * 825) \div 100 \in Nat
  BY <1>3
<1>9. /\ reads <= 9724 => (reads * 825) \div 100 + 6871 <= 87143
      /\ reads >= 9745 => (reads * 825) \div 100 + 6871 > 87143
  BY <1>3
<1>10. ServerlessBilled(10000, queries)
        = IF (reads * 825) \div 100 + 6871 > 50000 THEN (reads * 825) \div 100 + 6871 ELSE 50000
  BY <1>3 DEF ServerlessBilled, ServerlessFloor, Bigger
<1>11. ServerlessUsage(10000, queries, 1800) < ServerlessFloor => queries <= FloorVolume
  BY <1>3, <1>4, <1>7 DEF ServerlessFloor, FloorVolume
<1>12. QED
  BY <1>5, <1>6, <1>8, <1>9, <1>10, <1>11 DEF WashVolume

\* The rows of the sensitivity table.
LEMMA RowsAre ==
    /\ SensitivityRow(10000, 1).billed = 50000 /\ SensitivityRow(10000, 1).high = 87143
    /\ SensitivityRow(10000, 10).billed = 92770 /\ SensitivityRow(10000, 10).high = 87143
    /\ SensitivityRow(10000, 100).billed = 865861 /\ SensitivityRow(10000, 100).high = 174286
<1>1. ReadUnitsPerQuery(10000) = 20824
  BY CostsAtScale DEF ReadUnitsPerQuery, Bigger
<1>2. (20824 * 330) \div 1000 = 6871
  OBVIOUS
<1>3. /\ (20824 * 50) \div 1000 = 1041 /\ (1041 * 825) \div 100 = 8588
      /\ (20824 * 500) \div 1000 = 10412 /\ (10412 * 825) \div 100 = 85899
      /\ (20824 * 5000) \div 1000 = 104120 /\ (104120 * 825) \div 100 = 858990
  OBVIOUS
<1>4. /\ ServerlessUsage(10000, 50, 825) = 15459
      /\ ServerlessUsage(10000, 500, 825) = 92770
      /\ ServerlessUsage(10000, 5000, 825) = 865861
  BY <1>1, <1>2, <1>3, CostsAtScale DEF ServerlessUsage
<1>5. /\ ServerlessBilled(10000, 50) = 50000 /\ ServerlessBilled(10000, 500) = 92770
      /\ ServerlessBilled(10000, 5000) = 865861
  BY <1>4 DEF ServerlessBilled, ServerlessFloor, Bigger
<1>6. /\ DefaultQueries * 1 = 50 /\ DefaultQueries * 10 = 500 /\ DefaultQueries * 100 = 5000
      /\ HostFactor(1) = 1 /\ HostFactor(10) = 1 /\ HostFactor(100) = 2
  BY SMTT(30) DEF DefaultQueries, HostFactor
<1>7. QED
  BY <1>5, <1>6, CostsAtScale DEF SensitivityRow

\* At every volume the sentences of the report are true of its numbers, two of them
\* exactly up to the volumes named (render_markdown).
THEOREM ReportIsTrue == ComputationsSpec => []ReportIsBackedByItsNumbers
<1>1. ReturnInv => ReportIsBackedByItsNumbers
  <2> SUFFICES ASSUME ReturnInv, output.kind = "cost" PROVE ReportIsBackedByItsNumbers
    BY DEF ReportIsBackedByItsNumbers
  <2>1. PICK queries, scale, rows :
           queries = input.queries /\ scale = output.value.scales
           /\ rows = output.value.sensitivity
    OBVIOUS
  <2>2. queries \in Nat
    <3>1. input.kind = "cost"
      BY DEF ReturnInv, NotYet
    <3>2. queries \in Volumes
      BY <2>1, <3>1 DEF ReturnInv, Inputs
    <3>3. QED
      BY <3>2, VolumesAssumption
  <2>3. /\ scale = [v \in Scales |-> ScaleCost(v, queries)]
        /\ rows = [m \in {1, 10, 100} |-> SensitivityRow(10000, m)]
    BY <2>1 DEF ReturnInv
  <2>4. ASSUME NEW v \in Scales
        PROVE  /\ scale[v].serverlessBilled = ServerlessBilled(v, queries)
               /\ queries <= FloorVolume =>
                    /\ scale[v].serverlessBilled = ServerlessFloor
                    /\ ServerlessUsage(v, queries, 1800) < ServerlessFloor
               /\ scale[v].embeddedLow <= scale[v].embeddedHigh
               /\ scale[v].freeTier => v # 10000
    <3>1. /\ scale[v].serverlessBilled = ServerlessBilled(v, queries)
          /\ scale[v].embeddedLow = EmbeddedLow(v) /\ scale[v].embeddedHigh = EmbeddedHigh(v)
          /\ scale[v].freeTier = (StorageGB(v) <= ServerlessFreeTier)
      BY <2>3, <2>4, Zenon DEF ScaleCost
    <3>2. v = 100 \/ v = 1000 \/ v = 10000
      BY DEF Scales
    <3>3. EmbeddedLow(v) <= EmbeddedHigh(v)
      BY <3>2, CostsAtScale
    <3>4. queries <= FloorVolume =>
            /\ ServerlessUsage(v, queries, 1800) < ServerlessFloor
            /\ ServerlessBilled(v, queries) = ServerlessFloor
      BY <2>2, UsageBelowFloor
    <3>5. ASSUME v = 10000 PROVE ~ scale[v].freeTier
      <4>1. ~ (StorageGB(v) <= ServerlessFreeTier)
        BY <3>5, CostsAtScale DEF ServerlessFreeTier
      <4>2. scale[v].freeTier = (StorageGB(v) <= ServerlessFreeTier)
        BY <3>1
      <4>3. QED
        BY <4>1, <4>2, Zenon
    <3>6. QED
      BY <3>1, <3>3, <3>4, <3>5, SMTT(30)
  <2>5. /\ scale[10000].resourceHour > 3 * scale[10000].embeddedHigh
        /\ scale[10000].resourceHour < 10 * scale[10000].embeddedLow
        /\ scale[10000].embeddedLow <= scale[10000].serverlessBilled
        /\ scale[10000].serverlessBilled <= scale[10000].embeddedHigh <=> queries <= WashVolume
    <3>1. PICK top : top = 10000
      OBVIOUS
    <3>2. top \in Scales
      BY <3>1, SMTT(30) DEF Scales
    <3>3. /\ scale[top].resourceHour = QuantizedCost(top)
          /\ scale[top].embeddedLow = EmbeddedLow(top)
          /\ scale[top].embeddedHigh = EmbeddedHigh(top)
      BY <2>3, <3>2, Zenon DEF ScaleCost, QuantizedCost
    <3>4. scale[top].resourceHour = 326652
      BY <3>1, <3>3, CapacityAtScale
    <3>5. scale[top].embeddedLow = 37143 /\ scale[top].embeddedHigh = 87143
      BY <3>1, <3>3, CostsAtScale
    <3>6. PICK billed : billed = scale[top].serverlessBilled
      OBVIOUS
    <3>7. billed = ServerlessBilled(10000, queries)
      BY <2>4, <3>1, <3>2, <3>6
    <3>8. 50000 <= billed /\ billed \in Nat /\ (billed <= 87143 <=> queries <= WashVolume)
      BY <2>2, <3>7, LargestScale
    <3>9. QED
      BY <3>1, <3>4, <3>5, <3>6, <3>8
  <2>6. ASSUME NEW m \in {1, 10, 100}, NEW n \in {1, 10, 100}, m < n
        PROVE  rows[n].billed * (rows[m].high \div 100)
                  >= rows[m].billed * (rows[n].high \div 100)
    <3>1. /\ rows[1].billed = 50000 /\ rows[1].high = 87143
          /\ rows[10].billed = 92770 /\ rows[10].high = 87143
          /\ rows[100].billed = 865861 /\ rows[100].high = 174286
      BY <2>3, RowsAre
    <3>2. 87143 \div 100 = 871 /\ 174286 \div 100 = 1742
      OBVIOUS
    <3>3. (m = 1 /\ n = 10) \/ (m = 1 /\ n = 100) \/ (m = 10 /\ n = 100)
      BY <2>6
    <3>4. QED
      BY <3>1, <3>2, <3>3
  <2>7. (\A v \in Scales : ServerlessUsage(v, queries, 1800) < ServerlessFloor)
          <=> queries <= FloorVolume
    <3>1. 10000 \in Scales
      BY DEF Scales
    <3>2. QED
      BY <2>2, <2>4, <3>1, LargestScale
  <2>8. QED
    BY <2>1, <2>4, <2>5, <2>6, <2>7, SMTT(30) DEF ReportIsBackedByItsNumbers
<1>2. QED
  BY <1>1, ReturnInvHolds, PTL
=============================================================================
